------------------------------- MODULE Shell -------------------------------
(***************************************************************************)
(* The shell (user/sh.c): a line is cut into pipeline stages and words,    *)
(* and a pipeline is run with one process per stage. The pipes are those   *)
(* of PipeRing and Files, cut down to who holds which end and whether      *)
(* there is something to read.                                             *)
(*                                                                         *)
(* A character of a line is a space, a pipe bar, a redirection sign, a     *)
(* number sign or a letter of a word.                                      *)
(***************************************************************************)
EXTENDS Naturals, Sequences, SequencesExt, FiniteSets

CONSTANTS
    SH_MAX_ARGS, SH_MAX_STAGES,
    Lines,      \* the lines that may be read
    MaxLines,   \* bound: pipelines run
    MaxWrites   \* bound: writes of a program

VARIABLES
    line,       \* the last line read
    shell,      \* [pc, count, redirect, stage, failed, lines]
    child,      \* per stage: [pc, reads, writes]
    ends,       \* per process (0 is the shell): the pipe ends it holds
    full        \* the pipes that hold data

vars == <<line, shell, child, ends, full>>

Space == " "
None == <<>>

-----------------------------------------------------------------------------
(* Parsing *)

Trim(s) ==
    LET words == {i \in 1..Len(s) : s[i] # Space}
    IN  IF words = {} THEN <<>>
        ELSE SubSeq(s, CHOOSE i \in words : \A j \in words : i <= j, CHOOSE i \in words : \A j \in words : i >= j)

Stages(stages) == [ok |-> TRUE, stages |-> stages]
BadLine == [ok |-> FALSE, stages |-> <<>>]

\* split_pipeline. A bar at the very end of the line starts no stage; a stage that is a
\* comment ends the line.
RECURSIVE SplitFrom(_, _)
SplitFrom(rest, stages) ==
    IF rest = <<>> THEN Stages(stages)
    ELSE LET bars  == {i \in 1..Len(rest) : rest[i] = "|"}
             bar   == IF bars = {} THEN Len(rest) + 1 ELSE CHOOSE i \in bars : \A j \in bars : i <= j
             stage == Trim(SubSeq(rest, 1, bar - 1))
         IN  IF stage = <<>> THEN BadLine
             ELSE IF stage[1] = "#" THEN Stages(stages)
             ELSE IF Len(stages) >= SH_MAX_STAGES THEN BadLine
             ELSE SplitFrom(SubSeq(rest, bar + 1, Len(rest)), Append(stages, stage))

Words(args, path) == [ok |-> TRUE, args |-> args, path |-> path]
BadStage == [ok |-> FALSE, args |-> <<>>, path |-> None]

\* The characters from position i on up to one of a set.
UpTo(s, i, stops) ==
    LET after == {j \in i..Len(s) : s[j] \in stops}
        stop  == IF after = {} THEN Len(s) + 1 ELSE CHOOSE j \in after : \A k \in after : j <= k
    IN  SubSeq(s, i, stop - 1)

\* Mutant: one space is skipped, not all.
SkipOneSpace(s, i) == IF i <= Len(s) /\ s[i] = Space THEN i + 1 ELSE i

SkipSpaces(s, i) ==
    LET after == {j \in i..Len(s) : s[j] # Space}
    IN  IF after = {} THEN Len(s) + 1 ELSE CHOOSE j \in after : \A k \in after : j <= k

\* tokenize_stage. The end of a word is overwritten with a zero byte; where the word ends
\* at a redirection sign that is the sign itself, at which the loop then stops.
RECURSIVE TokenizeFrom(_, _, _, _)
TokenizeFrom(s, from, args, path) ==
    LET i == SkipSpaces(s, from)
    IN  IF i > Len(s) \/ (i <= Len(s) /\ s[i] = "#") THEN Words(args, path)
        ELSE IF s[i] = ">"
          THEN LET j == SkipSpaces(s, i + 1)
                   p == UpTo(s, j, {Space})
               IN  IF j > Len(s) THEN BadStage ELSE TokenizeFrom(s, j + Len(p) + 1, args, p)
        ELSE IF Len(args) + 1 >= SH_MAX_ARGS THEN BadStage
        ELSE LET word == UpTo(s, i, {Space, ">"})
                 next == i + Len(word)
             IN  IF next <= Len(s) /\ s[next] = ">" THEN Words(Append(args, word), path)
                 ELSE TokenizeFrom(s, next + 1, Append(args, word), path)

SplitPipeline(l) == SplitFrom(l, <<>>)
TokenizeStage(s) == TokenizeFrom(s, 1, <<>>, None)

Parsed(ok, args, path) == [ok |-> ok, args |-> args, path |-> path]
Rejected == Parsed(FALSE, <<>>, None)

\* The head of the loop of run_shell: every stage needs a word, and only the last one may
\* be redirected. A line without a stage is nothing to run.
Parse(l) ==
    LET split == SplitPipeline(l)
        n == Len(split.stages)
        words == [k \in 1..n |-> TokenizeStage(split.stages[k])]
    IN  IF ~split.ok \/ n = 0 \/ (\E k \in 1..n : ~words[k].ok \/ words[k].args = <<>>)
             \/ (\E k \in 1..n - 1 : words[k].path # None)
          THEN Rejected
          ELSE Parsed(TRUE, [k \in 1..n |-> words[k].args], words[n].path)

-----------------------------------------------------------------------------
(* run_pipeline *)

NoChild == [pc |-> "none", writes |-> 0]
Procs == 0..SH_MAX_STAGES
Pipes == 1..SH_MAX_STAGES - 1
BothEnds(k) == {<<k, "r">>, <<k, "w">>}
EndsOf(n) == UNION {BothEnds(k) : k \in 1..n - 1}
Holders(end) == {p \in Procs : end \in ends[p]}

\* run_builtin changes nothing here but the exit of the shell; in a pipeline, or with a
\* redirection, a builtin is refused.
ReadLine(l) ==
    /\ shell.pc = "prompt" /\ ~shell.failed /\ shell.lines < MaxLines
    /\ line' = l
    /\ \E builtin \in {"no", "cd", "exit"} :
         shell' = [shell EXCEPT !.pc = IF ~Parse(l).ok THEN "prompt"
                                       ELSE IF builtin = "no" THEN "pipes"
                                       ELSE IF builtin = "exit" /\ Len(Parse(l).args) = 1 THEN "done"
                                       ELSE "prompt",
                                !.count = Len(Parse(l).args), !.redirect = Parse(l).path # None,
                                !.stage = 1, !.lines = @ + 1]
    /\ child' = [k \in DOMAIN child |-> NoChild]
    /\ UNCHANGED <<ends, full>>

\* A call that fails ends the command at once: pipes stay open, children are not waited for.
Fails == shell' = [shell EXCEPT !.pc = "prompt", !.failed = TRUE]

MakePipe(ok) ==
    /\ shell.pc = "pipes"
    /\ IF shell.stage = shell.count
         THEN /\ ok
              /\ shell' = [shell EXCEPT !.pc = "fork", !.stage = 1]
              /\ UNCHANGED ends
       ELSE IF ok
         THEN /\ shell' = [shell EXCEPT !.stage = @ + 1]
              /\ ends' = [ends EXCEPT ![0] = @ \union BothEnds(shell.stage)]
       ELSE Fails /\ UNCHANGED ends
    /\ UNCHANGED <<line, child, full>>

ForkStage(ok) ==
    /\ shell.pc = "fork"
    /\ IF ok
         THEN /\ shell' = [shell EXCEPT !.stage = @ + 1, !.pc = IF shell.stage = shell.count THEN "close" ELSE "fork"]
              /\ child' = [child EXCEPT ![shell.stage].pc = "forked"]
              /\ ends' = [ends EXCEPT ![shell.stage] = ends[0]]
         ELSE Fails /\ UNCHANGED <<child, ends>>
    /\ UNCHANGED <<line, full>>

\* Mutant: the shell keeps its write ends.
CloseReadEnds(n) == [ends EXCEPT ![0] = @ \ {<<k, "r">> : k \in 1..n - 1}]

\* The shell closes its copies of the pipe ends before it waits.
ClosePipes(n) == [ends EXCEPT ![0] = @ \ EndsOf(n)]

CloseAll ==
    /\ shell.pc = "close"
    /\ ends' = ClosePipes(shell.count)
    /\ shell' = [shell EXCEPT !.pc = "wait", !.stage = 1]
    /\ UNCHANGED <<line, child, full>>

\* wait_children collects the children in the order they were started.
WaitChild ==
    /\ shell.pc = "wait" /\ child[shell.stage].pc = "zombie"
    /\ child' = [child EXCEPT ![shell.stage] = NoChild]
    /\ shell' = [shell EXCEPT !.stage = @ + 1, !.pc = IF shell.stage = shell.count THEN "prompt" ELSE "wait"]
    /\ UNCHANGED <<line, ends, full>>

-----------------------------------------------------------------------------
(* The child of a stage, and external: the program it becomes *)

Stdin(k) == IF k > 1 THEN {<<k - 1, "r">>} ELSE {}
Stdout(k) == IF k < shell.count THEN {<<k, "w">>} ELSE {}

Exits(k) ==
    /\ child' = [child EXCEPT ![k].pc = "zombie"]
    /\ ends' = [ends EXCEPT ![k] = {}]
    /\ UNCHANGED <<line, shell, full>>

\* dup2 for standard input and output, close of every pipe end, then the program. The
\* redirection of the last stage or the execution may fail. A program either reads its
\* input to the end or does not read it.
ChildExec(k, ok) ==
    /\ child[k].pc = "forked"
    /\ IF ok
         THEN /\ ends' = [ends EXCEPT ![k] = (@ \ EndsOf(shell.count)) \union Stdin(k) \union Stdout(k)]
              /\ \E kind \in {"filter", "source"} :
                    child' = [child EXCEPT ![k] = [pc |-> IF k = 1 THEN "source" ELSE kind, writes |-> 0]]
              /\ UNCHANGED <<line, shell, full>>
         ELSE Exits(k)

Running(k) == child[k].pc \in {"source", "filter"}

ProgramWrites(k) ==
    /\ Running(k) /\ Stdout(k) # {} /\ child[k].writes < MaxWrites
    /\ IF Holders(<<k, "r">>) = {} THEN Exits(k)
       ELSE /\ k \notin full
            /\ full' = full \union {k}
            /\ child' = [child EXCEPT ![k].writes = @ + 1]
            /\ UNCHANGED <<line, shell, ends>>

ProgramReads(k) ==
    /\ child[k].pc = "filter"
    /\ IF k - 1 \in full THEN full' = full \ {k - 1} /\ UNCHANGED <<line, shell, child, ends>>
       ELSE Holders(<<k - 1, "w">>) = {} /\ Exits(k)

ProgramEnds(k) == child[k].pc = "source" /\ Exits(k)

\* A pipe that nobody holds is gone, with what was in it.
PipeGone(k) ==
    /\ k \in full /\ Holders(<<k, "r">>) = {} /\ Holders(<<k, "w">>) = {}
    /\ full' = full \ {k}
    /\ UNCHANGED <<line, shell, child, ends>>

Init ==
    /\ line = <<>>
    /\ shell = [pc |-> "prompt", count |-> 0, redirect |-> FALSE, stage |-> 1, failed |-> FALSE, lines |-> 0]
    /\ child = [k \in 1..SH_MAX_STAGES |-> NoChild]
    /\ ends = [p \in Procs |-> {}]
    /\ full = {}

Next ==
    \/ \E l \in Lines : ReadLine(l)
    \/ \E ok \in BOOLEAN : MakePipe(ok) \/ ForkStage(ok)
    \/ CloseAll \/ WaitChild
    \/ \E k \in 1..SH_MAX_STAGES :
         \/ \E ok \in BOOLEAN : ChildExec(k, ok)
         \/ ProgramWrites(k) \/ ProgramReads(k) \/ ProgramEnds(k)
    \/ \E k \in Pipes : PipeGone(k)

Spec == Init /\ [][Next]_vars

-----------------------------------------------------------------------------
(* Properties *)

\* The words of a stage by the spaces between them, and what they mean when every
\* redirection sign starts a word.
StartsOf(s) == {i \in 1..Len(s) : s[i] # Space /\ (i = 1 \/ s[i - 1] = Space)}
WordAt(s, n) ==
    LET i == CHOOSE i \in StartsOf(s) : Cardinality({j \in StartsOf(s) : j < i}) = n - 1
    IN  UpTo(s, i, {Space})
WordsOf(s) == [n \in 1..Cardinality(StartsOf(s)) |-> WordAt(s, n)]

\* A word that redirects is a sign alone, with the next word, or the sign and the path.
\* The words before a comment that are neither are the arguments.
PathWord(w, n) == n > 1 /\ w[n - 1] = <<">">>
SignWord(w, n) == w[n][1] = ">" /\ ~PathWord(w, n)
CommentAt(w) == {n \in 1..Len(w) : w[n][1] = "#" /\ ~PathWord(w, n)}
Live(w) == {n \in 1..Len(w) : \A c \in CommentAt(w) : n < c}
Arguments(w) == {n \in Live(w) : ~PathWord(w, n) /\ ~SignWord(w, n)}
Path(w) ==
    LET signs == {n \in Live(w) : SignWord(w, n)}
        n == CHOOSE n \in signs : TRUE
    IN  IF signs = {} THEN None ELSE IF w[n] = <<">">> THEN w[n + 1] ELSE Tail(w[n])

SignsApart(s) ==
    LET signs == {i \in 1..Len(s) : s[i] = ">"}
    IN  signs \subseteq StartsOf(s) /\ Cardinality(signs) <= 1

\* A command line says what it runs: cut at the bars, each stage's words are its
\* arguments, but for a redirection, whose path is where the output of the last stage
\* goes (split_pipeline, tokenize_stage). For stages with at most one redirection sign,
\* that starts a word.
ParsesWords ==
    Parse(line).ok =>
      LET stages == SplitPipeline(line).stages
          w(k) == WordsOf(stages[k])
      IN  /\ Len(stages) \in 1..SH_MAX_STAGES
          /\ \A k \in 1..Len(stages) :
               SignsApart(stages[k]) =>
                 /\ Parse(line).args[k] = [n \in 1..Cardinality(Arguments(w(k))) |->
                      w(k)[CHOOSE i \in Arguments(w(k)) : Cardinality({j \in Arguments(w(k)) : j < i}) = n - 1]]
                 /\ Path(w(k)) = IF k = Len(stages) THEN Parse(line).path ELSE None

CanMove(k) ==
    \/ child[k].pc \in {"forked", "source"}
    \/ child[k].pc = "filter" /\ (k - 1 \in full \/ Holders(<<k - 1, "w">>) = {})

\* While the shell waits, somebody can go on: no reader waits for a writer that is itself
\* waiting or is the shell. Back at the prompt the shell holds no pipe and has no child,
\* unless a pipe or a fork failed (run_pipeline).
PipelineEnds ==
    /\ shell.pc = "wait" => child[shell.stage].pc = "zombie" \/ \E k \in 1..SH_MAX_STAGES : CanMove(k)
    /\ shell.pc = "prompt" /\ ~shell.failed => ends[0] = {} /\ \A k \in DOMAIN child : child[k] = NoChild

\* On a line without comments, a redirection sign with a word after it takes the output
\* of the last stage.
RedirectTaken ==
    Parse(line).ok /\ "#" \notin Range(line) =>
      LET last == Last(SplitPipeline(line).stages)
      IN  (\E i, j \in 1..Len(last) : i < j /\ last[i] = ">" /\ last[j] = "w") => Parse(line).path # None
=============================================================================
