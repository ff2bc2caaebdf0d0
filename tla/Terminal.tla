------------------------------ MODULE Terminal ------------------------------
(***************************************************************************)
(* Console output: console_write_len sends every character to the serial   *)
(* port, to the VGA text screen (vga.c) and, once it is there, to the      *)
(* framebuffer console (framebuffer.c).                                    *)
(*                                                                         *)
(* Each screen is a function from lines to columns. A line of the VGA      *)
(* screen is a row of characters. A line of the framebuffer is a scan line *)
(* of FONT_HEIGHT per row of characters, and there may be scan lines left  *)
(* over below the last row.                                                *)
(***************************************************************************)
EXTENDS Naturals, Sequences, SequencesExt

CONSTANTS
    VGA_WIDTH, VGA_HEIGHT,
    FONT_HEIGHT,
    Modes,          \* what the boot loader may say of the framebuffer: [usable, columns, height]
    TextChars,      \* ordinary characters; "LF", "CR" and "TAB" are written too
    MaxWritten      \* bound

VARIABLES
    vga,
    fb,             \* the framebuffer console, usable once framebuffer_init succeeded
    written, drawn  \* history: what was written, and what was since framebuffer_init

vars == <<vga, fb, written, drawn>>

Chars == TextChars \union {"LF", "CR", "TAB"}

Blank == " "
BlankLine(columns) == [c \in 0..columns - 1 |-> Blank]

-----------------------------------------------------------------------------
(* A screen of either kind: lines, line height of a row, cursor *)

Screen(columns, height, font) ==
    [usable |-> TRUE, columns |-> columns, height |-> height, font |-> font, row |-> 0, column |-> 0,
     lines |-> [l \in 0..height - 1 |-> BlankLine(columns)]]
Absent == [Screen(1, 1, 1) EXCEPT !.usable = FALSE]

Rows(s) == s.height \div s.font

\* vga_put_entry_at and framebuffer_draw_glyph: part of the character in each line of its row.
Draw(s, ch) ==
    [s EXCEPT !.lines = [l \in DOMAIN s.lines |->
                           IF l \div s.font = s.row THEN [s.lines[l] EXCEPT ![s.column] = ch] ELSE s.lines[l]]]

\* All lines move up by the height of a row, those below the last row included.
Scroll(s) ==
    IF s.font > 1 /\ s.height <= s.font THEN s
    ELSE [s EXCEPT !.lines = [l \in DOMAIN s.lines |-> IF l < s.height - s.font THEN s.lines[l + s.font]
                                                       ELSE BlankLine(s.columns)]]

\* Mutant: the screen scrolls one row early.
NewlineEarly(s) ==
    IF s.row + 2 < Rows(s) THEN [s EXCEPT !.column = 0, !.row = @ + 1] ELSE Scroll([s EXCEPT !.column = 0])

Newline(s) ==
    IF s.row + 1 < Rows(s) THEN [s EXCEPT !.column = 0, !.row = @ + 1] ELSE Scroll([s EXCEPT !.column = 0])

PutGlyph(s, ch) ==
    LET drawn1 == [Draw(s, ch) EXCEPT !.column = @ + 1]
    IN  IF drawn1.column >= s.columns THEN Newline(drawn1) ELSE drawn1

\* VGA knows no control character but the newline: it shows the others.
VgaWriteChar(s, ch) == IF ch = "LF" THEN Newline(s) ELSE PutGlyph(s, ch)

Spaces(s) == [k \in 1..4 - (s.column % 4) |-> Blank]
FramebufferWriteChar(s, ch) ==
    IF ~s.usable THEN s
    ELSE CASE ch = "CR" -> [s EXCEPT !.column = 0]
           [] ch = "LF" -> Newline(s)
           [] ch = "TAB" -> FoldLeft(PutGlyph, s, Spaces(s))
           [] OTHER -> PutGlyph(s, ch)

-----------------------------------------------------------------------------
\* console_write_len, one character of it: with interrupts off nothing comes between.
Write(ch) ==
    /\ Len(written) < MaxWritten
    /\ vga' = VgaWriteChar(vga, ch)
    /\ fb' = FramebufferWriteChar(fb, ch)
    /\ written' = Append(written, ch)
    /\ drawn' = IF fb.usable THEN Append(drawn, ch) ELSE drawn

\* framebuffer_init, once: a mode of the wrong kind, or too small for one character, is
\* not used.
FramebufferInit(mode) ==
    /\ ~fb.usable
    /\ mode.usable /\ mode.columns > 0 /\ mode.height >= FONT_HEIGHT
    /\ fb' = Screen(mode.columns, mode.height, FONT_HEIGHT)
    /\ UNCHANGED <<vga, written, drawn>>

Init == vga = Screen(VGA_WIDTH, VGA_HEIGHT, 1) /\ fb = Absent /\ written = <<>> /\ drawn = <<>>

Next == (\E ch \in Chars : Write(ch)) \/ (\E mode \in Modes : FramebufferInit(mode))

Spec == Init /\ [][Next]_vars

-----------------------------------------------------------------------------
(* Properties *)

\* The text on a page without end: a sequence of rows, the last one being written.
NewRow(p, columns) == [rows |-> Append(p.rows, BlankLine(columns)), column |-> 0]
OnPage(p, ch, columns) ==
    LET q == [p EXCEPT !.rows[Len(p.rows)][p.column] = ch, !.column = @ + 1]
    IN  IF q.column = columns THEN NewRow(q, columns) ELSE q
Page(text, columns, controls) ==
    FoldLeft(LAMBDA p, ch : CASE ch = "LF" -> NewRow(p, columns)
                              [] ch = "CR" /\ controls -> [p EXCEPT !.column = 0]
                              [] ch = "TAB" /\ controls -> FoldLeft(LAMBDA q, b : OnPage(q, b, columns), p, Spaces(p))
                              [] OTHER -> OnPage(p, ch, columns),
             [rows |-> <<BlankLine(columns)>>, column |-> 0], text)

\* The screen shows the end of the page: its last rows, blank lines where it has fewer,
\* and nothing below the last row. The cursor is where the page is being written.
ShowsEndOf(s, page) ==
    LET top == IF Len(page.rows) > Rows(s) THEN Len(page.rows) - Rows(s) ELSE 0
    IN  /\ \A l \in 0..s.height - 1 :
             LET r == l \div s.font IN
             s.lines[l] = IF r < Rows(s) /\ top + r + 1 <= Len(page.rows) THEN page.rows[top + r + 1]
                          ELSE BlankLine(s.columns)
        /\ top + s.row + 1 = Len(page.rows) /\ s.column = page.column

\* However lines wrap and scroll, each screen shows the end of what was written to it
\* (vga_write_char, framebuffer_write_char). A framebuffer of one row and no line more
\* never scrolls and is not covered.
ScreensShowEnd ==
    /\ ShowsEndOf(vga, Page(written, VGA_WIDTH, FALSE))
    /\ fb.usable /\ fb.height > fb.font => ShowsEndOf(fb, Page(drawn, fb.columns, TRUE))
=============================================================================
