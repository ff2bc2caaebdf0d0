----------------------------- MODULE BlockStack -----------------------------
(***************************************************************************)
(* The block layer: how the kernel finds its root device at boot (PCI, the *)
(* AHCI and ATA drivers, the GPT, the multiboot ramdisk), and how a read   *)
(* or a write of that device becomes commands to the controller.           *)
(*                                                                         *)
(* A call runs with nothing else on the CPU, but the controller works      *)
(* beside it: the driver polls the controller, gives up after a number of  *)
(* polls, and the command it gave up on may still be carried out later.    *)
(*                                                                         *)
(* Memory and disk are counted in cells: BLOCK cells make a block (512     *)
(* bytes), PAGE cells a page.                                              *)
(*                                                                         *)
(* The names of the specification carry the module's, since MCDevices      *)
(* extends this module beside VmBus.                                       *)
(***************************************************************************)
EXTENDS Integers, Sequences, FiniteSets

CONSTANTS
    BLOCK, PAGE,
    FrameOf,                \* the kernel's page table: virtual page -> frame
    Buffers,                \* virtual addresses of the buffers callers pass
    IDENTIFY_WORDS,         \* that of the block on the stack of ahci_init
    Machines,               \* what the kernel may be booted on
    BLOCK_MAX_DEVICES,
    GPT_HEADER_BLOCK, GPT_MAX_SCAN_ENTRIES, ENTRIES_PER_BLOCK,
    MAX_BLOCKS,             \* the largest number 32 bits hold
    ATA_CHUNK, ATA_LBAS,    \* sectors of one ATA command; sectors 28 bits can name
    AHCI_MAX_PRDT_ENTRIES,
    Blocks, Counts,         \* block numbers and counts callers pass
    MaxCalls                \* bound: calls made after boot

VARIABLES
    machine, medium, ram,
    devices,    \* devices[] of block.c, in order
    root,       \* the root device, or NoDevice
    call,       \* the call in progress or the last one
    calls,      \* how many calls were made (bound)
    hba,        \* the AHCI port
    drive,      \* the ATA drive
    abandoned   \* history: the buffer of a read that the driver gave up on, while the
                \* controller still has the command

blockVars == <<machine, medium, ram, devices, root, call, calls, hba, drive, abandoned>>

-----------------------------------------------------------------------------
(* block.c *)

NoDevice == [name |-> "none", count |-> 0, read_only |-> TRUE, kind |-> "none", start |-> 0, parent |-> "none"]

BlockFind(devs, name) ==
    LET found == {d \in {devs[i] : i \in DOMAIN devs} : d.name = name}
    IN  IF found = {} THEN NoDevice ELSE CHOOSE d \in found : TRUE

\* The devices after an attempt to register d; they are unchanged when it fails.
BlockRegister(devs, d) ==
    IF d.count = 0 \/ BlockFind(devs, d.name) # NoDevice \/ Len(devs) = BLOCK_MAX_DEVICES
      THEN devs
      ELSE Append(devs, d)

\* A number cut to 32 bits.
Word(n) == n % (MAX_BLOCKS + 1)

InRange(count, b, n) == b < count /\ n <= count - b

-----------------------------------------------------------------------------
(* Finding the root device *)

\* The first PCI function, in bus, slot and function order, with the class code of an
\* AHCI controller.
PciFindClass(functions) ==
    LET found == {f \in DOMAIN functions : functions[f].class = "ahci"}
    IN  IF found = {} THEN 0 ELSE CHOOSE f \in found : \A g \in found : f <= g

\* IDENTIFY gives the sector count in 28 and in 48 bits. A count that needs more than
\* 32 bits is passed over for the 28-bit one.
SectorCount(identify) ==
    IF identify.count48 # 0 /\ identify.count48 <= MAX_BLOCKS THEN identify.count48 ELSE identify.count28

\* A device is there, its link is up, and it is a disk.
SataReady(port) == port.present /\ port.active /\ port.sata

\* The first port that is ready is the one that is used.
ReadyPort(ports) ==
    LET ready == {p \in DOMAIN ports : SataReady(ports[p])}
    IN  IF ready = {} THEN 0 ELSE CHOOSE p \in ready : \A q \in ready : p <= q

\* ahci_stop_port waits for the port, but only ahci_start_port reports that it has not
\* stopped, or that the device is still busy, after all the polls.
StartPort(port) == port.stops

\* Three pages for the port, then the port is stopped, given them, and started.
SetupPort(m, port) == m.pages >= 3 /\ StartPort(port)

\* A controller that is found, has a register window that can be mapped, and a disk on a
\* port that is started.
AhciFound(m) ==
    LET f == PciFindClass(m.functions)
        ports == m.functions[f].ports
        p == ReadyPort(ports)
    IN  /\ f # 0 /\ m.functions[f].abar /\ m.functions[f].maps
        /\ p # 0 /\ SetupPort(m, ports[p])

\* IDENTIFY is the first command of the port; it is answered, fails, or is given up on.
AhciInit(devs, m, identify) ==
    IF ~AhciFound(m) \/ identify # "answered" THEN devs
    ELSE BlockRegister(devs, [name |-> "ahci0", count |-> SectorCount(m.identify), read_only |-> FALSE,
                              kind |-> "ahci", start |-> 0, parent |-> "none"])

\* A drive that answers, is no packet device, and has its data ready without an error.
AtaIdentify(drv) == drv.answers /\ ~drv.packet /\ drv.ready

AtaInit(devs, m) ==
    IF ~AtaIdentify(m.ata) THEN devs
    ELSE BlockRegister(devs, [name |-> "ata0", count |-> m.identify.count28, read_only |-> FALSE,
                              kind |-> "ata", start |-> 0, parent |-> "none"])

StorageInit(devs, m, identify) ==
    LET ahci == AhciInit(devs, m, identify)
    IN  IF BlockFind(ahci, "ahci0") # NoDevice THEN ahci ELSE AtaInit(ahci, m)

BootDisk(devs) ==
    LET ahci == BlockFind(devs, "ahci0")
    IN  IF ahci # NoDevice THEN ahci ELSE BlockFind(devs, "ata0")

PartitionName(disk) == IF disk.kind = "ahci" THEN "ahci0p2" ELSE "ata0p2"

\* An entry with a type of all zeros is free. A name is compared up to its end.
Used(entry) == entry.type # "zero"
NameEquals(entry, name) == entry.name = name

\* Entries are scanned in order, a block of them at a time. The scan ends at the first
\* used entry named riverix-rootfs, whether its bounds are good or not, or at a block
\* of entries that lies beyond the disk. The 64 bits of entry_lba are cut to 32: gpt.entries
\* are what the blocks that are then read hold.
RootfsEntry(disk, gpt) ==
    LET scanned == {i \in DOMAIN gpt.entries : i <= gpt.entry_count /\ i <= GPT_MAX_SCAN_ENTRIES}
        found   == {i \in scanned : Used(gpt.entries[i]) /\ NameEquals(gpt.entries[i], "riverix-rootfs")}
        first   == CHOOSE i \in found : \A j \in found : i <= j
    IN  IF found # {} /\ \A i \in scanned : i <= first =>
                            InRange(disk.count, Word(gpt.entry_lba + (i - 1) \div ENTRIES_PER_BLOCK), 1)
          THEN first ELSE 0

\* Mutant: one block too many.
SpansWide(first, last) == last - first + 2

\* The bounds lie on the disk, so that 32 bits hold them.
Spans(first, last) == last - first + 1

PartitionRegisterRootfs(devs, disk, gpt) ==
    LET i == RootfsEntry(disk, gpt)
        e == gpt.entries[i]
    IN  IF ~InRange(disk.count, GPT_HEADER_BLOCK, 1) \/ ~gpt.valid \/ i = 0 THEN devs
        ELSE IF e.last < e.first \/ e.last >= disk.count THEN devs
        ELSE BlockRegister(devs, [name |-> PartitionName(disk), count |-> Spans(e.first, e.last),
                                  read_only |-> disk.read_only, kind |-> "partition",
                                  start |-> e.first, parent |-> disk.name])

\* The module whose command line has "rootfs" in it, or else the first one. start and
\* end are cells of memory.
RamdiskRegisterRootfs(devs, modules) ==
    LET named  == {i \in DOMAIN modules : modules[i].rootfs}
        chosen == modules[IF named = {} THEN 1 ELSE CHOOSE i \in named : \A j \in named : i <= j]
    IN  IF modules = <<>> \/ chosen.end <= chosen.start \/ (chosen.end - chosen.start) % BLOCK # 0 THEN devs
        ELSE BlockRegister(devs, [name |-> "rootfs0", count |-> (chosen.end - chosen.start) \div BLOCK,
                                  read_only |-> TRUE, kind |-> "ramdisk", start |-> chosen.start, parent |-> "none"])

EnsureDiskRootfs(devs, m, identify) ==
    LET stored == StorageInit(devs, m, identify)
        disk   == BootDisk(stored)
    IN  IF disk = NoDevice THEN stored ELSE PartitionRegisterRootfs(stored, disk, m.gpt)

DiskRootOf(devs) == IF BootDisk(devs) = NoDevice THEN NoDevice ELSE BlockFind(devs, PartitionName(BootDisk(devs)))

-----------------------------------------------------------------------------
(* A call *)

NoCall == [pc |-> "idle", write |-> FALSE, lba |-> 0, left |-> 0, at |-> 0, sectors |-> 0,
           first |-> 0, count |-> 0, buffer |-> 0, result |-> "none"]

Physical(v) == FrameOf[v \div PAGE] * PAGE + (v % PAGE)
Cells(v, n) == [k \in 1..n * BLOCK |-> Physical(v + k - 1)]
Least(a, b) == IF a <= b THEN a ELSE b

Parent(d) == BlockFind(devices, d.parent)

\* block_read and block_write of the root device: of the ramdisk, which copies from
\* memory at once, or of the partition, which calls its disk's driver.
RamdiskRead(first, n, buffer) ==
    ram' = [c \in DOMAIN ram |->
              IF \E k \in 1..n * BLOCK : Cells(buffer, n)[k] = c
                THEN ram[first + (CHOOSE k \in 1..n * BLOCK : Cells(buffer, n)[k] = c) - 1]
                ELSE ram[c]]

BlockCall(write, b, n, buffer) ==
    /\ root # NoDevice /\ call.pc = "idle" /\ calls < MaxCalls
    /\ calls' = calls + 1
    /\ LET refused == n = 0 \/ (write /\ root.read_only) \/ ~InRange(root.count, b, n)
           started == [NoCall EXCEPT !.write = write, !.left = n, !.at = buffer, !.count = n, !.buffer = buffer]
           made    == IF root.kind = "ramdisk" THEN [started EXCEPT !.first = root.start + b * BLOCK, !.left = 0]
                      ELSE [started EXCEPT !.lba = Word(root.start + b), !.first = (root.start + b) * BLOCK]
       IN  \/ /\ refused \/ (root.kind = "partition" /\ ~InRange(Parent(root).count, made.lba, n))
              /\ call' = [made EXCEPT !.result = "failed"]
              /\ UNCHANGED ram
           \/ /\ ~refused /\ root.kind = "ramdisk"
              /\ call' = [made EXCEPT !.result = "ok"]
              /\ RamdiskRead(made.first, n, buffer)
           \/ /\ ~refused /\ root.kind = "partition" /\ InRange(Parent(root).count, made.lba, n)
              /\ call' = [made EXCEPT !.pc = "issue"]
              /\ UNCHANGED ram
    /\ UNCHANGED <<machine, medium, devices, root, hba, drive, abandoned>>

Returned(c, result) == [c EXCEPT !.pc = "idle", !.result = result]

\* A chunk of n blocks is finished: the next one, or the call returns.
ChunkDone(c, n) ==
    LET next == [c EXCEPT !.lba = @ + n, !.left = @ - n, !.at = @ + n * BLOCK]
    IN  IF next.left = 0 THEN Returned(next, "ok") ELSE [next EXCEPT !.pc = "issue"]

Driver(kind) == call.pc # "idle" /\ Parent(root).kind = kind

-----------------------------------------------------------------------------
(* ata.c: programmed input and output, a sector at a time *)

AtaIssue ==
    /\ Driver("ata") /\ call.pc = "issue"
    /\ drive.state # "busy"
    /\ LET n == Least(call.left, ATA_CHUNK)
       IN  /\ drive' = [state |-> "busy", write |-> call.write, lba |-> call.lba % ATA_LBAS, left |-> n, held |-> <<>>,
                        lost |-> drive.lost]
           /\ call' = [call EXCEPT !.pc = "sector", !.sectors = 0]
    /\ UNCHANGED <<machine, medium, ram, devices, root, calls, hba, abandoned>>

SectorCells == Cells(call.at + call.sectors * BLOCK, 1)

AtaSector ==
    /\ Driver("ata") /\ call.pc = "sector"
    /\ drive.state = "drq"
    /\ LET moved == call.sectors + 1
           chunk == Least(call.left, ATA_CHUNK)
           cells == SectorCells
       IN  /\ call' = IF moved = chunk THEN ChunkDone([call EXCEPT !.sectors = 0], chunk)
                      ELSE [call EXCEPT !.sectors = moved]
           /\ IF call.write
                THEN /\ drive' = [drive EXCEPT !.state = "busy", !.held = [k \in 1..BLOCK |-> ram[cells[k]]]]
                     /\ UNCHANGED ram
                ELSE /\ drive' = [drive EXCEPT !.state = IF drive.left = 1 THEN "idle" ELSE "busy",
                                               !.left = @ - 1, !.lba = @ + 1]
                     /\ ram' = [c \in DOMAIN ram |-> IF \E k \in 1..BLOCK : cells[k] = c
                                  THEN medium[drive.lba * BLOCK + (CHOOSE k \in 1..BLOCK : cells[k] = c) - 1]
                                  ELSE ram[c]]
    /\ UNCHANGED <<machine, medium, devices, root, calls, hba, abandoned>>

\* The drive did not become ready within ATA_POLL_LIMIT polls, or reports an error.
AtaGivesUp ==
    /\ Driver("ata")
    /\ IF call.pc = "sector" THEN drive.state # "drq" ELSE drive.state = "busy"
    /\ call' = Returned(call, "failed")
    /\ UNCHANGED <<machine, medium, ram, devices, root, calls, hba, drive, abandoned>>

\* External: the drive gets a sector ready, or stores the one it was given. After the
\* last sector of a write it is busy storing it, and the driver has returned.
DriveRuns ==
    /\ drive.state = "busy"
    /\ IF drive.held # <<>>
         THEN /\ medium' = [c \in DOMAIN medium |-> IF c \div BLOCK = drive.lba THEN drive.held[(c % BLOCK) + 1] ELSE medium[c]]
              /\ drive' = [drive EXCEPT !.state = IF drive.left = 1 THEN "idle" ELSE "drq",
                                        !.left = @ - 1, !.lba = @ + 1, !.held = <<>>]
         ELSE /\ drive' = [drive EXCEPT !.state = "drq"]
              /\ UNCHANGED medium
    /\ UNCHANGED <<machine, ram, devices, root, call, calls, hba, abandoned>>

\* The error is set while the driver polls for the next sector of the command. After the
\* last sector nobody looks: drive.lost is the history of the sectors lost that way.
DriveFaults ==
    /\ drive.state = "busy"
    /\ drive' = [drive EXCEPT !.state = "error", !.held = <<>>,
                              !.lost = IF drive.held # <<>> /\ drive.left = 1 THEN @ \union {drive.lba} ELSE @]
    /\ UNCHANGED <<machine, medium, ram, devices, root, call, calls, hba, abandoned>>

-----------------------------------------------------------------------------
(* ahci.c: one command slot, the data moved by the controller *)

\* ahci_build_prdt: the buffer's pages as a list of physical runs, one for each page
\* it touches.
PagesOf(v, n) == (v + n * BLOCK - 1) \div PAGE - v \div PAGE + 1
BuildPrdt(v, n) == [ok |-> PagesOf(v, n) <= AHCI_MAX_PRDT_ENTRIES, cells |-> Cells(v, n)]

MaxBlocks == (AHCI_MAX_PRDT_ENTRIES * PAGE) \div BLOCK

\* Mutant: a command is issued whatever the port does.
PortFreeUnchecked == TRUE

\* A port that is busy or halted takes no new command.
PortFree == hba.state # "busy"

AhciIssue ==
    /\ Driver("ahci") /\ call.pc = "issue"
    /\ PortFree
    /\ LET n    == Least(call.left, MaxBlocks)
           prdt == BuildPrdt(call.at, n)
       IN  \/ /\ ~prdt.ok
              /\ call' = Returned(call, "failed")
              /\ UNCHANGED hba
           \/ /\ prdt.ok
              /\ hba' = IF hba.state = "idle"
                          THEN [state |-> "busy", ci |-> TRUE, error |-> FALSE,
                                write |-> call.write, lba |-> call.lba, cells |-> prdt.cells]
                          ELSE [hba EXCEPT !.ci = TRUE, !.error = FALSE]
              /\ call' = [call EXCEPT !.pc = "wait"]
    /\ UNCHANGED <<machine, medium, ram, devices, root, calls, drive, abandoned>>

AhciCompletes ==
    /\ Driver("ahci") /\ call.pc = "wait"
    /\ ~hba.ci
    /\ call' = IF hba.error THEN Returned(call, "failed") ELSE ChunkDone(call, Least(call.left, MaxBlocks))
    /\ UNCHANGED <<machine, medium, ram, devices, root, calls, hba, drive, abandoned>>

\* The controller is still to move the command's data; a halted one moves nothing.
StillToRead == IF hba.state = "busy" /\ ~hba.write THEN {hba.cells[k] : k \in DOMAIN hba.cells} ELSE {}

\* AHCI_POLL_LIMIT polls of a port that stays busy, or of a command that stays issued.
\* The command is left with the controller.
AhciGivesUp ==
    /\ Driver("ahci")
    /\ IF call.pc = "issue" THEN hba.state = "busy" ELSE hba.ci
    /\ call' = Returned(call, "failed")
    /\ abandoned' = StillToRead
    /\ UNCHANGED <<machine, medium, ram, devices, root, calls, hba, drive>>

\* External: what IDENTIFY returns is not on the disk.
IDENTIFY == -1
OnDisk(lba, k) == IF lba = IDENTIFY THEN machine.blocks * BLOCK ELSE medium[lba * BLOCK + k - 1]

\* External: the controller moves the data of its command, or the first part of it.
Moved(n) ==
    IF hba.write
      THEN /\ medium' = [c \in DOMAIN medium |->
                           IF c - hba.lba * BLOCK \in 0..n - 1 THEN ram[hba.cells[c - hba.lba * BLOCK + 1]] ELSE medium[c]]
           /\ UNCHANGED ram
      ELSE /\ ram' = [c \in DOMAIN ram |->
                        IF \E k \in 1..n : hba.cells[k] = c
                          THEN OnDisk(hba.lba, CHOOSE k \in 1..n : hba.cells[k] = c)
                          ELSE ram[c]]
           /\ UNCHANGED medium

HbaRuns ==
    /\ hba.state = "busy"
    /\ Moved(Len(hba.cells))
    /\ hba' = [hba EXCEPT !.state = "idle", !.ci = FALSE]
    /\ abandoned' = {}
    /\ UNCHANGED <<machine, devices, root, call, calls, drive>>

\* A failed command clears its bit, or halts the port with the bit set.
HbaFaults ==
    /\ hba.state = "busy"
    /\ \E n \in {0, BLOCK} : Moved(n)
    /\ \E halts \in BOOLEAN :
         hba' = [hba EXCEPT !.state = IF halts THEN "halted" ELSE "idle", !.ci = halts, !.error = TRUE]
    /\ abandoned' = {}
    /\ UNCHANGED <<machine, devices, root, call, calls, drive>>

-----------------------------------------------------------------------------

BlockInit ==
    /\ machine \in Machines
    /\ medium = [c \in 0..machine.blocks * BLOCK - 1 |-> c]
    /\ ram = [c \in {FrameOf[p] * PAGE + o : p \in DOMAIN FrameOf, o \in 0..PAGE - 1} |-> -1 - c]
    /\ devices = <<>> /\ root = NoDevice
    /\ call = NoCall /\ calls = 0
    /\ hba = [state |-> "idle", ci |-> FALSE, error |-> FALSE, write |-> FALSE, lba |-> 0, cells |-> <<>>]
    /\ drive = [state |-> "idle", write |-> FALSE, lba |-> 0, left |-> 0, held |-> <<>>, lost |-> {}]
    /\ abandoned = {}

\* What ahci_init leaves with the controller when it gives up on IDENTIFY: a read into its
\* stack.
Identifying == [state |-> "busy", ci |-> TRUE, error |-> FALSE, write |-> FALSE, lba |-> IDENTIFY,
                cells |-> Cells(IDENTIFY_WORDS, 1)]

\* vfs_init: block_init, then the root device by the boot policy. Whether the file
\* system on the disk mounts decides if the ramdisk is tried.
Boot ==
    /\ devices = <<>>
    /\ \E mounts \in BOOLEAN, identify \in {"answered", "failed", "late"} :
         LET disk    == IF machine.policy = "ramdisk" THEN <<>> ELSE EnsureDiskRootfs(<<>>, machine, identify)
             late    == machine.policy # "ramdisk" /\ AhciFound(machine) /\ identify = "late"
             mounted == DiskRootOf(disk) # NoDevice /\ mounts
             both    == IF mounted \/ machine.policy = "disk" THEN disk
                        ELSE RamdiskRegisterRootfs(disk, machine.modules)
         IN  /\ devices' = both
             /\ root' = IF mounted THEN DiskRootOf(disk) ELSE BlockFind(both, "rootfs0")
             /\ hba' = IF late THEN Identifying ELSE hba
             /\ abandoned' = IF late THEN {Identifying.cells[k] : k \in 1..BLOCK} ELSE {}
    /\ devices' # <<>>
    /\ UNCHANGED <<machine, medium, ram, call, calls, drive>>

Call == \E write \in BOOLEAN, b \in Blocks, n \in Counts, buffer \in Buffers : BlockCall(write, b, n, buffer)

BlockNext ==
    \/ Boot \/ Call
    \/ AtaIssue \/ AtaSector \/ AtaGivesUp \/ DriveRuns \/ DriveFaults
    \/ AhciIssue \/ AhciCompletes \/ AhciGivesUp \/ HbaRuns \/ HbaFaults

BlockSpec == BlockInit /\ [][BlockNext]_blockVars

-----------------------------------------------------------------------------
(* Properties *)

\* The disk as it is once the drive has stored the sector it holds.
Settled(c) ==
    IF drive.held # <<>> /\ c \div BLOCK = drive.lba THEN drive.held[(c % BLOCK) + 1] ELSE medium[c]

Source(c) == IF root.kind = "ramdisk" THEN ram[c] ELSE Settled(c)

\* A read or a write that returns 0 has moved exactly the blocks asked for, however many
\* commands it took, however the buffer lies in memory, and whatever an earlier call that
\* gave up left the controller doing (ahci_transfer, ahci_build_prdt, ata_transfer,
\* partition_read, partition_write, ramdisk_read). The exception is the last sector of an
\* ATA write command: ata_transfer does not wait for the drive to store it, so the drive
\* may still hold it, or may have failed to store it.
Exact ==
    \A k \in 0..call.count * BLOCK - 1 :
       \/ ram[Physical(call.buffer + k)] = Source(call.first + k)
       \/ call.write /\ (call.first + k) \div BLOCK \in drive.lost

TransferExact ==
    [][(call.pc # "idle" \/ calls' # calls) /\ call'.pc = "idle" /\ call'.result = "ok" => Exact']_<<call, calls>>

\* The block of cell c belongs to the partition named riverix-rootfs.
InRoot(c) ==
    \E i \in DOMAIN machine.gpt.entries :
       LET e == machine.gpt.entries[i] IN e.type # "zero" /\ e.name = "riverix-rootfs" /\ c \div BLOCK \in e.first..e.last

\* The buffer of a read in progress, or of one that c has just made.
Reading(c) == IF c.write THEN {} ELSE {Physical(c.buffer + k) : k \in 0..c.count * BLOCK - 1}
ReadNow == (IF call.pc # "idle" THEN Reading(call) ELSE {}) \union (IF calls' # calls THEN Reading(call') ELSE {})

\* Whatever the calls and the controller do, blocks of the disk outside the root
\* partition keep their contents, whatever block numbers and counts of 32 bits are asked
\* for; and memory changes only in the buffer of the read in progress, or in that of a read
\* that the driver gave up on, while the controller still had the command: its caller,
\* or the stack of ahci_init, has that memory back by then (the bounds of block_read,
\* partition_read and partition_register_rootfs, the runs of ahci_build_prdt, the polls of
\* ahci_issue_transfer).
Confined ==
    [][/\ \A c \in DOMAIN medium : medium'[c] # medium[c] => InRoot(c)
       /\ \A c \in DOMAIN ram : ram'[c] # ram[c] => c \in ReadNow \union abandoned]_<<medium, ram>>
=============================================================================
