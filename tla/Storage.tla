------------------------------ MODULE Storage ------------------------------
(***************************************************************************)
(* The write-back cache of AP_HAL_PX4/Storage.cpp: a RAM image of the      *)
(* storage, a mask of dirty lines, and the file on the FRAM.  The main     *)
(* thread (priority 180) writes the image, the storage thread (priority    *)
(* 59) writes dirty lines to the file.  The main thread may preempt the    *)
(* storage thread anywhere and is never preempted by it, so a write to the *)
(* image is one step while each access of the storage thread to the shared *)
(* mask, and each cell it copies, is a step of its own.  The power may     *)
(* fail at any time.                                                       *)
(***************************************************************************)
EXTENDS Integers, Sequences, FiniteSets

CONSTANTS
    NumLines,  \* PX4_STORAGE_NUM_LINES
    LineSize,  \* PX4_STORAGE_LINE_SIZE, in cells
    Data,      \* what a cell can hold
    Zero,      \* the content of a cell of the image before the file is read
    FirstFiles \* the contents the file may have when the vehicle is built

Lines == 0 .. NumLines - 1
Size  == NumLines * LineSize
Cells == 0 .. Size - 1

ASSUME StorageAssumption ==
    /\ NumLines \in Nat \ {0}
    /\ LineSize \in Nat \ {0}
    /\ Zero \in Data
    /\ FirstFiles \subseteq [Cells -> Data]

VARIABLES
    buffer,      \* _buffer, the image
    initialised, \* _initialised
    dirty,       \* _dirty_mask, as the set of its lines
    file,        \* the content of MTD_PARAMS_FILE
    pc,          \* where the storage thread stands in _timer_tick()
    line,        \* i, the line it tests or writes
    pos,         \* the cell write() copies next
    seen,        \* the mask as the thread loaded it, to be changed and stored
    overtaken    \* history: lines whose mark such a store threw away, not written since

storageVars == <<buffer, initialised, dirty, file, pc, line, pos, seen, overtaken>>

thread == <<pc, line, pos, seen>>

\* The line of a cell, its first cell and its last.
LineOf(c)  == c \div LineSize
FirstOf(l) == l * LineSize
LastOf(l)  == l * LineSize + LineSize - 1

StorageTypeOK ==
    /\ buffer \in [Cells -> Data]
    /\ initialised \in BOOLEAN
    /\ dirty \subseteq Lines
    /\ file \in [Cells -> Data]
    /\ pc \in {"poll", "scan", "load", "clear", "write", "reload", "restore"}
    /\ line \in 0 .. NumLines
    /\ pos \in Cells
    /\ seen \subseteq Lines
    /\ overtaken \subseteq Lines

StorageInit ==
    /\ buffer = [c \in Cells |-> Zero]
    /\ initialised = FALSE
    /\ dirty = {}
    /\ file \in FirstFiles
    /\ pc = "poll" /\ line = 0 /\ pos = 0 /\ seen = {}
    /\ overtaken = {}

-----------------------------------------------------------------------------
(* The main thread.  An image is a record of what the calls change.        *)

image == [buf |-> buffer, mask |-> dirty, open |-> initialised]

\* _storage_open(): the file is read once, before the first access.
StorageOpen(im) ==
    IF im.open THEN im ELSE [buf |-> file, mask |-> {}, open |-> TRUE]

\* defect: the line a block ends in is forgotten
MarkFirstOnly(loc, n) == {loc \div LineSize}

\* _mark_dirty(): one line too many when the block ends at the end of a line.  Behind the last
\* line the bit is shifted out of the mask.
MarkDirty(loc, n) == (loc \div LineSize .. (loc + n) \div LineSize) \cap Lines

Overwrite(buf, loc, src) ==
    [c \in Cells |-> IF c - loc \in 0 .. Len(src) - 1 THEN src[c - loc + 1] ELSE buf[c]]

\* write_block(): the comparison comes before the file is read.
WriteBlock(im, loc, src) ==
    IF Overwrite(im.buf, loc, src) = im.buf
    THEN im
    ELSE LET opened == StorageOpen(im)
         IN  [opened EXCEPT !.buf = Overwrite(opened.buf, loc, src),
                            !.mask = opened.mask \cup MarkDirty(loc, Len(src))]

BlockFits(loc, n) == loc + n <= Size

\* What a call of the main thread leaves.
SetImage(im) ==
    /\ buffer' = im.buf
    /\ dirty' = im.mask
    /\ initialised' = im.open

MainWrites(loc, src) ==
    /\ BlockFits(loc, Len(src))
    /\ SetImage(WriteBlock(image, loc, src))
    /\ UNCHANGED <<file, thread, overtaken>>

MainReads ==
    /\ ~initialised
    /\ SetImage(StorageOpen(image))
    /\ UNCHANGED <<file, thread, overtaken>>

-----------------------------------------------------------------------------
(* The storage thread: _timer_tick().  A call that finds nothing to do, or *)
(* cannot open the file, changes nothing and is a stuttering step.         *)

\* Back to the thread's loop; its local variables are dead.
Return == pc' = "poll" /\ line' = 0 /\ pos' = 0 /\ seen' = {}

Tick ==
    /\ pc = "poll"
    /\ initialised /\ dirty # {}
    /\ pc' = "scan" /\ line' = 0
    /\ UNCHANGED <<buffer, initialised, dirty, file, pos, seen, overtaken>>

\* defect: the test is skipped with the line that follows a clean one
ScanSkips ==
    /\ pc = "scan"
    /\ line < NumLines /\ line \notin dirty
    /\ line' = line + 2
    /\ UNCHANGED <<buffer, initialised, dirty, file, pc, pos, seen, overtaken>>

ScanClean ==
    /\ pc = "scan"
    /\ line < NumLines /\ line \notin dirty
    /\ line' = line + 1
    /\ UNCHANGED <<buffer, initialised, dirty, file, pc, pos, seen, overtaken>>

\* The first dirty line; one line is written in a call, as PX4_STORAGE_MAX_WRITE is one line.
ScanDirty ==
    /\ pc = "scan"
    /\ line \in dirty
    /\ pc' = "load"
    /\ UNCHANGED <<buffer, initialised, dirty, file, line, pos, seen, overtaken>>

SeekFails ==
    /\ pc = "load"
    /\ Return
    /\ UNCHANGED <<buffer, initialised, dirty, file, overtaken>>

\* "_dirty_mask &= ~write_mask" is a load ...
LoadMask ==
    /\ pc = "load"
    /\ pc' = "clear" /\ seen' = dirty
    /\ UNCHANGED <<buffer, initialised, dirty, file, line, pos, overtaken>>

\* ... and a store, which throws away what the main thread marked in between.
ClearLine ==
    /\ pc = "clear"
    /\ dirty' = seen \ {line}
    /\ overtaken' = (overtaken \ {line}) \cup (dirty \ (seen \cup {line}))
    /\ pc' = "write" /\ pos' = FirstOf(line) /\ seen' = {}
    /\ UNCHANGED <<buffer, initialised, file, line>>

\* defect: write() is given one cell too many
WriteCellBehind ==
    /\ pc = "write"
    /\ file' = [file EXCEPT ![pos] = buffer[pos]]
    /\ \/ pos > LastOf(line) /\ Return
       \/ pos <= LastOf(line) /\ pos' = pos + 1 /\ UNCHANGED <<pc, line, seen>>
    /\ UNCHANGED <<buffer, initialised, dirty, overtaken>>

\* write() copies the image as it is when it gets to a cell.
WriteCell ==
    /\ pc = "write"
    /\ file' = [file EXCEPT ![pos] = buffer[pos]]
    /\ \/ pos = LastOf(line) /\ Return
       \/ pos # LastOf(line) /\ pos' = pos + 1 /\ UNCHANGED <<pc, line, seen>>
    /\ UNCHANGED <<buffer, initialised, dirty, overtaken>>

\* A write that returns short has copied some of its cells.
WriteFails ==
    /\ pc = "write"
    /\ pc' = "reload" /\ pos' = 0
    /\ UNCHANGED <<buffer, initialised, dirty, file, line, seen, overtaken>>

\* "_dirty_mask |= write_mask", in two steps again.
ReloadMask ==
    /\ pc = "reload"
    /\ pc' = "restore" /\ seen' = dirty
    /\ UNCHANGED <<buffer, initialised, dirty, file, line, pos, overtaken>>

\* defect: a line whose write failed is not marked again
RestoreNothing ==
    /\ pc = "restore"
    /\ dirty' = seen
    /\ overtaken' = overtaken \cup (dirty \ seen)
    /\ Return
    /\ UNCHANGED <<buffer, initialised, file>>

RestoreLine ==
    /\ pc = "restore"
    /\ dirty' = seen \cup {line}
    /\ overtaken' = overtaken \cup (dirty \ (seen \cup {line}))
    /\ Return
    /\ UNCHANGED <<buffer, initialised, file>>

\* Steps of a call in which nothing fails, and those that fail.
TickSucceeds == Tick \/ ScanClean \/ ScanDirty \/ LoadMask \/ ClearLine \/ WriteCell
                \/ ReloadMask \/ RestoreLine
TickFails    == SeekFails \/ WriteFails

\* RAM is lost, and the flight software starts anew.
PowerLoss ==
    /\ buffer' = [c \in Cells |-> Zero]
    /\ initialised' = FALSE
    /\ dirty' = {}
    /\ Return
    /\ overtaken' = {}
    /\ UNCHANGED file

-----------------------------------------------------------------------------
StorageNext ==
    \/ \E loc \in Cells : \E n \in 1 .. Size : \E src \in [1 .. n -> Data] : MainWrites(loc, src)
    \/ MainReads
    \/ TickSucceeds
    \/ TickFails
    \/ PowerLoss

StorageSpec == StorageInit /\ [][StorageNext]_storageVars

-----------------------------------------------------------------------------
(* What the cache owes its users.                                          *)

Differs(c) == initialised /\ buffer[c] # file[c]

\* The thread still has to copy cell c, or to mark its line again.
BeingWritten(c) ==
    /\ LineOf(c) = line
    /\ \/ pc = "write" /\ pos <= c
       \/ pc \in {"reload", "restore"}

\* A cell whose content is not in the file yet is in a line that is marked, that is being written,
\* or whose mark was thrown away by the storage thread's unlocked update of the mask
\* (Storage.cpp:177-206, 254-265): that window is the only way to leave a line unwritten.
UnwrittenIsKnown ==
    \A c \in Cells : Differs(c) =>
        \/ LineOf(c) \in dirty
        \/ BeingWritten(c)
        \/ LineOf(c) \in overtaken

\* "this shouldn't be possible" (Storage.cpp:235-240): a scan begun with a mark in the mask does not
\* come to the end of the lines without one, whatever the main thread writes meanwhile.
ScanFindsALine ==
    pc = "scan" => \E l \in dirty : line <= l

\* "it won't result in a line not being written" (Storage.cpp:171-176), "we don't need a semaphore
\* around the _dirty_mask updates" (250-253).
NoLineLeftUnwritten ==
    \A c \in Cells : Differs(c) => LineOf(c) \in dirty \/ BeingWritten(c)

=============================================================================
