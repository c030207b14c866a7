--------------------------- MODULE StorageProofs ---------------------------
(***************************************************************************)
(* What the write-back cache of module Storage guarantees for storage of   *)
(* any size, and what it keeps of the parameters of module Params.         *)
(*                                                                         *)
(* UnwrittenIsKnown and ScanFindsALine are inductive together with the     *)
(* types and with what the storage thread remembers of the mask.  That     *)
(* parameters survive does not rest on them: whatever the order in which   *)
(* cells are copied, and even if a line is forgotten, image and file have  *)
(* the same list of records up to an offset behind the last record of the  *)
(* parameter, and its key does not stand further on in either.  This is    *)
(* inductive when it is required of every parameter that is expected to    *)
(* survive.                                                                *)
(***************************************************************************)
EXTENDS Params, WellFoundedInduction, TLAPS

\* While its mask is in a register the thread has a line to clear or to restore.
MaskInv ==
    /\ pc \in {"load", "clear", "write", "reload", "restore"} => line \in Lines
    /\ pc = "write" => FirstOf(line) <= pos /\ pos <= LastOf(line)
    /\ pc # "poll" => initialised

IInv == StorageTypeOK /\ MaskInv /\ UnwrittenIsKnown /\ ScanFindsALine

-----------------------------------------------------------------------------
(* Lines and cells. *)

\* A cell lies between the first and the last cell of its line.
LEMMA LineBounds ==
    ASSUME NEW c \in Cells
    PROVE  /\ LineOf(c) \in Lines
           /\ FirstOf(LineOf(c)) <= c
           /\ c <= LastOf(LineOf(c))
<1>1. c \in Nat /\ NumLines \in Nat \ {0} /\ LineSize \in Nat \ {0} /\ c < NumLines * LineSize
  BY StorageAssumption DEF Cells, Size
<1>2. c \div LineSize \in Nat /\ (c \div LineSize) * LineSize <= c
      /\ c <= (c \div LineSize) * LineSize + LineSize - 1
  BY <1>1
<1>3. c \div LineSize < NumLines
  BY <1>1, <1>2
<1>. QED
  BY <1>1, <1>2, <1>3 DEF LineOf, FirstOf, LastOf, Lines

\* A line is a line of cells.
LEMMA LineCells ==
    ASSUME NEW l \in Lines
    PROVE  /\ FirstOf(l) \in Cells
           /\ LastOf(l) \in Cells
           /\ FirstOf(l) <= LastOf(l)
<1>1. l \in Nat /\ NumLines \in Nat /\ LineSize \in Nat \ {0} /\ l + 1 <= NumLines
  BY StorageAssumption DEF Lines
<1>2. (l + 1) * LineSize <= NumLines * LineSize /\ l * LineSize \in Nat
      /\ (l + 1) * LineSize = l * LineSize + LineSize
  BY <1>1
<1>. QED
  BY <1>1, <1>2 DEF Cells, Size, FirstOf, LastOf

LEMMA ZeroIsACell == 0 \in Cells /\ 0 \in 0 .. NumLines
<1>1. 0 \in Lines
  BY StorageAssumption DEF Lines
<1>2. FirstOf(0) = 0
  BY StorageAssumption DEF FirstOf
<1>. QED
  BY <1>1, <1>2, LineCells, StorageAssumption

\* Cells further on are in the same line or in one further on.
LEMMA LineMonotone ==
    ASSUME NEW a \in Nat, NEW b \in Nat, a <= b
    PROVE  /\ a \div LineSize \in Nat
           /\ a \div LineSize <= b \div LineSize
BY StorageAssumption

\* _mark_dirty() marks the line of every cell of the block.
LEMMA MarkCoversBlock ==
    ASSUME NEW loc \in Nat, NEW n \in Nat, NEW c \in Cells, loc <= c, c <= loc + n
    PROVE  LineOf(c) \in MarkDirty(loc, n)
<1>1. LineOf(c) \in Lines /\ c \in Nat /\ loc + n \in Nat
  BY LineBounds DEF Cells
<1>2. loc \div LineSize <= c \div LineSize /\ c \div LineSize <= (loc + n) \div LineSize
  BY <1>1, LineMonotone
<1>3. loc \div LineSize \in Nat /\ c \div LineSize \in Nat /\ (loc + n) \div LineSize \in Nat
  BY <1>1, LineMonotone
<1>. QED
  BY <1>1, <1>2, <1>3 DEF MarkDirty, LineOf

-----------------------------------------------------------------------------
(* The main thread. *)

\* What a call of the main thread may make of the image: it keeps the marks, and marks the line of
\* every cell that it leaves different from the file.
Marked(im) ==
    /\ im \in [buf : [Cells -> Data], mask : SUBSET Lines, open : BOOLEAN]
    /\ initialised => im.open /\ dirty \subseteq im.mask
    /\ \A c \in Cells : im.open /\ im.buf[c] # file[c] =>
          LineOf(c) \in im.mask \/ (initialised /\ im.buf[c] = buffer[c])

LEMMA ImageMarked == ASSUME StorageTypeOK PROVE Marked(image)
BY DEF Marked, image, StorageTypeOK

\* Reading the file leaves nothing different from it.
LEMMA OpenMarked ==
    ASSUME StorageTypeOK, NEW im, Marked(im)
    PROVE  Marked(StorageOpen(im)) /\ StorageOpen(im).open = TRUE
BY DEF Marked, StorageOpen, StorageTypeOK

\* A write keeps what was marked.
LEMMA WriteBlockMarks ==
    ASSUME StorageTypeOK, NEW im, Marked(im),
           NEW loc \in Nat, NEW n \in Nat, NEW src, Len(src) = n, \A i \in 1 .. n : src[i] \in Data
    PROVE  Marked(WriteBlock(im, loc, src))
<1>. DEFINE opened == StorageOpen(im)
            new == WriteBlock(im, loc, src)
<1>1. CASE new = im
  BY <1>1
<1>2. CASE new # im
  <2>1. Marked(opened) /\ opened.open = TRUE
    BY OpenMarked
  <2>2. new = [opened EXCEPT !.buf = Overwrite(opened.buf, loc, src),
                             !.mask = opened.mask \cup MarkDirty(loc, Len(src))]
    BY <1>2 DEF WriteBlock
  <2>. DEFINE b == Overwrite(opened.buf, loc, src)
              k == opened.mask \cup MarkDirty(loc, n)
  <2>3. b \in [Cells -> Data]
    <3>1. ASSUME NEW c \in Cells, c - loc \in 0 .. Len(src) - 1
          PROVE  src[c - loc + 1] \in Data
      BY <3>1 DEF Cells
    <3>2. opened.buf \in [Cells -> Data]
      BY <2>1 DEF Marked
    <3>. HIDE DEF opened
    <3>. QED
      BY <3>1, <3>2 DEF Overwrite
  <2>4. k \subseteq Lines
    BY <2>1 DEF Marked, MarkDirty
  <2>5. /\ new \in [buf : [Cells -> Data], mask : SUBSET Lines, open : BOOLEAN]
        /\ new.buf = b /\ new.mask = k /\ new.open
    <3>1. opened \in [buf : [Cells -> Data], mask : SUBSET Lines, open : BOOLEAN] /\ opened.open
      BY <2>1 DEF Marked
    <3>2. new = [opened EXCEPT !.buf = b, !.mask = k]
      BY <2>2
    <3>. HIDE DEF opened, new, b, k
    <3>. QED
      BY <3>1, <3>2, <2>3, <2>4
  <2>6. ASSUME NEW c \in Cells, b[c] # opened.buf[c]
        PROVE  LineOf(c) \in k
    <3>1. c - loc \in 0 .. n - 1
      BY <2>6 DEF Overwrite
    <3>. QED
      BY <3>1, MarkCoversBlock DEF Cells
  <2>. HIDE DEF opened, new, b
  <2>7. initialised => dirty \subseteq k
    BY <2>1 DEF Marked
  <2>8. ASSUME NEW c \in Cells, b[c] # file[c]
        PROVE  LineOf(c) \in k \/ (initialised /\ b[c] = buffer[c])
    BY <2>1, <2>6, <2>8 DEF Marked
  <2>9. Marked(new)
    BY <2>5, <2>7, <2>8 DEF Marked
  <2>. QED
    BY <2>9 DEF new
<1>. QED
  BY <1>1, <1>2

-----------------------------------------------------------------------------
(* Every step keeps the invariant. *)

\* A call of the main thread.
LEMMA MainStep ==
    ASSUME IInv, NEW im, Marked(im), SetImage(im), UNCHANGED <<file, thread, overtaken>>
    PROVE  IInv'
<1>1. buffer' = im.buf /\ dirty' = im.mask /\ initialised' = im.open
      /\ UNCHANGED <<file, pc, line, pos, seen, overtaken>>
  BY DEF SetImage, thread
<1>. QED
  BY <1>1 DEF Marked, IInv, StorageTypeOK, MaskInv, UnwrittenIsKnown, ScanFindsALine, Differs,
              BeingWritten

\* Copying a cell brings it to the file; a line whose last cell is copied is done.
LEMMA WriteStep ==
    ASSUME IInv, WriteCell
    PROVE  IInv'
<1>1. line \in Lines /\ pos \in Nat /\ LastOf(line) \in Cells /\ LastOf(line) \in Nat /\ Cells \subseteq Nat
      /\ FirstOf(line) \in Cells /\ 0 \in Cells /\ FirstOf(line) <= pos /\ pos <= LastOf(line)
  BY LineCells, ZeroIsACell DEF IInv, StorageTypeOK, MaskInv, WriteCell, Cells
<1>2. StorageTypeOK'
  <2>1. pos' \in Cells /\ line' \in 0 .. NumLines /\ seen' \subseteq Lines /\ pc' \in {"poll", "write"}
    <3>1. CASE pos = LastOf(line) /\ Return
      BY <3>1, <1>1, StorageAssumption DEF Return
    <3>2. CASE pos # LastOf(line) /\ pos' = pos + 1 /\ UNCHANGED <<pc, line, seen>>
      <4>1. pos + 1 \in Cells
        <5>1. pos + 1 <= LastOf(line) /\ pos + 1 \in Nat
          BY <3>2, <1>1
        <5>2. \A c \in Cells : \A p \in Nat : p <= c => p \in Cells
          BY StorageAssumption DEF Cells, Size
        <5>. QED
          BY <5>1, <5>2, <1>1
      <4>. QED
        BY <3>2, <4>1 DEF IInv, StorageTypeOK, WriteCell
    <3>. QED
      BY <3>1, <3>2 DEF WriteCell
  <2>2. file' \in [Cells -> Data]
    BY DEF IInv, StorageTypeOK, WriteCell
  <2>. QED
    BY <2>1, <2>2 DEF IInv, StorageTypeOK, WriteCell
<1>3. ASSUME NEW c \in Cells, Differs(c)'
      PROVE  LineOf(c) \in dirty' \/ BeingWritten(c)' \/ LineOf(c) \in overtaken'
  <2>1. buffer' = buffer /\ initialised' = initialised /\ file' = [file EXCEPT ![pos] = buffer[pos]]
        /\ dirty' = dirty /\ overtaken' = overtaken /\ pc = "write"
    BY DEF WriteCell
  <2>2. c # pos /\ Differs(c)
    BY <1>3, <2>1 DEF Differs, IInv, StorageTypeOK
  <2>3. LineOf(c) \in dirty \/ BeingWritten(c) \/ LineOf(c) \in overtaken
    BY <2>2 DEF IInv, UnwrittenIsKnown
  <2>4. ASSUME BeingWritten(c)
        PROVE  BeingWritten(c)'
    <3>1. LineOf(c) = line /\ pos < c /\ c <= LastOf(line) /\ c \in Nat
      BY <2>1, <2>2, <2>4, <1>1, LineBounds DEF BeingWritten, Cells
    <3>2. pos # LastOf(line)
      BY <3>1, <1>1
    <3>. QED
      BY <3>1, <3>2, <1>1 DEF WriteCell, BeingWritten, LineOf
  <2>. QED
    BY <2>1, <2>3, <2>4
<1>4. MaskInv'
  <2>1. CASE pos = LastOf(line) /\ Return
    BY <2>1 DEF IInv, MaskInv, WriteCell, Return
  <2>2. CASE pos # LastOf(line) /\ pos' = pos + 1 /\ UNCHANGED <<pc, line, seen>>
    <3>1. FirstOf(line) <= pos + 1 /\ pos + 1 <= LastOf(line)
      BY <2>2, <1>1 DEF Cells
    <3>2. FirstOf(line)' = FirstOf(line) /\ LastOf(line)' = LastOf(line)
      BY <2>2 DEF FirstOf, LastOf
    <3>. QED
      BY <2>2, <3>1, <3>2 DEF IInv, MaskInv, WriteCell
  <2>. QED
    BY <2>1, <2>2 DEF WriteCell
<1>5. ScanFindsALine' /\ UnwrittenIsKnown'
  BY <1>3 DEF UnwrittenIsKnown, ScanFindsALine, WriteCell, Return
<1>. QED
  BY <1>2, <1>4, <1>5 DEF IInv

\* The mark that ClearLine takes away stands for cells that are all still to be copied.
LEMMA ClearStep ==
    ASSUME IInv, ClearLine
    PROVE  IInv'
<1>1. line \in Lines /\ FirstOf(line) \in Cells /\ FirstOf(line) <= LastOf(line)
  BY LineCells DEF IInv, MaskInv, ClearLine
<1>2. StorageTypeOK'
  BY <1>1 DEF IInv, StorageTypeOK, ClearLine
<1>3. ASSUME NEW c \in Cells, Differs(c)'
      PROVE  LineOf(c) \in dirty' \/ BeingWritten(c)' \/ LineOf(c) \in overtaken'
  <2>1. Differs(c) /\ ~BeingWritten(c)
    BY <1>3 DEF Differs, BeingWritten, ClearLine
  <2>2. LineOf(c) \in dirty \/ LineOf(c) \in overtaken
    BY <2>1 DEF IInv, UnwrittenIsKnown
  <2>3. LineOf(c) = line => BeingWritten(c)'
    BY <1>1, LineBounds DEF BeingWritten, ClearLine, LineOf
  <2>. QED
    BY <2>2, <2>3 DEF ClearLine
<1>4. MaskInv'
  BY <1>1 DEF IInv, MaskInv, ClearLine, FirstOf, LastOf
<1>5. ScanFindsALine' /\ UnwrittenIsKnown'
  BY <1>3 DEF UnwrittenIsKnown, ScanFindsALine, ClearLine
<1>. QED
  BY <1>2, <1>4, <1>5 DEF IInv

\* The other steps of the thread touch neither the image nor the file.
LEMMA ThreadStep ==
    ASSUME IInv,
           Tick \/ ScanClean \/ ScanDirty \/ LoadMask \/ ReloadMask \/ RestoreLine \/ TickFails
    PROVE  IInv'
<1>. USE ZeroIsACell DEF IInv, StorageTypeOK, MaskInv, UnwrittenIsKnown, ScanFindsALine, Differs,
                         BeingWritten
<1>1. CASE Tick
  <2>1. dirty \subseteq Nat
    BY DEF Lines
  <2>2. \E l \in dirty : 0 <= l
    <3>1. PICK l \in dirty : TRUE
      BY <1>1, Zenon DEF Tick
    <3>2. l \in Nat /\ 0 <= l
      BY <2>1, <3>1
    <3>. QED
      BY <3>1, <3>2
  <2>3. StorageTypeOK' /\ MaskInv' /\ UnwrittenIsKnown'
    BY <1>1 DEF Tick
  <2>4. ScanFindsALine'
    BY <1>1, <2>2 DEF Tick
  <2>. QED
    BY <2>3, <2>4
<1>2. CASE ScanClean
  <2>1. line + 1 \in 0 .. NumLines
    BY <1>2, StorageAssumption DEF ScanClean
  <2>2. StorageTypeOK' /\ MaskInv' /\ UnwrittenIsKnown'
    BY <1>2, <2>1 DEF ScanClean
  <2>3. ScanFindsALine'
    BY <1>2 DEF ScanClean, Lines
  <2>. QED
    BY <2>2, <2>3
<1>3. CASE ScanDirty
  BY <1>3 DEF ScanDirty
<1>4. CASE LoadMask
  BY <1>4 DEF LoadMask
<1>5. CASE ReloadMask
  BY <1>5 DEF ReloadMask
<1>6. CASE RestoreLine
  BY <1>6 DEF RestoreLine, Return
<1>7. CASE TickFails
  BY <1>7 DEF TickFails, SeekFails, WriteFails, Return
<1>. QED
  BY <1>1, <1>2, <1>3, <1>4, <1>5, <1>6, <1>7

LEMMA InitHolds == StorageInit => IInv
<1> SUFFICES ASSUME StorageInit PROVE IInv
  OBVIOUS
<1>1. buffer \in [Cells -> Data] /\ file \in [Cells -> Data]
  BY StorageAssumption DEF StorageInit
<1>2. StorageTypeOK
  BY <1>1, ZeroIsACell DEF StorageInit, StorageTypeOK
<1>3. MaskInv /\ UnwrittenIsKnown /\ ScanFindsALine
  BY DEF StorageInit, MaskInv, UnwrittenIsKnown, ScanFindsALine, Differs
<1>. QED
  BY <1>2, <1>3 DEF IInv

LEMMA Invariance == IInv /\ [StorageNext]_storageVars => IInv'
<1> SUFFICES ASSUME IInv, [StorageNext]_storageVars PROVE IInv'
  OBVIOUS
<1>1. CASE \E loc \in Cells : \E n \in 1 .. Size : \E src \in [1 .. n -> Data] : MainWrites(loc, src)
  <2>. PICK loc \in Cells, n \in 1 .. Size : \E src \in [1 .. n -> Data] : MainWrites(loc, src)
    BY <1>1
  <2>. PICK src \in [1 .. n -> Data] : MainWrites(loc, src)
    OBVIOUS
  <2>1. loc \in Nat /\ n \in Nat /\ Len(src) = n /\ \A i \in 1 .. n : src[i] \in Data
    BY DEF Cells
  <2>2. Marked(WriteBlock(image, loc, src))
    BY <2>1, ImageMarked, WriteBlockMarks DEF IInv
  <2>. QED
    BY <2>2, MainStep DEF MainWrites
<1>2. CASE MainReads
  BY <1>2, ImageMarked, OpenMarked, MainStep DEF MainReads, IInv
<1>3. CASE TickSucceeds
  BY <1>3, WriteStep, ClearStep, ThreadStep DEF TickSucceeds
<1>4. CASE TickFails
  BY <1>4, ThreadStep
<1>5. CASE PowerLoss
  BY <1>5, StorageAssumption, ZeroIsACell DEF PowerLoss, Return, IInv, StorageTypeOK, MaskInv, UnwrittenIsKnown,
              ScanFindsALine, Differs
<1>6. CASE UNCHANGED storageVars
  BY <1>6 DEF storageVars, IInv, StorageTypeOK, MaskInv, UnwrittenIsKnown, ScanFindsALine, Differs,
              BeingWritten
<1>. QED
  BY <1>1, <1>2, <1>3, <1>4, <1>5, <1>6 DEF StorageNext

\* All variables keep their types, whatever the threads and the power do.
THEOREM StorageTypesHold == StorageSpec => []StorageTypeOK
<1>1. StorageInit => IInv
  BY InitHolds
<1>2. IInv => StorageTypeOK
  BY DEF IInv
<1>. QED
  BY <1>1, <1>2, Invariance, PTL DEF StorageSpec

\* The only way to leave a line unwritten is the unlocked update of the mask (Storage.cpp:254-265).
THEOREM UnwrittenLinesAreKnown == StorageSpec => []UnwrittenIsKnown
<1>1. StorageInit => IInv
  BY InitHolds
<1>2. IInv => UnwrittenIsKnown
  BY DEF IInv
<1>. QED
  BY <1>1, <1>2, Invariance, PTL DEF StorageSpec

\* The scan of _timer_tick() finds a line whenever it is begun (Storage.cpp:235-240).
THEOREM ScansFindALine == StorageSpec => []ScanFindsALine
<1>1. StorageInit => IInv
  BY InitHolds
<1>2. IInv => ScanFindsALine
  BY DEF IInv
<1>. QED
  BY <1>1, <1>2, Invariance, PTL DEF StorageSpec

-----------------------------------------------------------------------------
(* The list of records: what scan() and load_all() come to. *)

\* A set of numbers that is not empty has a minimum.
LEMMA SetMin ==
    ASSUME NEW S \in SUBSET Nat, S # {}
    PROVE  Min(S) \in S /\ \A k \in S : Min(S) <= k
<1>1. PICK m \in S : \A k \in S : ~(<<k, m>> \in OpToRel(<, Nat))
  BY NatLessThanWellFounded, WFMin
<1>2. \A k \in S : m <= k
  <2>1. ASSUME NEW k \in S, ~(m <= k)
        PROVE  <<k, m>> \in OpToRel(<, Nat)
    BY <2>1 DEF OpToRel
  <2>. QED
    BY <1>1, <2>1
<1>. QED
  BY <1>2 DEF Min

\* The record behind a record.
LEMMA BehindRecord ==
    ASSUME NEW buf, NEW ofs \in Nat, IsRecord(buf, ofs)
    PROVE  /\ Behind(buf, ofs) \in 0 .. Size + HeaderSize
           /\ ofs + HeaderSize <= Behind(buf, ofs)
           /\ buf[ofs + 1] = Type => Behind(buf, ofs) = ofs + 1 + HeaderSize
           /\ ofs + 1 < Size
<1>1. Size \in Nat
  BY StorageAssumption DEF Size
<1>2. type_size(buf[ofs + 1]) \in {0, 1}
  BY DEF type_size
<1>. QED
  BY <1>1, <1>2 DEF IsRecord, Behind, HeaderSize, type_size

\* The recursive function of Visits, and that there is such a function.
From(buf) ==
    LET from[ofs \in 0 .. Size + HeaderSize] ==
            IF IsRecord(buf, ofs) THEN {ofs} \cup from[Behind(buf, ofs)] ELSE {ofs}
    IN  from

LEMMA FromDefined ==
    ASSUME NEW buf
    PROVE  From(buf) = [ofs \in 0 .. Size + HeaderSize |->
                           IF IsRecord(buf, ofs) THEN {ofs} \cup From(buf)[Behind(buf, ofs)] ELSE {ofs}]
<1>. DEFINE N == Size + HeaderSize
            Rule(f, ofs) == IF IsRecord(buf, ofs) THEN {ofs} \cup f[Behind(buf, ofs)] ELSE {ofs}
            Is(f, n) == f = [ofs \in 0 .. N |-> IF N <= ofs + n THEN Rule(f, ofs) ELSE {}]
            Missed == {n \in Nat : ~ \E f : Is(f, n)}
<1>1. Size \in Nat /\ N \in Nat
  BY StorageAssumption DEF Size, HeaderSize
<1>2. Missed = {}
  <2>1. SUFFICES ASSUME Missed # {} PROVE FALSE
    OBVIOUS
  <2>2. PICK n \in Missed : \A k \in Missed : n <= k
    <3>. HIDE DEF Missed
    <3>1. Missed \in SUBSET Nat
      BY DEF Missed
    <3>. QED
      BY <2>1, <3>1, SetMin
  <2>3. n # 0
    <3>. DEFINE g == [ofs \in 0 .. N |-> IF N <= ofs + 0 THEN {ofs} ELSE {}]
    <3>1. ASSUME NEW ofs \in 0 .. N, N <= ofs + 0
          PROVE  ~IsRecord(buf, ofs)
      BY <1>1, <3>1 DEF IsRecord, HeaderSize
    <3>2. Is(g, 0)
      BY <3>1
    <3>. QED
      BY <3>2
  <2>4. n - 1 \in Nat /\ n \in Nat
    BY <2>3
  <2>5. PICK f : Is(f, n - 1)
    <3>. HIDE DEF Is
    <3>. QED
      BY <2>2, <2>4
  <2>. DEFINE g == [ofs \in 0 .. N |-> IF N <= ofs + n THEN Rule(f, ofs) ELSE {}]
  <2>6. ASSUME NEW ofs \in 0 .. N, N <= ofs + n
        PROVE  Rule(g, ofs) = Rule(f, ofs)
    <3>1. CASE ~IsRecord(buf, ofs)
      BY <3>1
    <3>2. CASE IsRecord(buf, ofs)
      <4>. DEFINE b == Behind(buf, ofs)
      <4>1. b \in 0 .. N /\ ofs + HeaderSize <= b
        BY <3>2, BehindRecord
      <4>. HIDE DEF b
      <4>2. N <= b + n /\ N <= b + (n - 1)
        BY <4>1, <1>1, <2>4, <2>6 DEF HeaderSize
      <4>3. f[b] = Rule(f, b)
        BY <2>5, <4>1, <4>2
      <4>4. g[b] = Rule(f, b)
        BY <4>1, <4>2
      <4>. HIDE DEF g
      <4>. QED
        BY <3>2, <4>3, <4>4 DEF b
    <3>. QED
      BY <3>1, <3>2
  <2>7. Is(g, n)
    BY <2>6
  <2>. HIDE DEF Is, g
  <2>. QED
    BY <2>2, <2>7
<1>3. PICK f : Is(f, N)
  BY <1>1, <1>2
<1>4. f = [ofs \in 0 .. N |-> Rule(f, ofs)]
  <2>1. \A ofs \in 0 .. N : N <= ofs + N
    BY <1>1
  <2>. HIDE DEF N, Rule
  <2>. QED
    BY <1>3, <2>1
<1>. QED
  BY <1>4 DEF From

\* What scan() and load_all() do when they begin at the offset ofs: they go through records, one
\* behind the other, to the first offset that is none, and to nothing else.
Chain(buf, V, ofs) ==
    /\ ofs \in V
    /\ V \subseteq ofs .. Size + HeaderSize
    /\ \A x \in V : IsRecord(buf, x) => Behind(buf, x) \in V
    /\ \E e \in V : ~IsRecord(buf, e) /\ \A x \in V \ {e} : x < e /\ IsRecord(buf, x)
    /\ \A x, y \in V : x < y => IsRecord(buf, x) /\ Behind(buf, x) <= y
    /\ \A S : ofs \in S /\ (\A x \in V \cap S : IsRecord(buf, x) => Behind(buf, x) \in S)
                => V \subseteq S

\* An offset that is no record is a walk of its own.
LEMMA ChainEnds ==
    ASSUME NEW buf, NEW ofs \in 0 .. Size + HeaderSize, ~IsRecord(buf, ofs)
    PROVE  Chain(buf, {ofs}, ofs)
<1>1. Size + HeaderSize \in Nat
  BY StorageAssumption DEF Size, HeaderSize
<1>. QED
  BY <1>1 DEF Chain

\* A record followed by the walk that begins behind it.
LEMMA ChainGrows ==
    ASSUME NEW buf, NEW ofs \in 0 .. Size + HeaderSize, IsRecord(buf, ofs),
           NEW V, Chain(buf, V, Behind(buf, ofs))
    PROVE  Chain(buf, {ofs} \cup V, ofs)
<1>. DEFINE b == Behind(buf, ofs)
            W == {ofs} \cup V
<1>1. Size + HeaderSize \in Nat /\ b \in 0 .. Size + HeaderSize /\ ofs < b
  BY StorageAssumption, BehindRecord DEF Size, HeaderSize
<1>2. \A x \in V : x \in Nat /\ b <= x /\ x <= Size + HeaderSize /\ ofs < x
  BY <1>1 DEF Chain
<1>3. W \subseteq ofs .. Size + HeaderSize
  BY <1>2
<1>4. \A x \in W : IsRecord(buf, x) => Behind(buf, x) \in W
  BY DEF Chain
<1>5. \E e \in W : ~IsRecord(buf, e) /\ \A x \in W \ {e} : x < e /\ IsRecord(buf, x)
  <2>1. PICK e \in V : ~IsRecord(buf, e) /\ \A x \in V \ {e} : x < e /\ IsRecord(buf, x)
    BY DEF Chain
  <2>. QED
    BY <1>2, <2>1
<1>6. ASSUME NEW x \in W, NEW y \in W, x < y
      PROVE  IsRecord(buf, x) /\ Behind(buf, x) <= y
  BY <1>2, <1>6 DEF Chain
<1>7. ASSUME NEW S, ofs \in S, \A x \in W \cap S : IsRecord(buf, x) => Behind(buf, x) \in S
      PROVE  W \subseteq S
  <2>1. b \in S
    BY <1>7
  <2>. QED
    BY <1>7, <2>1 DEF Chain
<1>. QED
  BY <1>3, <1>4, <1>5, <1>6, <1>7 DEF Chain

\* The function describes such a walk from each offset: the largest one from which it does not would
\* be a record, with a walk behind it.
LEMMA FromChain ==
    ASSUME NEW buf, NEW ofs \in 0 .. Size + HeaderSize
    PROVE  Chain(buf, From(buf)[ofs], ofs)
<1>. DEFINE N == Size + HeaderSize
            Missed == {n \in 0 .. N : ~Chain(buf, From(buf)[N - n], N - n)}
<1>1. N \in Nat
  BY StorageAssumption DEF Size, HeaderSize
<1>2. Missed = {}
  <2>1. SUFFICES ASSUME Missed # {} PROVE FALSE
    OBVIOUS
  <2>2. PICK n \in Missed : \A k \in Missed : n <= k
    <3>. HIDE DEF Missed
    <3>1. Missed \in SUBSET Nat
      BY DEF Missed
    <3>. QED
      BY <2>1, <3>1, SetMin
  <2>. DEFINE o == N - n
  <2>3. n \in 0 .. N /\ o \in 0 .. N /\ ~Chain(buf, From(buf)[o], o)
    BY <1>1, <2>2
  <2>4. IsRecord(buf, o)
    <3>. HIDE DEF N, o
    <3>1. ~IsRecord(buf, o) => From(buf)[o] = {o}
      BY <2>3, FromDefined DEF N
    <3>. QED
      BY <2>3, <3>1, ChainEnds DEF N
  <2>. DEFINE b == Behind(buf, o)
  <2>5. b \in 0 .. N /\ o < b
    <3>. HIDE DEF o
    <3>. QED
      BY <2>3, <2>4, BehindRecord DEF HeaderSize
  <2>6. From(buf)[o] = {o} \cup From(buf)[b]
    <3>. HIDE DEF N, o
    <3>. QED
      BY <2>3, <2>4, FromDefined DEF N
  <2>7. Chain(buf, From(buf)[b], b)
    <3>. HIDE DEF b
    <3>1. N - b \in 0 .. N /\ ~(n <= N - b) /\ N - (N - b) = b
      BY <1>1, <2>3, <2>5
    <3>2. N - b \notin Missed
      BY <2>2, <3>1
    <3>. HIDE DEF N
    <3>. QED
      BY <3>1, <3>2
  <2>8. Chain(buf, From(buf)[o], o)
    <3>. HIDE DEF o
    <3>. QED
      BY <2>3, <2>4, <2>6, <2>7, ChainGrows
  <2>. QED
    BY <2>3, <2>8
<1>3. N - ofs \in 0 .. N /\ N - (N - ofs) = ofs
  BY <1>1
<1>. HIDE DEF N
<1>. QED
  BY <1>2, <1>3

\* What Visits is, without recursion.
LEMMA VisitsChain ==
    ASSUME NEW buf
    PROVE  Chain(buf, Visits(buf), FirstRecord)
<1>1. FirstRecord \in 0 .. Size + HeaderSize
  BY StorageAssumption DEF Size, HeaderSize, FirstRecord
<1>2. Visits(buf) = From(buf)[FirstRecord]
  BY DEF Visits, From
<1>. QED
  BY <1>1, <1>2, FromChain

-----------------------------------------------------------------------------
\* A set of numbers with a bound has a maximum.
LEMMA SetMax ==
    ASSUME NEW n \in Nat, NEW S \in SUBSET (0 .. n), S # {}
    PROVE  Max(S) \in S /\ \A k \in S : k <= Max(S)
<1>. DEFINE T == {n - k : k \in S}
<1>1. T \in SUBSET Nat /\ T # {}
  <2>1. \A k \in S : n - k \in Nat
    OBVIOUS
  <2>2. T # {}
    <3>1. PICK k \in S : TRUE
      OBVIOUS
    <3>2. n - k \in T
      OBVIOUS
    <3>. QED
      BY <3>2
  <2>. QED
    BY <2>1, <2>2
<1>2. Min(T) \in T /\ \A k \in T : Min(T) <= k
  BY <1>1, SetMin
<1>3. PICK m \in S : Min(T) = n - m
  BY <1>2
<1>4. \A k \in S : n - m <= n - k
  BY <1>2, <1>3
<1>5. \A k \in S : m >= k
  BY <1>4
<1>. QED
  BY <1>5 DEF Max

\* The offsets of the walk are numbers, and the last is where it ends.
LEMMA VisitsEnd ==
    ASSUME NEW buf
    PROVE  /\ Visits(buf) \subseteq 1 .. Size + HeaderSize
           /\ FirstRecord \in Visits(buf)
           /\ Max(Visits(buf)) \in Visits(buf)
           /\ \A x \in Visits(buf) : x <= Max(Visits(buf))
<1>1. Size + HeaderSize \in Nat /\ FirstRecord = 1
  BY StorageAssumption DEF Size, HeaderSize, FirstRecord
<1>2. Visits(buf) \subseteq 1 .. Size + HeaderSize /\ FirstRecord \in Visits(buf)
  BY <1>1, VisitsChain DEF Chain
<1>3. Visits(buf) \in SUBSET (0 .. Size + HeaderSize) /\ Visits(buf) # {}
  BY <1>2
<1>. QED
  BY <1>1, <1>2, <1>3, SetMax

\* Two contents that have the same headers up to an offset of the walk.
Heads(f, g, e) == \A x \in Visits(f) : x < e => g[x] = f[x] /\ g[x + 1] = f[x + 1]

\* The offsets before one of the walk are records that end before it.
LEMMA Before ==
    ASSUME NEW buf, NEW e \in Visits(buf), NEW x \in Visits(buf), x < e
    PROVE  IsRecord(buf, x) /\ Behind(buf, x) \in Visits(buf) /\ Behind(buf, x) <= e
BY VisitsChain DEF Chain

LEMMA SameRecord ==
    ASSUME NEW f, NEW g, NEW x, g[x] = f[x], g[x + 1] = f[x + 1]
    PROVE  (IsRecord(g, x) <=> IsRecord(f, x)) /\ Behind(g, x) = Behind(f, x)
BY DEF IsRecord, IsSentinel, Behind

\* Contents with the same headers up to an offset are walked alike up to there.
LEMMA SameWalk ==
    ASSUME NEW f, NEW g, NEW e \in Visits(f), Heads(f, g, e)
    PROVE  /\ e \in Visits(g)
           /\ \A x \in Visits(g) : x < e => x \in Visits(f)
           /\ \A x \in Visits(f) : x < e => x \in Visits(g)
<1>0. Visits(f) \subseteq Nat /\ Visits(g) \subseteq Nat /\ FirstRecord \in Visits(f) \cap Visits(g)
  BY VisitsEnd
<1>1. Visits(g) \subseteq {x \in Visits(f) : x < e} \cup {x \in Nat : e <= x}
  <2>. DEFINE S == {x \in Visits(f) : x < e} \cup {x \in Nat : e <= x}
  <2>1. FirstRecord \in S
    BY <1>0
  <2>2. ASSUME NEW x \in Visits(g) \cap S, IsRecord(g, x)
        PROVE  Behind(g, x) \in S
    <3>1. Behind(g, x) \in Nat /\ x <= Behind(g, x)
      BY <1>0, <2>2, BehindRecord DEF HeaderSize
    <3>2. CASE e <= x
      BY <3>1, <3>2, <1>0
    <3>3. CASE x \in Visits(f) /\ x < e
      <4>1. Behind(g, x) = Behind(f, x)
        BY <3>3, SameRecord DEF Heads
      <4>2. Behind(g, x) \in Visits(f)
        BY <3>3, <4>1, Before
      <4>. QED
        BY <3>1, <4>2, <1>0
    <3>. QED
      BY <3>2, <3>3
  <2>. HIDE DEF S
  <2>. QED
    BY <2>1, <2>2, VisitsChain DEF Chain, S
<1>2. Visits(f) \subseteq Visits(g) \cup {x \in Nat : e < x}
  <2>. DEFINE S == Visits(g) \cup {x \in Nat : e < x}
  <2>1. FirstRecord \in S
    BY <1>0
  <2>2. ASSUME NEW x \in Visits(f) \cap S, IsRecord(f, x)
        PROVE  Behind(f, x) \in S
    <3>1. Behind(f, x) \in Nat /\ x < Behind(f, x)
      BY <1>0, <2>2, BehindRecord DEF HeaderSize
    <3>2. CASE e <= x
      BY <3>1, <3>2, <1>0
    <3>3. CASE x < e
      <4>1. x \in Visits(g)
        BY <2>2, <3>3, <1>0
      <4>2. Behind(g, x) = Behind(f, x) /\ IsRecord(g, x)
        BY <2>2, <3>3, SameRecord DEF Heads
      <4>3. Behind(f, x) \in Visits(g)
        BY <4>1, <4>2, VisitsChain DEF Chain
      <4>. QED
        BY <4>3
    <3>. QED
      BY <3>2, <3>3, <1>0
  <2>. HIDE DEF S
  <2>. QED
    BY <2>1, <2>2, VisitsChain DEF Chain, S
<1>. QED
  BY <1>0, <1>1, <1>2

\* The key does not stand where a record might begin.
Absent(buf, key, e) == \A c \in e .. Size - 2 : buf[c] # key

\* Then all records of the key end before that offset.
LEMMA RecordsBefore ==
    ASSUME NEW buf, NEW e \in Visits(buf), NEW key, Absent(buf, key, e), NEW r \in Records(buf, key)
    PROVE  r \in Nat /\ r < e /\ r + 1 + HeaderSize <= e
<1>1. r \in Nat /\ e \in Nat /\ r + 1 < Size /\ Size \in Nat
  BY VisitsEnd, StorageAssumption DEF Records, Walk, IsRecord, Size
<1>2. r < e
  BY <1>1 DEF Absent, Records
<1>3. Behind(buf, r) <= e
  BY <1>2, Before DEF Records, Walk
<1>4. Behind(buf, r) = r + 1 + HeaderSize
  BY <1>1, BehindRecord DEF Records, Walk
<1>. QED
  BY <1>1, <1>2, <1>3, <1>4

\* They have the same records of a key that does not stand further on.
LEMMA SameRecords ==
    ASSUME NEW f, NEW g, NEW e \in Visits(f), Heads(f, g, e),
           NEW key, Absent(f, key, e), Absent(g, key, e)
    PROVE  Records(g, key) = Records(f, key)
<1>1. ASSUME NEW r \in Records(f, key) PROVE r \in Records(g, key)
  <2>1. r < e
    BY RecordsBefore
  <2>. QED
    BY <2>1, SameWalk, SameRecord DEF Heads, Records, Walk
<1>2. ASSUME NEW r \in Records(g, key) PROVE r \in Records(f, key)
  <2>1. r < e
    BY SameWalk, RecordsBefore
  <2>. QED
    BY <2>1, SameWalk, SameRecord DEF Heads, Records, Walk
<1>. QED
  BY <1>1, <1>2

\* Contents with the same records of a key load it from the same cell.
LEMMA LoadsFrom ==
    ASSUME NEW f, NEW key
    PROVE  \/ \A g : Records(g, key) = Records(f, key) => load_all(g, key) = Default
           \/ \E r \in Records(f, key) :
                 /\ r + HeaderSize < Size
                 /\ \A g : Records(g, key) = Records(f, key) => load_all(g, key) = g[r + HeaderSize]
<1>. DEFINE found == {r \in Records(f, key) : r + HeaderSize < Size}
<1>1. CASE found = {}
  BY <1>1 DEF load_all
<1>2. CASE found # {}
  <2>1. Size + HeaderSize \in Nat /\ found \in SUBSET (0 .. Size + HeaderSize)
    BY VisitsEnd, StorageAssumption DEF Records, Walk, Size, HeaderSize
  <2>2. Max(found) \in found
    BY <1>2, <2>1, SetMax
  <2>3. \A g : Records(g, key) = Records(f, key) => load_all(g, key) = g[Max(found) + HeaderSize]
    BY <1>2 DEF load_all
  <2>. QED
    BY <2>2, <2>3
<1>. QED
  BY <1>1, <1>2
-----------------------------------------------------------------------------
\* A write to an open storage.
LEMMA OpenWrite ==
    ASSUME StorageTypeOK, NEW im, Marked(im), im.open,
           NEW loc \in Nat, NEW n \in Nat, NEW src, Len(src) = n, \A i \in 1 .. n : src[i] \in Data
    PROVE  /\ Marked(WriteBlock(im, loc, src))
           /\ WriteBlock(im, loc, src).open
           /\ WriteBlock(im, loc, src).buf = Overwrite(im.buf, loc, src)
<1>. DEFINE b == Overwrite(im.buf, loc, src)
            k == im.mask \cup MarkDirty(loc, Len(src))
            new == WriteBlock(im, loc, src)
<1>1. new = IF b = im.buf THEN im ELSE [im EXCEPT !.buf = b, !.mask = k]
  BY DEF WriteBlock, StorageOpen
<1>2. im \in [buf : [Cells -> Data], mask : SUBSET Lines, open : BOOLEAN]
  BY DEF Marked
<1>3. Marked(new)
  BY WriteBlockMarks
<1>4. new.open /\ new.buf = b
  <2>. HIDE DEF b, k, new
  <2>. QED
    BY <1>1, <1>2
<1>. QED
  BY <1>3, <1>4

\* A value, or the magic, is written.
LEMMA OneCell ==
    ASSUME StorageTypeOK, NEW im, Marked(im), im.open, NEW loc \in Nat, NEW value \in Data
    PROVE  LET new == WriteBlock(im, loc, <<value>>)
           IN  /\ Marked(new)
               /\ new.open
               /\ \A c \in Cells : new.buf[c] = IF c = loc THEN value ELSE im.buf[c]
<1>. DEFINE src == <<value>>
            new == WriteBlock(im, loc, src)
<1>1. Len(src) = 1 /\ \A i \in 1 .. 1 : src[i] \in Data
  OBVIOUS
<1>2. Marked(new) /\ new.open /\ new.buf = Overwrite(im.buf, loc, src)
  <2>. HIDE DEF src
  <2>. QED
    BY <1>1, OpenWrite
<1>3. ASSUME NEW c \in Cells
      PROVE  Overwrite(im.buf, loc, src)[c] = IF c = loc THEN value ELSE im.buf[c]
  BY DEF Overwrite, Cells
<1>. QED
  BY <1>2, <1>3

\* A header is written.
LEMMA TwoCells ==
    ASSUME StorageTypeOK, NEW im, Marked(im), im.open, NEW loc \in Nat, NEW a \in Data, NEW b \in Data
    PROVE  LET new == WriteBlock(im, loc, <<a, b>>)
           IN  /\ Marked(new)
               /\ new.open
               /\ \A c \in Cells : new.buf[c] = IF c = loc THEN a ELSE IF c = loc + 1 THEN b ELSE im.buf[c]
<1>. DEFINE src == <<a, b>>
            new == WriteBlock(im, loc, src)
<1>1. Len(src) = 2 /\ \A i \in 1 .. 2 : src[i] \in Data
  OBVIOUS
<1>2. Marked(new) /\ new.open /\ new.buf = Overwrite(im.buf, loc, src)
  <2>. HIDE DEF src
  <2>. QED
    BY <1>1, OpenWrite
<1>3. ASSUME NEW c \in Cells
      PROVE  Overwrite(im.buf, loc, src)[c] = IF c = loc THEN a ELSE IF c = loc + 1 THEN b ELSE im.buf[c]
  BY DEF Overwrite, Cells
<1>. QED
  BY <1>2, <1>3

LEMMA Contents ==
    /\ Sentinel \in Data /\ Type \in Data /\ Magic \in Data /\ ParamKeys \subseteq Data
    /\ Values \cup {Version} \subseteq Data
    /\ \A key \in ParamKeys : key # Sentinel /\ key # Type /\ key \notin Values \cup {Version}
BY ParamAssumption DEF ParamKeys

\* A saved parameter that is not in the list is put in the sentinel's place.
LEMMA SaveAdds ==
    ASSUME StorageTypeOK, NEW im, Marked(im), im.open,
           NEW key \in ParamKeys, NEW value \in Values \cup {Version}, ~IsFound(im.buf, key),
           NEW ofs, ofs = WalkEnd(im.buf), ofs # Nowhere
    PROVE  LET new == WriteBlock(WriteBlock(write_sentinal(im, ofs + HeaderSize + 1),
                                            ofs + HeaderSize, <<value>>),
                                 ofs, <<key, Type>>)
           IN  /\ Marked(new) /\ new.open
               /\ ofs = Max(Visits(im.buf))
               /\ \A c \in Cells : c < ofs => new.buf[c] = im.buf[c]
               /\ \A c \in Cells : new.buf[c] = im.buf[c] \/ new.buf[c] \in {key, Type, value, Sentinel}
<1>. DEFINE one == write_sentinal(im, ofs + HeaderSize + 1)
            two == WriteBlock(one, ofs + HeaderSize, <<value>>)
            new == WriteBlock(two, ofs, <<key, Type>>)
<1>1. ofs = Max(Visits(im.buf)) /\ ofs \in Nat
  BY VisitsEnd DEF WalkEnd
<1>2. HeaderSize = 2 /\ Cells \subseteq Nat
  BY DEF HeaderSize, Cells
<1>3. /\ Marked(one) /\ one.open
      /\ \A c \in Cells : one.buf[c] = IF c = ofs + 3 \/ c = ofs + 4 THEN Sentinel ELSE im.buf[c]
  <2>1. one = WriteBlock(im, ofs + 3, <<Sentinel, Sentinel>>) /\ ofs + 3 \in Nat
    BY <1>1, <1>2 DEF write_sentinal
  <2>2. ofs + 3 + 1 = ofs + 4
    BY <1>1
  <2>. QED
    BY <2>1, <2>2, TwoCells, Contents
<1>. HIDE DEF one
<1>4. /\ Marked(two) /\ two.open
      /\ \A c \in Cells : two.buf[c] = IF c = ofs + 2 THEN value ELSE one.buf[c]
  <2>. DEFINE w == WriteBlock(one, ofs + 2, <<value>>)
  <2>1. two = w /\ ofs + 2 \in Nat /\ value \in Data
    BY <1>1, <1>2, Contents
  <2>2. Marked(one) /\ one.open
    BY <1>3
  <2>3. Marked(w) /\ w.open
    BY <2>1, <2>2, OneCell
  <2>4. \A c \in Cells : w.buf[c] = IF c = ofs + 2 THEN value ELSE one.buf[c]
    BY <2>1, <2>2, OneCell
  <2>. QED
    BY <2>1, <2>3, <2>4
<1>. HIDE DEF two
<1>5. /\ Marked(new) /\ new.open
      /\ \A c \in Cells : new.buf[c] = IF c = ofs THEN key ELSE IF c = ofs + 1 THEN Type ELSE two.buf[c]
  <2>1. Marked(two) /\ two.open /\ key \in Data /\ Type \in Data
    BY <1>4, Contents
  <2>2. Marked(new) /\ new.open
    BY <1>1, <2>1, TwoCells
  <2>3. \A c \in Cells : new.buf[c] = IF c = ofs THEN key ELSE IF c = ofs + 1 THEN Type ELSE two.buf[c]
    BY <1>1, <2>1, TwoCells
  <2>. QED
    BY <2>2, <2>3
<1>. HIDE DEF new
<1>6. \A c \in Cells : c < ofs => new.buf[c] = im.buf[c]
  BY <1>1, <1>2, <1>3, <1>4, <1>5
<1>7. \A c \in Cells : new.buf[c] = im.buf[c] \/ new.buf[c] \in {key, Type, value, Sentinel}
  BY <1>3, <1>4, <1>5
<1>8. /\ Marked(new) /\ new.open
      /\ ofs = Max(Visits(im.buf))
      /\ \A c \in Cells : c < ofs => new.buf[c] = im.buf[c]
      /\ \A c \in Cells : new.buf[c] = im.buf[c] \/ new.buf[c] \in {key, Type, value, Sentinel}
  BY <1>1, <1>5, <1>6, <1>7
<1>. QED
  BY <1>8 DEF new, two, one
\* A saved parameter that is in the list gets its value where it is.
LEMMA SaveOverwrites ==
    ASSUME StorageTypeOK, NEW im, Marked(im), im.open,
           NEW key \in ParamKeys, NEW value \in Values \cup {Version}, IsFound(im.buf, key)
    PROVE  LET new == WriteBlock(im, ValueAt(im.buf, key), <<value>>)
           IN  /\ Marked(new) /\ new.open
               /\ \E r \in Records(im.buf, key) :
                     \A c \in Cells : new.buf[c] = IF c = r + HeaderSize THEN value ELSE im.buf[c]
<1>. DEFINE r == Scan(im.buf, key)
            loc == ValueAt(im.buf, key)
            new == WriteBlock(im, loc, <<value>>)
<1>1. r \in Records(im.buf, key) /\ r \in Nat
  <2>1. Records(im.buf, key) \in SUBSET Nat
    BY VisitsEnd DEF Records, Walk
  <2>. QED
    BY <2>1, SetMin DEF IsFound, Scan
<1>2. loc = r + HeaderSize /\ loc \in Nat /\ value \in Data
  BY <1>1, Contents DEF ValueAt, HeaderSize
<1>. HIDE DEF r, loc
<1>3. Marked(new) /\ new.open
  BY <1>2, OneCell
<1>4. \A c \in Cells : new.buf[c] = IF c = loc THEN value ELSE im.buf[c]
  BY <1>2, OneCell
<1>5. \A c \in Cells : new.buf[c] = IF c = r + HeaderSize THEN value ELSE im.buf[c]
  BY <1>2, <1>4
<1>. HIDE DEF new
<1>6. \E x \in Records(im.buf, key) :
         \A c \in Cells : new.buf[c] = IF c = x + HeaderSize THEN value ELSE im.buf[c]
  BY <1>1, <1>5
<1>. QED
  BY <1>3, <1>6 DEF new, loc

\* What a save of the parameter leaves as it is in the content f, when it makes g of it: up to the
\* offset e of the list the headers, and the values of other parameters; no key is written but that
\* of a parameter that is not found.
Leaves(f, g, key, e) ==
    /\ Heads(f, g, e)
    /\ \A other \in ParamKeys \ {key} : \A c \in Cells : f[c] # other => g[c] # other
    /\ IsFound(f, key) => \A c \in Cells : f[c] # key => g[c] # key
    /\ \A other \in ParamKeys \ {key} :
          \A r \in Records(f, other) :
             r + HeaderSize < Size /\ r + HeaderSize < e => g[r + HeaderSize] = f[r + HeaderSize]

LEMMA SaveLeaves ==
    ASSUME StorageTypeOK, NEW im, Marked(im), im.open,
           NEW key \in ParamKeys, NEW value \in Values \cup {Version},
           NEW e \in Visits(im.buf)
    PROVE  LET new == Save(im, key, value)
           IN  Marked(new) /\ new.open /\ Leaves(im.buf, new.buf, key, e)
<1>. DEFINE new == Save(im, key, value)
<1>0. /\ Visits(im.buf) \subseteq Nat /\ HeaderSize = 2 /\ Size \in Nat
      /\ \A c \in Nat : c < Size => c \in Cells
  BY VisitsEnd, StorageAssumption DEF HeaderSize, Cells, Size
<1>1. ASSUME NEW x \in Visits(im.buf), x < e
      PROVE  /\ x \in Cells /\ x + 1 \in Cells
             /\ IsRecord(im.buf, x) /\ Behind(im.buf, x) <= e /\ x + 2 <= Behind(im.buf, x)
             /\ Behind(im.buf, x) \in Nat
  <2>1. IsRecord(im.buf, x) /\ Behind(im.buf, x) <= e
    BY <1>1, Before
  <2>. QED
    BY <1>0, <2>1, BehindRecord
<1>2. CASE IsFound(im.buf, key)
  <2>. DEFINE n == WriteBlock(im, ValueAt(im.buf, key), <<value>>)
  <2>1. new = n
    BY <1>2 DEF Save
  <2>2. Marked(n) /\ n.open
    BY <1>2, SaveOverwrites
  <2>3. PICK r \in Records(im.buf, key) :
           \A c \in Cells : n.buf[c] = IF c = r + HeaderSize THEN value ELSE im.buf[c]
    BY <1>2, SaveOverwrites
  <2>. HIDE DEF n
  <2>4. r \in Visits(im.buf) /\ IsRecord(im.buf, r) /\ Behind(im.buf, r) = r + 3 /\ im.buf[r] = key
    BY <1>0, BehindRecord DEF Records, Walk
  <2>5. Heads(im.buf, n.buf, e)
    <3>1. ASSUME NEW x \in Visits(im.buf), x < e
          PROVE  x # r + 2 /\ x + 1 # r + 2
      <4>1. x > r => r + 3 <= x
        BY <2>4, <3>1, VisitsChain DEF Chain
      <4>. QED
        BY <1>0, <2>4, <4>1
    <3>. QED
      BY <1>0, <1>1, <2>3, <3>1 DEF Heads
  <2>6. ASSUME NEW other \in ParamKeys, NEW c \in Cells, im.buf[c] # other
        PROVE  n.buf[c] # other
    BY <2>3, <2>6, Contents
  <2>7. ASSUME NEW other \in ParamKeys \ {key}, NEW q \in Records(im.buf, other),
               q + HeaderSize < Size
        PROVE  n.buf[q + HeaderSize] = im.buf[q + HeaderSize]
    <3>1. q # r /\ q \in Nat /\ r \in Nat
      BY <2>4, <1>0 DEF Records, Walk
    <3>2. q + HeaderSize \in Cells /\ q + HeaderSize # r + HeaderSize
      BY <1>0, <2>7, <3>1
    <3>. QED
      BY <2>3, <3>2
  <2>8. Leaves(im.buf, n.buf, key, e)
    BY <2>5, <2>6, <2>7 DEF Leaves
  <2>. QED
    BY <2>1, <2>2, <2>8
<1>3. CASE /\ ~IsFound(im.buf, key) /\ WalkEnd(im.buf) # Nowhere /\ value # Default
           /\ WalkEnd(im.buf) + 1 + 2 * HeaderSize < Size
  <2>. DEFINE ofs == WalkEnd(im.buf)
              n == WriteBlock(WriteBlock(write_sentinal(im, ofs + HeaderSize + 1),
                                         ofs + HeaderSize, <<value>>),
                              ofs, <<key, Type>>)
  <2>1. new = n
    BY <1>3 DEF Save
  <2>2. Marked(n) /\ n.open
    BY <1>3, SaveAdds
  <2>3. /\ ofs = Max(Visits(im.buf))
        /\ \A c \in Cells : c < ofs => n.buf[c] = im.buf[c]
        /\ \A c \in Cells : n.buf[c] = im.buf[c] \/ n.buf[c] \in {key, Type, value, Sentinel}
    BY <1>3, SaveAdds
  <2>. HIDE DEF n, ofs
  <2>4. e <= ofs /\ ofs \in Nat /\ e \in Nat
    BY <1>0, <2>3, VisitsEnd
  <2>5. Heads(im.buf, n.buf, e)
    <3>1. ASSUME NEW x \in Visits(im.buf), x < e
          PROVE  x \in Cells /\ x + 1 \in Cells /\ x < ofs /\ x + 1 < ofs
      BY <1>0, <1>1, <2>4, <3>1
    <3>. QED
      BY <2>3, <3>1 DEF Heads
  <2>6. ASSUME NEW other \in ParamKeys \ {key}, NEW c \in Cells, im.buf[c] # other
        PROVE  n.buf[c] # other
    BY <2>3, <2>6, Contents
  <2>7. ASSUME NEW other \in ParamKeys \ {key}, NEW q \in Records(im.buf, other),
               q + HeaderSize < Size, q + HeaderSize < e
        PROVE  n.buf[q + HeaderSize] = im.buf[q + HeaderSize]
    <3>1. q + HeaderSize \in Cells /\ q + HeaderSize < ofs
      BY <1>0, <2>4, <2>7 DEF Records, Walk
    <3>. QED
      BY <2>3, <3>1
  <2>8. Leaves(im.buf, n.buf, key, e)
    BY <1>3, <2>5, <2>6, <2>7 DEF Leaves
  <2>. QED
    BY <2>1, <2>2, <2>8
<1>4. CASE ~IsFound(im.buf, key) /\ ~(/\ ~IsFound(im.buf, key) /\ WalkEnd(im.buf) # Nowhere /\ value # Default
           /\ WalkEnd(im.buf) + 1 + 2 * HeaderSize < Size)
  <2>1. new = im
    BY <1>4 DEF Save
  <2>2. Leaves(im.buf, im.buf, key, e)
    BY DEF Leaves, Heads
  <2>. QED
    BY <2>1, <2>2
<1>. QED
  BY <1>2, <1>3, <1>4
-----------------------------------------------------------------------------
\* A parameter that is in the file survives: image b and file f have the same list up to an offset
\* behind its last record, and nothing that could be taken for it stands there or further on.
Kept(b, f, values, key) ==
    /\ IsFound(b, key)
    /\ {load_all(b, key), load_all(f, key)} \subseteq values
    /\ \E e \in Visits(b) : Heads(b, f, e) /\ Absent(b, key, e) /\ Absent(f, key, e)

\* It is found in the file and loaded with a value it may have.
LEMMA KeptIsFound ==
    ASSUME NEW b, NEW f, NEW values, NEW key, Kept(b, f, values, key)
    PROVE  IsFound(f, key) /\ load_all(f, key) \in values
<1>1. Records(f, key) = Records(b, key)
  BY SameRecords DEF Kept
<1>. QED
  BY <1>1 DEF Kept, IsFound

\* The file is equal to the image.
LEMMA SyncedKept ==
    ASSUME NEW f, NEW key, IsFound(f, key), ~LeftBehind(f, key)
    PROVE  Kept(f, f, {load_all(f, key)}, key)
<1>. DEFINE e == Max(Visits(f))
<1>1. e \in Visits(f) /\ e \in Nat /\ Size \in Nat
  BY VisitsEnd, StorageAssumption DEF Size
<1>2. Absent(f, key, e)
  <2>1. SUFFICES ASSUME NEW c \in e .. Size - 2 PROVE f[c] # key
    BY DEF Absent
  <2>2. e + 1 < Size /\ c \in e .. Size - 1
    BY <1>1
  <2>3. WalkEnd(f) = e
    BY <2>2 DEF WalkEnd
  <2>. QED
    BY <2>2, <2>3 DEF LeftBehind
<1>3. Heads(f, f, e)
  BY DEF Heads
<1>. QED
  BY <1>1, <1>2, <1>3 DEF Kept

\* A parameter is saved, this one or another.
LEMMA SaveKept ==
    ASSUME StorageTypeOK, NEW im, Marked(im), im.open,
           NEW key \in ParamKeys, NEW value \in Values \cup {Version},
           NEW f, NEW values, NEW other \in ParamKeys, Kept(im.buf, f, values, other)
    PROVE  LET new == Save(im, key, value)
           IN  Kept(new.buf, f,
                    IF other = key THEN values \cup {load_all(new.buf, other)} ELSE values, other)
<1>. DEFINE b == im.buf
            g == Save(im, key, value).buf
            had == IF other = key THEN values \cup {load_all(g, other)} ELSE values
<1>1. PICK e \in Visits(b) : Heads(b, f, e) /\ Absent(b, other, e) /\ Absent(f, other, e)
  BY DEF Kept
<1>2. /\ Heads(b, g, e)
      /\ \A c \in Cells : b[c] # other => g[c] # other
      /\ key # other =>
            \A r \in Records(b, other) :
               r + HeaderSize < Size /\ r + HeaderSize < e => g[r + HeaderSize] = b[r + HeaderSize]
  <2>1. Leaves(b, g, key, e)
    BY <1>1, SaveLeaves
  <2>2. IsFound(b, other)
    BY DEF Kept
  <2>. HIDE DEF b, g
  <2>. QED
    BY <2>1, <2>2 DEF Leaves
<1>3. Absent(g, other, e)
  <2>1. \A c \in e .. Size - 2 : c \in Cells
    BY VisitsEnd, StorageAssumption DEF Cells, Size
  <2>. HIDE DEF b, g
  <2>. QED
    BY <1>1, <1>2, <2>1 DEF Absent
<1>. HIDE DEF g
<1>4. Records(g, other) = Records(b, other)
  <2>. HIDE DEF b
  <2>. QED
    BY <1>1, <1>2, <1>3, SameRecords
<1>5. e \in Visits(g) /\ Heads(g, f, e)
  <2>. HIDE DEF b
  <2>. QED
    BY <1>1, <1>2, SameWalk DEF Heads
<1>6. IsFound(g, other) /\ load_all(f, other) \in values /\ load_all(b, other) \in values
  BY <1>4 DEF Kept, IsFound
<1>7. key # other => load_all(g, other) = load_all(b, other)
  <2>1. SUFFICES ASSUME key # other PROVE load_all(g, other) = load_all(b, other)
    OBVIOUS
  <2>. HIDE DEF b
  <2>2. CASE \A h : Records(h, other) = Records(b, other) => load_all(h, other) = Default
    BY <1>4, <2>2
  <2>3. CASE \E r \in Records(b, other) :
               /\ r + HeaderSize < Size
               /\ \A h : Records(h, other) = Records(b, other)
                            => load_all(h, other) = h[r + HeaderSize]
    <3>1. PICK r \in Records(b, other) :
               /\ r + HeaderSize < Size
               /\ \A h : Records(h, other) = Records(b, other)
                            => load_all(h, other) = h[r + HeaderSize]
      BY <2>3
    <3>2. r + HeaderSize < e
      <4>1. e \in Nat /\ r \in Nat /\ r + 1 + HeaderSize <= e
        BY <1>1, RecordsBefore, VisitsEnd
      <4>. QED
        BY <4>1 DEF HeaderSize
    <3>. QED
      BY <1>2, <1>4, <2>1, <3>1, <3>2
  <2>. QED
    BY <2>2, <2>3, LoadsFrom
<1>8. load_all(g, other) \in had /\ load_all(f, other) \in had
  BY <1>6, <1>7
<1>. HIDE DEF had
<1>9. Kept(g, f, had, other)
  BY <1>1, <1>3, <1>5, <1>6, <1>8 DEF Kept
<1>. QED
  BY <1>9 DEF g, had

\* The storage thread copies a cell.
LEMMA CopyKept ==
    ASSUME NEW b, NEW f, DOMAIN f = Cells, NEW p \in Cells,
           NEW values, NEW key \in ParamKeys, Kept(b, f, values, key)
    PROVE  Kept(b, [f EXCEPT ![p] = b[p]], values, key)
<1>. DEFINE g == [f EXCEPT ![p] = b[p]]
<1>1. PICK e \in Visits(b) : Heads(b, f, e) /\ Absent(b, key, e) /\ Absent(f, key, e)
  BY DEF Kept
<1>2. \A c \in Cells : g[c] = f[c] \/ g[c] = b[c]
  OBVIOUS
<1>3. Absent(g, key, e)
  <2>1. \A c \in e .. Size - 2 : c \in Cells
    BY VisitsEnd, StorageAssumption DEF Cells, Size
  <2>. HIDE DEF g
  <2>. QED
    BY <1>1, <1>2, <2>1 DEF Absent
<1>4. Heads(b, g, e)
  <2>1. ASSUME NEW x \in Visits(b), x < e
        PROVE  x \in Cells /\ x + 1 \in Cells
    <3>1. x \in Nat /\ IsRecord(b, x)
      BY <2>1, Before, VisitsEnd
    <3>. QED
      BY <3>1, StorageAssumption DEF IsRecord, Cells, Size
  <2>. HIDE DEF g
  <2>. QED
    BY <1>1, <1>2, <2>1 DEF Heads
<1>. HIDE DEF g
<1>5. Records(f, key) = Records(b, key) /\ Records(g, key) = Records(b, key)
  BY <1>1, <1>3, <1>4, SameRecords
<1>6. load_all(g, key) \in values
  <2>1. load_all(b, key) \in values /\ load_all(f, key) \in values
    BY DEF Kept
  <2>2. CASE \A h : Records(h, key) = Records(b, key) => load_all(h, key) = Default
    BY <1>5, <2>1, <2>2
  <2>3. CASE \E r \in Records(b, key) :
               /\ r + HeaderSize < Size
               /\ \A h : Records(h, key) = Records(b, key) => load_all(h, key) = h[r + HeaderSize]
    <3>1. PICK r \in Records(b, key) :
               /\ r + HeaderSize < Size
               /\ \A h : Records(h, key) = Records(b, key) => load_all(h, key) = h[r + HeaderSize]
      BY <2>3
    <3>2. r + HeaderSize \in Cells
      BY <3>1, VisitsEnd, StorageAssumption DEF Records, Walk, HeaderSize, Cells, Size
    <3>3. /\ load_all(b, key) = b[r + HeaderSize] /\ load_all(f, key) = f[r + HeaderSize]
          /\ load_all(g, key) = g[r + HeaderSize]
      BY <1>5, <3>1
    <3>. QED
      BY <1>2, <2>1, <3>2, <3>3
  <2>. QED
    BY <2>2, <2>3, LoadsFrom
<1>. QED
  BY <1>1, <1>3, <1>4, <1>6 DEF Kept, g
-----------------------------------------------------------------------------
\* setup() and load_parameters() keep the marks.
LEMMA EraseMarked ==
    ASSUME StorageTypeOK, NEW im, Marked(im), im.open
    PROVE  Marked(erase_all(im)) /\ erase_all(im).open
<1>. DEFINE one == WriteBlock(im, 0, <<Magic>>)
<1>1. Marked(one) /\ one.open
  BY OneCell, Contents
<1>. HIDE DEF one
<1>2. Marked(write_sentinal(one, FirstRecord)) /\ write_sentinal(one, FirstRecord).open
  <2>1. FirstRecord \in Nat
    BY DEF FirstRecord
  <2>. DEFINE new == WriteBlock(one, FirstRecord, <<Sentinel, Sentinel>>)
  <2>2. Marked(new) /\ new.open
    BY <1>1, <2>1, TwoCells, Contents
  <2>. QED
    BY <2>2 DEF write_sentinal
<1>. QED
  BY <1>2 DEF erase_all, one

LEMMA LoadMarked ==
    ASSUME StorageTypeOK, NEW im, Marked(im), im.open
    PROVE  Marked(LoadParameters(im)) /\ LoadParameters(im).open
<1>. DEFINE checked == IF im.buf[0] = Magic THEN im ELSE erase_all(im)
            erased == erase_all(checked)
<1>1. Marked(checked) /\ checked.open
  BY EraseMarked
<1>. HIDE DEF checked
<1>2. Marked(erased) /\ erased.open
  BY <1>1, EraseMarked
<1>. HIDE DEF erased
<1>3. Marked(Save(erased, FormatVersion, Version)) /\ Save(erased, FormatVersion, Version).open
  <2>1. FirstRecord \in Visits(erased.buf) /\ FormatVersion \in ParamKeys /\ Version \in Values \cup {Version}
    BY VisitsEnd DEF ParamKeys
  <2>. QED
    BY <1>2, <2>1, SaveLeaves
<1>. QED
  BY <1>1, <1>3 DEF LoadParameters, checked, erased

\* Every parameter that is expected to survive is kept; nothing is expected before the file is read.
ParamInv ==
    /\ ~initialised => \A key \in ParamKeys : stored[key] = {}
    /\ \A key \in ParamKeys : stored[key] # {} => Kept(buffer, file, stored[key], key)

\* When image and file are equal nothing else is to be expected than what is in both.
LEMMA ExpectKept ==
    ASSUME NEW im, NEW f, NEW saved, NEW key \in ParamKeys,
           stored[key] # {} =>
              Kept(im.buf, f, IF key \in saved THEN stored[key] \cup {load_all(im.buf, key)}
                              ELSE stored[key], key),
           ~im.open => stored[key] = {},
           NEW values, values = Expect(im, f, key, saved)
    PROVE  /\ values # {} => Kept(im.buf, f, values, key)
           /\ ~im.open => values = {}
<1>. DEFINE had == IF stored[key] # {} /\ key \in saved
                   THEN stored[key] \cup {load_all(im.buf, key)} ELSE stored[key]
            now == IF IsFound(f, key) THEN {load_all(f, key)} ELSE {}
<1>1. had # {} => Kept(im.buf, f, had, key)
  BY Zenon
<1>2. ~im.open => had = {}
  OBVIOUS
<1>3. values = IF ~im.open \/ im.buf # f THEN had
               ELSE IF LeftBehind(f, key) THEN {}
               ELSE IF had = {} \/ (now # {} /\ now \subseteq had) THEN now ELSE had
  BY DEF Expect
<1>. HIDE DEF had
<1>4. CASE ~im.open \/ im.buf # f
  BY <1>1, <1>2, <1>3, <1>4
<1>5. CASE im.open /\ im.buf = f /\ LeftBehind(f, key)
  BY <1>3, <1>5
<1>6. CASE im.open /\ im.buf = f /\ ~LeftBehind(f, key)
  <2>1. had # {} => now # {} /\ now \subseteq had
    BY <1>1, KeptIsFound
  <2>2. values = now
    BY <1>3, <1>6, <2>1
  <2>3. now # {} => Kept(im.buf, f, now, key)
    BY <1>6, SyncedKept
  <2>. QED
    BY <1>6, <2>2, <2>3
<1>. QED
  BY <1>4, <1>5, <1>6

-----------------------------------------------------------------------------
(* Every step of the vehicle keeps both invariants. *)

LEMMA BootStep ==
    ASSUME IInv, ParamInv, Boot
    PROVE  IInv' /\ ParamInv'
<1>. DEFINE im == LoadParameters(StorageOpen(image))
<1>1. Marked(im) /\ im.open
  <2>1. StorageTypeOK
    BY DEF IInv
  <2>2. Marked(StorageOpen(image)) /\ StorageOpen(image).open
    BY <2>1, ImageMarked, OpenMarked
  <2>. QED
    BY <2>1, <2>2, LoadMarked
<1>. HIDE DEF im
<1>2. SetImage(im) /\ Record(im, {}) /\ ~initialised /\ UNCHANGED <<file, thread, overtaken>>
  BY DEF Boot, im
<1>3. IInv'
  BY <1>1, <1>2, MainStep
<1>4. buffer' = im.buf /\ initialised' = im.open /\ file' = file
  BY <1>2 DEF SetImage
<1>5. ASSUME NEW key \in ParamKeys, stored'[key] # {}
      PROVE  Kept(im.buf, file, stored'[key], key)
  <2>1. stored'[key] = Expect(im, file, key, {}) /\ stored[key] = {}
    BY <1>2, <1>4 DEF Record, ParamInv
  <2>. QED
    BY <1>5, <2>1, ExpectKept
<1>6. ParamInv'
  BY <1>1, <1>4, <1>5 DEF ParamInv
<1>. QED
  BY <1>3, <1>6

LEMMA SaveStep ==
    ASSUME IInv, ParamInv, NEW key \in Keys, NEW value \in Values, SetAndSave(key, value)
    PROVE  IInv' /\ ParamInv'
<1>. DEFINE im == Save(image, key, value)
<1>0. /\ StorageTypeOK /\ Marked(image) /\ image.open /\ image.buf = buffer
      /\ key \in ParamKeys /\ value \in Values \cup {Version}
  BY ImageMarked DEF IInv, image, SetAndSave, ParamKeys
<1>1. Marked(im) /\ im.open
  BY <1>0, SaveLeaves, VisitsEnd
<1>2. ASSUME NEW other \in ParamKeys, stored[other] # {}
      PROVE  Kept(im.buf, file, IF other \in {key} THEN stored[other] \cup {load_all(im.buf, other)}
                                ELSE stored[other], other)
  <2>1. Kept(image.buf, file, stored[other], other)
    BY <1>0, <1>2 DEF ParamInv
  <2>2. Kept(im.buf, file, IF other = key THEN stored[other] \cup {load_all(im.buf, other)}
                           ELSE stored[other], other)
    BY <1>0, <2>1, SaveKept
  <2>. QED
    BY <2>2
<1>. HIDE DEF im
<1>3. SetImage(im) /\ Record(im, {key}) /\ UNCHANGED <<file, thread, overtaken>>
  BY DEF SetAndSave, im
<1>4. IInv'
  BY <1>1, <1>3, MainStep
<1>5. buffer' = im.buf /\ initialised' = im.open /\ file' = file
  BY <1>3 DEF SetImage
<1>6. ASSUME NEW other \in ParamKeys, stored'[other] # {}
      PROVE  Kept(im.buf, file, stored'[other], other)
  <2>1. stored'[other] = Expect(im, file, other, {key})
    BY <1>3, <1>5 DEF Record
  <2>. QED
    BY <1>1, <1>2, <1>6, <2>1, ExpectKept
<1>7. ParamInv'
  BY <1>1, <1>5, <1>6 DEF ParamInv
<1>. QED
  BY <1>4, <1>7

LEMMA WorkStep ==
    ASSUME IInv, ParamInv, Works(TickSucceeds) \/ Works(TickFails)
    PROVE  ParamInv'
<1>1. buffer' = buffer /\ initialised' = initialised
  BY DEF Works, TickSucceeds, TickFails, Tick, ScanClean, ScanDirty, LoadMask, ClearLine, WriteCell,
         ReloadMask, RestoreLine, SeekFails, WriteFails
<1>2. CASE file' = file
  <2>1. stored' = stored
    BY <1>2 DEF Works
  <2>. QED
    BY <1>1, <1>2, <2>1 DEF ParamInv
<1>3. CASE file' # file
  <2>1. WriteCell
    BY <1>3 DEF Works, TickSucceeds, TickFails, Tick, ScanClean, ScanDirty, LoadMask, ClearLine,
                ReloadMask, RestoreLine, SeekFails, WriteFails
  <2>2. Record(image, {})
    BY <1>3 DEF Works
  <2>3. file' = [file EXCEPT ![pos] = buffer[pos]] /\ DOMAIN file = Cells /\ pos \in Cells
    BY <2>1 DEF WriteCell, IInv, StorageTypeOK
  <2>4. ASSUME NEW key \in ParamKeys
        PROVE  /\ stored'[key] # {} => Kept(buffer, file', stored'[key], key)
               /\ ~initialised => stored'[key] = {}
    <3>1. stored'[key] = Expect(image, file', key, {})
      BY <2>2 DEF Record
    <3>2. stored[key] # {} => Kept(image.buf, file', stored[key], key)
      BY <2>3, CopyKept DEF ParamInv, image
    <3>3. ~image.open => stored[key] = {}
      BY DEF ParamInv, image
    <3>. DEFINE f == file'
                values == stored'[key]
                im == image
    <3>4. im.buf = buffer /\ im.open = initialised
      BY DEF image
    <3>. HIDE DEF f, values, im
    <3>5. /\ values # {} => Kept(im.buf, f, values, key)
          /\ ~im.open => values = {}
      BY <3>1, <3>2, <3>3, ExpectKept DEF f, values, im
    <3>. QED
      BY <3>4, <3>5 DEF f, values
  <2>. QED
    BY <1>1, <2>4 DEF ParamInv
<1>. QED
  BY <1>2, <1>3

LEMMA ParamInvariance == IInv /\ ParamInv /\ [ParamNext]_paramVars => IInv' /\ ParamInv'
<1> SUFFICES ASSUME IInv, ParamInv, [ParamNext]_paramVars PROVE IInv' /\ ParamInv'
  OBVIOUS
<1>1. CASE Boot
  BY <1>1, BootStep
<1>2. CASE \E key \in Keys, value \in Values : SetAndSave(key, value)
  BY <1>2, SaveStep
<1>3. CASE Works(TickSucceeds) \/ Works(TickFails)
  <2>1. [StorageNext]_storageVars
    BY <1>3 DEF Works, StorageNext
  <2>. QED
    BY <1>3, <2>1, Invariance, WorkStep
<1>4. CASE PowerFails
  <2>1. [StorageNext]_storageVars
    BY <1>4 DEF PowerFails, StorageNext
  <2>2. ParamInv'
    BY <1>4 DEF PowerFails, ParamInv
  <2>. QED
    BY <2>1, <2>2, Invariance
<1>5. CASE UNCHANGED paramVars
  <2>1. [StorageNext]_storageVars
    BY <1>5 DEF paramVars
  <2>2. ParamInv'
    BY <1>5 DEF paramVars, storageVars, ParamInv
  <2>. QED
    BY <2>1, <2>2, Invariance
<1>. QED
  BY <1>1, <1>2, <1>3, <1>4, <1>5 DEF ParamNext

LEMMA ParamInvHolds == ParamSpec => [](IInv /\ ParamInv)
<1>1. ParamInit => IInv /\ ParamInv
  BY InitHolds DEF ParamInit, ParamInv
<1>. QED
  BY <1>1, ParamInvariance, PTL DEF ParamSpec

\* A parameter that was in the file keeps one of the values it has had, wherever the power fails, for
\* any number of parameters, any size of storage and of its lines, and any first content of the file
\* (AP_Param.cpp:687-762, 893-931).
THEOREM ParametersStay == ParamSpec => []StoredParametersSurvive
<1>1. ParamInv => StoredParametersSurvive
  BY KeptIsFound DEF ParamInv, StoredParametersSurvive
<1>. QED
  BY <1>1, ParamInvHolds, PTL

\* The cache keeps its promises to the parameters, whose calls write several blocks at a time
\* (Storage.cpp:177-206, 235-240, 254-265).
THEOREM CacheServesParameters == ParamSpec => [](StorageTypeOK /\ UnwrittenIsKnown /\ ScanFindsALine)
<1>1. IInv => StorageTypeOK /\ UnwrittenIsKnown /\ ScanFindsALine
  BY DEF IInv
<1>. QED
  BY <1>1, ParamInvHolds, PTL

=============================================================================
