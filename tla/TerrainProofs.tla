---------------------------- MODULE TerrainProofs --------------------------
(***************************************************************************)
(* The terrain cache for any number of slots, grids and squares.  The      *)
(* invariant IInv says of each slot whose heights it may hold and how they *)
(* compare with the card (SlotInv), and of the block, which the main loop  *)
(* and the I/O thread hand to each other, the same for each stage of an    *)
(* operation (BlockInv).                                                   *)
(*                                                                         *)
(* A handler is a chain of functions on the record w of what it changes;   *)
(* each function has a lemma that it keeps MainInv.  The loop over the     *)
(* grids around is a recursive function: its lemma takes the least number  *)
(* of turns at which the invariant fails (SetMin) to a contradiction.      *)
(***************************************************************************)
EXTENDS Terrain, WellFoundedInduction, TLAPS

-----------------------------------------------------------------------------
Entry    == [grid : Grids \cup {None}, state : {"INVALID", "DISKWAIT", "VALID", "DIRTY"},
             data : SUBSET (Heights \cup {Junk})]
Block    == [grid : Grids \cup {None}, data : SUBSET (Heights \cup {Junk})]
Card     == [Places -> [grid : Grids \cup {None}, data : SUBSET Heights]]
IoStates == {"Idle", "WaitRead", "WaitWrite", "DoneRead", "DoneWrite"}
MainSet  == [cache : [Slots -> Entry], order : [Slots -> Slots], block : Block, io : IoStates,
             home : BOOLEAN, ask : Grids \cup {None}]

\* A grid has one slot.
OneSlot(c) == \A i, j \in Slots : c[i].grid = c[j].grid /\ c[i].grid # None => i = j

\* What a slot holds is of its grid.  That of a grid that is not in b agrees with the card: equal
\* when valid and not displaced, ahead of it when dirty.
SlotInv(s, b) ==
    /\ s.state = "INVALID" <=> s.grid = None
    /\ s.grid = None => s.data = {}
    /\ s.grid # None => s.data \subseteq Content(s.grid)
    /\ s.state = "DISKWAIT" => s.data = {}
    /\ ~io_failure /\ s.grid \in Grids \ b =>
           /\ s.state = "VALID" => s.data = Held(disk, s.grid) \/ Displaced(s.grid)
           /\ s.state = "DIRTY" => Held(disk, s.grid) \subseteq s.data

\* The slot of a grid that is written has what is written and what has come since, or is a new one.
WriteInv(c, block) ==
    \A i \in Slots : c[i].grid = block.grid =>
        c[i].state = "DISKWAIT" \/ (c[i].state = "DIRTY" /\ block.data \subseteq c[i].data)

\* The block is of its grid once it is checked, and agrees with the card.
BlockInv(w, b) ==
    /\ checking => w.io = "WaitRead"
    /\ w.io # "Idle" =>
           /\ w.block.grid \in Grids
           /\ w.block.data \subseteq Content(w.block.grid) \cup (IF checking THEN {Junk} ELSE {})
    /\ ~io_failure /\ w.io # "Idle" /\ w.block.grid \notin b =>
           /\ w.io \in {"WaitRead", "DoneRead"} =>
                  \A i \in Slots : w.cache[i].grid = w.block.grid => w.cache[i].state = "DISKWAIT"
           /\ w.io \in {"WaitWrite", "DoneWrite"} => WriteInv(w.cache, w.block)
           /\ w.io = "WaitWrite" => Held(disk, w.block.grid) \subseteq w.block.data
           /\ checking => w.block.data \ {Junk} = Held(disk, w.block.grid)
           /\ w.io \in {"DoneRead", "DoneWrite"} => w.block.data = Held(disk, w.block.grid)

MainInv(w, b) ==
    /\ OneSlot(w.cache)
    /\ \A i \in Slots : SlotInv(w.cache[i], b)
    /\ BlockInv(w, b)

DiskInv == \A g \in Grids : Held(disk, g) \subseteq Content(g)

IInv == TypeOK /\ DiskInv /\ MainInv(main, blind)

-----------------------------------------------------------------------------
\* A set of numbers that is not empty has a minimum.
LEMMA SetMin ==
    ASSUME NEW S \in SUBSET Nat, S # {}
    PROVE  Min(S) \in S /\ \A k \in S : Min(S) <= k
<1>1. PICK m \in S : \A k \in S : ~(<<k, m>> \in OpToRel(<, Nat))
  BY NatLessThanWellFounded, WFMin
<1>2. \A k \in S : m <= k
  <2>1. ASSUME NEW k \in S, ~(m <= k)
        PROVE  <<k, m>> \in OpToRel(<, Nat)
    BY <2>1 DEF OpToRel
  <2>. QED
    BY <1>1, <2>1
<1>. QED
  BY <1>2 DEF Min

\* There is an oldest slot.
LEMMA OldestSlot ==
    ASSUME NEW w, w.order \in [Slots -> Slots]
    PROVE  Oldest(w) \in Slots
<1>. DEFINE S == {w.order[i] : i \in Slots}
<1>1. S \in SUBSET Nat /\ S # {}
  <2>1. 0 \in Slots
    BY TerrainAssumption DEF Slots
  <2>2. \A i \in Slots : w.order[i] \in Nat
    BY TerrainAssumption DEF Slots
  <2>3. w.order[0] \in S
    BY <2>1
  <2>. QED
    BY <2>2, <2>3
<1>2. Min(S) \in S /\ \A k \in S : Min(S) <= k
  BY <1>1, SetMin
<1>3. PICK i \in Slots : \A j \in Slots : w.order[i] <= w.order[j]
  BY <1>2
<1>. QED
  BY <1>3 DEF Oldest

-----------------------------------------------------------------------------
\* The slot that is taken for a grid is one of its slots.
LEMMA SlotOfGrid ==
    ASSUME NEW w, NEW S, S \subseteq Slots, S # {}
    PROVE  Min(S) \in S
<1>1. S \in SUBSET Nat
  BY TerrainAssumption DEF Slots
<1>. QED
  BY <1>1, SetMin

\* An access to a slot changes the order of the slots only.
LEMMA TouchKeeps ==
    ASSUME NEW w \in MainSet, NEW i \in Slots
    PROVE  /\ Touch(w, i) \in MainSet
           /\ Touch(w, i).cache = w.cache /\ Touch(w, i).block = w.block /\ Touch(w, i).io = w.io
           /\ Touch(w, i).home = w.home /\ Touch(w, i).ask = w.ask
<1>. DEFINE o == [j \in Slots |-> IF j = i THEN CACHE_SIZE - 1
                                  ELSE IF w.order[j] > w.order[i] THEN w.order[j] - 1 ELSE w.order[j]]
<1>1. o \in [Slots -> Slots]
  <2>1. w.order \in [Slots -> Slots]
    BY DEF MainSet
  <2>2. ASSUME NEW j \in Slots
        PROVE  o[j] \in Slots
    <3>1. /\ CACHE_SIZE \in Nat \ {0}
          /\ w.order[j] \in 0 .. CACHE_SIZE - 1 /\ w.order[i] \in 0 .. CACHE_SIZE - 1
      BY <2>1, TerrainAssumption DEF Slots
    <3>2. o[j] = CACHE_SIZE - 1 \/ o[j] = w.order[j]
          \/ (w.order[j] > w.order[i] /\ o[j] = w.order[j] - 1)
      OBVIOUS
    <3>. HIDE DEF o
    <3>3. o[j] \in 0 .. CACHE_SIZE - 1
      BY <3>1, <3>2
    <3>. QED
      BY <3>3 DEF Slots
  <2>. QED
    BY <2>2
<1>2. Touch(w, i) = [w EXCEPT !.order = o]
  BY DEF Touch, MainSet
<1>. HIDE DEF o
<1>. QED
  BY <1>1, <1>2 DEF MainSet

\* What Find() does to w for the grid g: nothing but an access, or a slot is emptied for g.
Placed(w, f, g) ==
    /\ f \in MainSet
    /\ f.block = w.block /\ f.io = w.io /\ f.home = w.home /\ f.ask = w.ask
    /\ SlotsOf(f, g) # {}
    /\ \/ f.cache = w.cache
       \/ /\ SlotsOf(w, g) = {}
          /\ \E i \in Slots :
                f.cache = [w.cache EXCEPT ![i] = [grid |-> g, state |-> "DISKWAIT", data |-> {}]]

LEMMA FindPlaces ==
    ASSUME NEW w \in MainSet, NEW g \in Grids
    PROVE  Placed(w, Find(w, g), g)
<1>1. CASE SlotsOf(w, g) # {}
  <2>1. SlotOf(w, g) \in Slots
    BY <1>1, SlotOfGrid DEF SlotOf, SlotsOf
  <2>2. Find(w, g) = Touch(w, SlotOf(w, g))
    BY <1>1 DEF Find
  <2>3. SlotsOf(Find(w, g), g) # {}
    BY <1>1, <2>1, <2>2, TouchKeeps DEF SlotsOf
  <2>. QED
    BY <2>1, <2>2, <2>3, TouchKeeps DEF Placed
<1>2. CASE SlotsOf(w, g) = {}
  <2>. DEFINE i == Oldest(w)
              e == [grid |-> g, state |-> "DISKWAIT", data |-> {}]
              c == [w.cache EXCEPT ![i] = e]
              v == [w EXCEPT !.cache = c]
  <2>1. i \in Slots
    BY OldestSlot DEF MainSet
  <2>2. e \in Entry
    BY DEF Entry
  <2>3. c \in [Slots -> Entry] /\ c[i] = e
    BY <2>1, <2>2 DEF MainSet
  <2>. HIDE DEF c, i
  <2>4. v \in MainSet /\ v.cache = c /\ v.block = w.block /\ v.io = w.io /\ v.home = w.home
        /\ v.ask = w.ask
    BY <2>3 DEF MainSet
  <2>5. Find(w, g) = Touch(v, i)
    BY <1>2 DEF Find, c, i
  <2>6. Touch(v, i) \in MainSet /\ Touch(v, i).cache = c /\ Touch(v, i).block = w.block
        /\ Touch(v, i).io = w.io /\ Touch(v, i).home = w.home /\ Touch(v, i).ask = w.ask
    BY <2>1, <2>4, TouchKeeps
  <2>7. i \in SlotsOf(Touch(v, i), g)
    BY <2>1, <2>3, <2>6 DEF SlotsOf
  <2>. QED
    BY <1>2, <2>1, <2>5, <2>6, <2>7 DEF Placed, c
<1>. QED
  BY <1>1, <1>2

LEMMA PlacedKeeps ==
    ASSUME NEW w \in MainSet, NEW b, MainInv(w, b), NEW g \in Grids, NEW f, Placed(w, f, g)
    PROVE  MainInv(f, b)
<1>1. CASE f.cache = w.cache
  BY <1>1 DEF Placed, MainInv, BlockInv
<1>2. CASE f.cache # w.cache
  <2>1. PICK i \in Slots :
           f.cache = [w.cache EXCEPT ![i] = [grid |-> g, state |-> "DISKWAIT", data |-> {}]]
    BY <1>2 DEF Placed
  <2>2. \A j \in Slots : w.cache[j].grid # g
    BY <1>2 DEF Placed, SlotsOf
  <2>3. w.cache \in [Slots -> Entry] /\ f.block = w.block /\ f.io = w.io
    BY DEF MainSet, Placed
  <2>4. f.cache[i] = [grid |-> g, state |-> "DISKWAIT", data |-> {}]
        /\ \A j \in Slots : j # i => f.cache[j] = w.cache[j]
    BY <2>1, <2>3
  <2>5. OneSlot(f.cache)
    BY <2>2, <2>4 DEF OneSlot, MainInv
  <2>6. \A j \in Slots : SlotInv(f.cache[j], b)
    <3>1. SlotInv(f.cache[i], b)
      BY <2>4, TerrainAssumption DEF SlotInv
    <3>2. \A j \in Slots : j # i => SlotInv(f.cache[j], b)
      BY <2>4 DEF MainInv
    <3>. QED
      BY <3>1, <3>2
  <2>7. BlockInv(f, b)
    BY <2>3, <2>4 DEF BlockInv, WriteInv, MainInv
  <2>. QED
    BY <2>5, <2>6, <2>7 DEF MainInv
<1>. QED
  BY <1>1, <1>2

-----------------------------------------------------------------------------
\* The functions of the main loop keep the invariant.
Good(w, b) == w \in MainSet /\ MainInv(w, b)

LEMMA FindGood ==
    ASSUME NEW w, NEW b, Good(w, b), NEW g \in Grids
    PROVE  Good(Find(w, g), b) /\ SlotsOf(Find(w, g), g) # {}
<1>1. Placed(w, Find(w, g), g)
  BY FindPlaces DEF Good
<1>. QED
  BY <1>1, PlacedKeeps DEF Good, Placed

\* Home and request are no part of the invariant.
LEMMA OtherFieldsGood ==
    ASSUME NEW w, NEW b, Good(w, b), NEW h \in BOOLEAN, NEW a \in Grids \cup {None}
    PROVE  Good([w EXCEPT !.home = h], b) /\ Good([w EXCEPT !.ask = a], b)
<1>1. [w EXCEPT !.home = h] \in MainSet /\ [w EXCEPT !.ask = a] \in MainSet
  BY DEF Good, MainSet
<1>2. ASSUME NEW v, v = [w EXCEPT !.home = h] \/ v = [w EXCEPT !.ask = a]
      PROVE  v.cache = w.cache /\ v.block = w.block /\ v.io = w.io
  BY <1>2 DEF Good, MainSet
<1>3. ASSUME NEW v, v = [w EXCEPT !.home = h] \/ v = [w EXCEPT !.ask = a]
      PROVE  MainInv(v, b)
  BY <1>2, <1>3 DEF Good, MainInv, BlockInv
<1>. QED
  BY <1>1, <1>3 DEF Good

LEMMA FindHomeGood ==
    ASSUME NEW w, NEW b, Good(w, b)
    PROVE  Good(FindHome(w), b)
<1>1. HomeGrid \in Grids
  BY TerrainAssumption
<1>2. CASE ~w.home
  <2>1. HeightKnown(Find(w, HomeGrid), HomeGrid) \in BOOLEAN
    BY DEF HeightKnown
  <2>. QED
    BY <1>1, <1>2, <2>1, FindGood, OtherFieldsGood DEF FindHome
<1>. QED
  BY <1>2 DEF FindHome

LEMMA ReportGood ==
    ASSUME NEW w, NEW b, Good(w, b), NEW g \in Grids
    PROVE  Good(Report(w, g), b)
  BY FindHomeGood, FindGood DEF Report

LEMMA RequestGood ==
    ASSUME NEW w, NEW b, Good(w, b), NEW g \in Grids
    PROVE  Good(Request(w, g), b)
  BY FindGood, OtherFieldsGood DEF Request

LEMMA RequestCachedGood ==
    ASSUME NEW w, NEW b, Good(w, b)
    PROVE  Good(RequestCached(w), b)
<1>. DEFINE missing == {i \in Slots : Missing(w, i)}
<1>1. CASE missing # {}
  <2>1. Min(missing) \in Slots /\ Missing(w, Min(missing))
    BY <1>1, SlotOfGrid
  <2>2. w.cache[Min(missing)].grid \in Grids \cup {None}
    BY <2>1 DEF Good, MainSet, Entry
  <2>. QED
    BY <2>2, OtherFieldsGood DEF RequestCached
<1>2. CASE missing = {}
  BY <1>2 DEF RequestCached
<1>. QED
  BY <1>1, <1>2

\* The loop over the grids around the vehicle is a function of its steps.
Loop(w, n) ==
    CHOOSE f : f = [k \in 0 .. n |-> IF k = 0 THEN Request(w, here) ELSE Request(f[k - 1], Around[here][k])]

LEMMA LoopDefined ==
    ASSUME NEW w, NEW n \in Nat
    PROVE  Loop(w, n) = [k \in 0 .. n |-> IF k = 0 THEN Request(w, here)
                                          ELSE Request(Loop(w, n)[k - 1], Around[here][k])]
<1>. DEFINE Is(f, m) == f = [k \in 0 .. m |-> IF k = 0 THEN Request(w, here)
                                              ELSE Request(f[k - 1], Around[here][k])]
            Missed == {m \in Nat : ~ \E f : Is(f, m)}
<1>1. Missed = {}
  <2>1. SUFFICES ASSUME Missed # {} PROVE FALSE
    OBVIOUS
  <2>2. Min(Missed) \in Missed /\ \A m \in Missed : Min(Missed) <= m
    BY <2>1, SetMin
  <2>. DEFINE m == Min(Missed)
  <2>3. m # 0
    <3>1. Is([k \in 0 .. 0 |-> Request(w, here)], 0)
      OBVIOUS
    <3>. QED
      BY <2>2, <3>1
  <2>4. m - 1 \in Nat /\ m - 1 \notin Missed
    <3>1. m \in Nat /\ \A k \in Missed : m <= k
      BY <2>2
    <3>. HIDE DEF m, Missed
    <3>2. m - 1 \in Nat /\ ~(m <= m - 1)
      BY <2>3, <3>1
    <3>. QED
      BY <3>1, <3>2
  <2>5. PICK f : Is(f, m - 1)
    BY <2>4
  <2>. DEFINE g == [k \in 0 .. m |-> IF k < m THEN f[k] ELSE Request(f[m - 1], Around[here][m])]
  <2>6. Is(g, m)
    <3>1. m \in Nat \ {0}
      BY <2>2, <2>3
    <3>2. ASSUME NEW k \in 0 .. m
          PROVE  g[k] = IF k = 0 THEN Request(w, here) ELSE Request(g[k - 1], Around[here][k])
      <4>1. CASE k = m
        <5>. HIDE DEF m
        <5>1. m \in 0 .. m /\ m - 1 \in 0 .. m /\ m - 1 < m /\ ~(m < m) /\ m # 0
          BY <3>1
        <5>2. g[m] = Request(f[m - 1], Around[here][m]) /\ g[m - 1] = f[m - 1]
          BY <5>1
        <5>. QED
          BY <4>1, <5>1, <5>2
      <4>2. CASE k # m
        BY <2>5, <3>1, <4>2
      <4>. QED
        BY <4>1, <4>2
    <3>. QED
      BY <3>2
  <2>. QED
    BY <2>2, <2>6
<1>2. PICK f : Is(f, n)
  BY <1>1
<1>. QED
  BY <1>2 DEF Loop

LEMMA LoopGood ==
    ASSUME NEW w, NEW b, Good(w, b), here \in Grids, NEW n \in 0 .. Len(Around[here])
    PROVE  Good(Loop(w, Len(Around[here]))[n], b)
<1>. DEFINE last == Len(Around[here])
            loop == Loop(w, last)
            Bad == {k \in 0 .. last : ~Good(loop[k], b)}
<1>1. Around[here] \in Seq(Grids) /\ last \in Nat
  BY TerrainAssumption
<1>2. SUFFICES ASSUME Bad # {} PROVE FALSE
  OBVIOUS
<1>3. Bad \in SUBSET Nat
  BY <1>1
<1>4. Min(Bad) \in Bad /\ \A k \in Bad : Min(Bad) <= k
  BY <1>2, <1>3, SetMin
<1>. DEFINE m == Min(Bad)
<1>5. /\ loop[0] = Request(w, here)
      /\ m # 0 => loop[m] = Request(loop[m - 1], Around[here][m])
  <2>1. 0 \in 0 .. last /\ m \in 0 .. last
    BY <1>1, <1>4
  <2>. HIDE DEF m
  <2>2. loop = [k \in 0 .. last |-> IF k = 0 THEN Request(w, here)
                                    ELSE Request(loop[k - 1], Around[here][k])]
    BY <1>1, LoopDefined
  <2>. HIDE DEF loop
  <2>. QED
    BY <2>1, <2>2
<1>6. m # 0
  BY <1>4, <1>5, RequestGood
<1>7. m - 1 \in 0 .. last /\ m - 1 \notin Bad /\ Around[here][m] \in Grids
  <2>1. m \in 0 .. last /\ \A k \in Bad : m <= k
    BY <1>4
  <2>. HIDE DEF m, Bad
  <2>2. m - 1 \in 0 .. last /\ ~(m <= m - 1) /\ m \in 1 .. last
    BY <1>1, <1>6, <2>1
  <2>3. Around[here][m] \in Grids
    BY <1>1, <2>2
  <2>. QED
    BY <2>1, <2>2, <2>3
<1>. QED
  BY <1>4, <1>5, <1>6, <1>7, RequestGood

LEMMA RequestsGood ==
    ASSUME NEW w, NEW b, Good(w, b), here \in Grids
    PROVE  Good(Requests(w), b)
<1>1. Len(Around[here]) \in Nat
  BY TerrainAssumption
<1>2. Requests(w) = Request(RequestCached(Loop(w, Len(Around[here]))[Len(Around[here])]), here)
  BY DEF Requests, Loop
<1>. DEFINE v == Loop(w, Len(Around[here]))[Len(Around[here])]
<1>3. Good(v, b)
  <2>1. Len(Around[here]) \in 0 .. Len(Around[here])
    BY <1>1
  <2>. QED
    BY <2>1, LoopGood
<1>. HIDE DEF v
<1>4. Good(Request(RequestCached(v), here), b)
  BY <1>3, RequestCachedGood, RequestGood
<1>. QED
  BY <1>2, <1>4 DEF v

-----------------------------------------------------------------------------
\* An operation of the disk is begun for a slot that waits for it.
LEMMA StartIoGood ==
    ASSUME NEW w, NEW b, Good(w, b), w.io = "Idle", NEW i \in Slots, NEW io \in IoStates,
           \/ w.cache[i].state = "DISKWAIT" /\ io = "WaitRead"
           \/ w.cache[i].state = "DIRTY" /\ io = "WaitWrite"
    PROVE  Good(StartIo(w, i, io), b)
<1>. DEFINE e == w.cache[i]
            v == StartIo(w, i, io)
<1>1. e \in Entry /\ SlotInv(e, b) /\ OneSlot(w.cache) /\ checking # TRUE
  BY DEF Good, MainSet, MainInv, BlockInv
<1>2. /\ v \in MainSet /\ v.cache = w.cache /\ v.io = io
      /\ v.block.grid = e.grid /\ v.block.data = e.data
  BY <1>1 DEF Good, MainSet, StartIo, Entry, Block
<1>3. e.grid \in Grids /\ e.data \subseteq Content(e.grid)
  BY <1>1 DEF SlotInv, Entry
<1>4. \A j \in Slots : w.cache[j].grid = e.grid => j = i
  BY <1>1, <1>3, TerrainAssumption DEF OneSlot
<1>5. BlockInv(v, b)
  <2>1. e.state = "DISKWAIT" => e.data = {}
    BY <1>1 DEF SlotInv
  <2>2. ~io_failure /\ e.grid \notin b /\ io = "WaitWrite" => Held(disk, e.grid) \subseteq e.data
    BY <1>1, <1>3 DEF SlotInv
  <2>3. io = "WaitWrite" => WriteInv(v.cache, v.block)
    BY <1>2, <1>4 DEF WriteInv
  <2>4. io = "WaitRead" => \A j \in Slots : v.cache[j].grid = v.block.grid => v.cache[j].state = "DISKWAIT"
    BY <1>2, <1>4
  <2>. HIDE DEF v, e
  <2>. QED
    BY <1>1, <1>2, <1>3, <2>1, <2>2, <2>3, <2>4 DEF BlockInv
<1>. QED
  BY <1>2, <1>5 DEF Good, MainInv

LEMMA NextIoGood ==
    ASSUME NEW w, NEW b, Good(w, b), w.io = "Idle"
    PROVE  Good(NextIo(w), b)
<1>1. ASSUME NEW state, SlotsIn(w, state) # {}
      PROVE  Min(SlotsIn(w, state)) \in Slots /\ w.cache[Min(SlotsIn(w, state))].state = state
  BY <1>1, SlotOfGrid DEF SlotsIn
<1>2. "WaitRead" \in IoStates /\ "WaitWrite" \in IoStates
  BY DEF IoStates
<1>3. CASE SlotsIn(w, "DISKWAIT") # {}
  BY <1>1, <1>2, <1>3, StartIoGood DEF NextIo
<1>4. CASE SlotsIn(w, "DISKWAIT") = {} /\ SlotsIn(w, "DIRTY") # {}
  BY <1>1, <1>2, <1>4, StartIoGood DEF NextIo
<1>5. CASE SlotsIn(w, "DISKWAIT") = {} /\ SlotsIn(w, "DIRTY") = {}
  BY <1>5 DEF NextIo
<1>. QED
  BY <1>3, <1>4, <1>5

\* find_io_idx() finds a slot of the block's grid.
LEMMA IoSlotFound ==
    ASSUME NEW w, NEW state, IoSlot(w, state) # {}
    PROVE  /\ Min(IoSlot(w, state)) \in Slots
           /\ w.cache[Min(IoSlot(w, state))].grid = w.block.grid
<1>1. IoSlot(w, state) \subseteq SlotsOf(w, w.block.grid)
  BY DEF IoSlot
<1>. QED
  BY <1>1, SlotOfGrid DEF SlotsOf

\* The end of an operation: a slot of its grid may become valid with data that is on the card.
LEMMA IoDoneGood ==
    ASSUME NEW w, NEW b, Good(w, b), NEW i \in Slots, NEW data \in SUBSET (Heights \cup {Junk}),
           w.cache[i].grid \in Grids, data \subseteq Content(w.cache[i].grid),
           ~io_failure /\ w.cache[i].grid \notin b => data = Held(disk, w.cache[i].grid),
           NEW v \in MainSet, v.io = "Idle", checking # TRUE,
           v.cache = [w.cache EXCEPT ![i].data = data, ![i].state = "VALID"]
    PROVE  Good(v, b)
<1>1. w.cache \in [Slots -> Entry] /\ w.cache[i] \in Entry
  BY DEF Good, MainSet
<1>2. /\ v.cache[i] = [w.cache[i] EXCEPT !.data = data, !.state = "VALID"]
      /\ \A j \in Slots : j # i => v.cache[j] = w.cache[j]
  BY <1>1
<1>3. v.cache[i].grid = w.cache[i].grid /\ v.cache[i].data = data /\ v.cache[i].state = "VALID"
  BY <1>1, <1>2 DEF Entry
<1>4. OneSlot(v.cache)
  <2>1. \A j \in Slots : v.cache[j].grid = w.cache[j].grid
    BY <1>2, <1>3
  <2>. QED
    BY <2>1 DEF OneSlot, Good, MainInv
<1>5. SlotInv(v.cache[i], b)
  BY <1>3, TerrainAssumption DEF SlotInv
<1>6. \A j \in Slots : SlotInv(v.cache[j], b)
  BY <1>2, <1>5 DEF Good, MainInv
<1>7. BlockInv(v, b)
  BY DEF BlockInv, Good, MainInv
<1>. QED
  BY <1>4, <1>6, <1>7 DEF Good, MainInv

LEMMA IdleGood ==
    ASSUME NEW w, NEW b, Good(w, b), checking # TRUE
    PROVE  Good([w EXCEPT !.io = "Idle"], b)
<1>1. [w EXCEPT !.io = "Idle"] \in MainSet /\ [w EXCEPT !.io = "Idle"].cache = w.cache
      /\ [w EXCEPT !.io = "Idle"].io = "Idle"
  BY DEF Good, MainSet, IoStates
<1>. QED
  BY <1>1 DEF Good, MainInv, BlockInv

LEMMA DoneReadGood ==
    ASSUME NEW w, NEW b, Good(w, b), w.io = "DoneRead"
    PROVE  Good([DoneRead(w) EXCEPT !.io = "Idle"], b)
<1>. DEFINE found == IoSlot(w, "DISKWAIT")
            i     == Min(found)
            data  == IF w.block.data # {} THEN w.block.data ELSE w.cache[i].data
            c     == [w.cache EXCEPT ![i].data = data, ![i].state = "VALID"]
            v     == [w EXCEPT !.cache = c]
<1>1. checking # TRUE /\ w.block.grid \in Grids /\ w.block.data \subseteq Content(w.block.grid)
  BY DEF Good, MainInv, BlockInv
<1>2. CASE found = {}
  BY <1>1, <1>2, IdleGood DEF DoneRead
<1>3. CASE found # {}
  <2>1. i \in Slots /\ w.cache[i].grid = w.block.grid /\ w.cache[i] \in Entry
        /\ w.cache \in [Slots -> Entry] /\ SlotInv(w.cache[i], b) /\ w.block \in Block
    BY <1>3, IoSlotFound DEF Good, MainSet, MainInv
  <2>2. data \in SUBSET (Heights \cup {Junk}) /\ data \subseteq Content(w.cache[i].grid)
    BY <1>1, <2>1, TerrainAssumption DEF Entry, Block, SlotInv
  <2>3. ~io_failure /\ w.cache[i].grid \notin b => data = Held(disk, w.cache[i].grid)
    <3>1. ASSUME ~io_failure, w.cache[i].grid \notin b
          PROVE  w.cache[i].state = "DISKWAIT" /\ w.block.data = Held(disk, w.cache[i].grid)
      BY <2>1, <3>1 DEF Good, MainInv, BlockInv
    <3>2. w.cache[i].state = "DISKWAIT" => w.cache[i].data = {}
      BY <2>1 DEF SlotInv
    <3>. QED
      BY <3>1, <3>2
  <2>. HIDE DEF i, data
  <2>4. c \in [Slots -> Entry]
    BY <2>1, <2>2 DEF Entry
  <2>5. v \in MainSet /\ v.cache = c
    BY <2>4 DEF Good, MainSet
  <2>6. DoneRead(w) = Touch(v, i)
    <3>1. v = [w EXCEPT !.cache[i].data = data, !.cache[i].state = "VALID"]
      BY <2>1 DEF Good, MainSet
    <3>. QED
      BY <1>3, <3>1 DEF DoneRead, i, data
  <2>. HIDE DEF c, v
  <2>7. [DoneRead(w) EXCEPT !.io = "Idle"] \in MainSet /\ [DoneRead(w) EXCEPT !.io = "Idle"].cache = c
        /\ [DoneRead(w) EXCEPT !.io = "Idle"].io = "Idle"
    <3>1. Touch(v, i) \in MainSet /\ Touch(v, i).cache = c
      BY <2>1, <2>5, TouchKeeps
    <3>. QED
      BY <2>6, <3>1 DEF MainSet, IoStates
  <2>. QED
    BY <1>1, <2>1, <2>2, <2>3, <2>7, IoDoneGood DEF c
<1>. QED
  BY <1>2, <1>3

LEMMA DoneWriteGood ==
    ASSUME NEW w, NEW b, Good(w, b), w.io = "DoneWrite"
    PROVE  Good([DoneWrite(w) EXCEPT !.io = "Idle"], b)
<1>. DEFINE found == IoSlot(w, "DIRTY")
            i     == Min(found)
            c     == [w.cache EXCEPT ![i].state = "VALID"]
            v     == [w EXCEPT !.cache = c, !.io = "Idle"]
<1>1. checking # TRUE /\ w.block.grid \in Grids /\ w.block.data \subseteq Content(w.block.grid)
      /\ w.block \in Block
  BY DEF Good, MainInv, BlockInv, MainSet
<1>2. CASE ~(found # {} /\ w.cache[i].data = w.block.data)
  BY <1>1, <1>2, IdleGood DEF DoneWrite
<1>3. CASE found # {} /\ w.cache[i].data = w.block.data
  <2>1. i \in Slots /\ w.cache[i].grid = w.block.grid /\ w.cache[i] \in Entry
        /\ w.cache \in [Slots -> Entry]
    BY <1>3, IoSlotFound DEF Good, MainSet
  <2>2. ~io_failure /\ w.cache[i].grid \notin b => w.block.data = Held(disk, w.cache[i].grid)
    BY <2>1 DEF Good, MainInv, BlockInv
  <2>. HIDE DEF i
  <2>3. c \in [Slots -> Entry] /\ c = [w.cache EXCEPT ![i].data = w.block.data, ![i].state = "VALID"]
    BY <1>3, <2>1 DEF Entry
  <2>4. v \in MainSet /\ v.cache = c /\ v.io = "Idle"
    BY <2>3 DEF Good, MainSet, IoStates
  <2>5. [DoneWrite(w) EXCEPT !.io = "Idle"] = v
    BY <1>3, <2>1 DEF DoneWrite, i, Good, MainSet
  <2>. HIDE DEF c, v
  <2>6. w.block.data \in SUBSET (Heights \cup {Junk})
    BY <1>1 DEF Block
  <2>7. v.cache = [w.cache EXCEPT ![i].data = w.block.data, ![i].state = "VALID"]
    BY <2>3, <2>4
  <2>8. w.cache[i].grid \in Grids /\ w.block.data \subseteq Content(w.cache[i].grid)
    BY <1>1, <2>1
  <2>9. Good(v, b)
    BY <1>1, <2>1, <2>2, <2>4, <2>6, <2>7, <2>8, IoDoneGood
  <2>. QED
    BY <2>5, <2>9
<1>. QED
  BY <1>2, <1>3

LEMMA ScheduleGood ==
    ASSUME NEW w, NEW b, Good(w, b)
    PROVE  Good(schedule_disk_io(w), b)
<1>1. w.io \in IoStates
  BY DEF Good, MainSet
<1>. QED
  BY <1>1, NextIoGood, DoneReadGood, DoneWriteGood DEF schedule_disk_io, IoStates

LEMMA UpdateGood ==
    ASSUME NEW w, NEW b, Good(w, b), here \in Grids, NEW located
    PROVE  Good(update(w, located), b)
  BY ScheduleGood, FindHomeGood, FindGood DEF update

\* The card holds nothing of a grid that is displaced.
LEMMA DisplacedHoldsNone ==
    ASSUME NEW g, Displaced(g)
    PROVE  Held(disk, g) = {}
  BY DEF Displaced, Held

\* Heights make a slot dirty; those that come while it waits for the card make its grid blind.
LEMMA FillGood ==
    ASSUME NEW w, NEW b, Good(w, b), NEW g \in Grids, NEW square \in Squares[g], SlotsOf(w, g) # {},
           NEW d, d = IF w.cache[SlotOf(w, g)].state = "DISKWAIT" THEN b \cup {g} ELSE b
    PROVE  Good(Fill(w, g, square), d)
<1>. DEFINE i == SlotOf(w, g)
            e == w.cache[i]
            data == e.data \cup {<<g, square>>}
            n == [e EXCEPT !.data = data, !.state = "DIRTY"]
            c == [w.cache EXCEPT ![i] = n]
            v == Fill(w, g, square)
<1>1. i \in Slots /\ e.grid = g /\ e \in Entry /\ w.cache \in [Slots -> Entry]
      /\ SlotInv(e, b) /\ g # None
  <2>1. i \in Slots /\ e.grid = g
    BY SlotOfGrid DEF SlotOf, SlotsOf
  <2>. HIDE DEF i
  <2>. QED
    BY <2>1, TerrainAssumption DEF Good, MainSet, MainInv
<1>2. <<g, square>> \in Content(g) /\ <<g, square>> \in Heights
  BY DEF Content, Heights
<1>3. n \in Entry /\ n.grid = g /\ n.data = data /\ n.state = "DIRTY"
  BY <1>1, <1>2 DEF Entry
<1>4. c \in [Slots -> Entry] /\ c[i] = n /\ \A j \in Slots : j # i => c[j] = w.cache[j]
  BY <1>1, <1>3
<1>5. v \in MainSet /\ v.cache = c /\ v.io = w.io /\ v.block = w.block
  <2>1. c = [w.cache EXCEPT ![i].data = @ \cup {<<g, square>>}, ![i].state = "DIRTY"]
    BY <1>1
  <2>2. v = [w EXCEPT !.cache = c]
    BY <1>1, <2>1 DEF Fill, Good, MainSet
  <2>. HIDE DEF c, v
  <2>. QED
    BY <1>4, <2>2 DEF Good, MainSet
<1>6. b \subseteq d /\ (e.state = "DISKWAIT" => g \in d)
  OBVIOUS
<1>. HIDE DEF i, c, v, n, e
<1>7. OneSlot(v.cache)
  <2>1. \A j \in Slots : v.cache[j].grid = w.cache[j].grid
    BY <1>1, <1>3, <1>4, <1>5 DEF e
  <2>. QED
    BY <2>1 DEF OneSlot, Good, MainInv
<1>8. SlotInv(n, d)
  BY <1>1, <1>2, <1>3, <1>6, DisplacedHoldsNone DEF SlotInv, Entry
<1>9. \A j \in Slots : SlotInv(v.cache[j], d)
  <2>1. \A j \in Slots : SlotInv(w.cache[j], d)
    BY <1>6 DEF SlotInv, Good, MainInv
  <2>. QED
    BY <1>4, <1>5, <1>8, <2>1
<1>10. BlockInv(v, d)
  <2>1. BlockInv(w, b)
    BY DEF Good, MainInv
  <2>2. ASSUME ~io_failure, w.io # "Idle", w.block.grid \notin d
        PROVE  /\ w.io \in {"WaitRead", "DoneRead"} =>
                    \A j \in Slots : c[j].grid = w.block.grid => c[j].state = "DISKWAIT"
               /\ w.io \in {"WaitWrite", "DoneWrite"} => WriteInv(c, w.block)
    <3>1. CASE w.block.grid = g
      <4>1. e.state # "DISKWAIT"
        BY <1>6, <2>2, <3>1
      <4>2. w.io \in {"WaitWrite", "DoneWrite"} /\ WriteInv(w.cache, w.block)
        BY <1>1, <1>6, <2>1, <2>2, <3>1, <4>1 DEF BlockInv, e, Good, MainSet, IoStates
      <4>3. w.block.data \subseteq n.data
        BY <1>1, <1>3, <3>1, <4>1, <4>2 DEF WriteInv, e
      <4>. QED
        BY <1>3, <1>4, <4>2, <4>3 DEF WriteInv
    <3>2. CASE w.block.grid # g
      BY <1>3, <1>4, <1>6, <2>1, <2>2, <3>2 DEF BlockInv, WriteInv
    <3>. QED
      BY <3>1, <3>2
  <2>. QED
    BY <1>5, <1>6, <2>1, <2>2 DEF BlockInv
<1>. QED
  BY <1>5, <1>7, <1>9, <1>10 DEF Good, MainInv, v

-----------------------------------------------------------------------------
\* The steps of the main loop.
LEMMA MainGood ==
    ASSUME IInv
    PROVE  Good(main, blind) /\ here \in Grids
<1>1. main \in MainSet
  BY DEF IInv, TypeOK, main, MainSet, Entry, Block, IoStates
<1>. QED
  BY <1>1 DEF IInv, TypeOK, Good

LEMMA SetMainKeeps ==
    ASSUME IInv, NEW w, SetMain(w), Good(w, blind'), blind' \in SUBSET Grids
    PROVE  IInv'
<1>1. TypeOK'
  BY DEF IInv, TypeOK, SetMain, Good, MainSet, Entry, Block, IoStates
<1>2. DiskInv'
  BY DEF IInv, DiskInv, SetMain, Held
<1>3. MainInv(main, blind)'
  BY DEF SetMain, Good, MainInv, main, BlockInv, SlotInv, Held, Displaced
<1>. QED
  BY <1>1, <1>2, <1>3 DEF IInv

LEMMA UpdateKeeps ==
    ASSUME IInv, NEW located \in BOOLEAN, Update(located)
    PROVE  IInv'
<1>1. SetMain(update(main, located)) /\ blind' = blind /\ blind \in SUBSET Grids
  BY DEF Update, IInv, TypeOK
<1>. QED
  BY <1>1, MainGood, UpdateGood, SetMainKeeps

LEMMA SendRequestKeeps ==
    ASSUME IInv, NEW located \in BOOLEAN, NEW may_ask \in BOOLEAN, SendRequest(located, may_ask)
    PROVE  IInv'
<1>. DEFINE w == schedule_disk_io(main)
<1>1. Good(w, blind) /\ here \in Grids
  BY MainGood, ScheduleGood
<1>2. blind' = blind /\ blind \in SUBSET Grids
  BY DEF SendRequest, IInv, TypeOK
<1>3. PICK r : SetMain(r) /\ r \in {w, Report(w, here), Requests(Report(w, here))}
  BY DEF SendRequest
<1>. HIDE DEF w
<1>4. Good(r, blind)
  BY <1>1, <1>3, ReportGood, RequestsGood
<1>. QED
  BY <1>2, <1>3, <1>4, SetMainKeeps

LEMMA TerrainCheckKeeps ==
    ASSUME IInv, NEW g \in Grids, TerrainCheck(g)
    PROVE  IInv'
<1>1. SetMain(Report(main, g)) /\ blind' = blind /\ blind \in SUBSET Grids
  BY DEF TerrainCheck, IInv, TypeOK
<1>. QED
  BY <1>1, MainGood, ReportGood, SetMainKeeps

LEMMA TerrainDataKeeps ==
    ASSUME IInv, NEW g \in Grids, NEW square \in Squares[g], NEW located \in BOOLEAN,
           TerrainData(g, square, located)
    PROVE  IInv'
<1>1. /\ SlotsOf(main, g) # {}
      /\ SetMain(update(Fill(main, g, square), located))
      /\ blind' = IF main.cache[SlotOf(main, g)].state = "DISKWAIT" THEN blind \cup {g} ELSE blind
  BY DEF TerrainData, main
<1>2. Good(Fill(main, g, square), blind')
  BY <1>1, MainGood, FillGood
<1>3. blind' \in SUBSET Grids
  BY <1>1 DEF IInv, TypeOK
<1>4. Good(update(Fill(main, g, square), located), blind')
  BY <1>2, MainGood, UpdateGood
<1>. QED
  BY <1>1, <1>3, <1>4, SetMainKeeps

-----------------------------------------------------------------------------
\* The steps of the I/O thread, the vehicle and the power.
LEMMA ReadBlockKeeps ==
    ASSUME IInv, ReadBlock
    PROVE  IInv'
<1>. DEFINE g == disk_block.grid
            data == IF Held(disk, g) # {} THEN Held(disk, g) ELSE {Junk}
<1>1. g \in Grids /\ disk_block \in Block /\ Held(disk, g) \subseteq Content(g) /\ Content(g) \subseteq Heights
  BY DEF IInv, TypeOK, DiskInv, MainInv, BlockInv, main, ReadBlock, Block, Heights
<1>2. disk_block' = [disk_block EXCEPT !.data = data] /\ checking' = TRUE
      /\ UNCHANGED <<cache, order, home_known, here, asked, settled, blind, disk_io_state, io_failure, disk>>
      /\ disk_io_state = "WaitRead"
  BY DEF ReadBlock, idle
<1>3. disk_block'.grid = g /\ disk_block'.data = data /\ disk_block' \in Block
  BY <1>1, <1>2 DEF Block
<1>4. Junk \notin Held(disk, g)
  BY <1>1, TerrainAssumption DEF Content, Junk
<1>5. data \subseteq Content(g) \cup {Junk} /\ data \ {Junk} = Held(disk, g)
  BY <1>1, <1>4
<1>. HIDE DEF data, g
<1>6. TypeOK'
  BY <1>2, <1>3 DEF IInv, TypeOK, Block
<1>7. DiskInv'
  BY <1>2 DEF IInv, DiskInv, Held
<1>8. OneSlot(cache)' /\ \A i \in Slots : SlotInv(cache[i], blind)'
  BY <1>2 DEF IInv, MainInv, main, OneSlot, SlotInv, Held, Displaced
<1>9. BlockInv(main, blind)'
  <2>1. ~io_failure /\ g \notin blind =>
            \A i \in Slots : cache[i].grid = g => cache[i].state = "DISKWAIT"
    BY <1>2 DEF IInv, MainInv, main, BlockInv, g
  <2>. QED
    BY <1>1, <1>2, <1>3, <1>5, <2>1 DEF main, BlockInv
<1>10. MainInv(main, blind)'
  BY <1>8, <1>9 DEF MainInv, main
<1>. QED
  BY <1>6, <1>7, <1>10 DEF IInv

LEMMA CheckBlockKeeps ==
    ASSUME IInv, CheckBlock
    PROVE  IInv'
<1>. DEFINE data == disk_block.data \ {Junk}
<1>1. disk_block' = [disk_block EXCEPT !.data = data] /\ checking' = FALSE /\ disk_io_state' = "DoneRead"
      /\ UNCHANGED <<cache, order, home_known, here, asked, settled, blind, io_failure, disk>>
      /\ checking /\ disk_io_state = "WaitRead"
  BY DEF CheckBlock, idle, IInv, MainInv, BlockInv, main
<1>2. disk_block \in Block
  BY DEF IInv, TypeOK, Block
<1>3. disk_block'.grid = disk_block.grid /\ disk_block'.data = data /\ disk_block' \in Block
  BY <1>1, <1>2 DEF Block
<1>4. data \subseteq Content(disk_block.grid)
  BY <1>1 DEF IInv, MainInv, BlockInv, main
<1>5. ~io_failure /\ disk_block.grid \notin blind => data = Held(disk, disk_block.grid)
  BY <1>1 DEF IInv, MainInv, BlockInv, main
<1>. HIDE DEF data
<1>6. TypeOK'
  BY <1>1, <1>3 DEF IInv, TypeOK, Block
<1>7. DiskInv'
  BY <1>1 DEF IInv, DiskInv, Held
<1>8. OneSlot(cache)' /\ \A i \in Slots : SlotInv(cache[i], blind)'
  BY <1>1 DEF IInv, MainInv, main, OneSlot, SlotInv, Held, Displaced
<1>9. BlockInv(main, blind)'
  <2>1. ~io_failure /\ disk_block.grid \notin blind =>
            \A i \in Slots : cache[i].grid = disk_block.grid => cache[i].state = "DISKWAIT"
    BY <1>1 DEF IInv, MainInv, main, BlockInv
  <2>2. disk_block.grid \in Grids
    BY <1>1 DEF IInv, MainInv, main, BlockInv
  <2>3. main'.io = "DoneRead" /\ main'.block = disk_block' /\ main'.cache = cache /\ ~checking'
    BY <1>1 DEF main
  <2>. QED
    BY <1>1, <1>3, <1>4, <1>5, <2>1, <2>2, <2>3 DEF BlockInv
<1>10. MainInv(main, blind)'
  BY <1>8, <1>9 DEF MainInv, main
<1>. QED
  BY <1>6, <1>7, <1>10 DEF IInv

\* What a card holds when a block of the grid of disk_block, or none, is written to its place.
LEMMA WrittenHolds ==
    ASSUME disk \in Card, disk_block.grid \in Grids, NEW block,
           block.grid \in {disk_block.grid, None}, block.data \subseteq Content(disk_block.grid),
           block \in [grid : Grids \cup {None}, data : SUBSET Heights], NEW card, card = Written(block)
    PROVE  /\ card \in Card
           /\ \A h \in Grids :
                 /\ h = block.grid => Held(card, h) = block.data
                 /\ Place(h) # Place(disk_block.grid) => card[Place(h)] = disk[Place(h)]
                 /\ Place(h) = Place(disk_block.grid) => card[Place(h)] = block
<1>. DEFINE p == Place(disk_block.grid)
<1>1. p \in Places /\ \A h \in Grids : Place(h) \in Places
  BY DEF Places
<1>. HIDE DEF p
<1>2. card = [disk EXCEPT ![p] = block]
  BY DEF Written, p
<1>3. card \in Card
  BY <1>1, <1>2 DEF Card
<1>4. card[p] = block /\ \A q \in Places : q # p => card[q] = disk[q]
  BY <1>1, <1>2 DEF Card
<1>5. \A h \in Grids : h = block.grid => Place(h) = p
  BY TerrainAssumption DEF p
<1>. QED
  BY <1>1, <1>3, <1>4, <1>5 DEF Held, p

\* While a block is written it is of its grid.
LEMMA WaitWriteBlock ==
    ASSUME IInv, disk_io_state = "WaitWrite"
    PROVE  /\ disk \in Card /\ disk_block.grid \in Grids /\ ~checking
           /\ disk_block.data \subseteq Content(disk_block.grid)
           /\ disk_block \in [grid : Grids \cup {None}, data : SUBSET Heights]
<1>1. /\ disk_block.grid \in Grids /\ ~checking
      /\ disk_block.data \subseteq Content(disk_block.grid)
  BY DEF IInv, MainInv, BlockInv, main, TypeOK
<1>2. disk \in Card /\ disk_block \in Block
  BY DEF IInv, TypeOK, Card, Block
<1>3. Content(disk_block.grid) \subseteq Heights
  BY <1>1 DEF Heights
<1>. QED
  BY <1>1, <1>2, <1>3 DEF Block

LEMMA WriteBlockKeeps ==
    ASSUME IInv, WriteBlock
    PROVE  IInv'
<1>. DEFINE g == disk_block.grid
<1>1. disk' = Written(disk_block) /\ disk_io_state' = "DoneWrite"
      /\ UNCHANGED <<cache, order, home_known, here, asked, settled, blind, disk_block, checking, io_failure>>
      /\ disk_io_state = "WaitWrite" /\ ~io_failure
  BY DEF WriteBlock, idle
<1>2. g \in Grids /\ disk_block.data \subseteq Content(g) /\ ~checking
  BY <1>1, WaitWriteBlock
<1>3. /\ disk' \in Card
      /\ Held(disk', g) = disk_block.data
      /\ \A h \in Grids : /\ Place(h) # Place(g) => disk'[Place(h)] = disk[Place(h)]
                          /\ Place(h) = Place(g) => disk'[Place(h)] = disk_block
  BY <1>1, <1>2, WaitWriteBlock, WrittenHolds
<1>4. \A h \in Grids : Place(h) # Place(g) => Held(disk', h) = Held(disk, h)
  BY <1>3 DEF Held
<1>5. \A h \in Grids : h # g /\ Place(h) = Place(g) =>
          Held(disk', h) = {} /\ disk'[Place(h)].grid \notin {h, None}
  BY <1>2, <1>3, TerrainAssumption DEF Held
<1>6. TypeOK'
  BY <1>1, <1>3 DEF IInv, TypeOK, Card
<1>7. DiskInv'
  <2>1. \A h \in Grids : Held(disk', h) \subseteq Content(h)
    BY <1>2, <1>3, <1>4, <1>5 DEF IInv, DiskInv
  <2>. QED
    BY <2>1 DEF DiskInv, Held
<1>8. ASSUME NEW i \in Slots
      PROVE  SlotInv(cache[i], blind)'
  <2>. DEFINE h == cache[i].grid
  <2>1. SlotInv(cache[i], blind) /\ h \in Grids \cup {None} /\ blind' = blind /\ cache' = cache
    BY <1>1 DEF IInv, MainInv, main, TypeOK, Entry
  <2>2. CASE h \notin Grids \ blind
    BY <1>1, <2>1, <2>2 DEF SlotInv
  <2>3. CASE h \in Grids \ blind /\ h = g
    <3>1. cache[i].state = "DISKWAIT" \/ (cache[i].state = "DIRTY" /\ disk_block.data \subseteq cache[i].data)
      BY <1>1, <2>3 DEF IInv, MainInv, BlockInv, WriteInv, main
    <3>. QED
      BY <1>1, <1>2, <1>3, <2>1, <2>3, <3>1 DEF SlotInv
  <2>4. CASE h \in Grids \ blind /\ h # g /\ Place(h) = Place(g)
    <3>1. Held(disk', h) = {} /\ Displaced(h)'
      BY <1>1, <1>5, <2>4 DEF Displaced
    <3>. QED
      BY <1>1, <2>1, <2>4, <3>1 DEF SlotInv
  <2>5. CASE h \in Grids \ blind /\ Place(h) # Place(g)
    <3>1. Held(disk', h) = Held(disk, h) /\ (Displaced(h) <=> Displaced(h)')
      BY <1>1, <1>3, <1>4, <2>5 DEF Displaced
    <3>. QED
      BY <1>1, <2>1, <2>5, <3>1 DEF SlotInv
  <2>. QED
    BY <2>2, <2>3, <2>4, <2>5
<1>9. OneSlot(cache)'
  BY <1>1 DEF IInv, MainInv, main, OneSlot
<1>10. BlockInv(main, blind)'
  <2>1. main'.io = "DoneWrite" /\ main'.block = disk_block /\ main'.cache = cache /\ main.cache = cache
        /\ main.block = disk_block /\ main.io = "WaitWrite"
    BY <1>1 DEF main
  <2>2. g \notin blind => WriteInv(cache, disk_block)
    BY <1>1, <2>1 DEF IInv, MainInv, BlockInv
  <2>. QED
    BY <1>1, <1>2, <1>3, <2>1, <2>2 DEF BlockInv, WriteInv
<1>11. MainInv(main, blind)'
  BY <1>8, <1>9, <1>10 DEF MainInv, main
<1>. QED
  BY <1>6, <1>7, <1>11 DEF IInv

\* A write that is cut short leaves heights in their grid.
LEMMA CutShortKeeps ==
    ASSUME IInv, disk_io_state = "WaitWrite", CutShort
    PROVE  /\ disk' \in Card /\ DiskInv'
           /\ \A h \in Grids : Place(h) # Place(disk_block.grid) => disk'[Place(h)] = disk[Place(h)]
<1>1. CASE disk' = disk
  BY <1>1 DEF IInv, TypeOK, DiskInv, Card, Held
<1>2. CASE disk' # disk
  <2>1. PICK block \in {disk_block, NoBlock} : disk' = Written(block)
    BY <1>2 DEF CutShort
  <2>2. /\ block.grid \in {disk_block.grid, None} /\ block.data \subseteq Content(disk_block.grid)
        /\ block \in [grid : Grids \cup {None}, data : SUBSET Heights]
    BY WaitWriteBlock DEF NoBlock
  <2>3. /\ disk' \in Card
        /\ \A h \in Grids :
              /\ Place(h) # Place(disk_block.grid) => disk'[Place(h)] = disk[Place(h)]
              /\ Place(h) = Place(disk_block.grid) => disk'[Place(h)] = block
    BY <2>1, <2>2, WaitWriteBlock, WrittenHolds
  <2>4. \A h \in Grids : Held(disk', h) \subseteq Content(h)
    BY <2>2, <2>3, TerrainAssumption DEF Held, IInv, DiskInv
  <2>. QED
    BY <2>3, <2>4 DEF DiskInv, Held
<1>. QED
  BY <1>1, <1>2

\* A failure of the card leaves the conditions on what it holds without effect.
LEMMA FailureKeeps ==
    ASSUME IInv, ReadFails \/ WriteFails
    PROVE  IInv'
<1>1. /\ UNCHANGED <<cache, order, home_known, here, asked, settled, blind, disk_block, checking>>
      /\ io_failure' = TRUE
      /\ disk_io_state' = disk_io_state \/ (disk_io_state' \in {"WaitWrite", "DoneWrite"} /\ disk_io_state = "WaitWrite")
      /\ disk' = disk \/ (disk_io_state = "WaitWrite" /\ CutShort)
  BY DEF ReadFails, WriteFails, idle
<1>2. disk' \in Card /\ DiskInv'
  <2>1. CASE disk' = disk
    BY <2>1 DEF IInv, TypeOK, DiskInv, Card, Held
  <2>. QED
    BY <1>1, <2>1, CutShortKeeps
<1>3. TypeOK'
  BY <1>1, <1>2 DEF IInv, TypeOK, Card
<1>4. MainInv(main, blind)'
  BY <1>1 DEF IInv, MainInv, main, OneSlot, SlotInv, BlockInv
<1>. QED
  BY <1>2, <1>3, <1>4 DEF IInv

\* A cache that is empty.
LEMMA EmptyCache ==
    ASSUME NEW c, c = [i \in Slots |-> Unused], NEW w, w.cache = c, w.io = "Idle", checking # TRUE, NEW b
    PROVE  MainInv(w, b) /\ c \in [Slots -> Entry]
<1>1. \A i \in Slots : c[i] = Unused
  OBVIOUS
<1>2. Unused \in Entry /\ \A d : SlotInv(Unused, d)
  BY TerrainAssumption DEF Unused, Entry, SlotInv
<1>3. OneSlot(c)
  BY <1>1 DEF OneSlot, Unused
<1>4. BlockInv(w, b)
  BY DEF BlockInv
<1>. QED
  BY <1>1, <1>2, <1>3, <1>4 DEF MainInv

LEMMA PowerLossKeeps ==
    ASSUME IInv, PowerLoss
    PROVE  IInv'
<1>1. /\ cache' = [i \in Slots |-> Unused] /\ order' = [i \in Slots |-> i]
      /\ disk_block' = NoBlock /\ disk_io_state' = "Idle" /\ blind' = {}
      /\ home_known' = FALSE /\ checking' = FALSE /\ io_failure' = FALSE
      /\ UNCHANGED <<here, asked, settled>>
  BY DEF PowerLoss
<1>2. disk' \in Card /\ DiskInv'
  <2>1. CASE disk_io_state = "WaitWrite" /\ ~io_failure
    BY <2>1, CutShortKeeps DEF PowerLoss
  <2>2. CASE ~(disk_io_state = "WaitWrite" /\ ~io_failure)
    BY <2>2 DEF PowerLoss, IInv, DiskInv, TypeOK, Card, Held
  <2>. QED
    BY <2>1, <2>2
<1>3. order' \in [Slots -> Slots] /\ NoBlock \in Block
  BY <1>1 DEF NoBlock, Block
<1>4. cache' \in [Slots -> Entry] /\ MainInv(main, blind)'
  <2>1. main'.cache = cache' /\ main'.io = "Idle"
    BY <1>1 DEF main
  <2>. QED
    BY <1>1, <2>1, TerrainAssumption DEF Unused, Entry, MainInv, OneSlot, SlotInv, BlockInv, main
<1>5. TypeOK'
  BY <1>1, <1>2, <1>3, <1>4 DEF IInv, TypeOK, Block, Entry, Card
<1>. QED
  BY <1>2, <1>4, <1>5 DEF IInv

LEMMA OthersKeep ==
    ASSUME IInv, (\E g \in Grids : Move(g)) \/ Settle \/ UNCHANGED vars
    PROVE  IInv'
<1>1. /\ UNCHANGED <<cache, order, disk_block, disk_io_state, home_known, checking, io_failure, disk,
                     asked, blind>>
      /\ here' \in Grids /\ settled' \in BOOLEAN
  BY DEF Move, Settle, vars, IInv, TypeOK
<1>2. TypeOK' /\ DiskInv'
  BY <1>1 DEF IInv, TypeOK, DiskInv, Held
<1>3. MainInv(main, blind)'
  BY <1>1 DEF IInv, MainInv, main, OneSlot, SlotInv, BlockInv, Held, Displaced
<1>. QED
  BY <1>2, <1>3 DEF IInv

LEMMA Initially ==
    Init => IInv
<1>. SUFFICES ASSUME Init PROVE IInv
  OBVIOUS
<1>1. cache \in [Slots -> Entry] /\ MainInv(main, blind)
  <2>1. cache = [i \in Slots |-> Unused] /\ main.cache = cache /\ main.io = "Idle" /\ checking # TRUE
    BY DEF Init, main
  <2>. QED
    BY <2>1, EmptyCache
<1>2. TypeOK
  BY <1>1, TerrainAssumption DEF Init, TypeOK, NoBlock, Entry
<1>3. DiskInv
  <2>1. \A g \in Grids : Place(g) \in Places /\ NoBlock.grid # g
    BY TerrainAssumption DEF NoBlock, Places
  <2>. QED
    BY <2>1 DEF Init, DiskInv, Held
<1>. QED
  BY <1>1, <1>2, <1>3 DEF IInv

LEMMA NextKeeps ==
    IInv /\ [Next]_vars => IInv'
<1>. SUFFICES ASSUME IInv, [Next]_vars PROVE IInv'
  OBVIOUS
<1>1. CASE Serve
  <2>1. CASE \E located \in BOOLEAN : Update(located)
    BY <2>1, UpdateKeeps
  <2>2. CASE \E located \in BOOLEAN : \E may_ask \in {FALSE, located} : SendRequest(located, may_ask)
    BY <2>2, SendRequestKeeps
  <2>3. CASE \E g \in Grids, located \in BOOLEAN : \E square \in Squares[g] : TerrainData(g, square, located)
    BY <2>3, TerrainDataKeeps
  <2>4. CASE IoThread
    BY <2>4, ReadBlockKeeps, CheckBlockKeeps, WriteBlockKeeps DEF IoThread
  <2>. QED
    BY <1>1, <2>1, <2>2, <2>3, <2>4 DEF Serve
<1>2. CASE \E g \in Grids : TerrainCheck(g)
  BY <1>2, TerrainCheckKeeps
<1>3. CASE WriteFails \/ ReadFails
  BY <1>3, FailureKeeps
<1>4. CASE PowerLoss
  BY <1>4, PowerLossKeeps
<1>5. CASE (\E g \in Grids : Move(g)) \/ Settle \/ UNCHANGED vars
  BY <1>5, OthersKeep
<1>. QED
  BY <1>1, <1>2, <1>3, <1>4, <1>5 DEF Next

LEMMA Invariant ==
    Spec => []IInv
  BY Initially, NextKeeps, PTL DEF Spec

-----------------------------------------------------------------------------
\* Types: slots, block and card hold squares of grids.
THEOREM TypeCorrect == Spec => []TypeOK
<1>1. IInv => TypeOK
  BY DEF IInv
<1>. QED
  BY <1>1, Invariant, PTL

\* Heights stay in their grid, in the cache and on the card, in any interleaving of main loop and I/O
\* thread, whatever is evicted, late, repeated or lost (HeightsBelong; find_io_idx, TerrainIO.cpp:71-99).
THEOREM HeightsStay == Spec => []HeightsBelong
<1>1. IInv => HeightsBelong
  BY DEF IInv, HeightsBelong, DiskInv, MainInv, SlotInv, main
<1>. QED
  BY <1>1, Invariant, PTL

\* A valid slot holds what is on the card, but for grids that got heights while they waited for the
\* card, for grids whose place another one was written to, and after a failure (ValidIsSaved).
THEOREM ValidOnCard == Spec => []ValidIsSaved
<1>1. IInv => ValidIsSaved
  <2>. SUFFICES ASSUME IInv, NEW i \in Slots, cache[i].state = "VALID", ~io_failure,
                       cache[i].grid \notin blind
                PROVE  cache[i].data \subseteq Held(disk, cache[i].grid) \/ Displaced(cache[i].grid)
    BY DEF ValidIsSaved
  <2>1. SlotInv(cache[i], blind) /\ cache[i].grid \in Grids \cup {None}
    BY DEF IInv, MainInv, main, TypeOK
  <2>. QED
    BY <2>1 DEF SlotInv
<1>. QED
  BY <1>1, Invariant, PTL

\* A write to the card takes away, apart from grids filled before they were read, only heights of
\* other grids with the same place, or those of the place where it is cut short (DiskKeepsHeights).
THEOREM CardKeeps == Spec => DiskKeepsHeights
<1>. DEFINE Kept == \A g \in Grids \ blind : Held(disk, g) \subseteq Held(disk', g) \/ MayLose(g)
<1>1. IInv /\ [Next]_vars => [Kept]_vars
  <2>. SUFFICES ASSUME IInv, Next PROVE Kept
    OBVIOUS
  <2>1. CASE WriteBlock
    <3>1. ~io_failure /\ disk_io_state = "WaitWrite" /\ disk' = Written(disk_block)
      BY <2>1 DEF WriteBlock
    <3>2. disk_block.grid \notin blind => Held(disk, disk_block.grid) \subseteq disk_block.data
      BY <3>1 DEF IInv, MainInv, BlockInv, main
    <3>3. /\ Held(disk', disk_block.grid) = disk_block.data
          /\ \A h \in Grids : Place(h) # Place(disk_block.grid) => disk'[Place(h)] = disk[Place(h)]
      BY <3>1, WaitWriteBlock, WrittenHolds
    <3>4. ASSUME NEW g \in Grids \ blind
          PROVE  Held(disk, g) \subseteq Held(disk', g) \/ MayLose(g)
      <4>1. CASE g = disk_block.grid
        BY <3>2, <3>3, <4>1
      <4>2. CASE g # disk_block.grid /\ Place(g) = Place(disk_block.grid)
        BY <3>1, <4>2 DEF MayLose
      <4>3. CASE Place(g) # Place(disk_block.grid)
        BY <3>3, <4>3 DEF Held
      <4>. QED
        BY <4>1, <4>2, <4>3
    <3>. QED
      BY <3>4
  <2>2. CASE (WriteFails \/ PowerLoss) /\ disk' # disk
    <3>1. disk_io_state = "WaitWrite" /\ CutShort /\ (io_failure' \/ PowerLoss)
      BY <2>2 DEF WriteFails, PowerLoss
    <3>2. \A h \in Grids : Place(h) # Place(disk_block.grid) => Held(disk', h) = Held(disk, h)
      BY <3>1, CutShortKeeps DEF Held
    <3>. QED
      BY <3>1, <3>2 DEF MayLose
  <2>3. CASE ~WriteBlock /\ ((~WriteFails /\ ~PowerLoss) \/ disk' = disk)
    <3>1. disk' = disk
      BY <2>3 DEF Next, Serve, IoThread, Update, SendRequest, TerrainCheck, TerrainData, SetMain, Move, Settle,
                  ReadBlock, CheckBlock, ReadFails
    <3>2. \A g \in Grids : Held(disk', g) = Held(disk, g)
      BY <3>1
    <3>. QED
      BY <3>2
  <2>. QED
    BY <2>1, <2>2, <2>3
<1>. QED
  BY <1>1, Invariant, PTL DEF Spec, DiskKeepsHeights
=============================================================================
