------------------------------ MODULE Terrain ------------------------------
(***************************************************************************)
(* The terrain database of libraries/AP_Terrain: a cache of grids of       *)
(* heights, filled from the SD card and by the ground station and written  *)
(* back to the card.  Main loop and I/O thread share one disk_block, which *)
(* they hand to each other with disk_io_state.  The main loop has the      *)
(* higher priority: its handlers are single steps.  The card may fail, the *)
(* ground station may answer late and more than once, and the power may be *)
(* lost.                                                                   *)
(* The heights of a grid come in squares; content is a set of pairs of a   *)
(* grid and a square, so that heights in the wrong grid can be told.       *)
(* On the card each grid has a place in the file of its degree, by its row *)
(* and column; grids of different rows may share one.                      *)
(***************************************************************************)
EXTENDS Integers, Sequences, FiniteSetsExt

CONSTANTS
    Grids,       \* the grids of the region flown over
    Squares,     \* the squares of each grid, the bits of its bitmap
    Corner,      \* the square that the height of a location is interpolated from
    CACHE_SIZE,  \* TERRAIN_GRID_BLOCK_CACHE_SIZE
    HomeGrid,    \* the grid of the home location
    Around,      \* the grids that send_request() asks for when the vehicle is in a grid
    None,        \* no grid
    grid_idx_x,  \* the row of each grid,
    grid_idx_y,  \* and its column, in steps of TERRAIN_GRID_BLOCK_SPACING_Y
    east_blocks  \* the blocks of a row in the file, in steps of TERRAIN_GRID_BLOCK_SIZE_Y, and two more

Slots == 0 .. CACHE_SIZE - 1

Content(g) == {g} \X Squares[g]
Heights    == UNION {Content(g) : g \in Grids}
Junk       == <<None, None>> \* what read() leaves in the block, before it is checked

\* seek_offset(): the place of a grid.  The rows overlap when they have more than east_blocks columns.
Place(g) == east_blocks * grid_idx_x[g] + grid_idx_y[g]
Places   == {Place(g) : g \in Grids}

ASSUME TerrainAssumption ==
    /\ CACHE_SIZE \in Nat \ {0}
    /\ Corner \in Squares[HomeGrid]
    /\ HomeGrid \in Grids
    /\ Around \in [Grids -> Seq(Grids)]
    /\ None \notin Grids

VARIABLES
    cache,         \* a slot is [grid, state, data]
    order,         \* the place of each slot by last_access_ms, the oldest has the lowest
    disk_block,    \* [grid, data]
    disk_io_state,
    home_known,    \* home_height is remembered
    checking,      \* the I/O thread has read the block and not checked it yet
    io_failure,
    disk,          \* the block at each place of the card, [grid, data]
    here,          \* the grid the vehicle is in
    asked,         \* the grids the ground station was asked for
    settled,       \* from now on the vehicle stays, nothing fails and no answer is repeated
    blind          \* history: grids that got heights while they waited for the card

vars == <<cache, order, disk_block, disk_io_state, home_known, checking, io_failure, disk, here,
          asked, settled, blind>>

TypeOK ==
    /\ cache \in [Slots -> [grid : Grids \cup {None},
                            state : {"INVALID", "DISKWAIT", "VALID", "DIRTY"},
                            data : SUBSET (Heights \cup {Junk})]]
    /\ order \in [Slots -> Slots]
    /\ disk_block \in [grid : Grids \cup {None}, data : SUBSET (Heights \cup {Junk})]
    /\ disk \in [Places -> [grid : Grids \cup {None}, data : SUBSET Heights]]
    /\ disk_io_state \in {"Idle", "WaitRead", "WaitWrite", "DoneRead", "DoneWrite"}
    /\ {home_known, checking, io_failure, settled} \subseteq BOOLEAN
    /\ here \in Grids
    /\ asked \subseteq Grids
    /\ blind \subseteq Grids

Unused  == [grid |-> None, state |-> "INVALID", data |-> {}]
NoBlock == [grid |-> None, data |-> {}]

Init ==
    /\ cache = [i \in Slots |-> Unused]
    /\ order = [i \in Slots |-> i]
    /\ disk_block = NoBlock
    /\ disk_io_state = "Idle"
    /\ home_known = FALSE /\ checking = FALSE /\ io_failure = FALSE
    /\ disk = [p \in Places |-> NoBlock]
    /\ here = HomeGrid
    /\ asked = {}
    /\ settled = FALSE
    /\ blind = {}

-----------------------------------------------------------------------------
(* The functions of the main loop, on a record w of what they change.      *)

main == [cache |-> cache, order |-> order, block |-> disk_block, io |-> disk_io_state,
         home |-> home_known, ask |-> None]

SlotsOf(w, g) == {i \in Slots : w.cache[i].grid = g}
SlotOf(w, g)  == Min(SlotsOf(w, g))

\* last_access_ms = millis(); accesses of one millisecond are in the order they come in.
Touch(w, i) ==
    [w EXCEPT !.order = [j \in Slots |-> IF j = i THEN CACHE_SIZE - 1
                                        ELSE IF @[j] > @[i] THEN @[j] - 1 ELSE @[j]]]

Oldest(w) == CHOOSE i \in Slots : \A j \in Slots : w.order[i] <= w.order[j]

\* defect: a grid that is new in the cache is taken to be empty without a look at the card
FindEmpty(w, g) ==
    IF SlotsOf(w, g) # {}
    THEN Touch(w, SlotOf(w, g))
    ELSE LET i == Oldest(w)
         IN  Touch([w EXCEPT !.cache[i] = [grid |-> g, state |-> "VALID", data |-> {}]], i)

\* find_grid_cache(): the oldest slot makes place, whatever it holds.
Find(w, g) ==
    IF SlotsOf(w, g) # {}
    THEN Touch(w, SlotOf(w, g))
    ELSE LET i == Oldest(w)
         IN  Touch([w EXCEPT !.cache[i] = [grid |-> g, state |-> "DISKWAIT", data |-> {}]], i)

\* height_amsl()
HeightKnown(w, g) == <<g, Corner>> \in w.cache[SlotOf(w, g)].data

\* height_amsl() of the home location, which is looked up until it is known.
FindHome(w) ==
    IF w.home THEN w
    ELSE LET f == Find(w, HomeGrid) IN [f EXCEPT !.home = HeightKnown(f, HomeGrid)]

StartIo(w, i, io) ==
    [w EXCEPT !.block = [grid |-> w.cache[i].grid, data |-> w.cache[i].data], !.io = io]

SlotsIn(w, state) == {i \in Slots : w.cache[i].state = state}

\* check_disk_read(), and check_disk_write() when there is nothing to read
NextIo(w) ==
    CASE SlotsIn(w, "DISKWAIT") # {} -> StartIo(w, Min(SlotsIn(w, "DISKWAIT")), "WaitRead")
      [] SlotsIn(w, "DISKWAIT") = {} /\ SlotsIn(w, "DIRTY") # {} ->
           StartIo(w, Min(SlotsIn(w, "DIRTY")), "WaitWrite")
      [] OTHER -> w

\* defect: the slot the operation was begun for is taken to be the one in that state
IoSlotByState(w, state) == SlotsIn(w, state)

\* find_io_idx(): first with the state expected, then in any state
IoSlot(w, state) ==
    LET expected == SlotsOf(w, w.block.grid) \cap SlotsIn(w, state)
    IN  IF expected # {} THEN expected ELSE SlotsOf(w, w.block.grid)

\* An empty block leaves the grid as it is.
DoneRead(w) ==
    LET found == IoSlot(w, "DISKWAIT")
        i     == Min(found)
        data  == IF w.block.data # {} THEN w.block.data ELSE w.cache[i].data
    IN  IF found = {} THEN w
        ELSE Touch([w EXCEPT !.cache[i].data = data, !.cache[i].state = "VALID"], i)

\* defect: heights that came in while the block was written are taken to be saved
DoneWriteOfAll(w) ==
    LET found == IoSlot(w, "DIRTY")
    IN  IF found = {} THEN w ELSE [w EXCEPT !.cache[Min(found)].state = "VALID"]

\* "only mark valid if more grids haven't been added"
DoneWrite(w) ==
    LET found == IoSlot(w, "DIRTY")
        i     == Min(found)
    IN  IF found # {} /\ w.cache[i].data = w.block.data
        THEN [w EXCEPT !.cache[i].state = "VALID"]
        ELSE w

\* defect: an operation for a grid that has left the cache is never over
ScheduleWaits(w) ==
    CASE w.io = "Idle"      -> NextIo(w)
      [] w.io = "DoneRead" /\ IoSlot(w, "DISKWAIT") # {} -> [DoneRead(w) EXCEPT !.io = "Idle"]
      [] w.io = "DoneWrite" /\ IoSlot(w, "DIRTY") # {}   -> [DoneWrite(w) EXCEPT !.io = "Idle"]
      [] OTHER              -> w

schedule_disk_io(w) ==
    CASE w.io = "Idle"      -> NextIo(w)
      [] w.io = "DoneRead"  -> [DoneRead(w) EXCEPT !.io = "Idle"]
      [] w.io = "DoneWrite" -> [DoneWrite(w) EXCEPT !.io = "Idle"]
      [] OTHER              -> w

\* update(): the position may be unknown.
update(w, located) ==
    LET f == FindHome(schedule_disk_io(w)) IN IF located THEN Find(f, here) ELSE f

\* send_terrain_report(): the location is looked up only when the height of home is known.
Report(w, g) == LET f == FindHome(w) IN IF f.home THEN Find(f, g) ELSE f

\* request_missing(): "don't request data from the GCS till we know its not on disk"
Missing(w, i) ==
    /\ w.cache[i].state \notin {"INVALID", "DISKWAIT"}
    /\ Content(w.cache[i].grid) \ w.cache[i].data # {}

\* One grid of send_request(), which ends with the first that is asked for.
Request(w, g) ==
    IF w.ask # None THEN w
    ELSE LET f == Find(w, g)
         IN  IF Missing(f, SlotOf(f, g)) THEN [f EXCEPT !.ask = g] ELSE f

\* Grids that are in the cache for another reason.
RequestCached(w) ==
    LET missing == {i \in Slots : Missing(w, i)}
    IN  IF w.ask # None \/ missing = {} THEN w
        ELSE [w EXCEPT !.ask = w.cache[Min(missing)].grid]

\* The requests of send_request(): here, around, the rest of the cache, and here again.
Requests(w) ==
    LET around[k \in 0 .. Len(Around[here])] ==
            IF k = 0 THEN Request(w, here) ELSE Request(around[k - 1], Around[here][k])
    IN  Request(RequestCached(around[Len(Around[here])]), here)

-----------------------------------------------------------------------------
SetMain(w) ==
    /\ cache' = w.cache
    /\ order' = w.order
    /\ disk_block' = w.block
    /\ disk_io_state' = w.io
    /\ home_known' = w.home
    /\ asked' = IF w.ask = None THEN asked ELSE asked \cup {w.ask}
    /\ UNCHANGED <<checking, io_failure, disk, here, settled>>

Update(located) == (\E w \in {update(main, located)} : SetMain(w)) /\ UNCHANGED blind

\* A request is sent every two seconds at most, when there is room for it.
SendRequest(located, may_ask) ==
    /\ LET w == schedule_disk_io(main)
       IN  \E r \in {CASE ~located            -> w
                       [] located /\ ~may_ask -> Report(w, here)
                       [] OTHER               -> Requests(Report(w, here))} : SetMain(r)
    /\ UNCHANGED blind

\* handle_terrain_check()
TerrainCheck(g) == SetMain(Report(main, g)) /\ UNCHANGED blind

\* A square in a grid of the cache.
Fill(w, g, square) ==
    LET i == SlotOf(w, g)
    IN  [w EXCEPT !.cache[i].data = @ \cup {<<g, square>>}, !.cache[i].state = "DIRTY"]

\* A square that a grid of the cache lacks and the ground station was asked for.
Awaited(g, square) == g \in asked /\ \E i \in SlotsOf(main, g) : <<g, square>> \notin cache[i].data

\* handle_terrain_data(): a square the ground station was asked for, now or long ago
TerrainData(g, square, located) ==
    /\ g \in asked
    /\ SlotsOf(main, g) # {}
    /\ settled => Awaited(g, square)
    /\ \E w \in {update(Fill(main, g, square), located)} : SetMain(w)
    /\ blind' = IF cache[SlotOf(main, g)].state = "DISKWAIT" THEN blind \cup {g} ELSE blind

Move(g) ==
    /\ g # here
    /\ here' = g
    /\ UNCHANGED <<cache, order, disk_block, disk_io_state, home_known, checking, io_failure, disk,
                   asked, settled, blind>>

-----------------------------------------------------------------------------
(* The I/O thread: io_timer().                                             *)

idle == UNCHANGED <<cache, order, home_known, here, asked, settled, blind>>

\* What the card holds of a grid: a block of another grid, or one that was not written to its end,
\* is told by its latitude, longitude and CRC.
Held(card, g) == IF card[Place(g)].grid = g THEN card[Place(g)].data ELSE {}

\* read(): the block on the card, or anything
ReadBlock ==
    /\ disk_io_state = "WaitRead" /\ ~checking /\ ~io_failure
    /\ LET stored == Held(disk, disk_block.grid)
       IN  disk_block' = [disk_block EXCEPT !.data = IF stored # {} THEN stored ELSE {Junk}]
    /\ checking' = TRUE
    /\ UNCHANGED <<disk_io_state, io_failure, disk>> /\ idle

\* defect: the block is handed over before it is checked
CheckLater ==
    /\ checking
    /\ checking' = FALSE
    /\ disk_io_state' = "DoneRead"
    /\ UNCHANGED <<disk_block, io_failure, disk>> /\ idle

\* Bad data "is not an IO failure, just a missing block on disk".
CheckBlock ==
    /\ checking
    /\ disk_block' = [disk_block EXCEPT !.data = @ \ {Junk}]
    /\ checking' = FALSE
    /\ disk_io_state' = "DoneRead"
    /\ UNCHANGED <<io_failure, disk>> /\ idle

\* The card with the block in its place, whatever is there.
Written(block) == [disk EXCEPT ![Place(disk_block.grid)] = block]

WriteBlock ==
    /\ disk_io_state = "WaitWrite" /\ ~io_failure
    /\ disk' = Written(disk_block)
    /\ disk_io_state' = "DoneWrite"
    /\ UNCHANGED <<disk_block, checking, io_failure>> /\ idle

\* A write that is cut short leaves the old block, the new one, or one whose CRC is wrong.
CutShort == disk' \in {disk, Written(disk_block), Written(NoBlock)}

\* A short write is done; a file that cannot be opened, or an offset that cannot be reached, is not.
WriteFails ==
    /\ disk_io_state = "WaitWrite" /\ ~io_failure
    /\ io_failure' = TRUE
    /\ \/ disk_io_state' = "DoneWrite" /\ CutShort
       \/ UNCHANGED <<disk_io_state, disk>>
    /\ UNCHANGED <<disk_block, checking>> /\ idle

ReadFails ==
    /\ disk_io_state = "WaitRead" /\ ~checking /\ ~io_failure
    /\ io_failure' = TRUE
    /\ UNCHANGED <<disk_block, disk_io_state, checking, disk>> /\ idle

\* The power may be lost while a block is written.
PowerLoss ==
    /\ IF disk_io_state = "WaitWrite" /\ ~io_failure THEN CutShort ELSE UNCHANGED disk
    /\ cache' = [i \in Slots |-> Unused]
    /\ order' = [i \in Slots |-> i]
    /\ disk_block' = NoBlock
    /\ disk_io_state' = "Idle"
    /\ home_known' = FALSE /\ checking' = FALSE /\ io_failure' = FALSE
    /\ blind' = {}
    /\ UNCHANGED <<here, asked, settled>>

-----------------------------------------------------------------------------
IoThread == ReadBlock \/ CheckBlock \/ WriteBlock

\* What goes on while the vehicle stays where it is.
Serve ==
    \/ \E located \in BOOLEAN : Update(located)
    \/ \E located \in BOOLEAN : \E may_ask \in {FALSE, located} : SendRequest(located, may_ask)
    \/ \E g \in Grids, located \in BOOLEAN : \E square \in Squares[g] : TerrainData(g, square, located)
    \/ IoThread

Settle ==
    /\ ~settled /\ ~io_failure
    /\ settled' = TRUE
    /\ UNCHANGED <<cache, order, disk_block, disk_io_state, home_known, checking, io_failure, disk,
                   here, asked, blind>>

Next ==
    \/ Serve
    \/ Settle
    \/ /\ ~settled
       /\ \/ \E g \in Grids : TerrainCheck(g)
          \/ \E g \in Grids : Move(g)
          \/ WriteFails
          \/ ReadFails
          \/ PowerLoss

-----------------------------------------------------------------------------
requests == Requests(Report(schedule_disk_io(main), here))

\* The main loop calls send_request() again and again, the scheduler of the I/O thread io_timer(),
\* and the ground station answers.  (Weak fairness with ENABLED written out.)
Fairness ==
    /\ []<>(requests = main) \/ []<><<SendRequest(TRUE, TRUE)>>_vars
    /\ WF_vars(IoThread)
    /\ \A g \in Grids : \A square \in Squares[g] :
          []<>(~Awaited(g, square)) \/ []<><<TerrainData(g, square, TRUE)>>_vars

Spec == Init /\ [][Next]_vars /\ Fairness

-----------------------------------------------------------------------------
\* The heights in a slot, and those on the card, are heights of that grid that passed the check: no
\* block ends in another grid, and none is used before the I/O thread gives it back ("to manage who
\* has access to the structures", TerrainIO.cpp:127-138).
HeightsBelong ==
    /\ \A i \in Slots : cache[i].data # {} => cache[i].data \subseteq Content(cache[i].grid)
    /\ \A g \in Grids : Held(disk, g) \subseteq Content(g)

\* Another grid's block stands in the place of the grid.
Displaced(g) == disk[Place(g)].grid \notin {g, None}

\* What is held as valid is on the card ("when updates have been made, and disk write needed" the
\* slot is dirty, AP_Terrain.h:218), but for grids that got heights while they waited for the card,
\* and those whose place another grid was written to.
ValidIsSaved ==
    \A i \in Slots : cache[i].state = "VALID" /\ ~io_failure /\ cache[i].grid \notin blind =>
        cache[i].data \subseteq Held(disk, cache[i].grid) \/ Displaced(cache[i].grid)

\* But for the first of those grids a write takes heights from the card only in the place it goes
\* to: those of another grid that has the same place (TerrainIO.cpp:207-224), or of any grid there
\* when the write is cut short by an error or the loss of power (238-266).
MayLose(g) ==
    /\ disk_io_state = "WaitWrite" /\ Place(g) = Place(disk_block.grid)
    /\ disk_block.grid # g \/ io_failure' \/ PowerLoss

DiskKeepsHeights ==
    [][\A g \in Grids \ blind : Held(disk, g) \subseteq Held(disk', g) \/ MayLose(g)]_vars

\* A vehicle that stays in a grid gets all its heights, and they get to the card, unless the card
\* fails (TerrainGCS.cpp:85-147) or a grid with the same place is written there.
HeightsArrive ==
    settled ~>
        /\ \E i \in Slots : cache[i].grid = here /\ cache[i].data = Content(here)
        /\ here \in blind \/ Held(disk, here) = Content(here) \/ Displaced(here)

=============================================================================
