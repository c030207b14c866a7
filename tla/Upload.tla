------------------------------- MODULE Upload -------------------------------
(***************************************************************************)
(* The upload of a mission (libraries/GCS_MAVLink): each telemetry link    *)
(* has a GCS_MAVLINK with its own state of the handshake, and all of them  *)
(* edit the one mission of AP_Mission.                                     *)
(*                                                                         *)
(* A ground station announces a mission with MISSION_COUNT; the vehicle    *)
(* asks for one item after the other, again and again when none comes, and *)
(* acknowledges the last.  Links lose messages and delay them.  Stations   *)
(* may begin anew at any time; several may upload at once.                 *)
(***************************************************************************)
EXTENDS Integers, Sequences

CONSTANTS
    Links,
    Plans,      \* the missions and partial missions a station may upload on a link
    Length,     \* the number of items of each
    Broken,     \* items that mavlink_to_mission_cmd() refuses
    MAX,        \* num_commands_max()
    PATIENCE,   \* waypoint_receive_timeout, in times of wp_recv_time
    ROOM,       \* messages that fit into a link in either direction
    Partial,    \* the indices of the items of a plan that may be uploaded alone
    Sends,      \* what else a station sends on a link
    NoPlan

NoItem  == <<NoPlan, 0>>
AllPlans == UNION {Plans[l] : l \in Links}
Items   == (AllPlans \X (1 .. MAX + 1)) \cup {NoItem}
Indices == 0 .. MAX

ASSUME UploadAssumption ==
    /\ MAX \in Nat \ {0} /\ PATIENCE \in Nat \ {0} /\ ROOM \in Nat \ {0}
    /\ \A l \in Links : \A p \in Plans[l] : Length[p] \in 0 .. MAX + 1
    /\ \A l \in Links : NoPlan \notin Plans[l]
    /\ \A l \in Links : Sends[l] \subseteq {"clear", "list", "guided"}
    /\ \A l \in Links : \A p \in Plans[l] : Partial[p] \subseteq Nat

VARIABLES
    mission,   \* the commands in storage up to num_commands()
    link,      \* the handshake of each link
    up,        \* messages to the station
    down,      \* messages to the vehicle
    station,   \* [phase, plan, patient]
    settled,   \* the one link that is left, where no message is lost or late from now on
    begun      \* history: the upload a link began last, until something else edits the mission

vars == <<mission, link, up, down, station, settled, begun>>

Handshake == [receiving : BOOLEAN,   \* waypoint_receiving
              request_i : Nat,       \* waypoint_request_i
              last      : Nat,       \* waypoint_request_last
              due       : BOOLEAN,   \* wp_recv_time has passed since waypoint_timelast_request
              silence   : Nat,       \* times of wp_recv_time since waypoint_timelast_receive
              deferred  : BOOLEAN]   \* MSG_NEXT_WAYPOINT is in deferred_messages

Begun == [how      : {"none", "count", "partial"},
          first    : Nat,
          taken    : Seq(Items),     \* the items taken so far
          accepted : BOOLEAN]        \* the last item was acknowledged

Down == [m : {"count"}, n : Nat]
        \cup [m : {"item"}, seq : Nat, item : Items]
        \cup [m : {"partial"}, first : Nat, last : Nat]
        \cup [m : {"clear", "list", "guided"}]
Up == [m : {"request"}, seq : Nat] \cup [m : {"ack"}, accepted : BOOLEAN]

TypeOK ==
    /\ mission \in Seq(Items) /\ Len(mission) <= MAX
    /\ link \in [Links -> Handshake]
    /\ \A l \in Links : link[l].request_i \in Indices /\ link[l].last \in Indices
    /\ up \in [Links -> Seq(Up)]
    /\ down \in [Links -> Seq(Down)]
    /\ station \in [Links -> [phase : {"idle", "uploading", "done"}, plan : AllPlans \cup {NoPlan},
                             patient : BOOLEAN]]
    /\ \A l \in Links : station[l].plan \in Plans[l] \cup {NoPlan}
    /\ settled \subseteq Links
    /\ begun \in [Links -> Begun]

Fresh(how, first) == [how |-> how, first |-> first, taken |-> << >>, accepted |-> FALSE]
Forgotten == Fresh("none", 0)

Init ==
    /\ mission \in {[k \in 1 .. n |-> NoItem] : n \in 0 .. MAX}
    /\ link = [l \in Links |-> [receiving |-> FALSE, request_i |-> 0, last |-> 0, due |-> FALSE,
                                silence |-> 0, deferred |-> FALSE]]
    /\ up = [l \in Links |-> << >>]
    /\ down = [l \in Links |-> << >>]
    /\ station = [l \in Links |-> [phase |-> "idle", plan |-> NoPlan, patient |-> FALSE]]
    /\ settled = {}
    /\ begun = [l \in Links |-> Forgotten]

-----------------------------------------------------------------------------
(* Messages of the vehicle.                                                *)

HasRoom(q) == Len(q) < ROOM

Request(h) == [m |-> "request", seq |-> h.request_i]
Ack(ok)    == [m |-> "ack", accepted |-> ok]

\* An acknowledgement is sent whether there is room for it or not.
Acked(q, ok) == IF HasRoom(q) THEN Append(q, Ack(ok)) ELSE q

\* queued_waypoint_send()
Queued(h, q) == IF h.receiving /\ h.request_i <= h.last THEN Append(q, Request(h)) ELSE q

\* send_message(MSG_RETRY_DEFERRED): a deferred request is for the item that is expected by now.
RetriedQueue(h, q) == IF h.deferred /\ HasRoom(q) THEN Queued(h, q) ELSE q
StillDeferred(h, q) == h.deferred /\ ~HasRoom(q)

\* send_message(MSG_NEXT_WAYPOINT): first what is deferred, then this one, or it is deferred.
NextQueue(h, q) ==
    IF HasRoom(RetriedQueue(h, q)) THEN Queued(h, RetriedQueue(h, q)) ELSE RetriedQueue(h, q)
NextDeferred(h, q) == ~HasRoom(RetriedQueue(h, q))

-----------------------------------------------------------------------------
(* handleMessage(): what each message does on its link.                    *)

\* The first message of the link is of kind m and is taken off.
Receive(l, m) ==
    /\ down[l] # << >> /\ Head(down[l]).m = m
    /\ down' = [down EXCEPT ![l] = Tail(@)]
    /\ UNCHANGED <<station, settled>>

SetLink(l, h) == link' = [link EXCEPT ![l] = h]
Reply(l, ok)  == up' = [up EXCEPT ![l] = Acked(@, ok)]

\* The history when link l sets that of its own upload to b
Begins(l, b, edits) ==
    begun' = [k \in Links |-> IF k = l THEN b ELSE IF edits THEN Forgotten ELSE begun[k]]

StartReceiving(l, first, last) ==
    SetLink(l, [link[l] EXCEPT !.receiving = TRUE, !.request_i = first, !.last = last,
                               !.due = TRUE, !.silence = 0])

\* defect: off by one
TooManyByOne(n) == n > MAX + 1

TooMany(n) == n > MAX

\* defect: the rest of the old mission stays
NotTruncated(n) == mission

\* truncate()
Truncated(n) == IF Len(mission) > n THEN SubSeq(mission, 1, n) ELSE mission

handle_mission_count(l) ==
    /\ Receive(l, "count")
    /\ LET n == Head(down[l]).n
       IN  IF TooMany(n)
           THEN /\ Reply(l, FALSE)
                /\ UNCHANGED <<mission, link, begun>>
           ELSE /\ mission' = Truncated(n)
                /\ StartReceiving(l, 0, n)
                /\ Begins(l, Fresh("count", 0), Len(mission) > n)
                /\ UNCHANGED up

\* A range that does not fit is refused with a text only.
handle_mission_write_partial_list(l) ==
    /\ Receive(l, "partial")
    /\ LET first == Head(down[l]).first
           last  == Head(down[l]).last
       IN  IF first > Len(mission) \/ last > Len(mission) \/ last < first
           THEN UNCHANGED <<link, begun>>
           ELSE /\ StartReceiving(l, first, last)
                /\ Begins(l, Fresh("partial", first), FALSE)
    /\ UNCHANGED <<mission, up>>

\* clear() refuses while the mission runs.
handle_mission_clear_all(l, running) ==
    /\ Receive(l, "clear")
    /\ Reply(l, ~running)
    /\ mission' = IF running THEN mission ELSE << >>
    /\ begun' = IF running THEN begun ELSE [k \in Links |-> Forgotten]
    /\ UNCHANGED link

\* The station asks for the list: the vehicle gives up receiving.
handle_mission_request_list(l) ==
    /\ Receive(l, "list")
    /\ SetLink(l, [link[l] EXCEPT !.receiving = FALSE, !.due = FALSE, !.silence = 0])
    /\ UNCHANGED <<mission, up, begun>>

\* An item with current = 2 is a guided waypoint; it is acknowledged like the end of an upload.
handle_guided_request(l) ==
    /\ Receive(l, "guided")
    /\ Reply(l, TRUE)
    /\ UNCHANGED <<mission, link, begun>>

\* An item is taken when it is the one expected, and there is a place for it.
Takes(l, seq, item) ==
    /\ item \notin Broken
    /\ link[l].receiving
    /\ seq = link[l].request_i
    /\ seq <= Len(mission) /\ seq < MAX

RefuseItem(l) ==
    /\ Receive(l, "item")
    /\ ~Takes(l, Head(down[l]).seq, Head(down[l]).item)
    /\ Reply(l, FALSE)
    /\ UNCHANGED <<mission, link, begun>>

\* defect: the item asked for last is not waited for
IsLastEarly(h) == h.request_i + 2 >= h.last
\* defect: one more is waited for
IsLastLate(h) == h.request_i >= h.last

IsLast(h) == h.request_i + 1 >= h.last

\* replace_cmd() within the list, add_cmd() at its end
TakeItem(l) ==
    LET seq  == Head(down[l]).seq
        item == Head(down[l]).item
        h    == link[l]
        next == [h EXCEPT !.request_i = @ + 1, !.due = FALSE, !.silence = 0]
    IN  /\ Receive(l, "item")
        /\ Takes(l, seq, item)
        /\ mission' = IF seq < Len(mission) THEN [mission EXCEPT ![seq + 1] = item]
                                            ELSE Append(mission, item)
        /\ IF IsLast(h)
           THEN /\ SetLink(l, [next EXCEPT !.receiving = FALSE])
                /\ Reply(l, TRUE)
           ELSE IF HasRoom(up[l])
           THEN /\ SetLink(l, next)
                /\ up' = [up EXCEPT ![l] = Queued(next, @)]
           ELSE /\ SetLink(l, [next EXCEPT !.deferred = NextDeferred(next, up[l])])
                /\ up' = [up EXCEPT ![l] = NextQueue(next, @)]
        /\ Begins(l, IF begun[l].how = "none" THEN Forgotten
                     ELSE [begun[l] EXCEPT !.taken = Append(@, item), !.accepted = IsLast(h)], TRUE)

-----------------------------------------------------------------------------
(* The rest of update(), and time.                                         *)

GivesUp(h) == h.silence >= PATIENCE

\* update(): what was not answered is asked for again, and after a while no more.
Update(l) ==
    LET h    == link[l]
        sent == IF h.due /\ h.request_i <= h.last
                THEN [h EXCEPT !.due = FALSE, !.deferred = NextDeferred(h, up[l])]
                ELSE h
    IN  /\ h.receiving
        /\ h.due \/ GivesUp(h)
        /\ up' = [up EXCEPT ![l] = IF h.due /\ h.request_i <= h.last THEN NextQueue(h, @) ELSE @]
        /\ SetLink(l, IF GivesUp(h)
                      THEN [sent EXCEPT !.receiving = FALSE, !.due = FALSE, !.silence = 0]
                      ELSE sent)
        /\ UNCHANGED <<mission, down, station, settled, begun>>

\* gcs_send_deferred()
RetryDeferred(l) ==
    /\ link[l].deferred /\ HasRoom(up[l])
    /\ up' = [up EXCEPT ![l] = RetriedQueue(link[l], @)]
    /\ SetLink(l, [link[l] EXCEPT !.deferred = StillDeferred(link[l], up[l])])
    /\ UNCHANGED <<mission, down, station, settled, begun>>

\* wp_recv_time passes; once settled, only when everything there is to do is done.
Tick(l) ==
    /\ link[l].receiving /\ ~GivesUp(link[l])
    /\ settled # {} => up[l] = << >> /\ down[l] = << >> /\ ~link[l].due /\ ~link[l].deferred
    /\ SetLink(l, [link[l] EXCEPT !.due = TRUE, !.silence = @ + 1])
    /\ UNCHANGED <<mission, up, down, station, settled, begun>>

Vehicle(l) ==
    \/ handle_mission_count(l) \/ handle_mission_write_partial_list(l)
    \/ \E running \in BOOLEAN : handle_mission_clear_all(l, running)
    \/ handle_mission_request_list(l) \/ handle_guided_request(l)
    \/ TakeItem(l) \/ RefuseItem(l)
    \/ Update(l) \/ RetryDeferred(l)

-----------------------------------------------------------------------------
(* The ground stations, which are not part of the source.                  *)

Quiet(l) == up[l] = << >> /\ down[l] = << >> /\ ~link[l].receiving

Post(l, msg) ==
    /\ HasRoom(down[l])
    /\ down' = [down EXCEPT ![l] = Append(@, msg)]
    /\ UNCHANGED <<mission, link, settled, begun>>

\* A patient station begins when it has heard nothing for longer than the vehicle's timeout.
Begin(l, p) ==
    /\ settled # {} => station[l].plan = p /\ Quiet(l)
    /\ Post(l, [m |-> "count", n |-> Length[p]])
    /\ station' = [station EXCEPT ![l] = [phase |-> "uploading", plan |-> p, patient |-> Quiet(l)]]
    /\ UNCHANGED up

\* Some items of a plan
BeginPartial(l, p, first, last) ==
    /\ settled = {} /\ first <= last
    /\ Post(l, [m |-> "partial", first |-> first, last |-> last])
    /\ station' = [station EXCEPT ![l] = [phase |-> "idle", plan |-> p, patient |-> FALSE]]
    /\ UNCHANGED up

SendOther(l, m) ==
    /\ settled = {}
    /\ Post(l, [m |-> m])
    /\ station' = [station EXCEPT ![l].phase = "idle", ![l].patient = FALSE]
    /\ UNCHANGED up

\* A request is answered with the item, whatever it was for.
Answer(l) ==
    LET k == Head(up[l]).seq + 1
        p == station[l].plan
    IN  /\ up[l] # << >> /\ Head(up[l]).m = "request"
        /\ up' = [up EXCEPT ![l] = Tail(@)]
        /\ IF p # NoPlan /\ k <= Length[p]
           THEN Post(l, [m |-> "item", seq |-> k - 1, item |-> <<p, k>>])
           ELSE UNCHANGED <<down, mission, link, settled, begun>>
        /\ UNCHANGED station

\* Only an acceptance ends the upload.
GotAck(l) ==
    /\ up[l] # << >> /\ Head(up[l]).m = "ack"
    /\ up' = [up EXCEPT ![l] = Tail(@)]
    /\ station' = IF Head(up[l]).accepted /\ station[l].phase = "uploading"
                  THEN [station EXCEPT ![l].phase = "done"]
                  ELSE station
    /\ UNCHANGED <<mission, link, down, settled, begun>>

Station(l) ==
    \/ \E p \in Plans[l] : Begin(l, p)
    \/ Answer(l)
    \/ GotAck(l)

Lose(l) ==
    /\ \/ up[l] # << >> /\ up' = [up EXCEPT ![l] = Tail(@)] /\ UNCHANGED down
       \/ down[l] # << >> /\ down' = [down EXCEPT ![l] = Tail(@)] /\ UNCHANGED up
    /\ UNCHANGED <<mission, link, station, settled, begun>>

\* A plan that the vehicle can take
Sound(p) == Length[p] \in 1 .. MAX /\ \A k \in 1 .. Length[p] : <<p, k>> \notin Broken

Settle(l) ==
    /\ settled = {}
    /\ station[l].phase = "uploading" /\ Sound(station[l].plan)
    /\ settled' = {l}
    /\ UNCHANGED <<mission, link, up, down, station, begun>>

Serve(l) == Vehicle(l) \/ Station(l) \/ Tick(l)

Next ==
    \/ \E l \in IF settled = {} THEN Links ELSE settled : Serve(l)
    \/ /\ settled = {}
       /\ \E l \in Links :
            \/ Lose(l)
            \/ Settle(l)
            \/ \E m \in Sends[l] : SendOther(l, m)
            \/ \E p \in Plans[l] : \E first, last \in Partial[p] : BeginPartial(l, p, first, last)

\* On the link that is left messages are worked off, and time passes.
Fairness == WF_vars(\E l \in settled : Serve(l))

Spec == Init /\ [][Next]_vars /\ Fairness

-----------------------------------------------------------------------------
\* What was taken of an upload is in the mission, each item in its place, and the mission has as
\* many commands as were announced when the last is acknowledged ("new mission arriving, truncate
\* mission to be the same length", GCS_Common.cpp:353), unless another station edited it meanwhile.
UploadIsWhole ==
    \A l \in Links : LET b == begun[l] IN
        /\ \A k \in 1 .. Len(b.taken) :
              b.first + k <= Len(mission) /\ mission[b.first + k] = b.taken[k]
        /\ b.how = "count" /\ b.accepted /\ link[l].last > 0 =>
              Len(mission) = link[l].last /\ Len(b.taken) = link[l].last

\* A station that waits out the vehicle's timeout before it begins, and holds its upload for done,
\* has its mission in the vehicle, item by item (GCS_Common.cpp:717-785), unless another edited it.
AcceptedIsStored ==
    \A l \in Links :
        station[l].phase = "done" /\ station[l].patient /\ begun[l].how = "count" =>
            mission = [k \in 1 .. Length[station[l].plan] |-> <<station[l].plan, k>>]

\* A station that goes on trying gets its mission acknowledged in the end, when no more messages
\* are lost (re-requests and timeout, GCS_Common.cpp:906-923).
UploadEnds == \A l \in Links : settled = {l} ~> station[l].phase = "done"

=============================================================================
