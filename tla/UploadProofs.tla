---------------------------- MODULE UploadProofs ----------------------------
(***************************************************************************)
(* UploadIsWhole for any number of links, missions of any length and links *)
(* of any capacity.  It is not inductive: the item expected next has to be *)
(* the one after those taken, and a mission in the course of an upload has *)
(* to be no longer than was announced.                                     *)
(*                                                                         *)
(* AcceptedIsStored is about the station too: StationInv says what is on   *)
(* the way in both directions while a patient station uploads.             *)
(***************************************************************************)
EXTENDS Upload, SequenceTheorems, TLAPS

\* What was taken is in its place.
InPlace(b, list) ==
    \A k \in 1 .. Len(b.taken) : b.first + k <= Len(list) /\ list[b.first + k] = b.taken[k]

\* The handshake and its history agree.
Agrees(b, h, list) ==
    /\ b.how = "none" => b = Forgotten
    /\ b.how # "none" /\ h.receiving => h.request_i = b.first + Len(b.taken) /\ ~b.accepted
    /\ b.how = "count" =>
         /\ b.first = 0
         /\ h.last > 0 =>
              /\ Len(list) <= h.last
              /\ h.receiving => h.request_i < h.last
              /\ b.accepted => Len(b.taken) = h.last

UploadInv == \A l \in Links : InPlace(begun[l], mission) /\ Agrees(begun[l], link[l], mission)

IInv == TypeOK /\ UploadInv

-----------------------------------------------------------------------------
LEMMA FreshTyped ==
    ASSUME NEW how \in {"none", "count", "partial"}, NEW first \in Nat
    PROVE  LET b == Fresh(how, first)
           IN  /\ b \in Begun
               /\ b.how = how /\ b.first = first /\ b.taken = << >> /\ ~b.accepted
BY EmptySeq DEF Fresh, Begun

LEMMA ForgottenIsFine ==
    ASSUME NEW h, NEW list
    PROVE  InPlace(Forgotten, list) /\ Agrees(Forgotten, h, list) /\ Forgotten \in Begun
BY FreshTyped DEF InPlace, Agrees, Forgotten

LEMMA AckTyped ==
    ASSUME NEW q \in Seq(Up), NEW ok \in BOOLEAN
    PROVE  Acked(q, ok) \in Seq(Up)
<1>1. Ack(ok) \in Up
  BY DEF Ack, Up
<1>. QED
  BY <1>1, AppendProperties DEF Acked

\* The vehicle's messages keep the type of the queue.
LEMMA QueuesTyped ==
    ASSUME NEW h \in Handshake, NEW q \in Seq(Up)
    PROVE  /\ Queued(h, q) \in Seq(Up)
           /\ RetriedQueue(h, q) \in Seq(Up)
           /\ NextQueue(h, q) \in Seq(Up)
           /\ StillDeferred(h, q) \in BOOLEAN
           /\ NextDeferred(h, q) \in BOOLEAN
<1>1. Request(h) \in Up
  BY DEF Request, Up, Handshake
<1>2. Queued(h, q) \in Seq(Up)
  BY <1>1 DEF Queued
<1>3. RetriedQueue(h, q) \in Seq(Up)
  BY <1>2 DEF RetriedQueue
<1>4. Queued(h, RetriedQueue(h, q)) \in Seq(Up)
  BY <1>1, <1>3 DEF Queued
<1>5. NextQueue(h, q) \in Seq(Up)
  BY <1>3, <1>4 DEF NextQueue
<1>6. StillDeferred(h, q) \in BOOLEAN /\ NextDeferred(h, q) \in BOOLEAN
  BY DEF StillDeferred, NextDeferred, Handshake
<1>. QED
  BY <1>2, <1>3, <1>5, <1>6

\* Receiving takes the first message off.
LEMMA ReceiveTyped ==
    ASSUME TypeOK, NEW l \in Links, NEW m, Receive(l, m)
    PROVE  /\ down' \in [Links -> Seq(Down)]
           /\ Head(down[l]) \in Down /\ Head(down[l]).m = m
           /\ UNCHANGED <<station, settled>>
BY DEF TypeOK, Receive

\* A step of the station changes nothing of the vehicle.
LEMMA PostTyped ==
    ASSUME TypeOK, NEW l \in Links, NEW msg \in Down, Post(l, msg)
    PROVE  /\ down' \in [Links -> Seq(Down)]
           /\ UNCHANGED <<mission, link, settled, begun>>
BY DEF TypeOK, Post

-----------------------------------------------------------------------------
LEMMA CountStep ==
    ASSUME IInv, NEW l \in Links, handle_mission_count(l)
    PROVE  IInv'
<1> DEFINE n == Head(down[l]).n
<1> USE DEF IInv
<1>1. /\ down' \in [Links -> Seq(Down)] /\ n \in Nat
      /\ UNCHANGED <<station, settled>>
  <2>1. Head(down[l]) \in Down /\ Head(down[l]).m = "count"
    BY ReceiveTyped DEF handle_mission_count
  <2>2. n \in Nat
    BY <2>1 DEF Down
  <2>. QED
    BY <2>2, ReceiveTyped DEF handle_mission_count
<1>2. CASE TooMany(n)
  <2>1. up' \in [Links -> Seq(Up)]
    <3>1. up[l] \in Seq(Up) /\ up' = [up EXCEPT ![l] = Acked(up[l], FALSE)]
      BY <1>2 DEF handle_mission_count, Reply, TypeOK
    <3>. QED
      BY <3>1, AckTyped DEF TypeOK
  <2>2. UNCHANGED <<mission, link, begun>>
    BY <1>2 DEF handle_mission_count
  <2>3. TypeOK'
    BY <1>1, <2>1, <2>2 DEF TypeOK
  <2>4. UploadInv'
    BY <2>2 DEF UploadInv
  <2>. QED
    BY <2>3, <2>4
<1>3. CASE ~TooMany(n)
  <2>1. /\ mission' = Truncated(n)
        /\ link' = [link EXCEPT ![l] = [link[l] EXCEPT !.receiving = TRUE, !.request_i = 0,
                                          !.last = n, !.due = TRUE, !.silence = 0]]
        /\ begun' = [k \in Links |->
                       IF k = l THEN Fresh("count", 0)
                       ELSE IF Len(mission) > n THEN Forgotten ELSE begun[k]]
        /\ up' = up
    BY <1>3 DEF handle_mission_count, StartReceiving, SetLink, Begins
  <2>2. n \in Indices
    BY <1>1, <1>3, UploadAssumption DEF TooMany, Indices
  <2>3. /\ mission' \in Seq(Items) /\ Len(mission') <= MAX /\ Len(mission') <= n
        /\ Len(mission) <= n => mission' = mission
    <3>1. mission \in Seq(Items) /\ Len(mission) \in Nat /\ MAX \in Nat /\ n \in 0 .. MAX
      BY <2>2, UploadAssumption DEF TypeOK, Indices
    <3>2. CASE Len(mission) > n
      <4>1. \A k \in 1 .. n : mission[k] \in Items
        BY <3>1, <3>2
      <4>2. SubSeq(mission, 1, n) \in Seq(Items) /\ Len(SubSeq(mission, 1, n)) = IF 1 <= n THEN n ELSE 0
        BY <3>1, <4>1, SubSeqProperties
      <4>. QED
        BY <2>1, <3>1, <3>2, <4>2 DEF Truncated
    <3>3. CASE ~(Len(mission) > n)
      BY <2>1, <3>1, <3>3 DEF Truncated, TypeOK
    <3>. QED
      BY <3>2, <3>3
  <2>4. /\ link' \in [Links -> Handshake]
        /\ \A k \in Links : link'[k].request_i \in Indices /\ link'[k].last \in Indices
    <3>. DEFINE g == [link[l] EXCEPT !.receiving = TRUE, !.request_i = 0, !.last = n,
                                     !.due = TRUE, !.silence = 0]
    <3>1. link[l] \in Handshake /\ 0 \in Indices /\ Indices \subseteq Nat
      BY UploadAssumption DEF TypeOK, Indices
    <3>2. g \in Handshake /\ g.request_i = 0 /\ g.last = n
      BY <2>2, <3>1 DEF Handshake
    <3>3. link' = [link EXCEPT ![l] = g]
      BY <2>1
    <3>. HIDE DEF g
    <3>. QED
      BY <2>2, <3>1, <3>2, <3>3 DEF TypeOK
  <2>5. LET b == Fresh("count", 0)
        IN  /\ b \in Begun
            /\ b.how = "count" /\ b.first = 0 /\ b.taken = << >> /\ ~b.accepted
    BY FreshTyped
  <2>6. begun' \in [Links -> Begun]
    BY <2>1, <2>5, ForgottenIsFine DEF TypeOK
  <2>7. TypeOK'
    BY <1>1, <2>1, <2>3, <2>4, <2>6 DEF TypeOK
  <2>8. ASSUME NEW k \in Links
        PROVE  InPlace(begun'[k], mission') /\ Agrees(begun'[k], link'[k], mission')
    <3>1. CASE k = l
      <4>1. begun'[l] = Fresh("count", 0)
        BY <2>1
      <4>2. link'[l].receiving /\ link'[l].request_i = 0 /\ link'[l].last = n
        BY <2>1 DEF TypeOK, Handshake
      <4>. QED
        BY <3>1, <4>1, <4>2, <1>1, <2>3, <2>5 DEF InPlace, Agrees
    <3>2. CASE k # l /\ Len(mission) > n
      BY <3>2, <2>1, ForgottenIsFine
    <3>3. CASE k # l /\ ~(Len(mission) > n)
      <4>1. begun'[k] = begun[k] /\ link'[k] = link[k] /\ mission' = mission
        BY <3>3, <2>1, <2>3, <1>1 DEF TypeOK
      <4>. QED
        BY <4>1 DEF UploadInv
    <3>. QED
      BY <3>1, <3>2, <3>3
  <2>9. UploadInv'
    BY <2>8 DEF UploadInv
  <2>. QED
    BY <2>7, <2>9
<1>. QED
  BY <1>2, <1>3

LEMMA PartialStep ==
    ASSUME IInv, NEW l \in Links, handle_mission_write_partial_list(l)
    PROVE  IInv'
<1> DEFINE first == Head(down[l]).first
           last  == Head(down[l]).last
<1> USE DEF IInv
<1>1. /\ down' \in [Links -> Seq(Down)] /\ first \in Nat /\ last \in Nat
      /\ UNCHANGED <<station, settled, mission, up>>
  <2>1. Head(down[l]) \in Down /\ Head(down[l]).m = "partial"
    BY ReceiveTyped DEF handle_mission_write_partial_list
  <2>2. first \in Nat /\ last \in Nat
    BY <2>1 DEF Down
  <2>. QED
    BY <2>2, ReceiveTyped DEF handle_mission_write_partial_list
<1>2. CASE UNCHANGED <<link, begun>>
  BY <1>1, <1>2 DEF TypeOK, UploadInv
<1>3. CASE ~(first > Len(mission) \/ last > Len(mission) \/ last < first)
  <2>1. /\ link' = [link EXCEPT ![l] = [link[l] EXCEPT !.receiving = TRUE, !.request_i = first,
                                          !.last = last, !.due = TRUE, !.silence = 0]]
        /\ begun' = [k \in Links |->
                       IF k = l THEN Fresh("partial", first)
                       ELSE begun[k]]
    BY <1>3 DEF handle_mission_write_partial_list, StartReceiving, SetLink, Begins
  <2>2. first \in Indices /\ last \in Indices
    BY <1>1, <1>3, UploadAssumption DEF TypeOK, Indices
  <2>3. /\ link' \in [Links -> Handshake]
        /\ \A k \in Links : link'[k].request_i \in Indices /\ link'[k].last \in Indices
    <3>. DEFINE g == [link[l] EXCEPT !.receiving = TRUE, !.request_i = first, !.last = last,
                                     !.due = TRUE, !.silence = 0]
    <3>1. link[l] \in Handshake /\ 0 \in Indices /\ Indices \subseteq Nat
      BY UploadAssumption DEF TypeOK, Indices
    <3>2. g \in Handshake /\ g.request_i = first /\ g.last = last
      BY <2>2, <3>1 DEF Handshake
    <3>3. link' = [link EXCEPT ![l] = g]
      BY <2>1
    <3>. HIDE DEF g
    <3>. QED
      BY <2>2, <3>1, <3>2, <3>3 DEF TypeOK
  <2>4. Fresh("partial", first) \in Begun
    BY <1>1, FreshTyped
  <2>5. TypeOK'
    BY <1>1, <2>1, <2>3, <2>4 DEF TypeOK
  <2>6. ASSUME NEW k \in Links
        PROVE  InPlace(begun'[k], mission') /\ Agrees(begun'[k], link'[k], mission')
    <3>1. CASE k = l
      <4>1. begun'[l] = Fresh("partial", first)
        BY <2>1
      <4>2. link'[l].request_i = first
        BY <2>1 DEF TypeOK, Handshake
      <4>. QED
        BY <3>1, <4>1, <4>2, <1>1, FreshTyped DEF InPlace, Agrees
    <3>2. CASE k # l
      <4>1. begun'[k] = begun[k] /\ link'[k] = link[k]
        BY <3>2, <2>1 DEF TypeOK
      <4>. QED
        BY <4>1, <1>1 DEF UploadInv
    <3>. QED
      BY <3>1, <3>2
  <2>. QED
    BY <2>5, <2>6 DEF UploadInv
<1>. QED
  BY <1>2, <1>3 DEF handle_mission_write_partial_list

-----------------------------------------------------------------------------
\* A step that takes no item and begins no upload.
LEMMA NothingTaken ==
    ASSUME IInv,
           UNCHANGED <<mission, begun>>,
           link' \in [Links -> Handshake],
           \A l \in Links : /\ link'[l].request_i = link[l].request_i
                            /\ link'[l].last = link[l].last
                            /\ link'[l].receiving => link[l].receiving,
           up' \in [Links -> Seq(Up)],
           down' \in [Links -> Seq(Down)],
           station' \in [Links -> [phase : {"idle", "uploading", "done"},
                                   plan : AllPlans \cup {NoPlan}, patient : BOOLEAN]],
           \A l \in Links : station'[l].plan \in Plans[l] \cup {NoPlan},
           settled' \subseteq Links
    PROVE  IInv'
<1>1. TypeOK'
  BY DEF IInv, TypeOK
<1>2. UploadInv'
  BY DEF IInv, UploadInv, Agrees
<1>. QED
  BY <1>1, <1>2 DEF IInv

LEMMA ClearStep ==
    ASSUME IInv, NEW l \in Links, NEW running \in BOOLEAN, handle_mission_clear_all(l, running)
    PROVE  IInv'
<1> USE DEF IInv
<1>1. /\ down' \in [Links -> Seq(Down)]
      /\ UNCHANGED <<station, settled, link>>
  BY ReceiveTyped DEF handle_mission_clear_all
<1>2. up' \in [Links -> Seq(Up)]
  <2>1. up[l] \in Seq(Up) /\ up' = [up EXCEPT ![l] = Acked(up[l], ~running)]
    BY DEF handle_mission_clear_all, Reply, TypeOK
  <2>. QED
    BY <2>1, AckTyped DEF TypeOK
<1>3. CASE running
  <2>1. UNCHANGED <<mission, begun>>
    BY <1>3 DEF handle_mission_clear_all
  <2>. QED
    BY <1>1, <1>2, <2>1 DEF TypeOK, UploadInv
<1>4. CASE ~running
  <2>1. mission' = << >> /\ begun' = [k \in Links |-> Forgotten]
    BY <1>4 DEF handle_mission_clear_all
  <2>2. mission' \in Seq(Items) /\ Len(mission') <= MAX
    BY <2>1, EmptySeq, UploadAssumption
  <2>3. TypeOK'
    BY <1>1, <1>2, <2>1, <2>2, ForgottenIsFine DEF TypeOK
  <2>4. UploadInv'
    BY <2>1, ForgottenIsFine DEF UploadInv
  <2>. QED
    BY <2>3, <2>4
<1>. QED
  BY <1>3, <1>4

\* The handlers that end or leave the handshake.
LEMMA OtherHandlerStep ==
    ASSUME IInv, NEW l \in Links,
           \/ handle_mission_request_list(l) \/ handle_guided_request(l) \/ RefuseItem(l)
    PROVE  IInv'
<1> USE DEF IInv
<1>1. CASE handle_mission_request_list(l)
  <2>. DEFINE g == [link[l] EXCEPT !.receiving = FALSE, !.due = FALSE, !.silence = 0]
  <2>1. /\ g \in Handshake /\ g.request_i = link[l].request_i /\ g.last = link[l].last
        /\ ~g.receiving
    <3>1. link[l] \in Handshake
      BY DEF TypeOK
    <3>. QED
      BY <3>1 DEF Handshake
  <2>2. link' = [link EXCEPT ![l] = g] /\ UNCHANGED <<mission, up, begun>>
    BY <1>1 DEF handle_mission_request_list, SetLink
  <2>3. down' \in [Links -> Seq(Down)] /\ UNCHANGED <<station, settled>>
    BY <1>1, ReceiveTyped DEF handle_mission_request_list
  <2>. HIDE DEF g
  <2>4. /\ link' \in [Links -> Handshake]
        /\ \A k \in Links : /\ link'[k].request_i = link[k].request_i
                            /\ link'[k].last = link[k].last
                            /\ link'[k].receiving => link[k].receiving
    BY <2>1, <2>2 DEF TypeOK
  <2>. QED
    BY <2>2, <2>3, <2>4, NothingTaken DEF TypeOK
<1>2. CASE handle_guided_request(l) \/ RefuseItem(l)
  <2>1. down' \in [Links -> Seq(Down)] /\ UNCHANGED <<station, settled, mission, link, begun>>
    BY <1>2, ReceiveTyped DEF handle_guided_request, RefuseItem
  <2>2. up[l] \in Seq(Up) /\ \E ok \in BOOLEAN : up' = [up EXCEPT ![l] = Acked(up[l], ok)]
    BY <1>2 DEF handle_guided_request, RefuseItem, Reply, TypeOK
  <2>3. up' \in [Links -> Seq(Up)]
    BY <2>2, AckTyped DEF TypeOK
  <2>. QED
    BY <2>1, <2>3, NothingTaken DEF TypeOK
<1>. QED
  BY <1>1, <1>2

\* update(), the deferred messages, and time
LEMMA TimeStep ==
    ASSUME IInv, NEW l \in Links, Update(l) \/ RetryDeferred(l) \/ Tick(l)
    PROVE  IInv'
<1> USE DEF IInv
<1>1. /\ link[l] \in Handshake /\ up[l] \in Seq(Up)
      /\ UNCHANGED <<mission, down, station, settled, begun>>
  BY DEF TypeOK, Update, RetryDeferred, Tick
<1>2. \E h \in Handshake, q \in Seq(Up) :
        /\ h.request_i = link[l].request_i /\ h.last = link[l].last
        /\ h.receiving => link[l].receiving
        /\ link' = [link EXCEPT ![l] = h] /\ up' = [up EXCEPT ![l] = q]
  <2>1. CASE Update(l)
    <3>. DEFINE asks == link[l].due /\ link[l].request_i <= link[l].last
                d    == NextDeferred(link[l], up[l])
                sent == IF asks THEN [link[l] EXCEPT !.due = FALSE, !.deferred = d] ELSE link[l]
                h    == IF GivesUp(link[l])
                        THEN [sent EXCEPT !.receiving = FALSE, !.due = FALSE, !.silence = 0]
                        ELSE sent
                q    == IF asks THEN NextQueue(link[l], up[l]) ELSE up[l]
    <3>1. d \in BOOLEAN /\ q \in Seq(Up)
      BY <1>1, QueuesTyped
    <3>2. link' = [link EXCEPT ![l] = h] /\ up' = [up EXCEPT ![l] = q]
      BY <2>1 DEF Update, SetLink
    <3>. HIDE DEF d, q, asks
    <3>3. /\ sent \in Handshake /\ sent.request_i = link[l].request_i /\ sent.last = link[l].last
          /\ sent.receiving = link[l].receiving
      BY <1>1, <3>1 DEF Handshake
    <3>. HIDE DEF sent
    <3>4. /\ h \in Handshake /\ h.request_i = link[l].request_i /\ h.last = link[l].last
          /\ h.receiving => link[l].receiving
      BY <3>3 DEF Handshake
    <3>. QED
      BY <3>1, <3>2, <3>4
  <2>2. CASE RetryDeferred(l)
    <3>. DEFINE d == StillDeferred(link[l], up[l])
                h == [link[l] EXCEPT !.deferred = d]
                q == RetriedQueue(link[l], up[l])
    <3>1. d \in BOOLEAN /\ q \in Seq(Up)
      BY <1>1, QueuesTyped
    <3>2. link' = [link EXCEPT ![l] = h] /\ up' = [up EXCEPT ![l] = q]
      BY <2>2 DEF RetryDeferred, SetLink
    <3>. HIDE DEF d, q
    <3>3. /\ h \in Handshake /\ h.request_i = link[l].request_i /\ h.last = link[l].last
          /\ h.receiving => link[l].receiving
      BY <1>1, <3>1 DEF Handshake
    <3>. QED
      BY <3>1, <3>2, <3>3
  <2>3. CASE Tick(l)
    <3>. DEFINE n == link[l].silence + 1
                h == [link[l] EXCEPT !.due = TRUE, !.silence = n]
    <3>0. n \in Nat
      BY <1>1 DEF Handshake
    <3>1. link' = [link EXCEPT ![l] = h] /\ up' = [up EXCEPT ![l] = up[l]]
      BY <2>3 DEF Tick, SetLink, TypeOK
    <3>2. /\ h \in Handshake /\ h.request_i = link[l].request_i /\ h.last = link[l].last
          /\ h.receiving => link[l].receiving
      <4>. HIDE DEF n
      <4>. QED
        BY <1>1, <3>0 DEF Handshake
    <3>. QED
      BY <1>1, <3>1, <3>2
  <2>. QED
    BY <2>1, <2>2, <2>3
<1>3. /\ link' \in [Links -> Handshake] /\ up' \in [Links -> Seq(Up)]
      /\ \A k \in Links : /\ link'[k].request_i = link[k].request_i
                          /\ link'[k].last = link[k].last
                          /\ link'[k].receiving => link[k].receiving
  BY <1>2 DEF TypeOK
<1>. QED
  BY <1>1, <1>3, NothingTaken DEF TypeOK

\* The stations and the links
LEMMA StationStep ==
    ASSUME IInv, NEW l \in Links,
           \/ \E p \in Plans[l] : Begin(l, p)
           \/ \E p \in Plans[l] : \E first, last \in Partial[p] : BeginPartial(l, p, first, last)
           \/ \E m \in Sends[l] : SendOther(l, m)
           \/ Answer(l) \/ GotAck(l) \/ Lose(l) \/ Settle(l)
    PROVE  IInv'
<1> USE DEF IInv
<1>. DEFINE Kept == link' = link /\ mission' = mission /\ begun' = begun
            StationTyped == /\ station' \in [Links -> [phase : {"idle", "uploading", "done"},
                                             plan : AllPlans \cup {NoPlan}, patient : BOOLEAN]]
                            /\ \A k \in Links : station'[k].plan \in Plans[k] \cup {NoPlan}
            Rest == /\ up' \in [Links -> Seq(Up)] /\ down' \in [Links -> Seq(Down)]
                    /\ settled' \subseteq Links
<1>1. CASE \E p \in Plans[l] : Begin(l, p)
  <2>1. PICK p \in Plans[l] : Begin(l, p)
    BY <1>1
  <2>2. [m |-> "count", n |-> Length[p]] \in Down
    BY UploadAssumption DEF Down
  <2>3. Kept /\ Rest
    BY <2>1, <2>2, PostTyped DEF Begin, TypeOK
  <2>4. StationTyped
    BY <2>1 DEF Begin, TypeOK, AllPlans, Quiet
  <2>. QED
    BY <2>3, <2>4, NothingTaken DEF TypeOK
<1>2. CASE \E p \in Plans[l] : \E first, last \in Partial[p] : BeginPartial(l, p, first, last)
  <2>1. PICK p \in Plans[l] : \E first, last \in Partial[p] : BeginPartial(l, p, first, last)
    BY <1>2
  <2>2. PICK first \in Nat, last \in Nat : BeginPartial(l, p, first, last)
    BY <2>1, UploadAssumption
  <2>3. [m |-> "partial", first |-> first, last |-> last] \in Down
    BY DEF Down
  <2>4. Kept /\ Rest
    BY <2>2, <2>3, PostTyped DEF BeginPartial, TypeOK
  <2>5. StationTyped
    BY <2>2 DEF BeginPartial, TypeOK, AllPlans
  <2>. QED
    BY <2>4, <2>5, NothingTaken DEF TypeOK
<1>3. CASE \E m \in Sends[l] : SendOther(l, m)
  <2>1. PICK m \in {"clear", "list", "guided"} : SendOther(l, m)
    BY <1>3, UploadAssumption
  <2>2. [m |-> m] \in Down
    BY DEF Down
  <2>3. Kept /\ Rest
    BY <2>1, <2>2, PostTyped DEF SendOther, TypeOK
  <2>4. StationTyped
    <3>1. /\ station \in [Links -> [phase : {"idle", "uploading", "done"},
                                    plan : AllPlans \cup {NoPlan}, patient : BOOLEAN]]
          /\ \A k \in Links : station[k].plan \in Plans[k] \cup {NoPlan}
      BY DEF TypeOK
    <3>2. station' = [station EXCEPT ![l].phase = "idle", ![l].patient = FALSE]
      BY <2>1 DEF SendOther
    <3>3. \A k \in Links : station'[k] = IF k = l THEN [station[k] EXCEPT !.phase = "idle", !.patient = FALSE]
                                          ELSE station[k]
      BY <3>1, <3>2
    <3>4. ASSUME NEW k \in Links
          PROVE  station'[k].plan = station[k].plan
                 /\ station'[k] \in [phase : {"idle", "uploading", "done"},
                                     plan : AllPlans \cup {NoPlan}, patient : BOOLEAN]
      BY <3>1, <3>3
    <3>. QED
      BY <3>1, <3>2, <3>4
  <2>. QED
    BY <2>3, <2>4, NothingTaken DEF TypeOK
<1>4. CASE Answer(l)
  <2>. DEFINE k == Head(up[l]).seq + 1
              p == station[l].plan
  <2>1. up[l] \in Seq(Up) /\ up[l] # << >> /\ Head(up[l]).m = "request" /\ up' = [up EXCEPT ![l] = Tail(up[l])]
    BY <1>4 DEF Answer, TypeOK
  <2>2. Head(up[l]) \in Up /\ Tail(up[l]) \in Seq(Up)
    BY <2>1, HeadTailProperties
  <2>3. k \in Nat /\ k >= 1
    BY <2>1, <2>2 DEF Up
  <2>4. Kept /\ Rest /\ station' = station
    <3>1. CASE p # NoPlan /\ k <= Length[p]
      <4>1. p \in Plans[l] /\ p \in AllPlans
        BY <3>1 DEF TypeOK, AllPlans
      <4>2. <<p, k>> \in Items
        BY <4>1, <3>1, <2>3, UploadAssumption DEF Items
      <4>3. [m |-> "item", seq |-> k - 1, item |-> <<p, k>>] \in Down
        BY <4>2, <2>3 DEF Down
      <4>4. Post(l, [m |-> "item", seq |-> k - 1, item |-> <<p, k>>]) /\ station' = station
        BY <3>1, <1>4 DEF Answer
      <4>. QED
        BY <4>3, <4>4, <2>1, <2>2, PostTyped DEF TypeOK
    <3>2. CASE ~(p # NoPlan /\ k <= Length[p])
      BY <1>4, <3>2, <2>1, <2>2 DEF Answer, TypeOK
    <3>. QED
      BY <3>1, <3>2
  <2>. QED
    BY <2>4, NothingTaken DEF TypeOK
<1>5. CASE GotAck(l)
  <2>1. up[l] \in Seq(Up) /\ up[l] # << >> /\ up' = [up EXCEPT ![l] = Tail(up[l])]
    BY <1>5 DEF GotAck, TypeOK
  <2>2. Kept /\ Rest
    BY <1>5, <2>1, HeadTailProperties DEF GotAck, TypeOK
  <2>3. StationTyped
    BY <1>5 DEF GotAck, TypeOK
  <2>. QED
    BY <2>2, <2>3, NothingTaken DEF TypeOK
<1>6. CASE Lose(l)
  <2>1. up[l] \in Seq(Up) /\ down[l] \in Seq(Down)
    BY DEF TypeOK
  <2>2. up' \in [Links -> Seq(Up)] /\ down' \in [Links -> Seq(Down)]
    <3>1. CASE up[l] # << >> /\ up' = [up EXCEPT ![l] = Tail(up[l])] /\ UNCHANGED down
      <4>1. Tail(up[l]) \in Seq(Up)
        BY <2>1, <3>1, HeadTailProperties
      <4>. QED
        BY <3>1, <4>1 DEF TypeOK
    <3>2. CASE down[l] # << >> /\ down' = [down EXCEPT ![l] = Tail(down[l])] /\ UNCHANGED up
      <4>1. Tail(down[l]) \in Seq(Down)
        BY <2>1, <3>2, HeadTailProperties
      <4>. QED
        BY <3>2, <4>1 DEF TypeOK
    <3>. QED
      BY <1>6, <3>1, <3>2 DEF Lose
  <2>3. Kept /\ StationTyped /\ settled' = settled
    BY <1>6 DEF Lose, TypeOK
  <2>. QED
    BY <2>2, <2>3, NothingTaken DEF TypeOK
<1>7. CASE Settle(l)
  BY <1>7, NothingTaken DEF Settle, TypeOK
<1>. QED
  BY <1>1, <1>2, <1>3, <1>4, <1>5, <1>6, <1>7

-----------------------------------------------------------------------------
\* The place of an earlier item of an upload is in the list, and is not that of the next.
LEMMA PlaceBefore ==
    ASSUME NEW f \in Nat, NEW k \in Nat, NEW n \in Nat, NEW m \in Nat, 1 <= k, k <= n, f + k <= m
    PROVE  f + k \in 1 .. m /\ f + k # f + n + 1
  OBVIOUS

\* Taking an item of the upload keeps those taken before and adds it in its place.
LEMMA TakenInPlace ==
    ASSUME NEW b \in Begun, NEW list \in Seq(Items), NEW item \in Items, NEW h \in Handshake,
           InPlace(b, list), Agrees(b, h, list), b.how # "none", h.receiving,
           h.request_i <= Len(list),
           NEW c \in Begun, c.first = b.first, c.taken = Append(b.taken, item),
           NEW longer \in Seq(Items),
           longer = IF h.request_i < Len(list) THEN [list EXCEPT ![h.request_i + 1] = item]
                                               ELSE Append(list, item)
    PROVE  /\ InPlace(c, longer)
           /\ Len(longer) = IF h.request_i < Len(list) THEN Len(list) ELSE Len(list) + 1
<1>1. /\ b.taken \in Seq(Items) /\ b.first \in Nat /\ h.request_i \in Nat
      /\ h.request_i = b.first + Len(b.taken)
  BY DEF Begun, Handshake, Agrees
<1>2. /\ Len(c.taken) = Len(b.taken) + 1
      /\ \A k \in 1 .. Len(b.taken) : c.taken[k] = b.taken[k]
      /\ c.taken[Len(b.taken) + 1] = item
  BY <1>1, AppendProperties
<1>3. /\ Len(longer) = IF h.request_i < Len(list) THEN Len(list) ELSE Len(list) + 1
      /\ longer[h.request_i + 1] = item
      /\ \A k \in 1 .. Len(list) : k # h.request_i + 1 => longer[k] = list[k]
  <2>1. CASE h.request_i < Len(list)
    BY <1>1, <2>1, ExceptSeq
  <2>2. CASE ~(h.request_i < Len(list))
    BY <1>1, <2>2, AppendProperties
  <2>. QED
    BY <2>1, <2>2
<1>4. ASSUME NEW k \in 1 .. Len(c.taken)
      PROVE  c.first + k <= Len(longer) /\ longer[c.first + k] = c.taken[k]
  <2>1. CASE k = Len(b.taken) + 1
    <3>1. c.first + k = h.request_i + 1 /\ Len(list) \in Nat
      BY <1>1, <2>1
    <3>. QED
      BY <1>1, <1>2, <1>3, <2>1, <3>1
  <2>2. CASE k # Len(b.taken) + 1
    <3>1. k \in 1 .. Len(b.taken)
      BY <1>1, <1>2, <2>2
    <3>2. b.first + k <= Len(list) /\ list[b.first + k] = b.taken[k]
      BY <3>1 DEF InPlace
    <3>3. b.first + k \in 1 .. Len(list) /\ b.first + k # h.request_i + 1
      <4>1. b.first \in Nat /\ Len(b.taken) \in Nat /\ Len(list) \in Nat /\ k \in Nat /\ 1 <= k
            /\ k <= Len(b.taken) /\ h.request_i = b.first + Len(b.taken)
        <5>1. list \in Seq(Items) /\ b.taken \in Seq(Items)
          BY <1>1
        <5>2. Len(list) \in Nat /\ Len(b.taken) \in Nat
          BY <5>1, LenProperties
        <5>. QED
          BY <1>1, <3>1, <5>2
      <4>2. b.first + k <= Len(list)
        BY <3>2
      <4>3. b.first + k \in 1 .. Len(list) /\ b.first + k # b.first + Len(b.taken) + 1
        BY <4>1, <4>2, PlaceBefore
      <4>. QED
        BY <4>1, <4>3
    <3>4. c.taken[k] = b.taken[k]
      BY <1>2, <3>1
    <3>5. longer[b.first + k] = list[b.first + k] /\ Len(list) <= Len(longer) /\ Len(list) \in Nat
      BY <1>3, <3>3
    <3>. QED
      BY <3>2, <3>3, <3>4, <3>5
  <2>. QED
    BY <2>1, <2>2
<1>. QED
  BY <1>3, <1>4 DEF InPlace

LEMMA TakeStep ==
    ASSUME IInv, NEW l \in Links, TakeItem(l)
    PROVE  IInv'
<1> USE DEF IInv
<1>. DEFINE h    == link[l]
            b    == begun[l]
            item == Head(down[l]).item
            i    == h.request_i + 1
            c    == [b EXCEPT !.taken = Append(b.taken, item), !.accepted = IsLast(h)]
<1>1. /\ down' \in [Links -> Seq(Down)] /\ item \in Items
      /\ UNCHANGED <<station, settled>>
  <2>1. Head(down[l]) \in Down /\ Head(down[l]).m = "item"
    BY ReceiveTyped DEF TakeItem
  <2>2. item \in Items
    BY <2>1 DEF Down
  <2>. QED
    BY <2>2, ReceiveTyped DEF TakeItem
<1>2. /\ h \in Handshake /\ b \in Begun /\ up[l] \in Seq(Up)
      /\ mission \in Seq(Items) /\ h.request_i \in Nat /\ h.last \in Nat /\ MAX \in Nat
      /\ h.last \in Indices /\ Len(mission) <= MAX
  BY UploadAssumption DEF TypeOK, Handshake
<1>3. h.receiving /\ h.request_i <= Len(mission) /\ h.request_i < MAX
  BY DEF TakeItem, Takes
<1>4. /\ mission' = IF h.request_i < Len(mission) THEN [mission EXCEPT ![h.request_i + 1] = item]
                                                  ELSE Append(mission, item)
      /\ begun' = [k \in Links |-> IF k = l THEN IF b.how = "none" THEN Forgotten ELSE c
                                   ELSE Forgotten]
  BY DEF TakeItem, Takes, Begins
<1>5. mission' \in Seq(Items) /\ Len(mission') <= MAX
  <2>1. CASE h.request_i < Len(mission)
    BY <1>1, <1>2, <1>4, <2>1, ExceptSeq
  <2>2. CASE ~(h.request_i < Len(mission))
    BY <1>1, <1>2, <1>3, <1>4, <2>2, AppendProperties
  <2>. QED
    BY <2>1, <2>2
<1>6. /\ link' \in [Links -> Handshake] /\ up' \in [Links -> Seq(Up)]
      /\ link'[l].request_i = i /\ link'[l].last = h.last
      /\ link'[l].receiving <=> ~IsLast(h)
      /\ \A k \in Links : k # l => link'[k] = link[k]
  <2>. DEFINE next == [h EXCEPT !.request_i = i, !.due = FALSE, !.silence = 0]
  <2>1. /\ next \in Handshake /\ next.request_i = i /\ next.last = h.last /\ next.receiving
    <3>1. i \in Nat
      BY <1>2
    <3>. HIDE DEF i
    <3>. QED
      BY <1>2, <1>3, <3>1 DEF Handshake
  <2>2. CASE IsLast(h)
    <3>1. /\ link' = [link EXCEPT ![l] = [next EXCEPT !.receiving = FALSE]]
          /\ up' = [up EXCEPT ![l] = Acked(up[l], TRUE)]
      BY <2>2 DEF TakeItem, SetLink, Reply
    <3>. HIDE DEF next
    <3>2. LET g == [next EXCEPT !.receiving = FALSE]
          IN  g \in Handshake /\ g.request_i = i /\ g.last = h.last /\ ~g.receiving
      BY <2>1 DEF Handshake
    <3>3. Acked(up[l], TRUE) \in Seq(Up)
      BY <1>2, AckTyped
    <3>. HIDE DEF i
    <3>. QED
      BY <2>2, <3>1, <3>2, <3>3 DEF TypeOK
  <2>3. CASE ~IsLast(h) /\ HasRoom(up[l])
    <3>1. /\ link' = [link EXCEPT ![l] = next]
          /\ up' = [up EXCEPT ![l] = Queued(next, up[l])]
      BY <2>3 DEF TakeItem, SetLink
    <3>. HIDE DEF next
    <3>. QED
      BY <2>1, <2>3, <3>1, <1>2, QueuesTyped DEF TypeOK
  <2>4. CASE ~IsLast(h) /\ ~HasRoom(up[l])
    <3>. DEFINE later == NextDeferred(next, up[l])
    <3>1. /\ link' = [link EXCEPT ![l] = [next EXCEPT !.deferred = later]]
          /\ up' = [up EXCEPT ![l] = NextQueue(next, up[l])]
      BY <2>4 DEF TakeItem, SetLink
    <3>2. later \in BOOLEAN
      BY <2>1, <1>2, QueuesTyped
    <3>. HIDE DEF next, later
    <3>3. LET g == [next EXCEPT !.deferred = later]
          IN  g \in Handshake /\ g.request_i = i /\ g.last = h.last /\ g.receiving
      BY <2>1, <3>2 DEF Handshake
    <3>. QED
      BY <2>1, <2>4, <3>1, <3>3, <1>2, QueuesTyped DEF TypeOK
  <2>. QED
    BY <2>2, <2>3, <2>4
<1>7. /\ c \in Begun /\ c.how = b.how /\ c.first = b.first /\ c.taken = Append(b.taken, item)
      /\ c.accepted <=> IsLast(h)
  <2>1. Append(b.taken, item) \in Seq(Items) /\ IsLast(h) \in BOOLEAN
    BY <1>1, <1>2, AppendProperties DEF Begun, IsLast
  <2>. QED
    BY <1>2, <2>1 DEF Begun
<1>8. TypeOK'
  <2>1. begun' \in [Links -> Begun]
    BY <1>4, <1>7, ForgottenIsFine
  <2>2. \A k \in Links : link'[k].request_i \in Indices /\ link'[k].last \in Indices
    <3>1. i \in 0 .. MAX
      BY <1>2, <1>3
    <3>. QED
      BY <3>1, <1>2, <1>6 DEF TypeOK, Indices
  <2>. QED
    BY <1>1, <1>5, <1>6, <2>1, <2>2 DEF TypeOK
<1>9. ASSUME NEW k \in Links
      PROVE  InPlace(begun'[k], mission') /\ Agrees(begun'[k], link'[k], mission')
  <2>1. CASE k # l \/ b.how = "none"
    BY <1>4, <2>1, ForgottenIsFine
  <2>2. CASE k = l /\ b.how # "none"
    <3>. HIDE DEF c, i
    <3>1. begun'[k] = c
      BY <1>4, <2>2
    <3>2. InPlace(b, mission) /\ Agrees(b, h, mission)
      BY DEF UploadInv
    <3>3. /\ InPlace(c, mission')
          /\ Len(mission') = IF h.request_i < Len(mission) THEN Len(mission) ELSE Len(mission) + 1
      <4>1. /\ b \in Begun /\ mission \in Seq(Items) /\ item \in Items /\ h \in Handshake
            /\ b.how # "none" /\ h.receiving /\ h.request_i <= Len(mission)
        BY <1>1, <1>2, <1>3, <2>2
      <4>2. c \in Begun /\ c.first = b.first /\ c.taken = Append(b.taken, item)
        BY <1>7
      <4>3. mission' \in Seq(Items)
        BY <1>5
      <4>. HIDE DEF b, h, item
      <4>. QED
        BY <1>4, <3>2, <4>1, <4>2, <4>3, TakenInPlace, ZenonT(60)
    <3>4. Len(c.taken) = Len(b.taken) + 1 /\ Len(b.taken) \in Nat /\ b.first \in Nat
      BY <1>1, <1>2, <1>7, AppendProperties DEF Begun
    <3>5. Agrees(c, link'[l], mission')
      <4>1. /\ link'[l].request_i = h.request_i + 1 /\ link'[l].last = h.last
            /\ link'[l].receiving <=> ~(h.request_i + 1 >= h.last)
            /\ c.accepted <=> (h.request_i + 1 >= h.last)
        BY <1>6, <1>7 DEF IsLast, i
      <4>2. Len(mission) \in Nat /\ Len(mission') \in Nat
        BY <1>2, <1>5
      <4>3. h.request_i = b.first + Len(b.taken)
        BY <1>3, <2>2, <3>2 DEF Agrees
      <4>4. /\ c.how = b.how /\ c.first = b.first /\ h.receiving /\ Agrees(b, h, mission)
            /\ h.request_i \in Nat /\ h.last \in Nat /\ h.request_i <= Len(mission)
        BY <1>2, <1>3, <1>7, <3>2
      <4>. HIDE DEF b, h, item
      <4>. QED
        BY <2>2, <3>3, <3>4, <4>1, <4>2, <4>3, <4>4 DEF Agrees
    <3>. QED
      BY <2>2, <3>1, <3>3, <3>5
  <2>. QED
    BY <2>1, <2>2
<1>. QED
  BY <1>8, <1>9 DEF UploadInv

-----------------------------------------------------------------------------
LEMMA InitHolds == Init => IInv
<1> SUFFICES ASSUME Init PROVE IInv
  OBVIOUS
<1>1. mission \in Seq(Items) /\ Len(mission) <= MAX
  <2>1. PICK n \in 0 .. MAX : mission = [k \in 1 .. n |-> NoItem]
    BY DEF Init
  <2>2. NoItem \in Items /\ n \in Nat /\ n <= MAX
    BY <2>1, UploadAssumption DEF Items
  <2>. QED
    BY <2>1, <2>2, IsASeq
<1>2. link \in [Links -> Handshake] /\ 0 \in Indices
      /\ \A l \in Links : link[l].request_i = 0 /\ link[l].last = 0
  BY UploadAssumption DEF Init, Handshake, Indices
<1>3. up \in [Links -> Seq(Up)] /\ down \in [Links -> Seq(Down)]
  BY EmptySeq DEF Init
<1>4. TypeOK
  BY <1>1, <1>2, <1>3, ForgottenIsFine DEF Init, TypeOK
<1>5. UploadInv
  BY ForgottenIsFine DEF Init, UploadInv
<1>. QED
  BY <1>4, <1>5 DEF IInv

LEMMA Invariance == IInv /\ [Next]_vars => IInv'
<1> SUFFICES ASSUME IInv, [Next]_vars PROVE IInv'
  OBVIOUS
<1>1. CASE \E l \in IF settled = {} THEN Links ELSE settled : Serve(l)
  <2>1. PICK l \in Links : Serve(l)
    BY <1>1 DEF IInv, TypeOK
  <2>2. CASE Vehicle(l)
    BY <2>2, CountStep, PartialStep, ClearStep, OtherHandlerStep, TakeStep, TimeStep DEF Vehicle
  <2>3. CASE Station(l)
    BY <2>3, StationStep DEF Station
  <2>4. CASE Tick(l)
    BY <2>4, TimeStep
  <2>. QED
    BY <2>1, <2>2, <2>3, <2>4 DEF Serve
<1>2. CASE \E l \in Links :
             \/ Lose(l)
             \/ Settle(l)
             \/ \E m \in Sends[l] : SendOther(l, m)
             \/ \E p \in Plans[l] : \E first, last \in Partial[p] : BeginPartial(l, p, first, last)
  BY <1>2, StationStep
<1>3. CASE UNCHANGED vars
  BY <1>3 DEF vars, IInv, TypeOK, UploadInv
<1>. QED
  BY <1>1, <1>2, <1>3 DEF Next

\* All variables keep their types: no request goes beyond num_commands_max(), and the mission never
\* exceeds it.
THEOREM UploadTypesHold == Spec => []TypeOK
<1>1. IInv => TypeOK
  BY DEF IInv
<1>. QED
  BY <1>1, InitHolds, Invariance, PTL DEF Spec

\* Nothing that links, stations and timeouts do to the handshake puts an item in a wrong place or
\* ends an upload short (GCS_Common.cpp:689-797, 906-924).
THEOREM UploadsAreWhole == Spec => []UploadIsWhole
<1>1. IInv => UploadIsWhole
  <2> SUFFICES ASSUME IInv, NEW l \in Links
               PROVE  /\ \A k \in 1 .. Len(begun[l].taken) :
                           /\ begun[l].first + k <= Len(mission)
                           /\ mission[begun[l].first + k] = begun[l].taken[k]
                      /\ begun[l].how = "count" /\ begun[l].accepted /\ link[l].last > 0 =>
                           Len(mission) = link[l].last /\ Len(begun[l].taken) = link[l].last
    BY DEF UploadIsWhole
  <2>1. InPlace(begun[l], mission) /\ Agrees(begun[l], link[l], mission)
    BY DEF IInv, UploadInv
  <2>2. begun[l] \in Begun /\ mission \in Seq(Items) /\ link[l].last \in Nat
    BY DEF IInv, TypeOK, Handshake
  <2>. QED
    BY <2>1, <2>2 DEF InPlace, Agrees, Begun
<1>. QED
  BY <1>1, InitHolds, Invariance, PTL DEF Spec

-----------------------------------------------------------------------------
(* AcceptedIsStored speaks of the station, so it takes an account of what  *)
(* is on the way in both directions.                                       *)

\* A patient station has announced its plan, or its announcement was lost or refused: nothing of an
\* earlier upload is on the way.
NotBegun(s, h, d, u) ==
    /\ s.phase = "uploading" /\ ~h.receiving
    /\ d = << >> \/ d = <<[m |-> "count", n |-> Length[s.plan]]>>
    /\ \A i \in 1 .. Len(u) : u[i] = Ack(FALSE)

\* Its upload has begun: what is on the way and what was taken are items of its plan, and an
\* acceptance is one of this upload.
Underway(s, h, d, u, b) ==
    /\ s.phase \in {"uploading", "done"}
    /\ \A i \in 1 .. Len(d) :
          d[i].m = "item" /\ d[i].seq + 1 <= Length[s.plan] /\ d[i].item = <<s.plan, d[i].seq + 1>>
    /\ b.how \in {"none", "count"}
    /\ b.how = "count" =>
          /\ h.last = Length[s.plan]
          /\ \A k \in 1 .. Len(b.taken) : b.taken[k] = <<s.plan, k>>
          /\ b.accepted => Length[s.plan] > 0
          /\ s.phase = "done" \/ (\E i \in 1 .. Len(u) : u[i] = Ack(TRUE)) => b.accepted

Follows(s, h, d, u, b) ==
    s.patient => s.plan # NoPlan /\ (NotBegun(s, h, d, u) \/ Underway(s, h, d, u, b))

StationInv == \A l \in Links : Follows(station[l], link[l], down[l], up[l], begun[l])

-----------------------------------------------------------------------------
\* u2 has nothing that u has not but refusals and, while the vehicle is receiving, requests.
Adds(u2, u, h) ==
    \A i \in 1 .. Len(u2) :
        \/ \E j \in 1 .. Len(u) : u2[i] = u[j]
        \/ u2[i] = Ack(FALSE)
        \/ h.receiving /\ u2[i] # Ack(TRUE)

LEMMA AcksDiffer == Ack(FALSE) # Ack(TRUE) /\ Ack(TRUE).m = "ack"
BY DEF Ack

\* What is appended to a queue is its only new element.
LEMMA AppendAdds ==
    ASSUME NEW q \in Seq(Up), NEW msg \in Up, NEW i \in 1 .. Len(Append(q, msg))
    PROVE  Append(q, msg)[i] = msg \/ \E j \in 1 .. Len(q) : Append(q, msg)[i] = q[j]
<1>1. Len(q) \in Nat /\ Len(Append(q, msg)) = Len(q) + 1
  BY AppendProperties, LenProperties
<1>2. CASE i = Len(q) + 1
  BY <1>2, AppendProperties
<1>3. CASE i # Len(q) + 1
  <2>1. i \in 1 .. Len(q)
    BY <1>1, <1>3
  <2>. QED
    BY <2>1, AppendProperties
<1>. QED
  BY <1>2, <1>3

LEMMA SameAdds ==
    ASSUME NEW q, NEW h
    PROVE  Adds(q, q, h)
BY DEF Adds

LEMMA RefusalAdds ==
    ASSUME NEW q \in Seq(Up), NEW h
    PROVE  Adds(Acked(q, FALSE), q, h)
<1>1. Ack(FALSE) \in Up
  BY DEF Ack, Up
<1>2. CASE HasRoom(q)
  BY <1>1, <1>2, AppendAdds DEF Adds, Acked
<1>3. CASE ~HasRoom(q)
  BY <1>3, SameAdds DEF Acked
<1>. QED
  BY <1>2, <1>3

\* The vehicle asks for items only while it is receiving.
LEMMA RequestsAdd ==
    ASSUME NEW h \in Handshake, NEW q \in Seq(Up)
    PROVE  /\ Adds(Queued(h, q), q, h)
           /\ Adds(RetriedQueue(h, q), q, h)
           /\ Adds(NextQueue(h, q), q, h)
<1>1. Request(h) \in Up /\ Request(h) # Ack(TRUE)
  BY DEF Request, Up, Handshake, Ack
<1>2. ASSUME NEW r \in Seq(Up)
      PROVE  Adds(Queued(h, r), r, h)
  <2>1. CASE h.receiving /\ h.request_i <= h.last
    <3>1. Queued(h, r) = Append(r, Request(h)) /\ h.receiving
      BY <2>1 DEF Queued
    <3>. SUFFICES ASSUME NEW i \in 1 .. Len(Queued(h, r))
                  PROVE  \/ \E j \in 1 .. Len(r) : Queued(h, r)[i] = r[j]
                         \/ Queued(h, r)[i] # Ack(TRUE)
      BY <3>1 DEF Adds
    <3>2. \/ Append(r, Request(h))[i] = Request(h)
          \/ \E j \in 1 .. Len(r) : Append(r, Request(h))[i] = r[j]
      BY <1>1, <3>1, AppendAdds
    <3>. QED
      BY <1>1, <3>1, <3>2
  <2>2. CASE ~(h.receiving /\ h.request_i <= h.last)
    BY <2>2, SameAdds DEF Queued
  <2>. QED
    BY <2>1, <2>2
<1>3. Adds(RetriedQueue(h, q), q, h) /\ RetriedQueue(h, q) \in Seq(Up)
  BY <1>2, SameAdds, QueuesTyped DEF RetriedQueue
<1>4. Adds(Queued(h, RetriedQueue(h, q)), q, h)
  <2>1. Adds(Queued(h, RetriedQueue(h, q)), RetriedQueue(h, q), h)
    BY <1>2, <1>3
  <2>. QED
    BY <1>3, <2>1 DEF Adds
<1>. QED
  BY <1>2, <1>3, <1>4 DEF NextQueue

\* What a queue loses at its head leaves elements of it.
LEMMA TailElements ==
    ASSUME NEW S, NEW q \in Seq(S), q # << >>
    PROVE  /\ \A i \in 1 .. Len(Tail(q)) : i + 1 \in 1 .. Len(q) /\ Tail(q)[i] = q[i + 1]
           /\ 1 \in 1 .. Len(q) /\ Head(q) = q[1]
<1>1. Len(q) \in Nat /\ Len(Tail(q)) = Len(q) - 1 /\ Len(q) # 0
  BY LenProperties, HeadTailProperties, EmptySeq
<1>. QED
  BY <1>1, HeadTailProperties

\* A step that takes a message of the station off, or none, sends no acceptance and begins nothing.
LEMMA QuietStep ==
    ASSUME NEW s, NEW h, NEW d \in Seq(Down), NEW u \in Seq(Up), NEW b, Follows(s, h, d, u, b),
           NEW h2, h2.receiving => h.receiving, h2.last = h.last,
           NEW d2, d2 = d \/ (d # << >> /\ d2 = Tail(d)),
           NEW u2, Adds(u2, u, h)
    PROVE  Follows(s, h2, d2, u2, b)
<1>. SUFFICES ASSUME s.patient PROVE NotBegun(s, h2, d2, u2) \/ Underway(s, h2, d2, u2, b)
  BY DEF Follows
<1>1. CASE NotBegun(s, h, d, u)
  <2>1. \A i \in 1 .. Len(u2) : u2[i] = Ack(FALSE)
    BY <1>1 DEF NotBegun, Adds
  <2>2. d2 = << >> \/ d2 = <<[m |-> "count", n |-> Length[s.plan]]>>
    <3>1. Tail(<<[m |-> "count", n |-> Length[s.plan]]>>) = << >>
      OBVIOUS
    <3>. QED
      BY <1>1, <3>1 DEF NotBegun
  <2>. QED
    BY <1>1, <2>1, <2>2 DEF NotBegun
<1>2. CASE Underway(s, h, d, u, b)
  <2>1. \A i \in 1 .. Len(d2) : d2[i].m = "item" /\ d2[i].seq + 1 <= Length[s.plan]
                                /\ d2[i].item = <<s.plan, d2[i].seq + 1>>
    <3>1. CASE d2 = d
      BY <1>2, <3>1 DEF Underway
    <3>2. CASE d # << >> /\ d2 = Tail(d)
      <4>1. \A i \in 1 .. Len(d2) : i + 1 \in 1 .. Len(d) /\ d2[i] = d[i + 1]
        BY <3>2, TailElements
      <4>. QED
        BY <1>2, <4>1 DEF Underway
    <3>. QED
      BY <3>1, <3>2
  <2>2. (\E i \in 1 .. Len(u2) : u2[i] = Ack(TRUE)) => \E i \in 1 .. Len(u) : u[i] = Ack(TRUE)
    BY AcksDiffer DEF Adds
  <2>. QED
    BY <1>2, <2>1, <2>2 DEF Underway
<1>. QED
  BY <1>1, <1>2 DEF Follows

\* An upload that is forgotten is followed as well.
LEMMA FollowForgotten ==
    ASSUME NEW s, NEW h, NEW d, NEW u, NEW b, Follows(s, h, d, u, b)
    PROVE  Follows(s, h, d, u, Forgotten)
<1>1. Forgotten.how = "none"
  BY DEF Forgotten, Fresh
<1>2. ASSUME Underway(s, h, d, u, b) PROVE Underway(s, h, d, u, Forgotten)
  BY <1>1, <1>2 DEF Underway
<1>. QED
  BY <1>2 DEF Follows

LEMMA TailAdds ==
    ASSUME NEW q \in Seq(Up), q # << >>, NEW h
    PROVE  Adds(Tail(q), q, h)
BY TailElements DEF Adds

\* A step of one link leaves the others what they have, or forgets their uploads.
LEMMA OthersFollow ==
    ASSUME StationInv, NEW l \in Links,
           \A k \in Links \ {l} : /\ station'[k] = station[k] /\ link'[k] = link[k]
                                  /\ down'[k] = down[k] /\ up'[k] = up[k]
                                  /\ begun'[k] \in {begun[k], Forgotten},
           Follows(station'[l], link'[l], down'[l], up'[l], begun'[l])
    PROVE  StationInv'
<1> SUFFICES ASSUME NEW k \in Links \ {l}
             PROVE  Follows(station'[k], link'[k], down'[k], up'[k], begun'[k])
  BY DEF StationInv
<1>1. Follows(station[k], link[k], down[k], up[k], begun[k])
  BY DEF StationInv
<1>2. Follows(station[k], link[k], down[k], up[k], Forgotten)
  BY <1>1, FollowForgotten
<1>. QED
  BY <1>1, <1>2

\* The next message from a patient station is its announcement or an item of its plan.
LEMMA FromPatient ==
    ASSUME NEW s, NEW h, NEW d \in Seq(Down), NEW u, NEW b, Follows(s, h, d, u, b),
           s.patient, d # << >>
    PROVE  \/ /\ NotBegun(s, h, d, u) /\ Tail(d) = << >>
              /\ Head(d).m = "count" /\ Head(d).n = Length[s.plan]
           \/ /\ Underway(s, h, d, u, b)
              /\ Head(d).m = "item" /\ Head(d).item = <<s.plan, Head(d).seq + 1>>
              /\ Head(d).seq + 1 <= Length[s.plan]
<1>1. CASE NotBegun(s, h, d, u)
  <2>1. d = <<[m |-> "count", n |-> Length[s.plan]]>>
    BY <1>1 DEF NotBegun
  <2>. QED
    BY <1>1, <2>1
<1>2. CASE Underway(s, h, d, u, b)
  <2>1. 1 \in 1 .. Len(d) /\ Head(d) = d[1]
    BY TailElements
  <2>. QED
    BY <1>2, <2>1 DEF Underway
<1>. QED
  BY <1>1, <1>2 DEF Follows

LEMMA ReceiveTakes ==
    ASSUME TypeOK, NEW l \in Links, NEW m, Receive(l, m)
    PROVE  /\ down[l] \in Seq(Down) /\ down[l] # << >> /\ Head(down[l]).m = m
           /\ down'[l] = Tail(down[l])
           /\ \A k \in Links \ {l} : down'[k] = down[k]
           /\ station' = station
BY DEF TypeOK, Receive

-----------------------------------------------------------------------------
LEMMA CountFollows ==
    ASSUME IInv, StationInv, NEW l \in Links, handle_mission_count(l)
    PROVE  StationInv'
<1>. DEFINE d == down[l]
            n == Head(d).n
<1>1. /\ d \in Seq(Down) /\ d # << >> /\ Head(d).m = "count" /\ down'[l] = Tail(d)
      /\ \A k \in Links \ {l} : down'[k] = down[k]
      /\ station' = station /\ up[l] \in Seq(Up)
  BY ReceiveTakes DEF handle_mission_count, IInv, TypeOK
<1>2. Follows(station[l], link[l], d, up[l], begun[l])
  BY DEF StationInv
<1>3. CASE TooMany(n)
  <2>1. /\ up' = [up EXCEPT ![l] = Acked(up[l], FALSE)]
        /\ link' = link /\ begun' = begun
    BY <1>3 DEF handle_mission_count, Reply
  <2>2. up'[l] = Acked(up[l], FALSE) /\ \A k \in Links \ {l} : up'[k] = up[k]
    BY <2>1 DEF IInv, TypeOK
  <2>3. Adds(up'[l], up[l], link[l])
    BY <1>1, <2>2, RefusalAdds
  <2>4. up'[l] \in Seq(Up)
    BY <1>1, <2>2, AckTyped
  <2>5. Follows(station[l], link[l], down'[l], up'[l], begun[l])
    BY <1>1, <1>2, <2>3, QuietStep
  <2>. QED
    BY <1>1, <2>1, <2>2, <2>5, OthersFollow
<1>4. CASE ~TooMany(n)
  <2>1. /\ link' = [link EXCEPT ![l] = [link[l] EXCEPT !.receiving = TRUE, !.request_i = 0,
                                          !.last = n, !.due = TRUE, !.silence = 0]]
        /\ begun' = [k \in Links |-> IF k = l THEN Fresh("count", 0)
                                     ELSE IF Len(mission) > n THEN Forgotten ELSE begun[k]]
        /\ up' = up
    BY <1>4 DEF handle_mission_count, StartReceiving, SetLink, Begins
  <2>2. link'[l].last = n /\ begun'[l] = Fresh("count", 0)
    <3>1. link \in [Links -> Handshake]
      BY DEF IInv, TypeOK
    <3>. HIDE DEF n
    <3>. QED
      BY <2>1, <3>1 DEF Handshake
  <2>3. ASSUME station[l].patient
        PROVE  station[l].plan # NoPlan /\ Underway(station[l], link'[l], Tail(d), up[l], begun'[l])
    <3>1. NotBegun(station[l], link[l], d, up[l]) /\ Tail(d) = << >> /\ n = Length[station[l].plan]
      BY <1>1, <1>2, <2>3, FromPatient
    <3>2. /\ station[l].phase = "uploading"
          /\ \A i \in 1 .. Len(up[l]) : up[l][i] = Ack(FALSE)
      BY <3>1 DEF NotBegun
    <3>3. \A i \in 1 .. Len(<< >>) : FALSE
      OBVIOUS
    <3>4. /\ Fresh("count", 0).taken = << >> /\ ~Fresh("count", 0).accepted
          /\ Fresh("count", 0).how = "count"
      BY DEF Fresh
    <3>5. ~(\E i \in 1 .. Len(up[l]) : up[l][i] = Ack(TRUE))
      BY <3>2, AcksDiffer
    <3>6. Underway(station[l], link'[l], << >>, up[l], Fresh("count", 0))
      BY <2>2, <3>1, <3>2, <3>3, <3>4, <3>5 DEF Underway
    <3>7. station[l].plan # NoPlan
      BY <1>2, <2>3 DEF Follows
    <3>. QED
      BY <2>2, <3>1, <3>6, <3>7
  <2>4. Follows(station[l], link'[l], Tail(d), up[l], begun'[l])
    BY <2>3 DEF Follows
  <2>5. \A k \in Links \ {l} : link'[k] = link[k] /\ begun'[k] \in {begun[k], Forgotten}
    BY <2>1 DEF IInv, TypeOK
  <2>. QED
    BY <1>1, <2>1, <2>4, <2>5, OthersFollow
<1>. QED
  BY <1>3, <1>4

\* A patient station sends nothing else.
LEMMA OtherMessageFollows ==
    ASSUME IInv, StationInv, NEW l \in Links,
           \/ handle_mission_write_partial_list(l)
           \/ \E running \in BOOLEAN : handle_mission_clear_all(l, running)
           \/ handle_mission_request_list(l)
           \/ handle_guided_request(l)
    PROVE  StationInv'
<1>1. PICK m \in {"partial", "clear", "list", "guided"} : Receive(l, m)
  BY DEF handle_mission_write_partial_list, handle_mission_clear_all,
         handle_mission_request_list, handle_guided_request
<1>2. /\ down[l] \in Seq(Down) /\ down[l] # << >> /\ Head(down[l]).m = m
      /\ \A k \in Links \ {l} : down'[k] = down[k]
      /\ station' = station
  BY <1>1, ReceiveTakes DEF IInv
<1>3. ~station[l].patient
  BY <1>2, FromPatient DEF StationInv
<1>4. /\ \A k \in Links \ {l} : link'[k] = link[k] /\ up'[k] = up[k]
                                 /\ begun'[k] \in {begun[k], Forgotten}
  <2>1. CASE handle_mission_write_partial_list(l)
    BY <2>1 DEF handle_mission_write_partial_list, StartReceiving, SetLink, Begins, IInv, TypeOK
  <2>2. CASE \E running \in BOOLEAN : handle_mission_clear_all(l, running)
    BY <2>2 DEF handle_mission_clear_all, Reply, IInv, TypeOK
  <2>3. CASE handle_mission_request_list(l)
    BY <2>3 DEF handle_mission_request_list, SetLink, IInv, TypeOK
  <2>4. CASE handle_guided_request(l)
    BY <2>4 DEF handle_guided_request, Reply, IInv, TypeOK
  <2>. QED
    BY <2>1, <2>2, <2>3, <2>4
<1>5. Follows(station'[l], link'[l], down'[l], up'[l], begun'[l])
  BY <1>2, <1>3 DEF Follows
<1>. QED
  BY <1>2, <1>4, <1>5, OthersFollow

LEMMA RefuseFollows ==
    ASSUME IInv, StationInv, NEW l \in Links, RefuseItem(l)
    PROVE  StationInv'
<1>1. /\ down[l] \in Seq(Down) /\ down[l] # << >> /\ down'[l] = Tail(down[l])
      /\ \A k \in Links \ {l} : down'[k] = down[k]
      /\ station' = station /\ up[l] \in Seq(Up)
  BY ReceiveTakes DEF RefuseItem, IInv, TypeOK
<1>2. /\ up'[l] = Acked(up[l], FALSE) /\ \A k \in Links \ {l} : up'[k] = up[k]
      /\ link' = link /\ begun' = begun
  BY DEF RefuseItem, Reply, IInv, TypeOK
<1>3. Adds(up'[l], up[l], link[l])
  BY <1>1, <1>2, RefusalAdds
<1>4. Follows(station[l], link[l], down'[l], up'[l], begun[l])
  BY <1>1, <1>3, QuietStep DEF StationInv
<1>. QED
  BY <1>1, <1>2, <1>4, OthersFollow

\* The item that is taken is the next one of the station's plan.
LEMMA TakeFollows ==
    ASSUME IInv, StationInv, NEW l \in Links, TakeItem(l)
    PROVE  StationInv'
<1>. DEFINE h    == link[l]
            s    == station[l]
            b    == begun[l]
            item == Head(down[l]).item
            i    == h.request_i + 1
            c    == [b EXCEPT !.taken = Append(b.taken, item), !.accepted = IsLast(h)]
            next == [h EXCEPT !.request_i = i, !.due = FALSE, !.silence = 0]
<1>1. /\ down[l] \in Seq(Down) /\ down[l] # << >> /\ Head(down[l]).m = "item"
      /\ down'[l] = Tail(down[l])
      /\ \A k \in Links \ {l} : down'[k] = down[k]
      /\ station' = station
  BY ReceiveTakes DEF TakeItem, IInv
<1>2. /\ h \in Handshake /\ b \in Begun /\ up[l] \in Seq(Up) /\ h.request_i \in Nat
      /\ h.receiving /\ Head(down[l]).seq = h.request_i
      /\ item \in Items
  <2>1. /\ h \in Handshake /\ b \in Begun /\ up[l] \in Seq(Up)
    BY DEF IInv, TypeOK
  <2>2. h.receiving /\ Head(down[l]).seq = h.request_i
    BY DEF TakeItem, Takes
  <2>3. h.request_i \in Nat
    BY <2>1 DEF Handshake
  <2>4. item \in Items
    <3>1. Head(down[l]) \in Down
      BY <1>1, TailElements
    <3>. QED
      BY <1>1, <3>1 DEF Down
  <2>. QED
    BY <2>1, <2>2, <2>3, <2>4
<1>3. begun' = [k \in Links |-> IF k = l THEN IF b.how = "none" THEN Forgotten ELSE c
                               ELSE Forgotten]
  BY DEF TakeItem, Begins
<1>4. /\ next \in Handshake /\ next.receiving /\ next.last = h.last
  <2>1. i \in Nat
    BY <1>2
  <2>. HIDE DEF i
  <2>. QED
    BY <1>2, <2>1 DEF Handshake
<1>5. /\ link'[l].last = h.last
      /\ \A k \in Links \ {l} : link'[k] = link[k] /\ up'[k] = up[k]
      /\ IsLast(h) \/ Adds(up'[l], up[l], next)
  <2>. HIDE DEF next
  <2>1. CASE IsLast(h)
    <3>1. /\ link' = [link EXCEPT ![l] = [next EXCEPT !.receiving = FALSE]]
          /\ up' = [up EXCEPT ![l] = Acked(up[l], TRUE)]
      BY <2>1 DEF TakeItem, SetLink, Reply, next
    <3>. QED
      BY <2>1, <3>1, <1>4 DEF IInv, TypeOK, Handshake
  <2>2. CASE ~IsLast(h) /\ HasRoom(up[l])
    <3>1. /\ link' = [link EXCEPT ![l] = next]
          /\ up' = [up EXCEPT ![l] = Queued(next, up[l])]
      BY <2>2 DEF TakeItem, SetLink, next
    <3>. QED
      BY <1>2, <1>4, <3>1, RequestsAdd DEF IInv, TypeOK
  <2>3. CASE ~IsLast(h) /\ ~HasRoom(up[l])
    <3>. DEFINE later == NextDeferred(next, up[l])
    <3>1. /\ link' = [link EXCEPT ![l] = [next EXCEPT !.deferred = later]]
          /\ up' = [up EXCEPT ![l] = NextQueue(next, up[l])]
      BY <2>3 DEF TakeItem, SetLink, next
    <3>. HIDE DEF later
    <3>2. link'[l].last = next.last /\ \A k \in Links \ {l} : link'[k] = link[k]
      BY <1>4, <3>1 DEF IInv, TypeOK, Handshake
    <3>. QED
      BY <1>2, <1>4, <3>1, <3>2, RequestsAdd DEF IInv, TypeOK
  <2>. QED
    BY <2>1, <2>2, <2>3
<1>. HIDE DEF next
<1>6. /\ c \in Begun /\ c.how = b.how /\ c.taken = Append(b.taken, item)
      /\ c.accepted <=> IsLast(h)
  <2>1. Append(b.taken, item) \in Seq(Items) /\ IsLast(h) \in BOOLEAN
    BY <1>2, AppendProperties DEF Begun, IsLast
  <2>. QED
    BY <1>2, <2>1 DEF Begun
<1>7. ASSUME s.patient
      PROVE  s.plan # NoPlan /\ Underway(s, link'[l], Tail(down[l]), up'[l], begun'[l])
  <2>1. /\ s.plan # NoPlan /\ Underway(s, h, down[l], up[l], b)
        /\ item = <<s.plan, h.request_i + 1>> /\ h.request_i + 1 <= Length[s.plan]
    <3>1. Follows(s, h, down[l], up[l], b)
      BY DEF StationInv
    <3>2. s.plan # NoPlan
      BY <1>7, <3>1 DEF Follows
    <3>. HIDE DEF h, s, b
    <3>3. Underway(s, h, down[l], up[l], b) /\ Head(down[l]).item = <<s.plan, Head(down[l]).seq + 1>>
          /\ Head(down[l]).seq + 1 <= Length[s.plan]
      BY <1>1, <1>7, <3>1, FromPatient
    <3>. QED
      BY <1>2, <3>2, <3>3
  <2>2. \A j \in 1 .. Len(Tail(down[l])) :
           /\ Tail(down[l])[j].m = "item" /\ Tail(down[l])[j].seq + 1 <= Length[s.plan]
           /\ Tail(down[l])[j].item = <<s.plan, Tail(down[l])[j].seq + 1>>
    BY <1>1, <2>1, TailElements DEF Underway
  <2>3. CASE b.how = "none"
    <3>1. begun'[l] = Forgotten /\ Forgotten.how = "none"
      BY <1>3, <2>3 DEF Forgotten, Fresh
    <3>. QED
      BY <2>1, <2>2, <3>1 DEF Underway
  <2>4. CASE b.how # "none"
    <3>1. b.how = "count" /\ begun'[l] = c
      BY <1>3, <2>1, <2>4 DEF Underway
    <3>2. b.first = 0 /\ h.request_i = Len(b.taken) /\ ~b.accepted
      <4>1. Agrees(b, h, mission)
        BY DEF IInv, UploadInv
      <4>2. b.first = 0 /\ h.request_i = b.first + Len(b.taken) /\ ~b.accepted
        BY <1>2, <3>1, <4>1 DEF Agrees
      <4>3. Len(b.taken) \in Nat
        BY <1>2 DEF Begun
      <4>. QED
        BY <4>2, <4>3
    <3>3. /\ Len(c.taken) = Len(b.taken) + 1 /\ Len(b.taken) \in Nat
          /\ c.taken[Len(b.taken) + 1] = item
          /\ \A k \in 1 .. Len(b.taken) : c.taken[k] = b.taken[k]
      <4>1. b.taken \in Seq(Items) /\ item \in Items
        BY <1>2 DEF Begun
      <4>. QED
        BY <1>6, <4>1, AppendProperties
    <3>4. \A k \in 1 .. Len(c.taken) : c.taken[k] = <<s.plan, k>>
      <4>. SUFFICES ASSUME NEW k \in 1 .. Len(c.taken) PROVE c.taken[k] = <<s.plan, k>>
        OBVIOUS
      <4>1. CASE k = Len(b.taken) + 1
        BY <2>1, <3>2, <3>3, <4>1
      <4>2. CASE k # Len(b.taken) + 1
        <5>1. k \in 1 .. Len(b.taken)
          BY <3>3, <4>2
        <5>. QED
          BY <2>1, <3>1, <3>3, <5>1 DEF Underway
      <4>. QED
        BY <4>1, <4>2
    <3>5. s.phase = "uploading" /\ \A j \in 1 .. Len(up[l]) : up[l][j] # Ack(TRUE)
      BY <2>1, <3>1, <3>2 DEF Underway
    <3>6. (\E j \in 1 .. Len(up'[l]) : up'[l][j] = Ack(TRUE)) => IsLast(h)
      BY <1>5, <3>5, AcksDiffer DEF Adds
    <3>7. link'[l].last = Length[s.plan]
      BY <1>5, <2>1, <3>1 DEF Underway
    <3>8. Length[s.plan] > 0 /\ c.how = "count" /\ (c.accepted <=> IsLast(h))
      <4>1. Length[s.plan] \in Nat
        <5>1. s.plan \in Plans[l]
          BY <2>1 DEF IInv, TypeOK
        <5>. QED
          BY <5>1, UploadAssumption
      <4>. QED
        BY <1>2, <1>6, <2>1, <3>1, <4>1
    <3>. HIDE DEF c, h, s, b
    <3>9. Underway(s, link'[l], Tail(down[l]), up'[l], c)
      BY <2>2, <3>4, <3>5, <3>6, <3>7, <3>8 DEF Underway
    <3>. QED
      BY <2>1, <3>1, <3>9
  <2>. QED
    BY <2>3, <2>4
<1>8. Follows(station'[l], link'[l], down'[l], up'[l], begun'[l])
  BY <1>1, <1>7 DEF Follows
<1>9. \A k \in Links \ {l} : begun'[k] \in {begun[k], Forgotten}
  BY <1>3
<1>. QED
  BY <1>1, <1>5, <1>8, <1>9, OthersFollow

\* Time passes, messages are lost, and requests are repeated.
LEMMA TimeFollows ==
    ASSUME IInv, StationInv, NEW l \in Links,
           Update(l) \/ RetryDeferred(l) \/ Tick(l) \/ Lose(l) \/ Settle(l)
    PROVE  StationInv'
<1>1. /\ link[l] \in Handshake /\ up[l] \in Seq(Up) /\ down[l] \in Seq(Down)
      /\ UNCHANGED <<station, begun>>
  BY DEF IInv, TypeOK, Update, RetryDeferred, Tick, Lose, Settle
<1>2. /\ down'[l] = down[l] \/ (down[l] # << >> /\ down'[l] = Tail(down[l]))
      /\ \A k \in Links \ {l} : down'[k] = down[k]
  BY DEF IInv, TypeOK, Update, RetryDeferred, Tick, Lose, Settle
<1>3. \E h \in Handshake : /\ h.last = link[l].last /\ (h.receiving => link[l].receiving)
                           /\ link' = [link EXCEPT ![l] = h]
  <2>1. CASE Update(l)
    <3>. DEFINE asks == link[l].due /\ link[l].request_i <= link[l].last
                d    == NextDeferred(link[l], up[l])
                sent == IF asks THEN [link[l] EXCEPT !.due = FALSE, !.deferred = d] ELSE link[l]
                h    == IF GivesUp(link[l])
                        THEN [sent EXCEPT !.receiving = FALSE, !.due = FALSE, !.silence = 0]
                        ELSE sent
    <3>1. link' = [link EXCEPT ![l] = h]
      BY <2>1 DEF Update, SetLink
    <3>2. d \in BOOLEAN
      BY <1>1, QueuesTyped
    <3>. HIDE DEF d, asks
    <3>3. /\ sent \in Handshake /\ sent.last = link[l].last
          /\ sent.receiving = link[l].receiving
      BY <1>1, <3>2 DEF Handshake
    <3>. HIDE DEF sent
    <3>4. h \in Handshake /\ h.last = link[l].last /\ (h.receiving => link[l].receiving)
      BY <3>3 DEF Handshake
    <3>. QED
      BY <3>1, <3>4
  <2>2. CASE RetryDeferred(l)
    <3>. DEFINE d == StillDeferred(link[l], up[l])
                h == [link[l] EXCEPT !.deferred = d]
    <3>1. link' = [link EXCEPT ![l] = h]
      BY <2>2 DEF RetryDeferred, SetLink
    <3>2. d \in BOOLEAN
      BY <1>1, QueuesTyped
    <3>. HIDE DEF d
    <3>3. h \in Handshake /\ h.last = link[l].last /\ (h.receiving => link[l].receiving)
      BY <1>1, <3>2 DEF Handshake
    <3>. QED
      BY <3>1, <3>3
  <2>3. CASE Tick(l)
    <3>. DEFINE n == link[l].silence + 1
                h == [link[l] EXCEPT !.due = TRUE, !.silence = n]
    <3>1. link' = [link EXCEPT ![l] = h]
      BY <2>3 DEF Tick, SetLink
    <3>2. n \in Nat
      BY <1>1 DEF Handshake
    <3>. HIDE DEF n
    <3>3. h \in Handshake /\ h.last = link[l].last /\ (h.receiving => link[l].receiving)
      BY <1>1, <3>2 DEF Handshake
    <3>. QED
      BY <3>1, <3>3
  <2>4. CASE Lose(l) \/ Settle(l)
    <3>1. link' = [link EXCEPT ![l] = link[l]]
      BY <2>4 DEF Lose, Settle, IInv, TypeOK
    <3>. QED
      BY <1>1, <3>1
  <2>. QED
    BY <2>1, <2>2, <2>3, <2>4
<1>4. /\ link'[l].last = link[l].last /\ (link'[l].receiving => link[l].receiving)
      /\ \A k \in Links \ {l} : link'[k] = link[k]
  BY <1>3 DEF IInv, TypeOK
<1>5. /\ Adds(up'[l], up[l], link[l])
      /\ \A k \in Links \ {l} : up'[k] = up[k]
  <2>1. \A q : up' = [up EXCEPT ![l] = q] => up'[l] = q /\ \A k \in Links \ {l} : up'[k] = up[k]
    BY DEF IInv, TypeOK
  <2>2. CASE Update(l)
    <3>1. CASE link[l].due /\ link[l].request_i <= link[l].last
      <4>1. up' = [up EXCEPT ![l] = NextQueue(link[l], up[l])]
        BY <2>2, <3>1 DEF Update
      <4>. QED
        BY <1>1, <2>1, <4>1, RequestsAdd
    <3>2. CASE ~(link[l].due /\ link[l].request_i <= link[l].last)
      <4>1. up' = [up EXCEPT ![l] = up[l]]
        BY <2>2, <3>2 DEF Update
      <4>. QED
        BY <2>1, <4>1, SameAdds
    <3>. QED
      BY <3>1, <3>2
  <2>3. CASE RetryDeferred(l)
    <3>1. up' = [up EXCEPT ![l] = RetriedQueue(link[l], up[l])]
      BY <2>3 DEF RetryDeferred
    <3>. QED
      BY <1>1, <2>1, <3>1, RequestsAdd
  <2>4. CASE Tick(l) \/ Settle(l)
    <3>1. up' = up
      BY <2>4 DEF Tick, Settle
    <3>. QED
      BY <3>1, SameAdds
  <2>5. CASE Lose(l)
    <3>1. CASE up' = up
      BY <3>1, SameAdds
    <3>2. CASE up[l] # << >> /\ up' = [up EXCEPT ![l] = Tail(up[l])]
      BY <1>1, <2>1, <3>2, TailAdds
    <3>. QED
      BY <2>5, <3>1, <3>2 DEF Lose
  <2>. QED
    BY <2>2, <2>3, <2>4, <2>5
<1>6. Follows(station[l], link'[l], down'[l], up'[l], begun[l])
  <2>1. Follows(station[l], link[l], down[l], up[l], begun[l])
    BY DEF StationInv
  <2>. QED
    BY <1>1, <1>2, <1>4, <1>5, <2>1, QuietStep
<1>. QED
  BY <1>1, <1>2, <1>4, <1>5, <1>6, OthersFollow

\* What a station does itself
LEMMA StationFollows ==
    ASSUME IInv, StationInv, NEW l \in Links,
           \/ \E p \in Plans[l] : Begin(l, p)
           \/ \E p \in Plans[l] : \E first, last \in Partial[p] : BeginPartial(l, p, first, last)
           \/ \E m \in Sends[l] : SendOther(l, m)
           \/ Answer(l) \/ GotAck(l)
    PROVE  StationInv'
<1>. DEFINE s == station[l]
            h == link[l]
            b == begun[l]
<1>1. /\ up[l] \in Seq(Up) /\ down[l] \in Seq(Down)
      /\ s \in [phase : {"idle", "uploading", "done"}, plan : AllPlans \cup {NoPlan},
                patient : BOOLEAN]
      /\ Follows(s, h, down[l], up[l], b)
  BY DEF IInv, TypeOK, StationInv
<1>2. /\ UNCHANGED <<link, begun>>
      /\ \A k \in Links \ {l} : down'[k] = down[k] /\ up'[k] = up[k] /\ station'[k] = station[k]
  BY DEF Begin, BeginPartial, SendOther, Answer, GotAck, Post, IInv, TypeOK
<1>3. ASSUME NEW p \in Plans[l], Begin(l, p)
      PROVE  Follows(station'[l], h, down'[l], up'[l], b)
  <2>1. /\ station'[l] = [phase |-> "uploading", plan |-> p, patient |-> Quiet(l)]
        /\ down'[l] = Append(down[l], [m |-> "count", n |-> Length[p]])
        /\ up'[l] = up[l]
    BY <1>3 DEF Begin, Post, IInv, TypeOK
  <2>2. p # NoPlan
    BY UploadAssumption
  <2>3. CASE Quiet(l)
    <3>1. /\ down'[l] = <<[m |-> "count", n |-> Length[p]]>>
          /\ up'[l] = << >> /\ ~h.receiving
      BY <2>1, <2>3 DEF Quiet
    <3>2. \A i \in 1 .. Len(<< >>) : FALSE
      OBVIOUS
    <3>3. station'[l].phase = "uploading" /\ station'[l].plan = p
      BY <2>1
    <3>4. NotBegun(station'[l], h, <<[m |-> "count", n |-> Length[p]]>>, << >>)
      <4>. DEFINE d == <<[m |-> "count", n |-> Length[p]]>>
      <4>1. d = <<[m |-> "count", n |-> Length[station'[l].plan]]>>
        BY <3>3
      <4>. HIDE DEF d, h
      <4>. QED
        BY <3>1, <3>2, <3>3, <4>1 DEF NotBegun
    <3>5. NotBegun(station'[l], h, down'[l], up'[l])
      BY <3>1, <3>4
    <3>6. station'[l].plan # NoPlan
      BY <2>2, <3>3
    <3>. QED
      BY <3>5, <3>6 DEF Follows
  <2>4. CASE ~Quiet(l)
    BY <2>1, <2>4 DEF Follows
  <2>. QED
    BY <2>3, <2>4
<1>4. ASSUME \/ \E p \in Plans[l] : \E first, last \in Partial[p] : BeginPartial(l, p, first, last)
             \/ \E m \in Sends[l] : SendOther(l, m)
      PROVE  Follows(station'[l], h, down'[l], up'[l], b)
  <2>1. ~station'[l].patient
    <3>1. station \in [Links -> [phase : {"idle", "uploading", "done"},
                                plan : AllPlans \cup {NoPlan}, patient : BOOLEAN]]
      BY DEF IInv, TypeOK
    <3>2. CASE \E p \in Plans[l] : \E first, last \in Partial[p] : BeginPartial(l, p, first, last)
      BY <3>1, <3>2 DEF BeginPartial
    <3>3. CASE \E m \in Sends[l] : SendOther(l, m)
      BY <3>1, <3>3 DEF SendOther
    <3>. QED
      BY <1>4, <3>2, <3>3
  <2>. QED
    BY <2>1 DEF Follows
<1>5. ASSUME Answer(l)
      PROVE  Follows(station'[l], h, down'[l], up'[l], b)
  <2>. DEFINE k   == Head(up[l]).seq + 1
              msg == [m |-> "item", seq |-> k - 1, item |-> <<s.plan, k>>]
  <2>1. /\ up[l] # << >> /\ Head(up[l]).m = "request" /\ up'[l] = Tail(up[l])
        /\ station' = station
    BY <1>5 DEF Answer, IInv, TypeOK
  <2>2. 1 \in 1 .. Len(up[l]) /\ Head(up[l]) = up[l][1] /\ Head(up[l]).seq \in Nat
    <3>1. 1 \in 1 .. Len(up[l]) /\ Head(up[l]) = up[l][1] /\ Head(up[l]) \in Up
      BY <1>1, <2>1, TailElements
    <3>. QED
      BY <2>1, <3>1 DEF Up
  <2>3. Adds(Tail(up[l]), up[l], h)
    BY <1>1, <2>1, TailAdds
  <2>4. Follows(s, h, down[l], Tail(up[l]), b)
    BY <1>1, <2>3, QuietStep
  <2>5. CASE down' = down
    BY <2>1, <2>4, <2>5
  <2>6. CASE s.plan # NoPlan /\ k <= Length[s.plan] /\ Post(l, msg)
    <3>1. down'[l] = Append(down[l], msg)
      BY <2>6 DEF Post, IInv, TypeOK
    <3>. SUFFICES ASSUME s.patient PROVE Underway(s, h, down'[l], Tail(up[l]), b)
      BY <2>1, <2>6 DEF Follows
    <3>2. ~NotBegun(s, h, down[l], up[l])
      BY <2>1, <2>2 DEF NotBegun, Ack
    <3>3. ~NotBegun(s, h, down[l], up[l]) => Underway(s, h, down[l], Tail(up[l]), b)
      <4>1. Underway(s, h, down[l], up[l], b)
        BY <1>1, <3>2 DEF Follows
      <4>2. (\E i \in 1 .. Len(Tail(up[l])) : Tail(up[l])[i] = Ack(TRUE))
               => \E i \in 1 .. Len(up[l]) : up[l][i] = Ack(TRUE)
        BY <1>1, <2>1, TailElements
      <4>. HIDE DEF s, h, b
      <4>. QED
        BY <4>1, <4>2 DEF Underway
    <3>4. msg.m = "item" /\ msg.seq + 1 = k /\ msg.item = <<s.plan, k>>
      BY <2>2
    <3>5. \A i \in 1 .. Len(down'[l]) :
             /\ down'[l][i].m = "item" /\ down'[l][i].seq + 1 <= Length[s.plan]
             /\ down'[l][i].item = <<s.plan, down'[l][i].seq + 1>>
      <4>. SUFFICES ASSUME NEW i \in 1 .. Len(down'[l])
                    PROVE  down'[l][i] = msg \/ \E j \in 1 .. Len(down[l]) : down'[l][i] = down[l][j]
        BY <2>6, <3>2, <3>3, <3>4 DEF Underway
      <4>. HIDE DEF msg
      <4>1. Len(down[l]) \in Nat /\ Len(down'[l]) = Len(down[l]) + 1
        BY <1>1, <3>1, AppendProperties
      <4>2. CASE i = Len(down[l]) + 1
        BY <1>1, <3>1, <4>2, AppendProperties
      <4>3. CASE i # Len(down[l]) + 1
        <5>1. i \in 1 .. Len(down[l])
          BY <4>1, <4>3
        <5>. QED
          BY <1>1, <3>1, <5>1, AppendProperties
      <4>. QED
        BY <4>2, <4>3
    <3>. QED
      BY <3>2, <3>3, <3>5 DEF Underway
  <2>. QED
    BY <1>5, <2>5, <2>6 DEF Answer
<1>6. ASSUME GotAck(l)
      PROVE  Follows(station'[l], h, down'[l], up'[l], b)
  <2>1. /\ up[l] # << >> /\ Head(up[l]).m = "ack" /\ up'[l] = Tail(up[l]) /\ down' = down
    BY <1>6 DEF GotAck, IInv, TypeOK
  <2>2. 1 \in 1 .. Len(up[l]) /\ Head(up[l]) = up[l][1] /\ Head(up[l]) \in Up
    BY <1>1, <2>1, TailElements
  <2>3. Adds(Tail(up[l]), up[l], h)
    BY <1>1, <2>1, TailAdds
  <2>4. Follows(s, h, down[l], Tail(up[l]), b)
    BY <1>1, <2>3, QuietStep
  <2>5. CASE station' = station
    BY <2>1, <2>4, <2>5
  <2>6. CASE Head(up[l]).accepted /\ station' = [station EXCEPT ![l].phase = "done"]
    <3>1. up[l][1] = Ack(TRUE)
      BY <2>1, <2>2, <2>6 DEF Up, Ack
    <3>2. station'[l].phase = "done" /\ station'[l].plan = s.plan /\ station'[l].patient = s.patient
      BY <1>1, <2>6 DEF IInv, TypeOK
    <3>3. ASSUME s.patient PROVE b.how = "count" => b.accepted
      <4>1. ~NotBegun(s, h, down[l], up[l])
        BY <2>2, <3>1, AcksDiffer DEF NotBegun
      <4>2. Underway(s, h, down[l], up[l], b)
        BY <1>1, <3>3, <4>1 DEF Follows
      <4>. QED
        BY <2>2, <3>1, <4>2 DEF Underway
    <3>4. ASSUME s.patient PROVE Underway(s, h, down[l], Tail(up[l]), b) /\ s.plan # NoPlan
      <4>1. ~NotBegun(s, h, down[l], up[l])
        BY <2>2, <3>1, AcksDiffer DEF NotBegun
      <4>2. Underway(s, h, down[l], up[l], b) /\ s.plan # NoPlan
        BY <1>1, <3>4, <4>1 DEF Follows
      <4>. HIDE DEF s, h, b
      <4>. QED
        BY <3>3, <3>4, <4>2 DEF Underway
    <3>5. ASSUME s.patient PROVE Underway(station'[l], h, down[l], Tail(up[l]), b)
      <4>. HIDE DEF s, h, b
      <4>. QED
        BY <3>2, <3>3, <3>4, <3>5 DEF Underway
    <3>. QED
      BY <2>1, <3>2, <3>4, <3>5 DEF Follows
  <2>. QED
    BY <1>6, <2>5, <2>6 DEF GotAck
<1>. QED
  BY <1>2, <1>3, <1>4, <1>5, <1>6, OthersFollow

-----------------------------------------------------------------------------
LEMMA StationInit == Init => StationInv
BY DEF Init, StationInv, Follows

LEMMA StationInvariance == IInv /\ StationInv /\ [Next]_vars => StationInv'
<1> SUFFICES ASSUME IInv, StationInv, [Next]_vars PROVE StationInv'
  OBVIOUS
<1>1. CASE \E l \in IF settled = {} THEN Links ELSE settled : Serve(l)
  <2>1. PICK l \in Links : Serve(l)
    BY <1>1 DEF IInv, TypeOK
  <2>2. CASE Vehicle(l)
    BY <2>2, CountFollows, OtherMessageFollows, TakeFollows, RefuseFollows, TimeFollows DEF Vehicle
  <2>3. CASE Station(l)
    BY <2>3, StationFollows DEF Station
  <2>4. CASE Tick(l)
    BY <2>4, TimeFollows
  <2>. QED
    BY <2>1, <2>2, <2>3, <2>4 DEF Serve
<1>2. CASE \E l \in Links :
             \/ Lose(l)
             \/ Settle(l)
             \/ \E m \in Sends[l] : SendOther(l, m)
             \/ \E p \in Plans[l] : \E first, last \in Partial[p] : BeginPartial(l, p, first, last)
  BY <1>2, StationFollows, TimeFollows
<1>3. CASE UNCHANGED vars
  BY <1>3 DEF vars, StationInv
<1>. QED
  BY <1>1, <1>2, <1>3 DEF Next

\* A station that began when the vehicle had given up everything before, and that was told that its
\* mission is accepted, has it in the vehicle item by item, whatever was lost, repeated or refused
\* on the way and whatever other stations did before it (GCS_Common.cpp:717-785).
THEOREM AcceptedMissionsAreStored == Spec => []AcceptedIsStored
<1>1. IInv /\ StationInv => AcceptedIsStored
  <2>. SUFFICES ASSUME IInv, StationInv, NEW l \in Links,
                       station[l].phase = "done", station[l].patient, begun[l].how = "count"
                PROVE  mission = [k \in 1 .. Length[station[l].plan] |-> <<station[l].plan, k>>]
    BY DEF AcceptedIsStored
  <2>. DEFINE p == station[l].plan
              b == begun[l]
  <2>1. Underway(station[l], link[l], down[l], up[l], b)
    BY DEF StationInv, Follows, NotBegun
  <2>2. /\ link[l].last = Length[p] /\ Length[p] > 0 /\ b.accepted
        /\ \A k \in 1 .. Len(b.taken) : b.taken[k] = <<p, k>>
    BY <2>1 DEF Underway
  <2>3. InPlace(b, mission) /\ Agrees(b, link[l], mission)
    BY DEF IInv, UploadInv
  <2>4. b \in Begun /\ mission \in Seq(Items)
    BY DEF IInv, TypeOK
  <2>5. Len(b.taken) = Length[p] /\ Len(mission) <= Length[p] /\ b.first = 0
    BY <2>2, <2>3 DEF Agrees
  <2>6. Len(b.taken) \in Nat /\ Len(mission) \in Nat
    BY <2>4 DEF Begun
  <2>7. Len(mission) = Length[p]
    <3>1. 0 + Len(b.taken) <= Len(mission)
      BY <2>2, <2>3, <2>5, <2>6 DEF InPlace
    <3>. QED
      BY <2>5, <2>6, <3>1
  <2>8. \A k \in 1 .. Length[p] : mission[k] = <<p, k>>
    <3>. SUFFICES ASSUME NEW k \in 1 .. Length[p] PROVE mission[k] = <<p, k>>
      OBVIOUS
    <3>1. b.first + k = k
      BY <2>5
    <3>. QED
      BY <2>2, <2>3, <2>5, <3>1 DEF InPlace
  <2>9. mission = [k \in 1 .. Length[p] |-> mission[k]]
    BY <2>4, <2>7
  <2>. QED
    BY <2>8, <2>9
<1>2. IInv /\ StationInv /\ [Next]_vars => (IInv /\ StationInv)'
  BY Invariance, StationInvariance
<1>3. Init => IInv /\ StationInv
  BY InitHolds, StationInit
<1>. QED
  BY <1>1, <1>2, <1>3, PTL DEF Spec
=============================================================================
