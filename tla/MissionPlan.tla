---------------------------- MODULE MissionPlan ----------------------------
(***************************************************************************)
(* What a mission promises its pilot, and no more: after a navigation      *)
(* command comes one that the do and jump commands behind it lead to, and  *)
(* the mission completes only where its commands lead to an end.           *)
(*                                                                         *)
(* How often a jump is followed, what the do commands do and how the next  *)
(* command is searched for are left open, but for how far it is searched.  *)
(***************************************************************************)
EXTENDS Integers, FiniteSets

CONSTANTS
    CAPACITY, FIRST, NONE,
    MAX_LOOPS, MAX_DO_LOOPS  \* more jumps or do commands than these may end a mission

VARIABLES
    storage, cmd_total,  \* the mission
    state,               \* STOPPED, RUNNING or COMPLETE
    at,                  \* the navigation command flown to, or NONE
    from,                \* where the next one is looked for
    selecting            \* someone has just chosen where that is

vars == <<storage, cmd_total, state, at, from, selecting>>

After(index) == IF index = NONE THEN FIRST ELSE index + 1

IsNav(i)   == i < cmd_total /\ (i = 0 \/ storage[i].kind \in {"wp", "nav"})
IsJump(i)  == i \in 1 .. cmd_total - 1 /\ storage[i].kind = "jump"
IsDo(i)    == i \in 1 .. cmd_total - 1 /\ storage[i].kind = "do"
CanFollow(i) == storage[i].target \in 1 .. cmd_total - 1

\* where the command at i leads without flying anywhere
Edges(i) ==
    IF i >= cmd_total \/ IsNav(i) THEN {}
    ELSE {i + 1} \cup (IF IsJump(i) /\ CanFollow(i) THEN {storage[i].target} ELSE {})

Closed(S) == \A i \in S : Edges(i) \subseteq S

\* everything that the command at i leads to, itself included
Reach(i) ==
    LET Closures == {S \in SUBSET (0 .. CAPACITY) : i \in S /\ Closed(S)}
    IN  {k \in 0 .. CAPACITY : \A S \in Closures : k \in S}

NavFrom(i) == {k \in Reach(i) : IsNav(k)}

\* the end of the list, a jump that cannot be followed, a jump back to itself
EndsAt(k) ==
    \/ k >= cmd_total
    \/ IsJump(k) /\ (~CanFollow(k) \/ \E e \in Edges(k) : k \in Reach(e))

CanEnd(i) ==
    \/ \E k \in Reach(i) : EndsAt(k)
    \/ Cardinality({k \in Reach(i) : IsJump(k)}) > MAX_LOOPS
    \/ Cardinality({k \in Reach(i) : IsDo(k)}) > MAX_DO_LOOPS

-----------------------------------------------------------------------------
Init == state = "STOPPED" /\ at = NONE /\ from = FIRST /\ selecting = FALSE

\* go to the next navigation command, or make it the one to resume from
Fly ==
    /\ state = "RUNNING" \/ selecting
    /\ at' \in NavFrom(from)
    /\ from' = After(at')
    /\ state' = IF state = "RUNNING" THEN "RUNNING" ELSE "STOPPED"
    /\ selecting' = FALSE

Finish ==
    /\ state = "RUNNING"
    /\ CanEnd(from)
    /\ state' = "COMPLETE"
    /\ from' = After(at)
    /\ selecting' = FALSE
    /\ UNCHANGED at

\* the command selected while the mission was not running leads nowhere
SelectNone ==
    /\ selecting /\ state # "RUNNING"
    /\ CanEnd(from)
    /\ at' = NONE /\ from' = FIRST
    /\ selecting' = FALSE
    /\ UNCHANGED state

Select ==
    /\ from' \in 1 .. cmd_total - 1
    /\ selecting' = TRUE
    /\ UNCHANGED <<state, at>>

Begin    == state' = "RUNNING" /\ at' = NONE /\ from' = FIRST
Halt     == state' = "STOPPED" /\ UNCHANGED <<at, from>>
Continue == state = "STOPPED" /\ at # NONE /\ state' = "RUNNING" /\ UNCHANGED <<at, from>>
Forget   == at' = NONE /\ from' = FIRST /\ UNCHANGED state

\* A do command on the way resets the mission, which goes on from there all the same.
Release == state = "RUNNING" /\ at' = NONE /\ UNCHANGED <<state, from, selecting>>

Next ==
    /\ UNCHANGED <<storage, cmd_total>>
    /\ \/ Fly \/ Finish \/ SelectNone \/ Release
       \/ ~selecting /\ Select
       \/ ~selecting /\ UNCHANGED selecting /\ (Begin \/ Halt \/ Continue \/ Forget)

Spec == Init /\ [][Next]_vars

=============================================================================
