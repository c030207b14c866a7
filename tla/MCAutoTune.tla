----------------------------- MODULE MCAutoTune -----------------------------
(* Gains and vehicles for TLC.                                             *)
EXTENDS AutoTune

All(p, i, d, sp) == [a \in Axes |-> [p |-> p, i |-> i, d |-> d, sp |-> sp]]

\* below the limit of D, and beyond that of P
Below       == All(1, "own", 0, 2)
Beyond      == All(RP_MAX + 1, "own", 1, 1)
SomeStarts  == {Below, Beyond}

\* a tune on top of another one, which has got to the card or has not
Second      == OnEnabled(Beyond, All(2, "final", 1, 1))
SomeOrigins == {[gains |-> s, card |-> s] : s \in SomeStarts \cup {Second}}
                   \cup {[gains |-> Second, card |-> Beyond]}

\* vehicles that turn fast, slowly and in between, that bounce and overshoot with every gain, some or none
Vehicle(near, over, far, b) == [near |-> near, over |-> over, far |-> far, bounce |-> b, angle |-> b]
SomePlants  == UNION {{Vehicle(0, 1, 1, b), Vehicle(0, 1, 4, b), Vehicle(1, 2, 3, b), Vehicle(2, 3, 3, b)} :
                         b \in 1 .. 3}

=============================================================================
