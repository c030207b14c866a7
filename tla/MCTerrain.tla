----------------------------- MODULE MCTerrain -----------------------------
(* Two slots for three grids: the vehicle's grid, the one beside it and    *)
(* home are two grids at most, so that a vehicle that stays keeps them,    *)
(* and one that moves throws one out.  A row has three columns and two     *)
(* blocks: the last grid of one row and the first of the next, far from    *)
(* each other, share a place.                                              *)
EXTENDS Terrain

MCSquares == <<{1, 2}, {}, {1}>>
MCAround == [g \in Grids |-> CASE g = 1 -> <<2>> [] g = 2 -> <<1>> [] OTHER -> <<>>]
MCRow    == <<0, 0, 1>>
MCColumn == <<2, 1, 0>>
=============================================================================
