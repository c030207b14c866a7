------------------------------ MODULE MCLanding ------------------------------
(* Landing with one of its fittings at a time. *)
EXTENDS Landing

MCFittings == {{"parachute"}, {"motor_test"}, {"emergency_stop"}, {"sticks"}}

=============================================================================
