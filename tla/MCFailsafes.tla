---------------------------- MODULE MCFailsafes ----------------------------
(* Settings of the failsafe parameters for TLC.                             *)
EXTENDS Failsafes

P(t, b, c, e) == [throttle |-> t, battery |-> b, gcs |-> c, ekf |-> e]

\* every pair of values of two parameters occurs in one of them
SettingsTried ==
    {P("DISABLED", "DISABLED", "DISABLED", "LAND"),
     P("DISABLED", "LAND", "ALWAYS_RTL", "ALTHOLD"),
     P("DISABLED", "RTL", "CONTINUE_MISSION", "LAND_EVEN_STABILIZE"),
     P("ALWAYS_RTL", "DISABLED", "ALWAYS_RTL", "LAND_EVEN_STABILIZE"),
     P("ALWAYS_RTL", "LAND", "CONTINUE_MISSION", "LAND"),
     P("ALWAYS_RTL", "RTL", "DISABLED", "ALTHOLD"),
     P("CONTINUE_MISSION", "DISABLED", "CONTINUE_MISSION", "ALTHOLD"),
     P("CONTINUE_MISSION", "LAND", "DISABLED", "LAND_EVEN_STABILIZE"),
     P("CONTINUE_MISSION", "RTL", "ALWAYS_RTL", "LAND"),
     P("ALWAYS_LAND", "DISABLED", "DISABLED", "LAND"),
     P("ALWAYS_LAND", "LAND", "ALWAYS_RTL", "ALTHOLD"),
     P("ALWAYS_LAND", "RTL", "CONTINUE_MISSION", "LAND_EVEN_STABILIZE")}

=============================================================================
