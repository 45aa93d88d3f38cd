---------------------------- MODULE MCXrayBypass ----------------------------
(* Two configurations on two ports and one that does not parse, two attempts *)
(* a start, and two stop threads: enough for a start over another client,    *)
(* and for a teardown behind a stop thread that was left behind.             *)
EXTENDS XrayBypass

CONSTANTS olcA, olcB, olcBad

PortOf == [c \in {olcA, olcB, olcBad} |-> IF c = olcB THEN 10809 ELSE 10808]
=============================================================================
