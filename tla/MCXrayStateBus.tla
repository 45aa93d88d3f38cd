--------------------------- MODULE MCXrayStateBus ---------------------------
(* Three overlapping starts and two overlapping stops: enough for a start   *)
(* to be superseded while a stale token of an older one is still held.      *)
EXTENDS XrayStateBus
=============================================================================
