---------------------------- MODULE MCXrayClient ----------------------------
(* Two servers to switch between, one of them through the bypass, and one   *)
(* configuration of each other kind; one stats() at a time, as a poll that  *)
(* awaits its answer makes it.                                              *)
EXTENDS XrayClient

Downlink == {[uplink |-> 0, downlink |-> 1]}
=============================================================================
