-------------------------- MODULE MCXrayVpnService --------------------------
(* Small instances of XrayVpnService.  Each cfg picks the callers, the      *)
(* system events and the failures that its question needs, one or two of    *)
(* each kind: a race takes two commands, a stale one takes a third.         *)
EXTENDS XrayVpnService
=============================================================================
