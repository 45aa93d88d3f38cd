---------------------------- MODULE MCXrayEngine ----------------------------
(* Two workers of the service, which may belong to two objects, and a call   *)
(* from JS, with two descriptors: enough for a call to run while a second    *)
(* waits for the lock and a third gives up.                                  *)
EXTENDS XrayEngine
=============================================================================
