--------------------------- MODULE EngineContract ---------------------------
(***************************************************************************)
(* What XrayEngine promises the VPN service: one engine per process, that  *)
(* reads one tun descriptor while it runs, and a stop that always returns. *)
(* A stop that gives up leaves the engine wedged: nobody can start or stop *)
(* it in this process again, and it may go on using its descriptor.        *)
(* XrayEngine is shown to keep this contract.                              *)
(***************************************************************************)
CONSTANTS Fds,       (* the descriptors an engine may be started with       *)
          NoFd,      (* the engine reads no descriptor                      *)
          CanWedge   (* whether a stop may blow its deadline                *)

VARIABLES engineFd,  \* the descriptor the running engine reads, or NoFd
          isWedged   \* XrayEngine.isWedged

engineVars == <<engineFd, isWedged>>

EngineInit == engineFd = NoFd /\ isWedged = FALSE

\* startEngine returned 0.  Go refuses a second instance.  A start refuses a wedged
\* engine when it is called, but one called before the verdict may end after it.
StartEngine(f) ==
    /\ engineFd = NoFd
    /\ engineFd' = f
    /\ UNCHANGED isWedged

\* startEngine returned something else: wedged, busy, already running, a
\* configuration that does not parse, or a server that does not start.
StartEngineFails == UNCHANGED engineVars

\* stopEngineBounded returned within its deadline.
StopEngine ==
    /\ ~isWedged
    /\ engineFd' = NoFd
    /\ UNCHANGED isWedged

\* stopEngineBounded returned ERR_WEDGED, now or since an earlier call.
StopEngineWedged ==
    /\ isWedged \/ CanWedge
    /\ isWedged' = TRUE
    /\ UNCHANGED engineFd

\* The abandoned stop gets through after all; the verdict stays.
LateStop ==
    /\ isWedged
    /\ engineFd # NoFd
    /\ engineFd' = NoFd
    /\ UNCHANGED isWedged

Next == \/ \E f \in Fds : StartEngine(f)
        \/ StopEngine \/ StopEngineWedged \/ LateStop

Spec == EngineInit /\ [][Next]_engineVars
=============================================================================
