----------------------------- MODULE XrayEngine -----------------------------
(***************************************************************************)
(* XrayEngine.kt in front of Go's `runningServer` (main.go): the engine    *)
(* half of the gate through which the workers of the service and the JS    *)
(* calls of one process reach the engine.                                  *)
(*                                                                         *)
(* Go guards nothing; xrayLock does, and nobody waits for it longer than   *)
(* LOCK_WAIT_MS.  A stop runs in a thread of its own, which its caller     *)
(* joins for ENGINE_STOP_TIMEOUT_MS and then abandons, inside cgo or still *)
(* waiting for the lock.  A call into Go takes any time, or forever.       *)
(***************************************************************************)
EXTENDS Naturals

CONSTANTS Caller,    (* the threads that call: service workers, JS          *)
          Fds, NoFd, (* tun descriptors; Go runs no server                  *)
          LockWait,  (* LOCK_WAIT_MS                                        *)
          StopWait,  (* ENGINE_STOP_TIMEOUT_MS                              *)
          MaxCalls   (* bound: calls made                                   *)

ASSUME EngineAssumption == /\ NoFd \notin Fds
                           /\ LockWait \in Nat /\ StopWait \in Nat /\ MaxCalls \in Nat

VARIABLES
    runningServer,   \* Go: the descriptor of its server, or NoFd
    isWedged,
    xrayLock,        \* the thread that holds it, or Free
    pc,              \* where each caller is
    call,            \* the call each caller made last, and its descriptor
    found,           \* what StartXray found when it was entered
    stopper,         \* the stop thread of each caller
    result,          \* what the last call of each caller returned
    calls

goVars   == <<runningServer, found>>
callVars == <<pc, call, result>>
vars     == <<goVars, isWedged, xrayLock, callVars, stopper, calls>>

\* A thread is a caller or the stop thread one started.
Thread  == {"caller", "stopper"} \X Caller
Me(c)   == <<"caller", c>>
Stop(c) == <<"stopper", c>>
Free    == <<"nobody", "nobody">>

Call   == [kind : {"none", "stop", "stats"}, fd : {NoFd}] \cup [kind : {"start"}, fd : Fds]
Result == {"none", "ok", "refused", "failed", "busy", "wedged"}

TypeOK ==
    /\ runningServer \in Fds \cup {NoFd} /\ isWedged \in BOOLEAN
    /\ xrayLock \in Thread \cup {Free}
    /\ pc \in [Caller -> {"idle", "lock", "inGo", "join", "verdict"}]
    /\ call \in [Caller -> Call]
    /\ found \in [Caller -> Fds \cup {NoFd}]
    /\ stopper \in [Caller -> {"none", "lock", "inGo", "ended"}]
    /\ result \in [Caller -> Result]
    /\ calls \in Nat

Init ==
    /\ runningServer = NoFd /\ isWedged = FALSE
    /\ xrayLock = Free
    /\ pc = [c \in Caller |-> "idle"]
    /\ call = [c \in Caller |-> [kind |-> "none", fd |-> NoFd]]
    /\ found = [c \in Caller |-> NoFd]
    /\ stopper = [c \in Caller |-> "none"]
    /\ result = [c \in Caller |-> "none"]
    /\ calls = 0
-----------------------------------------------------------------------------
(* Calls.                                                                  *)

\* A call that finds the engine wedged returns at once.
Begin(c, kind, f, label) ==
    /\ pc[c] = "idle" /\ calls < MaxCalls
    /\ calls' = calls + 1
    /\ call' = [call EXCEPT ![c] = [kind |-> kind, fd |-> f]]
    /\ pc' = [pc EXCEPT ![c] = IF isWedged THEN "idle" ELSE label]
    /\ result' = [result EXCEPT ![c] = IF isWedged THEN "wedged" ELSE "none"]
    /\ UNCHANGED <<goVars, isWedged, xrayLock>>

CallStart(c) == \E f \in Fds : Begin(c, "start", f, "lock") /\ UNCHANGED stopper
CallStats(c) == Begin(c, "stats", NoFd, "lock") /\ UNCHANGED stopper
CallStop(c)  == /\ Begin(c, "stop", NoFd, "join")
                /\ stopper' = IF isWedged THEN stopper ELSE [stopper EXCEPT ![c] = "lock"]

Return(c, value) ==
    /\ pc' = [pc EXCEPT ![c] = "idle"]
    /\ result' = [result EXCEPT ![c] = value]
    /\ UNCHANGED <<call, calls>>

\* A faulty variant: Go is entered without the lock.
AcquireNothing(t) == xrayLock' = t

Acquire(t) == xrayLock = Free /\ xrayLock' = t

\* StartXray looks at runningServer first.
EnterGo(c) ==
    /\ pc[c] = "lock"
    /\ Acquire(Me(c))
    /\ pc' = [pc EXCEPT ![c] = "inGo"]
    /\ found' = [found EXCEPT ![c] = runningServer]
    /\ UNCHANGED <<runningServer, isWedged, call, result, stopper, calls>>

LockBusy(c) ==
    /\ pc[c] = "lock" /\ xrayLock # Free
    /\ Return(c, "busy")
    /\ UNCHANGED <<goVars, isWedged, xrayLock, stopper>>

LeaveGo(c, value) ==
    /\ pc[c] = "inGo"
    /\ xrayLock' = Free
    /\ Return(c, value)
    /\ UNCHANGED <<found, isWedged, stopper>>

\* A configuration that does not parse, or a server that does not start, leaves
\* runningServer alone.
StartReturns(c) ==
    /\ call[c].kind = "start"
    /\ \/ found[c] # NoFd /\ LeaveGo(c, "refused") /\ UNCHANGED runningServer
       \/ found[c] = NoFd /\ LeaveGo(c, "failed") /\ UNCHANGED runningServer
       \/ found[c] = NoFd /\ LeaveGo(c, "ok") /\ runningServer' = call[c].fd

StatsReturns(c) ==
    /\ call[c].kind = "stats"
    /\ LeaveGo(c, "ok")
    /\ UNCHANGED runningServer
-----------------------------------------------------------------------------
(* The stop thread, and the caller that joins it.                          *)

StopEntersGo(c) ==
    /\ stopper[c] = "lock"
    /\ Acquire(Stop(c))
    /\ stopper' = [stopper EXCEPT ![c] = "inGo"]
    /\ UNCHANGED <<goVars, isWedged, callVars, calls>>

\* A faulty variant: the thread gives up before its caller does.
StopGivesUpEarly(c) ==
    /\ stopper[c] = "lock" /\ xrayLock # Free
    /\ stopper' = [stopper EXCEPT ![c] = "ended"]
    /\ result' = IF pc[c] = "join" THEN [result EXCEPT ![c] = "busy"] ELSE result
    /\ UNCHANGED <<goVars, isWedged, xrayLock, pc, call, calls>>

\* The thread waits LOCK_WAIT_MS from about when its caller starts to wait
\* ENGINE_STOP_TIMEOUT_MS: which of the two gives up first is a matter of which
\* wait is shorter.
StopGivesUp(c) ==
    /\ stopper[c] = "lock" /\ xrayLock # Free
    /\ LockWait > StopWait => pc[c] # "join"
    /\ stopper' = [stopper EXCEPT ![c] = "ended"]
    /\ result' = IF pc[c] = "join" THEN [result EXCEPT ![c] = "busy"] ELSE result
    /\ UNCHANGED <<goVars, isWedged, xrayLock, pc, call, calls>>

\* StopXray closes the server, forgets it, and reports what Close said.
StopLeavesGo(c) ==
    /\ stopper[c] = "inGo"
    /\ runningServer' = NoFd
    /\ xrayLock' = Free
    /\ stopper' = [stopper EXCEPT ![c] = "ended"]
    /\ \E value \in {"ok"} \cup IF runningServer = NoFd THEN {} ELSE {"failed"} :
           result' = IF pc[c] = "idle" THEN result ELSE [result EXCEPT ![c] = value]
    /\ UNCHANGED <<found, isWedged, pc, call, calls>>

JoinReturns(c) ==
    /\ pc[c] = "join" /\ stopper[c] = "ended"
    /\ pc' = [pc EXCEPT ![c] = "idle"]
    /\ stopper' = [stopper EXCEPT ![c] = "none"]
    /\ UNCHANGED <<goVars, isWedged, xrayLock, call, result, calls>>

\* A faulty variant: join() without a deadline.
JoinTimesOutNever(c) == FALSE /\ UNCHANGED vars

\* worker.isAlive, and then isWedged = true: the thread may end in between.  A
\* thread that finds the lock free has it long before the deadline.
JoinTimesOut(c) ==
    /\ pc[c] = "join"
    /\ stopper[c] = "inGo" \/ (stopper[c] = "lock" /\ xrayLock # Free)
    /\ pc' = [pc EXCEPT ![c] = "verdict"]
    /\ UNCHANGED <<goVars, isWedged, xrayLock, call, result, stopper, calls>>

Wedge(c) ==
    /\ pc[c] = "verdict"
    /\ isWedged' = TRUE
    /\ Return(c, "wedged")
    /\ UNCHANGED <<goVars, xrayLock, stopper>>

CallerStep(c) == EnterGo(c) \/ LockBusy(c) \/ JoinReturns(c) \/ JoinTimesOut(c) \/ Wedge(c)

Next == \E c \in Caller :
    \/ CallStart(c) \/ CallStats(c) \/ CallStop(c)
    \/ CallerStep(c) \/ StartReturns(c) \/ StatsReturns(c)
    \/ StopEntersGo(c) \/ StopGivesUp(c) \/ StopLeavesGo(c)

Spec == Init /\ [][Next]_vars

\* Threads run and deadlines pass.  Nothing is assumed of Go: a call into it may
\* never return.
FairSpec == Spec /\ \A c \in Caller : WF_vars(CallerStep(c) \/ StopEntersGo(c))
-----------------------------------------------------------------------------
(* Properties.                                                             *)

Contract == INSTANCE EngineContract WITH engineFd <- runningServer, CanWedge <- TRUE

\* The gate keeps the contract the service relies on, whoever calls it at once:
\* Go never forgets a server that runs, only a stop ends one, and the verdict of a
\* wedged engine is never taken back.
ImplementsContract == Contract!Spec

\* The service gives the descriptor up when stopEngineBounded returns anything but
\* ERR_WEDGED: such a stop went through Go within its call.
StopMeansStopped ==
    [][\A c \in Caller : pc[c] = "join" /\ pc'[c] = "idle"
                               => result'[c] \in {"ok", "failed"}]_vars

\* "Nothing here waits forever": not for the lock, and not for a stop that hangs.
WaitsEnd ==
    \A c \in Caller : pc[c] \in {"lock", "join", "verdict"} ~> pc[c] \in {"idle", "inGo"}
=============================================================================
