---------------------------- MODULE XrayStateBus ----------------------------
(***************************************************************************)
(* XrayStateBus.kt: the process-wide object through which XrayVpnService   *)
(* settles the promises of HybridNitroXrayCore.startXray and stopXray.     *)
(* It holds one slot for the start in flight, named by a token, and one    *)
(* slot for the stop in flight.  Every operation takes the slot under      *)
(* `lock` and calls the completion it took; nobody else can take it again, *)
(* so taking and calling are one step here.                                *)
(*                                                                         *)
(* The operators SetPendingStart, ResolveStart, SetPendingStop and         *)
(* ResolveStop are used by XrayVpnService.  Spec runs them under every     *)
(* environment that presents only tokens it has read.                      *)
(***************************************************************************)
EXTENDS Naturals

CONSTANTS StartCalls,  (* the startXray calls, each with its completion     *)
          StopCalls,   (* the stopXray calls, each with its completion      *)
          NoCall       (* an empty slot: null                               *)

ASSUME CallsAssumption ==
    /\ NoCall \notin StartCalls
    /\ NoCall \notin StopCalls
    /\ StartCalls \cap StopCalls = {}

VARIABLES
    pendingStart,       \* the call whose completion is armed, or NoCall
    pendingStartToken,  \* the token of that call, 0 when none is armed
    startTokenSeq,      \* the last token handed out
    tokenOf,            \* what setPendingStart returned to each call
    startPromise,       \* per start call: "new", "armed", "ok" or "failed"
    pendingStop,        \* the stop call whose completion is armed, or NoCall
    stopPromise,        \* per stop call: "new", "armed" or "done"
    fired,              \* per call: how often its completion was invoked
    captured            \* the tokens commands have read so far

startVars == <<pendingStart, pendingStartToken, startTokenSeq, tokenOf, startPromise>>
stopVars  == <<pendingStop, stopPromise>>
busVars   == <<startVars, stopVars, fired>>
vars      == <<busVars, captured>>

TypeOK ==
    /\ pendingStart \in StartCalls \cup {NoCall}
    /\ pendingStartToken \in Nat
    /\ startTokenSeq \in Nat
    /\ tokenOf \in [StartCalls -> Nat]
    /\ startPromise \in [StartCalls -> {"new", "armed", "ok", "failed"}]
    /\ pendingStop \in StopCalls \cup {NoCall}
    /\ stopPromise \in [StopCalls -> {"new", "armed", "done"}]
    /\ fired \in [StartCalls \cup StopCalls -> Nat]
    /\ captured \in SUBSET Nat

BusInit ==
    /\ pendingStart = NoCall
    /\ pendingStartToken = 0
    /\ startTokenSeq = 0
    /\ tokenOf = [c \in StartCalls |-> 0]
    /\ startPromise = [c \in StartCalls |-> "new"]
    /\ pendingStop = NoCall
    /\ stopPromise = [c \in StopCalls |-> "new"]
    /\ fired = [c \in StartCalls \cup StopCalls |-> 0]

-----------------------------------------------------------------------------
(* The operations.                                                         *)

\* Invoke the completion of call c, if the slot held one.
Invoke(c) == fired' = [d \in DOMAIN fired |-> IF d = c THEN fired[d] + 1 ELSE fired[d]]

\* The promises after call c settles with value v; nothing settles for NoCall.
Settled(promise, c, v) == [d \in DOMAIN promise |-> IF d = c THEN v ELSE promise[d]]

\* Faulty variants of the operations, which the properties below tell apart.
AnyTokenMatches(token) == pendingStart # NoCall

ResolveStopKeepsSlot ==
    /\ stopPromise' = Settled(stopPromise, pendingStop, "done")
    /\ Invoke(pendingStop)
    /\ UNCHANGED <<pendingStop, startVars>>

SetPendingStopOverwrites(c) ==
    /\ stopPromise[c] = "new"
    /\ pendingStop' = c
    /\ stopPromise' = [stopPromise EXCEPT ![c] = "armed"]
    /\ UNCHANGED <<startVars, fired>>

\* Arm call c.  A call still in the slot is settled as superseded.
SetPendingStart(c) ==
    /\ startPromise[c] = "new"
    /\ startTokenSeq' = startTokenSeq + 1
    /\ pendingStart' = c
    /\ pendingStartToken' = startTokenSeq'
    /\ tokenOf' = [tokenOf EXCEPT ![c] = startTokenSeq']
    /\ startPromise' = [Settled(startPromise, pendingStart, "failed") EXCEPT ![c] = "armed"]
    /\ Invoke(pendingStart)
    /\ UNCHANGED stopVars

TokenMatches(token) == pendingStart # NoCall /\ token = pendingStartToken

\* Settle the armed start, but only for the token that still names it.
ResolveStart(token, success) ==
    \/ /\ TokenMatches(token)
       /\ pendingStart' = NoCall
       /\ pendingStartToken' = 0
       /\ startPromise' = Settled(startPromise, pendingStart, IF success THEN "ok" ELSE "failed")
       /\ Invoke(pendingStart)
       /\ UNCHANGED <<startTokenSeq, tokenOf, stopVars>>
    \/ /\ ~TokenMatches(token)
       /\ UNCHANGED busVars

\* Arm stop call c.  A stop still in the slot is settled rather than left to hang.
SetPendingStop(c) ==
    /\ stopPromise[c] = "new"
    /\ pendingStop' = c
    /\ stopPromise' = [Settled(stopPromise, pendingStop, "done") EXCEPT ![c] = "armed"]
    /\ Invoke(pendingStop)
    /\ UNCHANGED startVars

ResolveStop ==
    /\ pendingStop' = NoCall
    /\ stopPromise' = Settled(stopPromise, pendingStop, "done")
    /\ Invoke(pendingStop)
    /\ UNCHANGED startVars

-----------------------------------------------------------------------------
(* Every use of the bus the service and the hybrid object can make: calls  *)
(* arm, commands read the current token at any moment, and anyone who read *)
(* a token may present it at any later moment, in any order, repeatedly.   *)

Init == BusInit /\ captured = {}

\* onStartCommand reads the token on the main thread.
CaptureToken ==
    /\ captured' = captured \cup {pendingStartToken}
    /\ UNCHANGED busVars

ArmStart   == /\ \E c \in StartCalls : SetPendingStart(c)
              /\ UNCHANGED captured
ArmStop    == /\ \E c \in StopCalls : SetPendingStop(c)
              /\ UNCHANGED captured
SettleStart == /\ \E token \in captured, success \in BOOLEAN : ResolveStart(token, success)
               /\ UNCHANGED captured
\* A command that cannot run reads the token and rejects with it at once.
SettleCurrent == /\ ResolveStart(pendingStartToken, FALSE)
                 /\ UNCHANGED captured
\* startXray rejects with the token it was given when startService throws.
RefuseStart == /\ \E c \in StartCalls :
                      /\ startPromise[c] # "new"
                      /\ ResolveStart(tokenOf[c], FALSE)
               /\ UNCHANGED captured
SettleStop == ResolveStop /\ UNCHANGED captured

Next == \/ ArmStart \/ ArmStop \/ CaptureToken
        \/ SettleStart \/ SettleCurrent \/ RefuseStart \/ SettleStop

Spec == Init /\ [][Next]_vars

-----------------------------------------------------------------------------
(* Properties.                                                             *)

\* "Settle exactly once": no completion is ever invoked twice.  A second
\* resume of the continuation behind it would throw in the caller's thread.
SettledOnce == \A c \in StartCalls \cup StopCalls : fired[c] <= 1

\* A promise is never lost: one that is armed and has not been settled is still
\* in its slot, where a later resolve or a later arm can reach it; and one that
\* left the slot was called.
NoPromiseLost ==
    /\ \A c \in StartCalls :
          /\ startPromise[c] = "armed" <=> pendingStart = c
          /\ fired[c] = 0 => startPromise[c] \in {"new", "armed"}
    /\ \A c \in StopCalls :
          /\ stopPromise[c] = "armed" <=> pendingStop = c
          /\ fired[c] = 0 => stopPromise[c] \in {"new", "armed"}

\* A worker that presents the token it captured settles no start but the one that
\* token was handed out for, so a start armed after the capture is immune to it,
\* whatever the two do meanwhile; and connect() is told "ok" only on behalf of a
\* command accepted after it armed.
TokenIsolation ==
    [][/\ \A token \in captured, success \in BOOLEAN :
             ResolveStart(token, success) =>
                 \A c \in StartCalls :
                     startPromise'[c] # startPromise[c] => tokenOf[c] = token
       /\ \A c \in StartCalls :
             startPromise[c] = "armed" /\ startPromise'[c] = "ok"
                 => tokenOf[c] \in captured]_vars
=============================================================================
