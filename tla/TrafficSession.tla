--------------------------- MODULE TrafficSession ---------------------------
(***************************************************************************)
(* session.ts: the counters of an outbound carried over the restarts of    *)
(* the engine.  The raw counters live in one engine and start from zero in *)
(* the next; what earlier engines counted is banked in a baseline.         *)
(***************************************************************************)
EXTENDS Naturals

Counters == [uplink : Nat, downlink : Nat]
Session  == [baseline : Counters, lastRaw : Counters, suspended : BOOLEAN]

Zero  == [uplink |-> 0, downlink |-> 0]
Fresh == [baseline |-> Zero, lastRaw |-> Zero, suspended |-> FALSE]

a ++ b      == [uplink |-> a.uplink + b.uplink, downlink |-> a.downlink + b.downlink]
AtMost(a, b) == a.uplink <= b.uplink /\ a.downlink <= b.downlink

\* What update() returns, and what the app shows.
Total(s) == s.baseline ++ s.lastRaw

\* A faulty variant: the counters of the engine that ended are dropped.
BankNothing(s) == [s EXCEPT !.lastRaw = Zero]

Bank(s) == [s EXCEPT !.baseline = Total(s), !.lastRaw = Zero]

\* A faulty variant: samples are taken while the engine restarts.
UpdateThroughout(s, raw) == [(IF AtMost(s.lastRaw, raw) THEN s ELSE Bank(s)) EXCEPT !.lastRaw = raw]

\* A counter that went back is another engine's.
Update(s, raw) ==
    IF s.suspended THEN s
    ELSE [(IF AtMost(s.lastRaw, raw) THEN s ELSE Bank(s)) EXCEPT !.lastRaw = raw]

Suspend(s) == [s EXCEPT !.suspended = TRUE]

CommitRestart(s) == [Bank(s) EXCEPT !.suspended = FALSE]
=============================================================================
