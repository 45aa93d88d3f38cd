------------------------ MODULE XrayStateBusProofs ------------------------
(***************************************************************************)
(* The promise protocol of XrayStateBus, for any sets of calls: every      *)
(* completion is invoked at most once, none is lost, and a token settles   *)
(* only the start it was handed out for.                                   *)
(***************************************************************************)
EXTENDS XrayStateBus, TLAPS

\* A token names one start: the calls that were armed hold distinct tokens, none
\* above the sequence, and the slot holds the token of its call.
TokensNameCalls ==
    /\ \A c \in StartCalls : startPromise[c] # "new" => tokenOf[c] \in 1..startTokenSeq
    /\ \A c, d \in StartCalls :
          /\ startPromise[c] # "new" /\ startPromise[d] # "new"
          /\ tokenOf[c] = tokenOf[d]
          => c = d
    /\ pendingStart # NoCall => pendingStartToken = tokenOf[pendingStart]

\* A promise is armed exactly while its call is in the slot.
SlotHoldsArmed ==
    /\ \A c \in StartCalls : startPromise[c] = "armed" <=> pendingStart = c
    /\ \A c \in StopCalls : stopPromise[c] = "armed" <=> pendingStop = c

\* Only a settled promise was called, and only once.
FiredWhenSettled ==
    /\ \A c \in StartCalls :
          fired[c] = IF startPromise[c] \in {"ok", "failed"} THEN 1 ELSE 0
    /\ \A c \in StopCalls :
          fired[c] = IF stopPromise[c] = "done" THEN 1 ELSE 0

Inv == TypeOK /\ TokensNameCalls /\ SlotHoldsArmed /\ FiredWhenSettled

-----------------------------------------------------------------------------
LEMMA InitInv == Init => Inv
BY CallsAssumption
   DEF Init, BusInit, Inv, TypeOK, TokensNameCalls, SlotHoldsArmed, FiredWhenSettled

LEMMA SetPendingStartInv ==
    ASSUME Inv, NEW c \in StartCalls, SetPendingStart(c), UNCHANGED captured
    PROVE  Inv'
<1>0. /\ pendingStart \in StartCalls \cup {NoCall} /\ startPromise[c] = "new"
      /\ startTokenSeq \in Nat /\ startTokenSeq' = startTokenSeq + 1
      /\ startTokenSeq' \in Nat /\ startTokenSeq' \in 1..startTokenSeq'
      /\ pendingStart' = c /\ pendingStartToken' = startTokenSeq'
      /\ UNCHANGED <<pendingStop, stopPromise>>
  BY DEF Inv, TypeOK, SetPendingStart, stopVars
<1>1. startPromise' = [d \in StartCalls |->
          IF d = c THEN "armed" ELSE IF d = pendingStart THEN "failed" ELSE startPromise[d]]
  BY DEF Inv, TypeOK, SetPendingStart, Settled
<1>2. fired' = [d \in StartCalls \cup StopCalls |->
          IF d = pendingStart THEN fired[d] + 1 ELSE fired[d]]
  BY DEF Inv, TypeOK, SetPendingStart, Invoke
<1>3. tokenOf' = [d \in StartCalls |-> IF d = c THEN startTokenSeq' ELSE tokenOf[d]]
  BY DEF Inv, TypeOK, SetPendingStart
<1>4. TypeOK'
  <2>1. startPromise' \in [StartCalls -> {"new", "armed", "ok", "failed"}]
    BY <1>1 DEF Inv, TypeOK
  <2>2. fired' \in [StartCalls \cup StopCalls -> Nat]
    BY <1>2 DEF Inv, TypeOK
  <2>3. tokenOf' \in [StartCalls -> Nat]
    BY <1>0, <1>3 DEF Inv, TypeOK
  <2> QED
    BY <1>0, <2>1, <2>2, <2>3 DEF Inv, TypeOK
<1>5. TokensNameCalls'
  <2>1. \A d \in StartCalls \ {c} :
           startPromise'[d] # "new" => /\ startPromise[d] # "new"
                                       /\ tokenOf'[d] = tokenOf[d]
                                       /\ tokenOf[d] \in 1..startTokenSeq
    BY <1>0, <1>1, <1>3, CallsAssumption DEF Inv, TypeOK, TokensNameCalls, SlotHoldsArmed
  <2>2. tokenOf'[c] = startTokenSeq'
    BY <1>3
  <2>3. \A d \in StartCalls : startPromise'[d] # "new" => tokenOf'[d] \in 1..startTokenSeq'
    BY <1>0, <2>1, <2>2
  <2>4. \A d \in StartCalls \ {c} :
           startPromise'[d] # "new" => tokenOf'[d] # startTokenSeq'
    BY <1>0, <2>1
  <2>5. \A d, e \in StartCalls :
           /\ startPromise'[d] # "new" /\ startPromise'[e] # "new"
           /\ tokenOf'[d] = tokenOf'[e]
           => d = e
    BY <2>1, <2>2, <2>4 DEF Inv, TokensNameCalls
  <2> QED
    BY <1>0, <2>2, <2>3, <2>5 DEF TokensNameCalls
<1>6. SlotHoldsArmed'
  BY <1>0, <1>1, CallsAssumption DEF Inv, TypeOK, SlotHoldsArmed
<1>7. FiredWhenSettled'
  <2>1. \A d \in StartCalls :
           fired'[d] = IF startPromise'[d] \in {"ok", "failed"} THEN 1 ELSE 0
    <3> SUFFICES ASSUME NEW d \in StartCalls
                 PROVE  fired'[d] = IF startPromise'[d] \in {"ok", "failed"} THEN 1 ELSE 0
      OBVIOUS
    <3>1. fired[d] = IF startPromise[d] \in {"ok", "failed"} THEN 1 ELSE 0
      BY DEF Inv, FiredWhenSettled
    <3>2. startPromise[d] = "armed" <=> pendingStart = d
      BY DEF Inv, SlotHoldsArmed
    <3>3. c # pendingStart
      BY <1>0 DEF Inv, SlotHoldsArmed
    <3> QED
      BY <1>0, <1>1, <1>2, <3>1, <3>2, <3>3
  <2>2. \A d \in StopCalls : fired'[d] = fired[d]
    BY <1>0, <1>2, CallsAssumption
  <2> QED
    BY <1>0, <2>1, <2>2 DEF Inv, FiredWhenSettled
<1> QED BY <1>4, <1>5, <1>6, <1>7 DEF Inv

LEMMA ResolveStartInv ==
    ASSUME Inv, NEW token, NEW success \in BOOLEAN, ResolveStart(token, success),
           captured' \in SUBSET Nat
    PROVE  Inv'
<1>1. CASE TokenMatches(token)
  <2> DEFINE v == IF success THEN "ok" ELSE "failed"
  <2>0. pendingStart \in StartCalls /\ pendingStart' = NoCall /\ pendingStartToken' = 0
        /\ UNCHANGED <<startTokenSeq, tokenOf, stopVars>>
    BY <1>1 DEF Inv, TypeOK, ResolveStart, TokenMatches
  <2>1. startPromise' = [d \in StartCalls |->
            IF d = pendingStart THEN v ELSE startPromise[d]]
    BY <1>1 DEF Inv, TypeOK, ResolveStart, Settled
  <2>2. fired' = [d \in StartCalls \cup StopCalls |->
            IF d = pendingStart THEN fired[d] + 1 ELSE fired[d]]
    BY <1>1 DEF Inv, TypeOK, ResolveStart, Invoke
  <2>3. v \in {"ok", "failed"}
    OBVIOUS
  <2> HIDE DEF v
  <2>4. TypeOK'
    BY <2>0, <2>1, <2>2, <2>3 DEF Inv, TypeOK, stopVars
  <2>5. TokensNameCalls'
    BY <2>0, <2>1, <2>3, CallsAssumption DEF Inv, TypeOK, TokensNameCalls, SlotHoldsArmed
  <2>6. SlotHoldsArmed'
    BY <2>0, <2>1, <2>3, CallsAssumption DEF Inv, TypeOK, SlotHoldsArmed, stopVars
  <2>7. FiredWhenSettled'
    BY <2>0, <2>1, <2>2, <2>3, CallsAssumption
       DEF Inv, TypeOK, SlotHoldsArmed, FiredWhenSettled, stopVars
  <2> QED BY <2>4, <2>5, <2>6, <2>7 DEF Inv
<1>2. CASE ~TokenMatches(token)
  <2>1. UNCHANGED busVars
    BY <1>2 DEF ResolveStart
  <2> QED
    BY <2>1 DEF Inv, TypeOK, TokensNameCalls, SlotHoldsArmed, FiredWhenSettled,
                busVars, startVars, stopVars
<1> QED BY <1>1, <1>2

LEMMA SetPendingStopInv ==
    ASSUME Inv, NEW c \in StopCalls, SetPendingStop(c), UNCHANGED captured
    PROVE  Inv'
<1>0. pendingStop \in StopCalls \cup {NoCall} /\ pendingStop' = c
      /\ stopPromise[c] = "new" /\ UNCHANGED startVars
  BY DEF Inv, TypeOK, SetPendingStop
<1>1. stopPromise' = [d \in StopCalls |->
          IF d = c THEN "armed" ELSE IF d = pendingStop THEN "done" ELSE stopPromise[d]]
  BY DEF Inv, TypeOK, SetPendingStop, Settled
<1>2. fired' = [d \in StartCalls \cup StopCalls |->
          IF d = pendingStop THEN fired[d] + 1 ELSE fired[d]]
  BY DEF Inv, TypeOK, SetPendingStop, Invoke
<1>3. TypeOK'
  BY <1>0, <1>1, <1>2 DEF Inv, TypeOK, startVars
<1>4. TokensNameCalls'
  BY <1>0 DEF Inv, TokensNameCalls, startVars
<1>5. SlotHoldsArmed'
  BY <1>0, <1>1, CallsAssumption DEF Inv, TypeOK, SlotHoldsArmed, startVars
<1>6. FiredWhenSettled'
  BY <1>0, <1>1, <1>2, CallsAssumption
     DEF Inv, TypeOK, SlotHoldsArmed, FiredWhenSettled, startVars
<1> QED BY <1>3, <1>4, <1>5, <1>6 DEF Inv

LEMMA ResolveStopInv ==
    ASSUME Inv, ResolveStop, UNCHANGED captured
    PROVE  Inv'
<1>0. pendingStop \in StopCalls \cup {NoCall} /\ pendingStop' = NoCall
      /\ UNCHANGED startVars
  BY DEF Inv, TypeOK, ResolveStop
<1>1. stopPromise' = [d \in StopCalls |-> IF d = pendingStop THEN "done" ELSE stopPromise[d]]
  BY DEF Inv, TypeOK, ResolveStop, Settled
<1>2. fired' = [d \in StartCalls \cup StopCalls |->
          IF d = pendingStop THEN fired[d] + 1 ELSE fired[d]]
  BY DEF Inv, TypeOK, ResolveStop, Invoke
<1>3. TypeOK'
  BY <1>0, <1>1, <1>2 DEF Inv, TypeOK, startVars
<1>4. TokensNameCalls'
  BY <1>0 DEF Inv, TokensNameCalls, startVars
<1>5. SlotHoldsArmed'
  BY <1>0, <1>1, CallsAssumption DEF Inv, TypeOK, SlotHoldsArmed, startVars
<1>6. FiredWhenSettled'
  BY <1>0, <1>1, <1>2, CallsAssumption
     DEF Inv, TypeOK, SlotHoldsArmed, FiredWhenSettled, startVars
<1> QED BY <1>3, <1>4, <1>5, <1>6 DEF Inv

LEMMA NextInv == Inv /\ [Next]_vars => Inv'
<1> SUFFICES ASSUME Inv, [Next]_vars PROVE Inv'
  OBVIOUS
<1>1. CASE ArmStart
  BY <1>1, SetPendingStartInv DEF ArmStart
<1>2. CASE ArmStop
  BY <1>2, SetPendingStopInv DEF ArmStop
<1>3. CASE CaptureToken
  BY <1>3 DEF CaptureToken, Inv, TypeOK, TokensNameCalls, SlotHoldsArmed, FiredWhenSettled,
              busVars, startVars, stopVars
<1>4. CASE SettleStart
  BY <1>4, ResolveStartInv DEF SettleStart, Inv, TypeOK
<1>5. CASE SettleCurrent
  BY <1>5, ResolveStartInv DEF SettleCurrent, Inv, TypeOK
<1>6. CASE RefuseStart
  BY <1>6, ResolveStartInv DEF RefuseStart, Inv, TypeOK
<1>7. CASE SettleStop
  BY <1>7, ResolveStopInv DEF SettleStop
<1>8. CASE UNCHANGED vars
  BY <1>8 DEF Inv, TypeOK, TokensNameCalls, SlotHoldsArmed, FiredWhenSettled,
              vars, busVars, startVars, stopVars
<1> QED BY <1>1, <1>2, <1>3, <1>4, <1>5, <1>6, <1>7, <1>8 DEF Next

-----------------------------------------------------------------------------
\* The invariant holds throughout.
THEOREM BusInvariant == Spec => []Inv
BY InitInv, NextInv, PTL DEF Spec

\* The slots, tokens and promises keep their types.
THEOREM BusTypeCorrect == Spec => []TypeOK
<1>1. Inv => TypeOK
  BY DEF Inv
<1> QED BY <1>1, BusInvariant, PTL

\* No completion is invoked twice, however arms, resolves, refusals and timeouts
\* interleave.
THEOREM BusSettlesOnce == Spec => []SettledOnce
<1>1. Inv => SettledOnce
  <2> SUFFICES ASSUME Inv, NEW c \in StartCalls \cup StopCalls PROVE fired[c] <= 1
    BY DEF SettledOnce
  <2>1. fired[c] \in {0, 1}
    BY DEF Inv, FiredWhenSettled
  <2> QED BY <2>1
<1> QED BY <1>1, BusInvariant, PTL

\* No promise is lost: while it is armed its call is in a slot.
THEOREM BusLosesNoPromise == Spec => []NoPromiseLost
<1>1. Inv => NoPromiseLost
  BY DEF Inv, TypeOK, SlotHoldsArmed, FiredWhenSettled, NoPromiseLost
<1> QED BY <1>1, BusInvariant, PTL

\* A resolve changes no promise but that of the start its token names.
LEMMA ResolveStartIsolated ==
    ASSUME Inv, NEW token, NEW success \in BOOLEAN, ResolveStart(token, success),
           NEW c \in StartCalls, startPromise'[c] # startPromise[c]
    PROVE  /\ tokenOf[c] = token
           /\ startPromise'[c] = IF success THEN "ok" ELSE "failed"
<1>1. TokenMatches(token)
  BY DEF ResolveStart, busVars, startVars
<1>2. startPromise' = Settled(startPromise, pendingStart, IF success THEN "ok" ELSE "failed")
  BY <1>1 DEF ResolveStart
<1>3. c = pendingStart
  BY <1>2 DEF Settled, Inv, TypeOK
<1> QED BY <1>1, <1>2, <1>3 DEF TokenMatches, Inv, TypeOK, TokensNameCalls, Settled

\* Tokens isolate starts: a stale token settles nothing, and success needs a
\* command that read the start's own token.
THEOREM BusIsolatesTokens == Spec => TokenIsolation
<1> DEFINE Isolated ==
               \A token \in captured, success \in BOOLEAN :
                   ResolveStart(token, success) =>
                       \A c \in StartCalls :
                           startPromise'[c] # startPromise[c] => tokenOf[c] = token
           Earned == \A c \in StartCalls :
                         startPromise[c] = "armed" /\ startPromise'[c] = "ok"
                             => tokenOf[c] \in captured
<1>1. Inv => Isolated
  BY ResolveStartIsolated
<1>2. Inv /\ [Next]_vars => Earned
  <2> SUFFICES ASSUME Inv, [Next]_vars, NEW c \in StartCalls,
                      startPromise[c] = "armed", startPromise'[c] = "ok"
               PROVE  tokenOf[c] \in captured
    OBVIOUS
  <2>1. CASE ArmStart
    <3>1. PICK d \in StartCalls : SetPendingStart(d)
      BY <2>1 DEF ArmStart
    <3> QED BY <3>1 DEF SetPendingStart, Settled, Inv, TypeOK
  <2>2. CASE SettleStart
    BY <2>2, ResolveStartIsolated DEF SettleStart
  <2>3. CASE SettleCurrent
    BY <2>3, ResolveStartIsolated DEF SettleCurrent
  <2>4. CASE RefuseStart
    BY <2>4, ResolveStartIsolated DEF RefuseStart
  <2>5. CASE ArmStop \/ SettleStop \/ CaptureToken \/ UNCHANGED vars
    BY <2>5 DEF ArmStop, SettleStop, CaptureToken, SetPendingStop, ResolveStop,
                vars, busVars, startVars, stopVars
  <2> QED BY <2>1, <2>2, <2>3, <2>4, <2>5 DEF Next
<1>3. Inv /\ [Next]_vars => [Isolated /\ Earned]_vars
  BY <1>1, <1>2
<1> QED BY <1>3, BusInvariant, PTL DEF Spec, TokenIsolation
=============================================================================
