------------------------- MODULE ProviderGatesProofs -------------------------
(***************************************************************************)
(* Proofs about the circuit breaker and the rate budgets, for any number   *)
(* of publishers and readers, any threshold above one and any limits.      *)
(***************************************************************************)
EXTENDS ProviderGates, TLAPS

(* The initial state is well typed, below the threshold and closed.         *)
LEMMA InitFacts == Init => TypeOK /\ ClosedBelowThreshold
<1> SUFFICES ASSUME Init PROVE TypeOK /\ ClosedBelowThreshold
  OBVIOUS
<1>1. failures \in 0..Threshold /\ failures < Threshold
  BY GatesAssumption DEF Init
<1> QED
  BY <1>1 DEF Init, TypeOK, ClosedBelowThreshold, Labels

(* Every step of a caller keeps the types.                                  *)
LEMMA CallerType ==
  ASSUME TypeOK, NEW w \in Callers,
         \/ w \in Publishers /\ Publish(w)
         \/ w \in Readers /\ Snapshot(w)
         \/ Crash(w)
  PROVE  TypeOK'
<1>1. CASE w \in Publishers /\ FlipOpen(w)
  BY <1>1 DEF FlipOpen, LetThrough, Goto, ProbeOpen, TypeOK, Labels
<1>2. CASE w \in Publishers /\ ReadCircuit(w)
  BY <1>2 DEF ReadCircuit, LetThrough, Goto, TypeOK, Labels, circuitRow
<1>3. CASE w \in Readers /\ CircuitClosed(w)
  BY <1>3 DEF CircuitClosed, Goto, TypeOK, Labels, circuitRow
<1>4. CASE ConsumeRateLimit(w)
  <2>1. Bucket(w) \in {"pub", "metrics"}
    BY DEF Bucket
  <2>2. Limit[Bucket(w)] \in Nat /\ count[Bucket(w)] \in Nat
    BY <2>1, GatesAssumption DEF Limit, TypeOK
  <2>3. count' \in [{"pub", "metrics"} -> Nat]
    BY <1>4, <2>1, <2>2 DEF ConsumeRateLimit, TypeOK
  <2> QED
    BY <1>4, <2>3 DEF ConsumeRateLimit, Goto, TypeOK, Labels, circuitRow
<1>5. CASE TokenFresh(w)
  BY <1>5 DEF TokenFresh, Goto, TypeOK, Labels, circuitRow
<1>6. CASE TokenRefused(w)
  BY <1>6 DEF TokenRefused, Goto, TypeOK, Labels, circuitRow
<1>7. CASE AnswerOk(w)
  BY <1>7 DEF AnswerOk, Goto, TypeOK, Labels, circuitRow
<1>8. CASE AnswerUnavailable(w)
  BY <1>8 DEF AnswerUnavailable, Goto, TypeOK, Labels, circuitRow
<1>9. CASE AnswerOther(w)
  BY <1>9 DEF AnswerOther, Goto, TypeOK, Labels, circuitRow
<1>10. CASE CircuitSuccess(w)
  <2>1. failures' \in 0..Threshold
    BY <1>10, GatesAssumption DEF CircuitSuccess
  <2> QED
    BY <1>10, <2>1 DEF CircuitSuccess, Goto, TypeOK, Labels
<1>11. CASE CircuitFailure(w)
  <2>1. failures' \in 0..Threshold
    BY <1>11, GatesAssumption DEF CircuitFailure, TypeOK
  <2>2. circuit' \in {"closed", "open", "half_open"} /\ probeDue' \in BOOLEAN
    BY <1>11 DEF CircuitFailure, TypeOK
  <2> QED
    BY <1>11, <2>1, <2>2 DEF CircuitFailure, Goto, TypeOK, Labels
<1>12. CASE Crash(w)
  BY <1>12 DEF Crash, Goto, TypeOK, Labels, circuitRow
<1> QED
  BY <1>1, <1>2, <1>3, <1>4, <1>5, <1>6, <1>7, <1>8, <1>9, <1>10, <1>11, <1>12
     DEF Publish, Snapshot, Call

(* Every step keeps the types.                                              *)
LEMMA StepType == TypeOK /\ [Next]_vars => TypeOK'
<1> SUFFICES ASSUME TypeOK, [Next]_vars PROVE TypeOK'
  OBVIOUS
<1>1. CASE \E w \in Callers : \/ w \in Publishers /\ Publish(w)
                              \/ w \in Readers /\ Snapshot(w)
                              \/ Crash(w)
  BY <1>1, CallerType
<1>2. CASE CooldownEnds
  BY <1>2 DEF CooldownEnds, TypeOK
<1>3. CASE ProviderTurns
  BY <1>3 DEF ProviderTurns, TypeOK, circuitRow
<1>4. CASE \E b \in {"pub", "metrics"} : WindowRolls(b)
  BY <1>4 DEF WindowRolls, TypeOK, circuitRow
<1>5. CASE UNCHANGED vars
  BY <1>5 DEF vars, circuitRow, TypeOK
<1> QED
  BY <1>1, <1>2, <1>3, <1>4, <1>5 DEF Next, Callers

(* The breaker, the budgets and their callers keep their types, and the     *)
(* failure count never passes THRESHOLD.                                    *)
THEOREM GatesTypeCorrect == Spec => []TypeOK
BY InitFacts, StepType, PTL DEF Spec

(* Only a success, a failure or the flip to half-open touches the circuit,  *)
(* and each keeps "closed" and "below the threshold" together.              *)
LEMMA StepClosed ==
  TypeOK /\ ClosedBelowThreshold /\ [Next]_vars => ClosedBelowThreshold'
<1> SUFFICES ASSUME TypeOK, ClosedBelowThreshold, [Next]_vars
             PROVE  ClosedBelowThreshold'
  OBVIOUS
<1>1. CASE \E p \in Publishers : FlipOpen(p)
  BY <1>1 DEF FlipOpen, ProbeOpen, ClosedBelowThreshold
<1>2. CASE \E w \in Callers : CircuitSuccess(w)
  BY <1>2, GatesAssumption DEF CircuitSuccess, ClosedBelowThreshold
<1>3. CASE \E w \in Callers : CircuitFailure(w)
  <2>1. PICK w \in Callers : CircuitFailure(w)
    BY <1>3
  <2>2. CASE failures + 1 < Threshold
    BY <2>1, <2>2, GatesAssumption DEF CircuitFailure, ClosedBelowThreshold, TypeOK
  <2>3. CASE failures + 1 >= Threshold
    BY <2>1, <2>3, GatesAssumption DEF CircuitFailure, ClosedBelowThreshold, TypeOK
  <2> QED
    BY <2>2, <2>3, GatesAssumption DEF TypeOK
<1>4. CASE CooldownEnds
  BY <1>4 DEF CooldownEnds, ClosedBelowThreshold
<1>5. CASE UNCHANGED circuitRow
  BY <1>5 DEF circuitRow, ClosedBelowThreshold
<1>6. \/ \E p \in Publishers : FlipOpen(p)
      \/ \E w \in Callers : CircuitSuccess(w) \/ CircuitFailure(w)
      \/ CooldownEnds
      \/ UNCHANGED circuitRow
  BY DEF Next, Publish, Snapshot, Call, ReadCircuit, CircuitClosed, ConsumeRateLimit,
         TokenFresh, TokenRefused, AnswerOk, AnswerUnavailable, AnswerOther, Crash,
         ProviderTurns, WindowRolls, Callers, vars
<1> QED
  BY <1>1, <1>2, <1>3, <1>4, <1>5, <1>6

(* The circuit is closed exactly while fewer than THRESHOLD failures have   *)
(* been counted since the last success, whatever reports come late.         *)
THEOREM CircuitMatchesCount == Spec => []ClosedBelowThreshold
BY InitFacts, StepType, StepClosed, PTL DEF Spec

(* The flip to half-open is a publisher's step.                             *)
LEMMA FlipIsPublishers ==
  ASSUME TypeOK, [Next]_vars, circuit = "open", circuit' = "half_open"
  PROVE  \E p \in Publishers : pc[p] # pc'[p]
<1>1. \/ \E p \in Publishers : FlipOpen(p)
      \/ \E w \in Callers : CircuitSuccess(w) \/ CircuitFailure(w)
      \/ UNCHANGED circuit
  BY DEF Next, Publish, Snapshot, Call, ReadCircuit, CircuitClosed, ConsumeRateLimit,
         TokenFresh, TokenRefused, AnswerOk, AnswerUnavailable, AnswerOther, Crash,
         ProviderTurns, WindowRolls, CooldownEnds, Callers, vars, circuitRow
<1>2. PICK p \in Publishers : FlipOpen(p)
  BY <1>1 DEF CircuitSuccess, CircuitFailure
<1>3. pc[p] = "idle" /\ pc'[p] # "idle"
  BY <1>2 DEF FlipOpen, LetThrough, Goto, TypeOK, Callers
<1> QED
  BY <1>3

(* Metric ingestion never takes the publisher's recovery probe.             *)
THEOREM ProbeIsPublishers == Spec => ReadersNeverProbe
<1>1. TypeOK /\ [Next]_vars =>
        [circuit = "open" /\ circuit' = "half_open" =>
           \E p \in Publishers : pc[p] # pc'[p]]_vars
  BY FlipIsPublishers
<1> QED
  BY <1>1, GatesTypeCorrect, PTL DEF Spec, ReadersNeverProbe
=============================================================================
