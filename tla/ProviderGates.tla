---------------------------- MODULE ProviderGates ----------------------------
(***************************************************************************)
(* The gates every provider call passes: the circuit breaker of the        *)
(* provider, shared by publishing and metric ingestion, and the two        *)
(* fixed-window budgets of an account, one for each.  Each step is one SQL *)
(* statement or one provider call, so callers interleave inside a check.   *)
(***************************************************************************)
EXTENDS Integers, FiniteSets

CONSTANTS
  Publishers,    (* publish jobs at work on targets of one account          *)
  Readers,       (* metric pulls of the same account                        *)
  Threshold,     (* THRESHOLD: failures that open the circuit               *)
  PublishLimit,  (* capabilities.rateLimit.limit                            *)
  MetricsLimit,  (* METRICS_BUDGET_FRACTION of it, at least 1               *)
  MaxCrashes     (* bound: crashes of a caller                              *)

ASSUME GatesAssumption ==
  /\ Threshold \in Nat /\ Threshold > 1
  /\ PublishLimit \in Nat \ {0} /\ MetricsLimit \in Nat \ {0}
  /\ Publishers \cap Readers = {}
  /\ MaxCrashes \in Nat

VARIABLES
  circuit,   (* provider_circuits.state; a missing row counts as closed     *)
  failures,  (* failure_count, counted up to Threshold: no code reads more  *)
  probeDue,  (* next_probe_at <= now()                                      *)
  count,     (* rate_limits.count of the current window, per bucket, up to  *)
             (*   one above the limit                                       *)
  pc,
  passed,    (* history: the circuit state a publisher was let through in   *)
  up,        (* the provider answers                                        *)
  crashes

circuitRow == <<circuit, failures, probeDue>>
vars == <<circuitRow, count, pc, passed, up, crashes>>

Callers   == Publishers \cup Readers
Labels    == {"idle", "read", "budget", "token", "call", "succeed", "fail"}
Bucket(w) == IF w \in Publishers THEN "pub" ELSE "metrics"
Limit     == [pub |-> PublishLimit, metrics |-> MetricsLimit]

Goto(w, l) == pc' = [pc EXCEPT ![w] = l]

-----------------------------------------------------------------------------
(* circuitAllows: one conditional update, then one select.                  *)

ProbeOpen == circuit = "open" /\ probeDue

LetThrough(p, c) ==
  /\ Goto(p, "budget")
  /\ passed' = [passed EXCEPT ![p] = c]

FlipOpen(p) ==
  /\ pc[p] = "idle"
  /\ \/ ProbeOpen /\ circuit' = "half_open" /\ LetThrough(p, "half_open")
     \/ ~ProbeOpen /\ Goto(p, "read") /\ UNCHANGED <<circuit, passed>>
  /\ UNCHANGED <<failures, probeDue, count, up, crashes>>

(* Mutant: half-open is denied too, as "a single probe" suggests.           *)
ReadCircuitStrict(p) ==
  /\ pc[p] = "read"
  /\ \/ circuit = "closed" /\ LetThrough(p, circuit)
     \/ circuit # "closed" /\ Goto(p, "idle") /\ UNCHANGED passed
  /\ UNCHANGED <<circuitRow, count, up, crashes>>

ReadCircuit(p) ==
  /\ pc[p] = "read"
  /\ \/ circuit # "open" /\ LetThrough(p, circuit)
     \/ circuit = "open" /\ Goto(p, "idle") /\ UNCHANGED passed
  /\ UNCHANGED <<circuitRow, count, up, crashes>>

(* circuitClosed, the gate of a metric pull.                                *)
CircuitClosed(r) ==
  /\ pc[r] = "idle"
  /\ circuit # "open"
  /\ Goto(r, "budget")
  /\ UNCHANGED <<circuitRow, count, passed, up, crashes>>

-----------------------------------------------------------------------------
(* consumeRateLimit, then the token, then the provider.                     *)

ConsumeRateLimit(w) ==
  /\ pc[w] = "budget"
  /\ LET b == Bucket(w) IN
       \/ /\ count[b] < Limit[b]
          /\ count' = [count EXCEPT ![b] = @ + 1]
          /\ Goto(w, "token")
       \/ /\ count[b] >= Limit[b]
          /\ count' = [count EXCEPT ![b] = Limit[b] + 1]
          /\ Goto(w, "idle")
  /\ UNCHANGED <<circuitRow, passed, up, crashes>>

TokenFresh(w) ==
  /\ pc[w] = "token"
  /\ Goto(w, "call")
  /\ UNCHANGED <<circuitRow, count, passed, up, crashes>>

TokenRefused(w) ==
  /\ pc[w] = "token"
  /\ Goto(w, "idle")
  /\ UNCHANGED <<circuitRow, count, passed, up, crashes>>

AnswerOk(w) ==
  /\ pc[w] = "call" /\ up
  /\ Goto(w, "succeed")
  /\ UNCHANGED <<circuitRow, count, passed, up, crashes>>

AnswerUnavailable(w) ==
  /\ pc[w] = "call" /\ ~up
  /\ Goto(w, "fail")
  /\ UNCHANGED <<circuitRow, count, passed, up, crashes>>

(* Refused content, a rate limit, a lost answer: the circuit is not told.   *)
AnswerOther(w) ==
  /\ pc[w] = "call"
  /\ Goto(w, "idle")
  /\ UNCHANGED <<circuitRow, count, passed, up, crashes>>

(* Mutant: a success closes the circuit and keeps the count.                *)
CircuitSuccessKeepsCount(w) ==
  /\ pc[w] = "succeed"
  /\ circuit' = "closed" /\ probeDue' = FALSE
  /\ Goto(w, "idle")
  /\ UNCHANGED <<failures, count, passed, up, crashes>>

CircuitSuccess(w) ==
  /\ pc[w] = "succeed"
  /\ circuit' = "closed" /\ failures' = 0 /\ probeDue' = FALSE
  /\ Goto(w, "idle")
  /\ UNCHANGED <<count, passed, up, crashes>>

CircuitFailure(w) ==
  /\ pc[w] = "fail"
  /\ \/ /\ failures + 1 < Threshold
        /\ failures' = failures + 1
        /\ UNCHANGED <<circuit, probeDue>>
     \/ /\ failures + 1 >= Threshold
        /\ failures' = Threshold
        /\ circuit' = "open" /\ probeDue' = FALSE
  /\ Goto(w, "idle")
  /\ UNCHANGED <<count, passed, up, crashes>>

-----------------------------------------------------------------------------
(* Environment *)

CooldownEnds ==
  /\ circuit = "open" /\ ~probeDue
  /\ probeDue' = TRUE
  /\ UNCHANGED <<circuit, failures, count, pc, passed, up, crashes>>

WindowRolls(b) ==
  /\ count[b] > 0
  /\ count' = [count EXCEPT ![b] = 0]
  /\ UNCHANGED <<circuitRow, pc, passed, up, crashes>>

ProviderTurns ==
  /\ up' = ~up
  /\ UNCHANGED <<circuitRow, count, pc, passed, crashes>>

Crash(w) ==
  /\ pc[w] # "idle"
  /\ crashes < MaxCrashes
  /\ crashes' = crashes + 1
  /\ Goto(w, "idle")
  /\ UNCHANGED <<circuitRow, count, passed, up>>

-----------------------------------------------------------------------------
Init ==
  /\ circuit = "closed" /\ failures = 0 /\ probeDue = FALSE
  /\ count = [b \in {"pub", "metrics"} |-> 0]
  /\ pc = [w \in Callers |-> "idle"]
  /\ passed = [p \in Publishers |-> "closed"]
  /\ up = TRUE
  /\ crashes = 0

Call(w) ==
  \/ ConsumeRateLimit(w) \/ TokenFresh(w) \/ TokenRefused(w)
  \/ AnswerOk(w) \/ AnswerUnavailable(w) \/ AnswerOther(w)
  \/ CircuitSuccess(w) \/ CircuitFailure(w)

Publish(p)  == FlipOpen(p) \/ ReadCircuit(p) \/ Call(p)
Snapshot(r) == CircuitClosed(r) \/ Call(r)

Next ==
  \/ \E p \in Publishers : Publish(p)
  \/ \E r \in Readers : Snapshot(r)
  \/ \E w \in Callers : Crash(w)
  \/ CooldownEnds \/ ProviderTurns
  \/ \E b \in {"pub", "metrics"} : WindowRolls(b)

Spec == Init /\ [][Next]_vars

(* Publish jobs keep coming and finish their steps, time passes, and not    *)
(* every token or post is refused for ever.                                 *)
Fairness ==
  /\ \A p \in Publishers : WF_vars(Publish(p))
  /\ \A r \in Readers : WF_vars(Call(r))
  /\ \A p \in Publishers : SF_vars(TokenFresh(p)) /\ SF_vars(AnswerOk(p))
  /\ WF_vars(CooldownEnds)
  /\ \A b \in {"pub", "metrics"} : WF_vars(WindowRolls(b))

FairSpec == Spec /\ Fairness

-----------------------------------------------------------------------------
TypeOK ==
  /\ circuit \in {"closed", "open", "half_open"}
  /\ failures \in 0..Threshold
  /\ probeDue \in BOOLEAN
  /\ count \in [{"pub", "metrics"} -> Nat]
  /\ pc \in [Callers -> Labels]
  /\ passed \in [Publishers -> {"closed", "half_open"}]
  /\ up \in BOOLEAN
  /\ crashes \in Nat

(* The circuit is closed exactly while fewer than THRESHOLD failures have   *)
(* been counted since the last success: late successes and late failures,   *)
(* of either kind of caller, never leave state and count in disagreement.   *)
ClosedBelowThreshold == circuit = "closed" <=> failures < Threshold

(* Metric ingestion never takes the publisher's recovery probe: only a      *)
(* publisher turns an open circuit half-open (circuit.ts, ingest.ts).       *)
ReadersNeverProbe ==
  [][circuit = "open" /\ circuit' = "half_open" =>
       \E p \in Publishers : pc[p] # pc'[p]]_vars

(* However callers crash or are refused between gate and answer, and        *)
(* however late their reports come, the circuit of a provider that is up    *)
(* for good closes for good.                                                *)
Recovers == <>[]up => <>[](circuit = "closed")

(* Half-open lets a single probe through (circuit.ts).                      *)
Probing(p) == passed[p] = "half_open" /\ pc[p] \in {"budget", "token", "call"}
SingleProbe == Cardinality({p \in Publishers : Probing(p)}) <= 1
=============================================================================
