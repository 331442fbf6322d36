---------------------------- MODULE MCPublishing ----------------------------
(***************************************************************************)
(* Values for the constants of Publishing on small instances.  Part "given" *)
(* is the provider of the .cfg; part "keyed" is one that honours an        *)
(* idempotency key and cannot be looked up, under every fault.             *)
(***************************************************************************)
EXTENDS Publishing, TLC

CONSTANT Parts

ASSUME PartsAssumption == Parts \subseteq {"given", "keyed"}

VARIABLE part

(* Two retryable codes with different limits and one that is not.           *)
MCCodes == {"auth_expired", "provider_unavailable", "permanent_failure"}
MCRetryLimit == [auth_expired |-> 2, provider_unavailable |-> 3, permanent_failure |-> 0]

MCPermanent == {"permanent_failure"}
MCNoFaults  == {}
MCSlow      == {"slow_worker"}

Keyed == INSTANCE Publishing WITH
  Lookup <- FALSE, IdemKey <- TRUE, SameText <- FALSE, LateCodes <- Codes, Faults <- FaultKinds,
  MaxAttempt <- 2, MaxVersion <- 4, MaxCrashes <- 1, MaxRetries <- 1

MCSpec ==
  /\ part \in Parts /\ Init
  /\ [][UNCHANGED part /\ IF part = "keyed" THEN Keyed!Next ELSE Next]_<<part, vars>>

(* The fairness of the given part; nothing eventual is asked of the other. *)
MCFairSpec == MCSpec /\ Fairness

(* Where posts can be looked up, a target nobody retried by hand is failed  *)
(* only if the provider really has no post of it (markFailedWithReconcile). *)
FailedWasNotPosted ==
  part = "given" /\ Lookup =>
    \A t \in Targets : state[t] = "failed" /\ granted[t] = 0 => OwnPosts(t) = {}

(* The detailed pipeline implements the at-most-once contract of            *)
(* EffectivelyOnce, a post being made in flight only.  A keyed provider may *)
(* be called late, for a row that has left its flight: that part stutters.  *)
Phase(t) ==
  CASE state[t] = "scheduled" \/ part = "keyed" -> "queued"
    [] InFlight(t) /\ part = "given"            -> "inflight"
    [] state[t] = "published" /\ part = "given" -> "done"
    [] OTHER                                    -> "stopped"

Contract == INSTANCE EffectivelyOnce WITH
  phase   <- [t \in Targets |-> Phase(t)],
  copies  <- [t \in Targets |-> IF part = "given" THEN Cardinality(OwnPosts(t)) ELSE 0],
  allowed <- [t \in Targets |-> IF part = "given" THEN 1 + granted[t] ELSE 1]

ImplementsContract == Contract!Spec

(* No target is stranded in flight: a crash between claim and job, before   *)
(* or after the provider call, or during the sweep is always recovered.     *)
NeverStranded ==
  \A t \in Targets : part = "given" /\ InFlight(t) ~> ~InFlight(t)
=============================================================================
