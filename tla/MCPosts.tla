------------------------------- MODULE MCPosts -------------------------------
(***************************************************************************)
(* A post up to its roll-up (PostLifecycle), and the publishing of two     *)
(* targets of one account that render to the same text, on a provider that *)
(* is looked up.  A behaviour is one of one part, chosen at the start.     *)
(***************************************************************************)
EXTENDS MCPostLifecycle, PublishedOnce

CONSTANTS Twins, Workers, AmbiguousCap

VARIABLES part, attempt, lease, claimedAt, slots, deadLetter, account, jobs,
          pc, claim, todo, verdict, crashes

(* Two retryable codes with different limits and one that is not.           *)
Codes == {"auth_expired", "provider_unavailable", "permanent_failure"}
RetryLimit == [auth_expired |-> 2, provider_unavailable |-> 3, permanent_failure |-> 0]

T == INSTANCE Publishing WITH Targets <- Twins,
       Lookup <- TRUE, IdemKey <- FALSE, SameText <- TRUE,
       LateCodes <- {"permanent_failure"}, Faults <- {},
       MaxAttempt <- 2, MaxVersion <- 2, MaxCrashes <- 0, MaxRetries <- 0

publishing == <<state, version, attempt, lease, ppid, claimedAt, slots, deadLetter, account,
                usage, jobs, pc, claim, todo, verdict, posts, calls, granted, crashes>>

PostsInit ==
  /\ part \in {"lifecycle", "twins"}
  /\ Init
  /\ part = "lifecycle" \/ (~paid /\ targetState = [t \in Targets |-> "absent"])
  /\ T!Init

PostsNext ==
  /\ UNCHANGED part
  /\ IF part = "lifecycle" THEN Next ELSE UNCHANGED vars
  /\ IF part = "twins" THEN T!Next ELSE UNCHANGED publishing

PostsSpec == PostsInit /\ [][PostsNext]_<<part, vars, publishing>>

PostsSymmetry == Symmetry \cup Permutations(Workers)
=============================================================================
