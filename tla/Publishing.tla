----------------------------- MODULE Publishing -----------------------------
(***************************************************************************)
(* The publishing core: the rows of post_targets, the publish jobs handed  *)
(* to the queue, the worker processes that run the due scan, a publish job *)
(* or the lease sweeper, and the provider they call.                       *)
(*                                                                         *)
(* A worker step is one database transaction or one provider call of the   *)
(* code, so the interleavings are those of several worker processes over   *)
(* one database.  Time is abstract: a backoff is over whenever the due     *)
(* scan picks the row, and a lease is live until LeaseExpires.             *)
(***************************************************************************)
EXTENDS Integers, Sequences, FiniteSets, PublishedOnce

CONSTANTS
  Targets,       (* post_targets rows, all of one connected account        *)
  Workers,       (* concurrent task slots of the worker processes          *)
  Codes,         (* normalized failure codes the provider may answer with  *)
  RetryLimit,    (* RETRY_POLICY: maxAttempts of a code, 0 if not retryable *)
  AmbiguousCap,  (* AMBIGUOUS_ATTEMPT_CAP                                  *)
  Lookup,        (* capabilities.supportsRecentPostLookup                  *)
  IdemKey,       (* capabilities.supportsIdempotencyKey                    *)
  SameText,      (* TRUE if the targets render to the same text            *)
  LateCodes,     (* codes the provider may answer with after it posted     *)
  Faults,        (* environment faults this instance admits                *)
  MaxAttempt,    (* bound: claims of one target                            *)
  MaxVersion,    (* bound: versions at which a busy row expires or is moved *)
  MaxCrashes,    (* bound: worker crashes                                  *)
  MaxRetries,    (* bound: human retries of one target                     *)
  None           (* the empty value of a worker's local variable           *)

(* "slow_worker": a lease may run out under a job that still waits in the   *)
(*   queue or a worker that is still busy with it.                          *)
(* "clock_skew": the provider stamps a post before the claim that made it. *)
(* "long_outage": a post leaves RECONCILE_WINDOW_MS before it is looked up.*)
FaultKinds == {"slow_worker", "clock_skew", "long_outage"}

ASSUME PublishingAssumption ==
  /\ RetryLimit \in [Codes -> Nat]
  /\ LateCodes \subseteq Codes
  /\ Faults \subseteq FaultKinds
  /\ Lookup \in BOOLEAN /\ IdemKey \in BOOLEAN /\ SameText \in BOOLEAN
  /\ AmbiguousCap \in Nat /\ MaxAttempt \in Nat /\ MaxVersion \in Nat
  /\ MaxCrashes \in Nat /\ MaxRetries \in Nat

VARIABLES
  attempt, lease, claimedAt,  (* post_targets, with state, version, ppid    *)
  slots,         (* publish_attempts, by target and attempt number         *)
  deadLetter,    (* dead_letters, by target                                *)
  account,       (* connected_accounts.status                              *)
  jobs,          (* publish-target jobs the queue holds                    *)
  pc, claim, todo, verdict,                         (* per worker           *)
  crashes

row     == <<state, version, attempt, lease, ppid, claimedAt>>
history == <<calls, granted, crashes>>
local   == <<pc, claim, todo, verdict>>
vars    == <<row, slots, deadLetter, account, usage, jobs, local, posts, history>>

States      == {"scheduled", "publishing", "reconciling", "published", "failed",
                "needs_review", "canceled", "skipped"}
InFlight(t) == state[t] \in {"publishing", "reconciling"}
Attempts    == 1..MaxAttempt
Labels      == {"idle", "fanout", "slot", "gates", "call", "lookup", "confirm", "write", "sweep"}

Claim   == [t : Targets, v : Nat, a : Attempts, at : Nat]
ASSUME NoneAssumption == None \notin Claim

Verdict == [op : {"publish", "requeue", "fail", "review"}, id : Nat, dead : BOOLEAN]

Publish(i) == [op |-> "publish", id |-> i, dead |-> FALSE]
Requeue    == [op |-> "requeue", id |-> 0, dead |-> FALSE]
Fail(d)    == [op |-> "fail", id |-> 0, dead |-> d]
Review     == [op |-> "review", id |-> 0, dead |-> FALSE]

-----------------------------------------------------------------------------
(* Reads *)

(* Mutant: the writers forget the compare-and-set.                          *)
StillOursUnchecked(c) == c.t \in Targets

StillOurs(c) == InFlight(c.t) /\ version[c.t] = c.v

(* A provider post the lookup of claim c accepts: the same text, created at *)
(* or after the claim, inside the window.                                   *)
Taken(c, i) == \E u \in Targets \ {c.t} : ppid[u] = i

Recent(c) == {i \in DOMAIN posts : i > c.at /\ posts[i].seen}

(* Mutant: a post another target owns counts as no post.                    *)
CandidatesUntaken(c) ==
  {i \in Recent(c) : ~Taken(c, i) /\ (SameText \/ posts[i].by = c.t)}

Candidates(c) == {i \in Recent(c) : SameText \/ posts[i].by = c.t}

(* What an ambiguous outcome leads to when no lookup can be asked.          *)
WithoutLookup(c) ==
  IF IdemKey /\ c.a < AmbiguousCap THEN Requeue ELSE Review

-----------------------------------------------------------------------------
(* Local steps of a worker *)

Goto(p, l)  == pc' = [pc EXCEPT ![p] = l]
Decide(p, w) == Goto(p, "write") /\ verdict' = [verdict EXCEPT ![p] = w]

(* The task in hand is over: a publish job leaves the queue, a sweep goes   *)
(* on with the rest of its batch.                                           *)
Finish(p) ==
  /\ jobs' = jobs \ {claim[p]}
  /\ Goto(p, IF todo[p] = {} THEN "idle" ELSE "sweep")
  /\ claim' = [claim EXCEPT ![p] = None]
  /\ verdict' = [verdict EXCEPT ![p] = None]
  /\ UNCHANGED todo

(* reconcile(): the capabilities decide what an ambiguous outcome means.    *)
Reconcile(p, c) ==
  IF Lookup THEN Goto(p, "lookup") /\ UNCHANGED verdict
            ELSE Decide(p, WithoutLookup(c))

-----------------------------------------------------------------------------
(* Due scan: claim a batch in one transaction, then add one job per claim. *)

NewClaim(t) == [t |-> t, v |-> version[t] + 1, a |-> attempt[t] + 1, at |-> Len(posts)]

Due == {t \in Targets : /\ state[t] = "scheduled"
                        /\ account = "active"
                        /\ attempt[t] < MaxAttempt}

ClaimDueTargets(p) ==
  /\ pc[p] = "idle"
  /\ \E S \in (SUBSET Due) \ {{}} :
       /\ state'     = [t \in Targets |-> IF t \in S THEN "publishing" ELSE state[t]]
       /\ attempt'   = [t \in Targets |-> IF t \in S THEN attempt[t] + 1 ELSE attempt[t]]
       /\ version'   = [t \in Targets |-> IF t \in S THEN version[t] + 1 ELSE version[t]]
       /\ lease'     = [t \in Targets |-> IF t \in S THEN "live" ELSE lease[t]]
       /\ claimedAt' = [t \in Targets |-> IF t \in S THEN Len(posts) ELSE claimedAt[t]]
       /\ todo'      = [todo EXCEPT ![p] = {NewClaim(t) : t \in S}]
  /\ Goto(p, "fanout")
  /\ UNCHANGED <<ppid, slots, deadLetter, account, usage, jobs, claim, verdict, posts, history>>

AddJob(p) ==
  /\ pc[p] = "fanout"
  /\ \E c \in todo[p] :
       /\ jobs' = jobs \cup {c}
       /\ todo' = [todo EXCEPT ![p] = @ \ {c}]
       /\ Goto(p, IF todo[p] = {c} THEN "idle" ELSE "fanout")
  /\ UNCHANGED <<row, slots, deadLetter, account, usage, claim, verdict, posts, history>>

-----------------------------------------------------------------------------
(* A publish job.  The queue delivers at least once: a job stays queued     *)
(* until a worker has finished it, and two workers may hold the same one.   *)

Deliver(p) ==
  /\ pc[p] = "idle"
  /\ \E c \in jobs :
       IF StillOurs(c)
         THEN /\ claim' = [claim EXCEPT ![p] = c]
              /\ Goto(p, "slot")
              /\ UNCHANGED jobs
         ELSE /\ jobs' = jobs \ {c}
              /\ UNCHANGED <<pc, claim>>
  /\ UNCHANGED <<row, slots, deadLetter, account, usage, todo, verdict, posts, history>>

(* Mutant: the insert ignores the conflict and goes on.                     *)
ClaimAttemptSlotTwice(p) ==
  /\ pc[p] = "slot"
  /\ slots' = [slots EXCEPT ![claim[p].t][claim[p].a] = "started"]
  /\ Goto(p, "gates")
  /\ UNCHANGED <<row, deadLetter, account, usage, jobs, claim, todo, verdict, posts, history>>

ClaimAttemptSlot(p) ==
  /\ pc[p] = "slot"
  /\ LET c == claim[p] IN
       \/ /\ slots[c.t][c.a] = "none"
          /\ slots' = [slots EXCEPT ![c.t][c.a] = "started"]
          /\ Goto(p, "gates")
          /\ UNCHANGED <<jobs, claim, todo, verdict>>
       \/ /\ slots[c.t][c.a] # "none"
          /\ Finish(p)
          /\ UNCHANGED slots
  /\ UNCHANGED <<row, deadLetter, account, usage, posts, history>>

(* Circuit breaker and rate limit answer either way; both send the target   *)
(* back.  A token that cannot be refreshed also marks the account; one that *)
(* was deleted by a disconnect does not.                                    *)
GateRefuses(p) ==
  /\ pc[p] = "gates"
  /\ Decide(p, Requeue)
  /\ \/ UNCHANGED account
     \/ account # "disconnected" /\ account' = "auth_expired"
  /\ UNCHANGED <<row, slots, deadLetter, usage, jobs, claim, todo, posts, history>>

GatesPass(p) ==
  /\ pc[p] = "gates"
  /\ account # "disconnected"
  /\ Goto(p, "call")
  /\ UNCHANGED <<row, slots, deadLetter, account, usage, jobs, claim, todo, verdict, posts, history>>

(* One stable key per target, sent with every attempt.                      *)
IdempotencyKey(c) == <<"mrdn", c.t>>

(* The provider side of publish(): if it honours keys, a key it has seen    *)
(* gets the same post again; otherwise every accepted call creates a post.  *)
KnownPosts(c) == {i \in DOMAIN posts : IdemKey /\ posts[i].key = IdempotencyKey(c)}

ProviderAccepts(c, i) ==
  \/ /\ i \in KnownPosts(c)
     /\ UNCHANGED posts
  \/ /\ KnownPosts(c) = {}
     /\ i = Len(posts) + 1
     /\ \E s \in (IF "clock_skew" \in Faults THEN BOOLEAN ELSE {TRUE}) :
          posts' = Append(posts, [by |-> c.t, key |-> IdempotencyKey(c), seen |-> s])

CountCall(c) == calls' = [calls EXCEPT ![c.t][c.a] = @ + 1]

PublishOk(p) ==
  /\ pc[p] = "call"
  /\ CountCall(claim[p])
  /\ \E i \in 1..(Len(posts) + 1) :
       ProviderAccepts(claim[p], i) /\ Decide(p, Publish(i))
  /\ UNCHANGED <<row, slots, deadLetter, account, usage, jobs, claim, todo, granted, crashes>>

(* The request was sent and no answer came: it may or may not have posted.  *)
(* A transaction of markPublished that fails ends here too, by the catch.   *)
PublishAmbiguous(p) ==
  /\ pc[p] = "call"
  /\ CountCall(claim[p])
  /\ \/ UNCHANGED posts
     \/ \E i \in 1..(Len(posts) + 1) : ProviderAccepts(claim[p], i)
  /\ Reconcile(p, claim[p])
  /\ UNCHANGED <<row, slots, deadLetter, account, usage, jobs, claim, todo, granted, crashes>>

(* handleNormalizedError: a retryable code below its limit goes back to     *)
(* scheduled, anything else is failed, after a lookup if there is one.      *)
(* Mutant: a terminal error fails the target without a lookup.              *)
PublishErrorUnconfirmed(p) ==
  /\ pc[p] = "call"
  /\ CountCall(claim[p])
  /\ \E code \in Codes :
       /\ \/ UNCHANGED posts
          \/ code \in LateCodes /\ \E i \in 1..(Len(posts) + 1) : ProviderAccepts(claim[p], i)
       /\ Decide(p, IF claim[p].a < RetryLimit[code] THEN Requeue
                                                   ELSE Fail(RetryLimit[code] > 0))
  /\ UNCHANGED <<row, slots, deadLetter, account, usage, jobs, claim, todo, granted, crashes>>

PublishError(p) ==
  /\ pc[p] = "call"
  /\ CountCall(claim[p])
  /\ \E code \in Codes :
       LET c == claim[p] IN
       /\ \/ UNCHANGED posts
          \/ code \in LateCodes /\ \E i \in 1..(Len(posts) + 1) : ProviderAccepts(c, i)
       /\ \/ /\ c.a < RetryLimit[code]
             /\ Decide(p, Requeue)
          \/ /\ c.a >= RetryLimit[code]
             /\ IF Lookup
                  THEN /\ Goto(p, "confirm")
                       /\ verdict' = [verdict EXCEPT ![p] = Fail(RetryLimit[code] > 0)]
                  ELSE Decide(p, Fail(RetryLimit[code] > 0))
  /\ UNCHANGED <<row, slots, deadLetter, account, usage, jobs, claim, todo, granted, crashes>>

-----------------------------------------------------------------------------
(* lookupOutcome: adopt a candidate nobody owns, report confirmed absence,  *)
(* or give up as ambiguous (every candidate taken, or the lookup failed).   *)

Adopts(p) ==
  \E i \in Candidates(claim[p]) : ~Taken(claim[p], i) /\ Decide(p, Publish(i))

AllTaken(c) == Candidates(c) # {} /\ \A i \in Candidates(c) : Taken(c, i)

TokenTrouble ==
  \/ UNCHANGED account
  \/ account # "disconnected" /\ account' = "auth_expired"

(* Called from reconcile(). *)
LookupAfterAmbiguous(p) ==
  /\ pc[p] = "lookup"
  /\ LET c == claim[p] IN
       \/ /\ account # "disconnected"
          /\ UNCHANGED account
          /\ \/ Adopts(p)
             \/ /\ Candidates(c) = {}
                /\ Decide(p, IF c.a >= AmbiguousCap THEN Review ELSE Requeue)
             \/ AllTaken(c) /\ Decide(p, WithoutLookup(c))
       \/ TokenTrouble /\ Decide(p, WithoutLookup(c))
  /\ UNCHANGED <<row, slots, deadLetter, usage, jobs, claim, todo, posts, history>>

(* Called from markFailedWithReconcile(), with the failure in verdict.      *)
LookupBeforeFailing(p) ==
  /\ pc[p] = "confirm"
  /\ LET c == claim[p] IN
       \/ /\ account # "disconnected"
          /\ UNCHANGED account
          /\ \/ Adopts(p)
             \/ Candidates(c) = {} /\ Decide(p, verdict[p])
             \/ AllTaken(c) /\ Decide(p, Review)
       \/ TokenTrouble /\ Decide(p, Review)
  /\ UNCHANGED <<row, slots, deadLetter, usage, jobs, claim, todo, posts, history>>

-----------------------------------------------------------------------------
(* Outcome writers: each a compare-and-set on (state, version).             *)

SetRow(c, s) ==
  /\ state'   = [state EXCEPT ![c.t] = s]
  /\ version' = [version EXCEPT ![c.t] = @ + 1]
  /\ lease'   = [lease EXCEPT ![c.t] = "none"]
  /\ UNCHANGED <<attempt, claimedAt>>

RecordAttempt(c, s) == slots' = [slots EXCEPT ![c.t][c.a] = s]

Writing(p, op) == pc[p] = "write" /\ verdict[p].op = op

MarkPublished(p) ==
  /\ Writing(p, "publish")
  /\ StillOurs(claim[p])
  /\ SetRow(claim[p], "published")
  /\ ppid' = [ppid EXCEPT ![claim[p].t] = verdict[p].id]
  /\ RecordAttempt(claim[p], "succeeded")
  /\ usage' = usage + 1
  /\ Finish(p)
  /\ UNCHANGED <<deadLetter, account, posts, history>>

RequeueScheduled(p) ==
  /\ Writing(p, "requeue")
  /\ StillOurs(claim[p])
  /\ SetRow(claim[p], "scheduled")
  /\ Finish(p)
  /\ UNCHANGED <<ppid, slots, deadLetter, account, usage, posts, history>>

MarkFailed(p) ==
  /\ Writing(p, "fail")
  /\ StillOurs(claim[p])
  /\ SetRow(claim[p], "failed")
  /\ RecordAttempt(claim[p], "failed")
  /\ deadLetter' = [deadLetter EXCEPT ![claim[p].t] =
                      IF verdict[p].dead /\ @ = "none" THEN "open" ELSE @]
  /\ Finish(p)
  /\ UNCHANGED <<ppid, account, usage, posts, history>>

MarkNeedsReview(p) ==
  /\ Writing(p, "review")
  /\ StillOurs(claim[p])
  /\ SetRow(claim[p], "needs_review")
  /\ Finish(p)
  /\ UNCHANGED <<ppid, slots, deadLetter, account, usage, posts, history>>

(* The row has moved on: the compare-and-set matches nothing.               *)
WriteLost(p) ==
  /\ pc[p] = "write"
  /\ ~StillOurs(claim[p])
  /\ Finish(p)
  /\ UNCHANGED <<row, slots, deadLetter, account, usage, posts, history>>

-----------------------------------------------------------------------------
(* Lease sweeper: take a batch of expired rows in one transaction, then     *)
(* reconcile them one by one.                                               *)

Current(c, t) == c.t = t /\ c.v = version[t]

Attended(t) ==
  \/ \E p \in Workers : \/ claim[p] # None /\ Current(claim[p], t)
                       \/ \E c \in todo[p] : Current(c, t)
  \/ \E c \in jobs : Current(c, t) /\ slots[c.t][c.a] = "none"

LeaseExpires(t) ==
  /\ lease[t] = "live"
  /\ ~Attended(t) \/ ("slow_worker" \in Faults /\ version[t] < MaxVersion)
  /\ lease' = [lease EXCEPT ![t] = "expired"]
  /\ UNCHANGED <<state, version, attempt, ppid, claimedAt, slots, deadLetter, account,
                 usage, jobs, local, posts, history>>

(* Mutant: the sweeper forgets the rows an earlier sweep was reconciling.   *)
ExpiredPublishing == {t \in Targets : lease[t] = "expired" /\ state[t] = "publishing"}

Expired == {t \in Targets : lease[t] = "expired" /\ InFlight(t)}

(* Mutant: the reclaim counts as the claim.                                 *)
SweptClaimReclaimed(t) ==
  [t |-> t, v |-> version[t] + 1, a |-> attempt[t], at |-> Len(posts)]

SweptClaim(t) == [t |-> t, v |-> version[t] + 1, a |-> attempt[t], at |-> claimedAt[t]]

LeaseSweeperTick(p) ==
  /\ pc[p] = "idle"
  /\ \E S \in (SUBSET Expired) \ {{}} :
       /\ state'   = [t \in Targets |-> IF t \in S THEN "reconciling" ELSE state[t]]
       /\ version' = [t \in Targets |-> IF t \in S THEN version[t] + 1 ELSE version[t]]
       /\ lease'   = [t \in Targets |-> IF t \in S THEN "live" ELSE lease[t]]
       /\ todo'    = [todo EXCEPT ![p] = {SweptClaim(t) : t \in S}]
  /\ Goto(p, "sweep")
  /\ UNCHANGED <<attempt, ppid, claimedAt, slots, deadLetter, account, usage, jobs, claim,
                 verdict, posts, history>>

ReconcileSwept(p) ==
  /\ pc[p] = "sweep"
  /\ \E c \in todo[p] :
       /\ claim' = [claim EXCEPT ![p] = c]
       /\ todo' = [todo EXCEPT ![p] = @ \ {c}]
       /\ Reconcile(p, c)
  /\ UNCHANGED <<row, slots, deadLetter, account, usage, jobs, posts, history>>

-----------------------------------------------------------------------------
(* People: retry, dead-letter requeue, cancel, reschedule, disconnect and   *)
(* reconnect.  Each is one transaction.                                     *)

Reopen(t) ==
  /\ state'   = [state EXCEPT ![t] = "scheduled"]
  /\ version' = [version EXCEPT ![t] = @ + 1]
  /\ granted' = [granted EXCEPT ![t] = @ + 1]
  /\ UNCHANGED <<attempt, lease, ppid, claimedAt>>

RetryTarget(t) ==
  /\ granted[t] < MaxRetries
  /\ state[t] \in {"failed", "needs_review"}
  /\ Reopen(t)
  /\ deadLetter' = [deadLetter EXCEPT ![t] = IF @ = "open" THEN "requeued" ELSE @]
  /\ UNCHANGED <<slots, account, usage, jobs, local, posts, calls, crashes>>

RequeueDeadLetter(t) ==
  /\ granted[t] < MaxRetries
  /\ \/ state[t] = "failed" /\ Reopen(t)
     \/ state[t] # "failed" /\ UNCHANGED <<row, granted>>
  /\ deadLetter' = [deadLetter EXCEPT ![t] = IF @ = "none" THEN @ ELSE "requeued"]
  /\ UNCHANGED <<slots, account, usage, jobs, local, posts, calls, crashes>>

CancelTarget(t) ==
  /\ state[t] = "scheduled"
  /\ state'   = [state EXCEPT ![t] = "canceled"]
  /\ version' = [version EXCEPT ![t] = @ + 1]
  /\ UNCHANGED <<attempt, lease, ppid, claimedAt, slots, deadLetter, account, usage, jobs,
                 local, posts, history>>

RescheduleTarget(t) ==
  /\ state[t] = "scheduled"
  /\ account = "active"
  /\ version[t] < MaxVersion
  /\ version' = [version EXCEPT ![t] = @ + 1]
  /\ UNCHANGED <<state, attempt, lease, ppid, claimedAt, slots, deadLetter, account, usage,
                 jobs, local, posts, history>>

DisconnectAccount ==
  /\ account # "disconnected"
  /\ account' = "disconnected"
  /\ state' = [t \in Targets |-> IF state[t] = "scheduled" THEN "skipped" ELSE state[t]]
  /\ lease' = [t \in Targets |-> IF state[t] = "scheduled" THEN "none" ELSE lease[t]]
  /\ UNCHANGED <<version, attempt, ppid, claimedAt, slots, deadLetter, usage, jobs, local,
                 posts, history>>

ReconnectAccount ==
  /\ account # "active"
  /\ account' = "active"
  /\ UNCHANGED <<row, slots, deadLetter, usage, jobs, local, posts, history>>

-----------------------------------------------------------------------------
(* Environment *)

(* The process dies, or a database error fails the task in hand: its locals *)
(* are gone, the job stays queued, rows and provider keep what they have.   *)
Crash(p) ==
  /\ pc[p] # "idle"
  /\ crashes < MaxCrashes
  /\ crashes' = crashes + 1
  /\ Goto(p, "idle")
  /\ claim'   = [claim EXCEPT ![p] = None]
  /\ todo'    = [todo EXCEPT ![p] = {}]
  /\ verdict' = [verdict EXCEPT ![p] = None]
  /\ UNCHANGED <<row, slots, deadLetter, account, usage, jobs, posts, calls, granted>>

PostAges(i) ==
  /\ "long_outage" \in Faults
  /\ posts[i].seen
  /\ posts' = [posts EXCEPT ![i].seen = FALSE]
  /\ UNCHANGED <<row, slots, deadLetter, account, usage, jobs, local, history>>

-----------------------------------------------------------------------------
Init ==
  /\ state     = [t \in Targets |-> "scheduled"]
  /\ version   = [t \in Targets |-> 0]
  /\ attempt   = [t \in Targets |-> 0]
  /\ lease     = [t \in Targets |-> "none"]
  /\ ppid      = [t \in Targets |-> 0]
  /\ claimedAt = [t \in Targets |-> 0]
  /\ slots     = [t \in Targets |-> [a \in Attempts |-> "none"]]
  /\ deadLetter = [t \in Targets |-> "none"]
  /\ account   = "active"
  /\ usage     = 0
  /\ jobs      = {}
  /\ pc        = [p \in Workers |-> "idle"]
  /\ claim     = [p \in Workers |-> None]
  /\ todo      = [p \in Workers |-> {}]
  /\ verdict   = [p \in Workers |-> None]
  /\ posts     = <<>>
  /\ calls     = [t \in Targets |-> [a \in Attempts |-> 0]]
  /\ granted   = [t \in Targets |-> 0]
  /\ crashes   = 0

PublishJob(p) ==
  \/ Deliver(p) \/ ClaimAttemptSlot(p)
  \/ GateRefuses(p) \/ GatesPass(p)
  \/ PublishOk(p) \/ PublishAmbiguous(p) \/ PublishError(p)

Outcome(p) ==
  \/ LookupAfterAmbiguous(p) \/ LookupBeforeFailing(p)
  \/ MarkPublished(p) \/ RequeueScheduled(p) \/ MarkFailed(p) \/ MarkNeedsReview(p)
  \/ WriteLost(p)

Worker(p) ==
  \/ ClaimDueTargets(p) \/ AddJob(p)
  \/ PublishJob(p) \/ Outcome(p)
  \/ LeaseSweeperTick(p) \/ ReconcileSwept(p)

Person(t) ==
  RetryTarget(t) \/ RequeueDeadLetter(t) \/ CancelTarget(t) \/ RescheduleTarget(t)

Next ==
  \/ \E p \in Workers : Worker(p) \/ Crash(p)
  \/ \E t \in Targets : Person(t) \/ LeaseExpires(t)
  \/ DisconnectAccount \/ ReconnectAccount
  \/ \E i \in DOMAIN posts : PostAges(i)

Spec == Init /\ [][Next]_vars

-----------------------------------------------------------------------------
(* Invariants and action properties *)

TypeOK ==
  /\ state \in [Targets -> States]
  /\ version \in [Targets -> Nat]
  /\ attempt \in [Targets -> 0..MaxAttempt]
  /\ lease \in [Targets -> {"none", "live", "expired"}]
  /\ ppid \in [Targets -> Nat]
  /\ claimedAt \in [Targets -> Nat]
  /\ slots \in [Targets -> [Attempts -> {"none", "started", "succeeded", "failed"}]]
  /\ deadLetter \in [Targets -> {"none", "open", "requeued"}]
  /\ account \in {"active", "auth_expired", "disconnected"}
  /\ usage \in Nat
  /\ jobs \subseteq Claim
  /\ pc \in [Workers -> Labels]
  /\ claim \in [Workers -> Claim \cup {None}]
  /\ todo \in [Workers -> SUBSET Claim]
  /\ verdict \in [Workers -> Verdict \cup {None}]
  /\ posts \in Seq([by : Targets, key : {<<"mrdn", t>> : t \in Targets}, seen : BOOLEAN])
  /\ calls \in [Targets -> [Attempts -> Nat]]
  /\ granted \in [Targets -> Nat]
  /\ crashes \in Nat

(* A row holds a lease exactly while it is in flight, so the sweeper finds  *)
(* every stranded row and touches no other.                                 *)
LeaseMatchesFlight == \A t \in Targets : InFlight(t) <=> lease[t] # "none"

(* A target that exhausts its retries leaves an open dead letter, the only  *)
(* thing the dead_letters metric and the runbook count.                     *)
ExhaustionOpensDeadLetter ==
  [][\A p \in Workers : MarkFailed(p) /\ verdict[p].dead =>
       deadLetter'[claim[p].t] = "open"]_vars

-----------------------------------------------------------------------------
(* Liveness.  Each running task goes on unless its process crashes, jobs    *)
(* are delivered, time passes, and cron starts the sweeper every minute.    *)
Fairness ==
  /\ \A p \in Workers : WF_vars(Worker(p) /\ pc[p] # "idle")
  /\ WF_vars(\E p \in Workers : Deliver(p))
  /\ SF_vars(\E p \in Workers : LeaseSweeperTick(p))
  /\ \A t \in Targets : WF_vars(LeaseExpires(t))

FairSpec == Spec /\ Fairness
=============================================================================
