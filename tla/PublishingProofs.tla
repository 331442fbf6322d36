-------------------------- MODULE PublishingProofs --------------------------
(* Proofs about the publishing core, for every value of its constants.      *)
EXTENDS Publishing, SequenceTheorems, FiniteSetTheorems, TLAPS

-----------------------------------------------------------------------------
(* Type correctness.  A worker that is past the entry check holds a claim,  *)
(* one that is about to write holds a verdict, and a row in flight has been *)
(* claimed at least once: the sweeper rebuilds a claim from the row.        *)

HoldsClaim ==
  \A p \in Workers :
    /\ pc[p] \notin {"idle", "fanout", "sweep"} => claim[p] \in Claim
    /\ pc[p] \in {"write", "confirm"} => verdict[p] \in Verdict

FlightWasClaimed == \A t \in Targets : InFlight(t) => attempt[t] \in Attempts

TypeInv == TypeOK /\ HoldsClaim /\ FlightWasClaimed

LEMMA InitTypeInv == Init => TypeInv
BY PublishingAssumption DEF Init, TypeInv, TypeOK, HoldsClaim, FlightWasClaimed, InFlight, States, Labels

(* The claims a scan or a sweep hands out are claims.                       *)
LEMMA NewClaimType ==
  ASSUME TypeInv, NEW t \in Due
  PROVE  NewClaim(t) \in Claim
BY PublishingAssumption, LenProperties DEF TypeInv, TypeOK, Due, NewClaim, Claim, Attempts

LEMMA SweptClaimType ==
  ASSUME TypeInv, NEW t \in Expired
  PROVE  SweptClaim(t) \in Claim
BY DEF TypeInv, TypeOK, FlightWasClaimed, Expired, SweptClaim, Claim

(* What the shared parts of the actions keep.                               *)
LEMMA VerdictType ==
  /\ Requeue \in Verdict /\ Review \in Verdict
  /\ \A d \in BOOLEAN : Fail(d) \in Verdict
  /\ \A i \in Nat : Publish(i) \in Verdict
BY DEF Requeue, Review, Fail, Publish, Verdict

LEMMA DecideType ==
  ASSUME TypeInv, NEW p \in Workers, claim[p] \in Claim,
         NEW w \in Verdict, Decide(p, w), UNCHANGED claim
  PROVE  /\ pc' \in [Workers -> Labels]
         /\ verdict' \in [Workers -> Verdict \cup {None}]
         /\ HoldsClaim'
BY DEF TypeInv, TypeOK, HoldsClaim, Decide, Goto, Labels

LEMMA ReconcileType ==
  ASSUME TypeInv, NEW p \in Workers, NEW c \in Claim, Reconcile(p, c),
         claim' = [claim EXCEPT ![p] = c]
  PROVE  /\ pc' \in [Workers -> Labels]
         /\ verdict' \in [Workers -> Verdict \cup {None}]
         /\ HoldsClaim'
<1>1. WithoutLookup(c) \in Verdict
  BY VerdictType DEF WithoutLookup
<1> QED
  BY <1>1, ZenonT(40) DEF TypeInv, TypeOK, HoldsClaim, Reconcile, Decide, Goto, Labels

LEMMA FinishType ==
  ASSUME TypeInv, NEW p \in Workers, Finish(p)
  PROVE  /\ jobs' \subseteq Claim
         /\ pc' \in [Workers -> Labels]
         /\ claim' \in [Workers -> Claim \cup {None}]
         /\ todo' \in [Workers -> SUBSET Claim]
         /\ verdict' \in [Workers -> Verdict \cup {None}]
         /\ HoldsClaim'
BY DEF TypeInv, TypeOK, HoldsClaim, Finish, Goto, Labels

LEMMA SetRowType ==
  ASSUME TypeInv, NEW c \in Claim,
         NEW s \in States \ {"publishing", "reconciling"}, SetRow(c, s)
  PROVE  /\ state' \in [Targets -> States]
         /\ version' \in [Targets -> Nat]
         /\ lease' \in [Targets -> {"none", "live", "expired"}]
         /\ UNCHANGED <<attempt, claimedAt>>
         /\ FlightWasClaimed'
BY DEF TypeInv, TypeOK, FlightWasClaimed, InFlight, SetRow, Claim

LEMMA RecordAttemptType ==
  ASSUME TypeInv, NEW c \in Claim,
         NEW s \in {"succeeded", "failed"}, RecordAttempt(c, s)
  PROVE  slots' \in [Targets -> [Attempts -> {"none", "started", "succeeded", "failed"}]]
BY DEF TypeInv, TypeOK, RecordAttempt, Claim

LEMMA CountCallType ==
  ASSUME TypeInv, NEW c \in Claim, CountCall(c)
  PROVE  calls' \in [Targets -> [Attempts -> Nat]]
BY DEF TypeInv, TypeOK, CountCall, Claim

Post == [by : Targets, key : {<<"mrdn", t>> : t \in Targets}, seen : BOOLEAN]

LEMMA AcceptType ==
  ASSUME TypeInv, NEW c \in Claim, NEW i, ProviderAccepts(c, i)
  PROVE  posts' \in Seq(Post)
<1>1. posts \in Seq(Post)
  BY DEF TypeInv, TypeOK, Post
<1>2. \A s \in BOOLEAN : [by |-> c.t, key |-> IdempotencyKey(c), seen |-> s] \in Post
  BY DEF IdempotencyKey, Claim, Post
<1>3. CASE UNCHANGED posts
  BY <1>1, <1>3
<1>4. CASE \E s \in BOOLEAN :
             posts' = Append(posts, [by |-> c.t, key |-> IdempotencyKey(c), seen |-> s])
  BY <1>1, <1>2, <1>4, AppendProperties
<1> QED
  BY <1>3, <1>4 DEF ProviderAccepts

LEMMA PostIndexType ==
  ASSUME TypeInv
  PROVE  /\ Len(posts) \in Nat
         /\ \A i \in 1..(Len(posts) + 1) : i \in Nat
         /\ \A i \in DOMAIN posts : i \in Nat
<1>1. posts \in Seq(Post)
  BY DEF TypeInv, TypeOK, Post
<1>2. Len(posts) \in Nat /\ DOMAIN posts = 1..Len(posts)
  BY <1>1, LenProperties
<1> QED
  BY <1>2

LEMMA DueMayBeClaimed ==
  ASSUME attempt \in [Targets -> 0..MaxAttempt]
  PROVE  \A t \in Due : t \in Targets /\ attempt[t] + 1 \in Attempts
<1> SUFFICES ASSUME NEW t \in Due PROVE t \in Targets /\ attempt[t] + 1 \in Attempts
  OBVIOUS
<1>1. t \in Targets /\ attempt[t] < MaxAttempt
  BY DEF Due
<1>2. attempt[t] \in 0..MaxAttempt /\ MaxAttempt \in Nat
  BY <1>1, PublishingAssumption
<1> QED
  BY <1>1, <1>2 DEF Attempts

LEMMA TypeStep == TypeInv /\ [Next]_vars => TypeInv'
<1> SUFFICES ASSUME TypeInv, [Next]_vars PROVE TypeInv'
  OBVIOUS
<1> USE PublishingAssumption
    DEF TypeInv, TypeOK, HoldsClaim, FlightWasClaimed, InFlight, Goto
<1>1. ASSUME NEW p \in Workers, ClaimDueTargets(p) PROVE TypeInv'
  <2>1. PICK S \in (SUBSET Due) \ {{}} :
          /\ state'     = [t \in Targets |-> IF t \in S THEN "publishing" ELSE state[t]]
          /\ attempt'   = [t \in Targets |-> IF t \in S THEN attempt[t] + 1 ELSE attempt[t]]
          /\ version'   = [t \in Targets |-> IF t \in S THEN version[t] + 1 ELSE version[t]]
          /\ lease'     = [t \in Targets |-> IF t \in S THEN "live" ELSE lease[t]]
          /\ claimedAt' = [t \in Targets |-> IF t \in S THEN Len(posts) ELSE claimedAt[t]]
          /\ todo'      = [todo EXCEPT ![p] = {NewClaim(t) : t \in S}]
    BY <1>1 DEF ClaimDueTargets
  <2>2. {NewClaim(t) : t \in S} \subseteq Claim
    BY NewClaimType
  <2>3. S \subseteq Targets /\ \A t \in S : attempt[t] + 1 \in Attempts
    <3>1. \A t \in Due : t \in Targets /\ attempt[t] + 1 \in Attempts
      BY DueMayBeClaimed
    <3>2. S \subseteq Due
      OBVIOUS
    <3> QED
      BY <3>1, <3>2
  <2>4. Len(posts) \in Nat
    BY LenProperties
  <2>5. /\ state' \in [Targets -> States]
        /\ lease' \in [Targets -> {"none", "live", "expired"}]
        /\ pc' \in [Workers -> Labels]
    BY <1>1, <2>1 DEF ClaimDueTargets, States, Labels
  <2>6. /\ version' \in [Targets -> Nat]
        /\ claimedAt' \in [Targets -> Nat]
    BY <2>1, <2>4
  <2>7. attempt' \in [Targets -> 0..MaxAttempt]
    BY <2>1, <2>3 DEF Attempts
  <2>8. todo' \in [Workers -> SUBSET Claim]
    BY <2>1, <2>2
  <2>9. FlightWasClaimed'
    BY <2>1, <2>3
  <2>10. HoldsClaim'
    BY <1>1 DEF ClaimDueTargets
  <2> QED
    BY <1>1, <2>5, <2>6, <2>7, <2>8, <2>9, <2>10 DEF ClaimDueTargets, history
<1>2. ASSUME NEW p \in Workers, AddJob(p) PROVE TypeInv'
  BY <1>2 DEF AddJob, row, history, Labels
<1>3. ASSUME NEW p \in Workers, Deliver(p) PROVE TypeInv'
  BY <1>3, ZenonT(40) DEF Deliver, row, history, Labels
<1>4. ASSUME NEW p \in Workers, ClaimAttemptSlot(p) PROVE TypeInv'
  <2>1. claim[p] \in Claim
    BY <1>4 DEF ClaimAttemptSlot
  <2>2. CASE slots[claim[p].t][claim[p].a] = "none"
    <3>1. /\ slots' = [slots EXCEPT ![claim[p].t][claim[p].a] = "started"]
          /\ Goto(p, "gates")
          /\ UNCHANGED <<jobs, claim, todo, verdict>>
      BY <1>4, <2>2 DEF ClaimAttemptSlot
    <3>2. slots' \in [Targets -> [Attempts -> {"none", "started", "succeeded", "failed"}]]
      BY <2>1, <3>1 DEF Claim
    <3>3. pc' \in [Workers -> Labels] /\ HoldsClaim'
      BY <2>1, <3>1 DEF Labels
    <3> QED
      BY <1>4, <3>1, <3>2, <3>3 DEF ClaimAttemptSlot, row, history
  <2>3. CASE slots[claim[p].t][claim[p].a] # "none"
    <3>1. Finish(p) /\ UNCHANGED slots
      BY <1>4, <2>3 DEF ClaimAttemptSlot
    <3> QED
      BY <1>4, <3>1, FinishType DEF ClaimAttemptSlot, row, history
  <2> QED
    BY <2>2, <2>3
<1>5. ASSUME NEW p \in Workers, GateRefuses(p) PROVE TypeInv'
  BY <1>5 DEF GateRefuses, Decide, Requeue, Verdict, row, history, Labels
<1>6. ASSUME NEW p \in Workers, GatesPass(p) PROVE TypeInv'
  BY <1>6 DEF GatesPass, row, history, Labels
<1>7. ASSUME NEW p \in Workers, PublishOk(p) PROVE TypeInv'
  <2>1. claim[p] \in Claim
    BY <1>7 DEF PublishOk
  <2>2. PICK i \in 1..(Len(posts) + 1) :
          ProviderAccepts(claim[p], i) /\ Decide(p, Publish(i))
    BY <1>7 DEF PublishOk
  <2>3. Publish(i) \in Verdict
    BY PostIndexType, VerdictType
  <2> QED
    BY <1>7, <2>1, <2>2, <2>3, AcceptType, CountCallType, DecideType DEF PublishOk, Post, row
<1>8. ASSUME NEW p \in Workers, PublishAmbiguous(p) PROVE TypeInv'
  <2>1. claim[p] \in Claim
    BY <1>8 DEF PublishAmbiguous
  <2>2. posts' \in Seq(Post)
    BY <1>8, <2>1, AcceptType DEF PublishAmbiguous, Post
  <2>3. claim' = [claim EXCEPT ![p] = claim[p]]
    BY <1>8 DEF PublishAmbiguous
  <2> QED
    BY <1>8, <2>1, <2>2, <2>3, CountCallType, ReconcileType DEF PublishAmbiguous, Post, row
<1>9. ASSUME NEW p \in Workers, PublishError(p) PROVE TypeInv'
  <2>1. claim[p] \in Claim
    BY <1>9 DEF PublishError
  <2>2. posts' \in Seq(Post)
    BY <1>9, <2>1, AcceptType DEF PublishError, Post
  <2>3. PICK code \in Codes :
          \/ Decide(p, Requeue)
          \/ /\ Goto(p, "confirm")
             /\ verdict' = [verdict EXCEPT ![p] = Fail(RetryLimit[code] > 0)]
          \/ Decide(p, Fail(RetryLimit[code] > 0))
    BY <1>9 DEF PublishError
  <2>4. (RetryLimit[code] > 0) \in BOOLEAN
    OBVIOUS
  <2>5. Fail(RetryLimit[code] > 0) \in Verdict
    BY <2>4, VerdictType
  <2>6. /\ pc' \in [Workers -> Labels]
        /\ verdict' \in [Workers -> Verdict \cup {None}]
        /\ HoldsClaim'
    <3>1. UNCHANGED claim
      BY <1>9 DEF PublishError
    <3>2. CASE Decide(p, Requeue)
      BY <2>1, <3>1, <3>2, VerdictType, DecideType
    <3>3. CASE Decide(p, Fail(RetryLimit[code] > 0))
      BY <2>1, <2>5, <3>1, <3>3, DecideType
    <3>4. CASE /\ Goto(p, "confirm")
               /\ verdict' = [verdict EXCEPT ![p] = Fail(RetryLimit[code] > 0)]
      BY <2>1, <2>5, <3>1, <3>4 DEF Labels
    <3> QED
      BY <2>3, <3>2, <3>3, <3>4
  <2> QED
    BY <1>9, <2>1, <2>2, <2>6, CountCallType DEF PublishError, Post, row
<1>10. ASSUME NEW p \in Workers, LookupAfterAmbiguous(p) PROVE TypeInv'
  <2>1. claim[p] \in Claim
    BY <1>10 DEF LookupAfterAmbiguous
  <2>2. \E w \in Verdict : Decide(p, w)
    BY <1>10, <2>1, PostIndexType, VerdictType DEF LookupAfterAmbiguous, Adopts, Candidates, Recent, WithoutLookup
  <2> QED
    BY <1>10, <2>1, <2>2, DecideType DEF LookupAfterAmbiguous, TokenTrouble, row, history
<1>11. ASSUME NEW p \in Workers, LookupBeforeFailing(p) PROVE TypeInv'
  <2>1. claim[p] \in Claim
    BY <1>11 DEF LookupBeforeFailing
  <2>2. \E w \in Verdict : Decide(p, w)
    BY <1>11, <2>1, PostIndexType, VerdictType DEF LookupBeforeFailing, Adopts, Candidates, Recent
  <2> QED
    BY <1>11, <2>1, <2>2, DecideType DEF LookupBeforeFailing, TokenTrouble, row, history
<1>12. ASSUME NEW p \in Workers, MarkPublished(p) PROVE TypeInv'
  <2>1. claim[p] \in Claim
    BY <1>12 DEF MarkPublished, Writing
  <2>2. "published" \in States \ {"publishing", "reconciling"}
    BY DEF States
  <2>3. ppid' \in [Targets -> Nat] /\ usage' \in Nat
    BY <1>12, <2>1 DEF MarkPublished, Writing, Verdict, Claim
  <2> QED
    BY <1>12, <2>1, <2>2, <2>3, SetRowType, FinishType, RecordAttemptType DEF MarkPublished, history
<1>13. ASSUME NEW p \in Workers, RequeueScheduled(p) PROVE TypeInv'
  <2>1. claim[p] \in Claim
    BY <1>13 DEF RequeueScheduled, Writing
  <2>2. "scheduled" \in States \ {"publishing", "reconciling"}
    BY DEF States
  <2> QED
    BY <1>13, <2>1, <2>2, SetRowType, FinishType DEF RequeueScheduled, history
<1>14. ASSUME NEW p \in Workers, MarkFailed(p) PROVE TypeInv'
  <2>1. claim[p] \in Claim
    BY <1>14 DEF MarkFailed, Writing
  <2>2. "failed" \in States \ {"publishing", "reconciling"}
    BY DEF States
  <2>3. deadLetter' \in [Targets -> {"none", "open", "requeued"}]
    BY <1>14, <2>1 DEF MarkFailed, Claim
  <2> QED
    BY <1>14, <2>1, <2>2, <2>3, SetRowType, FinishType, RecordAttemptType DEF MarkFailed, history
<1>15. ASSUME NEW p \in Workers, MarkNeedsReview(p) PROVE TypeInv'
  <2>1. claim[p] \in Claim
    BY <1>15 DEF MarkNeedsReview, Writing
  <2>2. "needs_review" \in States \ {"publishing", "reconciling"}
    BY DEF States
  <2> QED
    BY <1>15, <2>1, <2>2, SetRowType, FinishType DEF MarkNeedsReview, history
<1>16. ASSUME NEW p \in Workers, WriteLost(p) PROVE TypeInv'
  BY <1>16 DEF WriteLost, Finish, Labels, row, history
<1>17. ASSUME NEW p \in Workers, LeaseSweeperTick(p) PROVE TypeInv'
  <2>1. PICK S \in (SUBSET Expired) \ {{}} :
          /\ state'   = [t \in Targets |-> IF t \in S THEN "reconciling" ELSE state[t]]
          /\ version' = [t \in Targets |-> IF t \in S THEN version[t] + 1 ELSE version[t]]
          /\ lease'   = [t \in Targets |-> IF t \in S THEN "live" ELSE lease[t]]
          /\ todo'    = [todo EXCEPT ![p] = {SweptClaim(t) : t \in S}]
    BY <1>17 DEF LeaseSweeperTick
  <2>2. {SweptClaim(t) : t \in S} \subseteq Claim
    BY SweptClaimType
  <2>3. todo' \in [Workers -> SUBSET Claim]
    BY <2>1, <2>2
  <2>4. FlightWasClaimed'
    BY <1>17, <2>1 DEF LeaseSweeperTick, Expired
  <2> QED
    BY <1>17, <2>1, <2>3, <2>4 DEF LeaseSweeperTick, history, Labels, States
<1>18. ASSUME NEW p \in Workers, ReconcileSwept(p) PROVE TypeInv'
  <2>1. PICK c \in todo[p] : /\ claim' = [claim EXCEPT ![p] = c]
                           /\ todo' = [todo EXCEPT ![p] = @ \ {c}]
                           /\ Reconcile(p, c)
    BY <1>18 DEF ReconcileSwept
  <2>2. c \in Claim
    OBVIOUS
  <2> QED
    BY <1>18, <2>1, <2>2, ReconcileType DEF ReconcileSwept, row, history
<1>19. ASSUME NEW p \in Workers, Crash(p) PROVE TypeInv'
  BY <1>19 DEF Crash, Labels, row
<1>20. ASSUME NEW t \in Targets, Person(t) PROVE TypeInv'
  <2>1. CASE RetryTarget(t)
    BY <2>1, SMTT(30) DEF RetryTarget, Reopen, States, local
  <2>2. CASE RequeueDeadLetter(t)
    <3>1. deadLetter' \in [Targets -> {"none", "open", "requeued"}]
      BY <2>2 DEF RequeueDeadLetter
    <3>2. CASE state[t] = "failed"
      <4>1. Reopen(t)
        BY <2>2, <3>2 DEF RequeueDeadLetter
      <4>2. UNCHANGED <<slots, account, usage, jobs, local, posts, calls, crashes>>
        BY <2>2 DEF RequeueDeadLetter
      <4> QED
        BY <3>1, <4>1, <4>2 DEF Reopen, States, local
    <3>3. CASE state[t] # "failed"
      BY <2>2, <3>1, <3>3 DEF RequeueDeadLetter, local, row
    <3> QED
      BY <3>2, <3>3
  <2>3. CASE CancelTarget(t)
    BY <2>3, SMTT(30) DEF CancelTarget, States, local, history
  <2>4. CASE RescheduleTarget(t)
    BY <2>4 DEF RescheduleTarget, local, history
  <2> QED
    BY <1>20, <2>1, <2>2, <2>3, <2>4 DEF Person
<1>21. ASSUME NEW t \in Targets, LeaseExpires(t) PROVE TypeInv'
  BY <1>21 DEF LeaseExpires, local, history
<1>22. CASE DisconnectAccount
  BY <1>22 DEF DisconnectAccount, States, local, history
<1>23. CASE ReconnectAccount
  BY <1>23 DEF ReconnectAccount, row, local, history
<1>24. ASSUME NEW i \in DOMAIN posts, PostAges(i) PROVE TypeInv'
  <2>1. posts \in Seq(Post)
    BY DEF Post
  <2> DEFINE q == [posts[i] EXCEPT !.seen = FALSE]
  <2>2. i \in 1..Len(posts)
    BY <1>24, <2>1, LenProperties
  <2>3. posts[i] \in Post
    BY <2>1, <2>2, ElementOfSeq
  <2>4. q \in Post
    BY <2>3 DEF Post
  <2>5. posts' = [posts EXCEPT ![i] = q]
    BY <1>24 DEF PostAges
  <2> HIDE DEF q
  <2>6. posts' \in Seq(Post)
    BY <2>1, <2>2, <2>4, <2>5, ExceptSeq
  <2> QED
    BY <1>24, <2>6 DEF PostAges, Post, row, local, history
<1>25. CASE UNCHANGED vars
  BY <1>25 DEF vars, row, local, history
<1> QED
  BY <1>1, <1>2, <1>3, <1>4, <1>5, <1>6, <1>7, <1>8, <1>9, <1>10, <1>11, <1>12, <1>13,
     <1>14, <1>15, <1>16, <1>17, <1>18, <1>19, <1>20, <1>21, <1>22, <1>23, <1>24, <1>25
  DEF Next, Worker, PublishJob, Outcome

THEOREM TypeCorrect == Spec => []TypeOK
<1>1. TypeInv => TypeOK
  BY DEF TypeInv
<1> QED
  BY <1>1, InitTypeInv, TypeStep, PTL DEF Spec

-----------------------------------------------------------------------------
(* One provider call per attempt.  Only the worker that inserted the slot   *)
(* of an attempt stands between the gates and the call, and it has not      *)
(* called yet.                                                              *)

Calling(p) == pc[p] \in {"gates", "call"}

SameAttempt(p, q) == claim[p].t = claim[q].t /\ claim[p].a = claim[q].a

CallersHoldSlot ==
  \A p \in Workers : Calling(p) => /\ slots[claim[p].t][claim[p].a] # "none"
                                   /\ calls[claim[p].t][claim[p].a] = 0

CallersDiffer ==
  \A p, q \in Workers : Calling(p) /\ Calling(q) /\ SameAttempt(p, q) => p = q

NoSlotNoCall ==
  \A t \in Targets, a \in Attempts : slots[t][a] = "none" => calls[t][a] = 0

AtMostOneCall == \A t \in Targets, a \in Attempts : calls[t][a] <= 1

CallInv == CallersHoldSlot /\ CallersDiffer /\ NoSlotNoCall /\ AtMostOneCall

LEMMA InitCallInv == Init => CallInv
BY DEF Init, CallInv, CallersHoldSlot, CallersDiffer, NoSlotNoCall, AtMostOneCall, Calling

(* No worker enters the call section, no slot is freed, nobody calls.       *)
QuietStep ==
  /\ UNCHANGED calls
  /\ \A t \in Targets, a \in Attempts : slots[t][a] # "none" => slots'[t][a] # "none"
  /\ \A q \in Workers : Calling(q)' => Calling(q) /\ claim'[q] = claim[q]

LEMMA QuietKeepsCallInv ==
  ASSUME TypeInv, CallInv, QuietStep
  PROVE  CallInv'
<1>1. \A q \in Workers : Calling(q) => claim[q] \in Claim
  BY DEF TypeInv, HoldsClaim, Calling
<1>2. CallersHoldSlot'
  BY <1>1 DEF CallInv, CallersHoldSlot, QuietStep, Claim
<1>3. CallersDiffer'
  BY DEF CallInv, CallersDiffer, SameAttempt, QuietStep
<1>4. NoSlotNoCall' /\ AtMostOneCall'
  BY DEF CallInv, NoSlotNoCall, AtMostOneCall, QuietStep
<1> QED
  BY <1>2, <1>3, <1>4 DEF CallInv

(* A worker in the call section calls and leaves it.                        *)
LEMMA CallKeepsCallInv ==
  ASSUME TypeInv, CallInv, NEW p \in Workers, pc[p] = "call",
         CountCall(claim[p]), UNCHANGED <<slots, claim>>,
         NEW l \in {"write", "lookup", "confirm"}, Goto(p, l)
  PROVE  CallInv'
<1> USE DEF Calling
<1>1. \A q \in Workers : Calling(q) => claim[q] \in Claim
  BY DEF TypeInv, HoldsClaim
<1>2. claim[p] \in Claim /\ claim[p].t \in Targets /\ claim[p].a \in Attempts
  BY <1>1 DEF Claim
<1>3. calls \in [Targets -> [Attempts -> Nat]] /\ pc \in [Workers -> Labels]
  BY DEF TypeInv, TypeOK
<1>4. \A t \in Targets, a \in Attempts :
        calls'[t][a] = IF t = claim[p].t /\ a = claim[p].a THEN 1 ELSE calls[t][a]
  BY <1>2, <1>3 DEF CountCall, CallInv, CallersHoldSlot
<1>5. \A q \in Workers : Calling(q)' => Calling(q) /\ q # p
  BY <1>3 DEF Goto
<1>6. \A q \in Workers : Calling(q)' =>
        claim[q].t \in Targets /\ claim[q].a \in Attempts /\ ~SameAttempt(p, q)
  BY <1>1, <1>5 DEF CallInv, CallersDiffer, Claim
<1>7. CallersHoldSlot'
  BY <1>4, <1>5, <1>6 DEF CallInv, CallersHoldSlot, SameAttempt
<1>8. CallersDiffer'
  BY <1>5 DEF CallInv, CallersDiffer, SameAttempt
<1>9. NoSlotNoCall'
  BY <1>2, <1>4 DEF CallInv, CallersHoldSlot, NoSlotNoCall
<1>10. AtMostOneCall'
  BY <1>4 DEF CallInv, AtMostOneCall
<1> QED
  BY <1>7, <1>8, <1>9, <1>10 DEF CallInv

(* A worker that wins the slot enters the call section: nobody else is in   *)
(* it for this attempt, because the slot was free.                          *)
LEMMA SlotKeepsCallInv ==
  ASSUME TypeInv, CallInv, NEW p \in Workers, pc[p] = "slot",
         slots[claim[p].t][claim[p].a] = "none",
         slots' = [slots EXCEPT ![claim[p].t][claim[p].a] = "started"],
         Goto(p, "gates"), UNCHANGED <<claim, calls>>
  PROVE  CallInv'
<1> USE DEF Calling
<1>1. \A q \in Workers : Calling(q) => claim[q] \in Claim
  BY DEF TypeInv, HoldsClaim
<1>2. claim[p].t \in Targets /\ claim[p].a \in Attempts
  BY DEF TypeInv, HoldsClaim, Claim
<1>3. \A t \in Targets, a \in Attempts :
        slots'[t][a] = IF t = claim[p].t /\ a = claim[p].a THEN "started" ELSE slots[t][a]
  BY <1>2 DEF TypeInv, TypeOK
<1>4. \A q \in Workers : Calling(q)' => q = p \/ Calling(q)
  BY DEF TypeInv, TypeOK, Goto
<1>5. \A q \in Workers : Calling(q) => ~SameAttempt(p, q) /\ ~SameAttempt(q, p)
  BY DEF CallInv, CallersHoldSlot, SameAttempt
<1>6. calls[claim[p].t][claim[p].a] = 0
  BY <1>2 DEF CallInv, NoSlotNoCall
<1>7. CallersHoldSlot'
  BY <1>1, <1>2, <1>3, <1>4, <1>6 DEF CallInv, CallersHoldSlot, Claim
<1>8. CallersDiffer'
  BY <1>4, <1>5 DEF CallInv, CallersDiffer, SameAttempt
<1>9. NoSlotNoCall' /\ AtMostOneCall'
  BY <1>3 DEF CallInv, NoSlotNoCall, AtMostOneCall
<1> QED
  BY <1>7, <1>8, <1>9 DEF CallInv

LEMMA FinishIsQuiet ==
  ASSUME TypeInv, NEW p \in Workers, Finish(p)
  PROVE  \A q \in Workers : Calling(q)' => Calling(q) /\ claim'[q] = claim[q]
BY DEF TypeInv, TypeOK, Finish, Goto, Calling

LEMMA RecordIsQuiet ==
  ASSUME TypeInv, NEW c \in Claim, NEW s \in {"succeeded", "failed"}, RecordAttempt(c, s)
  PROVE  \A t \in Targets, a \in Attempts : slots[t][a] # "none" => slots'[t][a] # "none"
BY DEF TypeInv, TypeOK, RecordAttempt, Claim

LEMMA CallStep == TypeInv /\ CallInv /\ [Next]_vars => CallInv'
<1> SUFFICES ASSUME TypeInv, CallInv, [Next]_vars PROVE CallInv'
  OBVIOUS
<1>0. pc \in [Workers -> Labels] /\ claim \in [Workers -> Claim \cup {None}]
  BY DEF TypeInv, TypeOK
<1>1. ASSUME NEW p \in Workers,
             ClaimDueTargets(p) \/ AddJob(p) \/ Deliver(p) \/ LeaseSweeperTick(p)
      PROVE  CallInv'
  <2>1. QuietStep
    BY <1>0, <1>1 DEF ClaimDueTargets, AddJob, Deliver, LeaseSweeperTick, Goto, QuietStep, Calling, row, history
  <2> QED
    BY <2>1, QuietKeepsCallInv
<1>2. ASSUME NEW p \in Workers, ClaimAttemptSlot(p) PROVE CallInv'
  <2>1. CASE slots[claim[p].t][claim[p].a] = "none"
    BY <1>2, <2>1, SlotKeepsCallInv DEF ClaimAttemptSlot, history
  <2>2. CASE slots[claim[p].t][claim[p].a] # "none"
    <3>1. QuietStep
      BY <1>2, <2>2, FinishIsQuiet DEF ClaimAttemptSlot, QuietStep, history
    <3> QED
      BY <3>1, QuietKeepsCallInv
  <2> QED
    BY <2>1, <2>2
<1>3. ASSUME NEW p \in Workers, GateRefuses(p) \/ GatesPass(p) PROVE CallInv'
  <2>1. QuietStep
    BY <1>0, <1>3 DEF GateRefuses, GatesPass, Decide, Goto, QuietStep, Calling, row, history
  <2> QED
    BY <2>1, QuietKeepsCallInv
<1>4. ASSUME NEW p \in Workers, PublishOk(p) \/ PublishAmbiguous(p) \/ PublishError(p)
      PROVE  CallInv'
  <2>1. /\ pc[p] = "call"
        /\ CountCall(claim[p])
        /\ UNCHANGED <<slots, claim>>
    BY <1>4 DEF PublishOk, PublishAmbiguous, PublishError
  <2>2. Goto(p, "write") \/ Goto(p, "lookup") \/ Goto(p, "confirm")
    BY <1>4 DEF PublishOk, PublishAmbiguous, PublishError, Reconcile, Decide
  <2> QED
    BY <2>1, <2>2, CallKeepsCallInv
<1>5. ASSUME NEW p \in Workers, LookupAfterAmbiguous(p) \/ LookupBeforeFailing(p)
      PROVE  CallInv'
  <2>1. Goto(p, "write")
    BY <1>5 DEF LookupAfterAmbiguous, LookupBeforeFailing, Adopts, Decide
  <2>2. UNCHANGED <<slots, claim, calls>>
    BY <1>5 DEF LookupAfterAmbiguous, LookupBeforeFailing, history
  <2>3. QuietStep
    BY <1>0, <2>1, <2>2 DEF Goto, QuietStep, Calling
  <2> QED
    BY <2>3, QuietKeepsCallInv
<1>6. ASSUME NEW p \in Workers, MarkPublished(p) \/ MarkFailed(p) PROVE CallInv'
  <2>1. claim[p] \in Claim
    BY <1>6 DEF MarkPublished, MarkFailed, Writing, TypeInv, HoldsClaim
  <2>2. QuietStep
    BY <1>6, <2>1, FinishIsQuiet, RecordIsQuiet DEF MarkPublished, MarkFailed, QuietStep, history
  <2> QED
    BY <2>2, QuietKeepsCallInv
<1>7. ASSUME NEW p \in Workers, RequeueScheduled(p) \/ MarkNeedsReview(p) \/ WriteLost(p)
      PROVE  CallInv'
  <2>1. QuietStep
    BY <1>7, FinishIsQuiet DEF RequeueScheduled, MarkNeedsReview, WriteLost, QuietStep, history
  <2> QED
    BY <2>1, QuietKeepsCallInv
<1>8. ASSUME NEW p \in Workers, ReconcileSwept(p) PROVE CallInv'
  <2>1. Goto(p, "write") \/ Goto(p, "lookup")
    BY <1>8 DEF ReconcileSwept, Reconcile, Decide
  <2>2. \E c : claim' = [claim EXCEPT ![p] = c]
    BY <1>8 DEF ReconcileSwept
  <2>3. UNCHANGED <<slots, calls>>
    BY <1>8 DEF ReconcileSwept, history
  <2>4. QuietStep
    BY <1>0, <2>1, <2>2, <2>3 DEF Goto, QuietStep, Calling
  <2> QED
    BY <2>4, QuietKeepsCallInv
<1>9. ASSUME NEW p \in Workers, Crash(p) PROVE CallInv'
  <2>1. QuietStep
    BY <1>0, <1>9 DEF Crash, Goto, QuietStep, Calling
  <2> QED
    BY <2>1, QuietKeepsCallInv
<1>10. ASSUME UNCHANGED <<slots, local, calls>> PROVE CallInv'
  <2>1. QuietStep
    BY <1>10 DEF QuietStep, Calling, local
  <2> QED
    BY <2>1, QuietKeepsCallInv
<1>11. ASSUME NEW t \in Targets, Person(t) \/ LeaseExpires(t) PROVE CallInv'
  BY <1>10, <1>11 DEF Person, RetryTarget, RequeueDeadLetter, CancelTarget, RescheduleTarget, LeaseExpires, history
<1>12. CASE DisconnectAccount \/ ReconnectAccount
  BY <1>10, <1>12 DEF DisconnectAccount, ReconnectAccount, history
<1>13. ASSUME NEW i \in DOMAIN posts, PostAges(i) PROVE CallInv'
  BY <1>10, <1>13 DEF PostAges, history
<1>14. CASE UNCHANGED vars
  BY <1>10, <1>14 DEF vars, history
<1> QED
  BY <1>1, <1>2, <1>3, <1>4, <1>5, <1>6, <1>7, <1>8, <1>9, <1>11, <1>12, <1>13, <1>14
  DEF Next, Worker, PublishJob, Outcome

(* However often a job is delivered and whatever crashes or is swept, one   *)
(* claimed attempt makes at most one publish() call.                        *)
THEOREM OneCall == Spec => []OneCallPerAttempt
<1>1. TypeInv /\ CallInv => OneCallPerAttempt
  BY DEF CallInv, AtMostOneCall, OneCallPerAttempt, TypeInv, TypeOK
<1> QED
  BY <1>1, InitTypeInv, InitCallInv, TypeStep, CallStep, PTL DEF Spec

-----------------------------------------------------------------------------
(* The life of a row.  Whatever the step, each row stays, is claimed, is    *)
(* settled by an outcome, is swept, loses its lease, or is moved by a       *)
(* person; a published row has no move but to stay.                         *)

Stays(t)   == UNCHANGED <<state[t], version[t], ppid[t]>> /\ UNCHANGED lease[t]
Claimed(t) == state[t] = "scheduled" /\ state'[t] = "publishing" /\ lease'[t] = "live"
Settled(t) == /\ InFlight(t)
              /\ state'[t] \notin {"publishing", "reconciling"}
              /\ lease'[t] = "none"
Swept(t)   == InFlight(t) /\ state'[t] = "reconciling" /\ lease'[t] = "live"
Lapses(t)  == /\ lease[t] # "none" /\ lease'[t] = "expired"
              /\ UNCHANGED <<state[t], version[t], ppid[t]>>
Moved(t)   == /\ state[t] \notin {"publishing", "reconciling", "published"}
              /\ state'[t] \notin {"publishing", "reconciling", "published"}
              /\ lease'[t] \in {lease[t], "none"}

RowMoves ==
  \A t \in Targets :
    Stays(t) \/ Claimed(t) \/ Settled(t) \/ Swept(t) \/ Lapses(t) \/ Moved(t)

LEMMA SetRowSettles ==
  ASSUME TypeInv, NEW c \in Claim, StillOurs(c),
         NEW s \in States \ {"publishing", "reconciling"}, SetRow(c, s),
         \A t \in Targets \ {c.t} : UNCHANGED ppid[t]
  PROVE  RowMoves
<1>1. c.t \in Targets
  BY DEF Claim
<1>2. Settled(c.t)
  BY <1>1 DEF TypeInv, TypeOK, Settled, StillOurs, SetRow
<1>3. \A t \in Targets \ {c.t} : Stays(t)
  BY DEF TypeInv, TypeOK, Stays, SetRow
<1> QED
  BY <1>2, <1>3 DEF RowMoves

LEMMA RowStep == TypeInv /\ [Next]_vars => RowMoves
<1> SUFFICES ASSUME TypeInv, [Next]_vars PROVE RowMoves
  OBVIOUS
<1>0. /\ state \in [Targets -> States] /\ lease \in [Targets -> {"none", "live", "expired"}]
      /\ version \in [Targets -> Nat] /\ ppid \in [Targets -> Nat]
  BY DEF TypeInv, TypeOK
<1>1. ASSUME UNCHANGED row PROVE RowMoves
  BY <1>1 DEF row, RowMoves, Stays
<1>2. ASSUME NEW p \in Workers, ClaimDueTargets(p) PROVE RowMoves
  <2>1. PICK S \in (SUBSET Due) \ {{}} :
          /\ state' = [t \in Targets |-> IF t \in S THEN "publishing" ELSE state[t]]
          /\ version' = [t \in Targets |-> IF t \in S THEN version[t] + 1 ELSE version[t]]
          /\ lease' = [t \in Targets |-> IF t \in S THEN "live" ELSE lease[t]]
          /\ UNCHANGED ppid
    BY <1>2 DEF ClaimDueTargets
  <2>2. \A t \in S : Claimed(t)
    BY <2>1 DEF Due, Claimed
  <2>3. \A t \in Targets \ S : Stays(t)
    BY <2>1 DEF Stays
  <2> QED
    BY <2>2, <2>3 DEF RowMoves
<1>3. ASSUME NEW p \in Workers, LeaseSweeperTick(p) PROVE RowMoves
  <2>1. PICK S \in (SUBSET Expired) \ {{}} :
          /\ state' = [t \in Targets |-> IF t \in S THEN "reconciling" ELSE state[t]]
          /\ version' = [t \in Targets |-> IF t \in S THEN version[t] + 1 ELSE version[t]]
          /\ lease' = [t \in Targets |-> IF t \in S THEN "live" ELSE lease[t]]
          /\ UNCHANGED ppid
    BY <1>3 DEF LeaseSweeperTick
  <2>2. \A t \in S : Swept(t)
    BY <2>1 DEF Expired, Swept
  <2>3. \A t \in Targets \ S : Stays(t)
    BY <2>1 DEF Stays
  <2> QED
    BY <2>2, <2>3 DEF RowMoves
<1>4. ASSUME NEW p \in Workers,
             AddJob(p) \/ Deliver(p) \/ ClaimAttemptSlot(p) \/ GateRefuses(p) \/ GatesPass(p)
      PROVE  RowMoves
  BY <1>1, <1>4 DEF AddJob, Deliver, ClaimAttemptSlot, GateRefuses, GatesPass
<1>5. ASSUME NEW p \in Workers,
             PublishOk(p) \/ PublishAmbiguous(p) \/ PublishError(p) \/ ReconcileSwept(p)
      PROVE  RowMoves
  BY <1>1, <1>5 DEF PublishOk, PublishAmbiguous, PublishError, ReconcileSwept
<1>6. ASSUME NEW p \in Workers,
             LookupAfterAmbiguous(p) \/ LookupBeforeFailing(p) \/ WriteLost(p) \/ Crash(p)
      PROVE  RowMoves
  BY <1>1, <1>6 DEF LookupAfterAmbiguous, LookupBeforeFailing, WriteLost, Crash
<1>7. ASSUME NEW p \in Workers,
             MarkPublished(p) \/ RequeueScheduled(p) \/ MarkFailed(p) \/ MarkNeedsReview(p)
      PROVE  RowMoves
  <2>1. claim[p] \in Claim /\ StillOurs(claim[p])
    BY <1>7 DEF MarkPublished, RequeueScheduled, MarkFailed, MarkNeedsReview, Writing, TypeInv, HoldsClaim
  <2>2. \E s \in States \ {"publishing", "reconciling"} : SetRow(claim[p], s)
    BY <1>7 DEF MarkPublished, RequeueScheduled, MarkFailed, MarkNeedsReview, States
  <2>3. \A t \in Targets \ {claim[p].t} : UNCHANGED ppid[t]
    BY <1>0, <1>7 DEF MarkPublished, RequeueScheduled, MarkFailed, MarkNeedsReview
  <2> QED
    BY <2>1, <2>2, <2>3, SetRowSettles
<1>8. ASSUME NEW t \in Targets, Person(t) PROVE RowMoves
  <2>1. \A u \in Targets \ {t} : Stays(u)
    BY <1>0, <1>8 DEF Person, RetryTarget, RequeueDeadLetter, CancelTarget, RescheduleTarget, Reopen, Stays, row
  <2>2. Stays(t) \/ Moved(t)
    BY <1>0, <1>8 DEF Person, RetryTarget, RequeueDeadLetter, CancelTarget, RescheduleTarget, Reopen, Stays, Moved, row
  <2> QED
    BY <2>1, <2>2 DEF RowMoves
<1>9. ASSUME NEW t \in Targets, LeaseExpires(t) PROVE RowMoves
  <2>1. Lapses(t)
    BY <1>0, <1>9 DEF LeaseExpires, Lapses
  <2>2. \A u \in Targets \ {t} : Stays(u)
    BY <1>0, <1>9 DEF LeaseExpires, Stays
  <2> QED
    BY <2>1, <2>2 DEF RowMoves
<1>10. CASE DisconnectAccount
  <2>1. \A t \in Targets : Stays(t) \/ Moved(t)
    BY <1>0, <1>10 DEF DisconnectAccount, Stays, Moved
  <2> QED
    BY <2>1 DEF RowMoves
<1>11. CASE ReconnectAccount \/ (\E i \in DOMAIN posts : PostAges(i)) \/ UNCHANGED vars
  BY <1>1, <1>11 DEF ReconnectAccount, PostAges, vars
<1> QED
  BY <1>2, <1>3, <1>4, <1>5, <1>6, <1>7, <1>8, <1>9, <1>10, <1>11
  DEF Next, Worker, PublishJob, Outcome

(* A row holds a lease exactly while it is in flight: the sweeper, which    *)
(* looks for expired leases, finds every stranded row.                      *)
THEOREM LeasesMatch == Spec => []LeaseMatchesFlight
<1>1. Init => LeaseMatchesFlight
  BY DEF Init, LeaseMatchesFlight, InFlight
<1>2. LeaseMatchesFlight /\ RowMoves => LeaseMatchesFlight'
  BY DEF LeaseMatchesFlight, RowMoves, InFlight, Stays, Claimed, Settled, Swept, Lapses, Moved
<1> QED
  BY <1>1, <1>2, InitTypeInv, TypeStep, RowStep, PTL DEF Spec

(* No late or duplicated writer touches a published row.                    *)
THEOREM PublishedStays == Spec => PublishedIsFinal
<1> DEFINE Final == \A t \in Targets : state[t] = "published" =>
                      state'[t] = "published" /\ version'[t] = version[t] /\ ppid'[t] = ppid[t]
<1>1. RowMoves => Final
  BY DEF RowMoves, InFlight, Stays, Claimed, Settled, Swept, Lapses, Moved
<1>2. TypeInv /\ [Next]_vars => [\A t \in DOMAIN state : state[t] = "published" =>
        state'[t] = "published" /\ version'[t] = version[t] /\ ppid'[t] = ppid[t]]_<<state, version, ppid>>
  <2>1. TypeInv => DOMAIN state = Targets
    BY DEF TypeInv, TypeOK
  <2> QED
    BY <1>1, <2>1, RowStep
<1> QED
  BY <1>2, InitTypeInv, TypeStep, PTL DEF Spec, PublishedIsFinal

-----------------------------------------------------------------------------
(* A provider that honours the idempotency key never holds two posts of a   *)
(* target, even if leases expire under busy workers, providers answer with  *)
(* an error after posting, and clocks disagree.                             *)

KeyedPosts ==
  IdemKey => /\ \A i \in DOMAIN posts : posts[i].key = <<"mrdn", posts[i].by>>
             /\ \A i, j \in DOMAIN posts : posts[i].by = posts[j].by => i = j

LEMMA AcceptKeepsKeyed ==
  ASSUME TypeInv, KeyedPosts, NEW c \in Claim, NEW i, ProviderAccepts(c, i)
  PROVE  KeyedPosts'
<1>1. posts \in Seq(Post)
  BY DEF TypeInv, TypeOK, Post
<1>2. CASE UNCHANGED posts
  BY <1>2 DEF KeyedPosts
<1>3. ASSUME IdemKey, KnownPosts(c) = {}, NEW s \in BOOLEAN,
             posts' = Append(posts, [by |-> c.t, key |-> IdempotencyKey(c), seen |-> s])
      PROVE  KeyedPosts'
  <2> DEFINE new == [by |-> c.t, key |-> IdempotencyKey(c), seen |-> s]
             n   == Len(posts) + 1
  <2>1. new \in Post /\ new.by = c.t /\ new.key = <<"mrdn", c.t>>
    BY DEF IdempotencyKey, Claim, Post
  <2> HIDE DEF new
  <2>2. posts' = Append(posts, new)
    BY <1>3 DEF new
  <2>3. /\ DOMAIN posts = 1..Len(posts) /\ Len(posts) \in Nat
        /\ DOMAIN posts' = 1..n
        /\ \A k \in 1..Len(posts) : posts'[k] = posts[k]
        /\ posts'[n] = new
    BY <1>1, <2>1, <2>2, AppendProperties, LenProperties
  <2>4. \A k \in DOMAIN posts : posts[k].by # c.t
    BY <1>3 DEF KnownPosts, KeyedPosts, IdempotencyKey
  <2> QED
    BY <1>3, <2>1, <2>3, <2>4 DEF KeyedPosts
<1>4. CASE ~IdemKey
  BY <1>4 DEF KeyedPosts
<1> QED
  BY <1>2, <1>3, <1>4, PublishingAssumption DEF ProviderAccepts

LEMMA KeyedStep == TypeInv /\ KeyedPosts /\ [Next]_vars => KeyedPosts'
<1> SUFFICES ASSUME TypeInv, KeyedPosts, [Next]_vars PROVE KeyedPosts'
  OBVIOUS
<1>1. ASSUME UNCHANGED posts PROVE KeyedPosts'
  BY <1>1 DEF KeyedPosts
<1>2. ASSUME NEW p \in Workers, PublishOk(p) \/ PublishAmbiguous(p) \/ PublishError(p)
      PROVE  KeyedPosts'
  <2>1. claim[p] \in Claim
    BY <1>2 DEF PublishOk, PublishAmbiguous, PublishError, TypeInv, HoldsClaim
  <2>2. UNCHANGED posts \/ \E i \in 1..(Len(posts) + 1) : ProviderAccepts(claim[p], i)
    BY <1>2 DEF PublishOk, PublishAmbiguous, PublishError
  <2> QED
    BY <1>1, <2>1, <2>2, AcceptKeepsKeyed
<1>3. ASSUME NEW i \in DOMAIN posts, PostAges(i) PROVE KeyedPosts'
  <2>0. posts \in [1..Len(posts) -> Post]
    BY LenProperties DEF TypeInv, TypeOK, Post
  <2>1. DOMAIN posts' = DOMAIN posts
    BY <1>3 DEF PostAges
  <2>2. ASSUME NEW j \in DOMAIN posts
        PROVE  posts'[j].by = posts[j].by /\ posts'[j].key = posts[j].key
    <3>1. posts[j] \in Post
      BY <2>0
    <3>2. posts'[j] = IF j = i THEN [posts[j] EXCEPT !.seen = FALSE] ELSE posts[j]
      BY <1>3, <2>0 DEF PostAges
    <3> QED
      BY <3>1, <3>2 DEF Post
  <2> QED
    BY <2>1, <2>2 DEF KeyedPosts
<1>4. ASSUME NEW p \in Workers,
             ClaimDueTargets(p) \/ AddJob(p) \/ Deliver(p) \/ ClaimAttemptSlot(p)
               \/ GateRefuses(p) \/ GatesPass(p)
      PROVE  KeyedPosts'
  BY <1>1, <1>4 DEF ClaimDueTargets, AddJob, Deliver, ClaimAttemptSlot, GateRefuses, GatesPass
<1>5. ASSUME NEW p \in Workers, Outcome(p) PROVE KeyedPosts'
  BY <1>1, <1>5 DEF Outcome, LookupAfterAmbiguous, LookupBeforeFailing, MarkPublished, RequeueScheduled, MarkFailed, MarkNeedsReview, WriteLost
<1>6. ASSUME NEW p \in Workers, LeaseSweeperTick(p) \/ ReconcileSwept(p) \/ Crash(p)
      PROVE  KeyedPosts'
  BY <1>1, <1>6 DEF LeaseSweeperTick, ReconcileSwept, Crash
<1>7. ASSUME NEW t \in Targets, Person(t) \/ LeaseExpires(t) PROVE KeyedPosts'
  BY <1>1, <1>7 DEF Person, RetryTarget, RequeueDeadLetter, CancelTarget, RescheduleTarget, LeaseExpires
<1>8. CASE DisconnectAccount \/ ReconnectAccount \/ UNCHANGED vars
  BY <1>1, <1>8 DEF DisconnectAccount, ReconnectAccount, vars
<1> QED
  BY <1>2, <1>3, <1>4, <1>5, <1>6, <1>7, <1>8 DEF Next, Worker, PublishJob

(* With an idempotency key the at-most-once promise needs no assumption on  *)
(* leases, clocks or late answers.                                          *)
THEOREM KeyPreventsDoublePost ==
  ASSUME IdemKey
  PROVE  Spec => []NoDoublePost
<1>1. Init => KeyedPosts
  BY DEF Init, KeyedPosts
<1>2. ASSUME TypeInv, KeyedPosts PROVE NoDoublePost
  <2> SUFFICES ASSUME NEW t \in Targets PROVE Cardinality(OwnPosts(t)) <= 1 + granted[t]
    BY <1>2 DEF NoDoublePost, TypeInv, TypeOK
  <2>1. \A i, j \in OwnPosts(t) : i = j
    BY <1>2 DEF KeyedPosts, OwnPosts
  <2>2. granted[t] \in Nat
    BY <1>2 DEF TypeInv, TypeOK
  <2>3. CASE OwnPosts(t) = {}
    BY <2>2, <2>3, FS_EmptySet
  <2>4. CASE OwnPosts(t) # {}
    <3>1. PICK i : OwnPosts(t) = {i}
      BY <2>1, <2>4
    <3>2. Cardinality(OwnPosts(t)) = 1
      BY <3>1, FS_Singleton
    <3> QED
      BY <2>2, <3>2
  <2> QED
    BY <2>3, <2>4
<1> QED
  BY <1>1, <1>2, InitTypeInv, TypeStep, KeyedStep, PTL DEF Spec

-----------------------------------------------------------------------------
(* Metering.  Only markPublished makes a row published, and it counts it.   *)

PublishedRows == {t \in Targets : state[t] = "published"}

MeterInv == IsFiniteSet(PublishedRows) /\ usage = Cardinality(PublishedRows)

(* Every step but markPublished leaves the meter and publishes nothing.     *)
LEMMA OnlyMarkPublished ==
  ASSUME TypeInv, [Next]_vars, \A p \in Workers : ~MarkPublished(p)
  PROVE  UNCHANGED usage /\ \A t \in Targets : state'[t] = "published" => state[t] = "published"
<1>0. state \in [Targets -> States]
  BY DEF TypeInv, TypeOK
<1> DEFINE Meters == UNCHANGED usage /\ \A t \in Targets : state'[t] = "published" => state[t] = "published"
<1>1. ASSUME NEW p \in Workers, ClaimDueTargets(p) \/ LeaseSweeperTick(p) PROVE Meters
  BY <1>0, <1>1 DEF ClaimDueTargets, LeaseSweeperTick
<1>2. ASSUME NEW p \in Workers,
             AddJob(p) \/ Deliver(p) \/ ClaimAttemptSlot(p) \/ GateRefuses(p) \/ GatesPass(p)
      PROVE  Meters
  BY <1>2 DEF AddJob, Deliver, ClaimAttemptSlot, GateRefuses, GatesPass, row
<1>3. ASSUME NEW p \in Workers,
             PublishOk(p) \/ PublishAmbiguous(p) \/ PublishError(p) \/ ReconcileSwept(p)
      PROVE  Meters
  BY <1>3 DEF PublishOk, PublishAmbiguous, PublishError, ReconcileSwept, row
<1>4. ASSUME NEW p \in Workers,
             LookupAfterAmbiguous(p) \/ LookupBeforeFailing(p) \/ WriteLost(p) \/ Crash(p)
      PROVE  Meters
  BY <1>4 DEF LookupAfterAmbiguous, LookupBeforeFailing, WriteLost, Crash, row
<1>5. ASSUME NEW p \in Workers, RequeueScheduled(p) \/ MarkFailed(p) \/ MarkNeedsReview(p)
      PROVE  Meters
  BY <1>0, <1>5 DEF RequeueScheduled, MarkFailed, MarkNeedsReview, SetRow
<1>6. ASSUME NEW t \in Targets, Person(t) PROVE Meters
  BY <1>0, <1>6 DEF Person, RetryTarget, RequeueDeadLetter, CancelTarget, RescheduleTarget, Reopen, row
<1>7. ASSUME NEW t \in Targets, LeaseExpires(t) PROVE Meters
  BY <1>7 DEF LeaseExpires
<1>8. CASE DisconnectAccount
  BY <1>0, <1>8 DEF DisconnectAccount
<1>9. CASE ReconnectAccount \/ (\E i \in DOMAIN posts : PostAges(i)) \/ UNCHANGED vars
  BY <1>9 DEF ReconnectAccount, PostAges, vars, row
<1> QED
  BY <1>1, <1>2, <1>3, <1>4, <1>5, <1>6, <1>7, <1>8, <1>9
  DEF Next, Worker, PublishJob, Outcome

LEMMA MeterStep == TypeInv /\ MeterInv /\ [Next]_vars => MeterInv'
<1> SUFFICES ASSUME TypeInv, MeterInv, [Next]_vars PROVE MeterInv'
  OBVIOUS
<1>0. IsFiniteSet(PublishedRows) /\ usage = Cardinality(PublishedRows)
  BY DEF MeterInv, PublishedRows
<1>1. CASE \A p \in Workers : ~MarkPublished(p)
  <2>1. \A t \in Targets : state[t] = "published" => state'[t] = "published"
    BY RowStep DEF RowMoves, InFlight, Stays, Claimed, Settled, Swept, Lapses, Moved
  <2>2. PublishedRows' = PublishedRows /\ usage' = usage
    BY <1>1, <2>1, OnlyMarkPublished DEF PublishedRows
  <2> QED
    BY <1>0, <2>2 DEF MeterInv, PublishedRows
<1>2. ASSUME NEW p \in Workers, MarkPublished(p) PROVE MeterInv'
  <2> DEFINE u == claim[p].t
  <2>1. u \in Targets /\ InFlight(u) /\ state \in [Targets -> States]
    BY <1>2 DEF MarkPublished, Writing, StillOurs, TypeInv, TypeOK, HoldsClaim, Claim
  <2>2. state' = [state EXCEPT ![u] = "published"] /\ usage' = usage + 1
    BY <1>2 DEF MarkPublished, SetRow
  <2>3. PublishedRows' = PublishedRows \cup {u} /\ u \notin PublishedRows
    BY <2>1, <2>2 DEF PublishedRows, InFlight
  <2>4. IsFiniteSet(PublishedRows') /\ Cardinality(PublishedRows') = Cardinality(PublishedRows) + 1
    BY <1>0, <2>3, FS_AddElement
  <2> QED
    BY <1>0, <2>2, <2>4 DEF MeterInv, PublishedRows
<1> QED
  BY <1>1, <1>2

(* The metered usage is the number of published targets.                    *)
THEOREM UsageExact == Spec => []UsageCountsPublished
<1>1. Init => MeterInv
  <2>1. ASSUME Init PROVE PublishedRows = {} /\ usage = 0
    BY <2>1 DEF Init, PublishedRows
  <2> QED
    BY <2>1, FS_EmptySet DEF MeterInv, PublishedRows
<1>2. TypeInv /\ MeterInv => UsageCountsPublished
  BY DEF MeterInv, PublishedRows, UsageCountsPublished, TypeInv, TypeOK
<1> QED
  BY <1>1, <1>2, InitTypeInv, TypeStep, MeterStep, PTL DEF Spec

=============================================================================
