------------------------- MODULE PostLifecycleProofs -------------------------
(***************************************************************************)
(* Proofs about the life of a post, for any number of targets and people.  *)
(* Where requests must not overlap, or no slot may be removed under a post *)
(* the pipeline has begun to publish, the theorem says so.                 *)
(***************************************************************************)
EXTENDS PostLifecycle, FiniteSetTheorems, TLAPS

(* A post starts well typed.                                                *)
LEMMA InitType == Init => TypeOK
BY DEF Init, TypeOK, Idle, Request, Statuses, States, Steps

(* A request that opens, goes on or ends leaves a desk of requests.         *)
LEMMA DeskType ==
  ASSUME TypeOK, NEW p \in People, NEW s \in Steps, NEW via \in {"none", "direct", "approval"},
         Open(p, s, via) \/ GoOn(p, s) \/ Answer(p)
  PROVE  desk' \in [People -> Request]
<1>1. /\ desk[p] \in Request
      /\ Idle \in Request
      /\ [Idle EXCEPT !.step = s, !.via = via, !.seen = content, !.was = status] \in Request
  BY ZenonT(40) DEF TypeOK, Idle, Request, Steps, Statuses
<1>2. [desk[p] EXCEPT !.step = s] \in Request
  BY <1>1 DEF Request
<1> QED
  BY <1>1, <1>2 DEF TypeOK, Open, GoOn, Answer

(* Every step of a request keeps the types.                                 *)
LEMMA PersonType ==
  ASSUME TypeOK, NEW p \in People, Person(p)
  PROVE  TypeOK'
<1> USE DEF post, writers, history
<1>1. CASE Begin(p)
  <2>1. desk' \in [People -> Request]
    BY <1>1, DeskType DEF Begin, Steps
  <2> QED
    BY <1>1, <2>1 DEF Begin, TypeOK
<1>2. CASE SubmitForApproval(p)
  BY <1>2, DeskType DEF SubmitForApproval, TypeOK, Statuses, Steps
<1>3. CASE EditPost(p)
  BY <1>3, DeskType DEF EditPost, TypeOK, Statuses, Steps
<1>4. CASE RequestChanges(p)
  BY <1>4, DeskType DEF RequestChanges, TypeOK, Statuses, Steps
<1>5. CASE Retarget(p)
  <2>1. desk' \in [People -> Request]
    BY <1>5, DeskType DEF Retarget, Steps
  <2>2. targetState' \in [Targets -> States] /\ frozen' \in [Targets -> Nat]
    BY <1>5 DEF Retarget, TypeOK, States
  <2>3. route' \in [Targets -> {"none", "direct", "approval"}]
    BY <1>5 DEF Retarget, TypeOK
  <2> QED
    BY <1>5, <2>1, <2>2, <2>3 DEF Retarget, TypeOK
<1>6. CASE DeletePost(p)
  BY <1>6, DeskType DEF DeletePost, TypeOK, Statuses, States, Steps
<1>7. CASE Validate(p) \/ Refused(p)
  <2>1. desk' \in [People -> Request]
    BY <1>7, DeskType DEF Validate, Refused, Steps
  <2> QED
    BY <1>7, <2>1 DEF Validate, Refused, TypeOK
<1>8. CASE Approve(p)
  <2>1. desk' \in [People -> Request]
    BY <1>8, DeskType DEF Approve, Steps
  <2>2. desk[p].seen \in Nat
    BY DEF TypeOK, Request
  <2> QED
    BY <1>8, <2>1, <2>2 DEF Approve, TypeOK
<1>9. CASE ReadForSchedule(p)
  <2>1. desk' \in [People -> Request]
    <3> DEFINE drafts == {t \in Targets : targetState[t] = "draft"}
    <3>1. desk[p] \in Request
      BY DEF TypeOK
    <3>2. [desk[p] EXCEPT !.step = "materialize", !.seen = content, !.drafts = drafts] \in Request
      BY <3>1 DEF TypeOK, Request, Steps
    <3>3. desk' = [desk EXCEPT ![p] = [desk[p] EXCEPT !.step = "materialize", !.seen = content,
                                                       !.drafts = drafts]]
      BY <1>9 DEF ReadForSchedule, TypeOK
    <3> QED
      BY <3>2, <3>3 DEF TypeOK
  <2> QED
    BY <1>9, <2>1 DEF ReadForSchedule, TypeOK
<1>10. CASE MaterializeAndSchedule(p)
  <2>1. desk' \in [People -> Request]
    BY <1>10, DeskType DEF MaterializeAndSchedule, Steps
  <2>2. desk[p].seen \in Nat /\ desk[p].via \in {"none", "direct", "approval"}
    BY DEF TypeOK, Request
  <2>3. /\ targetState' \in [Targets -> States]
        /\ frozen' \in [Targets -> Nat]
        /\ route' \in [Targets -> {"none", "direct", "approval"}]
    BY <1>10, <2>2 DEF MaterializeAndSchedule, TypeOK, States
  <2> QED
    BY <1>10, <2>1, <2>3 DEF MaterializeAndSchedule, TypeOK, Statuses
<1>11. CASE CloseRequest(p)
  BY <1>11, DeskType DEF CloseRequest, TypeOK, Steps
<1> QED
  BY <1>1, <1>2, <1>3, <1>4, <1>5, <1>6, <1>7, <1>8, <1>9, <1>10, <1>11 DEF Person

(* What a roll-up can be.                                                   *)
LEMMA ProjectionType ==
  ASSUME NEW view
  PROVE  Projection(view) \in {"none", "publishing", "published", "partially_published", "failed"}
BY DEF Projection

(* A roll-up belongs to an open outcome: without it a commit would write a  *)
(* state nobody chose.                                                      *)
TypeInv == TypeOK /\ \A t \in Targets : rollup[t] # "none" => outcome[t] # "none"

(* Every step of the pipeline on a target keeps the types.                  *)
LEMMA TargetType ==
  ASSUME TypeInv, NEW t \in Targets, Target(t)
  PROVE  TypeInv'
<1> USE DEF post, writers, history
<1>1. ASSUME NEW from, NEW to \in States, MoveTarget(t, from, to) PROVE TypeInv'
  BY <1>1 DEF MoveTarget, TypeInv, TypeOK
<1>2. CASE ClaimTarget(t) \/ RequeueTarget(t) \/ RetryTarget(t) \/ CancelTarget(t)
           \/ DisconnectAccount(t)
  BY <1>1, <1>2 DEF ClaimTarget, RequeueTarget, RetryTarget, CancelTarget, DisconnectAccount, States
<1>3. CASE WriteOutcome(t)
  <2>1. outcome' \in [Targets -> Settled \cup {"none"}] /\ outcome'[t] # "none"
    BY <1>3 DEF WriteOutcome, TypeInv, TypeOK, Settled
  <2>2. \A u \in Targets : rollup'[u] # "none" => outcome'[u] # "none"
    BY <1>3 DEF WriteOutcome, TypeInv, TypeOK, Settled
  <2> QED
    BY <1>3, <2>1, <2>2 DEF WriteOutcome, TypeInv, TypeOK
<1>4. CASE RecomputeRollup(t)
  <2> DEFINE found == Projection(View(t))
  <2>1. found \in {"none", "publishing", "published", "partially_published", "failed"}
    BY ProjectionType
  <2>2. rollup' = [rollup EXCEPT ![t] = IF found = "none" THEN "keep" ELSE found]
    BY <1>4 DEF RecomputeRollup
  <2> HIDE DEF found
  <2> QED
    BY <1>4, <2>1, <2>2 DEF RecomputeRollup, TypeInv, TypeOK
<1>5. CASE CommitOutcome(t)
  <2>1. outcome[t] \in Settled
    BY <1>5 DEF CommitOutcome, TypeInv, TypeOK
  <2>2. targetState' \in [Targets -> States]
    BY <1>5, <2>1 DEF CommitOutcome, View, TypeInv, TypeOK, Settled, States
  <2>3. status' \in Statuses
    BY <1>5 DEF CommitOutcome, TypeInv, TypeOK, Statuses
  <2>4. /\ outcome' \in [Targets -> Settled \cup {"none"}]
        /\ rollup' \in [Targets -> {"none", "keep", "publishing", "published",
                                    "partially_published", "failed"}]
        /\ rowLock' \in Targets \cup {None}
        /\ \A u \in Targets : rollup'[u] # "none" => outcome'[u] # "none"
    BY <1>5 DEF CommitOutcome, EndOutcome, TypeInv, TypeOK
  <2> QED
    BY <1>5, <2>2, <2>3, <2>4 DEF CommitOutcome, TypeInv, TypeOK
<1>6. CASE RollBack(t)
  BY <1>6 DEF RollBack, EndOutcome, TypeInv, TypeOK
<1> QED
  BY <1>2, <1>3, <1>4, <1>5, <1>6 DEF Target

(* So does the removal of a queue slot.                                     *)
LEMMA ReflowType ==
  ASSUME TypeInv, Reflow
  PROVE  TypeInv'
BY DEF Reflow, TypeInv, TypeOK, States, Statuses, post, writers, history

(* Every step keeps the types.                                              *)
LEMMA StepType == TypeInv /\ [Next]_vars => TypeInv'
<1> SUFFICES ASSUME TypeInv, [Next]_vars PROVE TypeInv'
  OBVIOUS
<1>1. ASSUME NEW p \in People, Person(p) PROVE TypeInv'
  <2>1. TypeOK'
    BY <1>1, PersonType DEF TypeInv
  <2>2. UNCHANGED writers
    BY <1>1 DEF Person, Begin, SubmitForApproval, EditPost, RequestChanges, Retarget, DeletePost,
       Validate, Refused, Approve, ReadForSchedule, MaterializeAndSchedule, CloseRequest, writers
  <2> QED
    BY <2>1, <2>2 DEF TypeInv, writers
<1>2. CASE UNCHANGED vars
  BY <1>2 DEF vars, post, writers, history, TypeInv, TypeOK
<1> QED
  BY <1>1, <1>2, TargetType, ReflowType DEF Next

(* The types hold from the first draft on.                                  *)
LEMMA InitTypeInv == Init => TypeInv
BY InitType DEF Init, TypeInv

(* The inductive invariant of the types holds in every state.              *)
LEMMA TypeInvariant == Spec => []TypeInv
BY InitTypeInv, StepType, PTL DEF Spec

(* The post, its targets, its review and the requests on it keep their      *)
(* types, and no outcome transaction commits a state it has not decided.    *)
THEOREM LifecycleTypeCorrect == Spec => []TypeOK
<1>1. TypeInv => TypeOK
  BY DEF TypeInv
<1> QED
  BY TypeInvariant, <1>1, PTL

-----------------------------------------------------------------------------
(* One request at a time.                                                   *)

Alone == \A p, q \in People : p # q => At(p, "idle") \/ At(q, "idle")

(* Then nobody else has a request running when one takes a step.            *)
LEMMA OthersIdle ==
  ASSUME ~Overlap, TypeInv, Alone, NEW p \in People, Person(p)
  PROVE  \A q \in People \ {p} : At(q, "idle") /\ desk'[q] = desk[q]
<1>1. CASE At(p, "idle")
  <2>1. PICK s \in Steps, via \in {"none", "direct", "approval"} : Open(p, s, via)
    BY <1>1 DEF Person, Begin, SubmitForApproval, EditPost, RequestChanges, Retarget, DeletePost,
       Validate, Refused, Approve, ReadForSchedule, MaterializeAndSchedule, CloseRequest, At, Steps
  <2> QED
    BY <2>1 DEF Open, TypeInv, TypeOK
<1>2. CASE ~At(p, "idle")
  <2>1. \A q \in People \ {p} : At(q, "idle")
    BY <1>2 DEF Alone
  <2>2. \A q \in People \ {p} : desk'[q] = desk[q]
    BY <1>2 DEF Person, Begin, SubmitForApproval, EditPost, RequestChanges, Retarget, DeletePost,
       Validate, Refused, Approve, ReadForSchedule, MaterializeAndSchedule, CloseRequest,
       Open, GoOn, Answer, TypeInv, TypeOK
  <2> QED
    BY <2>1, <2>2
<1> QED
  BY <1>1, <1>2

(* So requests stay alone.                                                 *)
LEMMA StepAlone == ~Overlap /\ TypeInv /\ Alone /\ [Next]_vars => Alone'
<1> SUFFICES ASSUME ~Overlap, TypeInv, Alone, [Next]_vars PROVE Alone'
  OBVIOUS
<1>1. ASSUME NEW p \in People, Person(p) PROVE Alone'
  BY <1>1, OthersIdle DEF Alone, At
<1>2. CASE UNCHANGED desk
  BY <1>2 DEF Alone, At
<1> QED
  BY <1>1, <1>2 DEF Next, Target, Reflow, MoveTarget, ClaimTarget, RequeueTarget, RetryTarget,
     CancelTarget, DisconnectAccount, WriteOutcome, RecomputeRollup, CommitOutcome, RollBack, vars

PendingRequested == status = "pending_approval" => request = "pending"

(* The request of a pending post is closed by nobody: who is about to close *)
(* one has scheduled the post.                                              *)
InboxInv ==
  /\ PendingRequested
  /\ \A p \in People : At(p, "close") => status # "pending_approval"

(* Every step keeps that.                                                   *)
LEMMA StepInbox == ~Overlap /\ TypeInv /\ Alone /\ InboxInv /\ [Next]_vars => InboxInv'
<1> SUFFICES ASSUME ~Overlap, TypeInv, Alone, InboxInv, [Next]_vars PROVE InboxInv'
  OBVIOUS
<1> USE DEF post
<1>1. ASSUME NEW p \in People, Person(p) PROVE InboxInv'
  <2>0. \A q \in People \ {p} : ~At(q, "close") /\ ~At(q, "close")'
    BY <1>1, OthersIdle DEF At
  <2>1. ASSUME NEW s \in Steps, GoOn(p, s) \/ Answer(p), s # "close" PROVE ~At(p, "close")'
    BY <2>1 DEF GoOn, Answer, Idle, At, TypeInv, TypeOK, Request
  <2>2. CASE Begin(p)
    <3>1. ~At(p, "close")'
      BY <2>2, ZenonT(40) DEF Begin, Open, Idle, At, TypeInv, TypeOK
    <3> QED
      BY <2>0, <2>2, <3>1 DEF Begin, InboxInv, PendingRequested
  <2>3. CASE SubmitForApproval(p)
    BY <2>0, <2>1, <2>3 DEF SubmitForApproval, Steps, InboxInv, PendingRequested
  <2>4. CASE EditPost(p)
    BY <2>0, <2>1, <2>4 DEF EditPost, Steps, InboxInv, PendingRequested
  <2>5. CASE RequestChanges(p) \/ DeletePost(p)
    BY <2>0, <2>1, <2>5 DEF RequestChanges, DeletePost, Steps, InboxInv, PendingRequested
  <2>6. CASE Retarget(p) \/ Validate(p) \/ Refused(p)
    BY <2>0, <2>1, <2>6 DEF Retarget, Validate, Refused, Steps, InboxInv, PendingRequested
  <2>7. CASE Approve(p)
    BY <2>0, <2>1, <2>7 DEF Approve, Steps, InboxInv, PendingRequested
  <2>8. CASE ReadForSchedule(p)
    <3>1. ~At(p, "close")'
      BY <2>8 DEF ReadForSchedule, At, TypeInv, TypeOK, Request
    <3> QED
      BY <2>0, <2>8, <3>1 DEF ReadForSchedule, InboxInv, PendingRequested
  <2>9. CASE MaterializeAndSchedule(p)
    BY <2>9 DEF MaterializeAndSchedule, InboxInv, PendingRequested
  <2>10. CASE CloseRequest(p)
    BY <2>0, <2>1, <2>10 DEF CloseRequest, Steps, InboxInv, PendingRequested
  <2> QED
    BY <1>1, <2>2, <2>3, <2>4, <2>5, <2>6, <2>7, <2>8, <2>9, <2>10 DEF Person
<1>2. ASSUME NEW t \in Targets, CommitOutcome(t) PROVE InboxInv'
  <2>1. status' = status \/ status' # "pending_approval"
    BY <1>2 DEF CommitOutcome, TypeInv, TypeOK
  <2> QED
    BY <1>2, <2>1 DEF CommitOutcome, InboxInv, PendingRequested, At
<1>3. CASE Reflow
  BY <1>3 DEF Reflow, InboxInv, PendingRequested, At
<1>4. CASE UNCHANGED <<post, desk>>
  BY <1>4 DEF InboxInv, PendingRequested, At
<1> QED
  BY <1>1, <1>2, <1>3, <1>4 DEF Next, Target, MoveTarget, ClaimTarget, RequeueTarget, RetryTarget,
     CancelTarget, DisconnectAccount, WriteOutcome, RecomputeRollup, RollBack, vars

-----------------------------------------------------------------------------
(* Nothing that is scheduled or in flight changes under the pipeline.       *)

Planning == {"draft", "pending_approval", "changes_requested"}
Unqueued == {"absent", "draft", "canceled"}

(* While a post can be worked on, the pipeline has none of its targets.     *)
PlanInv ==
  /\ status \in Planning => \A t \in Targets : targetState[t] \in Unqueued
  /\ \A t \in Targets : outcome[t] # "none" => targetState[t] = "publishing"
  /\ \A p \in People :
       desk[p].step \in {"submit", "edit", "bounce", "retarget", "delete", "materialize"}
         => status \in Planning
  /\ \A p \in People : At(p, "materialize") => desk[p].seen = content
  /\ \A t \in Targets :
       targetState[t] \in {"scheduled", "publishing", "failed", "needs_review"} => frozen[t] = content

(* It holds for a new draft.                                                *)
LEMMA InitPlan == Init => PlanInv
BY DEF Init, PlanInv, At, Idle, Unqueued, Planning

(* Every step of a request keeps that.                                      *)
LEMMA PersonPlan ==
  ASSUME ~Overlap, TypeInv, Alone, PlanInv, NEW p \in People, Person(p)
  PROVE  PlanInv'
<1> USE DEF post, writers, history
<1> DEFINE Writes == {"submit", "edit", "bounce", "retarget", "delete", "materialize"}
<1>0. \A q \in People \ {p} : desk'[q].step \notin Writes /\ ~At(q, "materialize")'
  BY OthersIdle DEF At
<1>1. ASSUME NEW s \in Steps, GoOn(p, s) \/ Answer(p), s \notin Writes
      PROVE  desk'[p].step \notin Writes
  BY <1>1 DEF GoOn, Answer, Idle, TypeInv, TypeOK, Request
<1>2. ASSUME desk'[p].step \notin Writes,
             UNCHANGED <<content, targetState, frozen, outcome>>,
             status' \in Planning => status \in Planning
      PROVE  PlanInv'
  BY <1>0, <1>2 DEF PlanInv, At
<1>3. CASE Begin(p)
  <2>1. UNCHANGED <<post, targetState, frozen, outcome>>
    BY <1>3 DEF Begin
  <2>2. desk'[p].step \in Writes => status \in Planning
    <3>1. PICK s \in Steps, via \in {"none", "direct", "approval"} :
            Open(p, s, via) /\ (s \in Writes => status \in Planning)
      BY <1>3 DEF Begin, Editable, Planning, Steps
    <3>2. desk'[p].step = s
      BY <3>1 DEF Open, Idle, TypeInv, TypeOK
    <3> QED
      BY <3>1, <3>2
  <2>3. ~At(p, "materialize")'
    BY <1>3, ZenonT(40) DEF Begin, Open, Idle, At, TypeInv, TypeOK
  <2> QED
    BY <1>0, <2>1, <2>2, <2>3 DEF PlanInv, At
<1>4. CASE SubmitForApproval(p) \/ RequestChanges(p)
  <2>1. status \in Planning
    BY <1>4 DEF SubmitForApproval, RequestChanges, At, PlanInv
  <2>2. desk'[p].step \notin Writes
    BY <1>1, <1>4 DEF SubmitForApproval, RequestChanges, Steps
  <2> QED
    BY <1>2, <1>4, <2>1, <2>2 DEF SubmitForApproval, RequestChanges
<1>5. CASE EditPost(p)
  <2>1. status \in Planning
    BY <1>5 DEF EditPost, At, PlanInv
  <2>2. desk'[p].step \notin Writes
    BY <1>1, <1>5 DEF EditPost, Steps
  <2>3. \A t \in Targets : targetState[t] \in Unqueued
    BY <2>1 DEF PlanInv
  <2> QED
    BY <1>0, <1>5, <2>2, <2>3 DEF EditPost, PlanInv, At, Unqueued
<1>6. CASE Retarget(p)
  <2>1. status \in Planning
    BY <1>6 DEF Retarget, At, PlanInv
  <2>2. desk'[p].step \notin Writes
    BY <1>1, <1>6 DEF Retarget, Steps
  <2>3. \A t \in Targets : targetState'[t] \in Unqueued
    BY <1>6, <2>1 DEF Retarget, PlanInv, Unqueued, TypeInv, TypeOK
  <2>4. \A t \in Targets : outcome[t] = "none"
    BY <2>1 DEF PlanInv, Unqueued
  <2> QED
    BY <1>0, <1>6, <2>2, <2>3, <2>4 DEF Retarget, PlanInv, At, Unqueued
<1>7. CASE DeletePost(p)
  <2>1. desk'[p].step \notin Writes
    BY <1>1, <1>7 DEF DeletePost, Steps
  <2> QED
    BY <1>0, <1>7, <2>1 DEF DeletePost, PlanInv, At, Planning
<1>8. CASE Validate(p) \/ Refused(p)
  <2>1. desk'[p].step \notin Writes
    BY <1>1, <1>8 DEF Validate, Refused, Steps
  <2> QED
    BY <1>2, <1>8, <2>1 DEF Validate, Refused
<1>9. CASE Approve(p)
  <2>1. desk'[p].step \notin Writes
    BY <1>1, <1>9 DEF Approve, Steps
  <2> QED
    BY <1>2, <1>9, <2>1 DEF Approve
<1>10. CASE ReadForSchedule(p)
  <2>1. UNCHANGED <<post, targetState, frozen, outcome>> /\ status \in Planning
    BY <1>10 DEF ReadForSchedule, Editable, Planning
  <2>2. desk'[p].seen = content
    BY <1>10 DEF ReadForSchedule, TypeInv, TypeOK, Request
  <2> QED
    BY <1>0, <2>1, <2>2 DEF PlanInv, At
<1>11. CASE MaterializeAndSchedule(p)
  <2>1. desk[p].seen = content /\ status \in Planning
    BY <1>11 DEF MaterializeAndSchedule, PlanInv, At
  <2>2. desk'[p].step \notin Writes
    BY <1>1, <1>11 DEF MaterializeAndSchedule, Steps
  <2>3. \A t \in Targets :
          targetState'[t] \in {"scheduled", "publishing", "failed", "needs_review"} => frozen'[t] = content
    BY <1>11, <2>1 DEF MaterializeAndSchedule, PlanInv, Unqueued
  <2>4. \A t \in Targets : outcome[t] = "none"
    BY <2>1 DEF PlanInv, Unqueued
  <2>5. status' \notin Planning /\ UNCHANGED <<content, outcome>>
    BY <1>11 DEF MaterializeAndSchedule, Planning
  <2> QED
    BY <1>0, <2>2, <2>3, <2>4, <2>5 DEF PlanInv, At
<1>12. CASE CloseRequest(p)
  <2>1. desk'[p].step \notin Writes
    BY <1>1, <1>12 DEF CloseRequest, Steps
  <2> QED
    BY <1>2, <1>12, <2>1 DEF CloseRequest
<1> QED
  BY <1>3, <1>4, <1>5, <1>6, <1>7, <1>8, <1>9, <1>10, <1>11, <1>12 DEF Person

(* So does every step of the pipeline.                                      *)
LEMMA TargetPlan ==
  ASSUME TypeInv, PlanInv, NEW t \in Targets, Target(t)
  PROVE  PlanInv'
<1> USE DEF post, writers, history
<1>1. ASSUME NEW from, NEW to, MoveTarget(t, from, to),
             targetState[t] \in Unqueued => to \in Unqueued,
             to \in {"scheduled", "publishing"}
               => targetState[t] \in {"scheduled", "publishing", "failed", "needs_review"},
             to \notin {"failed", "needs_review"}
      PROVE  PlanInv'
  BY <1>1 DEF MoveTarget, PlanInv, At, TypeInv, TypeOK
<1>2. CASE ClaimTarget(t) \/ RequeueTarget(t) \/ RetryTarget(t) \/ CancelTarget(t)
           \/ DisconnectAccount(t)
  BY <1>1, <1>2 DEF ClaimTarget, RequeueTarget, RetryTarget, CancelTarget, DisconnectAccount,
     MoveTarget, Unqueued
<1>3. CASE WriteOutcome(t)
  BY <1>3 DEF WriteOutcome, PlanInv, At, TypeInv, TypeOK
<1>4. CASE RecomputeRollup(t)
  BY <1>4 DEF RecomputeRollup, PlanInv, At
<1>5. CASE CommitOutcome(t)
  <2>1. outcome[t] \in Settled /\ targetState[t] = "publishing"
    BY <1>5 DEF CommitOutcome, TypeInv, TypeOK, PlanInv
  <2>2. status \notin Planning
    BY <2>1 DEF PlanInv, Unqueued
  <2>3. status' \notin Planning
    BY <1>5, <2>2 DEF CommitOutcome, TypeInv, TypeOK, Planning
  <2>4. /\ targetState' = [targetState EXCEPT ![t] = outcome[t]]
        /\ outcome' = [outcome EXCEPT ![t] = "none"]
        /\ UNCHANGED <<content, frozen, desk>>
    BY <1>5 DEF CommitOutcome, EndOutcome, View
  <2> QED
    BY <2>1, <2>2, <2>3, <2>4 DEF PlanInv, At, TypeInv, TypeOK
<1>6. CASE RollBack(t)
  BY <1>6 DEF RollBack, EndOutcome, PlanInv, At, TypeInv, TypeOK
<1> QED
  BY <1>2, <1>3, <1>4, <1>5, <1>6 DEF Target

(* And so does a slot removal that leaves posts in flight alone.            *)
LEMMA ReflowPlan ==
  ASSUME ~LateReflow, TypeInv, PlanInv, Reflow
  PROVE  PlanInv'
<1>1. \A t \in Targets : targetState'[t] \in Unqueued /\ outcome[t] = "none"
  BY DEF Reflow, PlanInv, TypeInv, TypeOK, Unqueued
<1> QED
  BY <1>1 DEF Reflow, PlanInv, At, Planning, Unqueued, writers

(* Every step keeps it, then.                                               *)
LEMMA StepPlan ==
  ~Overlap /\ ~LateReflow /\ TypeInv /\ Alone /\ PlanInv /\ [Next]_vars => PlanInv'
<1>1. PlanInv /\ UNCHANGED vars => PlanInv'
  BY DEF PlanInv, At, vars, post, writers
<1> QED
  BY <1>1, PersonPlan, TargetPlan, ReflowPlan DEF Next

(* It holds in every state.                                                 *)
LEMMA PlanInvariant == ~Overlap /\ ~LateReflow => (Spec => [](TypeInv /\ Alone /\ PlanInv))
<1> SUFFICES ASSUME ~Overlap, ~LateReflow PROVE Spec => [](TypeInv /\ Alone /\ PlanInv)
  OBVIOUS
<1>1. Init => Alone /\ PlanInv
  BY InitPlan DEF Init, Alone, At, Idle
<1>2. TypeInv /\ Alone /\ PlanInv /\ [Next]_vars => Alone' /\ PlanInv'
  BY StepAlone, StepPlan
<1> QED
  BY TypeInvariant, <1>1, <1>2, PTL DEF Spec

(* What is scheduled or in flight is the content people see, in every       *)
(* target, if requests do not overlap and no slot is removed under it.      *)
THEOREM ScheduledStaysCurrent == ~Overlap /\ ~LateReflow => (Spec => []ScheduledIsCurrent)
<1>1. PlanInv => ScheduledIsCurrent
  BY DEF PlanInv, ScheduledIsCurrent
<1> QED
  BY PlanInvariant, <1>1, PTL

(* Under the same conditions no request deletes a target in flight.         *)
THEOREM FlightsAreKept == ~Overlap /\ ~LateReflow => (Spec => InFlightNeverDeleted)
<1>1. ASSUME TypeInv, PlanInv, [Next]_vars, NEW t \in Targets, targetState[t] = "publishing"
      PROVE  targetState'[t] # "absent"
  <2>1. status \notin Planning
    BY <1>1 DEF PlanInv, Unqueued
  <2>2. ASSUME NEW p \in People, Person(p) PROVE targetState'[t] # "absent"
    <3>1. ~At(p, "retarget") /\ ~At(p, "delete") /\ ~At(p, "materialize")
      BY <1>1, <2>1 DEF PlanInv, At
    <3> QED
      BY <1>1, <2>2, <3>1 DEF Person, Begin, SubmitForApproval, EditPost, RequestChanges, Retarget,
         DeletePost, Validate, Refused, Approve, ReadForSchedule, MaterializeAndSchedule, CloseRequest
  <2>3. ASSUME NEW u \in Targets, Target(u) PROVE targetState'[t] # "absent"
    <3>1. CASE CommitOutcome(u)
      BY <1>1, <3>1 DEF CommitOutcome, View, TypeInv, TypeOK, Settled
    <3>2. CASE ~CommitOutcome(u)
      BY <1>1, <2>3, <3>2 DEF Target, MoveTarget, ClaimTarget, RequeueTarget, RetryTarget,
         CancelTarget, DisconnectAccount, WriteOutcome, RecomputeRollup, RollBack, TypeInv, TypeOK
    <3> QED
      BY <3>1, <3>2
  <2>4. Reflow => targetState'[t] # "absent"
    BY <1>1 DEF Reflow
  <2>5. UNCHANGED vars => targetState'[t] # "absent"
    BY <1>1 DEF vars
  <2> QED
    BY <1>1, <2>2, <2>3, <2>4, <2>5 DEF Next
<1>2. TypeInv /\ PlanInv /\ [Next]_vars
        => [\A t \in Targets : targetState[t] = "publishing" => targetState'[t] # "absent"]_vars
  BY <1>1
<1> QED
  BY PlanInvariant, <1>2, PTL DEF Spec, InFlightNeverDeleted

-----------------------------------------------------------------------------
(* posts.status follows the targets.                                        *)

AllSettled == \A t \in Targets : targetState[t] \in Settled \cup {"absent"}

Written(found) == IF found = "none" THEN "keep" ELSE found

(* A roll-up is computed and committed under the lock of the post row, so   *)
(* nobody settles a target in between: if all the others are settled, it is *)
(* the projection of what the commit makes visible.                         *)
RollupInv ==
  /\ \A t \in Targets : rollup[t] # "none" =>
       /\ rowLock = t
       /\ (\A u \in Targets \ {t} : targetState[u] \in Settled \cup {"absent"})
            => rollup[t] = Written(Projection(View(t)))
  /\ RollupIsProjection

(* Without targets, or with none the pipeline has seen, nothing is decided. *)
LEMMA NothingDecided == (\A t \in Targets : targetState[t] = "absent") => Projection(targetState) = "none"
<1> SUFFICES ASSUME \A t \in Targets : targetState[t] = "absent" PROVE Projection(targetState) = "none"
  OBVIOUS
<1>1. Cardinality({}) = 0
  BY FS_EmptySet
<1>2. /\ {t \in Targets : targetState[t] \in States \ {"absent"}} = {}
      /\ {t \in Targets : targetState[t] \in {"publishing"}} = {}
      /\ {t \in Targets : targetState[t] \in {"published"}} = {}
  OBVIOUS
<1> QED
  BY <1>1, <1>2 DEF Projection

(* The same of the state after a step.                                      *)
LEMMA NothingDecidedNext ==
  (\A t \in Targets : targetState'[t] = "absent") => Projection(targetState') = "none"
<1>1. ((\A t \in Targets : targetState[t] = "absent") => Projection(targetState) = "none")'
  BY NothingDecided, PTL
<1> QED
  BY <1>1

(* A post that can be worked on has no target settled.                      *)
LEMMA PlannedIsUndecided == TypeInv /\ PlanInv /\ status \in Planning => RollupIsProjection
<1> SUFFICES ASSUME TypeInv, PlanInv, status \in Planning PROVE RollupIsProjection
  OBVIOUS
<1>1. AllSettled => \A t \in Targets : targetState[t] = "absent"
  BY DEF AllSettled, PlanInv, Unqueued, Settled
<1> QED
  BY <1>1, NothingDecided DEF RollupIsProjection, AllSettled

(* Nor has it one after a step that makes it so.                            *)
LEMMA NextUndecided == TypeInv' /\ PlanInv' /\ status' \in Planning => RollupIsProjection'
<1>1. (TypeInv /\ PlanInv /\ status \in Planning => RollupIsProjection)'
  BY PlannedIsUndecided, PTL
<1> QED
  BY <1>1

(* A step that leaves the open transactions and the targets alone, and the  *)
(* status too unless it works on the post, keeps the invariant.             *)
LEMMA QuietRollup ==
  ASSUME TypeInv, PlanInv, RollupInv, TypeInv', PlanInv', UNCHANGED <<targetState, writers>>,
         status' \in Planning \/ UNCHANGED status
  PROVE  RollupInv'
<1>1. \A t \in Targets : View(t)' = View(t)
  BY DEF View, writers
<1>2. \A t \in Targets : Projection(View(t)') = Projection(View(t))
  BY <1>1
<1>3. Projection(targetState)' = Projection(targetState)
  BY DEF Projection
<1>4. RollupIsProjection'
  <2>1. CASE status' \in Planning
    BY <2>1, NextUndecided
  <2>2. CASE UNCHANGED status
    BY <2>2, <1>3 DEF RollupInv, RollupIsProjection, writers
  <2> QED
    BY <2>1, <2>2
<1> QED
  BY <1>1, <1>4 DEF RollupInv, writers

(* Every step of a request keeps it.                                        *)
LEMMA PersonRollup ==
  ASSUME ~Overlap, TypeInv, PlanInv, RollupInv, TypeInv', PlanInv', NEW p \in People, Person(p)
  PROVE  RollupInv'
<1>1. CASE Retarget(p) \/ DeletePost(p) \/ MaterializeAndSchedule(p)
  <2>1. status \in Planning
    BY <1>1 DEF Retarget, DeletePost, MaterializeAndSchedule, PlanInv, At
  <2>2. \A t \in Targets : outcome[t] = "none" /\ rollup[t] = "none"
    BY <2>1 DEF PlanInv, Unqueued, TypeInv
  <2>3. UNCHANGED writers
    BY <1>1 DEF Retarget, DeletePost, MaterializeAndSchedule, writers
  <2>4. RollupIsProjection'
    <3>1. CASE Retarget(p)
      BY <3>1, <2>1, NextUndecided DEF Retarget, post
    <3>2. CASE DeletePost(p)
      <4>1. (\A t \in Targets : targetState[t] = "absent")'
        BY <3>2 DEF DeletePost
      <4>2. Projection(targetState)' = "none"
        BY <4>1, NothingDecidedNext
      <4> QED
        BY <4>2 DEF RollupIsProjection
    <3>3. CASE MaterializeAndSchedule(p)
      <4>1. ASSUME AllSettled' PROVE Projection(targetState)' = "none"
        <5>1. (\A t \in Targets : targetState[t] = "absent")'
          BY <3>3, <2>1, <4>1 DEF MaterializeAndSchedule, AllSettled, Settled, PlanInv, Unqueued
        <5> QED
          BY <5>1, NothingDecidedNext
      <4> QED
        BY <4>1 DEF RollupIsProjection, AllSettled
    <3> QED
      BY <1>1, <3>1, <3>2, <3>3
  <2> QED
    BY <2>2, <2>3, <2>4 DEF RollupInv, writers
<1>2. CASE ~(Retarget(p) \/ DeletePost(p) \/ MaterializeAndSchedule(p))
  <2>1. UNCHANGED <<targetState, writers>>
    BY <1>2 DEF Person, Begin, SubmitForApproval, EditPost, RequestChanges, Validate, Refused,
       Approve, ReadForSchedule, CloseRequest, writers
  <2>2. status' \in Planning \/ UNCHANGED status
    BY <1>2 DEF Person, Begin, SubmitForApproval, EditPost, RequestChanges, Validate, Refused,
       Approve, ReadForSchedule, CloseRequest, post, Planning
  <2> QED
    BY <2>1, <2>2, QuietRollup
<1> QED
  BY <1>1, <1>2

(* So does every step of the pipeline: only the holder of the post row      *)
(* settles a target.                                                        *)
LEMMA TargetRollup ==
  ASSUME TypeInv, PlanInv, RollupInv, TypeInv', PlanInv', NEW t \in Targets, Target(t)
  PROVE  RollupInv'
<1> USE DEF post, writers, history
<1>1. ASSUME NEW from, NEW to, MoveTarget(t, from, to), to \notin Settled \cup {"absent"}
      PROVE  RollupInv'
  <2>1. targetState'[t] = to /\ outcome[t] = "none" /\ UNCHANGED writers
    BY <1>1 DEF MoveTarget, TypeInv, TypeOK
  <2>2. RollupIsProjection'
    BY <1>1, <2>1 DEF RollupIsProjection
  <2>3. ASSUME NEW u \in Targets, rollup'[u] # "none"
        PROVE  rowLock' = u /\ ~(\A v \in Targets \ {u} : targetState'[v] \in Settled \cup {"absent"})
    BY <1>1, <2>1, <2>3 DEF RollupInv, TypeInv
  <2> QED
    BY <2>2, <2>3 DEF RollupInv
<1>2. CASE ClaimTarget(t) \/ RequeueTarget(t) \/ RetryTarget(t) \/ CancelTarget(t)
           \/ DisconnectAccount(t)
  BY <1>1, <1>2 DEF ClaimTarget, RequeueTarget, RetryTarget, CancelTarget, DisconnectAccount, Settled
<1>3. CASE WriteOutcome(t)
  <2>1. /\ targetState[t] = "publishing" /\ rollup[t] = "none"
        /\ UNCHANGED <<targetState, rollup, rowLock>>
    BY <1>3 DEF WriteOutcome, TypeInv
  <2>2. RollupIsProjection'
    BY <2>1 DEF RollupIsProjection, Settled
  <2>3. ASSUME NEW u \in Targets, rollup'[u] # "none"
        PROVE  rowLock' = u /\ ~(\A v \in Targets \ {u} : targetState'[v] \in Settled \cup {"absent"})
    BY <2>1, <2>3 DEF RollupInv, Settled
  <2> QED
    BY <2>2, <2>3 DEF RollupInv
<1>4. CASE RecomputeRollup(t)
  <2>1. \A u \in Targets : rollup[u] = "none"
    BY <1>4, LifecycleAssumption DEF RecomputeRollup, RollupInv
  <2>2. /\ rowLock' = t /\ UNCHANGED <<targetState, outcome, status>>
        /\ rollup' = [rollup EXCEPT ![t] = Written(Projection(View(t)))]
    BY <1>4 DEF RecomputeRollup, Written
  <2>3. targetState[t] = "publishing"
    BY <1>4 DEF RecomputeRollup, PlanInv
  <2>4. View(t)' = View(t)
    BY <2>2 DEF View
  <2>5. rollup'[t] = Written(Projection(View(t)')) /\ \A u \in Targets \ {t} : rollup'[u] = "none"
    BY <2>1, <2>2, <2>4 DEF TypeInv, TypeOK
  <2>6. RollupIsProjection'
    BY <2>2, <2>3 DEF RollupIsProjection, Settled
  <2> QED
    BY <2>2, <2>5, <2>6 DEF RollupInv
<1>5. CASE CommitOutcome(t)
  <2>1. rollup[t] # "none" /\ rowLock = t /\ \A u \in Targets \ {t} : rollup[u] = "none"
    BY <1>5 DEF CommitOutcome, RollupInv
  <2>2. /\ targetState' = View(t)
        /\ status' = IF rollup[t] = "keep" THEN status ELSE rollup[t]
        /\ \A u \in Targets : rollup'[u] = "none"
    BY <1>5, <2>1 DEF CommitOutcome, EndOutcome, TypeInv, TypeOK
  <2>3. ASSUME AllSettled' PROVE Projection(targetState') \in {"none", status'}
    <3>1. \A u \in Targets \ {t} : targetState[u] \in Settled \cup {"absent"}
      BY <2>2, <2>3 DEF AllSettled, View, TypeInv, TypeOK
    <3>2. rollup[t] = Written(Projection(View(t)))
      BY <2>1, <3>1 DEF RollupInv
    <3>3. Projection(View(t)) # "keep"
      BY ProjectionType
    <3> QED
      BY <2>2, <3>2, <3>3 DEF Written
  <2> QED
    BY <2>2, <2>3 DEF RollupInv, RollupIsProjection, AllSettled
<1>6. CASE RollBack(t)
  <2>1. targetState[t] = "publishing" /\ UNCHANGED <<targetState, status>>
    BY <1>6 DEF RollBack, PlanInv
  <2>2. RollupIsProjection'
    BY <2>1 DEF RollupIsProjection, Settled
  <2>3. ASSUME NEW u \in Targets, rollup'[u] # "none"
        PROVE  rowLock' = u /\ ~(\A v \in Targets \ {u} : targetState'[v] \in Settled \cup {"absent"})
    BY <1>6, <2>1, <2>3 DEF RollBack, EndOutcome, RollupInv, TypeInv, TypeOK, Settled
  <2> QED
    BY <2>2, <2>3 DEF RollupInv
<1> QED
  BY <1>2, <1>3, <1>4, <1>5, <1>6 DEF Target

(* Every step keeps it.                                                     *)
LEMMA StepRollup ==
  ~Overlap /\ TypeInv /\ PlanInv /\ RollupInv /\ TypeInv' /\ PlanInv' /\ [Next]_vars => RollupInv'
<1> SUFFICES ASSUME ~Overlap, TypeInv, PlanInv, RollupInv, TypeInv', PlanInv', [Next]_vars
             PROVE  RollupInv'
  OBVIOUS
<1>1. CASE Reflow
  <2>1. status' \in Planning /\ UNCHANGED writers
    BY <1>1 DEF Reflow, Planning
  <2>2. \A t \in Targets : rollup'[t] = "none"
    BY <2>1 DEF PlanInv, TypeInv, Unqueued
  <2> QED
    BY <2>1, <2>2, NextUndecided DEF RollupInv
<1>2. CASE UNCHANGED vars
  BY <1>2, QuietRollup DEF vars, post
<1> QED
  BY <1>1, <1>2, PersonRollup, TargetRollup DEF Next

(* However many targets finish at once, in whatever order their outcome     *)
(* transactions run, commit or roll back, posts.status is the projection of *)
(* the settled targets.                                                     *)
THEOREM RollupFollowsTargets == ~Overlap /\ ~LateReflow => (Spec => []RollupIsProjection)
<1> SUFFICES ASSUME ~Overlap, ~LateReflow PROVE Spec => []RollupIsProjection
  OBVIOUS
<1>1. Init => RollupInv
  <2>1. Init => RollupIsProjection
    BY InitTypeInv, InitPlan, PlannedIsUndecided DEF Init, Planning
  <2> QED
    BY <2>1 DEF Init, RollupInv
<1>2. TypeInv /\ PlanInv /\ RollupInv /\ TypeInv' /\ PlanInv' /\ [Next]_vars => RollupInv'
  BY StepRollup
<1>3. RollupInv => RollupIsProjection
  BY DEF RollupInv
<1> QED
  BY PlanInvariant, <1>1, <1>2, <1>3, PTL DEF Spec

-----------------------------------------------------------------------------
(* The review is of what goes out.                                          *)

Needed    == IF paid /\ reflows = 0 THEN 2 ELSE 1
Enough(k) == Cardinality(Reviewers(k)) >= Needed

(* Approvals recorded before any slot removal are of the current content;   *)
(* who approves has read it; who schedules on the approval path has enough  *)
(* reviewers of it, and so has every target that was scheduled that way.    *)
ReviewInv ==
  /\ reflows = 0 => decisions \subseteq Reviewers(content)
  /\ reflows = 0 /\ status \in Editable => decisions = {}
  /\ \A p \in People : desk[p].step = "edit" => desk[p].was = status
  /\ \A p \in People : desk[p].step \in {"approve", "decide"} => desk[p].seen = content
  /\ \A p \in People :
       desk[p].step \in {"validate", "checked", "materialize"} /\ desk[p].via = "approval"
         => Enough(content)
  /\ \A t \in Targets : route[t] = "approval" => Enough(frozen[t])

(* Reviewers can be counted.                                                *)
LEMMA ReviewersFinite ==
  ASSUME NEW k
  PROVE  IsFiniteSet(Reviewers(k)) /\ Cardinality(Reviewers(k)) \in Nat
<1>1. Reviewers(k) \subseteq Approvers
  BY DEF Reviewers
<1> QED
  BY <1>1, LifecycleAssumption, FS_Subset, FS_CardinalityType

(* Enough reviewers stay enough.                                            *)
LEMMA EnoughStays ==
  ASSUME NEW k, Enough(k), signed \subseteq signed', UNCHANGED paid,
         reflows' = reflows \/ reflows' # 0
  PROVE  Enough(k)'
<1>1. IsFiniteSet(Reviewers(k)') /\ Cardinality(Reviewers(k)') \in Nat
  <2>1. Reviewers(k)' \subseteq Approvers
    BY DEF Reviewers
  <2> QED
    BY <2>1, LifecycleAssumption, FS_Subset, FS_CardinalityType
<1>2. Reviewers(k) \subseteq Reviewers(k)'
  BY DEF Reviewers
<1>3. Cardinality(Reviewers(k)) <= Cardinality(Reviewers(k)')
  BY <1>1, <1>2, FS_Subset
<1>4. Needed' \in {1, 2} /\ Needed \in {1, 2} /\ Needed' <= Needed
  BY DEF Needed
<1> QED
  BY <1>1, <1>3, <1>4, ReviewersFinite DEF Enough

(* One more approval, of the content its approver has read, gives enough    *)
(* when approve() goes on to schedule.                                      *)
LEMMA ApprovalIsEnough ==
  ASSUME TypeInv, ReviewInv, NEW p \in People, Approve(p),
         ~(Cardinality(decisions \cup {p}) < Required)
  PROVE  Enough(content)'
<1>1. <<p, content>> \in signed' /\ p \in Approvers \ {Author} /\ UNCHANGED <<content, paid, reflows>>
  BY DEF Approve, At, MayApprove, ReviewInv, post
<1>2. /\ IsFiniteSet(Reviewers(content)') /\ Cardinality(Reviewers(content)') \in Nat
      /\ p \in Reviewers(content)'
  <2>1. Reviewers(content)' \subseteq Approvers /\ p \in Reviewers(content)'
    BY <1>1 DEF Reviewers
  <2> QED
    BY <2>1, LifecycleAssumption, FS_Subset, FS_CardinalityType
<1>3. Cardinality(Reviewers(content)') >= 1
  <2>1. Cardinality({p}) = 1 /\ {p} \subseteq Reviewers(content)'
    BY <1>2, FS_Singleton
  <2> QED
    BY <1>2, <2>1, FS_Subset
<1>4. CASE reflows = 0
  <2>1. decisions \cup {p} \subseteq Reviewers(content)'
    BY <1>1, <1>2, <1>4 DEF ReviewInv, Reviewers, Approve
  <2>2. /\ Cardinality(decisions \cup {p}) \in Nat
        /\ Cardinality(decisions \cup {p}) <= Cardinality(Reviewers(content)')
    BY <1>2, <2>1, FS_Subset, FS_CardinalityType
  <2>3. Needed' = Required
    BY <1>1, <1>4 DEF Needed, Required
  <2>4. Required \in {1, 2}
    BY DEF Required
  <2> QED
    BY <1>2, <2>2, <2>3, <2>4 DEF Enough
<1>5. CASE reflows # 0
  BY <1>1, <1>3, <1>5 DEF Enough, Needed
<1> QED
  BY <1>4, <1>5

(* Every step of a request keeps the review sound.                          *)
LEMMA PersonReview ==
  ASSUME ~Overlap, TypeInv, Alone, PlanInv, ReviewInv, NEW p \in People, Person(p)
  PROVE  ReviewInv'
<1> USE DEF post, writers, history
<1>0. \A q \in People \ {p} : desk'[q].step = "idle"
  BY OthersIdle DEF At
<1>1. ASSUME NEW s \in Steps, GoOn(p, s) PROVE desk'[p] = [desk[p] EXCEPT !.step = s]
  BY <1>1 DEF GoOn, TypeInv, TypeOK
<1>2. ASSUME Answer(p) PROVE desk'[p].step = "idle"
  BY <1>2 DEF Answer, Idle, TypeInv, TypeOK
<1>3. ASSUME signed \subseteq signed', UNCHANGED <<paid, reflows>>, NEW k, Enough(k)
      PROVE  Enough(k)'
  BY <1>3, EnoughStays
<1>4. ASSUME signed' = signed, UNCHANGED <<paid, reflows>>, NEW k
      PROVE  Enough(k)' = Enough(k) /\ Reviewers(k)' = Reviewers(k)
  BY <1>4 DEF Enough, Needed, Reviewers
<1>5. CASE Begin(p)
  <2>1. PICK s \in {"submit", "edit", "retarget", "delete", "bounce", "validate", "approve"},
             via \in {"none", "direct", "approval"} :
          Open(p, s, via)
    BY <1>5 DEF Begin
  <2>2. desk'[p] = [Idle EXCEPT !.step = s, !.via = via, !.seen = content, !.was = status]
    BY <2>1 DEF Open, TypeInv, TypeOK
  <2>3. desk'[p].step = "validate" => desk'[p].via = "direct"
    BY <1>5, ZenonT(40) DEF Begin, Open, Idle, TypeInv, TypeOK
  <2>4. desk'[p].seen = content /\ desk'[p].was = status /\ desk'[p].step = s
    BY <2>2 DEF Idle
  <2>5. UNCHANGED <<post, targetState, frozen, route, signed, reflows>>
    BY <1>5 DEF Begin
  <2> QED
    BY <1>0, <1>4, <2>3, <2>4, <2>5 DEF ReviewInv
<1>6. CASE SubmitForApproval(p)
  <2>1. desk'[p].step = "idle" /\ status' \notin Editable
    BY <1>2, <1>6 DEF SubmitForApproval, Editable
  <2> QED
    BY <1>0, <1>4, <1>6, <2>1 DEF SubmitForApproval, ReviewInv
<1>7. CASE EditPost(p)
  <2>1. desk'[p].step = "idle"
    BY <1>2, <1>7 DEF EditPost
  <2>2. desk[p].was = status /\ status \in Planning
    BY <1>7 DEF EditPost, At, ReviewInv, PlanInv
  <2>3. reflows = 0 => decisions' = {}
    BY <1>7, <2>2 DEF EditPost, ReviewInv, Planning, Editable
  <2>4. UNCHANGED <<paid, frozen, route, signed, reflows>>
    BY <1>7 DEF EditPost
  <2> QED
    BY <1>0, <1>4, <2>1, <2>3, <2>4 DEF ReviewInv
<1>8. CASE RequestChanges(p)
  <2>1. desk'[p].step = "idle"
    BY <1>2, <1>8 DEF RequestChanges
  <2> QED
    BY <1>0, <1>4, <1>8, <2>1 DEF RequestChanges, ReviewInv
<1>9. CASE Retarget(p)
  <2>1. desk'[p].step = "idle"
    BY <1>2, <1>9 DEF Retarget
  <2>2. PICK t \in Targets : /\ frozen' = [frozen EXCEPT ![t] = 0]
                             /\ route' = [route EXCEPT ![t] = "none"]
    BY <1>9 DEF Retarget
  <2>3. \A u \in Targets : route'[u] = "approval" => route[u] = "approval" /\ frozen'[u] = frozen[u]
    BY <2>2 DEF TypeInv, TypeOK
  <2>4. UNCHANGED <<post, signed, reflows>>
    BY <1>9 DEF Retarget
  <2> QED
    BY <1>0, <1>4, <2>1, <2>3, <2>4 DEF ReviewInv
<1>10. CASE DeletePost(p)
  <2>1. desk'[p].step = "idle"
    BY <1>2, <1>10 DEF DeletePost
  <2> QED
    BY <1>0, <1>4, <1>10, <2>1 DEF DeletePost, ReviewInv
<1>11. CASE Validate(p) \/ Refused(p)
  <2>1. UNCHANGED <<post, targetState, frozen, route, signed, reflows>>
    BY <1>11 DEF Validate, Refused
  <2>2. \/ desk'[p].step = "idle"
        \/ desk[p].step = "approve" /\ desk'[p] = [desk[p] EXCEPT !.step = "decide"]
        \/ desk[p].step = "validate" /\ desk'[p] = [desk[p] EXCEPT !.step = "checked"]
    BY <1>1, <1>2, <1>11 DEF Validate, Refused, At, Steps
  <2>3. desk[p] \in Request
    BY DEF TypeInv, TypeOK
  <2>4. /\ desk'[p].step # "edit"
        /\ desk'[p].step \in {"approve", "decide"} => desk'[p].seen = content
        /\ desk'[p].step \in {"validate", "checked", "materialize"} /\ desk'[p].via = "approval"
             => Enough(content)
    BY <2>2, <2>3 DEF Request, ReviewInv
  <2> QED
    BY <1>0, <1>4, <2>1, <2>4 DEF ReviewInv
<1>12. CASE Approve(p)
  <2>1. UNCHANGED <<status, content, paid, frozen, route, reflows>> /\ status \notin Editable
    BY <1>12 DEF Approve, Editable
  <2>2. /\ decisions' = decisions \cup {p}
        /\ signed' = signed \cup {<<p, content>>} /\ p \in Approvers \ {Author}
    BY <1>12 DEF Approve, At, MayApprove, ReviewInv
  <2>3. reflows' = 0 => decisions' \subseteq Reviewers(content)'
    BY <2>1, <2>2 DEF ReviewInv, Reviewers
  <2>4. desk'[p].step \in {"idle", "validate"}
    <3>1. desk[p] \in Request
      BY DEF TypeInv, TypeOK
    <3> QED
      BY <1>1, <1>2, <1>12, <3>1 DEF Approve, Steps, Request
  <2>5. desk'[p].step = "validate" => Enough(content)'
    <3>1. Cardinality(decisions \cup {p}) < Required => Answer(p)
      BY <1>12 DEF Approve
    <3>2. desk'[p].step = "validate" => ~(Cardinality(decisions \cup {p}) < Required)
      BY <1>2, <3>1
    <3> QED
      BY <1>12, <3>2, ApprovalIsEnough
  <2>6. \A t \in Targets : route'[t] = "approval" => Enough(frozen[t])'
    BY <1>3, <2>1, <2>2 DEF ReviewInv
  <2> QED
    BY <1>0, <2>1, <2>3, <2>4, <2>5, <2>6 DEF ReviewInv
<1>13. CASE ReadForSchedule(p)
  <2>1. UNCHANGED <<post, targetState, frozen, route, signed, reflows>>
    BY <1>13 DEF ReadForSchedule
  <2>2. /\ desk[p].step = "checked" /\ desk'[p].step = "materialize" /\ desk'[p].via = desk[p].via
    BY <1>13 DEF ReadForSchedule, At, TypeInv, TypeOK, Request
  <2> QED
    BY <1>0, <1>4, <2>1, <2>2 DEF ReviewInv
<1>14. CASE MaterializeAndSchedule(p)
  <2>1. UNCHANGED <<content, paid, decisions, signed, reflows>> /\ status' \notin Editable
    BY <1>14 DEF MaterializeAndSchedule, Editable
  <2>2. desk'[p].step \in {"idle", "close"}
    <3>1. desk[p] \in Request
      BY DEF TypeInv, TypeOK
    <3> QED
      BY <1>1, <1>2, <1>14, <3>1 DEF MaterializeAndSchedule, Steps, Request
  <2>3. /\ desk[p].step = "materialize" /\ desk[p].seen = content
        /\ desk[p].via = "approval" => Enough(content)
    BY <1>14 DEF MaterializeAndSchedule, At, PlanInv, ReviewInv
  <2>4. \A t \in Targets : \/ frozen'[t] = content /\ route'[t] = desk[p].via
                           \/ frozen'[t] = frozen[t] /\ route'[t] = route[t]
    <3> DEFINE drafts == {t \in desk[p].drafts : targetState[t] = "draft"}
    <3>1. /\ frozen' = [t \in Targets |-> IF t \in drafts THEN desk[p].seen ELSE frozen[t]]
          /\ route'  = [t \in Targets |-> IF t \in drafts THEN desk[p].via ELSE route[t]]
      BY <1>14 DEF MaterializeAndSchedule
    <3> HIDE DEF drafts
    <3> QED
      BY <2>3, <3>1
  <2>5. \A t \in Targets : route'[t] = "approval" => Enough(frozen'[t])
    BY <2>3, <2>4 DEF ReviewInv
  <2>6. \A t \in Targets : route'[t] = "approval" => Enough(frozen[t])'
    BY <2>1, <2>5 DEF Enough, Needed, Reviewers
  <2> QED
    BY <1>0, <1>4, <2>1, <2>2, <2>6 DEF ReviewInv
<1>15. CASE CloseRequest(p)
  <2>1. desk'[p].step = "idle"
    BY <1>2, <1>15 DEF CloseRequest
  <2> QED
    BY <1>0, <1>4, <1>15, <2>1 DEF CloseRequest, ReviewInv
<1> QED
  BY <1>5, <1>6, <1>7, <1>8, <1>9, <1>10, <1>11, <1>12, <1>13, <1>14, <1>15 DEF Person

(* So does every step of the pipeline, and the removal of a slot.           *)
LEMMA SystemReview ==
  ASSUME TypeInv, PlanInv, ReviewInv,
         (\E t \in Targets : Target(t)) \/ Reflow \/ UNCHANGED vars
  PROVE  ReviewInv'
<1> USE DEF post, writers, history
<1>1. /\ UNCHANGED <<content, paid, decisions, frozen, desk, signed, route>>
      /\ reflows' = reflows \/ reflows' # 0
  BY DEF Target, MoveTarget, ClaimTarget, RequeueTarget, RetryTarget, CancelTarget,
     DisconnectAccount, WriteOutcome, RecomputeRollup, CommitOutcome, RollBack, Reflow, vars,
     TypeInv, TypeOK
<1>2. /\ reflows' = 0 => reflows = 0 /\ (status' = status \/ status' \notin Editable)
      /\ status' = status \/ status \notin Planning
  <2>1. ASSUME NEW t \in Targets, CommitOutcome(t)
        PROVE  status' \notin Editable \/ status' = status
    BY <2>1 DEF CommitOutcome, TypeInv, TypeOK, Editable
  <2>2. ASSUME NEW t \in Targets, CommitOutcome(t) PROVE status \notin Planning
    BY <2>2 DEF CommitOutcome, TypeInv, PlanInv, Unqueued
  <2>3. CASE \E t \in Targets : Target(t)
    BY <2>1, <2>2, <2>3 DEF Target, MoveTarget, ClaimTarget, RequeueTarget, RetryTarget,
       CancelTarget, DisconnectAccount, WriteOutcome, RecomputeRollup, CommitOutcome, RollBack
  <2>4. CASE Reflow
    BY <2>4 DEF Reflow, Planning, TypeInv, TypeOK
  <2> QED
    BY <2>3, <2>4 DEF vars
<1>3. \A p \in People : desk[p].step = "edit" => status' = status
  BY <1>2 DEF PlanInv
<1>4. ASSUME NEW k PROVE Reviewers(k)' = Reviewers(k) /\ (Enough(k) => Enough(k)')
  BY <1>1, EnoughStays DEF Reviewers
<1> QED
  BY <1>1, <1>2, <1>3, <1>4 DEF ReviewInv

(* Whatever goes out through the approval path has been approved, in the    *)
(* version that goes out, by somebody other than its author, and by two of  *)
(* them if it is a paid promotion that never left the queue: for any number *)
(* of people, edits, bounces and slot removals, if requests do not overlap. *)
THEOREM ReviewCannotBeBypassed ==
  ~Overlap /\ ~LateReflow => (Spec => []ReviewedAsScheduled)
<1> SUFFICES ASSUME ~Overlap, ~LateReflow PROVE Spec => []ReviewedAsScheduled
  OBVIOUS
<1>1. Init => ReviewInv
  BY DEF Init, ReviewInv, Idle
<1>2. TypeInv /\ Alone /\ PlanInv /\ ReviewInv /\ [Next]_vars => ReviewInv'
  BY PersonReview, SystemReview DEF Next
<1>3. ReviewInv => ReviewedAsScheduled
  BY DEF ReviewInv, ReviewedAsScheduled, Enough, Needed
<1> QED
  BY PlanInvariant, <1>1, <1>2, <1>3, PTL DEF Spec

(* A post that waits for approval is in the inbox of everybody who has to   *)
(* see it, and unless it was once unqueued every approval counted there was *)
(* given to the text it has: for any number of people, edits and bounces,   *)
(* if requests do not overlap.                                              *)
THEOREM PendingIsListed ==
  ~Overlap /\ ~LateReflow => (Spec => []InboxShowsPending)
<1> SUFFICES ASSUME ~Overlap, ~LateReflow PROVE Spec => []InboxShowsPending
  OBVIOUS
<1>1. Init => InboxInv /\ ReviewInv
  BY DEF Init, InboxInv, PendingRequested, At, ReviewInv, Idle
<1>2. TypeInv /\ Alone /\ PlanInv /\ InboxInv /\ ReviewInv /\ [Next]_vars
        => InboxInv' /\ ReviewInv'
  BY StepInbox, PersonReview, SystemReview DEF Next
<1>3. InboxInv /\ ReviewInv => InboxShowsPending
  BY DEF InboxInv, PendingRequested, ReviewInv, InboxShowsPending, ListApprovals, People, Reviewers
<1> QED
  BY PlanInvariant, <1>1, <1>2, <1>3, PTL DEF Spec
=============================================================================
