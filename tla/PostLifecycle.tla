--------------------------- MODULE PostLifecycle ---------------------------
(***************************************************************************)
(* One post on its way from draft to published: the review flow, the       *)
(* scheduling of its targets, and posts.status as the roll-up of what the  *)
(* pipeline does to them.                                                  *)
(* "publishing" stands for publishing and reconciling.                     *)
(*                                                                         *)
(* A person's request is a sequence of transactions, and a transaction     *)
(* reads its guard in one step and commits its writes in a later one       *)
(* (READ COMMITTED, no lock in between), so requests and pipeline          *)
(* interleave as they do over one database.  The pipeline is reduced to    *)
(* what it does to post_targets.state; module Publishing has the rest.     *)
(***************************************************************************)
EXTENDS Integers, FiniteSets

CONSTANTS
  Targets,     (* the accounts the post may go to                           *)
  Author,      (* posts.author_id                                           *)
  Approvers,   (* members with role owner or approver                       *)
  Overlap,     (* TRUE if requests of several people run side by side       *)
  LateReflow,  (* TRUE if a queue slot may be removed under a post the      *)
               (* pipeline has already begun to publish                     *)
  MaxContent,  (* bound: edits of the post                                  *)
  MaxReflows,  (* bound: slot removals that unqueue the post                *)
  None         (* nobody holds the post row                                 *)

ASSUME LifecycleAssumption ==
  /\ IsFiniteSet(Targets) /\ IsFiniteSet(Approvers)
  /\ Overlap \in BOOLEAN /\ LateReflow \in BOOLEAN
  /\ MaxContent \in Nat \ {0} /\ MaxReflows \in Nat
  /\ None \notin Targets

VARIABLES
  status,     (* posts.status, "deleted" once the row is gone               *)
  content,    (* posts.content and the overrides: its version               *)
  paid,       (* posts.is_paid_promotion, read here and set elsewhere       *)
  request,    (* approval_requests: status of the latest one                *)
  decisions,  (* approval_decisions: who has approved                       *)
  targetState,      (* post_targets.state, "absent" if there is no row            *)
  frozen,     (* post_targets.rendered_payload: the version it renders      *)
  desk,       (* the request each person has running                        *)
  outcome,    (* outcome transaction open on a target: its new state        *)
  rollup,     (* ... and the post status it has computed, if any            *)
  rowLock,    (* the outcome transaction that holds the post row            *)
  signed,     (* history: who approved which version                        *)
  route,      (* history: how a target came to be scheduled                 *)
  reflows     (* history: slot removals that unqueued the post              *)

post    == <<status, content, paid, request, decisions>>
writers == <<outcome, rollup, rowLock>>
history == <<signed, route, reflows>>
vars    == <<post, targetState, frozen, desk, writers, history>>

People   == Approvers \cup {Author}
Statuses == {"draft", "pending_approval", "changes_requested", "scheduled", "publishing",
             "published", "partially_published", "failed", "deleted"}
States   == {"absent", "draft", "scheduled", "publishing", "published", "failed",
             "needs_review", "canceled", "skipped"}
Settled  == {"published", "failed", "needs_review"}
Steps    == {"idle", "submit", "edit", "bounce", "retarget", "delete", "approve", "decide",
             "validate", "checked", "materialize", "close"}

(* A request: where it is, how it came there, and what it has read.         *)
Request == [step : Steps, via : {"none", "direct", "approval"},
            seen : Nat, was : Statuses, drafts : SUBSET Targets]
Idle    == [step |-> "idle", via |-> "none", seen |-> 0, was |-> "draft", drafts |-> {}]

-----------------------------------------------------------------------------
(* Helpers *)

(* Mutant: a scheduled post may be edited too.                              *)
EditableWhileScheduled == {"draft", "changes_requested", "scheduled"}

Editable == {"draft", "changes_requested"}

At(p, s) == desk[p].step = s

Open(p, s, via) ==
  /\ At(p, "idle")
  /\ Overlap \/ \A q \in People : At(q, "idle")
  /\ desk' = [desk EXCEPT ![p] = [Idle EXCEPT !.step = s, !.via = via,
                                               !.seen = content, !.was = status]]

GoOn(p, s)  == desk' = [desk EXCEPT ![p].step = s]
Answer(p)   == desk' = [desk EXCEPT ![p] = Idle]
UpdatePost  == rowLock = None   (* an UPDATE of the row waits for its lock *)

-----------------------------------------------------------------------------
(* Requests that only read before their first write.                        *)

Begin(p) ==
  /\ \/ status \in Editable /\ Open(p, "submit", "none")
     \/ status \in Editable \cup {"pending_approval"} /\ content < MaxContent
        /\ Open(p, "edit", "none")
     \/ status \in Editable /\ Open(p, "retarget", "none")
     \/ status \in Editable /\ Open(p, "delete", "none")
     \/ p \in Approvers /\ status = "pending_approval" /\ Open(p, "bounce", "none")
     \/ p \in Approvers /\ status \in Editable /\ Open(p, "validate", "direct")
     \/ status # "deleted" /\ Open(p, "approve", "approval")   (* validates first *)
  /\ UNCHANGED <<post, targetState, frozen, writers, history>>

(* Mutant: an earlier request, even a closed one, is taken for this one.    *)
SubmitForApprovalOnce(p) ==
  /\ At(p, "submit") /\ UpdatePost
  /\ status # "deleted"
  /\ status' = "pending_approval"
  /\ request' = IF request = "none" THEN "pending" ELSE request
  /\ Answer(p)
  /\ UNCHANGED <<content, paid, decisions, targetState, frozen, writers, history>>

SubmitForApproval(p) ==
  /\ At(p, "submit") /\ UpdatePost
  /\ status # "deleted"
  /\ status' = "pending_approval"
  /\ request' = "pending"
  /\ Answer(p)
  /\ UNCHANGED <<content, paid, decisions, targetState, frozen, writers, history>>

(* Mutant: an edit under review leaves the recorded approvals in place.     *)
UpdatePostKeepsApprovals(p) ==
  /\ At(p, "edit") /\ UpdatePost
  /\ status # "deleted"
  /\ content' = content + 1
  /\ IF desk[p].was = "pending_approval"
       THEN /\ status'  = "draft"
            /\ request' = IF request = "pending" THEN "canceled" ELSE request
       ELSE UNCHANGED <<status, request>>
  /\ Answer(p)
  /\ UNCHANGED <<paid, decisions, targetState, frozen, writers, history>>

(* updatePost: an edit under review voids the approval.  setOverride on an  *)
(* editable post changes what a target renders in the same way.             *)
EditPost(p) ==
  /\ At(p, "edit") /\ UpdatePost
  /\ status # "deleted"
  /\ content' = content + 1
  /\ IF desk[p].was = "pending_approval"
       THEN /\ status'    = "draft"
            /\ request'   = IF request = "pending" THEN "canceled" ELSE request
            /\ decisions' = {}
       ELSE UNCHANGED <<status, request, decisions>>
  /\ Answer(p)
  /\ UNCHANGED <<paid, targetState, frozen, writers, history>>

RequestChanges(p) ==
  /\ At(p, "bounce") /\ UpdatePost
  /\ status # "deleted"
  /\ status'    = "changes_requested"
  /\ request'   = IF request = "pending" THEN "changes_requested" ELSE request
  /\ decisions' = {}
  /\ Answer(p)
  /\ UNCHANGED <<content, paid, targetState, frozen, writers, history>>

(* addTarget and removeTarget: the target row, whatever its state.  The     *)
(* foreign key of a new row waits for the post row.                         *)
Retarget(p) ==
  /\ At(p, "retarget")
  /\ status # "deleted"
  /\ \E t \in Targets :
       /\ outcome[t] = "none" /\ (targetState[t] = "absent" => UpdatePost)
       /\ targetState'  = [targetState EXCEPT ![t] = IF @ = "absent" THEN "draft" ELSE "absent"]
       /\ frozen' = [frozen EXCEPT ![t] = 0]
       /\ route'  = [route EXCEPT ![t] = "none"]
  /\ Answer(p)
  /\ UNCHANGED <<post, writers, signed, reflows>>

(* The delete cascades to the targets, the requests and the decisions.      *)
DeletePost(p) ==
  /\ At(p, "delete") /\ UpdatePost
  /\ \A t \in Targets : outcome[t] = "none"
  /\ status' = "deleted"
  /\ request' = "none" /\ decisions' = {}
  /\ targetState'  = [t \in Targets |-> "absent"]
  /\ frozen' = [t \in Targets |-> 0]
  /\ route'  = [t \in Targets |-> "none"]
  /\ Answer(p)
  /\ UNCHANGED <<content, paid, writers, signed, reflows>>

-----------------------------------------------------------------------------
(* approve(): validate, record the decision, schedule, close the request.   *)

Validate(p) ==
  /\ \/ At(p, "approve")  /\ GoOn(p, "decide")
     \/ At(p, "validate") /\ GoOn(p, "checked")
  /\ UNCHANGED <<post, targetState, frozen, writers, history>>

(* Any request may end early: a guard or a blocker of validatePost (text,   *)
(* media, account, time lapsed) refuses it, or its process dies.  What it   *)
(* has committed stays.                                                     *)
Refused(p) ==
  /\ ~At(p, "idle")
  /\ Answer(p)
  /\ UNCHANGED <<post, targetState, frozen, writers, history>>

Required == IF paid THEN 2 ELSE 1

MayApprove(p) == p \in Approvers /\ p # Author

Approve(p) ==
  /\ At(p, "decide")
  /\ MayApprove(p)
  /\ status = "pending_approval"
  /\ decisions' = decisions \cup {p}
  /\ signed' = signed \cup {<<p, desk[p].seen>>}
  /\ IF Cardinality(decisions \cup {p}) < Required THEN Answer(p) ELSE GoOn(p, "validate")
  /\ UNCHANGED <<status, content, paid, request, targetState, frozen, writers, route, reflows>>

(* materializeAndSchedule: read the post, render its draft targets, then    *)
(* write them and the post.                                                 *)
ReadForSchedule(p) ==
  /\ At(p, "checked")
  /\ status \in Editable \cup {"pending_approval"}
  /\ desk' = [desk EXCEPT ![p].step = "materialize", ![p].seen = content,
                          ![p].drafts = {t \in Targets : targetState[t] = "draft"}]
  /\ UNCHANGED <<post, targetState, frozen, writers, history>>

MaterializeAndSchedule(p) ==
  /\ At(p, "materialize") /\ UpdatePost
  /\ status # "deleted"
  /\ LET drafts == {t \in desk[p].drafts : targetState[t] = "draft"} IN
       /\ targetState'  = [t \in Targets |-> IF t \in drafts THEN "scheduled" ELSE targetState[t]]
       /\ frozen' = [t \in Targets |-> IF t \in drafts THEN desk[p].seen ELSE frozen[t]]
       /\ route'  = [t \in Targets |-> IF t \in drafts THEN desk[p].via ELSE route[t]]
  /\ status' = "scheduled"
  /\ IF desk[p].via = "approval" THEN GoOn(p, "close") ELSE Answer(p)
  /\ UNCHANGED <<content, paid, request, decisions, writers, signed, reflows>>

CloseRequest(p) ==
  /\ At(p, "close")
  /\ request' = IF request = "pending" THEN "approved" ELSE request
  /\ Answer(p)
  /\ UNCHANGED <<status, content, paid, decisions, targetState, frozen, writers, history>>

-----------------------------------------------------------------------------
(* Operations on targets that are one conditional UPDATE each.              *)

MoveTarget(t, from, to) ==
  /\ targetState[t] \in from /\ outcome[t] = "none"
  /\ targetState' = [targetState EXCEPT ![t] = to]
  /\ UNCHANGED <<post, frozen, desk, writers, history>>

ClaimTarget(t)      == MoveTarget(t, {"scheduled"}, "publishing")
RequeueTarget(t)    == MoveTarget(t, {"publishing"}, "scheduled")
RetryTarget(t)      == MoveTarget(t, {"failed", "needs_review"}, "scheduled")
CancelTarget(t)     == MoveTarget(t, {"scheduled", "draft"}, "canceled")
DisconnectAccount(t) == MoveTarget(t, {"scheduled"}, "skipped")

(* removeSlot or moveSlot leaves no room: the post goes back to draft.      *)
Reflow ==
  /\ status = "scheduled" /\ UpdatePost
  /\ reflows < MaxReflows
  /\ LateReflow \/ \A t \in Targets : targetState[t] \in {"absent", "draft", "scheduled", "canceled"}
  /\ status' = "draft"
  /\ targetState' = [t \in Targets |-> IF targetState[t] = "scheduled" THEN "draft" ELSE targetState[t]]
  /\ reflows' = reflows + 1
  /\ UNCHANGED <<content, paid, request, decisions, frozen, desk, writers, signed, route>>

-----------------------------------------------------------------------------
(* An outcome transaction: write the target, lock the post row, count the   *)
(* targets, write the post, commit.  Others see its target only then.       *)

WriteOutcome(t) ==
  /\ targetState[t] = "publishing" /\ outcome[t] = "none"
  /\ \E s \in Settled : outcome' = [outcome EXCEPT ![t] = s]
  /\ UNCHANGED <<post, targetState, frozen, desk, rollup, rowLock, history>>

(* What t's own transaction sees: its write and what others have committed. *)
View(t) == [targetState EXCEPT ![t] = outcome[t]]

Projection(view) ==
  LET in(S)  == Cardinality({t \in Targets : view[t] \in S})
      total  == in(States \ {"absent"})
      bad    == in({"failed", "needs_review", "skipped"})
      published == in({"published"})
  IN CASE in({"publishing"}) > 0                         -> "publishing"
       [] in({"publishing"}) = 0 /\ total > 0 /\ published = total -> "published"
       [] in({"publishing"}) = 0 /\ published > 0 /\ published < total
            /\ published + bad = total                   -> "partially_published"
       [] in({"publishing"}) = 0 /\ total > 0 /\ bad = total -> "failed"
       [] OTHER                                          -> "none"

(* Mutant: the roll-up counts without locking the post row.                 *)
RecomputeUnlocked(t) ==
  /\ outcome[t] # "none" /\ rollup[t] = "none"
  /\ rollup' = [rollup EXCEPT ![t] = IF Projection(View(t)) = "none" THEN "keep"
                                     ELSE Projection(View(t))]
  /\ UNCHANGED <<post, targetState, frozen, desk, outcome, rowLock, history>>

RecomputeRollup(t) ==
  /\ outcome[t] # "none" /\ rollup[t] = "none"
  /\ rowLock = None
  /\ rowLock' = t
  /\ rollup' = [rollup EXCEPT ![t] = IF Projection(View(t)) = "none" THEN "keep"
                                     ELSE Projection(View(t))]
  /\ UNCHANGED <<post, targetState, frozen, desk, outcome, history>>

EndOutcome(t) ==
  /\ outcome' = [outcome EXCEPT ![t] = "none"]
  /\ rollup'  = [rollup EXCEPT ![t] = "none"]
  /\ rowLock' = IF rowLock = t THEN None ELSE rowLock

CommitOutcome(t) ==
  /\ rollup[t] # "none"
  /\ targetState'  = View(t)
  /\ status' = IF rollup[t] = "keep" THEN status ELSE rollup[t]
  /\ EndOutcome(t)
  /\ UNCHANGED <<content, paid, request, decisions, frozen, desk, history>>

(* The worker or its connection dies: the transaction rolls back.           *)
RollBack(t) ==
  /\ outcome[t] # "none"
  /\ EndOutcome(t)
  /\ UNCHANGED <<post, targetState, frozen, desk, history>>

-----------------------------------------------------------------------------
Init ==
  /\ status = "draft" /\ content = 1 /\ paid \in BOOLEAN
  /\ request = "none" /\ decisions = {}
  /\ targetState \in [Targets -> {"absent", "draft"}]
  /\ frozen = [t \in Targets |-> 0]
  /\ desk = [p \in People |-> Idle]
  /\ outcome = [t \in Targets |-> "none"]
  /\ rollup = [t \in Targets |-> "none"]
  /\ rowLock = None
  /\ signed = {} /\ reflows = 0
  /\ route = [t \in Targets |-> "none"]

Person(p) ==
  \/ Begin(p) \/ SubmitForApproval(p) \/ EditPost(p) \/ RequestChanges(p)
  \/ Retarget(p) \/ DeletePost(p)
  \/ Validate(p) \/ Refused(p) \/ Approve(p)
  \/ ReadForSchedule(p) \/ MaterializeAndSchedule(p) \/ CloseRequest(p)

Target(t) ==
  \/ ClaimTarget(t) \/ RequeueTarget(t) \/ RetryTarget(t) \/ CancelTarget(t)
  \/ DisconnectAccount(t)
  \/ WriteOutcome(t) \/ RecomputeRollup(t) \/ CommitOutcome(t) \/ RollBack(t)

Next ==
  \/ \E p \in People : Person(p)
  \/ \E t \in Targets : Target(t)
  \/ Reflow

Spec == Init /\ [][Next]_vars

-----------------------------------------------------------------------------
TypeOK ==
  /\ status \in Statuses
  /\ content \in Nat
  /\ paid \in BOOLEAN
  /\ request \in {"none", "pending", "approved", "changes_requested", "canceled"}
  /\ decisions \subseteq People
  /\ targetState \in [Targets -> States]
  /\ frozen \in [Targets -> Nat]
  /\ desk \in [People -> Request]
  /\ outcome \in [Targets -> Settled \cup {"none"}]
  /\ rollup \in [Targets -> {"none", "keep", "publishing", "published",
                             "partially_published", "failed"}]
  /\ rowLock \in Targets \cup {None}
  /\ signed \subseteq People \X Nat
  /\ route \in [Targets -> {"none", "direct", "approval"}]
  /\ reflows \in Nat

(* Once the pipeline has settled every target of the post, and no outcome   *)
(* is half-written, posts.status is the projection of their states: two     *)
(* targets that finish at the same moment never lose each other's update.   *)
RollupIsProjection ==
  (\A t \in Targets : targetState[t] \in Settled \cup {"absent"} /\ outcome[t] = "none")
    => Projection(targetState) \in {"none", status}

Reviewers(k) == {p \in Approvers \ {Author} : <<p, k>> \in signed}

(* What goes out through the approval path was approved, in the version     *)
(* that goes out, by somebody other than its author, and by two of them if  *)
(* the post is a paid promotion that never left the queue.                  *)
ReviewedAsScheduled ==
  \A t \in Targets :
    targetState[t] \notin {"absent", "draft"} /\ route[t] = "approval"
      => Cardinality(Reviewers(frozen[t])) >= (IF paid /\ reflows = 0 THEN 2 ELSE 1)

(* The approvals inbox of u lists the post: reviewers see every submission, *)
(* an author the own ones, and only while its request is pending.           *)
ListApprovals(u) ==
  /\ u \in Approvers \cup {Author}
  /\ status = "pending_approval" /\ request = "pending"

(* A post that waits for approval is in the inbox of everybody who has to   *)
(* see it, after any number of edits, bounces and new submissions, and the  *)
(* approvals counted there were given to the text it now has, unless it has *)
(* once been unqueued.                                                      *)
InboxShowsPending ==
  status = "pending_approval" =>
    /\ \A u \in People : ListApprovals(u)
    /\ reflows = 0 => \A p \in decisions : <<p, content>> \in signed

(* What the pipeline is about to publish is the post people see: nothing    *)
(* they can edit any more differs from the frozen payload.                  *)
ScheduledIsCurrent ==
  \A t \in Targets : targetState[t] \in {"scheduled", "publishing"} => frozen[t] = content

(* No request takes a target row away from under the pipeline.              *)
InFlightNeverDeleted ==
  [][\A t \in Targets : targetState[t] = "publishing" => targetState'[t] # "absent"]_vars
=============================================================================
