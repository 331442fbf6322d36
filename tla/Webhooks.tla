------------------------------ MODULE Webhooks ------------------------------
(***************************************************************************)
(* Webhooks: the fan-out of the events outbox into deliveries, and the     *)
(* worker that sends them.  Both are cron tasks, so two of a kind may run  *)
(* at once, and every statement of a tick commits on its own: there is no  *)
(* transaction around it.                                                  *)
(*                                                                         *)
(* Time is abstract: a delivery that waits for its next_attempt_at joins   *)
(* the end of due when the time comes, and ages once, after which it is    *)
(* more than 24 hours old.                                                 *)
(***************************************************************************)
EXTENDS Integers, Sequences, FiniteSets

CONSTANTS
  Events,      (* rows of the outbox                                        *)
  Endpoints,   (* webhook endpoints, all subscribed to these event types    *)
  Tasks,       (* concurrent task slots of the worker processes             *)
  Batch,       (* limit of the delivery claim                               *)
  EndpointCap, (* PER_ENDPOINT_CAP                                          *)
  MaxDisturbed (* bound: worker crashes, replays and lease overruns together *)

ASSUME WebhooksAssumption ==
  /\ IsFiniteSet(Events) /\ IsFiniteSet(Endpoints)
  /\ Batch \in Nat \ {0} /\ EndpointCap \in Nat \ {0}
  /\ MaxDisturbed \in Nat

VARIABLES
  emitted, fanned,   (* events: the rows, and those with fanned_out         *)
  active, deleted,   (* webhook_endpoints                                   *)
  status,            (* webhook_deliveries.status, "none" if there is no row *)
  due,               (* deliveries whose next_attempt_at has come, in order *)
  aged,              (* deliveries created over 24 hours ago                *)
  task,              (* what each running tick still has to do              *)
  accepted,          (* history: 2xx answers, by delivery                   *)
  passedOver,        (* history: endpoints inactive at the fan-out          *)
  disturbed          (* history: crashes, replays and lease overruns           *)

outbox    == <<emitted, fanned>>
endpoints == <<active, deleted>>
history   == <<accepted, passedOver, disturbed>>
vars      == <<outbox, endpoints, status, due, aged, task, history>>

Deliveries == Endpoints \X Events
Statuses   == {"none", "pending", "delivering", "succeeded", "failed", "exhausted"}
Open       == {"pending", "failed", "delivering"}
Kinds      == {"idle", "fanout", "mark", "deliver", "answer", "disable"}

(* A tick: its phase, the rows it has read and not handled, the one in      *)
(* hand, and the answer it got.                                             *)
Idle     == [kind |-> "idle", rows |-> {}, now |-> <<>>, ok |-> FALSE]

InDue(d) == \E i \in DOMAIN due : due[i] = d

Start(p, kind, rows) ==
  /\ task[p].kind = "idle"
  /\ task' = [task EXCEPT ![p] = [Idle EXCEPT !.kind = kind, !.rows = rows]]

(* The row in hand is done; a tick with no rows left is over.               *)
Continue(p, kind) ==
  task' = [task EXCEPT ![p] = IF task[p].rows = {} THEN Idle
                              ELSE [Idle EXCEPT !.kind = kind, !.rows = task[p].rows]]

Take(p, r, kind, ok) ==
  task' = [task EXCEPT ![p] = [kind |-> kind, rows |-> task[p].rows \ {r}, now |-> r, ok |-> ok]]

-----------------------------------------------------------------------------
(* emitEvent, called inside the transaction of the change it reports.       *)
EmitEvent(e) ==
  /\ e \notin emitted
  /\ emitted' = emitted \cup {e}
  /\ UNCHANGED <<fanned, endpoints, status, due, aged, task, history>>

-----------------------------------------------------------------------------
(* fanOutTick *)

(* Mutant: the cursor is moved when the batch is read.                      *)
StartFanOutMarked(p) ==
  /\ emitted \ fanned # {}
  /\ Start(p, "fanout", emitted \ fanned)
  /\ fanned' = emitted
  /\ UNCHANGED <<emitted, endpoints, status, due, aged, history>>

StartFanOut(p) ==
  /\ emitted \ fanned # {}
  /\ Start(p, "fanout", emitted \ fanned)
  /\ UNCHANGED <<outbox, endpoints, status, due, aged, history>>

Subscribed == {x \in Endpoints : x \in active /\ x \notin deleted}

NewRows(e) == {d \in Subscribed \X {e} : status[d] = "none"}

(* Deliveries are queued in no particular order among themselves.           *)
Appended(S) == {due \o q : q \in {f \in [1..Cardinality(S) -> S] :
                                    \A d \in S : \E i \in DOMAIN f : f[i] = d}}

InsertDeliveries(p) ==
  /\ task[p].kind = "fanout"
  /\ \E e \in task[p].rows :
       /\ status' = [d \in Deliveries |-> IF d \in NewRows(e) THEN "pending" ELSE status[d]]
       /\ due' \in Appended(NewRows(e))
       /\ passedOver' = passedOver \cup ((Endpoints \ Subscribed) \X {e})
       /\ Take(p, e, "mark", FALSE)
  /\ UNCHANGED <<outbox, active, deleted, aged, accepted, disturbed>>

MarkFanned(p) ==
  /\ task[p].kind = "mark"
  /\ fanned' = fanned \cup {task[p].now}
  /\ Continue(p, "fanout")
  /\ UNCHANGED <<emitted, endpoints, status, due, aged, history>>

-----------------------------------------------------------------------------
(* deliverTick *)

(* The claim locks the first Batch due rows, then keeps at most EndpointCap *)
(* of each endpoint, the earliest first.                                    *)
Locked      == SubSeq(due, 1, IF Len(due) < Batch THEN Len(due) ELSE Batch)
Rank(i)     == Cardinality({j \in 1..i : due[j][1] = due[i][1]})
Claimed     == {due[i] : i \in {j \in DOMAIN Locked : Rank(j) <= EndpointCap}}

(* What is due, in order, without the deliveries of S: the k-th that stays. *)
Staying(S)  == {i \in DOMAIN due : due[i] \notin S}
Nth(K, k)   == CHOOSE i \in K : Cardinality({j \in K : j <= i}) = k
Without(S)  == [k \in 1 .. Cardinality(Staying(S)) |-> due[Nth(Staying(S), k)]]

(* Mutant: the claim does not push next_attempt_at behind the lease.        *)
ClaimDueUnleased(p) ==
  /\ due # <<>>
  /\ Start(p, "deliver", Claimed)
  /\ status' = [d \in Deliveries |-> IF d \in Claimed THEN "delivering" ELSE status[d]]
  /\ UNCHANGED <<outbox, active, deleted, due, aged, history>>

ClaimDue(p) ==
  /\ due # <<>>
  /\ Start(p, "deliver", Claimed)
  /\ status' = [d \in Deliveries |-> IF d \in Claimed THEN "delivering" ELSE status[d]]
  /\ due' = Without(Claimed)
  /\ UNCHANGED <<outbox, active, deleted, aged, history>>

(* The row is read again and sent, whatever has become of its endpoint's    *)
(* active flag; a deleted endpoint took its deliveries along.               *)
Send(p) ==
  /\ task[p].kind = "deliver"
  /\ \E d \in task[p].rows :
       \/ /\ status[d] # "none"
          /\ \E ok \in BOOLEAN :
               /\ Take(p, d, "answer", ok)
               /\ accepted' = [accepted EXCEPT ![d] = IF ok THEN @ + 1 ELSE @]
       \/ /\ status[d] = "none"
          /\ task' = [task EXCEPT ![p] = IF task[p].rows = {d} THEN Idle
                                         ELSE [task[p] EXCEPT !.rows = @ \ {d}]]
          /\ UNCHANGED accepted
  /\ UNCHANGED <<outbox, endpoints, status, due, aged, passedOver, disturbed>>

Write(d, s) == status' = [status EXCEPT ![d] = IF @ = "none" THEN @ ELSE s]

(* The claim looks at open rows only: a settled one is due no more.         *)
RecordSuccess(p) ==
  /\ task[p].kind = "answer" /\ task[p].ok
  /\ Write(task[p].now, "succeeded")
  /\ due' = Without({task[p].now})
  /\ Continue(p, "deliver")
  /\ UNCHANGED <<outbox, active, deleted, aged, history>>

(* Mutant: a failed delivery is retried for ever.                           *)
RecordFailureForever(p) ==
  /\ task[p].kind = "answer" /\ ~task[p].ok
  /\ Write(task[p].now, "failed")
  /\ due' = Without({task[p].now})
  /\ Continue(p, "deliver")
  /\ UNCHANGED <<outbox, active, deleted, aged, history>>

(* A failure backs off, or exhausts the delivery once it is a day old.      *)
RecordFailure(p) ==
  /\ task[p].kind = "answer" /\ ~task[p].ok
  /\ LET d == task[p].now IN
       /\ due' = Without({d})
       /\ \/ d \notin aged /\ Write(d, "failed") /\ Continue(p, "deliver")
          \/ d \in aged /\ Write(d, "exhausted")
               /\ task' = [task EXCEPT ![p].kind = "disable"]
  /\ UNCHANGED <<outbox, active, deleted, aged, history>>

DisableEndpoint(p) ==
  /\ task[p].kind = "disable"
  /\ active' = active \ {task[p].now[1]}
  /\ Continue(p, "deliver")
  /\ UNCHANGED <<outbox, deleted, status, due, aged, history>>

-----------------------------------------------------------------------------
(* Management: replay and delete.                                           *)

ReplayDelivery(d) ==
  /\ disturbed < MaxDisturbed
  /\ status[d] # "none"
  /\ status' = [status EXCEPT ![d] = "pending"]
  /\ due' = Append(Without({d}), d)
  /\ active' = active \cup {d[1]}
  /\ disturbed' = disturbed + 1
  /\ UNCHANGED <<outbox, deleted, aged, task, accepted, passedOver>>

DeleteWebhook(x) ==
  /\ x \notin deleted
  /\ deleted' = deleted \cup {x}
  /\ status' = [d \in Deliveries |-> IF d[1] = x THEN "none" ELSE status[d]]
  /\ due' = Without({x} \X Events)
  /\ UNCHANGED <<outbox, active, aged, task, history>>

-----------------------------------------------------------------------------
(* Environment *)

InHand(d) == \E p \in Tasks : d = task[p].now \/ d \in task[p].rows

(* A backoff ends, or the lease of a delivery whose tick is gone.           *)
ComesDue(d) ==
  /\ status[d] \in Open /\ ~InDue(d) /\ ~InHand(d)
  /\ due' = Append(due, d)
  /\ UNCHANGED <<outbox, active, deleted, status, aged, task, history>>

(* A tick leases its whole batch for 60 seconds and sends it one by one:    *)
(* a lease may end while the delivery is still in its hands.                *)
LeaseOverruns(d) ==
  /\ status[d] \in Open /\ ~InDue(d) /\ InHand(d)
  /\ disturbed < MaxDisturbed
  /\ disturbed' = disturbed + 1
  /\ due' = Append(due, d)
  /\ UNCHANGED <<outbox, active, deleted, status, aged, task, accepted, passedOver>>

(* The age of a settled delivery is of no consequence until it is replayed. *)
Ages(d) ==
  /\ status[d] \in Open /\ d \notin aged
  /\ aged' = aged \cup {d}
  /\ UNCHANGED <<outbox, active, deleted, status, due, task, history>>

Crash(p) ==
  /\ task[p].kind # "idle"
  /\ disturbed < MaxDisturbed
  /\ disturbed' = disturbed + 1
  /\ task' = [task EXCEPT ![p] = Idle]
  /\ UNCHANGED <<outbox, endpoints, status, due, aged, accepted, passedOver>>

-----------------------------------------------------------------------------
Init ==
  /\ emitted = {} /\ fanned = {}
  /\ active = Endpoints /\ deleted = {}
  /\ status = [d \in Deliveries |-> "none"]
  /\ due = <<>> /\ aged = {}
  /\ task = [p \in Tasks |-> Idle]
  /\ accepted = [d \in Deliveries |-> 0]
  /\ passedOver = {}
  /\ disturbed = 0

FanOutTick(p)  == InsertDeliveries(p) \/ MarkFanned(p)
DeliverTick(p) == Send(p) \/ RecordSuccess(p) \/ RecordFailure(p) \/ DisableEndpoint(p)

Running(p) == FanOutTick(p) \/ DeliverTick(p)

Next ==
  \/ \E e \in Events : EmitEvent(e)
  \/ \E p \in Tasks : StartFanOut(p) \/ ClaimDue(p) \/ Running(p) \/ Crash(p)
  \/ \E d \in Deliveries : ReplayDelivery(d) \/ ComesDue(d) \/ LeaseOverruns(d) \/ Ages(d)
  \/ \E x \in Endpoints : DeleteWebhook(x)

Spec == Init /\ [][Next]_vars

(* Cron starts each tick every minute, a running tick goes on unless its    *)
(* process dies, and time passes.                                           *)
Fairness ==
  /\ \A p \in Tasks : WF_vars(Running(p))
  /\ SF_vars(\E p \in Tasks : StartFanOut(p))
  /\ SF_vars(\E p \in Tasks : ClaimDue(p))
  /\ \A d \in Deliveries : WF_vars(ComesDue(d)) /\ WF_vars(Ages(d))

FairSpec == Spec /\ Fairness

-----------------------------------------------------------------------------
(* An endpoint that has accepted an event is sent it again only for a       *)
(* replay, for a worker that died with the delivery in hand, or for a lease *)
(* that ended under its sender: once for each of these, and never because   *)
(* two ticks ran side by side or answers were recorded out of order.        *)
AcceptedOnce == \A d \in Deliveries : accepted[d] <= 1 + disturbed

(* The fan-out cursor passes an event only once every endpoint that was     *)
(* subscribed and active has its delivery: a crash in between loses none.   *)
FanOutLosesNothing ==
  \A d \in Deliveries :
    d[2] \in fanned => \/ status[d] # "none"
                       \/ d[1] \in deleted \/ d \in passedOver

(* Every delivery is settled: accepted, or given up with its endpoint       *)
(* deleted or a day of failures behind it.                                  *)
DeliverySettles ==
  \A d \in Deliveries :
    status[d] \in Open ~> status[d] \in {"succeeded", "exhausted", "none"}
=============================================================================
