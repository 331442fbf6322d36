-------------------------------- MODULE Slots --------------------------------
(***************************************************************************)
(* The weekly queue of one market (src/scheduling/queue.ts) and the ways   *)
(* around it: posts are given the next open slot, slots are added, moved   *)
(* and removed, which reflows the posts behind them, and single targets    *)
(* are moved, cancelled and retried on the board (scheduling/board.ts).    *)
(*                                                                         *)
(* An instant is a day with at most one slot; a post has one target.       *)
(* posts.status follows the target only when its outcome is written.       *)
(***************************************************************************)
EXTENDS Integers, FiniteSets

CONSTANTS
  QueuePosts,   \* posts queued in the market, in order of creation 1 .. n
  Week,         \* days of a week
  SlotHorizon,  \* days ahead for which occurrences are generated
  SlotMargin,   \* occurrences generated beyond those asked for
  LastDay,      \* the last day of a behaviour (a bound)
  MaxSlotChanges, \* slots added, moved or removed (a bound)
  QueueHabits   \* "stale pick": a slot is taken although it has been changed or taken

ASSUME SlotsAssumption ==
  /\ QueuePosts \subseteq Nat /\ IsFiniteSet(QueuePosts)
  /\ {Week, SlotHorizon, SlotMargin, LastDay, MaxSlotChanges} \subseteq Nat
  /\ QueueHabits \subseteq {"stale pick"}

VARIABLES
  slots,   \* days of the week with an active slot
  today,   \* the clock
  queued,  \* posts: status, scheduled_at (0 is null), state and time of the target
  slotChanges
slotsVars == <<slots, today, queued, slotChanges>>

UnqueuedPost == [status |-> "draft", at |-> 0, state |-> "draft", due |-> 0, pick |-> 0]

SlotsInit ==
  /\ slots \in {S \in SUBSET (0 .. Week - 1) : Cardinality(S) \in 1 .. 2}
  /\ today = 1
  /\ queued = [p \in QueuePosts |-> UnqueuedPost]
  /\ slotChanges = 0

(* The first occurrences strictly after now, at most n and the margin.      *)
Before(days, d) == Cardinality({e \in days : e < d})
Occurrences(S) == {d \in today + 1 .. today + SlotHorizon : d % Week \in S}
GenerateOccurrences(S, n) ==
  {d \in Occurrences(S) : Before(Occurrences(S), d) < n + SlotMargin}

Taken == {queued[p].at : p \in {q \in QueuePosts : queued[q].status \in {"scheduled", "publishing"}}}

ComputeNextOpenSlots(n) ==
  LET open == GenerateOccurrences(slots, n) \ Taken
  IN  {d \in open : Before(open, d) < n}

(* Scheduled posts by time, then by creation.                               *)
Queue == {p \in QueuePosts : queued[p].status = "scheduled"}
InFront(p, q) == \/ queued[p].at < queued[q].at
                 \/ queued[p].at = queued[q].at /\ p < q

Moved(q, day) == [q EXCEPT !.at = day, !.due = IF q.state = "scheduled" THEN day ELSE @]
Stranded(q) == [q EXCEPT !.status = "draft", !.at = 0,
                         !.state = IF @ = "scheduled" THEN "draft" ELSE @,
                         !.due = IF q.state = "scheduled" THEN 0 ELSE @]

(* Every queued post on the occurrence with as many before it as there are  *)
(* posts in front; what does not fit becomes a draft.                       *)
Reflowed(S, front) ==
  LET occ == GenerateOccurrences(S, Cardinality(Queue))
      places(p) == {d \in occ : Before(occ, d) = Cardinality(front[p])}
  IN  [p \in QueuePosts |->
        IF p \notin Queue THEN queued[p]
        ELSE IF places(p) = {} THEN Stranded(queued[p])
        ELSE Moved(queued[p], CHOOSE d \in places(p) : TRUE)]

(* Mutant: posts are taken in the order they were created.                  *)
ReflowByCreation(S) == queued' = Reflowed(S, [p \in QueuePosts |-> {q \in Queue : q < p}])

ReflowInTx(S) == queued' = Reflowed(S, [p \in QueuePosts |-> {q \in Queue : InFront(q, p)}])

ChangeSlots(S) ==
  /\ slotChanges < MaxSlotChanges /\ slotChanges' = slotChanges + 1
  /\ slots' = S /\ S # slots
  /\ UNCHANGED today

(* A new slot moves nothing; a slot moved or removed reflows the market.    *)
AddSlot(d) == ChangeSlots(slots \cup {d}) /\ UNCHANGED queued

MoveSlot(d, e) ==
  /\ d \in slots /\ e \notin slots
  /\ ChangeSlots((slots \ {d}) \cup {e})
  /\ ReflowInTx((slots \ {d}) \cup {e})

(* Mutant: the posts of a removed slot stay where they are.                 *)
RemoveSlotOnly(d) == d \in slots /\ ChangeSlots(slots \ {d}) /\ UNCHANGED queued

RemoveSlot(d) == d \in slots /\ ChangeSlots(slots \ {d}) /\ ReflowInTx(slots \ {d})

Alter(p, q) == queued' = [queued EXCEPT ![p] = q] /\ UNCHANGED <<slots, today, slotChanges>>

(* The client takes the next open slot, and schedules the post with it; the *)
(* slot may be taken or gone by then, which only the habit overlooks.       *)
NextOpen == ComputeNextOpenSlots(1)

PickSlot(p) ==
  /\ queued[p].state = "draft" /\ queued[p].status = "draft"
  /\ \E d \in NextOpen : queued[p].pick # d /\ Alter(p, [queued[p] EXCEPT !.pick = d])

EnqueuePost(p) ==
  /\ queued[p].state = "draft" /\ queued[p].status = "draft" /\ queued[p].pick > today
  /\ "stale pick" \in QueueHabits \/ NextOpen = {queued[p].pick}
  /\ Alter(p, [status |-> "scheduled", at |-> queued[p].pick,
               state |-> "scheduled", due |-> queued[p].pick, pick |-> 0])

(* The board moves the target, and leaves the post where it was.            *)
RescheduleTarget(p, day) ==
  /\ queued[p].state = "scheduled" /\ day > today
  /\ Alter(p, [queued[p] EXCEPT !.due = day])

CancelTarget(p) ==
  /\ queued[p].state = "scheduled"
  /\ Alter(p, [queued[p] EXCEPT !.state = "canceled", !.due = 0])

ClaimTarget(p) ==
  /\ queued[p].state = "scheduled" /\ queued[p].due <= today
  /\ Alter(p, [queued[p] EXCEPT !.state = "publishing"])

TargetSettles(p, st) ==
  /\ queued[p].state = "publishing"
  /\ Alter(p, [queued[p] EXCEPT !.state = st, !.status = st])

RetryTarget(p) ==
  /\ queued[p].state = "failed"
  /\ Alter(p, [queued[p] EXCEPT !.state = "scheduled", !.due = today])

NextDay ==
  /\ today < LastDay /\ today' = today + 1
  /\ UNCHANGED <<slots, queued, slotChanges>>

SlotsNext ==
  \/ \E d \in 0 .. Week - 1 : AddSlot(d) \/ RemoveSlot(d) \/ \E e \in 0 .. Week - 1 : MoveSlot(d, e)
  \/ \E p \in QueuePosts :
       \/ PickSlot(p) \/ EnqueuePost(p) \/ CancelTarget(p) \/ ClaimTarget(p) \/ RetryTarget(p)
       \/ \E d \in {today + 1} : RescheduleTarget(p, d)
       \/ \E st \in {"published", "failed"} : TargetSettles(p, st)
  \/ NextDay

SlotsSpec == SlotsInit /\ [][SlotsNext]_slotsVars

-----------------------------------------------------------------------------
(* A queued post waits on a slot that exists, and on one of its own,        *)
(* whatever is added, moved and removed around it.                          *)
OnOwnSlot ==
  \A p \in QueuePosts :
    queued[p].status = "scheduled" /\ queued[p].at > today =>
      /\ queued[p].at % Week \in slots
      /\ \A q \in QueuePosts \ {p} : queued[q].status = "scheduled" => queued[q].at # queued[p].at

(* No change of the slots lets a post overtake another: those that lose     *)
(* their place are the last ones.                                           *)
Ahead(p, q) == /\ queued[p].status = "scheduled" /\ queued[q].status = "scheduled"
               /\ queued[p].at < queued[q].at
QueueKeepsOrder ==
  [][slotChanges' # slotChanges => \A p, q \in QueuePosts :
        Ahead(p, q) => /\ queued[q].status' = "scheduled" => Ahead(p, q)'
                       /\ queued[p].status' = "draft" => queued[q].status' = "draft"]_slotsVars
=============================================================================
