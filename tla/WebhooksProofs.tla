--------------------------- MODULE WebhooksProofs ---------------------------
(***************************************************************************)
(* That the fan-out loses no delivery and that an endpoint is sent an      *)
(* event it has accepted only after a disturbance, for any number of       *)
(* events, endpoints, concurrent ticks and crashes.                        *)
(***************************************************************************)
EXTENDS Webhooks, FiniteSetTheorems, SequenceTheorems, TLAPS

-----------------------------------------------------------------------------
(* The fan-out.                                                             *)

(* Every endpoint has its delivery of e, or was deleted or passed over.     *)
Covered(e) ==
  \A d \in Deliveries :
    d[2] = e => status[d] # "none" \/ d[1] \in deleted \/ d \in passedOver

Ticks(p) == [kind |-> task[p].kind, rows |-> task[p].rows,
             now |-> task[p].now, ok |-> task[p].ok]

(* The inductive invariant: the event a tick is about to mark is covered,   *)
(* and so is every event that is marked.                                    *)
FanOutInv ==
  /\ status = [d \in Deliveries |-> status[d]]
  /\ task = [p \in Tasks |-> Ticks(p)]
  /\ \A p \in Tasks : task[p].kind = "mark" => Covered(task[p].now)
  /\ \A e \in fanned : Covered(e)

(* It holds initially.                                                      *)
LEMMA InitFanOut == Init => FanOutInv
BY DEF Init, FanOutInv, Ticks, Idle

(* A covered event stays covered while deliveries only move between         *)
(* statuses, and endpoints are only deleted and passed over.                *)
LEMMA StaysCovered ==
  ASSUME NEW e, Covered(e), deleted \subseteq deleted', passedOver \subseteq passedOver',
         \A d \in Deliveries : status[d] # "none" => status'[d] # "none" \/ d[1] \in deleted'
  PROVE  Covered(e)'
BY DEF Covered, Deliveries

(* Recording an answer never takes a delivery away.                         *)
LEMMA WriteKeeps ==
  ASSUME FanOutInv, NEW d0, NEW s \in Statuses \ {"none"}, Write(d0, s)
  PROVE  /\ status' = [d \in Deliveries |-> status'[d]]
         /\ \A d \in Deliveries : status[d] # "none" => status'[d] # "none"
BY DEF FanOutInv, Write, Statuses

(* A tick that starts or goes on to its next row is not about to mark one.  *)
LEMMA TicksKeep ==
  ASSUME FanOutInv, NEW p \in Tasks, NEW kind \in Kinds \ {"mark"}, NEW rows,
         Start(p, kind, rows) \/ Continue(p, kind)
  PROVE  /\ task' = [q \in Tasks |-> Ticks(q)']
         /\ \A q \in Tasks : task'[q].kind = "mark" =>
              task[q].kind = "mark" /\ task'[q].now = task[q].now
<1> DEFINE next == IF Start(p, kind, rows) THEN [Idle EXCEPT !.kind = kind, !.rows = rows]
                   ELSE IF task[p].rows = {} THEN Idle
                   ELSE [Idle EXCEPT !.kind = kind, !.rows = task[p].rows]
<1>1. /\ task' = [task EXCEPT ![p] = next]
      /\ next = [kind |-> next.kind, rows |-> next.rows, now |-> next.now, ok |-> next.ok]
      /\ next.kind # "mark"
  BY DEF Start, Continue, Idle
<1> HIDE DEF next
<1> QED
  BY <1>1 DEF FanOutInv, Ticks

(* Every step keeps the invariant.                                          *)
LEMMA StepFanOut == FanOutInv /\ [Next]_vars => FanOutInv'
<1> SUFFICES ASSUME FanOutInv, [Next]_vars PROVE FanOutInv'
  OBVIOUS
<1> USE DEF outbox, endpoints, history
<1>0. ASSUME deleted \subseteq deleted', passedOver \subseteq passedOver',
             status' = [d \in Deliveries |-> status'[d]],
             \A d \in Deliveries :
               status[d] # "none" => status'[d] # "none" \/ d[1] \in deleted',
             task' = [p \in Tasks |-> Ticks(p)'],
             \A q \in Tasks : \A e : task'[q].kind = "mark" /\ task'[q].now = e =>
               (task[q].kind = "mark" /\ task[q].now = e) \/ Covered(e)',
             \A e \in fanned' : e \in fanned \/ \E q \in Tasks : task[q].kind = "mark" /\ e = task[q].now
      PROVE  FanOutInv'
  <2>1. ASSUME NEW e \in fanned' PROVE Covered(e)'
    <3>1. Covered(e)
      BY <1>0, <2>1 DEF FanOutInv
    <3> QED
      BY <1>0, <3>1, StaysCovered
  <2>2. ASSUME NEW q \in Tasks, NEW e, task'[q].kind = "mark", task'[q].now = e
        PROVE  Covered(e)'
    <3>1. Covered(e) \/ Covered(e)'
      BY <1>0, <2>2 DEF FanOutInv
    <3> QED
      BY <1>0, <3>1, StaysCovered
  <2>3. \A q \in Tasks : task'[q].kind = "mark" => Covered(task[q].now)'
    BY <2>2 DEF Covered
  <2> QED
    BY <1>0, <2>1, <2>3 DEF FanOutInv
<1>1. ASSUME NEW e \in Events, EmitEvent(e) PROVE FanOutInv'
  BY <1>1, <1>0 DEF EmitEvent, FanOutInv, Ticks
<1>2. ASSUME NEW p \in Tasks, StartFanOut(p) PROVE FanOutInv'
  <2>1. /\ task' = [q \in Tasks |-> Ticks(q)']
        /\ \A q \in Tasks : task'[q].kind = "mark" =>
             task[q].kind = "mark" /\ task'[q].now = task[q].now
    BY <1>2, TicksKeep DEF StartFanOut, Kinds
  <2> QED
    BY <1>2, <1>0, <2>1 DEF StartFanOut, FanOutInv
<1>3. ASSUME NEW p \in Tasks, InsertDeliveries(p) PROVE FanOutInv'
  <2>1. PICK e \in task[p].rows :
          /\ status' = [d \in Deliveries |-> IF d \in NewRows(e) THEN "pending" ELSE status[d]]
          /\ passedOver' = passedOver \cup ((Endpoints \ Subscribed) \X {e})
          /\ Take(p, e, "mark", FALSE)
    BY <1>3 DEF InsertDeliveries
  <2>2. Covered(e)'
    <3>1. ASSUME NEW d \in Deliveries, d[2] = e
          PROVE  status'[d] # "none" \/ d \in passedOver'
      <4>1. d[1] \in Endpoints /\ d = <<d[1], e>>
        BY <3>1 DEF Deliveries
      <4>2. CASE d[1] \in Subscribed
        BY <4>1, <4>2, <2>1 DEF NewRows
      <4>3. CASE d[1] \notin Subscribed
        BY <4>1, <4>3, <2>1
      <4> QED
        BY <4>2, <4>3
    <3> QED
      BY <3>1 DEF Covered
  <2>3. \A q \in Tasks : task'[q].kind = "mark" =>
          \/ task[q].kind = "mark" /\ task'[q].now = task[q].now
          \/ task'[q].now = e
    BY <2>1 DEF Take, FanOutInv
  <2>4. task' = [q \in Tasks |-> Ticks(q)']
    BY <2>1 DEF Take, FanOutInv, Ticks
  <2>5. \A d \in Deliveries : status[d] # "none" => status'[d] # "none"
    BY <2>1
  <2>6. fanned' = fanned /\ deleted' = deleted
    BY <1>3 DEF InsertDeliveries
  <2> QED
    BY <1>0, <2>1, <2>2, <2>3, <2>4, <2>5, <2>6
<1>4. ASSUME NEW p \in Tasks, MarkFanned(p) PROVE FanOutInv'
  <2>1. /\ task' = [q \in Tasks |-> Ticks(q)']
        /\ \A q \in Tasks : task'[q].kind = "mark" =>
             task[q].kind = "mark" /\ task'[q].now = task[q].now
    BY <1>4, TicksKeep DEF MarkFanned, Kinds
  <2> QED
    BY <1>4, <1>0, <2>1 DEF MarkFanned, FanOutInv
<1>5. ASSUME NEW p \in Tasks, ClaimDue(p) PROVE FanOutInv'
  <2>1. /\ task' = [q \in Tasks |-> Ticks(q)']
        /\ \A q \in Tasks : task'[q].kind = "mark" =>
             task[q].kind = "mark" /\ task'[q].now = task[q].now
    BY <1>5, TicksKeep DEF ClaimDue, Kinds
  <2> QED
    BY <1>5, <1>0, <2>1 DEF ClaimDue, FanOutInv
<1>6. ASSUME NEW p \in Tasks, Send(p) PROVE FanOutInv'
  <2>1. task' = [q \in Tasks |-> Ticks(q)']
    BY <1>6 DEF Send, Take, Idle, FanOutInv, Ticks
  <2>2. \A q \in Tasks : task'[q].kind = "mark" =>
          task[q].kind = "mark" /\ task'[q].now = task[q].now
    BY <1>6 DEF Send, Take, Idle, FanOutInv, Ticks
  <2> QED
    BY <1>6, <1>0, <2>1, <2>2 DEF Send, FanOutInv
<1>7. ASSUME NEW p \in Tasks, RecordSuccess(p) PROVE FanOutInv'
  <2>1. /\ status' = [d \in Deliveries |-> status'[d]]
        /\ \A d \in Deliveries : status[d] # "none" => status'[d] # "none"
    BY <1>7, WriteKeeps DEF RecordSuccess, Statuses
  <2>2. /\ task' = [q \in Tasks |-> Ticks(q)']
        /\ \A q \in Tasks : task'[q].kind = "mark" =>
             task[q].kind = "mark" /\ task'[q].now = task[q].now
    BY <1>7, TicksKeep DEF RecordSuccess, Kinds
  <2> QED
    BY <1>7, <1>0, <2>1, <2>2 DEF RecordSuccess
<1>8. ASSUME NEW p \in Tasks, RecordFailure(p) PROVE FanOutInv'
  <2>1. /\ status' = [d \in Deliveries |-> status'[d]]
        /\ \A d \in Deliveries : status[d] # "none" => status'[d] # "none"
    BY <1>8, WriteKeeps DEF RecordFailure, Statuses
  <2>2. /\ task' = [q \in Tasks |-> Ticks(q)']
        /\ \A q \in Tasks : task'[q].kind = "mark" =>
             task[q].kind = "mark" /\ task'[q].now = task[q].now
    <3>1. CASE Continue(p, "deliver")
      BY <3>1, TicksKeep DEF Kinds
    <3>2. CASE task' = [task EXCEPT ![p].kind = "disable"]
      BY <3>2 DEF FanOutInv, Ticks
    <3> QED
      BY <1>8, <3>1, <3>2 DEF RecordFailure
  <2> QED
    BY <1>8, <1>0, <2>1, <2>2 DEF RecordFailure
<1>9. ASSUME NEW p \in Tasks, DisableEndpoint(p) PROVE FanOutInv'
  <2>1. /\ task' = [q \in Tasks |-> Ticks(q)']
        /\ \A q \in Tasks : task'[q].kind = "mark" =>
             task[q].kind = "mark" /\ task'[q].now = task[q].now
    BY <1>9, TicksKeep DEF DisableEndpoint, Kinds
  <2> QED
    BY <1>9, <1>0, <2>1 DEF DisableEndpoint, FanOutInv
<1>10. ASSUME NEW p \in Tasks, Crash(p) PROVE FanOutInv'
  BY <1>10, <1>0 DEF Crash, Idle, FanOutInv, Ticks
<1>11. ASSUME NEW d \in Deliveries, ReplayDelivery(d) PROVE FanOutInv'
  BY <1>11, <1>0 DEF ReplayDelivery, FanOutInv, Ticks
<1>12. ASSUME NEW d \in Deliveries, ComesDue(d) \/ LeaseOverruns(d) \/ Ages(d) PROVE FanOutInv'
  BY <1>12, <1>0 DEF ComesDue, LeaseOverruns, Ages, FanOutInv, Ticks
<1>13. ASSUME NEW x \in Endpoints, DeleteWebhook(x) PROVE FanOutInv'
  BY <1>13, <1>0 DEF DeleteWebhook, FanOutInv, Ticks
<1>14. CASE UNCHANGED vars
  BY <1>14, <1>0 DEF vars, FanOutInv, Ticks
<1> QED
  BY <1>1, <1>2, <1>3, <1>4, <1>5, <1>6, <1>7, <1>8, <1>9, <1>10, <1>11, <1>12, <1>13, <1>14
  DEF Next, Running, FanOutTick, DeliverTick

(* The fan-out cursor never passes an event some subscribed and active      *)
(* endpoint has no delivery of, wherever fanOutTick crashes.                *)
THEOREM FanOutKeepsAll == Spec => []FanOutLosesNothing
<1>1. FanOutInv => FanOutLosesNothing
  BY DEF FanOutInv, Covered, FanOutLosesNothing
<1> QED
  BY InitFanOut, StepFanOut, <1>1, PTL DEF Spec

-----------------------------------------------------------------------------
(* The deliveries.  A tick holds d while it may still send it, or has been  *)
(* refused and will put it back; it has won d while the acceptance is not   *)
(* yet recorded.                                                            *)
Holds(r, d) == \/ r.kind \in {"deliver", "answer", "disable"} /\ d \in r.rows
               \/ r.kind = "answer" /\ r.now = d /\ ~r.ok
Wins(r, d) == r.kind = "answer" /\ r.now = d /\ r.ok

Holders(d) == {p \in Tasks : Holds(task[p], d)}
Won(d) == \E p \in Tasks : Wins(task[p], d)

(* One more sending, when d is due, or open with nobody holding it.         *)
Chance(d) == IF InDue(d) \/ (status[d] \in Open /\ Holders(d) = {} /\ ~Won(d)) THEN 1 ELSE 0

(* Acceptances, those that may follow from what ticks hold, and the one     *)
(* that may follow from the row are paid for by the disturbances.           *)
Ledger(d) ==
  /\ IsFiniteSet(Holders(d))
  /\ accepted[d] + Cardinality(Holders(d)) + Chance(d) <= 1 + disturbed

(* A delivery without a row is untouched, unless its endpoint was deleted.  *)
Fresh(d) ==
  status[d] = "none" /\ d[1] \notin deleted => accepted[d] = 0 /\ Holders(d) = {} /\ ~Won(d)

WebhooksTypeOK ==
  /\ emitted \subseteq Events /\ fanned \subseteq Events
  /\ status \in [Deliveries -> Statuses]
  /\ due \in Seq(Deliveries)
  /\ task \in [Tasks -> [kind : Kinds, rows : SUBSET (Deliveries \cup Events),
                         now : Deliveries \cup Events \cup {<<>>}, ok : BOOLEAN]]
  /\ \A p \in Tasks :
       /\ task[p].kind = "fanout" => task[p].rows \subseteq Events
       /\ task[p].kind = "mark" => task[p].rows \subseteq Events /\ task[p].now \in Events
       /\ task[p].kind \in {"deliver", "answer", "disable"} => task[p].rows \subseteq Deliveries
       /\ task[p].kind \in {"answer", "disable"} => task[p].now \in Deliveries
  /\ accepted \in [Deliveries -> Nat]
  /\ disturbed \in Nat

OnceInv ==
  /\ WebhooksTypeOK
  /\ \A d \in Deliveries : Ledger(d) /\ Fresh(d)

(* What Without leaves: the k-th position of a finite set of positions is   *)
(* one of them.                                                             *)
LEMMA NthStays ==
  ASSUME NEW K \in SUBSET Nat, IsFiniteSet(K), NEW k \in 1 .. Cardinality(K)
  PROVE  Nth(K, k) \in K
<1> DEFINE upto(i) == {j \in K : j <= i}
           rank == [i \in K |-> Cardinality(upto(i))]
           n == Cardinality(K)
<1>0. n \in Nat
  BY FS_CardinalityType
<1>1. ASSUME NEW i \in K
      PROVE  /\ IsFiniteSet(upto(i)) /\ Cardinality(upto(i)) \in 1 .. n
             /\ \A j \in K : j < i => Cardinality(upto(j)) < Cardinality(upto(i))
  <2>1. IsFiniteSet(upto(i)) /\ Cardinality(upto(i)) <= n /\ Cardinality(upto(i)) \in Nat
    BY FS_Subset, FS_CardinalityType
  <2>2. Cardinality(upto(i)) # 0
    <3>1. i \in upto(i)
      BY <1>1
    <3> QED
      BY <2>1, <3>1, FS_EmptySet
  <2>3. ASSUME NEW j \in K, j < i PROVE Cardinality(upto(j)) < Cardinality(upto(i))
    <3>0. (\A m \in K : m <= j => m <= i) /\ i <= i /\ ~(i <= j)
      BY <1>1, <2>3
    <3>1. upto(j) \subseteq upto(i) /\ i \in upto(i) /\ i \notin upto(j)
      BY <1>1, <3>0
    <3>2. /\ Cardinality(upto(j)) <= Cardinality(upto(i))
          /\ Cardinality(upto(j)) # Cardinality(upto(i))
      BY <2>1, <3>1, FS_Subset
    <3>3. Cardinality(upto(j)) \in Nat
      BY <2>1, <3>1, FS_Subset, FS_CardinalityType
    <3> QED
      BY <2>1, <3>2, <3>3
  <2> QED
    BY <1>0, <2>1, <2>2, <2>3
<1>2. rank \in Injection(K, 1 .. n)
  <2> HIDE DEF upto
  <2>1. rank \in [K -> 1 .. n]
    BY <1>1
  <2>2. ASSUME NEW i \in K, NEW j \in K, rank[i] = rank[j] PROVE i = j
    <3>1. ~(i < j) /\ ~(j < i)
      BY <1>0, <1>1, <2>2
    <3> QED
      BY <3>1
  <2> QED
    BY <2>1, <2>2 DEF Injection, IsInjective
<1>3. IsFiniteSet(1 .. n) /\ Cardinality(1 .. n) = n
  BY <1>0, FS_Interval
<1>4. rank \in Surjection(K, 1 .. n)
  BY <1>2, <1>3, FS_Injection
<1>5. \E i \in K : Cardinality({j \in K : j <= i}) = k
  BY <1>4 DEF Surjection
<1> QED
  BY <1>5 DEF Nth

LEMMA WithoutLeaves ==
  ASSUME due \in Seq(Deliveries), NEW S
  PROVE  /\ Without(S) \in Seq(Deliveries)
         /\ due' = Without(S) => \A d \in Deliveries : InDue(d)' => InDue(d) /\ d \notin S
<1> DEFINE K == Staying(S)
<1>1. DOMAIN due = 1 .. Len(due) /\ Len(due) \in Nat
  OBVIOUS
<1>2. K \in SUBSET Nat /\ IsFiniteSet(K)
  <2>1. K \subseteq 1 .. Len(due)
    BY <1>1 DEF Staying
  <2>2. IsFiniteSet(1 .. Len(due))
    BY <1>1, FS_Interval
  <2>3. 1 .. Len(due) \subseteq Nat
    BY <1>1
  <2> HIDE DEF K
  <2> QED
    BY <2>1, <2>2, <2>3, FS_Subset
<1>3. Cardinality(K) \in Nat
  BY <1>2, FS_CardinalityType
<1>4. ASSUME NEW k \in 1 .. Cardinality(K) PROVE Nth(K, k) \in DOMAIN due /\ due[Nth(K, k)] \notin S
  BY <1>2, <1>4, NthStays DEF Staying
<1>5. Without(S) = [k \in 1 .. Cardinality(K) |-> due[Nth(K, k)]]
  BY DEF Without
<1> HIDE DEF K
<1>6. Without(S) \in Seq(Deliveries)
  <2>1. \A k \in 1 .. Cardinality(K) : due[Nth(K, k)] \in Deliveries
    BY <1>4
  <2> QED
    BY <1>3, <1>5, <2>1
<1>7. ASSUME due' = Without(S), NEW d \in Deliveries, InDue(d)' PROVE InDue(d) /\ d \notin S
  <2>1. PICK k \in 1 .. Cardinality(K) : due[Nth(K, k)] = d
    BY <1>5, <1>7 DEF InDue
  <2> QED
    BY <1>4, <2>1 DEF InDue
<1> QED
  BY <1>6, <1>7

(* One tick goes on with record r.                                          *)
LEMMA TickMoves ==
  ASSUME WebhooksTypeOK, NEW p \in Tasks, NEW r, task' = [task EXCEPT ![p] = r], NEW d
  PROVE  /\ Holders(d)' = IF Holds(r, d) THEN Holders(d) \cup {p} ELSE Holders(d) \ {p}
         /\ Won(d)' <=> Wins(r, d) \/ \E q \in Tasks \ {p} : Wins(task[q], d)
<1>1. \A q \in Tasks : task'[q] = IF q = p THEN r ELSE task[q]
  BY DEF WebhooksTypeOK
<1>2. Holders(d)' = {q \in Tasks : Holds(task'[q], d)}
  BY DEF Holders, Holds
<1>3. Won(d)' <=> \E q \in Tasks : Wins(task'[q], d)
  BY DEF Won, Wins
<1> QED
  BY <1>1, <1>2, <1>3 DEF Holders, Won

(* The ledger is kept by a step that takes nothing, claims, has an answer,  *)
(* gives back, or is paid for.                                              *)
LEMMA LedgerKept ==
  ASSUME OnceInv, disturbed' \in {disturbed, disturbed + 1}, NEW d \in Deliveries,
         \/ /\ accepted'[d] = accepted[d] /\ Holders(d)' \subseteq Holders(d)
            /\ \/ Chance(d)' <= Chance(d)
               \/ Holders(d)' # Holders(d)
               \/ disturbed' = disturbed + 1
               \/ accepted[d] = 0 /\ Holders(d) = {}
         \/ /\ accepted'[d] = accepted[d]
            /\ \E p \in Tasks : Holders(d)' = Holders(d) \cup {p}
            /\ Chance(d) = 1 /\ Chance(d)' = 0
         \/ /\ accepted'[d] = accepted[d] + 1
            /\ \E p \in Holders(d) : Holders(d)' = Holders(d) \ {p}
            /\ Chance(d)' <= Chance(d)
  PROVE  Ledger(d)'
<1> DEFINE H == Holders(d)
           G == Holders(d)'
<1>1. /\ IsFiniteSet(H) /\ Cardinality(H) \in Nat
      /\ accepted[d] \in Nat /\ disturbed \in Nat
      /\ accepted[d] + Cardinality(H) + Chance(d) <= 1 + disturbed
      /\ Chance(d) \in {0, 1}
  BY FS_CardinalityType DEF OnceInv, Ledger, WebhooksTypeOK, Chance
<1>2. Chance(d)' \in {0, 1}
  BY DEF Chance
<1>3. Ledger(d)' <=> /\ IsFiniteSet(G)
                     /\ accepted'[d] + Cardinality(G) + Chance(d)' <= 1 + disturbed'
  BY DEF Ledger
<1> DEFINE c0 == Chance(d)
           c1 == Chance(d)'
<1> HIDE DEF H, G, c0, c1
<1>4. ASSUME accepted'[d] = accepted[d], G \subseteq H,
             c1 <= c0 \/ G # H \/ disturbed' = disturbed + 1 \/ (accepted[d] = 0 /\ H = {})
      PROVE  Ledger(d)'
  <2>1. /\ IsFiniteSet(G) /\ Cardinality(G) \in Nat
        /\ Cardinality(G) <= Cardinality(H)
        /\ G # H => Cardinality(G) # Cardinality(H)
    BY <1>1, <1>4, FS_Subset, FS_CardinalityType
  <2>2. G = H /\ H = {} => Cardinality(G) = 0
    BY FS_EmptySet
  <2>3. c0 \in {0, 1} /\ c1 \in {0, 1} /\ accepted[d] + Cardinality(H) + c0 <= 1 + disturbed
    BY <1>1, <1>2 DEF c0, c1
  <2>4. accepted'[d] + Cardinality(G) + c1 <= 1 + disturbed'
    BY <1>1, <1>4, <2>1, <2>2, <2>3
  <2> QED
    BY <1>3, <2>1, <2>4 DEF c1
<1>5. ASSUME accepted'[d] = accepted[d], NEW p \in Tasks, G = H \cup {p}, c0 = 1, c1 = 0
      PROVE  Ledger(d)'
  <2>1. IsFiniteSet(G) /\ Cardinality(G) \in Nat /\ Cardinality(G) <= Cardinality(H) + 1
    <3>1. IsFiniteSet(H \cup {p})
          /\ Cardinality(H \cup {p}) = IF p \in H THEN Cardinality(H) ELSE Cardinality(H) + 1
      BY <1>1, FS_AddElement
    <3> QED
      BY <1>1, <1>5, <3>1
  <2>2. accepted'[d] + Cardinality(G) + c1 <= 1 + disturbed'
    BY <1>1, <1>5, <2>1 DEF c0
  <2> QED
    BY <1>3, <2>1, <2>2 DEF c1
<1>6. ASSUME accepted'[d] = accepted[d] + 1, NEW p \in H, G = H \ {p}, c1 <= c0
      PROVE  Ledger(d)'
  <2>1. IsFiniteSet(G) /\ Cardinality(G) \in Nat /\ Cardinality(G) = Cardinality(H) - 1
    BY <1>1, <1>6, FS_RemoveElement, FS_CardinalityType
  <2>2. c0 \in {0, 1} /\ c1 \in {0, 1} /\ accepted[d] + Cardinality(H) + c0 <= 1 + disturbed
    BY <1>1, <1>2 DEF c0, c1
  <2>3. accepted'[d] + Cardinality(G) + c1 <= 1 + disturbed'
    BY <1>1, <1>6, <2>1, <2>2
  <2> QED
    BY <1>3, <2>1, <2>3 DEF c1
<1> QED
  BY <1>4, <1>5, <1>6 DEF H, G, c0, c1

LEMMA FreshKept ==
  ASSUME NEW d \in Deliveries, Fresh(d), deleted \subseteq deleted',
         status'[d] = "none" /\ d[1] \notin deleted' => status[d] = "none",
         status[d] = "none" => accepted'[d] = accepted[d],
         status[d] = "none" /\ status'[d] = "none" =>
           Holders(d)' \subseteq Holders(d) /\ (Won(d)' => Won(d))
  PROVE  Fresh(d)'
<1> DEFINE G == Holders(d)'
           H == Holders(d)
<1>1. Fresh(d)' <=> (status'[d] = "none" /\ d[1] \notin deleted' =>
                       accepted'[d] = 0 /\ G = {} /\ ~Won(d)')
  BY DEF Fresh
<1> HIDE DEF G
<1>2. G \subseteq H \/ ~(status[d] = "none" /\ status'[d] = "none")
  BY DEF G
<1> QED
  BY <1>1, <1>2 DEF Fresh

(* A tick that goes on as far as d is concerned.                            *)
LEMMA TickSame ==
  ASSUME WebhooksTypeOK, NEW p \in Tasks, NEW r, task' = [task EXCEPT ![p] = r], NEW d,
         Holds(r, d) <=> Holds(task[p], d), Wins(r, d) <=> Wins(task[p], d)
  PROVE  Holders(d)' = Holders(d) /\ (Won(d)' <=> Won(d))
<1>1. /\ Holders(d)' = IF Holds(r, d) THEN Holders(d) \cup {p} ELSE Holders(d) \ {p}
      /\ Won(d)' <=> Wins(r, d) \/ \E q \in Tasks \ {p} : Wins(task[q], d)
  BY TickMoves
<1>2. p \in Holders(d) <=> Holds(task[p], d)
  BY DEF Holders
<1>3. Won(d) <=> Wins(task[p], d) \/ \E q \in Tasks \ {p} : Wins(task[q], d)
  BY DEF Won
<1> QED
  BY <1>1, <1>2, <1>3

(* Nothing happens to d, except that it may be due no more.                 *)
LEMMA DeliveryRests ==
  ASSUME OnceInv, disturbed' \in {disturbed, disturbed + 1}, NEW d \in Deliveries,
         accepted'[d] = accepted[d], status'[d] = status[d], deleted \subseteq deleted',
         InDue(d)' => InDue(d), Holders(d)' = Holders(d), Won(d)' <=> Won(d)
  PROVE  Ledger(d)' /\ Fresh(d)'
<1>1. Chance(d)' = IF InDue(d)' \/ (status'[d] \in Open /\ Holders(d)' = {} /\ ~Won(d)') THEN 1 ELSE 0
  BY DEF Chance, Open
<1>2. Chance(d)' <= Chance(d)
  BY <1>1 DEF Chance
<1>3. Ledger(d)'
  BY <1>2, LedgerKept
<1>4. Fresh(d)'
  BY FreshKept DEF OnceInv
<1> QED
  BY <1>3, <1>4

(* A tick goes on with the rows it has: what it holds and has won but for   *)
(* the one in hand stays.                                                   *)
LEMMA ContinueHolds ==
  ASSUME WebhooksTypeOK, NEW p \in Tasks, NEW kind \in {"deliver", "fanout"}, Continue(p, kind),
         kind = "deliver" <=> task[p].kind \in {"answer", "disable"},
         kind = "fanout" <=> task[p].kind = "mark"
  PROVE  /\ \E r : /\ task' = [task EXCEPT ![p] = r]
                   /\ r = IF task[p].rows = {} THEN Idle ELSE [Idle EXCEPT !.kind = kind, !.rows = task[p].rows]
                   /\ \A d : ~Wins(r, d)
                   /\ \A d : Holds(r, d) <=> kind = "deliver" /\ d \in task[p].rows
<1> DEFINE r == IF task[p].rows = {} THEN Idle ELSE [Idle EXCEPT !.kind = kind, !.rows = task[p].rows]
<1>1. r.kind = (IF task[p].rows = {} THEN "idle" ELSE kind) /\ r.rows = task[p].rows
  BY DEF Idle
<1>2. task' = [task EXCEPT ![p] = r]
  BY DEF Continue
<1> HIDE DEF r
<1>3. \A d : ~Wins(r, d) /\ (Holds(r, d) <=> kind = "deliver" /\ d \in task[p].rows)
  BY <1>1 DEF Holds, Wins
<1> QED
  BY <1>2, <1>3 DEF r

Kept == \A d \in Deliveries : Ledger(d)' /\ Fresh(d)'

(* A step in which ticks change nothing of what they hold.                  *)
LEMMA TicksRest ==
  ASSUME UNCHANGED task, NEW d
  PROVE  Holders(d)' = Holders(d) /\ (Won(d)' <=> Won(d))
BY DEF Holders, Won, Holds, Wins

LEMMA FanOutKeeps ==
  ASSUME OnceInv, NEW p \in Tasks, StartFanOut(p) \/ MarkFanned(p)
  PROVE  Kept
<1>1. /\ UNCHANGED <<status, due, accepted, deleted, disturbed>>
      /\ \E r : /\ task' = [task EXCEPT ![p] = r]
                /\ \A d : /\ ~Wins(r, d) /\ ~Wins(task[p], d)
                          /\ ~Holds(r, d) /\ ~Holds(task[p], d)
  <2>1. CASE StartFanOut(p)
    <3> DEFINE r == [Idle EXCEPT !.kind = "fanout", !.rows = emitted \ fanned]
    <3>1. task' = [task EXCEPT ![p] = r] /\ r.kind = "fanout" /\ task[p].kind = "idle"
      BY <2>1 DEF StartFanOut, Start, Idle
    <3> HIDE DEF r
    <3> QED
      BY <2>1, <3>1 DEF StartFanOut, endpoints, history, Holds, Wins
  <2>2. CASE MarkFanned(p)
    <3>1. task[p].kind = "mark" /\ Continue(p, "fanout")
      BY <2>2 DEF MarkFanned
    <3>2. \A d : ~Wins(task[p], d) /\ ~Holds(task[p], d)
      BY <3>1 DEF Holds, Wins
    <3> QED
      BY <2>2, <3>1, <3>2, ContinueHolds DEF OnceInv, MarkFanned, endpoints, history
  <2> QED
    BY <2>1, <2>2
<1>2. ASSUME NEW d \in Deliveries PROVE Ledger(d)' /\ Fresh(d)'
  <2>1. Holders(d)' = Holders(d) /\ (Won(d)' <=> Won(d))
    BY <1>1, TickSame DEF OnceInv
  <2> QED
    BY <1>1, <2>1, DeliveryRests DEF InDue
<1> QED
  BY <1>2 DEF Kept

LEMMA InsertKeeps ==
  ASSUME OnceInv, NEW p \in Tasks, InsertDeliveries(p)
  PROVE  Kept
<1>1. PICK e \in task[p].rows :
        /\ status' = [d \in Deliveries |-> IF d \in NewRows(e) THEN "pending" ELSE status[d]]
        /\ due' \in Appended(NewRows(e))
        /\ Take(p, e, "mark", FALSE)
  BY DEF InsertDeliveries
<1>2. task[p].kind = "fanout" /\ UNCHANGED <<accepted, deleted, disturbed>>
  BY DEF InsertDeliveries
<1>3. \A d \in Deliveries : InDue(d)' => InDue(d) \/ d \in NewRows(e)
  <2>1. Cardinality(NewRows(e)) \in Nat
    <3>1. IsFiniteSet(Subscribed) /\ IsFiniteSet({e})
      BY FS_Subset, FS_Singleton, WebhooksAssumption DEF Subscribed
    <3>2. IsFiniteSet(Subscribed \X {e}) /\ NewRows(e) \subseteq Subscribed \X {e}
      BY <3>1, FS_Product DEF NewRows
    <3> QED
      BY <3>2, FS_Subset, FS_CardinalityType
  <2>2. PICK f \in [1 .. Cardinality(NewRows(e)) -> NewRows(e)] : due' = due \o f
    BY <1>1 DEF Appended
  <2>3. due \in Seq(Deliveries)
    BY DEF OnceInv, WebhooksTypeOK
  <2>4. \A i \in DOMAIN due' : \/ i \in DOMAIN due /\ due'[i] = due[i]
                               \/ due'[i] \in NewRows(e)
    BY <2>1, <2>2, <2>3
  <2> QED
    BY <2>4 DEF InDue
<1>4. ASSUME NEW d \in Deliveries PROVE Ledger(d)' /\ Fresh(d)'
  <2> DEFINE r == [kind |-> "mark", rows |-> task[p].rows \ {e}, now |-> e, ok |-> FALSE]
  <2>1. /\ ~Holds(r, d) /\ ~Wins(r, d) /\ ~Holds(task[p], d) /\ ~Wins(task[p], d)
        /\ task' = [task EXCEPT ![p] = r]
    BY <1>1, <1>2 DEF Holds, Wins, Take
  <2> HIDE DEF r
  <2>2. Holders(d)' = Holders(d) /\ (Won(d)' <=> Won(d))
    BY <2>1, TickSame DEF OnceInv
  <2>3. CASE d \in NewRows(e)
    <3>1. status[d] = "none" /\ d[1] \notin deleted /\ status'[d] = "pending"
      BY <1>1, <2>3 DEF NewRows, Subscribed
    <3>2. accepted[d] = 0 /\ Holders(d) = {} /\ accepted'[d] = accepted[d]
      BY <1>2, <3>1 DEF OnceInv, Fresh
    <3>3. Ledger(d)'
      BY <1>2, <2>2, <3>2, LedgerKept
    <3>4. Fresh(d)'
      BY <3>1 DEF Fresh
    <3> QED
      BY <3>3, <3>4
  <2>4. CASE d \notin NewRows(e)
    BY <1>1, <1>2, <1>3, <2>2, <2>4, DeliveryRests
  <2> QED
    BY <2>3, <2>4
<1> QED
  BY <1>4 DEF Kept

LEMMA ClaimKeeps ==
  ASSUME OnceInv, NEW p \in Tasks, ClaimDue(p)
  PROVE  Kept
<1> DEFINE r == [Idle EXCEPT !.kind = "deliver", !.rows = Claimed]
<1>1. /\ task[p].kind = "idle" /\ task' = [task EXCEPT ![p] = r]
      /\ r.kind = "deliver" /\ r.rows = Claimed
      /\ status' = [d \in Deliveries |-> IF d \in Claimed THEN "delivering" ELSE status[d]]
      /\ due' = Without(Claimed) /\ UNCHANGED <<accepted, deleted, disturbed>>
  BY DEF ClaimDue, Start, Idle, endpoints, history
<1> HIDE DEF r
<1>2. \A d \in Claimed : InDue(d)
  <2>1. due \in Seq(Deliveries) /\ Batch \in Nat
    BY WebhooksAssumption DEF OnceInv, WebhooksTypeOK
  <2>2. DOMAIN Locked \subseteq DOMAIN due
    BY <2>1 DEF Locked
  <2> QED
    BY <2>2 DEF Claimed, InDue
<1>3. \A d \in Deliveries : InDue(d)' => InDue(d) /\ d \notin Claimed
  BY <1>1, WithoutLeaves DEF OnceInv, WebhooksTypeOK
<1>4. ASSUME NEW d \in Deliveries PROVE Ledger(d)' /\ Fresh(d)'
  <2>1. ~Wins(r, d) /\ (Holds(r, d) <=> d \in Claimed) /\ ~Wins(task[p], d) /\ ~Holds(task[p], d)
    BY <1>1 DEF Holds, Wins
  <2>2. CASE d \in Claimed
    <3>1. Holders(d)' = Holders(d) \cup {p}
      BY <1>1, <2>1, <2>2, TickMoves DEF OnceInv
    <3>2. Chance(d) = 1
      BY <1>2, <2>2 DEF Chance
    <3>3. Chance(d)' = 0
      <4>1. p \in Holders(d)' /\ ~InDue(d)'
        BY <1>3, <2>2, <3>1
      <4> QED
        BY <4>1 DEF Chance
    <3>4. Ledger(d)'
      BY <1>1, <3>1, <3>2, <3>3, LedgerKept
    <3>5. Fresh(d)'
      BY <1>1, <2>2 DEF Fresh
    <3> QED
      BY <3>4, <3>5
  <2>3. CASE d \notin Claimed
    <3>1. Holders(d)' = Holders(d) /\ (Won(d)' <=> Won(d))
      BY <1>1, <2>1, <2>3, TickSame DEF OnceInv
    <3> QED
      BY <1>1, <1>3, <2>3, <3>1, DeliveryRests
  <2> QED
    BY <2>2, <2>3
<1> QED
  BY <1>4 DEF Kept

LEMMA SendKeeps ==
  ASSUME OnceInv, NEW p \in Tasks, Send(p)
  PROVE  Kept
<1>1. /\ task[p].kind = "deliver" /\ UNCHANGED <<status, due, deleted, disturbed>>
      /\ task[p].rows \subseteq Deliveries
  BY DEF Send, OnceInv, WebhooksTypeOK, endpoints
<1>2. \A d : ~Wins(task[p], d) /\ (Holds(task[p], d) <=> d \in task[p].rows)
  BY <1>1 DEF Wins, Holds
<1>4. ASSUME NEW e \in task[p].rows, status[e] # "none", NEW ok \in BOOLEAN, Take(p, e, "answer", ok),
             accepted' = [accepted EXCEPT ![e] = IF ok THEN @ + 1 ELSE @]
      PROVE  Kept
  <2> DEFINE r == [kind |-> "answer", rows |-> task[p].rows \ {e}, now |-> e, ok |-> ok]
  <2>1. /\ task' = [task EXCEPT ![p] = r]
        /\ \A d : /\ Wins(r, d) <=> d = e /\ ok
                  /\ Holds(r, d) <=> d \in task[p].rows \ {e} \/ (d = e /\ ~ok)
    BY <1>4 DEF Take, Wins, Holds
  <2> HIDE DEF r
  <2>2. ASSUME NEW d \in Deliveries, d # e \/ ~ok PROVE Ledger(d)' /\ Fresh(d)'
    <3>1. Holders(d)' = Holders(d) /\ (Won(d)' <=> Won(d))
      BY <1>2, <1>4, <2>1, <2>2, TickSame DEF OnceInv
    <3>2. accepted'[d] = accepted[d]
      BY <1>4, <2>2 DEF OnceInv, WebhooksTypeOK
    <3> QED
      BY <1>1, <3>1, <3>2, DeliveryRests DEF InDue
  <2>3. ASSUME ok PROVE Ledger(e)' /\ Fresh(e)'
    <3>1. Holders(e)' = Holders(e) \ {p} /\ Won(e)'
      BY <2>1, <2>3, TickMoves DEF OnceInv
    <3>2. p \in Holders(e)
      BY <1>2, <1>4 DEF Holders
    <3>3. Chance(e)' <= Chance(e)
      BY <1>1, <3>1 DEF Chance, InDue
    <3>4. accepted'[e] = accepted[e] + 1
      BY <1>1, <1>4, <2>3 DEF OnceInv, WebhooksTypeOK
    <3>5. Ledger(e)'
      BY <1>1, <3>1, <3>2, <3>3, <3>4, LedgerKept
    <3>6. Fresh(e)'
      BY <1>1, <1>4 DEF Fresh
    <3> QED
      BY <3>5, <3>6
  <2> QED
    BY <2>2, <2>3 DEF Kept
<1>5. ASSUME NEW e \in task[p].rows, status[e] = "none", UNCHANGED accepted,
             task' = [task EXCEPT ![p] = IF task[p].rows = {e} THEN Idle
                                         ELSE [task[p] EXCEPT !.rows = @ \ {e}]]
      PROVE  Kept
  <2> DEFINE r == IF task[p].rows = {e} THEN Idle ELSE [task[p] EXCEPT !.rows = @ \ {e}]
  <2>1. /\ task' = [task EXCEPT ![p] = r]
        /\ \A d : ~Wins(r, d) /\ (Holds(r, d) <=> d \in task[p].rows \ {e})
    <3>1. task[p] \in [kind : Kinds, rows : SUBSET (Deliveries \cup Events),
                       now : Deliveries \cup Events \cup {<<>>}, ok : BOOLEAN]
      BY DEF OnceInv, WebhooksTypeOK
    <3>2. CASE task[p].rows = {e}
      BY <1>5, <3>2 DEF Idle, Wins, Holds
    <3>3. CASE task[p].rows # {e}
      <4>1. r = [task[p] EXCEPT !.rows = @ \ {e}]
        BY <3>3
      <4>2. r.kind = "deliver" /\ r.rows = task[p].rows \ {e}
        BY <1>1, <3>1, <4>1
      <4> HIDE DEF r
      <4>3. \A d : ~Wins(r, d) /\ (Holds(r, d) <=> d \in task[p].rows \ {e})
        BY <4>2 DEF Wins, Holds
      <4> QED
        BY <1>5, <4>3 DEF r
    <3> QED
      BY <3>2, <3>3
  <2> HIDE DEF r
  <2>2. ASSUME NEW d \in Deliveries PROVE Ledger(d)' /\ Fresh(d)'
    <3>1. CASE d # e
      <4>1. Holders(d)' = Holders(d) /\ (Won(d)' <=> Won(d))
        BY <1>2, <2>1, <3>1, TickSame DEF OnceInv
      <4> QED
        BY <1>1, <1>5, <4>1, DeliveryRests DEF InDue
    <3>2. CASE d = e
      <4>1. Holders(d)' = Holders(d) \ {p} /\ (Won(d)' => Won(d))
        <5>1. /\ Holders(d)' = IF Holds(r, d) THEN Holders(d) \cup {p} ELSE Holders(d) \ {p}
              /\ Won(d)' <=> Wins(r, d) \/ \E q \in Tasks \ {p} : Wins(task[q], d)
          BY <2>1, TickMoves DEF OnceInv
        <5> QED
          BY <2>1, <3>2, <5>1 DEF Won
      <4>2. p \in Holders(d)
        BY <1>2, <3>2 DEF Holders
      <4>3. Ledger(d)'
        BY <1>1, <1>5, <4>1, <4>2, LedgerKept
      <4>4. Fresh(d)'
        BY <1>1, <1>5, <4>1, FreshKept DEF OnceInv
      <4> QED
        BY <4>3, <4>4
    <3> QED
      BY <3>1, <3>2
  <2> QED
    BY <2>2 DEF Kept
<1> QED
  BY <1>4, <1>5 DEF Send

(* An answer is recorded: the row is due no more, and open only if refused. *)
LEMMA RecordKeeps ==
  ASSUME OnceInv, NEW p \in Tasks, RecordSuccess(p) \/ RecordFailure(p)
  PROVE  Kept
<1> DEFINE e == task[p].now
<1>1. /\ task[p].kind = "answer" /\ UNCHANGED <<accepted, deleted, disturbed>>
      /\ due' = Without({e}) /\ e \in Deliveries
      /\ \E s \in {"succeeded", "failed", "exhausted"} : Write(e, s) /\ (task[p].ok => s = "succeeded")
  BY DEF RecordSuccess, RecordFailure, OnceInv, WebhooksTypeOK, history
<1>2. PICK r : /\ task' = [task EXCEPT ![p] = r]
               /\ \A d : ~Wins(r, d) /\ (Holds(r, d) <=> d \in task[p].rows)
  <2>1. CASE Continue(p, "deliver")
    BY <1>1, <2>1, ContinueHolds DEF OnceInv
  <2>2. CASE task' = [task EXCEPT ![p].kind = "disable"]
    <3> DEFINE r == [task[p] EXCEPT !.kind = "disable"]
    <3>1. task[p] \in [kind : Kinds, rows : SUBSET (Deliveries \cup Events),
                       now : Deliveries \cup Events \cup {<<>>}, ok : BOOLEAN]
      BY DEF OnceInv, WebhooksTypeOK
    <3>2. r.kind = "disable" /\ r.rows = task[p].rows /\ task' = [task EXCEPT ![p] = r]
      BY <2>2, <3>1
    <3> HIDE DEF r
    <3> QED
      BY <3>2 DEF Wins, Holds
  <2> QED
    BY <2>1, <2>2 DEF RecordSuccess, RecordFailure
<1>3. \A d \in Deliveries : /\ InDue(d)' => InDue(d) /\ d # e
                            /\ status'[d] = "none" <=> status[d] = "none"
                            /\ d # e => status'[d] = status[d]
                            /\ d = e /\ task[p].ok => status'[d] \notin Open
  BY <1>1, WithoutLeaves DEF WebhooksTypeOK, OnceInv, Write, Open
<1>4. ASSUME NEW d \in Deliveries PROVE Ledger(d)' /\ Fresh(d)'
  <2>1. /\ Holds(task[p], d) <=> d \in task[p].rows \/ (d = e /\ ~task[p].ok)
        /\ Wins(task[p], d) <=> d = e /\ task[p].ok
    BY <1>1 DEF Holds, Wins
  <2>2. CASE d # e
    <3>1. Holders(d)' = Holders(d) /\ (Won(d)' <=> Won(d))
      BY <1>2, <2>1, <2>2, TickSame DEF OnceInv
    <3> QED
      BY <1>1, <1>3, <2>2, <3>1, DeliveryRests
  <2>3. CASE d = e
    <3>1. /\ Holders(d)' = IF d \in task[p].rows THEN Holders(d) \cup {p} ELSE Holders(d) \ {p}
          /\ Won(d)' => Won(d)
      <4>1. /\ Holders(d)' = IF Holds(r, d) THEN Holders(d) \cup {p} ELSE Holders(d) \ {p}
            /\ Won(d)' <=> Wins(r, d) \/ \E q \in Tasks \ {p} : Wins(task[q], d)
        BY <1>2, TickMoves DEF OnceInv
      <4> QED
        BY <1>2, <4>1 DEF Won
    <3>2. Holders(d)' \subseteq Holders(d) /\ ~InDue(d)'
      BY <1>3, <2>1, <2>3, <3>1 DEF Holders
    <3>3. Chance(d)' = 0 \/ Holders(d)' # Holders(d)
      <4>1. CASE d \in task[p].rows \/ task[p].ok
        <5>1. p \in Holders(d)' \/ status'[d] \notin Open
          BY <1>3, <2>3, <3>1, <4>1
        <5> QED
          BY <3>2, <5>1 DEF Chance
      <4>2. CASE ~(d \in task[p].rows \/ task[p].ok)
        BY <2>1, <2>3, <3>1, <4>2 DEF Holders
      <4> QED
        BY <4>1, <4>2
    <3>4. Ledger(d)'
      <4>1. Chance(d) \in {0, 1}
        BY DEF Chance
      <4> QED
        BY <1>1, <3>2, <3>3, <4>1, LedgerKept
    <3>5. Fresh(d)'
      BY <1>1, <1>3, <3>1, <3>2, FreshKept DEF OnceInv
    <3> QED
      BY <3>4, <3>5
  <2> QED
    BY <2>2, <2>3
<1> QED
  BY <1>4 DEF Kept

LEMMA DisableKeeps ==
  ASSUME OnceInv, NEW p \in Tasks, DisableEndpoint(p)
  PROVE  Kept
<1>1. PICK r : /\ task' = [task EXCEPT ![p] = r]
               /\ \A d : ~Wins(r, d) /\ (Holds(r, d) <=> d \in task[p].rows)
  BY ContinueHolds DEF DisableEndpoint, OnceInv
<1>2. \A d : ~Wins(task[p], d) /\ (Holds(task[p], d) <=> d \in task[p].rows)
  BY DEF DisableEndpoint, Wins, Holds
<1>3. ASSUME NEW d \in Deliveries PROVE Ledger(d)' /\ Fresh(d)'
  <2>1. Holders(d)' = Holders(d) /\ (Won(d)' <=> Won(d))
    BY <1>1, <1>2, TickSame DEF OnceInv
  <2> QED
    BY <2>1, DeliveryRests DEF DisableEndpoint, InDue, history
<1> QED
  BY <1>3 DEF Kept

LEMMA CrashKeeps ==
  ASSUME OnceInv, NEW p \in Tasks, Crash(p)
  PROVE  Kept
<1>1. /\ task' = [task EXCEPT ![p] = Idle] /\ disturbed' = disturbed + 1
      /\ UNCHANGED <<status, accepted, deleted>>
  BY DEF Crash, endpoints
<1>2. ASSUME NEW d \in Deliveries PROVE Ledger(d)' /\ Fresh(d)'
  <2>1. ~Holds(Idle, d) /\ ~Wins(Idle, d)
    BY DEF Holds, Wins, Idle
  <2>2. Holders(d)' = Holders(d) \ {p} /\ (Won(d)' => Won(d))
    <3>1. /\ Holders(d)' = IF Holds(Idle, d) THEN Holders(d) \cup {p} ELSE Holders(d) \ {p}
          /\ Won(d)' <=> Wins(Idle, d) \/ \E q \in Tasks \ {p} : Wins(task[q], d)
      BY <1>1, TickMoves DEF OnceInv
    <3> QED
      BY <2>1, <3>1 DEF Won
  <2>3. Ledger(d)'
    BY <1>1, <2>2, LedgerKept
  <2>4. Fresh(d)'
    BY <1>1, <2>2, FreshKept DEF OnceInv
  <2> QED
    BY <2>3, <2>4
<1> QED
  BY <1>2 DEF Kept

(* A replay, an overrun lease: paid for, whatever becomes of the row.       *)
LEMMA DisturbanceKeeps ==
  ASSUME OnceInv, NEW e \in Deliveries, ReplayDelivery(e) \/ LeaseOverruns(e)
  PROVE  Kept
<1>1. /\ disturbed' = disturbed + 1 /\ UNCHANGED <<accepted, deleted, task>>
      /\ \A d \in Deliveries : status'[d] = "none" <=> status[d] = "none"
  BY DEF ReplayDelivery, LeaseOverruns, OnceInv, WebhooksTypeOK
<1>2. ASSUME NEW d \in Deliveries PROVE Ledger(d)' /\ Fresh(d)'
  <2>1. Holders(d)' = Holders(d) /\ (Won(d)' <=> Won(d))
    BY <1>1, TicksRest
  <2>2. Ledger(d)'
    BY <1>1, <2>1, LedgerKept
  <2>3. Fresh(d)'
    BY <1>1, <2>1, FreshKept DEF OnceInv
  <2> QED
    BY <2>2, <2>3
<1> QED
  BY <1>2 DEF Kept

(* An open row nobody has in hand had its chance already.                   *)
LEMMA ComesDueKeeps ==
  ASSUME OnceInv, NEW e \in Deliveries, ComesDue(e)
  PROVE  Kept
<1>1. /\ UNCHANGED <<status, accepted, deleted, disturbed, task>>
      /\ status[e] \in Open /\ ~InHand(e)
      /\ \A d \in Deliveries : InDue(d)' => InDue(d) \/ d = e
  BY DEF ComesDue, endpoints, history, InDue, OnceInv, WebhooksTypeOK
<1>2. ASSUME NEW d \in Deliveries PROVE Ledger(d)' /\ Fresh(d)'
  <2>1. Holders(d)' = Holders(d) /\ (Won(d)' <=> Won(d))
    BY <1>1, TicksRest
  <2>2. CASE d = e
    <3>1. Holders(d) = {} /\ ~Won(d)
      BY <1>1, <2>2 DEF InHand, Holders, Won, Holds, Wins
    <3>2. Chance(d)' <= Chance(d)
      BY <1>1, <2>2, <3>1 DEF Chance
    <3>3. Ledger(d)'
      BY <1>1, <2>1, <3>2, LedgerKept
    <3>4. Fresh(d)'
      BY <1>1, <2>1, FreshKept DEF OnceInv
    <3> QED
      BY <3>3, <3>4
  <2>3. CASE d # e
    BY <1>1, <2>1, <2>3, DeliveryRests
  <2> QED
    BY <2>2, <2>3
<1> QED
  BY <1>2 DEF Kept

LEMMA DeleteKeeps ==
  ASSUME OnceInv, NEW x \in Endpoints, DeleteWebhook(x)
  PROVE  Kept
<1>1. /\ UNCHANGED <<accepted, disturbed, task>> /\ deleted' = deleted \cup {x}
      /\ status' = [d \in Deliveries |-> IF d[1] = x THEN "none" ELSE status[d]]
      /\ due' = Without({x} \X Events)
  BY DEF DeleteWebhook, history
<1>2. \A d \in Deliveries : InDue(d)' => InDue(d) /\ d[1] # x
  <2>1. \A d \in Deliveries : InDue(d)' => InDue(d) /\ d \notin {x} \X Events
    BY <1>1, WithoutLeaves DEF OnceInv, WebhooksTypeOK
  <2>2. \A d \in Deliveries : d[1] = x => d \in {x} \X Events
    BY DEF Deliveries
  <2> QED
    BY <2>1, <2>2
<1>3. ASSUME NEW d \in Deliveries PROVE Ledger(d)' /\ Fresh(d)'
  <2>1. Holders(d)' = Holders(d) /\ (Won(d)' <=> Won(d))
    BY <1>1, TicksRest
  <2>2. CASE d[1] = x
    <3>1. Chance(d)' = 0 /\ Chance(d) \in {0, 1}
      BY <1>1, <1>2, <2>2 DEF Chance, Open
    <3>2. Ledger(d)'
      BY <1>1, <2>1, <3>1, LedgerKept
    <3>3. Fresh(d)'
      BY <1>1, <2>2 DEF Fresh
    <3> QED
      BY <3>2, <3>3
  <2>3. CASE d[1] # x
    BY <1>1, <1>2, <2>1, <2>3, DeliveryRests
  <2> QED
    BY <2>2, <2>3
<1> QED
  BY <1>3 DEF Kept

LEMMA RestKeeps ==
  ASSUME OnceInv, UNCHANGED <<status, due, accepted, deleted, disturbed, task>>
  PROVE  Kept
<1>1. ASSUME NEW d \in Deliveries PROVE Ledger(d)' /\ Fresh(d)'
  <2>1. Holders(d)' = Holders(d) /\ (Won(d)' <=> Won(d))
    BY TicksRest
  <2> QED
    BY <2>1, DeliveryRests DEF InDue
<1> QED
  BY <1>1 DEF Kept

Records == [kind : Kinds, rows : SUBSET (Deliveries \cup Events),
            now : Deliveries \cup Events \cup {<<>>}, ok : BOOLEAN]
RecordOK(r) ==
  /\ r \in Records
  /\ r.kind = "fanout" => r.rows \subseteq Events
  /\ r.kind = "mark" => r.rows \subseteq Events /\ r.now \in Events
  /\ r.kind \in {"deliver", "answer", "disable"} => r.rows \subseteq Deliveries
  /\ r.kind \in {"answer", "disable"} => r.now \in Deliveries

LEMMA TickTyped ==
  ASSUME WebhooksTypeOK, NEW p \in Tasks, NEW r, RecordOK(r), task' = [task EXCEPT ![p] = r]
  PROVE  /\ task' \in [Tasks -> Records]
         /\ \A q \in Tasks : RecordOK(task'[q])
<1>1. task \in [Tasks -> Records] /\ \A q \in Tasks : RecordOK(task[q])
  BY DEF WebhooksTypeOK, RecordOK, Records
<1>2. r \in Records
  BY DEF RecordOK
<1> HIDE DEF Records, RecordOK
<1> QED
  BY <1>1, <1>2

LEMMA StartTyped ==
  ASSUME WebhooksTypeOK, NEW p \in Tasks, NEW kind \in {"fanout", "deliver"}, NEW rows,
         rows \subseteq IF kind = "fanout" THEN Events ELSE Deliveries
  PROVE  RecordOK([Idle EXCEPT !.kind = kind, !.rows = rows]) /\ RecordOK(Idle)
<1> DEFINE s == [Idle EXCEPT !.kind = kind]
           r == [s EXCEPT !.rows = rows]
<1>1. Idle \in Records /\ Idle.kind = "idle"
  BY DEF Records, Kinds, Idle
<1>2. s \in Records /\ s.kind = kind
  BY <1>1 DEF Records, Kinds
<1> HIDE DEF s
<1>3. r \in Records /\ r.kind = kind /\ r.rows = rows
  BY <1>2 DEF Records
<1>4. RecordOK(Idle)
  BY <1>1 DEF RecordOK
<1> HIDE DEF r
<1>5. RecordOK(r)
  BY <1>3 DEF RecordOK
<1> QED
  BY <1>4, <1>5 DEF r, s

LEMMA ContinueTyped ==
  ASSUME WebhooksTypeOK, NEW p \in Tasks, NEW kind \in {"fanout", "deliver"}, Continue(p, kind),
         kind = "fanout" => task[p].kind = "mark",
         kind = "deliver" => task[p].kind \in {"answer", "disable"}
  PROVE  /\ task' \in [Tasks -> Records]
         /\ \A q \in Tasks : RecordOK(task'[q])
<1> DEFINE s == [Idle EXCEPT !.kind = kind, !.rows = task[p].rows]
           r == IF task[p].rows = {} THEN Idle ELSE s
<1>1. task[p].rows \subseteq IF kind = "fanout" THEN Events ELSE Deliveries
  BY DEF WebhooksTypeOK
<1>2. RecordOK(s) /\ RecordOK(Idle)
  BY <1>1, StartTyped
<1>3. task' = [task EXCEPT ![p] = r]
  BY DEF Continue
<1> HIDE DEF s
<1>4. RecordOK(r)
  BY <1>2
<1> HIDE DEF r
<1> QED
  BY <1>3, <1>4, TickTyped

LEMMA TakeTyped ==
  ASSUME WebhooksTypeOK, NEW p \in Tasks, NEW e \in task[p].rows, NEW kind \in {"mark", "answer"},
         NEW ok \in BOOLEAN, Take(p, e, kind, ok),
         kind = "mark" => task[p].kind = "fanout", kind = "answer" => task[p].kind = "deliver"
  PROVE  /\ task' \in [Tasks -> Records]
         /\ \A q \in Tasks : RecordOK(task'[q])
<1> DEFINE r == [kind |-> kind, rows |-> task[p].rows \ {e}, now |-> e, ok |-> ok]
<1>1. task[p].rows \subseteq IF kind = "mark" THEN Events ELSE Deliveries
  BY DEF WebhooksTypeOK
<1>2. RecordOK(r)
  BY <1>1 DEF RecordOK, Records, Kinds
<1>3. task' = [task EXCEPT ![p] = r]
  BY DEF Take
<1> HIDE DEF r
<1> QED
  BY <1>2, <1>3, TickTyped

LEMMA WebhooksTyped ==
  ASSUME emitted' \subseteq Events, fanned' \subseteq Events, status' \in [Deliveries -> Statuses],
         due' \in Seq(Deliveries), task' \in [Tasks -> Records], \A q \in Tasks : RecordOK(task'[q]),
         accepted' \in [Deliveries -> Nat], disturbed' \in Nat
  PROVE  WebhooksTypeOK'
BY DEF WebhooksTypeOK, Records, RecordOK, Deliveries, Statuses, Kinds

LEMMA StepTyped == WebhooksTypeOK /\ [Next]_vars => WebhooksTypeOK'
<1> SUFFICES ASSUME WebhooksTypeOK, [Next]_vars PROVE WebhooksTypeOK'
  OBVIOUS
<1> USE DEF outbox, endpoints, history
<1>0. /\ emitted \subseteq Events /\ fanned \subseteq Events
      /\ status \in [Deliveries -> Statuses] /\ due \in Seq(Deliveries)
      /\ accepted \in [Deliveries -> Nat] /\ disturbed \in Nat
      /\ task \in [Tasks -> Records] /\ \A q \in Tasks : RecordOK(task[q])
  BY DEF WebhooksTypeOK, Records, RecordOK
<1>1. ASSUME NEW e \in Events, EmitEvent(e) PROVE WebhooksTypeOK'
  BY <1>0, <1>1, WebhooksTyped DEF EmitEvent
<1>2. ASSUME NEW p \in Tasks, StartFanOut(p) PROVE WebhooksTypeOK'
  <2>1. RecordOK([Idle EXCEPT !.kind = "fanout", !.rows = emitted \ fanned])
    BY <1>0, StartTyped
  <2>2. task' \in [Tasks -> Records] /\ \A q \in Tasks : RecordOK(task'[q])
    BY <1>2, <2>1, TickTyped DEF StartFanOut, Start
  <2> QED
    BY <1>0, <1>2, <2>2, WebhooksTyped DEF StartFanOut
<1>3. ASSUME NEW p \in Tasks, InsertDeliveries(p) PROVE WebhooksTypeOK'
  <2>1. PICK e \in task[p].rows :
          /\ status' = [d \in Deliveries |-> IF d \in NewRows(e) THEN "pending" ELSE status[d]]
          /\ due' \in Appended(NewRows(e))
          /\ Take(p, e, "mark", FALSE)
    BY <1>3 DEF InsertDeliveries
  <2>2. task[p].kind = "fanout" /\ e \in Events
    BY <1>3, <2>1 DEF InsertDeliveries, WebhooksTypeOK
  <2>3. task' \in [Tasks -> Records] /\ \A q \in Tasks : RecordOK(task'[q])
    BY <2>1, <2>2, TakeTyped
  <2>4. NewRows(e) \subseteq Deliveries /\ Cardinality(NewRows(e)) \in Nat
    <3>1. Subscribed \subseteq Endpoints /\ NewRows(e) \subseteq Subscribed \X {e}
      BY DEF Subscribed, NewRows
    <3>2. IsFiniteSet(Subscribed \X {e})
      BY <3>1, FS_Subset, FS_Singleton, FS_Product, WebhooksAssumption
    <3>3. Subscribed \X {e} \subseteq Deliveries
      BY <2>2, <3>1 DEF Deliveries
    <3> QED
      BY <3>1, <3>2, <3>3, FS_Subset, FS_CardinalityType
  <2>5. due' \in Seq(Deliveries)
    <3>1. PICK f \in [1 .. Cardinality(NewRows(e)) -> NewRows(e)] : due' = due \o f
      BY <2>1 DEF Appended
    <3>2. f \in Seq(Deliveries)
      BY <2>4
    <3> QED
      BY <1>0, <3>1, <3>2
  <2>6. status' \in [Deliveries -> Statuses]
    BY <1>0, <2>1 DEF Statuses
  <2> QED
    BY <1>0, <1>3, <2>3, <2>5, <2>6, WebhooksTyped DEF InsertDeliveries
<1>4. ASSUME NEW p \in Tasks, MarkFanned(p) PROVE WebhooksTypeOK'
  <2>1. task[p].now \in Events /\ task[p].kind = "mark"
    BY <1>4 DEF MarkFanned, WebhooksTypeOK
  <2>2. task' \in [Tasks -> Records] /\ \A q \in Tasks : RecordOK(task'[q])
    BY <1>4, <2>1, ContinueTyped DEF MarkFanned
  <2> QED
    BY <1>0, <1>4, <2>1, <2>2, WebhooksTyped DEF MarkFanned
<1>5. ASSUME NEW p \in Tasks, ClaimDue(p) PROVE WebhooksTypeOK'
  <2>1. Claimed \subseteq Deliveries
    <3>1. Batch \in Nat /\ Locked \in Seq(Deliveries) /\ DOMAIN Locked \subseteq DOMAIN due
      BY <1>0, WebhooksAssumption DEF Locked
    <3> QED
      BY <1>0, <3>1 DEF Claimed
  <2>2. RecordOK([Idle EXCEPT !.kind = "deliver", !.rows = Claimed])
    BY <2>1, StartTyped
  <2>3. task' \in [Tasks -> Records] /\ \A q \in Tasks : RecordOK(task'[q])
    BY <1>5, <2>2, TickTyped DEF ClaimDue, Start
  <2>4. due' \in Seq(Deliveries) /\ status' \in [Deliveries -> Statuses]
    BY <1>0, <1>5, WithoutLeaves DEF ClaimDue, Statuses
  <2> QED
    BY <1>0, <1>5, <2>3, <2>4, WebhooksTyped DEF ClaimDue
<1>6. ASSUME NEW p \in Tasks, Send(p) PROVE WebhooksTypeOK'
  <2>1. PICK e \in task[p].rows :
          \/ \E ok \in BOOLEAN :
               /\ Take(p, e, "answer", ok)
               /\ accepted' = [accepted EXCEPT ![e] = IF ok THEN @ + 1 ELSE @]
          \/ /\ task' = [task EXCEPT ![p] = IF task[p].rows = {e} THEN Idle
                                            ELSE [task[p] EXCEPT !.rows = @ \ {e}]]
             /\ UNCHANGED accepted
    BY <1>6 DEF Send
  <2>2. task[p].kind = "deliver"
    BY <1>6 DEF Send
  <2>3. accepted' \in [Deliveries -> Nat]
    BY <1>0, <2>1
  <2>4. task' \in [Tasks -> Records] /\ \A q \in Tasks : RecordOK(task'[q])
    <3>1. ASSUME NEW ok \in BOOLEAN, Take(p, e, "answer", ok)
          PROVE  task' \in [Tasks -> Records] /\ \A q \in Tasks : RecordOK(task'[q])
      BY <2>2, <3>1, TakeTyped
    <3>2. RecordOK(Idle)
      BY StartTyped
    <3>3. RecordOK([task[p] EXCEPT !.rows = @ \ {e}])
      BY <1>0 DEF RecordOK, Records
    <3>4. ASSUME NEW r, RecordOK(r), task' = [task EXCEPT ![p] = r]
          PROVE  task' \in [Tasks -> Records] /\ \A q \in Tasks : RecordOK(task'[q])
      BY <3>4, TickTyped
    <3> QED
      BY <2>1, <3>1, <3>2, <3>3, <3>4
  <2> QED
    BY <1>0, <1>6, <2>3, <2>4, WebhooksTyped DEF Send
<1>7. ASSUME NEW p \in Tasks, RecordSuccess(p) \/ RecordFailure(p) PROVE WebhooksTypeOK'
  <2>1. task[p].kind = "answer" /\ due' = Without({task[p].now})
    BY <1>7 DEF RecordSuccess, RecordFailure
  <2>2. status' \in [Deliveries -> Statuses]
    BY <1>0, <1>7 DEF RecordSuccess, RecordFailure, Write, Statuses
  <2>3. due' \in Seq(Deliveries)
    BY <1>0, <2>1, WithoutLeaves
  <2>4. task' \in [Tasks -> Records] /\ \A q \in Tasks : RecordOK(task'[q])
    <3>1. CASE Continue(p, "deliver")
      BY <2>1, <3>1, ContinueTyped
    <3>2. CASE task' = [task EXCEPT ![p].kind = "disable"]
      <4>1. RecordOK([task[p] EXCEPT !.kind = "disable"])
        BY <1>0, <2>1 DEF RecordOK, Records, Kinds
      <4>2. task' = [task EXCEPT ![p] = [task[p] EXCEPT !.kind = "disable"]]
        BY <1>0, <3>2
      <4> QED
        BY <4>1, <4>2, TickTyped
    <3> QED
      BY <1>7, <3>1, <3>2 DEF RecordSuccess, RecordFailure
  <2> QED
    BY <1>0, <1>7, <2>2, <2>3, <2>4, WebhooksTyped DEF RecordSuccess, RecordFailure
<1>8. ASSUME NEW p \in Tasks, DisableEndpoint(p) PROVE WebhooksTypeOK'
  <2>1. task' \in [Tasks -> Records] /\ \A q \in Tasks : RecordOK(task'[q])
    BY <1>8, ContinueTyped DEF DisableEndpoint
  <2> QED
    BY <1>0, <1>8, <2>1, WebhooksTyped DEF DisableEndpoint
<1>9. ASSUME NEW p \in Tasks, Crash(p) PROVE WebhooksTypeOK'
  <2>1. RecordOK(Idle)
    BY StartTyped
  <2>2. task' \in [Tasks -> Records] /\ \A q \in Tasks : RecordOK(task'[q])
    BY <1>9, <2>1, TickTyped DEF Crash
  <2> QED
    BY <1>0, <1>9, <2>2, WebhooksTyped DEF Crash
<1>10. ASSUME NEW d \in Deliveries, ReplayDelivery(d) PROVE WebhooksTypeOK'
  <2>1. status' \in [Deliveries -> Statuses]
    BY <1>0, <1>10 DEF ReplayDelivery, Statuses
  <2>2. Without({d}) \in Seq(Deliveries)
    BY <1>0, WithoutLeaves
  <2>3. due' \in Seq(Deliveries)
    BY <1>10, <2>2, AppendProperties DEF ReplayDelivery
  <2> QED
    BY <1>0, <1>10, <2>1, <2>3, WebhooksTyped DEF ReplayDelivery
<1>11. ASSUME NEW d \in Deliveries, ComesDue(d) \/ LeaseOverruns(d) \/ Ages(d) PROVE WebhooksTypeOK'
  <2>1. due' \in Seq(Deliveries)
    <3>1. due' = due \/ due' = Append(due, d)
      BY <1>11 DEF ComesDue, LeaseOverruns, Ages
    <3>2. Append(due, d) \in Seq(Deliveries)
      BY <1>0, AppendProperties
    <3> QED
      BY <1>0, <3>1, <3>2
  <2> QED
    BY <1>0, <1>11, <2>1, WebhooksTyped DEF ComesDue, LeaseOverruns, Ages
<1>12. ASSUME NEW x \in Endpoints, DeleteWebhook(x) PROVE WebhooksTypeOK'
  <2>1. status' \in [Deliveries -> Statuses]
    BY <1>0, <1>12 DEF DeleteWebhook, Statuses
  <2>2. due' \in Seq(Deliveries)
    BY <1>0, <1>12, WithoutLeaves DEF DeleteWebhook
  <2> QED
    BY <1>0, <1>12, <2>1, <2>2, WebhooksTyped DEF DeleteWebhook
<1>13. CASE UNCHANGED vars
  BY <1>0, <1>13, WebhooksTyped DEF vars
<1> QED
  BY <1>1, <1>2, <1>3, <1>4, <1>5, <1>6, <1>7, <1>8, <1>9, <1>10, <1>11, <1>12, <1>13
  DEF Next, Running, FanOutTick, DeliverTick

LEMMA InitOnce == Init => OnceInv
<1> SUFFICES ASSUME Init PROVE OnceInv
  OBVIOUS
<1>1. RecordOK(Idle)
  BY DEF RecordOK, Records, Kinds, Idle
<1>2. WebhooksTypeOK
  <2>1. task \in [Tasks -> Records] /\ \A q \in Tasks : RecordOK(task[q])
    BY <1>1 DEF Init, RecordOK
  <2> QED
    BY <2>1, WebhooksAssumption DEF Init, WebhooksTypeOK, Records, RecordOK, Statuses
<1>3. ASSUME NEW d \in Deliveries PROVE Ledger(d) /\ Fresh(d)
  <2>1. Holders(d) = {} /\ ~Won(d)
    BY DEF Init, Idle, Holders, Won, Holds, Wins
  <2>2. Chance(d) = 0 /\ accepted[d] = 0 /\ disturbed = 0
    BY DEF Init, Chance, InDue, Open
  <2> QED
    BY <2>1, <2>2, FS_EmptySet DEF Ledger, Fresh
<1> QED
  BY <1>2, <1>3 DEF OnceInv

LEMMA StepOnce == OnceInv /\ [Next]_vars => OnceInv'
<1> SUFFICES ASSUME OnceInv, [Next]_vars PROVE OnceInv'
  OBVIOUS
<1>1. WebhooksTypeOK'
  BY StepTyped DEF OnceInv
<1>2. Kept
  <2>1. ASSUME UNCHANGED <<status, due, accepted, deleted, disturbed, task>> PROVE Kept
    BY <2>1, RestKeeps
  <2>2. ASSUME NEW e \in Events, EmitEvent(e) PROVE Kept
    BY <2>1, <2>2 DEF EmitEvent, endpoints, history
  <2>3. ASSUME NEW d \in Deliveries, Ages(d) PROVE Kept
    BY <2>1, <2>3 DEF Ages, history
  <2>4. CASE UNCHANGED vars
    BY <2>1, <2>4 DEF vars, endpoints, history
  <2> QED
    BY <2>2, <2>3, <2>4, FanOutKeeps, InsertKeeps, ClaimKeeps, SendKeeps, RecordKeeps, DisableKeeps,
       CrashKeeps, DisturbanceKeeps, ComesDueKeeps, DeleteKeeps
    DEF Next, Running, FanOutTick, DeliverTick
<1> QED
  BY <1>1, <1>2 DEF Kept, OnceInv, Deliveries

(* The rows of the outbox, the deliveries, the queue and the ticks are what *)
(* their types say.                                                         *)
THEOREM WebhooksStayTyped == Spec => []WebhooksTypeOK
<1>1. OnceInv => WebhooksTypeOK
  BY DEF OnceInv
<1> QED
  BY InitOnce, StepOnce, <1>1, PTL DEF Spec

(* An endpoint that accepted an event is sent it again once for each replay, *)
(* crash and overrun lease, and never because ticks overlap.                *)
THEOREM AcceptedOnceOnly == Spec => []AcceptedOnce
<1>1. OnceInv => AcceptedOnce
  <2> SUFFICES ASSUME OnceInv, NEW d \in Deliveries PROVE accepted[d] <= 1 + disturbed
    BY DEF AcceptedOnce
  <2>1. /\ accepted[d] \in Nat /\ disturbed \in Nat
        /\ Cardinality(Holders(d)) \in Nat /\ Chance(d) \in {0, 1}
        /\ accepted[d] + Cardinality(Holders(d)) + Chance(d) <= 1 + disturbed
    BY FS_CardinalityType DEF OnceInv, WebhooksTypeOK, Ledger, Chance
  <2> QED
    BY <2>1
<1> QED
  BY InitOnce, StepOnce, <1>1, PTL DEF Spec

=============================================================================
