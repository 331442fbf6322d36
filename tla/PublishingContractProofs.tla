---------------------- MODULE PublishingContractProofs ----------------------
(***************************************************************************)
(* That the publishing core keeps the contract of EffectivelyOnce, for any *)
(* number of targets, workers, claims, crashes and human retries, while no *)
(* lease runs out under a job or a worker that is still busy with it.      *)
(*                                                                         *)
(* The argument has two invariants.  LeaseInv is about who may act for a   *)
(* row: every claim that can still call or write is that of the row as it  *)
(* is, and one worker has it.  PostInv counts posts: wherever a row may be *)
(* posted again, the provider holds no more posts than people granted.     *)
(***************************************************************************)
EXTENDS MCPublishing, PublishingProofs

(* No lease runs out under a busy worker.                                   *)
LeasesHold == "slow_worker" \notin Faults

-----------------------------------------------------------------------------
(* Who may act for a row.  A worker owns the claim it won the slot of and   *)
(* those of the batch it sweeps; a claim waits while its slot is free.      *)

PastSlot == {"gates", "call", "lookup", "confirm", "write"}

Owns(p, c) == \/ pc[p] \in PastSlot /\ c = claim[p]
              \/ pc[p] # "fanout" /\ c \in todo[p]

HandsOver(p, c) == \/ pc[p] = "slot" /\ c = claim[p]
                   \/ pc[p] = "fanout" /\ c \in todo[p]

Waits(c) == /\ slots[c.t][c.a] = "none"
            /\ c \in jobs \/ \E p \in Workers : HandsOver(p, c)

(* The claim is that of the row as it is, under a live lease.               *)
Holds(c) == /\ StillOurs(c) /\ lease[c.t] = "live"
            /\ c.a = attempt[c.t] /\ c.at = claimedAt[c.t]

OwnersHold   == \A p \in Workers, c \in Claim : Owns(p, c) => Holds(c)
WaitersHold  == \A c \in Claim : Waits(c) => Holds(c)
OneOwner     == \A p, q \in Workers, c \in Claim : Owns(p, c) /\ Owns(q, c) => p = q
FreeIfWaits  == \A p \in Workers, c \in Claim : Owns(p, c) => ~Waits(c)
TakenFromBatch == \A p \in Workers : pc[p] \in PastSlot => claim[p] \notin todo[p]

LeaseInv == OwnersHold /\ WaitersHold /\ OneOwner /\ FreeIfWaits /\ TakenFromBatch

LEMMA InitLeaseInv == Init => LeaseInv
BY DEF Init, LeaseInv, OwnersHold, WaitersHold, OneOwner, FreeIfWaits, TakenFromBatch,
       Owns, HandsOver, Waits, PastSlot

(* What a worker past the slot holds is a claim.                            *)
LEMMA OwnClaim ==
  ASSUME TypeInv, NEW p \in Workers, pc[p] \in PastSlot \cup {"slot"}
  PROVE  claim[p] \in Claim
BY DEF TypeInv, HoldsClaim, PastSlot

(* Two claims that hold for the same row are the same claim.                *)
LEMMA HeldOnce ==
  ASSUME NEW c \in Claim, NEW d \in Claim, Holds(c), Holds(d), c.t = d.t
  PROVE  c = d
BY DEF Holds, StillOurs, Claim

RowKept(t) == UNCHANGED <<state[t], version[t], attempt[t], lease[t], claimedAt[t]>>

(* Nobody owns or waits for more than before, and the rows of the claims    *)
(* still owned or waiting are as they were.                                 *)
NoNewClaims ==
  /\ \A p \in Workers, c \in Claim : Owns(p, c)' => Owns(p, c)
  /\ \A c \in Claim : Waits(c)' => Waits(c)
  /\ \A p \in Workers : pc'[p] \in PastSlot => claim'[p] \notin todo'[p]

RowsKept ==
  \A c \in Claim : Waits(c)' \/ (\E p \in Workers : Owns(p, c)') => RowKept(c.t)

LEMMA NoNewClaimsKeepLeaseInv ==
  ASSUME TypeInv, LeaseInv, NoNewClaims, RowsKept
  PROVE  LeaseInv'
<1>1. ASSUME NEW c \in Claim, Holds(c), RowKept(c.t) PROVE Holds(c)'
  BY <1>1 DEF Holds, StillOurs, InFlight, RowKept
<1>2. OwnersHold'
  BY <1>1 DEF LeaseInv, OwnersHold, NoNewClaims, RowsKept
<1>3. WaitersHold'
  BY <1>1 DEF LeaseInv, WaitersHold, NoNewClaims, RowsKept
<1>4. OneOwner' /\ FreeIfWaits' /\ TakenFromBatch'
  BY DEF LeaseInv, OneOwner, FreeIfWaits, TakenFromBatch, NoNewClaims
<1> QED
  BY <1>2, <1>3, <1>4 DEF LeaseInv

(* The steps of a worker that hand out no claim.                            *)
LEMMA GoOnClaims ==
  ASSUME TypeInv, LeaseInv, NEW p \in Workers, pc[p] \in PastSlot,
         NEW l \in PastSlot, Goto(p, l), UNCHANGED <<claim, todo, jobs, slots>>
  PROVE  NoNewClaims
<1>1. \A q \in Workers : pc'[q] = IF q = p THEN l ELSE pc[q]
  BY DEF TypeInv, TypeOK, Goto
<1>2. pc[p] # "fanout" /\ l # "fanout" /\ pc[p] # "slot" /\ l # "slot"
  BY DEF PastSlot
<1> QED
  BY <1>1, <1>2 DEF NoNewClaims, Owns, HandsOver, Waits, LeaseInv, TakenFromBatch

LEMMA FinishClaims ==
  ASSUME TypeInv, LeaseInv, NEW p \in Workers, Finish(p), pc[p] \in PastSlot \cup {"slot"},
         \A t \in Targets, a \in Attempts : slots[t][a] # "none" => slots'[t][a] # "none"
  PROVE  /\ NoNewClaims
         /\ \A c \in Claim : Owns(p, c)' => c \in todo[p]
<1>1. \A q \in Workers : /\ pc'[q] = IF q # p THEN pc[q]
                                  ELSE IF todo[p] = {} THEN "idle" ELSE "sweep"
                         /\ q # p => claim'[q] = claim[q]
                         /\ todo'[q] = todo[q]
  BY DEF TypeInv, TypeOK, Finish, Goto
<1>2. jobs' \subseteq jobs
  BY DEF Finish
<1>3. \A c \in Claim : slots'[c.t][c.a] = "none" => slots[c.t][c.a] = "none"
  BY DEF Claim
<1>4. pc[p] # "fanout" /\ pc'[p] \notin PastSlot \cup {"slot", "fanout"}
  BY <1>1 DEF PastSlot
<1>5. \A q \in Workers, c \in Claim : Owns(q, c)' => Owns(q, c)
  BY <1>1, <1>4 DEF Owns
<1>6. \A c \in Claim : Waits(c)' => Waits(c)
  BY <1>1, <1>2, <1>3, <1>4 DEF Waits, HandsOver
<1>7. \A q \in Workers : pc'[q] \in PastSlot => claim'[q] \notin todo'[q]
  BY <1>1, <1>4 DEF LeaseInv, TakenFromBatch
<1>8. \A c \in Claim : Owns(p, c)' => c \in todo[p]
  BY <1>1, <1>4 DEF Owns
<1> QED
  BY <1>5, <1>6, <1>7, <1>8 DEF NoNewClaims

LEMMA AddJobClaims ==
  ASSUME TypeInv, LeaseInv, NEW p \in Workers, AddJob(p)
  PROVE  NoNewClaims
<1>1. PICK c \in todo[p] : /\ jobs' = jobs \cup {c}
                          /\ todo' = [todo EXCEPT ![p] = @ \ {c}]
                          /\ Goto(p, IF todo[p] = {c} THEN "idle" ELSE "fanout")
  BY DEF AddJob
<1>2. pc[p] = "fanout" /\ UNCHANGED <<claim, slots>>
  BY DEF AddJob
<1>3. \A q \in Workers : /\ pc'[q] = IF q # p THEN pc[q]
                                  ELSE IF todo[p] = {c} THEN "idle" ELSE "fanout"
                         /\ todo'[q] = IF q = p THEN todo[p] \ {c} ELSE todo[q]
  BY <1>1 DEF TypeInv, TypeOK, Goto
<1>4. \A q \in Workers, d \in Claim : Owns(q, d)' => Owns(q, d)
  BY <1>1, <1>2, <1>3 DEF Owns, PastSlot
<1>5. \A d \in Claim : Waits(d)' => Waits(d)
  <2>1. HandsOver(p, c)
    BY <1>2 DEF HandsOver
  <2>2. \A q \in Workers, d \in Claim : HandsOver(q, d)' => HandsOver(q, d)
    BY <1>2, <1>3 DEF HandsOver
  <2> QED
    BY <1>1, <1>2, <2>1, <2>2 DEF Waits
<1>6. \A q \in Workers : pc'[q] \in PastSlot => claim'[q] \notin todo'[q]
  BY <1>2, <1>3 DEF LeaseInv, TakenFromBatch, PastSlot
<1> QED
  BY <1>4, <1>5, <1>6 DEF NoNewClaims

LEMMA DeliverClaims ==
  ASSUME TypeInv, LeaseInv, NEW p \in Workers, Deliver(p)
  PROVE  NoNewClaims
<1>1. pc[p] = "idle" /\ UNCHANGED <<todo, slots>>
  BY DEF Deliver
<1>2. PICK c \in jobs : IF StillOurs(c)
                         THEN claim' = [claim EXCEPT ![p] = c] /\ Goto(p, "slot") /\ UNCHANGED jobs
                         ELSE jobs' = jobs \ {c} /\ UNCHANGED <<pc, claim>>
  BY DEF Deliver
<1>3. CASE ~StillOurs(c)
  BY <1>1, <1>2, <1>3 DEF NoNewClaims, Owns, HandsOver, Waits, LeaseInv, TakenFromBatch
<1>4. CASE StillOurs(c)
  <2>0. claim' = [claim EXCEPT ![p] = c] /\ Goto(p, "slot") /\ UNCHANGED jobs
    BY <1>2, <1>4
  <2>1. \A q \in Workers : /\ pc'[q] = IF q = p THEN "slot" ELSE pc[q]
                           /\ claim'[q] = IF q = p THEN c ELSE claim[q]
    BY <2>0 DEF TypeInv, TypeOK, Goto
  <2>2. \A q \in Workers, d \in Claim : Owns(q, d)' => Owns(q, d)
    BY <1>1, <2>1 DEF Owns, PastSlot
  <2>3. \A q \in Workers, d \in Claim : HandsOver(q, d)' => d \in jobs \/ HandsOver(q, d)
    BY <1>1, <2>1 DEF HandsOver
  <2>4. \A d \in Claim : Waits(d)' => Waits(d)
    BY <1>1, <2>0, <2>3 DEF Waits
  <2>5. \A q \in Workers : pc'[q] \in PastSlot => claim'[q] \notin todo'[q]
    BY <1>1, <2>1 DEF LeaseInv, TakenFromBatch, PastSlot
  <2> QED
    BY <2>2, <2>4, <2>5 DEF NoNewClaims
<1> QED
  BY <1>3, <1>4

LEMMA SweptOneClaims ==
  ASSUME TypeInv, LeaseInv, NEW p \in Workers, ReconcileSwept(p)
  PROVE  NoNewClaims
<1>1. PICK c \in todo[p] : /\ claim' = [claim EXCEPT ![p] = c]
                          /\ todo' = [todo EXCEPT ![p] = @ \ {c}]
                          /\ Reconcile(p, c)
  BY DEF ReconcileSwept
<1>2. pc[p] = "sweep" /\ UNCHANGED <<slots, jobs>>
  BY DEF ReconcileSwept
<1>3. PICK l \in {"lookup", "write"} : Goto(p, l)
  BY <1>1 DEF Reconcile, Decide
<1>4. \A q \in Workers : /\ pc'[q] = IF q = p THEN l ELSE pc[q]
                         /\ claim'[q] = IF q = p THEN c ELSE claim[q]
                         /\ todo'[q] = IF q = p THEN todo[p] \ {c} ELSE todo[q]
  BY <1>1, <1>3 DEF TypeInv, TypeOK, Goto
<1>5. \A q \in Workers, d \in Claim : Owns(q, d)' => Owns(q, d)
  BY <1>2, <1>4 DEF Owns
<1>6. \A d \in Claim : Waits(d)' => Waits(d)
  BY <1>2, <1>4 DEF Waits, HandsOver
<1>7. \A q \in Workers : pc'[q] \in PastSlot => claim'[q] \notin todo'[q]
  BY <1>4 DEF LeaseInv, TakenFromBatch
<1> QED
  BY <1>5, <1>6, <1>7 DEF NoNewClaims

LEMMA CrashClaims ==
  ASSUME TypeInv, LeaseInv, NEW p \in Workers, Crash(p)
  PROVE  NoNewClaims
<1>1. \A q \in Workers : /\ pc'[q] = IF q = p THEN "idle" ELSE pc[q]
                         /\ q # p => claim'[q] = claim[q]
                         /\ todo'[q] = IF q = p THEN {} ELSE todo[q]
  BY DEF TypeInv, TypeOK, Crash, Goto
<1>2. UNCHANGED <<slots, jobs>>
  BY DEF Crash
<1> QED
  BY <1>1, <1>2 DEF NoNewClaims, Owns, HandsOver, Waits, PastSlot, LeaseInv, TakenFromBatch

(* Writers of outcomes, people and the clock move rows nobody else acts for. *)
LEMMA SettleKeepsLeaseInv ==
  ASSUME TypeInv, LeaseInv, NEW p \in Workers, pc[p] = "write",
         Finish(p), NEW s, SetRow(claim[p], s),
         \A t \in Targets, a \in Attempts : slots[t][a] # "none" => slots'[t][a] # "none"
  PROVE  LeaseInv'
<1>1. claim[p] \in Claim /\ Owns(p, claim[p]) /\ claim[p] \notin todo[p]
  BY OwnClaim DEF PastSlot, Owns, LeaseInv, TakenFromBatch
<1>2. NoNewClaims /\ \A c \in Claim : Owns(p, c)' => c \in todo[p]
  BY FinishClaims DEF PastSlot
<1>3. \A t \in Targets \ {claim[p].t} : RowKept(t)
  BY DEF TypeInv, TypeOK, SetRow, RowKept
<1>4. Holds(claim[p])
  BY <1>1 DEF LeaseInv, OwnersHold
<1>5. ASSUME NEW c \in Claim, NEW q \in Workers, Owns(q, c)', c.t = claim[p].t PROVE FALSE
  <2>1. Owns(q, c) /\ Holds(c)
    BY <1>2, <1>5 DEF NoNewClaims, LeaseInv, OwnersHold
  <2>2. c = claim[p]
    BY <1>1, <1>4, <1>5, <2>1, HeldOnce
  <2>3. q = p
    BY <1>1, <2>1, <2>2 DEF LeaseInv, OneOwner
  <2> QED
    BY <1>1, <1>2, <1>5, <2>2, <2>3
<1>6. ASSUME NEW c \in Claim, Waits(c)', c.t = claim[p].t PROVE FALSE
  <2>1. Waits(c) /\ Holds(c)
    BY <1>2, <1>6 DEF NoNewClaims, LeaseInv, WaitersHold
  <2>2. c = claim[p]
    BY <1>1, <1>4, <1>6, <2>1, HeldOnce
  <2> QED
    BY <1>1, <2>1, <2>2 DEF LeaseInv, FreeIfWaits
<1>7. RowsKept
  BY <1>3, <1>5, <1>6 DEF RowsKept, Claim
<1> QED
  BY <1>2, <1>7, NoNewClaimsKeepLeaseInv

LEMMA OutsideFlightKeepsLeaseInv ==
  ASSUME TypeInv, LeaseInv, NoNewClaims, \A t \in Targets : InFlight(t) => RowKept(t)
  PROVE  LeaseInv'
<1>1. RowsKept
  BY DEF RowsKept, NoNewClaims, LeaseInv, OwnersHold, WaitersHold, Holds, StillOurs, Claim
<1> QED
  BY <1>1, NoNewClaimsKeepLeaseInv

LEMMA SameClaims ==
  ASSUME TypeInv, LeaseInv, UNCHANGED <<local, jobs, slots>>
  PROVE  NoNewClaims
BY DEF NoNewClaims, Owns, HandsOver, Waits, LeaseInv, TakenFromBatch, local

LEMMA ExpiryKeepsLeaseInv ==
  ASSUME LeasesHold, TypeInv, LeaseInv, NEW t \in Targets, LeaseExpires(t)
  PROVE  LeaseInv'
<1>1. ~Attended(t)
  BY DEF LeasesHold, LeaseExpires
<1>2. \A u \in Targets \ {t} : RowKept(u)
  BY DEF TypeInv, TypeOK, LeaseExpires, RowKept
<1>3. UNCHANGED <<local, jobs, slots>>
  BY DEF LeaseExpires
<1>4. NoNewClaims
  BY <1>3, SameClaims
<1>5. ASSUME NEW c \in Claim, NEW q \in Workers, Owns(q, c), c.t = t PROVE FALSE
  <2>1. c.v = version[t]
    BY <1>5 DEF LeaseInv, OwnersHold, Holds, StillOurs
  <2>2. c # None
    BY NoneAssumption
  <2> QED
    BY <1>1, <1>5, <2>1, <2>2 DEF Attended, Current, Owns
<1>6. ASSUME NEW c \in Claim, Waits(c), c.t = t PROVE FALSE
  <2>1. c.v = version[t] /\ slots[c.t][c.a] = "none"
    BY <1>6 DEF LeaseInv, WaitersHold, Holds, StillOurs, Waits
  <2>2. c # None
    BY NoneAssumption
  <2> QED
    BY <1>1, <1>6, <2>1, <2>2 DEF Attended, Current, Waits, HandsOver
<1>7. RowsKept
  BY <1>2, <1>4, <1>5, <1>6 DEF RowsKept, NoNewClaims, Claim
<1> QED
  BY <1>4, <1>7, NoNewClaimsKeepLeaseInv

(* The worker that wins the slot of a waiting claim becomes its owner.      *)
LEMMA SlotKeepsLeaseInv ==
  ASSUME TypeInv, LeaseInv, NEW p \in Workers, pc[p] = "slot",
         slots[claim[p].t][claim[p].a] = "none",
         slots' = [slots EXCEPT ![claim[p].t][claim[p].a] = "started"],
         Goto(p, "gates"), UNCHANGED <<claim, todo, jobs, row>>
  PROVE  LeaseInv'
<1> DEFINE c == claim[p]
<1>1. c \in Claim /\ Waits(c) /\ Holds(c)
  BY OwnClaim DEF Waits, HandsOver, LeaseInv, WaitersHold
<1>2. \A q \in Workers : pc'[q] = IF q = p THEN "gates" ELSE pc[q]
  BY DEF TypeInv, TypeOK, Goto
<1>3. slots'[c.t][c.a] = "started" /\ \A t \in Targets, a \in Attempts :
        slots'[t][a] = "none" => slots[t][a] = "none"
  BY <1>1 DEF TypeInv, TypeOK, Claim
<1> HIDE DEF c
<1>4. \A d \in Claim : Holds(d)' <=> Holds(d)
  BY DEF Holds, StillOurs, InFlight, row
<1>5. \A q \in Workers, d \in Claim : Owns(q, d)' => Owns(q, d) \/ (q = p /\ d = c)
  BY <1>2 DEF Owns, PastSlot, c
<1>6. \A d \in Claim : Waits(d)' => Waits(d) /\ d # c
  <2>1. \A d \in Claim : slots'[d.t][d.a] = "none" => slots[d.t][d.a] = "none" /\ d # c
    BY <1>3 DEF Claim
  <2>2. \A q \in Workers, d \in Claim : HandsOver(q, d)' => HandsOver(q, d)
    BY <1>2 DEF HandsOver
  <2> QED
    BY <2>1, <2>2 DEF Waits
<1>7. \A q \in Workers : ~Owns(q, c)
  BY <1>1 DEF LeaseInv, FreeIfWaits
<1>8. OwnersHold' /\ WaitersHold'
  BY <1>1, <1>4, <1>5, <1>6 DEF LeaseInv, OwnersHold, WaitersHold
<1>9. OneOwner' /\ FreeIfWaits'
  BY <1>5, <1>6, <1>7 DEF LeaseInv, OneOwner, FreeIfWaits
<1>10. TakenFromBatch'
  <2>1. c \notin todo[p]
    BY <1>7 DEF Owns, c
  <2> QED
    BY <1>2, <2>1 DEF LeaseInv, TakenFromBatch, c
<1> QED
  BY <1>8, <1>9, <1>10 DEF LeaseInv

(* A scan claims rows that nobody acts for, and its claims wait for a job.  *)
LEMMA ScanKeepsLeaseInv ==
  ASSUME TypeInv, LeaseInv, NEW p \in Workers, ClaimDueTargets(p)
  PROVE  LeaseInv'
<1>1. PICK S \in (SUBSET Due) \ {{}} :
        /\ state'     = [t \in Targets |-> IF t \in S THEN "publishing" ELSE state[t]]
        /\ attempt'   = [t \in Targets |-> IF t \in S THEN attempt[t] + 1 ELSE attempt[t]]
        /\ version'   = [t \in Targets |-> IF t \in S THEN version[t] + 1 ELSE version[t]]
        /\ lease'     = [t \in Targets |-> IF t \in S THEN "live" ELSE lease[t]]
        /\ claimedAt' = [t \in Targets |-> IF t \in S THEN Len(posts) ELSE claimedAt[t]]
        /\ todo'      = [todo EXCEPT ![p] = {NewClaim(t) : t \in S}]
  BY DEF ClaimDueTargets
<1>2. pc[p] = "idle" /\ Goto(p, "fanout") /\ UNCHANGED <<claim, slots, jobs>>
  BY DEF ClaimDueTargets
<1>3. \A q \in Workers : /\ pc'[q] = IF q = p THEN "fanout" ELSE pc[q]
                         /\ todo'[q] = IF q = p THEN {NewClaim(t) : t \in S} ELSE todo[q]
  BY <1>1, <1>2 DEF TypeInv, TypeOK, Goto
<1>4. \A q \in Workers, c \in Claim : Owns(q, c)' => Owns(q, c)
  BY <1>2, <1>3 DEF Owns, PastSlot
<1>5. \A c \in Claim : Waits(c)' => Waits(c) \/ c \in {NewClaim(t) : t \in S}
  BY <1>2, <1>3 DEF Waits, HandsOver
<1>6. S \subseteq Targets /\ \A t \in S : state[t] = "scheduled"
  BY DEF Due
<1>7. ASSUME NEW c \in Claim, Holds(c) PROVE Holds(c)' /\ c.t \notin S
  <2>1. c.t \notin S /\ c.t \in Targets
    BY <1>6, <1>7 DEF Holds, StillOurs, InFlight, Claim
  <2> QED
    BY <1>1, <1>7, <2>1 DEF Holds, StillOurs, InFlight
<1>8. ASSUME NEW t \in S, NEW c, c = NewClaim(t) PROVE Holds(c)' /\ c.t = t
  BY <1>1, <1>6, <1>8 DEF NewClaim, Holds, StillOurs, InFlight
<1>9. OwnersHold' /\ WaitersHold'
  BY <1>4, <1>5, <1>7, <1>8 DEF LeaseInv, OwnersHold, WaitersHold
<1>10. FreeIfWaits'
  <2>1. \A q \in Workers, c \in Claim : Owns(q, c)' => c \notin {NewClaim(t) : t \in S}
    BY <1>4, <1>7, <1>8 DEF LeaseInv, OwnersHold
  <2> QED
    BY <1>4, <1>5, <2>1 DEF LeaseInv, FreeIfWaits
<1>11. OneOwner' /\ TakenFromBatch'
  BY <1>2, <1>3, <1>4 DEF LeaseInv, OneOwner, TakenFromBatch, PastSlot
<1> QED
  BY <1>9, <1>10, <1>11 DEF LeaseInv

(* A sweep takes over rows whose lease has run out: nobody acts for them.   *)
LEMMA SweepKeepsLeaseInv ==
  ASSUME TypeInv, LeaseInv, NEW p \in Workers, LeaseSweeperTick(p)
  PROVE  LeaseInv'
<1>1. PICK S \in (SUBSET Expired) \ {{}} :
        /\ state'   = [t \in Targets |-> IF t \in S THEN "reconciling" ELSE state[t]]
        /\ version' = [t \in Targets |-> IF t \in S THEN version[t] + 1 ELSE version[t]]
        /\ lease'   = [t \in Targets |-> IF t \in S THEN "live" ELSE lease[t]]
        /\ todo'    = [todo EXCEPT ![p] = {SweptClaim(t) : t \in S}]
  BY DEF LeaseSweeperTick
<1>2. /\ pc[p] = "idle" /\ Goto(p, "sweep")
      /\ UNCHANGED <<attempt, claimedAt, claim, slots, jobs>>
  BY DEF LeaseSweeperTick
<1>3. \A q \in Workers : /\ pc'[q] = IF q = p THEN "sweep" ELSE pc[q]
                         /\ todo'[q] = IF q = p THEN {SweptClaim(t) : t \in S} ELSE todo[q]
  BY <1>1, <1>2 DEF TypeInv, TypeOK, Goto
<1>4. \A q \in Workers, c \in Claim :
        Owns(q, c)' => Owns(q, c) \/ (q = p /\ c \in {SweptClaim(t) : t \in S})
  BY <1>2, <1>3 DEF Owns, PastSlot
<1>5. \A c \in Claim : Waits(c)' => Waits(c)
  BY <1>2, <1>3 DEF Waits, HandsOver
<1>6. S \subseteq Targets /\ \A t \in S : lease[t] = "expired"
  BY DEF Expired
<1>7. ASSUME NEW c \in Claim, Holds(c) PROVE Holds(c)' /\ c.t \notin S
  <2>1. c.t \notin S /\ c.t \in Targets
    BY <1>6, <1>7 DEF Holds, Claim
  <2> QED
    BY <1>1, <1>2, <1>7, <2>1 DEF Holds, StillOurs, InFlight
<1>8. ASSUME NEW t \in S, NEW c, c = SweptClaim(t) PROVE Holds(c)' /\ c.t = t
  BY <1>1, <1>2, <1>6, <1>8 DEF SweptClaim, Holds, StillOurs, InFlight
<1>9. OwnersHold' /\ WaitersHold'
  BY <1>4, <1>5, <1>7, <1>8 DEF LeaseInv, OwnersHold, WaitersHold
<1>10. \A c \in Claim : Waits(c) \/ (\E q \in Workers : Owns(q, c))
                          => c \notin {SweptClaim(t) : t \in S}
  <2>1. ASSUME NEW c \in Claim, Holds(c), NEW t \in S PROVE c # SweptClaim(t)
    BY <1>7, <1>8, <2>1
  <2> QED
    BY <2>1 DEF LeaseInv, OwnersHold, WaitersHold
<1>11. OneOwner' /\ FreeIfWaits'
  BY <1>4, <1>5, <1>10 DEF LeaseInv, OneOwner, FreeIfWaits
<1>12. TakenFromBatch'
  BY <1>2, <1>3 DEF LeaseInv, TakenFromBatch, PastSlot
<1> QED
  BY <1>9, <1>11, <1>12 DEF LeaseInv

(* People and the account page touch only rows outside their flight.        *)
LEMMA PeopleKeepRows ==
  ASSUME TypeInv, (\E u \in Targets : Person(u)) \/ DisconnectAccount \/ ReconnectAccount
  PROVE  \A t \in Targets : InFlight(t) => RowKept(t)
<1>0. /\ state \in [Targets -> States] /\ version \in [Targets -> Nat]
      /\ lease \in [Targets -> {"none", "live", "expired"}]
  BY DEF TypeInv, TypeOK
<1>1. ASSUME NEW u \in Targets, Person(u)
      PROVE  \A t \in Targets : InFlight(t) => RowKept(t)
  <2>1. CASE RetryTarget(u)
    BY <1>0, <2>1 DEF RetryTarget, Reopen, InFlight, RowKept
  <2>2. CASE RequeueDeadLetter(u)
    BY <1>0, <2>2 DEF RequeueDeadLetter, Reopen, InFlight, RowKept, row
  <2>3. CASE CancelTarget(u)
    BY <1>0, <2>3 DEF CancelTarget, InFlight, RowKept
  <2>4. CASE RescheduleTarget(u)
    BY <1>0, <2>4 DEF RescheduleTarget, InFlight, RowKept
  <2> QED
    BY <1>1, <2>1, <2>2, <2>3, <2>4 DEF Person
<1>2. CASE DisconnectAccount
  BY <1>0, <1>2 DEF DisconnectAccount, InFlight, RowKept
<1>3. CASE ReconnectAccount
  BY <1>3 DEF ReconnectAccount, RowKept, row
<1> QED
  BY <1>1, <1>2, <1>3

LEMMA LeaseStep ==
  ASSUME LeasesHold, TypeInv, LeaseInv, [Next]_vars
  PROVE  LeaseInv'
<1>1. ASSUME UNCHANGED row, NoNewClaims PROVE LeaseInv'
  <2>1. \A t \in Targets : RowKept(t)
    BY <1>1 DEF row, RowKept
  <2> QED
    BY <1>1, <2>1, OutsideFlightKeepsLeaseInv
<1>2. ASSUME NEW p \in Workers, AddJob(p) \/ Deliver(p) PROVE LeaseInv'
  BY <1>1, <1>2, AddJobClaims, DeliverClaims DEF AddJob, Deliver
<1>3. ASSUME NEW p \in Workers, ClaimAttemptSlot(p) PROVE LeaseInv'
  <2>1. CASE slots[claim[p].t][claim[p].a] = "none"
    BY <1>3, <2>1, SlotKeepsLeaseInv DEF ClaimAttemptSlot
  <2>2. CASE slots[claim[p].t][claim[p].a] # "none"
    BY <1>1, <1>3, <2>2, FinishClaims DEF ClaimAttemptSlot
  <2> QED
    BY <2>1, <2>2
<1>4. ASSUME NEW p \in Workers,
             \/ GateRefuses(p) \/ GatesPass(p) \/ PublishOk(p) \/ PublishAmbiguous(p)
             \/ PublishError(p) \/ LookupAfterAmbiguous(p) \/ LookupBeforeFailing(p)
      PROVE  LeaseInv'
  <2>1. pc[p] \in PastSlot /\ UNCHANGED <<claim, todo, jobs, slots>> /\ UNCHANGED row
    BY <1>4 DEF GateRefuses, GatesPass, PublishOk, PublishAmbiguous, PublishError,
                LookupAfterAmbiguous, LookupBeforeFailing, PastSlot
  <2>2. \E l \in PastSlot : Goto(p, l)
    BY <1>4 DEF GateRefuses, GatesPass, PublishOk, PublishAmbiguous, PublishError,
                LookupAfterAmbiguous, LookupBeforeFailing, Adopts, Reconcile, Decide, PastSlot
  <2> QED
    BY <1>1, <2>1, <2>2, GoOnClaims
<1>5. ASSUME NEW p \in Workers, MarkPublished(p) \/ MarkFailed(p) PROVE LeaseInv'
  <2>1. claim[p] \in Claim
    BY <1>5, OwnClaim DEF MarkPublished, MarkFailed, Writing, PastSlot
  <2>2. \A t \in Targets, a \in Attempts : slots[t][a] # "none" => slots'[t][a] # "none"
    BY <1>5, <2>1, RecordIsQuiet DEF MarkPublished, MarkFailed
  <2> QED
    BY <1>5, <2>2, SettleKeepsLeaseInv DEF MarkPublished, MarkFailed, Writing
<1>6. ASSUME NEW p \in Workers, RequeueScheduled(p) \/ MarkNeedsReview(p) PROVE LeaseInv'
  BY <1>6, SettleKeepsLeaseInv DEF RequeueScheduled, MarkNeedsReview, Writing
<1>7. ASSUME NEW p \in Workers, WriteLost(p) PROVE LeaseInv'
  BY <1>1, <1>7, FinishClaims DEF WriteLost, PastSlot
<1>8. ASSUME NEW p \in Workers, ReconcileSwept(p) \/ Crash(p) PROVE LeaseInv'
  BY <1>1, <1>8, SweptOneClaims, CrashClaims DEF ReconcileSwept, Crash
<1>9. ASSUME (\E t \in Targets : Person(t)) \/ DisconnectAccount \/ ReconnectAccount
      PROVE  LeaseInv'
  <2>1. UNCHANGED <<local, jobs, slots>>
    BY <1>9 DEF Person, RetryTarget, RequeueDeadLetter, CancelTarget, RescheduleTarget,
                DisconnectAccount, ReconnectAccount
  <2> QED
    BY <1>9, <2>1, SameClaims, PeopleKeepRows, OutsideFlightKeepsLeaseInv
<1>10. CASE (\E i \in DOMAIN posts : PostAges(i)) \/ UNCHANGED vars
  <2>1. UNCHANGED row /\ UNCHANGED <<local, jobs, slots>>
    BY <1>10 DEF PostAges, vars
  <2> QED
    BY <1>1, <2>1, SameClaims
<1> QED
  BY <1>2, <1>3, <1>4, <1>5, <1>6, <1>7, <1>8, <1>9, <1>10,
     ScanKeepsLeaseInv, SweepKeepsLeaseInv, ExpiryKeepsLeaseInv
  DEF Next, Worker, PublishJob, Outcome

-----------------------------------------------------------------------------
(* Counting posts.  A provider without keys has to be dependable: an answer *)
(* that the pipeline retries means that nothing was posted, and what was    *)
(* posted is found by the lookup, where there is one.                       *)

RetriesAreSafe == \A code \in LateCodes : RetryLimit[code] <= 1
LookupsFind    == Lookup => Faults \cap {"clock_skew", "long_outage"} = {}
Dependable     == IdemKey \/ (RetriesAreSafe /\ LookupsFind)

(* The target may be posted once more; a key makes that harmless.           *)
Spare(t) == IdemKey \/ Cardinality(OwnPosts(t)) <= granted[t]

RowOk(t) ==
  /\ claimedAt[t] <= Len(posts)
  /\ ~IdemKey => Cardinality(OwnPosts(t)) <= 1 + granted[t]
  /\ state[t] = "scheduled" => Spare(t)
  /\ InFlight(t) => Spare(t) \/ \E i \in OwnPosts(t) : i > claimedAt[t]
  /\ Lookup /\ state[t] = "failed" => Spare(t)

WorkerOk(p) ==
  /\ Calling(p) => Spare(claim[p].t)
  /\ pc[p] \in {"lookup", "confirm"} => Lookup
  /\ pc[p] = "confirm" => verdict[p].op = "fail"
  /\ pc[p] = "write" /\ verdict[p].op = "requeue" => Spare(claim[p].t)
  /\ pc[p] = "write" /\ Lookup /\ verdict[p].op = "fail" => Spare(claim[p].t)
  /\ pc[p] = "write" /\ ~SameText /\ verdict[p].op = "publish" => OwnPosts(claim[p].t) # {}

RowsOk       == \A t \in Targets : RowOk(t)
WorkersOk    == \A p \in Workers : WorkerOk(p)
WaitersSpare == \A c \in Claim : Waits(c) => Spare(c.t)
AllSeen      == ~IdemKey /\ Lookup => \A i \in DOMAIN posts : posts[i].seen

PostInv == RowsOk /\ WorkersOk /\ WaitersSpare /\ AllSeen

LEMMA OwnPostsCount ==
  ASSUME TypeInv, NEW t \in Targets
  PROVE  /\ OwnPosts(t) \subseteq 1 .. Len(posts) /\ Len(posts) \in Nat
         /\ DOMAIN posts = 1 .. Len(posts)
         /\ IsFiniteSet(OwnPosts(t)) /\ Cardinality(OwnPosts(t)) \in Nat
         /\ granted[t] \in Nat
<1>1. posts \in Seq(Post) /\ granted[t] \in Nat
  BY DEF TypeInv, TypeOK, Post
<1>2. Len(posts) \in Nat /\ DOMAIN posts = 1 .. Len(posts)
  BY <1>1, LenProperties
<1>3. OwnPosts(t) \subseteq 1 .. Len(posts)
  BY <1>2 DEF OwnPosts
<1>4. IsFiniteSet(OwnPosts(t))
  <2>1. IsFiniteSet(1 .. Len(posts))
    BY <1>2, FS_Interval
  <2> QED
    BY <1>3, <2>1, FS_Subset
<1> QED
  BY <1>1, <1>2, <1>3, <1>4, FS_CardinalityType

LEMMA InitPostInv == Init => PostInv
<1> SUFFICES ASSUME Init PROVE PostInv
  OBVIOUS
<1>1. TypeInv
  BY InitTypeInv
<1>2. ASSUME NEW t \in Targets PROVE Cardinality(OwnPosts(t)) = 0
  <2>1. OwnPosts(t) = {}
    BY DEF Init, OwnPosts
  <2> QED
    BY <2>1, FS_EmptySet
<1>3. RowsOk
  BY <1>1, <1>2, OwnPostsCount DEF Init, RowsOk, RowOk, Spare, InFlight
<1>4. WorkersOk /\ WaitersSpare /\ AllSeen
  BY DEF Init, WorkersOk, WorkerOk, Calling, WaitersSpare, Waits, HandsOver, AllSeen
<1> QED
  BY <1>3, <1>4 DEF PostInv

(* A call that the provider takes as new adds one post, after all others.   *)
LEMMA NewPost ==
  ASSUME TypeInv, NEW c \in Claim, NEW i, ProviderAccepts(c, i), KnownPosts(c) = {}
  PROVE  /\ \A t \in Targets \ {c.t} : OwnPosts(t)' = OwnPosts(t)
         /\ OwnPosts(c.t)' = OwnPosts(c.t) \cup {Len(posts) + 1}
         /\ Cardinality(OwnPosts(c.t)') = Cardinality(OwnPosts(c.t)) + 1
         /\ Len(posts') = Len(posts) + 1
         /\ "clock_skew" \notin Faults /\ (\A k \in DOMAIN posts : posts[k].seen)
              => \A k \in DOMAIN posts' : posts'[k].seen
<1>1. PICK s \in BOOLEAN : /\ "clock_skew" \notin Faults => s
                           /\ posts' = Append(posts, [by |-> c.t, key |-> IdempotencyKey(c), seen |-> s])
  BY DEF ProviderAccepts
<1> DEFINE new == [by |-> c.t, key |-> IdempotencyKey(c), seen |-> s]
           n   == Len(posts) + 1
<1>2. new \in Post /\ new.by = c.t /\ new.seen = s
  BY DEF IdempotencyKey, Claim, Post
<1>3. posts \in Seq(Post) /\ posts' = Append(posts, new)
  BY <1>1 DEF TypeInv, TypeOK, Post
<1> HIDE DEF new
<1>4. /\ DOMAIN posts = 1 .. Len(posts) /\ Len(posts) \in Nat
      /\ DOMAIN posts' = 1 .. n /\ Len(posts') = n
      /\ \A k \in 1 .. Len(posts) : posts'[k] = posts[k]
      /\ posts'[n] = new
  BY <1>2, <1>3, AppendProperties, LenProperties
<1>5. \A t \in Targets \ {c.t} : OwnPosts(t)' = OwnPosts(t)
  BY <1>2, <1>4 DEF OwnPosts
<1>6. OwnPosts(c.t)' = OwnPosts(c.t) \cup {n}
  BY <1>2, <1>4 DEF OwnPosts
<1>7. n \notin OwnPosts(c.t) /\ IsFiniteSet(OwnPosts(c.t))
  BY <1>4, OwnPostsCount DEF Claim
<1>8. Cardinality(OwnPosts(c.t)') = Cardinality(OwnPosts(c.t)) + 1
  BY <1>6, <1>7, FS_AddElement
<1>9. "clock_skew" \notin Faults /\ (\A k \in DOMAIN posts : posts[k].seen)
        => \A k \in DOMAIN posts' : posts'[k].seen
  BY <1>1, <1>2, <1>4
<1> QED
  BY <1>4, <1>5, <1>6, <1>8, <1>9

(* Posts that leave the window stay posts.                                  *)
LEMMA AgedPost ==
  ASSUME TypeInv, NEW i \in DOMAIN posts, PostAges(i)
  PROVE  Len(posts') = Len(posts) /\ \A t \in Targets : OwnPosts(t)' = OwnPosts(t)
<1>0. posts \in [1 .. Len(posts) -> Post] /\ Len(posts) \in Nat /\ DOMAIN posts = 1 .. Len(posts)
  BY LenProperties DEF TypeInv, TypeOK, Post
<1>1. posts' = [posts EXCEPT ![i].seen = FALSE]
  BY DEF PostAges
<1>2. DOMAIN posts' = DOMAIN posts
  BY <1>1
<1>3. ASSUME NEW j \in DOMAIN posts PROVE posts'[j].by = posts[j].by
  <2>1. posts[j] \in Post
    BY <1>0
  <2>2. posts'[j] = IF j = i THEN [posts[j] EXCEPT !.seen = FALSE] ELSE posts[j]
    BY <1>0, <1>1
  <2> QED
    BY <2>1, <2>2 DEF Post
<1>4. posts' \in Seq(Post)
  <2>1. Next
    BY DEF Next
  <2>2. TypeInv'
    BY <2>1, TypeStep
  <2> QED
    BY <2>2 DEF TypeInv, TypeOK, Post
<1>5. Len(posts') = Len(posts)
  BY <1>0, <1>2, <1>4, LenProperties
<1> QED
  BY <1>2, <1>3, <1>5 DEF OwnPosts

(* The claim a worker holds past the slot is that of the row in flight, and *)
(* nobody else's.                                                           *)
LEMMA PastSlotHolds ==
  ASSUME TypeInv, LeaseInv, NEW p \in Workers, pc[p] \in PastSlot
  PROVE  /\ claim[p] \in Claim /\ claim[p].t \in Targets /\ Holds(claim[p])
         /\ Owns(p, claim[p]) /\ InFlight(claim[p].t)
<1>1. claim[p] \in Claim /\ Owns(p, claim[p])
  BY OwnClaim DEF Owns
<1> QED
  BY <1>1 DEF LeaseInv, OwnersHold, Holds, StillOurs, Claim

LEMMA OtherRows ==
  ASSUME TypeInv, LeaseInv, NEW p \in Workers, pc[p] \in PastSlot
  PROVE  /\ \A q \in Workers \ {p} : pc[q] \in PastSlot => claim[q].t # claim[p].t
         /\ \A c \in Claim : Waits(c) => c.t # claim[p].t
<1>0. claim[p] \in Claim /\ Holds(claim[p]) /\ Owns(p, claim[p])
  BY PastSlotHolds
<1>1. ASSUME NEW q \in Workers, q # p, pc[q] \in PastSlot, claim[q].t = claim[p].t PROVE FALSE
  <2>1. claim[q] \in Claim /\ Holds(claim[q]) /\ Owns(q, claim[q])
    BY <1>1, PastSlotHolds
  <2>2. claim[q] = claim[p]
    BY <1>0, <1>1, <2>1, HeldOnce
  <2> QED
    BY <1>0, <1>1, <2>1, <2>2 DEF LeaseInv, OneOwner
<1>2. ASSUME NEW c \in Claim, Waits(c), c.t = claim[p].t PROVE FALSE
  <2>1. Holds(c)
    BY <1>2 DEF LeaseInv, WaitersHold
  <2>2. c = claim[p]
    BY <1>0, <1>2, <2>1, HeldOnce
  <2> QED
    BY <1>0, <1>2, <2>2 DEF LeaseInv, FreeIfWaits
<1> QED
  BY <1>1, <1>2

(* A lookup that finds no candidate shows that nothing was posted since the *)
(* claim.                                                                   *)
LEMMA NothingFound ==
  ASSUME TypeInv, LeaseInv, PostInv, Lookup, NEW p \in Workers, pc[p] \in PastSlot,
         Candidates(claim[p]) = {}
  PROVE  Spare(claim[p].t)
<1> DEFINE c == claim[p]
<1>1. c.t \in Targets /\ InFlight(c.t) /\ c.at = claimedAt[c.t]
  BY PastSlotHolds DEF Holds
<1>2. Spare(c.t) \/ \E i \in OwnPosts(c.t) : i > c.at
  BY <1>1 DEF PostInv, RowsOk, RowOk
<1>3. ASSUME NEW i \in OwnPosts(c.t), i > c.at, ~IdemKey PROVE FALSE
  <2>1. posts[i].seen /\ i \in DOMAIN posts /\ posts[i].by = c.t
    BY <1>3 DEF PostInv, AllSeen, OwnPosts
  <2>2. i \in Candidates(c)
    BY <1>3, <2>1 DEF Candidates, Recent
  <2> QED
    BY <2>2
<1> QED
  BY <1>2, <1>3 DEF Spare

(* Steps that post nothing and grant nothing.                               *)
RowSafe(t) ==
  /\ claimedAt'[t] <= Len(posts)
  /\ state'[t] = "scheduled" => state[t] = "scheduled" \/ Spare(t)
  /\ InFlight(t)' => Spare(t) \/ (InFlight(t) /\ claimedAt'[t] = claimedAt[t])
  /\ Lookup /\ state'[t] = "failed" => state[t] = "failed" \/ Spare(t)

LEMMA SafeRows ==
  ASSUME PostInv, UNCHANGED <<posts, granted>>, \A t \in Targets : RowSafe(t)
  PROVE  RowsOk'
BY DEF PostInv, RowsOk, RowOk, RowSafe, Spare, OwnPosts

LEMMA SameRows ==
  ASSUME PostInv, UNCHANGED <<state, claimedAt>>
  PROVE  \A t \in Targets : RowSafe(t)
BY DEF PostInv, RowsOk, RowOk, RowSafe, InFlight

Quiet(q) == \/ pc'[q] \notin PastSlot
            \/ UNCHANGED <<pc[q], claim[q], verdict[q]>>

LEMMA QuietWorker ==
  ASSUME UNCHANGED <<posts, granted>>, NEW q \in Workers, WorkerOk(q), Quiet(q)
  PROVE  WorkerOk(q)'
BY DEF Quiet, WorkerOk, Calling, PastSlot, Spare, OwnPosts

LEMMA QuietKeepsPostInv ==
  ASSUME PostInv, UNCHANGED <<posts, granted>>, \A t \in Targets : RowSafe(t),
         \A c \in Claim : Waits(c)' => Waits(c) \/ Spare(c.t),
         \A q \in Workers : Quiet(q) \/ WorkerOk(q)'
  PROVE  PostInv'
<1>1. RowsOk'
  BY SafeRows
<1>2. WorkersOk'
  BY QuietWorker DEF PostInv, WorkersOk
<1>3. WaitersSpare'
  BY DEF PostInv, WaitersSpare, Spare, OwnPosts
<1>4. AllSeen'
  BY DEF PostInv, AllSeen
<1> QED
  BY <1>1, <1>2, <1>3, <1>4 DEF PostInv

(* A worker that stands idle or sweeping afterwards, the others as before.  *)
LEMMA FinishIsQuietForPosts ==
  ASSUME TypeInv, NEW p \in Workers, Finish(p)
  PROVE  \A q \in Workers : Quiet(q)
BY DEF TypeInv, TypeOK, Finish, Goto, Quiet, PastSlot

LEMMA WritersKeepPostInv ==
  ASSUME TypeInv, LeaseInv, PostInv, NEW p \in Workers, pc[p] = "write", Finish(p),
         NEW s \in {"published", "scheduled", "failed", "needs_review"}, SetRow(claim[p], s),
         s = "scheduled" => verdict[p].op = "requeue",
         s = "failed" => verdict[p].op = "fail",
         \A t \in Targets, a \in Attempts : slots[t][a] # "none" => slots'[t][a] # "none",
         UNCHANGED <<posts, granted>>
  PROVE  PostInv'
<1>1. claim[p].t \in Targets /\ claim[p] \in Claim
  BY PastSlotHolds DEF PastSlot
<1>2. /\ state' = [state EXCEPT ![claim[p].t] = s] /\ claimedAt' = claimedAt
      /\ state \in [Targets -> States]
  BY DEF SetRow, TypeInv, TypeOK
<1>3. s \in {"scheduled", "failed"} /\ (s = "failed" => Lookup) => Spare(claim[p].t)
  BY DEF PostInv, WorkersOk, WorkerOk
<1>4. \A t \in Targets : RowSafe(t)
  BY <1>1, <1>2, <1>3 DEF PostInv, RowsOk, RowOk, RowSafe, InFlight
<1>5. NoNewClaims
  BY FinishClaims DEF PastSlot
<1> QED
  BY <1>4, <1>5, FinishIsQuietForPosts, QuietKeepsPostInv DEF NoNewClaims

LEMMA ScanKeepsPostInv ==
  ASSUME TypeInv, LeaseInv, PostInv, NEW p \in Workers, ClaimDueTargets(p)
  PROVE  PostInv'
<1>1. PICK S \in (SUBSET Due) \ {{}} :
        /\ state'     = [t \in Targets |-> IF t \in S THEN "publishing" ELSE state[t]]
        /\ claimedAt' = [t \in Targets |-> IF t \in S THEN Len(posts) ELSE claimedAt[t]]
        /\ todo'      = [todo EXCEPT ![p] = {NewClaim(t) : t \in S}]
  BY DEF ClaimDueTargets
<1>2. /\ pc[p] = "idle" /\ Goto(p, "fanout")
      /\ UNCHANGED <<claim, slots, jobs, posts, granted, verdict>>
  BY DEF ClaimDueTargets, history
<1>3. \A q \in Workers : /\ pc'[q] = IF q = p THEN "fanout" ELSE pc[q]
                         /\ todo'[q] = IF q = p THEN {NewClaim(t) : t \in S} ELSE todo[q]
  BY <1>1, <1>2 DEF TypeInv, TypeOK, Goto
<1>4. S \subseteq Targets /\ \A t \in S : state[t] = "scheduled" /\ Spare(t)
  BY DEF Due, PostInv, RowsOk, RowOk
<1>5. Len(posts) \in Nat
  BY PostIndexType
<1>6. \A t \in Targets : RowSafe(t)
  BY <1>1, <1>4, <1>5 DEF PostInv, RowsOk, RowOk, RowSafe, InFlight
<1>7. \A c \in Claim : Waits(c)' => Waits(c) \/ c \in {NewClaim(t) : t \in S}
  BY <1>2, <1>3 DEF Waits, HandsOver
<1>8. \A c \in {NewClaim(t) : t \in S} : Spare(c.t)
  BY <1>4 DEF NewClaim
<1>9. \A q \in Workers : Quiet(q)
  BY <1>2, <1>3 DEF Quiet, PastSlot
<1> QED
  BY <1>2, <1>6, <1>7, <1>8, <1>9, QuietKeepsPostInv

LEMMA SweepKeepsPostInv ==
  ASSUME TypeInv, LeaseInv, PostInv, NEW p \in Workers, LeaseSweeperTick(p)
  PROVE  PostInv'
<1>1. PICK S \in (SUBSET Expired) \ {{}} :
        state' = [t \in Targets |-> IF t \in S THEN "reconciling" ELSE state[t]]
  BY DEF LeaseSweeperTick
<1>2. /\ pc[p] = "idle" /\ Goto(p, "sweep") /\ \E X : todo' = [todo EXCEPT ![p] = X]
      /\ UNCHANGED <<claimedAt, claim, slots, jobs, posts, granted, verdict>>
  BY DEF LeaseSweeperTick, history
<1>3. \A q \in Workers : /\ pc'[q] = IF q = p THEN "sweep" ELSE pc[q]
                         /\ q # p => todo'[q] = todo[q]
  BY <1>2 DEF TypeInv, TypeOK, Goto
<1>4. S \subseteq Targets /\ \A t \in S : InFlight(t)
  BY DEF Expired
<1>5. \A t \in Targets : RowSafe(t)
  BY <1>1, <1>2, <1>4 DEF PostInv, RowsOk, RowOk, RowSafe, InFlight
<1>6. \A c \in Claim : Waits(c)' => Waits(c)
  BY <1>2, <1>3 DEF Waits, HandsOver
<1>7. \A q \in Workers : Quiet(q)
  BY <1>2, <1>3 DEF Quiet, PastSlot
<1> QED
  BY <1>2, <1>5, <1>6, <1>7, QuietKeepsPostInv

(* A human retry grants one more post.                                      *)
LEMMA GrantKeepsPostInv ==
  ASSUME TypeInv, PostInv, NEW t \in Targets, Reopen(t), UNCHANGED <<local, jobs, slots, posts>>
  PROVE  PostInv'
<1>1. /\ \A u \in Targets : state'[u] = IF u = t THEN "scheduled" ELSE state[u]
      /\ \A u \in Targets : granted'[u] = IF u = t THEN granted[t] + 1 ELSE granted[u]
      /\ claimedAt' = claimedAt
  BY DEF Reopen, TypeInv, TypeOK
<1>2. \A u \in Targets : granted[u] \in Nat /\ Cardinality(OwnPosts(u)) \in Nat
  BY OwnPostsCount
<1>3. \A u \in Targets : OwnPosts(u)' = OwnPosts(u)
  BY DEF OwnPosts
<1>4. \A u \in Targets : Spare(u) => Spare(u)'
  BY <1>1, <1>2, <1>3 DEF Spare
<1>5. Spare(t)'
  BY <1>1, <1>2, <1>3 DEF Spare, PostInv, RowsOk, RowOk
<1>6. RowsOk'
  BY <1>1, <1>2, <1>3, <1>4, <1>5 DEF PostInv, RowsOk, RowOk, InFlight
<1>7. \A q \in Workers : pc[q] \in PastSlot => claim[q].t \in Targets
  BY OwnClaim DEF Claim
<1>8. WorkersOk'
  BY <1>3, <1>4, <1>7 DEF PostInv, WorkersOk, WorkerOk, Calling, PastSlot, local
<1>9. WaitersSpare'
  BY <1>4 DEF PostInv, WaitersSpare, Waits, HandsOver, Claim, local
<1>10. AllSeen'
  BY DEF PostInv, AllSeen
<1> QED
  BY <1>6, <1>8, <1>9, <1>10 DEF PostInv

(* Whatever a provider answers, a call leaves one post more at most, and    *)
(* only of the row the calling worker acts for.                             *)
LEMMA PostingKeeps ==
  ASSUME Dependable, TypeInv, LeaseInv, KeyedPosts, PostInv, NEW p \in Workers, pc[p] = "call",
         NEW i, ProviderAccepts(claim[p], i),
         NEW l \in PastSlot, Goto(p, l), \A q \in Workers \ {p} : verdict'[q] = verdict[q],
         UNCHANGED <<row, slots, jobs, claim, todo, granted>>
  PROVE  /\ RowsOk' /\ WaitersSpare' /\ AllSeen'
         /\ \A q \in Workers \ {p} : WorkerOk(q)'
         /\ OwnPosts(claim[p].t)' # {}
<1> DEFINE c == claim[p]
<1>0. /\ c \in Claim /\ c.t \in Targets /\ InFlight(c.t) /\ Spare(c.t)
      /\ \A q \in Workers \ {p} : pc[q] \in PastSlot => claim[q].t # c.t
      /\ \A d \in Claim : Waits(d) => d.t # c.t
  BY PastSlotHolds, OtherRows DEF PastSlot, Calling, PostInv, WorkersOk, WorkerOk
<1>1. /\ \A q \in Workers \ {p} : pc'[q] = pc[q]
      /\ pc'[p] \notin {"slot", "fanout"}
  BY DEF TypeInv, TypeOK, Goto, PastSlot
<1>2. \A d \in Claim : Waits(d)' => Waits(d)
  BY <1>1 DEF Waits, HandsOver
<1>3. CASE UNCHANGED posts /\ i \in KnownPosts(c)
  <2>1. RowsOk' /\ AllSeen'
    BY <1>3, SafeRows, SameRows DEF row, PostInv, AllSeen
  <2>2. \A q \in Workers \ {p} : WorkerOk(q)'
    BY <1>1, <1>3, QuietWorker DEF Quiet, PostInv, WorkersOk
  <2>3. WaitersSpare'
    BY <1>2, <1>3 DEF PostInv, WaitersSpare, Spare, OwnPosts
  <2>4. i \in OwnPosts(c.t)
    <3>1. i \in DOMAIN posts /\ posts[i].key = <<"mrdn", c.t>> /\ posts[i].key = <<"mrdn", posts[i].by>>
      BY <1>3 DEF KnownPosts, KeyedPosts, IdempotencyKey
    <3> QED
      BY <3>1 DEF OwnPosts
  <2> QED
    BY <1>3, <2>1, <2>2, <2>3, <2>4 DEF OwnPosts
<1>4. CASE KnownPosts(c) = {}
  <2>1. /\ \A t \in Targets \ {c.t} : OwnPosts(t)' = OwnPosts(t)
        /\ OwnPosts(c.t)' = OwnPosts(c.t) \cup {Len(posts) + 1}
        /\ Cardinality(OwnPosts(c.t)') = Cardinality(OwnPosts(c.t)) + 1
        /\ Len(posts') = Len(posts) + 1
        /\ "clock_skew" \notin Faults /\ (\A k \in DOMAIN posts : posts[k].seen)
             => \A k \in DOMAIN posts' : posts'[k].seen
    BY <1>0, <1>4, NewPost
  <2>2. \A t \in Targets \ {c.t} : Spare(t)' <=> Spare(t)
    BY <2>1 DEF Spare
  <2>3. \A t \in Targets : Cardinality(OwnPosts(t)) \in Nat /\ granted[t] \in Nat
    BY OwnPostsCount
  <2>4. Len(posts) \in Nat /\ \A t \in Targets : claimedAt[t] \in Nat
    BY PostIndexType DEF TypeInv, TypeOK
  <2>5. RowOk(c.t)'
    <3>1. claimedAt'[c.t] <= Len(posts) /\ InFlight(c.t)' /\ state'[c.t] \notin {"scheduled", "failed"}
      BY <1>0 DEF row, PostInv, RowsOk, RowOk, InFlight
    <3>2. ~IdemKey => Cardinality(OwnPosts(c.t)') <= 1 + granted'[c.t]
      BY <1>0, <2>1, <2>3 DEF Spare
    <3>3. Len(posts) + 1 \in OwnPosts(c.t)' /\ Len(posts) + 1 > claimedAt'[c.t]
      BY <1>0, <2>1, <2>4, <3>1 DEF row
    <3> QED
      BY <1>0, <2>1, <2>4, <3>1, <3>2, <3>3 DEF RowOk, row
  <2>6. ASSUME NEW t \in Targets \ {c.t} PROVE RowOk(t)'
    <3>1. RowOk(t) /\ claimedAt[t] <= Len(posts')
      BY <2>1, <2>4 DEF PostInv, RowsOk, RowOk
    <3> QED
      BY <2>1, <2>2, <3>1 DEF RowOk, InFlight, row
  <2>7. RowsOk'
    BY <2>5, <2>6 DEF RowsOk
  <2>8. WaitersSpare'
    BY <1>0, <1>2, <2>2 DEF PostInv, WaitersSpare, Claim
  <2>9. ASSUME NEW q \in Workers \ {p} PROVE WorkerOk(q)'
    <3>1. CASE pc[q] \in PastSlot
      <4>1. claim[q].t \in Targets \ {c.t}
        BY <1>0, <3>1, PastSlotHolds
      <4> QED
        BY <1>1, <2>1, <2>2, <4>1 DEF WorkerOk, Calling, PostInv, WorkersOk
    <3>2. CASE pc[q] \notin PastSlot
      BY <1>1, <3>2 DEF WorkerOk, Calling, PastSlot
    <3> QED
      BY <3>1, <3>2
  <2>10. AllSeen'
    BY <2>1 DEF AllSeen, PostInv, Dependable, LookupsFind
  <2> QED
    BY <2>1, <2>7, <2>8, <2>9, <2>10
<1> QED
  BY <1>3, <1>4 DEF ProviderAccepts

(* Without a lookup, an ambiguous outcome is tried again only with a key.   *)
LEMMA AmbiguousVerdict ==
  ASSUME NEW c
  PROVE  \/ WithoutLookup(c) = Requeue /\ IdemKey
         \/ WithoutLookup(c) = Review
BY DEF WithoutLookup

LEMMA VerdictKinds ==
  /\ Requeue.op = "requeue" /\ Review.op = "review"
  /\ \A d : Fail(d).op = "fail"
  /\ \A i : Publish(i).op = "publish"
BY DEF Requeue, Review, Fail, Publish

(* The worker that called knows what it may do about the answer.            *)
LEMMA CallsKeepPostInv ==
  ASSUME Dependable, TypeInv, LeaseInv, KeyedPosts, PostInv, NEW p \in Workers,
         PublishOk(p) \/ PublishAmbiguous(p) \/ PublishError(p)
  PROVE  PostInv'
<1> DEFINE c == claim[p]
<1>0. /\ pc[p] = "call" /\ UNCHANGED <<slots, jobs, claim, todo, granted>> /\ UNCHANGED row
      /\ pc \in [Workers -> Labels] /\ verdict \in [Workers -> Verdict \cup {None}]
  BY DEF PublishOk, PublishAmbiguous, PublishError, TypeInv, TypeOK
<1>1. c \in Claim /\ Spare(c.t) /\ c.a >= 1
  BY <1>0, OwnClaim DEF PastSlot, Calling, PostInv, WorkersOk, WorkerOk, Claim, Attempts
<1>2. PICK l, w : /\ l \in {"write", "lookup", "confirm"} /\ Goto(p, l)
                  /\ verdict' = [verdict EXCEPT ![p] = w] \/ UNCHANGED verdict
  BY DEF PublishOk, PublishAmbiguous, PublishError, Reconcile, Decide
<1>3. \A q \in Workers \ {p} : verdict'[q] = verdict[q]
  BY <1>0, <1>2
<1>4. ASSUME WorkerOk(p)', UNCHANGED posts PROVE PostInv'
  <2>1. \A t \in Targets : RowSafe(t)
    BY <1>0, SameRows DEF row
  <2>2. \A d \in Claim : Waits(d)' => Waits(d)
    BY <1>0, <1>2 DEF Waits, HandsOver, Goto
  <2>3. \A q \in Workers : Quiet(q) \/ WorkerOk(q)'
    BY <1>0, <1>2, <1>3, <1>4 DEF Quiet, Goto
  <2> QED
    BY <1>0, <1>4, <2>1, <2>2, <2>3, QuietKeepsPostInv
<1>5. ASSUME WorkerOk(p)', NEW i, ProviderAccepts(c, i) PROVE PostInv'
  <2>1. l \in PastSlot
    BY <1>2 DEF PastSlot
  <2> QED
    BY <1>0, <1>2, <1>3, <1>5, <2>1, PostingKeeps DEF PostInv, WorkersOk
<1>6. WorkerOk(p)'
  <2>1. CASE PublishOk(p)
    <3>1. PICK i \in 1 .. (Len(posts) + 1) : ProviderAccepts(c, i) /\ Decide(p, Publish(i))
      BY <2>1 DEF PublishOk
    <3>2. pc'[p] = "write" /\ verdict'[p].op = "publish"
      BY <1>0, <3>1, VerdictKinds DEF Decide, Goto
    <3>3. OwnPosts(c.t)' # {}
      BY <1>0, <1>3, <3>1, PostingKeeps DEF Decide, PastSlot
    <3> QED
      BY <1>0, <3>2, <3>3 DEF WorkerOk, Calling
  <2>2. CASE PublishAmbiguous(p)
    <3>1. CASE Lookup
      <4>1. pc'[p] = "lookup"
        BY <1>0, <2>2, <3>1 DEF PublishAmbiguous, Reconcile, Goto
      <4> QED
        BY <3>1, <4>1 DEF WorkerOk, Calling
    <3>2. CASE ~Lookup
      <4>1. pc'[p] = "write" /\ verdict'[p] = WithoutLookup(c)
        BY <1>0, <2>2, <3>2 DEF PublishAmbiguous, Reconcile, Decide, Goto
      <4> QED
        BY <3>2, <4>1, AmbiguousVerdict, VerdictKinds DEF WorkerOk, Calling, Spare
    <3> QED
      BY <3>1, <3>2
  <2>3. CASE PublishError(p)
    <3>1. PICK code \in Codes :
            /\ \/ UNCHANGED posts
               \/ code \in LateCodes /\ \E i \in 1 .. (Len(posts) + 1) : ProviderAccepts(c, i)
            /\ \/ c.a < RetryLimit[code] /\ Decide(p, Requeue)
               \/ /\ c.a >= RetryLimit[code]
                  /\ IF Lookup
                       THEN /\ Goto(p, "confirm")
                            /\ verdict' = [verdict EXCEPT ![p] = Fail(RetryLimit[code] > 0)]
                       ELSE Decide(p, Fail(RetryLimit[code] > 0))
      BY <2>3 DEF PublishError
    <3>2. CASE c.a < RetryLimit[code] /\ Decide(p, Requeue)
      <4>1. pc'[p] = "write" /\ verdict'[p].op = "requeue"
        BY <1>0, <3>2, VerdictKinds DEF Decide, Goto
      <4>2. Spare(c.t)'
        <5>1. CASE IdemKey
          BY <5>1 DEF Spare
        <5>2. CASE UNCHANGED posts
          BY <1>0, <1>1, <5>2 DEF Spare, OwnPosts
        <5>3. CASE ~IdemKey /\ code \in LateCodes
          <6>1. RetryLimit[code] <= 1 /\ RetryLimit[code] \in Nat /\ c.a \in Nat
            BY <1>1, <5>3, PublishingAssumption DEF Dependable, RetriesAreSafe, Claim, Attempts
          <6> QED
            BY <1>1, <3>2, <6>1
        <5> QED
          BY <3>1, <5>1, <5>2, <5>3
      <4> QED
        BY <1>0, <4>1, <4>2 DEF WorkerOk, Calling
    <3>3. CASE Lookup /\ Goto(p, "confirm") /\ verdict' = [verdict EXCEPT ![p] = Fail(RetryLimit[code] > 0)]
      <4>1. pc'[p] = "confirm" /\ verdict'[p].op = "fail"
        BY <1>0, <3>3, VerdictKinds DEF Goto
      <4> QED
        BY <3>3, <4>1 DEF WorkerOk, Calling
    <3>4. CASE ~Lookup /\ Decide(p, Fail(RetryLimit[code] > 0))
      <4>1. pc'[p] = "write" /\ verdict'[p].op = "fail"
        BY <1>0, <3>4, VerdictKinds DEF Decide, Goto
      <4> QED
        BY <3>4, <4>1 DEF WorkerOk, Calling
    <3> QED
      BY <3>1, <3>2, <3>3, <3>4
  <2> QED
    BY <2>1, <2>2, <2>3
<1>7. UNCHANGED posts \/ \E i : ProviderAccepts(c, i)
  BY DEF PublishOk, PublishAmbiguous, PublishError
<1> QED
  BY <1>4, <1>5, <1>6, <1>7

LEMMA DecideKeepsPostInv ==
  ASSUME TypeInv, PostInv, NEW p \in Workers, pc[p] \in PastSlot, NEW w, Decide(p, w),
         UNCHANGED <<row, slots, jobs, claim, todo, posts, granted>>,
         w.op = "requeue" => Spare(claim[p].t),
         Lookup /\ w.op = "fail" => Spare(claim[p].t),
         ~SameText /\ w.op = "publish" => OwnPosts(claim[p].t) # {}
  PROVE  PostInv'
<1>1. /\ \A q \in Workers : pc'[q] = IF q = p THEN "write" ELSE pc[q]
      /\ \A q \in Workers : verdict'[q] = IF q = p THEN w ELSE verdict[q]
  BY DEF TypeInv, TypeOK, Decide, Goto
<1>2. WorkerOk(p)'
  BY <1>1 DEF WorkerOk, Calling, Spare, OwnPosts
<1>3. \A q \in Workers : Quiet(q) \/ WorkerOk(q)'
  BY <1>1, <1>2 DEF Quiet
<1>4. \A d \in Claim : Waits(d)' => Waits(d)
  BY <1>1 DEF Waits, HandsOver
<1>5. \A t \in Targets : RowSafe(t)
  BY SameRows DEF row
<1> QED
  BY <1>3, <1>4, <1>5, QuietKeepsPostInv

LEMMA LookupsKeepPostInv ==
  ASSUME TypeInv, LeaseInv, PostInv, NEW p \in Workers,
         LookupAfterAmbiguous(p) \/ LookupBeforeFailing(p)
  PROVE  PostInv'
<1> DEFINE c == claim[p]
<1>0. /\ pc[p] \in {"lookup", "confirm"} /\ pc[p] \in PastSlot /\ Lookup
      /\ pc[p] = "confirm" => verdict[p].op = "fail"
      /\ UNCHANGED <<row, slots, jobs, claim, todo, posts, granted>>
  BY DEF LookupAfterAmbiguous, LookupBeforeFailing, PostInv, WorkersOk, WorkerOk, PastSlot, history
<1>1. PICK w :
        /\ Decide(p, w)
        /\ \/ \E i \in Candidates(c) : w = Publish(i)
           \/ Candidates(c) = {} /\ (w \in {Review, Requeue} \/ (pc[p] = "confirm" /\ w = verdict[p]))
           \/ w = WithoutLookup(c)
           \/ w = Review
  <2>1. CASE LookupAfterAmbiguous(p)
    BY <2>1 DEF LookupAfterAmbiguous, Adopts
  <2>2. CASE LookupBeforeFailing(p)
    BY <2>2 DEF LookupBeforeFailing, Adopts
  <2> QED
    BY <2>1, <2>2
<1>2. CASE \E i \in Candidates(c) : w = Publish(i)
  <2>1. PICK i \in Candidates(c) : w = Publish(i)
    BY <1>2
  <2>2. ~SameText => i \in OwnPosts(c.t)
    BY DEF Candidates, Recent, OwnPosts
  <2> QED
    BY <1>0, <1>1, <2>1, <2>2, VerdictKinds, DecideKeepsPostInv
<1>3. CASE Candidates(c) = {} /\ (w \in {Review, Requeue} \/ (pc[p] = "confirm" /\ w = verdict[p]))
  <2>1. Spare(c.t)
    BY <1>0, <1>3, NothingFound
  <2>2. w.op # "publish"
    BY <1>0, <1>3, VerdictKinds
  <2> QED
    BY <1>0, <1>1, <2>1, <2>2, DecideKeepsPostInv
<1>4. CASE w = WithoutLookup(c) \/ w = Review
  <2>1. w.op # "publish" /\ w.op # "fail" /\ (w.op = "requeue" => IdemKey)
    BY <1>4, AmbiguousVerdict, VerdictKinds
  <2> QED
    BY <1>0, <1>1, <2>1, DecideKeepsPostInv DEF Spare
<1> QED
  BY <1>1, <1>2, <1>3, <1>4

LEMMA SweptKeepsPostInv ==
  ASSUME TypeInv, LeaseInv, PostInv, NEW p \in Workers, ReconcileSwept(p)
  PROVE  PostInv'
<1>1. PICK c \in todo[p] : claim' = [claim EXCEPT ![p] = c] /\ Reconcile(p, c)
  BY DEF ReconcileSwept
<1>2. UNCHANGED <<posts, granted>> /\ UNCHANGED row
  BY DEF ReconcileSwept, history
<1>3. pc \in [Workers -> Labels] /\ verdict \in [Workers -> Verdict \cup {None}]
  BY DEF TypeInv, TypeOK
<1>4. CASE Lookup
  <2>1. Goto(p, "lookup") /\ UNCHANGED verdict
    BY <1>1, <1>4 DEF Reconcile
  <2>2. pc'[p] = "lookup" /\ \A q \in Workers \ {p} : Quiet(q)
    BY <1>1, <1>3, <2>1 DEF Goto, Quiet, TypeInv, TypeOK
  <2>3. WorkerOk(p)'
    BY <1>4, <2>2 DEF WorkerOk, Calling
  <2> QED
    BY <1>2, <2>2, <2>3, SweptOneClaims, SameRows, QuietKeepsPostInv DEF NoNewClaims, row
<1>5. CASE ~Lookup
  <2>1. Decide(p, WithoutLookup(c))
    BY <1>1, <1>5 DEF Reconcile
  <2>2. /\ pc'[p] = "write" /\ verdict'[p] = WithoutLookup(c)
        /\ \A q \in Workers \ {p} : Quiet(q)
    BY <1>1, <1>3, <2>1 DEF Decide, Goto, Quiet, TypeInv, TypeOK
  <2>3. WorkerOk(p)'
    BY <1>5, <2>2, AmbiguousVerdict, VerdictKinds DEF WorkerOk, Calling, Spare
  <2> QED
    BY <1>2, <2>2, <2>3, SweptOneClaims, SameRows, QuietKeepsPostInv DEF NoNewClaims, row
<1> QED
  BY <1>4, <1>5

(* A slot is won for a row that may be posted, and the gates keep it so.    *)
LEMMA SlotsAndGatesKeepPostInv ==
  ASSUME TypeInv, LeaseInv, PostInv, NEW p \in Workers,
         ClaimAttemptSlot(p) \/ GateRefuses(p) \/ GatesPass(p)
  PROVE  PostInv'
<1>0. UNCHANGED <<posts, granted>> /\ UNCHANGED row
  BY DEF ClaimAttemptSlot, GateRefuses, GatesPass, history
<1>1. \A t \in Targets : RowSafe(t)
  BY <1>0, SameRows DEF row
<1>2. pc \in [Workers -> Labels]
  BY DEF TypeInv, TypeOK
<1>3. CASE ClaimAttemptSlot(p) /\ slots[claim[p].t][claim[p].a] # "none"
  <2>1. Finish(p) /\ UNCHANGED slots /\ pc[p] = "slot"
    BY <1>3 DEF ClaimAttemptSlot
  <2> QED
    BY <1>0, <1>1, <2>1, FinishClaims, FinishIsQuietForPosts, QuietKeepsPostInv DEF NoNewClaims
<1>4. CASE ClaimAttemptSlot(p) /\ slots[claim[p].t][claim[p].a] = "none"
  <2>1. /\ pc[p] = "slot" /\ Goto(p, "gates") /\ UNCHANGED <<jobs, claim, todo, verdict>>
        /\ slots' = [slots EXCEPT ![claim[p].t][claim[p].a] = "started"]
    BY <1>4 DEF ClaimAttemptSlot
  <2>2. claim[p] \in Claim /\ Waits(claim[p])
    BY <1>4, <2>1, OwnClaim DEF Waits, HandsOver
  <2>3. \A q \in Workers : pc'[q] = IF q = p THEN "gates" ELSE pc[q]
    BY <1>2, <2>1 DEF Goto
  <2>4. WorkerOk(p)'
    BY <1>0, <2>1, <2>2, <2>3 DEF WorkerOk, Calling, PostInv, WaitersSpare, Spare, OwnPosts
  <2>5. \A t \in Targets, a \in Attempts : slots'[t][a] = "none" => slots[t][a] = "none"
    BY <2>1, <2>2 DEF TypeInv, TypeOK, Claim
  <2>6. \A d \in Claim : Waits(d)' => Waits(d)
    BY <2>1, <2>3, <2>5 DEF Waits, HandsOver, Claim
  <2>7. \A q \in Workers : Quiet(q) \/ WorkerOk(q)'
    BY <2>1, <2>3, <2>4 DEF Quiet
  <2> QED
    BY <1>0, <1>1, <2>6, <2>7, QuietKeepsPostInv
<1>5. CASE GateRefuses(p)
  <2>1. /\ pc[p] = "gates" /\ Decide(p, Requeue)
        /\ UNCHANGED <<row, slots, jobs, claim, todo, posts, granted>>
    BY <1>5 DEF GateRefuses, history
  <2>2. Spare(claim[p].t)
    BY <2>1 DEF PostInv, WorkersOk, WorkerOk, Calling
  <2> QED
    BY <2>1, <2>2, VerdictKinds, DecideKeepsPostInv DEF PastSlot
<1>6. CASE GatesPass(p)
  <2>1. /\ pc[p] = "gates" /\ Goto(p, "call")
        /\ UNCHANGED <<slots, jobs, claim, todo, verdict>>
    BY <1>6 DEF GatesPass
  <2>2. \A q \in Workers : pc'[q] = IF q = p THEN "call" ELSE pc[q]
    BY <1>2, <2>1 DEF Goto
  <2>3. WorkerOk(p)'
    BY <1>0, <2>1, <2>2 DEF WorkerOk, Calling, PostInv, WorkersOk, Spare, OwnPosts
  <2>4. \A d \in Claim : Waits(d)' => Waits(d)
    BY <2>1, <2>2 DEF Waits, HandsOver
  <2>5. \A q \in Workers : Quiet(q) \/ WorkerOk(q)'
    BY <2>1, <2>2, <2>3 DEF Quiet
  <2> QED
    BY <1>0, <1>1, <2>4, <2>5, QuietKeepsPostInv
<1> QED
  BY <1>3, <1>4, <1>5, <1>6

LEMMA PostStep ==
  ASSUME Dependable, LeasesHold, TypeInv, LeaseInv, KeyedPosts, PostInv, [Next]_vars
  PROVE  PostInv'
<1>1. ASSUME NEW p \in Workers, AddJob(p) \/ Deliver(p) \/ Crash(p) PROVE PostInv'
  <2>1. UNCHANGED <<posts, granted>> /\ UNCHANGED row
    BY <1>1 DEF AddJob, Deliver, Crash, history
  <2>2. \A q \in Workers : Quiet(q)
    BY <1>1 DEF AddJob, Deliver, Crash, Goto, Quiet, PastSlot, TypeInv, TypeOK
  <2>3. NoNewClaims
    BY <1>1, AddJobClaims, DeliverClaims, CrashClaims
  <2> QED
    BY <2>1, <2>2, <2>3, SameRows, QuietKeepsPostInv DEF NoNewClaims, row
<1>2. ASSUME NEW p \in Workers, MarkPublished(p) \/ MarkFailed(p) PROVE PostInv'
  <2>1. claim[p] \in Claim
    BY <1>2, OwnClaim DEF MarkPublished, MarkFailed, Writing, PastSlot
  <2>2. \A t \in Targets, a \in Attempts : slots[t][a] # "none" => slots'[t][a] # "none"
    BY <1>2, <2>1, RecordIsQuiet DEF MarkPublished, MarkFailed
  <2> QED
    BY <1>2, <2>2, WritersKeepPostInv DEF MarkPublished, MarkFailed, Writing, history
<1>3. ASSUME NEW p \in Workers, RequeueScheduled(p) \/ MarkNeedsReview(p) PROVE PostInv'
  BY <1>3, WritersKeepPostInv DEF RequeueScheduled, MarkNeedsReview, Writing, history
<1>4. ASSUME NEW p \in Workers, WriteLost(p) PROVE PostInv'
  <2>1. UNCHANGED <<posts, granted>> /\ UNCHANGED row
    BY <1>4 DEF WriteLost, history
  <2>2. NoNewClaims
    BY <1>4, FinishClaims DEF WriteLost, PastSlot
  <2> QED
    BY <1>4, <2>1, <2>2, FinishIsQuietForPosts, SameRows, QuietKeepsPostInv
    DEF WriteLost, NoNewClaims, row
<1>5. ASSUME UNCHANGED <<local, jobs, slots, posts, granted>>,
             \A t \in Targets : RowSafe(t)
      PROVE  PostInv'
  <2>1. \A q \in Workers : Quiet(q)
    BY <1>5 DEF Quiet, local
  <2> QED
    BY <1>5, <2>1, SameClaims, QuietKeepsPostInv DEF NoNewClaims
<1>6. ASSUME NEW t \in Targets, Person(t) PROVE PostInv'
  <2>1. CASE Reopen(t)
    <3>1. UNCHANGED <<local, jobs, slots, posts>>
      BY <1>6 DEF Person, RetryTarget, RequeueDeadLetter, CancelTarget, RescheduleTarget
    <3> QED
      BY <2>1, <3>1, GrantKeepsPostInv
  <2>2. CASE ~Reopen(t)
    <3>1. UNCHANGED <<local, jobs, slots, posts, granted>>
      BY <1>6, <2>2 DEF Person, RetryTarget, RequeueDeadLetter, CancelTarget, RescheduleTarget, history
    <3>2. UNCHANGED claimedAt /\ (UNCHANGED state \/ state' = [state EXCEPT ![t] = "canceled"])
      BY <1>6, <2>2 DEF Person, RetryTarget, RequeueDeadLetter, CancelTarget, RescheduleTarget, row
    <3>3. \A u \in Targets : RowSafe(u)
      BY <3>2 DEF PostInv, RowsOk, RowOk, RowSafe, InFlight, TypeInv, TypeOK
    <3> QED
      BY <1>5, <3>1, <3>3
  <2> QED
    BY <2>1, <2>2
<1>7. ASSUME NEW t \in Targets, LeaseExpires(t) PROVE PostInv'
  BY <1>5, <1>7, SameRows DEF LeaseExpires, history
<1>8. CASE DisconnectAccount
  <2>1. \A t \in Targets : RowSafe(t)
    BY <1>8 DEF DisconnectAccount, PostInv, RowsOk, RowOk, RowSafe, InFlight, TypeInv, TypeOK
  <2> QED
    BY <1>5, <1>8, <2>1 DEF DisconnectAccount, history
<1>9. CASE ReconnectAccount \/ UNCHANGED vars
  BY <1>5, <1>9, SameRows DEF ReconnectAccount, vars, row, history
<1>10. ASSUME NEW i \in DOMAIN posts, PostAges(i) PROVE PostInv'
  <2>1. UNCHANGED <<local, jobs, slots, granted>> /\ UNCHANGED row
    BY <1>10 DEF PostAges, history
  <2>2. Len(posts') = Len(posts) /\ \A t \in Targets : OwnPosts(t)' = OwnPosts(t)
    BY <1>10, AgedPost
  <2>3. \A t \in Targets : Spare(t)' <=> Spare(t)
    BY <2>1, <2>2 DEF Spare
  <2>4. RowsOk'
    BY <2>1, <2>2, <2>3 DEF PostInv, RowsOk, RowOk, InFlight, row
  <2>5. \A q \in Workers : pc[q] \in PastSlot => claim[q].t \in Targets
    BY OwnClaim DEF Claim
  <2>6. WorkersOk'
    BY <2>1, <2>2, <2>3, <2>5 DEF PostInv, WorkersOk, WorkerOk, Calling, PastSlot, local
  <2>7. WaitersSpare'
    BY <2>1, <2>3 DEF PostInv, WaitersSpare, Waits, HandsOver, Claim, local
  <2>8. AllSeen'
    BY <1>10 DEF AllSeen, PostAges, Dependable, LookupsFind
  <2> QED
    BY <2>4, <2>6, <2>7, <2>8 DEF PostInv
<1> QED
  BY <1>1, <1>2, <1>3, <1>4, <1>6, <1>7, <1>8, <1>9, <1>10, ScanKeepsPostInv, SweepKeepsPostInv,
     CallsKeepPostInv, LookupsKeepPostInv, SweptKeepsPostInv, SlotsAndGatesKeepPostInv
  DEF Next, Worker, PublishJob, Outcome

-----------------------------------------------------------------------------
(* What follows.  OnceInv is the inductive invariant of the core.           *)

OnceInv == TypeInv /\ LeaseInv /\ KeyedPosts /\ PostInv

LEMMA InitOnceInv == Init => OnceInv
<1>1. Init => KeyedPosts
  BY DEF Init, KeyedPosts
<1> QED
  BY <1>1, InitTypeInv, InitLeaseInv, InitPostInv DEF OnceInv

LEMMA OnceStep ==
  ASSUME LeasesHold, Dependable, OnceInv, [Next]_vars
  PROVE  OnceInv'
BY TypeStep, LeaseStep, KeyedStep, PostStep DEF OnceInv

(* Where the provider takes no key, nobody is posted twice for one request  *)
(* while no lease runs out under a busy worker and the provider is          *)
(* dependable: crashes, sweeps, retries and human retries in any number     *)
(* included.                                                                *)
THEOREM LeasesPreventDoublePost ==
  ASSUME LeasesHold, Dependable, ~IdemKey
  PROVE  Spec => []NoDoublePost
<1>1. OnceInv => NoDoublePost
  BY DEF OnceInv, PostInv, RowsOk, RowOk, NoDoublePost, TypeInv, TypeOK
<1>2. OnceInv /\ [Next]_vars => OnceInv'
  BY OnceStep
<1> QED
  BY <1>1, <1>2, InitOnceInv, PTL DEF Spec

(* In the given part of the model-checked composition, the same invariant.  *)
LEMMA GivenStep ==
  ASSUME LeasesHold, Dependable
  PROVE  MCSpec => [](part # "keyed" => OnceInv)
<1>1. Init => OnceInv
  BY InitOnceInv
<1>2. (part # "keyed" => OnceInv) /\ [UNCHANGED part /\ IF part = "keyed" THEN Keyed!Next ELSE Next]_<<part, vars>>
        => (part # "keyed" => OnceInv)'
  <2> SUFFICES ASSUME part # "keyed" => OnceInv, part' # "keyed",
                      [UNCHANGED part /\ IF part = "keyed" THEN Keyed!Next ELSE Next]_<<part, vars>>
               PROVE  OnceInv'
    OBVIOUS
  <2>1. part # "keyed" /\ OnceInv /\ [Next]_vars
    OBVIOUS
  <2> QED
    BY <2>1, OnceStep
<1> QED
  BY <1>1, <1>2, PTL DEF MCSpec

(* Where posts can be looked up, a target nobody retried by hand is failed  *)
(* only if the provider has no post of it.                                  *)
THEOREM FailedMeansUnposted ==
  ASSUME LeasesHold, RetriesAreSafe, LookupsFind, ~IdemKey
  PROVE  MCSpec => []FailedWasNotPosted
<1>1. Dependable
  BY DEF Dependable
<1>2. (part # "keyed" => OnceInv) => FailedWasNotPosted
  <2> SUFFICES ASSUME OnceInv, Lookup, NEW t \in Targets, state[t] = "failed", granted[t] = 0
               PROVE  OwnPosts(t) = {}
    BY DEF FailedWasNotPosted
  <2>1. Cardinality(OwnPosts(t)) <= 0
    BY DEF OnceInv, PostInv, RowsOk, RowOk, Spare
  <2>2. IsFiniteSet(OwnPosts(t)) /\ Cardinality(OwnPosts(t)) \in Nat
    BY OwnPostsCount DEF OnceInv
  <2>3. Cardinality(OwnPosts(t)) = 0
    BY <2>1, <2>2
  <2> QED
    BY <2>2, <2>3, FS_EmptySet
<1> QED
  BY <1>1, <1>2, GivenStep, PTL

-----------------------------------------------------------------------------
(* The core implements the contract: each step is one of the contract's, or *)
(* none.                                                                    *)

Phases  == [t \in Targets |-> Phase(t)]
Copies  == [t \in Targets |-> Cardinality(OwnPosts(t))]
Allowed == [t \in Targets |-> 1 + granted[t]]

(* The contract over these functions, in the given part.                    *)
LEMMA ContractMapped ==
  ASSUME part = "given"
  PROVE  /\ Contract!vars = <<Phases, Copies, Allowed>>
         /\ \A t \in Targets :
              Phases[t] = IF state[t] = "scheduled" THEN "queued"
                          ELSE IF InFlight(t) THEN "inflight"
                          ELSE IF state[t] = "published" THEN "done" ELSE "stopped"
BY DEF Contract!vars, Phases, Copies, Allowed, Phase, InFlight

LEMMA StepMapped ==
  ASSUME part = "given", part' = "given",
         \/ UNCHANGED <<Phases, Copies, Allowed>>
         \/ /\ UNCHANGED <<Copies, Allowed>>
            /\ \E S \in SUBSET {t \in Targets : Phases[t] = "queued"}, x \in {"inflight", "stopped"} :
                 Phases' = [t \in Targets |-> IF t \in S THEN x ELSE Phases[t]]
         \/ \E t \in Targets :
              \/ /\ Phases[t] = "inflight" /\ Copies[t] < Allowed[t]
                 /\ Copies' = [Copies EXCEPT ![t] = @ + 1] /\ UNCHANGED <<Phases, Allowed>>
              \/ /\ Phases[t] = "inflight" /\ Copies[t] > 0
                 /\ Phases' = [Phases EXCEPT ![t] = "done"] /\ UNCHANGED <<Copies, Allowed>>
              \/ /\ Phases[t] = "inflight" /\ UNCHANGED <<Copies, Allowed>>
                 /\ \E x \in {"queued", "stopped"} : Phases' = [Phases EXCEPT ![t] = x]
              \/ /\ Phases[t] = "stopped" /\ Phases' = [Phases EXCEPT ![t] = "queued"]
                 /\ Allowed' = [Allowed EXCEPT ![t] = @ + 1] /\ UNCHANGED Copies
  PROVE  [Contract!Next]_(Contract!vars)
<1>1. /\ [t \in Targets |-> IF part = "given" THEN Cardinality(OwnPosts(t)) ELSE 0] = Copies
      /\ [t \in Targets |-> IF part = "given" THEN 1 + granted[t] ELSE 1] = Allowed
      /\ [t \in Targets |-> IF part = "given" THEN Cardinality(OwnPosts(t)) ELSE 0]' = Copies'
      /\ [t \in Targets |-> IF part = "given" THEN 1 + granted[t] ELSE 1]' = Allowed'
  BY DEF Copies, Allowed
<1>2. CASE UNCHANGED <<Phases, Copies, Allowed>>
  BY <1>1, <1>2 DEF Contract!vars, Phases
<1>3. ASSUME UNCHANGED <<Copies, Allowed>>,
             NEW S \in SUBSET {t \in Targets : Phases[t] = "queued"}, NEW x \in {"inflight", "stopped"},
             Phases' = [t \in Targets |-> IF t \in S THEN x ELSE Phases[t]]
      PROVE  Contract!Take \/ Contract!Withdraw
  BY <1>1, <1>3 DEF Contract!Take, Contract!Withdraw, Phases
<1>4. ASSUME NEW t \in Targets, Phases[t] = "inflight", Copies[t] < Allowed[t],
             Copies' = [Copies EXCEPT ![t] = @ + 1], UNCHANGED <<Phases, Allowed>>
      PROVE  Contract!Post(t)
  BY <1>1, <1>4 DEF Contract!Post, Phases
<1>5. ASSUME NEW t \in Targets, Phases[t] = "inflight", Copies[t] > 0,
             Phases' = [Phases EXCEPT ![t] = "done"], UNCHANGED <<Copies, Allowed>>
      PROVE  Contract!Confirm(t)
  BY <1>1, <1>5 DEF Contract!Confirm, Contract!Move, Phases
<1>6. ASSUME NEW t \in Targets, Phases[t] = "inflight", UNCHANGED <<Copies, Allowed>>,
             NEW x \in {"queued", "stopped"}, Phases' = [Phases EXCEPT ![t] = x]
      PROVE  Contract!GiveUp(t)
  BY <1>1, <1>6 DEF Contract!GiveUp, Contract!Move, Phases
<1>7. ASSUME NEW t \in Targets, Phases[t] = "stopped", Phases' = [Phases EXCEPT ![t] = "queued"],
             Allowed' = [Allowed EXCEPT ![t] = @ + 1], UNCHANGED Copies
      PROVE  Contract!AskAgain(t)
  BY <1>1, <1>7 DEF Contract!AskAgain, Contract!Move, Phases
<1> QED
  BY <1>2, <1>3, <1>4, <1>5, <1>6, <1>7 DEF Contract!Next

PhaseOf(s) == IF s = "scheduled" THEN "queued"
              ELSE IF s \in {"publishing", "reconciling"} THEN "inflight"
              ELSE IF s = "published" THEN "done" ELSE "stopped"

LEMMA PhasesSeen ==
  ASSUME part = "given", part' = "given"
  PROVE  /\ Phases = [t \in Targets |-> PhaseOf(state[t])]
         /\ Phases' = [t \in Targets |-> PhaseOf(state'[t])]
BY DEF Phases, Phase, InFlight, PhaseOf

LEMMA CountsKept ==
  ASSUME UNCHANGED <<posts, granted>>
  PROVE  UNCHANGED <<Copies, Allowed>>
BY DEF Copies, Allowed, OwnPosts

LEMMA CallMapped ==
  ASSUME part = "given", part' = "given", Dependable, OnceInv, NEW p \in Workers,
         PublishOk(p) \/ PublishAmbiguous(p) \/ PublishError(p)
  PROVE  [Contract!Next]_(Contract!vars)
<1> DEFINE c == claim[p]
<1>1. pc[p] = "call" /\ UNCHANGED <<granted, claim>> /\ UNCHANGED row
  BY DEF PublishOk, PublishAmbiguous, PublishError
<1>2. /\ c \in Claim /\ c.t \in Targets /\ InFlight(c.t) /\ Spare(c.t)
  BY <1>1, PastSlotHolds DEF OnceInv, PastSlot, Calling, PostInv, WorkersOk, WorkerOk
<1>3. UNCHANGED posts \/ \E i : ProviderAccepts(c, i) /\ KnownPosts(c) = {}
  BY DEF PublishOk, PublishAmbiguous, PublishError, ProviderAccepts
<1>4. Phases' = Phases /\ Allowed' = Allowed /\ Phases[c.t] = "inflight"
  BY <1>1, <1>2, PhasesSeen DEF Allowed, row, PhaseOf, InFlight
<1>5. CASE UNCHANGED posts
  BY <1>1, <1>4, <1>5, CountsKept, StepMapped
<1>6. ASSUME NEW i, ProviderAccepts(c, i), KnownPosts(c) = {} PROVE [Contract!Next]_(Contract!vars)
  <2>1. /\ \A t \in Targets \ {c.t} : OwnPosts(t)' = OwnPosts(t)
        /\ Cardinality(OwnPosts(c.t)') = Cardinality(OwnPosts(c.t)) + 1
    BY <1>1, <1>2, <1>6, NewPost DEF OnceInv
  <2>2. \A t \in Targets : Copies'[t] = IF t = c.t THEN Copies[t] + 1 ELSE Copies[t]
    <3>1. \A t \in Targets : Cardinality(OwnPosts(t)') = IF t = c.t THEN Cardinality(OwnPosts(t)) + 1
                                                        ELSE Cardinality(OwnPosts(t))
      BY <1>1, <1>2, <2>1
    <3> QED
      BY <1>2, <3>1 DEF Copies
  <2>3. Copies' = [Copies EXCEPT ![c.t] = @ + 1]
    BY <2>2 DEF Copies
  <2>4. Copies[c.t] < Allowed[c.t]
    <3>1. Cardinality(OwnPosts(c.t)) \in Nat /\ granted[c.t] \in Nat
      BY <1>2, OwnPostsCount DEF OnceInv
    <3>2. Cardinality(OwnPosts(c.t)) <= granted[c.t]
      <4>1. CASE IdemKey
        <5>1. OwnPosts(c.t) = {}
          BY <1>6, <4>1 DEF KnownPosts, OwnPosts, OnceInv, KeyedPosts, IdempotencyKey
        <5> QED
          BY <3>1, <5>1, FS_EmptySet
      <4>2. CASE ~IdemKey
        BY <1>2, <4>2 DEF Spare
      <4> QED
        BY <4>1, <4>2
    <3> QED
      BY <1>2, <3>1, <3>2 DEF Copies, Allowed
  <2> QED
    BY <1>2, <1>4, <2>3, <2>4, StepMapped
<1> QED
  BY <1>3, <1>5, <1>6

LEMMA WriterMapped ==
  ASSUME part = "given", part' = "given", ~SameText, OnceInv, NEW p \in Workers,
         MarkPublished(p) \/ RequeueScheduled(p) \/ MarkFailed(p) \/ MarkNeedsReview(p)
  PROVE  [Contract!Next]_(Contract!vars)
<1> DEFINE u == claim[p].t
<1>1. pc[p] = "write" /\ UNCHANGED <<posts, granted>>
  BY DEF MarkPublished, RequeueScheduled, MarkFailed, MarkNeedsReview, Writing, history
<1>2. u \in Targets /\ InFlight(u) /\ state \in [Targets -> States]
  BY <1>1, PastSlotHolds DEF OnceInv, PastSlot, TypeInv, TypeOK
<1>3. UNCHANGED <<Copies, Allowed>> /\ Phases[u] = "inflight"
  BY <1>1, <1>2, CountsKept, PhasesSeen DEF PhaseOf, InFlight
<1>4. ASSUME NEW s, SetRow(claim[p], s) PROVE Phases' = [Phases EXCEPT ![u] = PhaseOf(s)]
  BY <1>2, <1>4, PhasesSeen DEF SetRow
<1>5. CASE MarkPublished(p)
  <2>1. OwnPosts(u) # {}
    BY <1>1, <1>5 DEF MarkPublished, Writing, OnceInv, PostInv, WorkersOk, WorkerOk
  <2>2. Copies[u] > 0
    <3>1. IsFiniteSet(OwnPosts(u)) /\ Cardinality(OwnPosts(u)) \in Nat
      BY <1>2, OwnPostsCount DEF OnceInv
    <3>2. Cardinality(OwnPosts(u)) # 0
      BY <2>1, <3>1, FS_EmptySet
    <3> QED
      BY <1>2, <3>1, <3>2 DEF Copies
  <2>3. Phases' = [Phases EXCEPT ![u] = "done"]
    BY <1>4, <1>5 DEF MarkPublished, PhaseOf
  <2> QED
    BY <1>2, <1>3, <2>2, <2>3, StepMapped
<1>6. CASE RequeueScheduled(p) \/ MarkFailed(p) \/ MarkNeedsReview(p)
  <2>1. \E x \in {"queued", "stopped"} : Phases' = [Phases EXCEPT ![u] = x]
    BY <1>4, <1>6 DEF RequeueScheduled, MarkFailed, MarkNeedsReview, PhaseOf
  <2> QED
    BY <1>2, <1>3, <2>1, StepMapped
<1> QED
  BY <1>5, <1>6

LEMMA PersonMapped ==
  ASSUME part = "given", part' = "given", OnceInv, NEW t \in Targets, Person(t)
  PROVE  [Contract!Next]_(Contract!vars)
<1>0. state \in [Targets -> States] /\ granted \in [Targets -> Nat] /\ UNCHANGED posts
  BY DEF OnceInv, TypeInv, TypeOK, Person, RetryTarget, RequeueDeadLetter, CancelTarget, RescheduleTarget
<1>1. Copies' = Copies
  BY <1>0 DEF Copies, OwnPosts
<1>2. CASE Reopen(t)
  <2>0. granted'[t] # granted[t]
    BY <1>0, <1>2 DEF Reopen
  <2>1. state[t] \in {"failed", "needs_review"}
    BY <2>0 DEF Person, RetryTarget, RequeueDeadLetter, CancelTarget, RescheduleTarget, history
  <2>2. Phases[t] = "stopped" /\ Phases' = [Phases EXCEPT ![t] = "queued"]
    BY <1>0, <1>2, <2>1, PhasesSeen DEF Reopen, PhaseOf
  <2>3. Allowed' = [Allowed EXCEPT ![t] = @ + 1]
    <3>1. \A u \in Targets : 1 + granted'[u] = IF u = t THEN (1 + granted[u]) + 1 ELSE 1 + granted[u]
      BY <1>0, <1>2 DEF Reopen
    <3> QED
      BY <3>1 DEF Allowed
  <2> QED
    BY <1>1, <2>2, <2>3, StepMapped
<1>3. CASE ~Reopen(t)
  <2>1. UNCHANGED granted
    BY <1>3 DEF Person, RetryTarget, RequeueDeadLetter, CancelTarget, RescheduleTarget, history
  <2>2. UNCHANGED <<Copies, Allowed>>
    BY <1>0, <2>1, CountsKept
  <2>3. UNCHANGED state \/ (state[t] = "scheduled" /\ state' = [state EXCEPT ![t] = "canceled"])
    BY <1>3 DEF Person, RetryTarget, RequeueDeadLetter, CancelTarget, RescheduleTarget, row
  <2>4. CASE UNCHANGED state
    BY <2>2, <2>4, PhasesSeen, StepMapped
  <2>5. CASE state[t] = "scheduled" /\ state' = [state EXCEPT ![t] = "canceled"]
    <3>1. {t} \in SUBSET {u \in Targets : Phases[u] = "queued"}
      BY <2>5, PhasesSeen DEF PhaseOf
    <3>2. Phases' = [u \in Targets |-> IF u \in {t} THEN "stopped" ELSE Phases[u]]
      BY <1>0, <2>5, PhasesSeen DEF PhaseOf
    <3> QED
      BY <2>2, <3>1, <3>2, StepMapped
  <2> QED
    BY <2>3, <2>4, <2>5
<1> QED
  BY <1>2, <1>3

LEMMA ContractStep ==
  ASSUME part = "given", part' = "given", Dependable, ~SameText, OnceInv, [Next]_vars
  PROVE  [Contract!Next]_(Contract!vars)
<1>0. state \in [Targets -> States]
  BY DEF OnceInv, TypeInv, TypeOK
<1>1. ASSUME UNCHANGED <<posts, granted>>,
             \A t \in Targets : PhaseOf(state'[t]) = PhaseOf(state[t])
      PROVE  [Contract!Next]_(Contract!vars)
  BY <1>1, CountsKept, PhasesSeen, StepMapped
<1>2. ASSUME UNCHANGED <<state, posts, granted>> PROVE [Contract!Next]_(Contract!vars)
  BY <1>1, <1>2
<1>3. ASSUME NEW p \in Workers, ClaimDueTargets(p) PROVE [Contract!Next]_(Contract!vars)
  <2>1. PICK S \in (SUBSET Due) \ {{}} :
          state' = [t \in Targets |-> IF t \in S THEN "publishing" ELSE state[t]]
    BY <1>3 DEF ClaimDueTargets
  <2>2. S \in SUBSET {t \in Targets : Phases[t] = "queued"}
    BY PhasesSeen DEF Due, PhaseOf
  <2>3. Phases' = [t \in Targets |-> IF t \in S THEN "inflight" ELSE Phases[t]]
    BY <2>1, PhasesSeen DEF PhaseOf
  <2>4. UNCHANGED <<Copies, Allowed>>
    BY <1>3, CountsKept DEF ClaimDueTargets, history
  <2> QED
    BY <2>2, <2>3, <2>4, StepMapped
<1>4. ASSUME NEW p \in Workers, LeaseSweeperTick(p) PROVE [Contract!Next]_(Contract!vars)
  <2>1. PICK S \in (SUBSET Expired) \ {{}} :
          state' = [t \in Targets |-> IF t \in S THEN "reconciling" ELSE state[t]]
    BY <1>4 DEF LeaseSweeperTick
  <2>2. \A t \in Targets : PhaseOf(state'[t]) = PhaseOf(state[t])
    BY <2>1 DEF Expired, InFlight, PhaseOf
  <2> QED
    BY <1>1, <1>4, <2>2 DEF LeaseSweeperTick, history
<1>5. ASSUME NEW p \in Workers,
             \/ AddJob(p) \/ Deliver(p) \/ ClaimAttemptSlot(p) \/ GateRefuses(p) \/ GatesPass(p)
             \/ LookupAfterAmbiguous(p) \/ LookupBeforeFailing(p) \/ WriteLost(p)
             \/ ReconcileSwept(p) \/ Crash(p)
      PROVE  [Contract!Next]_(Contract!vars)
  BY <1>2, <1>5 DEF AddJob, Deliver, ClaimAttemptSlot, GateRefuses, GatesPass, LookupAfterAmbiguous,
                    LookupBeforeFailing, WriteLost, ReconcileSwept, Crash, row, history
<1>6. CASE DisconnectAccount
  <2> DEFINE S == {t \in Targets : state[t] = "scheduled"}
  <2>1. S \in SUBSET {t \in Targets : Phases[t] = "queued"}
    BY PhasesSeen DEF PhaseOf
  <2>2. Phases' = [t \in Targets |-> IF t \in S THEN "stopped" ELSE Phases[t]]
    BY <1>6, PhasesSeen DEF DisconnectAccount, PhaseOf
  <2>3. UNCHANGED <<Copies, Allowed>>
    BY <1>6, CountsKept DEF DisconnectAccount, history
  <2> QED
    BY <2>1, <2>2, <2>3, StepMapped
<1>7. CASE ReconnectAccount \/ (\E t \in Targets : LeaseExpires(t)) \/ UNCHANGED vars
  BY <1>2, <1>7 DEF ReconnectAccount, LeaseExpires, vars, row, history
<1>8. ASSUME NEW i \in DOMAIN posts, PostAges(i) PROVE [Contract!Next]_(Contract!vars)
  <2>1. \A t \in Targets : OwnPosts(t)' = OwnPosts(t)
    BY <1>8, AgedPost DEF OnceInv
  <2>2. UNCHANGED <<Copies, Allowed>> /\ UNCHANGED state
    BY <1>8, <2>1 DEF Copies, Allowed, PostAges, row, history
  <2> QED
    BY <2>2, PhasesSeen, StepMapped
<1> QED
  BY <1>3, <1>4, <1>5, <1>6, <1>7, <1>8, CallMapped, WriterMapped, PersonMapped
  DEF Next, Worker, PublishJob, Outcome

(* A row of the keyed part, and one that is scheduled, maps to "queued".    *)
LEMMA KeyedPhase ==
  ASSUME NEW t, part = "keyed"
  PROVE  Phase(t) = "queued"
BY Zenon DEF Phase

LEMMA ScheduledPhase ==
  ASSUME NEW t, state[t] = "scheduled"
  PROVE  Phase(t) = "queued"
BY Zenon DEF Phase, InFlight

(* The publishing core implements the contract, for the given provider;     *)
(* the contract says nothing of the keyed part.                             *)
THEOREM CoreImplementsContract ==
  ASSUME LeasesHold, Dependable, ~SameText
  PROVE  MCSpec => ImplementsContract
<1>1. part \in Parts /\ Init => Contract!Init
  <2> SUFFICES ASSUME part \in {"given", "keyed"}, Init PROVE Contract!Init
    BY PartsAssumption
  <2>1. ASSUME NEW t \in Targets PROVE Phase(t) = "queued" /\ Cardinality(OwnPosts(t)) = 0 /\ granted[t] = 0
    <3>1. OwnPosts(t) = {}
      BY DEF Init, OwnPosts
    <3> QED
      BY <3>1, FS_EmptySet, ScheduledPhase DEF Init
  <2> QED
    BY <2>1 DEF Contract!Init
<1>2. ASSUME part \in {"given", "keyed"}, part # "keyed" => OnceInv,
             [UNCHANGED part /\ IF part = "keyed" THEN Keyed!Next ELSE Next]_<<part, vars>>
      PROVE  [Contract!Next]_(Contract!vars)
  <2>1. CASE part = "keyed"
    <3>1. part' = "keyed"
      BY <1>2, <2>1
    <3>2. \A t \in Targets : Phase(t) = "queued"
      BY <2>1, KeyedPhase
    <3>3. \A t \in Targets : Phase(t)' = "queued"
      BY <3>1, Zenon DEF Phase
    <3> QED
      BY <2>1, <3>1, <3>2, <3>3 DEF Contract!vars
  <2>2. CASE part = "given"
    BY <1>2, <2>2, ContractStep
  <2> QED
    BY <1>2, <2>1, <2>2
<1>3. MCSpec => [](part \in {"given", "keyed"})
  <2>1. part \in {"given", "keyed"} /\ [UNCHANGED part /\ IF part = "keyed" THEN Keyed!Next ELSE Next]_<<part, vars>>
          => (part \in {"given", "keyed"})'
    OBVIOUS
  <2>2. part \in Parts => part \in {"given", "keyed"}
    BY PartsAssumption
  <2> QED
    BY <2>1, <2>2, PTL DEF MCSpec
<1> QED
  BY <1>1, <1>2, <1>3, GivenStep, PTL DEF MCSpec, ImplementsContract, Contract!Spec

=============================================================================
