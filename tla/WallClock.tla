------------------------------ MODULE WallClock ------------------------------
(***************************************************************************)
(* Wall clock to instant (src/scheduling/time.ts): what a date and a time  *)
(* in a market mean, around a change of the zone's offset.  Time is in     *)
(* half hours, the granularity of the offsets that exist; the code bisects *)
(* to the minute, which finds the same transition.                         *)
(***************************************************************************)
EXTENDS Integers

CONSTANTS
  Zones,    \* zones around one change: [before |-> offset, after |-> offset]
  Reach     \* wall clock times this far around the change are asked for (a bound)

ASSUME WallClockAssumption == Zones \subseteq [before : Int, after : Int] /\ Reach \in Nat

VARIABLE ask  \* a request to the resolver and its answer
wallClockVars == <<ask>>

HalfDay == 24
Shift == 0   \* the instant at which the zone's offset changes

OffsetMinutes(z, utc) == IF utc < Shift THEN z.before ELSE z.after
LocalMs(z, utc) == utc + OffsetMinutes(z, utc)

(* Bisection for the first instant in (lo, hi] whose offset is not that of  *)
(* lo; hi itself if there is none.                                          *)
FindTransition(z, lo0, hi0) ==
  LET f[r \in Int \X Int] ==
        LET lo == r[1]  hi == r[2]  mid == lo + (hi - lo) \div 2
        IN  IF hi - lo <= 1 THEN hi
            ELSE IF OffsetMinutes(z, mid) = OffsetMinutes(z, lo0) THEN f[<<mid, hi>>]
            ELSE f[<<lo, mid>>]
  IN  f[<<lo0, hi0>>]

Least(S) == CHOOSE x \in S : \A y \in S : x <= y

(* Mutant: the second occurrence of a time that comes twice.                *)
ResolveLatest(z, wall) ==
  LET candidates == {t \in {wall - z.before, wall - z.after} : LocalMs(z, t) = wall}
  IN  IF candidates = {} THEN [instant |-> Shift, adjustment |-> "gap_shifted_forward"]
      ELSE [instant |-> CHOOSE x \in candidates : \A y \in candidates : x >= y,
            adjustment |-> "none"]

(* The offsets half a day before and after the wall clock time, read as if  *)
(* it were UTC, give the candidates; those that read back as it remain.     *)
ResolveWallClockToUTC(z, wall) ==
  LET samples == {OffsetMinutes(z, wall - HalfDay), OffsetMinutes(z, wall + HalfDay)}
      candidates == {t \in {wall - o : o \in samples} : LocalMs(z, t) = wall}
  IN  IF candidates = {}
      THEN [instant |-> FindTransition(z, wall - HalfDay, wall + HalfDay),
            adjustment |-> "gap_shifted_forward"]
      ELSE [instant |-> Least(candidates),
            adjustment |-> IF \E s, t \in candidates : s # t THEN "overlap_took_first" ELSE "none"]

(* fixed_instant and queued are instants already, the same for every target. *)
ResolveTargetInstant(type, z, at) ==
  IF type = "audience_local" THEN ResolveWallClockToUTC(z, at)
  ELSE [instant |-> at, adjustment |-> "none"]

WallClockInit == ask = [at |-> "idle"]

AskInstant ==
  /\ ask.at = "idle"
  /\ \E type \in {"audience_local", "fixed_instant"}, z \in Zones, w \in -Reach .. Reach :
       ask' = [at |-> "asked", type |-> type, zone |-> z, time |-> w]

AnswerInstant ==
  /\ ask.at = "asked"
  /\ ask' = [at |-> "answered", type |-> ask.type, zone |-> ask.zone, time |-> ask.time,
             is |-> ResolveTargetInstant(ask.type, ask.zone, ask.time)]

AskAgain == ask.at = "answered" /\ ask' = [at |-> "idle"]

WallClockNext == AskInstant \/ AnswerInstant \/ AskAgain

WallClockSpec == WallClockInit /\ [][WallClockNext]_wallClockVars

-----------------------------------------------------------------------------
(* A time that occurs is resolved to its first occurrence, and one that the *)
(* clocks skip to the moment they skip it: the two rules at the head of     *)
(* time.ts, here from the zone and not from samples of it.  They hold for   *)
(* zones within half a day of UTC; beyond, both samples fall on one side of *)
(* the change (Auckland, Chatham, Apia), and the rules fail.                *)
WallClockResolved ==
  ask.at = "answered" /\ ask.type = "audience_local"
    /\ {ask.zone.before, ask.zone.after} \subseteq -HalfDay .. HalfDay =>
    LET occurs == {t \in {ask.time - ask.zone.before, ask.time - ask.zone.after} :
                     LocalMs(ask.zone, t) = ask.time}
    IN  ask.is.instant = IF occurs = {} THEN Shift ELSE Least(occurs)
=============================================================================
