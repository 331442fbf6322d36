------------------------------ MODULE Analytics ------------------------------
(***************************************************************************)
(* Metric snapshots of published targets (src/analytics/ingest.ts) and the *)
(* CSV exports (src/analytics/export.ts).  A target's cursor says when it  *)
(* is due; a tick claims due targets by moving their cursors ten minutes   *)
(* ahead, then pulls them one by one.  Ticks of a kind may overlap.        *)
(*                                                                         *)
(* Time is the number of milestones (+1h, +24h, +7d, weekly to 90 days)    *)
(* that a target has passed since it was published.                        *)
(***************************************************************************)
EXTENDS Naturals, FiniteSets

CONSTANTS
  Targets,    \* published targets
  Capable,    \* those of networks with metrics and with a provider post id
  Milestones, \* the number of points of the schedule
  Pullers,    \* concurrent ingestion ticks
  Exports,    \* export jobs
  Exporters,  \* concurrent export ticks
  MaxSlips,   \* overruns and failed breaker writes together (a bound)
  MaxMarks    \* backfills in a behaviour (a bound)

ASSUME AnalyticsAssumption ==
  /\ Capable \subseteq Targets /\ IsFiniteSet(Targets) /\ IsFiniteSet(Pullers)
  /\ Milestones \in Nat \ {0} /\ {MaxSlips, MaxMarks} \subseteq Nat

VARIABLES
  age,      \* milestones passed, by target
  cursor,   \* post_targets.metrics_next_at
  active,   \* targets whose account is active
  pull,     \* each tick: claimed targets left, its clock, what it fetches
  taken,    \* history: snapshots of each target
  pulls,    \* history: slips, and how often each target was backfilled
  export,   \* analytics_exports: status, files built
  building  \* each export tick: the export it has read, and how far it is
metricsVars == <<age, cursor, active, pull, taken, pulls>>
exportVars == <<export, building>>
analyticsVars == <<metricsVars, exportVars>>

Null == [kind |-> "null", k |-> 0]
At(k) == [kind |-> "milestone", k |-> k]
Held == [kind |-> "held", k |-> 0]      \* ten minutes ahead
Later == [kind |-> "later", k |-> 0]    \* an hour, or a few seconds, ahead
Now == [kind |-> "now", k |-> 0]
Due(t) == \/ cursor[t].kind = "now"
          \/ cursor[t].kind = "milestone" /\ age[t] >= cursor[t].k

(* nextMetricsAt: the first point after the clock, if any.                  *)
NextMetricsAt(clock) == IF clock < Milestones THEN At(clock + 1) ELSE Null

NoPull == [at |-> "idle", todo |-> {}, clock |-> <<>>, on |-> {}]

(* +1h is set at publish; targets published before analytics have none.     *)
AnalyticsInit ==
  /\ age = [t \in Targets |-> 0]
  /\ cursor \in [Targets -> {At(1), Null}]
  /\ active = Targets
  /\ pull = [p \in Pullers |-> NoPull]
  /\ taken = [t \in Targets |-> 0]
  /\ pulls = [slips |-> 0, marks |-> [t \in Targets |-> 0]]
  /\ export = [e \in Exports |-> [st |-> "none", built |-> 0]]
  /\ building = [x \in Exporters |-> [at |-> "idle"]]

Slip ==
  /\ pulls.slips < MaxSlips
  /\ pulls' = [pulls EXCEPT !.slips = @ + 1]

Put(p, r) == pull' = [pull EXCEPT ![p] = r]
Onward(p) == Put(p, IF pull[p].todo = {} THEN NoPull ELSE [pull[p] EXCEPT !.at = "next", !.on = {}])
SetCursor(t, c) == cursor' = [cursor EXCEPT ![t] = c]

-----------------------------------------------------------------------------
(* metricsSnapshotTick *)

(* Mutant: claimed rows stay due.                                           *)
ClaimUnheld(p) ==
  LET S == {t \in active : Due(t)} IN
    /\ pull[p].at = "idle" /\ S # {}
    /\ Put(p, [at |-> "next", todo |-> S, clock |-> age, on |-> {}])
    /\ UNCHANGED <<age, cursor, active, taken, pulls>>

Claim(p) ==
  LET S == {t \in active : Due(t)} IN
    /\ pull[p].at = "idle" /\ S # {}
    /\ cursor' = [t \in Targets |-> IF t \in S THEN Held ELSE cursor[t]]
    /\ Put(p, [at |-> "next", todo |-> S, clock |-> age, on |-> {}])
    /\ UNCHANGED <<age, active, taken, pulls>>

(* A target of an unknown network is left to its lease, as is one that the  *)
(* breaker or the budget does not let through; one without metrics is       *)
(* taken off the schedule.                                                  *)
Turn(p) ==
  /\ pull[p].at = "next"
  /\ \E t \in pull[p].todo :
       LET rest == pull[p].todo \ {t}
           skip == IF rest = {} THEN NoPull ELSE [pull[p] EXCEPT !.todo = rest]
       IN  \/ t \notin Capable /\ SetCursor(t, Null) /\ Put(p, skip)
           \/ t \in Capable /\ Put(p, skip) /\ UNCHANGED cursor
           \/ t \in Capable /\ Put(p, [pull[p] EXCEPT !.at = "fetch", !.todo = rest, !.on = {t}])
                /\ UNCHANGED cursor
  /\ UNCHANGED <<age, active, taken, pulls>>

(* The snapshot and the next milestone, after the tick's own clock, commit  *)
(* together.                                                                *)
Fetched(p) ==
  \E t \in pull[p].on :
    /\ pull[p].at = "fetch"
    /\ taken' = [taken EXCEPT ![t] = @ + 1]
    /\ SetCursor(t, NextMetricsAt(pull[p].clock[t]))
    /\ Onward(p)
    /\ UNCHANGED <<age, active, pulls>>

(* The provider refuses, and the pull is tried again in an hour; a breaker  *)
(* write that fails after the snapshot was committed ends there as well.    *)
FetchFails(p) ==
  \E t \in pull[p].on :
    /\ pull[p].at = "fetch"
    /\ \/ UNCHANGED <<taken, pulls>>
       \/ Slip /\ taken' = [taken EXCEPT ![t] = @ + 1]
    /\ SetCursor(t, Later)
    /\ Onward(p)
    /\ UNCHANGED <<age, active>>

CrashPull(p) ==
  /\ pull[p].at # "idle"
  /\ Put(p, NoPull)
  /\ UNCHANGED <<age, cursor, active, taken, pulls>>

(* The lease of a target whose tick is gone ends, or that of one still in a *)
(* slow tick's hands; a retry comes due.                                    *)
InHand(t) == \E p \in Pullers : t \in pull[p].todo \cup pull[p].on

ComesDue(t) ==
  /\ cursor[t].kind \in {"held", "later"}
  /\ SetCursor(t, Now)
  /\ IF cursor[t].kind = "held" /\ InHand(t) THEN Slip ELSE UNCHANGED pulls
  /\ UNCHANGED <<age, active, pull, taken>>

(* backfillMetrics, nightly, and backfillWorkspaceMetrics, on demand.       *)
BackfillMetrics ==
  LET S == {t \in active : cursor[t] = Null} IN
    /\ S # {} /\ \A t \in S : pulls.marks[t] < MaxMarks
    /\ cursor' = [t \in Targets |-> IF t \in S THEN Later ELSE cursor[t]]
    /\ pulls' = [pulls EXCEPT !.marks = [t \in Targets |-> IF t \in S THEN @[t] + 1 ELSE @[t]]]
    /\ UNCHANGED <<age, active, pull, taken>>

(* Milestones after the first are a day apart: a tick that overran a lease  *)
(* is done by then.                                                         *)
Overrun(t) ==
  \/ InHand(t) /\ cursor[t] # Held
  \/ \E p, q \in Pullers : p # q /\ t \in pull[p].todo \cup pull[p].on
                                 /\ t \in pull[q].todo \cup pull[q].on

MilestonePasses(t) ==
  /\ age[t] < Milestones /\ ~Overrun(t)
  /\ age' = [age EXCEPT ![t] = @ + 1]
  /\ UNCHANGED <<cursor, active, pull, taken, pulls>>

AccountTurns(t) ==
  /\ active' = IF t \in active THEN active \ {t} ELSE active \cup {t}
  /\ UNCHANGED <<age, cursor, pull, taken, pulls>>

-----------------------------------------------------------------------------
(* Exports *)
Step(x, r) == building' = [building EXCEPT ![x] = r]
Becomes(e, st) == export' = [export EXCEPT ![e].st = st]

CreateExport(e) == export[e].st = "none" /\ Becomes(e, "pending") /\ UNCHANGED building

ReadPending(x, e) ==
  /\ building[x].at = "idle" /\ export[e].st = "pending"
  /\ Step(x, [at |-> "claim", e |-> e])
  /\ UNCHANGED export

ClaimExport(x) ==
  /\ building[x].at = "claim"
  /\ IF export[building[x].e].st = "pending"
     THEN Becomes(building[x].e, "processing") /\ Step(x, [building[x] EXCEPT !.at = "build"])
     ELSE UNCHANGED export /\ Step(x, [at |-> "idle"])

BuildExport(x) ==
  LET e == building[x].e IN
    /\ building[x].at = "build"
    /\ \/ export' = [export EXCEPT ![e] = [st |-> "ready", built |-> @.built + 1]]
       \/ Becomes(e, "failed")
    /\ Step(x, [at |-> "idle"])

CrashExport(x) ==
  /\ building[x].at # "idle" /\ Step(x, [at |-> "idle"])
  /\ UNCHANGED export

-----------------------------------------------------------------------------
MetricsNext ==
  \/ \E p \in Pullers : Claim(p) \/ Turn(p) \/ Fetched(p) \/ FetchFails(p) \/ CrashPull(p)
  \/ \E t \in Targets : ComesDue(t) \/ MilestonePasses(t) \/ AccountTurns(t)
  \/ BackfillMetrics

ExportNext ==
  \/ \E e \in Exports : CreateExport(e)
  \/ \E x \in Exporters : ClaimExport(x) \/ BuildExport(x) \/ CrashExport(x)
  \/ \E x \in Exporters, e \in Exports : ReadPending(x, e)

AnalyticsNext ==
  \/ MetricsNext /\ UNCHANGED exportVars
  \/ ExportNext /\ UNCHANGED metricsVars

AnalyticsSpec == AnalyticsInit /\ [][AnalyticsNext]_analyticsVars

-----------------------------------------------------------------------------
(* A target is pulled once per milestone, and once more only for a          *)
(* backfill, a failed breaker write or an overrun lease, whose late tick    *)
(* also sets the cursor back: neither overlapping ticks nor the tick's old  *)
(* clock nor a crash make for more, and an export is built once whoever     *)
(* reads it.                                                                *)
PulledPerMilestone ==
  /\ \A t \in Targets : taken[t] <= age[t] + pulls.slips + pulls.marks[t]
  /\ \A e \in Exports : export[e].built <= 1
=============================================================================
