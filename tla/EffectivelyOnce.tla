--------------------------- MODULE EffectivelyOnce ---------------------------
(***************************************************************************)
(* What the publishing core promises of each target, without workers,      *)
(* leases, versions or lookups: it is posted only while it is in flight,   *)
(* never more often than people asked for, shown as done only if a post    *)
(* exists, and never touched again after that.                             *)
(***************************************************************************)
EXTENDS Naturals

CONSTANT Targets

VARIABLES
  phase,    (* "queued", "inflight", "done" or "stopped"                   *)
  copies,   (* posts of the target the provider holds                      *)
  allowed   (* posts people asked for: the schedule and each manual retry  *)

vars == <<phase, copies, allowed>>

Init ==
  /\ phase   = [t \in Targets |-> "queued"]
  /\ copies  = [t \in Targets |-> 0]
  /\ allowed = [t \in Targets |-> 1]

Move(t, from, to) == phase[t] = from /\ phase' = [phase EXCEPT ![t] = to]

(* A scan may take several queued targets at once.                          *)
Take ==
  /\ \E S \in SUBSET {t \in Targets : phase[t] = "queued"} :
       phase' = [t \in Targets |-> IF t \in S THEN "inflight" ELSE phase[t]]
  /\ UNCHANGED <<copies, allowed>>

Post(t) ==
  /\ phase[t] = "inflight"
  /\ copies[t] < allowed[t]
  /\ copies' = [copies EXCEPT ![t] = @ + 1]
  /\ UNCHANGED <<phase, allowed>>

Confirm(t) ==
  /\ copies[t] > 0
  /\ Move(t, "inflight", "done")
  /\ UNCHANGED <<copies, allowed>>

GiveUp(t) ==
  /\ Move(t, "inflight", "queued") \/ Move(t, "inflight", "stopped")
  /\ UNCHANGED <<copies, allowed>>

(* Canceling one target, or skipping all of a disconnected account.         *)
Withdraw ==
  /\ \E S \in SUBSET {t \in Targets : phase[t] = "queued"} :
       phase' = [t \in Targets |-> IF t \in S THEN "stopped" ELSE phase[t]]
  /\ UNCHANGED <<copies, allowed>>

AskAgain(t) ==
  /\ Move(t, "stopped", "queued")
  /\ allowed' = [allowed EXCEPT ![t] = @ + 1]
  /\ UNCHANGED copies

Next ==
  \/ Take \/ Withdraw
  \/ \E t \in Targets : Post(t) \/ Confirm(t) \/ GiveUp(t) \/ AskAgain(t)

Spec == Init /\ [][Next]_vars
=============================================================================
