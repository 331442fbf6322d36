---------------------------- MODULE PublishedOnce ----------------------------
(***************************************************************************)
(* What the publishing core promises about the rows it writes, the meter   *)
(* and the provider, whichever provider a target is for: stated over the   *)
(* variables that Publishing shares with the models that instantiate it.   *)
(***************************************************************************)
EXTENDS Naturals, Sequences, FiniteSets

VARIABLES
  state, version, ppid,  (* post_targets: state, version, provider post id  *)
  usage,                 (* usage_counters.count of posts_published         *)
  posts,                 (* what the provider has created, in order         *)
  calls,                 (* history: publish() calls, by target and attempt *)
  granted                (* history: human retries, by target               *)

OwnPosts(t) == {i \in DOMAIN posts : posts[i].by = t}

(* However often a job is delivered, however workers crash and the sweeper  *)
(* interferes, one claimed attempt reaches publish() at most once: what     *)
(* claimAttemptSlot is for.                                                 *)
OneCallPerAttempt == \A t \in DOMAIN calls : \A a \in DOMAIN calls[t] : calls[t][a] <= 1

(* The provider never holds more posts of a target than people asked for:   *)
(* the schedule itself and each human retry.  The pipeline's automatic      *)
(* retries never add one.                                                   *)
NoDoublePost == \A t \in DOMAIN granted : Cardinality(OwnPosts(t)) <= 1 + granted[t]

(* The metered usage is the number of published targets: no outcome is      *)
(* counted twice and none is lost.                                          *)
UsageCountsPublished == usage = Cardinality({t \in DOMAIN state : state[t] = "published"})

(* No writer, late or duplicated, changes a row once it is published.       *)
PublishedIsFinal ==
  [][\A t \in DOMAIN state : state[t] = "published" =>
       state'[t] = "published" /\ version'[t] = version[t] /\ ppid'[t] = ppid[t]]_<<state, version, ppid>>
=============================================================================
