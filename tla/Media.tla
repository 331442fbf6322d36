-------------------------------- MODULE Media --------------------------------
(***************************************************************************)
(* The media library (src/media/service.ts, variants.ts, probe.ts) and the *)
(* posts that use it: upload and finalize, renditions frozen into a        *)
(* scheduled post by their storage key (src/scheduling/schedule.ts),       *)
(* deletion with its reference check and scrub, and the two nightly        *)
(* clean-ups.  Storage is not transactional: an object goes when it is     *)
(* deleted, whatever becomes of the rows.                                  *)
(***************************************************************************)
EXTENDS Naturals, FiniteSets

CONSTANTS
  Assets, Posts,
  Jobs,      \* requests and tasks of several transactions, under way at a time
  Habits     \* what users do: "override media" of one network, "late retry" of a
             \* failed post when its media are cleaned up or being so

ASSUME MediaAssumption == Habits \subseteq {"override media", "late retry"}

VARIABLES
  asset,    \* media_assets: status, whether past the grace window
  variant,  \* assets with a media_variants row, and those 30 days old
  objects,  \* storage keys that hold an object: <<"source" or "variant", asset>>
  bad,      \* assets whose uploaded bytes are of no supported type
  post,     \* posts: status, content.media, media_override, rendered_payload
  job       \* what each job has read and has still to do
mediaVars == <<asset, variant, objects, bad, post, job>>

(* Posts in these states depend on the asset.                               *)
LIVE_STATES == {"pending_approval", "scheduled", "publishing"}
DraftStates == {"draft"}
Unpublished == {"draft", "pending_approval", "scheduled", "publishing"}

Source(a) == <<"source", a>>
Variant(a) == <<"variant", a>>
Exists(a) == asset[a].st # "none"
NoPost == [st |-> "draft", media |-> {}, over |-> {}, payload |-> {}]
IdleJob == [kind |-> "idle"]

MediaInit ==
  /\ asset = [a \in Assets |-> [st |-> "none", old |-> FALSE]]
  /\ variant = [rows |-> {}, old |-> {}]
  /\ objects = {} /\ bad = {}
  /\ post = [p \in Posts |-> NoPost]
  /\ job = [j \in Jobs |-> IdleJob]

Begin(j, r) == job[j].kind = "idle" /\ job' = [job EXCEPT ![j] = r]
Go(j, kind, r) == job[j].kind = kind /\ job' = [job EXCEPT ![j] = r]
Uses(p, a) == a \in post[p].media \cup post[p].over

-----------------------------------------------------------------------------
(* Upload: createUpload, the client's PUT to the presigned URL, finalize.   *)
CreateUpload(a) ==
  /\ ~Exists(a)
  /\ \A j \in Jobs : job[j].kind # "idle" => job[j].on # a
  /\ Source(a) \notin objects /\ \A p \in Posts : ~Uses(p, a) /\ Source(a) \notin post[p].payload
  /\ asset' = [asset EXCEPT ![a] = [st |-> "uploading", old |-> FALSE]]
  /\ bad' = bad \ {a}
  /\ UNCHANGED <<variant, objects, post, job>>

PutObject(a, isBad) ==
  /\ asset[a].st = "uploading" /\ Source(a) \notin objects
  /\ objects' = objects \cup {Source(a)}
  /\ bad' = IF isBad THEN bad \cup {a} ELSE bad
  /\ UNCHANGED <<asset, variant, post, job>>

Status(a, st) == asset' = [asset EXCEPT ![a].st = IF @ = "none" THEN @ ELSE st]

StartFinalize(j, a) ==
  /\ Exists(a)
  /\ Begin(j, [kind |-> "finalize", on |-> a])
  /\ Status(a, "processing")
  /\ UNCHANGED <<variant, objects, bad, post>>

(* The object is sniffed and probed; if it is not there the request fails   *)
(* and the asset stays in processing.                                       *)
FinishFinalize(j) ==
  LET a == job[j].on IN
    /\ Go(j, "finalize", IdleJob)
    /\ IF Source(a) \in objects THEN Status(a, IF a \in bad THEN "failed" ELSE "ready")
                                ELSE UNCHANGED asset
    /\ UNCHANGED <<variant, objects, bad, post>>

-----------------------------------------------------------------------------
(* Posts, as far as they use media.                                         *)
Edit(p, M, O) ==
  /\ post[p].st = "draft"
  /\ O # {} => "override media" \in Habits
  /\ \A a \in M \cup O : Exists(a)
  /\ post' = [post EXCEPT ![p].media = M, ![p].over = O]
  /\ UNCHANGED <<asset, variant, objects, bad, job>>

Submit(p) ==
  /\ post[p].st = "draft"
  /\ post' = [post EXCEPT ![p].st = "pending_approval"]
  /\ UNCHANGED <<asset, variant, objects, bad, job>>

(* validatePostService has no blocker: every medium is there and ready.     *)
Validated(p) == \A a \in post[p].media \cup post[p].over : asset[a].st = "ready"

StartSchedule(j, p) ==
  /\ post[p].st \in {"draft", "pending_approval"} /\ Validated(p)
  /\ Begin(j, [kind |-> "schedule", on |-> p])
  /\ UNCHANGED <<asset, variant, objects, bad, post>>

(* materializeAndSchedule: media that fit go by their source key, others by *)
(* the key of their rendition, made by ensureVariant unless its row is      *)
(* there; media no longer ready are left out.                               *)
Materialize(j, V) ==
  LET p == job[j].on
      used == {a \in IF post[p].over # {} THEN post[p].over ELSE post[p].media :
                 asset[a].st = "ready"}
      new == {a \in V : a \notin variant.rows}
  IN  /\ Go(j, "schedule", IdleJob)
      /\ V \subseteq used
      /\ new \subseteq {a \in Assets : Source(a) \in objects}
      /\ IF post[p].st \in {"draft", "pending_approval"}
         THEN /\ objects' = objects \cup {Variant(a) : a \in new}
              /\ variant' = [variant EXCEPT !.rows = @ \cup new]
              /\ post' = [post EXCEPT ![p].st = "scheduled",
                            ![p].payload = {IF a \in V THEN Variant(a) ELSE Source(a) : a \in used}]
         ELSE UNCHANGED <<objects, variant, post>>
      /\ UNCHANGED <<asset, bad>>

Publish(p) ==
  /\ \/ post[p].st = "scheduled" /\ post' = [post EXCEPT ![p].st = "publishing"]
     \/ post[p].st = "publishing" /\ post' = [post EXCEPT ![p].st = "published"]
     \/ post[p].st = "publishing" /\ post' = [post EXCEPT ![p].st = "failed"]
  /\ UNCHANGED <<asset, variant, objects, bad, job>>

(* retryTarget publishes the frozen payload again.                          *)
Retry(p) ==
  /\ post[p].st = "failed"
  /\ \/ "late retry" \in Habits
     \/ post[p].payload \subseteq objects /\ \A j \in Jobs : job[j].kind = "idle"
  /\ post' = [post EXCEPT ![p].st = "scheduled"]
  /\ UNCHANGED <<asset, variant, objects, bad, job>>

Unschedule(p) ==
  /\ post[p].st = "scheduled"
  /\ post' = [post EXCEPT ![p].st = "draft", ![p].payload = {}]
  /\ UNCHANGED <<asset, variant, objects, bad, job>>

-----------------------------------------------------------------------------
(* deleteMedia: one transaction, but each statement sees what has been      *)
(* committed by then.                                                       *)

(* Mutant: a post about to go out does not hold its media.                  *)
InUseByPending(a) == \E p \in Posts : Uses(p, a) /\ post[p].st = "pending_approval"

InUse(a) == \E p \in Posts : Uses(p, a) /\ post[p].st \in LIVE_STATES

StartDelete(j, a) ==
  /\ Exists(a) /\ ~InUse(a)
  /\ Begin(j, [kind |-> "delete", on |-> a])
  /\ UNCHANGED <<asset, variant, objects, bad, post>>

Removed(S) ==
  /\ objects' = objects \ {k \in objects : k[2] \in S}
  /\ variant' = [rows |-> variant.rows \ S, old |-> variant.old \ S]
  /\ asset' = [a \in Assets |-> IF a \in S THEN [st |-> "none", old |-> FALSE] ELSE asset[a]]

ScrubAndDelete(j) ==
  LET a == job[j].on IN
    /\ Go(j, "delete", IdleJob)
    /\ post' = [p \in Posts |-> IF post[p].st \in DraftStates
                                THEN [post[p] EXCEPT !.media = @ \ {a}, !.over = @ \ {a}]
                                ELSE post[p]]
    /\ Removed({a})
    /\ UNCHANGED bad

-----------------------------------------------------------------------------
(* cleanupOrphans and retainVariants: nightly, each in one transaction.     *)

Orphans == {a \in Assets : /\ Exists(a) /\ asset[a].old
                           /\ \/ asset[a].st = "failed"
                              \/ \A p \in Posts : a \notin post[p].media}

StartCleanup(j, a) ==
  /\ a \in Orphans
  /\ Begin(j, [kind |-> "cleanup", on |-> a])
  /\ UNCHANGED <<asset, variant, objects, bad, post>>

DeleteOrphan(j) ==
  /\ Go(j, "cleanup", IdleJob)
  /\ Removed({job[j].on})
  /\ UNCHANGED <<bad, post>>

RetainVariants ==
  LET stale == {a \in variant.old : \A p \in Posts : post[p].st \in Unpublished => a \notin post[p].media}
  IN  /\ stale # {}
      /\ variant' = [rows |-> variant.rows \ stale, old |-> variant.old \ stale]
      /\ objects' = objects \ {Variant(a) : a \in stale}
      /\ UNCHANGED <<asset, bad, post, job>>

Ages(a) ==
  /\ \/ Exists(a) /\ ~asset[a].old /\ asset' = [asset EXCEPT ![a].old = TRUE] /\ UNCHANGED variant
     \/ a \in variant.rows \ variant.old
          /\ variant' = [variant EXCEPT !.old = @ \cup {a}] /\ UNCHANGED asset
  /\ UNCHANGED <<objects, bad, post, job>>

CrashJob(j) ==
  /\ job[j].kind # "idle"
  /\ job' = [job EXCEPT ![j] = IdleJob]
  /\ UNCHANGED <<asset, variant, objects, bad, post>>

MediaNext ==
  \/ \E a \in Assets : CreateUpload(a) \/ (\E b \in BOOLEAN : PutObject(a, b)) \/ Ages(a)
  \/ \E p \in Posts : Submit(p) \/ Publish(p) \/ Retry(p) \/ Unschedule(p)
  \/ \E p \in Posts, M \in SUBSET Assets, O \in SUBSET Assets : Edit(p, M, O)
  \/ \E j \in Jobs :
       \/ \E a \in Assets : StartFinalize(j, a) \/ StartDelete(j, a) \/ StartCleanup(j, a)
       \/ \E p \in Posts : StartSchedule(j, p)
       \/ \E V \in SUBSET Assets : Materialize(j, V)
       \/ FinishFinalize(j) \/ ScrubAndDelete(j) \/ DeleteOrphan(j) \/ CrashJob(j)
  \/ RetainVariants

MediaSpec == MediaInit /\ [][MediaNext]_mediaVars

-----------------------------------------------------------------------------
(* What a scheduled post is about to publish is in storage: no deletion and *)
(* no clean-up takes it out from under the post.                            *)
LiveMediaKept ==
  \A p \in Posts : post[p].st \in {"scheduled", "publishing"} => post[p].payload \subseteq objects
=============================================================================
