------------------------------ MODULE Composer ------------------------------
(***************************************************************************)
(* One draft in the composer (web/src/screens/app/composer) and its rows   *)
(* on the server (src/posts/service.ts).  Edits are saved by timers, each  *)
(* save is a request of its own, requests reach the server in any order,   *)
(* and the buttons push the schedule and then schedule or submit.  Two     *)
(* targets: one that always inherits, one with a tab of its own.           *)
(***************************************************************************)
EXTENDS Naturals, FiniteSets

CONSTANTS
  Texts,      \* what may be typed, "" among it
  Files,      \* files to attach
  Absent,     \* no override, no local draft, no timer
  Modes,      \* the schedule row: "now", "time", "queue"
  Hurries,    \* what the author does not wait for; see below
  MaxEdits    \* edits of the author in a behaviour (a bound)

ASSUME ComposerAssumption ==
  /\ "" \in Texts /\ IsFiniteSet(Files)
  /\ Absent \notin Texts \cup [tab : {"all", "own"}, value : Texts]
  /\ Modes \subseteq {"now", "time", "queue"}
  /\ Hurries \subseteq {"type on", "switch early", "click early", "several files", "save fails"}
  /\ MaxEdits \in Nat

VARIABLES
  draft,    \* posts, post_targets and post_target_overrides of the draft
  editor,   \* the page: tab, local drafts, schedule row, files shown as ready
  timer,    \* the one text timer and the schedule timer
  requests, \* requests under way
  commit,   \* the button: where it is, what was on the page when it was clicked
  known,    \* canSchedule of the last validation
  edits
composerVars == <<draft, editor, timer, requests, commit, known, edits>>

PageTabs == {"all", "own"}
ComposerInit ==
  /\ draft = [text |-> "", over |-> Absent, media |-> {}, sched |-> "unset",
              target |-> TRUE, status |-> "draft", frozen |-> Absent]
  /\ editor = [tab |-> "all", local |-> [p \in PageTabs |-> Absent], sched |-> "time", ready |-> {}]
  /\ timer = [text |-> Absent, sched |-> FALSE]
  /\ requests = {}
  /\ commit = [at |-> "idle"]
  /\ known = TRUE
  /\ edits = 0

(* The author waits for the saves to end, unless hurried in this way.       *)
Settled(hurry) == hurry \in Hurries \/ (requests = {} /\ timer.text = Absent)
EditDraft ==
  /\ edits < MaxEdits /\ commit.at = "idle"
  /\ edits' = edits + 1
Send(r) == requests' = requests \cup {r}

(* onEditorChange: one timer for all tabs, restarted at every key.          *)
Type(v) ==
  /\ EditDraft
  /\ requests = {} \/ "type on" \in Hurries
  /\ editor' = [editor EXCEPT !.local[editor.tab] = v]
  /\ timer' = [timer EXCEPT !.text = [tab |-> editor.tab, value |-> v]]
  /\ UNCHANGED <<draft, requests, commit, known>>

TextTimer ==
  /\ timer.text # Absent
  /\ Send([kind |-> IF timer.text.tab = "all" THEN "update" ELSE "override",
           value |-> timer.text.value, at |-> "sent"])
  /\ timer' = [timer EXCEPT !.text = Absent]
  /\ UNCHANGED <<draft, editor, commit, known, edits>>

SwitchTab(p) ==
  /\ p # editor.tab /\ (p = "own" => draft.target)
  /\ timer.text = Absent \/ "switch early" \in Hurries
  /\ editor' = [editor EXCEPT !.tab = p]
  /\ UNCHANGED <<draft, timer, requests, commit, known, edits>>

(* onRevert: the override is cleared, and then the local text.              *)
Revert ==
  /\ EditDraft /\ Settled("click early") /\ editor.tab = "own"
  /\ Send([kind |-> "revert"])
  /\ UNCHANGED <<draft, editor, timer, commit, known>>

Toggle ==
  /\ EditDraft /\ Settled("click early")
  /\ Send([kind |-> IF draft.target THEN "remove" ELSE "add"])
  /\ UNCHANGED <<draft, editor, timer, commit, known>>

ChangeSchedule(m) ==
  /\ EditDraft /\ Settled("click early")
  /\ editor' = [editor EXCEPT !.sched = m]
  /\ timer' = [timer EXCEPT !.sched = TRUE]
  /\ UNCHANGED <<draft, requests, commit, known>>

ScheduleTimer ==
  /\ timer.sched
  /\ Send([kind |-> "schedule", mode |-> editor.sched, from |-> "timer"])
  /\ timer' = [timer EXCEPT !.sched = FALSE]
  /\ UNCHANGED <<draft, editor, commit, known, edits>>

(* onFiles: uploaded one after another, each appended to the media of the   *)
(* post as it was when the files were chosen.                               *)
Attach(fs) ==
  /\ EditDraft /\ Settled("type on")
  /\ fs # {} /\ fs \cap editor.ready = {} /\ (Cardinality(fs) > 1 => "several files" \in Hurries)
  /\ requests' = requests \cup
       {[kind |-> "media", file |-> f, list |-> draft.media \cup {f}, at |-> "sent"] : f \in fs}
  /\ UNCHANGED <<draft, editor, timer, commit, known>>

-----------------------------------------------------------------------------
(* The server.  Everything but reading is refused once the post has left    *)
(* the editable states.                                                     *)
Gone(r) == requests' = requests \ {r}
Editable == draft.status = "draft"

(* updatePost reads the content, merges the patch in and writes it back.    *)
UpdateReads(r) ==
  /\ r.kind \in {"update", "media"} /\ r.at = "sent"
  /\ requests' = (requests \ {r}) \cup
       {[kind |-> r.kind, at |-> "read", file |-> IF r.kind = "media" THEN r.file ELSE Absent,
         text |-> IF r.kind = "update" THEN r.value ELSE draft.text,
         list |-> IF r.kind = "media" THEN r.list ELSE draft.media]}
  /\ UNCHANGED <<draft, editor, timer, commit, known, edits>>

UpdateWrites(r) ==
  /\ r.kind \in {"update", "media"} /\ r.at = "read"
  /\ draft' = IF Editable THEN [draft EXCEPT !.text = r.text, !.media = r.list] ELSE draft
  /\ editor' = IF r.kind = "media" /\ Editable
               THEN [editor EXCEPT !.ready = @ \cup {r.file}] ELSE editor
  /\ Gone(r)
  /\ UNCHANGED <<timer, commit, known, edits>>

(* overrideForNetworkTab and setOverride: an empty tab inherits again.      *)
OverrideArrives(r) ==
  /\ r.kind = "override"
  /\ draft' = IF Editable /\ draft.target
              THEN [draft EXCEPT !.over = IF r.value = "" THEN Absent ELSE r.value] ELSE draft
  /\ Gone(r)
  /\ UNCHANGED <<editor, timer, commit, known, edits>>

RevertArrives(r) ==
  /\ r.kind = "revert"
  /\ draft' = IF Editable THEN [draft EXCEPT !.over = Absent] ELSE draft
  /\ editor' = IF Editable THEN [editor EXCEPT !.local["own"] = Absent] ELSE editor
  /\ Gone(r)
  /\ UNCHANGED <<timer, commit, known, edits>>

(* addTarget, removeTarget: the override goes with its target, and the tab  *)
(* of a new one starts empty.                                               *)
ToggleArrives(r) ==
  /\ r.kind \in {"add", "remove"}
  /\ IF Editable
     THEN /\ draft' = [draft EXCEPT !.target = r.kind = "add",
                                    !.over = IF r.kind = "add" /\ draft.target THEN @ ELSE Absent]
          /\ editor' = [editor EXCEPT !.tab = IF r.kind = "remove" THEN "all" ELSE @,
                                      !.local["own"] = IF r.kind = "remove" THEN Absent ELSE @]
     ELSE UNCHANGED <<draft, editor>>
  /\ Gone(r)
  /\ UNCHANGED <<timer, commit, known, edits>>

(* setSchedule.  The commit goes on to its own call when its push returns.  *)
ScheduleArrives(r) ==
  /\ r.kind = "schedule"
  /\ draft' = IF Editable THEN [draft EXCEPT !.sched = r.mode] ELSE draft
  /\ requests' = (requests \ {r}) \cup
       (IF r.from = "commit" /\ Editable THEN {[kind |-> "act", what |-> commit.what]} ELSE {})
  /\ commit' = IF r.from = "commit" /\ ~Editable THEN [at |-> "failed", what |-> commit.what,
                                                      page |-> commit.page] ELSE commit
  /\ UNCHANGED <<editor, timer, known, edits>>

(* A save that failed is not tried again, and the page says "Draft saved".  *)
SaveFails(r) ==
  /\ r.kind = "schedule" => r.from = "commit"
  /\ r.kind \notin {"act", "schedule"} => "save fails" \in Hurries
  /\ commit' = IF r.kind \in {"act", "schedule"} THEN [commit EXCEPT !.at = "failed"] ELSE commit
  /\ Gone(r)
  /\ UNCHANGED <<draft, editor, timer, known, edits>>

-----------------------------------------------------------------------------
(* What the page shows, and what the server would publish.                  *)
PageText(p) ==
  LET all == IF editor.local["all"] = Absent THEN draft.text ELSE editor.local["all"] IN
  IF p = "all" THEN all
  ELSE CASE editor.local["own"] \notin {Absent, ""} -> editor.local["own"]
         [] editor.local["own"] = "" -> all
         [] editor.local["own"] = Absent -> IF draft.over = Absent THEN all ELSE draft.over
Page == [all |-> PageText("all"), own |-> IF draft.target THEN PageText("own") ELSE Absent,
         media |-> editor.ready, sched |-> editor.sched]
Stored == [all |-> draft.text,
           own |-> IF ~draft.target THEN Absent ELSE IF draft.over = Absent THEN draft.text ELSE draft.over,
           media |-> draft.media, sched |-> draft.sched]

(* The validation: an instant that is not in the future is a blocker, and   *)
(* "now" is past when it arrives, unless the page's clock runs ahead.       *)
CanSchedule == draft.sched # "now"
Revalidate ==
  /\ known # CanSchedule /\ known' = CanSchedule
  /\ UNCHANGED <<draft, editor, timer, requests, commit, edits>>

(* Mutant: the schedule is left to its timer.                              *)
ClickUnpushed(what) ==
  /\ commit.at \in {"idle", "failed"} /\ Editable
  /\ edits < MaxEdits /\ edits' = edits + 1
  /\ what = "schedule" => known
  /\ Settled("click early")
  /\ commit' = [at |-> "busy", what |-> what, page |-> Page]
  /\ Send([kind |-> "act", what |-> what])
  /\ UNCHANGED <<draft, editor, timer, known>>

(* commit(): push the schedule, then schedule the post or submit it.        *)
Click(what) ==
  /\ commit.at \in {"idle", "failed"} /\ Editable
  /\ edits < MaxEdits /\ edits' = edits + 1
  /\ what = "schedule" => known
  /\ Settled("click early")
  /\ commit' = [at |-> "busy", what |-> what, page |-> Page]
  /\ Send([kind |-> "schedule", mode |-> editor.sched, from |-> "commit"])
  /\ UNCHANGED <<draft, editor, timer, known>>

(* schedulePost validates first; resolving a queued post, which has no      *)
(* instant, throws.  submitForApproval takes the draft as it is.            *)
ActArrives(r) ==
  /\ r.kind = "act"
  /\ LET ok == Editable /\ (r.what = "schedule" => CanSchedule /\ draft.sched # "queue") IN
       /\ commit' = [commit EXCEPT !.at = IF ok THEN "done" ELSE "failed"]
       /\ draft' = IF ok THEN [draft EXCEPT !.status = IF r.what = "schedule" THEN "scheduled"
                                                       ELSE "pending_approval",
                                            !.frozen = Stored] ELSE draft
  /\ Gone(r)
  /\ UNCHANGED <<editor, timer, known, edits>>

ComposerNext ==
  \/ \E v \in Texts : Type(v)
  \/ \E p \in PageTabs : SwitchTab(p)
  \/ \E m \in Modes : ChangeSchedule(m)
  \/ \E fs \in SUBSET Files : Attach(fs)
  \/ \E w \in {"schedule", "submit"} : Click(w)
  \/ TextTimer \/ ScheduleTimer \/ Revert \/ Toggle \/ Revalidate
  \/ \E r \in requests :
       \/ UpdateReads(r) \/ UpdateWrites(r) \/ OverrideArrives(r) \/ RevertArrives(r)
       \/ ToggleArrives(r) \/ ScheduleArrives(r) \/ SaveFails(r) \/ ActArrives(r)

ComposerSpec == ComposerInit /\ [][ComposerNext]_composerVars

-----------------------------------------------------------------------------
(* What is scheduled or submitted is what the page showed when the button   *)
(* was clicked: every target's text, every attached file and the schedule,  *)
(* one still waiting for its timer included.                                *)
ScheduledAsShown == commit.at = "done" => draft.frozen = commit.page
=============================================================================
