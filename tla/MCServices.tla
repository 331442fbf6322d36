----------------------------- MODULE MCServices ------------------------------
(***************************************************************************)
(* The services of the back end and the pages of the web application that  *)
(* share no state, model-checked side by side: a behaviour is one of one   *)
(* part, chosen at the start, and the others stay as they are.             *)
(***************************************************************************)
EXTENDS Workspaces, Sessions, PublicApi, Alerts, Media, ChunkedUpload, Analytics,
        WallClock, Slots, Providers, Content, Composer, Connect, Board, Calendar

CONSTANT Parts
VARIABLE part

(* The library: what fits, what is cropped, what cannot be, what is missing. *)
MCLibrary ==
  [a \in {"small", "wide", "clip", "long clip", "pending", "unsized", "gone"} |->
     IF a = "gone" THEN Unset
     ELSE [kind    |-> IF a \in {"clip", "long clip"} THEN "video" ELSE "image",
           status  |-> IF a = "pending" THEN "processing" ELSE "ready",
           bytes   |-> IF a = "long clip" THEN 9 ELSE 1,
           width   |-> IF a = "unsized" THEN 0 ELSE IF a \in {"wide", "clip"} THEN 199 ELSE 80,
           height  |-> IF a = "long clip" THEN 200 ELSE 81,
           seconds |-> IF a = "long clip" THEN 90 ELSE 10]]

(* Two networks: one that splits texts, one with shapes.                    *)
Threaded ==
  [limit |-> 5, thread |-> TRUE, linksCount |-> TRUE, kinds |-> {"image", "video"},
   min |-> 0, max |-> 4, shapes |-> {}, tolerance |-> 5, maxSeconds |-> 60,
   maxImage |-> 5, maxVideo |-> 5, comment |-> FALSE, surface |-> "public_feed"]
Shaped ==
  [Threaded EXCEPT !.thread = FALSE, !.linksCount = FALSE, !.min = 1, !.max = 1,
     !.shapes = {<<1, 1>>, <<4, 5>>, <<16, 9>>}, !.comment = TRUE, !.surface = "channel"]

TextOf(sentences, tags) == [body |-> sentences, tags |-> tags, glued |-> FALSE]
Sentences == UNION {[1 .. n -> 1 .. 4] : n \in 1 .. 2}
AnyText == {TextOf(b, g) : b \in UNION {[1 .. n -> Sentences] : n \in 0 .. 2},
                           g \in {<<>>, <<2>>, <<2, 3>>}}
Untouched == [text |-> Unset, link |-> Unset, comment |-> Unset, media |-> Unset]
Long == TextOf(<< <<3, 3>> >>, <<>>)

MCDrafts ==
  {[caps |-> Threaded, parent |-> [text |-> t, link |-> 0, comment |-> "", media |-> <<>>],
    over |-> Untouched, account |-> "active", schedule |-> "fixed"] : t \in AnyText}
  \cup
  {[caps |-> c,
    parent |-> [text |-> TextOf(<< <<4>> >>, <<>>), link |-> l, comment |-> "a", media |-> m],
    over |-> [text |-> t, link |-> Unset, comment |-> k, media |-> o],
    account |-> a, schedule |-> s] :
      c \in {Threaded, Shaped}, l \in {0, 3}, m \in {<<>>, <<"small">>, <<"wide", "small">>},
      t \in {Unset, Long}, k \in {Unset, ""},
      o \in {Unset, <<>>, <<"clip">>, <<"long clip">>, <<"pending">>, <<"gone", "unsized">>},
      a \in {"active", "auth_expired"}, s \in {"none", "fixed", "fixed past", "queued"}}

MCMembers == [o |-> "owner", e |-> "editor"]

(* A zone goes forward or back by an hour or by half an hour, or stays; two *)
(* are at the edges of the half day, one beyond.                            *)
MCZones == {[before |-> z[1], after |-> z[2]] :
              z \in {<<-10, -8>>, <<-8, -10>>, <<11, 11>>, <<21, 22>>, <<22, 21>>, <<22, 24>>, <<-24, -22>>, <<24, 26>>}}

(* January to March of 2026, in days since a Monday; a half day and more    *)
(* around the first and last cells of February's grid and of two weeks.     *)
MCMonthStarts == <<3, 34, 62, 93>>
MCOffsets == {-12, 0, 14}
MCHours == {28 * 24 - 14, 28 * 24 + 12, 35 * 24 + 11, 56 * 24 - 14, 70 * 24 - 15, 70 * 24 + 11}

(* A part that is not chosen starts in one state of its own.                *)
Init ==
  /\ part \in Parts
  /\ WorkspacesInit
  /\ SessionsInit
  /\ PublicApiInit
  /\ AlertsInit
  /\ MediaInit
  /\ ChunkedInit
  /\ AnalyticsInit
  /\ part = "metrics" \/ cursor = [t \in Targets |-> Null]
  /\ WallClockInit
  /\ SlotsInit
  /\ part = "queue" \/ slots = {0}
  /\ ProvidersInit
  /\ part = "adapters" \/ network = "fake"
  /\ ContentInit
  /\ ComposerInit
  /\ ConnectInit
  /\ BoardInit
  /\ IF part = "pages" THEN board[3].state \in {"absent", "scheduled"}
     ELSE board = [c \in Cards |-> Blank]
  /\ CalendarInit
  /\ part = "calendar" \/ (cal.anchor = 34 /\ cal.zone = 0
                            /\ entry = [e \in Entries |-> [state |-> "published", hour |-> 28 * 24 + 12]])

(* The parts with the most states come last: TLC evaluates what follows a   *)
(* part once for each of its successors.                                    *)
Next ==
  /\ UNCHANGED part
  /\ IF part = "exports" THEN ExportNext ELSE UNCHANGED exportVars
  /\ IF part = "upload" THEN ChunkedNext ELSE UNCHANGED chunkedVars
  /\ IF part = "wall clock" THEN WallClockNext ELSE UNCHANGED wallClockVars
  /\ IF part = "adapters" THEN ProvidersNext ELSE UNCHANGED providersVars
  /\ IF part = "content" THEN ContentNext ELSE UNCHANGED contentVars
  /\ IF part = "calendar" THEN CalendarNext ELSE UNCHANGED calendarVars
  /\ IF part = "composer" THEN ComposerNext ELSE UNCHANGED composerVars
  /\ IF part = "connect" THEN ConnectNext ELSE UNCHANGED connectVars
  /\ IF part = "media" THEN MediaNext ELSE UNCHANGED mediaVars
  /\ IF part = "queue" THEN SlotsNext ELSE UNCHANGED slotsVars
  /\ IF part = "public api" THEN PublicApiNext ELSE UNCHANGED publicApiVars
  /\ IF part = "alerts" THEN AlertsNext ELSE UNCHANGED alertsVars
  /\ IF part = "metrics" THEN MetricsNext ELSE UNCHANGED metricsVars
  /\ IF part = "members" THEN WorkspacesNext ELSE UNCHANGED workspacesVars
  /\ IF part = "sessions" THEN SessionsNext ELSE UNCHANGED sessionsVars
  /\ IF part = "pages" THEN BoardNext ELSE UNCHANGED boardVars

Spec == Init /\ [][Next]_<<part, workspacesVars, sessionsVars, publicApiVars, alertsVars, mediaVars,
                    chunkedVars, metricsVars, exportVars, wallClockVars, slotsVars,
                    providersVars, contentVars, composerVars, connectVars, boardVars, calendarVars>>
=============================================================================
