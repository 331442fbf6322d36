------------------------------- MODULE Alerts -------------------------------
(***************************************************************************)
(* Notifications: cron ticks and business changes put events in the        *)
(* outbox; dispatchNotificationsTick (src/notifications/dispatcher.ts)     *)
(* turns each into one row per recipient, keyed so that a repeated signal  *)
(* alerts once, and mails it.  Two dispatch ticks may run at once.  An     *)
(* event is routed in one transaction; marking it notified is another.     *)
(*                                                                         *)
(* One workspace.  A channel is in_app or email: Slack is sent like email, *)
(* best effort after the row, and its failure is swallowed as well.        *)
(***************************************************************************)
EXTENDS Naturals, Sequences, FiniteSets

CONSTANTS
  Members,    \* function: the role of each member
  Author,     \* the author of the posts, a member
  Causes,     \* kinds of business changes that may happen
  Markets,    \* time zones with active queue slots
  Ticks,      \* concurrent dispatch ticks
  MaxEvents,  \* outbox rows in a behaviour (a bound)
  MaxDisturbed \* failed routes, crashes, changes of preferences and of queue
               \* levels in a behaviour, together (a bound)

Teammates == DOMAIN Members
Channels == {"in_app", "email"}
EventKinds == {"publish_failed", "account_reconnect", "needs_approval", "post_approved",
               "post_changes_requested", "queue_low", "weekly_summary", "mention"}

ASSUME AlertsAssumption ==
  /\ IsFiniteSet(Teammates) /\ Author \in Teammates
  /\ Causes \subseteq EventKinds \ {"queue_low", "weekly_summary"}
  /\ {MaxEvents, MaxDisturbed} \subseteq Nat

VARIABLES
  log,       \* the events table, in order of occurred_at
  notified,  \* positions of log with notified_at set
  overrides, \* notification_preferences: user and kind to the channels on
  alerts,    \* notifications rows by dedupe key: channels, read, their event
  route,     \* each tick: positions left, the routing transaction, its recipients
  mailed,    \* history: mails sent, by dedupe key
  failed,    \* history: positions whose routing failed and rolled back
  low,       \* markets with fewer than QUEUE_LOW_THRESHOLD posts to come
  disturbed  \* faults and changes so far
alertsVars == <<log, notified, overrides, alerts, route, mailed, failed, low, disturbed>>

WithRole(roles) == {u \in Teammates : Members[u] \in roles}

(* Who an event is for: routeEvent.                                         *)
Recipients(e) ==
  CASE e.kind = "account_reconnect" -> WithRole({"owner", "approver"})
    [] e.kind = "publish_failed"    -> {Author} \cup WithRole({"owner"})
    [] e.kind = "needs_approval"    -> WithRole({"owner", "approver"}) \ {Author}
    [] e.kind \in {"post_approved", "post_changes_requested"} -> {Author}
    [] e.kind = "mention"           -> e.mentions
    [] e.kind = "queue_low"         -> WithRole({"owner", "approver"})
    [] e.kind = "weekly_summary"    -> WithRole({"owner", "approver", "editor", "analyst"})

(* What an alert is about, for its dedupe key: the day of a low queue and   *)
(* the occurrence of anything else are not part of it.                      *)
Key(e, u) == <<e.kind, e.about, u>>

DEFAULTS(kind) == IF kind = "queue_low" THEN {"in_app"} ELSE Channels

EnabledChannels(u, kind) ==
  IF <<u, kind>> \in DOMAIN overrides THEN overrides[<<u, kind>>] ELSE DEFAULTS(kind)

NoRoute == [at |-> "idle", batch |-> {}, todo |-> {}, keys |-> {}]
Earliest(S) == CHOOSE i \in S : \A j \in S : i <= j
Current(p) == Earliest(route[p].batch)
Open(p) == route[p].at = "routing"
HeldByOther(p, k) == \E q \in Ticks \ {p} : Open(q) /\ k \in route[q].keys

AlertsInit ==
  /\ log = <<>> /\ notified = {}
  /\ overrides = <<>>
  /\ alerts = <<>>
  /\ route = [p \in Ticks |-> NoRoute]
  /\ mailed = <<>> /\ failed = {}
  /\ low = Markets
  /\ disturbed = [faults |-> 0, changes |-> 0]

-----------------------------------------------------------------------------
(* Where events come from.                                                  *)
Emit(e) ==
  /\ Len(log) < MaxEvents
  /\ log' = Append(log, e)
  /\ UNCHANGED <<notified, overrides, alerts, route, mailed, failed, low, disturbed>>

(* A change of a post or an account commits with its event.                 *)
Happens(kind) ==
  /\ kind \in Causes \ {"mention"}
  /\ Emit([kind |-> kind, about |-> "post", mentions |-> {}])

(* addComment: real members only, and never the commenter.                  *)
AddComment(by, mentions) ==
  /\ "mention" \in Causes
  /\ mentions \cap Teammates # {}
  /\ Emit([kind |-> "mention", about |-> "post",
           mentions |-> (mentions \cap Teammates) \ {by}])

(* weeklySummaryTick; a task that died is run again for the same week.      *)
WeeklySummaryTick ==
  Emit([kind |-> "weekly_summary", about |-> 0, mentions |-> {}])

QueueLowTick(m) ==
  /\ m \in low
  /\ Emit([kind |-> "queue_low", about |-> m, mentions |-> {}])

Undisturbed == disturbed.faults + disturbed.changes < MaxDisturbed

Change ==
  /\ Undisturbed
  /\ disturbed' = [disturbed EXCEPT !.changes = @ + 1]

QueueMoves(m) ==
  /\ low' = IF m \in low THEN low \ {m} ELSE low \cup {m}
  /\ Change
  /\ UNCHANGED <<log, notified, overrides, alerts, route, mailed, failed>>

-----------------------------------------------------------------------------
(* dispatchNotificationsTick                                                *)

SetRoute(p, r) == route' = [route EXCEPT ![p] = r]

(* The events of a batch are routed one after another, by occurred_at.      *)
Routing(batch) ==
  IF batch = {} THEN NoRoute
  ELSE [at |-> "routing", batch |-> batch, todo |-> Recipients(log[Earliest(batch)]),
        keys |-> {}]

(* Mutant: the batch is marked when it is read.                             *)
StartTickMarking(p) ==
  /\ route[p].at = "idle" /\ DOMAIN log \ notified # {}
  /\ SetRoute(p, Routing(DOMAIN log \ notified))
  /\ notified' = DOMAIN log
  /\ UNCHANGED <<log, overrides, alerts, mailed, failed, low, disturbed>>

StartTick(p) ==
  /\ route[p].at = "idle" /\ DOMAIN log \ notified # {}
  /\ SetRoute(p, Routing(DOMAIN log \ notified))
  /\ UNCHANGED <<log, notified, overrides, alerts, mailed, failed, low, disturbed>>

Mail(k) == mailed' = [x \in DOMAIN mailed \cup {k} |->
                        (IF x \in DOMAIN mailed THEN mailed[x] ELSE 0) + (IF x = k THEN 1 ELSE 0)]

(* Mutant: the mail does not wait for the row.                              *)
DeliverAnyway(p, u) ==
  LET k == Key(log[Current(p)], u)
      chans == EnabledChannels(u, log[Current(p)].kind)
  IN  /\ Open(p) /\ u \in route[p].todo
      /\ SetRoute(p, [route[p] EXCEPT !.todo = @ \ {u},
                   !.keys = IF chans = {} \/ k \in DOMAIN alerts THEN @ ELSE @ \cup {k}])
      /\ IF "email" \in chans THEN Mail(k) ELSE UNCHANGED mailed
      /\ UNCHANGED <<log, notified, overrides, alerts, failed, low, disturbed>>

(* deliver: the row is inserted, waiting for another transaction that has   *)
(* inserted its key; a row that is there already is the end of it.          *)
Deliver(p, u) ==
  LET k == Key(log[Current(p)], u)
      chans == EnabledChannels(u, log[Current(p)].kind)
      inserts == chans # {} /\ k \notin DOMAIN alerts
  IN  /\ Open(p) /\ u \in route[p].todo
      /\ chans # {} => ~HeldByOther(p, k)
      /\ SetRoute(p, [route[p] EXCEPT !.todo = @ \ {u}, !.keys = IF inserts THEN @ \cup {k} ELSE @])
      /\ IF inserts /\ "email" \in chans THEN Mail(k) ELSE UNCHANGED mailed
      /\ UNCHANGED <<log, notified, overrides, alerts, failed, low, disturbed>>

CommitRoute(p) ==
  /\ Open(p) /\ route[p].todo = {}
  /\ alerts' = [k \in DOMAIN alerts \cup route[p].keys |->
                  IF k \in DOMAIN alerts THEN alerts[k]
                  ELSE [chans |-> EnabledChannels(k[3], k[1]), read |-> FALSE]]
  /\ SetRoute(p, [route[p] EXCEPT !.at = "mark", !.keys = {}])
  /\ UNCHANGED <<log, notified, overrides, mailed, failed, low, disturbed>>

(* A refused or deadlocked statement: all rows of this event are undone,    *)
(* the mails are not, and the tick goes on to mark the event.               *)
RouteFails(p) ==
  /\ Open(p) /\ Undisturbed
  /\ disturbed' = [disturbed EXCEPT !.faults = @ + 1]
  /\ failed' = failed \cup {Current(p)}
  /\ SetRoute(p, [route[p] EXCEPT !.at = "mark", !.todo = {}, !.keys = {}])
  /\ UNCHANGED <<log, notified, overrides, alerts, mailed, low>>

MarkNotified(p) ==
  /\ route[p].at = "mark"
  /\ notified' = notified \cup {Current(p)}
  /\ SetRoute(p, Routing(route[p].batch \ {Current(p)}))
  /\ UNCHANGED <<log, overrides, alerts, mailed, failed, low, disturbed>>

CrashTick(p) ==
  /\ route[p].at # "idle" /\ Undisturbed
  /\ disturbed' = [disturbed EXCEPT !.faults = @ + 1]
  /\ SetRoute(p, NoRoute)
  /\ UNCHANGED <<log, notified, overrides, alerts, mailed, failed, low>>

-----------------------------------------------------------------------------
(* The member's side: the settings page and the bell.                       *)
SetPreference(u, kind, ch, on) ==
  overrides' = [x \in DOMAIN overrides \cup {<<u, kind>>} |->
     IF x = <<u, kind>>
     THEN IF on THEN EnabledChannels(u, kind) \cup {ch} ELSE EnabledChannels(u, kind) \ {ch}
     ELSE overrides[x]]

(* A cell of the matrix sends the opposite of what it shows, which may be   *)
(* what the server had before the last change: either value.                *)
TogglePreference(u, kind, ch, on) ==
  /\ SetPreference(u, kind, ch, on)
  /\ Change
  /\ UNCHANGED <<log, notified, alerts, route, mailed, failed, low>>

ListNotifications(u) == {k \in DOMAIN alerts : k[3] = u /\ "in_app" \in alerts[k].chans}

MarkNotificationRead(k) == alerts' = [alerts EXCEPT ![k].read = TRUE]

(* A notification of the bell is opened.                                    *)
OpenNotification(u, k) ==
  /\ k \in ListNotifications(u) /\ ~alerts[k].read
  /\ MarkNotificationRead(k)
  /\ UNCHANGED <<log, notified, overrides, route, mailed, failed, low, disturbed>>

AlertsNext ==
  \/ \E k \in Causes : Happens(k)
  \/ \E u \in Teammates, S \in SUBSET Teammates : AddComment(u, S)
  \/ WeeklySummaryTick
  \/ \E m \in Markets : QueueLowTick(m) \/ QueueMoves(m)
  \/ \E p \in Ticks :
       \/ StartTick(p) \/ CommitRoute(p) \/ RouteFails(p)
       \/ MarkNotified(p) \/ CrashTick(p)
       \/ \E u \in Teammates : Deliver(p, u)
  \/ \E u \in Teammates, c \in Channels, k \in Causes, on \in BOOLEAN :
       TogglePreference(u, k, c, on)
  \/ \E u \in Teammates, k \in DOMAIN alerts : OpenNotification(u, k)

AlertsSpec == AlertsInit /\ [][AlertsNext]_alertsVars

-----------------------------------------------------------------------------
(* An alert is mailed again only for a routing that was rolled back or died *)
(* after its mail: never because ticks overlap or a signal repeats.         *)
MailedOnce == \A k \in DOMAIN mailed : mailed[k] <= 1 + disturbed.faults

(* An event that was marked without its routing failing has reached every   *)
(* recipient who left the kind as it was, whichever tick got where first.   *)
AlertsArrive ==
  \A i \in notified \ failed : \A u \in Recipients(log[i]) :
    <<u, log[i].kind>> \notin DOMAIN overrides => Key(log[i], u) \in DOMAIN alerts
=============================================================================
