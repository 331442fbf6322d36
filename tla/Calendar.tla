------------------------------- MODULE Calendar -----------------------------
(***************************************************************************)
(* The calendar page (web Calendar.tsx, calendarLogic.ts, EventDetail.tsx) *)
(* over listCalendar and rescheduleTarget (src/scheduling/board.ts).  The  *)
(* page asks for a range of UTC days around its cells and places what it   *)
(* gets in the viewing zone, which the range does not know.                *)
(*                                                                         *)
(* Instants are hours since a Monday, 0:00 UTC; a day is a number.  Zones  *)
(* keep one offset here: their changes are WallClock's subject.            *)
(***************************************************************************)
EXTENDS Integers, Sequences

CONSTANTS
  MonthStarts,   \* first days of consecutive months
  Anchors,       \* days the page may be opened on
  Offsets,       \* offsets of the viewing zones, in hours
  Entries,       \* scheduled or published targets
  EntryHours,    \* instants an entry may have
  ServerNow,     \* the server's clock: entries move to later instants only
  MaxTurns       \* turns of pages and moves in a behaviour (a bound)

ASSUME CalendarAssumption ==
  /\ EntryHours \cup {ServerNow} \subseteq Int
  /\ MonthStarts \in Seq(Int) /\ MonthStarts # <<>>
  /\ Anchors \subseteq MonthStarts[1] .. MonthStarts[Len(MonthStarts)] - 1
  /\ Offsets \subseteq -12 .. 14
  /\ MaxTurns \in Nat

VARIABLES
  entry,   \* per target: state and hour, in the database
  cal,     \* the page: view, anchor, viewing zone
  held,    \* what it last read: entries, and the hours from and to; fresh
           \* until somebody else moves an entry
  moving,  \* the drop being confirmed, and the reason the last one was refused
  turns
calendarVars == <<entry, cal, held, moving, turns>>

Views == {"month", "week"}

MonthOf(day) == CHOOSE m \in 1 .. Len(MonthStarts) - 1 :
                  MonthStarts[m] <= day /\ day < MonthStarts[m + 1]
Monday(day) == day - (day % 7)

(* First and last cell: six weeks around a month, or one week.              *)
MonthGrid(day) == LET first == Monday(MonthStarts[MonthOf(day)]) IN <<first, first + 41>>
WeekGrid(day) == <<Monday(day), Monday(day) + 6>>
Cells(c) == IF c.view = "month" THEN MonthGrid(c.anchor) ELSE WeekGrid(c.anchor)

(* Mutant: the days of the cells, as if they were days of UTC.              *)
RangeForCells(c) == <<Cells(c)[1] * 24, (Cells(c)[2] + 1) * 24>>
RangeFor(c) == <<(Cells(c)[1] - 1) * 24, (Cells(c)[2] + 2) * 24>>

(* The date of an instant in a zone, and an instant by its date there.      *)
ZonedDate(hour, offset) == (hour + offset) \div 24
InstantAt(day, hourOfDay, offset) == day * 24 + hourOfDay - offset

(* listCalendar: the targets with an instant in the range, drafts aside.    *)
ListCalendar(entries, range) ==
  {<<e, entries[e]>> : e \in {x \in Entries : range[1] <= entries[x].hour /\ entries[x].hour < range[2]}}

Read(entries, c) ==
  [events |-> ListCalendar(entries, RangeFor(c)), range |-> RangeFor(c), fresh |-> TRUE]

Still == [entry |-> "none", to |-> 0, refused |-> FALSE]

CalendarInit ==
  /\ entry \in [Entries -> [state : {"scheduled", "published"}, hour : EntryHours]]
  /\ cal \in [view : {"month"}, anchor : Anchors, zone : Offsets]
  /\ held = Read(entry, cal)
  /\ moving = Still
  /\ turns = 0

Once == turns < MaxTurns /\ turns' = turns + 1

-----------------------------------------------------------------------------
(* The page turns to another grid: the events of its range, which only the  *)
(* cells determine, are read unless they are there and fresh.               *)
TurnTo(c) ==
  /\ cal' = c
  /\ held' = IF RangeFor(c) = held.range /\ held.fresh THEN held
             ELSE Read(entry, c)
  /\ UNCHANGED <<entry, moving>>

SetView(v) == Once /\ v # cal.view /\ TurnTo([cal EXCEPT !.view = v])

(* The same day of another month, or the day that many days after its first. *)
ShiftAnchor(n) ==
  LET m == MonthOf(cal.anchor)
      day == IF cal.view = "week" THEN cal.anchor + 7 * n
             ELSE MonthStarts[m + n] + (cal.anchor - MonthStarts[m])
  IN  /\ Once
      /\ cal.view = "week" \/ m + n \in 1 .. Len(MonthStarts) - 1
      /\ MonthStarts[1] <= day /\ day < MonthStarts[Len(MonthStarts)]
      /\ TurnTo([cal EXCEPT !.anchor = day])

(* Another viewing zone places the same events anew.                        *)
SetViewZone(z) ==
  /\ Once /\ z # cal.zone
  /\ cal' = [cal EXCEPT !.zone = z]
  /\ UNCHANGED <<entry, held, moving>>

(* An entry dropped on a cell: the date of the cell and the time of day the *)
(* page shows, both of the viewing zone.                                    *)
Drop(e, day) ==
  /\ Once /\ moving.entry = "none"
  /\ \E shown \in held.events :
       /\ shown[1] = e /\ shown[2].state = "scheduled"
       /\ moving' = [entry |-> e, refused |-> FALSE,
                     to |-> InstantAt(day, (shown[2].hour + cal.zone) % 24, cal.zone)]
  /\ UNCHANGED <<entry, cal, held>>

(* rescheduleTarget answers: the entry has moved and the page reads again,  *)
(* or it stays where it was.                                                *)
Confirm ==
  LET e == moving.entry
      ok == e # "none" /\ entry[e].state = "scheduled" /\ moving.to > ServerNow
  IN  /\ e # "none"
      /\ entry' = IF ok THEN [entry EXCEPT ![e].hour = moving.to] ELSE entry
      /\ held' = IF ok THEN Read(entry', cal) ELSE held
      /\ moving' = [Still EXCEPT !.refused = ~ok]
      /\ UNCHANGED <<cal, turns>>

(* The pipeline publishes an entry, or another member moves it.             *)
Elsewise(e, r) ==
  /\ Once /\ entry[e].state = "scheduled" /\ r # entry[e]
  /\ entry' = [entry EXCEPT ![e] = r]
  /\ held' = [held EXCEPT !.fresh = FALSE]
  /\ UNCHANGED <<cal, moving>>

CalendarNext ==
  \/ \E v \in Views : SetView(v)
  \/ \E n \in {-1, 1} : ShiftAnchor(n)
  \/ \E z \in Offsets : SetViewZone(z)
  \/ \E e \in Entries :
       \/ \E i \in {1, 2} : Drop(e, Cells(cal)[i])
       \/ \E s \in {"scheduled", "published"}, h \in EntryHours :
            Elsewise(e, [state |-> s, hour |-> h])
  \/ Confirm

CalendarSpec == CalendarInit /\ [][CalendarNext]_calendarVars

-----------------------------------------------------------------------------
(* Every entry whose date in the viewing zone is one of the cells is on the *)
(* page, at the instant it has, in every zone and on every grid, unless     *)
(* somebody moved it since the page last read.                              *)
CalendarShowsAll ==
  held.fresh =>
    \A e \in Entries :
      LET date == ZonedDate(entry[e].hour, cal.zone)
      IN  Cells(cal)[1] <= date /\ date <= Cells(cal)[2] => <<e, entry[e]>> \in held.events
=============================================================================
