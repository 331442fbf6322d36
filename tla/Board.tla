-------------------------------- MODULE Board -------------------------------
(***************************************************************************)
(* The lists that are read page by page: the queue's groups                *)
(* (src/scheduling/board.ts, web Queue.tsx) and the public API's           *)
(* collections (src/api/pagination.ts).  A reader follows cursors while    *)
(* rows are created, published, moved, canceled and retried, by the        *)
(* reader itself from the queue's page and by everybody else.              *)
(*                                                                         *)
(* Instants are small numbers, so that rows of one instant are common, as  *)
(* they are for the rows one transaction inserts.                          *)
(***************************************************************************)
EXTENDS Naturals, Sequences, FiniteSets

CONSTANTS
  Cards,       \* ids of rows, ordered: numbers
  PageSize,    \* rows of a page
  MaxInstant,  \* the last instant (a bound)
  MaxStirs,    \* changes of rows in a behaviour (a bound)
  Never        \* no instant, no cursor

ASSUME BoardAssumption ==
  /\ Cards \subseteq Nat /\ IsFiniteSet(Cards)
  /\ PageSize \in Nat \ {0} /\ {MaxInstant, MaxStirs} \subseteq Nat
  /\ Never \notin Nat \cup (Nat \X Nat)

VARIABLES
  board,    \* per row: state, publish_due_at, published_at, created_at
  instant,  \* the database's clock
  listing,  \* the reader: list, rows shown and how many pages they were, the pages
            \* being fetched, cursor, pages wanted, whether a fetch is under way
  ticked,   \* rows selected on the page
  settled,  \* history: rows of the list that kept their place since its
            \* first page was read
  stirs
boardVars == <<board, instant, listing, ticked, settled, stirs>>

STATE_GROUPS ==
  [upcoming |-> {"scheduled", "publishing", "reconciling"}, drafts |-> {"draft"},
   published |-> {"published"}, failed |-> {"failed", "needs_review"},
   api |-> {"scheduled", "publishing", "reconciling", "draft", "published",
            "failed", "needs_review", "canceled"}]
Lists == DOMAIN STATE_GROUPS

(* History is read from the most recent row on, the plans from the next.    *)
Recent(list) == list \in {"published", "failed", "api"}

(* evt: when it was published, else when it is due, else when it was made.  *)
Evt(row) == IF row.published # Never THEN row.published
            ELSE IF row.due # Never THEN row.due ELSE row.created

(* What a list is ordered by: evt, or the immutable created_at; then the id. *)
PlaceIn(b, list, c) ==
  <<IF list = "api" THEN b[c].created ELSE Evt(b[c]), c>>
Place(list, c) == PlaceIn(board, list, c)

Lower(a, b) == a[1] < b[1] \/ (a[1] = b[1] /\ a[2] < b[2])
Beyond(list, a, b) == IF Recent(list) THEN Lower(a, b) ELSE Lower(b, a)

ListedIn(b, list) == {c \in Cards : b[c].state \in STATE_GROUPS[list]}
Listed(list) == ListedIn(board, list)

(* The first n of some rows of a list, in its order; what limit n leaves.   *)
Earlier(list, S, c) == {d \in S : Beyond(list, Place(list, c), Place(list, d))}
FirstRows(list, S, n) == {c \in S : Cardinality(Earlier(list, S, c)) < n}

(* The query: the rows beyond the cursor, one more than a page holds.       *)
Query(list, cursor) ==
  FirstRows(list, {c \in Listed(list) : cursor = Never \/ Beyond(list, Place(list, c), cursor)},
            PageSize + 1)

(* The cursor: the place of the last of some rows.                          *)
LastPlace(list, S) ==
  Place(list, CHOOSE c \in S : \A d \in S \ {c} : Beyond(list, Place(list, c), Place(list, d)))

(* Mutant: the cursor is the row that did not fit any more.                 *)
PageOfNext(list, cursor) ==
  LET fetched == Query(list, cursor) IN
  IF Cardinality(fetched) <= PageSize THEN [data |-> fetched, next |-> Never]
  ELSE [data |-> FirstRows(list, fetched, PageSize), next |-> LastPlace(list, fetched)]

PageOf(list, cursor) ==
  LET fetched == Query(list, cursor)
      data == FirstRows(list, fetched, PageSize)
  IN  IF Cardinality(fetched) <= PageSize THEN [data |-> fetched, next |-> Never]
      ELSE [data |-> data, next |-> LastPlace(list, data)]

Blank == [state |-> "absent", due |-> Never, published |-> Never, created |-> Never]
Opened(list, wanted) ==
  [list |-> list, shown |-> {}, pages |-> 0, fetched |-> <<>>, cursor |-> Never,
   wanted |-> wanted, busy |-> TRUE]

(* The targets of one post are inserted together and share created_at; some *)
(* were scheduled, published or failed since.                               *)
Inserted ==
  LET row(s, d, p) == [state |-> s, due |-> d, published |-> p, created |-> 0]
  IN  {row("draft", Never, Never), row("scheduled", 1, Never), row("published", 0, 0),
       row("failed", 0, Never)}
BoardInit ==
  /\ board \in [Cards -> {Blank} \cup Inserted]
  /\ instant = 0
  /\ listing = Opened("upcoming", 1)
  /\ ticked = {} /\ settled = Listed("upcoming")
  /\ stirs = 0

-----------------------------------------------------------------------------
(* The reader                                                               *)

(* A group of the queue, or a client of the API that starts a collection.   *)
OpenList(list) ==
  /\ list # listing.list
  /\ listing' = Opened(list, 1)
  /\ ticked' = {}
  /\ settled' = Listed(list)
  /\ UNCHANGED <<board, instant, stirs>>

(* A page arrives.  The pages of a list are replaced together, when as many *)
(* as were there before have been read again.                               *)
FetchPage ==
  LET got == PageOf(listing.list, listing.cursor)
      all == Append(listing.fetched, got.data)
      done == Len(all) >= listing.wanted \/ got.next = Never
  IN  /\ listing.busy
      /\ listing' = [listing EXCEPT !.fetched = all, !.cursor = got.next, !.busy = ~done,
                       !.shown = IF done THEN {c \in Cards : \E i \in DOMAIN all : c \in all[i]} ELSE @,
                       !.pages = IF done THEN Len(all) ELSE @]
      /\ settled' = IF listing.fetched = <<>> THEN Listed(listing.list) ELSE settled
      /\ UNCHANGED <<board, instant, ticked, stirs>>

HasNextPage == listing.fetched # <<>> /\ listing.cursor # Never

LoadMore ==
  /\ ~listing.busy /\ HasNextPage
  /\ listing' = [listing EXCEPT !.wanted = Len(listing.fetched) + 1, !.busy = TRUE]
  /\ UNCHANGED <<board, instant, ticked, settled, stirs>>

ToggleCard(c) ==
  /\ c \in listing.shown /\ listing.list # "api"
  /\ ticked' = IF c \in ticked THEN ticked \ {c} ELSE ticked \cup {c}
  /\ UNCHANGED <<board, instant, listing, settled, stirs>>

-----------------------------------------------------------------------------
(* What happens to rows                                                     *)

(* Rows become b; those of the list that stay in place stay settled.        *)
Stir(b) ==
  /\ stirs < MaxStirs /\ b # board
  /\ board' = b
  /\ stirs' = stirs + 1
  /\ settled' = {c \in settled \cap ListedIn(b, listing.list) :
                 PlaceIn(b, listing.list, c) = Place(listing.list, c)}
  /\ UNCHANGED instant

(* invalidateAll: every page that is shown is read again; one more that was *)
(* being loaded is given up.                                                *)
Invalidated ==
  listing' = [Opened(listing.list, listing.pages) EXCEPT !.shown = listing.shown, !.pages = listing.pages]

Elsewhere == UNCHANGED <<listing, ticked>>

CreateCard(c) ==
  /\ board[c].state = "absent"
  /\ Stir([board EXCEPT ![c] = [Blank EXCEPT !.state = "draft", !.created = instant]])
  /\ Elsewhere
ScheduleCard(c, t) ==
  /\ board[c].state = "draft" /\ t > instant
  /\ Stir([board EXCEPT ![c].state = "scheduled", ![c].due = t])
  /\ Elsewhere
PublishCard(c) ==
  /\ board[c].state = "scheduled" /\ board[c].due <= instant
  /\ \/ Stir([board EXCEPT ![c].state = "published", ![c].published = instant])
     \/ Stir([board EXCEPT ![c].state = "failed"])
  /\ Elsewhere

(* rescheduleTargets, for the targets that may move.                        *)
Reschedule(S, t) ==
  [c \in Cards |-> IF c \in S /\ board[c].state = "scheduled" /\ t > instant
                   THEN [board[c] EXCEPT !.due = t] ELSE board[c]]

(* One event dragged on the calendar, by anybody.                           *)
DragCard(c, t) == Stir(Reschedule({c}, t)) /\ Elsewhere

BulkReschedule(t) ==
  /\ ticked # {} /\ Stir(Reschedule(ticked, t))
  /\ Invalidated /\ ticked' = {}
BulkCancel ==
  /\ ticked # {}
  /\ Stir([c \in Cards |-> IF c \in ticked /\ board[c].state \in {"scheduled", "draft"}
                           THEN [board[c] EXCEPT !.state = "canceled", !.due = Never] ELSE board[c]])
  /\ Invalidated /\ ticked' = {}
RetryCard(c) ==
  /\ c \in listing.shown /\ listing.list = "failed"
  /\ board[c].state \in {"failed", "needs_review"}
  /\ Stir([board EXCEPT ![c].state = "scheduled", ![c].due = instant])
  /\ Invalidated /\ UNCHANGED ticked

Passes ==
  /\ instant < MaxInstant
  /\ instant' = instant + 1
  /\ UNCHANGED <<board, listing, ticked, settled, stirs>>

BoardNext ==
  \/ \E list \in Lists : OpenList(list)
  \/ FetchPage \/ LoadMore \/ BulkCancel \/ Passes
  \/ \E c \in Cards :
       \/ ToggleCard(c) \/ CreateCard(c) \/ PublishCard(c) \/ RetryCard(c)
       \/ \E t \in 0 .. MaxInstant : ScheduleCard(c, t) \/ DragCard(c, t)
  \/ \E t \in 0 .. MaxInstant : BulkReschedule(t)

BoardSpec == BoardInit /\ [][BoardNext]_boardVars

-----------------------------------------------------------------------------
(* The rows that kept their place since the list was opened are each in the *)
(* pages read so far exactly once and in order, up to the cursor, whatever  *)
(* was created, moved, published or canceled between two pages.             *)
PagesComplete ==
  LET list == listing.list
      pages == listing.fetched
      read == {c \in settled :
                 pages # <<>> /\ (listing.cursor = Never \/ ~Beyond(list, Place(list, c), listing.cursor))}
  IN  /\ \A c \in read : \E i \in DOMAIN pages : c \in pages[i]
      /\ \A i, j \in DOMAIN pages : \A c \in read \cap pages[i], d \in read \cap pages[j] :
           i < j => Beyond(list, Place(list, d), Place(list, c))
=============================================================================
