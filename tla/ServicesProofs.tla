--------------------------- MODULE ServicesProofs ---------------------------
(***************************************************************************)
(* The services around publishing, for any number of callers, pages, ticks *)
(* and entries: the resumable upload is whole when it is finalized, a      *)
(* handshake connects once, alerts arrive and are mailed once, the         *)
(* calendar shows every entry of its range, a wall clock is resolved to    *)
(* the instant it names, a blob in use is kept, metrics are pulled no more *)
(* often than accounted for, a queued post waits on a slot of its own, in  *)
(* its order, and the pages of a list miss no row and repeat none.         *)
(***************************************************************************)
EXTENDS ChunkedUpload, Connect, Alerts, Calendar, WallClock, Media, Analytics,
        Slots, Board, FiniteSetTheorems, WellFoundedInduction, TLAPS

-----------------------------------------------------------------------------
(* The resumable upload.                                                    *)

Calls == {"idle", "initiate", "insert", "upload", "commit", "complete"}

ChunkedTypeOK ==
  /\ progress \in [id : Nat, sent : 0 .. Total, completed : BOOLEAN]
  /\ provider = [i \in DOMAIN provider |-> [got |-> provider[i].got, final |-> provider[i].final]]
  /\ 0 \notin DOMAIN provider
  /\ \A i \in DOMAIN provider : provider[i].got \subseteq 1 .. Total
  /\ up \in [Uploaders -> [at : Calls, id : Nat, offset : 0 .. Total]]

(* What a call or the saved progress takes for sent was received; the call  *)
(* works on the upload whose progress is saved.                             *)
Received(i, n) == i \in DOMAIN provider /\ 1 .. n \subseteq provider[i].got

SavedSound == progress.id # 0 => Received(progress.id, progress.sent)
CallSound(u) ==
  /\ up[u].at \notin {"idle", "initiate"} => Received(up[u].id, up[u].offset)
  /\ up[u].at \in {"upload", "commit", "complete"} => progress.id = up[u].id

UploadInv ==
  /\ ChunkedTypeOK
  /\ SavedSound
  /\ \A u \in Uploaders : CallSound(u)
  /\ UploadWhole

LEMMA InitUpload == ChunkedInit => UploadInv
<1> SUFFICES ASSUME ChunkedInit PROVE UploadInv
  OBVIOUS
<1>1. ChunkedTypeOK
  BY ChunkedUploadAssumption DEF ChunkedInit, ChunkedTypeOK, NoRow, Resting, Calls
<1> QED
  BY <1>1 DEF ChunkedInit, UploadInv, UploadWhole, SavedSound, CallSound, NoRow, Resting

(* A call that goes on without touching what was received.                  *)
LEMMA CallMoves ==
  ASSUME UploadInv, NEW u \in Uploaders, NEW r, Move(u, r), UNCHANGED provider,
         r \in [at : Calls, id : Nat, offset : 0 .. Total],
         progress' \in [id : Nat, sent : 0 .. Total, completed : BOOLEAN],
         progress.id # 0 => progress'.id = progress.id,
         progress'.id # 0 => Received(progress'.id, progress'.sent),
         r.at \notin {"idle", "initiate"} => Received(r.id, r.offset),
         r.at \in {"upload", "commit", "complete"} => progress'.id = r.id
  PROVE  UploadInv'
<1>1. \A v \in Uploaders : up'[v] = IF v = u THEN r ELSE up[v]
  BY DEF Move, UploadInv, ChunkedTypeOK
<1>2. ChunkedTypeOK'
  BY DEF Move, UploadInv, ChunkedTypeOK
<1>3. ASSUME NEW v \in Uploaders PROVE CallSound(v)'
  <2>1. up[v].at \in {"upload", "commit", "complete"} => progress.id = up[v].id /\ progress.id # 0
    BY DEF UploadInv, ChunkedTypeOK, CallSound, Received
  <2> QED
    BY <1>1, <2>1 DEF UploadInv, CallSound, Received
<1>4. SavedSound'
  BY DEF SavedSound, Received
<1>5. UploadWhole'
  BY DEF UploadInv, UploadWhole
<1> QED
  BY <1>2, <1>3, <1>4, <1>5 DEF UploadInv

LEMMA LoadKeeps == ASSUME UploadInv, NEW u \in Uploaders, Load(u) PROVE UploadInv'
<1> DEFINE r == IF progress.id = 0 THEN [Resting EXCEPT !.at = "initiate"]
                ELSE [at |-> "upload", id |-> progress.id, offset |-> progress.sent]
<1>1. /\ r \in [at : Calls, id : Nat, offset : 0 .. Total]
      /\ r.at \in {"initiate", "upload"}
      /\ r.at = "upload" => progress.id # 0 /\ r.id = progress.id /\ r.offset = progress.sent
  BY ChunkedUploadAssumption DEF UploadInv, ChunkedTypeOK, Resting, Calls
<1>2. Move(u, r) /\ UNCHANGED <<progress, provider>>
  BY DEF Load
<1> HIDE DEF r
<1> QED
  BY <1>1, <1>2, CallMoves DEF UploadInv, ChunkedTypeOK, SavedSound

LEMMA InitiateKeeps == ASSUME UploadInv, NEW u \in Uploaders, Initiate(u) PROVE UploadInv'
<1>1. PICK i \in 1 .. MaxOpened :
        /\ i \notin DOMAIN provider
        /\ provider' = [x \in DOMAIN provider \cup {i} |->
                          IF x = i THEN [got |-> {}, final |-> FALSE] ELSE provider[x]]
        /\ Move(u, [at |-> "insert", id |-> i, offset |-> 0])
        /\ UNCHANGED progress
  BY DEF Initiate
<1>2. i \in Nat \ {0}
  BY ChunkedUploadAssumption
<1>3. \A v \in Uploaders : up'[v] = IF v = u THEN [at |-> "insert", id |-> i, offset |-> 0]
                                    ELSE up[v]
  BY <1>1 DEF Move, UploadInv, ChunkedTypeOK
<1>4. /\ DOMAIN provider' = DOMAIN provider \cup {i}
      /\ provider'[i] = [got |-> {}, final |-> FALSE]
      /\ \A x \in DOMAIN provider : provider'[x] = provider[x]
  BY <1>1
<1>5. up' \in [Uploaders -> [at : Calls, id : Nat, offset : 0 .. Total]]
  BY <1>1, <1>2, ChunkedUploadAssumption DEF Move, UploadInv, ChunkedTypeOK, Calls
<1>6. ChunkedTypeOK'
  <2>1. provider' = [x \in DOMAIN provider' |-> [got |-> provider'[x].got,
                                                 final |-> provider'[x].final]]
    BY <1>1, <1>4 DEF UploadInv, ChunkedTypeOK
  <2>2. \A x \in DOMAIN provider' : provider'[x].got \subseteq 1 .. Total
    BY <1>4 DEF UploadInv, ChunkedTypeOK
  <2> QED
    BY <1>1, <1>2, <1>4, <1>5, <2>1, <2>2 DEF UploadInv, ChunkedTypeOK
<1>7. UploadWhole'
  BY <1>4 DEF UploadInv, UploadWhole
<1>8. SavedSound'
  BY <1>1, <1>4 DEF UploadInv, SavedSound, Received
<1>9. ASSUME NEW v \in Uploaders PROVE CallSound(v)'
  BY <1>1, <1>3, <1>4 DEF UploadInv, CallSound, Received
<1> QED
  BY <1>6, <1>7, <1>8, <1>9 DEF UploadInv

LEMMA InsertSessionKeeps ==
  ASSUME UploadInv, NEW u \in Uploaders, InsertSession(u) PROVE UploadInv'
<1>1. /\ up[u].at = "insert" /\ up[u] \in [at : Calls, id : Nat, offset : 0 .. Total]
      /\ Received(up[u].id, up[u].offset) /\ UNCHANGED provider
  BY DEF InsertSession, UploadInv, ChunkedTypeOK, CallSound
<1>2. CASE progress.id = 0
  <2> DEFINE r == [up[u] EXCEPT !.at = "upload"]
             row == [id |-> up[u].id, sent |-> 0, completed |-> FALSE]
  <2>1. Move(u, r) /\ progress' = row
    BY <1>2 DEF InsertSession, NoRow
  <2>2. /\ r \in [at : Calls, id : Nat, offset : 0 .. Total]
        /\ r.at = "upload" /\ r.id = up[u].id /\ r.offset = up[u].offset
    BY <1>1 DEF Calls
  <2>3. row \in [id : Nat, sent : 0 .. Total, completed : BOOLEAN]
    BY <1>1, ChunkedUploadAssumption
  <2>4. Received(row.id, row.sent)
    <3>1. 1 .. 0 = {}
      OBVIOUS
    <3> QED
      BY <1>1, <3>1 DEF Received
  <2>5. row.id = up[u].id
    OBVIOUS
  <2> HIDE DEF r, row
  <2> QED
    BY <1>1, <1>2, <2>1, <2>2, <2>3, <2>4, <2>5, CallMoves
<1>3. CASE progress.id # 0
  BY <1>1, <1>3, CallMoves, ChunkedUploadAssumption
     DEF InsertSession, Resting, Calls, UploadInv, ChunkedTypeOK, SavedSound
<1> QED
  BY <1>2, <1>3

(* A chunk that is received adds to what was.                               *)
LEMMA UploadChunkKeeps ==
  ASSUME UploadInv, NEW u \in Uploaders, UploadChunk(u) PROVE UploadInv'
<1> DEFINE i == up[u].id
           n == up[u].offset
           r == [up[u] EXCEPT !.at = "commit", !.offset = n + 1]
<1>1. /\ up[u].at = "upload" /\ n < Total /\ UNCHANGED progress
      /\ provider' = [provider EXCEPT ![i].got = @ \cup {n + 1}]
      /\ up' = [up EXCEPT ![u] = r]
  BY DEF UploadChunk, Move
<1>2. /\ up[u] \in [at : Calls, id : Nat, offset : 0 .. Total]
      /\ Received(i, n) /\ progress.id = i
  BY <1>1 DEF UploadInv, ChunkedTypeOK, CallSound
<1>3. n \in Nat /\ n + 1 \in 1 .. Total /\ n + 1 \in 0 .. Total
  BY <1>1, <1>2, ChunkedUploadAssumption
<1>4. /\ r \in [at : Calls, id : Nat, offset : 0 .. Total]
      /\ r.at = "commit" /\ r.id = i /\ r.offset = n + 1
  BY <1>2, <1>3 DEF Calls
<1>5. /\ DOMAIN provider' = DOMAIN provider /\ i \in DOMAIN provider
      /\ provider'[i] = [got |-> provider[i].got \cup {n + 1}, final |-> provider[i].final]
      /\ \A x \in DOMAIN provider \ {i} : provider'[x] = provider[x]
  <2>1. i \in DOMAIN provider
    BY <1>2 DEF Received
  <2>2. provider[i] = [got |-> provider[i].got, final |-> provider[i].final]
    BY <2>1 DEF UploadInv, ChunkedTypeOK
  <2>3. provider'[i] = [provider[i] EXCEPT !.got = @ \cup {n + 1}]
    BY <1>1, <2>1
  <2> QED
    BY <1>1, <2>1, <2>2, <2>3
<1> HIDE DEF r, i, n
<1>6. \A v \in Uploaders : up'[v] = IF v = u THEN r ELSE up[v]
  BY <1>1 DEF UploadInv, ChunkedTypeOK
<1>7. \A x \in DOMAIN provider :
        /\ provider'[x].final = provider[x].final
        /\ provider[x].got \subseteq provider'[x].got
        /\ provider'[x].got \subseteq 1 .. Total
  BY <1>3, <1>5 DEF UploadInv, ChunkedTypeOK
<1>8. 1 .. (n + 1) \subseteq provider'[i].got
  <2>1. 1 .. (n + 1) \subseteq (1 .. n) \cup {n + 1}
    BY <1>3
  <2> QED
    BY <1>2, <1>5, <2>1 DEF Received
<1>9. ChunkedTypeOK'
  <2>1. provider' = [x \in DOMAIN provider' |-> [got |-> provider'[x].got,
                                                 final |-> provider'[x].final]]
    BY <1>1, <1>5 DEF UploadInv, ChunkedTypeOK
  <2>2. up' \in [Uploaders -> [at : Calls, id : Nat, offset : 0 .. Total]]
    BY <1>1, <1>4 DEF UploadInv, ChunkedTypeOK
  <2> QED
    BY <1>1, <1>5, <1>7, <2>1, <2>2 DEF UploadInv, ChunkedTypeOK
<1>10. ASSUME NEW v \in Uploaders PROVE CallSound(v)'
  <2>1. CASE v = u
    BY <1>1, <1>2, <1>4, <1>5, <1>6, <1>8, <2>1 DEF CallSound, Received
  <2>2. CASE v # u
    BY <1>1, <1>5, <1>6, <1>7, <2>2 DEF UploadInv, CallSound, Received
  <2> QED
    BY <2>1, <2>2
<1>11. UploadWhole'
  <2> SUFFICES ASSUME NEW x \in DOMAIN provider', provider'[x].final
               PROVE  provider'[x].got = 1 .. Total
    BY DEF UploadWhole
  <2>1. provider[x].got = 1 .. Total
    BY <1>5, <1>7 DEF UploadInv, UploadWhole
  <2> QED
    BY <1>5, <1>7, <2>1
<1>12. SavedSound'
  BY <1>1, <1>5, <1>7 DEF UploadInv, SavedSound, Received
<1> QED
  BY <1>9, <1>10, <1>11, <1>12 DEF UploadInv

LEMMA CommitOffsetKeeps ==
  ASSUME UploadInv, NEW u \in Uploaders, CommitOffset(u) PROVE UploadInv'
<1> DEFINE r == [up[u] EXCEPT !.at = "upload"]
           row == [progress EXCEPT !.sent = up[u].offset]
<1>1. up[u].at = "commit" /\ Move(u, r) /\ progress' = row /\ UNCHANGED provider
  BY DEF CommitOffset
<1>2. /\ up[u] \in [at : Calls, id : Nat, offset : 0 .. Total]
      /\ Received(up[u].id, up[u].offset) /\ progress.id = up[u].id
  BY <1>1 DEF UploadInv, ChunkedTypeOK, CallSound
<1>3. /\ r \in [at : Calls, id : Nat, offset : 0 .. Total]
      /\ r.at = "upload" /\ r.id = up[u].id /\ r.offset = up[u].offset
  BY <1>2 DEF Calls
<1>4. /\ row \in [id : Nat, sent : 0 .. Total, completed : BOOLEAN]
      /\ row.id = progress.id /\ row.sent = up[u].offset
  BY <1>2 DEF UploadInv, ChunkedTypeOK
<1> HIDE DEF r, row
<1> QED
  BY <1>1, <1>2, <1>3, <1>4, CallMoves

(* The call that finalizes has seen every chunk received.                   *)
LEMMA FinalizeKeeps ==
  ASSUME UploadInv, NEW u \in Uploaders, Finalize(u) PROVE UploadInv'
<1> DEFINE i == up[u].id
           r == [up[u] EXCEPT !.at = "complete"]
<1>1. /\ up[u].at = "upload" /\ up[u].offset = Total /\ UNCHANGED progress
      /\ provider' = [provider EXCEPT ![i].final = TRUE]
      /\ up' = [up EXCEPT ![u] = r]
  BY DEF Finalize, Move
<1>2. /\ up[u] \in [at : Calls, id : Nat, offset : 0 .. Total]
      /\ Received(i, Total) /\ progress.id = i
  BY <1>1 DEF UploadInv, ChunkedTypeOK, CallSound
<1>3. /\ r \in [at : Calls, id : Nat, offset : 0 .. Total]
      /\ r.at = "complete" /\ r.id = i /\ r.offset = Total
  BY <1>1, <1>2 DEF Calls
<1>4. /\ DOMAIN provider' = DOMAIN provider /\ i \in DOMAIN provider
      /\ provider'[i] = [got |-> provider[i].got, final |-> TRUE]
      /\ \A x \in DOMAIN provider \ {i} : provider'[x] = provider[x]
  <2>1. i \in DOMAIN provider
    BY <1>2 DEF Received
  <2>2. provider[i] = [got |-> provider[i].got, final |-> provider[i].final]
    BY <2>1 DEF UploadInv, ChunkedTypeOK
  <2>3. provider'[i] = [provider[i] EXCEPT !.final = TRUE]
    BY <1>1, <2>1
  <2> QED
    BY <1>1, <2>1, <2>2, <2>3
<1> HIDE DEF r, i
<1>5. \A v \in Uploaders : up'[v] = IF v = u THEN r ELSE up[v]
  BY <1>1 DEF UploadInv, ChunkedTypeOK
<1>6. \A x \in DOMAIN provider : provider'[x].got = provider[x].got
  BY <1>4
<1>7. ChunkedTypeOK'
  <2>1. provider' = [x \in DOMAIN provider' |-> [got |-> provider'[x].got,
                                                 final |-> provider'[x].final]]
    BY <1>1, <1>4 DEF UploadInv, ChunkedTypeOK
  <2>2. up' \in [Uploaders -> [at : Calls, id : Nat, offset : 0 .. Total]]
    BY <1>1, <1>3 DEF UploadInv, ChunkedTypeOK
  <2> QED
    BY <1>1, <1>4, <1>6, <2>1, <2>2 DEF UploadInv, ChunkedTypeOK
<1>8. ASSUME NEW v \in Uploaders PROVE CallSound(v)'
  <2>1. CASE v = u
    BY <1>1, <1>2, <1>3, <1>4, <1>5, <1>6, <2>1 DEF CallSound, Received
  <2>2. CASE v # u
    BY <1>1, <1>4, <1>5, <1>6, <2>2 DEF UploadInv, CallSound, Received
  <2> QED
    BY <2>1, <2>2
<1>9. UploadWhole'
  <2> SUFFICES ASSUME NEW x \in DOMAIN provider', provider'[x].final
               PROVE  provider'[x].got = 1 .. Total
    BY DEF UploadWhole
  <2>1. CASE x = i
    BY <1>2, <1>4, <1>6, <2>1 DEF Received, UploadInv, ChunkedTypeOK
  <2>2. CASE x # i
    BY <1>4, <1>6, <2>2 DEF UploadInv, UploadWhole
  <2> QED
    BY <2>1, <2>2
<1>10. SavedSound'
  BY <1>1, <1>4, <1>6 DEF UploadInv, SavedSound, Received
<1> QED
  BY <1>7, <1>8, <1>9, <1>10 DEF UploadInv

LEMMA CompleteKeeps ==
  ASSUME UploadInv, NEW u \in Uploaders, Complete(u) PROVE UploadInv'
<1> DEFINE row == [progress EXCEPT !.completed = TRUE]
<1>1. Move(u, Resting) /\ progress' = row /\ UNCHANGED provider
  BY DEF Complete
<1>2. /\ row \in [id : Nat, sent : 0 .. Total, completed : BOOLEAN]
      /\ row.id = progress.id /\ row.sent = progress.sent
  BY DEF UploadInv, ChunkedTypeOK
<1>3. Resting \in [at : Calls, id : Nat, offset : 0 .. Total] /\ Resting.at = "idle"
  BY ChunkedUploadAssumption DEF Resting, Calls
<1> HIDE DEF row
<1> QED
  BY <1>1, <1>2, <1>3, CallMoves DEF UploadInv, SavedSound

LEMMA InterruptKeeps ==
  ASSUME UploadInv, NEW u \in Uploaders, Interrupt(u) PROVE UploadInv'
<1>1. Resting \in [at : Calls, id : Nat, offset : 0 .. Total] /\ Resting.at = "idle"
  BY ChunkedUploadAssumption DEF Resting, Calls
<1> QED
  BY <1>1, CallMoves DEF Interrupt, UploadInv, ChunkedTypeOK, SavedSound

LEMMA NextUpload == UploadInv /\ [ChunkedNext]_chunkedVars => UploadInv'
<1> SUFFICES ASSUME UploadInv, [ChunkedNext]_chunkedVars PROVE UploadInv'
  OBVIOUS
<1>1. CASE ChunkedNext
  BY <1>1, LoadKeeps, InitiateKeeps, InsertSessionKeeps, UploadChunkKeeps, CommitOffsetKeeps,
     FinalizeKeeps, CompleteKeeps, InterruptKeeps DEF ChunkedNext
<1>2. CASE UNCHANGED chunkedVars
  BY <1>2 DEF chunkedVars, UploadInv, ChunkedTypeOK, SavedSound, CallSound, Received, UploadWhole
<1> QED
  BY <1>1, <1>2

(* However many calls of resumableUpload overlap and wherever they break,   *)
(* the provider finalizes an upload only with every chunk in it.            *)
THEOREM WholeUploads == ChunkedSpec => []UploadWhole
<1>1. UploadInv => UploadWhole
  BY DEF UploadInv
<1> QED
  BY <1>1, InitUpload, NextUpload, PTL DEF ChunkedSpec

-----------------------------------------------------------------------------
(* The handshake.                                                           *)

Shown == {"working", "error", "denied", "connected", "reconnected"}
Success == {"connected", "reconnected"}
Page == [at : {"sent", "exchange", "persist", "shown"}, of : Handshakes, shows : Shown]

StateRow == [row : {"none", "open", "consumed"}, late : BOOLEAN, lock : Openings \cup {Nil}]
Grant == [profile : Profiles \cup {Nil}, used : BOOLEAN, declined : BOOLEAN]

ConnectTypeOK ==
  /\ hs \in [Handshakes -> StateRow]
  /\ grants \in [Handshakes -> Grant]
  /\ page \in [Openings -> {NoPage} \cup Page]
  /\ links \in [Handshakes -> Nat]

(* The updates of a state's row and of what the network gave.               *)
LEMMA RowUpdates ==
  /\ \A s \in StateRow : /\ [s EXCEPT !.late = TRUE] \in StateRow
                         /\ [s EXCEPT !.row = "consumed"] \in StateRow
                         /\ \A l \in Openings \cup {Nil} : [s EXCEPT !.lock = l] \in StateRow
  /\ \A g \in Grant : [g EXCEPT !.used = TRUE] \in Grant /\ [g EXCEPT !.declined = TRUE] \in Grant
BY DEF StateRow, Grant

Successes(h) == {o \in Openings : page[o] # NoPage /\ page[o].of = h /\ page[o].shows \in Success}

(* A page past the state's update holds the row's lock; only a page that is *)
(* done shows a success.                                                    *)
PageSound(o) ==
  page[o] # NoPage =>
    LET h == page[o].of IN
    /\ page[o].at \in {"exchange", "persist"} =>
         hs[h].lock = o /\ hs[h].row = "open" /\ ~grants[h].declined
    /\ page[o].at # "shown" => page[o].shows = "working"
    /\ grants[h].profile # Nil \/ grants[h].declined

(* A state is consumed by the one page that shows so, or by declining.      *)
StateSound(h) ==
  \/ links[h] = 0 /\ Successes(h) = {} /\ (hs[h].row = "consumed" => grants[h].declined)
  \/ /\ links[h] = 1 /\ hs[h].row = "consumed" /\ ~grants[h].declined
     /\ \E o \in Openings : Successes(h) = {o}

HandshakeInv ==
  /\ ConnectTypeOK
  /\ \A o \in Openings : PageSound(o)
  /\ \A h \in Handshakes : StateSound(h)

LEMMA InitHandshake == ConnectInit => HandshakeInv
<1> SUFFICES ASSUME ConnectInit PROVE HandshakeInv
  OBVIOUS
<1>1. ConnectTypeOK
  BY DEF ConnectInit, ConnectTypeOK, StateRow, Grant
<1>2. \A o \in Openings : page[o] = NoPage
  BY DEF ConnectInit
<1> QED
  BY <1>1, <1>2 DEF ConnectInit, HandshakeInv, PageSound, StateSound, Successes

(* Steps of the user and the network leave the pages alone, consume no      *)
(* state, and decline only where there is no consent.                       *)
LEMMA UserMoves ==
  ASSUME HandshakeInv, ConnectTypeOK', UNCHANGED <<page, links>>,
         \A h \in Handshakes :
           /\ hs'[h].row = hs[h].row \/ (hs[h].row = "none" /\ hs'[h].row = "open")
           /\ hs'[h].lock = hs[h].lock
           /\ grants[h].profile # Nil => grants'[h].profile # Nil
           /\ grants'[h].declined = grants[h].declined
              \/ (grants'[h].declined /\ hs[h].row = "open" /\ grants[h].profile = Nil)
  PROVE  HandshakeInv'
<1>1. \A h \in Handshakes : Successes(h)' = Successes(h)
  BY DEF Successes
<1>2. ASSUME NEW o \in Openings PROVE PageSound(o)'
  <2> SUFFICES ASSUME page[o] # NoPage PROVE PageSound(o)'
    BY DEF PageSound
  <2>1. page[o] \in Page /\ page[o].of \in Handshakes
    BY DEF HandshakeInv, ConnectTypeOK, StateRow, Grant, Page
  <2>2. PageSound(o)
    BY DEF HandshakeInv
  <2> QED
    BY <2>1, <2>2 DEF PageSound
<1>3. ASSUME NEW h \in Handshakes PROVE StateSound(h)'
  <2>1. StateSound(h)
    BY DEF HandshakeInv
  <2> QED
    BY <1>1, <2>1 DEF StateSound
<1> QED
  BY <1>2, <1>3 DEF HandshakeInv

LEMMA BeginConnectKeeps ==
  ASSUME HandshakeInv, NEW h \in Handshakes, BeginConnect(h) PROVE HandshakeInv'
<1>1. /\ hs[h].row = "none" /\ hs' = [hs EXCEPT ![h].row = "open"]
      /\ UNCHANGED <<grants, page, links>>
  BY DEF BeginConnect, InsertState
<1>2. ConnectTypeOK'
  BY <1>1 DEF HandshakeInv, ConnectTypeOK, StateRow, Grant
<1>3. \A g \in Handshakes :
        /\ hs'[g].row = hs[g].row \/ (hs[g].row = "none" /\ hs'[g].row = "open")
        /\ hs'[g].lock = hs[g].lock
  BY <1>1 DEF HandshakeInv, ConnectTypeOK, StateRow, Grant
<1> QED
  BY <1>1, <1>2, <1>3, UserMoves, ZenonT(60)

LEMMA ConsentKeeps ==
  ASSUME HandshakeInv, NEW h \in Handshakes, NEW p \in Profiles, Consent(h, p)
  PROVE  HandshakeInv'
<1>1. grants' = [grants EXCEPT ![h].profile = p] /\ UNCHANGED <<hs, page, links>>
  BY DEF Consent
<1>2. ConnectTypeOK'
  BY <1>1 DEF HandshakeInv, ConnectTypeOK, StateRow, Grant
<1>3. \A g \in Handshakes :
        /\ grants[g].profile # Nil => grants'[g].profile # Nil
        /\ grants'[g].declined = grants[g].declined
  BY <1>1, ConnectAssumption DEF HandshakeInv, ConnectTypeOK, StateRow, Grant
<1> QED
  BY <1>1, <1>2, <1>3, UserMoves, ZenonT(60)

LEMMA DeclineKeeps ==
  ASSUME HandshakeInv, NEW h \in Handshakes, Decline(h) PROVE HandshakeInv'
<1>1. /\ hs[h].row = "open" /\ grants[h].profile = Nil
      /\ grants' = [grants EXCEPT ![h].declined = TRUE]
      /\ UNCHANGED <<hs, page, links>>
  BY DEF Decline
<1>2. ConnectTypeOK'
  BY <1>1, RowUpdates DEF HandshakeInv, ConnectTypeOK
<1>3. \A g \in Handshakes :
        /\ grants'[g].profile = grants[g].profile
        /\ grants'[g].declined = grants[g].declined \/ (g = h /\ grants'[g].declined)
  BY <1>1 DEF HandshakeInv, ConnectTypeOK, StateRow, Grant
<1> QED
  BY <1>1, <1>2, <1>3, UserMoves, ZenonT(60)

LEMMA TenMinutesKeeps ==
  ASSUME HandshakeInv, NEW h \in Handshakes, TenMinutes(h) PROVE HandshakeInv'
<1>1. hs' = [hs EXCEPT ![h].late = TRUE] /\ UNCHANGED <<grants, page, links>>
  BY DEF TenMinutes
<1>2. ConnectTypeOK'
  BY <1>1, RowUpdates DEF HandshakeInv, ConnectTypeOK
<1>3. \A g \in Handshakes : hs'[g].row = hs[g].row /\ hs'[g].lock = hs[g].lock
  BY <1>1 DEF HandshakeInv, ConnectTypeOK, StateRow, Grant
<1> QED
  BY <1>1, <1>2, <1>3, UserMoves, ZenonT(60)

-----------------------------------------------------------------------------
(* Steps of one page that show no success, nor connect.                     *)
LEMMA PageMoves ==
  ASSUME HandshakeInv, NEW o \in Openings, NEW f \in Page,
         page' = [page EXCEPT ![o] = f], links' = links,
         page[o] # NoPage => f.of = page[o].of /\ page[o].at # "shown",
         f.shows \notin Success,
         ConnectTypeOK', PageSound(o)',
         \A h \in Handshakes :
           /\ grants'[h].declined = grants[h].declined /\ grants'[h].profile = grants[h].profile
           /\ hs'[h].row # hs[h].row => h = f.of /\ hs'[h].row = "consumed" /\ grants[h].declined
           /\ hs'[h].lock # hs[h].lock => h = f.of /\ hs[h].lock \in {Nil, o}
  PROVE  HandshakeInv'
<1>1. \A q \in Openings : page'[q] = IF q = o THEN f ELSE page[q]
  BY DEF HandshakeInv, ConnectTypeOK, StateRow, Grant
<1>2. f # NoPage
  BY DEF Page, NoPage
<1>3. ASSUME NEW q \in Openings \ {o} PROVE PageSound(q)'
  <2> SUFFICES ASSUME page[q] # NoPage PROVE PageSound(q)'
    BY <1>1 DEF PageSound
  <2>1. page[q] \in Page /\ page[q].of \in Handshakes /\ page'[q] = page[q]
    BY <1>1 DEF HandshakeInv, ConnectTypeOK, StateRow, Grant, Page
  <2>2. PageSound(q) /\ q # Nil
    BY ConnectAssumption DEF HandshakeInv
  <2> QED
    BY <2>1, <2>2 DEF PageSound
<1>4. ASSUME NEW h \in Handshakes PROVE Successes(h)' = Successes(h)
  <2>1. page[o] # NoPage => page[o].shows \notin Success
    BY DEF HandshakeInv, PageSound, Success
  <2> QED
    BY <1>1, <1>2, <2>1 DEF Successes
<1>5. ASSUME NEW h \in Handshakes PROVE StateSound(h)'
  <2>1. StateSound(h)
    BY DEF HandshakeInv
  <2> QED
    BY <1>4, <2>1 DEF StateSound
<1> QED
  BY <1>3, <1>5 DEF HandshakeInv

LEMMA PageTyped ==
  ASSUME HandshakeInv, NEW o \in Openings, page[o] # NoPage
  PROVE  /\ page[o] \in Page /\ page[o].of \in Handshakes /\ PageSound(o)
         /\ hs[page[o].of].lock \in Openings \cup {Nil}
BY DEF HandshakeInv, ConnectTypeOK, StateRow, Grant, Page

LEMMA OpenPageKeeps ==
  ASSUME HandshakeInv, NEW o \in Openings, NEW h \in Handshakes, OpenPage(o, h)
  PROVE  HandshakeInv'
<1> DEFINE f == [at |-> "sent", of |-> h, shows |-> "working"]
<1>1. /\ page[o] = NoPage /\ page' = [page EXCEPT ![o] = f]
      /\ grants[h].profile # Nil \/ grants[h].declined
      /\ UNCHANGED <<hs, grants, links>>
  BY DEF OpenPage
<1>2. f \in Page /\ f.of = h /\ f.shows \notin Success /\ f.at = "sent" /\ f.shows = "working"
  BY DEF Page, Shown, Success
<1> HIDE DEF f
<1>3. ConnectTypeOK' /\ page'[o] = f
  BY <1>1, <1>2 DEF HandshakeInv, ConnectTypeOK, StateRow, Grant
<1>4. PageSound(o)'
  BY <1>1, <1>2, <1>3 DEF PageSound
<1> QED
  BY <1>1, <1>2, <1>3, <1>4, PageMoves, ZenonT(60)

(* A page that ends without a connection, its lock released.                *)
LEMMA ShowKeeps ==
  ASSUME HandshakeInv, NEW o \in Openings, page[o] # NoPage, page[o].at # "shown",
         NEW what \in {"error", "denied"}, Show(o, what), UNCHANGED <<grants, links>>,
         ConnectTypeOK',
         \A h \in Handshakes :
           /\ hs'[h].row # hs[h].row =>
                h = page[o].of /\ hs'[h].row = "consumed" /\ grants[h].declined
           /\ hs'[h].lock # hs[h].lock => h = page[o].of /\ hs[h].lock \in {Nil, o}
  PROVE  HandshakeInv'
<1> DEFINE f == [page[o] EXCEPT !.at = "shown", !.shows = what]
<1>1. page[o] \in Page /\ PageSound(o)
  BY PageTyped
<1>2. /\ f \in Page /\ f.of = page[o].of /\ f.shows \notin Success
      /\ f.at = "shown" /\ f.shows = what
  BY <1>1 DEF Page, Shown, Success
<1>3. page' = [page EXCEPT ![o] = f]
  BY DEF Show
<1> HIDE DEF f
<1>4. page'[o] = f
  BY <1>3 DEF HandshakeInv, ConnectTypeOK, StateRow, Grant
<1>5. PageSound(o)'
  BY <1>1, <1>2, <1>4 DEF PageSound
<1> QED
  BY <1>2, <1>3, <1>5, PageMoves, ZenonT(60)

LEMMA ShowTyped ==
  ASSUME HandshakeInv, NEW o \in Openings, page[o] # NoPage, NEW what \in Shown, Show(o, what)
  PROVE  page' \in [Openings -> {NoPage} \cup Page]
<1>1. page[o] \in Page
  BY PageTyped
<1>2. [page[o] EXCEPT !.at = "shown", !.shows = what] \in Page
  BY <1>1 DEF Page
<1> QED
  BY <1>2 DEF Show, HandshakeInv, ConnectTypeOK, StateRow, Grant

LEMMA DeniedKeeps ==
  ASSUME HandshakeInv, NEW o \in Openings, page[o] # NoPage, Denied(o) PROVE HandshakeInv'
<1>1. /\ page[o].at = "sent" /\ grants[page[o].of].declined
      /\ hs' = [hs EXCEPT ![page[o].of].row = "consumed"]
      /\ Show(o, "denied") /\ UNCHANGED <<grants, links>>
  BY DEF Denied
<1>2. page[o].of \in Handshakes
  BY PageTyped
<1>3. ConnectTypeOK'
  <2>1. page' \in [Openings -> {NoPage} \cup Page]
    BY <1>1, ShowTyped DEF Shown
  <2> QED
    BY <1>1, <1>2, <2>1, RowUpdates DEF HandshakeInv, ConnectTypeOK
<1>4. \A h \in Handshakes :
        /\ hs'[h].row # hs[h].row => h = page[o].of /\ hs'[h].row = "consumed"
        /\ hs'[h].lock = hs[h].lock
  BY <1>1 DEF HandshakeInv, ConnectTypeOK, StateRow, Grant
<1> QED
  BY <1>1, <1>3, <1>4, ShowKeeps, ZenonT(60)

(* Who consumes the state locks its row.                                    *)
LEMMA ConsumeStateKeeps ==
  ASSUME HandshakeInv, NEW o \in Openings, page[o] # NoPage, ConsumeState(o)
  PROVE  HandshakeInv'
<1>0. PICK h \in Handshakes : h = page[o].of
  BY PageTyped
<1>1. /\ page[o].at = "sent" /\ ~grants[h].declined /\ hs[h].lock = Nil
      /\ UNCHANGED <<grants, links>>
  BY <1>0 DEF ConsumeState
<1>2. page[o] \in Page /\ PageSound(o)
  BY PageTyped
<1>3. CASE hs[h].row = "open" /\ ~hs[h].late
  <2> DEFINE f == [page[o] EXCEPT !.at = "exchange"]
  <2>1. hs' = [hs EXCEPT ![h].lock = o] /\ page' = [page EXCEPT ![o] = f]
    BY <1>0, <1>3 DEF ConsumeState
  <2>2. /\ f \in Page /\ f.of = h /\ f.at = "exchange" /\ f.shows = page[o].shows
        /\ page[o].shows = "working"
    BY <1>0, <1>1, <1>2 DEF Page, PageSound
  <2> HIDE DEF f
  <2>3. ConnectTypeOK' /\ page'[o] = f
    BY <1>1, <2>1, <2>2, RowUpdates DEF HandshakeInv, ConnectTypeOK
  <2>4. /\ \A g \in Handshakes : /\ hs'[g].row = hs[g].row
                                 /\ hs'[g].lock # hs[g].lock => g = h /\ hs[g].lock = Nil
        /\ hs'[h].lock = o
    BY <1>1, <1>2, <2>1 DEF HandshakeInv, ConnectTypeOK, StateRow, Grant
  <2>5. PageSound(o)'
    BY <1>0, <1>1, <1>2, <1>3, <2>2, <2>3, <2>4 DEF PageSound
  <2>6. f.shows \notin Success
    BY <2>2 DEF Success
  <2>7. \A g \in Handshakes :
          /\ grants'[g].declined = grants[g].declined /\ grants'[g].profile = grants[g].profile
          /\ hs'[g].row # hs[g].row => g = f.of /\ hs'[g].row = "consumed" /\ grants[g].declined
          /\ hs'[g].lock # hs[g].lock => g = f.of /\ hs[g].lock \in {Nil, o}
    BY <1>1, <2>2, <2>4
  <2>8. page[o] # NoPage => f.of = page[o].of /\ page[o].at # "shown"
    BY <1>0, <1>1, <2>2
  <2> QED
    BY <1>1, <2>1, <2>2, <2>3, <2>5, <2>6, <2>7, <2>8, PageMoves, ZenonT(60)
<1>4. CASE ~(hs[h].row = "open" /\ ~hs[h].late)
  <2>1. Show(o, "error") /\ UNCHANGED hs
    BY <1>0, <1>4 DEF ConsumeState
  <2>2. ConnectTypeOK'
    BY <1>1, <2>1, ShowTyped DEF HandshakeInv, ConnectTypeOK, Shown
  <2>3. \A g \in Handshakes : hs'[g].row = hs[g].row /\ hs'[g].lock = hs[g].lock
    BY <2>1
  <2> QED
    BY <1>1, <2>1, <2>2, <2>3, ShowKeeps, ZenonT(60)
<1> QED
  BY <1>3, <1>4

LEMMA ExchangeKeeps ==
  ASSUME HandshakeInv, NEW o \in Openings, page[o] # NoPage, Exchange(o) PROVE HandshakeInv'
<1> DEFINE h == page[o].of
           f == [page[o] EXCEPT !.at = "persist"]
<1>1. /\ page[o].at = "exchange" /\ grants' = [grants EXCEPT ![h].used = TRUE]
      /\ page' = [page EXCEPT ![o] = f] /\ UNCHANGED <<hs, links>>
  BY DEF Exchange
<1>2. page[o] \in Page /\ h \in Handshakes /\ PageSound(o)
  BY PageTyped
<1>3. /\ f \in Page /\ f.of = h /\ f.at = "persist" /\ f.shows = page[o].shows
      /\ page[o].shows = "working"
  BY <1>1, <1>2 DEF Page, PageSound
<1> HIDE DEF f, h
<1>4. ConnectTypeOK' /\ page'[o] = f
  BY <1>1, <1>2, <1>3, RowUpdates DEF HandshakeInv, ConnectTypeOK
<1>5. \A g \in Handshakes :
        grants'[g].declined = grants[g].declined /\ grants'[g].profile = grants[g].profile
  BY <1>1 DEF HandshakeInv, ConnectTypeOK, StateRow, Grant
<1>6. PageSound(o)'
  BY <1>1, <1>2, <1>3, <1>4, <1>5 DEF PageSound, h
<1>7. f.shows \notin Success
  BY <1>3 DEF Success
<1> QED
  BY <1>1, <1>3, <1>4, <1>5, <1>6, <1>7, PageMoves, ZenonT(60) DEF h

LEMMA RollBackKeeps ==
  ASSUME HandshakeInv, NEW o \in Openings, page[o] # NoPage, RollBack(o) PROVE HandshakeInv'
<1> DEFINE h == page[o].of
<1>1. /\ page[o].at \in {"exchange", "persist"} /\ hs' = [hs EXCEPT ![h].lock = Nil]
      /\ Show(o, "error") /\ UNCHANGED <<grants, links>>
  BY DEF RollBack
<1>2. h \in Handshakes /\ hs[h].lock = o
  BY <1>1, PageTyped DEF PageSound
<1> HIDE DEF h
<1>3. ConnectTypeOK'
  <2>1. page' \in [Openings -> {NoPage} \cup Page]
    BY <1>1, ShowTyped DEF Shown
  <2> QED
    BY <1>1, <1>2, <2>1, RowUpdates DEF HandshakeInv, ConnectTypeOK
<1>4. \A g \in Handshakes : /\ hs'[g].row = hs[g].row
                            /\ hs'[g].lock # hs[g].lock => g = h /\ hs[g].lock = o
  BY <1>1, <1>2 DEF HandshakeInv, ConnectTypeOK, StateRow, Grant
<1> QED
  BY <1>1, <1>3, <1>4, ShowKeeps, ZenonT(60) DEF h

(* The state was open, so this is its first connection.                     *)
LEMMA PersistKeeps ==
  ASSUME HandshakeInv, NEW o \in Openings, page[o] # NoPage, Persist(o) PROVE HandshakeInv'
<1>0. PICK h \in Handshakes : h = page[o].of
  BY PageTyped
<1>1. PICK what \in Success :
        /\ page[o].at = "persist" /\ links' = [links EXCEPT ![h] = @ + 1]
        /\ hs' = [hs EXCEPT ![h].row = "consumed", ![h].lock = Nil]
        /\ Show(o, what) /\ grants' = grants
  BY <1>0 DEF Persist, Success
<1>2. page[o] \in Page /\ PageSound(o)
  BY PageTyped
<1>3. hs[h].lock = o /\ hs[h].row = "open" /\ ~grants[h].declined /\ page[o].shows = "working"
  BY <1>0, <1>1, <1>2 DEF PageSound
<1> DEFINE f == [page[o] EXCEPT !.at = "shown", !.shows = what]
<1>4. f \in Page /\ f.of = h /\ f.at = "shown" /\ f.shows = what /\ f # NoPage
  BY <1>0, <1>2 DEF Page, Shown, Success, NoPage
<1>5. page' = [page EXCEPT ![o] = f]
  BY <1>1 DEF Show
<1> HIDE DEF f
<1>6. \A q \in Openings : page'[q] = IF q = o THEN f ELSE page[q]
  BY <1>5 DEF HandshakeInv, ConnectTypeOK, StateRow, Grant
<1>7. /\ hs' \in [Handshakes -> StateRow]
      /\ hs'[h].row = "consumed"
      /\ \A g \in Handshakes \ {h} : hs'[g] = hs[g]
  <2> DEFINE r == [hs[h] EXCEPT !.row = "consumed", !.lock = Nil]
  <2>1. hs \in [Handshakes -> StateRow] /\ hs' = [hs EXCEPT ![h] = r]
    BY <1>1 DEF HandshakeInv, ConnectTypeOK
  <2>2. r \in StateRow /\ r.row = "consumed"
    BY <2>1 DEF StateRow
  <2> HIDE DEF r
  <2> QED
    BY <2>1, <2>2
<1>8. links[h] = 0 /\ Successes(h) = {}
  <2>1. StateSound(h)
    BY <1>2 DEF HandshakeInv
  <2> QED
    BY <1>3, <2>1 DEF StateSound
<1>9. /\ links' \in [Handshakes -> Nat] /\ links'[h] = 1
      /\ \A g \in Handshakes \ {h} : links'[g] = links[g]
  BY <1>1, <1>2, <1>8 DEF HandshakeInv, ConnectTypeOK, StateRow, Grant
<1>10. ConnectTypeOK'
  BY <1>1, <1>4, <1>5, <1>7, <1>9 DEF HandshakeInv, ConnectTypeOK, StateRow, Grant
<1>11. ASSUME NEW q \in Openings PROVE PageSound(q)'
  <2> SUFFICES ASSUME page'[q] # NoPage PROVE PageSound(q)'
    BY DEF PageSound
  <2>1. CASE q = o
    BY <1>0, <1>1, <1>2, <1>4, <1>6, <2>1 DEF PageSound
  <2>2. CASE q # o
    <3>1. page'[q] = page[q] /\ page[q] # NoPage
      BY <1>6, <2>2
    <3>2. PageSound(q) /\ page[q].of \in Handshakes
      BY <3>1, PageTyped
    <3>3. page[q].at \in {"exchange", "persist"} => page[q].of # h
      BY <1>3, <2>2, <3>1, <3>2 DEF PageSound
    <3>4. PageSound(q)' <=>
            /\ page[q].at \in {"exchange", "persist"} =>
                 hs'[page[q].of].lock = q /\ hs'[page[q].of].row = "open"
                 /\ ~grants[page[q].of].declined
            /\ page[q].at # "shown" => page[q].shows = "working"
            /\ grants[page[q].of].profile # Nil \/ grants[page[q].of].declined
      BY <1>1, <3>1 DEF PageSound
    <3> QED
      BY <1>7, <3>1, <3>2, <3>3, <3>4 DEF PageSound
  <2> QED
    BY <2>1, <2>2
<1>12. Successes(h)' = {o}
  BY <1>4, <1>6, <1>8 DEF Successes, Success
<1>13. ASSUME NEW g \in Handshakes \ {h} PROVE Successes(g)' = Successes(g)
  <2>1. o \notin Successes(g) /\ ~(page'[o].of = g)
    BY <1>0, <1>3, <1>4, <1>6 DEF Successes, Success
  <2> QED
    BY <1>6, <2>1 DEF Successes
<1>14. ASSUME NEW g \in Handshakes PROVE StateSound(g)'
  <2>1. CASE g = h
    BY <1>1, <1>3, <1>7, <1>9, <1>12, <2>1 DEF StateSound
  <2>2. CASE g # h
    <3>1. StateSound(g)
      BY DEF HandshakeInv
    <3> QED
      BY <1>1, <1>7, <1>9, <1>13, <2>2, <3>1 DEF StateSound
  <2> QED
    BY <2>1, <2>2
<1> QED
  BY <1>10, <1>11, <1>14 DEF HandshakeInv

LEMMA NextHandshake == HandshakeInv /\ [ConnectNext]_connectVars => HandshakeInv'
<1> SUFFICES ASSUME HandshakeInv, [ConnectNext]_connectVars PROVE HandshakeInv'
  OBVIOUS
<1>1. CASE \E h \in Handshakes :
             BeginConnect(h) \/ Decline(h) \/ TenMinutes(h) \/ \E p \in Profiles : Consent(h, p)
  BY <1>1, BeginConnectKeeps, DeclineKeeps, TenMinutesKeeps, ConsentKeeps
<1>2. CASE \E h \in Handshakes, o \in Openings : OpenPage(o, h)
  BY <1>2, OpenPageKeeps
<1>3. CASE \E o \in Openings :
             page[o] # NoPage /\ (Denied(o) \/ ConsumeState(o) \/ Exchange(o) \/ RollBack(o)
                                  \/ Persist(o))
  BY <1>3, DeniedKeeps, ConsumeStateKeeps, ExchangeKeeps, RollBackKeeps, PersistKeeps
<1>4. CASE UNCHANGED <<hs, grants, page, links>>
  BY <1>4 DEF HandshakeInv, ConnectTypeOK, StateRow, Grant, PageSound, StateSound, Successes
<1> QED
  BY <1>1, <1>2, <1>3, <1>4 DEF ConnectNext, connectVars, OpenModal, CloseModal, AskForFields,
     CompleteCredentialConnect, Unlink, Sicken

(* However often the callback page of a handshake is opened, overlaps       *)
(* itself or fails, the handshake connects once, and one page says so.      *)
THEOREM ConnectsOnce == ConnectSpec => []HandshakeOnce
<1>1. HandshakeInv => HandshakeOnce
  <2> SUFFICES ASSUME HandshakeInv, NEW h \in Handshakes
               PROVE  /\ links[h] <= 1
                      /\ grants[h].declined => links[h] = 0
                      /\ links[h] = Cardinality(Successes(h))
                      /\ links[h] = 1 <=> hs[h].row = "consumed" /\ ~grants[h].declined
    BY DEF HandshakeOnce, Successes, Success
  <2>1. StateSound(h)
    BY DEF HandshakeInv
  <2>2. CASE links[h] = 0 /\ Successes(h) = {} /\ (hs[h].row = "consumed" => grants[h].declined)
    <3>1. Cardinality(Successes(h)) = 0
      BY <2>2, FS_EmptySet
    <3> QED
      BY <2>2, <3>1
  <2>3. CASE /\ links[h] = 1 /\ hs[h].row = "consumed" /\ ~grants[h].declined
             /\ \E o \in Openings : Successes(h) = {o}
    <3>1. Cardinality(Successes(h)) = 1
      BY <2>3, FS_Singleton
    <3> QED
      BY <2>3, <3>1
  <2> QED
    BY <2>1, <2>2, <2>3 DEF StateSound
<1> QED
  BY <1>1, InitHandshake, NextHandshake, PTL DEF ConnectSpec

-----------------------------------------------------------------------------
(* The alerts.                                                              *)

(* Every nonempty set of positions has an earliest one.                     *)
Below == {s \in Nat \X Nat : s[1] < s[2]}

LEMMA BelowIsWellFounded == IsWellFoundedOn(Below, Nat)
BY NatLessThanWellFounded DEF OpToRel, Below

LEMMA EarliestIn ==
  ASSUME NEW S \in SUBSET Nat, S # {} PROVE Earliest(S) \in S
<1>1. PICK x \in S : \A y \in S : ~(<<y, x>> \in Below)
  BY BelowIsWellFounded, WFMin
<1>2. ASSUME NEW y \in S PROVE x <= y
  <2>1. ~(<<y, x>> \in Below)
    BY <1>1
  <2>2. y < x => <<y, x>> \in Below
    BY DEF Below
  <2> QED
    BY <2>1, <2>2
<1> QED
  BY <1>2 DEF Earliest

Abouts == {"post", 0} \cup Markets
Event == [kind : EventKinds, about : Abouts, mentions : SUBSET Teammates]
Routes == [at : {"idle", "routing", "mark"}, batch : SUBSET Nat, todo : SUBSET Teammates,
           keys : SUBSET (EventKinds \X Abouts \X Teammates)]

AlertsTypeOK ==
  /\ log \in Seq(Event)
  /\ notified \subseteq DOMAIN log
  /\ route \in [Ticks -> Routes]
  /\ disturbed \in [faults : Nat, changes : Nat]

Reached(e, u) == Key(e, u) \in DOMAIN alerts \/ <<u, e.kind>> \in DOMAIN overrides

(* A recipient whose turn is over has a row, in the table or in the open    *)
(* transaction, and one whose turn is to come has none of this transaction. *)
RouteSound(p) ==
  route[p].at # "idle" =>
    LET e == log[Current(p)] IN
    /\ route[p].batch # {} /\ route[p].batch \subseteq DOMAIN log
    /\ route[p].at = "routing" =>
         /\ \A u \in route[p].todo : Key(e, u) \notin route[p].keys
         /\ \A u \in Recipients(e) \ route[p].todo :
              Reached(e, u) \/ Key(e, u) \in route[p].keys
    /\ route[p].at = "mark" /\ Current(p) \notin failed =>
         \A u \in Recipients(e) : Reached(e, u)

Marked == \A i \in notified \ failed : \A u \in Recipients(log[i]) : Reached(log[i], u)

(* Every mail of a key but those that a fault has undone has its row.       *)
Rowed(k) == k \in DOMAIN alerts \/ \E p \in Ticks : Open(p) /\ k \in route[p].keys
MailSound(k) ==
  /\ mailed[k] \in Nat /\ mailed[k] <= disturbed.faults + 1
  /\ ~Rowed(k) => mailed[k] <= disturbed.faults

AlertsInv ==
  /\ AlertsTypeOK
  /\ \A p \in Ticks : RouteSound(p)
  /\ Marked
  /\ \A k \in DOMAIN mailed : MailSound(k)

LEMMA RecipientsTyped ==
  ASSUME NEW e \in Event PROVE Recipients(e) \subseteq Teammates
<1>1. e.kind \in EventKinds /\ e.mentions \subseteq Teammates
  BY DEF Event
<1>2. Author \in Teammates /\ \A roles : WithRole(roles) \subseteq Teammates
  BY AlertsAssumption DEF WithRole
<1>3. CASE e.kind = "account_reconnect"
  BY <1>2, <1>3 DEF Recipients
<1>4. CASE e.kind = "publish_failed"
  BY <1>2, <1>4 DEF Recipients
<1>5. CASE e.kind = "needs_approval"
  BY <1>2, <1>5 DEF Recipients
<1>6. CASE e.kind \in {"post_approved", "post_changes_requested"}
  BY <1>2, <1>6 DEF Recipients
<1>7. CASE e.kind = "mention"
  BY <1>1, <1>7 DEF Recipients
<1>8. CASE e.kind = "queue_low"
  BY <1>2, <1>8 DEF Recipients
<1>9. CASE e.kind = "weekly_summary"
  BY <1>2, <1>9 DEF Recipients
<1> QED
  BY <1>1, <1>3, <1>4, <1>5, <1>6, <1>7, <1>8, <1>9 DEF EventKinds

LEMMA InitAlerts == AlertsInit => AlertsInv
<1> SUFFICES ASSUME AlertsInit PROVE AlertsInv
  OBVIOUS
<1>1. NoRoute \in Routes
  BY DEF NoRoute, Routes
<1>2. AlertsTypeOK
  BY <1>1 DEF AlertsInit, AlertsTypeOK
<1>3. \A p \in Ticks : route[p].at = "idle"
  BY DEF AlertsInit, NoRoute
<1> QED
  BY <1>2, <1>3 DEF AlertsInit, AlertsInv, RouteSound, Marked

(* What the steps of others, or of the business, may do to a route.         *)
Grows ==
  /\ \A i \in DOMAIN log : i \in DOMAIN log' /\ log'[i] = log[i]
  /\ DOMAIN alerts \subseteq DOMAIN alerts'
  /\ DOMAIN overrides \subseteq DOMAIN overrides'
  /\ failed \subseteq failed'

LEMMA CurrentIn ==
  ASSUME AlertsInv, NEW p \in Ticks, route[p].at # "idle"
  PROVE  /\ Current(p) \in route[p].batch /\ Current(p) \in DOMAIN log
         /\ log[Current(p)] \in Event
<1>1. /\ route[p].batch \in SUBSET Nat /\ route[p].batch # {}
      /\ route[p].batch \subseteq DOMAIN log
  BY DEF AlertsInv, AlertsTypeOK, Routes, RouteSound
<1>2. Current(p) \in route[p].batch
  BY <1>1, EarliestIn DEF Current
<1> QED
  BY <1>1, <1>2 DEF AlertsInv, AlertsTypeOK

LEMMA ReachedStays ==
  ASSUME Grows, NEW e, NEW u, Reached(e, u) PROVE Reached(e, u)'
BY DEF Grows, Reached, Key

LEMMA OthersKeep ==
  ASSUME AlertsInv, Grows, NEW q \in Ticks, route'[q] = route[q] PROVE RouteSound(q)'
<1> SUFFICES ASSUME route[q].at # "idle" PROVE RouteSound(q)'
  BY DEF RouteSound
<1>1. RouteSound(q) /\ Current(q) \in DOMAIN log
  BY CurrentIn DEF AlertsInv
<1>2. PICK e : e = log[Current(q)]
  OBVIOUS
<1>3. Current(q)' = Current(q) /\ log'[Current(q)'] = e
  BY <1>1, <1>2 DEF Current, Grows
<1>4. \A u : Reached(e, u) => Reached(e, u)'
  BY ReachedStays
<1> QED
  BY <1>1, <1>2, <1>3, <1>4 DEF RouteSound, Grows

LEMMA MarkedKeeps ==
  ASSUME AlertsInv, Grows, notified' = notified PROVE Marked'
<1>1. ASSUME NEW i \in notified \ failed, NEW e, e = log'[i]
      PROVE  \A u \in Recipients(e) : Reached(e, u)'
  <2>1. e = log[i]
    BY <1>1 DEF AlertsInv, AlertsTypeOK, Grows
  <2>2. \A u \in Recipients(e) : Reached(e, u)
    BY <2>1 DEF AlertsInv, Marked
  <2> QED
    BY <2>2, ReachedStays
<1> QED
  BY <1>1 DEF Marked, Grows

LEMMA MailKeeps ==
  ASSUME AlertsInv, AlertsTypeOK', mailed' = mailed, disturbed'.faults >= disturbed.faults,
         \A k : Rowed(k) => Rowed(k)' \/ disturbed'.faults = disturbed.faults + 1
  PROVE  \A k \in DOMAIN mailed' : MailSound(k)'
<1> SUFFICES ASSUME NEW k \in DOMAIN mailed PROVE MailSound(k)'
  OBVIOUS
<1>1. MailSound(k) /\ disturbed.faults \in Nat /\ disturbed'.faults \in Nat
  BY DEF AlertsInv, AlertsTypeOK
<1> QED
  BY <1>1 DEF MailSound

(* Steps that leave the routes, the marks and the mails alone.              *)
LEMMA QuietKeeps ==
  ASSUME AlertsInv, Grows, AlertsTypeOK', UNCHANGED <<route, notified, mailed>>,
         disturbed'.faults = disturbed.faults
  PROVE  AlertsInv'
<1>1. \A q \in Ticks : RouteSound(q)'
  BY OthersKeep
<1>2. \A k : Rowed(k) => Rowed(k)'
  BY DEF Rowed, Open, Grows
<1>3. \A k \in DOMAIN mailed' : MailSound(k)'
  BY <1>2, MailKeeps DEF AlertsInv, AlertsTypeOK
<1> QED
  BY <1>1, <1>3, MarkedKeeps DEF AlertsInv

LEMMA EmitKeeps ==
  ASSUME AlertsInv, NEW e \in Event, Emit(e) PROVE AlertsInv'
<1>1. log' = Append(log, e) /\ UNCHANGED <<route, notified, mailed, alerts, overrides, failed, disturbed>>
  BY DEF Emit
<1>2. Grows
  BY <1>1 DEF AlertsInv, AlertsTypeOK, Grows
<1>3. AlertsTypeOK'
  BY <1>1, <1>2 DEF AlertsInv, AlertsTypeOK, Grows
<1> QED
  BY <1>1, <1>2, <1>3, QuietKeeps, ZenonT(60)

LEMMA EventsTyped ==
  /\ \A kind \in Causes : [kind |-> kind, about |-> "post", mentions |-> {}] \in Event
  /\ \A S \in SUBSET Teammates : \A by : "mention" \in Causes =>
       [kind |-> "mention", about |-> "post", mentions |-> (S \cap Teammates) \ {by}] \in Event
  /\ [kind |-> "weekly_summary", about |-> 0, mentions |-> {}] \in Event
  /\ \A m \in Markets : [kind |-> "queue_low", about |-> m, mentions |-> {}] \in Event
BY AlertsAssumption DEF Event, Abouts, EventKinds

LEMMA ArrivalKeeps ==
  ASSUME AlertsInv,
         \/ \E k \in Causes : Happens(k)
         \/ \E u \in Teammates, S \in SUBSET Teammates : AddComment(u, S)
         \/ WeeklySummaryTick
         \/ \E m \in Markets : QueueLowTick(m)
  PROVE  AlertsInv'
BY EventsTyped, EmitKeeps DEF Happens, AddComment, WeeklySummaryTick, QueueLowTick

LEMMA ReaderKeeps ==
  ASSUME AlertsInv,
         \/ \E m \in Markets : QueueMoves(m)
         \/ \E u \in Teammates, c \in Channels, k \in Causes, on \in BOOLEAN :
              TogglePreference(u, k, c, on)
         \/ \E u \in Teammates, k \in DOMAIN alerts : OpenNotification(u, k)
  PROVE  AlertsInv'
<1>1. /\ UNCHANGED <<log, route, notified, mailed, failed>>
      /\ disturbed' = disturbed \/ disturbed' = [disturbed EXCEPT !.changes = @ + 1]
  BY DEF QueueMoves, TogglePreference, OpenNotification, Change
<1>2. DOMAIN alerts \subseteq DOMAIN alerts' /\ DOMAIN overrides \subseteq DOMAIN overrides'
  BY DEF QueueMoves, TogglePreference, SetPreference, OpenNotification, MarkNotificationRead
<1>3. AlertsTypeOK' /\ disturbed'.faults = disturbed.faults
  BY <1>1 DEF AlertsInv, AlertsTypeOK
<1>4. Grows
  BY <1>1, <1>2 DEF Grows
<1> QED
  BY <1>1, <1>3, <1>4, QuietKeeps, ZenonT(60)

-----------------------------------------------------------------------------
(* Steps of one tick.                                                       *)
LEMMA TickMoves ==
  ASSUME AlertsInv, NEW p \in Ticks, NEW r \in Routes, SetRoute(p, r), Grows,
         AlertsTypeOK', RouteSound(p)', Marked', \A k \in DOMAIN mailed' : MailSound(k)'
  PROVE  AlertsInv'
<1>1. \A q \in Ticks \ {p} : route'[q] = route[q]
  BY DEF SetRoute, AlertsInv, AlertsTypeOK
<1> QED
  BY <1>1, OthersKeep DEF AlertsInv

(* A tick that takes up a batch.                                            *)
LEMMA RoutingSound ==
  ASSUME AlertsInv, NEW p \in Ticks, NEW B \in SUBSET (DOMAIN log),
         log' = log, SetRoute(p, Routing(B))
  PROVE  Routing(B) \in Routes /\ RouteSound(p)' /\ route'[p] = Routing(B)
<1>1. route'[p] = Routing(B)
  BY DEF SetRoute, AlertsInv, AlertsTypeOK
<1>2. CASE B = {}
  BY <1>1, <1>2 DEF Routing, NoRoute, Routes, RouteSound
<1>3. CASE B # {}
  <2>1. DOMAIN log \subseteq Nat /\ B \in SUBSET Nat
    BY DEF AlertsInv, AlertsTypeOK
  <2>2. Earliest(B) \in DOMAIN log
    BY <1>3, <2>1, EarliestIn
  <2>3. PICK e \in Event : e = log[Earliest(B)]
    BY <2>2 DEF AlertsInv, AlertsTypeOK
  <2>4. Routing(B) = [at |-> "routing", batch |-> B, todo |-> Recipients(e), keys |-> {}]
    BY <1>3, <2>3 DEF Routing
  <2>5. Routing(B) \in Routes
    BY <2>1, <2>4, RecipientsTyped DEF Routes
  <2>6. Current(p)' = Earliest(B)
    BY <1>1, <2>4 DEF Current
  <2>7. RouteSound(p)'
    BY <1>1, <1>3, <2>3, <2>4, <2>6 DEF RouteSound
  <2> QED
    BY <1>1, <2>5, <2>7
<1> QED
  BY <1>2, <1>3

LEMMA StartTickKeeps ==
  ASSUME AlertsInv, NEW p \in Ticks, StartTick(p) PROVE AlertsInv'
<1> DEFINE B == DOMAIN log \ notified
<1>1. /\ route[p].at = "idle" /\ SetRoute(p, Routing(B))
      /\ UNCHANGED <<log, notified, overrides, alerts, mailed, failed, disturbed>>
  BY DEF StartTick
<1>2. Routing(B) \in Routes /\ RouteSound(p)' /\ route'[p] = Routing(B)
  BY <1>1, RoutingSound
<1> HIDE DEF B
<1>3. Grows
  BY <1>1 DEF Grows
<1>4. AlertsTypeOK'
  BY <1>1, <1>2 DEF AlertsInv, AlertsTypeOK, SetRoute
<1>5. \A k : Rowed(k) => Rowed(k)'
  BY <1>1 DEF Rowed, Open, SetRoute, AlertsInv, AlertsTypeOK
<1>6. \A k \in DOMAIN mailed' : MailSound(k)'
  BY <1>1, <1>4, <1>5, MailKeeps DEF AlertsInv, AlertsTypeOK
<1> QED
  BY <1>1, <1>2, <1>3, <1>4, <1>6, MarkedKeeps, TickMoves

(* A recipient without the row yet: the mail is the first since the last    *)
(* fault undid one.                                                         *)
LEMMA DeliverKeeps ==
  ASSUME AlertsInv, NEW p \in Ticks, NEW u \in Teammates, Deliver(p, u) PROVE AlertsInv'
<1>1. route[p].at = "routing" /\ route[p].at # "idle"
  BY DEF Deliver, Open
<1>2. PICK e \in Event : e = log[Current(p)]
  BY <1>1, CurrentIn
<1>3. PICK k : k = Key(e, u)
  OBVIOUS
<1>4. k \in EventKinds \X Abouts \X Teammates
  BY <1>3 DEF Key, Event
<1> DEFINE chans == EnabledChannels(u, e.kind)
           inserts == chans # {} /\ k \notin DOMAIN alerts
           keys == IF inserts THEN route[p].keys \cup {k} ELSE route[p].keys
           r == [route[p] EXCEPT !.todo = @ \ {u}, !.keys = keys]
<1>5. /\ u \in route[p].todo /\ (chans # {} => ~HeldByOther(p, k))
      /\ SetRoute(p, r)
      /\ IF inserts /\ "email" \in chans THEN Mail(k) ELSE UNCHANGED mailed
      /\ UNCHANGED <<log, notified, overrides, alerts, failed, disturbed>>
  BY <1>2, <1>3 DEF Deliver
<1>6. route[p] \in Routes
  BY DEF AlertsInv, AlertsTypeOK
<1>7. /\ r \in Routes /\ r.at = "routing" /\ r.batch = route[p].batch
      /\ r.todo = route[p].todo \ {u} /\ r.keys = keys
  BY <1>1, <1>4, <1>6 DEF Routes
<1> HIDE DEF r
<1>8. route' = [route EXCEPT ![p] = r] /\ route'[p] = r
  BY <1>5 DEF SetRoute, AlertsInv, AlertsTypeOK
<1>9. Grows
  BY <1>5 DEF Grows
<1>10. AlertsTypeOK'
  BY <1>5, <1>7, <1>8 DEF AlertsInv, AlertsTypeOK
<1>11. chans = {} => <<u, e.kind>> \in DOMAIN overrides
  BY DEF EnabledChannels, DEFAULTS, Channels
<1>12. /\ \A v \in route[p].todo : Key(e, v) \notin route[p].keys
       /\ \A v \in Recipients(e) \ route[p].todo : Reached(e, v) \/ Key(e, v) \in route[p].keys
       /\ route[p].batch # {} /\ route[p].batch \subseteq DOMAIN log
  BY <1>1, <1>2 DEF AlertsInv, RouteSound
<1>13. RouteSound(p)'
  <2>1. Current(p)' = Current(p) /\ log'[Current(p)] = e
    BY <1>2, <1>5, <1>7, <1>8 DEF Current
  <2>2. ASSUME NEW v \in r.todo PROVE Key(e, v) \notin r.keys
    <3>1. v # u /\ Key(e, v) \notin route[p].keys
      BY <1>7, <1>12
    <3>2. Key(e, v) # k
      BY <1>3, <3>1 DEF Key
    <3> QED
      BY <1>7, <3>1, <3>2
  <2>3. ASSUME NEW v \in Recipients(e) \ r.todo PROVE Reached(e, v)' \/ Key(e, v) \in r.keys
    <3>1. CASE v = u
      BY <1>3, <1>5, <1>7, <1>11, <3>1 DEF Reached
    <3>2. CASE v # u
      <4>1. Reached(e, v) \/ Key(e, v) \in route[p].keys
        BY <1>7, <1>12, <3>2
      <4> QED
        BY <1>7, <1>9, <4>1, ReachedStays
    <3> QED
      BY <3>1, <3>2
  <2>4. r.batch # {} /\ r.batch \subseteq DOMAIN log'
    BY <1>5, <1>7, <1>12
  <2> QED
    BY <1>7, <1>8, <2>1, <2>2, <2>3, <2>4 DEF RouteSound
<1>14. \A x : Rowed(x) => Rowed(x)'
  BY <1>1, <1>5, <1>7, <1>8 DEF Rowed, Open, AlertsInv, AlertsTypeOK
<1>15. \A x \in DOMAIN mailed' : MailSound(x)'
  <2>1. CASE inserts /\ "email" \in chans
    <3>1. k \in r.keys /\ Rowed(k)'
      BY <1>7, <1>8, <2>1 DEF Rowed, Open
    <3>2. ~Rowed(k)
      <4>1. k \notin route[p].keys
        BY <1>3, <1>5, <1>12
      <4> QED
        BY <1>5, <2>1, <4>1 DEF Rowed, HeldByOther
    <3>3. /\ DOMAIN mailed' = DOMAIN mailed \cup {k}
          /\ \A x \in DOMAIN mailed \ {k} : mailed'[x] = mailed[x] + 0
          /\ mailed'[k] = (IF k \in DOMAIN mailed THEN mailed[k] ELSE 0) + 1
      BY <1>5, <2>1 DEF Mail
    <3>4. disturbed.faults \in Nat /\ disturbed' = disturbed
      BY <1>5 DEF AlertsInv, AlertsTypeOK
    <3>5. ASSUME NEW x \in DOMAIN mailed \ {k} PROVE MailSound(x)'
      <4>1. MailSound(x)
        BY DEF AlertsInv
      <4> QED
        BY <1>14, <3>3, <3>4, <4>1 DEF MailSound
    <3>6. k \in DOMAIN mailed => mailed[k] \in Nat /\ mailed[k] <= disturbed.faults
      BY <3>2 DEF AlertsInv, MailSound
    <3>7. MailSound(k)'
      BY <3>1, <3>3, <3>4, <3>6 DEF MailSound
    <3> QED
      BY <3>3, <3>5, <3>7
  <2>2. CASE ~(inserts /\ "email" \in chans)
    BY <1>5, <1>10, <1>14, <2>2, MailKeeps DEF AlertsInv, AlertsTypeOK
  <2> QED
    BY <2>1, <2>2
<1> QED
  BY <1>5, <1>7, <1>9, <1>10, <1>13, <1>15, MarkedKeeps, TickMoves

LEMMA CommitRouteKeeps ==
  ASSUME AlertsInv, NEW p \in Ticks, CommitRoute(p) PROVE AlertsInv'
<1> DEFINE r == [route[p] EXCEPT !.at = "mark", !.keys = {}]
<1>1. /\ route[p].at = "routing" /\ route[p].at # "idle" /\ route[p].todo = {}
      /\ DOMAIN alerts' = DOMAIN alerts \cup route[p].keys
      /\ SetRoute(p, r)
      /\ UNCHANGED <<log, notified, overrides, mailed, failed, disturbed>>
  BY DEF CommitRoute, Open
<1>2. route[p] \in Routes
  BY DEF AlertsInv, AlertsTypeOK
<1>3. r \in Routes /\ r.at = "mark" /\ r.batch = route[p].batch
  BY <1>2 DEF Routes
<1> HIDE DEF r
<1>4. route' = [route EXCEPT ![p] = r] /\ route'[p] = r
  BY <1>1 DEF SetRoute, AlertsInv, AlertsTypeOK
<1>5. Grows
  BY <1>1 DEF Grows
<1>6. AlertsTypeOK'
  BY <1>1, <1>3, <1>4 DEF AlertsInv, AlertsTypeOK
<1>7. RouteSound(p)'
  <2>1. PICK e \in Event : e = log[Current(p)]
    BY <1>1, CurrentIn
  <2>2. Current(p)' = Current(p) /\ log'[Current(p)] = e
    BY <1>1, <1>3, <1>4, <2>1 DEF Current
  <2>3. /\ \A u \in Recipients(e) : Reached(e, u) \/ Key(e, u) \in route[p].keys
        /\ route[p].batch # {} /\ route[p].batch \subseteq DOMAIN log
    BY <1>1, <2>1 DEF AlertsInv, RouteSound
  <2>4. \A u \in Recipients(e) : Reached(e, u)'
    BY <1>1, <2>3 DEF Reached
  <2> QED
    BY <1>1, <1>3, <1>4, <2>2, <2>3, <2>4 DEF RouteSound
<1>8. \A k : Rowed(k) => Rowed(k)'
  BY <1>1, <1>4 DEF Rowed, Open, AlertsInv, AlertsTypeOK
<1>9. \A k \in DOMAIN mailed' : MailSound(k)'
  BY <1>1, <1>6, <1>8, MailKeeps DEF AlertsInv, AlertsTypeOK
<1> QED
  BY <1>1, <1>3, <1>5, <1>6, <1>7, <1>9, MarkedKeeps, TickMoves

(* A fault may undo rows that were mailed, each of them once.               *)
LEMMA FaultKeeps ==
  ASSUME AlertsInv, NEW p \in Ticks, RouteFails(p) \/ CrashTick(p) PROVE AlertsInv'
<1>1. /\ disturbed' = [disturbed EXCEPT !.faults = @ + 1]
      /\ UNCHANGED <<log, notified, overrides, alerts, mailed>>
  BY DEF RouteFails, CrashTick
<1>2. disturbed' \in [faults : Nat, changes : Nat] /\ disturbed'.faults = disturbed.faults + 1
  BY <1>1 DEF AlertsInv, AlertsTypeOK
<1>3. route[p] \in Routes
  BY DEF AlertsInv, AlertsTypeOK
<1>4. PICK r \in Routes : SetRoute(p, r) /\ RouteSound(p)' /\ failed \subseteq failed'
  <2>1. CASE CrashTick(p)
    <3>1. NoRoute \in Routes /\ SetRoute(p, NoRoute) /\ failed' = failed /\ NoRoute.at = "idle"
      BY <2>1 DEF CrashTick, NoRoute, Routes
    <3>2. RouteSound(p)'
      BY <3>1 DEF SetRoute, RouteSound, AlertsInv, AlertsTypeOK
    <3> QED
      BY <3>1, <3>2
  <2>2. CASE RouteFails(p)
    <3> DEFINE r == [route[p] EXCEPT !.at = "mark", !.todo = {}, !.keys = {}]
    <3>1. /\ route[p].at = "routing" /\ SetRoute(p, r) /\ failed' = failed \cup {Current(p)}
      BY <2>2 DEF RouteFails, Open
    <3>2. r \in Routes /\ r.at = "mark" /\ r.batch = route[p].batch
      BY <1>3 DEF Routes
    <3> HIDE DEF r
    <3>3. route'[p] = r
      BY <3>1 DEF SetRoute, AlertsInv, AlertsTypeOK
    <3>4. Current(p)' = Current(p)
      BY <3>2, <3>3 DEF Current
    <3>5. route[p].batch # {} /\ route[p].batch \subseteq DOMAIN log
      BY <3>1 DEF AlertsInv, RouteSound
    <3>6. RouteSound(p)'
      BY <1>1, <3>1, <3>2, <3>3, <3>4, <3>5 DEF RouteSound
    <3> QED
      BY <3>1, <3>2, <3>6
  <2> QED
    BY <2>1, <2>2
<1>5. Grows
  BY <1>1, <1>4 DEF Grows
<1>6. AlertsTypeOK'
  BY <1>1, <1>2, <1>4 DEF AlertsInv, AlertsTypeOK, SetRoute
<1>7. \A k \in DOMAIN mailed' : MailSound(k)'
  BY <1>1, <1>2, <1>6, MailKeeps DEF AlertsInv, AlertsTypeOK
<1> QED
  BY <1>1, <1>4, <1>5, <1>6, <1>7, MarkedKeeps, TickMoves

LEMMA MarkNotifiedKeeps ==
  ASSUME AlertsInv, NEW p \in Ticks, MarkNotified(p) PROVE AlertsInv'
<1> DEFINE B == route[p].batch \ {Current(p)}
<1>1. /\ route[p].at = "mark" /\ route[p].at # "idle"
      /\ SetRoute(p, Routing(B)) /\ notified' = notified \cup {Current(p)}
      /\ UNCHANGED <<log, overrides, alerts, mailed, failed, disturbed>>
  BY DEF MarkNotified
<1>2. PICK e \in Event : e = log[Current(p)]
  BY <1>1, CurrentIn
<1>3. /\ Current(p) \notin failed => \A u \in Recipients(e) : Reached(e, u)
      /\ B \subseteq DOMAIN log
  BY <1>1, <1>2 DEF AlertsInv, RouteSound
<1>4. Routing(B) \in Routes /\ RouteSound(p)'
  BY <1>1, <1>3, RoutingSound
<1> HIDE DEF B
<1>5. Grows
  BY <1>1 DEF Grows
<1>6. AlertsTypeOK'
  BY <1>1, <1>4, CurrentIn DEF AlertsInv, AlertsTypeOK, SetRoute
<1>7. \A k : Rowed(k) => Rowed(k)'
  BY <1>1 DEF Rowed, Open, SetRoute, AlertsInv, AlertsTypeOK
<1>8. \A k \in DOMAIN mailed' : MailSound(k)'
  BY <1>1, <1>6, <1>7, MailKeeps DEF AlertsInv, AlertsTypeOK
<1>9. Marked'
  <2>1. \A d, u : Reached(d, u) => Reached(d, u)'
    BY <1>1 DEF Reached
  <2>2. ASSUME NEW i \in notified' \ failed, NEW d, d = log[i]
        PROVE  \A u \in Recipients(d) : Reached(d, u)
    <3>1. CASE i = Current(p)
      BY <1>2, <1>3, <2>2, <3>1
    <3>2. CASE i # Current(p)
      BY <1>1, <2>2, <3>2 DEF AlertsInv, Marked
    <3> QED
      BY <3>1, <3>2
  <2> QED
    BY <1>1, <2>1, <2>2 DEF Marked
<1> QED
  BY <1>4, <1>1, <1>5, <1>6, <1>8, <1>9, TickMoves

LEMMA NextAlerts == AlertsInv /\ [AlertsNext]_alertsVars => AlertsInv'
<1> SUFFICES ASSUME AlertsInv, [AlertsNext]_alertsVars PROVE AlertsInv'
  OBVIOUS
<1>1. CASE \E p \in Ticks :
             \/ StartTick(p) \/ CommitRoute(p) \/ RouteFails(p)
             \/ MarkNotified(p) \/ CrashTick(p)
             \/ \E u \in Teammates : Deliver(p, u)
  BY <1>1, StartTickKeeps, CommitRouteKeeps, FaultKeeps, MarkNotifiedKeeps, DeliverKeeps
<1>2. CASE UNCHANGED alertsVars
  BY <1>2, QuietKeeps DEF alertsVars, Grows, AlertsInv, AlertsTypeOK
<1>3. CASE AlertsNext
  BY <1>1, <1>3, ArrivalKeeps, ReaderKeeps DEF AlertsNext
<1> QED
  BY <1>2, <1>3

(* Every recipient of an event that was marked without a failure has the    *)
(* alert, and mails repeat only for routings that were undone: whatever the *)
(* ticks' interleaving, the repeated signals and the changes of             *)
(* preferences.                                                             *)
THEOREM AlertsReach == AlertsSpec => []AlertsArrive
<1>1. AlertsInv => AlertsArrive
  BY DEF AlertsInv, AlertsArrive, Marked, Reached
<1> QED
  BY <1>1, InitAlerts, NextAlerts, PTL DEF AlertsSpec

THEOREM MailsOnce == AlertsSpec => []MailedOnce
<1>1. AlertsInv => MailedOnce
  BY DEF AlertsInv, AlertsTypeOK, MailedOnce, MailSound
<1> QED
  BY <1>1, InitAlerts, NextAlerts, PTL DEF AlertsSpec

LEMMA LeastOne ==
  ASSUME NEW S \in SUBSET Nat, S # {} PROVE \E x \in S : \A y \in S : x <= y
<1>1. PICK x \in S : \A y \in S : ~(<<y, x>> \in Below)
  BY BelowIsWellFounded, WFMin
<1>2. ASSUME NEW y \in S PROVE x <= y
  <2>1. ~(<<y, x>> \in Below)
    BY <1>1
  <2>2. y < x => <<y, x>> \in Below
    BY DEF Below
  <2> QED
    BY <2>1, <2>2
<1> QED
  BY <1>2
-----------------------------------------------------------------------------
(* The calendar page.                                                       *)

Days == MonthStarts[1] .. MonthStarts[Len(MonthStarts)] - 1
EntryRows == [state : {"scheduled", "published"}, hour : Int]
CalPages == [view : Views, anchor : Days, zone : Offsets]

(* What a page holds is of the range of its cells, and what is in the       *)
(* database unless somebody moved an entry since.                           *)
HeldSound(h, en, c) ==
  /\ h = [events |-> h.events, range |-> h.range, fresh |-> h.fresh]
  /\ h.events \subseteq Entries \X EntryRows
  /\ h.range = RangeFor(c)
  /\ h.fresh => h.events = ListCalendar(en, h.range)

CalendarInv ==
  /\ entry \in [Entries -> EntryRows]
  /\ cal \in CalPages
  /\ HeldSound(held, entry, cal)
  /\ moving.to \in Int

LEMMA MonthsAreInts ==
  ASSUME NEW day \in Days
  PROVE  /\ MonthOf(day) \in 1 .. Len(MonthStarts) - 1
         /\ MonthStarts[MonthOf(day)] \in Int
<1> DEFINE N == Len(MonthStarts)
           S == {m \in 1 .. N - 1 : day < MonthStarts[m + 1]}
<1>1. \A i \in 1 .. N : MonthStarts[i] \in Int
  BY CalendarAssumption
<1>2. N \in Nat /\ N # 0
  BY CalendarAssumption
<1>d. Days = MonthStarts[1] .. MonthStarts[N] - 1
  BY DEF Days
<1>m. MonthOf(day) = CHOOSE m \in 1 .. N - 1 : MonthStarts[m] <= day /\ day < MonthStarts[m + 1]
  BY DEF MonthOf
<1> HIDE DEF N
<1>3. MonthStarts[1] \in Int /\ MonthStarts[N] \in Int
  BY <1>1, <1>2, SMT
<1>4. day \in Int /\ MonthStarts[1] <= day /\ day < MonthStarts[N]
  BY <1>3, <1>d, SMT
<1>5. N # 1
  BY <1>3, <1>4, SMT
<1>6. N - 1 \in 1 .. N - 1 /\ (N - 1) + 1 = N
  BY <1>2, <1>5, SMT
<1>7. S \in SUBSET Nat
  BY <1>2, SMT
<1>8. N - 1 \in S
  BY <1>4, <1>6
<1>9. PICK m \in S : \A q \in S : m <= q
  <2> HIDE DEF S
  <2> QED
    BY <1>7, <1>8, LeastOne
<1>10. m \in 1 .. N - 1 /\ m \in Int
  BY <1>2, <1>9, SMT
<1>11. MonthStarts[m] <= day
  <2>1. CASE m = 1
    BY <2>1, <1>4
  <2>2. CASE m # 1
    <3>1. m - 1 \in 1 .. N - 1 /\ (m - 1) + 1 = m /\ ~(m <= m - 1)
      BY <1>2, <1>10, <2>2, SMT
    <3>2. ~(day < MonthStarts[m])
      BY <1>9, <3>1
    <3>3. MonthStarts[m] \in Int
      BY <1>1, <1>2, <1>10, SMT
    <3> QED
      BY <1>4, <3>2, <3>3, SMT
  <2> QED
    BY <2>1, <2>2
<1>12. MonthOf(day) \in 1 .. N - 1
  BY <1>9, <1>10, <1>11, <1>m
<1>13. MonthOf(day) \in 1 .. N
  BY <1>2, <1>12, SMT
<1> QED
  BY <1>1, <1>12, <1>13 DEF N

LEMMA CellsAreInts ==
  ASSUME NEW c \in CalPages
  PROVE  Cells(c)[1] \in Int /\ Cells(c)[2] \in Int
<1>1. c.anchor \in Days /\ c.anchor \in Int
  BY CalendarAssumption, SMT DEF CalPages, Days
<1>2. \A d \in Int : Monday(d) \in Int
  BY SMT DEF Monday
<1>3. CASE c.view = "month"
  <2>1. MonthStarts[MonthOf(c.anchor)] \in Int
    BY <1>1, MonthsAreInts
  <2> DEFINE f == Monday(MonthStarts[MonthOf(c.anchor)])
  <2>2. f \in Int
    BY <1>2, <2>1
  <2>3. Cells(c) = <<f, f + 41>>
    BY <1>3 DEF Cells, MonthGrid
  <2> HIDE DEF f
  <2> QED
    BY <2>2, <2>3, SMT
<1>4. CASE c.view # "month"
  <2> DEFINE f == Monday(c.anchor)
  <2>1. f \in Int
    BY <1>1, <1>2
  <2>2. Cells(c) = <<f, f + 6>>
    BY <1>4 DEF Cells, WeekGrid
  <2> HIDE DEF f
  <2> QED
    BY <2>1, <2>2, SMT
<1> QED
  BY <1>3, <1>4

LEMMA ReadIsHeld ==
  ASSUME NEW en \in [Entries -> EntryRows], NEW c
  PROVE  HeldSound(Read(en, c), en, c)
<1> DEFINE h == Read(en, c)
<1>1. h = [events |-> ListCalendar(en, RangeFor(c)), range |-> RangeFor(c), fresh |-> TRUE]
  BY DEF Read
<1>2. ListCalendar(en, RangeFor(c)) \subseteq Entries \X EntryRows
  BY DEF ListCalendar
<1> HIDE DEF h
<1>3. h.events = ListCalendar(en, RangeFor(c)) /\ h.range = RangeFor(c) /\ h.fresh = TRUE
  BY <1>1
<1>4. h = [events |-> h.events, range |-> h.range, fresh |-> h.fresh]
  BY <1>1, <1>3
<1>5. HeldSound(h, en, c)
  BY <1>2, <1>3, <1>4 DEF HeldSound
<1> QED
  BY <1>5 DEF h

(* The range reaches a day beyond the cells, which is more than any zone.   *)
LEMMA RangeHolds ==
  ASSUME NEW first \in Int, NEW last \in Int, NEW h \in Int, NEW z \in -12 .. 14,
         first <= ZonedDate(h, z), ZonedDate(h, z) <= last
  PROVE  (first - 1) * 24 <= h /\ h < (last + 2) * 24
BY SMT DEF ZonedDate

LEMMA ShownFacts == CalendarInv => CalendarShowsAll
<1> SUFFICES ASSUME CalendarInv, held.fresh, NEW e \in Entries,
                    Cells(cal)[1] <= ZonedDate(entry[e].hour, cal.zone),
                    ZonedDate(entry[e].hour, cal.zone) <= Cells(cal)[2]
             PROVE  <<e, entry[e]>> \in held.events
  BY DEF CalendarShowsAll
<1>1. entry[e].hour \in Int /\ cal.zone \in -12 .. 14 /\ cal \in CalPages
  <2>1. entry[e] \in EntryRows /\ cal \in CalPages
    BY DEF CalendarInv
  <2>2. cal.zone \in -12 .. 14
    BY <2>1, CalendarAssumption DEF CalPages
  <2> QED
    BY <2>1, <2>2 DEF EntryRows
<1>2. Cells(cal)[1] \in Int /\ Cells(cal)[2] \in Int
  BY <1>1, CellsAreInts
<1>3. (Cells(cal)[1] - 1) * 24 <= entry[e].hour /\ entry[e].hour < (Cells(cal)[2] + 2) * 24
  BY <1>1, <1>2, RangeHolds
<1>4. held.range[1] <= entry[e].hour /\ entry[e].hour < held.range[2]
  <2>1. held.range = RangeFor(cal)
    BY DEF CalendarInv, HeldSound
  <2> QED
    BY <1>3, <2>1 DEF RangeFor
<1>5. held.events = ListCalendar(entry, held.range)
  BY DEF CalendarInv, HeldSound
<1> QED
  BY <1>4, <1>5 DEF ListCalendar

LEMMA InitCalendar == CalendarInit => CalendarInv
<1> SUFFICES ASSUME CalendarInit PROVE CalendarInv
  OBVIOUS
<1>0. EntryHours \subseteq Int /\ Anchors \subseteq Days /\ {"month"} \subseteq Views
  BY CalendarAssumption DEF Days, Views
<1>1. entry \in [Entries -> EntryRows]
  <2>1. [state : {"scheduled", "published"}, hour : EntryHours] \subseteq EntryRows
    BY <1>0 DEF EntryRows
  <2> QED
    BY <2>1 DEF CalendarInit
<1>2. cal \in CalPages
  BY <1>0 DEF CalendarInit, CalPages
<1>3. HeldSound(held, entry, cal)
  BY <1>1, ReadIsHeld DEF CalendarInit
<1>4. moving.to = 0
  BY DEF CalendarInit, Still
<1> QED
  BY <1>1, <1>2, <1>3, <1>4, SMT DEF CalendarInv

(* The cells alone determine the range.                                     *)
LEMMA TurnToKeeps ==
  ASSUME CalendarInv, NEW c \in CalPages, TurnTo(c)
  PROVE  CalendarInv'
<1>1. cal' = c /\ entry' = entry /\ moving' = moving
  BY DEF TurnTo
<1>2. HeldSound(held', entry, c)
  <2>1. CASE RangeFor(c) = held.range /\ held.fresh
    BY <2>1 DEF CalendarInv, HeldSound, TurnTo
  <2>2. CASE ~(RangeFor(c) = held.range /\ held.fresh)
    <3>1. held' = Read(entry, c)
      BY <2>2 DEF TurnTo
    <3> QED
      BY <3>1, ReadIsHeld DEF CalendarInv
  <2> QED
    BY <2>1, <2>2
<1> QED
  BY <1>1, <1>2 DEF CalendarInv

LEMMA NextCalendar == CalendarInv /\ [CalendarNext]_calendarVars => CalendarInv'
<1> SUFFICES ASSUME CalendarInv, [CalendarNext]_calendarVars PROVE CalendarInv'
  OBVIOUS
<1>1. cal \in CalPages
  BY DEF CalendarInv
<1>2. ASSUME NEW v \in Views, SetView(v) PROVE CalendarInv'
  <2>1. [cal EXCEPT !.view = v] \in CalPages
    BY <1>1, SMT DEF CalPages
  <2> QED
    BY <1>2, <2>1, TurnToKeeps DEF SetView
<1>3. ASSUME NEW n \in {-1, 1}, ShiftAnchor(n) PROVE CalendarInv'
  <2> DEFINE m == MonthOf(cal.anchor)
             day == IF cal.view = "week" THEN cal.anchor + 7 * n
                    ELSE MonthStarts[m + n] + (cal.anchor - MonthStarts[m])
  <2>1. /\ cal.view = "week" \/ m + n \in 1 .. Len(MonthStarts) - 1
        /\ MonthStarts[1] <= day /\ day < MonthStarts[Len(MonthStarts)]
        /\ TurnTo([cal EXCEPT !.anchor = day])
    BY <1>3 DEF ShiftAnchor
  <2>2. cal.anchor \in Days /\ cal.anchor \in Int
    BY <1>1, CalendarAssumption, SMT DEF CalPages, Days
  <2>3. m \in 1 .. Len(MonthStarts) - 1 /\ MonthStarts[m] \in Int
    BY <2>2, MonthsAreInts
  <2>4. day \in Int
    <3>1. CASE cal.view = "week"
      BY <3>1, <2>2, SMT
    <3>2. CASE cal.view # "week"
      <4>1. m + n \in 1 .. Len(MonthStarts)
        BY <2>1, <3>2, CalendarAssumption, SMT
      <4>2. MonthStarts[m + n] \in Int
        BY <4>1, CalendarAssumption
      <4> HIDE DEF m
      <4> QED
        BY <2>2, <2>3, <3>2, <4>2, SMT
    <3> QED
      BY <3>1, <3>2
  <2> HIDE DEF day, m
  <2>5. day \in Days
    BY <2>1, <2>4, CalendarAssumption, SMT DEF Days
  <2>6. [cal EXCEPT !.anchor = day] \in CalPages
    BY <1>1, <2>5, SMT DEF CalPages
  <2> QED
    BY <2>1, <2>6, TurnToKeeps
<1>4. ASSUME NEW z \in Offsets, SetViewZone(z) PROVE CalendarInv'
  <2>1. cal' = [cal EXCEPT !.zone = z] /\ UNCHANGED <<entry, held, moving>>
    BY <1>4 DEF SetViewZone
  <2>2. cal' \in CalPages /\ cal'.view = cal.view /\ cal'.anchor = cal.anchor
    BY <1>1, <2>1, SMT DEF CalPages
  <2>3. RangeFor(cal') = RangeFor(cal)
    BY <2>2 DEF RangeFor, Cells
  <2>4. HeldSound(held, entry, cal')
    BY <2>3 DEF CalendarInv, HeldSound
  <2> QED
    BY <2>1, <2>2, <2>4 DEF CalendarInv
<1>5. ASSUME NEW e \in Entries, NEW i \in {1, 2}, Drop(e, Cells(cal)[i]) PROVE CalendarInv'
  <2> DEFINE day == Cells(cal)[i]
  <2>1. day \in Int
    BY <1>1, CellsAreInts
  <2>2. PICK shown \in held.events :
          moving' = [entry |-> e, refused |-> FALSE,
                     to |-> InstantAt(day, (shown[2].hour + cal.zone) % 24, cal.zone)]
    BY <1>5 DEF Drop
  <2>3. shown[2].hour \in Int /\ cal.zone \in Int
    <3>1. shown \in Entries \X EntryRows
      BY DEF CalendarInv, HeldSound
    <3>2. shown[2].hour \in Int
      BY <3>1 DEF EntryRows
    <3>3. cal.zone \in -12 .. 14
      BY <1>1, CalendarAssumption DEF CalPages
    <3> QED
      BY <3>2, <3>3, SMT
  <2> HIDE DEF day
  <2>4. moving'.to \in Int
    <3> DEFINE x == (shown[2].hour + cal.zone) % 24
    <3>1. x \in Int
      BY <2>3, SMT
    <3>2. moving'.to = day * 24 + x - cal.zone
      BY <2>2 DEF InstantAt
    <3> HIDE DEF x
    <3> QED
      BY <2>1, <2>3, <3>1, <3>2, SMT
  <2>5. UNCHANGED <<entry, cal, held>>
    BY <1>5 DEF Drop
  <2> QED
    BY <2>4, <2>5 DEF CalendarInv
<1>6. ASSUME NEW e \in Entries, NEW s \in {"scheduled", "published"}, NEW h \in EntryHours,
             Elsewise(e, [state |-> s, hour |-> h])
      PROVE  CalendarInv'
  <2>1. [state |-> s, hour |-> h] \in EntryRows
    BY CalendarAssumption, SMT DEF EntryRows
  <2>2. /\ entry' = [entry EXCEPT ![e] = [state |-> s, hour |-> h]]
        /\ held' = [held EXCEPT !.fresh = FALSE]
        /\ UNCHANGED <<cal, moving>>
    BY <1>6 DEF Elsewise
  <2>3. held' = [events |-> held.events, range |-> held.range, fresh |-> FALSE]
    BY <2>2 DEF CalendarInv, HeldSound
  <2>4. entry' \in [Entries -> EntryRows]
    BY <2>1, <2>2 DEF CalendarInv
  <2>5. HeldSound(held', entry', cal)
    BY <2>3 DEF CalendarInv, HeldSound
  <2> QED
    BY <2>2, <2>4, <2>5 DEF CalendarInv
<1>7. ASSUME Confirm PROVE CalendarInv'
  <2> DEFINE e == moving.entry
             ok == e # "none" /\ entry[e].state = "scheduled" /\ moving.to > ServerNow
  <2>1. /\ entry' = IF ok THEN [entry EXCEPT ![e].hour = moving.to] ELSE entry
        /\ held' = IF ok THEN Read(entry', cal) ELSE held
        /\ moving' = [Still EXCEPT !.refused = ~ok]
        /\ cal' = cal
    BY <1>7 DEF Confirm
  <2> HIDE DEF e, ok
  <2>2. entry' \in [Entries -> EntryRows]
    <3> DEFINE g == moving.to
    <3>1. g \in Int /\ entry \in [Entries -> EntryRows]
      BY DEF CalendarInv
    <3>2. entry' = IF ok THEN [entry EXCEPT ![e].hour = g] ELSE entry
      BY <2>1
    <3> HIDE DEF g
    <3> QED
      BY <3>1, <3>2, Zenon DEF EntryRows
  <2>3. moving'.to \in Int
    <3>1. moving'.to = 0
      BY <2>1, Zenon DEF Still
    <3> QED
      BY <3>1, SMT
  <2>4. HeldSound(held', entry', cal)
    <3>1. CASE ok
      BY <2>1, <2>2, <3>1, ReadIsHeld
    <3>2. CASE ~ok
      BY <2>1, <3>2 DEF CalendarInv
    <3> QED
      BY <3>1, <3>2
  <2> QED
    BY <2>1, <2>2, <2>3, <2>4 DEF CalendarInv
<1>8. CASE UNCHANGED calendarVars
  BY <1>8 DEF calendarVars, CalendarInv
<1> QED
  BY <1>2, <1>3, <1>4, <1>5, <1>6, <1>7, <1>8 DEF CalendarNext

(* The calendar shows every entry that falls on one of its cells, for every *)
(* zone from twelve hours behind to fourteen ahead of UTC, any months and   *)
(* any instants.                                                            *)
THEOREM CalendarIsComplete == CalendarSpec => []CalendarShowsAll
BY InitCalendar, NextCalendar, ShownFacts, PTL DEF CalendarSpec

-----------------------------------------------------------------------------
(* Wall clocks.                                                             *)

WallClockTypeOK ==
  \/ ask.at = "idle"
  \/ /\ ask.at = "asked"
     /\ ask.zone \in Zones /\ ask.time \in Int
  \/ /\ ask.at = "answered"
     /\ ask.zone \in Zones /\ ask.time \in Int
     /\ ask.is = ResolveTargetInstant(ask.type, ask.zone, ask.time)

(* What the bisection makes of the interval it is left with.                *)
Halved(z, lo0, g) ==
  [r \in Int \X Int |->
     LET lo == r[1]  hi == r[2]  mid == lo + (hi - lo) \div 2
     IN  IF hi - lo <= 1 THEN hi
         ELSE IF OffsetMinutes(z, mid) = OffsetMinutes(z, lo0) THEN g[<<mid, hi>>]
         ELSE g[<<lo, mid>>]]

LEMMA Bisection ==
  ASSUME NEW z, NEW lo \in Int, NEW hi \in Int
  PROVE  FindTransition(z, lo, hi) = (CHOOSE g : g = Halved(z, lo, g))[<<lo, hi>>]
BY DEF FindTransition, Halved

(* The midpoint is strictly inside an interval that is halved.              *)
LEMMA Midpoint ==
  ASSUME NEW lo \in Int, NEW hi \in Int, hi - lo > 1
  PROVE  /\ lo + (hi - lo) \div 2 \in Int
         /\ lo < lo + (hi - lo) \div 2 /\ lo + (hi - lo) \div 2 < hi
BY SMT

(* There is a function that halves: around a change of the offset, the one  *)
(* that answers the change if it is inside, or else an end of the interval. *)
LEMMA BisectionExists ==
  ASSUME NEW z, z.before # z.after, NEW lo0 \in Int, lo0 < 0
  PROVE  \E g : g = Halved(z, lo0, g)
<1> DEFINE h == [r \in Int \X Int |-> IF r[2] - r[1] <= 1 \/ r[2] <= 0 THEN r[2]
                                      ELSE IF r[1] >= 0 THEN r[1] + 1 ELSE 0]
           k == Halved(z, lo0, h)
<1>1. ASSUME NEW lo \in Int, NEW hi \in Int PROVE k[<<lo, hi>>] = h[<<lo, hi>>]
  <2> DEFINE mid == lo + (hi - lo) \div 2
  <2>0. \A u, v \in Int : h[<<u, v>>] = IF v - u <= 1 \/ v <= 0 THEN v
                                        ELSE IF u >= 0 THEN u + 1 ELSE 0
    OBVIOUS
  <2>1. k[<<lo, hi>>] = IF hi - lo <= 1 THEN hi
                        ELSE IF OffsetMinutes(z, mid) = OffsetMinutes(z, lo0) THEN h[<<mid, hi>>]
                        ELSE h[<<lo, mid>>]
    <3> HIDE DEF h
    <3> QED
      BY DEF Halved
  <2> HIDE DEF k, h
  <2>2. CASE hi - lo <= 1
    BY <2>0, <2>1, <2>2
  <2>3. CASE ~(hi - lo <= 1)
    <3>1. mid \in Int /\ lo < mid /\ mid < hi
      BY <2>3, Midpoint
    <3> HIDE DEF mid
    <3>2. OffsetMinutes(z, mid) = OffsetMinutes(z, lo0) <=> mid < 0
      BY DEF OffsetMinutes, Shift
    <3>3. k[<<lo, hi>>] = IF mid < 0 THEN h[<<mid, hi>>] ELSE h[<<lo, mid>>]
      BY <2>1, <2>3, <3>2
    <3>4. /\ h[<<mid, hi>>] = IF hi - mid <= 1 \/ hi <= 0 THEN hi
                              ELSE IF mid >= 0 THEN mid + 1 ELSE 0
          /\ h[<<lo, mid>>] = IF mid - lo <= 1 \/ mid <= 0 THEN mid
                              ELSE IF lo >= 0 THEN lo + 1 ELSE 0
          /\ h[<<lo, hi>>] = IF hi - lo <= 1 \/ hi <= 0 THEN hi
                             ELSE IF lo >= 0 THEN lo + 1 ELSE 0
      BY <2>0, <3>1
    <3> DEFINE p == h[<<mid, hi>>]
               q == h[<<lo, mid>>]
               w == h[<<lo, hi>>]
    <3> HIDE DEF p, q, w
    <3>5. (IF mid < 0 THEN p ELSE q) = w
      BY <2>3, <3>1, <3>4, SMT DEF p, q, w
    <3> QED
      BY <3>3, <3>5 DEF p, q, w
  <2> QED
    BY <2>2, <2>3
<1>2. k = [r \in Int \X Int |-> k[r]] /\ h = [r \in Int \X Int |-> h[r]]
  <2>1. k = [r \in Int \X Int |-> k[r]]
    <3> HIDE DEF h
    <3> QED
      BY DEF Halved
  <2> QED
    BY <2>1
<1> HIDE DEF k, h
<1>3. \A r \in Int \X Int : k[r] = h[r]
  BY <1>1
<1>4. k = h
  BY <1>2, <1>3
<1> QED
  BY <1>4 DEF k

(* And any that halves answers the change if it is inside.                  *)
LEMMA BisectionFinds ==
  ASSUME NEW z, z.before # z.after, NEW lo0 \in Int, lo0 < 0,
         NEW g, g = Halved(z, lo0, g)
  PROVE  \A lo, hi \in Int : lo < 0 /\ hi >= 0 => g[<<lo, hi>>] = 0
<1> DEFINE Wrong == {n \in Nat : \E lo, hi \in Int : lo < 0 /\ hi >= 0 /\ hi - lo = n /\ g[<<lo, hi>>] # 0}
<1>1. ASSUME NEW n \in Wrong, \A m \in Wrong : n <= m PROVE FALSE
  <2>1. PICK lo \in Int, hi \in Int : lo < 0 /\ hi >= 0 /\ hi - lo = n /\ g[<<lo, hi>>] # 0
    BY <1>1
  <2> DEFINE mid == lo + (hi - lo) \div 2
  <2>2. g[<<lo, hi>>] = IF hi - lo <= 1 THEN hi
                        ELSE IF OffsetMinutes(z, mid) = OffsetMinutes(z, lo0) THEN g[<<mid, hi>>]
                        ELSE g[<<lo, mid>>]
    <3>1. g[<<lo, hi>>] = Halved(z, lo0, g)[<<lo, hi>>]
      OBVIOUS
    <3> QED
      BY <3>1 DEF Halved
  <2>3. CASE hi - lo <= 1
    BY <2>1, <2>2, <2>3
  <2>4. CASE ~(hi - lo <= 1)
    <3>1. mid \in Int /\ lo < mid /\ mid < hi
      BY <2>4, Midpoint
    <3> HIDE DEF mid
    <3>2. OffsetMinutes(z, mid) = OffsetMinutes(z, lo0) <=> mid < 0
      BY DEF OffsetMinutes, Shift
    <3>3. CASE mid < 0
      <4>1. g[<<mid, hi>>] # 0
        BY <2>1, <2>2, <2>4, <3>2, <3>3
      <4>2. hi - mid \in Nat /\ ~(n <= hi - mid)
        BY <2>1, <3>1, SMT
      <4>3. hi - mid \in Wrong
        BY <2>1, <3>1, <3>3, <4>1, <4>2
      <4> QED
        BY <1>1, <4>2, <4>3
    <3>4. CASE ~(mid < 0)
      <4>1. g[<<lo, mid>>] # 0
        BY <2>1, <2>2, <2>4, <3>2, <3>4
      <4>2. mid - lo \in Nat /\ ~(n <= mid - lo) /\ mid >= 0
        BY <2>1, <3>1, <3>4, SMT
      <4>3. mid - lo \in Wrong
        BY <2>1, <3>1, <4>1, <4>2
      <4> QED
        BY <1>1, <4>2, <4>3
    <3> QED
      BY <3>3, <3>4
  <2> QED
    BY <2>3, <2>4
<1>2. Wrong = {}
  <2>1. Wrong \subseteq Nat
    OBVIOUS
  <2> HIDE DEF Wrong
  <2> QED
    BY <1>1, <2>1, LeastOne
<1> SUFFICES ASSUME NEW lo \in Int, NEW hi \in Int, lo < 0, hi >= 0, g[<<lo, hi>>] # 0 PROVE FALSE
  OBVIOUS
<1>3. hi - lo \in Nat
  BY SMT
<1>4. hi - lo \in Wrong
  BY <1>3
<1> QED
  BY <1>2, <1>4

LEMMA TransitionIsFound ==
  ASSUME NEW z, z.before # z.after, NEW lo \in Int, NEW hi \in Int, lo < 0, hi >= 0
  PROVE  FindTransition(z, lo, hi) = Shift
<1> DEFINE g == CHOOSE f : f = Halved(z, lo, f)
<1>1. g = Halved(z, lo, g)
  BY BisectionExists
<1>2. FindTransition(z, lo, hi) = g[<<lo, hi>>]
  BY Bisection
<1> HIDE DEF g
<1> QED
  BY <1>1, <1>2, BisectionFinds DEF Shift

(* The samples half a day away are those of both sides of the change, or    *)
(* one side is enough.                                                      *)
LEMMA Resolved ==
  ASSUME NEW z, z.before \in -HalfDay .. HalfDay, z.after \in -HalfDay .. HalfDay, NEW wall \in Int
  PROVE  LET occurs == {t \in {wall - z.before, wall - z.after} : LocalMs(z, t) = wall}
         IN  ResolveWallClockToUTC(z, wall).instant = IF occurs = {} THEN Shift ELSE Least(occurs)
<1> DEFINE b == z.before
           a == z.after
           occurs == {t \in {wall - b, wall - a} : LocalMs(z, t) = wall}
           samples == {OffsetMinutes(z, wall - HalfDay), OffsetMinutes(z, wall + HalfDay)}
           candidates == {t \in {wall - o : o \in samples} : LocalMs(z, t) = wall}
<1>1. ResolveWallClockToUTC(z, wall).instant =
        IF candidates = {} THEN FindTransition(z, wall - HalfDay, wall + HalfDay) ELSE Least(candidates)
  BY DEF ResolveWallClockToUTC
<1>0. b \in Int /\ a \in Int /\ -24 <= b /\ b <= 24 /\ -24 <= a /\ a <= 24
  BY SMT DEF HalfDay
<1>l. \A t : LocalMs(z, t) = t + (IF t < 0 THEN b ELSE a)
  BY DEF LocalMs, OffsetMinutes, Shift
<1>s. samples = {IF wall - 24 < 0 THEN b ELSE a, IF wall + 24 < 0 THEN b ELSE a}
  BY DEF OffsetMinutes, HalfDay, Shift
<1> HIDE DEF b, a, samples
<1>2. samples \subseteq {a, b}
  BY <1>s
<1>3. candidates \subseteq occurs
  BY <1>2
<1>4. LocalMs(z, wall - b) = wall => b \in samples \/ wall - b = wall - a
  BY <1>0, <1>l, <1>s, SMT
<1>5. LocalMs(z, wall - a) = wall => a \in samples \/ wall - b = wall - a
  BY <1>0, <1>l, <1>s, SMT
<1>6. samples # {}
  BY <1>s
<1>7. occurs \subseteq candidates
  BY <1>2, <1>4, <1>5, <1>6
<1>8. candidates = occurs
  BY <1>3, <1>7
<1>9. ASSUME occurs = {} PROVE a # b /\ wall - 24 < 0 /\ wall + 24 >= 0
  <2>1. LocalMs(z, wall - b) # wall /\ LocalMs(z, wall - a) # wall
    BY <1>9
  <2> QED
    BY <1>0, <1>l, <2>1, SMT
<1>10. ASSUME occurs = {} PROVE FindTransition(z, wall - HalfDay, wall + HalfDay) = Shift
  <2>1. wall - HalfDay \in Int /\ wall + HalfDay \in Int /\ wall - HalfDay < 0 /\ wall + HalfDay >= 0
    BY <1>9, <1>10, SMT DEF HalfDay
  <2>2. z.before # z.after
    BY <1>9, <1>10 DEF a, b
  <2> QED
    BY <2>1, <2>2, TransitionIsFound
<1>11. ResolveWallClockToUTC(z, wall).instant = IF occurs = {} THEN Shift ELSE Least(occurs)
  <2> HIDE DEF occurs, candidates
  <2> QED
    BY <1>1, <1>8, <1>10
<1> QED
  BY <1>11 DEF a, b

LEMMA NextWallClock == WallClockTypeOK /\ [WallClockNext]_wallClockVars => WallClockTypeOK'
<1> SUFFICES ASSUME WallClockTypeOK, [WallClockNext]_wallClockVars PROVE WallClockTypeOK'
  OBVIOUS
<1>1. CASE AskInstant
  <2>1. PICK type \in {"audience_local", "fixed_instant"}, z \in Zones, w \in -Reach .. Reach :
          ask' = [at |-> "asked", type |-> type, zone |-> z, time |-> w]
    BY <1>1 DEF AskInstant
  <2>2. w \in Int
    BY WallClockAssumption, SMT
  <2> QED
    BY <2>1, <2>2 DEF WallClockTypeOK
<1>2. CASE AnswerInstant
  BY <1>2 DEF AnswerInstant, WallClockTypeOK
<1>3. CASE AskAgain
  BY <1>3 DEF AskAgain, WallClockTypeOK
<1>4. CASE UNCHANGED wallClockVars
  BY <1>4 DEF wallClockVars, WallClockTypeOK
<1> QED
  BY <1>1, <1>2, <1>3, <1>4 DEF WallClockNext

(* A time that occurs is resolved to its first occurrence, and one the      *)
(* clocks skip to the change, in every zone within half a day of UTC,       *)
(* whatever the two offsets and the time; by bisection in the latter case.  *)
THEOREM WallClocksResolve == WallClockSpec => []WallClockResolved
<1>1. WallClockInit => WallClockTypeOK
  BY DEF WallClockInit, WallClockTypeOK
<1>2. WallClockTypeOK => WallClockResolved
  <2> SUFFICES ASSUME WallClockTypeOK, ask.at = "answered", ask.type = "audience_local",
                      {ask.zone.before, ask.zone.after} \subseteq -HalfDay .. HalfDay
               PROVE  LET occurs == {t \in {ask.time - ask.zone.before, ask.time - ask.zone.after} :
                                       LocalMs(ask.zone, t) = ask.time}
                      IN  ask.is.instant = IF occurs = {} THEN Shift ELSE Least(occurs)
    BY DEF WallClockResolved
  <2>1. ask.time \in Int /\ ask.is = ResolveWallClockToUTC(ask.zone, ask.time)
    BY DEF WallClockTypeOK, ResolveTargetInstant
  <2> DEFINE z == ask.zone
             wall == ask.time
  <2>2. wall \in Int /\ z.before \in -HalfDay .. HalfDay /\ z.after \in -HalfDay .. HalfDay
    BY <2>1
  <2> HIDE DEF z, wall
  <2>3. LET occurs == {t \in {wall - z.before, wall - z.after} : LocalMs(z, t) = wall}
        IN  ResolveWallClockToUTC(z, wall).instant = IF occurs = {} THEN Shift ELSE Least(occurs)
    BY <2>2, Resolved
  <2>4. ask.is.instant = ResolveWallClockToUTC(z, wall).instant
    BY <2>1 DEF z, wall
  <2> QED
    BY <2>3, <2>4 DEF z, wall
<1> QED
  BY <1>1, <1>2, NextWallClock, PTL DEF WallClockSpec


-----------------------------------------------------------------------------
(* The media library.                                                       *)

(* One request or task at a time, and users without either habit: another   *)
(* job under way may schedule a post between the reference check of a       *)
(* deletion and the deletion.                                               *)
OneJob == \A i, j \in Jobs : i = j

Keys == {"source", "variant"} \X Assets
AssetRows == [st : {"none", "uploading", "processing", "ready", "failed"}, old : BOOLEAN]
PostRows == [st : {"draft", "pending_approval", "scheduled", "publishing", "published", "failed"},
             media : SUBSET Assets, over : SUBSET Assets, payload : SUBSET Keys]
JobRows == {IdleJob} \cup [kind : {"finalize", "delete", "cleanup"}, on : Assets]
             \cup [kind : {"schedule"}, on : Posts]

MediaTypeOK ==
  /\ asset \in [Assets -> AssetRows]
  /\ variant \in [rows : SUBSET Assets, old : SUBSET Assets]
  /\ objects \subseteq Keys
  /\ bad \subseteq Assets
  /\ post \in [Posts -> PostRows]
  /\ job \in [Jobs -> JobRows]

(* Objects are of assets that exist; what is ready has its object, and so   *)
(* has every rendition with a row.                                          *)
StoredSound ==
  /\ \A k \in objects : Exists(k[2])
  /\ \A a \in Assets : asset[a].st = "ready" => Source(a) \in objects /\ a \notin bad
  /\ \A a \in variant.rows : Variant(a) \in objects

(* What a post has frozen is of its media, and was ready: while the asset   *)
(* exists it is or will be ready again.                                     *)
FrozenSound(p) ==
  /\ post[p].over = {}
  /\ post[p].st = "draft" => post[p].payload = {}
  /\ \A k \in post[p].payload :
       /\ k[2] \in post[p].media
       /\ Exists(k[2]) => asset[k[2]].st \in {"processing", "ready"} /\ k[2] \notin bad

Out(p) == post[p].st \in {"scheduled", "publishing"}

(* No deletion under way is of what a post is about to publish.             *)
DeletionSound(j) ==
  job[j].kind \in {"delete", "cleanup"} =>
    \A p \in Posts : Out(p) => \A k \in post[p].payload : k[2] # job[j].on

MediaInv ==
  /\ MediaTypeOK
  /\ StoredSound
  /\ \A p \in Posts : FrozenSound(p)
  /\ \A j \in Jobs : DeletionSound(j)
  /\ LiveMediaKept

LEMMA InitMedia == MediaInit => MediaInv
<1> SUFFICES ASSUME MediaInit PROVE MediaInv
  OBVIOUS
<1>1. MediaTypeOK
  <2>1. [st |-> "none", old |-> FALSE] \in AssetRows /\ NoPost \in PostRows /\ IdleJob \in JobRows
    BY Zenon DEF AssetRows, PostRows, NoPost, JobRows
  <2> QED
    BY <2>1 DEF MediaInit, MediaTypeOK
<1> QED
  BY <1>1 DEF MediaInit, MediaInv, StoredSound, FrozenSound, DeletionSound, LiveMediaKept, NoPost, IdleJob

(* A step that writes one asset and one job only: what was frozen does not  *)
(* see the asset, or finds it processing or ready and sound.                *)
LEMMA AssetMoves ==
  ASSUME MediaInv, UNCHANGED <<variant, objects, post>>,
         NEW a \in Assets, NEW r \in AssetRows, asset' = [asset EXCEPT ![a] = r],
         bad' \subseteq Assets, \A b \in Assets \ {a} : b \in bad' => b \in bad,
         r.st = "none" => \A k \in objects : k[2] # a,
         r.st = "ready" => Source(a) \in objects /\ a \notin bad',
         \A p \in Posts : \A k \in post[p].payload :
           k[2] = a /\ r.st # "none" => r.st \in {"processing", "ready"} /\ a \notin bad',
         job' \in [Jobs -> JobRows],
         \A j \in Jobs : job'[j].kind \in {"delete", "cleanup"} => job'[j] = job[j]
  PROVE  MediaInv'
<1>1. \A b \in Assets : asset'[b] = IF b = a THEN r ELSE asset[b]
  BY DEF MediaInv, MediaTypeOK
<1>2. MediaTypeOK'
  BY DEF MediaInv, MediaTypeOK
<1>3. StoredSound'
  BY <1>1 DEF MediaInv, MediaTypeOK, StoredSound, Exists, Keys
<1>4. ASSUME NEW p \in Posts PROVE FrozenSound(p)'
  <2>1. \A k \in post[p].payload : k[2] \in Assets
    BY DEF MediaInv, MediaTypeOK, PostRows, Keys
  <2> QED
    BY <1>1, <2>1 DEF MediaInv, FrozenSound, Exists
<1>5. ASSUME NEW j \in Jobs PROVE DeletionSound(j)'
  BY DEF MediaInv, DeletionSound, Out
<1>6. LiveMediaKept'
  BY DEF MediaInv, LiveMediaKept
<1> QED
  BY <1>2, <1>3, <1>4, <1>5, <1>6 DEF MediaInv

LEMMA RowWrites ==
  ASSUME NEW x \in AssetRows, NEW s
  PROVE  /\ [x EXCEPT !.st = s] = [st |-> s, old |-> x.old]
         /\ [x EXCEPT !.old = s] = [st |-> x.st, old |-> s]
BY SMT DEF AssetRows

LEMMA UploadKeeps ==
  ASSUME MediaInv, NEW a \in Assets,
         CreateUpload(a) \/ Ages(a)
  PROVE  MediaInv'
<1>0. asset[a] \in AssetRows /\ asset \in [Assets -> AssetRows]
  BY DEF MediaInv, MediaTypeOK
<1>1. CASE CreateUpload(a)
  <2> DEFINE r == [st |-> "uploading", old |-> FALSE]
  <2>1. r \in AssetRows /\ r.st = "uploading"
    BY Zenon DEF AssetRows
  <2>2. \A p \in Posts : \A k \in post[p].payload : k[2] # a
    BY <1>1 DEF CreateUpload, Uses, MediaInv, FrozenSound
  <2>3. /\ asset' = [asset EXCEPT ![a] = r] /\ UNCHANGED <<variant, objects, post, job>>
        /\ bad' = bad \ {a}
    BY <1>1 DEF CreateUpload
  <2> HIDE DEF r
  <2>4. bad' \subseteq Assets /\ job' \in [Jobs -> JobRows]
    BY <2>3 DEF MediaInv, MediaTypeOK
  <2> QED
    BY <2>1, <2>2, <2>3, <2>4, AssetMoves
<1>2. CASE Ages(a) /\ UNCHANGED variant
  <2> DEFINE r == [st |-> asset[a].st, old |-> TRUE]
  <2>1. r \in AssetRows /\ r.st = asset[a].st
    BY <1>0, Zenon DEF AssetRows
  <2>2. /\ asset' = [asset EXCEPT ![a].old = TRUE] \/ asset' = asset
        /\ UNCHANGED <<variant, objects, bad, post, job>>
    BY <1>2 DEF Ages
  <2>3. [asset EXCEPT ![a].old = TRUE] = [asset EXCEPT ![a] = r]
    <3>1. [asset[a] EXCEPT !.old = TRUE] = r
      BY <1>0, RowWrites, Zenon
    <3>2. [asset EXCEPT ![a].old = TRUE] = [asset EXCEPT ![a] = [asset[a] EXCEPT !.old = TRUE]]
      BY Zenon
    <3> QED
      BY <3>1, <3>2, Zenon
  <2> HIDE DEF r
  <2>4. bad' \subseteq Assets /\ job' \in [Jobs -> JobRows]
    BY <2>2 DEF MediaInv, MediaTypeOK
  <2>5. /\ r.st = "none" => \A k \in objects : k[2] # a
        /\ r.st = "ready" => Source(a) \in objects /\ a \notin bad'
    BY <2>1, <2>2 DEF MediaInv, StoredSound, Exists
  <2>6. \A p \in Posts : \A k \in post[p].payload :
          k[2] = a /\ r.st # "none" => r.st \in {"processing", "ready"} /\ a \notin bad'
    BY <2>1, <2>2 DEF MediaInv, FrozenSound, Exists
  <2>7. CASE asset' = [asset EXCEPT ![a] = r]
    BY <2>1, <2>2, <2>4, <2>5, <2>6, <2>7, AssetMoves
  <2>8. CASE asset' = asset
    BY <2>2, <2>8 DEF MediaInv, MediaTypeOK, StoredSound, FrozenSound, DeletionSound, LiveMediaKept, Exists, Out
  <2> QED
    BY <2>2, <2>3, <2>7, <2>8
<1>3. CASE Ages(a) /\ ~UNCHANGED variant
  <2>1. /\ variant' = [variant EXCEPT !.old = @ \cup {a}]
        /\ UNCHANGED <<asset, objects, bad, post, job>>
    BY <1>3 DEF Ages
  <2>2. variant' = [rows |-> variant.rows, old |-> variant.old \cup {a}]
    BY <2>1, Zenon DEF MediaInv, MediaTypeOK
  <2>3. variant' \in [rows : SUBSET Assets, old : SUBSET Assets] /\ variant'.rows = variant.rows
    BY <2>2 DEF MediaInv, MediaTypeOK
  <2> QED
    BY <2>1, <2>3 DEF MediaInv, MediaTypeOK, StoredSound, FrozenSound, DeletionSound, LiveMediaKept, Exists, Out
<1> QED
  BY <1>1, <1>2, <1>3

LEMMA PutObjectKeeps ==
  ASSUME MediaInv, NEW a \in Assets, NEW b \in BOOLEAN, PutObject(a, b)
  PROVE  MediaInv'
<1>1. /\ asset[a].st = "uploading"
      /\ objects' = objects \cup {Source(a)} /\ bad \subseteq bad' /\ bad' \subseteq bad \cup {a}
      /\ UNCHANGED <<asset, variant, post, job>>
  BY DEF PutObject
<1>2. MediaTypeOK'
  BY <1>1 DEF MediaInv, MediaTypeOK, Source, Keys
<1>3. StoredSound'
  BY <1>1 DEF MediaInv, StoredSound, Exists, Source
<1>4. ASSUME NEW p \in Posts PROVE FrozenSound(p)'
  BY <1>1 DEF MediaInv, FrozenSound, Exists
<1>5. LiveMediaKept'
  BY <1>1 DEF MediaInv, LiveMediaKept
<1> QED
  BY <1>1, <1>2, <1>3, <1>4, <1>5 DEF MediaInv, DeletionSound, Out

(* The status of an asset.                                                  *)
LEMMA StatusWrites ==
  ASSUME MediaInv, NEW a \in Assets, NEW st \in {"processing", "ready", "failed"}, Status(a, st)
  PROVE  \E r \in AssetRows : /\ asset' = [asset EXCEPT ![a] = r]
                              /\ r.st = IF asset[a].st = "none" THEN "none" ELSE st
<1> DEFINE s == IF asset[a].st = "none" THEN asset[a].st ELSE st
           r == [st |-> s, old |-> asset[a].old]
<1>1. asset[a] \in AssetRows /\ asset \in [Assets -> AssetRows]
  BY DEF MediaInv, MediaTypeOK
<1>2. s = (IF asset[a].st = "none" THEN "none" ELSE st) /\ s \in {"none", "processing", "ready", "failed"}
  OBVIOUS
<1>3. asset' = [asset EXCEPT ![a].st = s]
  BY DEF Status
<1> HIDE DEF s
<1>4. r \in AssetRows /\ r.st = s
  BY <1>1, <1>2 DEF AssetRows
<1>5. asset' = [asset EXCEPT ![a] = r]
  <2>1. [asset[a] EXCEPT !.st = s] = r
    BY <1>1, RowWrites, Zenon
  <2>2. [asset EXCEPT ![a].st = s] = [asset EXCEPT ![a] = [asset[a] EXCEPT !.st = s]]
    BY Zenon
  <2> QED
    BY <1>3, <2>1, <2>2, Zenon
<1> QED
  BY <1>2, <1>4, <1>5

LEMMA BeginsTyped ==
  ASSUME MediaInv, NEW j \in Jobs, NEW r \in JobRows, job' = [job EXCEPT ![j] = r]
  PROVE  job' \in [Jobs -> JobRows] /\ \A i \in Jobs : job'[i] = IF i = j THEN r ELSE job[i]
BY DEF MediaInv, MediaTypeOK

LEMMA FinalizedKeeps ==
  ASSUME MediaInv, NEW j \in Jobs, NEW a \in Assets,
         StartFinalize(j, a) \/ (FinishFinalize(j) /\ a = job[j].on)
  PROVE  MediaInv'
<1> DEFINE q == [kind |-> "finalize", on |-> a]
<1>0. IdleJob \in JobRows /\ q \in JobRows /\ IdleJob.kind = "idle" /\ q.kind = "finalize"
  BY Zenon DEF JobRows, IdleJob
<1>1. /\ UNCHANGED <<variant, objects, bad, post>>
      /\ job' = [job EXCEPT ![j] = q] \/ job' = [job EXCEPT ![j] = IdleJob]
  BY DEF StartFinalize, FinishFinalize, Begin, Go
<1> HIDE DEF q
<1>2. /\ job' \in [Jobs -> JobRows]
      /\ \A i \in Jobs : job'[i].kind \in {"delete", "cleanup"} => job'[i] = job[i]
  BY <1>0, <1>1, BeginsTyped
<1>3. bad' \subseteq Assets
  BY <1>1 DEF MediaInv, MediaTypeOK
<1>4. ASSUME NEW st \in {"processing", "ready", "failed"}, Status(a, st),
             st = "ready" => Source(a) \in objects /\ a \notin bad, st = "failed" => a \in bad
      PROVE  MediaInv'
  <2>1. PICK r \in AssetRows : /\ asset' = [asset EXCEPT ![a] = r]
                               /\ r.st = IF asset[a].st = "none" THEN "none" ELSE st
    BY <1>4, StatusWrites
  <2>2. /\ r.st = "none" => \A k \in objects : k[2] # a
        /\ r.st = "ready" => Source(a) \in objects /\ a \notin bad'
    BY <1>1, <1>4, <2>1 DEF MediaInv, StoredSound, Exists
  <2>3. \A p \in Posts : \A k \in post[p].payload :
          k[2] = a /\ r.st # "none" => r.st \in {"processing", "ready"} /\ a \notin bad'
    BY <1>1, <1>4, <2>1 DEF MediaInv, FrozenSound, Exists
  <2> QED
    BY <1>1, <1>2, <1>3, <2>1, <2>2, <2>3, AssetMoves
<1>5. CASE UNCHANGED asset
  <2>1. MediaTypeOK' /\ StoredSound' /\ LiveMediaKept'
    BY <1>1, <1>2, <1>5 DEF MediaInv, MediaTypeOK, StoredSound, LiveMediaKept, Exists
  <2>2. \A p \in Posts : FrozenSound(p)'
    BY <1>1, <1>5 DEF MediaInv, FrozenSound, Exists
  <2>3. \A i \in Jobs : DeletionSound(i)'
    BY <1>1, <1>2 DEF MediaInv, DeletionSound, Out
  <2> QED
    BY <2>1, <2>2, <2>3 DEF MediaInv
<1>6. CASE StartFinalize(j, a)
  BY <1>4, <1>6 DEF StartFinalize
<1>7. CASE FinishFinalize(j) /\ a = job[j].on
  BY <1>4, <1>5, <1>7 DEF FinishFinalize
<1> QED
  BY <1>6, <1>7

(* Writes to a post, as rows.                                               *)
LEMMA RestampedRow ==
  ASSUME NEW x \in PostRows, NEW s
  PROVE  [x EXCEPT !.st = s] = [st |-> s, media |-> x.media, over |-> x.over, payload |-> x.payload]
BY SMT DEF PostRows

LEMMA ClearedRow ==
  ASSUME NEW x \in PostRows, NEW s, NEW t
  PROVE  [x EXCEPT !.st = s, !.payload = t] = [st |-> s, media |-> x.media, over |-> x.over, payload |-> t]
<1>1. [x EXCEPT !.st = s, !.payload = t] = [[x EXCEPT !.st = s] EXCEPT !.payload = t]
  BY Zenon
<1>2. [[st |-> s, media |-> x.media, over |-> x.over, payload |-> x.payload] EXCEPT !.payload = t]
        = [st |-> s, media |-> x.media, over |-> x.over, payload |-> t]
  BY SMT
<1> QED
  BY <1>1, <1>2, RestampedRow

LEMMA EditedRow ==
  ASSUME NEW x \in PostRows, NEW s, NEW t
  PROVE  [x EXCEPT !.media = s, !.over = t] = [st |-> x.st, media |-> s, over |-> t, payload |-> x.payload]
<1>1. [x EXCEPT !.media = s, !.over = t] = [[x EXCEPT !.media = s] EXCEPT !.over = t]
  BY Zenon
<1>2. [x EXCEPT !.media = s] = [st |-> x.st, media |-> s, over |-> x.over, payload |-> x.payload]
  BY SMT DEF PostRows
<1>3. [[st |-> x.st, media |-> s, over |-> x.over, payload |-> x.payload] EXCEPT !.over = t]
        = [st |-> x.st, media |-> s, over |-> t, payload |-> x.payload]
  BY SMT
<1> QED
  BY <1>1, <1>2, <1>3

LEMMA PostRestamped ==
  ASSUME MediaInv, NEW p \in Posts, NEW s
  PROVE  [post EXCEPT ![p].st = s] = [post EXCEPT ![p] =
           [st |-> s, media |-> post[p].media, over |-> post[p].over, payload |-> post[p].payload]]
<1> DEFINE x == post[p]
           u == [x EXCEPT !.st = s]
<1>1. post \in [Posts -> PostRows] /\ x \in PostRows
  BY DEF MediaInv, MediaTypeOK
<1>2. [post EXCEPT ![p].st = s] = [post EXCEPT ![p] = u]
  BY <1>1, Zenon
<1> HIDE DEF x
<1>3. u = [st |-> s, media |-> x.media, over |-> x.over, payload |-> x.payload]
  BY <1>1, RestampedRow
<1> HIDE DEF u
<1>4. [post EXCEPT ![p].st = s] =
        [post EXCEPT ![p] = [st |-> s, media |-> x.media, over |-> x.over, payload |-> x.payload]]
  BY <1>2, <1>3, Zenon
<1> QED
  BY <1>4 DEF x

LEMMA PostCleared ==
  ASSUME MediaInv, NEW p \in Posts, NEW s, NEW t
  PROVE  [post EXCEPT ![p].st = s, ![p].payload = t] = [post EXCEPT ![p] =
           [st |-> s, media |-> post[p].media, over |-> post[p].over, payload |-> t]]
<1> DEFINE x == post[p]
           u == [x EXCEPT !.st = s, !.payload = t]
<1>1. post \in [Posts -> PostRows] /\ x \in PostRows
  BY DEF MediaInv, MediaTypeOK
<1>2. [post EXCEPT ![p].st = s, ![p].payload = t] = [post EXCEPT ![p] = u]
  BY <1>1, Zenon
<1> HIDE DEF x
<1>3. u = [st |-> s, media |-> x.media, over |-> x.over, payload |-> t]
  BY <1>1, ClearedRow
<1> HIDE DEF u
<1>4. [post EXCEPT ![p].st = s, ![p].payload = t] =
        [post EXCEPT ![p] = [st |-> s, media |-> x.media, over |-> x.over, payload |-> t]]
  BY <1>2, <1>3, Zenon
<1> QED
  BY <1>4 DEF x

(* A step that writes one post only.                                        *)
LEMMA PostMoves ==
  ASSUME MediaInv, UNCHANGED <<asset, variant, objects, bad, job>>,
         NEW p \in Posts, NEW r \in PostRows, post' = [post EXCEPT ![p] = r],
         r.over = {}, r.st = "draft" => r.payload = {},
         r.payload \subseteq post[p].payload, r.payload # {} => r.media = post[p].media,
         r.st \in {"scheduled", "publishing"} =>
           /\ r.payload \subseteq objects
           /\ \A j \in Jobs : job[j].kind \in {"delete", "cleanup"} =>
                \A k \in r.payload : k[2] # job[j].on
  PROVE  MediaInv'
<1>1. \A q \in Posts : post'[q] = IF q = p THEN r ELSE post[q]
  BY DEF MediaInv, MediaTypeOK
<1>2. MediaTypeOK' /\ StoredSound'
  BY DEF MediaInv, MediaTypeOK, StoredSound, Exists
<1>3. ASSUME NEW q \in Posts PROVE FrozenSound(q)'
  <2>1. CASE q = p
    BY <1>1, <2>1 DEF MediaInv, FrozenSound, Exists
  <2>2. CASE q # p
    BY <1>1, <2>2 DEF MediaInv, FrozenSound, Exists
  <2> QED
    BY <2>1, <2>2
<1>4. ASSUME NEW j \in Jobs PROVE DeletionSound(j)'
  BY <1>1 DEF MediaInv, DeletionSound, Out
<1>5. LiveMediaKept'
  BY <1>1 DEF MediaInv, LiveMediaKept
<1> QED
  BY <1>2, <1>3, <1>4, <1>5 DEF MediaInv

LEMMA PostKeeps ==
  ASSUME MediaInv, Habits = {}, NEW p \in Posts,
         Submit(p) \/ Publish(p) \/ Retry(p) \/ Unschedule(p)
  PROVE  MediaInv'
<1>0. post[p] \in PostRows /\ FrozenSound(p)
  BY DEF MediaInv, MediaTypeOK
<1>1. ASSUME NEW s \in {"pending_approval", "scheduled", "publishing", "published", "failed"},
             post' = [post EXCEPT ![p].st = s], UNCHANGED <<asset, variant, objects, bad, job>>,
             s \in {"scheduled", "publishing"} =>
               /\ post[p].payload \subseteq objects
               /\ \A j \in Jobs : job[j].kind \in {"delete", "cleanup"} =>
                    \A k \in post[p].payload : k[2] # job[j].on
      PROVE  MediaInv'
  <2> DEFINE r == [st |-> s, media |-> post[p].media, over |-> post[p].over, payload |-> post[p].payload]
  <2>1. r \in PostRows
    BY <1>0 DEF PostRows
  <2>2. /\ r.st = s /\ r.st # "draft" /\ r.media = post[p].media
        /\ r.over = {} /\ r.payload = post[p].payload
    BY <1>0 DEF FrozenSound
  <2>3. post' = [post EXCEPT ![p] = r]
    BY <1>1, PostRestamped
  <2> HIDE DEF r
  <2>4. r.st \in {"scheduled", "publishing"} =>
          /\ r.payload \subseteq objects
          /\ \A j \in Jobs : job[j].kind \in {"delete", "cleanup"} =>
               \A k \in r.payload : k[2] # job[j].on
    BY <1>1, <2>2
  <2>5. UNCHANGED <<asset, variant, objects, bad, job>>
    BY <1>1
  <2>6. r.payload \subseteq post[p].payload /\ r.over = {} /\ (r.st = "draft" => r.payload = {})
    BY <2>2
  <2>7. r.payload # {} => r.media = post[p].media
    BY <2>2
  <2> QED
    BY <2>1, <2>3, <2>4, <2>5, <2>6, <2>7, PostMoves
<1>2. CASE Submit(p)
  BY <1>1, <1>2 DEF Submit
<1>3. CASE Publish(p)
  <2>1. post[p].st = "scheduled" \/ post[p].st = "publishing"
    BY <1>3 DEF Publish
  <2>2. /\ post[p].payload \subseteq objects
        /\ \A j \in Jobs : job[j].kind \in {"delete", "cleanup"} =>
             \A k \in post[p].payload : k[2] # job[j].on
    BY <2>1 DEF MediaInv, LiveMediaKept, DeletionSound, Out
  <2> QED
    BY <1>1, <1>3, <2>2 DEF Publish
<1>4. CASE Retry(p)
  <2>1. post[p].payload \subseteq objects /\ \A j \in Jobs : job[j].kind = "idle"
    BY <1>4 DEF Retry
  <2> QED
    BY <1>1, <1>4, <2>1 DEF Retry
<1>5. CASE Unschedule(p)
  <2> DEFINE r == [st |-> "draft", media |-> post[p].media, over |-> post[p].over, payload |-> {}]
  <2>1. r \in PostRows
    BY <1>0 DEF PostRows
  <2>2. r.st = "draft" /\ r.media = post[p].media /\ r.over = {} /\ r.payload = {}
    BY <1>0 DEF FrozenSound
  <2>3. post' = [post EXCEPT ![p] = r] /\ UNCHANGED <<asset, variant, objects, bad, job>>
    <3>1. /\ post' = [post EXCEPT ![p].st = "draft", ![p].payload = {}]
          /\ UNCHANGED <<asset, variant, objects, bad, job>>
      BY <1>5 DEF Unschedule
    <3> DEFINE s == "draft"
               e == {}
    <3>2. post' = [post EXCEPT ![p].st = s, ![p].payload = e]
      BY <3>1
    <3>3. r = [st |-> s, media |-> post[p].media, over |-> post[p].over, payload |-> e]
      OBVIOUS
    <3> HIDE DEF s, e, r
    <3>4. [post EXCEPT ![p].st = s, ![p].payload = e] =
            [post EXCEPT ![p] = [st |-> s, media |-> post[p].media, over |-> post[p].over, payload |-> e]]
      BY PostCleared, Zenon
    <3>5. post' = [post EXCEPT ![p] = r]
      BY <3>2, <3>3, <3>4
    <3> QED
      BY <3>1, <3>5
  <2> HIDE DEF r
  <2> QED
    BY <2>1, <2>2, <2>3, PostMoves
<1> QED
  BY <1>2, <1>3, <1>4, <1>5

LEMMA EditKeeps ==
  ASSUME MediaInv, Habits = {}, NEW p \in Posts,
         NEW M \in SUBSET Assets, NEW O \in SUBSET Assets, Edit(p, M, O)
  PROVE  MediaInv'
<1> DEFINE r == [st |-> post[p].st, media |-> M, over |-> O, payload |-> post[p].payload]
<1>1. post[p] \in PostRows /\ FrozenSound(p)
  BY DEF MediaInv, MediaTypeOK
<1>2. post[p].st = "draft" /\ O = {} /\ post[p].payload = {}
  BY <1>1 DEF Edit, FrozenSound
<1>3. r \in PostRows /\ r.st = "draft" /\ r.over = {} /\ r.payload = {}
  BY <1>1, <1>2 DEF PostRows
<1>4. [post EXCEPT ![p].media = M, ![p].over = O] = [post EXCEPT ![p] = r]
  <2> DEFINE x == post[p]
             u == [x EXCEPT !.media = M, !.over = O]
  <2>1. post \in [Posts -> PostRows] /\ x \in PostRows
    BY <1>1 DEF MediaInv, MediaTypeOK
  <2>2. [post EXCEPT ![p].media = M, ![p].over = O] = [post EXCEPT ![p] = u]
    BY <2>1, Zenon
  <2>3. r = [st |-> x.st, media |-> M, over |-> O, payload |-> x.payload]
    OBVIOUS
  <2> HIDE DEF x, r
  <2>4. u = [st |-> x.st, media |-> M, over |-> O, payload |-> x.payload]
    BY <2>1, EditedRow
  <2> HIDE DEF u
  <2> QED
    BY <2>2, <2>3, <2>4
<1>5. post' = [post EXCEPT ![p].media = M, ![p].over = O] /\ UNCHANGED <<asset, variant, objects, bad, job>>
  BY DEF Edit
<1> HIDE DEF r
<1>6. post' = [post EXCEPT ![p] = r]
  BY <1>4, <1>5
<1> QED
  BY <1>3, <1>5, <1>6, PostMoves

LEMMA JobStartKeeps ==
  ASSUME MediaInv, NEW j \in Jobs,
         \/ \E a \in Assets : StartDelete(j, a) \/ StartCleanup(j, a)
         \/ \E p \in Posts : StartSchedule(j, p)
         \/ CrashJob(j)
  PROVE  MediaInv'
<1>1. UNCHANGED <<asset, variant, objects, bad, post>>
  BY DEF StartDelete, StartCleanup, StartSchedule, CrashJob
<1>2. ASSUME NEW r \in JobRows, job' = [job EXCEPT ![j] = r],
             r.kind \in {"delete", "cleanup"} =>
               \A p \in Posts : Out(p) => \A k \in post[p].payload : k[2] # r.on
      PROVE  MediaInv'
  <2>1. job' \in [Jobs -> JobRows] /\ \A i \in Jobs : job'[i] = IF i = j THEN r ELSE job[i]
    BY <1>2, BeginsTyped
  <2>2. MediaTypeOK' /\ StoredSound' /\ LiveMediaKept'
    BY <1>1, <2>1 DEF MediaInv, MediaTypeOK, StoredSound, LiveMediaKept, Exists
  <2>3. \A p \in Posts : FrozenSound(p)'
    BY <1>1 DEF MediaInv, FrozenSound, Exists
  <2>4. \A i \in Jobs : DeletionSound(i)'
    BY <1>1, <1>2, <2>1 DEF MediaInv, DeletionSound, Out
  <2> QED
    BY <2>2, <2>3, <2>4 DEF MediaInv
<1>3. ASSUME NEW a \in Assets, NEW kind \in {"delete", "cleanup"},
             job' = [job EXCEPT ![j] = [kind |-> kind, on |-> a]],
             \A p \in Posts : Out(p) => \A k \in post[p].payload : k[2] # a
      PROVE  MediaInv'
  <2>1. [kind |-> kind, on |-> a] \in JobRows
    BY DEF JobRows
  <2> QED
    BY <1>2, <1>3, <2>1
<1>4. ASSUME NEW a \in Assets, StartDelete(j, a) PROVE MediaInv'
  <2>1. \A p \in Posts : Out(p) => \A k \in post[p].payload : k[2] # a
    BY <1>4 DEF StartDelete, InUse, Uses, LIVE_STATES, Out, MediaInv, FrozenSound
  <2> QED
    BY <1>3, <1>4, <2>1 DEF StartDelete, Begin
<1>5. ASSUME NEW a \in Assets, StartCleanup(j, a) PROVE MediaInv'
  <2>1. Exists(a) /\ (asset[a].st = "failed" \/ \A p \in Posts : a \notin post[p].media)
    BY <1>5 DEF StartCleanup, Orphans
  <2>2. \A p \in Posts : Out(p) => \A k \in post[p].payload : k[2] # a
    BY <2>1 DEF MediaInv, FrozenSound
  <2> QED
    BY <1>3, <1>5, <2>2 DEF StartCleanup, Begin
<1>6. ASSUME NEW p \in Posts, StartSchedule(j, p) PROVE MediaInv'
  <2> DEFINE r == [kind |-> "schedule", on |-> p]
  <2>1. r \in JobRows /\ r.kind = "schedule"
    BY DEF JobRows
  <2>2. job' = [job EXCEPT ![j] = r]
    BY <1>6 DEF StartSchedule, Begin
  <2> HIDE DEF r
  <2> QED
    BY <1>2, <2>1, <2>2
<1>7. CASE CrashJob(j)
  <2>1. IdleJob \in JobRows /\ IdleJob.kind = "idle"
    BY DEF JobRows, IdleJob
  <2> QED
    BY <1>2, <1>7, <2>1 DEF CrashJob
<1> QED
  BY <1>4, <1>5, <1>6, <1>7

(* What goes with an asset is of a job of its own, which no post about to   *)
(* publish depends on.                                                      *)
LEMMA RemovalKeeps ==
  ASSUME MediaInv, NEW j \in Jobs, ScrubAndDelete(j) \/ DeleteOrphan(j)
  PROVE  MediaInv'
<1> DEFINE a == job[j].on
<1>1. /\ job[j].kind \in {"delete", "cleanup"} /\ job' = [job EXCEPT ![j] = IdleJob]
      /\ Removed({a}) /\ UNCHANGED bad
  BY DEF ScrubAndDelete, DeleteOrphan, Go
<1>2. IdleJob \in JobRows /\ IdleJob.kind = "idle"
  BY DEF JobRows, IdleJob
<1>3. job' \in [Jobs -> JobRows] /\ \A i \in Jobs : job'[i] = IF i = j THEN IdleJob ELSE job[i]
  BY <1>1, <1>2, BeginsTyped
<1>4. a \in Assets
  BY <1>1 DEF MediaInv, MediaTypeOK, JobRows, IdleJob
<1>5. \A p \in Posts : Out(p) => \A k \in post[p].payload : k[2] # a
  BY <1>1 DEF MediaInv, DeletionSound
<1> HIDE DEF a
<1>6. /\ objects' = {k \in objects : k[2] # a}
      /\ variant'.rows = variant.rows \ {a}
      /\ variant' \in [rows : SUBSET Assets, old : SUBSET Assets]
  BY <1>1 DEF Removed, MediaInv, MediaTypeOK
<1>7. \A b \in Assets : asset'[b] = IF b = a THEN [st |-> "none", old |-> FALSE] ELSE asset[b]
  BY <1>1 DEF Removed
<1>8. asset' \in [Assets -> AssetRows]
  <2>1. [st |-> "none", old |-> FALSE] \in AssetRows
    BY Zenon DEF AssetRows
  <2> QED
    BY <1>1, <2>1 DEF Removed, MediaInv, MediaTypeOK
<1>9. \A b \in Assets : asset'[b].st = IF b = a THEN "none" ELSE asset[b].st
  BY <1>7
<1>10. /\ post' \in [Posts -> PostRows]
       /\ \A p \in Posts : /\ post'[p].st = post[p].st /\ post'[p].payload = post[p].payload
                           /\ post'[p].over \subseteq post[p].over
                           /\ post[p].st # "draft" => post'[p].media = post[p].media
  <2>1. CASE UNCHANGED post
    BY <2>1 DEF MediaInv, MediaTypeOK
  <2>2. CASE ScrubAndDelete(j)
    <3>1. post' = [p \in Posts |-> IF post[p].st \in DraftStates
                                   THEN [post[p] EXCEPT !.media = @ \ {a}, !.over = @ \ {a}]
                                   ELSE post[p]]
      BY <2>2 DEF ScrubAndDelete, a
    <3>2. ASSUME NEW p \in Posts
          PROVE  /\ post'[p] \in PostRows
                 /\ post'[p].st = post[p].st /\ post'[p].payload = post[p].payload
                 /\ post'[p].over \subseteq post[p].over
                 /\ post[p].st # "draft" => post'[p].media = post[p].media
      <4>1. post[p] \in PostRows
        BY DEF MediaInv, MediaTypeOK
      <4>2. CASE post[p].st = "draft"
        <5> DEFINE m == post[p].media \ {a}
                   o == post[p].over \ {a}
        <5>1. post'[p] = [post[p] EXCEPT !.media = m, !.over = o]
          BY <3>1, <4>2 DEF DraftStates
        <5>2. m \in SUBSET Assets /\ o \in SUBSET Assets /\ o \subseteq post[p].over
          BY <4>1 DEF PostRows
        <5> HIDE DEF m, o
        <5>3. post'[p] = [st |-> post[p].st, media |-> m, over |-> o, payload |-> post[p].payload]
          BY <4>1, <5>1 DEF PostRows
        <5> QED
          BY <4>1, <4>2, <5>2, <5>3 DEF PostRows
      <4>3. CASE post[p].st # "draft"
        BY <3>1, <4>1, <4>3 DEF DraftStates
      <4> QED
        BY <4>2, <4>3
    <3>3. post' = [p \in Posts |-> post'[p]]
      BY <3>1
    <3> QED
      BY <3>2, <3>3
  <2> QED
    BY <2>1, <2>2 DEF DeleteOrphan
<1>11. MediaTypeOK'
  BY <1>1, <1>3, <1>6, <1>8, <1>10 DEF MediaInv, MediaTypeOK
<1>12. StoredSound'
  BY <1>1, <1>6, <1>9 DEF MediaInv, MediaTypeOK, StoredSound, Exists, Source, Variant, Keys
<1>13. ASSUME NEW p \in Posts PROVE FrozenSound(p)'
  <2>1. \A k \in post[p].payload : k[2] \in Assets
    BY DEF MediaInv, MediaTypeOK, PostRows, Keys
  <2> QED
    BY <1>1, <1>9, <1>10, <2>1 DEF MediaInv, FrozenSound, Exists
<1>14. LiveMediaKept'
  BY <1>5, <1>6, <1>10 DEF MediaInv, LiveMediaKept, Out
<1>15. ASSUME NEW i \in Jobs PROVE DeletionSound(i)'
  BY <1>2, <1>3, <1>10 DEF MediaInv, DeletionSound, Out
<1> QED
  BY <1>11, <1>12, <1>13, <1>14, <1>15 DEF MediaInv

LEMMA RetentionKeeps ==
  ASSUME MediaInv, RetainVariants
  PROVE  MediaInv'
<1> DEFINE stale == {a \in variant.old : \A p \in Posts : post[p].st \in Unpublished => a \notin post[p].media}
<1>1. /\ variant' = [rows |-> variant.rows \ stale, old |-> variant.old \ stale]
      /\ objects' = objects \ {Variant(a) : a \in stale}
      /\ UNCHANGED <<asset, bad, post, job>>
  BY DEF RetainVariants
<1>2. \A a \in stale : \A p \in Posts : Out(p) => a \notin post[p].media
  BY DEF Out, Unpublished
<1> HIDE DEF stale
<1>3. /\ variant'.rows = variant.rows \ stale
      /\ variant' \in [rows : SUBSET Assets, old : SUBSET Assets]
  BY <1>1 DEF MediaInv, MediaTypeOK
<1>4. MediaTypeOK'
  BY <1>1, <1>3 DEF MediaInv, MediaTypeOK
<1>5. StoredSound'
  BY <1>1, <1>3 DEF MediaInv, StoredSound, Exists, Source, Variant
<1>6. LiveMediaKept'
  <2> SUFFICES ASSUME NEW p \in Posts, Out(p), NEW k \in post[p].payload PROVE k \in objects'
    BY <1>1 DEF LiveMediaKept, Out
  <2>1. k \in objects /\ k[2] \in post[p].media
    BY DEF MediaInv, LiveMediaKept, FrozenSound, Out
  <2>2. k[2] \notin stale
    BY <1>2, <2>1
  <2> QED
    BY <1>1, <2>1, <2>2 DEF Variant
<1>7. \A p \in Posts : FrozenSound(p)'
  BY <1>1 DEF MediaInv, FrozenSound, Exists
<1>8. \A j \in Jobs : DeletionSound(j)'
  BY <1>1 DEF MediaInv, DeletionSound, Out
<1> QED
  BY <1>4, <1>5, <1>6, <1>7, <1>8 DEF MediaInv

(* The frozen payload: of media ready then, each in storage.                *)
LEMMA MaterializeKeeps ==
  ASSUME MediaInv, OneJob, NEW j \in Jobs, NEW V \in SUBSET Assets, Materialize(j, V)
  PROVE  MediaInv'
<1> DEFINE p == job[j].on
           used == {a \in post[p].media : asset[a].st = "ready"}
           new == {a \in V : a \notin variant.rows}
           pay == {IF a \in V THEN Variant(a) ELSE Source(a) : a \in used}
<1>1. p \in Posts
  <2>1. job[j].kind = "schedule" /\ job[j] \in JobRows
    BY DEF Materialize, Go, MediaInv, MediaTypeOK
  <2> QED
    BY <2>1 DEF JobRows, IdleJob
<1>2. post[p] \in PostRows /\ FrozenSound(p)
  BY <1>1 DEF MediaInv, MediaTypeOK
<1>3. used = {a \in IF post[p].over # {} THEN post[p].over ELSE post[p].media : asset[a].st = "ready"}
  BY <1>2 DEF FrozenSound
<1>4. /\ job' = [job EXCEPT ![j] = IdleJob]
      /\ V \subseteq used /\ new \subseteq {a \in Assets : Source(a) \in objects}
      /\ UNCHANGED <<asset, bad>>
      /\ \/ /\ post[p].st \in {"draft", "pending_approval"}
            /\ objects' = objects \cup {Variant(a) : a \in new}
            /\ variant' = [variant EXCEPT !.rows = @ \cup new]
            /\ post' = [post EXCEPT ![p].st = "scheduled", ![p].payload = pay]
         \/ UNCHANGED <<objects, variant, post>>
  BY <1>3 DEF Materialize, Go
<1>5. IdleJob \in JobRows /\ IdleJob.kind = "idle"
  BY DEF JobRows, IdleJob
<1>6. job' \in [Jobs -> JobRows] /\ \A i \in Jobs : job'[i].kind = "idle"
  BY <1>4, <1>5, BeginsTyped DEF OneJob
<1>7. \A i \in Jobs : DeletionSound(i)'
  BY <1>6 DEF DeletionSound
<1>8. CASE UNCHANGED <<objects, variant, post>>
  BY <1>4, <1>6, <1>7, <1>8 DEF MediaInv, MediaTypeOK, StoredSound, FrozenSound, LiveMediaKept, Exists
<1>9. ASSUME objects' = objects \cup {Variant(a) : a \in new},
             variant' = [variant EXCEPT !.rows = @ \cup new],
             post' = [post EXCEPT ![p].st = "scheduled", ![p].payload = pay]
      PROVE  MediaInv'
  <2> DEFINE r == [st |-> "scheduled", media |-> post[p].media, over |-> post[p].over, payload |-> pay]
  <2>1. used \subseteq post[p].media /\ used \subseteq Assets
        /\ \A a \in used : asset[a].st = "ready"
    BY <1>2 DEF PostRows
  <2>2. new \subseteq used /\ new \subseteq Assets /\ V \subseteq variant.rows \cup new
    BY <1>4
  <2>3. \A k \in pay : /\ k \in Keys /\ k[2] \in used
                       /\ k = Source(k[2]) \/ (k = Variant(k[2]) /\ k[2] \in V)
    BY <2>1 DEF Source, Variant, Keys
  <2>4. post' = [post EXCEPT ![p] = r]
    <3> DEFINE s == "scheduled"
    <3>1. post' = [post EXCEPT ![p].st = s, ![p].payload = pay]
      BY <1>9
    <3>2. r = [st |-> s, media |-> post[p].media, over |-> post[p].over, payload |-> pay]
      OBVIOUS
    <3> HIDE DEF s, pay, r, p
    <3>3. [post EXCEPT ![p].st = s, ![p].payload = pay] =
            [post EXCEPT ![p] = [st |-> s, media |-> post[p].media, over |-> post[p].over, payload |-> pay]]
      BY <1>1, PostCleared, Zenon
    <3> QED
      BY <3>1, <3>2, <3>3
  <2> HIDE DEF used, new, pay, p
  <2>5. r \in PostRows
    BY <1>2, <2>3 DEF PostRows
  <2>6. r.st = "scheduled" /\ r.media = post[p].media /\ r.over = {} /\ r.payload = pay
    BY <1>2 DEF FrozenSound
  <2> HIDE DEF r
  <2>7. post' \in [Posts -> PostRows] /\ \A q \in Posts : post'[q] = IF q = p THEN r ELSE post[q]
    BY <1>1, <2>4, <2>5 DEF MediaInv, MediaTypeOK
  <2>8. /\ variant'.rows = variant.rows \cup new
        /\ variant' \in [rows : SUBSET Assets, old : SUBSET Assets]
    <3> DEFINE w == variant.rows \cup new
    <3>1. w \subseteq Assets /\ variant \in [rows : SUBSET Assets, old : SUBSET Assets]
      BY <2>2 DEF MediaInv, MediaTypeOK
    <3>2. variant' = [variant EXCEPT !.rows = w]
      BY <1>9
    <3> HIDE DEF w
    <3>3. variant'.rows = w /\ variant' \in [rows : SUBSET Assets, old : SUBSET Assets]
      BY <3>1, <3>2
    <3> QED
      BY <3>3 DEF w
  <2>9. MediaTypeOK'
    BY <1>4, <1>6, <1>9, <2>2, <2>7, <2>8 DEF MediaInv, MediaTypeOK, Variant, Keys
  <2>10. StoredSound'
    BY <1>4, <1>9, <2>1, <2>2, <2>8 DEF MediaInv, StoredSound, Exists, Variant
  <2>11. ASSUME NEW q \in Posts PROVE FrozenSound(q)'
    <3>1. CASE q = p
      <4>1. \A k \in pay : k[2] \in post[p].media /\ asset[k[2]].st = "ready" /\ k[2] \notin bad
        BY <2>1, <2>3 DEF MediaInv, StoredSound
      <4> QED
        BY <1>4, <2>6, <2>7, <3>1, <4>1 DEF FrozenSound, Exists
    <3>2. CASE q # p
      BY <1>4, <2>7, <3>2 DEF MediaInv, FrozenSound, Exists
    <3> QED
      BY <3>1, <3>2
  <2>12. LiveMediaKept'
    <3>1. ASSUME NEW k \in pay PROVE k \in objects'
      <4>1. k[2] \in used /\ k[2] \in Assets
        BY <2>1, <2>3
      <4>2. CASE k = Source(k[2])
        BY <1>9, <2>1, <4>1, <4>2 DEF MediaInv, StoredSound
      <4>3. CASE k = Variant(k[2]) /\ k[2] \in V
        <5>1. k[2] \in variant.rows \/ k[2] \in new
          BY <2>2, <4>3
        <5> QED
          BY <1>9, <4>3, <5>1 DEF MediaInv, StoredSound
      <4> QED
        BY <2>3, <4>2, <4>3
    <3>2. objects \subseteq objects'
      BY <1>9
    <3> QED
      BY <2>6, <2>7, <3>1, <3>2 DEF MediaInv, LiveMediaKept
  <2> QED
    BY <1>7, <2>9, <2>10, <2>11, <2>12 DEF MediaInv
<1> QED
  BY <1>4, <1>8, <1>9

LEMMA NextMedia ==
  ASSUME OneJob, Habits = {}
  PROVE  MediaInv /\ [MediaNext]_mediaVars => MediaInv'
<1> SUFFICES ASSUME MediaInv, [MediaNext]_mediaVars PROVE MediaInv'
  OBVIOUS
<1>1. CASE \E a \in Assets : CreateUpload(a) \/ Ages(a) \/ \E b \in BOOLEAN : PutObject(a, b)
  BY <1>1, UploadKeeps, PutObjectKeeps
<1>2. CASE \E p \in Posts : Submit(p) \/ Publish(p) \/ Retry(p) \/ Unschedule(p)
  BY <1>2, PostKeeps
<1>3. CASE \E p \in Posts, M \in SUBSET Assets, O \in SUBSET Assets : Edit(p, M, O)
  BY <1>3, EditKeeps
<1>4. ASSUME NEW j \in Jobs,
             \/ \E a \in Assets : StartDelete(j, a) \/ StartCleanup(j, a)
             \/ \E p \in Posts : StartSchedule(j, p)
             \/ CrashJob(j)
      PROVE  MediaInv'
  BY <1>4, JobStartKeeps
<1>5. ASSUME NEW j \in Jobs, NEW a \in Assets, StartFinalize(j, a) PROVE MediaInv'
  BY <1>5, FinalizedKeeps
<1>6. ASSUME NEW j \in Jobs, FinishFinalize(j) PROVE MediaInv'
  <2>1. job[j].kind = "finalize" /\ job[j] \in JobRows
    BY <1>6 DEF FinishFinalize, Go, MediaInv, MediaTypeOK
  <2>2. job[j].on \in Assets
    BY <2>1 DEF JobRows, IdleJob
  <2> QED
    BY <1>6, <2>2, FinalizedKeeps
<1>7. ASSUME NEW j \in Jobs, ScrubAndDelete(j) \/ DeleteOrphan(j) PROVE MediaInv'
  BY <1>7, RemovalKeeps
<1>8. ASSUME NEW j \in Jobs, NEW V \in SUBSET Assets, Materialize(j, V) PROVE MediaInv'
  BY <1>8, MaterializeKeeps
<1>9. CASE RetainVariants
  BY <1>9, RetentionKeeps
<1>10. CASE UNCHANGED mediaVars
  BY <1>10 DEF mediaVars, MediaInv, MediaTypeOK, StoredSound, FrozenSound, DeletionSound, LiveMediaKept, Exists, Out
<1> QED
  BY <1>1, <1>2, <1>3, <1>4, <1>5, <1>6, <1>7, <1>8, <1>9, <1>10 DEF MediaNext

(* What a scheduled post is about to publish is in storage, for any number  *)
(* of assets and posts, where jobs take turns and users have neither habit. *)
THEOREM MediaAreKept ==
  ASSUME OneJob, Habits = {}
  PROVE  MediaSpec => []LiveMediaKept
<1>1. MediaInv => LiveMediaKept
  BY DEF MediaInv
<1> QED
  BY <1>1, InitMedia, NextMedia, PTL DEF MediaSpec

-----------------------------------------------------------------------------
(* Metrics: what each target may still be pulled for is paid for.           *)

Cursors == [kind : {"null", "milestone", "held", "later", "now"}, k : Nat]
Pulls == {NoPull} \cup [at : {"next", "fetch"}, todo : SUBSET Targets, clock : [Targets -> Nat],
                        on : SUBSET Targets]
MetricsTypeOK ==
  /\ age \in [Targets -> Nat]
  /\ cursor \in [Targets -> Cursors]
  /\ active \subseteq Targets
  /\ pull \in [Pullers -> Pulls]
  /\ taken \in [Targets -> Nat]
  /\ pulls \in [slips : Nat, marks : [Targets -> Nat]]

PullSound(r) ==
  /\ r.at = "idle" => r = NoPull
  /\ r.at = "next" => r.on = {}
  /\ r.on \cap r.todo = {}

(* The ticks with a target in hand, those whose clock is behind, and        *)
(* whether the target may be claimed without a further slip.                *)
InHandOf(r, t) == t \in r.todo \cup r.on
Hands(t) == {p \in Pullers : InHandOf(pull[p], t)}
Behind(t) == {p \in Hands(t) : pull[p].clock[t] < age[t]}
Waits(t) == \/ cursor[t].kind \in {"now", "later"}
            \/ cursor[t].kind = "milestone" /\ age[t] >= cursor[t].k
            \/ cursor[t].kind = "held" /\ Hands(t) = {}
Owed(t) == Cardinality(Hands(t)) + Cardinality(Behind(t)) + (IF Waits(t) THEN 1 ELSE 0)
PaidFor(t) == taken[t] + Owed(t) <= age[t] + pulls.slips + pulls.marks[t]

MetricsInv ==
  /\ MetricsTypeOK
  /\ \A p \in Pullers : PullSound(pull[p])
  /\ \A t \in Targets : PaidFor(t)

(* One element less, one more.                                              *)
LEMMA OneLess ==
  ASSUME NEW S, IsFiniteSet(S), NEW p
  PROVE  /\ IsFiniteSet(S \ {p}) /\ Cardinality(S) \in Nat /\ Cardinality(S \ {p}) \in Nat
         /\ Cardinality(S \ {p}) = IF p \in S THEN Cardinality(S) - 1 ELSE Cardinality(S)
BY FS_RemoveElement, FS_CardinalityType

LEMMA OneMore ==
  ASSUME NEW S, IsFiniteSet(S), NEW p, p \notin S
  PROVE  /\ IsFiniteSet(S \cup {p}) /\ Cardinality(S) \in Nat
         /\ Cardinality(S \cup {p}) = Cardinality(S) + 1
BY FS_AddElement, FS_CardinalityType

LEMMA HandsCount ==
  ASSUME NEW t \in Targets
  PROVE  /\ IsFiniteSet(Hands(t)) /\ Cardinality(Hands(t)) \in Nat
         /\ IsFiniteSet(Behind(t)) /\ Cardinality(Behind(t)) \in Nat
         /\ Behind(t) \subseteq Hands(t) /\ Hands(t) \subseteq Pullers
<1>1. Hands(t) \subseteq Pullers /\ Behind(t) \subseteq Hands(t) /\ Behind(t) \subseteq Pullers
  BY DEF Hands, Behind
<1>2. IsFiniteSet(Pullers)
  BY AnalyticsAssumption
<1>3. IsFiniteSet(Hands(t))
  BY <1>1, <1>2, FS_Subset
<1>4. IsFiniteSet(Behind(t))
  BY <1>1, <1>2, FS_Subset
<1> QED
  BY <1>1, <1>3, <1>4, FS_CardinalityType

LEMMA InitMetrics == AnalyticsInit => MetricsInv
<1> SUFFICES ASSUME AnalyticsInit PROVE MetricsInv
  OBVIOUS
<1>1. MetricsTypeOK
  <2>1. At(1) \in Cursors /\ Null \in Cursors
    BY DEF At, Null, Cursors
  <2>2. pull = [p \in Pullers |-> NoPull] /\ NoPull \in Pulls
    BY DEF AnalyticsInit, Pulls
  <2>3. pull \in [Pullers -> Pulls]
    BY <2>2
  <2>4. cursor \in [Targets -> Cursors]
    BY <2>1 DEF AnalyticsInit
  <2>5. pulls \in [slips : Nat, marks : [Targets -> Nat]]
    BY DEF AnalyticsInit
  <2> QED
    BY <2>3, <2>4, <2>5 DEF MetricsTypeOK, AnalyticsInit
<1>2. ASSUME NEW p \in Pullers PROVE PullSound(pull[p])
  BY DEF AnalyticsInit, PullSound, NoPull
<1>3. ASSUME NEW t \in Targets PROVE PaidFor(t)
  <2>1. Hands(t) = {} /\ Behind(t) = {}
    BY DEF AnalyticsInit, Hands, Behind, InHandOf, NoPull
  <2>2. cursor[t] \in {At(1), Null} /\ age[t] = 0
    BY DEF AnalyticsInit
  <2>3. ~Waits(t)
    BY <2>2 DEF Waits, At, Null
  <2>4. Cardinality({}) = 0
    BY FS_EmptySet
  <2>5. Owed(t) = 0
    BY <2>1, <2>3, <2>4 DEF Owed
  <2>6. taken[t] = 0 /\ pulls.slips = 0 /\ pulls.marks[t] = 0
    BY DEF AnalyticsInit
  <2> QED
    BY <2>2, <2>5, <2>6 DEF PaidFor
<1> QED
  BY <1>1, <1>2, <1>3 DEF MetricsInv

LEMMA OwedNat ==
  ASSUME NEW t \in Targets
  PROVE  Owed(t) \in Nat /\ Owed(t)' \in Nat
<1>1. Hands(t)' \subseteq Pullers /\ Behind(t)' \subseteq Pullers
  BY DEF Hands, Behind
<1>2. IsFiniteSet(Hands(t)') /\ IsFiniteSet(Behind(t)')
  BY <1>1, AnalyticsAssumption, FS_Subset
<1>3. Cardinality(Hands(t)') \in Nat
  BY <1>2, FS_CardinalityType
<1>4. Cardinality(Behind(t)') \in Nat
  BY <1>2, FS_CardinalityType
<1>5. Owed(t)' \in Nat
  BY <1>3, <1>4 DEF Owed
<1>6. Owed(t) \in Nat
  BY HandsCount DEF Owed
<1> QED
  BY <1>5, <1>6

(* A tick's row after a step, seen by one target.                           *)
LEMMA HandsMove ==
  ASSUME MetricsTypeOK, NEW p \in Pullers, NEW r, pull' = [pull EXCEPT ![p] = r],
         NEW t \in Targets, age'[t] = age[t]
  PROVE  /\ Hands(t)' = IF InHandOf(r, t) THEN Hands(t) \cup {p} ELSE Hands(t) \ {p}
         /\ Behind(t)' = IF InHandOf(r, t) /\ r.clock[t] < age[t] THEN Behind(t) \cup {p}
                         ELSE Behind(t) \ {p}
<1>1. pull \in [Pullers -> Pulls] /\ pull'[p] = r /\ \A q \in Pullers \ {p} : pull'[q] = pull[q]
  BY DEF MetricsTypeOK
<1> DEFINE in(q) == InHandOf(pull[q], t)
           late(q) == pull[q].clock[t] < age[t]
<1>2. Hands(t) = {q \in Pullers : in(q)} /\ Behind(t) = {q \in Pullers : in(q) /\ late(q)}
  BY DEF Hands, Behind
<1>3. Hands(t)' = {q \in Pullers : InHandOf(pull'[q], t)}
  BY DEF Hands, InHandOf
<1>4. Behind(t)' = {q \in Pullers : InHandOf(pull'[q], t) /\ pull'[q].clock[t] < age[t]}
  BY DEF Behind, Hands, InHandOf
<1>5. /\ InHandOf(pull'[p], t) = InHandOf(r, t)
      /\ (pull'[p].clock[t] < age[t]) = (r.clock[t] < age[t])
      /\ \A q \in Pullers \ {p} : InHandOf(pull'[q], t) = in(q) /\ (pull'[q].clock[t] < age[t]) = late(q)
  BY <1>1
<1> HIDE DEF in, late
<1>6. Hands(t)' = IF InHandOf(r, t) THEN Hands(t) \cup {p} ELSE Hands(t) \ {p}
  BY <1>2, <1>3, <1>5
<1>7. Behind(t)' = IF InHandOf(r, t) /\ r.clock[t] < age[t] THEN Behind(t) \cup {p} ELSE Behind(t) \ {p}
  BY <1>2, <1>4, <1>5
<1> QED
  BY <1>6, <1>7

(* A target whose hands do not change and that waits no more than before.   *)
LEMMA OwedKept ==
  ASSUME NEW t \in Targets, Hands(t)' = Hands(t), Behind(t)' = Behind(t), Waits(t)' => Waits(t)
  PROVE  Owed(t)' <= Owed(t)
BY HandsCount DEF Owed

(* A tick lets go of a target: what it owed pays for the target's waiting.  *)
LEMMA OwedDropped ==
  ASSUME NEW t \in Targets, NEW p \in Hands(t),
         Hands(t)' = Hands(t) \ {p}, Behind(t)' = Behind(t) \ {p}
  PROVE  /\ Owed(t)' <= Owed(t)
         /\ p \in Behind(t) \/ ~Waits(t)' => Owed(t)' + 1 <= Owed(t)
<1> DEFINE H == Hands(t)
           L == Behind(t)
           G == Hands(t)'
           M == Behind(t)'
<1>1. IsFiniteSet(H) /\ IsFiniteSet(L) /\ p \in H /\ G = H \ {p} /\ M = L \ {p}
  BY HandsCount
<1>2. Owed(t) = Cardinality(H) + Cardinality(L) + (IF Waits(t) THEN 1 ELSE 0)
  BY DEF Owed
<1>3. Owed(t)' = Cardinality(G) + Cardinality(M) + (IF Waits(t)' THEN 1 ELSE 0)
  BY DEF Owed
<1> HIDE DEF H, L, G, M
<1>4. Cardinality(H) \in Nat /\ Cardinality(G) \in Nat /\ Cardinality(G) = Cardinality(H) - 1
  BY <1>1, OneLess
<1>5. Cardinality(L) \in Nat /\ Cardinality(M) \in Nat
      /\ Cardinality(M) = IF p \in L THEN Cardinality(L) - 1 ELSE Cardinality(L)
  BY <1>1, OneLess
<1>6. Owed(t)' <= Owed(t)
  BY <1>2, <1>3, <1>4, <1>5
<1>7. p \in L \/ ~Waits(t)' => Owed(t)' + 1 <= Owed(t)
  BY <1>2, <1>3, <1>4, <1>5
<1> QED
  BY <1>6, <1>7 DEF L

(* A tick takes a target that waits: its waiting pays for the hand.         *)
LEMMA OwedTaken ==
  ASSUME NEW t \in Targets, NEW p, p \notin Hands(t), Waits(t), ~Waits(t)',
         Hands(t)' = Hands(t) \cup {p}, Behind(t)' = Behind(t)
  PROVE  Owed(t)' <= Owed(t)
<1> DEFINE H == Hands(t)
           L == Behind(t)
           G == Hands(t)'
           M == Behind(t)'
<1>1. IsFiniteSet(H) /\ IsFiniteSet(L) /\ p \notin H /\ G = H \cup {p} /\ M = L
  BY HandsCount
<1>2. Owed(t) = Cardinality(H) + Cardinality(L) + 1
  BY DEF Owed
<1>3. Owed(t)' = Cardinality(G) + Cardinality(M)
  BY HandsCount, <1>1, FS_AddElement, FS_CardinalityType DEF Owed
<1> HIDE DEF H, L, G, M
<1>4. Cardinality(H) \in Nat /\ Cardinality(G) = Cardinality(H) + 1
  BY <1>1, OneMore
<1>5. Cardinality(L) \in Nat /\ Cardinality(M) = Cardinality(L)
  BY <1>1, FS_CardinalityType
<1> QED
  BY <1>2, <1>3, <1>4, <1>5

LEMMA PaidOn ==
  ASSUME MetricsInv, MetricsTypeOK', UNCHANGED <<age, taken, pulls>>,
         NEW t \in Targets, Owed(t)' <= Owed(t)
  PROVE  PaidFor(t)'
<1>1. Owed(t) \in Nat /\ Owed(t)' \in Nat
  BY OwedNat
<1>2. /\ taken[t] \in Nat /\ age[t] \in Nat /\ pulls.slips \in Nat /\ pulls.marks[t] \in Nat
      /\ PaidFor(t)
  BY DEF MetricsInv, MetricsTypeOK
<1> QED
  BY <1>1, <1>2 DEF PaidFor

(* The rows of a tick.                                                      *)
LEMMA PullRows ==
  ASSUME NEW r \in Pulls, r.at # "idle", NEW a \in SUBSET Targets, NEW b \in SUBSET Targets
  PROVE  /\ r.clock \in [Targets -> Nat] /\ r.todo \in SUBSET Targets /\ r.on \in SUBSET Targets
         /\ r.at \in {"next", "fetch"}
         /\ [r EXCEPT !.todo = a] = [at |-> r.at, todo |-> a, clock |-> r.clock, on |-> r.on]
         /\ [r EXCEPT !.at = "next", !.on = b] = [at |-> "next", todo |-> r.todo, clock |-> r.clock, on |-> b]
         /\ [r EXCEPT !.at = "fetch", !.todo = a, !.on = b]
              = [at |-> "fetch", todo |-> a, clock |-> r.clock, on |-> b]
<1>1. r \in [at : {"next", "fetch"}, todo : SUBSET Targets, clock : [Targets -> Nat], on : SUBSET Targets]
  BY DEF Pulls, NoPull
<1>2. [r EXCEPT !.todo = a] = [at |-> r.at, todo |-> a, clock |-> r.clock, on |-> r.on]
  BY <1>1, SMT
<1>3. [r EXCEPT !.at = "next", !.on = b] = [at |-> "next", todo |-> r.todo, clock |-> r.clock, on |-> b]
  <2>1. [r EXCEPT !.at = "next", !.on = b] = [[r EXCEPT !.at = "next"] EXCEPT !.on = b]
    BY Zenon
  <2>2. [r EXCEPT !.at = "next"] = [at |-> "next", todo |-> r.todo, clock |-> r.clock, on |-> r.on]
    BY <1>1, SMT
  <2>3. [[at |-> "next", todo |-> r.todo, clock |-> r.clock, on |-> r.on] EXCEPT !.on = b]
          = [at |-> "next", todo |-> r.todo, clock |-> r.clock, on |-> b]
    BY SMT
  <2> QED
    BY <2>1, <2>2, <2>3
<1>4. [r EXCEPT !.at = "fetch", !.todo = a, !.on = b]
        = [at |-> "fetch", todo |-> a, clock |-> r.clock, on |-> b]
  <2>1. [r EXCEPT !.at = "fetch", !.todo = a, !.on = b]
          = [[[r EXCEPT !.at = "fetch"] EXCEPT !.todo = a] EXCEPT !.on = b]
    BY Zenon
  <2>2. [r EXCEPT !.at = "fetch"] = [at |-> "fetch", todo |-> r.todo, clock |-> r.clock, on |-> r.on]
    BY <1>1, SMT
  <2>3. [[at |-> "fetch", todo |-> r.todo, clock |-> r.clock, on |-> r.on] EXCEPT !.todo = a]
          = [at |-> "fetch", todo |-> a, clock |-> r.clock, on |-> r.on]
    BY SMT
  <2>4. [[at |-> "fetch", todo |-> a, clock |-> r.clock, on |-> r.on] EXCEPT !.on = b]
          = [at |-> "fetch", todo |-> a, clock |-> r.clock, on |-> b]
    BY SMT
  <2> QED
    BY <2>1, <2>2, <2>3, <2>4
<1>5. /\ r.clock \in [Targets -> Nat] /\ r.todo \in SUBSET Targets /\ r.on \in SUBSET Targets
      /\ r.at \in {"next", "fetch"}
  BY <1>1
<1> QED
  BY <1>2, <1>3, <1>4, <1>5

LEMMA RowsArePulls ==
  ASSUME NEW at \in {"next", "fetch"}, NEW a \in SUBSET Targets, NEW c \in [Targets -> Nat],
         NEW b \in SUBSET Targets
  PROVE  [at |-> at, todo |-> a, clock |-> c, on |-> b] \in Pulls
BY Zenon DEF Pulls

LEMMA ClaimPays ==
  ASSUME MetricsInv, NEW p \in Pullers, Claim(p)
  PROVE  MetricsInv'
<1>1. PICK S : S = {t \in active : Due(t)}
  OBVIOUS
<1>2. PICK r : r = [at |-> "next", todo |-> S, clock |-> age, on |-> {}]
  OBVIOUS
<1>3. /\ pull[p].at = "idle" /\ pull' = [pull EXCEPT ![p] = r]
      /\ cursor' = [t \in Targets |-> IF t \in S THEN Held ELSE cursor[t]]
      /\ UNCHANGED <<age, active, taken, pulls>>
  BY <1>1, <1>2 DEF Claim, Put
<1>4. S \in SUBSET Targets /\ age \in [Targets -> Nat] /\ MetricsTypeOK
  BY <1>1 DEF MetricsInv, MetricsTypeOK
<1>5. r \in Pulls
  BY <1>2, <1>4, RowsArePulls
<1>6. r.at = "next" /\ r.todo = S /\ r.on = {} /\ r.clock = age /\ \A t : InHandOf(r, t) <=> t \in S
  BY <1>2 DEF InHandOf
<1>7. MetricsTypeOK'
  <2>1. Held \in Cursors
    BY DEF Held, Cursors
  <2>2. cursor' \in [Targets -> Cursors]
    BY <1>3, <1>4, <2>1 DEF MetricsTypeOK
  <2>3. pull' \in [Pullers -> Pulls]
    BY <1>3, <1>4, <1>5 DEF MetricsTypeOK
  <2> QED
    BY <1>3, <1>4, <2>2, <2>3 DEF MetricsTypeOK
<1>8. ASSUME NEW q \in Pullers PROVE PullSound(pull'[q])
  <2>1. PullSound(r)
    BY <1>6 DEF PullSound
  <2> QED
    BY <1>3, <1>4, <2>1 DEF MetricsInv, MetricsTypeOK
<1>9. ASSUME NEW t \in Targets PROVE PaidFor(t)'
  <2>1. p \notin Hands(t) /\ p \notin Behind(t)
    <3>1. pull[p] = NoPull
      BY <1>3 DEF MetricsInv, PullSound
    <3> QED
      BY <3>1 DEF Hands, Behind, InHandOf, NoPull
  <2>2. /\ Hands(t)' = IF t \in S THEN Hands(t) \cup {p} ELSE Hands(t)
        /\ Behind(t)' = Behind(t)
    <3>1. ~(r.clock[t] < age[t]) /\ age'[t] = age[t]
      BY <1>3, <1>4, <1>6
    <3>2. /\ Hands(t)' = IF InHandOf(r, t) THEN Hands(t) \cup {p} ELSE Hands(t) \ {p}
          /\ Behind(t)' = IF InHandOf(r, t) /\ r.clock[t] < age[t] THEN Behind(t) \cup {p}
                          ELSE Behind(t) \ {p}
      BY <1>3, <1>4, <3>1, HandsMove
    <3> QED
      BY <1>6, <2>1, <3>1, <3>2
  <2>3. CASE t \in S
    <3>1. Waits(t)
      BY <1>1, <2>3 DEF Due, Waits
    <3>2. ~Waits(t)'
      BY <1>3, <2>2, <2>3 DEF Waits, Held
    <3>3. Owed(t)' <= Owed(t)
      BY <2>1, <2>2, <2>3, <3>1, <3>2, OwedTaken
    <3> QED
      BY <1>3, <1>7, <3>3, PaidOn
  <2>4. CASE t \notin S
    <3>1. Waits(t)' => Waits(t)
      BY <1>3, <2>2, <2>4 DEF Waits
    <3>2. Owed(t)' <= Owed(t)
      BY <2>2, <2>4, <3>1, OwedKept
    <3> QED
      BY <1>3, <1>7, <3>2, PaidOn
  <2> QED
    BY <2>3, <2>4
<1> QED
  BY <1>7, <1>8, <1>9 DEF MetricsInv

(* A tick that puts targets down, and leaves the others in its hand as they *)
(* were, with no cursor but theirs changed, owes no more than before.       *)
LEMMA PutDown ==
  ASSUME MetricsInv, NEW p \in Pullers, NEW r \in Pulls, PullSound(r),
         pull' = [pull EXCEPT ![p] = r], UNCHANGED age, NEW t \in Targets,
         InHandOf(r, t) => InHandOf(pull[p], t) /\ r.clock = pull[p].clock
  PROVE  /\ (InHandOf(r, t) <=> InHandOf(pull[p], t)) => Hands(t)' = Hands(t) /\ Behind(t)' = Behind(t)
         /\ InHandOf(pull[p], t) /\ ~InHandOf(r, t) =>
              p \in Hands(t) /\ Hands(t)' = Hands(t) \ {p} /\ Behind(t)' = Behind(t) \ {p}
<1>1. MetricsTypeOK
  BY DEF MetricsInv
<1>2. /\ Hands(t)' = IF InHandOf(r, t) THEN Hands(t) \cup {p} ELSE Hands(t) \ {p}
      /\ Behind(t)' = IF InHandOf(r, t) /\ r.clock[t] < age[t] THEN Behind(t) \cup {p}
                      ELSE Behind(t) \ {p}
  BY <1>1, HandsMove
<1>3. /\ p \in Hands(t) <=> InHandOf(pull[p], t)
      /\ p \in Behind(t) <=> InHandOf(pull[p], t) /\ pull[p].clock[t] < age[t]
  BY DEF Hands, Behind
<1> QED
  BY <1>2, <1>3

LEMMA StepOwes ==
  ASSUME MetricsInv, NEW p \in Pullers, NEW r \in Pulls, PullSound(r),
         pull' = [pull EXCEPT ![p] = r], UNCHANGED age, NEW t \in Targets,
         InHandOf(r, t) => InHandOf(pull[p], t) /\ r.clock = pull[p].clock,
         cursor'[t] = cursor[t] \/ (InHandOf(pull[p], t) /\ ~InHandOf(r, t))
  PROVE  Owed(t)' <= Owed(t)
<1>1. CASE InHandOf(pull[p], t) /\ ~InHandOf(r, t)
  <2>1. p \in Hands(t) /\ Hands(t)' = Hands(t) \ {p} /\ Behind(t)' = Behind(t) \ {p}
    BY <1>1, PutDown
  <2> QED
    BY <2>1, OwedDropped
<1>2. CASE ~(InHandOf(pull[p], t) /\ ~InHandOf(r, t))
  <2>1. Hands(t)' = Hands(t) /\ Behind(t)' = Behind(t)
    BY <1>2, PutDown
  <2>2. Waits(t)' => Waits(t)
    BY <1>2, <2>1 DEF Waits
  <2> QED
    BY <2>1, <2>2, OwedKept
<1> QED
  BY <1>1, <1>2

(* Such a step, when nothing is pulled by it.                               *)
LEMMA StepPays ==
  ASSUME MetricsInv, NEW p \in Pullers, NEW r \in Pulls, PullSound(r),
         pull' = [pull EXCEPT ![p] = r], UNCHANGED <<age, active, taken, pulls>>,
         cursor' \in [Targets -> Cursors],
         \A t \in Targets :
           /\ InHandOf(r, t) => InHandOf(pull[p], t) /\ r.clock = pull[p].clock
           /\ cursor'[t] = cursor[t] \/ (InHandOf(pull[p], t) /\ ~InHandOf(r, t))
  PROVE  MetricsInv'
<1>1. MetricsTypeOK'
  BY DEF MetricsInv, MetricsTypeOK
<1>2. ASSUME NEW q \in Pullers PROVE PullSound(pull'[q])
  BY DEF MetricsInv, MetricsTypeOK
<1>3. ASSUME NEW t \in Targets PROVE PaidFor(t)'
  <2>1. Owed(t)' <= Owed(t)
    BY StepOwes
  <2> QED
    BY <1>1, <2>1, PaidOn
<1> QED
  BY <1>1, <1>2, <1>3 DEF MetricsInv

LEMMA CrashPays ==
  ASSUME MetricsInv, NEW p \in Pullers, CrashPull(p)
  PROVE  MetricsInv'
<1>1. /\ pull' = [pull EXCEPT ![p] = NoPull] /\ UNCHANGED <<age, cursor, active, taken, pulls>>
  BY DEF CrashPull, Put
<1>2. NoPull \in Pulls /\ PullSound(NoPull) /\ \A t : ~InHandOf(NoPull, t)
  BY DEF Pulls, PullSound, InHandOf, NoPull
<1>3. cursor' \in [Targets -> Cursors]
  BY <1>1 DEF MetricsInv, MetricsTypeOK
<1> QED
  BY <1>1, <1>2, <1>3, StepPays

LEMMA TurnPays ==
  ASSUME MetricsInv, NEW p \in Pullers, Turn(p)
  PROVE  MetricsInv'
<1>1. pull[p].at = "next" /\ UNCHANGED <<age, active, taken, pulls>>
  BY DEF Turn
<1>2. pull[p] \in Pulls /\ pull[p].on = {} /\ cursor \in [Targets -> Cursors]
  BY <1>1 DEF MetricsInv, MetricsTypeOK, PullSound
<1>3. pull[p].todo \in SUBSET Targets /\ pull[p].clock \in [Targets -> Nat]
  BY <1>1, <1>2, PullRows
<1>4. PICK t \in pull[p].todo :
        LET rest == pull[p].todo \ {t}
            skip == IF rest = {} THEN NoPull ELSE [pull[p] EXCEPT !.todo = rest]
        IN  \/ t \notin Capable /\ SetCursor(t, Null) /\ Put(p, skip)
            \/ t \in Capable /\ Put(p, skip) /\ UNCHANGED cursor
            \/ t \in Capable /\ Put(p, [pull[p] EXCEPT !.at = "fetch", !.todo = rest, !.on = {t}])
                 /\ UNCHANGED cursor
  BY DEF Turn
<1> DEFINE rest == pull[p].todo \ {t}
           one == {t}
           put == [at |-> "next", todo |-> rest, clock |-> pull[p].clock, on |-> {}]
           skip == IF rest = {} THEN NoPull ELSE put
           fetch == [at |-> "fetch", todo |-> rest, clock |-> pull[p].clock, on |-> one]
<1>5. rest \in SUBSET Targets /\ one \in SUBSET Targets /\ t \in Targets /\ {} \in SUBSET Targets
  BY <1>3
<1>6. [pull[p] EXCEPT !.todo = rest] = put
  <2>1. [pull[p] EXCEPT !.todo = rest]
          = [at |-> pull[p].at, todo |-> rest, clock |-> pull[p].clock, on |-> pull[p].on]
    BY <1>1, <1>2, <1>5, PullRows
  <2> QED
    BY <1>1, <1>2, <2>1
<1>7. [pull[p] EXCEPT !.at = "fetch", !.todo = rest, !.on = one] = fetch
  BY <1>1, <1>2, <1>5, PullRows
<1>8. \/ Put(p, skip) /\ (UNCHANGED cursor \/ SetCursor(t, Null))
      \/ Put(p, fetch) /\ UNCHANGED cursor
  BY <1>4, <1>6, <1>7
<1>9. \A u : InHandOf(pull[p], u) <=> u \in pull[p].todo
  BY <1>2 DEF InHandOf
<1>10. cursor' \in [Targets -> Cursors] /\ \A u \in Targets : u # t => cursor'[u] = cursor[u]
  <2>1. Null \in Cursors
    BY DEF Null, Cursors
  <2> QED
    BY <1>2, <1>5, <1>8, <2>1 DEF SetCursor
<1>11. CASE Put(p, skip)
  <2>1. put \in Pulls /\ NoPull \in Pulls
    BY <1>3, <1>5, RowsArePulls DEF Pulls
  <2>2. PullSound(put) /\ PullSound(NoPull)
    BY DEF PullSound, NoPull
  <2>3. skip \in Pulls /\ PullSound(skip)
    BY <2>1, <2>2
  <2>4. \A u : (InHandOf(put, u) <=> u \in rest) /\ ~InHandOf(NoPull, u)
    BY DEF InHandOf, NoPull
  <2>5. \A u : (InHandOf(skip, u) <=> u \in rest) /\ (u \in rest => skip.clock = pull[p].clock)
    BY <2>4
  <2> HIDE DEF skip
  <2>6. pull' = [pull EXCEPT ![p] = skip]
    BY <1>11 DEF Put
  <2>7. ASSUME NEW u \in Targets
        PROVE  /\ InHandOf(skip, u) => InHandOf(pull[p], u) /\ skip.clock = pull[p].clock
               /\ cursor'[u] = cursor[u] \/ (InHandOf(pull[p], u) /\ ~InHandOf(skip, u))
    BY <1>9, <1>10, <2>5
  <2> QED
    BY <1>1, <1>10, <2>3, <2>6, <2>7, StepPays
<1>12. CASE Put(p, fetch) /\ UNCHANGED cursor
  <2>1. fetch \in Pulls
    BY <1>3, <1>5, RowsArePulls
  <2>2. PullSound(fetch) /\ fetch.clock = pull[p].clock
    BY DEF PullSound
  <2>3. \A u : InHandOf(fetch, u) <=> u \in pull[p].todo
    BY DEF InHandOf
  <2> HIDE DEF fetch
  <2>4. pull' = [pull EXCEPT ![p] = fetch]
    BY <1>12 DEF Put
  <2> QED
    BY <1>1, <1>2, <1>9, <1>12, <2>1, <2>2, <2>3, <2>4, StepPays
<1> QED
  BY <1>8, <1>11, <1>12

(* What a tick goes on with.                                                *)
LEMMA OnwardRow ==
  ASSUME MetricsInv, NEW p \in Pullers, pull[p].at = "fetch", Onward(p)
  PROVE  \E r \in Pulls :
           /\ pull' = [pull EXCEPT ![p] = r] /\ PullSound(r)
           /\ \A u : (InHandOf(r, u) <=> u \in pull[p].todo) /\ (InHandOf(r, u) => r.clock = pull[p].clock)
<1>1. pull[p] \in Pulls /\ {} \in SUBSET Targets
  BY DEF MetricsInv, MetricsTypeOK
<1> DEFINE none == {}
           go == [at |-> "next", todo |-> pull[p].todo, clock |-> pull[p].clock, on |-> none]
           r == IF pull[p].todo = {} THEN NoPull ELSE go
<1>2. [pull[p] EXCEPT !.at = "next", !.on = none] = go
  BY <1>1, PullRows
<1>3. pull' = [pull EXCEPT ![p] = r]
  BY <1>2 DEF Onward, Put
<1>4. go \in Pulls /\ NoPull \in Pulls
  BY <1>1, PullRows, RowsArePulls DEF Pulls
<1>5. PullSound(go) /\ PullSound(NoPull)
  BY DEF PullSound, NoPull
<1>6. \A u : (InHandOf(go, u) <=> u \in pull[p].todo) /\ ~InHandOf(NoPull, u) /\ go.clock = pull[p].clock
  BY DEF InHandOf, NoPull
<1>7. r \in Pulls /\ PullSound(r)
      /\ \A u : (InHandOf(r, u) <=> u \in pull[p].todo) /\ (InHandOf(r, u) => r.clock = pull[p].clock)
  BY <1>4, <1>5, <1>6
<1> HIDE DEF r
<1> QED
  BY <1>3, <1>7

LEMMA FetchedPays ==
  ASSUME MetricsInv, NEW p \in Pullers, Fetched(p)
  PROVE  MetricsInv'
<1>1. PICK t \in pull[p].on :
        /\ pull[p].at = "fetch"
        /\ taken' = [taken EXCEPT ![t] = @ + 1]
        /\ SetCursor(t, NextMetricsAt(pull[p].clock[t]))
        /\ Onward(p)
        /\ UNCHANGED <<age, active, pulls>>
  BY DEF Fetched
<1>2. PICK r \in Pulls :
        /\ pull' = [pull EXCEPT ![p] = r] /\ PullSound(r)
        /\ \A u : (InHandOf(r, u) <=> u \in pull[p].todo) /\ (InHandOf(r, u) => r.clock = pull[p].clock)
  BY <1>1, OnwardRow
<1>3. /\ MetricsTypeOK /\ pull[p] \in Pulls /\ PullSound(pull[p])
      /\ pull[p].on \in SUBSET Targets /\ pull[p].clock \in [Targets -> Nat]
  BY <1>1, PullRows DEF MetricsInv, MetricsTypeOK
<1>4. t \in Targets /\ InHandOf(pull[p], t) /\ ~InHandOf(r, t)
  BY <1>2, <1>3 DEF InHandOf, PullSound
<1>5. PICK c : c = NextMetricsAt(pull[p].clock[t])
  OBVIOUS
<1>6. c \in Cursors /\ ((c.kind = "milestone" /\ c.k = pull[p].clock[t] + 1) \/ c.kind = "null")
  BY <1>3, <1>4, <1>5 DEF NextMetricsAt, At, Null, Cursors
<1>7. cursor' = [cursor EXCEPT ![t] = c]
  BY <1>1, <1>5 DEF SetCursor
<1>8. MetricsTypeOK'
  <2>1. taken' \in [Targets -> Nat] /\ cursor' \in [Targets -> Cursors] /\ pull' \in [Pullers -> Pulls]
    BY <1>1, <1>2, <1>3, <1>4, <1>6, <1>7 DEF MetricsTypeOK
  <2> QED
    BY <1>1, <1>3, <2>1 DEF MetricsTypeOK
<1>9. ASSUME NEW q \in Pullers PROVE PullSound(pull'[q])
  BY <1>2, <1>3 DEF MetricsInv, MetricsTypeOK
<1>10. ASSUME NEW u \in Targets PROVE PaidFor(u)'
  <2>1. InHandOf(r, u) => InHandOf(pull[p], u) /\ r.clock = pull[p].clock
    BY <1>2 DEF InHandOf
  <2>2. /\ taken[u] \in Nat /\ age[u] \in Nat /\ pulls.slips \in Nat /\ pulls.marks[u] \in Nat
        /\ PaidFor(u) /\ Owed(u) \in Nat /\ Owed(u)' \in Nat
    BY <1>3, OwedNat DEF MetricsInv, MetricsTypeOK
  <2>3. CASE u # t
    <3>1. cursor'[u] = cursor[u] /\ taken'[u] = taken[u]
      BY <1>1, <1>3, <1>7, <2>3 DEF MetricsTypeOK
    <3>2. Owed(u)' <= Owed(u)
      BY <1>1, <1>2, <2>1, <3>1, StepOwes
    <3> QED
      BY <1>1, <2>2, <3>1, <3>2 DEF PaidFor
  <2>4. CASE u = t
    <3>1. p \in Hands(u) /\ Hands(u)' = Hands(u) \ {p} /\ Behind(u)' = Behind(u) \ {p}
      BY <1>1, <1>2, <1>4, <2>1, <2>4, PutDown
    <3>2. cursor'[u] = c /\ taken'[u] = taken[u] + 1
      BY <1>1, <1>3, <1>7, <2>4 DEF MetricsTypeOK
    <3>3. p \in Behind(u) \/ ~Waits(u)'
      <4>1. SUFFICES ASSUME ~(pull[p].clock[u] < age[u]) PROVE ~Waits(u)'
        BY <3>1 DEF Behind
      <4>2. pull[p].clock[u] \in Nat /\ age'[u] = age[u]
        BY <1>1, <1>3
      <4> QED
        BY <1>6, <2>2, <2>4, <3>2, <4>1, <4>2 DEF Waits
    <3>4. Owed(u)' + 1 <= Owed(u)
      BY <3>1, <3>3, OwedDropped
    <3> QED
      BY <1>1, <2>2, <3>2, <3>4 DEF PaidFor
  <2> QED
    BY <2>3, <2>4
<1> QED
  BY <1>8, <1>9, <1>10 DEF MetricsInv

LEMMA FetchFailsPays ==
  ASSUME MetricsInv, NEW p \in Pullers, FetchFails(p)
  PROVE  MetricsInv'
<1>1. PICK t \in pull[p].on :
        /\ pull[p].at = "fetch"
        /\ \/ UNCHANGED <<taken, pulls>>
           \/ Slip /\ taken' = [taken EXCEPT ![t] = @ + 1]
        /\ SetCursor(t, Later)
        /\ Onward(p)
        /\ UNCHANGED <<age, active>>
  BY DEF FetchFails
<1>2. PICK r \in Pulls :
        /\ pull' = [pull EXCEPT ![p] = r] /\ PullSound(r)
        /\ \A u : (InHandOf(r, u) <=> u \in pull[p].todo) /\ (InHandOf(r, u) => r.clock = pull[p].clock)
  BY <1>1, OnwardRow
<1>3. /\ MetricsTypeOK /\ pull[p] \in Pulls /\ PullSound(pull[p]) /\ pull[p].on \in SUBSET Targets
  BY <1>1, PullRows DEF MetricsInv, MetricsTypeOK
<1>4. t \in Targets /\ InHandOf(pull[p], t) /\ ~InHandOf(r, t)
  BY <1>2, <1>3 DEF InHandOf, PullSound
<1>5. /\ cursor' \in [Targets -> Cursors] /\ \A u \in Targets : u # t => cursor'[u] = cursor[u]
  <2>1. Later \in Cursors
    BY DEF Later, Cursors
  <2> QED
    BY <1>1, <1>3, <1>4, <2>1 DEF SetCursor, MetricsTypeOK
<1>6. ASSUME NEW u \in Targets
      PROVE  /\ InHandOf(r, u) => InHandOf(pull[p], u) /\ r.clock = pull[p].clock
             /\ cursor'[u] = cursor[u] \/ (InHandOf(pull[p], u) /\ ~InHandOf(r, u))
  BY <1>2, <1>4, <1>5 DEF InHandOf
<1>7. CASE UNCHANGED <<taken, pulls>>
  BY <1>1, <1>2, <1>5, <1>6, <1>7, StepPays
<1>8. CASE Slip /\ taken' = [taken EXCEPT ![t] = @ + 1]
  <2>1. pulls' \in [slips : Nat, marks : [Targets -> Nat]] /\ pulls'.slips = pulls.slips + 1
        /\ pulls'.marks = pulls.marks
    BY <1>3, <1>8 DEF Slip, MetricsTypeOK
  <2>2. taken' \in [Targets -> Nat] /\ \A u \in Targets : taken'[u] <= taken[u] + 1
    BY <1>3, <1>4, <1>8 DEF MetricsTypeOK
  <2>3. MetricsTypeOK'
    <3>1. pull' \in [Pullers -> Pulls]
      BY <1>2, <1>3 DEF MetricsTypeOK
    <3> QED
      BY <1>1, <1>3, <1>5, <2>1, <2>2, <3>1 DEF MetricsTypeOK
  <2>4. ASSUME NEW q \in Pullers PROVE PullSound(pull'[q])
    BY <1>2, <1>3 DEF MetricsInv, MetricsTypeOK
  <2>5. ASSUME NEW u \in Targets PROVE PaidFor(u)'
    <3>1. Owed(u)' <= Owed(u)
      BY <1>1, <1>2, <1>6, StepOwes
    <3>2. /\ taken[u] \in Nat /\ age[u] \in Nat /\ pulls.slips \in Nat /\ pulls.marks[u] \in Nat
          /\ taken'[u] \in Nat /\ PaidFor(u) /\ Owed(u) \in Nat /\ Owed(u)' \in Nat
      BY <1>3, <2>2, OwedNat DEF MetricsInv, MetricsTypeOK
    <3> QED
      BY <1>1, <2>1, <2>2, <3>1, <3>2 DEF PaidFor
  <2> QED
    BY <2>3, <2>4, <2>5 DEF MetricsInv
<1> QED
  BY <1>1, <1>7, <1>8

-----------------------------------------------------------------------------
(* Leases, milestones and backfills: no tick moves.                         *)

(* A target that comes to wait owes one pull more.                          *)
LEMMA WaitsOnly ==
  ASSUME MetricsInv, NEW t \in Targets, UNCHANGED <<pull, age>>
  PROVE  /\ Owed(t)' <= Owed(t) + 1
         /\ (Waits(t)' => Waits(t)) => Owed(t)' <= Owed(t)
<1>1. Hands(t)' = Hands(t) /\ Behind(t)' = Behind(t)
  BY DEF Hands, Behind, InHandOf
<1>2. Cardinality(Hands(t)) \in Nat /\ Cardinality(Behind(t)) \in Nat
  BY HandsCount
<1> QED
  BY <1>1, <1>2 DEF Owed

LEMMA ComesDuePays ==
  ASSUME MetricsInv, NEW t \in Targets, ComesDue(t)
  PROVE  MetricsInv'
<1>1. /\ cursor[t].kind \in {"held", "later"} /\ cursor' = [cursor EXCEPT ![t] = Now]
      /\ IF cursor[t].kind = "held" /\ InHand(t) THEN Slip ELSE UNCHANGED pulls
      /\ UNCHANGED <<age, active, pull, taken>>
  BY DEF ComesDue, SetCursor
<1>2. MetricsTypeOK
  BY DEF MetricsInv
<1>3. /\ pulls' \in [slips : Nat, marks : [Targets -> Nat]] /\ pulls'.marks = pulls.marks
      /\ pulls'.slips \in {pulls.slips, pulls.slips + 1}
      /\ (cursor[t].kind = "held" /\ InHand(t) => pulls'.slips = pulls.slips + 1)
  BY <1>1, <1>2 DEF Slip, MetricsTypeOK
<1>4. cursor' \in [Targets -> Cursors] /\ \A u \in Targets : u # t => cursor'[u] = cursor[u]
  BY <1>1, <1>2 DEF MetricsTypeOK, Now, Cursors
<1>5. MetricsTypeOK'
  BY <1>1, <1>2, <1>3, <1>4 DEF MetricsTypeOK
<1>6. ASSUME NEW u \in Targets PROVE PaidFor(u)'
  <2>1. /\ taken[u] \in Nat /\ age[u] \in Nat /\ pulls.slips \in Nat /\ pulls.marks[u] \in Nat
        /\ PaidFor(u) /\ Owed(u) \in Nat /\ Owed(u)' \in Nat
    BY <1>2, OwedNat DEF MetricsInv, MetricsTypeOK
  <2>2. CASE u = t /\ cursor[t].kind = "held" /\ InHand(t)
    <3>1. Owed(u)' <= Owed(u) + 1
      BY <1>1, WaitsOnly
    <3> QED
      BY <1>1, <1>3, <2>1, <2>2, <3>1 DEF PaidFor
  <2>3. CASE ~(u = t /\ cursor[t].kind = "held" /\ InHand(t))
    <3>1. Hands(u)' = Hands(u)
      BY <1>1 DEF Hands, InHandOf
    <3>2. ~InHand(t) => Hands(t) = {}
      BY DEF InHand, Hands, InHandOf
    <3>3. Waits(u)' => Waits(u)
      BY <1>1, <1>4, <2>3, <3>1, <3>2 DEF Waits
    <3>4. Owed(u)' <= Owed(u)
      BY <1>1, <3>3, WaitsOnly
    <3> QED
      BY <1>1, <1>3, <2>1, <3>4 DEF PaidFor
  <2> QED
    BY <2>2, <2>3
<1> QED
  BY <1>1, <1>5, <1>6 DEF MetricsInv

LEMMA BackfillPays ==
  ASSUME MetricsInv, BackfillMetrics
  PROVE  MetricsInv'
<1>1. PICK S : S = {t \in active : cursor[t] = Null}
  OBVIOUS
<1> DEFINE m == [t \in Targets |-> IF t \in S THEN pulls.marks[t] + 1 ELSE pulls.marks[t]]
<1>2. /\ cursor' = [t \in Targets |-> IF t \in S THEN Later ELSE cursor[t]]
      /\ pulls' = [pulls EXCEPT !.marks = m]
      /\ UNCHANGED <<age, active, pull, taken>>
  BY <1>1 DEF BackfillMetrics
<1>3. MetricsTypeOK /\ m \in [Targets -> Nat]
      /\ \A t \in Targets : m[t] = IF t \in S THEN pulls.marks[t] + 1 ELSE pulls.marks[t]
  BY DEF MetricsInv, MetricsTypeOK
<1> HIDE DEF m
<1>4. pulls' = [slips |-> pulls.slips, marks |-> m]
  BY <1>2, <1>3 DEF MetricsTypeOK
<1>5. cursor' \in [Targets -> Cursors]
  BY <1>2, <1>3 DEF MetricsTypeOK, Later, Cursors
<1>6. MetricsTypeOK'
  BY <1>2, <1>3, <1>4, <1>5 DEF MetricsTypeOK
<1>7. ASSUME NEW u \in Targets PROVE PaidFor(u)'
  <2>1. /\ taken[u] \in Nat /\ age[u] \in Nat /\ pulls.slips \in Nat /\ pulls.marks[u] \in Nat
        /\ PaidFor(u) /\ Owed(u) \in Nat /\ Owed(u)' \in Nat
    BY <1>3, OwedNat DEF MetricsInv, MetricsTypeOK
  <2>2. CASE u \in S
    <3>1. Owed(u)' <= Owed(u) + 1
      BY <1>2, WaitsOnly
    <3> QED
      BY <1>2, <1>3, <1>4, <2>1, <2>2, <3>1 DEF PaidFor
  <2>3. CASE u \notin S
    <3>1. Hands(u)' = Hands(u)
      BY <1>2 DEF Hands, InHandOf
    <3>2. Waits(u)' => Waits(u)
      BY <1>2, <2>3, <3>1 DEF Waits
    <3>3. Owed(u)' <= Owed(u)
      BY <1>2, <3>2, WaitsOnly
    <3> QED
      BY <1>2, <1>3, <1>4, <2>1, <2>3, <3>3 DEF PaidFor
  <2> QED
    BY <2>2, <2>3
<1> QED
  BY <1>2, <1>6, <1>7 DEF MetricsInv

(* A milestone passes: a tick with the target in hand falls behind, or the  *)
(* target comes due.                                                        *)
LEMMA MilestonePays ==
  ASSUME MetricsInv, NEW t \in Targets, MilestonePasses(t)
  PROVE  MetricsInv'
<1>1. /\ ~Overrun(t) /\ age' = [age EXCEPT ![t] = @ + 1]
      /\ UNCHANGED <<cursor, active, pull, taken, pulls>>
  BY DEF MilestonePasses
<1>2. MetricsTypeOK
  BY DEF MetricsInv
<1>3. MetricsTypeOK' /\ age'[t] = age[t] + 1 /\ \A u \in Targets \ {t} : age'[u] = age[u]
  BY <1>1, <1>2 DEF MetricsTypeOK
<1>4. ASSUME NEW u \in Targets PROVE PaidFor(u)'
  <2>1. /\ taken[u] \in Nat /\ age[u] \in Nat /\ pulls.slips \in Nat /\ pulls.marks[u] \in Nat
        /\ PaidFor(u) /\ Owed(u) \in Nat /\ Owed(u)' \in Nat
    BY <1>2, OwedNat DEF MetricsInv, MetricsTypeOK
  <2>2. Hands(u)' = Hands(u)
    BY <1>1 DEF Hands, InHandOf
  <2>3. CASE u # t
    <3>1. Behind(u)' = Behind(u)
      BY <1>1, <1>3, <2>2, <2>3 DEF Behind
    <3>2. Waits(u)' => Waits(u)
      BY <1>1, <1>3, <2>2, <2>3 DEF Waits
    <3>3. Owed(u)' <= Owed(u)
      BY <2>2, <3>1, <3>2, OwedKept
    <3> QED
      BY <1>1, <1>3, <2>1, <2>3, <3>3 DEF PaidFor
  <2>4. CASE u = t /\ Hands(t) = {}
    <3>1. Behind(t) = {} /\ Behind(t)' = {}
      BY <2>2, <2>4 DEF Behind
    <3>2. Owed(u)' <= Owed(u) + 1
      BY <2>2, <2>4, <3>1, FS_EmptySet DEF Owed
    <3> QED
      BY <1>1, <1>3, <2>1, <2>4, <3>2 DEF PaidFor
  <2>5. CASE u = t /\ Hands(t) # {}
    <3>1. PICK p \in Pullers : Hands(t) = {p}
      BY <1>1, <2>5 DEF Overrun, Hands, InHandOf
    <3>2. cursor[t] = Held
      BY <1>1, <2>5 DEF Overrun, InHand, Hands, InHandOf
    <3>3. ~Waits(t)'
      BY <1>1, <2>2, <2>5, <3>2 DEF Waits, Held
    <3>4. Behind(t)' \subseteq {p}
      BY <2>2, <2>5, <3>1 DEF Behind
    <3>5. Cardinality(Behind(t)') <= 1 /\ Cardinality(Behind(t)') \in Nat
      <4>1. IsFiniteSet({p}) /\ Cardinality({p}) = 1
        BY FS_Singleton
      <4>2. IsFiniteSet(Behind(t)') /\ Cardinality(Behind(t)') <= Cardinality({p})
        BY <3>4, <4>1, FS_Subset
      <4> QED
        BY <4>1, <4>2, FS_CardinalityType
    <3>6. Owed(u)' <= Owed(u) + 1
      BY <2>2, <2>5, <3>3, <3>5, HandsCount DEF Owed
    <3> QED
      BY <1>1, <1>3, <2>1, <2>5, <3>6 DEF PaidFor
  <2> QED
    BY <2>3, <2>4, <2>5
<1> QED
  BY <1>1, <1>3, <1>4 DEF MetricsInv

LEMMA MetricsStutter ==
  ASSUME MetricsInv, UNCHANGED <<age, cursor, pull, taken, pulls>>, active' \subseteq Targets
  PROVE  MetricsInv'
<1>1. MetricsTypeOK'
  BY DEF MetricsInv, MetricsTypeOK
<1>2. ASSUME NEW t \in Targets PROVE PaidFor(t)'
  BY DEF MetricsInv, PaidFor, Owed, Hands, Behind, Waits, InHandOf
<1> QED
  BY <1>1, <1>2 DEF MetricsInv

-----------------------------------------------------------------------------
(* Exports: the one that claims the row builds the file.                    *)
ExportRows == [st : {"none", "pending", "processing", "ready", "failed"}, built : Nat]
Builders == {[at |-> "idle"]} \cup [at : {"claim", "build"}, e : Exports]
ExportInv ==
  /\ export \in [Exports -> ExportRows]
  /\ building \in [Exporters -> Builders]
  /\ \A e \in Exports : export[e].built = IF export[e].st = "ready" THEN 1 ELSE 0
  /\ \A x \in Exporters : building[x].at = "build" =>
       /\ export[building[x].e].st = "processing"
       /\ \A y \in Exporters : building[y].at = "build" /\ building[y].e = building[x].e => x = y

LEMMA ExportRow ==
  ASSUME NEW r \in ExportRows, NEW st
  PROVE  [r EXCEPT !.st = st] = [st |-> st, built |-> r.built]
BY DEF ExportRows

LEMMA InitExports == AnalyticsInit => ExportInv
<1> SUFFICES ASSUME AnalyticsInit PROVE ExportInv
  OBVIOUS
<1>1. PICK r : r = [st |-> "none", built |-> 0]
  OBVIOUS
<1>2. PICK b : b = [at |-> "idle"]
  OBVIOUS
<1>3. r \in ExportRows /\ r.st = "none" /\ r.built = 0 /\ b \in Builders /\ b.at = "idle"
  BY <1>1, <1>2 DEF ExportRows, Builders
<1>4. export = [e \in Exports |-> r] /\ building = [x \in Exporters |-> b]
  BY <1>1, <1>2 DEF AnalyticsInit
<1> QED
  BY <1>3, <1>4 DEF ExportInv

LEMMA ExportKeeps ==
  ASSUME ExportInv, ExportNext
  PROVE  ExportInv'
<1>0. /\ export \in [Exports -> ExportRows] /\ building \in [Exporters -> Builders]
      /\ \A e \in Exports : export[e].built = IF export[e].st = "ready" THEN 1 ELSE 0
      /\ \A e \in Exports : export[e] = [st |-> export[e].st, built |-> export[e].built]
  BY DEF ExportInv, ExportRows
<1>1. PICK idle : idle = [at |-> "idle"]
  OBVIOUS
<1>2. idle \in Builders /\ idle.at = "idle"
  BY <1>1 DEF Builders
<1>3. ASSUME NEW e \in Exports, CreateExport(e) PROVE ExportInv'
  <2>1. PICK r : r = [export[e] EXCEPT !.st = "pending"]
    OBVIOUS
  <2>2. r = [st |-> "pending", built |-> export[e].built]
    BY <1>0, <2>1, ExportRow
  <2>3. r \in ExportRows /\ r.st = "pending" /\ r.built = 0
    BY <1>0, <1>3, <2>2 DEF ExportRows, CreateExport
  <2>4. export' = [export EXCEPT ![e] = r] /\ building' = building /\ export[e].st = "none"
    BY <1>3, <2>1, Zenon DEF CreateExport, Becomes
  <2> QED
    BY <1>0, <2>3, <2>4 DEF ExportInv
<1>4. ASSUME NEW x \in Exporters, NEW e \in Exports, ReadPending(x, e) PROVE ExportInv'
  <2>1. PICK b : b = [at |-> "claim", e |-> e]
    OBVIOUS
  <2>2. b \in Builders /\ b.at = "claim"
    BY <2>1 DEF Builders
  <2>3. building' = [building EXCEPT ![x] = b] /\ export' = export
    BY <1>4, <2>1 DEF ReadPending, Step
  <2> QED
    BY <1>0, <2>2, <2>3 DEF ExportInv
<1>5. ASSUME NEW x \in Exporters, CrashExport(x) PROVE ExportInv'
  <2>1. building' = [building EXCEPT ![x] = idle] /\ export' = export
    BY <1>1, <1>5 DEF CrashExport, Step
  <2> QED
    BY <1>0, <1>2, <2>1 DEF ExportInv
<1>6. ASSUME NEW x \in Exporters, ClaimExport(x) PROVE ExportInv'
  <2>1. PICK e : e = building[x].e
    OBVIOUS
  <2>2. building[x].at = "claim" /\ building[x] \in [at : {"claim", "build"}, e : Exports] /\ e \in Exports
    BY <1>0, <1>6, <2>1 DEF ClaimExport, Builders
  <2>3. CASE export[e].st # "pending"
    <3>1. building' = [building EXCEPT ![x] = idle] /\ export' = export
      BY <1>1, <1>6, <2>1, <2>3 DEF ClaimExport, Step
    <3> QED
      BY <1>0, <1>2, <3>1 DEF ExportInv
  <2>4. CASE export[e].st = "pending"
    <3>1. PICK r : r = [export[e] EXCEPT !.st = "processing"]
      OBVIOUS
    <3>2. r = [st |-> "processing", built |-> export[e].built]
      BY <1>0, <2>2, <3>1, ExportRow
    <3>3. r \in ExportRows /\ r.st = "processing" /\ r.built = 0
      BY <1>0, <2>2, <2>4, <3>2 DEF ExportRows
    <3>4. PICK b : b = [building[x] EXCEPT !.at = "build"]
      OBVIOUS
    <3>5. b = [at |-> "build", e |-> e]
      BY <2>1, <2>2, <3>4
    <3>6. b \in Builders /\ b.at = "build" /\ b.e = e
      BY <2>2, <3>5 DEF Builders
    <3>7. export' = [export EXCEPT ![e] = r] /\ building' = [building EXCEPT ![x] = b]
      BY <1>6, <2>1, <2>4, <3>1, <3>4, Zenon DEF ClaimExport, Becomes, Step
    <3>8. ASSUME NEW y \in Exporters, building[y].at = "build" PROVE building[y].e # e
      BY <2>4, <3>8 DEF ExportInv
    <3>9. ASSUME NEW y \in Exporters, building'[y].at = "build"
          PROVE  /\ export'[building'[y].e].st = "processing"
                 /\ \A z \in Exporters :
                      building'[z].at = "build" /\ building'[z].e = building'[y].e => y = z
      <4>1. CASE y = x
        BY <1>0, <2>2, <3>3, <3>6, <3>7, <3>8, <4>1
      <4>2. CASE y # x
        <5>1. building'[y] = building[y] /\ building[y].e # e /\ building[y].e \in Exports
          BY <1>0, <3>7, <3>8, <3>9, <4>2 DEF Builders
        <5>2. export'[building[y].e] = export[building[y].e]
          BY <1>0, <3>7, <5>1
        <5>3. \A z \in Exporters : z # x => building'[z] = building[z]
          BY <1>0, <3>7
        <5>4. building'[x].e = e
          BY <1>0, <3>6, <3>7
        <5> QED
          BY <3>9, <5>1, <5>2, <5>3, <5>4 DEF ExportInv
      <4> QED
        BY <4>1, <4>2
    <3>10. /\ export' \in [Exports -> ExportRows] /\ building' \in [Exporters -> Builders]
           /\ \A a \in Exports : export'[a].built = IF export'[a].st = "ready" THEN 1 ELSE 0
      BY <1>0, <2>2, <3>3, <3>6, <3>7
    <3> QED
      BY <3>9, <3>10 DEF ExportInv
  <2> QED
    BY <2>3, <2>4
<1>7. ASSUME NEW x \in Exporters, BuildExport(x) PROVE ExportInv'
  <2>1. PICK e : e = building[x].e
    OBVIOUS
  <2>2. building[x].at = "build" /\ e \in Exports /\ export[e].st = "processing" /\ export[e].built = 0
    BY <1>0, <1>7, <2>1 DEF BuildExport, Builders, ExportInv
  <2>3. PICK r \in ExportRows : /\ export' = [export EXCEPT ![e] = r] /\ r.st \in {"ready", "failed"}
                               /\ r.built = IF r.st = "ready" THEN 1 ELSE 0
    <3>1. CASE export' = [export EXCEPT ![e] = [st |-> "ready", built |-> @.built + 1]]
      <4>1. export' = [export EXCEPT ![e] = [st |-> "ready", built |-> export[e].built + 1]]
        BY <3>1, Zenon
      <4>2. [st |-> "ready", built |-> export[e].built + 1] = [st |-> "ready", built |-> 1]
        BY <2>2
      <4>3. [st |-> "ready", built |-> 1] \in ExportRows
        BY DEF ExportRows
      <4> QED
        BY <4>1, <4>2, <4>3
    <3>2. CASE Becomes(e, "failed")
      <4>1. PICK r : r = [export[e] EXCEPT !.st = "failed"]
        OBVIOUS
      <4>2. r = [st |-> "failed", built |-> export[e].built]
        BY <1>0, <2>2, <4>1, ExportRow
      <4>3. r \in ExportRows /\ r.st = "failed" /\ r.built = 0
        BY <2>2, <4>2 DEF ExportRows
      <4>4. export' = [export EXCEPT ![e] = r]
        BY <3>2, <4>1, Zenon DEF Becomes
      <4> QED
        BY <4>3, <4>4
    <3> QED
      BY <1>7, <2>1, <3>1, <3>2, Zenon DEF BuildExport
  <2>4. building' = [building EXCEPT ![x] = idle]
    BY <1>1, <1>7 DEF BuildExport, Step
  <2>5. /\ export' \in [Exports -> ExportRows] /\ building' \in [Exporters -> Builders]
        /\ \A a \in Exports : export'[a].built = IF export'[a].st = "ready" THEN 1 ELSE 0
    BY <1>0, <1>2, <2>2, <2>3, <2>4
  <2>6. ASSUME NEW y \in Exporters, building'[y].at = "build"
        PROVE  /\ export'[building'[y].e].st = "processing"
               /\ \A z \in Exporters :
                    building'[z].at = "build" /\ building'[z].e = building'[y].e => y = z
    <3>1. y # x /\ building'[y] = building[y]
      BY <1>0, <1>2, <2>4, <2>6
    <3>2. building[y].e # e
      BY <2>1, <2>2, <2>6, <3>1 DEF ExportInv
    <3>3. building[y].e \in Exports
      BY <1>0, <2>6, <3>1 DEF Builders
    <3>4. export'[building[y].e] = export[building[y].e]
      BY <1>0, <2>3, <3>2, <3>3
    <3>5. \A z \in Exporters : building'[z].at = "build" => building'[z] = building[z]
      BY <1>0, <1>2, <2>4
    <3> QED
      BY <2>6, <3>1, <3>4, <3>5 DEF ExportInv
  <2> QED
    BY <2>5, <2>6 DEF ExportInv
<1> QED
  BY <1>3, <1>4, <1>5, <1>6, <1>7 DEF ExportNext

LEMMA NextAnalytics ==
  ASSUME MetricsInv, ExportInv, [AnalyticsNext]_analyticsVars
  PROVE  MetricsInv' /\ ExportInv'
<1>1. ASSUME UNCHANGED metricsVars PROVE MetricsInv'
  <2>1. active' \subseteq Targets
    BY <1>1 DEF metricsVars, MetricsInv, MetricsTypeOK
  <2> QED
    BY <1>1, <2>1, MetricsStutter DEF metricsVars
<1>2. ASSUME UNCHANGED exportVars PROVE ExportInv'
  BY <1>2 DEF exportVars, ExportInv
<1>3. ASSUME MetricsNext PROVE MetricsInv'
  <2>1. ASSUME NEW p \in Pullers, Claim(p) \/ Turn(p) \/ Fetched(p) \/ FetchFails(p) \/ CrashPull(p)
        PROVE  MetricsInv'
    BY <2>1, ClaimPays, TurnPays, FetchedPays, FetchFailsPays, CrashPays
  <2>2. ASSUME NEW t \in Targets, ComesDue(t) \/ MilestonePasses(t) PROVE MetricsInv'
    BY <2>2, ComesDuePays, MilestonePays
  <2>3. ASSUME NEW t \in Targets, AccountTurns(t) PROVE MetricsInv'
    <3>1. active' \subseteq Targets
      BY <2>3 DEF AccountTurns, MetricsInv, MetricsTypeOK
    <3> QED
      BY <2>3, <3>1, MetricsStutter DEF AccountTurns
  <2>4. ASSUME BackfillMetrics PROVE MetricsInv'
    BY <2>4, BackfillPays
  <2> QED
    BY <1>3, <2>1, <2>2, <2>3, <2>4 DEF MetricsNext
<1>4. ASSUME ExportNext PROVE ExportInv'
  BY <1>4, ExportKeeps
<1> QED
  BY <1>1, <1>2, <1>3, <1>4 DEF AnalyticsNext, analyticsVars

(* Whatever ticks overlap, die or fall behind, for any number of them, of   *)
(* targets and of milestones, no target is pulled more often than its       *)
(* milestones, backfills and slips account for, and an export that several  *)
(* ticks read is built by one of them (metricsSnapshotTick and              *)
(* processExportsTick).                                                     *)
THEOREM PullsAreAccountedFor == AnalyticsSpec => []PulledPerMilestone
<1>1. AnalyticsInit => MetricsInv /\ ExportInv
  BY InitMetrics, InitExports
<1>2. MetricsInv /\ ExportInv /\ [AnalyticsNext]_analyticsVars => (MetricsInv /\ ExportInv)'
  BY NextAnalytics
<1>3. MetricsInv /\ ExportInv => PulledPerMilestone
  <2> SUFFICES ASSUME MetricsInv, ExportInv PROVE PulledPerMilestone
    OBVIOUS
  <2>1. ASSUME NEW t \in Targets PROVE taken[t] <= age[t] + pulls.slips + pulls.marks[t]
    <3>1. /\ taken[t] \in Nat /\ age[t] \in Nat /\ pulls.slips \in Nat /\ pulls.marks[t] \in Nat
          /\ PaidFor(t) /\ Owed(t) \in Nat
      BY OwedNat DEF MetricsInv, MetricsTypeOK
    <3> QED
      BY <3>1 DEF PaidFor
  <2>2. ASSUME NEW e \in Exports PROVE export[e].built <= 1
    BY DEF ExportInv
  <2> QED
    BY <2>1, <2>2 DEF PulledPerMilestone
<1> QED
  BY <1>1, <1>2, <1>3, PTL DEF AnalyticsSpec

-----------------------------------------------------------------------------
(* The queue: the place of a day among others.                              *)

LEMMA BeforeCounts ==
  ASSUME NEW D \in SUBSET Nat, IsFiniteSet(D), NEW d
  PROVE  IsFiniteSet({e \in D : e < d}) /\ Before(D, d) \in Nat
<1>1. {e \in D : e < d} \subseteq D
  OBVIOUS
<1>2. IsFiniteSet({e \in D : e < d})
  BY <1>1, FS_Subset
<1> QED
  BY <1>2, FS_CardinalityType DEF Before

LEMMA BeforeGrows ==
  ASSUME NEW D \in SUBSET Nat, IsFiniteSet(D), NEW d \in D, NEW e \in D, d < e
  PROVE  Before(D, d) < Before(D, e)
<1> DEFINE A == {x \in D : x < d}
           B == {x \in D : x < e}
<1>1. IsFiniteSet(A) /\ IsFiniteSet(B) /\ Before(D, d) = Cardinality(A) /\ Before(D, e) = Cardinality(B)
  BY BeforeCounts DEF Before
<1>2. A \subseteq B /\ A # B
  <2>1. d \in Nat /\ e \in Nat
    OBVIOUS
  <2>2. d \in B /\ d \notin A
    BY <2>1
  <2>3. ASSUME NEW x \in A PROVE x \in B
    BY <2>1
  <2> HIDE DEF A, B
  <2> QED
    BY <2>2, <2>3
<1> HIDE DEF A, B
<1>3. Cardinality(A) <= Cardinality(B) /\ (Cardinality(A) = Cardinality(B) => A = B)
  BY <1>1, <1>2, FS_Subset
<1>4. Cardinality(A) \in Nat
  BY <1>1, FS_CardinalityType
<1>5. Cardinality(B) \in Nat
  BY <1>1, FS_CardinalityType
<1> QED
  BY <1>1, <1>2, <1>3, <1>4, <1>5

(* A day whose number is taken is followed back to the day of any smaller   *)
(* number.                                                                  *)
LEMMA PlaceExists ==
  ASSUME NEW D \in SUBSET Nat, IsFiniteSet(D), NEW d \in D, NEW i \in Nat, i <= Before(D, d)
  PROVE  \E e \in D : Before(D, e) = i
<1> DEFINE T == {e \in D : i <= Before(D, e)}
<1>1. PICK m \in T : \A e \in T : m <= e
  <2>1. T \in SUBSET Nat /\ T # {}
    OBVIOUS
  <2> HIDE DEF T
  <2> QED
    BY <2>1, LeastOne
<1>2. m \in D /\ m \in Nat /\ Before(D, m) \in Nat /\ i <= Before(D, m)
  BY BeforeCounts
<1>3. SUFFICES ASSUME i < Before(D, m) PROVE FALSE
  BY <1>2
<1> DEFINE P == {e \in D : e < m}
           G == {g \in Nat : m - g \in P}
<1>4. P # {}
  <2>1. Before(D, m) = Cardinality(P)
    BY DEF Before
  <2>2. Cardinality({}) = 0
    BY FS_EmptySet
  <2> HIDE DEF P
  <2> QED
    BY <1>2, <1>3, <2>1, <2>2
<1>5. PICK g \in G : \A h \in G : g <= h
  <2>1. PICK e \in P : TRUE
    BY <1>4
  <2>2. m - e \in Nat /\ m - (m - e) = e
    BY <1>2, <2>1
  <2>3. m - e \in G
    BY <2>1, <2>2
  <2>4. G \in SUBSET Nat /\ G # {}
    BY <2>3
  <2> HIDE DEF G
  <2> QED
    BY <2>4, LeastOne
<1>6. PICK p : p = m - g
  OBVIOUS
<1>7. p \in D /\ p < m /\ p \in Nat
  BY <1>5, <1>6
<1>8. ASSUME NEW e \in P PROVE e <= p
  <2>1. e \in Nat /\ m - e \in Nat /\ m - (m - e) = e
    BY <1>2
  <2>2. m - e \in G
    BY <2>1
  <2>3. g <= m - e
    BY <1>5, <2>2
  <2> QED
    BY <1>2, <1>5, <1>6, <2>1, <2>3
<1>9. P = {e \in D : e < p} \cup {p}
  <2>1. ASSUME NEW e \in P PROVE e < p \/ e = p
    BY <1>7, <1>8
  <2>2. ASSUME NEW e \in D, e < p \/ e = p PROVE e < m
    BY <1>2, <1>7, <2>2
  <2> QED
    BY <1>7, <2>1, <2>2
<1>10. Before(D, m) = Before(D, p) + 1
  <2>1. IsFiniteSet({e \in D : e < p}) /\ p \notin {e \in D : e < p}
    BY <1>7, BeforeCounts
  <2>2. Cardinality({e \in D : e < p} \cup {p}) = Cardinality({e \in D : e < p}) + 1
    BY <2>1, FS_AddElement
  <2> QED
    BY <1>9, <2>2 DEF Before
<1>11. Before(D, p) \in Nat
  BY BeforeCounts
<1>12. p \in T
  BY <1>2, <1>3, <1>7, <1>10, <1>11
<1> QED
  BY <1>1, <1>2, <1>7, <1>12

-----------------------------------------------------------------------------
(* The rows of the queue.                                                   *)
QueueRows == [status : {"draft", "scheduled", "published", "failed"}, at : Nat,
              state : {"draft", "scheduled", "publishing", "published", "failed", "canceled"},
              due : Nat, pick : Nat]
SlotsTypeOK == today \in Nat /\ queued \in [QueuePosts -> QueueRows]

LEMMA QueueRow ==
  ASSUME NEW r \in QueueRows, NEW a
  PROVE  /\ [r EXCEPT !.at = a] = [status |-> r.status, at |-> a, state |-> r.state, due |-> r.due, pick |-> r.pick]
         /\ [r EXCEPT !.due = a] = [status |-> r.status, at |-> r.at, state |-> r.state, due |-> a, pick |-> r.pick]
         /\ [r EXCEPT !.state = a] = [status |-> r.status, at |-> r.at, state |-> a, due |-> r.due, pick |-> r.pick]
         /\ [r EXCEPT !.status = a] = [status |-> a, at |-> r.at, state |-> r.state, due |-> r.due, pick |-> r.pick]
         /\ [r EXCEPT !.pick = a] = [status |-> r.status, at |-> r.at, state |-> r.state, due |-> r.due, pick |-> a]
BY SMT DEF QueueRows

LEMMA QueueRowsHave ==
  ASSUME NEW r \in QueueRows
  PROVE  /\ r.status \in {"draft", "scheduled", "published", "failed"} /\ r.at \in Nat
         /\ r.state \in {"draft", "scheduled", "publishing", "published", "failed", "canceled"}
         /\ r.due \in Nat /\ r.pick \in Nat
BY DEF QueueRows

LEMMA MovedRow ==
  ASSUME NEW r \in QueueRows, NEW day \in Nat
  PROVE  Moved(r, day) \in QueueRows /\ Moved(r, day).status = r.status /\ Moved(r, day).at = day
<1> DEFINE u == IF r.state = "scheduled" THEN day ELSE r.due
<1>1. Moved(r, day) = [[r EXCEPT !.at = day] EXCEPT !.due = u]
  <2>1. Moved(r, day) = [r EXCEPT !.at = day, !.due = u]
    BY Zenon DEF Moved
  <2> HIDE DEF u
  <2>2. [r EXCEPT !.at = day, !.due = u] = [[r EXCEPT !.at = day] EXCEPT !.due = u]
    BY Zenon
  <2> QED
    BY <2>1, <2>2
<1>2. u \in Nat
  BY QueueRowsHave
<1> HIDE DEF u
<1>3. PICK v : v = [r EXCEPT !.at = day]
  OBVIOUS
<1>4. v \in QueueRows /\ v.status = r.status /\ v.at = day
  <2>1. v = [status |-> r.status, at |-> day, state |-> r.state, due |-> r.due, pick |-> r.pick]
    BY <1>3, QueueRow
  <2> QED
    BY <2>1, QueueRowsHave DEF QueueRows
<1>5. Moved(r, day) = [status |-> v.status, at |-> v.at, state |-> v.state, due |-> u, pick |-> v.pick]
  BY <1>1, <1>3, <1>4, QueueRow
<1> QED
  BY <1>2, <1>4, <1>5, QueueRowsHave DEF QueueRows

LEMMA StrandedRow ==
  ASSUME NEW r \in QueueRows
  PROVE  Stranded(r) \in QueueRows /\ Stranded(r).status = "draft"
<1> DEFINE st == IF r.state = "scheduled" THEN "draft" ELSE r.state
           u == IF r.state = "scheduled" THEN 0 ELSE r.due
           draft == "draft"
           zero == 0
<1>1. /\ st \in {"draft", "scheduled", "publishing", "published", "failed", "canceled"}
      /\ u \in Nat /\ zero \in Nat /\ draft \in {"draft", "scheduled", "published", "failed"}
  BY QueueRowsHave
<1>2. Stranded(r) = [r EXCEPT !.status = draft, !.at = zero, !.state = st, !.due = u]
  BY Zenon DEF Stranded
<1>3. draft = "draft"
  OBVIOUS
<1> HIDE DEF st, u, draft, zero
<1>4. PICK a : a = [r EXCEPT !.status = draft]
  OBVIOUS
<1>5. PICK b : b = [a EXCEPT !.at = zero]
  OBVIOUS
<1>6. PICK c : c = [b EXCEPT !.state = st]
  OBVIOUS
<1>7. Stranded(r) = [c EXCEPT !.due = u]
  <2>1. [r EXCEPT !.status = draft, !.at = zero, !.state = st, !.due = u]
          = [[[[r EXCEPT !.status = draft] EXCEPT !.at = zero] EXCEPT !.state = st] EXCEPT !.due = u]
    BY Zenon
  <2> QED
    BY <1>2, <1>4, <1>5, <1>6, <2>1
<1>8. a \in QueueRows /\ a.status = draft
  <2>1. a = [status |-> draft, at |-> r.at, state |-> r.state, due |-> r.due, pick |-> r.pick]
    BY <1>4, QueueRow
  <2> QED
    BY <1>1, <2>1, QueueRowsHave DEF QueueRows
<1>9. b \in QueueRows /\ b.status = draft
  <2>1. b = [status |-> a.status, at |-> zero, state |-> a.state, due |-> a.due, pick |-> a.pick]
    BY <1>5, <1>8, QueueRow
  <2> QED
    BY <1>1, <1>8, <2>1, QueueRowsHave DEF QueueRows
<1>10. c \in QueueRows /\ c.status = draft
  <2>1. c = [status |-> b.status, at |-> b.at, state |-> st, due |-> b.due, pick |-> b.pick]
    BY <1>6, <1>9, QueueRow
  <2> QED
    BY <1>1, <1>9, <2>1, QueueRowsHave DEF QueueRows
<1>11. Stranded(r) = [status |-> c.status, at |-> c.at, state |-> c.state, due |-> u, pick |-> c.pick]
  BY <1>7, <1>10, QueueRow
<1> QED
  BY <1>1, <1>3, <1>10, <1>11, QueueRowsHave DEF QueueRows

-----------------------------------------------------------------------------
(* A reflow keeps the order and gives every post a day of its own.          *)
Front(p) == {q \in Queue : InFront(q, p)}

LEMMA FrontGrows ==
  ASSUME SlotsTypeOK, NEW p \in Queue, NEW q \in Queue, InFront(p, q)
  PROVE  /\ Cardinality(Front(p)) \in Nat /\ Cardinality(Front(q)) \in Nat
         /\ Cardinality(Front(p)) < Cardinality(Front(q))
<1>1. Queue \subseteq QueuePosts /\ IsFiniteSet(QueuePosts) /\ QueuePosts \subseteq Nat
  BY SlotsAssumption DEF Queue
<1>2. \A x \in Queue : x \in Nat /\ queued[x].at \in Nat
  BY <1>1, QueueRowsHave DEF SlotsTypeOK
<1>3. ASSUME NEW x \in Queue, InFront(x, p) PROVE InFront(x, q)
  BY <1>2, <1>3 DEF InFront
<1>4. ~InFront(p, p)
  BY <1>2 DEF InFront
<1>5. Front(p) \subseteq Front(q) /\ Front(p) # Front(q)
  BY <1>3, <1>4 DEF Front
<1>6. IsFiniteSet(Front(p)) /\ IsFiniteSet(Front(q))
  <2>1. Front(p) \subseteq QueuePosts /\ Front(q) \subseteq QueuePosts
    BY <1>1 DEF Front
  <2> QED
    BY <1>1, <2>1, FS_Subset
<1>7. Cardinality(Front(p)) <= Cardinality(Front(q))
      /\ (Cardinality(Front(p)) = Cardinality(Front(q)) => Front(p) = Front(q))
  BY <1>5, <1>6, FS_Subset
<1>8. Cardinality(Front(p)) \in Nat
  BY <1>6, FS_CardinalityType
<1>9. Cardinality(Front(q)) \in Nat
  BY <1>6, FS_CardinalityType
<1> QED
  BY <1>5, <1>7, <1>8, <1>9

LEMMA OccurrencesAre ==
  ASSUME SlotsTypeOK, NEW S, NEW n
  PROVE  /\ GenerateOccurrences(S, n) \in SUBSET Nat /\ IsFiniteSet(GenerateOccurrences(S, n))
         /\ \A d \in GenerateOccurrences(S, n) : d > today /\ d % Week \in S
<1>0. SlotHorizon \in Nat /\ today \in Nat
  <2>1. SlotHorizon \in {Week, SlotHorizon, SlotMargin, LastDay, MaxSlotChanges}
    OBVIOUS
  <2> QED
    BY <2>1, SlotsAssumption DEF SlotsTypeOK
<1>1. today + 1 \in Int /\ today + SlotHorizon \in Int
  BY <1>0
<1>2. IsFiniteSet(today + 1 .. today + SlotHorizon)
  BY <1>1, FS_Interval
<1>3. GenerateOccurrences(S, n) \subseteq Occurrences(S) /\ Occurrences(S) \subseteq today + 1 .. today + SlotHorizon
  BY DEF GenerateOccurrences, Occurrences
<1>4. IsFiniteSet(GenerateOccurrences(S, n))
  BY <1>2, <1>3, FS_Subset
<1>5. \A d \in today + 1 .. today + SlotHorizon : d \in Nat /\ d > today
  BY <1>0
<1>6. \A d \in Occurrences(S) : d % Week \in S
  BY DEF Occurrences
<1> QED
  BY <1>3, <1>4, <1>5, <1>6

Placed(S) == GenerateOccurrences(S, Cardinality(Queue))
LEMMA ReflowPlaces ==
  ASSUME SlotsTypeOK, NEW S, ReflowInTx(S), NEW p \in QueuePosts
  PROVE  /\ p \notin Queue => queued'[p] = queued[p]
         /\ p \in Queue =>
              \/ /\ queued'[p] = Stranded(queued[p])
                 /\ \A d \in Placed(S) : Before(Placed(S), d) # Cardinality(Front(p))
              \/ \E d \in Placed(S) : /\ queued'[p] = Moved(queued[p], d)
                                      /\ Before(Placed(S), d) = Cardinality(Front(p))
<1> DEFINE front == [x \in QueuePosts |-> {q \in Queue : InFront(q, x)}]
           places == {d \in Placed(S) : Before(Placed(S), d) = Cardinality(Front(p))}
<1>1. front[p] = Front(p)
  BY DEF Front
<1>2. queued'[p] = IF p \notin Queue THEN queued[p]
                   ELSE IF {d \in Placed(S) : Before(Placed(S), d) = Cardinality(front[p])} = {} THEN Stranded(queued[p])
                   ELSE Moved(queued[p], CHOOSE d \in {d \in Placed(S) : Before(Placed(S), d) = Cardinality(front[p])} : TRUE)
  BY Zenon DEF ReflowInTx, Reflowed, Placed
<1>3. queued'[p] = IF p \notin Queue THEN queued[p]
                   ELSE IF places = {} THEN Stranded(queued[p])
                   ELSE Moved(queued[p], CHOOSE d \in places : TRUE)
  BY <1>1, <1>2, Zenon
<1>4. CASE places = {}
  BY <1>3, <1>4
<1>5. CASE places # {}
  <2>1. PICK e : e = CHOOSE d \in places : TRUE
    OBVIOUS
  <2>2. e \in places
    BY <1>5, <2>1
  <2>3. p \in Queue => queued'[p] = Moved(queued[p], e)
    BY <1>3, <1>5, <2>1, Zenon
  <2> QED
    BY <1>3, <2>2, <2>3
<1> QED
  BY <1>4, <1>5

(* A reflow, seen by two posts.                                             *)
LEMMA ReflowSound ==
  ASSUME SlotsTypeOK, NEW S, ReflowInTx(S)
  PROVE  /\ queued' \in [QueuePosts -> QueueRows]
         /\ \A p \in QueuePosts : queued'[p].status = "scheduled" =>
              p \in Queue /\ queued'[p].at > today /\ queued'[p].at % Week \in S
         /\ \A p, q \in Queue : InFront(p, q) =>
              /\ queued'[q].status = "scheduled" => queued'[p].status = "scheduled" /\ queued'[p].at < queued'[q].at
              /\ queued'[p].status = "draft" => queued'[q].status = "draft"
<1>1. queued \in [QueuePosts -> QueueRows] /\ Queue \subseteq QueuePosts
      /\ \A p \in QueuePosts : p \in Queue <=> queued[p].status = "scheduled"
  BY DEF SlotsTypeOK, Queue
<1> DEFINE D == Placed(S)
<1>2. D \in SUBSET Nat /\ IsFiniteSet(D) /\ \A d \in D : d > today /\ d % Week \in S
  BY OccurrencesAre DEF Placed
<1>3. ASSUME NEW p \in QueuePosts
      PROVE  /\ p \notin Queue => queued'[p] = queued[p]
             /\ p \in Queue =>
                  \/ /\ queued'[p] = Stranded(queued[p])
                     /\ \A d \in D : Before(D, d) # Cardinality(Front(p))
                  \/ \E d \in D : queued'[p] = Moved(queued[p], d) /\ Before(D, d) = Cardinality(Front(p))
  BY ReflowPlaces
<1> HIDE DEF D
<1>4. ASSUME NEW p \in Queue
      PROVE  \/ /\ queued'[p] \in QueueRows /\ queued'[p].status = "draft"
                /\ \A d \in D : Before(D, d) # Cardinality(Front(p))
             \/ /\ queued'[p] \in QueueRows /\ queued'[p].status = "scheduled" /\ queued'[p].at \in D
                /\ Before(D, queued'[p].at) = Cardinality(Front(p))
  <2>1. queued[p] \in QueueRows /\ p \in QueuePosts /\ queued[p].status = "scheduled"
    BY <1>1
  <2>2. CASE /\ queued'[p] = Stranded(queued[p])
             /\ \A d \in D : Before(D, d) # Cardinality(Front(p))
    BY <2>1, <2>2, StrandedRow
  <2>3. ASSUME NEW d \in D, queued'[p] = Moved(queued[p], d), Before(D, d) = Cardinality(Front(p))
        PROVE  /\ queued'[p] \in QueueRows /\ queued'[p].status = "scheduled" /\ queued'[p].at \in D
               /\ Before(D, queued'[p].at) = Cardinality(Front(p))
    <3>1. d \in Nat
      BY <1>2
    <3> QED
      BY <2>1, <2>3, <3>1, MovedRow
  <2> QED
    BY <1>3, <2>1, <2>2, <2>3
<1>5. queued' \in [QueuePosts -> QueueRows]
  <2>1. \A p \in QueuePosts : queued'[p] \in QueueRows
    BY <1>1, <1>3, <1>4
  <2> DEFINE f(p) == LET front == [x \in QueuePosts |-> {q \in Queue : InFront(q, x)}]
                         occ == GenerateOccurrences(S, Cardinality(Queue))
                         places(x) == {d \in occ : Before(occ, d) = Cardinality(front[x])}
                     IN  IF p \notin Queue THEN queued[p]
                         ELSE IF places(p) = {} THEN Stranded(queued[p])
                         ELSE Moved(queued[p], CHOOSE d \in places(p) : TRUE)
  <2>2. queued' = [p \in QueuePosts |-> f(p)]
    BY Zenon DEF ReflowInTx, Reflowed
  <2> HIDE DEF f
  <2> QED
    BY <2>1, <2>2
<1>6. ASSUME NEW p \in QueuePosts, queued'[p].status = "scheduled"
      PROVE  p \in Queue /\ queued'[p].at > today /\ queued'[p].at % Week \in S
  <2>1. p \in Queue
    BY <1>1, <1>3, <1>6
  <2> QED
    BY <1>2, <1>4, <1>6, <2>1
<1>7. ASSUME NEW p \in Queue, NEW q \in Queue, InFront(p, q)
      PROVE  /\ queued'[q].status = "scheduled" => queued'[p].status = "scheduled" /\ queued'[p].at < queued'[q].at
             /\ queued'[p].status = "draft" => queued'[q].status = "draft"
  <2>1. /\ Cardinality(Front(p)) \in Nat /\ Cardinality(Front(q)) \in Nat
        /\ Cardinality(Front(p)) < Cardinality(Front(q))
    BY <1>7, FrontGrows
  <2>2. CASE queued'[q].status # "scheduled"
    BY <1>4, <2>2
  <2>3. CASE queued'[q].status = "scheduled"
    <3>1. queued'[q].at \in D /\ Before(D, queued'[q].at) = Cardinality(Front(q))
      BY <1>4, <2>3
    <3>2. PICK b \in D : b = queued'[q].at
      BY <3>1
    <3>3. Cardinality(Front(p)) <= Before(D, b)
      BY <2>1, <3>1, <3>2
    <3>4. \E e \in D : Before(D, e) = Cardinality(Front(p))
      BY <1>2, <2>1, <3>3, PlaceExists
    <3>5. queued'[p].status = "scheduled" /\ queued'[p].at \in D
          /\ Before(D, queued'[p].at) = Cardinality(Front(p))
      BY <1>4, <3>4
    <3>6. PICK a \in D : a = queued'[p].at
      BY <3>5
    <3>7. Before(D, a) < Before(D, b)
      BY <2>1, <3>1, <3>2, <3>5, <3>6
    <3>8. a \in Nat /\ b \in Nat /\ Before(D, a) \in Nat /\ Before(D, b) \in Nat
      BY <1>2, BeforeCounts
    <3>9. b < a => Before(D, b) < Before(D, a)
      BY <1>2, BeforeGrows
    <3>10. a < b
      BY <3>7, <3>8, <3>9
    <3> QED
      BY <3>2, <3>5, <3>6, <3>10
  <2> QED
    BY <2>2, <2>3
<1> QED
  BY <1>5, <1>6, <1>7

LEMMA InitSlots == SlotsInit => SlotsTypeOK /\ OnOwnSlot
<1> SUFFICES ASSUME SlotsInit PROVE SlotsTypeOK /\ OnOwnSlot
  OBVIOUS
<1>1. PICK r : r = UnqueuedPost
  OBVIOUS
<1>2. r \in QueueRows /\ r.status = "draft"
  BY <1>1 DEF UnqueuedPost, QueueRows
<1>3. queued = [p \in QueuePosts |-> r] /\ today = 1
  BY <1>1 DEF SlotsInit
<1> QED
  BY <1>2, <1>3 DEF SlotsTypeOK, OnOwnSlot

(* What every step keeps; a slot of one's own is kept by those who take the *)
(* slot that is open.                                                       *)
SlotsKept == /\ SlotsTypeOK'
             /\ OnOwnSlot /\ "stale pick" \notin QueueHabits => OnOwnSlot'

(* A step that alters one post, and leaves its day or takes it out of the   *)
(* queue.                                                                   *)
LEMMA AlterKeeps ==
  ASSUME SlotsTypeOK, NEW p \in QueuePosts, NEW r \in QueueRows, Alter(p, r),
         r.status = "scheduled" => queued[p].status = "scheduled" /\ r.at = queued[p].at
  PROVE  SlotsKept
<1>1. queued' = [queued EXCEPT ![p] = r] /\ UNCHANGED <<slots, today>>
  BY DEF Alter
<1>2. \A q \in QueuePosts : queued'[q].status = "scheduled" =>
        queued[q].status = "scheduled" /\ queued'[q].at = queued[q].at
  BY <1>1 DEF SlotsTypeOK
<1>3. SlotsTypeOK'
  BY <1>1 DEF SlotsTypeOK
<1>4. OnOwnSlot => OnOwnSlot'
  BY <1>1, <1>2 DEF OnOwnSlot
<1> QED
  BY <1>3, <1>4 DEF SlotsKept

LEMMA EnqueueKeeps ==
  ASSUME SlotsTypeOK, NEW p \in QueuePosts, EnqueuePost(p)
  PROVE  SlotsKept
<1>1. PICK r : r = [status |-> "scheduled", at |-> queued[p].pick,
                    state |-> "scheduled", due |-> queued[p].pick, pick |-> 0]
  OBVIOUS
<1>2. PICK d : d = queued[p].pick
  OBVIOUS
<1>3. d \in Nat
  BY <1>2, QueueRowsHave DEF SlotsTypeOK
<1>4. r \in QueueRows /\ r.at = d
  BY <1>1, <1>2, <1>3 DEF QueueRows
<1>5. queued' = [queued EXCEPT ![p] = r] /\ UNCHANGED <<slots, today>>
  BY <1>1 DEF EnqueuePost, Alter
<1>6. "stale pick" \in QueueHabits \/ NextOpen = {d}
  BY <1>2 DEF EnqueuePost
<1>7. SlotsTypeOK'
  BY <1>4, <1>5 DEF SlotsTypeOK
<1>8. /\ queued'[p].at = d
      /\ \A q \in QueuePosts \ {p} : queued'[q] = queued[q]
  BY <1>4, <1>5 DEF SlotsTypeOK
<1>9. ASSUME OnOwnSlot, NextOpen = {d}
      PROVE  OnOwnSlot'
  <2>1. d \in GenerateOccurrences(slots, 1) /\ d \notin Taken
    BY <1>9 DEF NextOpen, ComputeNextOpenSlots
  <2>2. d % Week \in slots
    BY <2>1, OccurrencesAre
  <2>3. \A q \in QueuePosts : queued[q].status = "scheduled" => queued[q].at # d
    BY <2>1 DEF Taken
  <2> SUFFICES ASSUME NEW x \in QueuePosts, queued'[x].status = "scheduled", queued'[x].at > today
               PROVE  /\ queued'[x].at % Week \in slots
                      /\ \A y \in QueuePosts \ {x} :
                           queued'[y].status = "scheduled" => queued'[y].at # queued'[x].at
    BY <1>5 DEF OnOwnSlot
  <2>4. CASE x = p
    BY <2>2, <2>3, <1>8, <2>4
  <2>5. CASE x # p
    BY <2>3, <1>8, <1>9, <2>5 DEF OnOwnSlot
  <2> QED
    BY <2>4, <2>5
<1> QED
  BY <1>6, <1>7, <1>9 DEF SlotsKept

(* The posts of a slot that is moved or removed.                            *)
LEMMA ReflowKeeps ==
  ASSUME SlotsTypeOK, NEW S, ReflowInTx(S), slots' = S, UNCHANGED today
  PROVE  SlotsKept
<1>1. /\ queued' \in [QueuePosts -> QueueRows]
      /\ \A p \in QueuePosts : queued'[p].status = "scheduled" =>
           p \in Queue /\ queued'[p].at > today /\ queued'[p].at % Week \in S
      /\ \A p, q \in Queue : InFront(p, q) /\ queued'[q].status = "scheduled" =>
           queued'[p].status = "scheduled" /\ queued'[p].at < queued'[q].at
  BY ReflowSound
<1>2. \A p, q \in Queue : p # q => InFront(p, q) \/ InFront(q, p)
  <2>1. Queue \subseteq QueuePosts /\ QueuePosts \subseteq Nat
    BY SlotsAssumption DEF Queue
  <2>2. \A x \in Queue : x \in Nat /\ queued[x].at \in Nat
    BY <2>1, QueueRowsHave DEF SlotsTypeOK
  <2> QED
    BY <2>2 DEF InFront
<1>3. ASSUME NEW p \in QueuePosts, NEW q \in QueuePosts, p # q,
             queued'[p].status = "scheduled", queued'[q].status = "scheduled"
      PROVE  queued'[p].at # queued'[q].at
  <2>1. queued'[p].at \in Nat /\ queued'[q].at \in Nat
    BY <1>1, QueueRowsHave
  <2> QED
    BY <1>1, <1>2, <1>3, <2>1
<1>4. SlotsTypeOK'
  BY <1>1 DEF SlotsTypeOK
<1>5. OnOwnSlot'
  BY <1>1, <1>3 DEF OnOwnSlot
<1> QED
  BY <1>4, <1>5 DEF SlotsKept

LEMMA DayAfter ==
  ASSUME NEW d \in Nat PROVE d + 1 \in Nat /\ \A e \in Nat : e > d + 1 => e > d
OBVIOUS

LEMMA NextSlots ==
  ASSUME SlotsTypeOK, [SlotsNext]_slotsVars
  PROVE  SlotsKept
<1>0. ASSUME NEW p \in QueuePosts PROVE queued[p] \in QueueRows
  BY DEF SlotsTypeOK
<1>d. today \in Nat /\ today + 1 \in Nat
  BY DayAfter DEF SlotsTypeOK
<1>1. CASE UNCHANGED slotsVars
  BY <1>1 DEF slotsVars, SlotsTypeOK, OnOwnSlot, SlotsKept
<1>2. ASSUME NEW d \in 0 .. Week - 1, AddSlot(d) PROVE SlotsKept
  <2>1. UNCHANGED <<queued, today>> /\ slots' = slots \cup {d}
    BY <1>2 DEF AddSlot, ChangeSlots
  <2> QED
    BY <2>1 DEF SlotsTypeOK, OnOwnSlot, SlotsKept
<1>3. ASSUME NEW d \in 0 .. Week - 1, RemoveSlot(d) PROVE SlotsKept
  BY <1>3, ReflowKeeps DEF RemoveSlot, ChangeSlots
<1>4. ASSUME NEW d \in 0 .. Week - 1, NEW e \in 0 .. Week - 1, MoveSlot(d, e) PROVE SlotsKept
  BY <1>4, ReflowKeeps DEF MoveSlot, ChangeSlots
<1>5. ASSUME NEW p \in QueuePosts, PickSlot(p) PROVE SlotsKept
  <2>1. PICK d \in NextOpen : Alter(p, [queued[p] EXCEPT !.pick = d]) /\ queued[p].status = "draft"
    BY <1>5 DEF PickSlot
  <2>2. d \in Nat
    BY <2>1, OccurrencesAre DEF NextOpen, ComputeNextOpenSlots
  <2>3. PICK r : r = [queued[p] EXCEPT !.pick = d]
    OBVIOUS
  <2>4. r = [status |-> queued[p].status, at |-> queued[p].at, state |-> queued[p].state,
             due |-> queued[p].due, pick |-> d]
    BY <1>0, <2>3, QueueRow
  <2>5. r \in QueueRows /\ r.status = "draft"
    BY <1>0, <2>1, <2>2, <2>4, QueueRowsHave DEF QueueRows
  <2> QED
    BY <2>1, <2>3, <2>5, AlterKeeps
<1>6. ASSUME NEW p \in QueuePosts, EnqueuePost(p) PROVE SlotsKept
  BY <1>6, EnqueueKeeps
<1>7. ASSUME NEW p \in QueuePosts, CancelTarget(p) PROVE SlotsKept
  <2> DEFINE a == [queued[p] EXCEPT !.state = "canceled"]
  <2>1. PICK b : b = a
    OBVIOUS
  <2>2. b \in QueueRows /\ b.status = queued[p].status /\ b.at = queued[p].at
    <3>1. b = [status |-> queued[p].status, at |-> queued[p].at, state |-> "canceled",
               due |-> queued[p].due, pick |-> queued[p].pick]
      BY <1>0, <2>1, QueueRow
    <3> QED
      BY <1>0, <3>1, QueueRowsHave DEF QueueRows
  <2>3. PICK r : r = [b EXCEPT !.due = 0]
    OBVIOUS
  <2>4. r \in QueueRows /\ r.status = queued[p].status /\ r.at = queued[p].at
    <3>1. r = [status |-> b.status, at |-> b.at, state |-> b.state, due |-> 0, pick |-> b.pick]
      BY <2>2, <2>3, QueueRow
    <3> QED
      BY <2>2, <3>1, QueueRowsHave DEF QueueRows
  <2>5. Alter(p, r)
    <3>1. [queued[p] EXCEPT !.state = "canceled", !.due = 0] = [[queued[p] EXCEPT !.state = "canceled"] EXCEPT !.due = 0]
      BY Zenon
    <3> QED
      BY <1>7, <2>1, <2>3, <3>1 DEF CancelTarget
  <2> QED
    BY <2>4, <2>5, AlterKeeps
<1>8. ASSUME NEW p \in QueuePosts, ClaimTarget(p) PROVE SlotsKept
  <2>1. PICK r : r = [queued[p] EXCEPT !.state = "publishing"]
    OBVIOUS
  <2>2. r = [status |-> queued[p].status, at |-> queued[p].at, state |-> "publishing",
             due |-> queued[p].due, pick |-> queued[p].pick]
    BY <1>0, <2>1, QueueRow
  <2>3. r \in QueueRows /\ r.status = queued[p].status /\ r.at = queued[p].at
    BY <1>0, <2>2, QueueRowsHave DEF QueueRows
  <2> QED
    BY <1>8, <2>1, <2>3, AlterKeeps DEF ClaimTarget
<1>9. ASSUME NEW p \in QueuePosts, RetryTarget(p) PROVE SlotsKept
  <2>1. PICK b : b = [queued[p] EXCEPT !.state = "scheduled"]
    OBVIOUS
  <2>2. b \in QueueRows /\ b.status = queued[p].status /\ b.at = queued[p].at
    <3>1. b = [status |-> queued[p].status, at |-> queued[p].at, state |-> "scheduled",
               due |-> queued[p].due, pick |-> queued[p].pick]
      BY <1>0, <2>1, QueueRow
    <3> QED
      BY <1>0, <3>1, QueueRowsHave DEF QueueRows
  <2>3. PICK r : r = [b EXCEPT !.due = today]
    OBVIOUS
  <2>4. r \in QueueRows /\ r.status = queued[p].status /\ r.at = queued[p].at
    <3>1. r = [status |-> b.status, at |-> b.at, state |-> b.state, due |-> today, pick |-> b.pick]
      BY <2>2, <2>3, QueueRow
    <3> QED
      BY <2>2, <3>1, QueueRowsHave DEF QueueRows, SlotsTypeOK
  <2>5. Alter(p, r)
    <3>1. [queued[p] EXCEPT !.state = "scheduled", !.due = today] = [[queued[p] EXCEPT !.state = "scheduled"] EXCEPT !.due = today]
      BY Zenon
    <3> QED
      BY <1>9, <2>1, <2>3, <3>1 DEF RetryTarget
  <2> QED
    BY <2>4, <2>5, AlterKeeps
<1>10. ASSUME NEW p \in QueuePosts, NEW d \in {today + 1}, RescheduleTarget(p, d) PROVE SlotsKept
  <2>1. PICK r : r = [queued[p] EXCEPT !.due = d]
    OBVIOUS
  <2>2. r = [status |-> queued[p].status, at |-> queued[p].at, state |-> queued[p].state,
             due |-> d, pick |-> queued[p].pick]
    BY <1>0, <2>1, QueueRow
  <2>3. d \in Nat
    BY <1>d
  <2>4. r \in QueueRows /\ r.status = queued[p].status /\ r.at = queued[p].at
    BY <1>0, <2>2, <2>3, QueueRowsHave DEF QueueRows
  <2> QED
    BY <1>10, <2>1, <2>4, AlterKeeps DEF RescheduleTarget
<1>11. ASSUME NEW p \in QueuePosts, NEW st \in {"published", "failed"}, TargetSettles(p, st)
       PROVE  SlotsKept
  <2>1. PICK b : b = [queued[p] EXCEPT !.state = st]
    OBVIOUS
  <2>2. b \in QueueRows
    <3>1. b = [status |-> queued[p].status, at |-> queued[p].at, state |-> st,
               due |-> queued[p].due, pick |-> queued[p].pick]
      BY <1>0, <2>1, QueueRow
    <3> QED
      BY <1>0, <3>1, QueueRowsHave DEF QueueRows
  <2>3. PICK r : r = [b EXCEPT !.status = st]
    OBVIOUS
  <2>4. r \in QueueRows /\ r.status = st
    <3>1. r = [status |-> st, at |-> b.at, state |-> b.state, due |-> b.due, pick |-> b.pick]
      BY <2>2, <2>3, QueueRow
    <3> QED
      BY <2>2, <3>1, QueueRowsHave DEF QueueRows
  <2>5. Alter(p, r)
    <3>1. [queued[p] EXCEPT !.state = st, !.status = st] = [[queued[p] EXCEPT !.state = st] EXCEPT !.status = st]
      BY Zenon
    <3> QED
      BY <1>11, <2>1, <2>3, <3>1 DEF TargetSettles
  <2> QED
    BY <2>4, <2>5, AlterKeeps
<1>12. ASSUME NextDay PROVE SlotsKept
  <2>1. today' = today + 1 /\ UNCHANGED <<slots, queued>>
    BY <1>12 DEF NextDay
  <2>2. SlotsTypeOK'
    BY <1>d, <2>1 DEF SlotsTypeOK
  <2>3. ASSUME NEW p \in QueuePosts, queued[p].at > today + 1 PROVE queued[p].at > today
    <3>1. queued[p].at \in Nat
      BY <1>0, QueueRowsHave
    <3> QED
      BY <1>d, <2>3, <3>1, DayAfter
  <2>4. OnOwnSlot => OnOwnSlot'
    BY <2>1, <2>3 DEF OnOwnSlot
  <2> QED
    BY <2>2, <2>4 DEF SlotsKept
<1> QED
  BY <1>1, <1>2, <1>3, <1>4, <1>5, <1>6, <1>7, <1>8, <1>9, <1>10, <1>11, <1>12 DEF SlotsNext

(* For any queue, week and horizon, a queued post waits on a slot that      *)
(* exists and on one of its own, whatever slots are added, moved and        *)
(* removed around it (computeNextOpenSlots, reflowInTx), as long as a post  *)
(* is given the slot that is open when it is scheduled.                     *)
THEOREM QueuedOnOwnSlots ==
  ASSUME "stale pick" \notin QueueHabits
  PROVE  SlotsSpec => []OnOwnSlot
<1>1. SlotsInit => SlotsTypeOK /\ OnOwnSlot
  BY InitSlots
<1>2. SlotsTypeOK /\ OnOwnSlot /\ [SlotsNext]_slotsVars => (SlotsTypeOK /\ OnOwnSlot)'
  BY NextSlots DEF SlotsKept
<1> QED
  BY <1>1, <1>2, PTL DEF SlotsSpec

(* No slot that is added, moved or removed lets a queued post overtake      *)
(* another or keep a place that one in front of it loses, habits of the     *)
(* clients or not (the order of reflowInTx).                                *)
THEOREM QueuesKeepTheirOrder == SlotsSpec => QueueKeepsOrder
<1>1. SlotsInit => SlotsTypeOK
  BY InitSlots
<1>2. SlotsTypeOK /\ [SlotsNext]_slotsVars => SlotsTypeOK'
  BY NextSlots DEF SlotsKept
<1> DEFINE InOrder == slotChanges' # slotChanges => \A p, q \in QueuePosts :
                        Ahead(p, q) => /\ queued[q].status' = "scheduled" => Ahead(p, q)'
                                       /\ queued[p].status' = "draft" => queued[q].status' = "draft"
<1>3. SlotsTypeOK /\ [SlotsNext]_slotsVars => [InOrder]_slotsVars
  <2> SUFFICES ASSUME SlotsTypeOK, SlotsNext, slotChanges' # slotChanges,
                      NEW p \in QueuePosts, NEW q \in QueuePosts, Ahead(p, q)
               PROVE  /\ queued'[q].status = "scheduled" => Ahead(p, q)'
                      /\ queued'[p].status = "draft" => queued'[q].status = "draft"
    OBVIOUS
  <2>1. p \in Queue /\ q \in Queue /\ InFront(p, q)
    BY DEF Ahead, Queue, InFront
  <2>2. ASSUME NEW d, AddSlot(d)
        PROVE  /\ queued'[q].status = "scheduled" => Ahead(p, q)'
               /\ queued'[p].status = "draft" => queued'[q].status = "draft"
    BY <2>2 DEF AddSlot, Ahead
  <2>3. ASSUME NEW S, ReflowInTx(S)
        PROVE  /\ queued'[q].status = "scheduled" => Ahead(p, q)'
               /\ queued'[p].status = "draft" => queued'[q].status = "draft"
    BY <2>1, <2>3, ReflowSound DEF Ahead
  <2>4. \/ \E d : AddSlot(d)
        \/ \E S : ReflowInTx(S)
    BY DEF SlotsNext, RemoveSlot, MoveSlot, PickSlot, EnqueuePost, CancelTarget, ClaimTarget, RetryTarget,
           RescheduleTarget, TargetSettles, Alter, NextDay
  <2> QED
    BY <2>2, <2>3, <2>4
<1> QED
  BY <1>1, <1>2, <1>3, PTL DEF SlotsSpec, QueueKeepsOrder

-----------------------------------------------------------------------------
(* The lists that are read page by page: the order of places.               *)

Places == Nat \X Nat

LEMMA LowerOrder ==
  ASSUME NEW a \in Places, NEW b \in Places, NEW c \in Places
  PROVE  /\ ~Lower(a, a)
         /\ Lower(a, b) /\ Lower(b, c) => Lower(a, c)
         /\ Lower(a, b) \/ Lower(b, a) \/ a = b
<1>1. /\ a = <<a[1], a[2]>> /\ b = <<b[1], b[2]>>
      /\ a[1] \in Nat /\ a[2] \in Nat /\ b[1] \in Nat /\ b[2] \in Nat /\ c[1] \in Nat /\ c[2] \in Nat
  BY DEF Places
<1>2. a[1] = b[1] /\ a[2] = b[2] => a = b
  BY <1>1
<1> QED
  BY <1>1, <1>2 DEF Lower

LEMMA BeyondOrder ==
  ASSUME NEW list, NEW a \in Places, NEW b \in Places, NEW c \in Places
  PROVE  /\ ~Beyond(list, a, a)
         /\ Beyond(list, a, b) /\ Beyond(list, b, c) => Beyond(list, a, c)
         /\ Beyond(list, a, b) \/ Beyond(list, b, a) \/ a = b
BY LowerOrder DEF Beyond

(* Rows with a place in the list, and one after another.                    *)
Ordered(list, S) == S \subseteq Cards /\ \A c \in S : Place(list, c) \in Places
After(list, c, d) == Beyond(list, Place(list, c), Place(list, d))

LEMMA OwnPlace ==
  ASSUME NEW list, NEW c
  PROVE  Place(list, c)[2] = c
BY DEF Place, PlaceIn

LEMMA AfterOrder ==
  ASSUME NEW list, NEW S, Ordered(list, S), NEW c \in S, NEW d \in S, NEW e \in S
  PROVE  /\ ~After(list, c, c)
         /\ After(list, c, d) /\ After(list, d, e) => After(list, c, e)
         /\ After(list, c, d) \/ After(list, d, c) \/ c = d
<1>1. Place(list, c) = Place(list, d) => c = d
  BY OwnPlace
<1>2. Place(list, c) \in Places /\ Place(list, d) \in Places /\ Place(list, e) \in Places
  BY DEF Ordered
<1> QED
  BY <1>1, <1>2, BeyondOrder DEF After

Rank(list, S, c) == Cardinality(Earlier(list, S, c))

LEMMA RankCounts ==
  ASSUME NEW list, NEW S, Ordered(list, S), NEW c
  PROVE  /\ IsFiniteSet(S) /\ IsFiniteSet(Earlier(list, S, c))
         /\ Rank(list, S, c) \in Nat /\ Cardinality(S) \in Nat /\ Rank(list, S, c) <= Cardinality(S)
<1>1. IsFiniteSet(Cards) /\ S \subseteq Cards /\ Earlier(list, S, c) \subseteq S
  BY BoardAssumption DEF Ordered, Earlier
<1>2. IsFiniteSet(S)
  BY <1>1, FS_Subset
<1>3. IsFiniteSet(Earlier(list, S, c)) /\ Cardinality(Earlier(list, S, c)) <= Cardinality(S)
  BY <1>1, <1>2, FS_Subset
<1> QED
  BY <1>2, <1>3, FS_CardinalityType DEF Rank

LEMMA RankGrows ==
  ASSUME NEW list, NEW S, Ordered(list, S), NEW c \in S, NEW d \in S, After(list, d, c)
  PROVE  Rank(list, S, c) < Rank(list, S, d)
<1> DEFINE A == Earlier(list, S, c)
           B == Earlier(list, S, d)
<1>1. /\ IsFiniteSet(A) /\ IsFiniteSet(B) /\ Cardinality(A) \in Nat /\ Cardinality(B) \in Nat
      /\ Rank(list, S, c) = Cardinality(A) /\ Rank(list, S, d) = Cardinality(B)
  BY RankCounts DEF Rank
<1>2. c \notin A /\ A \cup {c} \subseteq B
  BY AfterOrder DEF Earlier, After
<1> HIDE DEF A, B
<1>3. Cardinality(A \cup {c}) = Cardinality(A) + 1 /\ IsFiniteSet(A \cup {c})
  BY <1>1, <1>2, FS_AddElement
<1>4. Cardinality(A \cup {c}) <= Cardinality(B)
  BY <1>1, <1>2, FS_Subset
<1> QED
  BY <1>1, <1>3, <1>4

(* The first and the last of some rows.                                     *)
LEMMA FirstExists ==
  ASSUME NEW list, NEW S, Ordered(list, S), S # {}
  PROVE  \E c \in S : \A d \in S \ {c} : After(list, d, c)
<1> DEFINE N == {Rank(list, S, c) : c \in S}
<1>1. N \in SUBSET Nat /\ N # {}
  BY RankCounts
<1>2. PICK x \in N : \A y \in N : x <= y
  <2> HIDE DEF N
  <2> QED
    BY <1>1, LeastOne
<1>3. PICK c \in S : x = Rank(list, S, c)
  BY DEF N
<1>4. ASSUME NEW d \in S \ {c} PROVE After(list, d, c)
  <2>1. x <= Rank(list, S, d) /\ Rank(list, S, d) \in Nat /\ Rank(list, S, c) \in Nat
    BY <1>2, RankCounts
  <2>2. ~(Rank(list, S, d) < Rank(list, S, c))
    BY <1>3, <2>1
  <2> QED
    BY <2>2, RankGrows, AfterOrder
<1> QED
  BY <1>4

LEMMA LastExists ==
  ASSUME NEW list, NEW S, Ordered(list, S), S # {}
  PROVE  \E c \in S : \A d \in S \ {c} : After(list, c, d)
<1> DEFINE n == Cardinality(S)
           N == {n - Rank(list, S, c) : c \in S}
<1>1. N \in SUBSET Nat /\ N # {}
  BY RankCounts
<1>2. PICK x \in N : \A y \in N : x <= y
  <2> HIDE DEF N
  <2> QED
    BY <1>1, LeastOne
<1>3. PICK c \in S : x = n - Rank(list, S, c)
  BY DEF N
<1>4. ASSUME NEW d \in S \ {c} PROVE After(list, c, d)
  <2>1. x <= n - Rank(list, S, d) /\ Rank(list, S, d) \in Nat /\ Rank(list, S, c) \in Nat /\ n \in Nat
    BY <1>2, RankCounts
  <2>2. ~(Rank(list, S, c) < Rank(list, S, d))
    BY <1>3, <2>1
  <2> QED
    BY <2>2, RankGrows, AfterOrder
<1> QED
  BY <1>4

(* What a limit leaves is the beginning of the list, and all of it if there *)
(* were fewer.                                                              *)
LEMMA FirstRowsAre ==
  ASSUME NEW list, NEW S, Ordered(list, S), NEW n \in Nat
  PROVE  /\ FirstRows(list, S, n) \subseteq S /\ Ordered(list, FirstRows(list, S, n))
         /\ \A c \in FirstRows(list, S, n), d \in S \ FirstRows(list, S, n) : After(list, d, c)
         /\ S # {} /\ n > 0 => FirstRows(list, S, n) # {}
<1> DEFINE F == FirstRows(list, S, n)
<1>1. F \subseteq S /\ \A c \in S : c \in F <=> Rank(list, S, c) < n
  BY DEF FirstRows, Rank
<1>2. ASSUME NEW c \in F, NEW d \in S \ F PROVE After(list, d, c)
  <2>1. Rank(list, S, c) < n /\ ~(Rank(list, S, d) < n) /\ Rank(list, S, c) \in Nat /\ Rank(list, S, d) \in Nat
    BY <1>1, RankCounts
  <2>2. ~(Rank(list, S, d) < Rank(list, S, c)) /\ c # d
    BY <2>1
  <2> QED
    BY <1>1, <2>2, RankGrows, AfterOrder
<1>3. ASSUME S # {}, n > 0 PROVE F # {}
  <2>1. PICK c \in S : \A d \in S \ {c} : After(list, d, c)
    BY <1>3, FirstExists
  <2>2. Earlier(list, S, c) = {}
    BY <2>1, AfterOrder DEF Earlier, After
  <2>3. Rank(list, S, c) = 0
    BY <2>2, FS_EmptySet DEF Rank
  <2> QED
    BY <1>1, <1>3, <2>3
<1> QED
  BY <1>1, <1>2, <1>3 DEF Ordered

LEMMA FewerAreAll ==
  ASSUME NEW list, NEW S, Ordered(list, S), NEW n \in Nat, Cardinality(FirstRows(list, S, n + 1)) <= n
  PROVE  FirstRows(list, S, n + 1) = S
<1> DEFINE F == FirstRows(list, S, n + 1)
           R == S \ F
<1>1. F \subseteq S /\ n + 1 \in Nat /\ \A c \in F, d \in R : After(list, d, c)
  BY FirstRowsAre
<1>2. SUFFICES ASSUME R # {} PROVE FALSE
  BY <1>1
<1>3. PICK c \in R : \A d \in R \ {c} : After(list, d, c)
  <2>1. Ordered(list, R)
    BY DEF Ordered
  <2> HIDE DEF R
  <2> QED
    BY <1>2, <2>1, FirstExists
<1>4. Earlier(list, S, c) = F
  <2>1. ASSUME NEW d \in S PROVE After(list, c, d) <=> d \in F
    <3>1. CASE d \in F
      BY <1>1, <1>3, <3>1
    <3>2. CASE d \notin F
      BY <1>3, <3>2, <2>1, AfterOrder
    <3> QED
      BY <3>1, <3>2
  <2> QED
    BY <1>1, <2>1 DEF Earlier, After
<1>5. Rank(list, S, c) <= n /\ Rank(list, S, c) \in Nat /\ c \in S
  BY <1>4, RankCounts DEF Rank
<1>6. c \in F
  BY <1>5 DEF FirstRows, Rank
<1> QED
  BY <1>3, <1>6

-----------------------------------------------------------------------------
(* A page: no row of the list between it and what is beyond its cursor.     *)
LEMMA PageOfSound ==
  ASSUME NEW list, Ordered(list, Listed(list)), NEW k \in Places \cup {Never},
         NEW rest, rest = {c \in Listed(list) : k = Never \/ Beyond(list, Place(list, c), k)},
         NEW got, got = PageOf(list, k)
  PROVE  /\ got.data \subseteq rest /\ got.next \in Places \cup {Never}
         /\ \A c \in rest : c \in got.data <=> got.next = Never \/ ~Beyond(list, Place(list, c), got.next)
         /\ got.next # Never /\ k # Never => Beyond(list, got.next, k)
<1> DEFINE fetched == FirstRows(list, rest, PageSize + 1)
           data == FirstRows(list, fetched, PageSize)
           few == Cardinality(fetched) <= PageSize
<1>1. /\ got = IF few THEN [data |-> fetched, next |-> Never]
               ELSE [data |-> data, next |-> LastPlace(list, data)]
  BY DEF PageOf, Query
<1>2. Ordered(list, rest)
  BY DEF Ordered
<1>3. PageSize \in Nat /\ PageSize > 0 /\ PageSize + 1 \in Nat
  BY BoardAssumption
<1>4. /\ fetched \subseteq rest /\ Ordered(list, fetched)
      /\ \A c \in fetched, d \in rest \ fetched : After(list, d, c)
  BY <1>2, <1>3, FirstRowsAre
<1>5. CASE few
  <2>1. fetched = rest
    BY <1>2, <1>3, <1>5, FewerAreAll
  <2> HIDE DEF fetched
  <2>2. got.data = rest /\ got.next = Never
    BY <1>1, <1>5, <2>1
  <2> QED
    BY <2>2
<1>6. CASE ~few
  <2>1. fetched # {}
    <3>1. SUFFICES ASSUME fetched = {} PROVE FALSE
      OBVIOUS
    <3> HIDE DEF fetched
    <3> QED
      BY <1>3, <1>6, <3>1, FS_EmptySet
  <2> HIDE DEF fetched
  <2>2. /\ data \subseteq fetched /\ Ordered(list, data) /\ data # {}
        /\ \A c \in data, d \in fetched \ data : After(list, d, c)
    BY <1>3, <1>4, <2>1, FirstRowsAre
  <2> HIDE DEF data, few
  <2>3. PICK l \in data : \A d \in data \ {l} : After(list, l, d)
    BY <2>2, LastExists
  <2>4. got.data = data /\ got.next = LastPlace(list, data)
    BY <1>1, <1>6
  <2>5. LastPlace(list, data) = Place(list, l)
    <3> DEFINE Last(c) == c \in data /\ \A d \in data \ {c} : Beyond(list, Place(list, c), Place(list, d))
    <3>1. Last(l)
      BY <2>3 DEF After
    <3>2. \A c : Last(c) => c = l
      BY <2>2, <2>3, AfterOrder DEF After
    <3>3. l = CHOOSE c \in data : \A d \in data \ {c} : Beyond(list, Place(list, c), Place(list, d))
      BY <3>1, <3>2
    <3> QED
      BY <3>3 DEF LastPlace
  <2>6. Place(list, l) \in Places /\ l \in rest
    BY <1>4, <2>2 DEF Ordered
  <2>7. Never \notin Places
    BY BoardAssumption DEF Places
  <2>8. ASSUME NEW c \in rest PROVE c \in data <=> ~Beyond(list, Place(list, c), Place(list, l))
    <3>1. CASE c \in data
      <4>1. ~After(list, c, l)
        BY <2>2, <2>3, <3>1, AfterOrder
      <4> QED
        BY <3>1, <4>1 DEF After
    <3>2. CASE c \notin data
      <4>1. After(list, c, l)
        BY <1>4, <2>2, <3>2
      <4> QED
        BY <3>2, <4>1 DEF After
    <3> QED
      BY <3>1, <3>2
  <2> QED
    BY <1>4, <2>2, <2>4, <2>5, <2>6, <2>7, <2>8
<1> QED
  BY <1>5, <1>6

-----------------------------------------------------------------------------
(* The rows, and what the reader has.                                       *)
Times == Nat \cup {Never}
CardStates == STATE_GROUPS.api \cup {"absent"}
CardRows == {r \in [state : CardStates, due : Times, published : Times, created : Times] :
               r.state # "absent" => r.created \in Nat}
Listings == [list : Lists, shown : SUBSET Cards, pages : Nat, fetched : Seq(SUBSET Cards),
             cursor : Places \cup {Never}, wanted : Nat, busy : BOOLEAN]

BoardTypeOK ==
  /\ board \in [Cards -> CardRows]
  /\ instant \in Nat
  /\ listing \in Listings

ReadUpTo(c) ==
  listing.cursor = Never \/ ~Beyond(listing.list, Place(listing.list, c), listing.cursor)

(* Of the rows that kept their place, those up to the cursor are in the     *)
(* pages read, each page before the next, and those beyond it are not.      *)
ReadSound ==
  /\ \A c \in settled : ReadUpTo(c) <=> \E i \in DOMAIN listing.fetched : c \in listing.fetched[i]
  /\ \A i, j \in DOMAIN listing.fetched :
       \A c \in settled \cap listing.fetched[i], d \in settled \cap listing.fetched[j] :
         i < j => After(listing.list, d, c)

BoardInv ==
  /\ BoardTypeOK
  /\ settled \subseteq Listed(listing.list)
  /\ listing.fetched = <<>> => listing.cursor = Never
  /\ listing.fetched # <<>> => ReadSound /\ (listing.busy => listing.cursor # Never)

(* Every row that is listed has a place.                                    *)
LEMMA ListedOrdered ==
  ASSUME BoardTypeOK, NEW list \in Lists
  PROVE  Ordered(list, Listed(list))
<1>1. Listed(list) \subseteq Cards
  BY DEF Listed, ListedIn
<1>2. ASSUME NEW c \in Listed(list) PROVE Place(list, c) \in Places
  <2>1. c \in Cards /\ board[c] \in CardRows /\ board[c].state # "absent"
    BY DEF Listed, ListedIn, BoardTypeOK, STATE_GROUPS, Lists
  <2>2. /\ board[c].created \in Nat /\ board[c].due \in Times /\ board[c].published \in Times
    BY <2>1 DEF CardRows
  <2>3. Evt(board[c]) \in Nat
    BY <2>2 DEF Evt, Times
  <2>4. c \in Nat
    BY <2>1, BoardAssumption
  <2> QED
    BY <2>2, <2>3, <2>4 DEF Place, PlaceIn, Places
<1> QED
  BY <1>1, <1>2 DEF Ordered

-----------------------------------------------------------------------------
(* What the reader does.                                                    *)
LEMMA FetchedRow ==
  ASSUME BoardTypeOK, FetchPage, NEW got, got = PageOf(listing.list, listing.cursor),
         NEW all, all = Append(listing.fetched, got.data)
  PROVE  /\ listing.busy /\ listing'.list = listing.list
         /\ listing'.fetched = all /\ listing'.cursor = got.next
         /\ listing'.busy => got.next # Never
         /\ all \in Seq(SUBSET Cards) /\ got.next \in Places \cup {Never} => listing' \in Listings
<1> DEFINE done == Len(all) >= listing.wanted \/ got.next = Never
           shown == {c \in Cards : \E i \in DOMAIN all : c \in all[i]}
<1>1. PICK r, b, s, n : /\ r = listing /\ b = ~done /\ s = (IF done THEN shown ELSE r.shown)
                        /\ n = (IF done THEN Len(all) ELSE r.pages)
  OBVIOUS
<1>2. /\ listing.busy
      /\ listing' = [r EXCEPT !.fetched = all, !.cursor = got.next, !.busy = b, !.shown = s, !.pages = n]
  BY <1>1, Zenon DEF FetchPage
<1>3. r \in Listings
  BY <1>1 DEF BoardTypeOK
<1>4. b \in BOOLEAN /\ (b => got.next # Never)
  BY <1>1
<1>5. all \in Seq(SUBSET Cards) => s \in SUBSET Cards /\ n \in Nat
  BY <1>1, <1>3 DEF Listings
<1> HIDE DEF done, shown
<1>6. listing' = [list |-> r.list, shown |-> s, pages |-> n, fetched |-> all,
                  cursor |-> got.next, wanted |-> r.wanted, busy |-> b]
  BY <1>2, <1>3 DEF Listings
<1>7. r.list \in Lists /\ r.wanted \in Nat
  BY <1>3 DEF Listings
<1> QED
  BY <1>1, <1>2, <1>4, <1>5, <1>6, <1>7 DEF Listings

LEMMA FetchKeeps ==
  ASSUME BoardInv, FetchPage
  PROVE  BoardInv'
<1>1. PICK list, k, old : list = listing.list /\ k = listing.cursor /\ old = listing.fetched
  OBVIOUS
<1>2. PICK got : got = PageOf(list, k)
  OBVIOUS
<1>3. PICK all : all = Append(old, got.data)
  OBVIOUS
<1>4. PICK rest : rest = {c \in Listed(list) : k = Never \/ Beyond(list, Place(list, c), k)}
  OBVIOUS
<1>5. list \in Lists /\ k \in Places \cup {Never} /\ old \in Seq(SUBSET Cards)
  BY <1>1 DEF BoardInv, BoardTypeOK, Listings
<1>6. Ordered(list, Listed(list))
  BY <1>5, ListedOrdered DEF BoardInv
<1>7. /\ got.data \subseteq rest /\ got.next \in Places \cup {Never}
      /\ \A c \in rest : c \in got.data <=> got.next = Never \/ ~Beyond(list, Place(list, c), got.next)
      /\ got.next # Never /\ k # Never => Beyond(list, got.next, k)
  BY <1>2, <1>4, <1>5, <1>6, PageOfSound
<1>8. got.data \in SUBSET Cards /\ rest \subseteq Listed(list)
  BY <1>4, <1>6, <1>7 DEF Ordered
<1>9. /\ all \in Seq(SUBSET Cards) /\ Len(all) = Len(old) + 1 /\ Len(old) \in Nat
      /\ DOMAIN old = 1 .. Len(old) /\ DOMAIN all = 1 .. Len(all) /\ all # <<>>
      /\ all[Len(all)] = got.data /\ \A i \in 1 .. Len(old) : all[i] = old[i]
  BY <1>3, <1>5, <1>8
<1>10. /\ listing.busy /\ listing' \in Listings /\ listing'.list = list
       /\ listing'.fetched = all /\ listing'.cursor = got.next /\ (listing'.busy => got.next # Never)
  <2>1. BoardTypeOK /\ FetchPage
    BY DEF BoardInv
  <2>2. got.next \in Places \cup {Never} /\ all \in Seq(SUBSET Cards)
    BY <1>7, <1>9
  <2>3. got = PageOf(listing.list, listing.cursor) /\ all = Append(listing.fetched, got.data)
    BY <1>1, <1>2, <1>3
  <2> QED
    BY <1>1, <2>1, <2>2, <2>3, FetchedRow
<1>11. /\ UNCHANGED <<board, instant>>
       /\ settled' = IF old = <<>> THEN Listed(list) ELSE settled
  BY <1>1 DEF FetchPage
<1>12. BoardTypeOK'
  BY <1>10, <1>11 DEF BoardInv, BoardTypeOK
<1>13. settled' \subseteq Listed(list) /\ Listed(list)' = Listed(list)
  BY <1>1, <1>11 DEF BoardInv, Listed
<1>14. \A c : Place(list, c)' = Place(list, c)
  BY <1>11 DEF Place
<1>15. old = <<>> => k = Never
  BY <1>1 DEF BoardInv
<1>16. old # <<>> => k # Never /\ settled' = settled
  BY <1>1, <1>10, <1>11 DEF BoardInv
<1> DEFINE Upto(c) == k = Never \/ ~Beyond(list, Place(list, c), k)
<1>17. ASSUME old # <<>>
       PROVE  /\ \A c \in settled : Upto(c) <=> \E i \in 1 .. Len(old) : c \in old[i]
              /\ \A i, j \in 1 .. Len(old) : \A c \in settled \cap old[i], d \in settled \cap old[j] :
                   i < j => After(list, d, c)
  BY <1>1, <1>9, <1>17 DEF BoardInv, ReadSound, ReadUpTo
(* A row of the list was read before, or is beyond the cursor.              *)
<1>18. ASSUME NEW c \in settled'
       PROVE  c \in Listed(list) /\ (c \in rest <=> ~\E i \in 1 .. Len(old) : c \in old[i])
  <2>1. c \in Listed(list)
    BY <1>13
  <2>2. CASE old = <<>>
    BY <1>4, <1>15, <2>1, <2>2
  <2>3. CASE old # <<>>
    BY <1>4, <1>16, <1>17, <2>1, <2>3
  <2> QED
    BY <2>1, <2>2, <2>3
<1>19. ASSUME NEW c \in settled'
       PROVE  (got.next = Never \/ ~Beyond(list, Place(list, c), got.next)) <=> \E i \in 1 .. Len(all) : c \in all[i]
  <2>1. CASE c \in rest
    BY <1>7, <1>9, <1>18, <2>1
  <2>2. CASE c \notin rest
    <3>1. PICK i \in 1 .. Len(old) : c \in old[i]
      BY <1>18, <2>2
    <3>2. i \in 1 .. Len(all) /\ c \in all[i]
      BY <1>9, <3>1
    <3>3. k # Never /\ ~Beyond(list, Place(list, c), k) /\ Place(list, c) \in Places
      BY <1>4, <1>6, <1>18, <2>2 DEF Ordered
    <3>4. got.next # Never => ~Beyond(list, Place(list, c), got.next)
      BY <1>5, <1>7, <3>3, BeyondOrder
    <3> QED
      BY <3>2, <3>4
  <2> QED
    BY <2>1, <2>2
<1>20. ASSUME NEW i \in 1 .. Len(all), NEW j \in 1 .. Len(all), i < j,
              NEW c \in settled' \cap all[i], NEW d \in settled' \cap all[j]
       PROVE  After(list, d, c)
  <2>1. i \in 1 .. Len(old) /\ c \in old[i] /\ old # <<>>
    BY <1>9, <1>20
  <2>2. CASE j \in 1 .. Len(old)
    BY <1>9, <1>16, <1>17, <1>20, <2>1, <2>2
  <2>3. CASE j = Len(all)
    <3>1. d \in rest /\ c \in Listed(list) /\ c \notin rest /\ d \in Listed(list)
      BY <1>7, <1>8, <1>9, <1>18, <2>1, <2>3
    <3>2. k # Never /\ ~Beyond(list, Place(list, c), k) /\ Beyond(list, Place(list, d), k)
      BY <1>4, <3>1
    <3>3. Place(list, c) \in Places /\ Place(list, d) \in Places
      BY <1>6, <3>1 DEF Ordered
    <3>4. Beyond(list, k, Place(list, c)) \/ k = Place(list, c)
      BY <1>5, <3>2, <3>3, BeyondOrder
    <3> QED
      BY <1>5, <3>2, <3>3, <3>4, BeyondOrder DEF After
  <2> QED
    BY <1>9, <2>2, <2>3
<1>21. ReadSound'
  BY <1>9, <1>10, <1>14, <1>19, <1>20 DEF ReadSound, ReadUpTo, After
<1> QED
  BY <1>9, <1>10, <1>12, <1>13, <1>21 DEF BoardInv

(* A list that is opened, or read again from its first page.                *)
LEMMA OpenedKeeps ==
  ASSUME board' \in [Cards -> CardRows], instant' \in Nat,
         listing' \in Listings, listing'.fetched = <<>>, listing'.cursor = Never,
         settled' \subseteq Listed(listing.list)'
  PROVE  BoardInv'
BY DEF BoardInv, BoardTypeOK

LEMMA OpenedRow ==
  ASSUME NEW list \in Lists, NEW n \in Nat
  PROVE  /\ Opened(list, n) \in Listings /\ Opened(list, n).fetched = <<>>
         /\ Opened(list, n).cursor = Never /\ Opened(list, n).list = list
BY DEF Opened, Listings

(* Rows that change, while the reader waits or starts anew.                 *)
LEMMA StirKeeps ==
  ASSUME BoardInv, NEW b \in [Cards -> CardRows], Stir(b), UNCHANGED listing \/ Invalidated
  PROVE  BoardInv'
<1>1. PICK list, r : list = listing.list /\ r = listing
  OBVIOUS
<1>2. /\ board' = b /\ instant' = instant
      /\ settled' = {c \in settled \cap ListedIn(b, list) : PlaceIn(b, list, c) = Place(list, c)}
  BY <1>1 DEF Stir
<1>3. /\ board' \in [Cards -> CardRows] /\ instant' \in Nat
      /\ r \in Listings /\ list \in Lists /\ list = r.list /\ r.pages \in Nat
  BY <1>1, <1>2 DEF BoardInv, BoardTypeOK, Listings
<1>4. settled' \subseteq Listed(list)' /\ settled' \subseteq settled
      /\ \A c \in settled' : Place(list, c)' = Place(list, c)
  BY <1>2 DEF Listed, Place
<1>5. CASE UNCHANGED listing
  <2>1. BoardTypeOK'
    BY <1>3, <1>5 DEF BoardInv, BoardTypeOK
  <2>2. settled' \subseteq Listed(listing.list)'
    BY <1>1, <1>4, <1>5 DEF Listed
  <2>3. ReadSound => ReadSound'
    BY <1>1, <1>4, <1>5 DEF ReadSound, ReadUpTo, After
  <2> QED
    BY <1>5, <2>1, <2>2, <2>3 DEF BoardInv
<1>6. CASE Invalidated
  <2>1. PICK o : o = Opened(list, r.pages)
    OBVIOUS
  <2>2. o \in Listings /\ o.fetched = <<>> /\ o.cursor = Never /\ o.list = list
    BY <1>3, <2>1, OpenedRow
  <2>3. listing' = [o EXCEPT !.shown = r.shown, !.pages = r.pages]
    BY <1>1, <1>6, <2>1 DEF Invalidated
  <2>4. /\ listing' \in Listings /\ listing'.fetched = <<>>
        /\ listing'.cursor = Never /\ listing'.list = list
    BY <1>3, <2>2, <2>3 DEF Listings
  <2>5. settled' \subseteq Listed(listing.list)'
    BY <1>4, <2>4 DEF Listed
  <2> QED
    BY <1>3, <2>4, <2>5, OpenedKeeps
<1> QED
  BY <1>5, <1>6

-----------------------------------------------------------------------------
(* What happens to rows.                                                    *)
LEMMA RowIs ==
  ASSUME NEW r \in CardRows, NEW x
  PROVE  /\ [r EXCEPT !.due = x] = [state |-> r.state, due |-> x, published |-> r.published, created |-> r.created]
         /\ [r EXCEPT !.published = x] =
              [state |-> r.state, due |-> r.due, published |-> x, created |-> r.created]
         /\ [r EXCEPT !.state = x] =
              [state |-> x, due |-> r.due, published |-> r.published, created |-> r.created]
BY DEF CardRows

LEMMA RowMoves ==
  ASSUME NEW r \in CardRows, NEW t \in Times
  PROVE  [r EXCEPT !.due = t] \in CardRows /\ [r EXCEPT !.published = t] \in CardRows
<1>1. /\ r.state \in CardStates /\ r.due \in Times /\ r.published \in Times /\ r.created \in Times
      /\ r.state # "absent" => r.created \in Nat
  BY DEF CardRows
<1>2. [state |-> r.state, due |-> t, published |-> r.published, created |-> r.created] \in CardRows
  BY <1>1 DEF CardRows
<1>3. [state |-> r.state, due |-> r.due, published |-> t, created |-> r.created] \in CardRows
  BY <1>1 DEF CardRows
<1> QED
  BY <1>2, <1>3, RowIs

LEMMA RowBecomes ==
  ASSUME NEW r \in CardRows, r.state # "absent", NEW st \in CardStates, NEW t \in Times
  PROVE  /\ [r EXCEPT !.state = st] \in CardRows
         /\ [r EXCEPT !.state = st, !.due = t] \in CardRows
         /\ [r EXCEPT !.state = st, !.published = t] \in CardRows
<1>1. r.due \in Times /\ r.published \in Times /\ r.created \in Times /\ r.created \in Nat
  BY DEF CardRows
<1>2. [state |-> st, due |-> r.due, published |-> r.published, created |-> r.created] \in CardRows
  BY <1>1 DEF CardRows
<1>3. [r EXCEPT !.state = st] \in CardRows
  BY <1>2, RowIs
<1>4. /\ [r EXCEPT !.state = st, !.due = t] = [[r EXCEPT !.state = st] EXCEPT !.due = t]
      /\ [r EXCEPT !.state = st, !.published = t] = [[r EXCEPT !.state = st] EXCEPT !.published = t]
  BY Zenon
<1>5. PICK s : s = [r EXCEPT !.state = st]
  OBVIOUS
<1>6. [s EXCEPT !.due = t] \in CardRows /\ [s EXCEPT !.published = t] \in CardRows
  BY <1>3, <1>5, RowMoves
<1> QED
  BY <1>3, <1>4, <1>5, <1>6, Zenon

LEMMA StatesAre ==
  /\ {"absent", "draft", "scheduled", "published", "failed", "canceled"} \subseteq CardStates
  /\ \A list \in Lists : STATE_GROUPS[list] \subseteq CardStates
BY DEF CardStates, STATE_GROUPS, Lists

LEMMA BlankRow ==
  ASSUME NEW t \in Nat
  PROVE  /\ Blank \in CardRows
         /\ [Blank EXCEPT !.state = "draft", !.created = t] \in CardRows
BY StatesAre DEF Blank, CardRows, Times

LEMMA InsertedRows == Inserted \subseteq CardRows
<1>1. 0 \in Nat /\ 1 \in Nat
  OBVIOUS
<1> QED
  BY <1>1, StatesAre DEF Inserted, CardRows, Times

LEMMA Rescheduled ==
  ASSUME BoardTypeOK, NEW S, NEW t \in Nat
  PROVE  Reschedule(S, t) \in [Cards -> CardRows]
<1>1. t \in Times
  BY DEF Times
<1>2. ASSUME NEW c \in Cards PROVE board[c] \in CardRows /\ [board[c] EXCEPT !.due = t] \in CardRows
  BY <1>1, RowMoves DEF BoardTypeOK
<1> QED
  BY <1>2 DEF Reschedule

LEMMA InitBoard == BoardInit => BoardInv
<1> SUFFICES ASSUME BoardInit PROVE BoardInv
  OBVIOUS
<1>1. board \in [Cards -> CardRows]
  BY BlankRow, InsertedRows DEF BoardInit
<1>2. instant \in Nat /\ listing = Opened("upcoming", 1) /\ settled = Listed("upcoming")
  BY DEF BoardInit
<1>3. "upcoming" \in Lists
  BY DEF Lists, STATE_GROUPS
<1>4. /\ listing \in Listings /\ listing.fetched = <<>>
      /\ listing.cursor = Never /\ listing.list = "upcoming"
  BY <1>2, <1>3, OpenedRow
<1> QED
  BY <1>1, <1>2, <1>4 DEF BoardInv, BoardTypeOK

LEMMA NextBoard == BoardInv /\ [BoardNext]_boardVars => BoardInv'
<1> SUFFICES ASSUME BoardInv, [BoardNext]_boardVars PROVE BoardInv'
  OBVIOUS
<1>0. /\ board \in [Cards -> CardRows] /\ instant \in Nat /\ listing \in Listings
      /\ \A t \in 0 .. MaxInstant : t \in Nat /\ t \in Times
      /\ instant \in Times
  BY BoardAssumption DEF BoardInv, BoardTypeOK, Times
<1>1. ASSUME NEW list \in Lists, OpenList(list) PROVE BoardInv'
  <2>1. /\ UNCHANGED <<board, instant>> /\ listing' = Opened(list, 1) /\ settled' = Listed(list)
    BY <1>1 DEF OpenList
  <2>2. /\ listing' \in Listings /\ listing'.fetched = <<>>
        /\ listing'.cursor = Never /\ listing'.list = list
    BY <2>1, OpenedRow
  <2>3. settled' \subseteq Listed(listing.list)'
    BY <2>1, <2>2 DEF Listed
  <2> QED
    BY <1>0, <2>1, <2>2, <2>3, OpenedKeeps
<1>2. CASE FetchPage
  BY <1>2, FetchKeeps
<1>3. CASE LoadMore
  <2>1. PICK r, n : r = listing /\ n = Len(listing.fetched) + 1
    OBVIOUS
  <2>2. n \in Nat /\ r \in Listings
    BY <1>0, <2>1 DEF Listings
  <2>3. /\ listing' = [r EXCEPT !.wanted = n, !.busy = TRUE]
        /\ UNCHANGED <<board, instant, settled>> /\ r.cursor # Never
    BY <1>3, <2>1 DEF LoadMore, HasNextPage
  <2>4. /\ listing' \in Listings /\ listing'.list = r.list
        /\ listing'.fetched = r.fetched /\ listing'.cursor = r.cursor
    BY <2>2, <2>3 DEF Listings
  <2>5. ReadSound => ReadSound'
    BY <2>1, <2>3, <2>4 DEF ReadSound, ReadUpTo, After, Place
  <2>6. BoardTypeOK' /\ settled' \subseteq Listed(listing.list)'
    BY <1>0, <2>1, <2>3, <2>4 DEF BoardInv, BoardTypeOK, Listed
  <2> QED
    BY <2>1, <2>3, <2>4, <2>5, <2>6 DEF BoardInv
<1>4. ASSUME UNCHANGED <<board, listing, settled>>, instant' \in Nat PROVE BoardInv'
  <2>1. ReadSound => ReadSound'
    BY <1>4 DEF ReadSound, ReadUpTo, After, Place
  <2> QED
    BY <1>4, <2>1 DEF BoardInv, BoardTypeOK, Listed
<1>5. CASE Passes
  BY <1>0, <1>4, <1>5 DEF Passes
<1>6. ASSUME NEW c \in Cards, ToggleCard(c) PROVE BoardInv'
  BY <1>0, <1>4, <1>6 DEF ToggleCard
<1>7. ASSUME NEW c \in Cards, CreateCard(c) PROVE BoardInv'
  <2>1. PICK b : b = [board EXCEPT ![c] = [Blank EXCEPT !.state = "draft", !.created = instant]]
    OBVIOUS
  <2>2. b \in [Cards -> CardRows]
    BY <1>0, <2>1, BlankRow
  <2> QED
    BY <1>7, <2>1, <2>2, StirKeeps DEF CreateCard, Elsewhere
<1>8. ASSUME NEW c \in Cards, NEW t \in 0 .. MaxInstant, ScheduleCard(c, t) PROVE BoardInv'
  <2>1. PICK b : b = [board EXCEPT ![c].state = "scheduled", ![c].due = t]
    OBVIOUS
  <2>2. b = [board EXCEPT ![c] = [board[c] EXCEPT !.state = "scheduled", !.due = t]]
    BY <1>0, <2>1
  <2>3. b \in [Cards -> CardRows]
    BY <1>0, <1>8, <2>2, RowBecomes, StatesAre DEF ScheduleCard
  <2> QED
    BY <1>8, <2>1, <2>3, StirKeeps DEF ScheduleCard, Elsewhere
<1>9. ASSUME NEW c \in Cards, PublishCard(c) PROVE BoardInv'
  <2>1. PICK b, e : /\ b = [board EXCEPT ![c].state = "published", ![c].published = instant]
                    /\ e = [board EXCEPT ![c].state = "failed"]
    OBVIOUS
  <2>2. /\ b = [board EXCEPT ![c] = [board[c] EXCEPT !.state = "published", !.published = instant]]
        /\ e = [board EXCEPT ![c] = [board[c] EXCEPT !.state = "failed"]]
    BY <1>0, <2>1
  <2>3. b \in [Cards -> CardRows] /\ e \in [Cards -> CardRows]
    BY <1>0, <1>9, <2>2, RowBecomes, StatesAre DEF PublishCard
  <2>4. (Stir(b) \/ Stir(e)) /\ UNCHANGED listing
    BY <1>9, <2>1 DEF PublishCard, Elsewhere
  <2> QED
    BY <2>3, <2>4, StirKeeps
<1>10. ASSUME NEW c \in Cards, NEW t \in 0 .. MaxInstant, DragCard(c, t) PROVE BoardInv'
  BY <1>0, <1>10, Rescheduled, StirKeeps DEF DragCard, Elsewhere, BoardInv
<1>11. ASSUME NEW t \in 0 .. MaxInstant, BulkReschedule(t) PROVE BoardInv'
  BY <1>0, <1>11, Rescheduled, StirKeeps DEF BulkReschedule, BoardInv
<1>12. CASE BulkCancel
  <2>1. PICK b : b = [c \in Cards |-> IF c \in ticked /\ board[c].state \in {"scheduled", "draft"}
                                      THEN [board[c] EXCEPT !.state = "canceled", !.due = Never] ELSE board[c]]
    OBVIOUS
  <2>2. ASSUME NEW c \in Cards, board[c].state # "absent"
        PROVE  [board[c] EXCEPT !.state = "canceled", !.due = Never] \in CardRows
    BY <1>0, <2>2, RowBecomes, StatesAre DEF Times
  <2>3. b \in [Cards -> CardRows]
    BY <1>0, <2>1, <2>2
  <2> QED
    BY <1>12, <2>1, <2>3, StirKeeps DEF BulkCancel
<1>13. ASSUME NEW c \in Cards, RetryCard(c) PROVE BoardInv'
  <2>1. PICK b : b = [board EXCEPT ![c].state = "scheduled", ![c].due = instant]
    OBVIOUS
  <2>2. b = [board EXCEPT ![c] = [board[c] EXCEPT !.state = "scheduled", !.due = instant]]
    BY <1>0, <2>1
  <2>3. b \in [Cards -> CardRows]
    BY <1>0, <1>13, <2>2, RowBecomes, StatesAre DEF RetryCard
  <2> QED
    BY <1>13, <2>1, <2>3, StirKeeps DEF RetryCard
<1>14. CASE UNCHANGED boardVars
  BY <1>0, <1>4, <1>14 DEF boardVars
<1> QED
  BY <1>1, <1>2, <1>3, <1>5, <1>6, <1>7, <1>8, <1>9, <1>10, <1>11, <1>12, <1>13, <1>14 DEF BoardNext

(* A reader who follows the cursors of a list sees each row that keeps its  *)
(* place once and in order, for any rows, pages and changes between two     *)
(* pages (listQueue, page of the public API).                               *)
THEOREM PagesAreComplete == BoardSpec => []PagesComplete
<1>1. BoardInv => PagesComplete
  BY DEF BoardInv, ReadSound, ReadUpTo, PagesComplete, After
<1> QED
  BY <1>1, InitBoard, NextBoard, PTL DEF BoardSpec

=============================================================================
