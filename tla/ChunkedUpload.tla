---------------------------- MODULE ChunkedUpload ----------------------------
(***************************************************************************)
(* The resumable upload of a large object to a provider                    *)
(* (src/media/chunked-upload.ts).  Progress is committed after each chunk, *)
(* in a transaction of its own, and a call that was interrupted starts     *)
(* again from it; two calls for the same target may overlap.               *)
(***************************************************************************)
EXTENDS Naturals

CONSTANTS
  Uploaders,  \* concurrent calls of resumableUpload for one target and object
  Total,      \* chunks of the object
  MaxOpened   \* provider uploads opened in a behaviour (a bound)

ASSUME ChunkedUploadAssumption == Total \in Nat \ {0} /\ MaxOpened \in Nat

VARIABLES
  progress,  \* the media_upload_sessions row: upload id, chunks, completed
  provider,  \* provider uploads by id: chunks received, whether finalized
  up         \* each call: where it is, the id and the offset it works with
chunkedVars == <<progress, provider, up>>

NoRow == [id |-> 0, sent |-> 0, completed |-> FALSE]
Resting == [at |-> "idle", id |-> 0, offset |-> 0]
Move(u, r) == up' = [up EXCEPT ![u] = r]

ChunkedInit ==
  /\ progress = NoRow
  /\ provider = [i \in {} |-> 0]
  /\ up = [u \in Uploaders |-> Resting]

(* The session is loaded: done already, to be resumed, or not there yet.    *)
Load(u) ==
  /\ up[u].at = "idle" /\ ~progress.completed
  /\ Move(u, IF progress.id = 0 THEN [Resting EXCEPT !.at = "initiate"]
             ELSE [at |-> "upload", id |-> progress.id, offset |-> progress.sent])
  /\ UNCHANGED <<progress, provider>>

Initiate(u) ==
  /\ up[u].at = "initiate"
  /\ \E i \in 1 .. MaxOpened :
       /\ i \notin DOMAIN provider
       /\ provider' = [x \in DOMAIN provider \cup {i} |->
                         IF x = i THEN [got |-> {}, final |-> FALSE] ELSE provider[x]]
       /\ Move(u, [at |-> "insert", id |-> i, offset |-> 0])
  /\ UNCHANGED progress

(* One row per target and object: a second one is refused, and the call     *)
(* fails.                                                                   *)
InsertSession(u) ==
  /\ up[u].at = "insert"
  /\ IF progress.id = 0
     THEN progress' = [NoRow EXCEPT !.id = up[u].id] /\ Move(u, [up[u] EXCEPT !.at = "upload"])
     ELSE UNCHANGED progress /\ Move(u, Resting)
  /\ UNCHANGED provider

(* Mutant: the resume point is committed before the chunk is sent.          *)
UploadChunkCommitFirst(u) ==
  /\ up[u].at = "upload" /\ up[u].offset < Total
  /\ progress' = [progress EXCEPT !.sent = up[u].offset + 1]
  /\ \/ Move(u, [up[u] EXCEPT !.offset = @ + 1])
          /\ provider' = [provider EXCEPT ![up[u].id].got = @ \cup {up[u].offset + 1}]
     \/ Move(u, Resting) /\ UNCHANGED provider

UploadChunk(u) ==
  /\ up[u].at = "upload" /\ up[u].offset < Total
  /\ provider' = [provider EXCEPT ![up[u].id].got = @ \cup {up[u].offset + 1}]
  /\ Move(u, [up[u] EXCEPT !.at = "commit", !.offset = @ + 1])
  /\ UNCHANGED progress

CommitOffset(u) ==
  /\ up[u].at = "commit"
  /\ progress' = [progress EXCEPT !.sent = up[u].offset]
  /\ Move(u, [up[u] EXCEPT !.at = "upload"])
  /\ UNCHANGED provider

Finalize(u) ==
  /\ up[u].at = "upload" /\ up[u].offset = Total
  /\ provider' = [provider EXCEPT ![up[u].id].final = TRUE]
  /\ Move(u, [up[u] EXCEPT !.at = "complete"])
  /\ UNCHANGED progress

Complete(u) ==
  /\ up[u].at = "complete"
  /\ progress' = [progress EXCEPT !.completed = TRUE]
  /\ Move(u, Resting)
  /\ UNCHANGED provider

(* The connection breaks or the process dies, anywhere.                     *)
Interrupt(u) ==
  /\ up[u].at # "idle"
  /\ Move(u, Resting)
  /\ UNCHANGED <<progress, provider>>

ChunkedNext ==
  \E u \in Uploaders :
    \/ Load(u) \/ Initiate(u) \/ InsertSession(u) \/ UploadChunk(u)
    \/ CommitOffset(u) \/ Finalize(u) \/ Complete(u) \/ Interrupt(u)

ChunkedSpec == ChunkedInit /\ [][ChunkedNext]_chunkedVars

-----------------------------------------------------------------------------
(* A provider upload is only finalized with every chunk received, however   *)
(* often it was interrupted and resumed, and by whomever.                   *)
UploadWhole ==
  \A i \in DOMAIN provider : provider[i].final => provider[i].got = 1 .. Total
=============================================================================
