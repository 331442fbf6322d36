----------------------------- MODULE PublicApi ------------------------------
(***************************************************************************)
(* A write of the public API under one Idempotency-Key                     *)
(* (src/api/idempotency.ts, public-routes.ts, keys.ts).  The same client   *)
(* call arrives several times, because answers get lost and clients retry. *)
(* Claiming the key, running the handler, storing its answer and releasing *)
(* a failed claim are transactions of their own.                           *)
(***************************************************************************)
EXTENDS Naturals

CONSTANTS
  Attempts,   \* arrivals of the call at the server
  Bodies,     \* request bodies it may carry
  PerMinute,  \* rate_limit_per_min of the key
  MaxTroubles,\* requests that fail in a window (a bound)
  MaxWindows  \* retention windows of 24 hours in a behaviour (a bound)

ASSUME PublicApiAssumption ==
  /\ PerMinute \in Nat
  /\ MaxTroubles \in Nat
  /\ MaxWindows \in Nat

VARIABLES
  apiKey,   \* the api_keys row: status, scopes; and its requests in this minute
  claimRow, \* the api_idempotency_keys row, or NoClaim
  att,      \* each arrival: where it is, its body, the answer sent
  made,     \* what the handler did in the current window: one number per run
  troubles, \* requests that failed in the current window
  windows
publicApiVars == <<apiKey, claimRow, att, made, troubles, windows>>

NoClaim == [status |-> "none"]
Running == {"run", "store", "release"}

PublicApiInit ==
  /\ apiKey = [status |-> "none", scopes |-> {}, used |-> 0]
  /\ claimRow = NoClaim
  /\ att = [r \in Attempts |-> [at |-> "client"]]
  /\ made = 0
  /\ troubles = 0
  /\ windows = 0

SetArrival(r, f) == att' = [att EXCEPT ![r] = f]
Advance(r, at) == SetArrival(r, [att[r] EXCEPT !.at = at])
Reply(r, what) == SetArrival(r, [at |-> "answered", what |-> what])

(* The Owner makes the key, with at least one scope, and may revoke it.     *)
CreateApiKey(scopes) ==
  /\ apiKey.status = "none"
  /\ apiKey' = [apiKey EXCEPT !.status = "live", !.scopes = scopes]
  /\ UNCHANGED <<claimRow, att, made, troubles, windows>>

RevokeApiKey ==
  /\ apiKey.status = "live"
  /\ apiKey' = [apiKey EXCEPT !.status = "revoked"]
  /\ UNCHANGED <<claimRow, att, made, troubles, windows>>

(* The preHandler reads the key on every request, then counts the request   *)
(* against the minute; requireScope is the first line of the route.         *)
Authenticate(r, b) ==
  /\ att[r].at = "client" /\ apiKey.status # "none"
  /\ \/ /\ apiKey.status = "revoked"
        /\ Reply(r, "unauthorized")
        /\ UNCHANGED apiKey
     \/ /\ apiKey.status = "live" /\ apiKey.used >= PerMinute
        /\ Reply(r, "rate_limited")
        /\ UNCHANGED apiKey
     \/ /\ apiKey.status = "live" /\ apiKey.used < PerMinute
        /\ apiKey' = [apiKey EXCEPT !.used = @ + 1]
        /\ IF "write" \in apiKey.scopes
           THEN SetArrival(r, [at |-> "claim", body |-> b, owns |-> FALSE])
           ELSE Reply(r, "forbidden")
  /\ UNCHANGED <<claimRow, made, troubles, windows>>

NewMinute ==
  /\ apiKey.used > 0
  /\ apiKey' = [apiKey EXCEPT !.used = 0]
  /\ UNCHANGED <<claimRow, att, made, troubles, windows>>

(* Mutant: a claim still in progress is taken over as abandoned.            *)
TakeOverKey(r) ==
  /\ att[r].at = "claim"
  /\ IF claimRow.status # "completed"
     THEN /\ claimRow' = [status |-> "in_progress", body |-> att[r].body]
          /\ SetArrival(r, [att[r] EXCEPT !.at = "run", !.owns = TRUE])
     ELSE Advance(r, "lookup") /\ UNCHANGED claimRow
  /\ UNCHANGED <<apiKey, made, troubles, windows>>

(* insert ... on conflict do nothing                                        *)
ClaimKey(r) ==
  /\ att[r].at = "claim"
  /\ IF claimRow = NoClaim
     THEN /\ claimRow' = [status |-> "in_progress", body |-> att[r].body]
          /\ SetArrival(r, [att[r] EXCEPT !.at = "run", !.owns = TRUE])
     ELSE Advance(r, "lookup") /\ UNCHANGED claimRow
  /\ UNCHANGED <<apiKey, made, troubles, windows>>

(* The claim that was in the way is read; if it has gone meanwhile, the     *)
(* handler runs without one.                                                *)
LookUp(r) ==
  /\ att[r].at = "lookup"
  /\ CASE claimRow = NoClaim              -> Advance(r, "run")
       [] claimRow # NoClaim /\ claimRow.body # att[r].body -> Reply(r, "conflict")
       [] claimRow # NoClaim /\ claimRow.body = att[r].body ->
            Reply(r, IF claimRow.status = "completed" THEN claimRow.answer ELSE "in_progress")
  /\ UNCHANGED <<apiKey, claimRow, made, troubles, windows>>

(* The handler commits its change and then reads what it answers with.      *)
RunHandler(r) ==
  /\ att[r].at = "run"
  /\ made' = made + 1
  /\ IF att[r].owns THEN SetArrival(r, [at |-> "store", body |-> att[r].body, new |-> made + 1])
                    ELSE Reply(r, made + 1)
  /\ UNCHANGED <<apiKey, claimRow, troubles, windows>>

FailOrAnswer(r) ==
  IF att[r].owns THEN SetArrival(r, [at |-> "release"]) ELSE Reply(r, "error")

HandlerFails(r, when) ==
  /\ att[r].at = "run"
  /\ troubles < MaxTroubles /\ troubles' = troubles + 1
  /\ made' = IF when = "after" THEN made + 1 ELSE made
  /\ FailOrAnswer(r)
  /\ UNCHANGED <<apiKey, claimRow, windows>>

StoreResponse(r) ==
  /\ att[r].at = "store"
  /\ claimRow' = IF claimRow = NoClaim THEN NoClaim
                 ELSE [status |-> "completed", body |-> claimRow.body, answer |-> att[r].new]
  /\ Reply(r, att[r].new)
  /\ UNCHANGED <<apiKey, made, troubles, windows>>

StoreFails(r) ==
  /\ att[r].at = "store"
  /\ troubles < MaxTroubles /\ troubles' = troubles + 1
  /\ SetArrival(r, [at |-> "release"])
  /\ UNCHANGED <<apiKey, claimRow, made, windows>>

(* The catch block deletes the claim, unless it is completed by now; its    *)
(* own failure is swallowed.                                                *)
Release(r) ==
  /\ att[r].at = "release"
  /\ claimRow' \in {claimRow, IF claimRow.status = "in_progress" THEN NoClaim ELSE claimRow}
  /\ Reply(r, "error")
  /\ UNCHANGED <<apiKey, made, troubles, windows>>

(* The server dies, or the client hangs up: nothing more of this arrival.   *)
Die(r) ==
  /\ att[r].at \notin {"client", "answered"}
  /\ Reply(r, "lost")
  /\ UNCHANGED <<apiKey, claimRow, made, troubles, windows>>

(* gcIdempotencyKeys after 24 hours, which no request outlives.  From then  *)
(* on a reused key is documented to be new.                                 *)
GcIdempotencyKeys ==
  /\ windows < MaxWindows
  /\ \A r \in Attempts : att[r].at \in {"client", "answered"}
  /\ claimRow # NoClaim
  /\ claimRow' = NoClaim
  /\ windows' = windows + 1
  /\ made' = 0
  /\ troubles' = 0
  /\ UNCHANGED <<apiKey, att>>

PublicApiNext ==
  \/ \E r \in Attempts :
       \/ \E b \in Bodies : Authenticate(r, b)
       \/ ClaimKey(r) \/ LookUp(r) \/ RunHandler(r) \/ StoreResponse(r) \/ StoreFails(r)
       \/ \E w \in {"before", "after"} : HandlerFails(r, w)
       \/ Release(r) \/ Die(r)
  \/ \E S \in SUBSET {"read", "write"} \ {{}} : CreateApiKey(S)
  \/ RevokeApiKey \/ NewMinute \/ GcIdempotencyKeys

PublicApiSpec == PublicApiInit /\ [][PublicApiNext]_publicApiVars

-----------------------------------------------------------------------------
(* In one retention window in which no request fails the handler has its    *)
(* effect at most once, however often the call arrives, whatever overlaps   *)
(* and wherever a server dies.                                              *)
EffectOnce == troubles = 0 => made <= 1
=============================================================================
