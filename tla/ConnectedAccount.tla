-------------------------- MODULE ConnectedAccount --------------------------
(***************************************************************************)
(* One connected account: its status row with the notify latch, its row in *)
(* the token vault, the tasks that refresh the token (publish jobs,        *)
(* lookups, metric pulls and the proactive tick all call ensureFreshToken),*)
(* the hourly re-encryption, and people who disconnect and reconnect.      *)
(* A step is one transaction, one autocommitted statement or one provider  *)
(* call.  The provider rotates refresh tokens: using one invalidates it.   *)
(***************************************************************************)
EXTENDS Naturals, FiniteSets

CONSTANTS
  Refreshers,     (* tasks that may be inside ensureFreshToken              *)
  MaxExpiries,    (* bound: how often a stored token comes near its expiry  *)
  MaxConnects,    (* bound: reconnects                                      *)
  MaxCrashes,     (* bound: crashes of a task                               *)
  None

(* The bad statuses a failed refresh may put the account into.              *)
Bad == {"auth_expired", "revoked"}

ASSUME AccountAssumption ==
  /\ MaxExpiries \in Nat /\ MaxConnects \in Nat /\ MaxCrashes \in Nat
  /\ None \notin Refreshers \cup Bad

VARIABLES
  status, latch,  (* connected_accounts.status, health_notified_status      *)
  tokens,         (* the oauth_tokens row, or None                          *)
  lock,           (* holder of the account's advisory lock                  *)
  pc, seen,       (* per refresher: where it is, the token it holds         *)
  copy,           (* the row reencryptTokens has read, or None              *)
  key,            (* current key of the vault's keyring                     *)
  valid,          (* refresh tokens the provider accepts                    *)
  issued,         (* history: tokens the provider has issued                *)
  refreshed,      (* history: refreshes the provider has granted            *)
  expiries,       (* history: times a stored token needed a refresh         *)
  alerted,        (* history: statuses announced since the last connect     *)
  connects, crashes

accountRow == <<status, latch, alerted>>
provider   == <<valid, issued, refreshed>>
bounds     == <<expiries, connects, crashes>>
vars == <<accountRow, tokens, lock, pc, seen, copy, key, provider, bounds>>

Labels == {"idle", "lock", "refresh", "store", "mark"}
Row    == [id : Nat, token : Nat, key : {1, 2}, stale : BOOLEAN]

NeedsRefresh == tokens # None /\ tokens.stale

Goto(r, l) == pc' = [pc EXCEPT ![r] = l]

-----------------------------------------------------------------------------
(* ensureFreshToken.  A fresh token is returned at once and changes nothing.*)

FindStale(r) ==
  /\ pc[r] = "idle"
  /\ NeedsRefresh
  /\ Goto(r, "lock")
  /\ UNCHANGED <<accountRow, tokens, lock, seen, copy, key, provider, bounds>>

(* The advisory lock, then the token is read again.                         *)
(* Mutant: the second look at the expiry is missing.                        *)
LockAndRefresh(r) ==
  /\ pc[r] = "lock" /\ lock = None
  /\ \/ /\ tokens # None
        /\ lock' = r
        /\ seen' = [seen EXCEPT ![r] = tokens.token]
        /\ Goto(r, "refresh")
     \/ /\ tokens = None
        /\ Goto(r, "idle")
        /\ UNCHANGED <<lock, seen>>
  /\ UNCHANGED <<accountRow, tokens, copy, key, provider, bounds>>

LockAndRecheck(r) ==
  /\ pc[r] = "lock" /\ lock = None
  /\ \/ /\ NeedsRefresh
        /\ lock' = r
        /\ seen' = [seen EXCEPT ![r] = tokens.token]
        /\ Goto(r, "refresh")
     \/ /\ ~NeedsRefresh
        /\ Goto(r, "idle")
        /\ UNCHANGED <<lock, seen>>
  /\ UNCHANGED <<accountRow, tokens, copy, key, provider, bounds>>

RefreshGranted(r) ==
  /\ pc[r] = "refresh"
  /\ seen[r] \in valid
  /\ issued' = issued + 1
  /\ valid' = (valid \ {seen[r]}) \cup {issued'}
  /\ refreshed' = refreshed + 1
  /\ seen' = [seen EXCEPT ![r] = issued']
  /\ Goto(r, "store")
  /\ UNCHANGED <<accountRow, tokens, lock, copy, key, bounds>>

(* The provider refuses the token or cannot be reached: the transaction     *)
(* ends and the lock with it; the status is set in a transaction of its own.*)
(* Mutant: the failure is swallowed.                                        *)
RefreshRefusedSilently(r) ==
  /\ pc[r] = "refresh"
  /\ lock' = None
  /\ Goto(r, "idle")
  /\ UNCHANGED <<accountRow, tokens, seen, copy, key, provider, bounds>>

RefreshRefused(r) ==
  /\ pc[r] = "refresh"
  /\ lock' = None
  /\ Goto(r, "mark")
  /\ UNCHANGED <<accountRow, tokens, seen, copy, key, provider, bounds>>

(* storeTokens: an upsert by account, then the commit.  A row keeps its id; *)
(* a new row is known by the token it was first stored with.                *)
Stored(t) == [id    |-> IF tokens = None THEN t ELSE tokens.id,
              token |-> t, key |-> key, stale |-> FALSE]

StoreTokens(r) ==
  /\ pc[r] = "store"
  /\ tokens' = Stored(seen[r])
  /\ lock' = None
  /\ Goto(r, "idle")
  /\ UNCHANGED <<accountRow, seen, copy, key, provider, bounds>>

(* setAccountUnhealthy: no condition on the status it replaces; an event    *)
(* only when the latch does not hold the status yet.                        *)
SetAccountUnhealthy(r) ==
  /\ pc[r] = "mark"
  /\ \E s \in Bad :
       /\ status' = s
       /\ latch' = s
       /\ alerted' = IF latch = s THEN alerted ELSE alerted \cup {s}
  /\ Goto(r, "idle")
  /\ UNCHANGED <<tokens, lock, seen, copy, key, provider, bounds>>

-----------------------------------------------------------------------------
(* reencryptTokens: a read, then an update of the row by its id.            *)

ReadOldKey ==
  /\ copy = None
  /\ tokens # None /\ tokens.key # key
  /\ copy' = tokens
  /\ UNCHANGED <<accountRow, tokens, lock, pc, seen, key, provider, bounds>>

(* Mutant: the new ciphertext is stored under the old key id.               *)
WriteUnderOldKey ==
  /\ copy # None
  /\ tokens' = IF tokens # None /\ tokens.id = copy.id
                 THEN [tokens EXCEPT !.token = copy.token, !.key = copy.key] ELSE tokens
  /\ copy' = None
  /\ UNCHANGED <<accountRow, lock, pc, seen, key, provider, bounds>>

WriteNewKey ==
  /\ copy # None
  /\ tokens' = IF tokens # None /\ tokens.id = copy.id
                 THEN [tokens EXCEPT !.token = copy.token, !.key = key] ELSE tokens
  /\ copy' = None
  /\ UNCHANGED <<accountRow, lock, pc, seen, key, provider, bounds>>

-----------------------------------------------------------------------------
(* People *)

(* The revocation at the provider is best effort.                           *)
Revoked == IF tokens = None THEN {} ELSE {tokens.token}

Disconnect ==
  /\ status # "disconnected"
  /\ status' = "disconnected"
  /\ tokens' = None
  /\ valid' \in {valid, valid \ Revoked}
  /\ UNCHANGED <<latch, alerted, lock, pc, seen, copy, key, issued, refreshed, bounds>>

(* persistConnectedAccount reattaches the row with a grant of its own.      *)
(* Mutant: the latch is not cleared.                                        *)
ReconnectLatched ==
  /\ connects < MaxConnects
  /\ connects' = connects + 1
  /\ status' = "active" /\ alerted' = {}
  /\ issued' = issued + 1
  /\ valid' = valid \cup {issued'}
  /\ tokens' = Stored(issued')
  /\ UNCHANGED <<latch, lock, pc, seen, copy, key, refreshed, expiries, crashes>>

Reconnect ==
  /\ connects < MaxConnects
  /\ connects' = connects + 1
  /\ status' = "active" /\ latch' = None /\ alerted' = {}
  /\ issued' = issued + 1
  /\ valid' = valid \cup {issued'}
  /\ tokens' = Stored(issued')
  /\ UNCHANGED <<lock, pc, seen, copy, key, refreshed, expiries, crashes>>

-----------------------------------------------------------------------------
(* Environment *)

TokenNearsExpiry ==
  /\ tokens # None /\ ~tokens.stale
  /\ expiries < MaxExpiries
  /\ expiries' = expiries + 1
  /\ tokens' = [tokens EXCEPT !.stale = TRUE]
  /\ UNCHANGED <<accountRow, lock, pc, seen, copy, key, provider, connects, crashes>>

KeyRotates ==
  /\ key = 1 /\ key' = 2
  /\ UNCHANGED <<accountRow, tokens, lock, pc, seen, copy, provider, bounds>>

(* The transaction of a dead task rolls back and its lock is released.      *)
Crash(r) ==
  /\ pc[r] # "idle"
  /\ crashes < MaxCrashes
  /\ crashes' = crashes + 1
  /\ lock' = IF lock = r THEN None ELSE lock
  /\ Goto(r, "idle")
  /\ UNCHANGED <<accountRow, tokens, seen, copy, key, provider, expiries, connects>>

-----------------------------------------------------------------------------
Init ==
  /\ status = "active" /\ latch = None /\ alerted = {}
  /\ tokens = [id |-> 1, token |-> 1, key |-> 1, stale |-> FALSE]
  /\ lock = None
  /\ pc = [r \in Refreshers |-> "idle"]
  /\ seen = [r \in Refreshers |-> 0]
  /\ copy = None
  /\ key = 1
  /\ valid = {1} /\ issued = 1 /\ refreshed = 0
  /\ expiries = 0 /\ connects = 0 /\ crashes = 0

EnsureFreshToken(r) ==
  \/ FindStale(r) \/ LockAndRecheck(r)
  \/ RefreshGranted(r) \/ RefreshRefused(r)
  \/ StoreTokens(r) \/ SetAccountUnhealthy(r)

Next ==
  \/ \E r \in Refreshers : EnsureFreshToken(r) \/ Crash(r)
  \/ ReadOldKey \/ WriteNewKey
  \/ Disconnect \/ Reconnect
  \/ TokenNearsExpiry \/ KeyRotates

Spec == Init /\ [][Next]_vars

(* The proactive tick looks for tokens near expiry of active accounts every *)
(* five minutes; a task goes on unless it crashes; the hourly re-encryption *)
(* runs.                                                                    *)
Fairness ==
  /\ WF_vars(status = "active" /\ \E r \in Refreshers : FindStale(r))
  /\ \A r \in Refreshers : WF_vars(pc[r] # "idle" /\ EnsureFreshToken(r))
  /\ WF_vars(ReadOldKey) /\ WF_vars(WriteNewKey)

FairSpec == Spec /\ Fairness

-----------------------------------------------------------------------------
TypeOK ==
  /\ status \in {"active", "disconnected"} \cup Bad
  /\ latch \in Bad \cup {None}
  /\ alerted \subseteq Bad
  /\ tokens \in Row \cup {None}
  /\ lock \in Refreshers \cup {None}
  /\ pc \in [Refreshers -> Labels]
  /\ seen \in [Refreshers -> Nat]
  /\ copy \in Row \cup {None}
  /\ key \in {1, 2}
  /\ valid \subseteq Nat
  /\ issued \in Nat /\ refreshed \in Nat
  /\ expiries \in Nat /\ connects \in Nat /\ crashes \in Nat

(* Single flight: of any number of tasks that find the same token stale,    *)
(* one asks the provider; a crash may cost one refresh more.                *)
OneRefreshPerExpiry == refreshed <= expiries + crashes

(* An account in a bad status has been announced in that status since it    *)
(* was last connected, however statuses, reconnects and late failures mix.  *)
UnhealthyIsAnnounced == status \in Bad => status \in alerted

(* An active account is not left with a token near expiry: it is refreshed, *)
(* put into a bad status, disconnected, or reconnected.                     *)
StaleIsResolved ==
  (status = "active" /\ NeedsRefresh) ~> ~(status = "active" /\ NeedsRefresh)

(* Key rotation completes: no row stays under the old key.                  *)
OldKeyDrains == key = 2 ~> (tokens = None \/ tokens.key = 2)

(* Re-encryption is safe: while nothing is in flight, the vault of an       *)
(* active account holds a token the provider accepts.                       *)
StoredTokenWorks ==
  status = "active" /\ tokens # None /\ lock = None => tokens.token \in valid
=============================================================================
