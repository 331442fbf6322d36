---------------------------- MODULE AccessProofs ----------------------------
(***************************************************************************)
(* Who is let in, and what a call does once: a workspace keeps an owner,   *)
(* for any number of people, addresses and roles, while ownership is not   *)
(* transferred and at most two requests that lock the owners run at a      *)
(* time; and a call under one Idempotency-Key takes effect once, for any   *)
(* number of arrivals, bodies and server deaths, in a window in which no   *)
(* request fails.  And in a browser with one tab, for any number of        *)
(* sessions, rotations, calls and people: no session is revoked as stolen  *)
(* but for an answer that was lost, and the tab acts for the user it shows.*)
(* The last part is the composer of that tab: what it schedules is what it *)
(* shows, to an author who waits for the saves.                            *)
(***************************************************************************)
EXTENDS Workspaces, Sessions, PublicApi, Composer, FiniteSetTheorems, TLAPS

-----------------------------------------------------------------------------
(* The members of a workspace.                                              *)

NoTransfers == Transfers = "nobody"
AtMostTwo == \A r, q, p \in Requests : r = q \/ q = p \/ r = p

Changes == {"member:change_role", "member:remove"}
Invitations == {NoInvite} \cup [status : {"pending", "expired"}, role : Roles]
Under == [at : {"resolved", "waiting", "read"}, op : Changes, by : Users, on : Users,
          to : Roles \cup {"none"}, rows : SUBSET Users]

MembersTypeOK ==
  /\ member \in [Users -> Roles \cup {"none"}]
  /\ invite \in [Addresses -> Invitations]
  /\ deleted \in BOOLEAN
  /\ req \in [Requests -> {Idle} \cup Under]

Reading(r) == req[r].at = "read"
Kept(r) == req[r].rows \cap Owners

(* The request takes an owner away.                                         *)
Demotes(q) == member[q.on] = "owner" /\ (q.op = "member:remove" \/ q.to # "owner")

(* One request holds the locks.  Its rows are members, one of them owns the *)
(* workspace, and one still does when it has written.                       *)
OneReads ==
  /\ \A r, q \in Requests : Reading(r) /\ Reading(q) => r = q
  /\ \A r \in Requests : Reading(r) =>
       /\ Kept(r) # {}
       /\ Demotes(req[r]) => Kept(r) \ {req[r].on} # {}
       /\ member[req[r].on] # "none"
       /\ \A u \in req[r].rows : member[u] # "none"

(* One waits.  Its snapshot holds every owner whose row the reader locked,  *)
(* so that an owner is left in it when the reader ends.                     *)
OneWaits ==
  /\ \A r, q \in Requests : Waiting(r) /\ Waiting(q) => r = q
  /\ \A r, q \in Requests : Reading(r) /\ Waiting(q) => Kept(r) \subseteq req[q].rows
  /\ \A q \in Requests : Waiting(q) => Kept(q) # {} \/ \E r \in Requests : Reading(r)

OwnerInv ==
  /\ MembersTypeOK
  /\ OwnerExists
  /\ OneReads
  /\ OneWaits

-----------------------------------------------------------------------------
(* Two owners are more than any one of them.                                *)
LEMMA MoreThanOne ==
  ASSUME NEW S, IsFiniteSet(S), ~(Cardinality(S) <= 1), NEW u
  PROVE  S \ {u} # {}
<1> SUFFICES ASSUME S \ {u} = {} PROVE FALSE
  OBVIOUS
<1>1. S = {} \/ S = {u}
  OBVIOUS
<1>2. Cardinality({}) = 0 /\ Cardinality({u}) = 1
  BY FS_EmptySet, FS_Singleton
<1> QED
  BY <1>1, <1>2, SMT

(* A request that is not idle carries its operation.                        *)
LEMMA RequestTyped ==
  ASSUME MembersTypeOK, NEW r \in Requests, req[r] # Idle
  PROVE  req[r] \in Under
BY DEF MembersTypeOK

LEMMA BusyTyped ==
  ASSUME MembersTypeOK, NEW r \in Requests, Reading(r) \/ Waiting(r)
  PROVE  req[r] \in Under
BY RequestTyped DEF Reading, Waiting, Idle

(* It holds initially: the founder owns the workspace.                      *)
LEMMA InitOwner == WorkspacesInit => OwnerInv
<1> SUFFICES ASSUME WorkspacesInit PROVE OwnerInv
  OBVIOUS
<1>1. MembersTypeOK
  BY DEF WorkspacesInit, MembersTypeOK, Invitations, Roles
<1>2. OwnerExists
  BY WorkspacesAssumption DEF WorkspacesInit, OwnerExists, Owners
<1>3. OneReads /\ OneWaits
  BY DEF WorkspacesInit, OneReads, OneWaits, Reading, Waiting, Idle
<1> QED
  BY <1>1, <1>2, <1>3 DEF OwnerInv

-----------------------------------------------------------------------------
(* A request that ends without a write leaves whoever waits with an owner.  *)
LEMMA EndsKeep ==
  ASSUME OwnerInv, NEW r \in Requests, req' = [req EXCEPT ![r] = Idle],
         UNCHANGED <<member, invite, deleted>>
  PROVE  OwnerInv'
<1> USE DEF Reading, Waiting, Kept, Owners
<1>1. \A q \in Requests : req'[q] = IF q = r THEN Idle ELSE req[q]
  BY DEF OwnerInv, MembersTypeOK
<1>2. MembersTypeOK'
  BY DEF OwnerInv, MembersTypeOK
<1>3. OwnerExists'
  BY DEF OwnerInv, OwnerExists
<1>4. OneReads'
  BY <1>1 DEF OwnerInv, OneReads, Demotes, Idle
<1>5. ASSUME NEW q \in Requests, Waiting(q)'
      PROVE  Kept(q)' # {} \/ \E p \in Requests : Reading(p)'
  <2>1. q # r /\ Waiting(q) /\ req'[q] = req[q]
    BY <1>1, <1>5 DEF Idle
  <2>2. Kept(q) # {} \/ \E p \in Requests : Reading(p)
    BY <2>1 DEF OwnerInv, OneWaits
  <2>3. CASE Kept(q) # {}
    BY <2>1, <2>3
  <2>4. CASE Reading(r)
    BY <2>1, <2>4 DEF OwnerInv, OneReads, OneWaits
  <2>5. CASE \E p \in Requests \ {r} : Reading(p)
    BY <1>1, <2>5
  <2> QED
    BY <2>2, <2>3, <2>4, <2>5
<1>6. OneWaits'
  BY <1>1, <1>5 DEF OwnerInv, OneWaits, Idle
<1> QED
  BY <1>2, <1>3, <1>4, <1>6 DEF OwnerInv

(* A request that gets its locks while no other reads or waits.             *)
LEMMA LocksKeep ==
  ASSUME OwnerInv, NEW r \in Requests, req[r] # Idle, NEW rows \in SUBSET Users,
         rows \cap Owners # {}, Locked(r, rows), UNCHANGED <<member, invite, deleted>>,
         \A q \in Requests \ {r} : ~Reading(q) /\ ~Waiting(q)
  PROVE  OwnerInv'
<1> DEFINE fails == member[req[r].on] = "none" \/ Strands(req[r], rows \cap Owners)
<1>1. CASE fails
  <2>1. req' = [req EXCEPT ![r] = Idle]
    BY <1>1 DEF Locked
  <2> QED
    BY <2>1, EndsKeep
<1>2. CASE ~fails
  <2> DEFINE held == [req[r] EXCEPT !.at = "read", !.rows = Present(rows)]
  <2>1. req[r] \in Under
    BY RequestTyped DEF OwnerInv
  <2>2. req' = [req EXCEPT ![r] = held]
    BY <1>2 DEF Locked
  <2>3. /\ held \in Under
        /\ held.at = "read" /\ held.rows = Present(rows)
        /\ held.on = req[r].on /\ held.op = req[r].op /\ held.to = req[r].to
    BY <2>1 DEF Under, Present
  <2> HIDE DEF held
  <2>4. \A q \in Requests : req'[q] = IF q = r THEN held ELSE req[q]
    BY <2>2 DEF OwnerInv, MembersTypeOK
  <2>5. MembersTypeOK'
    BY <2>2, <2>3 DEF OwnerInv, MembersTypeOK
  <2>6. /\ \A q \in Requests : Reading(q)' <=> q = r
        /\ \A q \in Requests : ~Waiting(q)'
    BY <2>3, <2>4 DEF Reading, Waiting
  <2>7. Kept(r)' = rows \cap Owners
    BY <2>3, <2>4 DEF Kept, Owners, Present
  <2>8. ASSUME Demotes(held) PROVE (rows \cap Owners) \ {held.on} # {}
    <3>1. IsFiniteSet(Users) /\ rows \cap Owners \subseteq Users
      BY WorkspacesAssumption
    <3>2. IsFiniteSet(rows \cap Owners)
      BY <3>1, FS_Subset
    <3>3. ~(Cardinality(rows \cap Owners) <= 1)
      BY <1>2, <2>1, <2>3, <2>8 DEF Strands, Demotes, Under, Changes
    <3> QED
      BY <3>2, <3>3, MoreThanOne
  <2>9. OneReads'
    <3>1. member[held.on] # "none" /\ \A u \in held.rows : member[u] # "none"
      BY <1>2, <2>3 DEF Present
    <3>2. Demotes(req[r])' <=> Demotes(held)
      BY <2>4 DEF Demotes
    <3> QED
      BY <2>4, <2>6, <2>7, <2>8, <3>1, <3>2 DEF OneReads
  <2>10. OneWaits' /\ OwnerExists'
    BY <2>6 DEF OneWaits, OwnerInv, OwnerExists, Owners
  <2> QED
    BY <2>5, <2>9, <2>10 DEF OwnerInv
<1> QED
  BY <1>1, <1>2

(* An owner is among the rows the reader locks, so that a second request    *)
(* has to wait.                                                             *)
LEMMA ReaderLocks ==
  ASSUME OwnerInv, NEW r \in Requests, NEW q \in Requests \ {r}, Reading(q)
  PROVE  Kept(q) \subseteq LockedByOthers(r) /\ Kept(q) # {}
BY DEF OwnerInv, OneReads, Reading, Kept, LockedByOthers

-----------------------------------------------------------------------------
(* Steps that leave the roles and the locks alone.                          *)
LEMMA OthersKeep ==
  ASSUME OwnerInv, MembersTypeOK',
         UNCHANGED member,
         \A q \in Requests : (Reading(q)' \/ Waiting(q)') => req'[q] = req[q],
         \A q \in Requests : (Reading(q) \/ Waiting(q)) => req'[q] = req[q]
  PROVE  OwnerInv'
<1> USE DEF Reading, Waiting, Kept, Owners
<1>1. OwnerExists'
  BY DEF OwnerInv, OwnerExists
<1>2. OneReads'
  BY DEF OwnerInv, OneReads, Demotes
<1>3. OneWaits'
  BY DEF OwnerInv, OneWaits
<1> QED
  BY <1>1, <1>2, <1>3 DEF OwnerInv

LEMMA ArriveKeeps ==
  ASSUME OwnerInv, NoTransfers, NEW r \in Requests, NEW u \in Users, NEW x \in Users,
         \/ \E op \in Locking \ {"member:change_role"} : Arrive(r, u, op, x, "none")
         \/ \E n \in NewRoles : Arrive(r, u, "member:change_role", x, n)
  PROVE  OwnerInv'
<1>1. PICK op \in Locking, n \in Roles \cup {"none"} :
        Arrive(r, u, op, x, n) /\ op # "member:transfer_ownership"
  BY WorkspacesAssumption DEF Arrive, NoTransfers, Locking
<1> DEFINE new == [at |-> "resolved",
                   op |-> IF op = "member:leave" THEN "member:remove" ELSE op,
                   by |-> x, on |-> x, to |-> n, rows |-> {}]
<1>2. req' = [req EXCEPT ![r] = new] /\ req[r] = Idle /\ UNCHANGED <<member, invite, deleted>>
  BY <1>1 DEF Arrive
<1>3. new \in Under /\ new.at = "resolved"
  BY <1>1 DEF Under, Changes, Locking
<1> HIDE DEF new
<1>4. MembersTypeOK'
  BY <1>2, <1>3 DEF OwnerInv, MembersTypeOK
<1>5. \A q \in Requests : req'[q] = IF q = r THEN new ELSE req[q]
  BY <1>2 DEF OwnerInv, MembersTypeOK
<1> QED
  BY <1>2, <1>3, <1>4, <1>5, OthersKeep DEF Reading, Waiting, Idle

(* While a request reads the locks of an owner, the next one waits.         *)
LEMMA LockOwnersKeeps ==
  ASSUME OwnerInv, AtMostTwo, NEW r \in Requests, LockOwners(r)
  PROVE  OwnerInv'
<1>1. req[r].at = "resolved" /\ req[r] # Idle /\ UNCHANGED <<member, invite, deleted>>
  BY DEF LockOwners, Idle
<1>2. CASE Owners \cap LockedByOthers(r) = {}
  <2>1. \A q \in Requests \ {r} : ~Reading(q)
    BY <1>2, ReaderLocks DEF Kept
  <2>2. ASSUME NEW q \in Requests \ {r}, Waiting(q) PROVE FALSE
    <3>1. \A p \in Requests \ {q} : ~Reading(p)
      BY <1>1, <2>1 DEF Reading
    <3>2. LockedByOthers(q) = {}
      BY <3>1 DEF LockedByOthers, Reading
    <3> QED
      BY <2>2, <3>2 DEF LockOwners, NobodyGrantable, Grantable
  <2>3. Locked(r, Owners) /\ Owners \cap Owners # {} /\ Owners \in SUBSET Users
    BY <1>2 DEF LockOwners, OwnerInv, OwnerExists, Owners
  <2> QED
    BY <1>1, <2>1, <2>2, <2>3, LocksKeep
<1>3. CASE Owners \cap LockedByOthers(r) # {}
  <2> DEFINE queued == [req[r] EXCEPT !.at = "waiting", !.rows = Owners]
  <2>1. PICK q \in Requests \ {r} : Reading(q)
    BY <1>3 DEF LockedByOthers, Reading
  <2>2. req[r] \in Under
    BY <1>1, RequestTyped DEF OwnerInv
  <2>3. queued \in Under /\ queued.at = "waiting" /\ queued.rows = Owners
    BY <2>2 DEF Under, Owners
  <2>4. req' = [req EXCEPT ![r] = queued]
    BY <1>3 DEF LockOwners
  <2> HIDE DEF queued
  <2>5. \A p \in Requests : req'[p] = IF p = r THEN queued ELSE req[p]
    BY <2>4 DEF OwnerInv, MembersTypeOK
  <2>6. MembersTypeOK'
    BY <1>1, <2>3, <2>4 DEF OwnerInv, MembersTypeOK
  <2>7. OwnerExists'
    BY <1>1 DEF OwnerInv, OwnerExists, Owners
  <2>8. OneReads'
    BY <1>1, <2>3, <2>5 DEF OwnerInv, OneReads, Reading, Kept, Owners, Demotes
  <2>9. \A p \in Requests : Waiting(p)' => p = r
    BY <2>1, <2>5 DEF AtMostTwo, Waiting, Reading
  <2>10. Reading(q)' /\ \A p \in Requests : Kept(p)' \subseteq Owners'
    BY <2>1, <2>5 DEF Reading, Kept
  <2>11. Owners' = Owners /\ req'[r].rows = Owners
    BY <1>1, <2>3, <2>5 DEF Owners
  <2>12. OneWaits'
    BY <2>9, <2>10, <2>11 DEF OneWaits
  <2> QED
    BY <2>6, <2>7, <2>8, <2>12 DEF OwnerInv
<1> QED
  BY <1>2, <1>3

(* The lock is granted when its holder has gone: its snapshot still has an  *)
(* owner in it.                                                             *)
LEMMA GrantOwnersKeeps ==
  ASSUME OwnerInv, NEW r \in Requests, GrantOwners(r)
  PROVE  OwnerInv'
<1>1. /\ Waiting(r) /\ req[r].rows \cap LockedByOthers(r) = {}
      /\ Locked(r, req[r].rows) /\ UNCHANGED <<member, invite, deleted>>
  BY DEF GrantOwners, Grantable
<1>2. \A q \in Requests \ {r} : ~Reading(q)
  BY <1>1, ReaderLocks DEF OwnerInv, OneWaits
<1>3. ~Reading(r) /\ req[r] # Idle
  BY <1>1 DEF Waiting, Reading, Idle
<1>4. req[r].rows \cap Owners # {}
  BY <1>1, <1>2, <1>3 DEF OwnerInv, OneWaits, Kept
<1>5. \A q \in Requests \ {r} : ~Waiting(q)
  BY <1>1 DEF OwnerInv, OneWaits
<1>6. req[r].rows \in SUBSET Users
  BY <1>3, RequestTyped DEF OwnerInv, Under
<1> QED
  BY <1>1, <1>2, <1>3, <1>4, <1>5, <1>6, LocksKeep

(* What is written takes at most the target from the owners.                *)
LEMMA CommitKeeps ==
  ASSUME OwnerInv, NEW r \in Requests, Commit(r)
  PROVE  OwnerInv'
<1>1. /\ Reading(r) /\ req[r] # Idle
      /\ member' = Written(req[r])
      /\ req' = [req EXCEPT ![r] = Idle]
      /\ UNCHANGED <<invite, deleted>>
  BY DEF Commit, Reading, Idle
<1>2. req[r] \in Under
  BY <1>1, RequestTyped DEF OwnerInv
<1>3. /\ Kept(r) # {}
      /\ Demotes(req[r]) => Kept(r) \ {req[r].on} # {}
      /\ member[req[r].on] # "none"
  BY <1>1 DEF OwnerInv, OneReads
<1>4. \/ req[r].op = "member:remove" /\ member' = [member EXCEPT ![req[r].on] = "none"]
      \/ req[r].op = "member:change_role" /\ member' = [member EXCEPT ![req[r].on] = req[r].to]
  BY <1>1, <1>2, <1>3 DEF Written, SetRole, Under, Changes, OwnerInv, MembersTypeOK
<1>5. member' \in [Users -> Roles \cup {"none"}]
  BY <1>2, <1>4 DEF Under, OwnerInv, MembersTypeOK
<1>6. \A u \in Users \ {req[r].on} : member'[u] = member[u]
  BY <1>4 DEF OwnerInv, MembersTypeOK
<1>7. Kept(r) \cap Owners' # {}
  <2>1. req[r].on \in Users
    BY <1>2 DEF Under
  <2>2. CASE Demotes(req[r])
    BY <1>3, <1>6, <2>2 DEF Kept, Owners
  <2>3. CASE ~Demotes(req[r])
    <3>1. member[req[r].on] = "owner" => member'[req[r].on] = "owner"
      BY <1>4, <2>1, <2>3 DEF Demotes, OwnerInv, MembersTypeOK
    <3> QED
      BY <1>3, <1>6, <3>1 DEF Kept, Owners
  <2> QED
    BY <2>2, <2>3
<1>8. \A q \in Requests : req'[q] = IF q = r THEN Idle ELSE req[q]
  BY <1>1 DEF OwnerInv, MembersTypeOK
<1>9. \A q \in Requests : ~Reading(q)'
  BY <1>1, <1>8 DEF OwnerInv, OneReads, Reading, Idle
<1>10. ASSUME NEW q \in Requests, Waiting(q)' PROVE Kept(q)' # {}
  <2>1. q # r /\ Waiting(q) /\ req'[q] = req[q]
    BY <1>8, <1>10 DEF Waiting, Idle
  <2>2. Kept(r) \subseteq req[q].rows
    BY <1>1, <2>1 DEF OwnerInv, OneWaits
  <2> QED
    BY <1>7, <2>1, <2>2 DEF Kept
<1>11. OneWaits'
  BY <1>8, <1>9, <1>10 DEF OwnerInv, OneWaits, Waiting, Idle
<1>12. OneReads' /\ OwnerExists'
  BY <1>7, <1>9 DEF OneReads, OwnerExists
<1>13. MembersTypeOK'
  BY <1>1, <1>5 DEF OwnerInv, MembersTypeOK
<1> QED
  BY <1>11, <1>12, <1>13 DEF OwnerInv

(* A newcomer takes no role from anybody.                                   *)
LEMMA AcceptInviteKeeps ==
  ASSUME OwnerInv, NEW u \in Users, NEW e \in Addresses, AcceptInvite(u, e)
  PROVE  OwnerInv'
<1>1. invite[e].role \in Roles
  BY DEF AcceptInvite, OwnerInv, MembersTypeOK, Invitations, NoInvite
<1>2. /\ member' \in [Users -> Roles \cup {"none"}]
      /\ \A v \in Users : member[v] # "none" => member'[v] = member[v]
      /\ UNCHANGED <<deleted, req>>
  BY <1>1 DEF AcceptInvite, OwnerInv, MembersTypeOK
<1>3. MembersTypeOK'
  BY <1>2 DEF AcceptInvite, OwnerInv, MembersTypeOK, Invitations
<1>4. Owners \subseteq Owners' /\ OwnerExists'
  BY <1>2 DEF Owners, OwnerInv, OwnerExists
<1>5. ASSUME NEW r \in Requests, Reading(r)
      PROVE  /\ Kept(r)' = Kept(r)
             /\ Demotes(req[r])' <=> Demotes(req[r])
             /\ member'[req[r].on] # "none"
             /\ \A v \in req[r].rows : member'[v] # "none"
  <2>1. req[r] \in Under
    BY <1>5, BusyTyped DEF OwnerInv
  <2>2. \A v \in req[r].rows \cup {req[r].on} : v \in Users /\ member[v] # "none"
    BY <1>5, <2>1 DEF Under, OwnerInv, OneReads
  <2> QED
    BY <1>2, <2>2 DEF Kept, Owners, Demotes
<1>6. OneReads'
  BY <1>2, <1>5 DEF OwnerInv, OneReads, Reading
<1>7. \A q \in Requests : Kept(q) \subseteq Kept(q)'
  BY <1>2, <1>4 DEF Kept
<1>8. OneWaits'
  BY <1>2, <1>5, <1>7 DEF OwnerInv, OneWaits, Reading, Waiting
<1> QED
  BY <1>3, <1>4, <1>6, <1>8 DEF OwnerInv

-----------------------------------------------------------------------------
(* Every step keeps the invariant.                                          *)
LEMMA NextOwner ==
  ASSUME NoTransfers, AtMostTwo, OwnerInv, [WorkspacesNext]_workspacesVars
  PROVE  OwnerInv'
<1>1. CASE \E r \in Requests, u, x \in Users :
             \/ \E op \in Locking \ {"member:change_role"} : Arrive(r, u, op, x, "none")
             \/ \E n \in NewRoles : Arrive(r, u, "member:change_role", x, n)
  BY <1>1, ArriveKeeps
<1>2. CASE \E r \in Requests : LockOwners(r)
  BY <1>2, LockOwnersKeeps
<1>3. CASE \E r \in Requests : GrantOwners(r)
  BY <1>3, GrantOwnersKeeps
<1>4. CASE \E r \in Requests : Commit(r)
  BY <1>4, CommitKeeps
<1>5. CASE \E r \in Requests : Abort(r)
  BY <1>5, EndsKeep DEF Abort
<1>6. CASE \E u \in Users, e \in Addresses : AcceptInvite(u, e)
  BY <1>6, AcceptInviteKeeps
<1>7. CASE \E u \in Users, e \in Addresses, n \in NewRoles : InviteMember(u, e, n)
  <2>1. PICK e \in Addresses, n \in NewRoles :
          /\ invite' = [invite EXCEPT ![e] = [status |-> "pending", role |-> n]]
          /\ UNCHANGED <<member, deleted, req>>
    BY <1>7 DEF InviteMember
  <2>2. MembersTypeOK'
    BY <2>1, WorkspacesAssumption DEF OwnerInv, MembersTypeOK, Invitations
  <2> QED
    BY <2>1, <2>2, OthersKeep
<1>8. CASE \E e \in Addresses : InvitationExpires(e)
  <2>1. PICK e \in Addresses :
          /\ invite[e].status = "pending"
          /\ invite' = [invite EXCEPT ![e].status = "expired"]
          /\ UNCHANGED <<member, deleted, req>>
    BY <1>8 DEF InvitationExpires
  <2>2. invite[e] \in [status : {"pending", "expired"}, role : Roles]
    BY <2>1 DEF OwnerInv, MembersTypeOK, Invitations, NoInvite
  <2>3. MembersTypeOK'
    BY <2>1, <2>2 DEF OwnerInv, MembersTypeOK, Invitations
  <2> QED
    BY <2>1, <2>3, OthersKeep
<1>9. CASE \E u \in Users : DeleteWorkspace(u)
  <2>1. deleted' \in BOOLEAN /\ UNCHANGED <<member, invite, req>>
    BY <1>9 DEF DeleteWorkspace
  <2>2. MembersTypeOK'
    BY <2>1 DEF OwnerInv, MembersTypeOK
  <2> QED
    BY <2>1, <2>2, OthersKeep
<1>10. CASE UNCHANGED workspacesVars
  <2>1. UNCHANGED <<member, invite, deleted, req>>
    BY <1>10 DEF workspacesVars
  <2>2. MembersTypeOK'
    BY <2>1 DEF OwnerInv, MembersTypeOK
  <2> QED
    BY <2>1, <2>2, OthersKeep
<1> QED
  BY <1>1, <1>2, <1>3, <1>4, <1>5, <1>6, <1>7, <1>8, <1>9, <1>10 DEF WorkspacesNext

(* The members and the requests are what their types say.                   *)
THEOREM MembersTyped ==
  ASSUME NoTransfers, AtMostTwo
  PROVE  WorkspacesSpec => []MembersTypeOK
<1>1. OwnerInv => MembersTypeOK
  BY DEF OwnerInv
<1> QED
  BY <1>1, InitOwner, NextOwner, PTL DEF WorkspacesSpec

(* Removals, role changes and departures that overlap never leave the       *)
(* workspace without an owner: what lockOwners is for.                      *)
THEOREM OwnerStays ==
  ASSUME NoTransfers, AtMostTwo
  PROVE  WorkspacesSpec => []OwnerExists
<1>1. OwnerInv => OwnerExists
  BY DEF OwnerInv
<1> QED
  BY <1>1, InitOwner, NextOwner, PTL DEF WorkspacesSpec

-----------------------------------------------------------------------------
(* The calls of the public API.                                             *)

Answers == {"unauthorized", "rate_limited", "forbidden", "conflict", "in_progress", "error",
            "lost"} \cup Nat

Arrivals ==
  {[at |-> "client"], [at |-> "release"]}
    \cup [at : {"claim", "lookup", "run"}, body : Bodies, owns : BOOLEAN]
    \cup [at : {"store"}, body : Bodies, new : Nat]
    \cup [at : {"answered"}, what : Answers]

Claims ==
  {NoClaim} \cup [status : {"in_progress"}, body : Bodies]
    \cup [status : {"completed"}, body : Bodies, answer : Nat]

PublicApiTypeOK ==
  /\ claimRow \in Claims
  /\ att \in [Attempts -> Arrivals]
  /\ made \in Nat
  /\ troubles \in Nat

AtWork(r) == att[r].at \in {"run", "store"}

(* While no request has failed the row stands between the handler's run and *)
(* every later arrival: whoever runs the handler inserted it.               *)
Guarded ==
  /\ \A r \in Attempts :
       /\ att[r].at # "release"
       /\ att[r].at \in {"lookup", "run", "store"} => claimRow # NoClaim
       /\ att[r].at = "run" => att[r].owns /\ made = 0
  /\ \A r, q \in Attempts : AtWork(r) /\ AtWork(q) => r = q
  /\ made # 0 => claimRow # NoClaim
  /\ made <= 1

ApiInv ==
  /\ PublicApiTypeOK
  /\ troubles = 0 => Guarded

-----------------------------------------------------------------------------
(* It holds initially.                                                      *)
LEMMA InitApi == PublicApiInit => ApiInv
<1> SUFFICES ASSUME PublicApiInit PROVE ApiInv
  OBVIOUS
<1>1. PublicApiTypeOK
  BY DEF PublicApiInit, PublicApiTypeOK, Claims, Arrivals
<1>2. Guarded
  BY DEF PublicApiInit, Guarded, AtWork
<1> QED
  BY <1>1, <1>2 DEF ApiInv

(* An arrival that goes where it runs no handler, beside a row that stands. *)
LEMMA AdvanceKeeps ==
  ASSUME ApiInv, NEW r \in Attempts, NEW f \in Arrivals, SetArrival(r, f),
         f.at \in {"client", "claim", "lookup", "answered"},
         f.at = "lookup" => claimRow # NoClaim,
         UNCHANGED <<claimRow, made, troubles>>
  PROVE  ApiInv'
<1>1. \A q \in Attempts : att'[q] = IF q = r THEN f ELSE att[q]
  BY DEF SetArrival, ApiInv, PublicApiTypeOK
<1>2. PublicApiTypeOK'
  BY DEF SetArrival, ApiInv, PublicApiTypeOK
<1>3. ASSUME troubles' = 0 PROVE Guarded'
  BY <1>1, <1>3 DEF ApiInv, Guarded, AtWork
<1> QED
  BY <1>2, <1>3 DEF ApiInv

LEMMA ReplyKeeps ==
  ASSUME ApiInv, NEW r \in Attempts, NEW what \in Answers, Reply(r, what),
         UNCHANGED <<claimRow, made, troubles>>
  PROVE  ApiInv'
<1> DEFINE f == [at |-> "answered", what |-> what]
<1>1. f \in Arrivals /\ f.at = "answered" /\ SetArrival(r, f)
  BY DEF Arrivals, Reply
<1> HIDE DEF f
<1> QED
  BY <1>1, AdvanceKeeps

LEMMA AuthenticateKeeps ==
  ASSUME ApiInv, NEW r \in Attempts, NEW b \in Bodies, Authenticate(r, b)
  PROVE  ApiInv'
<1> DEFINE f == [at |-> "claim", body |-> b, owns |-> FALSE]
<1>1. CASE \E what \in Answers : Reply(r, what)
  BY <1>1, ReplyKeeps DEF Authenticate
<1>2. CASE SetArrival(r, f)
  <2>1. f \in Arrivals /\ f.at = "claim"
    BY DEF Arrivals
  <2> HIDE DEF f
  <2> QED
    BY <1>2, <2>1, AdvanceKeeps DEF Authenticate
<1> QED
  BY <1>1, <1>2 DEF Authenticate, Answers

(* The row that was inserted is the first: nobody is at work without one.   *)
LEMMA ClaimKeyKeeps ==
  ASSUME ApiInv, NEW r \in Attempts, ClaimKey(r)
  PROVE  ApiInv'
<1>1. att[r] \in [at : {"claim"}, body : Bodies, owns : BOOLEAN]
  BY DEF ClaimKey, ApiInv, PublicApiTypeOK, Arrivals
<1>2. CASE claimRow = NoClaim
  <2> DEFINE f == [att[r] EXCEPT !.at = "run", !.owns = TRUE]
             row == [status |-> "in_progress", body |-> att[r].body]
  <2>1. f \in Arrivals /\ f.at = "run" /\ f.owns
    BY <1>1 DEF Arrivals
  <2>2. row \in Claims /\ row # NoClaim
    BY <1>1 DEF Claims, NoClaim
  <2>3. claimRow' = row /\ att' = [att EXCEPT ![r] = f] /\ UNCHANGED <<made, troubles>>
    BY <1>2 DEF ClaimKey, SetArrival
  <2> HIDE DEF f, row
  <2>4. \A q \in Attempts : att'[q] = IF q = r THEN f ELSE att[q]
    BY <2>3 DEF ApiInv, PublicApiTypeOK
  <2>5. PublicApiTypeOK'
    BY <2>1, <2>2, <2>3 DEF ApiInv, PublicApiTypeOK
  <2>6. ASSUME troubles' = 0 PROVE Guarded'
    <3>1. Guarded /\ made = 0 /\ \A q \in Attempts : ~AtWork(q)
      BY <1>2, <2>3, <2>6 DEF ApiInv, Guarded, AtWork
    <3> QED
      BY <2>1, <2>2, <2>3, <2>4, <3>1 DEF Guarded, AtWork
  <2> QED
    BY <2>5, <2>6 DEF ApiInv
<1>3. CASE claimRow # NoClaim
  <2> DEFINE f == [att[r] EXCEPT !.at = "lookup"]
  <2>1. f \in Arrivals /\ f.at = "lookup"
    BY <1>1 DEF Arrivals
  <2>2. SetArrival(r, f) /\ UNCHANGED <<claimRow, made, troubles>>
    BY <1>3 DEF ClaimKey, Advance
  <2> HIDE DEF f
  <2> QED
    BY <1>3, <2>1, <2>2, AdvanceKeeps
<1> QED
  BY <1>2, <1>3

(* The row is still there when it is read, unless a request has failed.     *)
LEMMA LookUpKeeps ==
  ASSUME ApiInv, NEW r \in Attempts, LookUp(r)
  PROVE  ApiInv'
<1>1. att[r] \in [at : {"lookup"}, body : Bodies, owns : BOOLEAN]
  BY DEF LookUp, ApiInv, PublicApiTypeOK, Arrivals
<1>2. CASE claimRow = NoClaim
  <2> DEFINE f == [att[r] EXCEPT !.at = "run"]
  <2>1. f \in Arrivals
    BY <1>1 DEF Arrivals
  <2>2. att' = [att EXCEPT ![r] = f] /\ UNCHANGED <<claimRow, made, troubles>>
    BY <1>2 DEF LookUp, Advance, SetArrival
  <2> HIDE DEF f
  <2>3. troubles' # 0
    BY <1>1, <1>2, <2>2 DEF ApiInv, Guarded
  <2> QED
    BY <2>1, <2>2, <2>3 DEF ApiInv, PublicApiTypeOK
<1>3. CASE claimRow # NoClaim
  <2>1. claimRow.status = "completed" => claimRow.answer \in Nat
    BY <1>3 DEF ApiInv, PublicApiTypeOK, Claims
  <2>2. \E what \in Answers : Reply(r, what)
    BY <1>3, <2>1 DEF LookUp, Answers
  <2> QED
    BY <2>2, ReplyKeeps DEF LookUp
<1> QED
  BY <1>2, <1>3

(* Whoever runs the handler is the first and the only one.                  *)
LEMMA RunHandlerKeeps ==
  ASSUME ApiInv, NEW r \in Attempts, RunHandler(r)
  PROVE  ApiInv'
<1>1. att[r] \in [at : {"run"}, body : Bodies, owns : BOOLEAN] /\ made + 1 \in Nat
  BY DEF RunHandler, ApiInv, PublicApiTypeOK, Arrivals
<1> DEFINE f == IF att[r].owns THEN [at |-> "store", body |-> att[r].body, new |-> made + 1]
                ELSE [at |-> "answered", what |-> made + 1]
<1>2. f \in Arrivals /\ (att[r].owns => f.at = "store")
  BY <1>1 DEF Arrivals, Answers
<1>3. /\ att' = [att EXCEPT ![r] = f] /\ made' = made + 1
      /\ UNCHANGED <<claimRow, troubles>>
  BY DEF RunHandler, SetArrival, Reply
<1> HIDE DEF f
<1>4. \A q \in Attempts : att'[q] = IF q = r THEN f ELSE att[q]
  BY <1>3 DEF ApiInv, PublicApiTypeOK
<1>5. PublicApiTypeOK'
  BY <1>1, <1>2, <1>3 DEF ApiInv, PublicApiTypeOK
<1>6. ASSUME troubles' = 0 PROVE Guarded'
  <2>1. Guarded /\ att[r].owns /\ made = 0 /\ claimRow # NoClaim
    BY <1>1, <1>3, <1>6 DEF ApiInv, Guarded
  <2>2. \A q \in Attempts \ {r} : ~AtWork(q)
    BY <1>1, <2>1 DEF Guarded, AtWork
  <2>3. made' = 1
    BY <1>3, <2>1
  <2>4. \A q \in Attempts : att'[q].at # "run"
    BY <1>2, <1>4, <2>1, <2>2 DEF AtWork
  <2>5. \A q \in Attempts : AtWork(q)' => q = r
    BY <1>4, <2>2 DEF AtWork
  <2>6. \A q \in Attempts : att'[q].at # "release"
    BY <1>2, <1>4, <2>1 DEF Guarded
  <2> QED
    BY <1>3, <2>1, <2>3, <2>4, <2>5, <2>6 DEF Guarded
<1> QED
  BY <1>5, <1>6 DEF ApiInv

LEMMA StoreResponseKeeps ==
  ASSUME ApiInv, NEW r \in Attempts, StoreResponse(r)
  PROVE  ApiInv'
<1>1. att[r] \in [at : {"store"}, body : Bodies, new : Nat]
  BY DEF StoreResponse, ApiInv, PublicApiTypeOK, Arrivals
<1> DEFINE f == [at |-> "answered", what |-> att[r].new]
<1>2. f \in Arrivals /\ f.at = "answered"
  BY <1>1 DEF Arrivals, Answers
<1>3. att' = [att EXCEPT ![r] = f] /\ UNCHANGED <<made, troubles>>
  BY DEF StoreResponse, SetArrival, Reply
<1>4. claimRow' \in Claims /\ (claimRow # NoClaim => claimRow' # NoClaim)
  BY <1>1 DEF StoreResponse, ApiInv, PublicApiTypeOK, Claims, NoClaim
<1> HIDE DEF f
<1>5. \A q \in Attempts : att'[q] = IF q = r THEN f ELSE att[q]
  BY <1>3 DEF ApiInv, PublicApiTypeOK
<1>6. PublicApiTypeOK'
  BY <1>2, <1>3, <1>4 DEF ApiInv, PublicApiTypeOK
<1>7. ASSUME troubles' = 0 PROVE Guarded'
  BY <1>2, <1>3, <1>4, <1>5, <1>7 DEF ApiInv, Guarded, AtWork
<1> QED
  BY <1>6, <1>7 DEF ApiInv

(* From the first failure on nothing is promised before the window ends.    *)
LEMMA FailureKeeps ==
  ASSUME ApiInv, NEW r \in Attempts,
         StoreFails(r) \/ \E w \in {"before", "after"} : HandlerFails(r, w)
  PROVE  ApiInv'
<1>1. /\ troubles' = troubles + 1 /\ made' \in {made, made + 1}
      /\ UNCHANGED claimRow
      /\ \/ SetArrival(r, [at |-> "release"])
         \/ SetArrival(r, [at |-> "answered", what |-> "error"])
  BY DEF StoreFails, HandlerFails, FailOrAnswer, Reply
<1>2. {[at |-> "release"], [at |-> "answered", what |-> "error"]} \subseteq Arrivals
  BY DEF Arrivals, Answers
<1>3. PublicApiTypeOK'
  BY <1>1, <1>2 DEF SetArrival, ApiInv, PublicApiTypeOK
<1>4. troubles' # 0
  BY <1>1 DEF ApiInv, PublicApiTypeOK
<1> QED
  BY <1>3, <1>4 DEF ApiInv

LEMMA ReleaseKeeps ==
  ASSUME ApiInv, NEW r \in Attempts, Release(r)
  PROVE  ApiInv'
<1>1. troubles' = troubles /\ troubles # 0 /\ made' = made
  BY DEF Release, ApiInv, Guarded
<1>2. claimRow' \in Claims
  BY DEF Release, ApiInv, PublicApiTypeOK, Claims
<1>3. [at |-> "answered", what |-> "error"] \in Arrivals
  BY DEF Arrivals, Answers
<1>4. PublicApiTypeOK'
  BY <1>1, <1>2, <1>3 DEF Release, Reply, SetArrival, ApiInv, PublicApiTypeOK
<1> QED
  BY <1>1, <1>4 DEF ApiInv

(* A window ends when no request is under way, and the next starts afresh.  *)
LEMMA GcKeeps ==
  ASSUME ApiInv, GcIdempotencyKeys
  PROVE  ApiInv'
<1>1. PublicApiTypeOK'
  BY DEF GcIdempotencyKeys, ApiInv, PublicApiTypeOK, Claims
<1>2. Guarded'
  BY DEF GcIdempotencyKeys, Guarded, AtWork
<1> QED
  BY <1>1, <1>2 DEF ApiInv

-----------------------------------------------------------------------------
(* Every step keeps the invariant.                                          *)
LEMMA NextApi == ApiInv /\ [PublicApiNext]_publicApiVars => ApiInv'
<1> SUFFICES ASSUME ApiInv, [PublicApiNext]_publicApiVars PROVE ApiInv'
  OBVIOUS
<1>1. CASE \E r \in Attempts, b \in Bodies : Authenticate(r, b)
  BY <1>1, AuthenticateKeeps
<1>2. CASE \E r \in Attempts : ClaimKey(r)
  BY <1>2, ClaimKeyKeeps
<1>3. CASE \E r \in Attempts : LookUp(r)
  BY <1>3, LookUpKeeps
<1>4. CASE \E r \in Attempts : RunHandler(r)
  BY <1>4, RunHandlerKeeps
<1>5. CASE \E r \in Attempts : StoreResponse(r)
  BY <1>5, StoreResponseKeeps
<1>6. CASE \E r \in Attempts :
             StoreFails(r) \/ \E w \in {"before", "after"} : HandlerFails(r, w)
  BY <1>6, FailureKeeps
<1>7. CASE \E r \in Attempts : Release(r)
  BY <1>7, ReleaseKeeps
<1>8. CASE \E r \in Attempts : Die(r)
  BY <1>8, ReplyKeeps DEF Die, Answers
<1>9. CASE GcIdempotencyKeys
  BY <1>9, GcKeeps
<1>10. CASE UNCHANGED <<claimRow, att, made, troubles>>
  BY <1>10 DEF ApiInv, PublicApiTypeOK, Guarded, AtWork
<1> QED
  BY <1>1, <1>2, <1>3, <1>4, <1>5, <1>6, <1>7, <1>8, <1>9, <1>10
     DEF PublicApiNext, publicApiVars, CreateApiKey, RevokeApiKey, NewMinute

(* The claim, the arrivals and the counters are what their types say.       *)
THEOREM PublicApiTyped == PublicApiSpec => []PublicApiTypeOK
<1>1. ApiInv => PublicApiTypeOK
  BY DEF ApiInv
<1> QED
  BY <1>1, InitApi, NextApi, PTL DEF PublicApiSpec

(* In a window in which no request fails, the handler of                    *)
(* runIdempotent takes effect at most once.                                 *)
THEOREM TakesEffectOnce == PublicApiSpec => []EffectOnce
<1>1. ApiInv => EffectOnce
  BY DEF ApiInv, Guarded, EffectOnce
<1> QED
  BY <1>1, InitApi, NextApi, PTL DEF PublicApiSpec

-----------------------------------------------------------------------------
(* Sessions and the tokens that name them.                                  *)

Rows == [user : People, gen : Nat, revoked : BOOLEAN]
Named == Ids \cup {Nothing}
Held == {k \in Tokens : k.s \in Ids} \cup {Nothing}
Tallies == [reuses : Nat, resets : Nat, drops : Nat, crossed : BOOLEAN]
TabStates == [status : {"loading", "anon", "authed"}, shows : People \cup {Nothing},
              access : Named, reauth : BOOLEAN]
CallStates == [at : {"none", "sent", "waiting", "again", "done"}, with : Named]

SessionsTypeOK ==
  /\ \E n \in 0 .. MaxSessions : Ids = 1 .. n
  /\ \A s \in Ids : session[s] \in Rows
  /\ tally \in Tallies
  /\ resetTokens \in [People -> Nat]
  /\ cookie \in Held
  /\ tab \in [Tabs -> TabStates]
  /\ refreshing \in [Tabs -> Flights \cup {Nothing}]
  /\ \A t \in Tabs : refreshing[t] # Nothing =>
       /\ refreshing[t].token \in Held
       /\ refreshing[t].at = "rotated" => refreshing[t].token # Nothing
  /\ call \in [Tabs -> [AllCalls -> CallStates]]

LEMMA NextIdIsNew ==
  ASSUME SessionsTypeOK, Room
  PROVE  /\ NextId \in 1 .. MaxSessions /\ NextId \notin Ids
         /\ \E n \in 0 .. MaxSessions : Ids \cup {NextId} = 1 .. n
<1>1. PICK n \in 0 .. MaxSessions : Ids = 1 .. n
  BY DEF SessionsTypeOK
<1>2. MaxSessions \in Nat
  BY SessionsAssumption
<1>3. n + 1 \in 1 .. MaxSessions /\ n + 1 \notin Ids
  BY <1>1, <1>2, SMT DEF Room
<1>4. \E q \in 1 .. MaxSessions : q \notin Ids /\ \A m \in 1 .. MaxSessions : m < q => m \in Ids
  BY <1>1, <1>2, <1>3, SMT
<1>5. /\ NextId \in 1 .. MaxSessions /\ NextId \notin Ids
      /\ \A m \in 1 .. MaxSessions : m < NextId => m \in Ids
  BY <1>4 DEF NextId
<1>6. NextId = n + 1
  BY <1>1, <1>2, <1>3, <1>5, SMT
<1>7. Ids \cup {NextId} = 1 .. n + 1
  BY <1>1, <1>2, <1>6, SMT
<1> QED
  BY <1>2, <1>3, <1>5, <1>7, SMT

(* What the steps change of a row and of a tab.                             *)
LEMMA RowChanged ==
  ASSUME NEW r \in Rows
  PROVE  LET q == [r EXCEPT !.revoked = TRUE]
             p == [r EXCEPT !.gen = @ + 1]
         IN  /\ q \in Rows /\ q.user = r.user /\ q.gen = r.gen /\ q.revoked
             /\ p \in Rows /\ p.user = r.user /\ p.gen = r.gen + 1 /\ p.revoked = r.revoked
<1> DEFINE q == [r EXCEPT !.revoked = TRUE]
           p == [r EXCEPT !.gen = r.gen + 1]
<1>1. q \in Rows
  BY Zenon DEF Rows
<1>2. q.user = r.user /\ q.gen = r.gen /\ q.revoked
  BY Zenon DEF Rows
<1>3. p \in Rows /\ p.gen = r.gen + 1
  BY SMT DEF Rows
<1>4. p.user = r.user /\ p.revoked = r.revoked
  BY Zenon DEF Rows
<1> QED
  BY <1>1, <1>2, <1>3, <1>4, Zenon

LEMMA TabChanged ==
  ASSUME NEW r \in TabStates, NEW st \in {"loading", "anon", "authed"},
         NEW sh \in People \cup {Nothing}, NEW ac \in Named, NEW re \in BOOLEAN
  PROVE  /\ [r EXCEPT !.access = ac, !.status = st, !.shows = sh] \in TabStates
         /\ [r EXCEPT !.access = ac, !.status = st] \in TabStates
         /\ [r EXCEPT !.access = ac, !.shows = sh, !.status = st] \in TabStates
         /\ [r EXCEPT !.reauth = re] \in TabStates
<1>1. [r EXCEPT !.access = ac, !.status = st, !.shows = sh] \in TabStates
  BY Zenon DEF TabStates
<1>2. [r EXCEPT !.access = ac, !.status = st] \in TabStates
  BY Zenon DEF TabStates
<1>3. [r EXCEPT !.access = ac, !.shows = sh, !.status = st] \in TabStates
  BY Zenon DEF TabStates
<1>4. [r EXCEPT !.reauth = re] \in TabStates
  BY SMT DEF TabStates
<1> QED
  BY <1>1, <1>2, <1>3, <1>4

LEMMA OverlaidTyped ==
  ASSUME NEW r \in TabStates, NEW b \in BOOLEAN
  PROVE  Overlaid(r, b) \in TabStates
<1>1. r.reauth \/ (b /\ r.status = "authed") \in BOOLEAN
  OBVIOUS
<1>2. /\ r.status \in {"loading", "anon", "authed"}
      /\ r.shows \in People \cup {Nothing} /\ r.access \in Named
  BY SMT DEF TabStates
<1> QED
  BY <1>1, <1>2, TabChanged DEF Overlaid

(* Revoking leaves every row where it is.                                   *)
LEMMA RevokeSteps ==
  ASSUME SessionsTypeOK, NEW S, Revoke(S)
  PROVE  /\ Ids' = Ids
         /\ \A s \in Ids : /\ session'[s] \in Rows
                           /\ session'[s].user = session[s].user
                           /\ session'[s].gen = session[s].gen
                           /\ session[s].revoked => session'[s].revoked
                           /\ s \in S => session'[s].revoked
                           /\ s \notin S => session'[s] = session[s]
<1>1. Ids' = Ids
  BY DEF Revoke, Ids
<1>2. \A s \in Ids : session[s] \in Rows
  BY DEF SessionsTypeOK
<1>3. ASSUME NEW s \in Ids
      PROVE  session'[s] = IF s \in S THEN [session[s] EXCEPT !.revoked = TRUE] ELSE session[s]
  BY <1>3 DEF Revoke
<1>4. ASSUME NEW s \in Ids
      PROVE  /\ session'[s] \in Rows /\ session'[s].user = session[s].user
             /\ session'[s].gen = session[s].gen
             /\ session[s].revoked => session'[s].revoked
             /\ s \in S => session'[s].revoked
             /\ s \notin S => session'[s] = session[s]
  <2>1. CASE s \in S
    <3> DEFINE q == [session[s] EXCEPT !.revoked = TRUE]
    <3>1. session[s] \in Rows /\ session'[s] = q
      BY <1>2, <1>3, <2>1
    <3>2. q \in Rows /\ q.user = session[s].user /\ q.gen = session[s].gen /\ q.revoked
      BY <3>1, RowChanged, Zenon
    <3> HIDE DEF q
    <3> QED
      BY <2>1, <3>1, <3>2
  <2>2. CASE s \notin S
    BY <1>2, <1>3, <2>2
  <2> QED
    BY <2>1, <2>2
<1> QED
  BY <1>1, <1>4

(* The server knows no less of a session after a step.                      *)
LEMMA SessionsKeptTyped ==
  ASSUME SessionsTypeOK, session' = session
  PROVE  Ids' = Ids /\ Named' = Named /\ Held' = Held
BY DEF Ids, Named, Held

LEMMA InitTyped == SessionsInit => SessionsTypeOK
<1> SUFFICES ASSUME SessionsInit PROVE SessionsTypeOK
  OBVIOUS
<1>1. Ids = {} /\ MaxSessions \in Nat
  BY SessionsAssumption, SMT DEF SessionsInit, Ids
<1>2. \E n \in 0 .. MaxSessions : Ids = 1 .. n
  <2>1. 0 \in 0 .. MaxSessions /\ 1 .. 0 = {}
    BY <1>1, SMT
  <2> QED
    BY <1>1, <2>1
<1>3. tally \in Tallies
  BY SMT DEF SessionsInit, Tallies
<1>4. tab \in [Tabs -> TabStates]
  BY SMT DEF SessionsInit, FreshTab, TabStates, Named
<1>5. call \in [Tabs -> [AllCalls -> CallStates]]
  BY SMT DEF SessionsInit, NoCall, CallStates, Named
<1> QED
  BY <1>1, <1>2, <1>3, <1>4, <1>5 DEF SessionsInit, SessionsTypeOK, Held

LEMMA BootstrapTyped ==
  ASSUME SessionsTypeOK, NEW t \in Tabs, Bootstrap(t)
  PROVE  SessionsTypeOK'
<1>1. Held' = Held /\ Ids' = Ids /\ Named' = Named
  BY SessionsKeptTyped DEF Bootstrap
<1>2. [at |-> "sent", token |-> cookie] \in Flights
  BY SMT DEF SessionsTypeOK, Flights, Held
<1> QED
  BY <1>1, <1>2, SMT DEF SessionsTypeOK, Bootstrap, JoinRefresh, TabStates, CallStates

LEMMA RefreshOnServerTyped ==
  ASSUME SessionsTypeOK, NEW t \in Tabs, RefreshOnServer(t)
  PROVE  SessionsTypeOK'
<1> DEFINE k == refreshing[t].token
<1>1. k \in Held /\ refreshing[t] # Nothing
  BY DEF SessionsTypeOK, RefreshOnServer
<1>2. ASSUME NEW r \in {"refused", "rotated"}, NEW j \in Tokens \cup {Nothing}
      PROVE  /\ [at |-> r, token |-> j] \in Flights
             /\ [at |-> r, token |-> j] # Nothing
  BY SessionsAssumption, SMT DEF Flights
<1>3. CASE /\ k # Nothing /\ Alive(k.s) /\ k.gen = session[k.s].gen
           /\ session' = [session EXCEPT ![k.s].gen = @ + 1]
           /\ refreshing' = [refreshing EXCEPT ![t] =
                                [at |-> "rotated", token |-> [k EXCEPT !.gen = @ + 1]]]
           /\ UNCHANGED tally
  <2>1. k \in Tokens /\ k.s \in Ids
    BY <1>1, <1>3 DEF Held
  <2>2. Ids' = Ids
    BY <1>3 DEF Ids
  <2>3. \A s \in Ids' : session'[s] \in Rows
    <3>1. session[k.s] \in Rows
      BY <2>1 DEF SessionsTypeOK
    <3> DEFINE p == [session[k.s] EXCEPT !.gen = @ + 1]
    <3>2. session' = [session EXCEPT ![k.s] = p]
      BY <1>3
    <3>3. p \in Rows
      BY <3>1, RowChanged, Zenon
    <3>4. \A s \in Ids : session[s] \in Rows
      BY DEF SessionsTypeOK
    <3> HIDE DEF p
    <3>5. ASSUME NEW s \in Ids PROVE session'[s] = IF s = k.s THEN p ELSE session[s]
      BY <3>2 DEF Ids
    <3> QED
      BY <2>2, <3>3, <3>4, <3>5
  <2> DEFINE j == [k EXCEPT !.gen = @ + 1]
  <2>4. j \in Tokens /\ j.s = k.s
    BY <2>1, SMT DEF Tokens
  <2>5. j # Nothing
    BY <2>4, SessionsAssumption
  <2>6. refreshing' = [refreshing EXCEPT ![t] = [at |-> "rotated", token |-> j]]
    BY <1>3
  <2>7. j \in Held'
    <3>1. Held' = Held
      BY <2>2 DEF Held
    <3> HIDE DEF j
    <3> QED
      BY <2>1, <2>4, <3>1 DEF Held
  <2>8. refreshing' \in [Tabs -> Flights \cup {Nothing}]
    <3> HIDE DEF j
    <3> QED
      BY <1>2, <2>4, <2>6 DEF SessionsTypeOK
  <2>9. \A u \in Tabs : refreshing'[u] # Nothing =>
          /\ refreshing'[u].token \in Held'
          /\ refreshing'[u].at = "rotated" => refreshing'[u].token # Nothing
    <3> HIDE DEF j
    <3>1. Held' = Held
      BY <2>2 DEF Held
    <3> QED
      BY <2>5, <2>6, <2>7, <3>1, SMT DEF SessionsTypeOK
  <2>10. Held' = Held /\ TabStates' = TabStates /\ CallStates' = CallStates
    BY <2>2 DEF Held, TabStates, CallStates, Named
  <2> QED
    BY <1>3, <2>2, <2>3, <2>8, <2>9, <2>10 DEF SessionsTypeOK, RefreshOnServer
<1>4. CASE /\ refreshing' = [refreshing EXCEPT ![t] = [at |-> "refused", token |-> k]]
           /\ \/ k # Nothing /\ Revoke({k.s}) /\ tally' = [tally EXCEPT !.reuses = IF Alive(k.s) THEN @ + 1 ELSE @]
              \/ UNCHANGED <<session, tally>>
  <2>1. Ids' = Ids /\ \A s \in Ids : session'[s] \in Rows
    BY <1>4, RevokeSteps, SessionsKeptTyped DEF SessionsTypeOK
  <2>2. tally' \in Tallies
    BY <1>4, SMT DEF SessionsTypeOK, Tallies
  <2>3. k \in Tokens \cup {Nothing}
    BY <1>1 DEF Held
  <2>4. refreshing' \in [Tabs -> Flights \cup {Nothing}]
    BY <1>2, <1>4, <2>3, SMT DEF SessionsTypeOK
  <2> QED
    BY <1>1, <1>4, <2>1, <2>2, <2>4, SMT
       DEF SessionsTypeOK, RefreshOnServer, Held, TabStates, CallStates, Named
<1> QED
  BY <1>3, <1>4, Zenon DEF RefreshOnServer

(* What a refresh leaves of the calls that waited for it.                   *)
LEMMA AfterTyped ==
  ASSUME SessionsTypeOK, NEW t \in Tabs, Named \subseteq Named',
         NEW f, call' = [call EXCEPT ![t] = f],
         \A c \in AllCalls : f[c] \in CallStates', f = [c \in AllCalls |-> f[c]]
  PROVE  call' \in [Tabs -> [AllCalls -> CallStates']]
<1>1. CallStates \subseteq CallStates'
  BY SMT DEF CallStates
<1>2. f \in [AllCalls -> CallStates']
  OBVIOUS
<1>3. call \in [Tabs -> [AllCalls -> CallStates']]
  BY <1>1, SMT DEF SessionsTypeOK
<1> QED
  BY <1>2, <1>3, SMT

LEMMA RefreshSucceedsTyped ==
  ASSUME SessionsTypeOK, NEW t \in Tabs, RefreshSucceeds(t)
  PROVE  SessionsTypeOK'
<1> DEFINE k == refreshing[t].token
<1>1. k \in Tokens /\ k.s \in Ids
  BY DEF SessionsTypeOK, RefreshSucceeds, Held
<1>2. Ids' = Ids /\ Named' = Named /\ Held' = Held
  BY SessionsKeptTyped DEF RefreshSucceeds
<1>3. session[k.s].user \in People
  BY <1>1, SMT DEF SessionsTypeOK, Rows
<1> DEFINE r == [tab[t] EXCEPT !.access = k.s,
                   !.status = IF @ = "loading" THEN "authed" ELSE @,
                   !.shows  = IF tab[t].status = "loading" THEN session[k.s].user ELSE @]
<1>4. tab' = [tab EXCEPT ![t] = r]
  BY DEF RefreshSucceeds, Set
<1>5. r \in TabStates
  <2>1. tab[t] \in TabStates
    BY DEF SessionsTypeOK
  <2> DEFINE st == IF tab[t].status = "loading" THEN "authed" ELSE tab[t].status
             sh == IF tab[t].status = "loading" THEN session[k.s].user ELSE tab[t].shows
  <2>2. st \in {"loading", "anon", "authed"} /\ sh \in People \cup {Nothing}
    BY <1>3, <2>1, SMT DEF TabStates
  <2>3. k.s \in Named /\ tab[t].reauth \in BOOLEAN
    BY <1>1, <2>1, SMT DEF Named, TabStates
  <2> QED
    BY <2>1, <2>2, <2>3, TabChanged
<1>6. tab' \in [Tabs -> TabStates]
  <2> HIDE DEF r
  <2> QED
    BY <1>4, <1>5 DEF SessionsTypeOK
<1> DEFINE f == [c \in AllCalls |-> IF c \in WaitingCalls(t) THEN [at |-> "again", with |-> k.s] ELSE call[t][c]]
<1>7. call' = [call EXCEPT ![t] = f]
  BY DEF RefreshSucceeds, After
<1>8. \A c \in AllCalls : f[c] \in CallStates
  <2>1. [at |-> "again", with |-> k.s] \in CallStates
    BY <1>1, SMT DEF CallStates, Named
  <2>2. \A c \in AllCalls : call[t][c] \in CallStates
    BY DEF SessionsTypeOK
  <2> QED
    BY <2>1, <2>2
<1>9. CallStates' = CallStates /\ TabStates' = TabStates
  BY <1>2 DEF CallStates, TabStates
<1>10. call' \in [Tabs -> [AllCalls -> CallStates']]
  <2>1. f = [c \in AllCalls |-> f[c]]
    OBVIOUS
  <2> HIDE DEF f
  <2> QED
    BY <1>2, <1>7, <1>8, <1>9, <2>1, AfterTyped
<1>11. cookie' \in Held'
  BY <1>1, <1>2 DEF RefreshSucceeds, Held
<1>12. refreshing' = [refreshing EXCEPT ![t] = Nothing]
  BY DEF RefreshSucceeds
<1> QED
  <2>1. \A u \in Tabs : refreshing'[u] # Nothing => refreshing[u] # Nothing /\ refreshing'[u] = refreshing[u]
    BY <1>12 DEF SessionsTypeOK
  <2>2. refreshing' \in [Tabs -> Flights \cup {Nothing}]
    BY <1>12 DEF SessionsTypeOK
  <2> QED
    BY <1>2, <1>6, <1>9, <1>10, <1>11, <2>1, <2>2 DEF SessionsTypeOK, RefreshSucceeds

LEMMA RefreshFailsTyped ==
  ASSUME SessionsTypeOK, NEW t \in Tabs, NEW d \in BOOLEAN, RefreshFails(t, d)
  PROVE  SessionsTypeOK'
<1>1. Ids' = Ids /\ Named' = Named /\ Held' = Held
  BY SessionsKeptTyped DEF RefreshFails
<1> DEFINE r == [tab[t] EXCEPT !.access = IF d THEN @ ELSE Nothing,
                               !.status = IF @ = "loading" THEN "anon" ELSE @]
           q == Overlaid(r, WaitingCalls(t) # {})
<1>2. tab[t] \in TabStates
  BY DEF SessionsTypeOK
<1>3. r \in TabStates
  <2> DEFINE st == IF tab[t].status = "loading" THEN "anon" ELSE tab[t].status
             ac == IF d THEN tab[t].access ELSE Nothing
  <2>1. st \in {"loading", "anon", "authed"} /\ ac \in Named
    BY <1>2, SMT DEF TabStates, Named
  <2>2. tab[t].shows \in People \cup {Nothing} /\ tab[t].reauth \in BOOLEAN
    BY <1>2, SMT DEF TabStates
  <2> QED
    BY <1>2, <2>1, <2>2, TabChanged
<1>4. q \in TabStates
  <2> HIDE DEF r
  <2> QED
    BY <1>3, OverlaidTyped
<1>5. tab' = [tab EXCEPT ![t] = q]
  BY DEF RefreshFails, Set
<1>6. tab' \in [Tabs -> TabStates]
  <2> HIDE DEF q
  <2> QED
    BY <1>4, <1>5 DEF SessionsTypeOK
<1> DEFINE f == [c \in AllCalls |->
                IF c \notin WaitingCalls(t) THEN call[t][c]
                ELSE [NoCall EXCEPT !.at = IF c = "logout" THEN "done" ELSE "none"]]
<1>7. call' = [call EXCEPT ![t] = f]
  BY DEF RefreshFails
<1>8. \A c \in AllCalls : f[c] \in CallStates
  <2>1. \A c : [NoCall EXCEPT !.at = IF c = "logout" THEN "done" ELSE "none"] \in CallStates
    BY SMT DEF CallStates, Named, NoCall
  <2>2. \A c \in AllCalls : call[t][c] \in CallStates
    BY DEF SessionsTypeOK
  <2> QED
    BY <2>1, <2>2
<1>9. CallStates' = CallStates /\ TabStates' = TabStates
  BY <1>1 DEF CallStates, TabStates
<1>10. call' \in [Tabs -> [AllCalls -> CallStates']]
  <2>1. f = [c \in AllCalls |-> f[c]]
    OBVIOUS
  <2> HIDE DEF f
  <2> QED
    BY <1>1, <1>7, <1>8, <1>9, <2>1, AfterTyped
<1>11. tally' \in Tallies
  <2> DEFINE n == IF d THEN tally.drops + 1 ELSE tally.drops
  <2>1. n \in Nat /\ tally \in Tallies
    BY SMT DEF SessionsTypeOK, Tallies
  <2>2. tally' = [tally EXCEPT !.drops = n]
    BY DEF RefreshFails
  <2> HIDE DEF n
  <2> QED
    BY <2>1, <2>2, SMT DEF Tallies
<1> QED
  BY <1>1, <1>6, <1>9, <1>10, <1>11, SMT DEF SessionsTypeOK, RefreshFails

(* One call of one tab changes.                                             *)
LEMMA CallTyped ==
  ASSUME SessionsTypeOK, NEW t \in Tabs, NEW c \in AllCalls, NEW r \in CallStates,
         call' = [call EXCEPT ![t][c] = r], Ids' = Ids
  PROVE  call' \in [Tabs -> [AllCalls -> CallStates']]
<1>1. CallStates' = CallStates
  BY DEF CallStates, Named
<1>2. [call[t] EXCEPT ![c] = r] \in [AllCalls -> CallStates]
  BY SMT DEF SessionsTypeOK
<1>3. call' = [call EXCEPT ![t] = [call[t] EXCEPT ![c] = r]]
  BY SMT DEF SessionsTypeOK
<1> QED
  BY <1>1, <1>2, <1>3, SMT DEF SessionsTypeOK

LEMMA CallStepsTyped ==
  ASSUME SessionsTypeOK, NEW t \in Tabs, NEW c \in AllCalls,
         SendCall(t, c) \/ Accepted(t, c) \/ Refused(t, c) \/ RefusedAgain(t, c)
  PROVE  SessionsTypeOK'
<1>1. /\ call[t][c] \in CallStates
      /\ tab[t] \in TabStates
  BY DEF SessionsTypeOK
<1>2. NoCall \in CallStates
  BY SMT DEF NoCall, CallStates, Named
<1>3. ASSUME Ids' = Ids PROVE Named' = Named /\ Held' = Held /\ CallStates' = CallStates /\ TabStates' = TabStates
  BY <1>3 DEF Named, Held, CallStates, TabStates
<1>4. CASE SendCall(t, c)
  <2>1. [at |-> "sent", with |-> tab[t].access] \in CallStates
    BY <1>1, SMT DEF CallStates, TabStates
  <2>2. Ids' = Ids
    BY <1>4 DEF SendCall, Ids
  <2>3. call' \in [Tabs -> [AllCalls -> CallStates']]
    BY <1>4, <2>1, <2>2, CallTyped DEF SendCall
  <2> QED
    BY <1>3, <1>4, <2>2, <2>3 DEF SessionsTypeOK, SendCall
<1>5. CASE Accepted(t, c)
  <2> DEFINE r == IF c = "logout" THEN [call[t][c] EXCEPT !.at = "done"] ELSE NoCall
  <2>1. r \in CallStates
    BY <1>1, <1>2, SMT DEF CallStates
  <2>2. Ids' = Ids /\ \A s \in Ids : session'[s] \in Rows
    BY <1>5, RevokeSteps, SessionsKeptTyped DEF Accepted, SessionsTypeOK
  <2>3. call' = [call EXCEPT ![t][c] = r]
    BY <1>5 DEF Accepted
  <2>4. call' \in [Tabs -> [AllCalls -> CallStates']]
    <3> HIDE DEF r
    <3> QED
      BY <2>1, <2>2, <2>3, CallTyped
  <2> QED
    BY <1>3, <1>5, <2>2, <2>4 DEF SessionsTypeOK, Accepted
<1>6. CASE Refused(t, c)
  <2> DEFINE r == [call[t][c] EXCEPT !.at = "waiting"]
  <2>1. r \in CallStates
    BY <1>1, SMT DEF CallStates
  <2>2. Ids' = Ids
    BY <1>6 DEF Refused, Ids
  <2>3. call' = [call EXCEPT ![t][c] = r]
    BY <1>6, SMT DEF Refused, SessionsTypeOK
  <2>4. call' \in [Tabs -> [AllCalls -> CallStates']]
    <3> HIDE DEF r
    <3> QED
      BY <2>1, <2>2, <2>3, CallTyped
  <2>5. [at |-> "sent", token |-> cookie] \in Flights
    BY SMT DEF SessionsTypeOK, Flights, Held
  <2> QED
    BY <1>3, <1>6, <2>2, <2>4, <2>5, SMT DEF SessionsTypeOK, Refused, JoinRefresh
<1>7. CASE RefusedAgain(t, c)
  <2> DEFINE r == IF c = "logout" THEN [NoCall EXCEPT !.at = "done"] ELSE NoCall
  <2>1. r \in CallStates
    BY <1>2, SMT DEF CallStates
  <2>2. Ids' = Ids
    BY <1>7 DEF RefusedAgain, Ids
  <2>3. call' = [call EXCEPT ![t][c] = r]
    BY <1>7 DEF RefusedAgain
  <2>4. call' \in [Tabs -> [AllCalls -> CallStates']]
    <3> HIDE DEF r
    <3> QED
      BY <2>1, <2>2, <2>3, CallTyped
  <2>5. Overlaid(tab[t], TRUE) \in TabStates
    BY <1>1, OverlaidTyped
  <2>6. tab' \in [Tabs -> TabStates]
    <3>1. tab' = [tab EXCEPT ![t] = Overlaid(tab[t], TRUE)]
      BY <1>7 DEF RefusedAgain, Set
    <3> QED
      BY <2>5, <3>1 DEF SessionsTypeOK
  <2> QED
    BY <1>3, <1>7, <2>2, <2>4, <2>6 DEF SessionsTypeOK, RefusedAgain
<1> QED
  BY <1>4, <1>5, <1>6, <1>7

(* A step that leaves the rows alone, or revokes some of them.              *)
LEMMA SignOutsTyped ==
  ASSUME SessionsTypeOK, NEW t \in Tabs, LogoutReturns(t) \/ RevokeCurrent(t)
  PROVE  SessionsTypeOK'
<1>1. Ids' = Ids /\ \A s \in Ids : session'[s] \in Rows
  BY RevokeSteps, SessionsKeptTyped DEF LogoutReturns, RevokeCurrent, SessionsTypeOK
<1>2. /\ Named' = Named /\ Held' = Held /\ TabStates' = TabStates
      /\ cookie' \in Held
  BY <1>1, SMT DEF Named, Held, TabStates, LogoutReturns, RevokeCurrent, SessionsTypeOK
<1>3. tab[t] \in TabStates /\ "logout" \in AllCalls
  BY DEF SessionsTypeOK, AllCalls
<1>4. CASE LogoutReturns(t)
  <2>1. NoCall \in CallStates
    BY SMT DEF NoCall, CallStates, Named
  <2>2. call' \in [Tabs -> [AllCalls -> CallStates']]
    BY <1>1, <1>3, <1>4, <2>1, CallTyped DEF LogoutReturns
  <2> DEFINE r == [tab[t] EXCEPT !.access = Nothing, !.shows = Nothing, !.status = "anon"]
  <2>3. r \in TabStates
    <3>1. Nothing \in Named /\ Nothing \in People \cup {Nothing} /\ tab[t].reauth \in BOOLEAN
      BY <1>3, SMT DEF Named, TabStates
    <3> QED
      BY <1>3, <3>1, TabChanged
  <2>4. tab' = [tab EXCEPT ![t] = r]
    BY <1>4 DEF LogoutReturns, Set
  <2>5. tab' \in [Tabs -> TabStates]
    <3> HIDE DEF r
    <3> QED
      BY <2>3, <2>4 DEF SessionsTypeOK
  <2> QED
    BY <1>1, <1>2, <1>4, <2>2, <2>5 DEF SessionsTypeOK, LogoutReturns
<1>5. CASE RevokeCurrent(t)
  <2>1. [at |-> "sent", with |-> tab[t].access] \in CallStates
    BY <1>3, SMT DEF CallStates, TabStates
  <2>2. call' \in [Tabs -> [AllCalls -> CallStates']]
    BY <1>1, <1>3, <1>5, <2>1, CallTyped DEF RevokeCurrent
  <2> QED
    BY <1>1, <1>2, <1>5, <2>2 DEF SessionsTypeOK, RevokeCurrent
<1> QED
  BY <1>4, <1>5

LEMMA ReloadTyped ==
  ASSUME SessionsTypeOK, NEW t \in Tabs, Reload(t)
  PROVE  SessionsTypeOK'
<1>1. Ids' = Ids /\ Named' = Named /\ Held' = Held
  BY SessionsKeptTyped DEF Reload
<1>2. TabStates' = TabStates /\ CallStates' = CallStates
  BY <1>1 DEF TabStates, CallStates
<1>3. FreshTab \in TabStates /\ NoCall \in CallStates
  BY SMT DEF FreshTab, TabStates, NoCall, CallStates, Named
<1>4. tab' \in [Tabs -> TabStates]
  BY <1>3 DEF Reload, Set, SessionsTypeOK
<1>5. call' \in [Tabs -> [AllCalls -> CallStates']]
  <2> DEFINE f == [c \in AllCalls |-> NoCall]
  <2>1. f = [c \in AllCalls |-> f[c]] /\ \A c \in AllCalls : f[c] \in CallStates
    BY <1>3
  <2>2. call' = [call EXCEPT ![t] = f]
    BY DEF Reload
  <2> HIDE DEF f
  <2> QED
    BY <1>1, <1>2, <2>1, <2>2, AfterTyped
<1>6. tally' \in Tallies
  <2> DEFINE n == IF refreshing[t] # Nothing THEN tally.drops + 1 ELSE tally.drops
  <2>1. n \in Nat /\ tally \in Tallies
    BY SMT DEF SessionsTypeOK, Tallies
  <2>2. tally' = [tally EXCEPT !.drops = n]
    BY DEF Reload
  <2> HIDE DEF n
  <2> QED
    BY <2>1, <2>2, SMT DEF Tallies
<1>7. /\ refreshing' \in [Tabs -> Flights \cup {Nothing}]
      /\ \A u \in Tabs : refreshing'[u] # Nothing => refreshing[u] # Nothing /\ refreshing'[u] = refreshing[u]
  BY DEF SessionsTypeOK, Reload
<1> QED
  BY <1>1, <1>2, <1>4, <1>5, <1>6, <1>7 DEF SessionsTypeOK, Reload

(* A sign-in opens the next session.                                        *)
LEMMA LoginSteps ==
  ASSUME SessionsTypeOK, NEW t \in Tabs, NEW u \in People, Login(t, u)
  PROVE  /\ NextId \in 1 .. MaxSessions /\ NextId \notin Ids
         /\ Ids' = Ids \cup {NextId}
         /\ session'[NextId] = [user |-> u, gen |-> 0, revoked |-> FALSE]
         /\ \A s \in Ids : session'[s] = session[s]
         /\ cookie' = [s |-> NextId, gen |-> 0] /\ cookie' \in Held' /\ cookie' # Nothing
<1>1. Room
  BY DEF Login
<1>2. NextId \in 1 .. MaxSessions /\ NextId \notin Ids
  BY <1>1, NextIdIsNew
<1> DEFINE n == NextId
           g == [s \in Ids \cup {n} |->
                   IF s = n THEN [user |-> u, gen |-> 0, revoked |-> FALSE] ELSE session[s]]
<1>3. session' = g /\ cookie' = [s |-> n, gen |-> 0]
  BY DEF Login
<1> HIDE DEF n
<1>4. Ids' = Ids \cup {n}
  BY <1>3 DEF Ids
<1>5. session'[n] = [user |-> u, gen |-> 0, revoked |-> FALSE]
  BY <1>3
<1>6. n \notin Ids /\ n \in 1 .. MaxSessions
  BY <1>2 DEF n
<1>7. \A s \in Ids : session'[s] = session[s]
  BY <1>3, <1>6
<1>8. [s |-> n, gen |-> 0] \in Tokens /\ [s |-> n, gen |-> 0].s = n
  BY <1>6, SMT DEF Tokens
<1>9. cookie' \in Held' /\ cookie' # Nothing
  BY <1>3, <1>4, <1>8, SessionsAssumption DEF Held
<1> QED
  BY <1>3, <1>4, <1>5, <1>6, <1>7, <1>9 DEF n

LEMMA LoginTyped ==
  ASSUME SessionsTypeOK, NEW t \in Tabs, NEW u \in People, Login(t, u)
  PROVE  SessionsTypeOK'
<1> DEFINE n == NextId
<1>1. /\ n \in 1 .. MaxSessions /\ n \notin Ids
      /\ Ids' = Ids \cup {n}
      /\ session'[n] = [user |-> u, gen |-> 0, revoked |-> FALSE]
      /\ \A s \in Ids : session'[s] = session[s]
      /\ cookie' \in Held'
  BY LoginSteps
<1>2. \E m \in 0 .. MaxSessions : Ids' = 1 .. m
  <2>1. \E m \in 0 .. MaxSessions : Ids \cup {n} = 1 .. m
    BY NextIdIsNew DEF Login
  <2> QED
    BY <1>1, <2>1
<1>3. tab' = [tab EXCEPT ![t] = [status |-> "authed", shows |-> u, access |-> n, reauth |-> FALSE]]
  BY DEF Login, Set
<1> DEFINE b == tally.crossed \/ call[t]["logout"] # NoCall \/ (cookie # Nothing /\ Alive(cookie.s))
<1>4. tally' = [tally EXCEPT !.crossed = b] /\ b \in BOOLEAN
  BY DEF Login
<1> HIDE DEF n, b
<1>5. \A s \in Ids' : session'[s] \in Rows
  <2>1. [user |-> u, gen |-> 0, revoked |-> FALSE] \in Rows
    BY SMT DEF Rows
  <2>2. \A s \in Ids : session[s] \in Rows
    BY DEF SessionsTypeOK
  <2> QED
    BY <1>1, <2>1, <2>2
<1>6. Named \subseteq Named' /\ Held \subseteq Held'
  BY <1>1 DEF Named, Held
<1>7. TabStates \subseteq TabStates'
  BY <1>6, SMT DEF TabStates
<1>8. [status |-> "authed", shows |-> u, access |-> n, reauth |-> FALSE] \in TabStates'
  BY <1>1, SMT DEF TabStates, Named
<1>9. tab' \in [Tabs -> TabStates']
  <2>1. tab \in [Tabs -> TabStates']
    BY <1>7 DEF SessionsTypeOK
  <2> QED
    BY <1>3, <1>8, <2>1
<1>10. CallStates \subseteq CallStates'
  BY <1>6, SMT DEF CallStates
<1>11. call' \in [Tabs -> [AllCalls -> CallStates']]
  BY <1>10 DEF SessionsTypeOK, Login
<1>12. tally' \in Tallies
  <2>1. tally \in Tallies
    BY DEF SessionsTypeOK
  <2> QED
    BY <1>4, <2>1, SMT DEF Tallies
<1> QED
  BY <1>1, <1>2, <1>5, <1>6, <1>9, <1>11, <1>12 DEF SessionsTypeOK, Login

(* The steps of the user's other devices, and of a forgotten password.      *)
LEMMA ElsewhereTyped ==
  ASSUME SessionsTypeOK, NEW u \in People,
         \/ \E S : RevokeElsewhere(S)
         \/ RequestPasswordReset(u) \/ ResetPassword(u)
  PROVE  SessionsTypeOK'
<1>1. Ids' = Ids /\ \A s \in Ids : session'[s] \in Rows
  BY RevokeSteps, SessionsKeptTyped
     DEF RevokeElsewhere, RequestPasswordReset, ResetPassword, SessionsTypeOK
<1>2. Named' = Named /\ Held' = Held
  BY <1>1 DEF Named, Held
<1>3. TabStates' = TabStates /\ CallStates' = CallStates
  BY <1>2 DEF TabStates, CallStates
<1>4. resetTokens' \in [People -> Nat] /\ tally' \in Tallies
  <2>1. resetTokens \in [People -> Nat] /\ tally \in Tallies
    BY DEF SessionsTypeOK
  <2> QED
    BY <2>1, SMT DEF RevokeElsewhere, RequestPasswordReset, ResetPassword, Tallies
<1>5. UNCHANGED <<cookie, tab, refreshing, call>>
  BY DEF RevokeElsewhere, RequestPasswordReset, ResetPassword
<1> QED
  BY <1>1, <1>2, <1>3, <1>4, <1>5 DEF SessionsTypeOK

LEMMA NextTyped == SessionsTypeOK /\ [SessionsNext]_sessionsVars => SessionsTypeOK'
<1> SUFFICES ASSUME SessionsTypeOK, [SessionsNext]_sessionsVars PROVE SessionsTypeOK'
  OBVIOUS
<1>1. CASE UNCHANGED sessionsVars
  BY <1>1 DEF sessionsVars, SessionsTypeOK, Ids, Held, Named, TabStates, CallStates
<1>2. CASE SessionsNext
  <2>1. ASSUME NEW t \in Tabs,
               \/ Bootstrap(t) \/ RefreshOnServer(t) \/ RefreshSucceeds(t)
               \/ LogoutReturns(t) \/ Reload(t) \/ RevokeCurrent(t)
        PROVE  SessionsTypeOK'
    BY <2>1, BootstrapTyped, RefreshOnServerTyped, RefreshSucceedsTyped, SignOutsTyped, ReloadTyped
  <2>2. ASSUME NEW t \in Tabs, NEW d \in BOOLEAN, RefreshFails(t, d)
        PROVE  SessionsTypeOK'
    BY <2>2, RefreshFailsTyped
  <2>3. ASSUME NEW t \in Tabs, NEW c \in AllCalls,
               SendCall(t, c) \/ Accepted(t, c) \/ Refused(t, c) \/ RefusedAgain(t, c)
        PROVE  SessionsTypeOK'
    BY <2>3, CallStepsTyped
  <2>4. ASSUME NEW t \in Tabs, NEW u \in People, Login(t, u)
        PROVE  SessionsTypeOK'
    BY <2>4, LoginTyped
  <2>5. ASSUME NEW u \in People,
               \/ \E s \in ListSessions(u) : RevokeElsewhere({s})
               \/ RevokeElsewhere(ListSessions(u)) \/ RequestPasswordReset(u) \/ ResetPassword(u)
        PROVE  SessionsTypeOK'
    BY <2>5, ElsewhereTyped
  <2> QED
    BY <1>2, <2>1, <2>2, <2>3, <2>4, <2>5 DEF SessionsNext
<1> QED
  BY <1>1, <1>2

-----------------------------------------------------------------------------
(* No false alarm.  A token is stale when its session has moved past it.    *)

OneTab == \A t, u \in Tabs : t = u

Live(k) == k # Nothing /\ Alive(k.s)
Stale(k) == Live(k) /\ k.gen # session[k.s].gen
At(t, at) == refreshing[t] # Nothing /\ refreshing[t].at = at
Tok(t) == refreshing[t].token

(* What the tab presents next, if it presents anything, is stale.           *)
Risk(t) == IF At(t, "sent") THEN Stale(Tok(t)) ELSE ~At(t, "rotated") /\ Stale(cookie)

(* A stale cookie is the one a request presents or the one its answer       *)
(* replaces; and every risk has been paid for by an answer that was lost.   *)
AlarmAt(t) ==
  /\ At(t, "sent") /\ Stale(cookie) => cookie = Tok(t)
  /\ At(t, "rotated") => ~Stale(Tok(t)) /\ (Stale(cookie) => cookie.s = Tok(t).s)
  /\ Risk(t) => tally.reuses < tally.drops

AlarmInv == NoFalseAlarm /\ \A t \in Tabs : AlarmAt(t)

LEMMA TallyTyped ==
  ASSUME SessionsTypeOK
  PROVE  /\ tally.reuses \in Nat /\ tally.drops \in Nat
         /\ tally = [reuses |-> tally.reuses, resets |-> tally.resets,
                     drops |-> tally.drops, crossed |-> tally.crossed]
BY SMT DEF SessionsTypeOK, Tallies

LEMMA RevokeFreshens ==
  ASSUME SessionsTypeOK, NEW S, Revoke(S), NEW k \in Held
  PROVE  /\ Stale(k)' => Stale(k) /\ k.s \notin S
         /\ Live(k)' => Live(k) /\ k.s \notin S
BY RevokeSteps DEF Stale, Live, Alive, Held

(* A step in which no refresh moves and no token becomes stale.             *)
LEMMA QuietAlarm ==
  ASSUME SessionsTypeOK, AlarmInv,
         \A k \in Held : Stale(k)' => Stale(k),
         cookie' \in {cookie, Nothing}, refreshing' = refreshing,
         tally'.reuses = tally.reuses, tally'.drops = tally.drops
  PROVE  AlarmInv'
<1>1. cookie \in Held /\ \A t \in Tabs : refreshing[t] # Nothing => refreshing[t].token \in Held
  BY DEF SessionsTypeOK
<1>2. \A k \in {cookie'} : Stale(k)' => k = cookie /\ Stale(cookie)
  BY <1>1 DEF Stale, Live
<1>3. Stale(cookie)' => cookie' = cookie /\ Stale(cookie)
  BY <1>2 DEF Stale, Live, Alive
<1>4. ASSUME NEW t \in Tabs, refreshing[t] # Nothing PROVE Stale(Tok(t))' => Stale(Tok(t))
  BY <1>1, <1>4 DEF Stale, Live, Alive, Tok
<1>5. \A t \in Tabs : \A a : (At(t, a))' = At(t, a) /\ Tok(t)' = Tok(t)
  BY DEF At, Tok
<1>6. ASSUME NEW t \in Tabs PROVE AlarmAt(t)'
  <2>1. AlarmAt(t)
    BY DEF AlarmInv
  <2>2. Risk(t)' => Risk(t)
    BY <1>3, <1>4, <1>5, Zenon DEF Risk, At
  <2>3. At(t, "rotated") => ~Stale(Tok(t))'
    BY <1>4, <2>1 DEF AlarmAt, At
  <2>4. /\ (At(t, "sent") /\ Stale(cookie))' => cookie' = Tok(t)'
        /\ At(t, "rotated")' => ~Stale(Tok(t))' /\ (Stale(cookie)' => cookie'.s = Tok(t)'.s)
    BY <1>3, <1>5, <2>1, <2>3 DEF AlarmAt
  <2> QED
    BY <2>1, <2>2, <2>4 DEF AlarmAt
<1> QED
  BY <1>6 DEF AlarmInv, NoFalseAlarm

LEMMA InitAlarm == SessionsInit => AlarmInv
BY SMT DEF SessionsInit, AlarmInv, NoFalseAlarm, AlarmAt, At, Risk, Stale, Live

(* The request presents the cookie the browser holds.                       *)
LEMMA JoinAlarm ==
  ASSUME SessionsTypeOK, AlarmInv, NEW t \in Tabs, JoinRefresh(t),
         UNCHANGED <<session, tally, cookie>>
  PROVE  AlarmInv'
<1>1. \A k : Stale(k)' = Stale(k)
  BY DEF Stale, Live, Alive, Ids
<1>2. ASSUME NEW u \in Tabs PROVE AlarmAt(u)'
  <2>1. AlarmAt(u)
    BY DEF AlarmInv
  <2>2. CASE refreshing'[u] = refreshing[u]
    BY <1>1, <2>1, <2>2 DEF AlarmAt, Risk, At, Tok, Stale, Live, Alive, Ids
  <2>3. CASE refreshing'[u] # refreshing[u]
    <3>1. /\ refreshing[u] = Nothing
          /\ refreshing'[u] = [at |-> "sent", token |-> cookie]
      BY <2>3 DEF JoinRefresh, SessionsTypeOK
    <3>2. refreshing'[u] # Nothing
      BY <2>3, <3>1
    <3>3. At(u, "sent")' /\ ~At(u, "rotated")' /\ Tok(u)' = cookie /\ ~At(u, "sent") /\ ~At(u, "rotated")
      BY <3>1, <3>2 DEF At, Tok
    <3>4. Stale(Tok(u))' = Stale(cookie) /\ Stale(cookie)' = Stale(cookie)
      BY <3>3 DEF Stale, Live, Alive, Ids
    <3> QED
      BY <2>1, <3>3, <3>4, Zenon DEF AlarmAt, Risk
  <2> QED
    BY <2>2, <2>3
<1> QED
  BY <1>2 DEF AlarmInv, NoFalseAlarm

LEMMA LoginAlarm ==
  ASSUME SessionsTypeOK, AlarmInv, NEW t \in Tabs, NEW u \in People, Login(t, u)
  PROVE  AlarmInv'
<1>1. \A k \in Held : Stale(k)' => Stale(k)
  BY LoginSteps DEF Stale, Live, Alive, Held
<1>2. ~Stale(cookie)'
  <2> DEFINE n == NextId
  <2>1. /\ cookie' = [s |-> n, gen |-> 0]
        /\ session'[n] = [user |-> u, gen |-> 0, revoked |-> FALSE]
    BY LoginSteps
  <2> HIDE DEF n
  <2>2. cookie'.s = n /\ cookie'.gen = 0 /\ session'[n].gen = 0
    BY <2>1, SMT
  <2> QED
    BY <2>2 DEF Stale
<1>3. tally'.reuses = tally.reuses /\ tally'.drops = tally.drops
  BY TallyTyped DEF Login, SessionsTypeOK, Tallies
<1>4. refreshing' = refreshing
  BY DEF Login
<1>5. ASSUME NEW v \in Tabs, refreshing[v] # Nothing PROVE Stale(Tok(v))' => Stale(Tok(v))
  <2>1. Tok(v) \in Held /\ Tok(v)' = Tok(v)
    BY <1>4, <1>5 DEF SessionsTypeOK, Tok
  <2> QED
    BY <1>1, <2>1 DEF Stale, Live, Alive
<1>6. ASSUME NEW v \in Tabs PROVE AlarmAt(v)'
  <2>1. AlarmAt(v)
    BY DEF AlarmInv
  <2>2. \A a : At(v, a)' = At(v, a)
    BY <1>4 DEF At
  <2>3. Risk(v)' => Risk(v)
    BY <1>2, <1>5, <2>2, Zenon DEF Risk, At
  <2>4. At(v, "rotated") => ~Stale(Tok(v))'
    BY <1>5, <2>1 DEF AlarmAt, At
  <2> QED
    BY <1>2, <1>3, <2>1, <2>2, <2>3, <2>4 DEF AlarmAt
<1> QED
  BY <1>3, <1>6 DEF AlarmInv, NoFalseAlarm

(* The answer replaces the cookie it was asked with by a current one.       *)
LEMMA RefreshSucceedsAlarm ==
  ASSUME SessionsTypeOK, AlarmInv, OneTab, NEW t \in Tabs, RefreshSucceeds(t)
  PROVE  AlarmInv'
<1>1. AlarmAt(t) /\ At(t, "rotated") /\ cookie' = Tok(t)
  BY DEF AlarmInv, RefreshSucceeds, At, Tok
<1>2. refreshing'[t] = Nothing /\ UNCHANGED <<session, tally>>
  BY DEF RefreshSucceeds, SessionsTypeOK
<1>3. ~Stale(cookie)'
  <2>1. ~Stale(Tok(t))
    BY <1>1 DEF AlarmAt
  <2> QED
    BY <1>1, <1>2, <2>1 DEF Stale, Live, Alive, Ids
<1>4. AlarmAt(t)'
  BY <1>2, <1>3 DEF AlarmAt, Risk, At
<1> QED
  BY <1>2, <1>4 DEF AlarmInv, NoFalseAlarm, OneTab

(* What is lost on the way pays for the cookie that is not replaced.        *)
LEMMA RefreshEndsAlarm ==
  ASSUME SessionsTypeOK, AlarmInv, OneTab, NEW t \in Tabs,
         Reload(t) \/ \E d \in BOOLEAN : RefreshFails(t, d)
  PROVE  AlarmInv'
<1>1. AlarmAt(t) /\ NoFalseAlarm
  BY DEF AlarmInv
<1>2. refreshing'[t] = Nothing /\ UNCHANGED <<session, cookie>>
  BY DEF RefreshFails, Reload, SessionsTypeOK
<1>3. Stale(cookie)' = Stale(cookie)
  BY <1>2 DEF Stale, Live, Alive, Ids
<1>4. /\ tally'.reuses = tally.reuses
      /\ \/ tally'.drops = tally.drops + 1
         \/ tally'.drops = tally.drops /\ ~At(t, "sent") /\ ~At(t, "rotated")
  <2>1. CASE Reload(t)
    BY <2>1, TallyTyped, SMT DEF Reload, At, SessionsTypeOK, Tallies
  <2>2. ASSUME NEW d \in BOOLEAN, RefreshFails(t, d)
        PROVE  /\ tally'.reuses = tally.reuses
               /\ \/ tally'.drops = tally.drops + 1
                  \/ tally'.drops = tally.drops /\ ~At(t, "sent") /\ ~At(t, "rotated")
    <3>1. CASE d
      <4>1. tally' = [tally EXCEPT !.drops = tally.drops + 1]
        BY <2>2, <3>1 DEF RefreshFails
      <4> QED
        BY <4>1, SMT DEF SessionsTypeOK, Tallies
    <3>2. CASE ~d
      <4>1. refreshing[t].at = "refused" /\ tally' = [tally EXCEPT !.drops = tally.drops]
        BY <2>2, <3>2 DEF RefreshFails
      <4>2. ~At(t, "sent") /\ ~At(t, "rotated")
        BY <4>1, SMT DEF At
      <4> QED
        BY <4>1, <4>2, SMT DEF SessionsTypeOK, Tallies
    <3> QED
      BY <3>1, <3>2
  <2> QED
    BY <2>1, <2>2
<1>5. tally'.reuses <= tally'.drops /\ (Stale(cookie) => tally'.reuses < tally'.drops)
  <2>1. CASE tally'.drops = tally.drops + 1
    BY <1>1, <1>4, <2>1, TallyTyped, SMT DEF NoFalseAlarm
  <2>2. CASE tally'.drops = tally.drops /\ ~At(t, "sent") /\ ~At(t, "rotated")
    BY <1>1, <1>4, <2>2 DEF NoFalseAlarm, AlarmAt, Risk
  <2> QED
    BY <1>4, <2>1, <2>2
<1>6. AlarmAt(t)'
  BY <1>2, <1>3, <1>5 DEF AlarmAt, Risk, At
<1> QED
  BY <1>5, <1>6 DEF AlarmInv, NoFalseAlarm, OneTab

(* Only the previous token revokes a live session, and it was a risk.       *)
LEMMA RefreshOnServerAlarm ==
  ASSUME SessionsTypeOK, AlarmInv, OneTab, NEW t \in Tabs, RefreshOnServer(t)
  PROVE  AlarmInv'
<1> DEFINE k == Tok(t)
<1>1. /\ AlarmAt(t) /\ NoFalseAlarm /\ At(t, "sent") /\ k \in Held /\ cookie \in Held
      /\ cookie' = cookie /\ refreshing[t] \in Flights
  BY DEF AlarmInv, RefreshOnServer, At, Tok, SessionsTypeOK
<1>2. /\ Stale(cookie) => cookie = k
      /\ Stale(k) => tally.reuses < tally.drops
  BY <1>1 DEF AlarmAt, Risk
<1>3. CASE /\ k # Nothing /\ Alive(k.s) /\ k.gen = session[k.s].gen
           /\ session' = [session EXCEPT ![k.s].gen = @ + 1]
           /\ refreshing' = [refreshing EXCEPT ![t] =
                                [at |-> "rotated", token |-> [k EXCEPT !.gen = @ + 1]]]
           /\ UNCHANGED tally
  <2>1. k \in Tokens /\ k.s \in Ids /\ session[k.s] \in Rows
    BY <1>1, <1>3 DEF Held, SessionsTypeOK
  <2> DEFINE j == [k EXCEPT !.gen = @ + 1]
             p == [session[k.s] EXCEPT !.gen = @ + 1]
  <2>2. j \in Tokens /\ j.s = k.s /\ j.gen = k.gen + 1
    BY <2>1, SMT DEF Tokens
  <2>3. p.gen = session[k.s].gen + 1 /\ p.revoked = session[k.s].revoked
    BY <2>1, RowChanged, Zenon
  <2>4. /\ session' = [session EXCEPT ![k.s] = p]
        /\ refreshing' = [refreshing EXCEPT ![t] = [at |-> "rotated", token |-> j]]
    BY <1>3
  <2> HIDE DEF j, p, k
  <2>5. refreshing'[t] = [at |-> "rotated", token |-> j] /\ refreshing'[t] # Nothing
    <3>1. [at |-> "rotated", token |-> j] \in Flights
      BY <2>2, SMT DEF Flights
    <3> QED
      BY <2>4, <3>1, SessionsAssumption DEF SessionsTypeOK
  <2>6. ~At(t, "sent")' /\ At(t, "rotated")' /\ Tok(t)' = j
    BY <2>5, SMT DEF At, Tok
  <2>7. /\ Ids' = Ids /\ session'[k.s] = p
        /\ \A s \in Ids : s # k.s => session'[s] = session[s]
    BY <2>1, <2>4 DEF Ids
  <2>8. ~Stale(Tok(t))'
    <3>1. j.gen = session'[j.s].gen
      BY <1>3, <2>2, <2>3, <2>7
    <3> QED
      BY <2>6, <3>1 DEF Stale
  <2>9. Stale(cookie)' => cookie.s = k.s
    <3> SUFFICES ASSUME Stale(cookie)', cookie.s # k.s PROVE FALSE
      OBVIOUS
    <3>1. Stale(cookie)
      BY <1>1, <2>7 DEF Stale, Live, Alive
    <3> QED
      BY <1>2, <3>1
  <2>10. AlarmAt(t)'
    BY <1>1, <2>2, <2>6, <2>8, <2>9 DEF AlarmAt, Risk
  <2> QED
    BY <1>1, <1>3, <2>10 DEF AlarmInv, NoFalseAlarm, OneTab
<1>4. ASSUME refreshing' = [refreshing EXCEPT ![t] = [at |-> "refused", token |-> k]]
      PROVE  ~At(t, "sent")' /\ ~At(t, "rotated")'
  <2>1. refreshing'[t] = [at |-> "refused", token |-> k]
    BY <1>4 DEF SessionsTypeOK
  <2> HIDE DEF k
  <2> QED
    BY <2>1, SMT DEF At
<1>5. CASE /\ k # Nothing /\ k.gen + 1 = session[k.s].gen
           /\ Revoke({k.s})
           /\ tally' = [tally EXCEPT !.reuses = IF Alive(k.s) THEN @ + 1 ELSE @]
           /\ refreshing' = [refreshing EXCEPT ![t] = [at |-> "refused", token |-> k]]
  <2> DEFINE n == IF Alive(k.s) THEN tally.reuses + 1 ELSE tally.reuses
  <2>1. tally' = [tally EXCEPT !.reuses = n]
    BY <1>5
  <2>2. Alive(k.s) => Stale(k)
    <3>1. k \in Tokens
      BY <1>1, <1>5 DEF Held
    <3>2. k.gen \in Nat
      BY <3>1, SMT DEF Tokens
    <3>3. k.gen # session[k.s].gen
      BY <1>5, <3>2, SMT
    <3> QED
      BY <1>5, <3>3 DEF Stale, Live
  <2>3. n <= tally.drops
    <3>1. CASE Alive(k.s)
      BY <1>2, <2>2, <3>1, TallyTyped, SMT
    <3>2. CASE ~Alive(k.s)
      BY <1>1, <3>2 DEF NoFalseAlarm
    <3> QED
      BY <3>1, <3>2
  <2>4. tally'.reuses = n /\ tally'.drops = tally.drops
    <3> HIDE DEF n
    <3> QED
      BY <2>1, SMT DEF SessionsTypeOK, Tallies
  <2>5. ~Stale(cookie)'
    <3> SUFFICES ASSUME Stale(cookie)' PROVE FALSE
      OBVIOUS
    <3>1. Stale(cookie) /\ cookie.s \notin {k.s}
      <4>1. \A c \in {cookie} : Stale(c)' => Stale(c) /\ c.s \notin {k.s}
        BY <1>1, <1>5, RevokeFreshens
      <4> QED
        BY <1>1, <4>1 DEF Stale, Live, Alive
    <3> QED
      BY <1>2, <3>1
  <2>6. AlarmAt(t)'
    BY <1>4, <1>5, <2>5 DEF AlarmAt, Risk
  <2> QED
    BY <2>3, <2>4, <2>6 DEF AlarmInv, NoFalseAlarm, OneTab
<1>6. CASE /\ UNCHANGED <<session, tally>>
           /\ refreshing' = [refreshing EXCEPT ![t] = [at |-> "refused", token |-> k]]
  <2>1. Stale(cookie)' = Stale(cookie)
    BY <1>1, <1>6 DEF Stale, Live, Alive, Ids
  <2>2. AlarmAt(t)'
    BY <1>2, <1>4, <1>6, <2>1 DEF AlarmAt, Risk
  <2> QED
    BY <1>1, <1>6, <2>2 DEF AlarmInv, NoFalseAlarm, OneTab
<1> QED
  BY <1>3, <1>5, <1>6, Zenon DEF RefreshOnServer, Tok

LEMMA NextAlarm ==
  ASSUME OneTab, SessionsTypeOK, AlarmInv, [SessionsNext]_sessionsVars
  PROVE  AlarmInv'
<1>1. ASSUME /\ cookie' \in {cookie, Nothing} /\ refreshing' = refreshing
             /\ tally'.reuses = tally.reuses /\ tally'.drops = tally.drops,
             session' = session \/ \E S : Revoke(S)
      PROVE  AlarmInv'
  <2>1. \A k \in Held : Stale(k)' => Stale(k)
    BY <1>1, RevokeFreshens DEF Stale, Live, Alive, Ids
  <2> QED
    BY <1>1, <2>1, QuietAlarm
<1>2. CASE UNCHANGED sessionsVars
  BY <1>1, <1>2 DEF sessionsVars
<1>3. CASE SessionsNext
  <2>1. ASSUME NEW t \in Tabs, Bootstrap(t) \/ \E c \in AllCalls : Refused(t, c)
        PROVE  AlarmInv'
    BY <2>1, JoinAlarm DEF Bootstrap, Refused
  <2>2. ASSUME NEW t \in Tabs,
               \/ \E c \in AllCalls : SendCall(t, c) \/ Accepted(t, c) \/ RefusedAgain(t, c)
               \/ LogoutReturns(t) \/ RevokeCurrent(t)
        PROVE  AlarmInv'
    <3>1. /\ cookie' \in {cookie, Nothing} /\ refreshing' = refreshing /\ tally' = tally
          /\ session' = session \/ \E S : Revoke(S)
      BY <2>2, Zenon DEF SendCall, Accepted, RefusedAgain, LogoutReturns, RevokeCurrent
    <3> QED
      BY <1>1, <3>1
  <2>3. ASSUME NEW t \in Tabs,
               \/ RefreshOnServer(t) \/ RefreshSucceeds(t)
               \/ \E d \in BOOLEAN : RefreshFails(t, d)
               \/ Reload(t) \/ \E u \in People : Login(t, u)
        PROVE  AlarmInv'
    BY <2>3, RefreshOnServerAlarm, RefreshSucceedsAlarm, RefreshEndsAlarm, LoginAlarm
  <2>4. ASSUME NEW u \in People,
               \/ \E s \in ListSessions(u) : RevokeElsewhere({s})
               \/ RevokeElsewhere(ListSessions(u)) \/ RequestPasswordReset(u) \/ ResetPassword(u)
        PROVE  AlarmInv'
    <3>1. /\ cookie' = cookie /\ refreshing' = refreshing
          /\ session' = session \/ \E S : Revoke(S)
      BY <2>4, Zenon DEF RevokeElsewhere, RequestPasswordReset, ResetPassword
    <3>2. tally' = tally \/ tally' = [tally EXCEPT !.resets = tally.resets + 1]
      BY <2>4 DEF RevokeElsewhere, RequestPasswordReset, ResetPassword
    <3>3. tally'.reuses = tally.reuses /\ tally'.drops = tally.drops
      BY <3>2, SMT DEF SessionsTypeOK, Tallies
    <3> QED
      BY <1>1, <3>1, <3>3
  <2> QED
    BY <1>3, <2>1, <2>2, <2>3, <2>4, Zenon DEF SessionsNext
<1> QED
  BY <1>2, <1>3

(* Every token and every answer names a session that was opened, in every   *)
(* tab and for any number of sessions.                                      *)
THEOREM SessionsTyped == SessionsSpec => []SessionsTypeOK
<1>1. SessionsInit => SessionsTypeOK
  BY InitTyped
<1>2. SessionsTypeOK /\ [SessionsNext]_sessionsVars => SessionsTypeOK'
  BY NextTyped
<1> QED
  BY <1>1, <1>2, PTL DEF SessionsSpec

(* In a browser with one tab, the reuse detection of refresh() signs nobody *)
(* out but for an answer that was lost, for any number of sessions,         *)
(* rotations, calls and people.                                             *)
THEOREM AlarmsAreEarned ==
  ASSUME OneTab
  PROVE  SessionsSpec => []NoFalseAlarm
<1>1. SessionsInit => SessionsTypeOK /\ AlarmInv
  BY InitTyped, InitAlarm
<1>2. SessionsTypeOK /\ AlarmInv /\ [SessionsNext]_sessionsVars => (SessionsTypeOK /\ AlarmInv)'
  BY NextTyped, NextAlarm
<1>3. AlarmInv => NoFalseAlarm
  BY DEF AlarmInv
<1> QED
  BY <1>1, <1>2, <1>3, PTL DEF SessionsSpec

-----------------------------------------------------------------------------
(* A tab acts for the user it shows.                                        *)

Lo(t) == call[t]["logout"]
Orderly == tally.drops = 0 /\ ~tally.crossed

(* A live cookie is of the session the tab is in, which is of the user it   *)
(* shows; a refresh under way was sent with it; and a sign-out under way    *)
(* ends it.                                                                 *)
ShownAt(t) ==
  /\ tab[t].status = "authed" /\ Alive(tab[t].access) => session[tab[t].access].user = tab[t].shows
  /\ Live(cookie) /\ tab[t].status = "authed" =>
       tab[t].access \in {Nothing, cookie.s} /\ session[cookie.s].user = tab[t].shows
  /\ (At(t, "sent") \/ At(t, "rotated")) /\ Live(Tok(t)) => cookie # Nothing /\ cookie.s = Tok(t).s
  /\ Lo(t).at # "none" => tab[t].status = "authed"
  /\ Live(cookie) /\ Lo(t).at \in {"sent", "again"} => Lo(t).with \in {Nothing, cookie.s}
  /\ Live(cookie) /\ Lo(t).at = "done" => Lo(t).with = Nothing

ShownInv == Orderly => \A t \in Tabs : ShownAt(t)

(* No session is opened and none is signed in to anew.                      *)
Dwindles ==
  /\ Ids' = Ids
  /\ \A s \in Ids : session'[s].user = session[s].user /\ (session[s].revoked => session'[s].revoked)

LEMMA DwindlesFacts ==
  ASSUME SessionsTypeOK, Dwindles
  PROVE  /\ \A s : Alive(s)' => Alive(s) /\ session'[s].user = session[s].user
         /\ \A k : Live(k)' => Live(k) /\ session'[k.s].user = session[k.s].user
BY DEF Dwindles, Live, Alive

LEMMA RevokeDwindles ==
  ASSUME SessionsTypeOK, session' = session \/ \E S : Revoke(S)
  PROVE  Dwindles
BY RevokeSteps DEF Dwindles, Ids

(* What is orderly after a step was so before it.                           *)
LEMMA OrderlyBefore ==
  ASSUME SessionsTypeOK, Orderly', [SessionsNext]_sessionsVars
  PROVE  Orderly
<1>1. tally \in Tallies
  BY DEF SessionsTypeOK
<1>2. CASE tally' = tally
  BY <1>2 DEF Orderly
<1>3. CASE \/ \E n : tally' = [tally EXCEPT !.reuses = n]
           \/ \E n : tally' = [tally EXCEPT !.resets = n]
  BY <1>1, <1>3, SMT DEF Orderly, Tallies
<1>4. CASE \E n : tally' = [tally EXCEPT !.drops = n] /\ (n = tally.drops + 1 \/ n = tally.drops)
  BY <1>1, <1>4, SMT DEF Orderly, Tallies
<1>5. ASSUME NEW t \in Tabs, NEW u \in People, Login(t, u)
      PROVE  Orderly
  <2> DEFINE b == tally.crossed \/ call[t]["logout"] # NoCall \/ (cookie # Nothing /\ Alive(cookie.s))
  <2>1. tally' = [tally EXCEPT !.crossed = b]
    BY <1>5 DEF Login
  <2>2. tally.crossed => b
    OBVIOUS
  <2> HIDE DEF b
  <2>3. tally'.drops = tally.drops /\ tally'.crossed = b
    BY <1>1, <2>1, Zenon DEF Tallies
  <2> QED
    BY <2>2, <2>3 DEF Orderly
<1>6. \/ tally' = tally
      \/ \E n : tally' = [tally EXCEPT !.reuses = n]
      \/ \E n : tally' = [tally EXCEPT !.resets = n]
      \/ \E n : tally' = [tally EXCEPT !.drops = n] /\ (n = tally.drops + 1 \/ n = tally.drops)
      \/ \E t \in Tabs, u \in People : Login(t, u)
  <2>1. CASE UNCHANGED sessionsVars
    BY <2>1 DEF sessionsVars
  <2>2. ASSUME NEW t \in Tabs, NEW d \in BOOLEAN, RefreshFails(t, d) \/ Reload(t)
        PROVE  \E n : tally' = [tally EXCEPT !.drops = n] /\ (n = tally.drops + 1 \/ n = tally.drops)
    BY <2>2 DEF RefreshFails, Reload
  <2>3. ASSUME NEW t \in Tabs, RefreshOnServer(t)
        PROVE  tally' = tally \/ \E n : tally' = [tally EXCEPT !.reuses = n]
    BY <2>3, Zenon DEF RefreshOnServer
  <2>4. ASSUME NEW t \in Tabs,
               \/ Bootstrap(t) \/ RefreshSucceeds(t) \/ LogoutReturns(t) \/ RevokeCurrent(t)
               \/ \E c \in AllCalls : SendCall(t, c) \/ Accepted(t, c) \/ Refused(t, c) \/ RefusedAgain(t, c)
        PROVE  tally' = tally
    BY <2>4, Zenon
       DEF Bootstrap, RefreshSucceeds, LogoutReturns, RevokeCurrent, SendCall, Accepted, Refused, RefusedAgain
  <2>5. ASSUME NEW u \in People,
               \/ \E s \in ListSessions(u) : RevokeElsewhere({s})
               \/ RevokeElsewhere(ListSessions(u)) \/ RequestPasswordReset(u) \/ ResetPassword(u)
        PROVE  tally' = tally \/ \E n : tally' = [tally EXCEPT !.resets = n]
    BY <2>5 DEF RevokeElsewhere, RequestPasswordReset, ResetPassword
  <2>6. CASE SessionsNext
    <3>1. ASSUME NEW t \in Tabs, Reload(t)
          PROVE  \E n : tally' = [tally EXCEPT !.drops = n] /\ (n = tally.drops + 1 \/ n = tally.drops)
      BY <2>2, <3>1
    <3> QED
      BY <2>2, <2>3, <2>4, <2>5, <2>6, <3>1, Zenon DEF SessionsNext
  <2> QED
    BY <2>1, <2>6
<1> QED
  BY <1>2, <1>3, <1>4, <1>5, <1>6

(* Steps that change no more than the sessions.                             *)
LEMMA QuietShown ==
  ASSUME SessionsTypeOK, NEW t \in Tabs, ShownAt(t), Dwindles,
         UNCHANGED <<cookie, tab, refreshing, call>>
  PROVE  ShownAt(t)'
<1>1. /\ Alive(tab[t].access)' => Alive(tab[t].access) /\ session'[tab[t].access].user = session[tab[t].access].user
      /\ Live(cookie)' => Live(cookie) /\ session'[cookie.s].user = session[cookie.s].user
      /\ Live(Tok(t))' => Live(Tok(t))
  BY DwindlesFacts DEF Live, Alive, Tok
<1> QED
  BY <1>1 DEF ShownAt, At, Tok, Lo

LEMMA RefreshOnServerShown ==
  ASSUME SessionsTypeOK, NEW t \in Tabs, ShownAt(t), RefreshOnServer(t)
  PROVE  ShownAt(t)'
<1> DEFINE k == Tok(t)
<1>1. /\ At(t, "sent") /\ k \in Held /\ refreshing[t] # Nothing
      /\ UNCHANGED <<cookie, tab, call>>
  BY DEF RefreshOnServer, At, Tok, SessionsTypeOK
<1>2. /\ Dwindles
      /\ \/ ~At(t, "sent")' /\ ~At(t, "rotated")'
         \/ (Tok(t)').s = k.s /\ k # Nothing
  <2>1. CASE /\ k # Nothing /\ Alive(k.s) /\ k.gen = session[k.s].gen
             /\ session' = [session EXCEPT ![k.s].gen = @ + 1]
             /\ refreshing' = [refreshing EXCEPT ![t] =
                                  [at |-> "rotated", token |-> [k EXCEPT !.gen = @ + 1]]]
    <3>1. k \in Tokens /\ k.s \in Ids /\ session[k.s] \in Rows
      BY <1>1, <2>1 DEF Held, SessionsTypeOK
    <3> DEFINE j == [k EXCEPT !.gen = @ + 1]
               p == [session[k.s] EXCEPT !.gen = @ + 1]
    <3>2. j.s = k.s
      BY <3>1, SMT DEF Tokens
    <3>3. p.user = session[k.s].user /\ p.revoked = session[k.s].revoked
      BY <3>1, RowChanged, Zenon
    <3>4. /\ session' = [session EXCEPT ![k.s] = p]
          /\ refreshing' = [refreshing EXCEPT ![t] = [at |-> "rotated", token |-> j]]
      BY <2>1
    <3> HIDE DEF j, p, k
    <3>5. Dwindles
      BY <3>1, <3>3, <3>4 DEF Dwindles, Ids
    <3>6. Tok(t)' = j
      BY <3>4, SMT DEF Tok, SessionsTypeOK
    <3> QED
      BY <2>1, <3>2, <3>5, <3>6
  <2>2. CASE /\ UNCHANGED session \/ Revoke({k.s})
             /\ refreshing' = [refreshing EXCEPT ![t] = [at |-> "refused", token |-> k]]
    <3>1. refreshing'[t] = [at |-> "refused", token |-> k]
      BY <2>2 DEF SessionsTypeOK
    <3> HIDE DEF k
    <3>2. ~At(t, "sent")' /\ ~At(t, "rotated")'
      BY <3>1, SMT DEF At
    <3> QED
      BY <2>2, <3>2, RevokeDwindles
  <2> QED
    BY <2>1, <2>2, Zenon DEF RefreshOnServer, Tok
<1> QED
  <2> HIDE DEF k
  <2>1. /\ Alive(tab[t].access)' => Alive(tab[t].access) /\ session'[tab[t].access].user = session[tab[t].access].user
        /\ Live(cookie)' => Live(cookie) /\ session'[cookie.s].user = session[cookie.s].user
    BY <1>1, <1>2, DwindlesFacts DEF Live, Alive
  <2>2. (At(t, "sent") \/ At(t, "rotated"))' /\ Live(Tok(t))' => cookie # Nothing /\ cookie.s = (Tok(t)').s
    <3> SUFFICES ASSUME (At(t, "sent") \/ At(t, "rotated"))', Live(Tok(t))'
                 PROVE  cookie # Nothing /\ cookie.s = (Tok(t)').s
      OBVIOUS
    <3>1. (Tok(t)').s = k.s /\ k # Nothing
      BY <1>2
    <3>2. Alive(k.s)
      BY <1>2, <3>1, DwindlesFacts DEF Live, Alive
    <3> QED
      BY <1>1, <3>1, <3>2 DEF ShownAt, Live, k
  <2> QED
    BY <1>1, <2>1, <2>2 DEF ShownAt, Lo

(* A refresh starts with the cookie of the browser.                         *)
LEMMA JoinShown ==
  ASSUME SessionsTypeOK, NEW t \in Tabs, ShownAt(t), JoinRefresh(t),
         UNCHANGED <<session, cookie, tab>>,
         Lo(t)' = Lo(t) \/ (Lo(t).at # "none" /\ (Lo(t)').at = "waiting")
  PROVE  ShownAt(t)'
<1>1. /\ Alive(tab[t].access)' = Alive(tab[t].access)
      /\ Live(cookie)' = Live(cookie)
  BY DEF Live, Alive, Ids
<1>2. (At(t, "sent") \/ At(t, "rotated"))' /\ Live(Tok(t))' => cookie # Nothing /\ cookie.s = (Tok(t)').s
  <2>1. CASE refreshing[t] = Nothing
    <3>1. refreshing'[t] = [at |-> "sent", token |-> cookie]
      BY <2>1 DEF JoinRefresh, SessionsTypeOK
    <3>2. Tok(t)' = cookie
      BY <3>1 DEF Tok
    <3> QED
      BY <3>2 DEF Live
  <2>2. CASE refreshing[t] # Nothing
    <3>1. refreshing'[t] = refreshing[t]
      BY <2>2 DEF JoinRefresh, SessionsTypeOK
    <3> QED
      BY <3>1 DEF ShownAt, At, Tok, Live, Alive, Ids
  <2> QED
    BY <2>1, <2>2
<1> QED
  BY <1>1, <1>2 DEF ShownAt

LEMMA WaitingIsTyped ==
  ASSUME SessionsTypeOK, NEW t \in Tabs
  PROVE  /\ call[t] \in [AllCalls -> CallStates] /\ "logout" \in AllCalls
         /\ Lo(t) \in CallStates /\ tab[t] \in TabStates
         /\ ("logout" \in WaitingCalls(t)) <=> Lo(t).at = "waiting"
BY DEF SessionsTypeOK, AllCalls, WaitingCalls, Lo

(* The answer is for the session of the cookie, if that one still lives.    *)
LEMMA RefreshSucceedsShown ==
  ASSUME SessionsTypeOK, NEW t \in Tabs, ShownAt(t), RefreshSucceeds(t)
  PROVE  ShownAt(t)'
<1> DEFINE k == Tok(t)
<1>1. /\ At(t, "rotated") /\ cookie' = k /\ k \in Held /\ k # Nothing
      /\ session' = session
      /\ refreshing'[t] = Nothing
  BY DEF RefreshSucceeds, At, Tok, SessionsTypeOK
<1>2. Ids' = Ids /\ k.s \in Ids /\ k.s # Nothing
  BY <1>1, SessionsAssumption, SMT DEF Held, Ids, SessionsTypeOK
<1> DEFINE st == tab[t].status
           r == [tab[t] EXCEPT !.access = k.s,
                   !.status = IF st = "loading" THEN "authed" ELSE st,
                   !.shows  = IF st = "loading" THEN session[k.s].user ELSE tab[t].shows]
<1>3. tab' = [tab EXCEPT ![t] = r]
  BY DEF RefreshSucceeds, Set, Tok
<1>4. /\ r.access = k.s
      /\ r.status = IF st = "loading" THEN "authed" ELSE st
      /\ r.shows = IF st = "loading" THEN session[k.s].user ELSE tab[t].shows
  <2>1. tab[t] \in TabStates
    BY DEF SessionsTypeOK
  <2> HIDE DEF st, k
  <2> QED
    BY <2>1, SMT DEF TabStates
<1>5. Lo(t)' = IF Lo(t).at = "waiting" THEN [at |-> "again", with |-> k.s] ELSE Lo(t)
  <2>1. Lo(t)' = IF "logout" \in WaitingCalls(t) THEN [at |-> "again", with |-> k.s] ELSE Lo(t)
    BY WaitingIsTyped DEF RefreshSucceeds, After, Lo, SessionsTypeOK, Tok
  <2> QED
    BY <2>1, WaitingIsTyped
<1>6. tab'[t] = r
  <2> HIDE DEF r
  <2> QED
    BY <1>3 DEF SessionsTypeOK
<1> HIDE DEF k, r, st
<1>7. Alive(k.s) => Live(cookie) /\ cookie.s = k.s
  <2>1. Alive(k.s) => Live(k)
    BY <1>1 DEF Live
  <2> QED
    BY <1>1, <2>1 DEF ShownAt, Live, k
<1>8. ASSUME Alive(k.s), st # "loading", r.status = "authed"
      PROVE  session[k.s].user = tab[t].shows
  <2>1. st = "authed"
    BY <1>4, <1>8
  <2> QED
    BY <1>7, <1>8, <2>1 DEF ShownAt, st
<1>9. r.status = "authed" /\ Alive(k.s) => session[k.s].user = r.shows
  BY <1>4, <1>8
<1>10. Live(cookie)' = Alive(k.s) /\ Alive(tab[t].access)' = Alive(k.s)
  <2>1. (cookie').s = k.s /\ cookie' # Nothing /\ tab'[t].access = k.s
    BY <1>1, <1>4, <1>6
  <2> QED
    BY <1>1, <2>1 DEF Live, Alive, Ids
<1>11. (Lo(t)').at # "none" => r.status = "authed"
  <2>1. (Lo(t)').at # "none" => Lo(t).at # "none"
    BY <1>5
  <2> QED
    BY <1>4, <2>1 DEF ShownAt, st
<1>12. Alive(k.s) /\ (Lo(t)').at \in {"sent", "again"} => (Lo(t)').with \in {Nothing, k.s}
  BY <1>5, <1>7 DEF ShownAt
<1>13. Alive(k.s) /\ (Lo(t)').at = "done" => (Lo(t)').with = Nothing
  <2>1. (Lo(t)').at = "done" => Lo(t)' = Lo(t)
    BY <1>5
  <2> QED
    BY <1>7, <2>1 DEF ShownAt
<1>14. At(t, "sent")' = FALSE /\ At(t, "rotated")' = FALSE
  BY <1>1 DEF At
<1> QED
  BY <1>1, <1>4, <1>6, <1>9, <1>10, <1>11, <1>12, <1>13, <1>14 DEF ShownAt

LEMMA RefreshRefusedShown ==
  ASSUME SessionsTypeOK, NEW t \in Tabs, ShownAt(t), RefreshFails(t, FALSE)
  PROVE  ShownAt(t)'
<1> DEFINE st == tab[t].status
           r == [tab[t] EXCEPT !.access = Nothing,
                               !.status = IF st = "loading" THEN "anon" ELSE st]
           q == Overlaid(r, WaitingCalls(t) # {})
<1>1. tab' = [tab EXCEPT ![t] = q] /\ UNCHANGED <<session, cookie>> /\ refreshing'[t] = Nothing
  BY DEF RefreshFails, Set, SessionsTypeOK
<1>2. q.access = Nothing /\ q.shows = tab[t].shows /\ q.status = IF st = "loading" THEN "anon" ELSE st
  <2>1. tab[t] \in TabStates
    BY DEF SessionsTypeOK
  <2>2. r.access = Nothing /\ r.shows = tab[t].shows /\ r.status = IF st = "loading" THEN "anon" ELSE st
    <3> HIDE DEF st
    <3> QED
      BY <2>1, SMT DEF TabStates
  <2>3. q.access = r.access /\ q.shows = r.shows /\ q.status = r.status
    <3>1. r \in TabStates
      <4> DEFINE s == IF st = "loading" THEN "anon" ELSE st
      <4>1. s \in {"loading", "anon", "authed"} /\ Nothing \in Named
            /\ tab[t].shows \in People \cup {Nothing} /\ tab[t].reauth \in BOOLEAN
        BY <2>1, SMT DEF TabStates, Named
      <4> QED
        BY <2>1, <4>1, TabChanged
    <3> HIDE DEF r
    <3> QED
      BY <3>1, Zenon DEF Overlaid, TabStates
  <2> QED
    BY <2>2, <2>3
<1>3. tab'[t] = q
  <2> HIDE DEF q
  <2> QED
    BY <1>1 DEF SessionsTypeOK
<1>4. Lo(t)' = IF Lo(t).at = "waiting" THEN [NoCall EXCEPT !.at = "done"] ELSE Lo(t)
  <2>1. Lo(t)' = IF "logout" \notin WaitingCalls(t) THEN Lo(t) ELSE [NoCall EXCEPT !.at = "done"]
    BY WaitingIsTyped DEF RefreshFails, Lo, SessionsTypeOK
  <2> QED
    BY <2>1, WaitingIsTyped
<1>5. [NoCall EXCEPT !.at = "done"].at = "done" /\ [NoCall EXCEPT !.at = "done"].with = Nothing
  BY SMT DEF NoCall
<1> HIDE DEF q, r, st
<1>6. ~Alive(Nothing)' /\ Live(cookie)' = Live(cookie)
  BY <1>1, SessionsAssumption, SMT DEF Alive, Live, Ids, SessionsTypeOK
<1>7. tab'[t].status = "authed" <=> tab[t].status = "authed"
  BY <1>2, <1>3 DEF st
<1>8. tab'[t].access = Nothing /\ tab'[t].shows = tab[t].shows
  BY <1>2, <1>3
<1>9. Live(cookie)' /\ tab'[t].status = "authed" => session'[cookie'.s].user = tab'[t].shows
  BY <1>1, <1>6, <1>7, <1>8 DEF ShownAt
<1>10. (Lo(t)').at # "none" => tab'[t].status = "authed"
  <2>1. (Lo(t)').at # "none" => Lo(t).at # "none"
    BY <1>4
  <2> QED
    BY <1>7, <2>1 DEF ShownAt
<1>11. /\ Live(cookie) /\ (Lo(t)').at \in {"sent", "again"} => (Lo(t)').with \in {Nothing, cookie.s}
       /\ Live(cookie) /\ (Lo(t)').at = "done" => (Lo(t)').with = Nothing
  BY <1>4, <1>5 DEF ShownAt
<1>12. At(t, "sent")' = FALSE /\ At(t, "rotated")' = FALSE
  BY <1>1 DEF At
<1>13. ~Alive(tab[t].access)'
  BY <1>6, <1>8 DEF Alive
<1> QED
  BY <1>1, <1>6, <1>8, <1>9, <1>10, <1>11, <1>12, <1>13 DEF ShownAt

LEMMA SendCallShown ==
  ASSUME SessionsTypeOK, NEW t \in Tabs, NEW c \in AllCalls, ShownAt(t), SendCall(t, c)
  PROVE  ShownAt(t)'
<1>1. \/ Lo(t)' = Lo(t)
      \/ (Lo(t)').at = "sent" /\ (Lo(t)').with = tab[t].access
  BY WaitingIsTyped, SMT DEF SendCall, Lo, SessionsTypeOK
<1>2. tab[t].status = "authed" /\ UNCHANGED <<session, cookie, tab, refreshing>>
  BY DEF SendCall
<1> QED
  BY <1>1, <1>2 DEF ShownAt, At, Tok, Live, Alive, Ids

LEMMA AcceptedShown ==
  ASSUME SessionsTypeOK, NEW t \in Tabs, NEW c \in AllCalls, ShownAt(t), Accepted(t, c)
  PROVE  ShownAt(t)'
<1>1. UNCHANGED <<cookie, tab, refreshing>> /\ Dwindles
  BY RevokeDwindles DEF Accepted
<1>2. CASE c # "logout"
  <2>1. Lo(t)' = Lo(t)
    BY <1>2, WaitingIsTyped DEF Accepted, Lo, SessionsTypeOK
  <2>2. /\ Alive(tab[t].access)' => Alive(tab[t].access) /\ session'[tab[t].access].user = session[tab[t].access].user
        /\ Live(cookie)' => Live(cookie) /\ session'[cookie.s].user = session[cookie.s].user
        /\ Live(Tok(t))' => Live(Tok(t))
    BY <1>1, DwindlesFacts DEF Live, Alive, Tok
  <2> QED
    BY <1>1, <2>1, <2>2 DEF ShownAt, At, Tok
<1>3. CASE c = "logout"
  <2>1. /\ Lo(t).at \in {"sent", "again"} /\ Alive(Lo(t).with)
        /\ Revoke({Lo(t).with})
    BY <1>3 DEF Accepted, Lo
  <2>2. (Lo(t)').at = "done"
    <3>1. Lo(t)' = [Lo(t) EXCEPT !.at = "done"]
      BY <1>3, WaitingIsTyped DEF Accepted, Lo, SessionsTypeOK
    <3> QED
      BY <3>1, WaitingIsTyped, SMT DEF CallStates
  <2>3. ~Live(cookie)'
    <3> SUFFICES ASSUME Live(cookie)' PROVE FALSE
      OBVIOUS
    <3>1. Live(cookie) /\ cookie.s \notin {Lo(t).with}
      <4>1. \A k \in {cookie} : Live(k)' => Live(k) /\ k.s \notin {Lo(t).with}
        BY <2>1, RevokeFreshens DEF SessionsTypeOK
      <4> QED
        BY <1>1, <4>1 DEF Live, Alive
    <3>2. Lo(t).with = Nothing
      BY <2>1, <3>1 DEF ShownAt
    <3>3. Nothing \notin Ids
      BY SessionsAssumption, SMT DEF SessionsTypeOK
    <3> QED
      BY <2>1, <3>2, <3>3 DEF Alive
  <2>4. /\ Alive(tab[t].access)' => Alive(tab[t].access) /\ session'[tab[t].access].user = session[tab[t].access].user
        /\ Live(Tok(t))' => Live(Tok(t))
    BY <1>1, DwindlesFacts DEF Live, Alive, Tok
  <2>5. tab[t].status = "authed"
    BY <2>1 DEF ShownAt
  <2> QED
    BY <1>1, <2>2, <2>3, <2>4, <2>5 DEF ShownAt, At, Tok
<1> QED
  BY <1>2, <1>3

LEMMA RefusedAgainShown ==
  ASSUME SessionsTypeOK, NEW t \in Tabs, NEW c \in AllCalls, ShownAt(t), RefusedAgain(t, c)
  PROVE  ShownAt(t)'
<1>1. UNCHANGED <<session, cookie, refreshing>>
  BY DEF RefusedAgain
<1>2. /\ tab'[t].status = tab[t].status /\ tab'[t].access = tab[t].access
      /\ tab'[t].shows = tab[t].shows
  <2>1. tab'[t] = Overlaid(tab[t], TRUE) /\ tab[t] \in TabStates
    BY DEF RefusedAgain, Set, SessionsTypeOK
  <2> QED
    BY <2>1, Zenon DEF Overlaid, TabStates
<1>3. Lo(t)' = Lo(t) \/ (Lo(t).at = "again" /\ (Lo(t)').at = "done" /\ (Lo(t)').with = Nothing)
  <2>1. CASE c # "logout"
    BY <2>1, WaitingIsTyped DEF RefusedAgain, Lo, SessionsTypeOK
  <2>2. CASE c = "logout"
    <3>1. Lo(t)' = [NoCall EXCEPT !.at = "done"] /\ Lo(t).at = "again"
      BY <2>2, WaitingIsTyped DEF RefusedAgain, Lo, SessionsTypeOK
    <3> QED
      BY <3>1, SMT DEF NoCall
  <2> QED
    BY <2>1, <2>2
<1>4. /\ Alive(tab[t].access)' = Alive(tab[t].access)
      /\ Live(cookie)' = Live(cookie) /\ Live(Tok(t))' = Live(Tok(t))
  BY <1>1, <1>2 DEF Live, Alive, Ids, Tok
<1> QED
  BY <1>1, <1>2, <1>3, <1>4 DEF ShownAt, At, Tok

(* Signed out: what the cookie was for is gone with it.                     *)
LEMMA LogoutReturnsShown ==
  ASSUME SessionsTypeOK, NEW t \in Tabs, ShownAt(t), LogoutReturns(t)
  PROVE  ShownAt(t)'
<1>1. /\ UNCHANGED <<session, refreshing>> /\ Lo(t).at = "done"
      /\ cookie' = IF Lo(t).with # Nothing THEN Nothing ELSE cookie
  BY DEF LogoutReturns, Lo
<1>2. tab'[t].status = "anon"
  <2>1. tab'[t] = [tab[t] EXCEPT !.access = Nothing, !.shows = Nothing, !.status = "anon"]
    BY DEF LogoutReturns, Set, SessionsTypeOK
  <2> QED
    BY <2>1, WaitingIsTyped, SMT DEF TabStates
<1>3. (Lo(t)').at = "none"
  BY WaitingIsTyped, SMT DEF LogoutReturns, Lo, SessionsTypeOK, NoCall
<1>4. (At(t, "sent") \/ At(t, "rotated")) /\ Live(Tok(t)) => cookie' # Nothing /\ cookie'.s = Tok(t).s
  <2> SUFFICES ASSUME At(t, "sent") \/ At(t, "rotated"), Live(Tok(t))
               PROVE  cookie' # Nothing /\ cookie'.s = Tok(t).s
    OBVIOUS
  <2>1. cookie # Nothing /\ cookie.s = Tok(t).s /\ Live(cookie)
    BY DEF ShownAt, Live
  <2> QED
    BY <1>1, <2>1 DEF ShownAt
<1>5. Live(Tok(t))' = Live(Tok(t)) /\ Tok(t)' = Tok(t) /\ \A a : At(t, a)' = At(t, a)
  BY <1>1 DEF Live, Alive, Ids, Tok, At
<1> QED
  BY <1>2, <1>3, <1>4, <1>5 DEF ShownAt

LEMMA RevokeCurrentShown ==
  ASSUME SessionsTypeOK, NEW t \in Tabs, ShownAt(t), RevokeCurrent(t)
  PROVE  ShownAt(t)'
<1> DEFINE s == tab[t].access
<1>1. /\ UNCHANGED <<tab, refreshing>> /\ Revoke({s}) /\ cookie' = Nothing
      /\ tab[t].status = "authed" /\ Alive(s)
  BY DEF RevokeCurrent
<1>2. ~Alive(tab[t].access)'
  BY <1>1, RevokeSteps DEF Alive
<1>3. s # Nothing
  BY <1>1, SessionsAssumption, SMT DEF Alive, SessionsTypeOK
<1>4. (At(t, "sent") \/ At(t, "rotated")) => ~Live(Tok(t))'
  <2> SUFFICES ASSUME At(t, "sent") \/ At(t, "rotated"), Live(Tok(t))'
               PROVE  FALSE
    OBVIOUS
  <2>1. Tok(t) \in Held /\ Tok(t)' = Tok(t)
    BY <1>1 DEF SessionsTypeOK, At, Tok
  <2>2. Live(Tok(t)) /\ Tok(t).s \notin {s}
    <3>1. \A k \in {Tok(t)} : Live(k)' => Live(k) /\ k.s \notin {s}
      BY <1>1, <2>1, RevokeFreshens
    <3> QED
      BY <2>1, <3>1 DEF Live, Alive
  <2>3. cookie # Nothing /\ cookie.s = Tok(t).s /\ Live(cookie)
    BY <2>2 DEF ShownAt, Live
  <2>4. s \in {Nothing, cookie.s}
    BY <1>1, <2>3 DEF ShownAt
  <2> QED
    BY <1>3, <2>2, <2>3, <2>4
<1>5. ~Live(cookie)'
  BY <1>1 DEF Live
<1>6. \A a : At(t, a)' = At(t, a)
  BY <1>1 DEF At
<1> QED
  BY <1>1, <1>2, <1>4, <1>5, <1>6 DEF ShownAt

(* Whoever signs in finds no live cookie and no sign-out under way.         *)
LEMMA LoginShown ==
  ASSUME SessionsTypeOK, NEW t \in Tabs, NEW u \in People, ShownAt(t), Login(t, u), ~tally'.crossed
  PROVE  ShownAt(t)'
<1>1. Lo(t) = NoCall /\ ~Live(cookie)
  <2> DEFINE b == tally.crossed \/ call[t]["logout"] # NoCall \/ (cookie # Nothing /\ Alive(cookie.s))
  <2>1. tally' = [tally EXCEPT !.crossed = b] /\ tally \in Tallies
    BY DEF Login, SessionsTypeOK
  <2>2. ~b
    <3> HIDE DEF b
    <3> QED
      BY <2>1, Zenon DEF Tallies
  <2> QED
    BY <2>2 DEF Lo, Live
<1> DEFINE n == NextId
<1>2. /\ n \notin Ids
      /\ Ids' = Ids \cup {n}
      /\ session'[n] = [user |-> u, gen |-> 0, revoked |-> FALSE]
      /\ \A s \in Ids : session'[s] = session[s]
      /\ cookie' = [s |-> n, gen |-> 0]
      /\ tab' = [tab EXCEPT ![t] = [status |-> "authed", shows |-> u, access |-> n, reauth |-> FALSE]]
      /\ UNCHANGED <<refreshing, call>>
  <2>1. /\ tab' = [tab EXCEPT ![t] = [status |-> "authed", shows |-> u, access |-> n, reauth |-> FALSE]]
        /\ UNCHANGED <<refreshing, call>>
    BY DEF Login, Set
  <2> QED
    BY <2>1, LoginSteps
<1> HIDE DEF n
<1>3. tab'[t].status = "authed" /\ tab'[t].shows = u /\ tab'[t].access = n
  BY <1>2, SMT DEF SessionsTypeOK
<1>4. cookie'.s = n /\ session'[n].user = u
  BY <1>2, SMT
<1>5. (At(t, "sent") \/ At(t, "rotated")) => ~Live(Tok(t))'
  <2> SUFFICES ASSUME At(t, "sent") \/ At(t, "rotated"), Live(Tok(t))'
               PROVE  FALSE
    OBVIOUS
  <2>1. Tok(t) \in Held /\ Tok(t)' = Tok(t)
    BY <1>2 DEF SessionsTypeOK, At, Tok
  <2>2. Live(Tok(t))
    BY <1>2, <2>1 DEF Live, Alive, Held
  <2>3. Live(cookie)
    BY <2>2 DEF ShownAt, Live
  <2> QED
    BY <1>1, <2>3
<1>6. Lo(t)' = Lo(t) /\ Lo(t).at = "none" /\ \A a : At(t, a)' = At(t, a)
  BY <1>1, <1>2, SMT DEF Lo, NoCall, At
<1> QED
  BY <1>3, <1>4, <1>5, <1>6 DEF ShownAt

LEMMA ReloadShown ==
  ASSUME SessionsTypeOK, NEW t \in Tabs, ShownAt(t), Reload(t)
  PROVE  ShownAt(t)'
<1>1. refreshing'[t] = Nothing /\ tab'[t] = FreshTab
  BY DEF Reload, Set, SessionsTypeOK
<1>2. Lo(t)' = NoCall
  BY WaitingIsTyped DEF Reload, Lo, SessionsTypeOK
<1>3. tab'[t].status = "loading" /\ (Lo(t)').at = "none"
  BY <1>1, <1>2, SMT DEF FreshTab, NoCall
<1>4. At(t, "sent")' = FALSE /\ At(t, "rotated")' = FALSE
  BY <1>1 DEF At
<1> QED
  BY <1>3, <1>4 DEF ShownAt

LEMMA InitShown == SessionsInit => ShownInv
BY SMT DEF SessionsInit, ShownInv, ShownAt, FreshTab, NoCall, Live, At, Lo, AllCalls

LEMMA NextShown ==
  ASSUME OneTab, SessionsTypeOK, ShownInv, [SessionsNext]_sessionsVars
  PROVE  ShownInv'
<1> SUFFICES ASSUME Orderly', NEW v \in Tabs PROVE ShownAt(v)'
  BY DEF ShownInv
<1>1. \A t \in Tabs : ShownAt(t) /\ t = v
  BY OrderlyBefore DEF ShownInv, OneTab
<1>2. tally'.drops = 0 /\ ~tally'.crossed /\ tally \in Tallies
  BY DEF Orderly, SessionsTypeOK
<1>3. CASE \/ UNCHANGED sessionsVars
           \/ \E S : RevokeElsewhere(S)
           \/ \E u \in People : RequestPasswordReset(u) \/ ResetPassword(u)
  <2>1. UNCHANGED <<cookie, tab, refreshing, call>> /\ (session' = session \/ \E S : Revoke(S))
    BY <1>3, Zenon DEF sessionsVars, RevokeElsewhere, RequestPasswordReset, ResetPassword
  <2> QED
    BY <1>1, <2>1, RevokeDwindles, QuietShown
<1>4. ASSUME NEW t \in Tabs, Bootstrap(t) PROVE ShownAt(t)'
  BY <1>1, <1>4, JoinShown DEF Bootstrap, Lo
<1>5. ASSUME NEW t \in Tabs, NEW c \in AllCalls, Refused(t, c) PROVE ShownAt(t)'
  <2>1. Lo(t)' = Lo(t) \/ (Lo(t).at # "none" /\ (Lo(t)').at = "waiting")
    <3>1. CASE c # "logout"
      BY <1>5, <3>1, WaitingIsTyped DEF Refused, Lo
    <3>2. CASE c = "logout"
      <4>1. Lo(t)' = [Lo(t) EXCEPT !.at = "waiting"] /\ Lo(t).at = "sent"
        <5> DEFINE r == [Lo(t) EXCEPT !.at = "waiting"]
        <5>1. call'[t]["logout"] = r
          BY <1>5, <3>2, WaitingIsTyped, SMT DEF Refused, Lo, SessionsTypeOK
        <5> QED
          BY <1>5, <3>2, <5>1 DEF Refused, Lo
      <4> QED
        BY <4>1, WaitingIsTyped, SMT DEF CallStates
    <3> QED
      BY <3>1, <3>2
  <2> QED
    BY <1>1, <1>5, <2>1, JoinShown DEF Refused
<1>6. ASSUME NEW t \in Tabs, RefreshOnServer(t) \/ RefreshSucceeds(t) \/ LogoutReturns(t) \/ RevokeCurrent(t)
      PROVE  ShownAt(t)'
  BY <1>1, <1>6, RefreshOnServerShown, RefreshSucceedsShown, LogoutReturnsShown, RevokeCurrentShown
<1>7. ASSUME NEW t \in Tabs, NEW d \in BOOLEAN, RefreshFails(t, d)
      PROVE  ShownAt(t)'
  <2>1. CASE d
    <3>1. tally' = [tally EXCEPT !.drops = tally.drops + 1]
      BY <1>7, <2>1 DEF RefreshFails
    <3>2. tally'.drops # 0
      BY <1>2, <3>1, SMT DEF Tallies
    <3> QED
      BY <1>2, <3>2
  <2>2. CASE ~d
    <3>1. RefreshFails(t, FALSE)
      BY <1>7, <2>2 DEF RefreshFails
    <3> QED
      BY <1>1, <3>1, RefreshRefusedShown
  <2> QED
    BY <2>1, <2>2
<1>8. ASSUME NEW t \in Tabs, NEW c \in AllCalls, SendCall(t, c) \/ Accepted(t, c) \/ RefusedAgain(t, c)
      PROVE  ShownAt(t)'
  BY <1>1, <1>8, SendCallShown, AcceptedShown, RefusedAgainShown
<1>9. ASSUME NEW t \in Tabs, Reload(t) PROVE ShownAt(t)'
  BY <1>1, <1>9, ReloadShown
<1>10. ASSUME NEW t \in Tabs, NEW u \in People, Login(t, u) PROVE ShownAt(t)'
  BY <1>1, <1>2, <1>10, LoginShown
<1>11. CASE SessionsNext
  BY <1>1, <1>3, <1>4, <1>5, <1>6, <1>7, <1>8, <1>9, <1>10, <1>11, Zenon DEF SessionsNext
<1> QED
  BY <1>3, <1>11

(* In a browser with one tab, a token the tab still holds, and the calls    *)
(* made with it, belong to the user it shows, for any number of sessions    *)
(* and calls, while no answer is lost and nobody signs in across a session  *)
(* that was not signed out of.                                              *)
THEOREM TabsActAsShown ==
  ASSUME OneTab
  PROVE  SessionsSpec => []ActsAsShown
<1>1. SessionsInit => SessionsTypeOK /\ ShownInv
  BY InitTyped, InitShown
<1>2. SessionsTypeOK /\ ShownInv /\ [SessionsNext]_sessionsVars => (SessionsTypeOK /\ ShownInv)'
  BY NextTyped, NextShown
<1>3. ShownInv => ActsAsShown
  BY DEF ShownInv, ShownAt, Orderly, ActsAsShown
<1> QED
  BY <1>1, <1>2, <1>3, PTL DEF SessionsSpec

-----------------------------------------------------------------------------
(* The composer.                                                            *)

Typed == Texts \cup {Absent}
ModeRows == Modes \cup {"time"}
PageRows == [all : Texts, own : Typed, media : SUBSET Files, sched : ModeRows \cup {"unset"}]
DraftRows == [text : Texts, over : Typed, media : SUBSET Files, sched : ModeRows \cup {"unset"},
              target : BOOLEAN, status : {"draft", "scheduled", "pending_approval"},
              frozen : PageRows \cup {Absent}]
EditorRows == [tab : PageTabs, local : [PageTabs -> Typed], sched : ModeRows, ready : SUBSET Files]
TimerRows == [text : {Absent} \cup [tab : PageTabs, value : Texts], sched : BOOLEAN]
CommitRows == {[at |-> "idle"]}
  \cup [at : {"busy", "failed", "done"}, what : {"schedule", "submit"}, page : PageRows]

Saves == [kind : {"update", "override"}, value : Texts, at : {"sent"}]
Clears == [kind : {"revert", "add", "remove"}]
Sendings == [kind : {"media"}, file : Files, list : SUBSET Files, at : {"sent"}]
Readings == [kind : {"update"}, at : {"read"}, file : {Absent}, text : Texts, list : SUBSET Files]
  \cup [kind : {"media"}, at : {"read"}, file : Files, text : Texts, list : SUBSET Files]
Pushes == [kind : {"schedule"}, mode : ModeRows, from : {"timer", "commit"}]
Acts == [kind : {"act"}, what : {"schedule", "submit"}]

ComposerTypeOK ==
  /\ draft \in DraftRows
  /\ editor \in EditorRows
  /\ timer \in TimerRows
  /\ requests \subseteq Saves \cup Clears \cup Sendings \cup Readings \cup Pushes \cup Acts
  /\ commit \in CommitRows

(* One save of the content is under way at a time, while no text waits.     *)
OfContent(r) == r.kind \notin {"schedule", "act"}
OneSave ==
  /\ \A r, s \in requests : OfContent(r) /\ OfContent(s) => r = s
  /\ timer.text # Absent => \A r \in requests : ~OfContent(r)

(* What a save under way will make of the draft is what the page shows.     *)
SaveSound(r) ==
  /\ r.kind = "update" /\ r.at = "sent" => editor.local["all"] = r.value
  /\ r.kind = "update" /\ r.at = "read" => editor.local["all"] = r.text /\ r.list = draft.media
  /\ r.kind = "override" => editor.local["own"] = r.value /\ draft.target
  /\ r.kind = "media" => r.list = draft.media \cup {r.file}
  /\ r.kind = "media" /\ r.at = "read" => r.text = draft.text

UnderWay(which, kind) ==
  \/ timer.text # Absent /\ timer.text.tab = which
  \/ \E r \in requests : r.kind = kind

(* Where nothing is under way, the page shows the draft.                    *)
PageAgrees ==
  /\ UnderWay("all", "update") \/ editor.local["all"] \in {Absent, draft.text}
  /\ \/ UnderWay("own", "override") \/ editor.local["own"] = Absent
     \/ draft.over = IF editor.local["own"] = "" THEN Absent ELSE editor.local["own"]
  /\ editor.ready = draft.media
  /\ ~draft.target => editor.local["own"] = Absent /\ draft.over = Absent
  /\ editor.tab = "own" => draft.target
  /\ timer.text # Absent =>
       timer.text.tab = editor.tab /\ editor.local[editor.tab] = timer.text.value

(* After the click the draft is what the page was, and every push brings    *)
(* the schedule it showed.                                                  *)
StoredAs(sched) == [all |-> Stored.all, own |-> Stored.own, media |-> Stored.media, sched |-> sched]
CommitSound ==
  /\ commit.at = "idle" =>
       Editable /\ \A r \in requests : r.kind # "act" /\ (r.kind = "schedule" => r.from = "timer")
  /\ commit.at # "idle" =>
       /\ timer.text = Absent /\ \A r \in requests : ~OfContent(r)
       /\ Editable =>
            /\ commit.page = StoredAs(editor.sched)
            /\ \A r \in requests : /\ r.kind = "schedule" => r.mode = editor.sched
                                   /\ r.kind = "act" => draft.sched = editor.sched
  /\ commit.at = "done" => ~Editable

ComposerInv ==
  /\ ComposerTypeOK
  /\ OneSave
  /\ \A r \in requests : SaveSound(r)
  /\ PageAgrees
  /\ CommitSound
  /\ ScheduledAsShown

-----------------------------------------------------------------------------
(* Writes to the draft and to the page, as rows.                            *)
LEMMA DraftScheduled ==
  ASSUME NEW d \in DraftRows, NEW a
  PROVE  [d EXCEPT !.sched = a] = [text |-> d.text, over |-> d.over, media |-> d.media, sched |-> a,
                                   target |-> d.target, status |-> d.status, frozen |-> d.frozen]
BY SMT DEF DraftRows

LEMMA DraftOverridden ==
  ASSUME NEW d \in DraftRows, NEW a
  PROVE  [d EXCEPT !.over = a] = [text |-> d.text, over |-> a, media |-> d.media, sched |-> d.sched,
                                  target |-> d.target, status |-> d.status, frozen |-> d.frozen]
BY SMT DEF DraftRows

LEMMA DraftUpdated ==
  ASSUME NEW d \in DraftRows, NEW a, NEW b
  PROVE  [d EXCEPT !.text = a, !.media = b] =
           [text |-> a, over |-> d.over, media |-> b, sched |-> d.sched,
            target |-> d.target, status |-> d.status, frozen |-> d.frozen]
<1>1. [d EXCEPT !.text = a, !.media = b] = [[d EXCEPT !.text = a] EXCEPT !.media = b]
  BY Zenon
<1>2. [d EXCEPT !.text = a] = [text |-> a, over |-> d.over, media |-> d.media, sched |-> d.sched,
                               target |-> d.target, status |-> d.status, frozen |-> d.frozen]
  BY SMT DEF DraftRows
<1>3. [[text |-> a, over |-> d.over, media |-> d.media, sched |-> d.sched, target |-> d.target,
        status |-> d.status, frozen |-> d.frozen] EXCEPT !.media = b]
        = [text |-> a, over |-> d.over, media |-> b, sched |-> d.sched,
           target |-> d.target, status |-> d.status, frozen |-> d.frozen]
  BY SMT
<1> QED
  BY <1>1, <1>2, <1>3

LEMMA DraftToggled ==
  ASSUME NEW d \in DraftRows, NEW a, NEW b
  PROVE  [d EXCEPT !.target = a, !.over = b] =
           [text |-> d.text, over |-> b, media |-> d.media, sched |-> d.sched,
            target |-> a, status |-> d.status, frozen |-> d.frozen]
<1>1. [d EXCEPT !.target = a, !.over = b] = [[d EXCEPT !.target = a] EXCEPT !.over = b]
  BY Zenon
<1>2. [d EXCEPT !.target = a] = [text |-> d.text, over |-> d.over, media |-> d.media, sched |-> d.sched,
                                 target |-> a, status |-> d.status, frozen |-> d.frozen]
  BY SMT DEF DraftRows
<1>3. [[text |-> d.text, over |-> d.over, media |-> d.media, sched |-> d.sched, target |-> a,
        status |-> d.status, frozen |-> d.frozen] EXCEPT !.over = b]
        = [text |-> d.text, over |-> b, media |-> d.media, sched |-> d.sched,
           target |-> a, status |-> d.status, frozen |-> d.frozen]
  BY SMT
<1> QED
  BY <1>1, <1>2, <1>3

LEMMA DraftFrozen ==
  ASSUME NEW d \in DraftRows, NEW a, NEW b
  PROVE  [d EXCEPT !.status = a, !.frozen = b] =
           [text |-> d.text, over |-> d.over, media |-> d.media, sched |-> d.sched,
            target |-> d.target, status |-> a, frozen |-> b]
<1>1. [d EXCEPT !.status = a, !.frozen = b] = [[d EXCEPT !.status = a] EXCEPT !.frozen = b]
  BY Zenon
<1>2. [d EXCEPT !.status = a] = [text |-> d.text, over |-> d.over, media |-> d.media, sched |-> d.sched,
                                 target |-> d.target, status |-> a, frozen |-> d.frozen]
  BY SMT DEF DraftRows
<1>3. [[text |-> d.text, over |-> d.over, media |-> d.media, sched |-> d.sched, target |-> d.target,
        status |-> a, frozen |-> d.frozen] EXCEPT !.frozen = b]
        = [text |-> d.text, over |-> d.over, media |-> d.media, sched |-> d.sched,
           target |-> d.target, status |-> a, frozen |-> b]
  BY SMT
<1> QED
  BY <1>1, <1>2, <1>3

LEMMA EditorWrites ==
  ASSUME NEW d \in EditorRows, NEW a
  PROVE  /\ [d EXCEPT !.tab = a] = [tab |-> a, local |-> d.local, sched |-> d.sched, ready |-> d.ready]
         /\ [d EXCEPT !.local = a] = [tab |-> d.tab, local |-> a, sched |-> d.sched, ready |-> d.ready]
         /\ [d EXCEPT !.sched = a] = [tab |-> d.tab, local |-> d.local, sched |-> a, ready |-> d.ready]
         /\ [d EXCEPT !.ready = a] = [tab |-> d.tab, local |-> d.local, sched |-> d.sched, ready |-> a]
BY SMT DEF EditorRows

LEMMA EditorTyped ==
  ASSUME NEW d \in EditorRows, NEW t \in PageTabs, NEW v \in Typed
  PROVE  [d EXCEPT !.local[t] = v] =
           [tab |-> d.tab, local |-> [d.local EXCEPT ![t] = v], sched |-> d.sched, ready |-> d.ready]
<1> DEFINE l == [d.local EXCEPT ![t] = v]
<1>1. [d EXCEPT !.local[t] = v] = [d EXCEPT !.local = l]
  BY Zenon
<1> HIDE DEF l
<1>2. [d EXCEPT !.local = l] = [tab |-> d.tab, local |-> l, sched |-> d.sched, ready |-> d.ready]
  BY EditorWrites
<1> QED
  BY <1>1, <1>2 DEF l

LEMMA TimerWrites ==
  ASSUME NEW d \in TimerRows, NEW a
  PROVE  /\ [d EXCEPT !.text = a] = [text |-> a, sched |-> d.sched]
         /\ [d EXCEPT !.sched = a] = [text |-> d.text, sched |-> a]
BY SMT DEF TimerRows

LEMMA CommitMoves ==
  ASSUME NEW c \in CommitRows, c.at # "idle", NEW at \in {"busy", "failed", "done"}
  PROVE  /\ [c EXCEPT !.at = at] \in CommitRows
         /\ [c EXCEPT !.at = at].at = at /\ [c EXCEPT !.at = at].page = c.page
<1>1. c \in [at : {"busy", "failed", "done"}, what : {"schedule", "submit"}, page : PageRows]
  BY DEF CommitRows
<1>2. [c EXCEPT !.at = at] = [at |-> at, what |-> c.what, page |-> c.page]
  BY <1>1, SMT
<1>3. [at |-> at, what |-> c.what, page |-> c.page] \in CommitRows
  BY <1>1, SMT DEF CommitRows
<1> QED
  BY <1>2, <1>3

(* The text and the schedule of the draft, and the page, are well typed.    *)
LEMMA RowFacts ==
  ASSUME ComposerTypeOK
  PROVE  /\ draft.text \in Texts /\ draft.over \in Typed /\ draft.media \in SUBSET Files
         /\ draft.sched \in ModeRows \cup {"unset"} /\ draft.target \in BOOLEAN
         /\ draft.status \in {"draft", "scheduled", "pending_approval"}
         /\ draft.frozen \in PageRows \cup {Absent}
         /\ editor.tab \in PageTabs /\ editor.local \in [PageTabs -> Typed]
         /\ editor.sched \in ModeRows /\ editor.ready \in SUBSET Files
<1>1. draft \in DraftRows /\ editor \in EditorRows
  BY DEF ComposerTypeOK
<1> QED
  BY <1>1, Zenon DEF DraftRows, EditorRows

LEMMA InitComposer == ComposerInit => ComposerInv
<1> SUFFICES ASSUME ComposerInit PROVE ComposerInv
  OBVIOUS
<1>1. draft \in DraftRows
  <2> DEFINE e == ""
             none == {}
             u == "unset"
             yes == TRUE
             s == "draft"
  <2>1. e \in Texts /\ Absent \in Typed /\ none \in SUBSET Files /\ u \in ModeRows \cup {"unset"}
        /\ yes \in BOOLEAN /\ s \in {"draft", "scheduled", "pending_approval"}
        /\ Absent \in PageRows \cup {Absent}
    BY ComposerAssumption DEF Typed
  <2>2. draft = [text |-> e, over |-> Absent, media |-> none, sched |-> u, target |-> yes, status |-> s,
                 frozen |-> Absent]
    BY DEF ComposerInit
  <2> HIDE DEF e, none, u, yes, s
  <2> QED
    BY <2>1, <2>2, Zenon DEF DraftRows
<1>2. editor \in EditorRows
  <2> DEFINE l == [p \in PageTabs |-> Absent]
  <2>1. editor = [tab |-> "all", local |-> l, sched |-> "time", ready |-> {}]
    BY DEF ComposerInit
  <2>2. l \in [PageTabs -> Typed] /\ "all" \in PageTabs /\ "time" \in ModeRows /\ {} \in SUBSET Files
    BY DEF Typed, PageTabs, ModeRows
  <2> HIDE DEF l
  <2> QED
    BY <2>1, <2>2, Zenon DEF EditorRows
<1>3. timer \in TimerRows /\ commit \in CommitRows /\ requests = {} /\ commit.at = "idle" /\ timer.text = Absent
  BY Zenon DEF ComposerInit, TimerRows, CommitRows
<1>4. /\ draft.status = "draft" /\ draft.over = Absent /\ draft.media = {} /\ draft.target = TRUE
      /\ editor.tab = "all" /\ editor.ready = {}
      /\ editor.local["all"] = Absent /\ editor.local["own"] = Absent
  BY DEF ComposerInit, PageTabs
<1>5. ComposerTypeOK
  BY <1>1, <1>2, <1>3 DEF ComposerTypeOK
<1>6. PageAgrees
  BY <1>3, <1>4 DEF PageAgrees
<1> QED
  BY <1>3, <1>4, <1>5, <1>6 DEF ComposerInv, OneSave, CommitSound, ScheduledAsShown, Editable

(* While a save of the content is under way there is no other, no text      *)
(* waits and nobody has clicked.                                            *)
LEMMA SavingFacts ==
  ASSUME ComposerInv, NEW r \in requests, OfContent(r)
  PROVE  /\ timer.text = Absent /\ commit.at = "idle" /\ Editable
         /\ \A q \in requests \ {r} : ~OfContent(q)
         /\ SaveSound(r)
BY DEF ComposerInv, OneSave, CommitSound

(* A save that arrives leaves the page showing the draft.                   *)
LEMMA SaveArrives ==
  ASSUME ComposerInv, NEW r \in requests, OfContent(r),
         requests' = requests \ {r}, UNCHANGED <<timer, commit>>,
         draft' \in DraftRows, editor' \in EditorRows, draft'.status = draft.status,
         editor'.local["all"] \in {Absent, draft'.text},
         \/ editor'.local["own"] = Absent
         \/ draft'.over = IF editor'.local["own"] = "" THEN Absent ELSE editor'.local["own"],
         editor'.ready = draft'.media,
         ~draft'.target => editor'.local["own"] = Absent /\ draft'.over = Absent,
         editor'.tab = "own" => draft'.target
  PROVE  ComposerInv'
<1>1. /\ timer.text = Absent /\ commit.at = "idle" /\ draft.status = "draft"
      /\ \A q \in requests \ {r} : ~OfContent(q)
  BY SavingFacts DEF Editable
<1>2. ComposerTypeOK'
  BY DEF ComposerInv, ComposerTypeOK
<1>3. OneSave'
  BY <1>1 DEF OneSave, OfContent
<1>4. \A q \in requests' : SaveSound(q)'
  BY <1>1 DEF SaveSound, OfContent
<1>5. PageAgrees'
  BY <1>1 DEF PageAgrees
<1>6. CommitSound'
  BY <1>1 DEF ComposerInv, CommitSound, Editable
<1> QED
  BY <1>1, <1>2, <1>3, <1>4, <1>5, <1>6 DEF ComposerInv, ScheduledAsShown

LEMMA UpdateReadsKeeps ==
  ASSUME ComposerInv, NEW r \in requests, UpdateReads(r)
  PROVE  ComposerInv'
<1>0. PICK q : q = [kind |-> r.kind, at |-> "read", file |-> IF r.kind = "media" THEN r.file ELSE Absent,
                 text |-> IF r.kind = "update" THEN r.value ELSE draft.text,
                 list |-> IF r.kind = "media" THEN r.list ELSE draft.media]
  OBVIOUS
<1>1. r.kind \in {"update", "media"} /\ r.at = "sent" /\ OfContent(r)
  BY DEF UpdateReads, OfContent
<1>2. requests' = (requests \ {r}) \cup {q} /\ UNCHANGED <<draft, editor, timer, commit>>
  BY <1>0 DEF UpdateReads
<1>3. q.kind = r.kind /\ q.at = "read" /\ q \in Readings
      /\ (q.kind = "update" => q.text = r.value /\ q.list = draft.media)
      /\ (q.kind = "media" => q.text = draft.text /\ q.list = r.list /\ q.file = r.file)
  <2>1. draft.text \in Texts /\ draft.media \in SUBSET Files
    BY RowFacts DEF ComposerInv
  <2>2. CASE r.kind = "update"
    <3>1. r.value \in Texts
      BY <1>1, <2>2 DEF ComposerInv, ComposerTypeOK, Saves, Clears, Sendings, Readings, Pushes, Acts
    <3>2. q = [kind |-> "update", at |-> "read", file |-> Absent, text |-> r.value, list |-> draft.media]
      BY <1>0, <2>2
    <3> QED
      BY <2>1, <2>2, <3>1, <3>2 DEF Readings
  <2>3. CASE r.kind = "media"
    <3>1. r.file \in Files /\ r.list \in SUBSET Files
      BY <1>1, <2>3 DEF ComposerInv, ComposerTypeOK, Saves, Clears, Sendings, Readings, Pushes, Acts
    <3>2. q = [kind |-> "media", at |-> "read", file |-> r.file, text |-> draft.text, list |-> r.list]
      BY <1>0, <2>3
    <3> QED
      BY <2>1, <2>3, <3>1, <3>2 DEF Readings
  <2> QED
    BY <1>1, <2>2, <2>3
<1>4. /\ timer.text = Absent /\ commit.at = "idle" /\ draft.status = "draft"
      /\ \A s \in requests \ {r} : ~OfContent(s)
      /\ SaveSound(r)
  BY <1>1, SavingFacts DEF Editable
<1>5. ComposerTypeOK'
  BY <1>2, <1>3 DEF ComposerInv, ComposerTypeOK
<1>6. OneSave'
  BY <1>2, <1>4 DEF OneSave, OfContent
<1>7. \A s \in requests' : SaveSound(s)'
  <2>1. SaveSound(q)'
    BY <1>1, <1>2, <1>3, <1>4 DEF SaveSound
  <2>2. \A s \in requests : SaveSound(s)'
    BY <1>2 DEF ComposerInv, SaveSound
  <2> QED
    BY <1>2, <2>1, <2>2
<1>8. PageAgrees'
  <2>1. ASSUME NEW k, \E s \in requests : s.kind = k PROVE \E s \in requests' : s.kind = k
    BY <1>2, <1>3, <2>1
  <2> QED
    BY <1>2, <2>1 DEF ComposerInv, PageAgrees, UnderWay
<1>9. CommitSound'
  BY <1>1, <1>2, <1>3, <1>4 DEF ComposerInv, CommitSound, Editable
<1> QED
  BY <1>2, <1>5, <1>6, <1>7, <1>8, <1>9 DEF ComposerInv, ScheduledAsShown

LEMMA UpdateWritesKeeps ==
  ASSUME ComposerInv, NEW r \in requests, UpdateWrites(r)
  PROVE  ComposerInv'
<1>1. r.kind \in {"update", "media"} /\ r.at = "read" /\ OfContent(r)
  BY DEF UpdateWrites, OfContent
<1>2. /\ timer.text = Absent /\ commit.at = "idle" /\ Editable
      /\ \A s \in requests \ {r} : ~OfContent(s)
      /\ SaveSound(r)
  BY <1>1, SavingFacts
<1>3. r.text \in Texts /\ r.list \in SUBSET Files /\ (r.kind = "media" => r.file \in Files)
  BY <1>1 DEF ComposerInv, ComposerTypeOK, Saves, Clears, Sendings, Readings, Pushes, Acts
<1>4. draft \in DraftRows /\ editor \in EditorRows
  BY DEF ComposerInv, ComposerTypeOK
<1>5. draft' = [text |-> r.text, over |-> draft.over, media |-> r.list, sched |-> draft.sched,
                target |-> draft.target, status |-> draft.status, frozen |-> draft.frozen]
  <2>1. draft' = [draft EXCEPT !.text = r.text, !.media = r.list]
    BY <1>2 DEF UpdateWrites
  <2> DEFINE a == r.text
             b == r.list
  <2>2. draft' = [draft EXCEPT !.text = a, !.media = b]
    BY <2>1
  <2> HIDE DEF a, b
  <2>3. draft' = [text |-> a, over |-> draft.over, media |-> b, sched |-> draft.sched,
                  target |-> draft.target, status |-> draft.status, frozen |-> draft.frozen]
    BY <1>4, <2>2, DraftUpdated
  <2> QED
    BY <2>3 DEF a, b
<1>6. /\ draft' \in DraftRows /\ draft'.text = r.text /\ draft'.media = r.list /\ draft'.over = draft.over
      /\ draft'.target = draft.target /\ draft'.status = draft.status
  BY <1>3, <1>4, <1>5 DEF DraftRows
<1>7. /\ editor' \in EditorRows /\ editor'.local = editor.local /\ editor'.tab = editor.tab
      /\ editor'.ready = IF r.kind = "media" THEN editor.ready \cup {r.file} ELSE editor.ready
  <2>1. CASE r.kind = "media"
    <3> DEFINE a == editor.ready \cup {r.file}
    <3>1. editor' = [editor EXCEPT !.ready = a]
      BY <1>2, <2>1 DEF UpdateWrites
    <3>2. a \in SUBSET Files
      BY <1>3, <1>4, <2>1 DEF EditorRows
    <3> HIDE DEF a
    <3>3. editor' = [tab |-> editor.tab, local |-> editor.local, sched |-> editor.sched, ready |-> a]
      BY <1>4, <3>1, EditorWrites
    <3>4. editor' \in EditorRows /\ editor'.local = editor.local /\ editor'.tab = editor.tab /\ editor'.ready = a
      BY <1>4, <3>2, <3>3 DEF EditorRows
    <3> QED
      BY <2>1, <3>4 DEF a
  <2>2. CASE r.kind # "media"
    BY <1>2, <1>4, <2>2 DEF UpdateWrites
  <2> QED
    BY <2>1, <2>2
<1>8. /\ editor.ready = draft.media
      /\ ~draft.target => editor.local["own"] = Absent /\ draft.over = Absent
      /\ editor.tab = "own" => draft.target
      /\ r.kind = "media" => editor.local["all"] \in {Absent, draft.text}
      /\ \/ editor.local["own"] = Absent
         \/ draft.over = IF editor.local["own"] = "" THEN Absent ELSE editor.local["own"]
  <2>1. UnderWay("own", "override") => FALSE
    BY <1>1, <1>2 DEF UnderWay, OfContent
  <2>2. r.kind = "media" => ~UnderWay("all", "update")
    BY <1>2 DEF UnderWay, OfContent
  <2> QED
    BY <2>1, <2>2 DEF ComposerInv, PageAgrees
<1>9. editor'.local["all"] \in {Absent, draft'.text} /\ editor'.ready = draft'.media
  BY <1>1, <1>2, <1>6, <1>7, <1>8 DEF SaveSound
<1>10. requests' = requests \ {r} /\ UNCHANGED <<timer, commit>>
  BY DEF UpdateWrites, Gone
<1> QED
  BY <1>1, <1>6, <1>7, <1>8, <1>9, <1>10, SaveArrives

(* What the page shows of the two texts while nothing of them waits.        *)
LEMMA OtherAgrees ==
  ASSUME ComposerInv, NEW r \in requests, OfContent(r)
  PROVE  /\ r.kind # "update" => editor.local["all"] \in {Absent, draft.text}
         /\ r.kind # "override" =>
              \/ editor.local["own"] = Absent
              \/ draft.over = IF editor.local["own"] = "" THEN Absent ELSE editor.local["own"]
         /\ editor.ready = draft.media
         /\ ~draft.target => editor.local["own"] = Absent /\ draft.over = Absent
         /\ editor.tab = "own" => draft.target
<1>1. timer.text = Absent /\ \A s \in requests \ {r} : ~OfContent(s)
  BY SavingFacts
<1>2. r.kind # "update" => ~UnderWay("all", "update")
  BY <1>1 DEF UnderWay, OfContent
<1>3. r.kind # "override" => ~UnderWay("own", "override")
  BY <1>1 DEF UnderWay, OfContent
<1> QED
  BY <1>2, <1>3 DEF ComposerInv, PageAgrees

LEMMA OverrideKeeps ==
  ASSUME ComposerInv, NEW r \in requests, OverrideArrives(r)
  PROVE  ComposerInv'
<1>1. r.kind = "override" /\ OfContent(r)
  BY DEF OverrideArrives, OfContent
<1>2. /\ timer.text = Absent /\ commit.at = "idle" /\ Editable /\ SaveSound(r)
  BY <1>1, SavingFacts
<1>3. r.value \in Texts
  BY <1>1 DEF ComposerInv, ComposerTypeOK, Saves, Clears, Sendings, Readings, Pushes, Acts
<1>4. draft.target /\ editor.local["own"] = r.value
  BY <1>1, <1>2 DEF SaveSound
<1> DEFINE o == IF r.value = "" THEN Absent ELSE r.value
<1>5. o \in Typed /\ draft' = [draft EXCEPT !.over = o]
  BY <1>2, <1>3, <1>4 DEF OverrideArrives, Typed
<1>6. draft \in DraftRows /\ editor \in EditorRows
  BY DEF ComposerInv, ComposerTypeOK
<1>7. o = IF editor.local["own"] = "" THEN Absent ELSE editor.local["own"]
  BY <1>4
<1> HIDE DEF o
<1>8. draft' = [text |-> draft.text, over |-> o, media |-> draft.media, sched |-> draft.sched,
                target |-> draft.target, status |-> draft.status, frozen |-> draft.frozen]
  BY <1>5, <1>6, DraftOverridden
<1>9. /\ draft' \in DraftRows /\ draft'.text = draft.text /\ draft'.media = draft.media /\ draft'.over = o
      /\ draft'.target = draft.target /\ draft'.status = draft.status
  BY <1>5, <1>6, <1>8 DEF DraftRows
<1>10. requests' = requests \ {r} /\ UNCHANGED <<timer, commit, editor>>
  BY DEF OverrideArrives, Gone
<1>11. /\ editor.local["all"] \in {Absent, draft.text} /\ editor.ready = draft.media
  BY <1>1, OtherAgrees
<1> QED
  BY <1>1, <1>4, <1>6, <1>7, <1>9, <1>10, <1>11, SaveArrives

LEMMA OwnCleared ==
  ASSUME editor \in EditorRows
  PROVE  LET d == [editor EXCEPT !.local["own"] = Absent]
         IN  /\ d \in EditorRows /\ d.tab = editor.tab /\ d.ready = editor.ready
             /\ d.local["all"] = editor.local["all"] /\ d.local["own"] = Absent
<1> DEFINE d == [editor EXCEPT !.local["own"] = Absent]
           l == [editor.local EXCEPT !["own"] = Absent]
<1>1. "own" \in PageTabs /\ "all" \in PageTabs /\ Absent \in Typed /\ editor.local \in [PageTabs -> Typed]
  BY DEF PageTabs, Typed, EditorRows
<1>2. d = [tab |-> editor.tab, local |-> l, sched |-> editor.sched, ready |-> editor.ready]
  BY <1>1, EditorTyped
<1>3. l \in [PageTabs -> Typed] /\ l["all"] = editor.local["all"] /\ l["own"] = Absent
  BY <1>1
<1> HIDE DEF l, d
<1>4. d \in EditorRows /\ d.tab = editor.tab /\ d.ready = editor.ready /\ d.local = l
  BY <1>2, <1>3 DEF EditorRows
<1> QED
  BY <1>3, <1>4 DEF d

LEMMA RevertKeeps ==
  ASSUME ComposerInv, NEW r \in requests, RevertArrives(r)
  PROVE  ComposerInv'
<1>1. r.kind = "revert" /\ OfContent(r)
  BY DEF RevertArrives, OfContent
<1>2. Editable
  BY <1>1, SavingFacts
<1>3. draft \in DraftRows /\ editor \in EditorRows /\ Absent \in Typed
  BY DEF ComposerInv, ComposerTypeOK, Typed
<1>4. draft' = [draft EXCEPT !.over = Absent] /\ editor' = [editor EXCEPT !.local["own"] = Absent]
  BY <1>2 DEF RevertArrives
<1>5. draft' = [text |-> draft.text, over |-> Absent, media |-> draft.media, sched |-> draft.sched,
                target |-> draft.target, status |-> draft.status, frozen |-> draft.frozen]
  BY <1>3, <1>4, DraftOverridden
<1>6. /\ draft' \in DraftRows /\ draft'.text = draft.text /\ draft'.media = draft.media /\ draft'.over = Absent
      /\ draft'.target = draft.target /\ draft'.status = draft.status
  BY <1>3, <1>5 DEF DraftRows
<1>7. /\ editor' \in EditorRows /\ editor'.tab = editor.tab /\ editor'.ready = editor.ready
      /\ editor'.local["all"] = editor.local["all"] /\ editor'.local["own"] = Absent
  BY <1>3, <1>4, OwnCleared
<1>8. requests' = requests \ {r} /\ UNCHANGED <<timer, commit>>
  BY DEF RevertArrives, Gone
<1>9. /\ editor.local["all"] \in {Absent, draft.text} /\ editor.ready = draft.media
      /\ editor.tab = "own" => draft.target
  BY <1>1, OtherAgrees
<1> QED
  BY <1>1, <1>6, <1>7, <1>8, <1>9, SaveArrives

LEMMA ToggleKeeps ==
  ASSUME ComposerInv, NEW r \in requests, ToggleArrives(r)
  PROVE  ComposerInv'
<1>1. r.kind \in {"add", "remove"} /\ OfContent(r)
  BY DEF ToggleArrives, OfContent
<1>2. Editable
  BY <1>1, SavingFacts
<1>3. draft \in DraftRows /\ editor \in EditorRows /\ Absent \in Typed
  BY DEF ComposerInv, ComposerTypeOK, Typed
<1>4. /\ editor.local["all"] \in {Absent, draft.text} /\ editor.ready = draft.media
      /\ editor.tab = "own" => draft.target
      /\ \/ editor.local["own"] = Absent
         \/ draft.over = IF editor.local["own"] = "" THEN Absent ELSE editor.local["own"]
      /\ ~draft.target => editor.local["own"] = Absent /\ draft.over = Absent
  BY <1>1, OtherAgrees
<1> DEFINE a == r.kind = "add"
           o == IF r.kind = "add" /\ draft.target THEN draft.over ELSE Absent
           t == IF r.kind = "remove" THEN "all" ELSE editor.tab
           v == IF r.kind = "remove" THEN Absent ELSE editor.local["own"]
           l == [editor.local EXCEPT !["own"] = v]
<1>5. draft' = [draft EXCEPT !.target = a, !.over = o]
  BY <1>2 DEF ToggleArrives
<1>6. a \in BOOLEAN /\ o \in Typed /\ t \in PageTabs /\ v \in Typed
  <2>1. draft.over \in Typed /\ editor.tab \in PageTabs /\ editor.local \in [PageTabs -> Typed]
    BY RowFacts DEF ComposerInv
  <2>2. "own" \in PageTabs /\ "all" \in PageTabs
    BY DEF PageTabs
  <2> QED
    BY <1>3, <2>1, <2>2
<1>7. editor' = [editor EXCEPT !.tab = t, !.local["own"] = v]
  BY <1>2 DEF ToggleArrives
<1>8. /\ r.kind = "remove" => ~a /\ o = Absent /\ t = "all" /\ v = Absent
      /\ r.kind = "add" => a /\ t = editor.tab /\ v = editor.local["own"]
                           /\ o = IF draft.target THEN draft.over ELSE Absent
  BY <1>1
<1> HIDE DEF a, o, t, v
<1>9. draft' = [text |-> draft.text, over |-> o, media |-> draft.media, sched |-> draft.sched,
                target |-> a, status |-> draft.status, frozen |-> draft.frozen]
  BY <1>3, <1>5, DraftToggled
<1>10. draft' \in DraftRows
  BY <1>3, <1>6, <1>9, Zenon DEF DraftRows
<1>11. /\ draft'.text = draft.text /\ draft'.media = draft.media /\ draft'.over = o
       /\ draft'.status = draft.status
  BY <1>9
<1>12. draft'.target = a
  BY <1>9, Zenon
<1>13. editor' = [tab |-> t, local |-> l, sched |-> editor.sched, ready |-> editor.ready]
  <2> DEFINE e == [editor EXCEPT !.tab = t]
  <2>1. editor' = [e EXCEPT !.local["own"] = v]
    BY <1>7, Zenon
  <2>2. e = [tab |-> t, local |-> editor.local, sched |-> editor.sched, ready |-> editor.ready]
    BY <1>3, EditorWrites
  <2> HIDE DEF e
  <2>3. e \in EditorRows /\ "own" \in PageTabs
    BY <1>3, <1>6, <2>2 DEF EditorRows, PageTabs
  <2>4. editor' = [tab |-> e.tab, local |-> [e.local EXCEPT !["own"] = v], sched |-> e.sched, ready |-> e.ready]
    BY <1>6, <2>1, <2>3, EditorTyped
  <2>5. e.tab = t /\ e.local = editor.local /\ e.sched = editor.sched /\ e.ready = editor.ready
    BY <2>2
  <2> QED
    BY <2>4, <2>5
<1>14. l \in [PageTabs -> Typed] /\ l["all"] = editor.local["all"] /\ l["own"] = v
  BY <1>3, <1>6 DEF EditorRows, PageTabs
<1> HIDE DEF l
<1>15. /\ editor' \in EditorRows /\ editor'.tab = t /\ editor'.ready = editor.ready /\ editor'.local = l
  BY <1>3, <1>6, <1>13, <1>14 DEF EditorRows
<1>16. requests' = requests \ {r} /\ UNCHANGED <<timer, commit>>
  BY DEF ToggleArrives, Gone
<1>17. /\ editor'.local["all"] \in {Absent, draft'.text}
       /\ editor'.ready = draft'.media
  BY <1>4, <1>11, <1>14, <1>15
<1>18. editor'.local["own"] = Absent
       \/ draft'.over = IF editor'.local["own"] = "" THEN Absent ELSE editor'.local["own"]
  BY <1>1, <1>4, <1>8, <1>11, <1>14, <1>15
<1>19. ~draft'.target => editor'.local["own"] = Absent /\ draft'.over = Absent
  BY <1>1, <1>8, <1>11, <1>12, <1>14, <1>15
<1>20. editor'.tab = "own" => draft'.target
  BY <1>1, <1>8, <1>12, <1>15
<1> QED
  BY <1>1, <1>10, <1>11, <1>15, <1>16, <1>17, <1>18, <1>19, <1>20, SaveArrives

-----------------------------------------------------------------------------
(* The author's edits.                                                      *)

(* An edit that sends one request, while none was under way.                *)
LEMMA EditSends ==
  ASSUME ComposerInv, commit.at = "idle", requests = {}, timer.text = Absent,
         NEW r \in Clears \cup Sendings, r.kind = "media" => r.list = draft.media \cup {r.file},
         requests' = {r}, UNCHANGED <<draft, editor, timer, commit>>
  PROVE  ComposerInv'
<1>1. /\ OfContent(r) /\ r.kind \notin {"update", "override", "schedule", "act"}
      /\ ~(r.kind = "media" /\ r.at = "read")
  BY DEF Clears, Sendings, OfContent
<1>2. ComposerTypeOK'
  BY DEF ComposerInv, ComposerTypeOK
<1>3. OneSave'
  BY DEF OneSave
<1>4. SaveSound(r)'
  BY <1>1 DEF SaveSound
<1>5. PageAgrees'
  BY DEF ComposerInv, PageAgrees, UnderWay
<1>6. CommitSound'
  BY <1>1 DEF ComposerInv, CommitSound, Editable
<1> QED
  BY <1>2, <1>3, <1>4, <1>5, <1>6 DEF ComposerInv, ScheduledAsShown

LEMMA ClearsKeep ==
  ASSUME ComposerInv, Hurries = {}, Revert \/ Toggle
  PROVE  ComposerInv'
<1> DEFINE w == IF draft.target THEN "remove" ELSE "add"
<1>1. w \in {"add", "remove"}
  OBVIOUS
<1> HIDE DEF w
<1>2. PICK k \in {"revert", "add", "remove"} : requests' = requests \cup {[kind |-> k]}
  <2>1. CASE Revert
    BY <2>1 DEF Revert, Send
  <2>2. CASE Toggle
    BY <1>1, <2>2 DEF Toggle, Send, w
  <2> QED
    BY <2>1, <2>2
<1>3. /\ commit.at = "idle" /\ requests = {} /\ timer.text = Absent
      /\ UNCHANGED <<draft, editor, timer, commit>>
  BY DEF Revert, Toggle, EditDraft, Settled
<1>4. [kind |-> k] \in Clears /\ [kind |-> k].kind # "media"
  BY DEF Clears
<1>5. requests' = {[kind |-> k]}
  BY <1>2, <1>3
<1> QED
  BY <1>3, <1>4, <1>5, EditSends

LEMMA AttachKeeps ==
  ASSUME ComposerInv, Hurries = {}, NEW fs \in SUBSET Files, Attach(fs)
  PROVE  ComposerInv'
<1>1. /\ commit.at = "idle" /\ requests = {} /\ timer.text = Absent
      /\ UNCHANGED <<draft, editor, timer, commit>>
      /\ fs # {} /\ ~(Cardinality(fs) > 1)
  BY DEF Attach, EditDraft, Settled
<1>2. PICK f \in Files : fs = {f}
  <2>1. IsFiniteSet(fs)
    BY ComposerAssumption, FS_Subset
  <2>2. Cardinality(fs) \in Nat
    BY <2>1, FS_CardinalityType
  <2>3. Cardinality(fs) # 0
    BY <1>1, <2>1, FS_EmptySet
  <2>4. Cardinality(fs) = 1
    BY <1>1, <2>2, <2>3, SMT
  <2>5. \E f : fs = {f}
    BY <2>1, <2>4, FS_Singleton
  <2> QED
    BY <2>5
<1>3. PICK r : r = [kind |-> "media", file |-> f, list |-> draft.media \cup {f}, at |-> "sent"]
  OBVIOUS
<1>4. draft.media \in SUBSET Files
  BY RowFacts DEF ComposerInv
<1>5. r \in Sendings /\ r.list = draft.media \cup {r.file}
  BY <1>3, <1>4 DEF Sendings
<1>6. requests' = {r}
  BY <1>1, <1>2, <1>3 DEF Attach
<1> QED
  BY <1>1, <1>5, <1>6, EditSends

LEMMA TypeKeeps ==
  ASSUME ComposerInv, Hurries = {}, NEW v \in Texts, Type(v)
  PROVE  ComposerInv'
<1> DEFINE t == editor.tab
           l == [editor.local EXCEPT ![t] = v]
           w == [tab |-> t, value |-> v]
<1>1. commit.at = "idle" /\ requests = {} /\ UNCHANGED <<draft, requests, commit>>
  BY DEF Type, EditDraft
<1>2. draft \in DraftRows /\ editor \in EditorRows /\ timer \in TimerRows
  BY DEF ComposerInv, ComposerTypeOK
<1>3. t \in PageTabs /\ v \in Typed /\ editor.local \in [PageTabs -> Typed]
  BY RowFacts DEF ComposerInv, Typed
<1>4. /\ editor' = [editor EXCEPT !.local[t] = v]
      /\ timer' = [timer EXCEPT !.text = w]
  BY DEF Type
<1>5. editor' = [tab |-> t, local |-> l, sched |-> editor.sched, ready |-> editor.ready]
  BY <1>2, <1>3, <1>4, EditorTyped
<1>6. l \in [PageTabs -> Typed] /\ \A p \in PageTabs : l[p] = IF p = t THEN v ELSE editor.local[p]
  BY <1>3
<1>7. w \in [tab : PageTabs, value : Texts] /\ w.tab = t /\ w.value = v /\ w # Absent
  <2>1. w \in [tab : PageTabs, value : Texts] /\ w.tab = t /\ w.value = v
    BY <1>3
  <2> QED
    BY <2>1, ComposerAssumption DEF PageTabs
<1> HIDE DEF t, l, w
<1>8. /\ editor' \in EditorRows /\ editor'.tab = t /\ editor'.ready = editor.ready /\ editor'.local = l
  BY <1>2, <1>3, <1>5, <1>6 DEF EditorRows
<1>9. timer' = [text |-> w, sched |-> timer.sched]
  BY <1>2, <1>4, TimerWrites
<1>10. timer' \in TimerRows
  BY <1>2, <1>7, <1>9, Zenon DEF TimerRows
<1>11. timer'.text = w
  BY <1>9
<1>12. ComposerTypeOK'
  BY <1>1, <1>8, <1>10 DEF ComposerInv, ComposerTypeOK
<1>13. PageAgrees'
  <2>1. UnderWay("all", "update") => t = "all"
    BY <1>1 DEF ComposerInv, PageAgrees, UnderWay, t
  <2>2. UnderWay("own", "override") => t = "own"
    BY <1>1 DEF ComposerInv, PageAgrees, UnderWay, t
  <2>3. t = "all" => UnderWay("all", "update")'
    BY <1>7, <1>11 DEF UnderWay
  <2>4. t = "own" => UnderWay("own", "override")'
    BY <1>7, <1>11 DEF UnderWay
  <2>5. /\ t # "all" => l["all"] \in {Absent, draft.text}
        /\ t # "own" => \/ l["own"] = Absent
                        \/ draft.over = IF l["own"] = "" THEN Absent ELSE l["own"]
        /\ ~draft.target => l["own"] = Absent /\ draft.over = Absent
        /\ t = "own" => draft.target
    BY <1>6, <2>1, <2>2 DEF ComposerInv, PageAgrees, PageTabs, t
  <2>6. l[t] = v /\ editor.ready = draft.media
    BY <1>3, <1>6 DEF ComposerInv, PageAgrees
  <2>7. editor'.tab = t /\ editor'.local = l /\ editor'.ready = draft'.media /\ draft' = draft
        /\ timer'.text.tab = t /\ timer'.text.value = v
    BY <1>1, <1>7, <1>8, <1>11, <2>6
  <2> QED
    BY <2>3, <2>4, <2>5, <2>6, <2>7 DEF PageAgrees
<1>14. OneSave' /\ (\A r \in requests' : SaveSound(r)') /\ CommitSound'
  BY <1>1 DEF ComposerInv, OneSave, CommitSound, Editable
<1> QED
  BY <1>1, <1>12, <1>13, <1>14 DEF ComposerInv, ScheduledAsShown

LEMMA TextTimerKeeps ==
  ASSUME ComposerInv, TextTimer
  PROVE  ComposerInv'
<1> DEFINE kind == IF timer.text.tab = "all" THEN "update" ELSE "override"
<1>1. PICK r : r = [kind |-> kind, value |-> timer.text.value, at |-> "sent"]
  OBVIOUS
<1>2. /\ timer.text # Absent /\ commit.at = "idle" /\ timer.text.tab = editor.tab
      /\ editor.local[editor.tab] = timer.text.value
      /\ \A q \in requests : ~OfContent(q)
  BY DEF TextTimer, ComposerInv, OneSave, CommitSound, PageAgrees
<1>3. timer.text \in [tab : PageTabs, value : Texts] /\ timer \in TimerRows
  BY <1>2 DEF ComposerInv, ComposerTypeOK, TimerRows
<1>4. timer.text.tab \in PageTabs /\ timer.text.value \in Texts
  BY <1>3
<1>5. /\ r \in Saves /\ r.value = timer.text.value /\ r.at = "sent"
      /\ r.kind = kind /\ kind \in {"update", "override"}
  BY <1>1, <1>4 DEF Saves
<1>6. requests' = requests \cup {r}
  BY <1>1 DEF TextTimer, Send
<1>7. UNCHANGED <<draft, editor, commit>>
  BY DEF TextTimer
<1>8. timer' = [text |-> Absent, sched |-> timer.sched]
  BY <1>3, TimerWrites DEF TextTimer
<1>9. timer' \in TimerRows /\ timer'.text = Absent
  BY <1>3, <1>8, Zenon DEF TimerRows
<1>10. OfContent(r)
  BY <1>5 DEF OfContent
<1>11. ComposerTypeOK'
  BY <1>5, <1>6, <1>7, <1>9 DEF ComposerInv, ComposerTypeOK
<1>12. OneSave'
  BY <1>2, <1>6, <1>9 DEF OneSave
<1>13. \A q \in requests' : SaveSound(q)'
  <2>1. ASSUME NEW q \in requests PROVE SaveSound(q)'
    BY <1>2, <1>7, <2>1 DEF SaveSound, OfContent
  <2>2. r.kind = "update" => editor.local["all"] = r.value
    BY <1>2, <1>5
  <2>3. r.kind = "override" => editor.local["own"] = r.value /\ draft.target
    BY <1>2, <1>4, <1>5 DEF ComposerInv, PageAgrees, PageTabs
  <2>4. SaveSound(r)'
    BY <1>5, <1>7, <2>2, <2>3 DEF SaveSound
  <2> QED
    BY <1>6, <2>1, <2>4
<1>14. PageAgrees'
  <2>1. UnderWay("all", "update") => UnderWay("all", "update")'
    BY <1>5, <1>6 DEF UnderWay
  <2>2. UnderWay("own", "override") => UnderWay("own", "override")'
    BY <1>5, <1>6 DEF UnderWay
  <2> QED
    BY <1>7, <1>9, <2>1, <2>2 DEF ComposerInv, PageAgrees
<1>15. CommitSound'
  BY <1>2, <1>5, <1>6, <1>7, <1>9 DEF ComposerInv, CommitSound, Editable
<1> QED
  BY <1>2, <1>7, <1>11, <1>12, <1>13, <1>14, <1>15 DEF ComposerInv, ScheduledAsShown

LEMMA SwitchTabKeeps ==
  ASSUME ComposerInv, Hurries = {}, NEW p \in PageTabs, SwitchTab(p)
  PROVE  ComposerInv'
<1>1. /\ timer.text = Absent /\ (p = "own" => draft.target)
      /\ UNCHANGED <<draft, timer, requests, commit>>
  BY DEF SwitchTab
<1>2. editor \in EditorRows
  BY DEF ComposerInv, ComposerTypeOK
<1>3. editor' = [tab |-> p, local |-> editor.local, sched |-> editor.sched, ready |-> editor.ready]
  BY <1>2, EditorWrites DEF SwitchTab
<1>4. /\ editor' \in EditorRows /\ editor'.tab = p /\ editor'.local = editor.local
      /\ editor'.sched = editor.sched /\ editor'.ready = editor.ready
  BY <1>2, <1>3 DEF EditorRows
<1>5. ComposerTypeOK'
  BY <1>1, <1>4 DEF ComposerInv, ComposerTypeOK
<1>6. PageAgrees'
  BY <1>1, <1>4 DEF ComposerInv, PageAgrees, UnderWay
<1>7. OneSave' /\ \A r \in requests' : SaveSound(r)'
  BY <1>1, <1>4 DEF ComposerInv, OneSave, SaveSound
<1>8. CommitSound'
  BY <1>1, <1>4 DEF ComposerInv, CommitSound, Editable, StoredAs, Stored
<1> QED
  BY <1>1, <1>5, <1>6, <1>7, <1>8 DEF ComposerInv, ScheduledAsShown

LEMMA ChangeScheduleKeeps ==
  ASSUME ComposerInv, NEW m \in Modes, ChangeSchedule(m)
  PROVE  ComposerInv'
<1>1. commit.at = "idle" /\ UNCHANGED <<draft, requests, commit>>
  BY DEF ChangeSchedule, EditDraft
<1>2. editor \in EditorRows /\ timer \in TimerRows /\ m \in ModeRows
  BY DEF ComposerInv, ComposerTypeOK, ModeRows
<1>3. editor' = [tab |-> editor.tab, local |-> editor.local, sched |-> m, ready |-> editor.ready]
  BY <1>2, EditorWrites DEF ChangeSchedule
<1>4. /\ editor' \in EditorRows /\ editor'.tab = editor.tab /\ editor'.local = editor.local
      /\ editor'.sched = m /\ editor'.ready = editor.ready
  BY <1>2, <1>3 DEF EditorRows
<1> DEFINE yes == TRUE
<1>5. timer' = [timer EXCEPT !.sched = yes] /\ yes \in BOOLEAN
  BY DEF ChangeSchedule
<1> HIDE DEF yes
<1>6. timer' = [text |-> timer.text, sched |-> yes]
  BY <1>2, <1>5, TimerWrites
<1>7. timer' \in TimerRows
  BY <1>2, <1>5, <1>6, Zenon DEF TimerRows
<1>8. timer'.text = timer.text
  BY <1>6
<1>9. ComposerTypeOK'
  BY <1>1, <1>4, <1>7 DEF ComposerInv, ComposerTypeOK
<1>10. PageAgrees'
  BY <1>1, <1>4, <1>8 DEF ComposerInv, PageAgrees, UnderWay
<1>11. OneSave' /\ \A r \in requests' : SaveSound(r)'
  BY <1>1, <1>4, <1>8 DEF ComposerInv, OneSave, SaveSound
<1>12. CommitSound'
  BY <1>1 DEF ComposerInv, CommitSound, Editable
<1> QED
  BY <1>1, <1>9, <1>10, <1>11, <1>12 DEF ComposerInv, ScheduledAsShown

LEMMA ScheduleTimerKeeps ==
  ASSUME ComposerInv, ScheduleTimer
  PROVE  ComposerInv'
<1>1. PICK r : r = [kind |-> "schedule", mode |-> editor.sched, from |-> "timer"]
  OBVIOUS
<1>2. r.kind = "schedule" /\ r.mode = editor.sched /\ r.from = "timer" /\ r \in Pushes /\ ~OfContent(r)
  <2>1. editor.sched \in ModeRows
    BY RowFacts DEF ComposerInv
  <2> QED
    BY <1>1, <2>1 DEF Pushes, OfContent
<1>3. requests' = requests \cup {r} /\ UNCHANGED <<draft, editor, commit>>
  BY <1>1 DEF ScheduleTimer, Send
<1>4. timer \in TimerRows
  BY DEF ComposerInv, ComposerTypeOK
<1> DEFINE no == FALSE
<1>5. timer' = [timer EXCEPT !.sched = no] /\ no \in BOOLEAN
  BY DEF ScheduleTimer
<1> HIDE DEF no
<1>6. timer' = [text |-> timer.text, sched |-> no]
  BY <1>4, <1>5, TimerWrites
<1>7. timer' \in TimerRows
  BY <1>4, <1>5, <1>6, Zenon DEF TimerRows
<1>8. timer'.text = timer.text
  BY <1>6
<1>9. ComposerTypeOK'
  BY <1>2, <1>3, <1>7 DEF ComposerInv, ComposerTypeOK
<1>10. OneSave'
  BY <1>2, <1>3, <1>8 DEF ComposerInv, OneSave
<1>11. \A q \in requests' : SaveSound(q)'
  <2>1. ASSUME NEW q \in requests PROVE SaveSound(q)'
    BY <1>3, <2>1 DEF ComposerInv, SaveSound
  <2>2. SaveSound(r)'
    BY <1>2 DEF SaveSound
  <2> QED
    BY <1>3, <2>1, <2>2
<1>12. PageAgrees'
  BY <1>2, <1>3, <1>8 DEF ComposerInv, PageAgrees, UnderWay
<1>13. CommitSound'
  BY <1>2, <1>3, <1>8 DEF ComposerInv, CommitSound, Editable, StoredAs, Stored
<1> QED
  BY <1>3, <1>9, <1>10, <1>11, <1>12, <1>13 DEF ComposerInv, ScheduledAsShown

-----------------------------------------------------------------------------
(* The button.                                                              *)

(* With nothing under way the page shows what is stored.                    *)
LEMMA PageIsStored ==
  ASSUME ComposerInv, requests = {}, timer.text = Absent
  PROVE  Page = StoredAs(editor.sched) /\ Page \in PageRows
<1>1. ~UnderWay("all", "update") /\ ~UnderWay("own", "override")
  BY DEF UnderWay
<1>2. /\ editor.local["all"] \in {Absent, draft.text}
      /\ \/ editor.local["own"] = Absent
         \/ draft.over = IF editor.local["own"] = "" THEN Absent ELSE editor.local["own"]
      /\ editor.ready = draft.media
  BY <1>1 DEF ComposerInv, PageAgrees
<1>3. /\ draft.text \in Texts /\ draft.over \in Typed /\ draft.media \in SUBSET Files
      /\ editor.sched \in ModeRows
  BY RowFacts DEF ComposerInv
<1>4. PageText("all") = draft.text
  BY <1>2, Zenon DEF PageText
<1> DEFINE own == IF draft.over = Absent THEN draft.text ELSE draft.over
<1>5. PageText("own") = own
  <2> DEFINE l == editor.local["own"]
             all == IF editor.local["all"] = Absent THEN draft.text ELSE editor.local["all"]
  <2>0. all = draft.text
    BY <1>2, Zenon
  <2>1. CASE l = Absent
    <3>1. PageText("own") = CASE l \notin {Absent, ""} -> l
                              [] l = "" -> all
                              [] l = Absent -> IF draft.over = Absent THEN all ELSE draft.over
      BY Zenon DEF PageText
    <3>2. ~(l \notin {Absent, ""}) /\ l # ""
      BY <2>1, ComposerAssumption
    <3> QED
      BY <2>0, <2>1, <3>1, <3>2, Zenon
  <2>2. CASE l = ""
    <3>1. PageText("own") = CASE l \notin {Absent, ""} -> l
                              [] l = "" -> all
                              [] l = Absent -> IF draft.over = Absent THEN all ELSE draft.over
      BY Zenon DEF PageText
    <3>2. ~(l \notin {Absent, ""}) /\ l # Absent
      BY <2>2, ComposerAssumption
    <3>3. draft.over = Absent
      BY <1>2, <2>2, <3>2
    <3> QED
      BY <2>0, <2>2, <3>1, <3>2, <3>3, Zenon
  <2>3. CASE l \notin {Absent, ""}
    <3>1. PageText("own") = CASE l \notin {Absent, ""} -> l
                              [] l = "" -> all
                              [] l = Absent -> IF draft.over = Absent THEN all ELSE draft.over
      BY Zenon DEF PageText
    <3>2. draft.over = l /\ l # Absent /\ l # ""
      BY <1>2, <2>3
    <3> QED
      BY <2>3, <3>1, <3>2, Zenon
  <2> QED
    BY <2>1, <2>2, <2>3
<1>6. own \in Texts
  BY <1>3 DEF Typed
<1> HIDE DEF own
<1> DEFINE o == IF draft.target THEN own ELSE Absent
<1>7. Page = [all |-> draft.text, own |-> o, media |-> editor.ready, sched |-> editor.sched]
  BY <1>4, <1>5, Zenon DEF Page
<1>8. Stored.all = draft.text /\ Stored.own = o /\ Stored.media = draft.media
  <2>1. (IF ~draft.target THEN Absent ELSE IF draft.over = Absent THEN draft.text ELSE draft.over) = o
    BY DEF own
  <2> QED
    BY <2>1 DEF Stored
<1>9. StoredAs(editor.sched) = [all |-> draft.text, own |-> o, media |-> draft.media, sched |-> editor.sched]
  BY <1>8, Zenon DEF StoredAs
<1>10. o \in Typed
  BY <1>6 DEF Typed
<1> HIDE DEF o
<1>11. Page = StoredAs(editor.sched)
  BY <1>2, <1>7, <1>9
<1>12. Page \in PageRows
  BY <1>2, <1>3, <1>7, <1>10 DEF PageRows
<1> QED
  BY <1>11, <1>12

LEMMA ClickKeeps ==
  ASSUME ComposerInv, Hurries = {}, NEW what \in {"schedule", "submit"}, Click(what)
  PROVE  ComposerInv'
<1>1. /\ requests = {} /\ timer.text = Absent /\ draft.status = "draft"
      /\ UNCHANGED <<draft, editor, timer>>
  BY DEF Click, Settled, Editable
<1>2. PICK r : r = [kind |-> "schedule", mode |-> editor.sched, from |-> "commit"]
  OBVIOUS
<1>3. PICK page : page = Page
  OBVIOUS
<1>4. page = StoredAs(editor.sched) /\ page \in PageRows
  BY <1>1, <1>3, PageIsStored
<1>5. r.kind = "schedule" /\ r.mode = editor.sched /\ r \in Pushes /\ ~OfContent(r)
  <2>1. editor.sched \in ModeRows
    BY RowFacts DEF ComposerInv
  <2> QED
    BY <1>2, <2>1 DEF Pushes, OfContent
<1>6. requests' = {r} /\ commit' = [at |-> "busy", what |-> what, page |-> page]
  BY <1>1, <1>2, <1>3 DEF Click, Send
<1>7. commit' \in CommitRows /\ commit'.at = "busy" /\ commit'.page = page
  BY <1>4, <1>6 DEF CommitRows
<1>8. ComposerTypeOK'
  BY <1>1, <1>5, <1>6, <1>7 DEF ComposerInv, ComposerTypeOK
<1>9. OneSave' /\ \A q \in requests' : SaveSound(q)'
  BY <1>1, <1>5, <1>6 DEF OneSave, SaveSound
<1>10. PageAgrees'
  <2>1. ~UnderWay("all", "update") /\ ~UnderWay("own", "override")
    BY <1>1 DEF UnderWay
  <2> QED
    BY <1>1, <2>1 DEF ComposerInv, PageAgrees
<1>11. CommitSound'
  <2>1. StoredAs(editor.sched)' = StoredAs(editor.sched)
    BY <1>1 DEF StoredAs, Stored
  <2> QED
    BY <1>1, <1>4, <1>5, <1>6, <1>7, <2>1 DEF CommitSound, Editable
<1> QED
  BY <1>7, <1>8, <1>9, <1>10, <1>11 DEF ComposerInv, ScheduledAsShown

LEMMA ScheduleArrivesKeeps ==
  ASSUME ComposerInv, NEW r \in requests, ScheduleArrives(r)
  PROVE  ComposerInv'
<1>1. r.kind = "schedule" /\ ~OfContent(r) /\ r.mode \in ModeRows /\ UNCHANGED <<editor, timer>>
  <2>1. r.kind = "schedule" /\ UNCHANGED <<editor, timer>>
    BY DEF ScheduleArrives
  <2> QED
    BY <2>1 DEF OfContent, ComposerInv, ComposerTypeOK, Saves, Clears, Sendings, Readings, Pushes, Acts
<1>2. draft \in DraftRows /\ commit \in CommitRows
  BY DEF ComposerInv, ComposerTypeOK
<1>3. r.from = "commit" => commit.at # "idle"
  BY <1>1 DEF ComposerInv, CommitSound
<1>4. commit.at # "idle" => commit.what \in {"schedule", "submit"} /\ commit.page \in PageRows
  BY <1>2 DEF CommitRows
<1>5. PICK a : a = [kind |-> "act", what |-> commit.what]
  OBVIOUS
<1>6. a.kind = "act" /\ ~OfContent(a) /\ (commit.at # "idle" => a \in Acts)
  BY <1>4, <1>5 DEF OfContent, Acts
<1>7. draft' \in DraftRows /\ draft'.text = draft.text /\ draft'.over = draft.over
      /\ draft'.media = draft.media /\ draft'.target = draft.target /\ draft'.status = draft.status
      /\ draft'.frozen = draft.frozen /\ (Editable => draft'.sched = r.mode)
  <2>1. CASE ~Editable
    BY <1>2, <2>1 DEF ScheduleArrives
  <2>2. CASE Editable
    <3>1. draft' = [text |-> draft.text, over |-> draft.over, media |-> draft.media, sched |-> r.mode,
                    target |-> draft.target, status |-> draft.status, frozen |-> draft.frozen]
      BY <1>2, <2>2, DraftScheduled DEF ScheduleArrives
    <3>2. r.mode \in ModeRows \cup {"unset"}
      BY <1>1
    <3>3. draft' \in DraftRows
      BY <1>2, <3>1, <3>2, Zenon DEF DraftRows
    <3>4. draft'.target = draft.target
      BY <3>1, Zenon
    <3> QED
      BY <3>1, <3>3, <3>4
  <2> QED
    BY <2>1, <2>2
<1>8. /\ Editable' = Editable /\ (\A s : StoredAs(s)' = StoredAs(s))
  BY <1>7 DEF Editable, StoredAs, Stored
<1>9. /\ \A q \in requests' : q \in requests \/ (q = a /\ r.from = "commit" /\ Editable)
  BY <1>5 DEF ScheduleArrives
<1>10. /\ commit' \in CommitRows /\ (commit'.at = "idle" <=> commit.at = "idle")
       /\ (commit'.at # "idle" => commit'.page = commit.page)
       /\ commit'.at \in {commit.at, "failed"}
  <2>1. CASE r.from = "commit" /\ ~Editable
    <3>1. commit' = [at |-> "failed", what |-> commit.what, page |-> commit.page]
      BY <2>1 DEF ScheduleArrives
    <3> QED
      BY <1>3, <1>4, <2>1, <3>1 DEF CommitRows
  <2>2. CASE ~(r.from = "commit" /\ ~Editable)
    BY <1>2, <2>2 DEF ScheduleArrives
  <2> QED
    BY <2>1, <2>2
<1>11. ComposerTypeOK'
  <2>1. requests' \subseteq Saves \cup Clears \cup Sendings \cup Readings \cup Pushes \cup Acts
    BY <1>3, <1>6, <1>9 DEF ComposerInv, ComposerTypeOK
  <2> QED
    BY <1>1, <1>7, <1>10, <2>1 DEF ComposerInv, ComposerTypeOK
<1>12. \A q \in requests' : OfContent(q) => q \in requests
  BY <1>6, <1>9
<1>13. OneSave'
  BY <1>1, <1>12 DEF ComposerInv, OneSave
<1>14. \A q \in requests' : SaveSound(q)'
  <2>1. ASSUME NEW q \in requests PROVE SaveSound(q)'
    BY <1>1, <1>7, <2>1 DEF ComposerInv, SaveSound
  <2>2. SaveSound(a)'
    BY <1>6 DEF SaveSound
  <2> QED
    BY <1>9, <2>1, <2>2
<1>15. PageAgrees'
  <2>1. \A q \in requests : q.kind \in {"update", "override"} => q \in requests'
    BY <1>1 DEF ScheduleArrives
  <2>2. UnderWay("all", "update") => UnderWay("all", "update")'
    BY <1>1, <2>1 DEF UnderWay
  <2>3. UnderWay("own", "override") => UnderWay("own", "override")'
    BY <1>1, <2>1 DEF UnderWay
  <2> QED
    BY <1>1, <1>7, <2>2, <2>3 DEF ComposerInv, PageAgrees
<1>16. CommitSound'
  <2>1. commit.at # "idle" /\ Editable => r.mode = editor.sched
    BY <1>1 DEF ComposerInv, CommitSound
  <2>2. ASSUME commit'.at = "idle"
        PROVE  Editable' /\ \A q \in requests' : q.kind # "act" /\ (q.kind = "schedule" => q.from = "timer")
    BY <1>3, <1>8, <1>9, <1>10, <2>2 DEF ComposerInv, CommitSound
  <2>3. ASSUME commit'.at # "idle"
        PROVE  timer'.text = Absent /\ \A q \in requests' : ~OfContent(q)
    BY <1>1, <1>6, <1>9, <1>10, <2>3 DEF ComposerInv, CommitSound
  <2>4. ASSUME commit'.at # "idle", Editable'
        PROVE  commit'.page = StoredAs(editor.sched)'
    BY <1>1, <1>8, <1>10, <2>4 DEF ComposerInv, CommitSound
  <2>5. ASSUME commit'.at # "idle", Editable', NEW q \in requests'
        PROVE  (q.kind = "schedule" => q.mode = editor'.sched) /\ (q.kind = "act" => draft'.sched = editor'.sched)
    BY <1>1, <1>6, <1>7, <1>8, <1>9, <1>10, <2>1, <2>5 DEF ComposerInv, CommitSound
  <2>6. commit'.at = "done" => ~Editable'
    BY <1>8, <1>10 DEF ComposerInv, CommitSound
  <2> QED
    BY <2>2, <2>3, <2>4, <2>5, <2>6 DEF CommitSound
<1>17. ScheduledAsShown'
  BY <1>7, <1>10 DEF ComposerInv, ScheduledAsShown
<1> QED
  BY <1>11, <1>13, <1>14, <1>15, <1>16, <1>17 DEF ComposerInv

(* A call of the button that fails or arrives takes only itself away.       *)
LEMMA CommitCalls ==
  ASSUME ComposerInv, NEW r \in requests, r.kind \in {"act", "schedule"},
         requests' = requests \ {r}, UNCHANGED <<editor, timer>>,
         draft' \in DraftRows, draft'.text = draft.text, draft'.media = draft.media,
         draft'.over = draft.over, draft'.target = draft.target,
         commit' \in CommitRows
  PROVE  ComposerTypeOK' /\ OneSave' /\ (\A q \in requests' : SaveSound(q)') /\ PageAgrees'
<1>1. ComposerTypeOK'
  BY DEF ComposerInv, ComposerTypeOK
<1>2. OneSave'
  BY DEF ComposerInv, OneSave
<1>3. \A q \in requests' : SaveSound(q)'
  BY DEF ComposerInv, SaveSound
<1>4. PageAgrees'
  <2>1. UnderWay("all", "update") => UnderWay("all", "update")'
    BY DEF UnderWay
  <2>2. UnderWay("own", "override") => UnderWay("own", "override")'
    BY DEF UnderWay
  <2> QED
    BY <2>1, <2>2 DEF ComposerInv, PageAgrees
<1> QED
  BY <1>1, <1>2, <1>3, <1>4

LEMMA SaveFailsKeeps ==
  ASSUME ComposerInv, Hurries = {}, NEW r \in requests, SaveFails(r)
  PROVE  ComposerInv'
<1>1. /\ r.kind \in {"act", "schedule"} /\ commit.at # "idle"
      /\ requests' = requests \ {r} /\ UNCHANGED <<draft, editor, timer>>
      /\ commit' = [commit EXCEPT !.at = "failed"]
  <2>1. r.kind \in {"act", "schedule"} /\ (r.kind = "schedule" => r.from = "commit")
    BY DEF SaveFails
  <2> QED
    BY <2>1 DEF SaveFails, Gone, ComposerInv, CommitSound
<1>2. draft \in DraftRows /\ commit \in CommitRows
  BY DEF ComposerInv, ComposerTypeOK
<1>3. commit' \in CommitRows /\ commit'.at = "failed" /\ commit'.page = commit.page
  BY <1>1, <1>2, CommitMoves
<1>4. ComposerTypeOK' /\ OneSave' /\ (\A q \in requests' : SaveSound(q)') /\ PageAgrees'
  BY <1>1, <1>2, <1>3, CommitCalls
<1>5. StoredAs(editor.sched)' = StoredAs(editor.sched)
  BY <1>1 DEF StoredAs, Stored
<1>6. CommitSound'
  BY <1>1, <1>3, <1>5 DEF ComposerInv, CommitSound, Editable
<1> QED
  BY <1>3, <1>4, <1>6 DEF ComposerInv, ScheduledAsShown

LEMMA ActArrivesKeeps ==
  ASSUME ComposerInv, NEW r \in requests, ActArrives(r)
  PROVE  ComposerInv'
<1> DEFINE ok == Editable /\ (r.what = "schedule" => CanSchedule /\ draft.sched # "queue")
           at == IF ok THEN "done" ELSE "failed"
           s == IF r.what = "schedule" THEN "scheduled" ELSE "pending_approval"
           f == Stored
<1>1. /\ r.kind = "act" /\ requests' = requests \ {r} /\ UNCHANGED <<editor, timer>>
      /\ commit' = [commit EXCEPT !.at = at]
      /\ draft' = IF ok THEN [draft EXCEPT !.status = s, !.frozen = f] ELSE draft
  BY DEF ActArrives, Gone
<1>2. commit.at # "idle" /\ (Editable => commit.page = StoredAs(editor.sched) /\ draft.sched = editor.sched)
  BY <1>1 DEF ComposerInv, CommitSound
<1>3. draft \in DraftRows /\ commit \in CommitRows /\ at \in {"busy", "failed", "done"}
      /\ s \in {"draft", "scheduled", "pending_approval"} /\ s # "draft"
      /\ (ok => Editable /\ at = "done") /\ (~ok => at = "failed")
  BY DEF ComposerInv, ComposerTypeOK
<1>4. Editable => f = commit.page
  <2>1. f = StoredAs(draft.sched)
    BY Zenon DEF Stored, StoredAs
  <2> QED
    BY <1>2, <2>1
<1>5. commit.page \in PageRows
  BY <1>2, <1>3 DEF CommitRows
<1> HIDE DEF ok, at, s, f
<1>6. commit' \in CommitRows /\ commit'.at = at /\ commit'.page = commit.page
  BY <1>1, <1>2, <1>3, CommitMoves
<1>7. CASE ok
  <2>1. draft' = [text |-> draft.text, over |-> draft.over, media |-> draft.media, sched |-> draft.sched,
                  target |-> draft.target, status |-> s, frozen |-> f]
    BY <1>1, <1>3, <1>7, DraftFrozen
  <2>2. f \in PageRows \cup {Absent} /\ f = commit.page
    BY <1>3, <1>4, <1>5, <1>7
  <2>3. draft' \in DraftRows
    BY <1>3, <2>1, <2>2, Zenon DEF DraftRows
  <2>4. draft'.target = draft.target
    BY <2>1, Zenon
  <2>5. /\ draft'.text = draft.text /\ draft'.over = draft.over /\ draft'.media = draft.media
        /\ draft'.status = s /\ draft'.frozen = f
    BY <2>1
  <2>6. ComposerTypeOK' /\ OneSave' /\ (\A q \in requests' : SaveSound(q)') /\ PageAgrees'
    BY <1>1, <1>6, <2>3, <2>4, <2>5, CommitCalls
  <2>7. CommitSound'
    <3>1. ~Editable' /\ commit'.at = "done"
      BY <1>3, <1>6, <1>7, <2>5 DEF Editable
    <3>2. timer.text = Absent /\ \A q \in requests : ~OfContent(q)
      BY <1>2 DEF ComposerInv, CommitSound
    <3> QED
      BY <1>1, <3>1, <3>2 DEF CommitSound
  <2> QED
    BY <1>6, <2>2, <2>5, <2>6, <2>7 DEF ComposerInv, ScheduledAsShown
<1>8. CASE ~ok
  <2>1. draft' = draft /\ commit'.at = "failed"
    BY <1>1, <1>3, <1>6, <1>8
  <2>2. ComposerTypeOK' /\ OneSave' /\ (\A q \in requests' : SaveSound(q)') /\ PageAgrees'
    BY <1>1, <1>3, <1>6, <2>1, CommitCalls
  <2>3. StoredAs(editor.sched)' = StoredAs(editor.sched)
    BY <1>1, <2>1 DEF StoredAs, Stored
  <2>4. CommitSound'
    BY <1>1, <1>2, <1>6, <2>1, <2>3 DEF ComposerInv, CommitSound, Editable
  <2> QED
    BY <2>1, <2>2, <2>4 DEF ComposerInv, ScheduledAsShown
<1> QED
  BY <1>7, <1>8

LEMMA StutterComposer == ComposerInv /\ UNCHANGED <<draft, editor, timer, requests, commit>> => ComposerInv'
<1> SUFFICES ASSUME ComposerInv, UNCHANGED <<draft, editor, timer, requests, commit>> PROVE ComposerInv'
  OBVIOUS
<1>1. ComposerTypeOK' /\ OneSave' /\ (\A q \in requests' : SaveSound(q)')
  BY DEF ComposerInv, ComposerTypeOK, OneSave, SaveSound
<1>2. PageAgrees'
  BY DEF ComposerInv, PageAgrees, UnderWay
<1>3. StoredAs(editor.sched)' = StoredAs(editor.sched)
  BY DEF StoredAs, Stored
<1>4. CommitSound' /\ ScheduledAsShown'
  BY <1>3 DEF ComposerInv, CommitSound, ScheduledAsShown, Editable
<1> QED
  BY <1>1, <1>2, <1>4 DEF ComposerInv

LEMMA NextComposer ==
  ASSUME Hurries = {}, ComposerInv, [ComposerNext]_composerVars
  PROVE  ComposerInv'
<1>1. CASE UNCHANGED composerVars
  BY <1>1, StutterComposer DEF composerVars
<1>2. ASSUME NEW v \in Texts, Type(v) PROVE ComposerInv'
  BY <1>2, TypeKeeps
<1>3. ASSUME NEW p \in PageTabs, SwitchTab(p) PROVE ComposerInv'
  BY <1>3, SwitchTabKeeps
<1>4. ASSUME NEW m \in Modes, ChangeSchedule(m) PROVE ComposerInv'
  BY <1>4, ChangeScheduleKeeps
<1>5. ASSUME NEW fs \in SUBSET Files, Attach(fs) PROVE ComposerInv'
  BY <1>5, AttachKeeps
<1>6. ASSUME NEW w \in {"schedule", "submit"}, Click(w) PROVE ComposerInv'
  BY <1>6, ClickKeeps
<1>7. CASE TextTimer
  BY <1>7, TextTimerKeeps
<1>8. CASE ScheduleTimer
  BY <1>8, ScheduleTimerKeeps
<1>9. CASE Revert \/ Toggle
  BY <1>9, ClearsKeep
<1>10. CASE Revalidate
  BY <1>10, StutterComposer DEF Revalidate
<1>11. ASSUME NEW r \in requests,
              \/ UpdateReads(r) \/ UpdateWrites(r) \/ OverrideArrives(r) \/ RevertArrives(r)
              \/ ToggleArrives(r) \/ ScheduleArrives(r) \/ SaveFails(r) \/ ActArrives(r)
       PROVE  ComposerInv'
  BY <1>11, UpdateReadsKeeps, UpdateWritesKeeps, OverrideKeeps, RevertKeeps, ToggleKeeps,
     ScheduleArrivesKeeps, SaveFailsKeeps, ActArrivesKeeps
<1> QED
  BY <1>1, <1>2, <1>3, <1>4, <1>5, <1>6, <1>7, <1>8, <1>9, <1>10, <1>11 DEF ComposerNext

(* An author who waits for the saves to end schedules and submits exactly   *)
(* what the page shows at the click, whatever the order in which the edits, *)
(* their timers, the pushes of the schedule and their answers come, for any *)
(* texts and files and any number of edits (commit() of the composer).      *)
THEOREM ComposerKeepsThePage ==
  ASSUME Hurries = {}
  PROVE  ComposerSpec => []ScheduledAsShown
<1>1. ComposerInit => ComposerInv
  BY InitComposer
<1>2. ComposerInv /\ [ComposerNext]_composerVars => (ComposerInv)'
  BY NextComposer
<1>3. ComposerInv => ScheduledAsShown
  BY DEF ComposerInv
<1> QED
  BY <1>1, <1>2, <1>3, PTL DEF ComposerSpec

=============================================================================
