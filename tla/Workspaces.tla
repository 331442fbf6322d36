---------------------------- MODULE Workspaces ------------------------------
(***************************************************************************)
(* The members of one workspace (src/workspaces/service.ts): invitations,  *)
(* roles, removal, transfer of ownership.  Requests run concurrently.  One *)
(* resolves its role when it arrives, then a transaction locks the rows of *)
(* the owners (SELECT ... FOR UPDATE at READ COMMITTED), reads the target, *)
(* and writes.  A lock that is free is granted with the snapshot; one that *)
(* is waited for is granted when its holder ends, before anything else,    *)
(* and returns the rows of the old snapshot that still match.              *)
(***************************************************************************)
EXTENDS Abilities, Naturals, FiniteSets

CONSTANTS
  Users,       \* people
  Addresses,   \* e-mail addresses that are invited
  Requests,    \* requests the server handles at a time
  Founder,     \* who created the workspace
  NewRoles,    \* roles that invitations and role changes give (a bound)
  Transfers    \* whom ownership may be transferred to: "nobody", "others", "anyone"

ASSUME WorkspacesAssumption ==
  /\ IsFiniteSet(Users)
  /\ Founder \in Users
  /\ NewRoles \subseteq Roles
  /\ Transfers \in {"nobody", "others", "anyone"}

VARIABLES
  member,    \* memberships.role of each user, or "none"
  invite,    \* the invitation of each address that was not accepted yet, and its role
  deleted,   \* workspaces.deleted_at is set
  req        \* the request in each slot, or Idle
workspacesVars == <<member, invite, deleted, req>>

Idle == [at |-> "idle"]
NoInvite == [status |-> "none"]
Locking == {"member:change_role", "member:remove", "member:leave", "member:transfer_ownership"}

Owners == {u \in Users : member[u] = "owner"}
Present(S) == {u \in S : member[u] # "none"}

(* createWorkspace: the row and the founder's membership in one transaction. *)
WorkspacesInit ==
  /\ member = [u \in Users |-> IF u = Founder THEN "owner" ELSE "none"]
  /\ invite = [e \in Addresses |-> NoInvite]
  /\ deleted = FALSE
  /\ req = [r \in Requests |-> Idle]

(* Mutant: the owners are read without FOR UPDATE.                          *)
NothingLocked(r) == {}

(* Rows whose locks another transaction holds until it ends.                *)
LockedByOthers(r) == UNION {req[q].rows : q \in {p \in Requests \ {r} : req[p].at = "read"}}
Waiting(r) == req[r].at = "waiting"
Grantable(r) == Waiting(r) /\ req[r].rows \cap LockedByOthers(r) = {}
NobodyGrantable == \A r \in Requests : ~Grantable(r)

(* resolveTenant reads the caller's role; authorize() inside the service    *)
(* decides on that reading, however old it has become.                      *)
Permitted(u, op) ==
  member[u] # "none" /\ (op # "member:leave" => Can(member[u], op, "unknown"))

Arrive(r, u, op, x, n) ==
  /\ req[r] = Idle /\ Permitted(u, op) /\ NobodyGrantable
  /\ op = "member:leave" => x = u
  /\ op = "member:transfer_ownership" =>
       Transfers = "anyone" \/ (Transfers = "others" /\ x # u)
  /\ req' = [req EXCEPT ![r] =
       [at |-> "resolved", op |-> IF op = "member:leave" THEN "member:remove" ELSE op,
        by |-> IF op = "member:transfer_ownership" THEN u ELSE x, on |-> x, to |-> n,
        rows |-> {}]]
  /\ UNCHANGED <<member, invite, deleted>>

(* What the checks after lockOwners find, given the owners it returned.     *)
Strands(q, owners) ==
  /\ member[q.on] = "owner" /\ Cardinality(owners) <= 1
  /\ \/ q.op = "member:remove"
     \/ q.op = "member:change_role" /\ q.to # "owner"

Locked(r, rows) ==
  req' = [req EXCEPT ![r] =
            IF member[req[r].on] = "none" \/ Strands(req[r], rows \cap Owners)
            THEN Idle                        \* member_not_found, last_owner
            ELSE [req[r] EXCEPT !.at = "read", !.rows = Present(rows)]]

LockOwners(r) ==
  /\ NobodyGrantable
  /\ req[r].at = "resolved"
  /\ IF Owners \cap LockedByOthers(r) = {}
     THEN Locked(r, Owners)
     ELSE req' = [req EXCEPT ![r].at = "waiting", ![r].rows = Owners]
  /\ UNCHANGED <<member, invite, deleted>>

GrantOwners(r) ==
  /\ Grantable(r)
  /\ Locked(r, req[r].rows)
  /\ UNCHANGED <<member, invite, deleted>>

(* The writes of each operation, and the commit.  They wait for the locks   *)
(* of others on the rows they write; a row that is gone is not updated.     *)
SetRole(u, role) == [member EXCEPT ![u] = IF @ = "none" THEN @ ELSE role]

Written(q) ==
  CASE q.op = "member:change_role" -> SetRole(q.on, q.to)
    [] q.op = "member:remove" -> [member EXCEPT ![q.on] = "none"]
    [] q.op = "member:transfer_ownership" ->
         LET promoted == SetRole(q.on, "owner")
         IN  [promoted EXCEPT ![q.by] = IF @ = "owner" THEN "approver" ELSE @]

Commit(r) ==
  /\ NobodyGrantable
  /\ req[r].at = "read"
  /\ {req[r].on, req[r].by} \cap LockedByOthers(r) = {}
  /\ member' = Written(req[r])
  /\ req' = [req EXCEPT ![r] = Idle]
  /\ UNCHANGED <<invite, deleted>>

(* The server aborts a deadlock, or the connection is lost: roll-back.      *)
Abort(r) ==
  /\ NobodyGrantable
  /\ req[r] # Idle
  /\ req' = [req EXCEPT ![r] = Idle]
  /\ UNCHANGED <<member, invite, deleted>>

(* inviteMember: the partial unique index refuses a second invitation of an *)
(* address while the first is pending, also after it has expired.           *)
InviteMember(u, e, n) ==
  /\ NobodyGrantable
  /\ Permitted(u, "member:invite")
  /\ invite[e] = NoInvite
  /\ invite' = [invite EXCEPT ![e] = [status |-> "pending", role |-> n]]
  /\ UNCHANGED <<member, deleted, req>>

InvitationExpires(e) ==
  /\ invite[e].status = "pending"
  /\ invite' = [invite EXCEPT ![e].status = "expired"]
  /\ UNCHANGED <<member, deleted, req>>

(* acceptInvite: the link is enough, whoever follows it; a member keeps the *)
(* role he has.                                                             *)
AcceptInvite(u, e) ==
  /\ NobodyGrantable
  /\ invite[e].status = "pending"
  /\ member' = [member EXCEPT ![u] = IF @ = "none" THEN invite[e].role ELSE @]
  /\ invite' = [invite EXCEPT ![e] = NoInvite]
  /\ UNCHANGED <<deleted, req>>

(* Only the workspace row is marked; the members go on as before.           *)
DeleteWorkspace(u) ==
  /\ NobodyGrantable
  /\ Permitted(u, "workspace:delete")
  /\ ~deleted /\ deleted' = TRUE
  /\ UNCHANGED <<member, invite, req>>

WorkspacesNext ==
  \/ \E r \in Requests, u, x \in Users :
       \/ \E op \in Locking \ {"member:change_role"} : Arrive(r, u, op, x, "none")
       \/ \E n \in NewRoles : Arrive(r, u, "member:change_role", x, n)
  \/ \E r \in Requests : LockOwners(r) \/ GrantOwners(r) \/ Commit(r) \/ Abort(r)
  \/ \E u \in Users, e \in Addresses :
       AcceptInvite(u, e) \/ \E n \in NewRoles : InviteMember(u, e, n)
  \/ \E e \in Addresses : InvitationExpires(e)
  \/ \E u \in Users : DeleteWorkspace(u)

WorkspacesSpec == WorkspacesInit /\ [][WorkspacesNext]_workspacesVars

-----------------------------------------------------------------------------
(* A workspace is never left without an owner, whatever requests overlap:   *)
(* what lockOwners and the order of the two updates of transferOwnership    *)
(* are for.                                                                 *)
OwnerExists == Owners # {}
=============================================================================
