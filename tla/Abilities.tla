----------------------------- MODULE Abilities ------------------------------
(***************************************************************************)
(* The role matrix of src/authz/abilities.ts, and the mirror of it that    *)
(* the web application keeps to decide what it renders.                    *)
(***************************************************************************)

Roles == {"owner", "approver", "editor", "analyst"}
Leads   == {"owner", "approver"}
Writers == Leads \cup {"editor"}

(* Grants that look at the resource: an editor's own post or asset, and a   *)
(* lead's approval of somebody else's post.                                 *)
OwnOnly == {"post:update", "post:delete", "post:submit_for_approval", "post:cancel",
            "media:delete"}
OthersOnly == {"approval:approve"}

ForEveryone == {"workspace:view", "member:view", "account:view", "post:view",
                "queue_slot:view", "media:view", "analytics:view"}
ForWriters  == {"post:create", "post:view_drafts", "media:upload"} \cup OwnOnly
ForLeads    == {"account:connect", "account:disconnect", "post:schedule", "post:publish_now",
                "approval:approve", "approval:request_changes", "queue_slot:manage"}
ForOwners   == {"workspace:update", "workspace:delete", "member:invite", "member:change_role",
                "member:remove", "member:transfer_ownership", "billing:view",
                "billing:manage", "api_key:view", "api_key:create", "api_key:revoke",
                "webhook:view", "webhook:create", "webhook:delete", "audit_log:view"}

Actions == ForEveryone \cup ForWriters \cup ForLeads \cup ForOwners

MATRIX ==
  [a \in Actions |-> CASE a \in ForEveryone -> Roles
                       [] a \in ForWriters  -> Writers
                       [] a \in ForLeads    -> Leads
                       [] a \in ForOwners   -> {"owner"}]

(* own: whether the actor wrote the post or uploaded the asset, or that     *)
(* this is unknown.  An unknown author fails both conditions.               *)
Ownership == {"own", "other", "unknown"}

Can(role, action, own) ==
  /\ role \in MATRIX[action]
  /\ action \in OwnOnly /\ role = "editor" => own = "own"
  /\ action \in OthersOnly => own = "other"

(* The mirror of the web application covers the actions it has controls for. *)
WebActions == {"workspace:update", "workspace:delete", "member:invite", "member:change_role",
               "member:remove", "member:transfer_ownership", "billing:view",
               "approval:approve", "approval:request_changes"}

WebMATRIX ==
  [a \in WebActions |-> IF a \in {"approval:approve", "approval:request_changes"}
                        THEN Leads ELSE {"owner"}]

WebCan(role, action, own) ==
  /\ role \in WebMATRIX[action]
  /\ action = "approval:approve" => own = "other"
=============================================================================
