SPECIFICATION WorkspacesSpec
CONSTANTS
  Users = {u1, u2}
  Addresses = {e1}
  Requests = {q1, q2}
  Founder = u1
  NewRoles = {"approver"}
  Transfers = "others"
INVARIANTS OwnerExists
