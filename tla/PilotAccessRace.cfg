SPECIFICATION Spec
CONSTANTS
  User = {u1, u2}
  Role = {admin, supervisor}
  Admin = admin
  FirstAdmins = {u1, u2}
  Handler = {h1, h2}
  NoJob = noJob
INVARIANT
  AdminRemains
