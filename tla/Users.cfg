SPECIFICATION Spec
CONSTANTS
  Agents = {a1}
  Socks = {3, 4}
  Domains = {global, texas}
  Global = global
  Names = {admin, mayor}
  Admin = admin
  Passwords = {pa, pb}
  AdminPassword = pa
  Commands = {"login", "logout", "changepassword", "createdomain", "createuser", "deleteuser", "deletedomain"}
  Listeners = {"raw", "pg"}
  Patient = TRUE
  MaxConns = 2
  MaxOps = 5
INVARIANTS DirectoryAgrees SessionsKeepTheirUser SessionsAreTheAskers
PROPERTIES OperationsEnd
CHECK_DEADLOCK FALSE
