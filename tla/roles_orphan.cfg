SPECIFICATION Spec
CONSTANTS
  ann = ann
  bob = bob
  Users = {ann, bob}
  Admin = Admin
  Plain = Plain
  Grants = {Admin, Plain}
  Requests = {r1, r2, r3}
  StartingStates <- MCFoundedTenant
  None = None
PROPERTY NeverOrphaned
CHECK_DEADLOCK FALSE
