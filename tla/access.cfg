SPECIFICATION AccessSpec
CONSTANTS
  Nobody = Nobody
  ann = ann
  bob = bob
  old = old
  new = new
  Accounts = {ann, bob}
  Passwords = {old, new}
  Labels = {"acme", "globex"}
  Invites = {"k1", "k2"}
  InviteOf <- MCInviteOf
  AuthRequests = {q1, q2, q3}
  Plans <- MCPlans
  q1 = q1
  q2 = q2
  q3 = q3
  AuthStarts <- MCAuthStarts
  Life = 1
  Horizon = 1
  Situations <- MCSituations
  Names = {"read", "run", "manage"}
  MaxChanges = 1
  s1 = s1
  s2 = s2
  s3 = s3
  Replicas = {s1, s2, s3}
  Releases <- MCReleases
  PermNames = {"read", "run", "manage"}
  RoleNames = {"admin", "viewer"}
  SeedStarts <- MCSeedStarts
  Absent = Absent
  Admin = Admin
  Plain = Plain
  Users = {ann, bob}
  Grants = {Admin, Plain}
  r1 = r1
  r2 = r2
  r3 = r3
  Requests = {r1, r2, r3}
  StartingStates <- MCRoleStarts
  None = None
INVARIANTS AccessTypes EveryRemovalAudited RequestsAreWhole ResetEndsSessions GuardSound QuietAnswer
           SeedsConverge OneReleaseNeverDeadlocks
PROPERTIES CountedRemovalsKeepAnAdmin RequestsAnswered
CHECK_DEADLOCK FALSE
