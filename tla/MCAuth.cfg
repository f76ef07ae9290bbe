SPECIFICATION PartSpec
CONSTANTS
  Requests = {q1, q2}
  Accounts = {alice}
  MaxTokens = 3
  MaxFailures = 2
  LockoutDuration = 2
  SweepEvery = 2
  t1 = t1
  t2 = t2
  t3 = t3
  f1 = f1
  f2 = f2
  TokenIds = {t1, t2, t3}
  Families = {f1, f2}
  FamilyOf <- FamilyOfDef
  TokenTTL = 2
  FlagTTL = 2
  admin = admin
  editor = editor
  viewer = viewer
  Roles = {admin, editor, viewer}
  SuperAdmin = admin
  Checks = {c1}
  Permissions <- PermissionsDef
  RequiredSets <- RequiredSetsDef
  Hierarchies <- HierarchiesDef
SYMMETRY RequestSymmetry
INVARIANTS
  AuthTypesOK
  GuessesBounded
  ClosedFamilyStaysClosed
  DeadStaysDead
  GrantedWasHeld
CHECK_DEADLOCK FALSE
