SPECIFICATION Spec
CONSTANTS
  a = a
  u = u
  dev = dev
  eng = eng
  search = search
  edit = edit
  k = k
  Admin = Admin
  Global = Global
  Nowhere = Nowhere
  None = None
  Names <- MCNames
  Trees = {a}
  Tools = {search, edit}
  Oidc = FALSE
  Bearers <- TokenBearers
  CredentialFiles <- TokenFiles
  Policies <- MemberPolicies
  Handlers = {h1, h2}
  MaxAge = 0
  MaxTime = 1
  OneStep = FALSE
INVARIANTS
  TypeOK
PROPERTIES
  EffectOnNextRequest
  WithinLease
SYMMETRY Symmetry
