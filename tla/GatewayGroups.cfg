SPECIFICATION Spec
CONSTANTS
  a = a
  u = u
  dev = dev
  eng = eng
  search = search
  edit = edit
  k = k
  Admin = Admin
  Global = Global
  Nowhere = Nowhere
  None = None
  Names <- MCNames
  Trees = {a}
  Tools = {search, edit}
  Oidc = TRUE
  Bearers <- JwtBearers
  CredentialFiles <- KeyFiles
  Policies <- GroupPolicies
  Handlers = {h1}
  MaxAge = 0
  MaxTime = 1
  OneStep = FALSE
PROPERTIES
  GroupsReachTrees
SYMMETRY Symmetry
