SPECIFICATION Spec
CONSTANTS
  a = a
  b = b
  ada = ada
  gus = gus
  pia = pia
  pat = pat
  u = u
  dev = dev
  ops = ops
  eng = eng
  pay = pay
  wks = wks
  search = search
  other = other
  Admin = Admin
  Global = Global
  Nowhere = Nowhere
  NoProposal = NoProposal
  Names <- MCNames
  Trees = {a, b}
  Tools = {search, other}
  Callers <- MCCallers
  Ids = {"p1"}
  Submissions <- MCSubmissions
  OperatorPolicies <- MCOperatorPolicies
INVARIANTS
  TypeOK
  ReviewerSeesEveryChange
  UnchangedViewIsNoEdit
  ReviewIsExact
PROPERTIES
  TenantStaysInside
