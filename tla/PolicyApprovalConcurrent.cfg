SPECIFICATION Spec
CONSTANTS
  a = a
  ada = ada
  gus = gus
  ops = ops
  pia = pia
  pat = pat
  u = u
  v = v
  pay = pay
  Admin = Admin
  Global = Global
  Nowhere = Nowhere
  NoProposal = NoProposal
  None = None
  Names <- MCNames
  Trees = {a}
  Tools = {}
  Callers <- GlobalAdmins
  Ids = {p1}
  Submissions <- TwoTexts
  OperatorPolicies <- SmallPolicy
  Handlers = {h1, h2}
  TornLines <- TornGrant
  Pieces <- SmallPieces
  Serialized = FALSE
INVARIANTS
  TypeOK
  WholeUnlessShared
SYMMETRY Symmetry
