SPECIFICATION Spec
CONSTANTS
  a = a
  ada = ada
  gus = gus
  ops = ops
  pia = pia
  pat = pat
  u = u
  v = v
  pay = pay
  Admin = Admin
  Global = Global
  Nowhere = Nowhere
  NoProposal = NoProposal
  None = None
  Names <- MCNames
  Trees = {a}
  Tools = {}
  Callers <- MixedAdmins
  Ids = {"p1", "p2"}
  Submissions <- MCSubmissions
  OperatorPolicies <- OneOperatorPolicy
  Handlers = {"h1"}
  TornLines = {}
  Pieces <- CorePieces
  Serialized = TRUE
PROPERTIES
  KeepsPromise
  NothingIsUndone
