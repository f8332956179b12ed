SPECIFICATION MCSpec
CONSTANTS
  a = a
  b = b
  ada = ada
  pia = pia
  pat = pat
  u = u
  dev = dev
  pay = pay
  wks = wks
  sub = sub
  second = second
  search = search
  other = other
  Admin = Admin
  Global = Global
  Nowhere = Nowhere
  NoProposal = NoProposal
  Names <- MCNames
  Trees = {a, b}
  Tools = {search, other}
  Callers <- MCCallers
  Ids = {"p1"}
  Submissions <- MCSubmissions
  OperatorPolicies <- MCOperatorPolicies
  Handlers = {h1, second}
  Workspaces = {wks, sub}
  Mapped = {b}
  Routes <- MCRoutes
  Requests <- MCRequests
  Unspelt = "unspelt"
INVARIANTS
  ConsoleTypeOK
  OnlyOwnTrees
  UnreachableIsUnknown
  ReviewTellsAccess
  EditsConfined
  NeverSpokenTo
  DiesOfInvalidOnly
  CallersAreExact
