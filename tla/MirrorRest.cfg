SPECIFICATION Spec
CONSTANTS
  ana = ana
  dot = dot
  repo = repo
  group = group
  tree = tree
  manual = manual
  None = None
  Sync = Sync
  Users = {ana, dot}
  Sources = {repo, group}
  Trees = {tree, manual}
  TreeOf <- OneTree
  Plain = {ana}
  Webhooks = {w1, w2}
  MaxChanges = 2
  MaxTroubles = 0
  InitiallyGranted <- Manual
  TornGrants = {}
INVARIANTS
  RestIsKept
