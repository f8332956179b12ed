------------------------------- MODULE Rights -------------------------------
(***************************************************************************)
(* The meaning of a rights file (src/rights.rs).                           *)
(*                                                                         *)
(* A policy is the set of the lines of rights.tsv.  `parse` merges the     *)
(* lines that share a key and every lookup asks for membership, so neither *)
(* order nor repetition of the lines changes an answer; the one exception, *)
(* which of two `tree` lines of one name is used, is an error the          *)
(* validation warns of and is left out.  Names are opaque values.          *)
(***************************************************************************)
CONSTANTS
  Names,       \* users, groups, roles, workspaces, tenants: one name space
  Trees,       \* names of trees
  Tools,       \* names of MCP tools, and of package declarations
  Admin,       \* the role named `admin`
  Global,      \* the scope of a holder of that role
  Nowhere      \* the `at` field of a line that has none

ASSUME RightsAssumption ==
  /\ Admin \in Names
  /\ \A S \in SUBSET Trees : Global # S

(***************************************************************************)
(* A line: its directive, its first column, the second of a four-column    *)
(* line (the tree of a `role-tool`, the backend of a `tree`), and the      *)
(* names of its comma-separated last column.  A `tree` line names a tree,  *)
(* the other directives a user, role, group, workspace or tenant.          *)
(***************************************************************************)
ListKinds == {"grant", "role", "workspace", "tenant", "member", "group",
              "tenant-admin", "workspace-package", "role-tool"}
LineKinds == ListKinds \cup {"tree", "comment", "malformed"}

Line(kind, name, list)    == [kind |-> kind, name |-> name, at |-> Nowhere, list |-> list]
ToolLine(role, t, tools)  == [kind |-> "role-tool", name |-> role, at |-> t, list |-> tools]
TreeLine(t, backend)      == [kind |-> "tree", name |-> t, at |-> backend, list |-> {}]

(* What a line consists of, and what its last column names. *)
WellFormed(l) ==
  /\ l \in [kind : LineKinds, name : Names \cup Trees, at : Names \cup Trees \cup {Nowhere},
            list : SUBSET (Names \cup Trees \cup Tools)]
  /\ l.kind = "tree" => l.name \in Trees
  /\ l.kind # "tree" => l.name \in Names
  /\ l.kind \notin {"tree", "role-tool"} => l.at = Nowhere
  /\ l.kind \in {"grant", "role", "workspace", "tenant"} => l.list \subseteq Trees
  /\ l.kind \in {"member", "group", "tenant-admin"} => l.list \subseteq Names
  /\ l.kind \in {"role-tool", "workspace-package"} => l.list \subseteq Tools

OfKind(P, kind)           == {l \in P : l.kind = kind}
Listed(P, kind, name)     == UNION {l.list : l \in {m \in OfKind(P, kind) : m.name = name}}
Declared(P, kind)         == {l.name : l \in OfKind(P, kind)}

-----------------------------------------------------------------------------
(* Who may reach what: the lookups on a parsed file. *)

GrantsOf(P, user)      == Listed(P, "grant", user)
TreesOfRole(P, role)   == Listed(P, "role", role)
TreesOfWorkspace(P, w) == Listed(P, "workspace", w)
TreesOfTenant(P, n)    == Listed(P, "tenant", n)

RolesFor(P, user, groups) ==
  Listed(P, "member", user) \cup UNION {Listed(P, "group", g) : g \in groups}

May(P, user, groups, tree) ==
  \/ tree \in GrantsOf(P, user)
  \/ \E role \in RolesFor(P, user, groups) : tree \in TreesOfRole(P, role)

ToolPolicies(P, role, tree) == {l \in OfKind(P, "role-tool") : l.name = role /\ l.at = tree}

RoleAllowsTool(P, role, tree, tool) ==
  ToolPolicies(P, role, tree) # {} => \E l \in ToolPolicies(P, role, tree) : tool \in l.list

MayTool(P, user, groups, tree, tool) ==
  \/ tree \in GrantsOf(P, user)
  \/ \E role \in RolesFor(P, user, groups) :
       tree \in TreesOfRole(P, role) /\ RoleAllowsTool(P, role, tree, tool)

IsAdmin(P, user, groups) == Admin \in RolesFor(P, user, groups)

(* Mutant: a tenant administrator's scope is the tenants, not their trees. *)
ScopeOfTenantNames(P, user, groups) ==
  IF IsAdmin(P, user, groups) THEN Global ELSE Listed(P, "tenant-admin", user)

(* `AdminScope`: Global, the trees of one's tenants, or {} for nobody's. *)
AdminScope(P, user, groups) ==
  IF IsAdmin(P, user, groups)
    THEN Global
    ELSE UNION {TreesOfTenant(P, n) : n \in Listed(P, "tenant-admin", user)}

(* AdminScope::covers, where a proposal's scope is Global or a set of trees. *)
Covers(scope, reached) ==
  scope # Global => reached # Global /\ reached # {} /\ reached \subseteq scope

VisibleWorkspaces(P, user, groups) ==
  {w \in Declared(P, "workspace") :
     /\ TreesOfWorkspace(P, w) # {}
     /\ \A t \in TreesOfWorkspace(P, w) : May(P, user, groups, t)}

-----------------------------------------------------------------------------
(* A tenant administrator's view of a policy, and their edit of it. *)

(* A line only a global administrator may change, however far it reaches. *)
GlobalOnly(l, P) ==
  \/ l.kind \in {"tree", "tenant", "tenant-admin", "comment", "malformed"}
  \/ l.kind \in {"role", "role-tool"} /\ l.name = Admin
  \/ l.kind \in {"member", "group"} /\ \E r \in l.list : r = Admin \/ TreesOfRole(P, r) = {}

Reached(l, P) ==
  CASE l.kind \in {"grant", "role", "workspace"} -> l.list
    [] l.kind = "role-tool"                      -> {l.at}
    [] l.kind \in {"member", "group"}            -> UNION {TreesOfRole(P, r) : r \in l.list}
    [] l.kind = "workspace-package"              -> TreesOfWorkspace(P, l.name)
    [] OTHER                                     -> {}

(* `line_trees`, where {} stands for its None: it never returns Some({}). *)
LineTrees(l, P) == IF GlobalOnly(l, P) THEN {} ELSE Reached(l, P)

Inside(l, P, S) == LineTrees(l, P) # {} /\ LineTrees(l, P) \subseteq S

(* Mutant: shows the lines that touch S, not only those inside it. *)
TouchingText(P, S) == {l \in P : LineTrees(l, P) \cap S # {}}

ScopedText(P, S) == {l \in P : Inside(l, P, S)}

(* A submitted member line may name a role of either text: roles resolve    *)
(* against the active policy together with the role lines of the edit.      *)
Both(P, Q) == P \cup OfKind(Q, "role")

Composable(P, Q, S) == \A l \in Q : Inside(l, Both(P, Q), S)

Compose(P, Q, S) == {l \in P : ~Inside(l, Both(P, Q), S)} \cup Q

ActiveView(P, scope) == IF scope = Global THEN P ELSE ScopedText(P, scope)

-----------------------------------------------------------------------------
(* `validate_text`: the errors.  Its warnings do not refuse a policy. *)

DeclaredNonempty(P, kind) == {l.name : l \in {m \in OfKind(P, kind) : m.list # {}}}

(* Line by line: a known directive, and somebody or something listed. *)
LinesValid(P) ==
  /\ OfKind(P, "malformed") = {}
  /\ \A l \in P : l.kind \in ListKinds => l.list # {}

(* Then together: what a line refers to is declared. *)
ReferencesValid(P) ==
  /\ \A l \in OfKind(P, "member") \cup OfKind(P, "group") :
       l.list \subseteq DeclaredNonempty(P, "role")
  /\ \A l \in OfKind(P, "role-tool") :
       l.name \in DeclaredNonempty(P, "role") /\ l.at \in Declared(P, "tree")
  /\ \A l \in OfKind(P, "workspace") \cup OfKind(P, "tenant") :
       l.list \subseteq Declared(P, "tree")
  /\ Declared(P, "workspace-package") \subseteq DeclaredNonempty(P, "workspace")
  /\ \A l \in OfKind(P, "tenant-admin") : l.list \subseteq DeclaredNonempty(P, "tenant")

Valid(P) == LinesValid(P) /\ ReferencesValid(P)

-----------------------------------------------------------------------------
(* `restricted_to`: the access review a tenant administrator is given. The *)
(* parsed policy cut down to S, as the policy that would parse to it.      *)

RestrictedRoles(P, S) == {r \in Declared(P, "role") : TreesOfRole(P, r) \cap S # {}}

RestrictedList(l, P, S) ==
  CASE l.kind \in {"grant", "role"}   -> l.list \cap S
    [] l.kind \in {"member", "group"} -> l.list \cap RestrictedRoles(P, S)
    [] OTHER                          -> l.list

(* Mutant: the review leaves the tool policies out. *)
KeptWithoutToolPolicies(l, P, S) ==
  \/ l.kind = "tree" /\ l.name \in S
  \/ l.kind \in {"grant", "role", "member", "group"} /\ RestrictedList(l, P, S) # {}

Kept(l, P, S) ==
  \/ l.kind = "tree" /\ l.name \in S
  \/ l.kind \in {"grant", "role", "member", "group"} /\ RestrictedList(l, P, S) # {}
  \/ l.kind = "role-tool" /\ l.name \in RestrictedRoles(P, S) /\ l.at \in S
  \/ l.kind = "workspace" /\ TreesOfWorkspace(P, l.name) # {} /\ TreesOfWorkspace(P, l.name) \subseteq S

RestrictedTo(P, S) == {[l EXCEPT !.list = RestrictedList(l, P, S)] : l \in {m \in P : Kept(m, P, S)}}

=============================================================================
