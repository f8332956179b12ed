-------------------------- MODULE ProposalsProofs --------------------------
(***************************************************************************)
(* Facts about rights files and proposals, for every set of names, trees,  *)
(* tools, policies and submissions: what a tenant's edit leaves alone,     *)
(* what a reviewer is shown, and what a policy cut down to some trees      *)
(* grants.                                                                 *)
(***************************************************************************)
EXTENDS Proposals, TLAPS

(* Merging: a name is listed under a key iff some line of that key has it. *)
LEMMA ListedDef ==
  ASSUME NEW P, NEW kind, NEW name, NEW x
  PROVE  x \in Listed(P, kind, name)
           <=> \E l \in P : l.kind = kind /\ l.name = name /\ x \in l.list
  BY DEF Listed, OfKind

(* What each kind of line reaches. *)
LEMMA ReachedByKind ==
  ASSUME NEW l, NEW P
  PROVE  /\ l.kind \in {"grant", "role", "workspace"} => Reached(l, P) = l.list
         /\ l.kind = "role-tool" => Reached(l, P) = {l.at}
         /\ l.kind \in {"member", "group"} =>
              Reached(l, P) = UNION {TreesOfRole(P, r) : r \in l.list}
         /\ l.kind = "workspace-package" => Reached(l, P) = TreesOfWorkspace(P, l.name)
  BY DEF Reached

(* A line is inside S iff it is not global and reaches something, in S only. *)
LEMMA InsideDef ==
  ASSUME NEW l, NEW P, NEW S
  PROVE  Inside(l, P, S) <=> /\ ~GlobalOnly(l, P)
                             /\ Reached(l, P) # {}
                             /\ Reached(l, P) \subseteq S
  BY DEF Inside, LineTrees

(* An edit neither adds nor removes a line that is not inside S. *)
LEMMA ComposeLines ==
  ASSUME NEW P, NEW Q, NEW S, Composable(P, Q, S), NEW l, ~Inside(l, Both(P, Q), S)
  PROVE  l \in P <=> l \in Compose(P, Q, S)
  BY DEF Composable, Compose

(* Lines of these kinds are never inside anybody's trees. *)
LEMMA GlobalKindsKept ==
  ASSUME NEW P, NEW Q, NEW S, Composable(P, Q, S),
         NEW kind \in {"tree", "tenant", "tenant-admin"}
  PROVE  OfKind(P, kind) = OfKind(Compose(P, Q, S), kind)
<1>1. ASSUME NEW l, l.kind = kind  PROVE ~Inside(l, Both(P, Q), S)
  BY <1>1, InsideDef DEF GlobalOnly
<1>2. ASSUME NEW l, l.kind = kind  PROVE l \in P <=> l \in Compose(P, Q, S)
  <2>1. ~Inside(l, Both(P, Q), S)
    BY <1>1, <1>2
  <2>2. QED BY <2>1, ComposeLines
<1>3. QED BY <1>2 DEF OfKind

(* Outside S, grants and roles list the same trees after an edit. *)
LEMMA ListsOutsideKept ==
  ASSUME NEW P, NEW Q, NEW S, Composable(P, Q, S),
         NEW kind \in {"grant", "role"}, NEW name, NEW t, t \notin S
  PROVE  t \in Listed(P, kind, name) <=> t \in Listed(Compose(P, Q, S), kind, name)
<1>1. ASSUME NEW l, l.kind = kind, t \in l.list  PROVE ~Inside(l, Both(P, Q), S)
  BY <1>1, InsideDef, ReachedByKind
<1>2. ASSUME NEW l, l.kind = kind, t \in l.list  PROVE l \in P <=> l \in Compose(P, Q, S)
  <2>1. ~Inside(l, Both(P, Q), S)
    BY <1>1, <1>2
  <2>2. QED BY <2>1, ComposeLines
<1>3. QED BY <1>2, ListedDef

(* A role that reaches beyond S, or is the administrators', keeps its       *)
(* members and its groups.                                                  *)
LEMMA AssignmentsOutsideKept ==
  ASSUME NEW P, NEW Q, NEW S, Composable(P, Q, S),
         NEW kind \in {"member", "group"}, NEW name, NEW r,
         r = Admin \/ \E t \in TreesOfRole(P, r) : t \notin S
  PROVE  r \in Listed(P, kind, name) <=> r \in Listed(Compose(P, Q, S), kind, name)
<1>1. ASSUME NEW l, l.kind = kind, r \in l.list  PROVE ~Inside(l, Both(P, Q), S)
  <2>1. CASE r = Admin
    BY <1>1, <2>1, InsideDef DEF GlobalOnly
  <2>2. CASE \E t \in TreesOfRole(P, r) : t \notin S
    <3>1. PICK t \in TreesOfRole(P, r) : t \notin S
      BY <2>2
    <3>2. t \in TreesOfRole(Both(P, Q), r)
      BY <3>1, ListedDef DEF TreesOfRole, Both
    <3>3. t \in Reached(l, Both(P, Q))
      BY <1>1, <3>2, ReachedByKind
    <3>4. QED BY <3>1, <3>3, InsideDef
  <2>3. QED BY <2>1, <2>2
<1>2. ASSUME NEW l, l.kind = kind, r \in l.list  PROVE l \in P <=> l \in Compose(P, Q, S)
  <2>1. ~Inside(l, Both(P, Q), S)
    BY <1>1, <1>2
  <2>2. QED BY <2>1, ComposeLines
<1>3. QED BY <1>2, ListedDef

(* The tool policies on a tree outside S are kept. *)
LEMMA ToolPoliciesOutsideKept ==
  ASSUME NEW P, NEW Q, NEW S, Composable(P, Q, S), NEW role, NEW t, t \notin S
  PROVE  ToolPolicies(P, role, t) = ToolPolicies(Compose(P, Q, S), role, t)
<1>1. ASSUME NEW l, l.kind = "role-tool", l.at = t  PROVE ~Inside(l, Both(P, Q), S)
  BY <1>1, InsideDef, ReachedByKind
<1>2. ASSUME NEW l, l.kind = "role-tool", l.at = t  PROVE l \in P <=> l \in Compose(P, Q, S)
  <2>1. ~Inside(l, Both(P, Q), S)
    BY <1>1, <1>2
  <2>2. QED BY <2>1, ComposeLines
<1>3. QED BY <1>2 DEF ToolPolicies, OfKind

(* The roles of a caller that count outside S: those that reach a tree     *)
(* there, and the administrators'.                                         *)
LEMMA RolesOutsideKept ==
  ASSUME NEW P, NEW Q, NEW S, Composable(P, Q, S), NEW user, NEW groups, NEW r,
         r = Admin \/ \E t \in TreesOfRole(P, r) : t \notin S
  PROVE  r \in RolesFor(P, user, groups) <=> r \in RolesFor(Compose(P, Q, S), user, groups)
<1>1. r \in Listed(P, "member", user) <=> r \in Listed(Compose(P, Q, S), "member", user)
  BY AssignmentsOutsideKept
<1>2. ASSUME NEW g
      PROVE  r \in Listed(P, "group", g) <=> r \in Listed(Compose(P, Q, S), "group", g)
  BY AssignmentsOutsideKept
<1>3. QED BY <1>1, <1>2 DEF RolesFor

(* A tenant administrator's edit, of any policy, changes nothing outside   *)
(* the trees it is confined to (rights.rs:464 `compose`).                  *)
THEOREM ComposeSameOutside ==
  ASSUME NEW P, NEW Q, NEW S, Composable(P, Q, S)
  PROVE  SameOutside(P, Compose(P, Q, S), S)
<1> DEFINE R == Compose(P, Q, S)
<1> HIDE DEF R
<1>1. ASSUME NEW u, NEW G, NEW t, t \notin S
      PROVE  /\ t \in GrantsOf(P, u) <=> t \in GrantsOf(R, u)
             /\ \A r : t \in TreesOfRole(P, r) <=> t \in TreesOfRole(R, r)
             /\ \A r : t \in TreesOfRole(P, r)
                       => (r \in RolesFor(P, u, G) <=> r \in RolesFor(R, u, G))
             /\ \A r : ToolPolicies(P, r, t) = ToolPolicies(R, r, t)
  <2>1. t \in GrantsOf(P, u) <=> t \in GrantsOf(R, u)
    BY <1>1, ListsOutsideKept DEF GrantsOf, R
  <2>2. ASSUME NEW r  PROVE t \in TreesOfRole(P, r) <=> t \in TreesOfRole(R, r)
    BY <1>1, ListsOutsideKept DEF TreesOfRole, R
  <2>3. ASSUME NEW r, t \in TreesOfRole(P, r)
        PROVE  r \in RolesFor(P, u, G) <=> r \in RolesFor(R, u, G)
    BY <1>1, <2>3, RolesOutsideKept DEF R
  <2>4. ASSUME NEW r  PROVE ToolPolicies(P, r, t) = ToolPolicies(R, r, t)
    BY <1>1, ToolPoliciesOutsideKept DEF R
  <2>5. QED BY <2>1, <2>2, <2>3, <2>4
<1>2. ASSUME NEW u, NEW G, NEW t, t \notin S  PROVE May(P, u, G, t) <=> May(R, u, G, t)
  BY <1>1, <1>2 DEF May
<1>3. ASSUME NEW u, NEW G, NEW t, t \notin S, NEW tool
      PROVE  MayTool(P, u, G, t, tool) <=> MayTool(R, u, G, t, tool)
  <2>1. ASSUME NEW r  PROVE RoleAllowsTool(P, r, t, tool) <=> RoleAllowsTool(R, r, t, tool)
    BY <1>1, <1>3 DEF RoleAllowsTool
  <2>2. QED BY <1>1, <1>3, <2>1 DEF MayTool
<1>4. ASSUME NEW c  PROVE ScopeOf(P, c) = ScopeOf(R, c)
  <2>1. IsAdmin(P, c.user, c.groups) <=> IsAdmin(R, c.user, c.groups)
    BY RolesOutsideKept DEF IsAdmin, R
  <2>2. OfKind(P, "tenant") = OfKind(R, "tenant")
    BY GlobalKindsKept DEF R
  <2>3. OfKind(P, "tenant-admin") = OfKind(R, "tenant-admin")
    BY GlobalKindsKept DEF R
  <2>4. \A n : TreesOfTenant(P, n) = TreesOfTenant(R, n)
    BY <2>2 DEF TreesOfTenant, Listed
  <2>5. Listed(P, "tenant-admin", c.user) = Listed(R, "tenant-admin", c.user)
    BY <2>3 DEF Listed
  <2>6. QED BY <2>1, <2>4, <2>5 DEF ScopeOf, AdminScope
<1>5. OfKind(P, "tree") = OfKind(R, "tree")
  BY GlobalKindsKept DEF R
<1>6. QED BY <1>2, <1>3, <1>4, <1>5 DEF SameOutside, R

LEMMA WellFormedScope ==
  ASSUME NEW P, \A l \in P : WellFormed(l), NEW c  PROVE ScopeOf(P, c) \in {Global} \cup SUBSET Trees
<1>1. ASSUME NEW n  PROVE TreesOfTenant(P, n) \subseteq Trees
  BY ListedDef DEF TreesOfTenant, Listed, OfKind, WellFormed
<1>2. QED BY <1>1 DEF ScopeOf, AdminScope

LEMMA ScopeTyped ==
  ASSUME NEW P \in SUBSET AllLines, NEW c  PROVE ScopeOf(P, c) \in {Global} \cup SUBSET Trees
BY FourEyesAssumption, WellFormedScope

LEMMA TextTyped ==
  ASSUME NEW P \in SUBSET AllLines, NEW sub \in Submissions, NEW scope
  PROVE  ProposedText(P, sub, scope) \in SUBSET AllLines
  BY DEF ProposedText, Compose, AllLines

-----------------------------------------------------------------------------
(* What a reviewer is shown. *)

(* With every role of the original declared, resolving its members against *)
(* the original alone or together with the edit finds the same lines.      *)
LEMMA RemovedLinesShown ==
  ASSUME NEW P, NEW Q, NEW S, Composable(P, Q, S), Valid(P),
         NEW l \in P, Inside(l, Both(P, Q), S)
  PROVE  Inside(l, P, S)
<1> DEFINE B == Both(P, Q)
<1>1. \A r : TreesOfRole(P, r) \subseteq TreesOfRole(B, r)
  BY ListedDef DEF TreesOfRole, Both
<1>2. ~GlobalOnly(l, B) /\ Reached(l, B) # {} /\ Reached(l, B) \subseteq S
  BY InsideDef
<1>3. CASE l.kind \in {"member", "group"}
  <2>1. l.list \subseteq DeclaredNonempty(P, "role") /\ l.list # {}
    BY <1>3 DEF Valid, LinesValid, ReferencesValid, OfKind, ListKinds
  <2>2. \A r \in l.list : TreesOfRole(P, r) # {}
    BY <2>1 DEF DeclaredNonempty, TreesOfRole, Listed, OfKind
  <2>3. ~GlobalOnly(l, P)
    BY <1>2, <1>3, <2>2 DEF GlobalOnly
  <2>4. Reached(l, P) # {}
    BY <1>3, <2>1, <2>2, ReachedByKind
  <2>5. Reached(l, P) \subseteq Reached(l, B)
    BY <1>1, <1>3, ReachedByKind
  <2>6. QED BY <1>2, <2>3, <2>4, <2>5, InsideDef
<1>4. CASE l.kind \notin {"member", "group"}
  <2>1. ~GlobalOnly(l, P)
    BY <1>2, <1>4 DEF GlobalOnly
  <2>2. TreesOfWorkspace(P, l.name) = TreesOfWorkspace(B, l.name)
    BY DEF TreesOfWorkspace, Listed, OfKind, Both
  <2>3. Reached(l, P) = Reached(l, B)
    BY <1>4, <2>2 DEF Reached
  <2>4. QED BY <1>2, <2>1, <2>3, InsideDef
<1>5. QED BY <1>3, <1>4

(* With every role of the result declared, the lines added are among those *)
(* the result shows.                                                       *)
LEMMA AddedLinesShown ==
  ASSUME NEW P, NEW Q, NEW S, Composable(P, Q, S), Valid(P), Valid(Compose(P, Q, S)), NEW l \in Q
  PROVE  Inside(l, Compose(P, Q, S), S)
<1> DEFINE B == Both(P, Q)
           R == Compose(P, Q, S)
<1>0. l \in R
  BY DEF Compose
<1>1. \A r : TreesOfRole(R, r) \subseteq TreesOfRole(B, r)
  BY ListedDef DEF TreesOfRole, Both, Compose, OfKind
<1>2. ~GlobalOnly(l, B) /\ Reached(l, B) # {} /\ Reached(l, B) \subseteq S
  BY InsideDef DEF Composable
<1>3. CASE l.kind \in {"member", "group"}
  <2>1. l.list \subseteq DeclaredNonempty(R, "role") /\ l.list # {}
    BY <1>0, <1>3 DEF Valid, LinesValid, ReferencesValid, OfKind, ListKinds
  <2>2. \A r \in l.list : TreesOfRole(R, r) # {}
    BY <2>1 DEF DeclaredNonempty, TreesOfRole, Listed, OfKind
  <2>3. ~GlobalOnly(l, R)
    BY <1>2, <1>3, <2>2 DEF GlobalOnly
  <2>4. Reached(l, R) # {}
    BY <1>3, <2>1, <2>2, ReachedByKind
  <2>5. Reached(l, R) \subseteq Reached(l, B)
    BY <1>1, <1>3, ReachedByKind
  <2>6. QED BY <1>2, <2>3, <2>4, <2>5, InsideDef
<1>4. CASE l.kind = "workspace-package"
  <2>1. ~GlobalOnly(l, R)
    BY <1>4 DEF GlobalOnly
  <2>2. TreesOfWorkspace(R, l.name) \subseteq S
    <3>1. TreesOfWorkspace(P, l.name) \subseteq S
      <4>1. Reached(l, B) = TreesOfWorkspace(B, l.name)
        BY <1>4, ReachedByKind
      <4>2. TreesOfWorkspace(B, l.name) = TreesOfWorkspace(P, l.name)
        BY DEF TreesOfWorkspace, Listed, OfKind, Both
      <4>3. QED BY <1>2, <4>1, <4>2
    <3>2. ASSUME NEW m \in Q, m.kind = "workspace"  PROVE m.list \subseteq S
      BY <3>2, InsideDef, ReachedByKind DEF Composable
    <3>3. QED BY <3>1, <3>2, ListedDef DEF TreesOfWorkspace, Compose
  <2>3. TreesOfWorkspace(R, l.name) # {}
    BY <1>0, <1>4 DEF Valid, LinesValid, ReferencesValid, Declared, DeclaredNonempty, TreesOfWorkspace, Listed, OfKind
  <2>4. QED BY <1>4, <2>1, <2>2, <2>3, ReachedByKind, InsideDef
<1>5. CASE l.kind \notin {"member", "group", "workspace-package"}
  <2>1. ~GlobalOnly(l, R)
    BY <1>2, <1>5 DEF GlobalOnly
  <2>2. Reached(l, R) = Reached(l, B)
    BY <1>5 DEF Reached
  <2>3. QED BY <1>2, <2>1, <2>2, InsideDef
<1>6. QED BY <1>3, <1>4, <1>5

(* The inductive invariant: what a stored proposal guarantees about its    *)
(* own two texts.  It is established when the proposal is composed and is  *)
(* all an approval needs, since it compares the base with the file in      *)
(* force.                                                                  *)
ProposalSound(p) ==
  p.scope # Global =>
    /\ SameOutside(p.base, p.text, p.scope)
    /\ Valid(p.base) => Changes(p) \subseteq Shown(p)

LEMMA NewProposalSound ==
  ASSUME NEW P, NEW sub, NEW scope, NEW author, MayPropose(P, sub, scope)
  PROVE  ProposalSound(NewProposal(P, sub, scope, author))
<1> DEFINE p == NewProposal(P, sub, scope, author)
           R == Compose(P, sub, scope)
<1>1. p.base = P /\ p.scope = scope /\ p.text = ProposedText(P, sub, scope)
  BY DEF NewProposal
<1> HIDE DEF p
<1>2. SUFFICES ASSUME scope # Global
               PROVE  SameOutside(P, R, scope) /\ (Valid(P) => Changes(p) \subseteq Shown(p))
  BY <1>1 DEF ProposalSound, ProposedText, p
<1>3. p.text = R /\ Composable(P, sub, scope) /\ Valid(R)
  BY <1>1, <1>2 DEF MayPropose, ProposedText
<1>4. SameOutside(P, R, scope)
  BY <1>3, ComposeSameOutside
<1>5. ASSUME Valid(P)  PROVE Changes(p) \subseteq Shown(p)
  <2>1. Shown(p) = ScopedText(P, scope) \cup ScopedText(R, scope)
    BY <1>1, <1>2, <1>3 DEF Shown, ActiveView
  <2>2. ASSUME NEW l \in P \ R  PROVE l \in ScopedText(P, scope)
    <3>1. Inside(l, Both(P, sub), scope)
      BY <2>2, <1>3 DEF Compose
    <3>2. QED BY <1>3, <1>5, <2>2, <3>1, RemovedLinesShown DEF ScopedText
  <2>3. ASSUME NEW l \in R \ P  PROVE l \in ScopedText(R, scope)
    <3>1. l \in sub
      BY <2>3 DEF Compose
    <3>2. QED BY <1>3, <1>5, <2>3, <3>1, AddedLinesShown DEF ScopedText
  <2>4. QED BY <1>1, <1>3, <2>1, <2>2, <2>3 DEF Changes
<1>6. QED BY <1>4, <1>5

-----------------------------------------------------------------------------
(* The policy cut down to some trees. *)

(* The lines of the restricted policy: cut down copies of lines kept. *)
LEMMA RestrictedLines ==
  ASSUME NEW P \in SUBSET AllLines, NEW S, NEW kind, NEW name, NEW x
  PROVE  x \in Listed(RestrictedTo(P, S), kind, name)
           <=> \E m \in P : /\ m.kind = kind /\ m.name = name
                            /\ Kept(m, P, S)
                            /\ x \in RestrictedList(m, P, S)
<1>1. ASSUME NEW m \in P, NEW y
      PROVE  /\ [m EXCEPT !.list = y].kind = m.kind
             /\ [m EXCEPT !.list = y].name = m.name
             /\ [m EXCEPT !.list = y].list = y
  BY FourEyesAssumption DEF WellFormed
<1> DEFINE cut(m) == [m EXCEPT !.list = RestrictedList(m, P, S)]
<1>2. x \in Listed(RestrictedTo(P, S), kind, name)
        <=> \E n \in RestrictedTo(P, S) : n.kind = kind /\ n.name = name /\ x \in n.list
  BY ListedDef
<1>3. \A n : n \in RestrictedTo(P, S) <=> \E m \in P : Kept(m, P, S) /\ n = cut(m)
  BY DEF RestrictedTo
<1>4. \A m \in P : /\ cut(m).kind = m.kind /\ cut(m).name = m.name
                   /\ cut(m).list = RestrictedList(m, P, S)
  BY <1>1
<1> HIDE DEF cut
<1>5. QED BY <1>2, <1>3, <1>4

LEMMA RestrictedTrees ==
  ASSUME NEW P \in SUBSET AllLines, NEW S, NEW kind \in {"grant", "role"}, NEW name, NEW t
  PROVE  t \in Listed(RestrictedTo(P, S), kind, name) <=> t \in S /\ t \in Listed(P, kind, name)
<1>1. ASSUME NEW m, m.kind = kind
      PROVE  /\ RestrictedList(m, P, S) = m.list \cap S
             /\ t \in m.list \cap S => Kept(m, P, S)
  BY <1>1 DEF RestrictedList, Kept
<1>2. QED BY <1>1, RestrictedLines, ListedDef

LEMMA RestrictedAssignments ==
  ASSUME NEW P \in SUBSET AllLines, NEW S, NEW kind \in {"member", "group"}, NEW name, NEW r
  PROVE  r \in Listed(RestrictedTo(P, S), kind, name)
           <=> r \in RestrictedRoles(P, S) /\ r \in Listed(P, kind, name)
<1>1. ASSUME NEW m, m.kind = kind
      PROVE  /\ RestrictedList(m, P, S) = m.list \cap RestrictedRoles(P, S)
             /\ r \in m.list \cap RestrictedRoles(P, S) => Kept(m, P, S)
  BY <1>1 DEF RestrictedList, Kept
<1>2. QED BY <1>1, RestrictedLines, ListedDef

LEMMA RestrictedToolPolicies ==
  ASSUME NEW P \in SUBSET AllLines, NEW S, NEW t \in S, NEW r \in RestrictedRoles(P, S), NEW tool
  PROVE  RoleAllowsTool(RestrictedTo(P, S), r, t, tool) <=> RoleAllowsTool(P, r, t, tool)
<1>1. ASSUME NEW m \in P
      PROVE  LET n == [m EXCEPT !.list = RestrictedList(m, P, S)]
             IN  /\ n.kind = m.kind /\ n.name = m.name /\ n.at = m.at
                 /\ n.list = RestrictedList(m, P, S)
  BY FourEyesAssumption DEF WellFormed
<1>2. ASSUME NEW m \in ToolPolicies(P, r, t)
      PROVE  Kept(m, P, S) /\ RestrictedList(m, P, S) = m.list
  BY DEF ToolPolicies, OfKind, Kept, RestrictedList
<1>3. ASSUME NEW m \in ToolPolicies(P, r, t)
      PROVE  \E n \in ToolPolicies(RestrictedTo(P, S), r, t) : n.list = m.list
  <2>1. m \in P /\ m.kind = "role-tool" /\ m.name = r /\ m.at = t
    BY DEF ToolPolicies, OfKind
  <2>2. [m EXCEPT !.list = RestrictedList(m, P, S)] \in RestrictedTo(P, S)
    BY <1>2, <2>1 DEF RestrictedTo
  <2>3. [m EXCEPT !.list = RestrictedList(m, P, S)] \in ToolPolicies(RestrictedTo(P, S), r, t)
    BY <1>1, <2>1, <2>2 DEF ToolPolicies, OfKind
  <2>4. [m EXCEPT !.list = RestrictedList(m, P, S)].list = m.list
    BY <1>1, <1>2, <2>1
  <2>5. QED BY <2>3, <2>4
<1>4. ASSUME NEW n \in ToolPolicies(RestrictedTo(P, S), r, t)
      PROVE  \E m \in ToolPolicies(P, r, t) : m.list = n.list
  <2>1. PICK m \in P : n = [m EXCEPT !.list = RestrictedList(m, P, S)]
    BY DEF ToolPolicies, OfKind, RestrictedTo
  <2>2. m \in ToolPolicies(P, r, t)
    BY <1>1, <2>1 DEF ToolPolicies, OfKind
  <2>3. QED BY <1>1, <1>2, <2>1, <2>2
<1>5. QED BY <1>3, <1>4 DEF RoleAllowsTool

(* It grants exactly what the whole policy grants inside these trees, and  *)
(* nothing outside (rights.rs:159 `restricted_to`).                        *)
THEOREM RestrictedAnswers ==
  ASSUME NEW P \in SUBSET AllLines, NEW S, NEW u, NEW G, NEW t
  PROVE  /\ May(RestrictedTo(P, S), u, G, t) <=> t \in S /\ May(P, u, G, t)
         /\ \A tool : MayTool(RestrictedTo(P, S), u, G, t, tool)
                       <=> t \in S /\ MayTool(P, u, G, t, tool)
<1> DEFINE R == RestrictedTo(P, S)
<1> HIDE DEF R
<1>1. t \in GrantsOf(R, u) <=> t \in S /\ t \in GrantsOf(P, u)
  BY RestrictedTrees DEF GrantsOf, R
<1>2. \A r : t \in TreesOfRole(R, r) <=> t \in S /\ t \in TreesOfRole(P, r)
  BY RestrictedTrees DEF TreesOfRole, R
<1>3. \A r : r \in RolesFor(R, u, G) <=> r \in RestrictedRoles(P, S) /\ r \in RolesFor(P, u, G)
  <2>1. ASSUME NEW r, NEW kind \in {"member", "group"}, NEW name
        PROVE  r \in Listed(R, kind, name)
                 <=> r \in RestrictedRoles(P, S) /\ r \in Listed(P, kind, name)
    BY RestrictedAssignments DEF R
  <2>2. QED BY <2>1 DEF RolesFor
<1>4. \A r : t \in S /\ t \in TreesOfRole(P, r) => r \in RestrictedRoles(P, S)
  BY ListedDef DEF RestrictedRoles, TreesOfRole, Declared, OfKind
<1>5. \A r, tool : t \in S /\ r \in RestrictedRoles(P, S)
                    => (RoleAllowsTool(R, r, t, tool) <=> RoleAllowsTool(P, r, t, tool))
  BY RestrictedToolPolicies DEF R
<1>6. May(R, u, G, t) <=> t \in S /\ May(P, u, G, t)
  BY <1>1, <1>2, <1>3, <1>4 DEF May
<1>7. ASSUME NEW tool
      PROVE  MayTool(R, u, G, t, tool) <=> t \in S /\ MayTool(P, u, G, t, tool)
  BY <1>1, <1>2, <1>3, <1>4, <1>5 DEF MayTool
<1>8. QED BY <1>6, <1>7 DEF R
=============================================================================
