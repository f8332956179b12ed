------------------------------ MODULE Console ------------------------------
(***************************************************************************)
(* The endpoints behind the console (`handle` in src/main.rs): what a      *)
(* caller may list, the administration of the policy, and the reviews.     *)
(*                                                                         *)
(* A request answers from one read of the policy in force, or takes the    *)
(* caller's scope from it and reads the files again after that; meanwhile  *)
(* the operator, the mirror and other requests change them.                *)
(***************************************************************************)
EXTENDS Review

(* A tree shown is told from the names of people and of tools.             *)
ASSUME ConsoleAssumption ==
  /\ NoProposal \notin ProposalType
  /\ Trees \cap (Names \cup Tools \cup {Nowhere}) = {}

VARIABLE proposals  \* the proposal stored under each identifier

vars == <<active, request, proposals>>

Administration == {"list", "read", "timeline", "create", "approve"}
Operations == Administration \cup
  {"trees", "workspaces", "session", "access-review", "operations", "impact", "provider"}

(* The trees that lines of a policy name, or reach through their roles. *)
TreesIn(lines, P) ==
  UNION {(LineTrees(l, P) \cup {l.name, l.at} \cup l.list) \cap Trees : l \in lines}

-----------------------------------------------------------------------------
(* Answers from one read of the policy. *)

ListedTrees(P, c) == {t \in Declared(P, "tree") : May(P, c.user, c.groups, t)}

ListTrees(h) ==
  /\ Looks(h, "trees")
  /\ Set(h, Answered(request[h], 200, ListedTrees(active, request[h].caller)))
  /\ UNCHANGED <<active, proposals>>

(* Mutant: a workspace is listed for whoever may reach a tree of it. *)
PartlyVisibleWorkspaces(P, c) ==
  {<<w, TreesOfWorkspace(P, w)>> : w \in
     {x \in Declared(P, "workspace") : \E t \in TreesOfWorkspace(P, x) : May(P, c.user, c.groups, t)}}

ListedWorkspaces(P, c) ==
  {<<w, TreesOfWorkspace(P, w)>> : w \in VisibleWorkspaces(P, c.user, c.groups)}

ListWorkspaces(h) ==
  /\ Looks(h, "workspaces")
  /\ Set(h, Answered(request[h], 200, UNION {w[2] : w \in ListedWorkspaces(active, request[h].caller)}))
  /\ UNCHANGED <<active, proposals>>

(* Which sections the console shows. *)
ShowSession(h) ==
  /\ Looks(h, "session")
  /\ LET scope == ScopeOf(active, request[h].caller)
     IN  Set(h, [Answered(request[h], 200, {}) EXCEPT
                   !.document = IF scope \in {Global, {}} THEN scope
                                ELSE Listed(active, "tenant-admin", request[h].caller.user)])
  /\ UNCHANGED <<active, proposals>>

(* Mutant: of several policies for a role's tools only one is told. *)
ToolsOfOne(P, role, t) ==
  IF ToolPolicies(P, role, t) = {} THEN Tools ELSE (CHOOSE l \in ToolPolicies(P, role, t) : TRUE).list

ToolsOn(P, role, t) ==
  IF ToolPolicies(P, role, t) = {} THEN Tools ELSE UNION {l.list : l \in ToolPolicies(P, role, t)}

AccessReview(P) ==
  [trees  |-> Declared(P, "tree"),
   grants |-> [u \in Declared(P, "grant") |-> GrantsOf(P, u)],
   roles  |-> [r \in Declared(P, "role") |->
                 [members |-> {u \in Declared(P, "member") : r \in Listed(P, "member", u)},
                  groups  |-> {g \in Declared(P, "group") : r \in Listed(P, "group", g)},
                  tools   |-> [t \in TreesOfRole(P, r) |-> ToolsOn(P, r, t)]]]]

TreesOfReview(doc) ==
  doc.trees \cup (UNION {doc.grants[u] : u \in DOMAIN doc.grants})
            \cup (UNION {DOMAIN doc.roles[r].tools : r \in DOMAIN doc.roles})

ReviewAccess(h) ==
  /\ Looks(h, "access-review")
  /\ LET scope == ScopeOf(active, request[h].caller)
         doc == AccessReview(IF scope = Global THEN active ELSE RestrictedTo(active, scope))
     IN  Set(h, IF scope = {} THEN Answered(request[h], 404, {})
                ELSE [Answered(request[h], 200, TreesOfReview(doc)) EXCEPT !.document = doc])
  /\ UNCHANGED <<active, proposals>>

(* The state of the code hosts' integrations, and the whole evidence. *)
ShowOperations(h) ==
  /\ Looks(h, "operations")
  /\ Set(h, IF IsAdmin(active, request[h].caller.user, request[h].caller.groups)
              THEN Answered(request[h], 200, Trees) ELSE Answered(request[h], 404, {}))
  /\ UNCHANGED <<active, proposals>>

-----------------------------------------------------------------------------
(* Administration: the scope first, or 404. *)

TakeScope(h) ==
  /\ \E op \in Administration : Looks(h, op)
  /\ LET scope == ScopeOf(active, request[h].caller)
     IN  Set(h, IF scope = {} THEN Answered(request[h], 404, {})
                ELSE [request[h] EXCEPT !.pc = "act", !.scope = scope])
  /\ UNCHANGED <<active, proposals>>

Acts(h, op) == request[h].pc = "act" /\ request[h].op = op

Within(scope, id) == proposals[id] # NoProposal /\ Covers(scope, proposals[id].scope)

(* `list`: of each proposal its trees; `read`: its text, as far as its     *)
(* reader may see it.  Then the policy in force by now, likewise.          *)
ListProposals(h) ==
  /\ Acts(h, "list")
  /\ LET found == {id \in Ids : Within(request[h].scope, id)}
     IN  Set(h, [request[h] EXCEPT !.pc = "show",
                   !.told = UNION {proposals[id].scope : id \in {i \in found : proposals[i].scope # Global}}])
  /\ UNCHANGED <<active, proposals>>

ReadProposal(h) ==
  /\ Acts(h, "read")
  /\ LET r == request[h]
         text == proposals[r.arg].text
     IN  Set(h, IF ~Within(r.scope, r.arg) THEN Answered(r, 404, {})
                ELSE [r EXCEPT !.pc = "show", !.told = TreesIn(ActiveView(text, r.scope), text)])
  /\ UNCHANGED <<active, proposals>>

ShowActive(h) ==
  /\ request[h].pc = "show"
  /\ LET r == request[h]
     IN  Set(h, Answered(r, 200, r.told \cup TreesIn(ActiveView(active, r.scope), active)))
  /\ UNCHANGED <<active, proposals>>

(* `recent` of a log with events of every tree.  The lines of a signed log *)
(* hold their event one level down, where no tenant's filter finds a tree. *)
ShowTimeline(h) ==
  /\ Acts(h, "timeline")
  /\ \E signed \in BOOLEAN :
       Set(h, Answered(request[h], 200, IF request[h].scope = Global THEN Trees
                                        ELSE IF signed THEN {} ELSE request[h].scope))
  /\ UNCHANGED <<active, proposals>>

(* Mutant: the edit is composed in the scope its author has by now. *)
ComposeRescoped(h) ==
  /\ Acts(h, "create")
  /\ LET r == request[h]
         now == ScopeOf(active, r.caller)
     IN  Set(h, IF MayPropose(active, r.arg.sub, now)
                  THEN [r EXCEPT !.pc = "store",
                          !.draft = [NewProposal(active, r.arg.sub, now, r.caller.user) EXCEPT !.scope = r.scope]]
                  ELSE Answered(r, 400, {}))
  /\ UNCHANGED <<active, proposals>>

(* `create`: composed with the policy in force by now, in the scope taken. *)
ComposeEdit(h) ==
  /\ Acts(h, "create")
  /\ LET r == request[h]
     IN  Set(h, IF MayPropose(active, r.arg.sub, r.scope)
                  THEN [r EXCEPT !.pc = "store", !.draft = NewProposal(active, r.arg.sub, r.scope, r.caller.user)]
                  ELSE Answered(r, 400, {}))
  /\ UNCHANGED <<active, proposals>>

StoreProposal(h) ==
  /\ request[h].pc = "store"
  /\ LET r == request[h]
     IN  IF proposals[r.arg.id] = NoProposal
           THEN Set(h, Answered(r, 201, {})) /\ proposals' = [proposals EXCEPT ![r.arg.id] = r.draft]
           ELSE Set(h, Answered(r, 400, {})) /\ UNCHANGED proposals
  /\ UNCHANGED active

(* The rights file is P from now on. *)
Replaced(P) ==
  [k \in Handlers |-> IF request[k].pc \in Resting THEN request[k]
                      ELSE [request[k] EXCEPT !.since = @ \cup {P}]]

(* `approve`, of which PolicyApproval has the steps. *)
Approvable(h) ==
  /\ proposals[request[h].arg] # NoProposal
  /\ MayLoad(proposals[request[h].arg], request[h].caller.user, request[h].scope)
  /\ StillApplies(proposals[request[h].arg], active)

ApproveProposal(h) ==
  /\ Acts(h, "approve") /\ Approvable(h)
  /\ active' = proposals[request[h].arg].text
  /\ proposals' = [proposals EXCEPT ![request[h].arg].state = "approved",
                                    ![request[h].arg].approver = request[h].caller.user]
  /\ request' = [Replaced(active') EXCEPT ![h] = Answered(request[h], 200, {})]

RejectApproval(h) ==
  /\ Acts(h, "approve") /\ ~Approvable(h)
  /\ Set(h, Answered(request[h], 400, {}))
  /\ UNCHANGED <<active, proposals>>

-----------------------------------------------------------------------------
Arguments(op) ==
  CASE op \in {"read", "approve"} -> Ids
    [] op = "create"              -> [id : Ids, sub : Submissions]
    [] op = "impact"              -> Workspaces
    [] op = "provider"            -> Trees
    [] OTHER                      -> {NoProposal}

(* Anything else that replaces the rights file: the operator, the mirror.  *)
Overwrite(P) ==
  /\ active' = P
  /\ request' = Replaced(P)
  /\ UNCHANGED proposals

Init ==
  /\ active \in OperatorPolicies
  /\ request = [h \in Handlers |-> Idle]
  /\ proposals = [id \in Ids |-> NoProposal]

Step(h) ==
  \/ ListTrees(h) \/ ListWorkspaces(h) \/ ShowSession(h) \/ ReviewAccess(h) \/ ShowOperations(h)
  \/ TakeScope(h) \/ ListProposals(h) \/ ReadProposal(h) \/ ShowActive(h) \/ ShowTimeline(h)
  \/ ComposeEdit(h) \/ StoreProposal(h) \/ ApproveProposal(h) \/ RejectApproval(h)
  \/ (ReviewStep(h) \/ Close(h)) /\ UNCHANGED proposals

(* The event of a code host has no caller. *)
Arrive(h) ==
  \E op \in Operations, c \in Callers \cup {NoProposal} :
    /\ op = "provider" <=> c = NoProposal
    /\ \E arg \in Arguments(op) : Receive(h, op, c, arg)
    /\ UNCHANGED proposals

Next ==
  \/ \E h \in Handlers : Arrive(h) \/ Step(h)
  \/ \E P \in OperatorPolicies : Overwrite(P)

Spec == Init /\ [][Next]_vars

-----------------------------------------------------------------------------
(* Properties. *)

(* A thread is within one request, and forgets what it worked with when it *)
(* has answered (main.rs:1106).                                            *)
ConsoleTypeOK ==
  /\ active \subseteq AllLines
  /\ proposals \in [Ids -> ProposalType \cup {NoProposal}]
  /\ \A h \in Handlers :
       LET r == request[h] IN
       /\ r.pc \in Resting \cup {"look", "act", "show", "store", "detect", "surface"}
       /\ r.op \in Operations \cup {"none"} /\ r.caller \in Callers \cup {NoProposal}
       /\ r.since \subseteq SUBSET AllLines /\ (r.op # "none" => r.since # {})
       /\ r.told \cup r.todo \cup r.heard \subseteq Trees /\ r.changed \subseteq Trees \X {x.handler : x \in Routes}
       /\ r.scope = Global \/ r.scope \subseteq Trees
       /\ r.draft = NoProposal \/ r.draft \in ProposalType
       /\ r.pc \in Resting => r.rights = {} /\ r.todo = {} /\ r.draft = NoProposal

(* Nobody is told of a tree they could not reach, nor an administrator of  *)
(* one outside their scope, under every policy in force since they asked:  *)
(* "the access review and audit log cover only those trees; proposals show *)
(* and change only the rights lines inside them" (README.md:184).          *)
OnlyOwnTrees ==
  \A h \in Handlers :
    LET r == request[h] IN
    r.pc = "answered" /\ r.told # {} /\ r.op \notin {"impact", "provider"} =>
      \E P \in r.since :
        IF r.op \in {"trees", "workspaces"}
          THEN r.told \subseteq Reach(P, r.caller)
          ELSE ScopeOf(P, r.caller) = Global \/ r.told \subseteq ScopeOf(P, r.caller)

(* "A tree you may not reach answers exactly as one that does not exist"   *)
(* (README.md:70): the lists are those of a policy without these trees,    *)
(* so a workspace with one of them is not there either (main.rs:1344).     *)
UnreachableIsUnknown ==
  \A c \in Callers :
    LET without == RestrictedTo(active, Reach(active, c)) IN
    /\ ListedTrees(active, c) = ListedTrees(without, c)
    /\ ListedWorkspaces(active, c) = ListedWorkspaces(without, c)

(* An access review tells exactly who may use which tool inside the scope  *)
(* of its reader (rights.rs:513).                                          *)
ToldAccess(doc, c, t, tool) ==
  \/ c.user \in DOMAIN doc.grants /\ t \in doc.grants[c.user]
  \/ \E r \in DOMAIN doc.roles :
       /\ c.user \in doc.roles[r].members \/ c.groups \cap doc.roles[r].groups # {}
       /\ t \in DOMAIN doc.roles[r].tools /\ tool \in doc.roles[r].tools[t]

ReviewTellsAccess ==
  \A h \in Handlers :
    LET r == request[h] IN
    r.op = "access-review" /\ r.status = 200 =>
      \E P \in r.since : \A c \in Callers, t \in Trees, tool \in Tools :
        ToldAccess(r.document, c, t, tool) <=>
          /\ ScopeOf(P, r.caller) = Global \/ t \in ScopeOf(P, r.caller)
          /\ MayTool(P, c.user, c.groups, t, tool)

(* What is stored as a tenant's proposal changes nothing outside its       *)
(* recorded scope, and who stored it held that scope since they asked,     *)
(* however the policy changed in between (main.rs:1506); who approved one  *)
(* held a scope that covers it.                                            *)
EditsConfined ==
  /\ \A id \in Ids :
       proposals[id] # NoProposal /\ proposals[id].scope # Global =>
         SameOutside(proposals[id].base, proposals[id].text, proposals[id].scope)
  /\ \A h \in Handlers :
       LET r == request[h] IN
       /\ r.op = "create" /\ r.status = 201 =>
            \E P \in r.since : ScopeOf(P, r.caller) = proposals[r.arg.id].scope
       /\ r.op = "approve" /\ r.status = 200 =>
            \E P \in r.since : Covers(ScopeOf(P, r.caller), proposals[r.arg].scope)

=============================================================================
