--------------------------- MODULE ConsoleProofs ---------------------------
(***************************************************************************)
(* What the console tells and changes, for any policies, callers, threads, *)
(* proposals, routes and requests: one inductive invariant, of each thread *)
(* by itself (Sound), of a thread and the policy in force (Informed) and   *)
(* of a thread and the proposals (Recorded).                               *)
(***************************************************************************)
EXTENDS Console, ProposalsProofs

-----------------------------------------------------------------------------
(* What a thread's state consists of. *)

Points       == Resting \cup {"look", "act", "show", "store", "detect", "surface"}
SomeOp       == Operations \cup {"none"}
SomeCaller   == Callers \cup {NoProposal}
SomeArgument == UNION {Arguments(op) : op \in Operations}
Policies     == SUBSET SUBSET AllLines
Lines        == SUBSET AllLines
TreeSets     == SUBSET Trees
Changed      == SUBSET (Trees \X {x.handler : x \in Routes})
Scopes       == {Global} \cup SUBSET Trees
Drafts       == ProposalType \cup {NoProposal}
Statuses     == {0, 200, 201, 202, 400, 404}
LinkSets     == SUBSET (Requests \X Routes)
Documents    ==
  {NoProposal, Global} \cup (SUBSET Names)
    \cup {AccessReview(P) : P \in SUBSET AllLines}
    \cup {AccessReview(RestrictedTo(P, S)) : P \in SUBSET AllLines, S \in SUBSET Trees}

Thread ==
  [pc : Points, op : SomeOp, caller : SomeCaller, arg : SomeArgument, since : Policies,
   rights : Lines, todo : TreeSets, changed : Changed, heard : TreeSets, scope : Scopes,
   draft : Drafts, status : Statuses, told : TreeSets, callers : LinkSets, document : Documents]

LEMMA Defaults ==
  /\ \A S : {} \in SUBSET S
  /\ {} \in Lines /\ {} \in TreeSets /\ {} \in Changed /\ {} \in Scopes /\ {} \in LinkSets
  /\ {} \in Policies /\ NoProposal \in Drafts /\ NoProposal \in Documents /\ NoProposal \in SomeCaller
  /\ NoProposal \in SomeArgument
  /\ Resting \subseteq Points
  /\ {"answered", "look", "act", "show", "store", "detect", "surface", "idle", "dead"} \subseteq Points
<1>1. NoProposal \in Arguments("trees") /\ "trees" \in Operations
  BY DEF Arguments, Operations
<1> QED  BY <1>1 DEF Lines, TreeSets, Changed, Scopes, LinkSets, Policies, Drafts, Documents,
                     SomeCaller, Points, Resting, SomeArgument

LEMMA IdleType == Idle \in Thread
BY Defaults DEF Idle, Thread, SomeOp, Statuses

LEMMA AnsweredType ==
  ASSUME NEW r \in Thread, NEW s \in Statuses, NEW t \in TreeSets
  PROVE  Answered(r, s, t) \in Thread
BY Defaults DEF Answered, Thread

LEMMA AnsweredFields ==
  ASSUME NEW r \in Thread, NEW s, NEW t
  PROVE  /\ Answered(r, s, t).pc = "answered" /\ Answered(r, s, t).status = s
         /\ Answered(r, s, t).told = t
         /\ Answered(r, s, t).rights = {} /\ Answered(r, s, t).todo = {}
         /\ Answered(r, s, t).draft = NoProposal
         /\ Answered(r, s, t).op = r.op /\ Answered(r, s, t).caller = r.caller
         /\ Answered(r, s, t).arg = r.arg /\ Answered(r, s, t).since = r.since
         /\ Answered(r, s, t).changed = r.changed /\ Answered(r, s, t).heard = r.heard
         /\ Answered(r, s, t).callers = r.callers /\ Answered(r, s, t).document = r.document
BY DEF Answered, Thread

-----------------------------------------------------------------------------
(* What holds of a thread by itself. *)

(* A review asks what its caller, or its event's workspace, is given by P. *)
Allowed(r, P, asked) ==
  /\ r.op = "impact" => asked \subseteq Reach(P, r.caller)
  /\ r.op = "provider" => \A w \in WorkspacesWith(P, r.arg) : asked \subseteq TreesOfWorkspace(P, w)

Begun(r) ==
  /\ r.pc = "idle" => r.op = "none" /\ r.status = 0
  /\ r.pc # "idle" => /\ r.op \in Operations /\ r.arg \in Arguments(r.op)
                      /\ r.op # "provider" => r.caller \in Callers
                      /\ \E P \in r.since : Allowed(r, P, r.told)
  /\ r.pc = "look" => r.told = {} /\ r.changed = {}
  /\ r.pc \in Resting => r.rights = {} /\ r.todo = {} /\ r.draft = NoProposal
  /\ r.pc # "answered" => r.status = 0 /\ r.callers = {}
  /\ r.pc \notin {"surface", "answered", "dead"} => r.heard = {}

(* A thread of the administration works in a scope its caller held. *)
Scoped(r) ==
  /\ r.pc \in {"act", "show", "store"} =>
       /\ r.op \in Administration
       /\ \E P \in r.since : r.scope = ScopeOf(P, r.caller)
  /\ r.pc = "show" => r.op \in {"list", "read"}
  /\ r.pc = "store" =>
       /\ r.op = "create" /\ r.draft \in ProposalType
       /\ r.draft.scope = r.scope /\ ProposalSound(r.draft)

(* A review works on trees of one workspace of the policy it read. *)
Confined(r) ==
  /\ r.pc \in {"detect", "surface"} =>
       /\ r.op \in {"impact", "provider"} /\ r.rights \in r.since
       /\ \E w : r.told \cup r.todo \subseteq TreesOfWorkspace(r.rights, w)
       /\ Allowed(r, r.rights, r.told \cup r.todo)
  /\ r.pc = "surface" => r.op = "impact"
  /\ r.pc = "dead" => \E P \in r.since : ~Valid(P)

ToldOf(r) ==
  r.op = "access-review" /\ r.status = 200 =>
    \E P \in r.since : \A c \in Callers, t \in Trees, tool \in Tools :
      ToldAccess(r.document, c, t, tool) <=>
        /\ ScopeOf(P, r.caller) = Global \/ t \in ScopeOf(P, r.caller)
        /\ MayTool(P, c.user, c.groups, t, tool)

Exact(r) ==
  r.pc = "answered" /\ r.op = "impact" /\ r.heard = r.told =>
    {<<l[1], l[2].tree, l[2].handler>> : l \in r.callers}
      = UNION {{<<q, c[1], c[2]>> : q \in CallersOf(c[1], c[2], r.told)} : c \in r.changed}

(* A request that asks no backends tells trees that its caller may know of. *)
Tells(r, told) ==
  told # {} /\ r.op \notin {"impact", "provider"} =>
    \E P \in r.since :
      IF r.op \in {"trees", "workspaces"}
        THEN told \subseteq Reach(P, r.caller)
        ELSE ScopeOf(P, r.caller) = Global \/ told \subseteq ScopeOf(P, r.caller)

Owned(r) ==
  /\ r.pc = "show" => r.scope = Global \/ r.told \subseteq r.scope
  /\ r.pc = "answered" => Tells(r, r.told)

Sound(r) == r \in Thread /\ Owned(r) /\ Begun(r) /\ Scoped(r) /\ Confined(r) /\ ToldOf(r) /\ Exact(r)

(* What holds between a thread and the proposals. *)
Recorded(r, props) ==
  /\ r.op = "create" /\ r.status = 201 =>
       /\ props[r.arg.id] # NoProposal
       /\ \E P \in r.since : ScopeOf(P, r.caller) = props[r.arg.id].scope
  /\ r.op = "approve" /\ r.status = 200 =>
       /\ props[r.arg] # NoProposal
       /\ \E P \in r.since : Covers(ScopeOf(P, r.caller), props[r.arg].scope)

Stored(props) ==
  /\ props \in [Ids -> ProposalType \cup {NoProposal}]
  /\ \A id \in Ids : props[id] # NoProposal => ProposalSound(props[id])

Informed(r, P) == r.pc \notin Resting => P \in r.since

IInv ==
  /\ active \in SUBSET AllLines
  /\ Stored(proposals)
  /\ request \in [Handlers -> Thread]
  /\ \A h \in Handlers :
       Sound(request[h]) /\ Informed(request[h], active) /\ Recorded(request[h], proposals)

-----------------------------------------------------------------------------
(* The invariant has the properties. *)

LEMMA ThreadTypes ==
  ASSUME NEW r \in Thread
  PROVE  /\ r.pc \in Points /\ r.op \in SomeOp /\ r.caller \in SomeCaller /\ r.since \in Policies
         /\ r.arg \in SomeArgument /\ r.status \in Statuses /\ r.document \in Documents
         /\ r.rights \in Lines /\ r.todo \in TreeSets /\ r.changed \in Changed /\ r.heard \in TreeSets
         /\ r.scope \in Scopes /\ r.draft \in Drafts /\ r.told \in TreeSets /\ r.callers \in LinkSets
BY DEF Thread

LEMMA InvariantImplies ==
  IInv => /\ ConsoleTypeOK /\ OnlyOwnTrees /\ NeverSpokenTo /\ DiesOfInvalidOnly /\ CallersAreExact
          /\ ReviewTellsAccess /\ EditsConfined
<1> SUFFICES ASSUME IInv
             PROVE  /\ ConsoleTypeOK /\ OnlyOwnTrees /\ NeverSpokenTo /\ DiesOfInvalidOnly /\ CallersAreExact
                    /\ ReviewTellsAccess /\ EditsConfined
  OBVIOUS
<1>1. ASSUME NEW h \in Handlers
      PROVE  /\ request[h] \in Thread /\ Begun(request[h]) /\ Scoped(request[h])
             /\ Confined(request[h]) /\ ToldOf(request[h]) /\ Exact(request[h]) /\ Owned(request[h])
             /\ Recorded(request[h], proposals)
  BY DEF IInv, Sound
<1>2. ConsoleTypeOK
  <2>1. ASSUME NEW h \in Handlers
        PROVE  /\ request[h].pc \in Resting \cup {"look", "act", "show", "store", "detect", "surface"}
               /\ request[h].op \in Operations \cup {"none"} /\ request[h].caller \in Callers \cup {NoProposal}
               /\ request[h].since \subseteq SUBSET AllLines
               /\ request[h].told \cup request[h].todo \cup request[h].heard \subseteq Trees
               /\ request[h].changed \subseteq Trees \X {x.handler : x \in Routes}
               /\ request[h].scope = Global \/ request[h].scope \subseteq Trees
               /\ request[h].draft = NoProposal \/ request[h].draft \in ProposalType
    BY <1>1, ThreadTypes
       DEF Points, SomeOp, SomeCaller, Policies, TreeSets, Changed, Scopes, Drafts
  <2>2. ASSUME NEW h \in Handlers
        PROVE  /\ request[h].op # "none" => request[h].since # {}
               /\ request[h].pc \in Resting =>
                    request[h].rights = {} /\ request[h].todo = {} /\ request[h].draft = NoProposal
    BY <1>1 DEF Begun
  <2> QED  BY <2>1, <2>2 DEF ConsoleTypeOK, IInv, Stored
<1>3. NeverSpokenTo
  BY <1>1 DEF NeverSpokenTo, Begun, Allowed
<1>4. DiesOfInvalidOnly
  BY <1>1 DEF DiesOfInvalidOnly, Confined
<1>5. CallersAreExact
  BY <1>1 DEF CallersAreExact, Exact
<1>6. ReviewTellsAccess
  BY <1>1 DEF ReviewTellsAccess, ToldOf
<1>7. EditsConfined
  <2>1. ASSUME NEW id \in Ids, proposals[id] # NoProposal, proposals[id].scope # Global
        PROVE  SameOutside(proposals[id].base, proposals[id].text, proposals[id].scope)
    BY <2>1 DEF IInv, Stored, ProposalSound
  <2> QED  BY <1>1, <2>1 DEF EditsConfined, Recorded
<1>8. OnlyOwnTrees
  BY <1>1 DEF OnlyOwnTrees, Owned, Tells
<1> QED  BY <1>2, <1>3, <1>4, <1>5, <1>6, <1>7, <1>8

-----------------------------------------------------------------------------
(* The initial states, and the shapes of a step. *)

LEMMA IdleSound ==
  /\ Sound(Idle)
  /\ \A P : Informed(Idle, P)
  /\ \A props : Recorded(Idle, props)
<1>1. /\ Idle.pc = "idle" /\ Idle.op = "none" /\ Idle.status = 0 /\ Idle.rights = {} /\ Idle.todo = {}
      /\ Idle.draft = NoProposal /\ Idle.callers = {} /\ Idle.heard = {}
  BY DEF Idle
<1>2. Owned(Idle) /\ Begun(Idle) /\ Scoped(Idle) /\ Confined(Idle) /\ ToldOf(Idle) /\ Exact(Idle)
  BY <1>1 DEF Owned, Begun, Scoped, Confined, ToldOf, Exact, Resting
<1> QED  BY <1>1, <1>2, IdleType DEF Sound, Informed, Recorded, Resting

LEMMA InvariantInit == Init => IInv
BY IdleSound, IdleType DEF Init, IInv, Stored, AllLines

(* Whatever held of a policy a thread may have read holds of it later. *)
LaterThread(r, P) == [r EXCEPT !.since = @ \cup {P}]

LEMMA LaterFields ==
  ASSUME NEW r \in Thread, NEW P \in SUBSET AllLines
  PROVE  /\ LaterThread(r, P) \in Thread
         /\ LaterThread(r, P).since = r.since \cup {P}
         /\ LaterThread(r, P).pc = r.pc /\ LaterThread(r, P).status = r.status
         /\ LaterThread(r, P).told = r.told
         /\ LaterThread(r, P).rights = r.rights /\ LaterThread(r, P).todo = r.todo
         /\ LaterThread(r, P).draft = r.draft /\ LaterThread(r, P).scope = r.scope
         /\ LaterThread(r, P).op = r.op /\ LaterThread(r, P).caller = r.caller
         /\ LaterThread(r, P).arg = r.arg
         /\ LaterThread(r, P).changed = r.changed /\ LaterThread(r, P).heard = r.heard
         /\ LaterThread(r, P).callers = r.callers /\ LaterThread(r, P).document = r.document
<1>1. r.since \cup {P} \in Policies
  BY ThreadTypes DEF Policies
<1> QED  BY <1>1 DEF LaterThread, Thread

LEMMA LaterSound ==
  ASSUME NEW r, NEW P \in SUBSET AllLines, NEW props, Sound(r), Recorded(r, props)
  PROVE  /\ Sound(LaterThread(r, P)) /\ Informed(LaterThread(r, P), P)
         /\ Recorded(LaterThread(r, P), props)
<1> DEFINE n == LaterThread(r, P)
<1>1. r \in Thread /\ Owned(r) /\ Begun(r) /\ Scoped(r) /\ Confined(r) /\ ToldOf(r) /\ Exact(r)
  BY DEF Sound
<1>2. /\ n \in Thread /\ n.since = r.since \cup {P}
      /\ n.pc = r.pc /\ n.status = r.status /\ n.told = r.told /\ n.rights = r.rights /\ n.todo = r.todo
      /\ n.draft = r.draft /\ n.scope = r.scope /\ n.op = r.op /\ n.caller = r.caller /\ n.arg = r.arg
      /\ n.changed = r.changed /\ n.heard = r.heard /\ n.callers = r.callers /\ n.document = r.document
  BY <1>1, LaterFields
<1> HIDE DEF n
<1>3. Begun(n)
  BY <1>1, <1>2 DEF Begun, Allowed
<1>4. Scoped(n)
  BY <1>1, <1>2 DEF Scoped
<1>5. Confined(n)
  BY <1>1, <1>2 DEF Confined, Allowed
<1>6. ToldOf(n)
  <2> SUFFICES ASSUME n.op = "access-review", n.status = 200
               PROVE  \E Q \in n.since : \A c \in Callers, t \in Trees, tool \in Tools :
                        ToldAccess(n.document, c, t, tool) <=>
                          /\ ScopeOf(Q, n.caller) = Global \/ t \in ScopeOf(Q, n.caller)
                          /\ MayTool(Q, c.user, c.groups, t, tool)
    BY DEF ToldOf
  <2> QED  BY <1>1, <1>2 DEF ToldOf
<1>7. Exact(n)
  BY <1>1, <1>2 DEF Exact
<1>8. Informed(n, P) /\ Recorded(n, props)
  BY <1>2 DEF Informed, Recorded
<1>9. Owned(n)
  BY <1>1, <1>2 DEF Owned, Tells
<1> QED  BY <1>2, <1>3, <1>4, <1>5, <1>6, <1>7, <1>8, <1>9 DEF Sound, n

(* All threads are fine with respect to a policy and a store. *)
AllSound(threads, P, props) ==
  /\ threads \in [Handlers -> Thread]
  /\ \A h \in Handlers : Sound(threads[h]) /\ Informed(threads[h], P) /\ Recorded(threads[h], props)

LEMMA ReplacedSound ==
  ASSUME IInv, NEW P \in SUBSET AllLines
  PROVE  AllSound(Replaced(P), P, proposals)
<1> SUFFICES ASSUME NEW h \in Handlers
             PROVE  /\ Replaced(P)[h] \in Thread /\ Sound(Replaced(P)[h])
                    /\ Informed(Replaced(P)[h], P) /\ Recorded(Replaced(P)[h], proposals)
  BY DEF AllSound, Replaced
<1>1. Sound(request[h]) /\ Recorded(request[h], proposals)
  BY DEF IInv
<1>2. CASE request[h].pc \in Resting
  BY <1>1, <1>2 DEF Replaced, Informed, Sound
<1>3. CASE request[h].pc \notin Resting
  <2>1. Replaced(P)[h] = LaterThread(request[h], P)
    BY <1>3 DEF Replaced, LaterThread
  <2> QED  BY <1>1, <2>1, LaterSound DEF Sound
<1> QED  BY <1>2, <1>3

(* Proposals are only added, and keep their scope. *)
KeptProposals(props, next) ==
  \A id \in Ids : props[id] # NoProposal => next[id] # NoProposal /\ next[id].scope = props[id].scope

LEMMA StillRecorded ==
  ASSUME NEW r, Sound(r), NEW props, NEW next, KeptProposals(props, next), Recorded(r, props)
  PROVE  Recorded(r, next)
<1>1. r.status # 0 => r.arg \in Arguments(r.op)
  BY DEF Sound, Begun
<1>2. r.op = "create" /\ r.status = 201 => r.arg.id \in Ids
  BY <1>1 DEF Arguments
<1>3. r.op = "approve" /\ r.status = 200 => r.arg \in Ids
  BY <1>1 DEF Arguments
<1> QED  BY <1>2, <1>3 DEF Recorded, KeptProposals

(* One thread moves on. *)
LEMMA ThreadStep ==
  ASSUME NEW threads, AllSound(threads, active', proposals),
         NEW h \in Handlers, NEW n, request' = [threads EXCEPT ![h] = n],
         Sound(n), Informed(n, active'), Recorded(n, proposals'),
         active' \in SUBSET AllLines, Stored(proposals'), KeptProposals(proposals, proposals')
  PROVE  IInv'
<1> SUFFICES ASSUME NEW k \in Handlers
             PROVE  /\ request'[k] \in Thread /\ Sound(request'[k])
                    /\ Informed(request'[k], active') /\ Recorded(request'[k], proposals')
  BY DEF IInv, AllSound
<1>1. CASE k = h
  BY <1>1 DEF AllSound, Sound
<1>2. CASE k # h
  BY <1>2, StillRecorded DEF AllSound
<1> QED  BY <1>1, <1>2

LEMMA OneThread ==
  ASSUME IInv, NEW h \in Handlers, NEW n, Set(h, n), UNCHANGED <<active, proposals>>,
         Sound(n), Informed(n, active), Recorded(n, proposals)
  PROVE  IInv'
<1>1. AllSound(request, active', proposals) /\ Stored(proposals') /\ active' \in SUBSET AllLines
  BY DEF IInv, AllSound
<1>2. KeptProposals(proposals, proposals')
  BY DEF KeptProposals
<1> QED  BY <1>1, <1>2, ThreadStep DEF Set

LEMMA OverwriteStep ==
  ASSUME IInv, NEW P \in SUBSET AllLines, Overwrite(P)  PROVE IInv'
BY ReplacedSound DEF Overwrite, IInv, AllSound

-----------------------------------------------------------------------------
(* What policies and their restrictions name. *)

LEMMA LineTypes ==
  ASSUME NEW P \in SUBSET AllLines, NEW l \in P
  PROVE  /\ l.kind = "tree" => l.name \in Trees
         /\ l.kind \in {"grant", "role", "workspace"} => l.list \subseteq Trees
         /\ l.kind \in {"member", "group", "tenant-admin"} => l.list \subseteq Names
         /\ l \in [kind : LineKinds, name : Names \cup Trees, at : Names \cup Trees \cup {Nowhere},
                   list : SUBSET (Names \cup Trees \cup Tools)]
BY FourEyesAssumption DEF WellFormed

LEMMA ListedTypes ==
  ASSUME NEW P \in SUBSET AllLines, NEW name
  PROVE  /\ GrantsOf(P, name) \subseteq Trees /\ TreesOfRole(P, name) \subseteq Trees
         /\ TreesOfWorkspace(P, name) \subseteq Trees
         /\ Listed(P, "tenant-admin", name) \subseteq Names
         /\ Declared(P, "tree") \subseteq Trees
<1>1. ASSUME NEW kind \in {"grant", "role", "workspace"}  PROVE Listed(P, kind, name) \subseteq Trees
  <2> SUFFICES ASSUME NEW x \in Listed(P, kind, name)  PROVE x \in Trees
    OBVIOUS
  <2>1. PICK l \in P : l.kind = kind /\ x \in l.list
    BY ListedDef
  <2> QED  BY <2>1, LineTypes
<1>2. Listed(P, "tenant-admin", name) \subseteq Names
  <2> SUFFICES ASSUME NEW x \in Listed(P, "tenant-admin", name)  PROVE x \in Names
    OBVIOUS
  <2>1. PICK l \in P : l.kind = "tenant-admin" /\ x \in l.list
    BY ListedDef
  <2> QED  BY <2>1, LineTypes
<1>3. Declared(P, "tree") \subseteq Trees
  BY LineTypes DEF Declared, OfKind
<1> QED  BY <1>1, <1>2, <1>3 DEF GrantsOf, TreesOfRole, TreesOfWorkspace

LEMMA ReachableTrees ==
  ASSUME NEW P \in SUBSET AllLines, NEW c, NEW t, May(P, c.user, c.groups, t)
  PROVE  t \in Trees
BY ListedTypes DEF May

(* A restriction declares what it keeps. *)
LEMMA RestrictedDeclared ==
  ASSUME NEW P \in SUBSET AllLines, NEW S, NEW kind, NEW name
  PROVE  name \in Declared(RestrictedTo(P, S), kind)
           <=> \E m \in P : m.kind = kind /\ m.name = name /\ Kept(m, P, S)
<1> DEFINE cut(m) == [m EXCEPT !.list = RestrictedList(m, P, S)]
<1>1. \A n : n \in RestrictedTo(P, S) <=> \E m \in P : Kept(m, P, S) /\ n = cut(m)
  BY DEF RestrictedTo
<1>2. \A m \in P : cut(m).kind = m.kind /\ cut(m).name = m.name
  BY LineTypes
<1>3. name \in Declared(RestrictedTo(P, S), kind)
        <=> \E n \in RestrictedTo(P, S) : n.kind = kind /\ n.name = name
  BY DEF Declared, OfKind
<1> HIDE DEF cut
<1> QED  BY <1>1, <1>2, <1>3

LEMMA RestrictedWorkspaces ==
  ASSUME NEW P \in SUBSET AllLines, NEW S, NEW w
  PROVE  /\ w \in Declared(RestrictedTo(P, S), "workspace")
              <=> TreesOfWorkspace(P, w) # {} /\ TreesOfWorkspace(P, w) \subseteq S
         /\ w \in Declared(RestrictedTo(P, S), "workspace") =>
              TreesOfWorkspace(RestrictedTo(P, S), w) = TreesOfWorkspace(P, w)
<1>1. \A m \in P : m.kind = "workspace" /\ m.name = w =>
        /\ Kept(m, P, S) <=> TreesOfWorkspace(P, w) # {} /\ TreesOfWorkspace(P, w) \subseteq S
        /\ RestrictedList(m, P, S) = m.list
  BY DEF Kept, RestrictedList
<1>2. TreesOfWorkspace(P, w) # {} => \E m \in P : m.kind = "workspace" /\ m.name = w
  BY ListedDef DEF TreesOfWorkspace
<1>3. w \in Declared(RestrictedTo(P, S), "workspace")
        <=> TreesOfWorkspace(P, w) # {} /\ TreesOfWorkspace(P, w) \subseteq S
  BY <1>1, <1>2, RestrictedDeclared
<1>4. ASSUME w \in Declared(RestrictedTo(P, S), "workspace"), NEW t
      PROVE  t \in TreesOfWorkspace(RestrictedTo(P, S), w) <=> t \in TreesOfWorkspace(P, w)
  <2>1. t \in Listed(RestrictedTo(P, S), "workspace", w)
          <=> \E m \in P : m.kind = "workspace" /\ m.name = w /\ t \in m.list
    <3>1. t \in Listed(RestrictedTo(P, S), "workspace", w)
            <=> \E m \in P : /\ m.kind = "workspace" /\ m.name = w
                             /\ Kept(m, P, S) /\ t \in RestrictedList(m, P, S)
      BY RestrictedLines
    <3> QED  BY <3>1, <1>1, <1>3, <1>4
  <2> QED  BY <2>1, ListedDef DEF TreesOfWorkspace
<1> QED  BY <1>3, <1>4

-----------------------------------------------------------------------------
(* The answers from one read of the policy. *)

(* For a caller, a policy lists the trees and workspaces it would list     *)
(* without the trees they may not reach (main.rs, /trees and /workspaces). *)
THEOREM ListsWithout ==
  ASSUME NEW P \in SUBSET AllLines, NEW c
  PROVE  /\ ListedTrees(P, c) = ListedTrees(RestrictedTo(P, Reach(P, c)), c)
         /\ ListedWorkspaces(P, c) = ListedWorkspaces(RestrictedTo(P, Reach(P, c)), c)
<1> DEFINE S == Reach(P, c)
           R == RestrictedTo(P, S)
<1>1. \A t : t \in S <=> May(P, c.user, c.groups, t)
  BY ReachableTrees DEF Reach
<1>2. \A t : May(R, c.user, c.groups, t) <=> t \in S
  BY <1>1, RestrictedAnswers
<1>3. \A t : t \in Declared(R, "tree") <=> t \in Declared(P, "tree") /\ t \in S
  <2>1. \A m \in P : m.kind = "tree" => (Kept(m, P, S) <=> m.name \in S)
    BY DEF Kept
  <2> HIDE DEF S
  <2>2. \A t : t \in Declared(P, "tree") <=> \E m \in P : m.kind = "tree" /\ m.name = t
    BY DEF Declared, OfKind
  <2> QED  BY <2>1, <2>2, RestrictedDeclared
<1>4. ListedTrees(P, c) = ListedTrees(R, c)
  BY <1>1, <1>2, <1>3 DEF ListedTrees
<1>5. \A w : w \in Declared(R, "workspace") <=> TreesOfWorkspace(P, w) # {} /\ TreesOfWorkspace(P, w) \subseteq S
  BY RestrictedWorkspaces
<1>6. \A w \in Declared(R, "workspace") : TreesOfWorkspace(R, w) = TreesOfWorkspace(P, w)
  BY RestrictedWorkspaces
<1>7. \A w : TreesOfWorkspace(P, w) # {} => w \in Declared(P, "workspace")
  BY ListedDef DEF TreesOfWorkspace, Declared, OfKind
<1> HIDE DEF R, S
<1>8. \A w : w \in VisibleWorkspaces(P, c.user, c.groups) <=> w \in Declared(R, "workspace")
  BY <1>1, <1>5, <1>7 DEF VisibleWorkspaces
<1>9. \A w : w \in VisibleWorkspaces(R, c.user, c.groups) <=> w \in Declared(R, "workspace")
  BY <1>2, <1>5, <1>6 DEF VisibleWorkspaces
<1>10. VisibleWorkspaces(P, c.user, c.groups) = VisibleWorkspaces(R, c.user, c.groups)
  BY <1>8, <1>9
<1>11. ListedWorkspaces(P, c) = ListedWorkspaces(R, c)
  BY <1>6, <1>8, <1>10 DEF ListedWorkspaces
<1> QED  BY <1>4, <1>11 DEF R, S

(* An access review of a policy tells the answers of the policy: the       *)
(* grants, roles and tools it lists are those `may_tool` looks up.         *)
THEOREM ReviewTells ==
  ASSUME NEW Q, NEW c, NEW t, NEW tool \in Tools
  PROVE  ToldAccess(AccessReview(Q), c, t, tool) <=> MayTool(Q, c.user, c.groups, t, tool)
<1> DEFINE doc == AccessReview(Q)
<1>1. /\ DOMAIN doc.grants = Declared(Q, "grant")
      /\ \A u \in Declared(Q, "grant") : doc.grants[u] = GrantsOf(Q, u)
      /\ DOMAIN doc.roles = Declared(Q, "role")
  BY DEF AccessReview
<1>2. ASSUME NEW r \in Declared(Q, "role")
      PROVE  /\ doc.roles[r].members = {u \in Declared(Q, "member") : r \in Listed(Q, "member", u)}
             /\ doc.roles[r].groups = {g \in Declared(Q, "group") : r \in Listed(Q, "group", g)}
             /\ DOMAIN doc.roles[r].tools = TreesOfRole(Q, r)
             /\ \A s \in TreesOfRole(Q, r) : doc.roles[r].tools[s] = ToolsOn(Q, r, s)
  BY DEF AccessReview
<1> HIDE DEF doc
<1>3. \A kind, name, x : x \in Listed(Q, kind, name) => name \in Declared(Q, kind)
  BY ListedDef DEF Declared, OfKind
<1>4. ASSUME NEW r  PROVE tool \in ToolsOn(Q, r, t) <=> RoleAllowsTool(Q, r, t, tool)
  BY DEF ToolsOn, RoleAllowsTool
<1>5. c.user \in DOMAIN doc.grants /\ t \in doc.grants[c.user] <=> t \in GrantsOf(Q, c.user)
  BY <1>1, <1>3 DEF GrantsOf
<1>6. ASSUME NEW r \in Declared(Q, "role")
      PROVE  (/\ c.user \in doc.roles[r].members \/ c.groups \cap doc.roles[r].groups # {}
              /\ t \in DOMAIN doc.roles[r].tools /\ tool \in doc.roles[r].tools[t])
               <=> r \in RolesFor(Q, c.user, c.groups) /\ t \in TreesOfRole(Q, r) /\ RoleAllowsTool(Q, r, t, tool)
  <2>1. c.user \in doc.roles[r].members <=> r \in Listed(Q, "member", c.user)
    BY <1>2, <1>3
  <2>2. c.groups \cap doc.roles[r].groups # {} <=> \E g \in c.groups : r \in Listed(Q, "group", g)
    BY <1>2, <1>3
  <2>3. r \in RolesFor(Q, c.user, c.groups)
          <=> r \in Listed(Q, "member", c.user) \/ \E g \in c.groups : r \in Listed(Q, "group", g)
    BY DEF RolesFor
  <2> QED  BY <2>1, <2>2, <2>3, <1>2, <1>4
<1>7. \A r : t \in TreesOfRole(Q, r) => r \in Declared(Q, "role")
  BY <1>3 DEF TreesOfRole
<1> QED  BY <1>1, <1>5, <1>6, <1>7 DEF ToldAccess, MayTool, doc

LEMMA ReviewTypes ==
  ASSUME NEW P \in SUBSET AllLines, NEW S,
         NEW Q, Q = P \/ Q = RestrictedTo(P, S)
  PROVE  TreesOfReview(AccessReview(Q)) \in TreeSets
<1>1. Declared(Q, "tree") \subseteq Trees
  <2>1. ASSUME NEW t \in Declared(RestrictedTo(P, S), "tree")  PROVE t \in Declared(P, "tree")
    <3>1. PICK m \in P : m.kind = "tree" /\ m.name = t
      BY RestrictedDeclared
    <3> QED  BY <3>1 DEF Declared, OfKind
  <2> QED  BY <2>1, ListedTypes
<1>2. ASSUME NEW u  PROVE GrantsOf(Q, u) \subseteq Trees /\ TreesOfRole(Q, u) \subseteq Trees
  <2>1. GrantsOf(RestrictedTo(P, S), u) \subseteq GrantsOf(P, u)
    BY RestrictedTrees DEF GrantsOf
  <2>2. TreesOfRole(RestrictedTo(P, S), u) \subseteq TreesOfRole(P, u)
    BY RestrictedTrees DEF TreesOfRole
  <2> QED  BY <2>1, <2>2, ListedTypes
<1> DEFINE doc == AccessReview(Q)
<1>3. /\ doc.trees = Declared(Q, "tree")
      /\ \A u \in DOMAIN doc.grants : doc.grants[u] = GrantsOf(Q, u)
      /\ \A r \in DOMAIN doc.roles : DOMAIN doc.roles[r].tools = TreesOfRole(Q, r)
  BY DEF AccessReview
<1> HIDE DEF doc
<1>4. TreesOfReview(doc) \subseteq Trees
  BY <1>1, <1>2, <1>3 DEF TreesOfReview
<1> QED  BY <1>4 DEF TreeSets, doc

LEMMA ReviewWithin ==
  ASSUME NEW P \in SUBSET AllLines, NEW S
  PROVE  TreesOfReview(AccessReview(RestrictedTo(P, S))) \subseteq S
<1> DEFINE Q == RestrictedTo(P, S)
           doc == AccessReview(Q)
<1>1. Declared(Q, "tree") \subseteq S
  <2>1. ASSUME NEW t \in Declared(Q, "tree")  PROVE t \in S
    <3>1. PICK m \in P : m.kind = "tree" /\ m.name = t /\ Kept(m, P, S)
      BY RestrictedDeclared
    <3> QED  BY <3>1 DEF Kept
  <2> QED  BY <2>1
<1>2. ASSUME NEW u  PROVE GrantsOf(Q, u) \subseteq S /\ TreesOfRole(Q, u) \subseteq S
  BY RestrictedTrees DEF GrantsOf, TreesOfRole
<1>3. /\ doc.trees = Declared(Q, "tree")
      /\ \A u \in DOMAIN doc.grants : doc.grants[u] = GrantsOf(Q, u)
      /\ \A r \in DOMAIN doc.roles : DOMAIN doc.roles[r].tools = TreesOfRole(Q, r)
  BY DEF AccessReview
<1> HIDE DEF doc, Q
<1>4. TreesOfReview(doc) \subseteq S
  BY <1>1, <1>2, <1>3 DEF TreesOfReview
<1> QED  BY <1>4 DEF doc, Q

-----------------------------------------------------------------------------
(* Cross-repository calls. *)

(* A request reaches a route iff a router would hand it over. *)
LEMMA ReachesIsServes ==
  ASSUME NEW q \in Requests, NEW r \in Routes
  PROVE  Reaches(q, r) <=> Serves(r, q.verb, Path(q))
<1>1. q.segments \in Seq(STRING) /\ r.segments \in Seq(STRING)
  BY CrossRepoAssumption
<1>2. Len(Path(q)) = Len(q.segments) /\ DOMAIN Path(q) = DOMAIN q.segments
  <2>1. DOMAIN Path(q) = 1 .. Len(q.segments)
    BY <1>1 DEF Path
  <2>2. Path(q) \in [1 .. Len(q.segments) -> STRING \cup {Unspelt}]
    BY <1>1 DEF Path
  <2>3. Path(q) \in Seq(STRING \cup {Unspelt})
    BY <1>1, <2>2
  <2> QED  BY <1>1, <2>1, <2>3
<1>3. DOMAIN q.segments = DOMAIN r.segments <=> Len(Path(q)) = Len(r.segments)
  BY <1>1, <1>2
<1>4. SameVerb(q, r) <=> ("ANY" \in {q.verb, r.verb} \/ q.verb = r.verb)
  BY DEF SameVerb
<1>5. ASSUME DOMAIN q.segments = DOMAIN r.segments, NEW i \in DOMAIN r.segments
      PROVE  r.segments[i] = "*" \/ (q.segments[i] # "*" /\ q.segments[i] = r.segments[i])
               <=> r.segments[i] \in {"*", Path(q)[i]}
  BY <1>5, CrossRepoAssumption DEF Path
<1>6. DOMAIN r.segments = 1 .. Len(r.segments)
  BY <1>1
<1> QED  BY <1>3, <1>4, <1>5, <1>6 DEF Reaches, Serves

(* The join finds exactly the requests that the routers of the other trees *)
(* would hand to what changed (crossrepo.rs, `callers_of_changes`).        *)
THEOREM CallersExact ==
  ASSUME NEW told, NEW changed
  PROVE  {<<l[1], l[2].tree, l[2].handler>> : l \in CallersOfChanges(Links(told), changed)}
           = UNION {{<<q, c[1], c[2]>> : q \in CallersOf(c[1], c[2], told)}
                      : c \in {d \in changed : d = <<d[1], d[2]>>}}
<1>1. ASSUME NEW q \in Requests  PROVE Best(ReachedRoutes(q, told)) = DispatchedTo(q, told)
  <2>1. ReachedRoutes(q, told) = {r \in Routes : r.tree \in told /\ r.tree # q.tree /\ Serves(r, q.verb, Path(q))}
    BY ReachesIsServes DEF ReachedRoutes
  <2> QED  BY <2>1 DEF DispatchedTo
<1>2. ASSUME NEW q \in Requests  PROVE q.segments # <<>> <=> Len(q.segments) > 0
  BY CrossRepoAssumption
<1>3. ASSUME NEW q, NEW r
      PROVE  <<q, r>> \in Links(told)
               <=> /\ q \in Requests /\ r \in Routes
                   /\ q.tree \in told /\ Len(q.segments) > 0 /\ r \in DispatchedTo(q, told)
  BY <1>1, <1>2 DEF Links
<1>4. \A l \in Links(told) : l = <<l[1], l[2]>> /\ l[1] \in Requests /\ l[2] \in Routes
  BY DEF Links
<1>5. \A q, r : q \in Requests => (r \in DispatchedTo(q, told) => r \in Routes)
  BY DEF DispatchedTo, Best
<1> DEFINE left == {<<l[1], l[2].tree, l[2].handler>> : l \in CallersOfChanges(Links(told), changed)}
           right == UNION {{<<q, c[1], c[2]>> : q \in CallersOf(c[1], c[2], told)}
                      : c \in {d \in changed : d = <<d[1], d[2]>>}}
<1>6. ASSUME NEW x \in left  PROVE x \in right
  <2>1. PICK l \in Links(told) : <<l[2].tree, l[2].handler>> \in changed /\ x = <<l[1], l[2].tree, l[2].handler>>
    BY <1>6 DEF CallersOfChanges
  <2>2. l[1] \in CallersOf(l[2].tree, l[2].handler, told)
    BY <1>3, <1>4 DEF CallersOf
  <2> DEFINE c == <<l[2].tree, l[2].handler>>
  <2>3. c \in {d \in changed : d = <<d[1], d[2]>>} /\ x = <<l[1], c[1], c[2]>>
    BY <2>1
  <2>4. l[1] \in CallersOf(c[1], c[2], told)
    BY <2>2
  <2> QED  BY <2>3, <2>4
<1>7. ASSUME NEW x \in right  PROVE x \in left
  <2>1. PICK c \in changed : /\ c = <<c[1], c[2]>>
                             /\ x \in {<<q, c[1], c[2]>> : q \in CallersOf(c[1], c[2], told)}
    OBVIOUS
  <2>2. PICK q \in CallersOf(c[1], c[2], told) : x = <<q, c[1], c[2]>>
    BY <2>1
  <2>3. PICK r \in DispatchedTo(q, told) : r.tree = c[1] /\ r.handler = c[2]
    BY DEF CallersOf
  <2>4. <<q, r>> \in Links(told)
    BY <1>3, <1>5, <2>3 DEF CallersOf
  <2>5. <<q, r>> \in CallersOfChanges(Links(told), changed)
    BY <2>1, <2>3, <2>4 DEF CallersOfChanges
  <2> QED  BY <2>2, <2>3, <2>5
<1> QED  BY <1>6, <1>7

-----------------------------------------------------------------------------
(* Answers that are no review. *)

LEMMA Working ==
  ASSUME IInv, NEW h \in Handlers, request[h].pc \notin Resting
  PROVE  /\ request[h] \in Thread /\ Sound(request[h])
         /\ request[h].op \in Operations /\ request[h].arg \in Arguments(request[h].op)
         /\ request[h].op # "provider" => request[h].caller \in Callers
         /\ request[h].since # {} /\ active \in request[h].since /\ active \in SUBSET AllLines
         /\ request[h].status = 0 /\ request[h].callers = {}
         /\ \E P \in request[h].since : Allowed(request[h], P, request[h].told)
BY DEF IInv, Sound, Begun, Informed, Resting

(* What no property asks about. *)
Unremarkable(op, s) ==
  /\ op = "access-review" => s # 200
  /\ op = "create" => s # 201
  /\ op = "approve" => s # 200

LEMMA AnswerSound ==
  ASSUME IInv, NEW h \in Handlers, request[h].pc \notin Resting,
         NEW s \in Statuses, NEW t \in TreeSets,
         Unremarkable(request[h].op, s), Tells(request[h], t),
         \E P \in request[h].since : Allowed(request[h], P, t),
         request[h].op = "impact" => request[h].heard # t \/ t = {},
         NEW n, n = Answered(request[h], s, t)
  PROVE  Sound(n) /\ (\A P : Informed(n, P)) /\ \A props : Recorded(n, props)
<1> DEFINE r == request[h]
<1>1. /\ r \in Thread /\ Sound(r) /\ r.op \in Operations /\ r.arg \in Arguments(r.op)
      /\ r.op # "provider" => r.caller \in Callers
      /\ r.callers = {}
  BY Working
<1>2. n \in Thread
  BY <1>1, AnsweredType
<1>3. /\ n.pc = "answered" /\ n.status = s /\ n.told = t /\ n.rights = {} /\ n.todo = {}
      /\ n.draft = NoProposal /\ n.op = r.op /\ n.caller = r.caller /\ n.arg = r.arg /\ n.since = r.since
      /\ n.changed = r.changed /\ n.heard = r.heard /\ n.callers = r.callers /\ n.document = r.document
  BY <1>1, AnsweredFields
<1>4. Begun(n)
  BY <1>1, <1>3 DEF Begun, Allowed, Resting
<1>5. Scoped(n) /\ Confined(n)
  BY <1>3 DEF Scoped, Confined
<1>6. ToldOf(n)
  BY <1>3 DEF ToldOf, Unremarkable
<1>7. Exact(n)
  <2> SUFFICES ASSUME n.op = "impact", n.heard = n.told
               PROVE  {<<l[1], l[2].tree, l[2].handler>> : l \in n.callers}
                        = UNION {{<<q, c[1], c[2]>> : q \in CallersOf(c[1], c[2], n.told)} : c \in n.changed}
    BY DEF Exact
  <2>1. n.told = {} /\ n.callers = {}
    BY <1>1, <1>3
  <2>2. \A c : CallersOf(c[1], c[2], {}) = {}
    BY DEF CallersOf
  <2> QED  BY <2>1, <2>2
<1>8. \A P : Informed(n, P)
  BY <1>3 DEF Informed, Resting
<1>9. \A props : Recorded(n, props)
  BY <1>3 DEF Recorded, Unremarkable
<1>10. Owned(n)
  BY <1>3 DEF Owned, Tells
<1> QED  BY <1>2, <1>4, <1>5, <1>6, <1>7, <1>8, <1>9, <1>10 DEF Sound

LEMMA PlainAnswer ==
  ASSUME IInv, NEW h \in Handlers, request[h].pc \notin Resting,
         request[h].op \notin {"impact", "provider"},
         NEW s \in Statuses, NEW t \in TreeSets, Unremarkable(request[h].op, s),
         Tells(request[h], t), Set(h, Answered(request[h], s, t)), UNCHANGED <<active, proposals>>
  PROVE  IInv'
<1>1. \E P \in request[h].since : Allowed(request[h], P, t)
  BY Working DEF Allowed
<1> QED  BY <1>1, AnswerSound, OneThread

LEMMA ListTreesStep ==
  ASSUME IInv, NEW h \in Handlers, ListTrees(h)  PROVE IInv'
<1>1. ListedTrees(active, request[h].caller) \in TreeSets
  BY ListedTypes DEF IInv, ListedTrees, TreeSets
<1>2. request[h].pc \notin Resting
  BY DEF ListTrees, Looks, Resting
<1>3. Tells(request[h], ListedTrees(active, request[h].caller))
  BY <1>1, <1>2, Working DEF Tells, ListTrees, Looks, ListedTrees, Reach, TreeSets
<1> QED  BY <1>1, <1>2, <1>3, PlainAnswer DEF ListTrees, Looks, Statuses, Unremarkable

LEMMA ListWorkspacesStep ==
  ASSUME IInv, NEW h \in Handlers, ListWorkspaces(h)  PROVE IInv'
<1>1. UNION {w[2] : w \in ListedWorkspaces(active, request[h].caller)} \in TreeSets
  BY ListedTypes DEF IInv, ListedWorkspaces, TreeSets
<1>2. request[h].pc \notin Resting
  BY DEF ListWorkspaces, Looks, Resting
<1> DEFINE t == UNION {w[2] : w \in ListedWorkspaces(active, request[h].caller)}
<1>3. t \subseteq Reach(active, request[h].caller)
  BY <1>1 DEF ListedWorkspaces, VisibleWorkspaces, Reach, TreeSets
<1>4. Tells(request[h], t)
  <2> HIDE DEF t
  <2> QED  BY <1>2, <1>3, Working DEF Tells, ListWorkspaces, Looks
<1> QED  BY <1>1, <1>2, <1>4, PlainAnswer DEF ListWorkspaces, Looks, Statuses, Unremarkable

LEMMA ShowOperationsStep ==
  ASSUME IInv, NEW h \in Handlers, ShowOperations(h)  PROVE IInv'
<1>1. Trees \in TreeSets /\ {} \in TreeSets
  BY DEF TreeSets
<1>2. request[h].pc \notin Resting
  BY DEF ShowOperations, Looks, Resting
<1>3. /\ Tells(request[h], {})
      /\ IsAdmin(active, request[h].caller.user, request[h].caller.groups) => Tells(request[h], Trees)
  BY <1>2, Working DEF Tells, ScopeOf, AdminScope, ShowOperations, Looks
<1> QED  BY <1>1, <1>2, <1>3, PlainAnswer DEF ShowOperations, Looks, Statuses, Unremarkable

-----------------------------------------------------------------------------
(* Answers with a document. *)

WithDocument(n, d) == [n EXCEPT !.document = d]

LEMMA DocumentFields ==
  ASSUME NEW n \in Thread, NEW d \in Documents, NEW m, m = WithDocument(n, d)
  PROVE  /\ m \in Thread /\ m.document = d
         /\ m.pc = n.pc /\ m.status = n.status /\ m.told = n.told /\ m.rights = n.rights
         /\ m.todo = n.todo /\ m.draft = n.draft /\ m.op = n.op /\ m.caller = n.caller
         /\ m.arg = n.arg /\ m.since = n.since /\ m.changed = n.changed /\ m.heard = n.heard
         /\ m.callers = n.callers /\ m.scope = n.scope
BY DEF Thread, WithDocument

(* The facts of an answer with a document, apart from those about it. *)
LEMMA DocumentSound ==
  ASSUME IInv, NEW h \in Handlers, request[h].pc = "look",
         request[h].op \in {"session", "access-review"},
         NEW t \in TreeSets, NEW d \in Documents,
         NEW n, n = WithDocument(Answered(request[h], 200, t), d),
         ToldOf(n), Tells(request[h], t), Set(h, n), UNCHANGED <<active, proposals>>
  PROVE  IInv'
<1> DEFINE r == request[h]
<1>1. /\ r \in Thread /\ Sound(r) /\ r.op \in Operations /\ r.arg \in Arguments(r.op)
      /\ r.caller \in Callers /\ r.callers = {} /\ r.since # {}
  BY Working DEF Resting
<1>2. /\ Answered(r, 200, t) \in Thread
      /\ Answered(r, 200, t).pc = "answered" /\ Answered(r, 200, t).status = 200 /\ Answered(r, 200, t).told = t
      /\ Answered(r, 200, t).rights = {} /\ Answered(r, 200, t).todo = {}
      /\ Answered(r, 200, t).draft = NoProposal /\ Answered(r, 200, t).op = r.op
      /\ Answered(r, 200, t).caller = r.caller /\ Answered(r, 200, t).arg = r.arg
      /\ Answered(r, 200, t).since = r.since
  <2>1. 200 \in Statuses
    BY DEF Statuses
  <2> HIDE DEF r
  <2> QED  BY <1>1, <2>1, AnsweredType, AnsweredFields
<1>3. /\ n \in Thread /\ n.pc = "answered" /\ n.status = 200 /\ n.told = t
      /\ n.rights = {} /\ n.todo = {} /\ n.draft = NoProposal
      /\ n.op = r.op /\ n.caller = r.caller /\ n.arg = r.arg /\ n.since = r.since
  BY <1>2, DocumentFields
<1>4. Begun(n)
  BY <1>1, <1>3 DEF Begun, Allowed, Resting
<1>5. Scoped(n) /\ Confined(n) /\ Exact(n) /\ Owned(n)
  BY <1>3 DEF Scoped, Confined, Exact, Owned, Tells
<1>6. Informed(n, active) /\ Recorded(n, proposals)
  BY <1>3 DEF Informed, Recorded, Resting
<1> QED  BY <1>3, <1>4, <1>5, <1>6, OneThread DEF Sound

LEMMA ShowSessionStep ==
  ASSUME IInv, NEW h \in Handlers, ShowSession(h)  PROVE IInv'
<1> DEFINE r == request[h]
           scope == ScopeOf(active, r.caller)
           d == IF scope \in {Global, {}} THEN scope ELSE Listed(active, "tenant-admin", r.caller.user)
           n == WithDocument(Answered(r, 200, {}), d)
<1>1. d \in Documents
  <2>1. Listed(active, "tenant-admin", r.caller.user) \in SUBSET Names
    BY ListedTypes DEF IInv
  <2> QED  BY <2>1 DEF Documents
<1>2. r \in Thread /\ r.pc = "look" /\ r.op = "session"
  BY DEF ShowSession, Looks, IInv
<1>3. {} \in TreeSets /\ 200 \in Statuses
  BY DEF TreeSets, Statuses
<1>4. Answered(r, 200, {}) \in Thread /\ Answered(r, 200, {}).op = "session"
  BY <1>2, <1>3, AnsweredType, AnsweredFields
<1>5. n.op = "session"
  BY <1>1, <1>4, DocumentFields
<1>6. ToldOf(n)
  BY <1>5 DEF ToldOf
<1>7. Set(h, n) /\ UNCHANGED <<active, proposals>>
  BY DEF ShowSession, WithDocument
<1>8. Tells(r, {})
  BY DEF Tells
<1> QED  BY <1>1, <1>2, <1>3, <1>6, <1>7, <1>8, DocumentSound

LEMMA ReviewAccessStep ==
  ASSUME IInv, NEW h \in Handlers, ReviewAccess(h)  PROVE IInv'
<1> DEFINE r == request[h]
           scope == ScopeOf(active, r.caller)
           Q == IF scope = Global THEN active ELSE RestrictedTo(active, scope)
           doc == AccessReview(Q)
           n == WithDocument(Answered(r, 200, TreesOfReview(doc)), doc)
<1>1. /\ r \in Thread /\ r.pc = "look" /\ r.op = "access-review" /\ active \in SUBSET AllLines
      /\ active \in r.since
  BY Working DEF ReviewAccess, Looks, IInv, Resting
<1>2. CASE scope = {}
  <2>1. Set(h, Answered(r, 404, {})) /\ UNCHANGED <<active, proposals>>
    BY <1>2 DEF ReviewAccess
  <2>2. {} \in TreeSets /\ 404 \in Statuses /\ Unremarkable(r.op, 404) /\ Tells(r, {})
    BY <1>1 DEF TreeSets, Statuses, Unremarkable, Tells
  <2> QED  BY <1>1, <2>1, <2>2, PlainAnswer DEF Resting
<1>3. CASE scope # {}
  <2>1. Set(h, n) /\ UNCHANGED <<active, proposals>>
    BY <1>3 DEF ReviewAccess, WithDocument
  <2>2. scope \in {Global} \cup SUBSET Trees
    BY <1>1, ScopeTyped
  <2>3. doc \in Documents /\ TreesOfReview(doc) \in TreeSets
    BY <1>1, <2>2, ReviewTypes DEF Documents
  <2>4. /\ Answered(r, 200, TreesOfReview(doc)) \in Thread
        /\ Answered(r, 200, TreesOfReview(doc)).since = r.since
        /\ Answered(r, 200, TreesOfReview(doc)).caller = r.caller
    <3>1. 200 \in Statuses
      BY DEF Statuses
    <3> HIDE DEF r, doc
    <3> QED  BY <1>1, <2>3, <3>1, AnsweredType, AnsweredFields
  <2>5. n.document = doc /\ n.since = r.since /\ n.caller = r.caller
    <3> HIDE DEF r, doc
    <3> QED  BY <2>3, <2>4, DocumentFields
  <2>6. ASSUME NEW c, NEW t, NEW tool \in Tools
        PROVE  ToldAccess(doc, c, t, tool)
                 <=> (scope = Global \/ t \in scope) /\ MayTool(active, c.user, c.groups, t, tool)
    <3>1. ToldAccess(doc, c, t, tool) <=> MayTool(Q, c.user, c.groups, t, tool)
      BY ReviewTells
    <3>2. CASE scope = Global
      BY <3>1, <3>2
    <3>3. CASE scope # Global
      BY <3>1, <3>3, <1>1, RestrictedAnswers
    <3> QED  BY <3>2, <3>3
  <2>7. ToldOf(n)
    <3> HIDE DEF n, doc
    <3> QED  BY <1>1, <2>5, <2>6 DEF ToldOf
  <2>8. Tells(r, TreesOfReview(doc))
    <3>1. scope # Global => TreesOfReview(doc) \subseteq scope
      BY <1>1, ReviewWithin
    <3> HIDE DEF doc
    <3> QED  BY <1>1, <3>1 DEF Tells
  <2> QED  BY <1>1, <2>1, <2>3, <2>7, <2>8, DocumentSound
<1> QED  BY <1>2, <1>3

-----------------------------------------------------------------------------
(* Administration. *)

Same(n, r) ==
  /\ n.op = r.op /\ n.caller = r.caller /\ n.arg = r.arg /\ n.since = r.since
  /\ n.status = r.status /\ n.callers = r.callers /\ n.heard = r.heard

LEMMA ActingStep ==
  ASSUME IInv, NEW h \in Handlers, request[h].pc \notin Resting,
         request[h].op \in Administration,
         NEW n \in Thread, Same(n, request[h]), n.pc \in {"act", "show", "store"},
         Scoped(n), n.pc = "show" => n.scope = Global \/ n.told \subseteq n.scope,
         Set(h, n), UNCHANGED <<active, proposals>>
  PROVE  IInv'
<1> DEFINE r == request[h]
<1>1. /\ r.op \in Operations /\ r.arg \in Arguments(r.op) /\ r.caller \in Callers
      /\ active \in r.since /\ r.status = 0 /\ r.callers = {} /\ Begun(r) /\ Confined(r)
  BY Working DEF Administration, Sound
<1>2. r.heard = {}
  BY <1>1 DEF Begun, Confined, Administration, Resting
<1>3. Begun(n)
  BY <1>1, <1>2 DEF Begun, Same, Allowed, Administration, Resting
<1>4. Confined(n) /\ ToldOf(n) /\ Exact(n) /\ Owned(n)
  BY <1>1 DEF Confined, ToldOf, Exact, Owned, Same
<1>5. Informed(n, active) /\ Recorded(n, proposals)
  BY <1>1 DEF Informed, Recorded, Same
<1> QED  BY <1>3, <1>4, <1>5, OneThread DEF Sound

LEMMA RefusalStep ==
  ASSUME IInv, NEW h \in Handlers, request[h].pc \notin Resting,
         request[h].op \in Administration, NEW s \in {400, 404},
         Set(h, Answered(request[h], s, {})), UNCHANGED <<active, proposals>>
  PROVE  IInv'
<1>1. {} \in TreeSets /\ s \in Statuses /\ Unremarkable(request[h].op, s) /\ Tells(request[h], {})
  BY DEF TreeSets, Statuses, Unremarkable, Tells
<1>2. request[h].op \notin {"impact", "provider"}
  BY DEF Administration
<1> QED  BY <1>1, <1>2, PlainAnswer

LEMMA TakeScopeStep ==
  ASSUME IInv, NEW h \in Handlers, TakeScope(h)  PROVE IInv'
<1> DEFINE r == request[h]
           scope == ScopeOf(active, r.caller)
           n == [r EXCEPT !.pc = "act", !.scope = scope]
<1>1. r.pc = "look" /\ r.op \in Administration /\ UNCHANGED <<active, proposals>>
  BY DEF TakeScope, Looks
<1>2. r.pc \notin Resting
  BY <1>1 DEF Resting
<1>3. CASE scope = {}
  <2>1. Set(h, Answered(r, 404, {}))
    BY <1>3 DEF TakeScope
  <2> QED  BY <1>1, <1>2, <2>1, RefusalStep
<1>4. CASE scope # {}
  <2>1. r \in Thread /\ active \in r.since /\ active \in SUBSET AllLines
    BY <1>2, Working
  <2>2. scope \in Scopes /\ "act" \in Points
    BY <2>1, ScopeTyped DEF Scopes, Points
  <2>3. n \in Thread /\ Same(n, r) /\ n.pc = "act" /\ n.scope = scope
    <3> HIDE DEF r, scope
    <3> QED  BY <2>1, <2>2 DEF Thread, Same
  <2>4. Scoped(n)
    <3> HIDE DEF n
    <3> QED  BY <1>1, <2>1, <2>3 DEF Scoped, Same
  <2>5. Set(h, n)
    BY <1>4 DEF TakeScope
  <2> QED  BY <1>1, <1>2, <2>3, <2>4, <2>5, ActingStep
<1> QED  BY <1>3, <1>4

(* A thread that acts has a scope that its caller held. *)
LEMMA Acting ==
  ASSUME IInv, NEW h \in Handlers, request[h].pc \in {"act", "show", "store"}
  PROVE  /\ request[h] \in Thread /\ request[h].pc \notin Resting
         /\ request[h].op \in Administration /\ request[h].arg \in Arguments(request[h].op)
         /\ request[h].caller \in Callers /\ active \in SUBSET AllLines
         /\ request[h].scope \in {Global} \cup SUBSET Trees
         /\ request[h].told \in SUBSET Trees
         /\ \E P \in request[h].since : request[h].scope = ScopeOf(P, request[h].caller)
<1>1. request[h].pc \notin Resting
  BY DEF Resting
<1>2. request[h] \in Thread /\ Scoped(request[h]) /\ active \in SUBSET AllLines
  BY <1>1 DEF IInv, Sound
<1>3. request[h].op \in Administration
  BY <1>2 DEF Scoped
<1> QED  BY <1>1, <1>2, <1>3, Working, ThreadTypes DEF Scoped, Scopes, TreeSets, Administration

LEMMA ShowStep ==
  ASSUME IInv, NEW h \in Handlers, request[h].pc = "act", request[h].op \in {"list", "read"},
         NEW t \in TreeSets, request[h].scope = Global \/ t \subseteq request[h].scope,
         Set(h, [request[h] EXCEPT !.pc = "show", !.told = t]),
         UNCHANGED <<active, proposals>>
  PROVE  IInv'
<1> DEFINE r == request[h]
           n == [r EXCEPT !.pc = "show", !.told = t]
<1>1. r \in Thread /\ r.pc \notin Resting /\ r.op \in Administration
  BY Acting
<1>2. "show" \in Points
  BY DEF Points
<1>3. n \in Thread /\ Same(n, r) /\ n.pc = "show" /\ n.scope = r.scope /\ n.told = t
  <2> HIDE DEF r
  <2> QED  BY <1>1, <1>2 DEF Thread, Same
<1>4. \E P \in r.since : r.scope = ScopeOf(P, r.caller)
  BY Acting
<1>5. Scoped(n)
  <2> HIDE DEF n
  <2> QED  BY <1>1, <1>3, <1>4 DEF Scoped, Same
<1> QED  BY <1>1, <1>3, <1>5, ActingStep

LEMMA ListProposalsStep ==
  ASSUME IInv, NEW h \in Handlers, ListProposals(h)  PROVE IInv'
<1> DEFINE found == {id \in Ids : Within(request[h].scope, id)}
           t == UNION {proposals[id].scope : id \in {i \in found : proposals[i].scope # Global}}
<1>1. request[h].pc = "act" /\ request[h].op = "list"
  BY DEF ListProposals, Acts
<1>2. \A id \in found : /\ proposals[id].scope \in {Global} \cup SUBSET Trees
                        /\ Covers(request[h].scope, proposals[id].scope)
  BY DEF IInv, Stored, Within, ProposalType
<1>3. t \in TreeSets
  <2> HIDE DEF found
  <2> QED  BY <1>2 DEF TreeSets
<1>4. Set(h, [request[h] EXCEPT !.pc = "show", !.told = t]) /\ UNCHANGED <<active, proposals>>
  BY DEF ListProposals
<1>5. request[h].scope = Global \/ t \subseteq request[h].scope
  <2> HIDE DEF found
  <2> QED  BY <1>2 DEF Covers
<1> QED  BY <1>1, <1>3, <1>4, <1>5, ShowStep

(* Of lines inside S a reader learns of trees in S only.                   *)
LEMMA ShownWithin ==
  ASSUME NEW P \in SUBSET AllLines, NEW S, S # Global
  PROVE  TreesIn(ActiveView(P, S), P) \subseteq S
<1> SUFFICES ASSUME NEW l \in P, Inside(l, P, S),
                    NEW t \in Trees, t \in LineTrees(l, P) \cup {l.name, l.at} \cup l.list
             PROVE  t \in S
  BY DEF TreesIn, ActiveView, ScopedText
<1>1. LineTrees(l, P) = Reached(l, P) /\ LineTrees(l, P) # {} /\ LineTrees(l, P) \subseteq S
  BY DEF Inside, LineTrees
<1>2. WellFormed(l)
  BY FourEyesAssumption
<1>3. l.kind \in {"grant", "role", "workspace", "role-tool", "member", "group", "workspace-package"}
  BY <1>1, <1>2 DEF Reached
<1>4. l.name \notin Trees
  BY <1>2, <1>3, ConsoleAssumption DEF WellFormed
<1>5. l.at \in Trees => l.kind = "role-tool" /\ LineTrees(l, P) = {l.at}
  BY <1>1, <1>2, <1>3, ConsoleAssumption, ReachedByKind DEF WellFormed
<1>6. t \in l.list => l.kind \in {"grant", "role", "workspace"} /\ LineTrees(l, P) = l.list
  BY <1>1, <1>2, <1>3, ConsoleAssumption, ReachedByKind DEF WellFormed
<1> QED  BY <1>1, <1>4, <1>5, <1>6

LEMMA TreesInTyped == \A lines, P : TreesIn(lines, P) \in TreeSets
BY DEF TreesIn, TreeSets

LEMMA ReadProposalStep ==
  ASSUME IInv, NEW h \in Handlers, ReadProposal(h)  PROVE IInv'
<1> DEFINE r == request[h]
           text == proposals[r.arg].text
           t == TreesIn(ActiveView(text, r.scope), text)
<1>1. r.pc = "act" /\ r.op = "read" /\ UNCHANGED <<active, proposals>>
  BY DEF ReadProposal, Acts
<1>2. CASE ~Within(r.scope, r.arg)
  BY <1>1, <1>2, RefusalStep, Acting DEF ReadProposal
<1>3. CASE Within(r.scope, r.arg)
  <2>1. Set(h, [r EXCEPT !.pc = "show", !.told = t])
    BY <1>3 DEF ReadProposal
  <2>2. text \in SUBSET AllLines
    <3>1. r.arg \in Ids
      BY <1>1, Acting DEF Arguments
    <3> QED  BY <1>3, <3>1 DEF Within, IInv, Stored, ProposalType
  <2>3. r.scope = Global \/ t \subseteq r.scope
    BY <2>2, ShownWithin
  <2> QED  BY <1>1, <2>1, <2>3, TreesInTyped, ShowStep
<1> QED  BY <1>2, <1>3

LEMMA ShowActiveStep ==
  ASSUME IInv, NEW h \in Handlers, ShowActive(h)  PROVE IInv'
<1> DEFINE r == request[h]
           t == r.told \cup TreesIn(ActiveView(active, r.scope), active)
<1>1. r.pc = "show" /\ UNCHANGED <<active, proposals>> /\ Set(h, Answered(r, 200, t))
  BY DEF ShowActive
<1>2. r.pc \notin Resting /\ r.op \in {"list", "read"} /\ r.told \in SUBSET Trees
  BY <1>1, Acting DEF IInv, Sound, Scoped
<1>3. t \in TreeSets
  BY <1>2, TreesInTyped DEF TreeSets
<1>4. 200 \in Statuses /\ Unremarkable(r.op, 200)
  BY <1>2 DEF Statuses, Unremarkable
<1>5. Tells(r, t)
  <2>1. r.scope = Global \/ r.told \subseteq r.scope
    BY <1>1 DEF IInv, Sound, Owned
  <2>2. r.scope = Global \/ t \subseteq r.scope
    BY <2>1, ShownWithin DEF IInv
  <2>3. PICK P \in r.since : r.scope = ScopeOf(P, r.caller)
    BY <1>1, Acting
  <2> HIDE DEF t
  <2> QED  BY <1>2, <2>2, <2>3 DEF Tells
<1> QED  BY <1>1, <1>2, <1>3, <1>4, <1>5, PlainAnswer

LEMMA ShowTimelineStep ==
  ASSUME IInv, NEW h \in Handlers, ShowTimeline(h)  PROVE IInv'
<1> DEFINE r == request[h]
<1>1. r.pc = "act" /\ r.op = "timeline" /\ UNCHANGED <<active, proposals>>
  BY DEF ShowTimeline, Acts
<1>2. PICK signed \in BOOLEAN :
        Set(h, Answered(r, 200, IF r.scope = Global THEN Trees ELSE IF signed THEN {} ELSE r.scope))
  BY DEF ShowTimeline
<1>3. r.pc \notin Resting /\ r.scope \in {Global} \cup SUBSET Trees
  BY <1>1, Acting
<1>4. (IF r.scope = Global THEN Trees ELSE IF signed THEN {} ELSE r.scope) \in TreeSets
  BY <1>3 DEF TreeSets
<1>5. 200 \in Statuses /\ Unremarkable(r.op, 200) /\ r.op \notin {"impact", "provider"}
  BY <1>1 DEF Statuses, Unremarkable
<1>6. Tells(r, IF r.scope = Global THEN Trees ELSE IF signed THEN {} ELSE r.scope)
  <2>1. PICK P \in r.since : r.scope = ScopeOf(P, r.caller)
    BY <1>1, Acting
  <2> QED  BY <1>1, <2>1 DEF Tells
<1> QED  BY <1>1, <1>2, <1>3, <1>4, <1>5, <1>6, PlainAnswer

LEMMA ComposeEditStep ==
  ASSUME IInv, NEW h \in Handlers, ComposeEdit(h)  PROVE IInv'
<1> DEFINE r == request[h]
           p == NewProposal(active, r.arg.sub, r.scope, r.caller.user)
           n == [r EXCEPT !.pc = "store", !.draft = p]
<1>1. r.pc = "act" /\ r.op = "create" /\ UNCHANGED <<active, proposals>>
  BY DEF ComposeEdit, Acts
<1>2. CASE ~MayPropose(active, r.arg.sub, r.scope)
  BY <1>1, <1>2, RefusalStep, Acting DEF ComposeEdit
<1>3. CASE MayPropose(active, r.arg.sub, r.scope)
  <2>1. /\ r \in Thread /\ r.pc \notin Resting /\ r.op \in Administration
        /\ r.arg \in [id : Ids, sub : Submissions] /\ r.caller \in Callers
        /\ active \in SUBSET AllLines /\ r.scope \in {Global} \cup SUBSET Trees
        /\ \E P \in r.since : r.scope = ScopeOf(P, r.caller)
    BY <1>1, Acting DEF Arguments
  <2>2. ProposedText(active, r.arg.sub, r.scope) \in SUBSET AllLines
    BY <2>1, TextTyped
  <2>3. p \in ProposalType /\ p.scope = r.scope
    BY <2>1, <2>2, FourEyesAssumption DEF NewProposal, ProposalType
  <2>4. ProposalSound(p)
    BY <1>3, NewProposalSound
  <2>5. "store" \in Points /\ p \in Drafts
    BY <2>3 DEF Points, Drafts
  <2>6. n \in Thread /\ Same(n, r) /\ n.pc = "store" /\ n.scope = r.scope /\ n.draft = p
    <3> HIDE DEF r, p
    <3> QED  BY <2>1, <2>5 DEF Thread, Same
  <2>7. Scoped(n)
    <3> HIDE DEF n, p
    <3> QED  BY <1>1, <2>1, <2>3, <2>4, <2>6 DEF Scoped, Same
  <2>8. Set(h, n)
    BY <1>3 DEF ComposeEdit
  <2> QED  BY <1>1, <2>1, <2>6, <2>7, <2>8, ActingStep
<1> QED  BY <1>2, <1>3

(* An answer to what is recorded among the proposals. *)
LEMMA RecordedAnswer ==
  ASSUME IInv, NEW h \in Handlers, request[h].pc \in {"act", "store"},
         request[h].op \in {"create", "approve"}, NEW s \in {200, 201}
  PROVE  LET n == Answered(request[h], s, {})
         IN  /\ Sound(n) /\ \A P : Informed(n, P)
             /\ n.op = request[h].op /\ n.status = s /\ n.arg = request[h].arg
             /\ n.since = request[h].since /\ n.caller = request[h].caller
<1> DEFINE r == request[h]
           n == Answered(r, s, {})
<1>1. r \in Thread /\ r.arg \in Arguments(r.op) /\ r.caller \in Callers /\ r.since # {}
  BY Acting
<1>2. {} \in TreeSets /\ s \in Statuses
  BY DEF TreeSets, Statuses
<1>3. /\ n \in Thread /\ n.pc = "answered" /\ n.status = s /\ n.told = {} /\ n.rights = {} /\ n.todo = {}
      /\ n.draft = NoProposal /\ n.op = r.op /\ n.caller = r.caller /\ n.arg = r.arg /\ n.since = r.since
  <2> HIDE DEF r
  <2> QED  BY <1>1, <1>2, AnsweredType, AnsweredFields
<1> HIDE DEF n
<1>4. Begun(n)
  BY <1>1, <1>3 DEF Begun, Allowed, Operations, Administration, Resting
<1>5. Scoped(n) /\ Confined(n) /\ ToldOf(n) /\ Exact(n) /\ Owned(n)
  BY <1>3 DEF Scoped, Confined, ToldOf, Exact, Owned, Tells
<1>6. \A P : Informed(n, P)
  BY <1>3 DEF Informed, Resting
<1> QED  BY <1>3, <1>4, <1>5, <1>6 DEF Sound, n

LEMMA ThreadsSound == IInv => AllSound(request, active, proposals)
BY DEF IInv, AllSound

LEMMA StoreProposalStep ==
  ASSUME IInv, NEW h \in Handlers, StoreProposal(h)  PROVE IInv'
<1> DEFINE r == request[h]
           n == Answered(r, 201, {})
<1>1. r.pc = "store" /\ active' = active /\ active \in SUBSET AllLines
  BY DEF StoreProposal, IInv
<1>2. /\ r.op = "create" /\ r.draft \in ProposalType /\ r.draft.scope = r.scope /\ ProposalSound(r.draft)
      /\ \E P \in r.since : r.scope = ScopeOf(P, r.caller)
  BY <1>1 DEF IInv, Sound, Scoped
<1>3. r.arg.id \in Ids /\ r.pc \notin Resting /\ r.op \in Administration
  BY <1>1, <1>2, Acting DEF Arguments
<1>4. CASE proposals[r.arg.id] # NoProposal
  BY <1>1, <1>3, <1>4, RefusalStep DEF StoreProposal
<1>5. CASE proposals[r.arg.id] = NoProposal
  <2>1. Set(h, n) /\ proposals' = [proposals EXCEPT ![r.arg.id] = r.draft]
    BY <1>5 DEF StoreProposal
  <2>2. proposals \in [Ids -> ProposalType \cup {NoProposal}]
    BY DEF IInv, Stored
  <2>3. proposals'[r.arg.id] = r.draft /\ r.draft # NoProposal
    BY <1>2, <1>3, <2>1, <2>2, ConsoleAssumption
  <2>4. Stored(proposals')
    <3> HIDE DEF r
    <3> QED  BY <1>2, <1>3, <2>1, <2>2, <2>3 DEF IInv, Stored
  <2>5. KeptProposals(proposals, proposals')
    <3> HIDE DEF r
    <3> QED  BY <1>3, <1>5, <2>1, <2>2 DEF KeptProposals
  <2>6. /\ Sound(n) /\ Informed(n, active')
        /\ n.op = "create" /\ n.arg = r.arg /\ n.since = r.since /\ n.caller = r.caller
    BY <1>1, <1>2, RecordedAnswer
  <2>7. Recorded(n, proposals')
    <3> HIDE DEF n
    <3> QED  BY <1>2, <2>3, <2>6 DEF Recorded
  <2>8. AllSound(request, active', proposals)
    BY <1>1, ThreadsSound
  <2> QED  BY <1>1, <2>1, <2>4, <2>5, <2>6, <2>7, <2>8, ThreadStep DEF Set
<1> QED  BY <1>4, <1>5

LEMMA RejectApprovalStep ==
  ASSUME IInv, NEW h \in Handlers, RejectApproval(h)  PROVE IInv'
BY RefusalStep, Acting DEF RejectApproval, Acts

LEMMA ApproveProposalStep ==
  ASSUME IInv, NEW h \in Handlers, ApproveProposal(h)  PROVE IInv'
<1> DEFINE r == request[h]
           p == proposals[r.arg]
           n == Answered(r, 200, {})
<1>1. r.pc = "act" /\ r.op = "approve" /\ Approvable(h)
  BY DEF ApproveProposal, Acts
<1>2. /\ r.arg \in Ids /\ r.caller \in Callers
      /\ \E P \in r.since : r.scope = ScopeOf(P, r.caller)
  BY <1>1, Acting DEF Arguments
<1>3. /\ proposals \in [Ids -> ProposalType \cup {NoProposal}]
      /\ p \in ProposalType /\ ProposalSound(p) /\ Covers(r.scope, p.scope)
  BY <1>1, <1>2 DEF IInv, Stored, Approvable, MayLoad
<1> DEFINE q == [p EXCEPT !.state = "approved", !.approver = r.caller.user]
<1>4. proposals' = [proposals EXCEPT ![r.arg] = q]
  BY <1>2, <1>3 DEF ApproveProposal, ProposalType
<1>5. /\ q \in ProposalType /\ q.scope = p.scope /\ q.base = p.base /\ q.text = p.text
  <2>1. r.caller.user \in Names
    BY <1>2, FourEyesAssumption
  <2> HIDE DEF r, p
  <2> QED  BY <1>3, <2>1 DEF ProposalType
<1>6. ProposalSound(q)
  <2> HIDE DEF q, p
  <2> QED  BY <1>3, <1>5 DEF ProposalSound, Changes, Shown
<1>7. q # NoProposal
  BY <1>5, ConsoleAssumption
<1>8. Stored(proposals') /\ KeptProposals(proposals, proposals') /\ proposals'[r.arg] = q
  <2>1. proposals'[r.arg] = q /\ \A id \in Ids \ {r.arg} : proposals'[id] = proposals[id]
    <3> HIDE DEF q, r
    <3> QED  BY <1>2, <1>3, <1>4
  <2>2. proposals' \in [Ids -> ProposalType \cup {NoProposal}]
    <3> HIDE DEF q, r
    <3> QED  BY <1>2, <1>3, <1>4, <1>5
  <2>3. Stored(proposals')
    <3> HIDE DEF q, r
    <3> QED  BY <1>6, <2>1, <2>2 DEF Stored, IInv
  <2>4. KeptProposals(proposals, proposals')
    <3> HIDE DEF q
    <3> QED  BY <1>2, <1>5, <1>7, <2>1 DEF KeptProposals
  <2> QED  BY <2>1, <2>3, <2>4
<1>9. active' \in SUBSET AllLines
  BY <1>3 DEF ApproveProposal, ProposalType
<1>10. request' = [Replaced(active') EXCEPT ![h] = n]
  BY DEF ApproveProposal
<1>11. /\ Sound(n) /\ Informed(n, active')
       /\ n.op = "approve" /\ n.arg = r.arg /\ n.since = r.since /\ n.caller = r.caller
  BY <1>1, RecordedAnswer
<1>12. Recorded(n, proposals')
  <2> HIDE DEF n, q
  <2> QED  BY <1>2, <1>3, <1>5, <1>7, <1>8, <1>11 DEF Recorded
<1>13. AllSound(Replaced(active'), active', proposals)
  BY <1>9, ReplacedSound
<1> HIDE DEF n
<1> QED  BY <1>8, <1>9, <1>10, <1>11, <1>12, <1>13, ThreadStep

-----------------------------------------------------------------------------
(* Requests and reviews. *)

LEMMA ArriveStep ==
  ASSUME IInv, NEW h \in Handlers, Arrive(h)  PROVE IInv'
<1>1. PICK op \in Operations, c \in Callers \cup {NoProposal} :
        /\ op = "provider" <=> c = NoProposal
        /\ \E arg \in Arguments(op) : Receive(h, op, c, arg)
        /\ UNCHANGED proposals
  BY DEF Arrive
<1>2. PICK arg \in Arguments(op) : Receive(h, op, c, arg)
  BY <1>1
<1> DEFINE n == [Idle EXCEPT !.pc = "look", !.op = op, !.caller = c, !.arg = arg, !.since = {active}]
<1>3. Set(h, n) /\ UNCHANGED <<active, proposals>> /\ active \in SUBSET AllLines
  BY <1>1, <1>2 DEF Receive, IInv
<1>4. "look" \in Points /\ op \in SomeOp /\ c \in SomeCaller /\ arg \in SomeArgument /\ {active} \in Policies
  BY <1>1, <1>3 DEF Points, SomeOp, SomeCaller, SomeArgument, Policies
<1>5. /\ n \in Thread /\ n.pc = "look" /\ n.op = op /\ n.caller = c /\ n.arg = arg /\ n.since = {active}
      /\ n.told = {} /\ n.changed = {} /\ n.status = 0 /\ n.callers = {} /\ n.heard = {}
  <2>1. Idle.told = {} /\ Idle.changed = {} /\ Idle.status = 0 /\ Idle.callers = {} /\ Idle.heard = {}
    BY DEF Idle
  <2> QED  BY <1>4, <2>1, IdleType DEF Thread
<1> HIDE DEF n
<1>6. Begun(n)
  BY <1>1, <1>2, <1>5 DEF Begun, Allowed, Resting
<1>7. Scoped(n) /\ Confined(n) /\ ToldOf(n) /\ Exact(n) /\ Owned(n)
  BY <1>5 DEF Scoped, Confined, ToldOf, Exact, Owned
<1>8. Informed(n, active) /\ Recorded(n, proposals)
  BY <1>5 DEF Informed, Recorded
<1> QED  BY <1>3, <1>5, <1>6, <1>7, <1>8, OneThread DEF Sound

LEMMA CloseStep ==
  ASSUME IInv, NEW h \in Handlers, Close(h), UNCHANGED proposals  PROVE IInv'
BY IdleSound, OneThread DEF Close

(* A review moves on: what it asked and what it may ask stays allowed. *)
LEMMA ReviewMoves ==
  ASSUME IInv, NEW h \in Handlers, request[h].pc \notin Resting,
         request[h].op \in {"impact", "provider"},
         NEW n \in Thread, n.pc \in {"detect", "surface"},
         n.op = request[h].op, n.caller = request[h].caller, n.arg = request[h].arg,
         n.since = request[h].since, n.status = request[h].status, n.callers = request[h].callers,
         Confined(n), n.pc = "surface" \/ n.heard = {},
         Set(h, n), UNCHANGED <<active, proposals>>
  PROVE  IInv'
<1>1. /\ request[h].op \in Operations /\ request[h].arg \in Arguments(request[h].op)
      /\ request[h].op # "provider" => request[h].caller \in Callers
      /\ active \in request[h].since /\ request[h].status = 0 /\ request[h].callers = {}
  BY Working
<1>2. \E P \in n.since : Allowed(n, P, n.told)
  <2>1. n.rights \in n.since /\ Allowed(n, n.rights, n.told \cup n.todo)
    BY DEF Confined
  <2>2. Allowed(n, n.rights, n.told)
    BY <2>1 DEF Allowed
  <2> QED  BY <2>1, <2>2
<1>3. Begun(n)
  BY <1>1, <1>2 DEF Begun, Resting
<1>4. Scoped(n) /\ ToldOf(n) /\ Exact(n) /\ Owned(n)
  BY DEF Scoped, ToldOf, Exact, Owned
<1>5. Informed(n, active) /\ Recorded(n, proposals)
  BY <1>1 DEF Informed, Recorded
<1> QED  BY <1>3, <1>4, <1>5, OneThread DEF Sound

LEMMA BeginStep ==
  ASSUME IInv, NEW h \in Handlers, NEW w, request[h].pc = "look",
         request[h].op \in {"impact", "provider"},
         Allowed(request[h], active, TreesOfWorkspace(active, w)),
         Begin(h, w), UNCHANGED <<active, proposals>>
  PROVE  IInv'
<1> DEFINE r == request[h]
           n == [r EXCEPT !.pc = "detect", !.rights = active, !.todo = TreesOfWorkspace(active, w)]
<1>1. /\ r \in Thread /\ r.pc \notin Resting /\ active \in r.since /\ active \in SUBSET AllLines
      /\ r.told = {} /\ r.heard = {}
  BY Working DEF Resting, Sound, Begun
<1>2. "detect" \in Points /\ active \in Lines /\ TreesOfWorkspace(active, w) \in TreeSets
  BY <1>1, ListedTypes DEF Points, Lines, TreeSets
<1>3. /\ n \in Thread /\ n.pc = "detect" /\ n.rights = active /\ n.todo = TreesOfWorkspace(active, w)
      /\ n.op = r.op /\ n.caller = r.caller /\ n.arg = r.arg /\ n.since = r.since /\ n.status = r.status
      /\ n.callers = r.callers /\ n.told = r.told /\ n.heard = r.heard
  <2> HIDE DEF r
  <2> QED  BY <1>1, <1>2 DEF Thread
<1>4. Set(h, n)
  BY DEF Begin
<1> HIDE DEF n
<1>5. Confined(n)
  BY <1>1, <1>3 DEF Confined, Allowed
<1> QED  BY <1>1, <1>3, <1>4, <1>5, ReviewMoves

LEMMA IgnoreStep ==
  ASSUME IInv, NEW h \in Handlers, request[h].pc = "look", request[h].op \in {"impact", "provider"},
         NEW s \in {202, 404}, Set(h, Answered(request[h], s, {})), UNCHANGED <<active, proposals>>
  PROVE  IInv'
<1>1. {} \in TreeSets /\ s \in Statuses /\ Unremarkable(request[h].op, s) /\ request[h].pc \notin Resting
  BY DEF TreeSets, Statuses, Unremarkable, Resting
<1>2. request[h].callers = {} /\ \E P \in request[h].since : Allowed(request[h], P, {})
  <2>1. request[h].told = {}
    BY <1>1 DEF IInv, Sound, Begun
  <2>2. PICK P \in request[h].since : Allowed(request[h], P, request[h].told)
    BY <1>1, Working
  <2>3. Allowed(request[h], P, {})
    BY <2>1, <2>2
  <2>4. request[h].callers = {}
    BY <1>1, Working
  <2> QED  BY <2>3, <2>4
<1> DEFINE n == Answered(request[h], s, {})
<1>3. Sound(n) /\ Informed(n, active) /\ Recorded(n, proposals)
  <2>1. Tells(request[h], {})
    BY DEF Tells
  <2> HIDE DEF n
  <2> QED  BY <1>1, <1>2, <2>1, AnswerSound DEF n
<1> HIDE DEF n
<1> QED  BY <1>3, OneThread DEF n

LEMMA SelectWorkspaceStep ==
  ASSUME IInv, NEW h \in Handlers, SelectWorkspace(h), UNCHANGED proposals  PROVE IInv'
<1> DEFINE r == request[h]
<1>1. r.pc = "look" /\ r.op = "impact" /\ UNCHANGED <<active, proposals>> /\ active \in SUBSET AllLines
  BY DEF SelectWorkspace, Looks, IInv
<1>2. CASE r.arg \in VisibleWorkspaces(active, r.caller.user, r.caller.groups)
  <2>1. Begin(h, r.arg)
    BY <1>2 DEF SelectWorkspace
  <2>2. Allowed(r, active, TreesOfWorkspace(active, r.arg))
    BY <1>1, <1>2, ReachableTrees DEF Allowed, VisibleWorkspaces, Reach
  <2> QED  BY <1>1, <2>1, <2>2, BeginStep
<1>3. CASE r.arg \notin VisibleWorkspaces(active, r.caller.user, r.caller.groups)
  BY <1>1, <1>3, IgnoreStep DEF SelectWorkspace
<1> QED  BY <1>2, <1>3

LEMMA SelectMappedWorkspaceStep ==
  ASSUME IInv, NEW h \in Handlers, SelectMappedWorkspace(h), UNCHANGED proposals  PROVE IInv'
<1> DEFINE r == request[h]
           found == WorkspacesWith(active, r.arg)
<1>1. r.pc = "look" /\ r.op = "provider" /\ UNCHANGED <<active, proposals>>
  BY DEF SelectMappedWorkspace, Looks
<1>2. CASE r.arg \in Mapped /\ \E w \in found : found = {w}
  <2>1. PICK w \in found : Begin(h, w)
    BY <1>2 DEF SelectMappedWorkspace
  <2>2. Allowed(r, active, TreesOfWorkspace(active, w))
    BY <1>1, <1>2 DEF Allowed
  <2> QED  BY <1>1, <2>1, <2>2, BeginStep
<1>3. CASE ~(r.arg \in Mapped /\ \E w \in found : found = {w})
  BY <1>1, <1>3, IgnoreStep DEF SelectMappedWorkspace
<1> QED  BY <1>2, <1>3

(* What a review under way knows. *)
LEMMA Reviewing ==
  ASSUME IInv, NEW h \in Handlers, request[h].pc \in {"detect", "surface"}
  PROVE  /\ request[h] \in Thread /\ request[h].pc \notin Resting
         /\ request[h].op \in {"impact", "provider"}
         /\ request[h].pc = "surface" => request[h].op = "impact"
         /\ request[h].pc = "detect" => request[h].heard = {}
         /\ request[h].callers = {} /\ request[h].status = 0
         /\ request[h].rights \in request[h].since
         /\ Confined(request[h]) /\ Begun(request[h])
         /\ \E P \in request[h].since : Allowed(request[h], P, request[h].told)
<1>1. request[h].pc \notin Resting
  BY DEF Resting
<1>2. Sound(request[h])
  BY DEF IInv
<1> QED  BY <1>1, <1>2, Working DEF Sound, Confined, Begun

(* One tree asked. *)
LEMMA AskedFields ==
  ASSUME NEW h, request[h] \in Thread, NEW t \in request[h].todo
  PROVE  /\ Asked(h, t) \in Thread
         /\ Asked(h, t).told = request[h].told \cup {t} /\ Asked(h, t).todo = request[h].todo \ {t}
         /\ Asked(h, t).pc = request[h].pc /\ Asked(h, t).op = request[h].op
         /\ Asked(h, t).caller = request[h].caller /\ Asked(h, t).arg = request[h].arg
         /\ Asked(h, t).since = request[h].since /\ Asked(h, t).status = request[h].status
         /\ Asked(h, t).callers = request[h].callers /\ Asked(h, t).rights = request[h].rights
         /\ Asked(h, t).changed = request[h].changed /\ Asked(h, t).heard = request[h].heard
<1> DEFINE r == request[h]
<1>1. r.told \cup {t} \in TreeSets /\ r.todo \ {t} \in TreeSets
  BY ThreadTypes DEF TreeSets
<1> HIDE DEF r
<1> QED  BY <1>1 DEF Asked, Thread, r

LEMMA AskedStep ==
  ASSUME IInv, NEW h \in Handlers, request[h].pc \in {"detect", "surface"}, NEW t \in request[h].todo,
         NEW n \in Thread, n.pc = request[h].pc, n.op = request[h].op, n.caller = request[h].caller,
         n.arg = request[h].arg, n.since = request[h].since, n.status = request[h].status,
         n.callers = request[h].callers, n.rights = request[h].rights,
         n.told = request[h].told \cup {t}, n.todo = request[h].todo \ {t},
         n.pc = "surface" \/ n.heard = request[h].heard,
         Set(h, n), UNCHANGED <<active, proposals>>
  PROVE  IInv'
<1>1. n.told \cup n.todo = request[h].told \cup request[h].todo
  OBVIOUS
<1>2. Confined(n)
  BY <1>1, Reviewing DEF Confined, Allowed
<1>3. n.pc = "surface" \/ n.heard = {}
  BY Reviewing
<1> QED  BY <1>2, <1>3, Reviewing, ReviewMoves

LEMMA DetectStep ==
  ASSUME IInv, NEW h \in Handlers, NEW t \in Trees, Detect(h, t), UNCHANGED proposals  PROVE IInv'
<1>1. /\ request[h].pc = "detect" /\ t \in request[h].todo /\ UNCHANGED <<active, proposals>>
      /\ request[h] \in Thread
  BY DEF Detect, Call, IInv
<1>2. PICK symbols \in SUBSET HandlersIn(t) :
        Set(h, [Asked(h, t) EXCEPT !.changed = @ \cup {<<t, s>> : s \in symbols}])
  BY DEF Detect
<1> DEFINE a == Asked(h, t)
           n == [a EXCEPT !.changed = @ \cup {<<t, s>> : s \in symbols}]
<1>3. a.changed \cup {<<t, s>> : s \in symbols} \in Changed
  <2>1. a.changed \in Changed
    BY <1>1, AskedFields, ThreadTypes
  <2>2. HandlersIn(t) \subseteq {x.handler : x \in Routes}
    BY DEF HandlersIn
  <2> QED  BY <2>1, <2>2 DEF Changed
<1>4. a \in Thread
  BY <1>1, AskedFields
<1>5. /\ n \in Thread /\ n.pc = a.pc /\ n.op = a.op /\ n.caller = a.caller /\ n.arg = a.arg
      /\ n.since = a.since /\ n.status = a.status /\ n.callers = a.callers /\ n.rights = a.rights
      /\ n.told = a.told /\ n.todo = a.todo /\ n.heard = a.heard
  <2> HIDE DEF a
  <2> QED  BY <1>3, <1>4 DEF Thread
<1>6. Set(h, n)
  BY <1>2
<1> HIDE DEF n
<1> QED  BY <1>1, <1>5, <1>6, AskedFields, AskedStep

LEMMA SurfaceStep ==
  ASSUME IInv, NEW h \in Handlers, NEW t \in Trees, Surface(h, t), UNCHANGED proposals  PROVE IInv'
<1> DEFINE a == Asked(h, t)
           n == [a EXCEPT !.heard = @ \cup {t}]
<1>1. /\ request[h].pc = "surface" /\ t \in request[h].todo /\ UNCHANGED <<active, proposals>>
      /\ request[h] \in Thread
  BY DEF Surface, Call, IInv
<1>2. a \in Thread
  BY <1>1, AskedFields
<1>3. CASE Set(h, a)
  BY <1>1, <1>2, <1>3, AskedFields, AskedStep
<1>4. CASE Set(h, n)
  <2>1. a.heard \cup {t} \in TreeSets
    BY <1>2, ThreadTypes DEF TreeSets
  <2>2. /\ n \in Thread /\ n.pc = a.pc /\ n.op = a.op /\ n.caller = a.caller /\ n.arg = a.arg
        /\ n.since = a.since /\ n.status = a.status /\ n.callers = a.callers /\ n.rights = a.rights
        /\ n.told = a.told /\ n.todo = a.todo
    <3> HIDE DEF a
    <3> QED  BY <1>2, <2>1 DEF Thread
  <2> HIDE DEF n
  <2> QED  BY <1>1, <1>4, <2>2, AskedFields, AskedStep
<1> QED  BY <1>3, <1>4 DEF Surface

(* A policy that lets a workspace name a tree it does not declare is       *)
(* invalid.                                                                *)
LEMMA UndeclaredIsInvalid ==
  ASSUME NEW P, NEW w, NEW t \in TreesOfWorkspace(P, w), t \notin Declared(P, "tree")
  PROVE  ~Valid(P)
<1>1. PICK l \in P : l.kind = "workspace" /\ t \in l.list
  BY ListedDef DEF TreesOfWorkspace
<1>2. l \in OfKind(P, "workspace") \cup OfKind(P, "tenant")
  BY <1>1 DEF OfKind
<1> QED  BY <1>1, <1>2 DEF Valid, ReferencesValid

LEMMA StumbleStep ==
  ASSUME IInv, NEW h \in Handlers, StumbleOnUnknown(h), UNCHANGED proposals  PROVE IInv'
<1> DEFINE r == request[h]
           a == Answered(r, 0, r.told)
           n == [a EXCEPT !.pc = "dead"]
<1>1. /\ r.pc \in {"detect", "surface"} /\ UNCHANGED <<active, proposals>>
      /\ \E t \in r.todo : t \notin Declared(r.rights, "tree")
  BY DEF StumbleOnUnknown, NextUnknown, Known
<1>2. /\ r \in Thread /\ r.pc \notin Resting /\ r.op \in {"impact", "provider"} /\ r.callers = {}
      /\ r.rights \in r.since /\ Confined(r) /\ Begun(r)
      /\ \E P \in r.since : Allowed(r, P, r.told)
  BY <1>1, Reviewing
<1>3. r.told \in TreeSets
  BY <1>2, ThreadTypes
<1>4. CASE r.op = "provider"
  <2>1. Set(h, Answered(r, 202, r.told))
    BY <1>4 DEF StumbleOnUnknown
  <2>2. 202 \in Statuses /\ Unremarkable(r.op, 202)
    BY <1>4 DEF Statuses, Unremarkable
  <2> DEFINE m == Answered(r, 202, r.told)
  <2>3. Sound(m) /\ Informed(m, active) /\ Recorded(m, proposals)
    <3>1. Tells(r, r.told)
      BY <1>4 DEF Tells
    <3> HIDE DEF m
    <3> QED  BY <1>2, <1>3, <1>4, <2>2, <3>1, AnswerSound DEF m
  <2> HIDE DEF m
  <2> QED  BY <1>1, <2>1, <2>3, OneThread DEF m
<1>5. CASE r.op = "impact"
  <2>1. Set(h, n)
    BY <1>5 DEF StumbleOnUnknown
  <2>2. 0 \in Statuses
    BY DEF Statuses
  <2>3. /\ a \in Thread /\ a.status = 0 /\ a.told = r.told /\ a.rights = {} /\ a.todo = {}
        /\ a.draft = NoProposal /\ a.op = r.op /\ a.caller = r.caller /\ a.arg = r.arg /\ a.since = r.since
        /\ a.callers = r.callers
    <3> HIDE DEF r
    <3> QED  BY <1>2, <1>3, <2>2, AnsweredType, AnsweredFields
  <2>4. /\ n \in Thread /\ n.pc = "dead" /\ n.status = 0 /\ n.told = r.told /\ n.rights = {} /\ n.todo = {}
        /\ n.draft = NoProposal /\ n.op = r.op /\ n.caller = r.caller /\ n.arg = r.arg /\ n.since = r.since
        /\ n.callers = r.callers
    <3>1. "dead" \in Points
      BY DEF Points, Resting
    <3> HIDE DEF a
    <3> QED  BY <2>3, <3>1 DEF Thread
  <2> HIDE DEF n
  <2>5. ~Valid(r.rights)
    <3>1. PICK w : r.told \cup r.todo \subseteq TreesOfWorkspace(r.rights, w)
      BY <1>1, <1>2 DEF Confined
    <3> QED  BY <1>1, <3>1, UndeclaredIsInvalid
  <2>6. r.arg \in Arguments(r.op) /\ r.caller \in Callers /\ r.op \in Operations
    BY <1>2, <1>5, Working
  <2>7. Begun(n)
    BY <1>2, <1>5, <2>4, <2>6 DEF Begun, Allowed, Resting
  <2>8. Scoped(n) /\ Confined(n) /\ ToldOf(n) /\ Exact(n) /\ Owned(n)
    BY <1>2, <2>4, <2>5 DEF Scoped, Confined, ToldOf, Exact, Owned
  <2>9. Informed(n, active) /\ Recorded(n, proposals)
    BY <2>4 DEF Informed, Recorded, Resting
  <2> QED  BY <1>1, <2>1, <2>4, <2>7, <2>8, <2>9, OneThread DEF Sound
<1> QED  BY <1>2, <1>4, <1>5

LEMMA AllDetectedStep ==
  ASSUME IInv, NEW h \in Handlers, AllDetected(h), UNCHANGED proposals  PROVE IInv'
<1> DEFINE r == request[h]
<1>1. r.pc = "detect" /\ UNCHANGED <<active, proposals>>
  BY DEF AllDetected
<1>2. /\ r \in Thread /\ r.pc \notin Resting /\ r.op \in {"impact", "provider"} /\ r.callers = {}
      /\ r.heard = {} /\ r.rights \in r.since /\ Confined(r)
      /\ \E P \in r.since : Allowed(r, P, r.told)
  BY <1>1, Reviewing
<1>3. r.told \in TreeSets
  BY <1>2, ThreadTypes
<1>4. CASE r.op = "impact" /\ Cardinality(r.told) > 1
  <2> DEFINE n == [r EXCEPT !.pc = "surface", !.todo = r.told]
  <2>1. Set(h, n)
    BY <1>4 DEF AllDetected
  <2>2. "surface" \in Points
    BY DEF Points
  <2>3. /\ n \in Thread /\ n.pc = "surface" /\ n.todo = r.told /\ n.told = r.told /\ n.rights = r.rights
        /\ n.op = r.op /\ n.caller = r.caller /\ n.arg = r.arg /\ n.since = r.since /\ n.status = r.status
        /\ n.callers = r.callers
    <3> HIDE DEF r
    <3> QED  BY <1>2, <1>3, <2>2 DEF Thread
  <2> HIDE DEF n
  <2>4. Confined(n)
    BY <1>1, <1>2, <1>4, <2>3 DEF Confined, Allowed
  <2> QED  BY <1>1, <1>2, <2>1, <2>3, <2>4, ReviewMoves
<1>5. ASSUME NEW s \in Statuses, Unremarkable(r.op, s), Set(h, Answered(r, s, r.told))  PROVE IInv'
  <2> DEFINE m == Answered(r, s, r.told)
  <2>1. Tells(r, r.told)
    BY <1>2 DEF Tells
  <2>2. r.op = "impact" => r.heard # r.told \/ r.told = {}
    BY <1>2
  <2>3. r.pc \notin Resting /\ \E P \in r.since : Allowed(r, P, r.told)
    BY <1>2
  <2>4. Sound(m) /\ (\A P : Informed(m, P)) /\ \A props : Recorded(m, props)
    <3> HIDE DEF m
    <3> QED  BY <1>3, <1>5, <2>1, <2>2, <2>3, AnswerSound DEF m
  <2> HIDE DEF m
  <2> QED  BY <1>1, <1>5, <2>4, OneThread DEF m
<1>6. CASE r.op = "impact" /\ ~(Cardinality(r.told) > 1)
  BY <1>5, <1>6 DEF AllDetected, Statuses, Unremarkable
<1>7. CASE r.op = "provider"
  BY <1>5, <1>7 DEF AllDetected, Statuses, Unremarkable
<1> QED  BY <1>2, <1>4, <1>6, <1>7

LEMMA JoinStep ==
  ASSUME IInv, NEW h \in Handlers, Join(h), UNCHANGED proposals  PROVE IInv'
<1> DEFINE r == request[h]
           a == Answered(r, 200, r.told)
           found == CallersOfChanges(Links(r.heard), r.changed)
           n == [a EXCEPT !.callers = found]
<1>1. r.pc = "surface" /\ UNCHANGED <<active, proposals>> /\ Set(h, n)
  BY DEF Join
<1>2. /\ r \in Thread /\ r.pc \notin Resting /\ r.op = "impact"
      /\ \E P \in r.since : Allowed(r, P, r.told)
  BY <1>1, Reviewing
<1>3. r.told \in TreeSets /\ r.changed \in Changed /\ 200 \in Statuses
  BY <1>2, ThreadTypes DEF Statuses
<1>4. found \in LinkSets
  BY DEF CallersOfChanges, Links, LinkSets
<1>5. /\ a \in Thread /\ a.pc = "answered" /\ a.status = 200 /\ a.told = r.told /\ a.rights = {} /\ a.todo = {}
      /\ a.draft = NoProposal /\ a.op = r.op /\ a.caller = r.caller /\ a.arg = r.arg /\ a.since = r.since
      /\ a.changed = r.changed /\ a.heard = r.heard
  <2> HIDE DEF r
  <2> QED  BY <1>2, <1>3, AnsweredType, AnsweredFields
<1>6. /\ n \in Thread /\ n.pc = "answered" /\ n.status = 200 /\ n.told = r.told /\ n.rights = {} /\ n.todo = {}
      /\ n.draft = NoProposal /\ n.op = r.op /\ n.caller = r.caller /\ n.arg = r.arg /\ n.since = r.since
      /\ n.changed = r.changed /\ n.heard = r.heard /\ n.callers = found
  <2> HIDE DEF a, found
  <2> QED  BY <1>4, <1>5 DEF Thread
<1> HIDE DEF n
<1>7. r.arg \in Arguments(r.op) /\ r.caller \in Callers /\ r.op \in Operations
  BY <1>2, Working
<1>8. Begun(n)
  BY <1>2, <1>6, <1>7 DEF Begun, Allowed, Resting
<1>9. Exact(n)
  <2> SUFFICES ASSUME r.heard = r.told
               PROVE  {<<l[1], l[2].tree, l[2].handler>> : l \in found}
                        = UNION {{<<q, c[1], c[2]>> : q \in CallersOf(c[1], c[2], r.told)} : c \in r.changed}
    BY <1>6 DEF Exact
  <2>1. {d \in r.changed : d = <<d[1], d[2]>>} = r.changed
    BY <1>3 DEF Changed
  <2>2. {<<l[1], l[2].tree, l[2].handler>> : l \in CallersOfChanges(Links(r.told), r.changed)}
          = UNION {{<<q, c[1], c[2]>> : q \in CallersOf(c[1], c[2], r.told)}
                     : c \in {d \in r.changed : d = <<d[1], d[2]>>}}
    BY CallersExact
  <2> QED  BY <2>1, <2>2
<1>10. Scoped(n) /\ Confined(n) /\ ToldOf(n) /\ Owned(n)
  BY <1>2, <1>6 DEF Scoped, Confined, ToldOf, Owned, Tells
<1>11. Informed(n, active) /\ Recorded(n, proposals)
  BY <1>2, <1>6 DEF Informed, Recorded, Resting
<1> QED  BY <1>1, <1>6, <1>8, <1>9, <1>10, <1>11, OneThread DEF Sound

-----------------------------------------------------------------------------
(* The theorems. *)

LEMMA InvariantStep ==
  ASSUME IInv, [Next]_vars  PROVE IInv'
<1>1. ASSUME NEW h \in Handlers, Step(h)  PROVE IInv'
  <2>1. CASE ListTrees(h) \/ ListWorkspaces(h) \/ ShowSession(h) \/ ReviewAccess(h) \/ ShowOperations(h)
    BY <2>1, ListTreesStep, ListWorkspacesStep, ShowSessionStep, ReviewAccessStep, ShowOperationsStep
  <2>2. CASE TakeScope(h) \/ ListProposals(h) \/ ReadProposal(h) \/ ShowActive(h) \/ ShowTimeline(h)
    BY <2>2, TakeScopeStep, ListProposalsStep, ReadProposalStep, ShowActiveStep, ShowTimelineStep
  <2>3. CASE ComposeEdit(h) \/ StoreProposal(h) \/ ApproveProposal(h) \/ RejectApproval(h)
    BY <2>3, ComposeEditStep, StoreProposalStep, ApproveProposalStep, RejectApprovalStep
  <2>4. CASE ReviewStep(h) /\ UNCHANGED proposals
    BY <2>4, SelectWorkspaceStep, SelectMappedWorkspaceStep, DetectStep, SurfaceStep, StumbleStep,
       AllDetectedStep, JoinStep DEF ReviewStep
  <2>5. CASE Close(h) /\ UNCHANGED proposals
    BY <2>5, CloseStep
  <2> QED  BY <1>1, <2>1, <2>2, <2>3, <2>4, <2>5 DEF Step
<1>2. ASSUME NEW P \in OperatorPolicies, Overwrite(P)  PROVE IInv'
  <2>1. P \in SUBSET AllLines
    BY DEF AllLines
  <2> QED  BY <1>2, <2>1, OverwriteStep
<1>3. CASE UNCHANGED vars
  BY <1>3 DEF vars, IInv, Stored
<1> QED  BY <1>1, <1>2, <1>3, ArriveStep DEF Next

LEMMA Invariant == Spec => []IInv
BY InvariantInit, InvariantStep, PTL DEF Spec

(* A request thread is within one request, and forgets what it worked with *)
(* when it answers (main.rs, `handle`).                                    *)
THEOREM TypeCorrect == Spec => []ConsoleTypeOK
BY Invariant, InvariantImplies, PTL

(* Nobody is told of trees they could not reach, nor an administrator of   *)
(* trees outside their scope, under every policy in force since they asked *)
(* (the list, administration and access review endpoints of main.rs).      *)
THEOREM OnlyOwnTold == Spec => []OnlyOwnTrees
BY Invariant, InvariantImplies, PTL

(* Reviews ask only backends of trees their caller could all reach, or of  *)
(* the one workspace of a code host's event (main.rs, the two reviews).    *)
THEOREM OnlyAllowedAsked == Spec => []NeverSpokenTo
BY Invariant, InvariantImplies, PTL

(* The `expect` of an impact review fails only under a policy that the     *)
(* validation refuses.                                                     *)
THEOREM ValidPoliciesAreSafe == Spec => []DiesOfInvalidOnly
BY Invariant, InvariantImplies, PTL

(* An impact review whose trees all told their surface reports exactly the *)
(* callers that a router would dispatch to what changed.                   *)
THEOREM CallersComplete == Spec => []CallersAreExact
BY Invariant, InvariantImplies, PTL

(* An access review tells exactly who may use which tool, cut down to its  *)
(* reader's scope by `restricted_to`.                                      *)
THEOREM ReviewsComplete == Spec => []ReviewTellsAccess
BY Invariant, InvariantImplies, PTL

(* What `create` stores and `approve` puts in force stays inside a scope   *)
(* that author and approver held since they asked.                         *)
THEOREM ScopesHold == Spec => []EditsConfined
BY Invariant, InvariantImplies, PTL

(* The lists of trees and workspaces are those of a policy without what    *)
(* the caller may not reach.                                               *)
THEOREM ListsHide == Spec => []UnreachableIsUnknown
<1>1. IInv => UnreachableIsUnknown
  BY ListsWithout DEF IInv, UnreachableIsUnknown
<1> QED  BY <1>1, Invariant, PTL
=============================================================================
