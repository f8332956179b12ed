------------------------------- MODULE Review -------------------------------
(***************************************************************************)
(* Reviews of a workspace (src/main.rs): the impact review a caller asks   *)
(* for, and the one that a code host's signed event starts, which has no   *)
(* caller and is confined to the one workspace of the event's repository.  *)
(*                                                                         *)
(* A review reads the policy in force once and then asks one backend after *)
(* the other, which takes time; meanwhile the policy changes and backends  *)
(* stop answering.  Backends are modelled from what they are asked.        *)
(***************************************************************************)
EXTENDS Proposals, CrossRepo

CONSTANTS
  Handlers,    \* request threads
  Workspaces,  \* what a caller may ask a review of
  Mapped       \* the trees that repositories of a code host are mapped to

VARIABLES
  active,    \* the rights file in force
  request    \* what each thread is doing; `since` holds, as history, the
             \* policies in force since its request was received

(* What an answered request leaves: its status, the trees it has told of   *)
(* or asked, the callers a review reports, the document of an access       *)
(* review.                                                                 *)
Idle == [pc |-> "idle", op |-> "none", caller |-> NoProposal, arg |-> NoProposal, since |-> {},
         rights |-> {}, todo |-> {}, changed |-> {}, heard |-> {}, scope |-> {}, draft |-> NoProposal,
         status |-> 0, told |-> {}, callers |-> {}, document |-> NoProposal]

Set(h, rec) == request' = [request EXCEPT ![h] = rec]

Resting == {"idle", "answered", "dead"}

(* The result of a request, and what its working state was forgotten for. *)
Answered(rec, status, told) ==
  [rec EXCEPT !.pc = "answered", !.rights = {}, !.todo = {}, !.scope = {}, !.draft = NoProposal,
              !.status = status, !.told = told]

-----------------------------------------------------------------------------
Receive(h, op, c, arg) ==
  /\ request[h].pc = "idle"
  /\ Set(h, [Idle EXCEPT !.pc = "look", !.op = op, !.caller = c, !.arg = arg, !.since = {active}])
  /\ UNCHANGED active

(* The connection is closed, and the thread ends. *)
Close(h) ==
  /\ request[h].pc = "answered"
  /\ Set(h, Idle)
  /\ UNCHANGED active

Looks(h, op) == request[h].pc = "look" /\ request[h].op = op

Begin(h, w) ==
  Set(h, [request[h] EXCEPT !.pc = "detect", !.rights = active, !.todo = TreesOfWorkspace(active, w)])

(* 404 for a workspace that does not exist, or not for this caller. *)
SelectWorkspace(h) ==
  /\ Looks(h, "impact")
  /\ IF request[h].arg \in VisibleWorkspaces(active, request[h].caller.user, request[h].caller.groups)
       THEN Begin(h, request[h].arg)
       ELSE Set(h, Answered(request[h], 404, {}))
  /\ UNCHANGED active

(* `unique_workspace_for_tree` *)
WorkspacesWith(P, t) == {w \in Declared(P, "workspace") : t \in TreesOfWorkspace(P, w)}

(* Mutant: any workspace will do. *)
SelectAnyWorkspace(h) ==
  /\ Looks(h, "provider")
  /\ IF request[h].arg \in Mapped /\ WorkspacesWith(active, request[h].arg) # {}
       THEN \E w \in WorkspacesWith(active, request[h].arg) : Begin(h, w)
       ELSE Set(h, Answered(request[h], 202, {}))
  /\ UNCHANGED active

(* The repository of the event is mapped to a tree of exactly one          *)
(* workspace, or the event is ignored.                                     *)
SelectMappedWorkspace(h) ==
  /\ Looks(h, "provider")
  /\ LET found == WorkspacesWith(active, request[h].arg)
     IN  IF request[h].arg \in Mapped /\ \E w \in found : found = {w}
           THEN \E w \in found : Begin(h, w)
           ELSE Set(h, Answered(request[h], 202, {}))
  /\ UNCHANGED active

Known(h, t) == t \in Declared(request[h].rights, "tree")

(* Mutant: the tree is looked up in the policy in force by now. *)
NextUnknownNow(h, phase, t) ==
  /\ request[h].pc = phase /\ t \in request[h].todo
  /\ t \notin Declared(active, "tree")

(* The next tree is not declared: the review expects that it is. *)
NextUnknown(h, phase, t) ==
  /\ request[h].pc = phase /\ t \in request[h].todo
  /\ ~Known(h, t)

(* A tool call on the next tree. *)
Call(h, phase, t) ==
  /\ request[h].pc = phase /\ t \in request[h].todo
  /\ Known(h, t)

Asked(h, t) == [request[h] EXCEPT !.todo = @ \ {t}, !.told = @ \cup {t}]

HandlersIn(t) == {r.handler : r \in {x \in Routes : x.tree = t}}

(* `detect_changes`: symbols, an error, or no answer.  What a provider's   *)
(* review makes of it is a line of text.                                   *)
Detect(h, t) ==
  /\ Call(h, "detect", t)
  /\ \E symbols \in (IF request[h].op = "impact" THEN SUBSET HandlersIn(t) ELSE {{}}) :
       Set(h, [Asked(h, t) EXCEPT !.changed = @ \cup {<<t, s>> : s \in symbols}])
  /\ UNCHANGED active

(* `http_surface` of each tree, if they are several. *)
Surface(h, t) ==
  /\ Call(h, "surface", t)
  /\ \/ Set(h, [Asked(h, t) EXCEPT !.heard = @ \cup {t}])
     \/ Set(h, Asked(h, t))
  /\ UNCHANGED active

(* The thread panics, or the provider's review is given up. *)
StumbleOnUnknown(h) ==
  /\ \E t \in Trees : NextUnknown(h, "detect", t) \/ NextUnknown(h, "surface", t)
  /\ Set(h, IF request[h].op = "provider" THEN Answered(request[h], 202, request[h].told)
            ELSE [Answered(request[h], 0, request[h].told) EXCEPT !.pc = "dead"])
  /\ UNCHANGED active

AllDetected(h) ==
  /\ request[h].pc = "detect" /\ request[h].todo = {}
  /\ IF request[h].op = "impact" /\ Cardinality(request[h].told) > 1
       THEN Set(h, [request[h] EXCEPT !.pc = "surface", !.todo = request[h].told])
       ELSE Set(h, Answered(request[h], IF request[h].op = "impact" THEN 200 ELSE 202, request[h].told))
  /\ UNCHANGED active

Join(h) ==
  /\ request[h].pc = "surface" /\ request[h].todo = {}
  /\ Set(h, [Answered(request[h], 200, request[h].told) EXCEPT
               !.callers = CallersOfChanges(Links(request[h].heard), request[h].changed)])
  /\ UNCHANGED active

ReviewStep(h) ==
  \/ SelectWorkspace(h) \/ SelectMappedWorkspace(h)
  \/ \E t \in Trees : Detect(h, t) \/ Surface(h, t)
  \/ StumbleOnUnknown(h) \/ AllDetected(h) \/ Join(h)

-----------------------------------------------------------------------------
(* Properties. *)

(* The trees a caller may reach. *)
Reach(P, c) == {t \in Trees : May(P, c.user, c.groups, t)}

(* "A tree a caller may not reach is never spoken to" (README.md:66): a    *)
(* review asks trees that its caller could all reach, under one policy in  *)
(* force since its request, or the trees of the one workspace that an      *)
(* event's tree was in (main.rs:1246, main.rs:889).                        *)
NeverSpokenTo ==
  \A h \in Handlers :
    /\ request[h].op = "impact" =>
         \E P \in request[h].since : request[h].told \subseteq Reach(P, request[h].caller)
    /\ request[h].op = "provider" =>
         \E P \in request[h].since :
           \A w \in WorkspacesWith(P, request[h].arg) : request[h].told \subseteq TreesOfWorkspace(P, w)

(* A review's `expect` (main.rs:1257) ends the thread only where a policy  *)
(* names a tree it does not declare, which the validation refuses.         *)
DiesOfInvalidOnly ==
  \A h \in Handlers :
    request[h].pc = "dead" => \E P \in request[h].since : ~Valid(P)

(* If every tree told its surface, the callers reported for a changed      *)
(* handler are exactly the requests a router of the other tree would hand  *)
(* it, "the most specific route winning" (README.md:305, crossrepo.rs:28). *)
CallersAreExact ==
  \A h \in Handlers :
    request[h].pc = "answered" /\ request[h].op = "impact" /\ request[h].heard = request[h].told =>
      {<<l[1], l[2].tree, l[2].handler>> : l \in request[h].callers}
        = UNION {{<<q, c[1], c[2]>> : q \in CallersOf(c[1], c[2], request[h].told)}
                   : c \in request[h].changed}
=============================================================================
