----------------------------- MODULE CrossRepo -----------------------------
(***************************************************************************)
(* Requests in one tree of a workspace that reach a route in another       *)
(* (src/crossrepo.rs).  Routes and requests belong to a tree and have a    *)
(* verb and a sequence of segments, of which "*" is a parameter.           *)
(***************************************************************************)
EXTENDS Integers, Sequences, FiniteSets

CONSTANTS
  Routes,    \* all routes any tree serves: records with a tree and a handler
  Requests,  \* all requests any tree sends: records with a tree and a sender
  Unspelt    \* a segment that no route spells out

ASSUME CrossRepoAssumption ==
  /\ \A x \in Routes \cup Requests : x.segments \in Seq(STRING)
  /\ \A r \in Routes : \A i \in DOMAIN r.segments : r.segments[i] # Unspelt

SameVerb(q, r) == q.verb = "ANY" \/ r.verb = "ANY" \/ q.verb = r.verb

(* Mutant: a parameter of a request takes any segment of a route. *)
ReachesEither(q, r) ==
  /\ SameVerb(q, r)
  /\ DOMAIN q.segments = DOMAIN r.segments
  /\ \A i \in DOMAIN r.segments : r.segments[i] = "*" \/ q.segments[i] \in {"*", r.segments[i]}

Reaches(q, r) ==
  /\ SameVerb(q, r)
  /\ DOMAIN q.segments = DOMAIN r.segments
  /\ \A i \in DOMAIN r.segments :
       r.segments[i] = "*" \/ (q.segments[i] # "*" /\ q.segments[i] = r.segments[i])

Literals(r) == Cardinality({i \in DOMAIN r.segments : r.segments[i] # "*"})

Best(routes) == {r \in routes : \A x \in routes : Literals(x) <= Literals(r)}

(* Every request of a tree to the routes of the other trees, as far as     *)
(* these trees told theirs.                                                *)
ReachedRoutes(q, trees) == {r \in Routes : r.tree \in trees \ {q.tree} /\ Reaches(q, r)}

Links(trees) ==
  {l \in Requests \X Routes :
     /\ l[1].tree \in trees /\ l[1].segments # <<>>
     /\ l[2] \in Best(ReachedRoutes(l[1], trees))}

(* `callers_of_changes`, where what changed is routes of given handlers.   *)
CallersOfChanges(links, changed) ==
  {l \in links : <<l[2].tree, l[2].handler>> \in changed}

-----------------------------------------------------------------------------
(* The same by what a router does with a path: a parameter of the request  *)
(* will be some value that no route spells out.                            *)
Path(q) == [i \in DOMAIN q.segments |-> IF q.segments[i] = "*" THEN Unspelt ELSE q.segments[i]]

Serves(r, verb, path) ==
  /\ "ANY" \in {verb, r.verb} \/ verb = r.verb
  /\ Len(path) = Len(r.segments)
  /\ \A i \in 1 .. Len(path) : r.segments[i] \in {"*", path[i]}

DispatchedTo(q, trees) ==
  Best({r \in Routes : r.tree \in trees /\ r.tree # q.tree /\ Serves(r, q.verb, Path(q))})

(* Who of the other trees calls a handler of a tree. *)
CallersOf(tree, handler, trees) ==
  {q \in Requests :
     /\ q.tree \in trees /\ Len(q.segments) > 0
     /\ \E r \in DispatchedTo(q, trees) : r.tree = tree /\ r.handler = handler}
=============================================================================
