------------------------------- MODULE Mirror -------------------------------
(***************************************************************************)
(* The mirror of code-host permissions into rights.tsv (src/sync.rs).      *)
(*                                                                         *)
(* Webhook threads apply single additions and removals; one thread         *)
(* reconciles from complete member lists.  Every writer reads the file,    *)
(* edits the direct grants in memory, writes rights.tsv.tmp.<pid>, a name  *)
(* all threads share, and renames it into place; nothing serialises them.  *)
(* The code host and the network are modelled from how they are used: a    *)
(* delivery may be lost, late, repeated or out of order.                   *)
(***************************************************************************)
EXTENDS Naturals

CONSTANTS
  Users, Sources,   \* people, and the repositories and groups of the mapping
  Trees, TreeOf,    \* local trees, and the tree each source is mapped to
  Plain,            \* the users whose name is_valid_identifier accepts
  Webhooks, Sync,   \* the webhook threads and the reconciling thread
  None,
  MaxChanges,       \* bounds: changes of membership; repeated deliveries,
  MaxTroubles,      \*   I/O errors and crashes of the process together
  InitiallyGranted, \* the direct grants the operator wrote before the start
  TornGrants        \* what the pieces of torn lines read as: a grant that a
                    \* comment quotes, or of a tree whose name is cut short

ASSUME MirrorAssumption ==
  /\ TreeOf \in [Sources -> Trees]
  /\ Plain \subseteq Users
  /\ Sync \notin Webhooks
  /\ None \notin [grants : SUBSET (Users \X Trees), rest : {"all", "part", "none"}]
  /\ None \notin {"tmp", "file", "unlinked"}
  /\ MaxChanges \in Nat /\ MaxTroubles \in Nat
  /\ InitiallyGranted \subseteq Users \X Trees /\ TornGrants \subseteq Users \X Trees

Threads == Webhooks \cup {Sync}

VARIABLES
  truth,       \* membership at the code host: pairs of a user and a source
  deliveries,  \* webhook deliveries under way
  file,        \* rights.tsv: its direct grants, and how much of the rest
  tmp,         \* the shared temporary file, or None
  serving,     \* whether the process answers requests yet
  thread,      \* what each thread is doing
  everTrue,    \* history: grants that membership once justified
  changes, troubles  \* what the bounds count

vars == <<truth, deliveries, file, tmp, serving, thread, everTrue, changes, troubles>>
counters == <<changes, troubles>>

Trouble == troubles < MaxTroubles /\ troubles' = troubles + 1

Content == [grants : SUBSET (Users \X Trees), rest : {"all", "part", "none"}]
Empty   == [grants |-> {}, rest |-> "none"]

Delivery == [op : {"grant", "revoke"}, user : Users, tree : Trees]

(* Mutant: the name of the source is taken for the name of its tree. *)
JustifiedBySource(members) == members

(* The grants a membership stands for: sources of one tree add up. *)
Justified(members) == {<<m[1], TreeOf[m[2]]>> : m \in members}

(* Mutant: a member of one source is granted every tree. *)
MirroredEverywhere(members) == {<<m[1], t>> : m \in members, t \in Trees}

(* What reconciliation mirrors: names it would refuse to write are skipped. *)
Mirrored(members) == Justified({m \in members : m[1] \in Plain})

MappedTrees == {TreeOf[s] : s \in Sources}

-----------------------------------------------------------------------------
(* mutate_rights_content: only direct grants change; every other line, and *)
(* so also the loss of every other line, is carried over.                  *)

Grant(c, u, t)   == [c EXCEPT !.grants = @ \cup {<<u, t>>}]
Revoke(c, u, t)  == [c EXCEPT !.grants = @ \ {<<u, t>>}]
(* Mutant: former members keep their grants. *)
AddGrants(c, members) == [c EXCEPT !.grants = @ \cup Mirrored(members)]

SetGrants(c, members) ==
  [c EXCEPT !.grants = {g \in @ : g[2] \notin MappedTrees} \cup Mirrored(members)]

Edited(c, task) ==
  CASE task.op = "grant"  -> Grant(c, task.user, task.tree)
    [] task.op = "revoke" -> Revoke(c, task.user, task.tree)
    [] task.op = "set"    -> SetGrants(c, task.members)

(* `next` is the text to be written, `fd` where its descriptor leads now,  *)
(* `got` and `left` the member lists fetched and the sources still to ask. *)
Resting == [pc |-> "idle", task |-> None, next |-> None, fd |-> None]
Fetching(got, left) == [op |-> "set", members |-> got, left |-> left]

Rest(t) == thread' = [thread EXCEPT ![t] = Resting]

-----------------------------------------------------------------------------
(* The code host. *)

(* A membership changes and a webhook is sent for it. *)
Change(u, s) ==
  /\ changes < MaxChanges
  /\ changes' = changes + 1
  /\ \/ /\ <<u, s>> \notin truth
        /\ truth' = truth \cup {<<u, s>>}
        /\ deliveries' = deliveries \cup {[op |-> "grant", user |-> u, tree |-> TreeOf[s]]}
     \/ /\ <<u, s>> \in truth
        /\ truth' = truth \ {<<u, s>>}
        /\ deliveries' = deliveries \cup {[op |-> "revoke", user |-> u, tree |-> TreeOf[s]]}
  /\ everTrue' = everTrue \cup Justified(truth')
  /\ UNCHANGED <<file, tmp, serving, thread, troubles>>

Lose(d) ==
  /\ d \in deliveries
  /\ deliveries' = deliveries \ {d}
  /\ UNCHANGED <<truth, file, tmp, serving, thread, everTrue, counters>>

-----------------------------------------------------------------------------
(* apply_sync_actions *)

(* The handler of a signed, mapped membership event.  A principal that is  *)
(* not an identifier is refused before the file is read.                   *)
Receive(w, d) ==
  /\ serving
  /\ d \in deliveries
  /\ thread[w] = Resting
  /\ \/ deliveries' = deliveries \ {d} /\ UNCHANGED troubles
     \/ Trouble /\ UNCHANGED deliveries
  /\ IF d.user \in Plain
       THEN thread' = [thread EXCEPT ![w] = [Resting EXCEPT !.pc = "read", !.task = d]]
       ELSE UNCHANGED thread
  /\ UNCHANGED <<truth, file, tmp, serving, everTrue, changes>>

ReadFile(t) ==
  /\ thread[t].pc = "read"
  /\ thread' = [thread EXCEPT ![t].pc = "open", ![t].next = Edited(file, thread[t].task)]
  /\ UNCHANGED <<truth, deliveries, file, tmp, serving, everTrue, counters>>

(* A failed read is taken for an empty file. *)
MisreadFile(t) ==
  /\ thread[t].pc = "read"
  /\ Trouble
  /\ thread' = [thread EXCEPT ![t].pc = "open", ![t].next = Edited(Empty, thread[t].task)]
  /\ UNCHANGED <<truth, deliveries, file, tmp, serving, everTrue, changes>>

OpenTmp(t) ==
  /\ thread[t].pc = "open"
  /\ tmp' = Empty
  /\ thread' = [thread EXCEPT ![t].pc = "write", ![t].fd = "tmp"]
  /\ UNCHANGED <<truth, deliveries, file, serving, everTrue, counters>>

(* A text written over another leaves the end of the longer one behind, cut *)
(* anywhere; one written to a truncated file leaves nothing.               *)
Overlaid(new, old) ==
  CASE old = Empty -> {new}
    [] new = Empty -> {old}
    [] OTHER       -> {[grants |-> new.grants \cup G, rest |-> r] :
                         G \in SUBSET (old.grants \cup TornGrants),
                         r \in IF new.rest = "none" THEN {"none", "part"} ELSE {new.rest}}

WriteTmp(t) ==
  /\ thread[t].pc = "write"
  /\ IF thread[t].fd = "tmp"  THEN tmp'  \in Overlaid(thread[t].next, tmp)  ELSE UNCHANGED tmp
  /\ IF thread[t].fd = "file" THEN file' \in Overlaid(thread[t].next, file) ELSE UNCHANGED file
  /\ thread' = [thread EXCEPT ![t].pc = "rename", ![t].fd = None]
  /\ UNCHANGED <<truth, deliveries, serving, everTrue, counters>>

(* Descriptors keep the file they opened when it is renamed or replaced.   *)
Follow(k) == CASE thread[k].fd = "tmp"  -> [thread[k] EXCEPT !.fd = "file"]
               [] thread[k].fd = "file" -> [thread[k] EXCEPT !.fd = "unlinked"]
               [] OTHER                 -> thread[k]

(* The first reconciliation of a process lets it serve. *)
RenameTmp(t) ==
  /\ thread[t].pc = "rename"
  /\ IF tmp = None
       THEN Rest(t) /\ UNCHANGED <<file, tmp, serving>>
       ELSE /\ file' = tmp
            /\ serving' = (serving \/ t = Sync)
            /\ tmp' = None
            /\ thread' = [k \in Threads |-> IF k = t THEN Resting ELSE Follow(k)]
  /\ UNCHANGED <<truth, deliveries, everTrue, counters>>

-----------------------------------------------------------------------------
(* reconcile_remote, and the loop of the thread that calls it. *)

StartReconcile ==
  /\ thread[Sync] = Resting
  /\ thread' = [thread EXCEPT ![Sync] =
       [Resting EXCEPT !.pc = "fetch", !.task = Fetching({}, Sources)]]
  /\ UNCHANGED <<truth, deliveries, file, tmp, serving, everTrue, counters>>

Fetch(s) ==
  /\ thread[Sync].pc = "fetch"
  /\ s \in thread[Sync].task.left
  /\ LET got  == thread[Sync].task.members \cup {m \in truth : m[2] = s}
         left == thread[Sync].task.left \ {s}
     IN  thread' = [thread EXCEPT ![Sync].task = Fetching(got, left),
                                  ![Sync].pc   = IF left = {} THEN "read" ELSE "fetch"]
  /\ UNCHANGED <<truth, deliveries, file, tmp, serving, everTrue, counters>>

-----------------------------------------------------------------------------
(* Failures. *)

(* What a write that ends early has written: the grants come last.         *)
Beginnings(c) ==
  {[grants |-> {}, rest |-> r] : r \in {c.rest, "part", "none"}}
    \cup {[grants |-> G, rest |-> c.rest] : G \in SUBSET (c.grants \cup TornGrants)}

AfterFailure(t, name, old) ==
  {old} \cup IF thread[t].pc = "write" /\ thread[t].fd = name
               THEN UNION {Overlaid(p, old) : p \in Beginnings(thread[t].next)}
               ELSE {}

(* A call of a thread fails: a member list or a file operation.  What it   *)
(* did stays; a webhook answers 500, the loop tries again later.           *)
Fail(t) ==
  /\ thread[t] # Resting
  /\ Trouble
  /\ tmp'  \in AfterFailure(t, "tmp", tmp)
  /\ file' \in AfterFailure(t, "file", file)
  /\ Rest(t)
  /\ UNCHANGED <<truth, deliveries, serving, everTrue, changes>>

(* The process dies, in the middle of a write perhaps.  It serves again    *)
(* only after a reconciliation; what it leaves in the temporary file is    *)
(* truncated before that is used.                                          *)
Crash ==
  /\ Trouble
  /\ \E t \in Threads : file' \in AfterFailure(t, "file", file)
  /\ thread' = [t \in Threads |-> Resting]
  /\ serving' = FALSE
  /\ UNCHANGED <<truth, deliveries, tmp, everTrue, changes>>

-----------------------------------------------------------------------------
Init ==
  /\ truth \in SUBSET (Users \X Sources)
  /\ deliveries = {}
  /\ file = [grants |-> InitiallyGranted, rest |-> "all"]
  /\ tmp = None
  /\ serving = FALSE
  /\ thread = [t \in Threads |-> Resting]
  /\ everTrue = Justified(truth)
  /\ changes = 0 /\ troubles = 0

Write(t) == ReadFile(t) \/ OpenTmp(t) \/ WriteTmp(t) \/ RenameTmp(t)

Next ==
  \/ \E u \in Users, s \in Sources : Change(u, s)
  \/ \E d \in deliveries : Lose(d)
  \/ \E w \in Webhooks, d \in deliveries : Receive(w, d)
  \/ \E t \in Threads : Write(t) \/ MisreadFile(t) \/ Fail(t)
  \/ StartReconcile
  \/ \E s \in Sources : Fetch(s)
  \/ Crash

(* The loop never ends and the system runs every thread; requests to the   *)
(* code host fail only as often as the bound on failures says.             *)
Fairness ==
  /\ WF_vars(StartReconcile)
  /\ WF_vars(\E s \in Sources : Fetch(s))
  /\ \A t \in Threads : WF_vars(Write(t))

Spec == Init /\ [][Next]_vars /\ Fairness

-----------------------------------------------------------------------------
(* Properties. *)

(* Files and histories hold grants; threads run known steps (sync.rs:343). *)
TypeOK ==
  /\ truth \subseteq Users \X Sources
  /\ deliveries \subseteq Delivery
  /\ file \in Content
  /\ tmp = None \/ tmp \in Content
  /\ \A t \in Threads :
       /\ thread[t].pc \in {"idle", "fetch", "read", "open", "write", "rename"}
       /\ thread[t].fd \in {"tmp", "file", "unlinked", None}
       /\ thread[t].pc \in {"open", "write", "rename"} <=> thread[t].next \in Content
  /\ everTrue \subseteq Users \X Trees

(* "Mirrored, not created: Permissions originate from the code host"       *)
(* (sync.rs:6): no interleaving of the writers, no failure and no late     *)
(* delivery grants what neither the operator nor a membership ever did,    *)
(* but for what a line torn in the shared temporary file reads as.         *)
MirroredNotCreated == file.grants \subseteq InitiallyGranted \cup everTrue \cup TornGrants

(* Once the code host stops changing and the calls stop failing, the       *)
(* mirrored trees end up granted to exactly their members, whatever was    *)
(* lost, repeated, late or overwritten before (sync.rs:396; README.md:220).*)
OnMappedTrees(grants) == {g \in grants : g[2] \in MappedTrees}
EventuallyMirrored == <>[](OnMappedTrees(file.grants) = Mirrored(truth))

(* "Atomically modifies the rights.tsv file, preserving existing trees and *)
(* comments" (sync.rs:335): the lines other than direct grants are kept.   *)
RestIsKept == file.rest = "all"

=============================================================================
