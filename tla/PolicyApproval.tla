--------------------------- MODULE PolicyApproval ---------------------------
(***************************************************************************)
(* The policy proposals as the code performs them (src/policy.rs), one     *)
(* file operation at a time.  Each request runs on a thread of its own and *)
(* nothing serialises them: `create` reads the policy in force, asks       *)
(* whether the proposal exists and writes it; `approve` loads it, compares *)
(* the policy in force, writes `rights.pending`, renames it into place and *)
(* rewrites the proposal.  fs::write truncates and then writes, through    *)
(* one descriptor that keeps its file when the name is renamed: where two  *)
(* write one file, each writes from its first byte.                        *)
(***************************************************************************)
EXTENDS Proposals

CONSTANTS
  Handlers,     \* request threads
  None,         \* no value
  Serialized,   \* TRUE: whatever changes the policy takes turns
  TornLines,    \* lines that pieces of lines can spell, a grant as well as nonsense
  Pieces(_)     \* the whole lines that some part of a text can hold

FileLines == AllLines \cup TornLines

(* What a proposal file holds.  One that was truncated and not written     *)
(* again, or written by two at once, is unreadable; its other fields only  *)
(* remember what was to be written.                                        *)
ProposalsIn(states) ==
  [state : states, author : Names, scope : {Global} \cup SUBSET Trees,
   base : SUBSET FileLines, text : SUBSET FileLines, approver : Names \cup {NoProposal}]

FileType == ProposalsIn({"opened", "pending", "reopened", "approved", "torn"})

ASSUME ApprovalAssumption ==
  /\ Serialized \in BOOLEAN
  /\ \A l \in TornLines : WellFormed(l)
  /\ \A P \in SUBSET FileLines : {{}, P} \subseteq Pieces(P) /\ Pieces(P) \subseteq SUBSET P
  /\ None \notin {"pending", "active", "unlinked"} /\ \A P \in SUBSET FileLines : P # None
  /\ NoProposal \notin FileType \cup ProposalsIn({"activated"})

VARIABLES
  active,    \* the rights file in force
  pending,   \* the content of rights.pending, or None
  stored,    \* the proposal files: as in FourEyes, and three unreadable states
  handler,   \* the request each thread is in the middle of
  vetted,    \* history: the texts that passed somebody else's approval checks
  shared     \* history: which of the two files a second approval opened while
             \* one that opened it before had not renamed it yet

vars == <<active, pending, stored, handler, vetted, shared>>
history == <<vetted, shared>>

(* What a truncated file holds: no line at all. *)
Empty == {}

Idle == [pc |-> "idle", caller |-> None, id |-> None, sub |-> None,
         scope |-> None, value |-> NoProposal, fd |-> None]

Goto(h, pc)        == handler' = [handler EXCEPT ![h].pc = pc]
Finish(h)          == handler' = [handler EXCEPT ![h] = Idle]
MyTurn             == Serialized => \A h \in Handlers : handler[h] = Idle

Truncated(p)  == p.state \in {"opened", "reopened"}
Unreadable(p) == Truncated(p) \/ p.state = "torn"
Readable(id)  == stored[id] # NoProposal /\ ~Unreadable(stored[id])

-----------------------------------------------------------------------------
(* POST /api/admin/policy/proposals *)

StartCreate(h, c, id, sub) ==
  /\ handler[h] = Idle /\ MyTurn
  /\ ScopeOf(active, c) # {}
  /\ handler' = [handler EXCEPT ![h] =
       [Idle EXCEPT !.pc = "compose", !.caller = c, !.id = id, !.sub = sub,
                    !.scope = ScopeOf(active, c)]]
  /\ UNCHANGED <<active, pending, stored, history>>

(* Reads the policy in force; composes and validates against it. *)
CreateCompose(h) ==
  /\ handler[h].pc = "compose"
  /\ IF MayPropose(active, handler[h].sub, handler[h].scope)
       THEN handler' = [handler EXCEPT ![h].pc = "exists", ![h].sub = None,
              ![h].value = NewProposal(active, handler[h].sub, handler[h].scope,
                                       handler[h].caller.user)]
       ELSE Finish(h)
  /\ UNCHANGED <<active, pending, stored, history>>

CreateExists(h) ==
  /\ handler[h].pc = "exists"
  /\ IF stored[handler[h].id] # NoProposal THEN Finish(h) ELSE Goto(h, "create")
  /\ UNCHANGED <<active, pending, stored, history>>

CreateOpen(h) ==
  /\ handler[h].pc = "create"
  /\ stored' = [stored EXCEPT ![handler[h].id] = [handler[h].value EXCEPT !.state = "opened"]]
  /\ Goto(h, "fill")
  /\ UNCHANGED <<active, pending, history>>

(* The file of one's proposal is written; where another request has        *)
(* written it since it was truncated, the end of that may remain.          *)
Put(h, p) ==
  \/ stored' = [stored EXCEPT ![handler[h].id] = p]
  \/ /\ ~Truncated(stored[handler[h].id])
     /\ stored' = [stored EXCEPT ![handler[h].id] = [p EXCEPT !.state = "torn"]]

CreateWrite(h) ==
  /\ handler[h].pc = "fill"
  /\ Put(h, handler[h].value)
  /\ Finish(h)
  /\ UNCHANGED <<active, pending, history>>

-----------------------------------------------------------------------------
(* POST /api/admin/policy/proposals/<id>/approve *)

StartApprove(h, c, id) ==
  /\ handler[h] = Idle /\ MyTurn
  /\ ScopeOf(active, c) # {}
  /\ handler' = [handler EXCEPT ![h] =
       [Idle EXCEPT !.pc = "load", !.caller = c, !.id = id, !.scope = ScopeOf(active, c)]]
  /\ UNCHANGED <<active, pending, stored, history>>

ApproveLoad(h) ==
  /\ handler[h].pc = "load"
  /\ IF /\ Readable(handler[h].id)
        /\ MayLoad(stored[handler[h].id], handler[h].caller.user, handler[h].scope)
       THEN handler' = [handler EXCEPT ![h].pc = "compare", ![h].value = stored[handler[h].id]]
       ELSE Finish(h)
  /\ UNCHANGED <<active, pending, stored, history>>

(* Mutant: validates the proposal but does not compare the policy in force. *)
ApproveUncompared(h) ==
  /\ handler[h].pc = "compare"
  /\ IF Valid(handler[h].value.text) THEN Goto(h, "open") ELSE Finish(h)
  /\ UNCHANGED <<active, pending, stored, history>>

ApproveCompare(h) ==
  /\ handler[h].pc = "compare"
  /\ IF StillApplies(handler[h].value, active)
       THEN /\ Goto(h, "open")
            /\ vetted' = vetted \cup {p.text : p \in
                 {q \in {handler[h].value} : q.author # handler[h].caller.user}}
       ELSE Finish(h) /\ UNCHANGED vetted
  /\ UNCHANGED <<active, pending, stored, shared>>

(* The approvals that are to rename whatever `rights.pending` then is. *)
Writing == {h \in Handlers : handler[h].pc \in {"write", "rename"}}

(* Opened by h, whether or not somebody else has it open already. *)
Opens(h) ==
  /\ handler' = [handler EXCEPT ![h].pc = "write", ![h].fd = "pending"]
  /\ shared' = IF Writing = {} THEN shared \ {"pending"} ELSE shared \cup {"pending"}

(* Mutant: opens the file as an earlier approval left it. *)
ApproveOpenAsIs(h) ==
  /\ handler[h].pc = "open"
  /\ pending' = IF pending = None THEN Empty ELSE pending
  /\ Opens(h)
  /\ UNCHANGED <<active, stored, vetted>>

ApproveOpen(h) ==
  /\ handler[h].pc = "open"
  /\ pending' = Empty
  /\ Opens(h)
  /\ UNCHANGED <<active, stored, vetted>>

AtMostOne(S) == {{}} \cup {{x} : x \in S}

(* A text written from the first byte of a file that holds another one:    *)
(* the end of a longer one remains, cut anywhere.  Its first line may be   *)
(* torn, and run together with an unterminated last line of the new text.  *)
Overlaid(new, old) ==
  IF old = Empty
    THEN {new}
    ELSE {new \cup tail : tail \in Pieces(old)}
           \cup {(new \ last) \cup {torn} \cup tail :
                   last \in AtMostOne(new), torn \in TornLines, tail \in Pieces(old)}

(* A write that fails has written some part of the text by then. *)
Part(new, old) ==
  {head \cup torn \cup tail :
     head \in Pieces(new), torn \in AtMostOne(TornLines), tail \in Pieces(old)}

(* What a write of h may make of the file called name: a descriptor refers *)
(* to the file that was opened, under whatever name it goes by now.        *)
Wrote(h, name, old) ==
  IF handler[h].fd = name THEN Overlaid(handler[h].value.text, old) ELSE {old}

FailedToWrite(h, name, old) ==
  IF handler[h].fd = name THEN Part(handler[h].value.text, old) ELSE {}

ApproveWrite(h) ==
  /\ handler[h].pc = "write"
  /\ pending' \in Wrote(h, "pending", pending)
  /\ active' \in Wrote(h, "active", active)
  /\ handler' = [handler EXCEPT ![h].pc = "rename", ![h].fd = None]
  /\ UNCHANGED <<stored, history>>

(* A rename onto the rights file: descriptors follow the file they opened. *)
Follow(k) == CASE handler[k].fd = "pending" -> [handler[k] EXCEPT !.fd = "active"]
               [] handler[k].fd = "active"  -> [handler[k] EXCEPT !.fd = "unlinked"]
               [] OTHER                     -> handler[k]

ApproveRename(h) ==
  /\ handler[h].pc = "rename"
  /\ IF pending = None
       THEN Finish(h) /\ UNCHANGED <<active, pending, shared>>
       ELSE /\ active' = pending
            /\ pending' = None
            /\ shared' = IF "pending" \in shared THEN {"active"} ELSE {}
            /\ handler' = [k \in Handlers |->
                 IF k = h THEN [handler[h] EXCEPT !.pc = "record"] ELSE Follow(k)]
  /\ UNCHANGED <<stored, vetted>>

(* Mutant: records the approver's whole identity instead of the name. *)
ApprovedByRecord(h) == [handler[h].value EXCEPT !.state = "approved", !.approver = handler[h].caller]

Approved(h) == [handler[h].value EXCEPT !.state = "approved", !.approver = handler[h].caller.user]

ApproveReopen(h) ==
  /\ handler[h].pc = "record"
  /\ stored' = [stored EXCEPT ![handler[h].id] = [Approved(h) EXCEPT !.state = "reopened"]]
  /\ Goto(h, "rewrite")
  /\ UNCHANGED <<active, pending, history>>

ApproveRecord(h) ==
  /\ handler[h].pc = "rewrite"
  /\ Put(h, Approved(h))
  /\ Finish(h)
  /\ UNCHANGED <<active, pending, history>>

-----------------------------------------------------------------------------
(* The operator's editor and the mirror replace the file by a rename from  *)
(* a temporary name of their own.                                          *)
Replace(P) ==
  /\ MyTurn
  /\ active' = P
  /\ handler' = [k \in Handlers |->
       IF handler[k].fd = "active" THEN [handler[k] EXCEPT !.fd = "unlinked"] ELSE handler[k]]
  /\ shared' = shared \ {"active"}
  /\ UNCHANGED <<pending, stored, vetted>>

(* What a failing write leaves in the file of a proposal matters only to a *)
(* request that has it open too: the next one to open it truncates it.     *)
FailedToPut(h) ==
  {[stored EXCEPT ![handler[h].id] = [handler[h].value EXCEPT !.state = "torn"]] :
     k \in {g \in Handlers \ {h} : /\ {handler[g].pc, handler[h].pc} \subseteq {"fill", "rewrite"}
                                   /\ handler[g].id = handler[h].id}}

(* A request ends early, on an I/O error or because the process died with  *)
(* every request in it: what it did to the files stays done, the part of a *)
(* text it had written included.                                           *)
Fail(h) ==
  /\ handler[h] # Idle
  /\ pending' \in {pending} \cup FailedToWrite(h, "pending", pending)
  /\ active' \in {active} \cup FailedToWrite(h, "active", active)
  /\ stored' \in {stored} \cup FailedToPut(h)
  /\ Finish(h)
  /\ UNCHANGED history

Create(h) == CreateCompose(h) \/ CreateExists(h) \/ CreateOpen(h) \/ CreateWrite(h)

Approve(h) ==
  \/ ApproveLoad(h) \/ ApproveCompare(h) \/ ApproveOpen(h) \/ ApproveWrite(h)
  \/ ApproveRename(h) \/ ApproveReopen(h) \/ ApproveRecord(h)

Init ==
  /\ active \in OperatorPolicies
  /\ pending = None
  /\ stored = [id \in Ids |-> NoProposal]
  /\ handler = [h \in Handlers |-> Idle]
  /\ vetted = {} /\ shared = {}

Next ==
  \/ \E h \in Handlers, c \in Callers, id \in Ids, sub \in Submissions : StartCreate(h, c, id, sub)
  \/ \E h \in Handlers, c \in Callers, id \in Ids : StartApprove(h, c, id)
  \/ \E h \in Handlers : Create(h) \/ Approve(h) \/ Fail(h)
  \/ \E P \in OperatorPolicies : Replace(P)

Spec == Init /\ [][Next]_vars

-----------------------------------------------------------------------------
(* The proposals FourEyes speaks of: one exists once its text is written,  *)
(* and is activated from the rename until it is recorded.                  *)
Activated(id) == {h \in Handlers : handler[h].id = id /\ handler[h].pc \in {"record", "rewrite"}}

ProposalOf(id) ==
  CASE Activated(id) # {} ->
         [Approved(CHOOSE h \in Activated(id) : TRUE) EXCEPT !.state = "activated"]
    [] Activated(id) = {} /\ stored[id] = NoProposal -> NoProposal
    [] OTHER -> CASE stored[id].state = "opened"   -> NoProposal
                  [] stored[id].state = "reopened" -> [stored[id] EXCEPT !.state = "activated"]
                  [] OTHER                         -> stored[id]

Promise == INSTANCE FourEyes WITH proposals <- [id \in Ids |-> ProposalOf(id)]

-----------------------------------------------------------------------------
(* Properties. *)

(* Files, requests and history have their types, the lines that overlapping *)
(* writes can spell included (policy.rs:61, policy.rs:96).                 *)
TypeOK ==
  /\ active \subseteq FileLines
  /\ pending = None \/ pending \subseteq FileLines
  /\ stored \in [Ids -> FileType \cup {NoProposal}]
  /\ \A h \in Handlers : handler[h].value # NoProposal => handler[h].value \in FileType
  /\ \A h \in Handlers : handler[h].fd \in {"pending", "active", "unlinked", None}
  /\ vetted \subseteq SUBSET FileLines /\ shared \subseteq {"pending", "active"}

(* With one writer at a time the file operations implement FourEyes, with  *)
(* crashes and I/O errors between any two of them (policy.rs:64).          *)
KeepsPromise == Promise!Spec

(* "Active rights remain one atomic TSV source" (policy.rs:1): what is in  *)
(* force is one whole text, the operator's or one that passed the checks   *)
(* of an approval by somebody other than its author (policy.rs:74).        *)
ActiveIsWhole == active \in OperatorPolicies \cup vetted

(* However requests interleave, and wherever they fail, that is so unless  *)
(* two approvals had rights.pending open at a time (policy.rs:96): what an *)
(* earlier one left there, whole or in part, never comes into force.       *)
WholeUnlessShared == "active" \notin shared => ActiveIsWhole

(* "a proposal made against an older policy would silently undo whatever   *)
(* was approved since" (policy.rs:85): what an approval replaces is the    *)
(* policy the proposal was made against, or already the proposed one.      *)
NothingIsUndone ==
  [][\A h \in Handlers :
       ApproveRename(h) /\ pending = handler[h].value.text
         => active \in {handler[h].value.base, handler[h].value.text}]_vars

=============================================================================
