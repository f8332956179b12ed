------------------------------ MODULE FourEyes ------------------------------
(***************************************************************************)
(* What the policy proposals promise (src/policy.rs and their endpoints in *)
(* src/main.rs), with each check and the effect it licenses in one step.   *)
(*                                                                         *)
(* An administrator proposes a new rights file; somebody else whose scope  *)
(* covers the proposal puts it in force, provided the file in force is     *)
(* still the one the proposal was made against.  PolicyApproval refines    *)
(* this with the separate file operations of the code.                     *)
(***************************************************************************)
EXTENDS Proposals

VARIABLES
  active,     \* the rights file in force
  proposals   \* the proposal stored under each identifier

vars == <<active, proposals>>

-----------------------------------------------------------------------------
Init ==
  /\ active \in OperatorPolicies
  /\ proposals = [id \in Ids |-> NoProposal]

Propose(c, id, sub) ==
  /\ proposals[id] = NoProposal
  /\ MayPropose(active, sub, ScopeOf(active, c))
  /\ proposals' = [proposals EXCEPT ![id] = NewProposal(active, sub, ScopeOf(active, c), c.user)]
  /\ UNCHANGED active

(* The proposal takes effect. *)
Activate(c, id) ==
  /\ proposals[id] # NoProposal
  /\ MayLoad(proposals[id], c.user, ScopeOf(active, c))
  /\ StillApplies(proposals[id], active)
  /\ active' = proposals[id].text
  /\ proposals' = [proposals EXCEPT ![id].state = "activated", ![id].approver = c.user]

(* Its file says so. *)
Record(id) ==
  /\ proposals[id] # NoProposal
  /\ proposals[id].state = "activated"
  /\ proposals' = [proposals EXCEPT ![id].state = "approved"]
  /\ UNCHANGED active

(* The process died, or could not write, between the two. *)
LoseRecord(id) ==
  /\ proposals[id] # NoProposal
  /\ proposals[id].state = "activated"
  /\ proposals' = [proposals EXCEPT ![id].state = "pending", ![id].approver = NoProposal]
  /\ UNCHANGED active

(* Anything else that replaces the rights file: the operator, the mirror. *)
Overwrite(P) ==
  /\ active' = P
  /\ UNCHANGED proposals

Next ==
  \/ \E c \in Callers, id \in Ids, sub \in Submissions : Propose(c, id, sub)
  \/ \E c \in Callers, id \in Ids : Activate(c, id)
  \/ \E id \in Ids : Record(id) \/ LoseRecord(id)
  \/ \E P \in OperatorPolicies : Overwrite(P)

Spec == Init /\ [][Next]_vars

-----------------------------------------------------------------------------
(* Properties. *)

(* The variables hold policies and proposals made of the lines that the    *)
(* operator wrote or an administrator submitted (policy.rs:61).            *)
TypeOK ==
  /\ active \subseteq AllLines
  /\ proposals \in [Ids -> ProposalType \cup {NoProposal}]

(* No approval of a tenant administrator's proposal changes anything       *)
(* outside the tenant's trees, whatever happened to the file between the   *)
(* proposal and the approval (rights.rs:464 `compose`, policy.rs:83).      *)
TenantStaysInside ==
  [][\A id \in Ids, c \in Callers :
       Activate(c, id) /\ proposals[id].scope # Global
         => SameOutside(active, active', proposals[id].scope)]_vars

(* The lines a proposal adds or removes are all lines its reviewer is      *)
(* shown, unless the file it was made against was already invalid          *)
(* (policy.rs:117 `read` shows both texts through `active_view`).          *)
ReviewerSeesEveryChange ==
  \A id \in Ids :
    proposals[id] # NoProposal /\ Valid(proposals[id].base)
      => Changes(proposals[id]) \subseteq Shown(proposals[id])

(* Submitting unchanged the lines one is shown changes nothing, so an edit *)
(* of some of them never disturbs the rest (rights.rs:456 `scoped_text`,   *)
(* which fills the console's editor, against `compose`).                   *)
UnchangedViewIsNoEdit ==
  \A S \in SUBSET Trees :
    /\ Composable(active, ScopedText(active, S), S)
    /\ Compose(active, ScopedText(active, S), S) = active

(* The access review cut down to a tenant tells the truth: it grants       *)
(* exactly the access the whole policy grants inside the tenant's trees,   *)
(* and none outside (rights.rs:159 `restricted_to`).                       *)
ReviewIsExact ==
  \A S \in SUBSET Trees, c \in Callers, t \in Trees :
    /\ May(RestrictedTo(active, S), c.user, c.groups, t)
         <=> t \in S /\ May(active, c.user, c.groups, t)
    /\ \A tool \in Tools :
         MayTool(RestrictedTo(active, S), c.user, c.groups, t, tool)
           <=> t \in S /\ MayTool(active, c.user, c.groups, t, tool)

=============================================================================
