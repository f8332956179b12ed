----------------------------- MODULE Proposals -----------------------------
(***************************************************************************)
(* What a policy proposal is and what its checks ask (src/policy.rs),      *)
(* apart from when they are asked: FourEyes and PolicyApproval say that.   *)
(***************************************************************************)
EXTENDS Rights

CONSTANTS
  Callers,           \* authenticated callers: records of a user and IdP groups
  Ids,               \* identifiers of proposals
  Submissions,       \* the texts an administrator may submit
  OperatorPolicies,  \* the files the operator or the mirror may install
  NoProposal         \* the content of a proposal file that does not exist

AllLines == UNION (OperatorPolicies \cup Submissions)

ASSUME FourEyesAssumption ==
  /\ \A c \in Callers : c.user \in Names /\ c.groups \subseteq Names
  /\ \A l \in AllLines : WellFormed(l)

ScopeOf(P, c) == AdminScope(P, c.user, c.groups)

(* The text a submission stands for: a tenant administrator's edit is      *)
(* composed with the policy in force.                                      *)
ProposedText(P, sub, scope) == IF scope = Global THEN sub ELSE Compose(P, sub, scope)

(* Mutant: the composed text is not validated. *)
MayProposeInvalid(P, sub, scope) ==
  scope # {} /\ (scope # Global => Composable(P, sub, scope))

MayPropose(P, sub, scope) ==
  /\ scope # {}
  /\ scope # Global => Composable(P, sub, scope)
  /\ Valid(ProposedText(P, sub, scope))

NewProposal(P, sub, scope, author) ==
  [state |-> "pending", author |-> author, scope |-> scope, base |-> P,
   text |-> ProposedText(P, sub, scope), approver |-> NoProposal]

(* The checks of `approve` on the proposal alone: another author, still    *)
(* pending, within the approver's scope.                                   *)
(* Mutant: authors may approve their own proposals. *)
MayLoadOwn(p, user, scope) == p.state = "pending" /\ Covers(scope, p.scope)

MayLoad(p, user, scope) ==
  /\ p.author # user
  /\ p.state = "pending"
  /\ Covers(scope, p.scope)

(* And against the policy in force: made against it, and still valid.      *)
(* Mutant: the policy in force is not compared. *)
AppliesToAny(p, P) == Valid(p.text)

StillApplies(p, P) == p.base = P /\ Valid(p.text)

(* "activated" is the time between taking effect and being recorded. *)
ProposalType ==
  [state : {"pending", "activated", "approved"}, author : Names,
   scope : {Global} \cup SUBSET Trees, base : SUBSET AllLines, text : SUBSET AllLines,
   approver : Names \cup {NoProposal}]

(* What a change of policy inside the trees S must leave alone: who may    *)
(* reach every other tree and with which tools, who administers what, and  *)
(* every tree's backend credential.                                        *)
SameOutside(P, R, S) ==
  /\ \A c \in Callers, t \in Trees \ S :
       /\ May(P, c.user, c.groups, t) <=> May(R, c.user, c.groups, t)
       /\ \A tool \in Tools :
            MayTool(P, c.user, c.groups, t, tool) <=> MayTool(R, c.user, c.groups, t, tool)
  /\ \A c \in Callers : ScopeOf(P, c) = ScopeOf(R, c)
  /\ OfKind(P, "tree") = OfKind(R, "tree")

(* The lines a proposal adds or removes, and the ones its reviewer is      *)
(* shown: both texts as the proposal's scope sees them.                    *)
Changes(p) == (p.base \ p.text) \cup (p.text \ p.base)
Shown(p)   == ActiveView(p.base, p.scope) \cup ActiveView(p.text, p.scope)

=============================================================================
