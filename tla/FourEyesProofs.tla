--------------------------- MODULE FourEyesProofs ---------------------------
(***************************************************************************)
(* Proofs about FourEyes, for every set of callers, trees, tools, policies *)
(* and submissions.                                                        *)
(***************************************************************************)
EXTENDS FourEyes, ProposalsProofs

(* The variables hold policies made of known lines and well-formed         *)
(* proposals, whatever is proposed, approved, overwritten or lost.         *)
THEOREM TypeCorrect == Spec => []TypeOK
<1>1. Init => TypeOK
  BY DEF Init, TypeOK, AllLines
<1>2. TypeOK /\ [Next]_vars => TypeOK'
  <2> SUFFICES ASSUME TypeOK, [Next]_vars  PROVE TypeOK'
    OBVIOUS
  <2>1. ASSUME NEW c \in Callers, NEW id \in Ids, NEW sub \in Submissions, Propose(c, id, sub)
        PROVE  TypeOK'
    <3>1. ScopeOf(active, c) \in {Global} \cup SUBSET Trees
      BY ScopeTyped DEF TypeOK
    <3>2. ProposedText(active, sub, ScopeOf(active, c)) \in SUBSET AllLines
      BY TextTyped DEF TypeOK
    <3>3. NewProposal(active, sub, ScopeOf(active, c), c.user) \in ProposalType
      BY <3>1, <3>2, FourEyesAssumption DEF NewProposal, ProposalType, TypeOK
    <3>4. QED BY <2>1, <3>3 DEF Propose, TypeOK
  <2>2. ASSUME NEW c \in Callers, NEW id \in Ids, Activate(c, id)  PROVE TypeOK'
    <3>1. proposals[id] \in ProposalType
      BY <2>2 DEF Activate, TypeOK
    <3>2. active' \in SUBSET AllLines
      BY <2>2, <3>1 DEF Activate, ProposalType
    <3>3. [proposals[id] EXCEPT !.state = "activated", !.approver = c.user] \in ProposalType
      BY <3>1, FourEyesAssumption DEF ProposalType
    <3>4. QED BY <2>2, <3>2, <3>3 DEF Activate, TypeOK
  <2>3. ASSUME NEW id \in Ids, Record(id)  PROVE TypeOK'
    BY <2>3 DEF Record, TypeOK, ProposalType
  <2>4. ASSUME NEW id \in Ids, LoseRecord(id)  PROVE TypeOK'
    BY <2>4 DEF LoseRecord, TypeOK, ProposalType
  <2>5. ASSUME NEW P \in OperatorPolicies, Overwrite(P)  PROVE TypeOK'
    BY <2>5 DEF Overwrite, TypeOK, AllLines
  <2>6. CASE UNCHANGED vars
    BY <2>6 DEF vars, TypeOK
  <2>7. QED BY <2>1, <2>2, <2>3, <2>4, <2>5, <2>6 DEF Next
<1>3. QED BY <1>1, <1>2, PTL DEF Spec

(* A proposal once stored keeps its author, its scope and its two texts:   *)
(* what a reviewer read is what an approval puts in force.                 *)
ProposalsKept ==
  \A id \in Ids : proposals'[id] # NoProposal /\ proposals[id] # NoProposal
    => /\ proposals'[id].author = proposals[id].author
       /\ proposals'[id].scope  = proposals[id].scope
       /\ proposals'[id].base   = proposals[id].base
       /\ proposals'[id].text   = proposals[id].text

LEMMA StepKeepsProposals ==
  ASSUME TypeOK, [Next]_vars  PROVE ProposalsKept
<1>1. ASSUME NEW c \in Callers, NEW id \in Ids, NEW sub \in Submissions, Propose(c, id, sub)
      PROVE  ProposalsKept
  BY <1>1 DEF Propose, ProposalsKept, TypeOK
<1>2. ASSUME NEW c \in Callers, NEW id \in Ids, Activate(c, id)  PROVE ProposalsKept
  BY <1>2 DEF Activate, ProposalsKept, TypeOK, ProposalType
<1>3. ASSUME NEW id \in Ids, Record(id)  PROVE ProposalsKept
  BY <1>3 DEF Record, ProposalsKept, TypeOK, ProposalType
<1>4. ASSUME NEW id \in Ids, LoseRecord(id)  PROVE ProposalsKept
  BY <1>4 DEF LoseRecord, ProposalsKept, TypeOK, ProposalType
<1>5. ASSUME NEW P \in OperatorPolicies, Overwrite(P)  PROVE ProposalsKept
  BY <1>5 DEF Overwrite, ProposalsKept
<1>6. CASE UNCHANGED vars
  BY <1>6 DEF vars, ProposalsKept
<1>7. QED BY <1>1, <1>2, <1>3, <1>4, <1>5, <1>6 DEF Next

-----------------------------------------------------------------------------
(* The inductive invariant: every stored proposal is sound.                *)
IInv == \A id \in Ids : proposals[id] # NoProposal => ProposalSound(proposals[id])

LEMMA InvariantStep ==
  ASSUME TypeOK, IInv, [Next]_vars  PROVE IInv'
<1> SUFFICES ASSUME NEW id \in Ids, proposals'[id] # NoProposal
             PROVE  ProposalSound(proposals'[id])
  BY DEF IInv
<1>1. CASE proposals[id] # NoProposal
  <2>1. ProposalSound(proposals[id])
    BY <1>1 DEF IInv
  <2>2. /\ proposals'[id].scope = proposals[id].scope
        /\ proposals'[id].base = proposals[id].base
        /\ proposals'[id].text = proposals[id].text
    BY <1>1, StepKeepsProposals DEF ProposalsKept
  <2>3. QED BY <2>1, <2>2 DEF ProposalSound, Changes, Shown
<1>2. CASE proposals[id] = NoProposal
  <2>1. PICK c \in Callers, sub \in Submissions : Propose(c, id, sub)
    BY <1>2 DEF Next, vars, Propose, Activate, Record, LoseRecord, Overwrite, TypeOK
  <2>2. proposals'[id] = NewProposal(active, sub, ScopeOf(active, c), c.user)
    BY <2>1 DEF Propose, TypeOK
  <2>3. MayPropose(active, sub, ScopeOf(active, c))
    BY <2>1 DEF Propose
  <2>4. QED BY <2>2, <2>3, NewProposalSound
<1>3. QED BY <1>1, <1>2

THEOREM ProposalsSound == Spec => [](TypeOK /\ IInv)
<1>1. Init => IInv
  BY DEF Init, IInv
<1>2. TypeOK /\ IInv /\ [Next]_vars => IInv'
  BY InvariantStep
<1>3. QED BY <1>1, <1>2, TypeCorrect, PTL DEF Spec

(* The lines a proposal changes are shown to its reviewer (policy.rs:117). *)
THEOREM EveryChangeIsShown == Spec => []ReviewerSeesEveryChange
<1>1. TypeOK /\ IInv => ReviewerSeesEveryChange
  <2> SUFFICES ASSUME TypeOK, IInv, NEW id \in Ids, proposals[id] # NoProposal,
                      Valid(proposals[id].base)
               PROVE  Changes(proposals[id]) \subseteq Shown(proposals[id])
    BY DEF ReviewerSeesEveryChange
  <2>1. CASE proposals[id].scope = Global
    BY <2>1 DEF Changes, Shown, ActiveView
  <2>2. CASE proposals[id].scope # Global
    BY <2>2 DEF IInv, ProposalSound
  <2>3. QED BY <2>1, <2>2
<1>2. QED BY <1>1, ProposalsSound, PTL

(* An approval of a tenant's proposal leaves everything outside the        *)
(* tenant's trees alone (policy.rs:83).                                    *)
THEOREM TenantsStayInside == Spec => TenantStaysInside
<1>1. TypeOK /\ IInv /\ [Next]_vars
        => [\A id \in Ids, c \in Callers :
              Activate(c, id) /\ proposals[id].scope # Global
                => SameOutside(active, active', proposals[id].scope)]_vars
  <2> SUFFICES ASSUME IInv, NEW id \in Ids, NEW c \in Callers,
                      Activate(c, id), proposals[id].scope # Global
               PROVE  SameOutside(active, active', proposals[id].scope)
    OBVIOUS
  <2>1. SameOutside(proposals[id].base, proposals[id].text, proposals[id].scope)
    BY DEF IInv, ProposalSound, Activate
  <2>2. active = proposals[id].base /\ active' = proposals[id].text
    BY DEF Activate, StillApplies
  <2>3. QED BY <2>1, <2>2
<1>2. QED BY <1>1, ProposalsSound, PTL DEF Spec, TenantStaysInside

-----------------------------------------------------------------------------
(* The two views a tenant administrator is given of the policy in force. *)

(* Submitting the lines one is shown, unchanged, is no edit                *)
(* (rights.rs:456 `scoped_text` against rights.rs:467 `compose`).          *)
THEOREM ViewRoundTrip == Spec => []UnchangedViewIsNoEdit
<1>1. ASSUME NEW P, NEW S
      PROVE  /\ Composable(P, ScopedText(P, S), S)
             /\ Compose(P, ScopedText(P, S), S) = P
  <2>1. Both(P, ScopedText(P, S)) = P
    BY DEF Both, ScopedText, OfKind
  <2>2. QED BY <2>1 DEF Composable, Compose, ScopedText
<1>2. UnchangedViewIsNoEdit
  BY <1>1 DEF UnchangedViewIsNoEdit
<1>3. QED BY <1>2, PTL

(* The access review of a tenant tells exactly what the whole policy       *)
(* grants inside it (rights.rs:159 `restricted_to`).                       *)
THEOREM TenantReviewIsExact == Spec => []ReviewIsExact
<1>1. TypeOK => ReviewIsExact
  BY RestrictedAnswers DEF TypeOK, ReviewIsExact
<1>2. QED BY <1>1, TypeCorrect, PTL

=============================================================================
