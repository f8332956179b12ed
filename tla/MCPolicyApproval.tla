-------------------------- MODULE MCPolicyApproval --------------------------
(* PolicyApproval with two global administrators and whole texts of four   *)
(* lines, or with one and two of a tenant that owns the only tree.         *)
EXTENDS PolicyApproval, TLC

CONSTANTS a, ada, gus, ops, pia, pat, u, v, pay

MCNames == {ada, gus, ops, pia, pat, u, v, pay, Admin}

GlobalAdmins == {[user |-> n, groups |-> {ops}] : n \in {ada, gus}}
MixedAdmins  == {[user |-> n, groups |-> {}] : n \in {ada, pia, pat}}

Core ==
  { TreeLine(a, pay), Line("role", Admin, {a}),
    Line("member", ada, {Admin}), Line("member", gus, {Admin}),
    Line("tenant", pay, {a}), Line("tenant-admin", pia, {pay}), Line("tenant-admin", pat, {pay}) }

(* The administrators are the members of one group. *)
SmallCore == { TreeLine(a, pay), Line("role", Admin, {a}), Line("group", ops, {Admin}) }

GrantU == Line("grant", u, {a})
GrantV == Line("grant", v, {a})

OneOperatorPolicy == {Core}
SmallPolicy       == {SmallCore}

(* Whole files for a global administrator, edits for a tenant's. *)
MCSubmissions == {Core \cup {GrantV}, {GrantV}, {GrantU}}
TwoTexts      == {SmallCore \cup {GrantU}, SmallCore \cup {GrantV}}

(* A grant that stands in no text, from the end of a line that names it.   *)
TornGrant == {Line("grant", pat, {a})}

(* Parts of a text: none of its lines, the edited ones, all; and in the    *)
(* small texts all but an edited one.                                      *)
CorePieces(P)  == {{}, P \ Core, P}
SmallPieces(P) == {{}, P \ SmallCore, P \cap SmallCore, P}

(* Nothing tells the two administrators, proposals, threads or users of    *)
(* the concurrent runs apart.                                              *)
Symmetry == Permutations({ada, gus}) \cup Permutations(Ids)
              \cup Permutations(Handlers) \cup Permutations({u, v})
=============================================================================
