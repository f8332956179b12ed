----------------------------- MODULE MCGateway -----------------------------
(* Gateway on one tree, a user with a role, a tool policy and a group. *)
EXTENDS Gateway, TLC

CONSTANTS a, u, dev, eng, search, edit, k

MCNames == {u, dev, eng, Admin}

(* An access token of the user that outlives the model, one that does not. *)
JwtBearers == {[key |-> k, claims |-> [expires |-> t, user |-> u, groups |-> {eng}]] : t \in {1, 9}}

(* The issuer's key, and the file after it was rotated away. *)
KeyFiles == {{[key |-> k, claims |-> None]}, {}}

TokenBearers == {[key |-> k, claims |-> None]}

(* A token that expires, and the same made permanent: the first revokes    *)
(* the second once it has expired.                                         *)
TokenFiles == {{[key |-> k, claims |-> [expires |-> t, user |-> u, groups |-> {}]]} : t \in {0, 1}}

(* Nothing granted, or a role restricted to one tool, held directly or     *)
(* through a group only.                                                   *)
Nothing == {TreeLine(a, u)}
Restricted == {TreeLine(a, u), Line("role", dev, {a}), ToolLine(dev, a, {search})}

MemberPolicies == {Nothing, Restricted \cup {Line("member", u, {dev})}}
GroupPolicies  == {Nothing, Restricted \cup {Line("group", eng, {dev})}}

Symmetry == Permutations(Handlers)
=============================================================================
