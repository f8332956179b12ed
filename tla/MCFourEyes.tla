----------------------------- MODULE MCFourEyes -----------------------------
(* FourEyes on two trees, one tenant owning the first of them, two        *)
(* administrators of that tenant and two global ones.                     *)
EXTENDS FourEyes

CONSTANTS
  a, b,                    \* trees
  ada, gus, pia, pat, u,   \* users: two global and two tenant administrators, one developer
  dev, ops, eng,           \* roles, and an IdP group
  pay, wks,                \* a tenant, a workspace
  search,                  \* a tool
  other                    \* a tool, and a package

MCNames == {ada, gus, pia, pat, u, dev, ops, eng, pay, wks, Admin}

MCCallers == {[user |-> n, groups |-> {}] : n \in {ada, gus, pia, pat, u}}
               \cup {[user |-> u, groups |-> {eng}]}

Core ==
  { TreeLine(a, ada), TreeLine(b, ada), Line("role", Admin, {a, b}),
    Line("member", ada, {Admin}), Line("member", gus, {Admin}),
    Line("tenant", pay, {a}),
    Line("tenant-admin", pia, {pay}), Line("tenant-admin", pat, {pay}) }

(* A role that reaches both trees, with a tool policy on each, a workspace *)
(* across them, a mapped group, and a file the validation would refuse:    *)
(* the last policy assigns a role nothing declares.                        *)
MCOperatorPolicies ==
  { Core \cup {Line("grant", u, {a, b}), Line("role", dev, {a}), Line("member", u, {dev})},
    Core \cup {Line("role", dev, {a}), Line("role", dev, {b}), Line("role", ops, {a}),
               ToolLine(dev, a, {search}), ToolLine(dev, b, {search}),
               Line("member", u, {dev, ops}), Line("group", eng, {ops})},
    Core \cup {Line("workspace", wks, {b}), Line("grant", u, {b}), Line("role", ops, {a}),
               Line("group", eng, {ops})},
    Core \cup {Line("role", dev, {b}), Line("member", u, {ops}), Line("group", eng, {dev})} }

Inserted ==
  { Line("grant", u, {a}), Line("grant", u, {b}), Line("role", dev, {a}), Line("role", ops, {a}),
    Line("member", u, {ops}), ToolLine(dev, a, {search, other}), Line("workspace", wks, {a}) }

MCSubmissions ==
  {Q \in SUBSET Inserted : \E P \in OperatorPolicies : Composable(P, Q, {a}) /\ Q # {}}
    \cup {{}, {Line("grant", u, {b})}, {Line("member", u, {Admin})}}
    \cup {Core \cup {Line("grant", u, {b})}}
=============================================================================
