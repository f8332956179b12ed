----------------------------- MODULE MCConsole -----------------------------
(* The console on two trees: a client and the server it calls.  The tenant *)
(* owns the first, then the second; the developer may reach both, then the *)
(* first.  A policy has no server, and an invalid one forgets to say so.   *)
EXTENDS Console

CONSTANTS
  a, b,                \* trees
  ada, pia, pat, u,    \* a global and two tenant administrators, a developer
  dev, pay, wks, sub,  \* a role, a tenant, two workspaces
  second,              \* a thread
  search, other        \* tools

MCNames == {ada, pia, pat, u, dev, pay, wks, sub, Admin}

MCCallers == {[user |-> n, groups |-> {}] : n \in {ada, pia, pat, u}}

Client ==
  { TreeLine(a, ada), Line("role", Admin, {a}), Line("member", ada, {Admin}),
    Line("role", dev, {a}), Line("member", u, {dev}),
    Line("tenant-admin", pia, {pay}), Line("tenant-admin", pat, {pay}) }

Core == Client \cup {Line("workspace", wks, {a, b})}

(* Both reachable, the tools on the client given in two lines. *)
Wide   == Core \cup {TreeLine(b, ada), Line("role", dev, {b}), Line("tenant", pay, {a}),
                     ToolLine(dev, a, {search}), ToolLine(dev, a, {other})}
(* The server taken from the developer, put into a second workspace, and   *)
(* the tenant moved to it.                                                 *)
Moved  == Core \cup {TreeLine(b, ada), Line("tenant", pay, {b}), Line("workspace", sub, {b}),
                     ToolLine(dev, a, {search})}
Alone  == Client \cup {Line("tenant", pay, {a})}
Broken == Core \cup {Line("role", dev, {b}), Line("tenant", pay, {a})}

MCOperatorPolicies == {Wide, Moved, Alone, Broken}
MCSubmissions == {{Line("grant", u, {a})}, {Line("grant", u, {b})}, Moved}

Route(t, handler, verb, segments)  == [tree |-> t, handler |-> handler, verb |-> verb, segments |-> segments]
Asking(t, sender, verb, segments) == [tree |-> t, sender |-> sender, verb |-> verb, segments |-> segments]

MCRoutes ==
  { Route(b, "show", "GET", <<"items", "*">>), Route(b, "by", "GET", <<"items", "by">>),
    Route(a, "hook", "ANY", <<"*", "by">>) }
MCRequests ==
  { Asking(a, "one", "GET", <<"items", "*">>), Asking(a, "some", "GET", <<"items", "by">>),
    Asking(a, "gone", "POST", <<"items", "by">>), Asking(a, "none", "GET", <<>>),
    Asking(b, "back", "POST", <<"items", "by">>) }

(* What keeps the instance small: an answered request is closed before     *)
(* anything else happens; the second thread only serves approvals by the   *)
(* global administrator; and since reviews and proposals share nothing but *)
(* the file in force, which Overwrite changes as approvals do, a review is *)
(* under way while there is no proposal and no other request, and so are   *)
(* the files without a server.                                             *)
Reviewing(r) == r.op \in {"impact", "provider"}

ClosedFirst == \A h \in Handlers : request[h].pc = "answered" => request'[h] = Idle

SecondApproves ==
  request'[second].pc = "look" => request'[second].op = "approve" /\ request'[second].caller.user = ada

Unproposed == \A id \in Ids : proposals'[id] = NoProposal

ReviewsApart ==
  /\ \A h \in Handlers : Reviewing(request'[h]) =>
       Unproposed /\ \A k \in Handlers \ {h} : request'[k].pc \in Resting
  /\ active' \in {Alone, Broken} =>
       Unproposed /\ \A h \in Handlers : request'[h].pc = "idle" \/ Reviewing(request'[h])

MCSpec == Init /\ [][Next /\ ClosedFirst /\ SecondApproves /\ ReviewsApart]_vars
=============================================================================
