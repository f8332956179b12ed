------------------------------ MODULE Gateway ------------------------------
(***************************************************************************)
(* An MCP request on its way to a backend (`handle` in src/main.rs,        *)
(* `route` in src/proxy.rs): whom the credential it presents stands for    *)
(* (src/auth.rs), the lease on the rights file, and what the rights let    *)
(* through (`Watched` in src/rights.rs).  Both files change under it, and  *)
(* all threads share a cache in front of each.                             *)
(*                                                                         *)
(* Time is counted in the steps of the file system's clock: two writes in  *)
(* one step leave the same mtime.  Every writer renames a finished file    *)
(* into place, in the step it was written in, so contents are whole and    *)
(* modification times do not go back.                                      *)
(***************************************************************************)
EXTENDS Rights, Integers

CONSTANTS
  Handlers,         \* request threads
  Oidc,             \* whether --oidc-issuer is given: a JWKS instead of tokens
  Bearers,          \* what callers present: a key, and the claims of a JWT
  CredentialFiles,  \* the token or key files somebody may install
  Policies,         \* the rights files somebody may install
  MaxAge,           \* --sync-max-age
  MaxTime,          \* bound on the clock
  OneStep,          \* TRUE: two writes may fall into one step of the clock
  None

(* A credential file lists keys: static tokens with whom they stand for    *)
(* and until when, 0 being for ever, or public keys, where the bearer's    *)
(* token says so itself.  A key listed twice, which the validation warns   *)
(* of, is left out.                                                        *)
Claims == [expires : Nat, user : Names, groups : SUBSET Names]

ASSUME GatewayAssumption ==
  /\ MaxAge \in Nat /\ MaxTime \in Nat
  /\ OneStep \in BOOLEAN /\ Oidc \in BOOLEAN
  /\ \A b \in Bearers : Oidc => b.claims \in Claims
  /\ \A K \in CredentialFiles : \A e \in K :
       /\ ~Oidc => e.claims \in Claims /\ e.claims.groups = {}
       /\ \A d \in K : d.key = e.key => d = e
  /\ \A P \in Policies : \A l \in P : WellFormed(l)
  /\ None \notin Nat /\ None \notin Tools /\ None \notin Claims

Files == {"credentials", "rights"}

VARIABLES
  now,         \* the clock
  file,        \* the credential file and the rights file
  mtime,       \* their modification times
  cache,       \* the mtime and content of the last load of each; `misread`
               \* remembers, as history, that the load failed
  request      \* what each thread is doing; `at` and `since` hold, as
               \* history, when its request was received and the contents
               \* each file has had from then on

vars == <<now, file, mtime, cache, request>>

Idle == [pc |-> "idle", bearer |-> None, tree |-> None, tool |-> None, mtime |-> None,
         who |-> None, rights |-> None, misread |-> FALSE,
         at |-> 0, since |-> [f \in Files |-> {}]]

Set(h, rec) == request' = [request EXCEPT ![h] = rec]

-----------------------------------------------------------------------------
(* Whom a bearer stands for at time t: the holder of an entry of its key   *)
(* that has not expired, or nobody.                                        *)
Identify(K, bearer, t) ==
  LET claims(e) == IF Oidc THEN bearer.claims ELSE e.claims
      valid     == {e \in K : /\ e.key = bearer.key
                              /\ claims(e).expires = 0 \/ claims(e).expires > t}
  IN  IF valid = {} THEN None ELSE claims(CHOOSE e \in valid : TRUE)

(* What the policy lets through: `route`, which asks with no groups, and   *)
(* then the tool, asked with them, if the request calls one.               *)
Routed(P, who, tree) == May(P, who.user, {}, tree) /\ tree \in Declared(P, "tree")

Permitted(P, who, tree, tool) ==
  /\ who # None
  /\ Routed(P, who, tree)
  /\ tool # None => MayTool(P, who.user, who.groups, tree, tool)

-----------------------------------------------------------------------------
Tick ==
  /\ now < MaxTime
  /\ now' = now + 1
  /\ UNCHANGED <<file, mtime, cache, request>>

Joined(since, f, content) ==
  [g \in Files |-> IF g = f THEN since[g] \cup {content} ELSE since[g]]

(* The operator, a reconciliation, a webhook or an approval renames a      *)
(* finished file into place.                                               *)
Install(f, content) ==
  /\ OneStep \/ mtime[f] # now
  /\ file' = [file EXCEPT ![f] = content]
  /\ mtime' = [mtime EXCEPT ![f] = now]
  /\ request' = [h \in Handlers |->
       IF request[h].pc = "idle" THEN request[h]
       ELSE [request[h] EXCEPT !.since = Joined(request[h].since, f, content)]]
  /\ UNCHANGED <<now, cache>>

Receive(h, bearer, tree, tool) ==
  /\ request[h].pc = "idle"
  /\ Set(h, [Idle EXCEPT !.pc = "stat-credentials", !.bearer = bearer, !.tree = tree, !.tool = tool,
                         !.at = now, !.since = [f \in Files |-> {file[f]}]])
  /\ UNCHANGED <<now, file, mtime, cache>>

(* `current`, and `keys`: the mtime is read before the lock is taken.      *)
StatCredentials(h) ==
  /\ request[h].pc = "stat-credentials"
  /\ Set(h, [request[h] EXCEPT !.pc = "load-credentials", !.mtime = mtime["credentials"]])
  /\ UNCHANGED <<now, file, mtime, cache>>

StatRights(h) ==
  /\ request[h].pc = "stat-rights"
  /\ Set(h, [request[h] EXCEPT !.pc = "load-rights", !.mtime = mtime["rights"]])
  /\ UNCHANGED <<now, file, mtime, cache>>

(* Mutants: the cache is stamped with the clock, or filled only once. *)
LoadStampedNow(h, f) ==
  \/ cache[f].mtime = request[h].mtime /\ UNCHANGED cache
  \/ /\ cache[f].mtime # request[h].mtime
     /\ cache' = [cache EXCEPT ![f] = [mtime |-> now, value |-> file[f], misread |-> FALSE]]

LoadOnce(h, f) ==
  \/ cache[f].mtime # None /\ UNCHANGED cache
  \/ /\ cache[f].mtime = None
     /\ cache' = [cache EXCEPT ![f] = [mtime |-> request[h].mtime, value |-> file[f], misread |-> FALSE]]

(* Under the lock: the cache is used if its stamp is the mtime read, or    *)
(* else filled; a file that cannot be read counts as an empty one.         *)
Load(h, f) ==
  \/ cache[f].mtime = request[h].mtime /\ UNCHANGED cache
  \/ /\ cache[f].mtime # request[h].mtime
     /\ \/ cache' = [cache EXCEPT ![f] = [mtime |-> request[h].mtime, value |-> file[f], misread |-> FALSE]]
        \/ cache' = [cache EXCEPT ![f] = [mtime |-> request[h].mtime, value |-> {}, misread |-> TRUE]]

(* The clock is read before the tokens are, and after the keys are.        *)
LoadCredentials(h) ==
  /\ request[h].pc = "load-credentials"
  /\ Load(h, "credentials")
  /\ \E t \in request[h].at .. now :
       Set(h, [request[h] EXCEPT !.pc = "lease", !.misread = cache'["credentials"].misread,
                 !.who = Identify(cache'["credentials"].value, request[h].bearer, t)])
  /\ UNCHANGED <<now, file, mtime>>

Fresh == now - mtime["rights"] <= MaxAge

(* Mutant: the lease is forgotten. *)
LeaseIgnored(h) ==
  /\ request[h].pc = "lease"
  /\ Set(h, [request[h] EXCEPT !.pc = "stat-rights"])
  /\ UNCHANGED <<now, file, mtime, cache>>

(* A stale mirror answers 503. *)
CheckLease(h) ==
  /\ request[h].pc = "lease"
  /\ Set(h, IF Fresh THEN [request[h] EXCEPT !.pc = "stat-rights"] ELSE Idle)
  /\ UNCHANGED <<now, file, mtime, cache>>

LoadRights(h) ==
  /\ request[h].pc = "load-rights"
  /\ Load(h, "rights")
  /\ Set(h, [request[h] EXCEPT !.pc = "route", !.rights = cache'["rights"].value,
              !.misread = @ \/ cache'["rights"].misread])
  /\ UNCHANGED <<now, file, mtime>>

Decided(h) == Permitted(request[h].rights, request[h].who, request[h].tree, request[h].tool)

Forward(h) ==
  /\ request[h].pc = "route" /\ Decided(h)
  /\ Set(h, Idle)
  /\ UNCHANGED <<now, file, mtime, cache>>

(* 401 for the credential, 404 for the tree, 403 for the tool. *)
Refuse(h) ==
  /\ request[h].pc = "route" /\ ~Decided(h)
  /\ Set(h, Idle)
  /\ UNCHANGED <<now, file, mtime, cache>>

(* The process starts with a reconciliation and empty caches. *)
Init ==
  /\ now = 0
  /\ \E K \in CredentialFiles, P \in Policies :
       file = [f \in Files |-> IF f = "rights" THEN P ELSE K]
  /\ mtime = [f \in Files |-> 0]
  /\ cache = [f \in Files |-> [mtime |-> None, value |-> {}, misread |-> FALSE]]
  /\ request = [h \in Handlers |-> Idle]

Step(h) ==
  \/ StatCredentials(h) \/ LoadCredentials(h) \/ CheckLease(h)
  \/ StatRights(h) \/ LoadRights(h) \/ Forward(h) \/ Refuse(h)

Next ==
  \/ Tick
  \/ \E K \in CredentialFiles : Install("credentials", K)
  \/ \E P \in Policies : Install("rights", P)
  \/ \E h \in Handlers, b \in Bearers, tree \in Trees, tool \in Tools \cup {None} :
       Receive(h, b, tree, tool)
  \/ \E h \in Handlers : Step(h)

Spec == Init /\ [][Next]_vars

-----------------------------------------------------------------------------
(* Properties. *)

(* The clock and the files have their types; a cache holds what the file   *)
(* held when its mtime was read, or nothing (rights.rs:940, auth.rs:98).   *)
TypeOK ==
  /\ now \in 0 .. MaxTime
  /\ file["credentials"] \in CredentialFiles /\ file["rights"] \in Policies
  /\ \A f \in Files :
       /\ mtime[f] \in 0 .. now
       /\ cache[f].mtime \in 0 .. mtime[f] \cup {None}
       /\ cache[f].misread => cache[f].value = {}
  /\ \A h \in Handlers :
       /\ request[h].pc \in {"idle", "stat-credentials", "load-credentials", "lease",
                             "stat-rights", "load-rights", "route"}
       /\ request[h].who # None => request[h].who.user \in Names
       /\ request[h].since["credentials"] \subseteq CredentialFiles
       /\ request[h].since["rights"] \subseteq Policies

(* A request is let through by the contents the two files have had since   *)
(* it was received, its credential judged at time t.                       *)
Lets(h, K, P, t) ==
  Permitted(P, Identify(K, request[h].bearer, t), request[h].tree, request[h].tool)

(* "a revocation takes effect on the next request" (README.md:75), of a    *)
(* grant or of a credential: a request is forwarded only if a credential   *)
(* file and a policy in force since it was received let it through, and    *)
(* refused only if such files do not or one of them could not be read,     *)
(* whatever other requests load meanwhile.                                 *)
EffectOnNextRequest ==
  [][\A h \in Handlers :
       LET since == request[h].since
       IN  /\ Forward(h) => \E K \in since["credentials"], P \in since["rights"] :
                              Lets(h, K, P, request[h].at)
           /\ Refuse(h)  => \/ request[h].misread
                            \/ \E K \in since["credentials"], P \in since["rights"] :
                                 ~Lets(h, K, P, now)]_vars

(* "rather than serving rights that may have missed a revocation"          *)
(* (README.md:225): what a request is decided by was written no longer     *)
(* than the lease before the request was received.                         *)
WithinLease ==
  [][\A h \in Handlers :
       Forward(h) \/ Refuse(h) => request[h].at - request[h].mtime <= MaxAge]_vars

(* "Groups reach rights through `group <name> <role>` lines"               *)
(* (docs/sso.md:20): who may reach a tree and use a tool, by groups too,   *)
(* in every policy in force since the request, is not refused it.          *)
GroupsReachTrees ==
  [][\A h \in Handlers :
       Refuse(h) /\ request[h].who # None /\ ~request[h].misread =>
         \E P \in request[h].since["rights"] :
           \/ request[h].tree \notin Declared(P, "tree")
           \/ ~May(P, request[h].who.user, request[h].who.groups, request[h].tree)
           \/ request[h].tool # None /\ ~MayTool(P, request[h].who.user, request[h].who.groups,
                                                 request[h].tree, request[h].tool)]_vars

=============================================================================
