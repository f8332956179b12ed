--------------------------- MODULE GatewayProofs ---------------------------
(***************************************************************************)
(* A changed rights or credential file takes effect on the next request,   *)
(* for any number of request threads, credentials and policies, as long as *)
(* no two writes leave the same mtime; and no request is decided by rights *)
(* older than the lease, whatever the mtimes.                              *)
(***************************************************************************)
EXTENDS Gateway, TLAPS

(***************************************************************************)
(* The inductive invariant of the caches.  What a thread is about to load, *)
(* the file or the cache if its mtime is the one the thread read, was in   *)
(* force after its request was received, or is what a failed load left.    *)
(***************************************************************************)
TimeOK ==
  /\ now \in Nat
  /\ \A f \in Files : mtime[f] \in Nat /\ mtime[f] <= now
  /\ \A f \in Files : cache[f].mtime \in Nat \cup {None}
  /\ \A f \in Files : cache[f].mtime # None => cache[f].mtime <= mtime[f]

(* The four variables are functions of what they are indexed with, and     *)
(* requests are records with these fields, so that a field can be updated. *)
Fields == {"pc", "bearer", "tree", "tool", "mtime", "who", "rights", "misread", "at", "since"}
IsRequest(rec) ==
  /\ rec = [x \in Fields |-> rec[x]]
  /\ rec.since = [f \in Files |-> rec.since[f]]
ShapeOK ==
  /\ DOMAIN file = Files /\ DOMAIN mtime = Files /\ DOMAIN cache = Files
  /\ request = [h \in Handlers |-> request[h]]
  /\ \A h \in Handlers : IsRequest(request[h])

CacheCurrent ==
  \A f \in Files :
    /\ cache[f].mtime = mtime[f] => cache[f].misread \/ cache[f].value = file[f]
    /\ cache[f].misread => cache[f].value = {}

(* The file a thread has read the mtime of. *)
Loading(pc) == CASE pc = "load-credentials" -> {"credentials"}
                 [] pc = "load-rights"      -> {"rights"}
                 [] OTHER                   -> {}

Identified == {"lease", "stat-rights", "load-rights", "route"}

RequestOK(rec) ==
  /\ rec.at \in Nat /\ rec.at <= now
  /\ rec.bearer \in Bearers
  /\ \A f \in Files : file[f] \in rec.since[f]
  /\ rec.since["credentials"] \subseteq CredentialFiles
  /\ \A f \in Loading(rec.pc) :
       /\ rec.mtime \in Nat /\ rec.mtime <= mtime[f]
       /\ cache[f].mtime = rec.mtime => cache[f].misread \/ cache[f].value \in rec.since[f]
  /\ rec.pc \in Identified =>
       \/ \E K \in rec.since["credentials"], t \in Nat :
            rec.at <= t /\ t <= now /\ rec.who = Identify(K, rec.bearer, t)
       \/ rec.misread /\ rec.who = None
  /\ rec.pc = "route" => rec.rights \in rec.since["rights"] \/ (rec.misread /\ rec.rights = {})

AllRequestsOK == \A h \in Handlers : request[h].pc # "idle" => RequestOK(request[h])

Inv == TimeOK /\ ShapeOK /\ CacheCurrent /\ AllRequestsOK /\ file["credentials"] \in CredentialFiles

-----------------------------------------------------------------------------
(* What the checks answer. *)

LEMMA IdleShape == Idle.pc = "idle" /\ IsRequest(Idle)
BY DEF Idle, Fields, IsRequest

LEMMA NobodyInNoFile == \A b, t : Identify({}, b, t) = None
BY DEF Identify

LEMMA NothingWithoutRights == \A who, tree, tool : ~Permitted({}, who, tree, tool)
BY DEF Permitted, Routed, Declared, OfKind

LEMMA NobodyIsRefused == \A P, tree, tool : ~Permitted(P, None, tree, tool)
BY DEF Permitted

(* Later, a credential stands for the same person or for nobody any more. *)
LEMMA LaterTheSameOrNobody ==
  ASSUME NEW K \in CredentialFiles, NEW b \in Bearers, NEW t \in Nat, NEW s \in Nat, t <= s
  PROVE  Identify(K, b, s) \in {None, Identify(K, b, t)}
<1> DEFINE claims(e) == IF Oidc THEN b.claims ELSE e.claims
           valid(x) == {e \in K : /\ e.key = b.key
                                  /\ claims(e).expires = 0 \/ claims(e).expires > x}
<1>1. \A x : Identify(K, b, x) = IF valid(x) = {} THEN None
                                 ELSE claims(CHOOSE e \in valid(x) : TRUE)
  BY DEF Identify
<1>2. CASE valid(s) = {}
  BY <1>1, <1>2
<1>3. CASE valid(s) # {}
  <2>1. PICK e \in valid(s) : TRUE
    BY <1>3
  <2>2. claims(e).expires \in Nat
    <3>1. e \in K
      BY <2>1
    <3>2. CASE Oidc
      BY <3>2, GatewayAssumption DEF Claims
    <3>3. CASE ~Oidc
      BY <3>1, <3>3, GatewayAssumption DEF Claims
    <3> QED  BY <3>2, <3>3
  <2>3. e \in valid(t)
    BY <2>1, <2>2
  <2>4. \A x : \A d \in valid(x) : e \in valid(x) => d = e
    BY GatewayAssumption
  <2>5. (CHOOSE d \in valid(s) : TRUE) = e /\ (CHOOSE d \in valid(t) : TRUE) = e
    BY <2>1, <2>3, <2>4
  <2> QED  BY <1>1, <1>3, <2>3, <2>5
<1> QED  BY <1>2, <1>3

-----------------------------------------------------------------------------
(* The invariant is inductive. *)

LEMMA InitInv == Init => Inv
<1> SUFFICES ASSUME Init  PROVE Inv
  OBVIOUS
<1>1. \A h \in Handlers : request[h] = Idle
  BY DEF Init
<1>2. TimeOK
  BY DEF Init, TimeOK
<1>3. CacheCurrent
  BY GatewayAssumption DEF Init, CacheCurrent
<1>4. AllRequestsOK
  BY <1>1, IdleShape DEF AllRequestsOK
<1>5. ShapeOK
  BY <1>1, IdleShape DEF Init, ShapeOK
<1>6. file["credentials"] \in CredentialFiles
  BY DEF Init, Files
<1> QED  BY <1>2, <1>3, <1>4, <1>5, <1>6 DEF Inv

(* A new file: every request under way counts it among those in force. *)
LEMMA InstallStep ==
  ASSUME ~OneStep, Inv, NEW f \in Files, NEW P, Install(f, P),
         f = "credentials" => P \in CredentialFiles
  PROVE  Inv'
<1>1. /\ file'[f] = P /\ mtime'[f] = now /\ mtime[f] < now /\ UNCHANGED <<now, cache>>
      /\ \A g \in Files : g # f => file'[g] = file[g] /\ mtime'[g] = mtime[g]
      /\ DOMAIN file' = Files /\ DOMAIN mtime' = Files
  <2>1. /\ file' = [file EXCEPT ![f] = P] /\ mtime' = [mtime EXCEPT ![f] = now]
        /\ OneStep \/ mtime[f] # now
        /\ UNCHANGED <<now, cache>>
    BY Zenon DEF Install
  <2> QED  BY <2>1 DEF Inv, TimeOK, ShapeOK
<1>2. \A h \in Handlers :
        /\ request[h].pc = "idle" => request'[h] = request[h]
        /\ request[h].pc # "idle" =>
             /\ \A x \in Fields \ {"since"} : request'[h][x] = request[h][x]
             /\ request'[h].since[f] = request[h].since[f] \cup {P}
             /\ \A g \in Files : g # f => request'[h].since[g] = request[h].since[g]
             /\ IsRequest(request'[h])
  <2> TAKE h \in Handlers
  <2>1. CASE request[h].pc = "idle"
    BY <2>1 DEF Install
  <2>2. CASE request[h].pc # "idle"
    <3>1. request'[h] = [request[h] EXCEPT !.since = Joined(request[h].since, f, P)]
      BY <2>2 DEF Install
    <3>2. PICK S : S = Joined(request[h].since, f, P)
      OBVIOUS
    <3>3. request'[h] = [request[h] EXCEPT !.since = S]
      BY <3>1, <3>2
    <3>4. IsRequest(request[h])
      BY DEF Inv, ShapeOK
    <3>5. "since" \in Fields
      BY DEF Fields
    <3>6. request'[h] = [x \in Fields |-> IF x = "since" THEN S ELSE request[h][x]]
      BY <3>3, <3>4, <3>5 DEF IsRequest
    <3>7. request'[h].since = S
      BY <3>5, <3>6
    <3>8. request'[h].since = [g \in Files |-> IF g = f THEN request[h].since[f] \cup {P}
                                                     ELSE request[h].since[g]]
      BY <3>2, <3>7 DEF Joined
    <3> QED  BY <2>2, <3>6, <3>8 DEF IsRequest
  <2> QED  BY <2>1, <2>2
<1>3. TimeOK' /\ CacheCurrent'
  BY <1>1, GatewayAssumption DEF Inv, TimeOK, CacheCurrent
<1>4. ShapeOK'
  <2>1. request' = [h \in Handlers |-> request'[h]]
    BY DEF Install
  <2>2. \A h \in Handlers : IsRequest(request'[h])
    BY <1>2 DEF Inv, ShapeOK
  <2> QED  BY <1>1, <2>1, <2>2 DEF Inv, ShapeOK
<1>5. AllRequestsOK'
  <2> SUFFICES ASSUME NEW h \in Handlers, request'[h].pc # "idle"
               PROVE  RequestOK(request[h])'
    BY DEF AllRequestsOK
  <2>1. request[h].pc # "idle"
    BY <1>2
  <2>2. RequestOK(request[h])
    BY <2>1 DEF Inv, AllRequestsOK
  <2>3. {"pc", "bearer", "mtime", "who", "rights", "misread", "at"} \subseteq Fields \ {"since"}
    BY DEF Fields
  <2>4. /\ request'[h].pc = request[h].pc /\ request'[h].bearer = request[h].bearer
        /\ request'[h].mtime = request[h].mtime /\ request'[h].who = request[h].who
        /\ request'[h].rights = request[h].rights /\ request'[h].misread = request[h].misread
        /\ request'[h].at = request[h].at
    BY <1>2, <2>1, <2>3
  <2>5. \A g \in Files : request[h].since[g] \subseteq request'[h].since[g]
    BY <1>2, <2>1
  <2>6. \A g \in Files : file'[g] \in request'[h].since[g]
    BY <1>1, <1>2, <2>1, <2>2 DEF RequestOK
  <2>7. request'[h].since["credentials"] \subseteq CredentialFiles
    BY <1>2, <2>1, <2>2 DEF RequestOK, Files
  <2>8. Loading(request[h].pc) \subseteq Files
    BY DEF Loading, Files
  <2>9. \A g \in Loading(request[h].pc) :
          /\ request'[h].mtime \in Nat /\ request'[h].mtime <= mtime'[g]
          /\ cache'[g].mtime = request'[h].mtime =>
               cache'[g].misread \/ cache'[g].value \in request'[h].since[g]
    <3> SUFFICES ASSUME NEW g \in Loading(request[h].pc)
                 PROVE  /\ request'[h].mtime \in Nat /\ request'[h].mtime <= mtime'[g]
                        /\ cache'[g].mtime = request'[h].mtime =>
                             cache'[g].misread \/ cache'[g].value \in request'[h].since[g]
      OBVIOUS
    <3>1. g \in Files /\ mtime[g] \in Nat /\ now \in Nat
      BY <2>8 DEF Inv, TimeOK
    <3>2. mtime[g] <= mtime'[g] /\ mtime'[g] \in Nat
      BY <1>1, <3>1
    <3>3. /\ request[h].mtime \in Nat /\ request[h].mtime <= mtime[g]
          /\ cache[g].mtime = request[h].mtime =>
               cache[g].misread \/ cache[g].value \in request[h].since[g]
      BY <2>2 DEF RequestOK
    <3> QED  BY <1>1, <2>4, <2>5, <3>1, <3>2, <3>3
  <2>10. request[h].pc \in Identified =>
           \/ \E K \in request'[h].since["credentials"], t \in Nat :
                request[h].at <= t /\ t <= now /\ request[h].who = Identify(K, request[h].bearer, t)
           \/ request[h].misread /\ request[h].who = None
    BY <2>2, <2>5 DEF RequestOK, Files
  <2>11. request[h].pc = "route" =>
           request[h].rights \in request'[h].since["rights"] \/ (request[h].misread /\ request[h].rights = {})
    BY <2>2, <2>5 DEF RequestOK, Files
  <2>12. request[h].at \in Nat /\ request[h].at <= now' /\ request[h].bearer \in Bearers
    BY <1>1, <2>2 DEF RequestOK
  <2> QED  BY <1>1, <2>4, <2>6, <2>7, <2>9, <2>10, <2>11, <2>12 DEF RequestOK
<1>6. file'["credentials"] \in CredentialFiles
  BY <1>1 DEF Inv, Files
<1> QED  BY <1>3, <1>4, <1>5, <1>6 DEF Inv

(* The steps of one thread, whose record becomes rec.  A cache it fills    *)
(* holds the file, or nothing, under the mtime the thread read.            *)
LEMMA ThreadStep ==
  ASSUME Inv, NEW h \in Handlers, NEW rec,
         request' = [request EXCEPT ![h] = rec], IsRequest(rec),
         UNCHANGED <<now, file, mtime>>, TimeOK', CacheCurrent', DOMAIN cache' = Files,
         \A f \in Files : cache'[f] = cache[f] \/ cache'[f].misread \/ cache'[f].value = file[f],
         rec.pc # "idle" => RequestOK(rec)'
  PROVE  Inv'
<1>1. /\ request'[h] = rec
      /\ \A k \in Handlers : k # h => request'[k] = request[k]
      /\ request' = [k \in Handlers |-> request'[k]]
  BY DEF Inv, ShapeOK
<1>2. ShapeOK'
  BY <1>1 DEF Inv, ShapeOK
<1>3. AllRequestsOK'
  <2> SUFFICES ASSUME NEW k \in Handlers, request'[k].pc # "idle"
               PROVE  RequestOK(request[k])'
    BY DEF AllRequestsOK
  <2>1. CASE k = h
    BY <1>1, <2>1
  <2>2. CASE k # h
    <3>1. request'[k] = request[k] /\ RequestOK(request[k])
      BY <1>1, <2>2 DEF Inv, AllRequestsOK
    <3>2. Loading(request[k].pc) \subseteq Files
      BY DEF Loading, Files
    <3>3. \A f \in Loading(request[k].pc) :
            cache'[f].mtime = request[k].mtime =>
              cache'[f].misread \/ cache'[f].value \in request[k].since[f]
      BY <3>1, <3>2 DEF RequestOK
    <3> QED  BY <3>1, <3>3 DEF RequestOK
  <2> QED  BY <2>1, <2>2
<1> QED  BY <1>2, <1>3 DEF Inv

(* Steps that touch nothing but the thread's own record. *)
LEMMA OwnStep ==
  ASSUME Inv, NEW h \in Handlers, NEW rec, Set(h, rec), IsRequest(rec),
         UNCHANGED <<now, file, mtime, cache>>, rec.pc # "idle" => RequestOK(rec)
  PROVE  Inv'
<1>1. TimeOK' /\ CacheCurrent' /\ DOMAIN cache' = Files
  BY DEF Inv, TimeOK, CacheCurrent, ShapeOK
<1>2. rec.pc # "idle" => RequestOK(rec)'
  BY DEF RequestOK
<1>3. request' = [request EXCEPT ![h] = rec]
  BY DEF Set
<1> QED  BY <1>1, <1>2, <1>3, ThreadStep

LEMMA ReceiveStep ==
  ASSUME Inv, NEW h \in Handlers, NEW b \in Bearers, NEW tree, NEW tool, Receive(h, b, tree, tool)
  PROVE  Inv'
<1> PICK rec : rec = [Idle EXCEPT !.pc = "stat-credentials", !.bearer = b, !.tree = tree,
                     !.tool = tool, !.at = now, !.since = [f \in Files |-> {file[f]}]]
  OBVIOUS
<1>1. /\ rec.pc = "stat-credentials" /\ rec.bearer = b /\ rec.at = now
      /\ rec.since = [f \in Files |-> {file[f]}]
      /\ IsRequest(rec)
  BY DEF Idle, Fields, IsRequest
<1>2. Set(h, rec) /\ UNCHANGED <<now, file, mtime, cache>>
  BY DEF Receive
<1>3. RequestOK(rec)
  <2>1. Loading(rec.pc) = {} /\ rec.pc \notin Identified /\ rec.pc # "route"
    BY <1>1 DEF Loading, Identified
  <2>2. file["credentials"] \in CredentialFiles /\ "credentials" \in Files
    BY DEF Inv, Files
  <2>3. now \in Nat
    BY DEF Inv, TimeOK
  <2> QED  BY <1>1, <2>1, <2>2, <2>3 DEF RequestOK
<1> QED  BY <1>1, <1>2, <1>3, OwnStep

(* The facts a step of a request under way starts from. *)
LEMMA UnderWay ==
  ASSUME Inv, NEW h \in Handlers, request[h].pc # "idle"
  PROVE  RequestOK(request[h]) /\ IsRequest(request[h])
BY DEF Inv, AllRequestsOK, ShapeOK

LEMMA StatStep ==
  ASSUME Inv, NEW h \in Handlers, StatCredentials(h) \/ StatRights(h)
  PROVE  Inv'
<1>1. PICK f \in Files, pc \in {"load-credentials", "load-rights"} :
        /\ Set(h, [request[h] EXCEPT !.pc = pc, !.mtime = mtime[f]])
        /\ Loading(pc) = {f}
        /\ pc \in Identified => request[h].pc \in Identified
        /\ request[h].pc # "idle"
        /\ UNCHANGED <<now, file, mtime, cache>>
  <2>1. CASE StatCredentials(h)
    BY <2>1 DEF StatCredentials, Files, Loading, Identified
  <2>2. CASE StatRights(h)
    BY <2>2 DEF StatRights, Files, Loading, Identified
  <2> QED  BY <2>1, <2>2
<1> PICK rec : rec = [request[h] EXCEPT !.pc = pc, !.mtime = mtime[f]]
  OBVIOUS
<1>2. RequestOK(request[h]) /\ IsRequest(request[h])
  BY <1>1, UnderWay
<1>3. /\ rec.pc = pc /\ rec.mtime = mtime[f] /\ rec.since = request[h].since
      /\ rec.at = request[h].at /\ rec.bearer = request[h].bearer
      /\ rec.who = request[h].who /\ rec.misread = request[h].misread
      /\ IsRequest(rec)
  BY <1>2 DEF IsRequest, Fields
<1>4. Set(h, rec)
  BY <1>1
<1>5. RequestOK(rec)
  <2>1. mtime[f] \in Nat
    BY DEF Inv, TimeOK
  <2>2. cache[f].mtime = rec.mtime => cache[f].misread \/ cache[f].value \in rec.since[f]
    BY <1>2, <1>3 DEF Inv, CacheCurrent, RequestOK
  <2>3. rec.pc # "route"
    BY <1>3
  <2> QED  BY <1>1, <1>2, <1>3, <2>1, <2>2, <2>3 DEF RequestOK
<1> QED  BY <1>1, <1>3, <1>4, <1>5, OwnStep

(* What a load leaves in the cache and hands to the thread. *)
LEMMA LoadFacts ==
  ASSUME Inv, NEW h \in Handlers, NEW f \in Files, Loading(request[h].pc) = {f},
         request[h].pc # "idle", Load(h, f), UNCHANGED <<now, file, mtime>>
  PROVE  /\ TimeOK' /\ CacheCurrent' /\ DOMAIN cache' = Files
         /\ \A g \in Files : cache'[g] = cache[g] \/ cache'[g].misread \/ cache'[g].value = file[g]
         /\ cache'[f].misread => cache'[f].value = {}
         /\ cache'[f].misread \/ cache'[f].value \in request[h].since[f]
<1>1. RequestOK(request[h])
  BY UnderWay
<1>2. /\ request[h].mtime \in Nat /\ request[h].mtime <= mtime[f]
      /\ cache[f].mtime = request[h].mtime =>
           cache[f].misread \/ cache[f].value \in request[h].since[f]
      /\ file[f] \in request[h].since[f]
  BY <1>1 DEF RequestOK
<1>3. \/ cache' = cache /\ cache[f].mtime = request[h].mtime
      \/ \E v, m : /\ cache' = [cache EXCEPT ![f] = [mtime |-> request[h].mtime, value |-> v, misread |-> m]]
                   /\ \/ v = file[f] /\ m = FALSE
                      \/ v = {} /\ m = TRUE
  BY DEF Load
<1>4. CASE cache' = cache /\ cache[f].mtime = request[h].mtime
  BY <1>2, <1>4 DEF Inv, TimeOK, CacheCurrent, ShapeOK
<1>5. ASSUME NEW v, NEW m,
             cache' = [cache EXCEPT ![f] = [mtime |-> request[h].mtime, value |-> v, misread |-> m]],
             \/ v = file[f] /\ m = FALSE
             \/ v = {} /\ m = TRUE
      PROVE  /\ TimeOK' /\ CacheCurrent' /\ DOMAIN cache' = Files
             /\ \A g \in Files : cache'[g] = cache[g] \/ cache'[g].misread \/ cache'[g].value = file[g]
             /\ cache'[f].misread => cache'[f].value = {}
             /\ cache'[f].misread \/ cache'[f].value \in request[h].since[f]
  <2>1. /\ cache'[f].mtime = request[h].mtime /\ cache'[f].value = v /\ cache'[f].misread = m
        /\ \A g \in Files : g # f => cache'[g] = cache[g]
        /\ DOMAIN cache' = Files
    BY <1>5 DEF Inv, ShapeOK
  <2>2. TimeOK'
    BY <1>2, <2>1 DEF Inv, TimeOK
  <2>3. CacheCurrent'
    BY <1>5, <2>1 DEF Inv, CacheCurrent
  <2> QED  BY <1>2, <1>5, <2>1, <2>2, <2>3
<1> QED  BY <1>3, <1>4, <1>5

LEMMA LoadCredentialsStep ==
  ASSUME Inv, NEW h \in Handlers, LoadCredentials(h)
  PROVE  Inv'
<1>1. PICK t \in request[h].at .. now :
        Set(h, [request[h] EXCEPT !.pc = "lease", !.misread = cache'["credentials"].misread,
                  !.who = Identify(cache'["credentials"].value, request[h].bearer, t)])
  BY DEF LoadCredentials
<1> PICK rec : rec = [request[h] EXCEPT !.pc = "lease", !.misread = cache'["credentials"].misread,
                     !.who = Identify(cache'["credentials"].value, request[h].bearer, t)]
  OBVIOUS
<1>2. /\ Loading(request[h].pc) = {"credentials"} /\ request[h].pc # "idle"
      /\ Load(h, "credentials") /\ UNCHANGED <<now, file, mtime>> /\ "credentials" \in Files
  BY DEF LoadCredentials, Loading, Files
<1>3. RequestOK(request[h]) /\ IsRequest(request[h])
  BY <1>2, UnderWay
<1>4. /\ rec.pc = "lease" /\ rec.since = request[h].since /\ rec.at = request[h].at
      /\ rec.bearer = request[h].bearer /\ rec.misread = cache'["credentials"].misread
      /\ rec.who = Identify(cache'["credentials"].value, rec.bearer, t)
      /\ IsRequest(rec)
  BY <1>3 DEF IsRequest, Fields
<1>5. request' = [request EXCEPT ![h] = rec]
  BY <1>1 DEF Set
<1>6. /\ cache'["credentials"].misread => cache'["credentials"].value = {}
      /\ cache'["credentials"].misread \/ cache'["credentials"].value \in request[h].since["credentials"]
  BY <1>2, LoadFacts
<1>7. /\ TimeOK' /\ CacheCurrent' /\ DOMAIN cache' = Files
      /\ \A g \in Files : cache'[g] = cache[g] \/ cache'[g].misread \/ cache'[g].value = file[g]
  BY <1>2, LoadFacts
<1>8. RequestOK(rec)'
  <2>1. t \in Nat /\ rec.at <= t /\ t <= now
    BY <1>3, <1>4 DEF Inv, TimeOK, RequestOK
  <2>2. \/ \E K \in rec.since["credentials"], s \in Nat :
             rec.at <= s /\ s <= now /\ rec.who = Identify(K, rec.bearer, s)
        \/ rec.misread /\ rec.who = None
    BY <1>4, <1>6, <2>1, NobodyInNoFile
  <2>3. Loading(rec.pc) = {} /\ rec.pc # "route"
    BY <1>4 DEF Loading
  <2> QED  BY <1>2, <1>3, <1>4, <2>2, <2>3 DEF RequestOK
<1> QED  BY <1>2, <1>4, <1>5, <1>7, <1>8, ThreadStep

LEMMA CheckLeaseStep == ASSUME Inv, NEW h \in Handlers, CheckLease(h)  PROVE Inv'
<1>1. RequestOK(request[h]) /\ IsRequest(request[h]) /\ request[h].pc = "lease"
  BY UnderWay DEF CheckLease
<1>2. CASE ~Fresh
  BY <1>2, IdleShape, OwnStep DEF CheckLease
<1>3. CASE Fresh
  <2> PICK rec : rec = [request[h] EXCEPT !.pc = "stat-rights"]
    OBVIOUS
  <2>1. /\ rec.pc = "stat-rights" /\ rec.since = request[h].since /\ rec.at = request[h].at
        /\ rec.bearer = request[h].bearer /\ rec.misread = request[h].misread
        /\ rec.who = request[h].who /\ IsRequest(rec)
    BY <1>1 DEF IsRequest, Fields
  <2>2. Set(h, rec) /\ UNCHANGED <<now, file, mtime, cache>>
    BY <1>3 DEF CheckLease
  <2>3. RequestOK(rec)
    <3>1. Loading(rec.pc) = {} /\ rec.pc # "route" /\ request[h].pc \in Identified
      BY <1>1, <2>1 DEF Loading, Identified
    <3> QED  BY <1>1, <2>1, <3>1 DEF RequestOK
  <2> QED  BY <2>1, <2>2, <2>3, OwnStep
<1> QED  BY <1>2, <1>3

LEMMA LoadRightsStep == ASSUME Inv, NEW h \in Handlers, LoadRights(h)  PROVE Inv'
<1> PICK rec : rec = [request[h] EXCEPT !.pc = "route", !.rights = cache'["rights"].value,
                     !.misread = @ \/ cache'["rights"].misread]
  OBVIOUS
<1>1. request' = [request EXCEPT ![h] = rec]
  BY DEF LoadRights, Set
<1>2. /\ Loading(request[h].pc) = {"rights"} /\ request[h].pc # "idle"
      /\ request[h].pc \in Identified
      /\ Load(h, "rights") /\ UNCHANGED <<now, file, mtime>> /\ "rights" \in Files
  BY DEF LoadRights, Loading, Identified, Files
<1>3. RequestOK(request[h]) /\ IsRequest(request[h])
  BY <1>2, UnderWay
<1>4. /\ rec.pc = "route" /\ rec.since = request[h].since /\ rec.at = request[h].at
      /\ rec.bearer = request[h].bearer /\ rec.who = request[h].who
      /\ rec.misread = (request[h].misread \/ cache'["rights"].misread)
      /\ rec.rights = cache'["rights"].value
      /\ IsRequest(rec)
  BY <1>3 DEF IsRequest, Fields
<1>5. /\ cache'["rights"].misread => cache'["rights"].value = {}
      /\ cache'["rights"].misread \/ cache'["rights"].value \in request[h].since["rights"]
  BY <1>2, LoadFacts
<1>6. /\ TimeOK' /\ CacheCurrent' /\ DOMAIN cache' = Files
      /\ \A g \in Files : cache'[g] = cache[g] \/ cache'[g].misread \/ cache'[g].value = file[g]
  BY <1>2, LoadFacts
<1>7. RequestOK(rec)'
  <2>1. Loading(rec.pc) = {}
    BY <1>4 DEF Loading
  <2>2. rec.rights \in rec.since["rights"] \/ (rec.misread /\ rec.rights = {})
    BY <1>4, <1>5
  <2>3. \/ \E K \in rec.since["credentials"], s \in Nat :
             rec.at <= s /\ s <= now /\ rec.who = Identify(K, rec.bearer, s)
        \/ rec.misread /\ rec.who = None
    BY <1>2, <1>3, <1>4 DEF RequestOK
  <2> QED  BY <1>2, <1>3, <1>4, <2>1, <2>2, <2>3 DEF RequestOK
<1> QED  BY <1>1, <1>2, <1>4, <1>6, <1>7, ThreadStep

LEMMA AnswerStep == ASSUME Inv, NEW h \in Handlers, Forward(h) \/ Refuse(h)  PROVE Inv'
BY IdleShape, OwnStep DEF Forward, Refuse

LEMMA TickStep == ASSUME Inv, Tick  PROVE Inv'
<1>1. UNCHANGED <<file, mtime, cache, request>> /\ now' = now + 1 /\ now \in Nat
  BY DEF Tick, Inv, TimeOK
<1>2. TimeOK'
  BY <1>1 DEF Inv, TimeOK
<1>3. AllRequestsOK'
  <2> SUFFICES ASSUME NEW h \in Handlers, request[h].pc # "idle"
               PROVE  RequestOK(request[h])'
    BY <1>1 DEF AllRequestsOK
  <2>1. RequestOK(request[h])
    BY DEF Inv, AllRequestsOK
  <2>2. \A t \in Nat : t <= now => t <= now'
    BY <1>1
  <2> QED  BY <1>1, <2>1, <2>2 DEF RequestOK
<1> QED  BY <1>1, <1>2, <1>3 DEF Inv, ShapeOK, CacheCurrent

LEMMA NextInv == ASSUME ~OneStep, Inv, [Next]_vars  PROVE Inv'
<1>1. CASE UNCHANGED vars
  BY <1>1 DEF vars, Inv, TimeOK, ShapeOK, CacheCurrent, AllRequestsOK, RequestOK
<1>2. CASE Next
  <2>1. CASE Tick
    BY <2>1, TickStep
  <2>2. CASE \E K \in CredentialFiles : Install("credentials", K)
    BY <2>2, InstallStep DEF Files
  <2>3. CASE \E P \in Policies : Install("rights", P)
    BY <2>3, InstallStep DEF Files
  <2>4. CASE \E h \in Handlers, b \in Bearers, tree \in Trees,
               tool \in Tools \cup {None} : Receive(h, b, tree, tool)
    BY <2>4, ReceiveStep
  <2>5. CASE \E h \in Handlers : Step(h)
    BY <2>5, StatStep, LoadCredentialsStep, CheckLeaseStep, LoadRightsStep, AnswerStep DEF Step
  <2> QED  BY <1>2, <2>1, <2>2, <2>3, <2>4, <2>5 DEF Next
<1> QED  BY <1>1, <1>2

-----------------------------------------------------------------------------
(* What a request that is let through, or is not, was answered from. *)

LEMMA ForwardedByFiles ==
  ASSUME Inv, NEW h \in Handlers, Forward(h)
  PROVE  \E K \in request[h].since["credentials"], P \in request[h].since["rights"] :
           Lets(h, K, P, request[h].at)
<1>1. RequestOK(request[h]) /\ request[h].pc = "route" /\ Decided(h)
  BY UnderWay DEF Forward
<1>2. request[h].who # None /\ request[h].rights # {}
  BY <1>1, NothingWithoutRights, NobodyIsRefused DEF Decided
<1>3. request[h].rights \in request[h].since["rights"]
  BY <1>1, <1>2 DEF RequestOK
<1>4. PICK K \in request[h].since["credentials"], t \in Nat :
        request[h].at <= t /\ request[h].who = Identify(K, request[h].bearer, t)
  BY <1>1, <1>2 DEF RequestOK, Identified
<1>5. Identify(K, request[h].bearer, request[h].at) = request[h].who
  BY <1>1, <1>2, <1>4, LaterTheSameOrNobody DEF RequestOK
<1> QED  BY <1>1, <1>3, <1>4, <1>5 DEF Lets, Decided

LEMMA RefusedByFiles ==
  ASSUME Inv, NEW h \in Handlers, Refuse(h), ~request[h].misread
  PROVE  \E K \in request[h].since["credentials"], P \in request[h].since["rights"] :
           ~Lets(h, K, P, now)
<1>1. RequestOK(request[h]) /\ request[h].pc = "route" /\ ~Decided(h)
  BY UnderWay DEF Refuse
<1>2. request[h].rights \in request[h].since["rights"]
  BY <1>1 DEF RequestOK
<1>3. PICK K \in request[h].since["credentials"], t \in Nat :
        t <= now /\ request[h].who = Identify(K, request[h].bearer, t)
  BY <1>1 DEF RequestOK, Identified
<1>4. Identify(K, request[h].bearer, now) \in {None, request[h].who}
  BY <1>1, <1>3, LaterTheSameOrNobody DEF RequestOK, Inv, TimeOK
<1> QED  BY <1>1, <1>2, <1>3, <1>4, NobodyIsRefused DEF Lets, Decided

(* Every answer is one that files in force since the request was received  *)
(* give, if writes leave distinct mtimes (rights.rs:940, auth.rs:98).      *)
THEOREM NextRequestSeesTheChange ==
  ASSUME ~OneStep
  PROVE  Spec => EffectOnNextRequest
<1> DEFINE Good == \A h \in Handlers :
             LET since == request[h].since
             IN  /\ Forward(h) => \E K \in since["credentials"], P \in since["rights"] :
                                    Lets(h, K, P, request[h].at)
                 /\ Refuse(h)  => \/ request[h].misread
                                  \/ \E K \in since["credentials"], P \in since["rights"] :
                                       ~Lets(h, K, P, now)
<1>1. Inv /\ [Next]_vars => Inv'
  BY NextInv
<1>2. Inv /\ [Next]_vars => [Good]_vars
  BY ForwardedByFiles, RefusedByFiles
<1>3. EffectOnNextRequest <=> [][Good]_vars
  BY DEF EffectOnNextRequest
<1> HIDE DEF Good
<1> QED  BY <1>1, <1>2, <1>3, InitInv, PTL DEF Spec

-----------------------------------------------------------------------------
(* The lease.  From the check on, the rights file was written no longer    *)
(* than MaxAge before the request was received, and so is what is loaded.  *)
Checked(rec) ==
  /\ rec.pc # "idle" => rec.at \in Nat /\ rec.at <= now
  /\ rec.pc = "stat-rights" => rec.at - mtime["rights"] <= MaxAge
  /\ rec.pc \in {"load-rights", "route"} => rec.mtime \in Nat /\ rec.at - rec.mtime <= MaxAge

LeaseInv ==
  /\ ShapeOK
  /\ now \in Nat
  /\ \A f \in Files : mtime[f] \in Nat /\ mtime[f] <= now
  /\ \A h \in Handlers : Checked(request[h])

LEMMA InitLease == Init => LeaseInv
<1> SUFFICES ASSUME Init  PROVE LeaseInv
  OBVIOUS
<1>1. \A h \in Handlers : request[h] = Idle
  BY DEF Init
<1>2. ShapeOK
  BY <1>1, IdleShape DEF Init, ShapeOK
<1> QED  BY <1>1, <1>2, IdleShape DEF Init, LeaseInv, Checked

LEMMA LeaseThreadStep ==
  ASSUME LeaseInv, NEW h \in Handlers, NEW rec, Set(h, rec), IsRequest(rec),
         UNCHANGED <<now, file, mtime>>, DOMAIN cache' = Files, Checked(rec)
  PROVE  LeaseInv'
<1>1. /\ request'[h] = rec
      /\ \A k \in Handlers : k # h => request'[k] = request[k]
      /\ request' = [k \in Handlers |-> request'[k]]
  BY DEF LeaseInv, ShapeOK, Set
<1>2. ShapeOK'
  BY <1>1 DEF LeaseInv, ShapeOK
<1>3. \A k \in Handlers : Checked(request[k])'
  BY <1>1 DEF LeaseInv, Checked
<1> QED  BY <1>2, <1>3 DEF LeaseInv

LEMMA LeaseSteps ==
  ASSUME LeaseInv, NEW h \in Handlers, Step(h)
  PROVE  LeaseInv'
<1>1. IsRequest(request[h]) /\ Checked(request[h]) /\ now \in Nat /\ MaxAge \in Nat
      /\ mtime["rights"] \in Nat /\ mtime["rights"] <= now /\ mtime["credentials"] \in Nat
  BY GatewayAssumption DEF LeaseInv, ShapeOK, Files
<1>2. DOMAIN cache' = Files /\ UNCHANGED <<now, file, mtime>>
  BY DEF LeaseInv, ShapeOK, Step, StatCredentials, LoadCredentials, CheckLease, StatRights,
         LoadRights, Load, Forward, Refuse
<1>3. CASE StatCredentials(h)
  <2> PICK rec : rec = [request[h] EXCEPT !.pc = "load-credentials", !.mtime = mtime["credentials"]]
    OBVIOUS
  <2>1. IsRequest(rec) /\ rec.pc = "load-credentials" /\ rec.at = request[h].at
    BY <1>1 DEF IsRequest, Fields
  <2>2. Set(h, rec) /\ Checked(rec)
    BY <1>1, <1>3, <2>1 DEF StatCredentials, Checked
  <2> QED  BY <1>2, <2>1, <2>2, LeaseThreadStep
<1>4. CASE LoadCredentials(h)
  <2>1. PICK t : Set(h, [request[h] EXCEPT !.pc = "lease", !.misread = cache'["credentials"].misread,
                  !.who = Identify(cache'["credentials"].value, request[h].bearer, t)])
    BY <1>4 DEF LoadCredentials
  <2> PICK rec : rec = [request[h] EXCEPT !.pc = "lease", !.misread = cache'["credentials"].misread,
                  !.who = Identify(cache'["credentials"].value, request[h].bearer, t)]
    OBVIOUS
  <2>2. IsRequest(rec) /\ rec.pc = "lease" /\ rec.at = request[h].at
    BY <1>1 DEF IsRequest, Fields
  <2>3. Set(h, rec) /\ Checked(rec)
    BY <1>1, <1>4, <2>1, <2>2 DEF LoadCredentials, Checked
  <2> QED  BY <1>2, <2>2, <2>3, LeaseThreadStep
<1>5. CASE CheckLease(h)
  <2>1. CASE ~Fresh
    BY <1>2, <1>5, <2>1, IdleShape, LeaseThreadStep DEF CheckLease, Checked
  <2>2. CASE Fresh
    <3> PICK rec : rec = [request[h] EXCEPT !.pc = "stat-rights"]
      OBVIOUS
    <3>1. IsRequest(rec) /\ rec.pc = "stat-rights" /\ rec.at = request[h].at
      BY <1>1 DEF IsRequest, Fields
    <3>2. Set(h, rec)
      BY <1>5, <2>2 DEF CheckLease
    <3>3. request[h].at \in Nat /\ request[h].at <= now
      BY <1>1, <1>5 DEF CheckLease, Checked
    <3>4. Checked(rec)
      BY <1>1, <2>2, <3>1, <3>3 DEF Checked, Fresh
    <3> QED  BY <1>2, <3>1, <3>2, <3>4, LeaseThreadStep
  <2> QED  BY <2>1, <2>2
<1>6. CASE StatRights(h)
  <2> PICK rec : rec = [request[h] EXCEPT !.pc = "load-rights", !.mtime = mtime["rights"]]
    OBVIOUS
  <2>1. /\ IsRequest(rec) /\ rec.pc = "load-rights" /\ rec.at = request[h].at
        /\ rec.mtime = mtime["rights"]
    BY <1>1 DEF IsRequest, Fields
  <2>2. Set(h, rec) /\ Checked(rec)
    BY <1>1, <1>6, <2>1 DEF StatRights, Checked
  <2> QED  BY <1>2, <2>1, <2>2, LeaseThreadStep
<1>7. CASE LoadRights(h)
  <2> PICK rec : rec = [request[h] EXCEPT !.pc = "route", !.rights = cache'["rights"].value,
                       !.misread = @ \/ cache'["rights"].misread]
    OBVIOUS
  <2>1. /\ IsRequest(rec) /\ rec.pc = "route" /\ rec.at = request[h].at
        /\ rec.mtime = request[h].mtime
    BY <1>1 DEF IsRequest, Fields
  <2>2. Set(h, rec) /\ Checked(rec)
    BY <1>1, <1>7, <2>1 DEF LoadRights, Checked
  <2> QED  BY <1>2, <2>1, <2>2, LeaseThreadStep
<1>8. CASE Forward(h) \/ Refuse(h)
  BY <1>2, <1>8, IdleShape, LeaseThreadStep DEF Forward, Refuse, Checked
<1> QED  BY <1>3, <1>4, <1>5, <1>6, <1>7, <1>8 DEF Step

LEMMA LeaseReceive ==
  ASSUME LeaseInv, NEW h \in Handlers, NEW b, NEW tree, NEW tool, Receive(h, b, tree, tool)
  PROVE  LeaseInv'
<1> PICK rec : rec = [Idle EXCEPT !.pc = "stat-credentials", !.bearer = b, !.tree = tree,
                     !.tool = tool, !.at = now, !.since = [f \in Files |-> {file[f]}]]
  OBVIOUS
<1>1. rec.pc = "stat-credentials" /\ rec.at = now /\ IsRequest(rec)
  BY DEF Idle, Fields, IsRequest
<1>2. Set(h, rec) /\ UNCHANGED <<now, file, mtime>> /\ DOMAIN cache' = Files
  BY DEF Receive, LeaseInv, ShapeOK
<1>3. Checked(rec)
  BY <1>1 DEF Checked, LeaseInv
<1> QED  BY <1>1, <1>2, <1>3, LeaseThreadStep

LEMMA LeaseInstall ==
  ASSUME LeaseInv, NEW f \in Files, NEW P, Install(f, P)
  PROVE  LeaseInv'
<1>1. /\ mtime'[f] = now /\ UNCHANGED <<now, cache>>
      /\ \A g \in Files : g # f => mtime'[g] = mtime[g]
      /\ DOMAIN file' = Files /\ DOMAIN mtime' = Files
  <2>1. /\ file' = [file EXCEPT ![f] = P] /\ mtime' = [mtime EXCEPT ![f] = now]
        /\ UNCHANGED <<now, cache>>
    BY Zenon DEF Install
  <2> QED  BY <2>1 DEF LeaseInv, ShapeOK
<1>2. \A g \in Files : mtime'[g] \in Nat /\ mtime'[g] <= now' /\ mtime[g] <= mtime'[g] /\ mtime[g] \in Nat
  BY <1>1 DEF LeaseInv
<1>3. \A h \in Handlers :
        /\ request'[h].pc = request[h].pc /\ request'[h].at = request[h].at
        /\ request'[h].mtime = request[h].mtime /\ IsRequest(request'[h])
  <2> TAKE h \in Handlers
  <2>1. IsRequest(request[h])
    BY DEF LeaseInv, ShapeOK
  <2>2. CASE request[h].pc = "idle"
    BY <2>1, <2>2 DEF Install
  <2>3. CASE request[h].pc # "idle"
    <3>1. request'[h] = [request[h] EXCEPT !.since = Joined(request[h].since, f, P)]
      BY <2>3 DEF Install
    <3>2. PICK S : S = Joined(request[h].since, f, P)
      OBVIOUS
    <3>3. request'[h] = [request[h] EXCEPT !.since = S]
      BY <3>1, <3>2
    <3>4. request'[h] = [x \in Fields |-> IF x = "since" THEN S ELSE request[h][x]]
      BY <2>1, <3>3 DEF IsRequest, Fields
    <3>5. request'[h].since = S
      BY <3>4 DEF Fields
    <3>6. IsRequest(request'[h])
      BY <2>1, <3>2, <3>4, <3>5 DEF IsRequest, Joined
    <3> QED  BY <3>4, <3>6 DEF Fields
  <2> QED  BY <2>2, <2>3
<1>4. ShapeOK'
  <2>1. request' = [h \in Handlers |-> request'[h]]
    BY DEF Install
  <2> QED  BY <1>1, <1>3, <2>1 DEF LeaseInv, ShapeOK
<1>5. \A h \in Handlers : Checked(request[h])'
  <2> TAKE h \in Handlers
  <2>1. Checked(request[h]) /\ MaxAge \in Nat /\ "rights" \in Files
    BY GatewayAssumption DEF LeaseInv, Files
  <2> QED  BY <1>1, <1>2, <1>3, <2>1 DEF Checked
<1> QED  BY <1>1, <1>2, <1>4, <1>5 DEF LeaseInv

LEMMA LeaseNext == ASSUME LeaseInv, [Next]_vars  PROVE LeaseInv'
<1>1. CASE UNCHANGED vars
  BY <1>1 DEF vars, LeaseInv, ShapeOK, Checked
<1>2. CASE Tick
  BY <1>2 DEF Tick, LeaseInv, ShapeOK, Checked
<1>3. CASE \E K \in CredentialFiles : Install("credentials", K)
  BY <1>3, LeaseInstall DEF Files
<1>4. CASE \E P \in Policies : Install("rights", P)
  BY <1>4, LeaseInstall DEF Files
<1>5. CASE \E h \in Handlers, b \in Bearers, tree \in Trees, tool \in Tools \cup {None} :
             Receive(h, b, tree, tool)
  BY <1>5, LeaseReceive
<1>6. CASE \E h \in Handlers : Step(h)
  BY <1>6, LeaseSteps
<1> QED  BY <1>1, <1>2, <1>3, <1>4, <1>5, <1>6 DEF Next

(* No request is decided by rights that were written longer than the lease *)
(* before it was received (main.rs:1083), even if mtimes are equal.        *)
THEOREM LeaseIsKept == Spec => WithinLease
<1> DEFINE Good == \A h \in Handlers :
             Forward(h) \/ Refuse(h) => request[h].at - request[h].mtime <= MaxAge
<1>1. LeaseInv /\ [Next]_vars => LeaseInv'
  BY LeaseNext
<1>2. LeaseInv /\ [Next]_vars => [Good]_vars
  BY DEF LeaseInv, Checked, Forward, Refuse
<1>3. WithinLease <=> [][Good]_vars
  BY DEF WithinLease
<1> HIDE DEF Good
<1> QED  BY <1>1, <1>2, <1>3, InitLease, PTL DEF Spec

-----------------------------------------------------------------------------
(* Types.  What a thread is going to stamp the cache with is an mtime of   *)
(* the file it has read, and no later than the file's own.                 *)
Points == {"idle", "stat-credentials", "load-credentials", "lease", "stat-rights", "load-rights", "route"}

Typed(rec) ==
  /\ rec.pc \in Points
  /\ rec.pc # "idle" => rec.bearer \in Bearers
  /\ rec.who # None => rec.who.user \in Names
  /\ rec.since["credentials"] \subseteq CredentialFiles
  /\ rec.since["rights"] \subseteq Policies
  /\ \A f \in Loading(rec.pc) : rec.mtime \in 0 .. mtime[f]

CacheTyped(f) ==
  /\ cache[f].mtime \in 0 .. mtime[f] \cup {None}
  /\ cache[f].misread => cache[f].value = {}
  /\ f = "credentials" => cache[f].value \in CredentialFiles \cup {{}}

FilesTyped ==
  /\ now \in 0 .. MaxTime
  /\ file["credentials"] \in CredentialFiles /\ file["rights"] \in Policies
  /\ \A f \in Files : mtime[f] \in 0 .. now

TypeInv ==
  /\ ShapeOK
  /\ FilesTyped
  /\ \A f \in Files : CacheTyped(f)
  /\ \A h \in Handlers : Typed(request[h])

LEMMA IdleTyped == Typed(Idle)
BY DEF Idle, Typed, Points, Loading, Files

LEMMA IdentifiedIsNamed ==
  ASSUME NEW K \in CredentialFiles \cup {{}}, NEW b \in Bearers, NEW t, Identify(K, b, t) # None
  PROVE  Identify(K, b, t).user \in Names
<1> DEFINE claims(e) == IF Oidc THEN b.claims ELSE e.claims
           valid == {e \in K : /\ e.key = b.key
                               /\ claims(e).expires = 0 \/ claims(e).expires > t}
           one == CHOOSE e \in valid : TRUE
<1>1. valid # {} /\ Identify(K, b, t) = claims(one)
  BY DEF Identify
<1>2. one \in K
  BY <1>1
<1>3. claims(one) \in Claims
  <2>1. CASE Oidc
    BY <2>1, GatewayAssumption
  <2>2. CASE ~Oidc
    BY <1>2, <2>2, GatewayAssumption
  <2> QED  BY <2>1, <2>2
<1>4. \A c \in Claims : c.user \in Names
  BY DEF Claims
<1> QED  BY <1>1, <1>3, <1>4

LEMMA InitTypes == Init => TypeInv
<1> SUFFICES ASSUME Init  PROVE TypeInv
  OBVIOUS
<1>1. \A h \in Handlers : request[h] = Idle
  BY DEF Init
<1>2. ShapeOK
  BY <1>1, IdleShape DEF Init, ShapeOK
<1>3. FilesTyped
  BY GatewayAssumption DEF Init, FilesTyped, Files
<1>4. \A f \in Files : CacheTyped(f)
  BY DEF Init, CacheTyped
<1> QED  BY <1>1, <1>2, <1>3, <1>4, IdleTyped DEF TypeInv

(* A step of one thread, which may fill the cache.                         *)
LEMMA TypedThreadStep ==
  ASSUME TypeInv, NEW h \in Handlers, NEW rec, Set(h, rec), IsRequest(rec), Typed(rec),
         UNCHANGED <<now, file, mtime>>, DOMAIN cache' = Files, \A f \in Files : CacheTyped(f)'
  PROVE  TypeInv'
<1>1. /\ request'[h] = rec
      /\ \A k \in Handlers : k # h => request'[k] = request[k]
      /\ request' = [k \in Handlers |-> request'[k]]
  BY DEF TypeInv, ShapeOK, Set
<1>2. ShapeOK'
  BY <1>1 DEF TypeInv, ShapeOK
<1>3. \A k \in Handlers : Typed(request[k])'
  BY <1>1 DEF TypeInv, Typed
<1> QED  BY <1>2, <1>3 DEF TypeInv, FilesTyped

LEMMA CacheKept ==
  ASSUME TypeInv, UNCHANGED <<mtime, cache>>
  PROVE  DOMAIN cache' = Files /\ \A f \in Files : CacheTyped(f)'
BY DEF TypeInv, ShapeOK, CacheTyped

LEMMA LoadTyped ==
  ASSUME TypeInv, NEW h \in Handlers, NEW f \in Loading(request[h].pc), Load(h, f), UNCHANGED mtime
  PROVE  DOMAIN cache' = Files /\ \A g \in Files : CacheTyped(g)'
<1>1. CASE UNCHANGED cache
  BY <1>1, CacheKept
<1>2. CASE cache' # cache
  <2>1. f \in Files /\ request[h].mtime \in 0 .. mtime[f]
    BY DEF TypeInv, Typed, Loading, Files
  <2>2. PICK c : /\ cache' = [cache EXCEPT ![f] = c]
                 /\ c.mtime = request[h].mtime
                 /\ c.value \in {file[f], {}} /\ (c.misread => c.value = {})
    <3> DEFINE good == [mtime |-> request[h].mtime, value |-> file[f], misread |-> FALSE]
               bad  == [mtime |-> request[h].mtime, value |-> {}, misread |-> TRUE]
    <3>1. /\ good.mtime = request[h].mtime /\ good.value \in {file[f], {}} /\ (good.misread => good.value = {})
          /\ bad.mtime = request[h].mtime /\ bad.value \in {file[f], {}} /\ (bad.misread => bad.value = {})
      OBVIOUS
    <3>2. cache' = [cache EXCEPT ![f] = good] \/ cache' = [cache EXCEPT ![f] = bad]
      BY <1>2 DEF Load
    <3> HIDE DEF good, bad
    <3> QED  BY <3>1, <3>2
  <2>3. f = "credentials" => c.value \in CredentialFiles \cup {{}}
    BY <2>2 DEF TypeInv, FilesTyped
  <2>4. /\ DOMAIN cache' = Files
        /\ \A g \in Files : cache'[g] = IF g = f THEN c ELSE cache[g]
    BY <2>1, <2>2 DEF TypeInv, ShapeOK
  <2> QED  BY <2>1, <2>2, <2>3, <2>4 DEF TypeInv, CacheTyped
<1> QED  BY <1>1, <1>2

LEMMA StepTyped ==
  ASSUME TypeInv, NEW h \in Handlers, Step(h)
  PROVE  TypeInv'
<1>1. IsRequest(request[h]) /\ Typed(request[h]) /\ FilesTyped /\ "rights" \in Files /\ "credentials" \in Files
  BY DEF TypeInv, ShapeOK, Files
<1>2. CASE StatCredentials(h)
  <2> PICK rec : rec = [request[h] EXCEPT !.pc = "load-credentials", !.mtime = mtime["credentials"]]
    OBVIOUS
  <2>1. /\ IsRequest(rec) /\ rec.pc = "load-credentials" /\ rec.mtime = mtime["credentials"]
        /\ rec.bearer = request[h].bearer /\ rec.who = request[h].who /\ rec.since = request[h].since
    BY <1>1 DEF IsRequest, Fields
  <2>2. Typed(rec)
    BY <1>1, <1>2, <2>1 DEF StatCredentials, Typed, Points, Loading, FilesTyped
  <2> QED  BY <1>2, <2>1, <2>2, CacheKept, TypedThreadStep DEF StatCredentials
<1>3. CASE LoadCredentials(h)
  <2>1. /\ request[h].pc = "load-credentials" /\ Load(h, "credentials") /\ UNCHANGED <<now, file, mtime>>
        /\ "credentials" \in Loading(request[h].pc)
    BY <1>3 DEF LoadCredentials, Loading
  <2>2. PICK t : Set(h, [request[h] EXCEPT !.pc = "lease", !.misread = cache'["credentials"].misread,
                  !.who = Identify(cache'["credentials"].value, request[h].bearer, t)])
    BY <1>3 DEF LoadCredentials
  <2> PICK rec : rec = [request[h] EXCEPT !.pc = "lease", !.misread = cache'["credentials"].misread,
                  !.who = Identify(cache'["credentials"].value, request[h].bearer, t)]
    OBVIOUS
  <2>3. /\ IsRequest(rec) /\ rec.pc = "lease" /\ rec.bearer = request[h].bearer /\ rec.since = request[h].since
        /\ rec.who = Identify(cache'["credentials"].value, request[h].bearer, t)
    BY <1>1 DEF IsRequest, Fields
  <2>4. DOMAIN cache' = Files /\ \A f \in Files : CacheTyped(f)'
    BY <2>1, LoadTyped
  <2>5. cache'["credentials"].value \in CredentialFiles \cup {{}}
    BY <1>1, <2>4 DEF CacheTyped
  <2>6. Typed(rec)
    <3>1. request[h].bearer \in Bearers
      BY <1>1, <2>1 DEF Typed
    <3>2. rec.who # None => rec.who.user \in Names
      BY <2>3, <2>5, <3>1, IdentifiedIsNamed
    <3>3. Loading(rec.pc) = {} /\ rec.pc \in Points
      BY <2>3 DEF Loading, Points
    <3> QED  BY <1>1, <2>3, <3>1, <3>2, <3>3 DEF Typed
  <2> QED  BY <2>1, <2>2, <2>3, <2>4, <2>6, TypedThreadStep
<1>4. CASE CheckLease(h)
  <2>1. CASE ~Fresh
    BY <1>4, <2>1, IdleShape, IdleTyped, CacheKept, TypedThreadStep DEF CheckLease
  <2>2. CASE Fresh
    <3> PICK rec : rec = [request[h] EXCEPT !.pc = "stat-rights"]
      OBVIOUS
    <3>1. /\ IsRequest(rec) /\ rec.pc = "stat-rights"
          /\ rec.bearer = request[h].bearer /\ rec.who = request[h].who /\ rec.since = request[h].since
      BY <1>1 DEF IsRequest, Fields
    <3>2. Typed(rec)
      BY <1>1, <1>4, <3>1 DEF CheckLease, Typed, Points, Loading
    <3> QED  BY <1>4, <2>2, <3>1, <3>2, CacheKept, TypedThreadStep DEF CheckLease
  <2> QED  BY <2>1, <2>2
<1>5. CASE StatRights(h)
  <2> PICK rec : rec = [request[h] EXCEPT !.pc = "load-rights", !.mtime = mtime["rights"]]
    OBVIOUS
  <2>1. /\ IsRequest(rec) /\ rec.pc = "load-rights" /\ rec.mtime = mtime["rights"]
        /\ rec.bearer = request[h].bearer /\ rec.who = request[h].who /\ rec.since = request[h].since
    BY <1>1 DEF IsRequest, Fields
  <2>2. Typed(rec)
    BY <1>1, <1>5, <2>1 DEF StatRights, Typed, Points, Loading, FilesTyped
  <2> QED  BY <1>5, <2>1, <2>2, CacheKept, TypedThreadStep DEF StatRights
<1>6. CASE LoadRights(h)
  <2>1. /\ request[h].pc = "load-rights" /\ Load(h, "rights") /\ UNCHANGED <<now, file, mtime>>
        /\ "rights" \in Loading(request[h].pc)
    BY <1>6 DEF LoadRights, Loading
  <2> PICK rec : rec = [request[h] EXCEPT !.pc = "route", !.rights = cache'["rights"].value,
                       !.misread = @ \/ cache'["rights"].misread]
    OBVIOUS
  <2>2. /\ IsRequest(rec) /\ rec.pc = "route"
        /\ rec.bearer = request[h].bearer /\ rec.who = request[h].who /\ rec.since = request[h].since
    BY <1>1 DEF IsRequest, Fields
  <2>3. DOMAIN cache' = Files /\ \A f \in Files : CacheTyped(f)'
    BY <2>1, LoadTyped
  <2>4. Set(h, rec) /\ Typed(rec)
    BY <1>1, <1>6, <2>1, <2>2 DEF LoadRights, Typed, Points, Loading
  <2> QED  BY <2>1, <2>2, <2>3, <2>4, TypedThreadStep
<1>7. CASE Forward(h) \/ Refuse(h)
  BY <1>7, IdleShape, IdleTyped, CacheKept, TypedThreadStep DEF Forward, Refuse
<1> QED  BY <1>2, <1>3, <1>4, <1>5, <1>6, <1>7 DEF Step

LEMMA ReceiveTyped ==
  ASSUME TypeInv, NEW h \in Handlers, NEW b \in Bearers, NEW tree, NEW tool, Receive(h, b, tree, tool)
  PROVE  TypeInv'
<1> PICK rec : rec = [Idle EXCEPT !.pc = "stat-credentials", !.bearer = b, !.tree = tree,
                     !.tool = tool, !.at = now, !.since = [f \in Files |-> {file[f]}]]
  OBVIOUS
<1>1. /\ rec.pc = "stat-credentials" /\ rec.bearer = b /\ rec.who = None
      /\ rec.since = [f \in Files |-> {file[f]}] /\ IsRequest(rec)
  BY DEF Idle, Fields, IsRequest
<1>2. Typed(rec)
  BY <1>1 DEF Typed, Points, Loading, Files, TypeInv, FilesTyped
<1> QED  BY <1>1, <1>2, CacheKept, TypedThreadStep DEF Receive

LEMMA InstallTyped ==
  ASSUME TypeInv, NEW f \in Files, NEW P, Install(f, P),
         P \in (IF f = "credentials" THEN CredentialFiles ELSE Policies)
  PROVE  TypeInv'
<1>1. /\ \A g \in Files : /\ file'[g] = (IF g = f THEN P ELSE file[g])
                          /\ mtime'[g] = IF g = f THEN now ELSE mtime[g]
      /\ UNCHANGED <<now, cache>>
      /\ DOMAIN file' = Files /\ DOMAIN mtime' = Files
  <2>1. /\ file' = [file EXCEPT ![f] = P] /\ mtime' = [mtime EXCEPT ![f] = now]
        /\ UNCHANGED <<now, cache>>
    BY Zenon DEF Install
  <2> QED  BY <2>1 DEF TypeInv, ShapeOK
<1>2. FilesTyped'
  BY <1>1 DEF TypeInv, FilesTyped, Files
<1>3. \A g \in Files : mtime[g] \in Nat /\ mtime'[g] \in Nat /\ mtime[g] <= mtime'[g]
  BY <1>1 DEF TypeInv, FilesTyped
<1>4. \A g \in Files : CacheTyped(g)'
  BY <1>1, <1>3 DEF TypeInv, CacheTyped
<1>5. \A h \in Handlers : IsRequest(request'[h]) /\ Typed(request[h])'
  <2> TAKE h \in Handlers
  <2>1. IsRequest(request[h]) /\ Typed(request[h])
    BY DEF TypeInv, ShapeOK
  <2>2. \A g \in Loading(request[h].pc) : request[h].mtime \in 0 .. mtime'[g]
    BY <1>3, <2>1 DEF Typed, Loading, Files
  <2>3. CASE request[h].pc = "idle"
    BY <2>1, <2>2, <2>3 DEF Install, Typed
  <2>4. CASE request[h].pc # "idle"
    <3>1. request'[h] = [request[h] EXCEPT !.since = Joined(request[h].since, f, P)]
      BY <2>4 DEF Install
    <3>2. PICK S : S = Joined(request[h].since, f, P)
      OBVIOUS
    <3>3. request'[h] = [x \in Fields |-> IF x = "since" THEN S ELSE request[h][x]]
      BY <2>1, <3>1, <3>2 DEF IsRequest, Fields
    <3>4. /\ request'[h].since = S /\ request'[h].pc = request[h].pc /\ request'[h].who = request[h].who
          /\ request'[h].mtime = request[h].mtime /\ request'[h].bearer = request[h].bearer
      BY <3>3 DEF Fields
    <3>5. IsRequest(request'[h])
      BY <3>2, <3>3, <3>4 DEF IsRequest, Joined
    <3>6. S["credentials"] \subseteq CredentialFiles /\ S["rights"] \subseteq Policies
      BY <2>1, <3>2 DEF Joined, Typed, Files
    <3> QED  BY <2>1, <2>2, <3>4, <3>5, <3>6 DEF Typed
  <2> QED  BY <2>3, <2>4
<1>6. ShapeOK'
  <2>1. request' = [h \in Handlers |-> request'[h]]
    BY DEF Install
  <2> QED  BY <1>1, <1>5, <2>1 DEF TypeInv, ShapeOK
<1> QED  BY <1>2, <1>4, <1>5, <1>6 DEF TypeInv

LEMMA NextTyped == ASSUME TypeInv, [Next]_vars  PROVE TypeInv'
<1>1. CASE UNCHANGED vars
  BY <1>1 DEF vars, TypeInv, ShapeOK, FilesTyped, CacheTyped, Typed
<1>2. CASE Tick
  <2>1. FilesTyped'
    BY <1>2, GatewayAssumption DEF Tick, TypeInv, FilesTyped
  <2> QED  BY <1>2, <2>1 DEF Tick, TypeInv, ShapeOK, CacheTyped, Typed
<1>3. CASE \E K \in CredentialFiles : Install("credentials", K)
  BY <1>3, InstallTyped DEF Files
<1>4. CASE \E P \in Policies : Install("rights", P)
  BY <1>4, InstallTyped DEF Files
<1>5. CASE \E h \in Handlers, b \in Bearers, tree \in Trees, tool \in Tools \cup {None} :
             Receive(h, b, tree, tool)
  BY <1>5, ReceiveTyped
<1>6. CASE \E h \in Handlers : Step(h)
  BY <1>6, StepTyped
<1> QED  BY <1>1, <1>2, <1>3, <1>4, <1>5, <1>6 DEF Next

(* A cache is stamped with an mtime its file has had, and whom a request   *)
(* is taken to come from is somebody, whatever the mtimes (rights.rs:940,  *)
(* auth.rs:98).                                                            *)
THEOREM TypeCorrect == Spec => []TypeOK
<1>1. TypeInv => TypeOK
  BY DEF TypeInv, FilesTyped, CacheTyped, Typed, Points, TypeOK
<1>2. TypeInv /\ [Next]_vars => TypeInv'
  BY NextTyped
<1> QED  BY <1>1, <1>2, InitTypes, PTL DEF Spec

=============================================================================
