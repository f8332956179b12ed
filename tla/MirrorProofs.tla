---------------------------- MODULE MirrorProofs ----------------------------
(***************************************************************************)
(* The mirror grants nothing that neither the operator nor a membership    *)
(* ever granted and no torn line reads as, for any people, sources,        *)
(* threads and numbers of changes and failures, although the writers share *)
(* one temporary file.                                                     *)
(***************************************************************************)
EXTENDS Mirror, TLAPS

Collecting == [op : {"set"}, members : SUBSET (Users \X Sources), left : SUBSET Sources]

Working == {"open", "write", "rename"}

ThreadType ==
  [pc : {"idle", "fetch", "read"} \cup Working, task : Delivery \cup Collecting \cup {None},
   next : Content \cup {None}, fd : {"tmp", "file", "unlinked", None}]

(* A thread has a text exactly while it writes one, a descriptor only      *)
(* while it writes, and something to do unless it rests.                   *)
Consistent(r) ==
  /\ r \in ThreadType
  /\ r.pc \in Working <=> r.next \in Content
  /\ r.pc # "write" => r.fd = None
  /\ r.pc = "fetch" => r.task \in Collecting
  /\ r.pc = "read" => r.task \in Delivery \cup Collecting

Types ==
  /\ truth \in SUBSET (Users \X Sources)
  /\ deliveries \in SUBSET Delivery
  /\ file \in Content
  /\ tmp \in Content \cup {None}
  /\ thread \in [Threads -> ThreadType]
  /\ \A t \in Threads : Consistent(thread[t])
  /\ \A t \in Threads : thread[t].fd = "tmp" => tmp \in Content
  /\ everTrue \in SUBSET (Users \X Trees)

(***************************************************************************)
(* The operators on contents and on threads.                               *)
(***************************************************************************)
LEMMA JustifiedType ==
  ASSUME NEW M \in SUBSET (Users \X Sources)
  PROVE  Justified(M) \subseteq Users \X Trees
BY MirrorAssumption DEF Justified

LEMMA MirroredJustified ==
  ASSUME NEW M \in SUBSET (Users \X Sources)
  PROVE  Mirrored(M) \subseteq Justified(M)
BY DEF Mirrored, Justified

LEMMA EditedType ==
  ASSUME NEW c \in Content, NEW task \in Delivery \cup Collecting
  PROVE  Edited(c, task) \in Content
<1>1. CASE task \in Delivery
  BY <1>1 DEF Edited, Grant, Revoke, Content, Delivery
<1>2. CASE task \in Collecting
  <2>1. Mirrored(task.members) \subseteq Users \X Trees
    BY <1>2, MirroredJustified, JustifiedType DEF Collecting
  <2>2. Edited(c, task) = SetGrants(c, task.members)
    BY <1>2 DEF Edited, Collecting
  <2> QED  BY <2>1, <2>2 DEF SetGrants, Content
<1> QED  BY <1>1, <1>2

LEMMA EmptyType == Empty \in Content
BY DEF Empty, Content

(* An overlay holds lines of both texts, and what torn lines read as. *)
LEMMA OverlaidGrants ==
  ASSUME NEW new \in Content, NEW old \in Content, NEW c \in Overlaid(new, old)
  PROVE  /\ c \in Content
         /\ c.grants \subseteq new.grants \cup old.grants \cup TornGrants
<1>1. CASE old = Empty \/ new = Empty
  <2>1. c = new \/ c = old
    BY <1>1 DEF Overlaid
  <2> QED  BY <2>1
<1>2. CASE old # Empty /\ new # Empty
  <2>1. PICK G \in SUBSET (old.grants \cup TornGrants), r \in {"all", "part", "none"} :
          c = [grants |-> new.grants \cup G, rest |-> r]
    BY <1>2 DEF Overlaid, Content
  <2>2. new.grants \cup G \subseteq Users \X Trees
    BY MirrorAssumption DEF Content
  <2> QED  BY <2>1, <2>2 DEF Content
<1> QED  BY <1>1, <1>2

LEMMA BeginningsGrants ==
  ASSUME NEW c \in Content, NEW p \in Beginnings(c)
  PROVE  p \in Content /\ p.grants \subseteq c.grants \cup TornGrants
<1>1. PICK G \in SUBSET (c.grants \cup TornGrants), r \in {"all", "part", "none"} :
        p = [grants |-> G, rest |-> r]
  BY DEF Beginnings, Content
<1>2. G \subseteq Users \X Trees
  BY MirrorAssumption DEF Content
<1> QED  BY <1>1, <1>2 DEF Content

(* A failed write leaves a file alone or lines of what was to be written.  *)
LEMMA AfterFailureGrants ==
  ASSUME NEW t, NEW name, NEW old, NEW c \in AfterFailure(t, name, old), c # old,
         thread[t].pc = "write" => thread[t].next \in Content,
         thread[t].fd = name => old \in Content
  PROVE  /\ thread[t].next \in Content /\ old \in Content /\ c \in Content
         /\ c.grants \subseteq thread[t].next.grants \cup old.grants \cup TornGrants
<1>1. thread[t].next \in Content /\ old \in Content
  BY DEF AfterFailure
<1>2. PICK p \in Beginnings(thread[t].next) : c \in Overlaid(p, old)
  BY DEF AfterFailure
<1>3. p \in Content /\ p.grants \subseteq thread[t].next.grants \cup TornGrants
  BY <1>1, <1>2, BeginningsGrants
<1>4. c \in Content /\ c.grants \subseteq p.grants \cup old.grants \cup TornGrants
  BY <1>1, <1>2, <1>3, OverlaidGrants
<1> QED  BY <1>1, <1>3, <1>4

LEMMA RestingConsistent == Consistent(Resting)
BY MirrorAssumption DEF Consistent, ThreadType, Resting, Working, Content

LEMMA FollowConsistent ==
  ASSUME NEW k \in Threads, thread[k] \in ThreadType, Consistent(thread[k])
  PROVE  /\ Consistent(Follow(k))
         /\ Follow(k).fd # "tmp"
         /\ Follow(k).next = thread[k].next
         /\ Follow(k).task = thread[k].task
         /\ Follow(k) \in ThreadType
BY MirrorAssumption DEF Follow, Consistent, ThreadType, Working

-----------------------------------------------------------------------------
(* Types are kept. *)

LEMMA TypesInit == Init => Types
<1> SUFFICES ASSUME Init PROVE Types
  OBVIOUS
<1>1. Justified(truth) \subseteq Users \X Trees
  BY JustifiedType DEF Init
<1>2. Resting \in ThreadType
  BY RestingConsistent DEF Consistent
<1>3. Resting.fd # "tmp"
  BY MirrorAssumption DEF Resting
<1> QED  BY <1>1, <1>2, <1>3, RestingConsistent, MirrorAssumption DEF Init, Types, Content

(* A step that only replaces one thread's state. *)
LEMMA OneThreadTypes ==
  ASSUME Types, NEW t \in Threads, NEW r, Consistent(r),
         thread' = [thread EXCEPT ![t] = r],
         r.fd = "tmp" => tmp' \in Content,
         \A k \in Threads \ {t} : thread[k].fd = "tmp" => tmp' \in Content
  PROVE  /\ thread' \in [Threads -> ThreadType]
         /\ \A k \in Threads : Consistent(thread'[k])
         /\ \A k \in Threads : thread'[k].fd = "tmp" => tmp' \in Content
<1>1. r \in ThreadType
  BY DEF Consistent
<1>2. thread'[t] = r /\ \A k \in Threads \ {t} : thread'[k] = thread[k]
  BY DEF Types
<1> QED  BY <1>1, <1>2 DEF Types

LEMMA TypesStep == Types /\ [Next]_vars => Types'
<1> SUFFICES ASSUME Types, [Next]_vars PROVE Types'
  OBVIOUS
<1>1. ASSUME NEW u \in Users, NEW s \in Sources, Change(u, s)  PROVE Types'
  <2>1. truth' \in SUBSET (Users \X Sources)
    BY <1>1 DEF Change, Types
  <2>2. everTrue' \in SUBSET (Users \X Trees)
    BY <1>1, <2>1, JustifiedType DEF Change, Types
  <2>3. deliveries' \in SUBSET Delivery
    <3>1. TreeOf[s] \in Trees
      BY MirrorAssumption
    <3> QED  BY <1>1, <3>1 DEF Change, Types, Delivery
  <2>4. UNCHANGED <<file, tmp, thread>>
    BY <1>1 DEF Change
  <2> QED  BY <2>1, <2>2, <2>3, <2>4 DEF Types
<1>2. ASSUME NEW d \in deliveries, Lose(d)  PROVE Types'
  BY <1>2 DEF Lose, Types
<1>3. ASSUME NEW w \in Webhooks, NEW d \in deliveries, Receive(w, d)  PROVE Types'
  <2>1. deliveries' \in SUBSET Delivery /\ UNCHANGED <<truth, file, tmp, everTrue>>
    BY <1>3 DEF Receive, Types
  <2>2. CASE thread' = thread
    BY <2>1, <2>2 DEF Types
  <2>3. CASE thread' = [thread EXCEPT ![w] = [Resting EXCEPT !.pc = "read", !.task = d]]
    <3> DEFINE r == [Resting EXCEPT !.pc = "read", !.task = d]
    <3>1. Consistent(r) /\ r.fd # "tmp"
      BY MirrorAssumption DEF Types, Consistent, ThreadType, Resting, Working, Content
    <3>2. w \in Threads
      BY DEF Threads
    <3> HIDE DEF r
    <3> QED  BY <2>1, <2>3, <3>1, <3>2, OneThreadTypes DEF Types, r
  <2> QED  BY <1>3, <2>2, <2>3 DEF Receive
<1>4. ASSUME NEW t \in Threads, ReadFile(t) \/ MisreadFile(t)  PROVE Types'
  <2>1. PICK c \in Content :
          thread' = [thread EXCEPT ![t].pc = "open", ![t].next = Edited(c, thread[t].task)]
    BY <1>4, EmptyType DEF ReadFile, MisreadFile, Types
  <2> DEFINE r == [thread[t] EXCEPT !.pc = "open", !.next = Edited(c, thread[t].task)]
  <2>2. thread' = [thread EXCEPT ![t] = r]
    BY <2>1
  <2>3. thread[t].task \in Delivery \cup Collecting /\ thread[t].fd = None
    BY <1>4 DEF ReadFile, MisreadFile, Types, Consistent
  <2>4. Edited(c, thread[t].task) \in Content
    BY <2>3, EditedType
  <2>5. Consistent(r) /\ r.fd # "tmp"
    <3> DEFINE e == Edited(c, thread[t].task)
    <3>1. r = [thread[t] EXCEPT !.pc = "open", !.next = e] /\ e \in Content
      BY <2>4
    <3>2. thread[t] \in ThreadType
      BY DEF Types
    <3> HIDE DEF e, r
    <3>3. /\ r \in ThreadType /\ r.pc = "open" /\ r.next = e
          /\ r.fd = thread[t].fd
      BY <3>1, <3>2 DEF ThreadType, Working
    <3> QED  BY <2>3, <3>1, <3>3, MirrorAssumption DEF Consistent, Working
  <2>6. UNCHANGED <<truth, deliveries, file, tmp, everTrue>>
    BY <1>4 DEF ReadFile, MisreadFile
  <2> HIDE DEF r
  <2> QED  BY <2>2, <2>5, <2>6, OneThreadTypes DEF Types
<1>5. ASSUME NEW t \in Threads, OpenTmp(t)  PROVE Types'
  <2> DEFINE r == [thread[t] EXCEPT !.pc = "write", !.fd = "tmp"]
  <2>1. thread' = [thread EXCEPT ![t] = r]
    BY <1>5 DEF OpenTmp
  <2>2. tmp' \in Content
    BY <1>5, EmptyType DEF OpenTmp
  <2>3. Consistent(r)
    BY <1>5 DEF OpenTmp, Types, Consistent, ThreadType, Working
  <2>4. UNCHANGED <<truth, deliveries, file, everTrue>>
    BY <1>5 DEF OpenTmp
  <2> HIDE DEF r
  <2> QED  BY <2>1, <2>2, <2>3, <2>4, OneThreadTypes DEF Types
<1>6. ASSUME NEW t \in Threads, WriteTmp(t)  PROVE Types'
  <2> DEFINE r == [thread[t] EXCEPT !.pc = "rename", !.fd = None]
  <2>1. thread' = [thread EXCEPT ![t] = r]
    BY <1>6 DEF WriteTmp
  <2>2. thread[t].next \in Content
    BY <1>6 DEF WriteTmp, Types, Consistent, Working
  <2>3. tmp' \in Content \cup {None} /\ (tmp \in Content => tmp' \in Content)
    BY <1>6, <2>2, OverlaidGrants DEF WriteTmp, Types
  <2>4. file' \in Content
    BY <1>6, <2>2, OverlaidGrants DEF WriteTmp, Types
  <2>5. Consistent(r) /\ r.fd # "tmp"
    BY <1>6, <2>2, MirrorAssumption DEF WriteTmp, Types, Consistent, ThreadType, Working
  <2>6. UNCHANGED <<truth, deliveries, everTrue>>
    BY <1>6 DEF WriteTmp
  <2> HIDE DEF r
  <2> QED  BY <2>1, <2>3, <2>4, <2>5, <2>6, OneThreadTypes DEF Types
<1>7. ASSUME NEW t \in Threads, RenameTmp(t)  PROVE Types'
  <2>1. UNCHANGED <<truth, deliveries, everTrue>>
    BY <1>7 DEF RenameTmp
  <2>2. Consistent(Resting) /\ Resting.fd # "tmp" /\ Resting \in ThreadType
    BY RestingConsistent, MirrorAssumption DEF Consistent, Resting
  <2>3. CASE tmp = None
    BY <1>7, <2>1, <2>2, <2>3, OneThreadTypes DEF RenameTmp, Rest, Types
  <2>4. CASE tmp # None
    <3>1. /\ file' = tmp /\ tmp' = None
          /\ thread' = [k \in Threads |-> IF k = t THEN Resting ELSE Follow(k)]
      BY <1>7, <2>4 DEF RenameTmp
    <3>2. \A k \in Threads : Consistent(Follow(k)) /\ Follow(k).fd # "tmp" /\ Follow(k) \in ThreadType
      BY FollowConsistent DEF Types
    <3>3. /\ thread' \in [Threads -> ThreadType]
          /\ \A k \in Threads : Consistent(thread'[k]) /\ thread'[k].fd # "tmp"
      BY <2>2, <3>1, <3>2
    <3> QED  BY <2>1, <2>4, <3>1, <3>3 DEF Types
  <2> QED  BY <2>3, <2>4
<1>8. ASSUME StartReconcile  PROVE Types'
  <2> DEFINE r == [Resting EXCEPT !.pc = "fetch", !.task = Fetching({}, Sources)]
  <2>1. thread' = [thread EXCEPT ![Sync] = r] /\ Sync \in Threads
    BY <1>8 DEF StartReconcile, Threads
  <2>2. Consistent(r) /\ r.fd # "tmp"
    BY MirrorAssumption DEF Consistent, ThreadType, Resting, Working, Fetching, Collecting, Content
  <2>3. UNCHANGED <<truth, deliveries, file, tmp, everTrue>>
    BY <1>8 DEF StartReconcile
  <2> HIDE DEF r
  <2> QED  BY <2>1, <2>2, <2>3, OneThreadTypes DEF Types
<1>9. ASSUME NEW s \in Sources, Fetch(s)  PROVE Types'
  <2> DEFINE got  == thread[Sync].task.members \cup {m \in truth : m[2] = s}
             left == thread[Sync].task.left \ {s}
             r == [thread[Sync] EXCEPT !.task = Fetching(got, left),
                                       !.pc = IF left = {} THEN "read" ELSE "fetch"]
  <2>1. thread' = [thread EXCEPT ![Sync] = r] /\ Sync \in Threads
    BY <1>9 DEF Fetch, Threads
  <2>2. thread[Sync].task \in Collecting /\ thread[Sync].pc = "fetch"
    BY <1>9, <2>1 DEF Fetch, Types, Consistent
  <2>3. Fetching(got, left) \in Collecting
    BY <2>2 DEF Types, Fetching, Collecting
  <2>4. Consistent(r) /\ r.fd # "tmp"
    <3> HIDE DEF got, left
    <3> QED  BY <2>1, <2>2, <2>3, MirrorAssumption DEF Types, Consistent, ThreadType, Working
  <2>5. UNCHANGED <<truth, deliveries, file, tmp, everTrue>>
    BY <1>9 DEF Fetch
  <2> HIDE DEF r
  <2> QED  BY <2>1, <2>4, <2>5, OneThreadTypes DEF Types
<1>10. ASSUME NEW t \in Threads, Fail(t)  PROVE Types'
  <2>1. Consistent(Resting) /\ Resting.fd # "tmp"
    BY RestingConsistent, MirrorAssumption DEF Resting
  <2>2. /\ tmp' \in AfterFailure(t, "tmp", tmp) /\ file' \in AfterFailure(t, "file", file)
        /\ thread' = [thread EXCEPT ![t] = Resting]
        /\ UNCHANGED <<truth, deliveries, everTrue>>
    BY <1>10 DEF Fail, Rest
  <2>3. /\ thread[t].pc = "write" => thread[t].next \in Content
        /\ thread[t].fd = "tmp" => tmp \in Content
    BY DEF Types, Consistent, Working
  <2>4. (tmp' = tmp \/ tmp' \in Content) /\ file' \in Content
    BY <2>2, <2>3, AfterFailureGrants DEF Types
  <2>5. \A k \in Threads \ {t} : thread[k].fd = "tmp" => tmp' \in Content
    BY <2>4 DEF Types
  <2> QED  BY <2>1, <2>2, <2>4, <2>5, OneThreadTypes DEF Types
<1>11. ASSUME Crash  PROVE Types'
  <2>1. Consistent(Resting) /\ Resting.fd # "tmp" /\ Resting \in ThreadType
    BY RestingConsistent, MirrorAssumption DEF Consistent, Resting
  <2>2. PICK t \in Threads : file' \in AfterFailure(t, "file", file)
    BY <1>11 DEF Crash
  <2>3. thread[t].pc = "write" => thread[t].next \in Content
    BY DEF Types, Consistent, Working
  <2>4. file' \in Content
    BY <2>2, <2>3, AfterFailureGrants DEF Types
  <2> QED  BY <1>11, <2>1, <2>4 DEF Crash, Types
<1>12. CASE UNCHANGED vars
  BY <1>12 DEF vars, Types
<1> QED
  BY <1>1, <1>2, <1>3, <1>4, <1>5, <1>6, <1>7, <1>8, <1>9, <1>10, <1>11, <1>12 DEF Next, Write

(* Files and histories hold grants, and threads run known steps            *)
(* (sync.rs:343).                                                          *)
THEOREM TypeCorrect == Spec => []TypeOK
<1>1. Types => TypeOK
  BY MirrorAssumption DEF Types, TypeOK, Consistent, ThreadType, Working
<1> QED  BY <1>1, TypesInit, TypesStep, PTL DEF Spec

-----------------------------------------------------------------------------
(* Whatever text or delivery is under way grants only what the operator    *)
(* or a membership has granted, and member lists are true or were.         *)

Once == InitiallyGranted \cup everTrue \cup TornGrants

OnceTrue(task) ==
  /\ task \in Delivery /\ task.op = "grant" => <<task.user, task.tree>> \in Once
  /\ task \in Collecting => Justified(task.members) \subseteq everTrue

Warranted(r) ==
  /\ r.next \in Content => r.next.grants \subseteq Once
  /\ r.pc \in {"fetch", "read"} => OnceTrue(r.task)

Sound ==
  /\ Types
  /\ Justified(truth) \subseteq everTrue
  /\ \A d \in deliveries : OnceTrue(d)
  /\ file.grants \subseteq Once
  /\ tmp \in Content => tmp.grants \subseteq Once
  /\ \A t \in Threads : Warranted(thread[t])

LEMMA OpsDisjoint == Delivery \cap Collecting = {}
<1> SUFFICES ASSUME NEW d \in Delivery, NEW e \in Collecting, d = e PROVE FALSE
  OBVIOUS
<1>1. d.op \in {"grant", "revoke"} /\ e.op = "set"
  BY DEF Delivery, Collecting
<1> QED  BY <1>1

LEMMA EditedSound ==
  ASSUME NEW c \in Content, NEW task \in Delivery \cup Collecting,
         c.grants \subseteq Once, OnceTrue(task)
  PROVE  Edited(c, task).grants \subseteq Once
<1>1. CASE task \in Delivery
  BY <1>1 DEF Edited, Grant, Revoke, Content, Delivery, OnceTrue
<1>2. CASE task \in Collecting
  <2>1. Mirrored(task.members) \subseteq everTrue
    BY <1>2, MirroredJustified DEF Collecting, OnceTrue
  <2>2. Edited(c, task) = SetGrants(c, task.members)
    BY <1>2 DEF Edited, Collecting
  <2> QED  BY <2>1, <2>2 DEF SetGrants, Content, Once
<1> QED  BY <1>1, <1>2

LEMMA OverlaidSound ==
  ASSUME NEW new \in Content, NEW old \in Content, NEW c \in Overlaid(new, old),
         new.grants \subseteq Once, old.grants \subseteq Once
  PROVE  c.grants \subseteq Once
BY OverlaidGrants DEF Once

LEMMA AfterFailureSound ==
  ASSUME Sound, NEW t \in Threads
  PROVE  /\ \A c \in AfterFailure(t, "tmp", tmp) : c \in Content => c.grants \subseteq Once
         /\ \A c \in AfterFailure(t, "file", file) : c.grants \subseteq Once
<1>1. /\ thread[t].pc = "write" => thread[t].next \in Content
      /\ thread[t].fd = "tmp" => tmp \in Content
      /\ file \in Content
  BY DEF Sound, Types, Consistent, Working
<1>2. /\ thread[t].next \in Content => thread[t].next.grants \subseteq Once
      /\ tmp \in Content => tmp.grants \subseteq Once
      /\ file.grants \subseteq Once /\ TornGrants \subseteq Once
  BY DEF Sound, Warranted, Once
<1>3. ASSUME NEW c \in AfterFailure(t, "tmp", tmp), c \in Content  PROVE c.grants \subseteq Once
  <2>1. CASE c = tmp
    BY <1>2, <1>3, <2>1
  <2>2. CASE c # tmp
    BY <1>1, <1>2, <2>2, AfterFailureGrants
  <2> QED  BY <2>1, <2>2
<1>4. ASSUME NEW c \in AfterFailure(t, "file", file)  PROVE c.grants \subseteq Once
  <2>1. CASE c = file
    BY <1>2, <2>1
  <2>2. CASE c # file
    BY <1>1, <1>2, <2>2, AfterFailureGrants
  <2> QED  BY <2>1, <2>2
<1> QED  BY <1>3, <1>4

LEMMA RestingWarranted == Warranted(Resting)
BY MirrorAssumption DEF Warranted, Resting, Content

(* Nothing that was granted once is forgotten. *)
LEMMA OnceGrows ==
  ASSUME Types, everTrue \subseteq everTrue'
  PROVE  /\ Once \subseteq Once'
         /\ \A task : OnceTrue(task) => OnceTrue(task)'
         /\ \A r : Warranted(r) => Warranted(r)'
BY DEF Once, OnceTrue, Warranted

LEMMA SoundInit == Init => Sound
<1> SUFFICES ASSUME Init PROVE Sound
  OBVIOUS
<1>1. Types
  BY TypesInit
<1>2. \A t \in Threads : thread[t] = Resting
  BY DEF Init
<1>3. tmp \notin Content
  BY MirrorAssumption DEF Init, Content
<1>4. file.grants = InitiallyGranted
  BY DEF Init
<1>5. deliveries = {} /\ everTrue = Justified(truth)
  BY DEF Init
<1> QED  BY <1>1, <1>2, <1>3, <1>4, <1>5, RestingWarranted DEF Sound, Once

(* A step that does not touch the code host and its deliveries. *)
LEMMA OneThreadSound ==
  ASSUME Sound, Types', NEW t \in Threads, NEW r, Warranted(r),
         thread' = [thread EXCEPT ![t] = r],
         UNCHANGED <<truth, everTrue>>, deliveries' \subseteq deliveries,
         file'.grants \subseteq Once, tmp' \in Content => tmp'.grants \subseteq Once
  PROVE  Sound'
<1>1. Once' = Once /\ (\A task : OnceTrue(task)' <=> OnceTrue(task)) /\ (\A x : Warranted(x)' <=> Warranted(x))
  BY DEF Once, OnceTrue, Warranted
<1>2. thread'[t] = r /\ \A k \in Threads \ {t} : thread'[k] = thread[k]
  BY DEF Sound, Types
<1>3. \A k \in Threads : Warranted(thread'[k])
  BY <1>2 DEF Sound
<1>4. \A k \in Threads : Warranted(thread[k])'
  BY <1>1, <1>3
<1> QED  BY <1>1, <1>4 DEF Sound

LEMMA SoundStep == Sound /\ [Next]_vars => Sound'
<1> SUFFICES ASSUME Sound, [Next]_vars PROVE Sound'
  OBVIOUS
<1>0. Types /\ Types'
  BY TypesStep DEF Sound
<1>1. ASSUME NEW u \in Users, NEW s \in Sources, Change(u, s)  PROVE Sound'
  <2>1. everTrue' = everTrue \cup Justified(truth')
    BY <1>1 DEF Change
  <2>2. Justified(truth)' \subseteq everTrue'
    BY <2>1 DEF Justified
  <2>3. UNCHANGED <<file, tmp, thread>>
    BY <1>1 DEF Change
  <2>4. /\ Once \subseteq Once'
        /\ \A task : OnceTrue(task) => OnceTrue(task)'
        /\ \A r : Warranted(r) => Warranted(r)'
    BY <1>0, <2>1, OnceGrows
  <2>5. ASSUME NEW d \in deliveries'  PROVE OnceTrue(d)'
    <3>1. CASE d \in deliveries
      BY <3>1, <2>4 DEF Sound
    <3>2. CASE d \notin deliveries
      <4>1. CASE d = [op |-> "grant", user |-> u, tree |-> TreeOf[s]] /\ truth' = truth \cup {<<u, s>>}
        <5>1. <<u, TreeOf[s]>> \in Justified(truth')
          <6>1. <<u, s>> \in truth' /\ <<u, s>>[1] = u /\ <<u, s>>[2] = s
            BY <4>1
          <6> QED  BY <6>1, Zenon DEF Justified
        <5>2. d \in Delivery
          BY <1>0 DEF Types
        <5>3. d \notin Collecting
          BY <5>2, OpsDisjoint
        <5> QED  BY <4>1, <5>1, <5>3, <2>1 DEF OnceTrue, Once
      <4>2. CASE d.op = "revoke"
        <5>1. d \in Delivery
          BY <1>0 DEF Types
        <5>2. d \notin Collecting
          BY <5>1, OpsDisjoint
        <5> QED  BY <4>2, <5>2 DEF OnceTrue
      <4> QED  BY <1>1, <3>2, <4>1, <4>2 DEF Change
    <3> QED  BY <3>1, <3>2
  <2> QED  BY <1>0, <2>2, <2>3, <2>4, <2>5 DEF Sound
<1>2. ASSUME NEW d \in deliveries, Lose(d)  PROVE Sound'
  <2>1. deliveries' \subseteq deliveries /\ UNCHANGED <<truth, file, tmp, thread, everTrue>>
    BY <1>2 DEF Lose
  <2> QED  BY <1>0, <2>1 DEF Sound, Once, OnceTrue, Warranted
<1>3. ASSUME NEW w \in Webhooks, NEW d \in deliveries, Receive(w, d)  PROVE Sound'
  <2>1. deliveries' \subseteq deliveries /\ UNCHANGED <<truth, file, tmp, everTrue>>
    BY <1>3 DEF Receive
  <2>2. CASE thread' = thread
    BY <1>0, <2>1, <2>2 DEF Sound, Once, OnceTrue, Warranted
  <2>3. CASE thread' = [thread EXCEPT ![w] = [Resting EXCEPT !.pc = "read", !.task = d]]
    <3> DEFINE r == [Resting EXCEPT !.pc = "read", !.task = d]
    <3>1. r.next \notin Content /\ r.task = d
      BY MirrorAssumption DEF Resting, Content
    <3>2. w \in Threads /\ OnceTrue(d)
      BY DEF Threads, Sound
    <3> HIDE DEF r
    <3>3. Warranted(r)
      BY <3>1, <3>2 DEF Warranted
    <3>4. file'.grants \subseteq Once /\ (tmp' \in Content => tmp'.grants \subseteq Once)
      BY <2>1 DEF Sound
    <3> QED  BY <1>0, <2>1, <2>3, <3>2, <3>3, <3>4, OneThreadSound DEF r
  <2> QED  BY <1>3, <2>2, <2>3 DEF Receive
<1>4. ASSUME NEW t \in Threads, ReadFile(t) \/ MisreadFile(t)  PROVE Sound'
  <2>1. PICK c \in Content :
          /\ c.grants \subseteq Once
          /\ thread' = [thread EXCEPT ![t].pc = "open", ![t].next = Edited(c, thread[t].task)]
    <3>1. Empty.grants = {}
      BY DEF Empty
    <3> QED  BY <1>4, <3>1, EmptyType DEF ReadFile, MisreadFile, Types, Sound
  <2> DEFINE e == Edited(c, thread[t].task)
             r == [thread[t] EXCEPT !.pc = "open", !.next = e]
  <2>2. thread' = [thread EXCEPT ![t] = r]
    BY <2>1
  <2>3. thread[t].pc = "read" /\ thread[t].task \in Delivery \cup Collecting
    BY <1>0, <1>4 DEF ReadFile, MisreadFile, Types, Consistent
  <2>4. e.grants \subseteq Once
    BY <2>1, <2>3, EditedSound DEF Sound, Warranted
  <2>5. Warranted(r)
    <3> HIDE DEF e
    <3>1. r.pc = "open" /\ r.next = e
      BY <1>0 DEF Types, ThreadType
    <3> HIDE DEF r
    <3> QED  BY <2>4, <3>1 DEF Warranted
  <2>6. UNCHANGED <<truth, deliveries, file, tmp, everTrue>>
    BY <1>4 DEF ReadFile, MisreadFile
  <2>7. file'.grants \subseteq Once /\ (tmp' \in Content => tmp'.grants \subseteq Once)
    BY <2>6 DEF Sound
  <2> HIDE DEF r, e
  <2> QED  BY <1>0, <2>2, <2>5, <2>6, <2>7, OneThreadSound
<1>5. ASSUME NEW t \in Threads, OpenTmp(t)  PROVE Sound'
  <2> DEFINE r == [thread[t] EXCEPT !.pc = "write", !.fd = "tmp"]
  <2>1. thread' = [thread EXCEPT ![t] = r]
    BY <1>5 DEF OpenTmp
  <2>2. r.pc = "write" /\ r.next = thread[t].next
    BY <1>0 DEF Types, ThreadType
  <2>3. Warranted(r)
    <3> HIDE DEF r
    <3> QED  BY <2>2 DEF Warranted, Sound
  <2>4. /\ UNCHANGED <<truth, deliveries, file, everTrue>>
        /\ tmp'.grants \subseteq Once
    BY <1>5 DEF OpenTmp, Empty
  <2> HIDE DEF r
  <2> QED  BY <1>0, <2>1, <2>3, <2>4, OneThreadSound DEF Sound
<1>6. ASSUME NEW t \in Threads, WriteTmp(t)  PROVE Sound'
  <2> DEFINE r == [thread[t] EXCEPT !.pc = "rename", !.fd = None]
  <2>1. thread' = [thread EXCEPT ![t] = r]
    BY <1>6 DEF WriteTmp
  <2>2. r.pc = "rename" /\ r.next = thread[t].next
    BY <1>0 DEF Types, ThreadType
  <2>3. Warranted(r)
    <3> HIDE DEF r
    <3> QED  BY <2>2 DEF Warranted, Sound
  <2>4. thread[t].next \in Content /\ thread[t].next.grants \subseteq Once
    BY <1>0, <1>6 DEF WriteTmp, Types, Consistent, Working, Sound, Warranted
  <2>5. tmp' \in Content => tmp'.grants \subseteq Once
    <3>1. CASE thread[t].fd = "tmp"
      BY <1>0, <1>6, <2>4, <3>1, OverlaidSound DEF WriteTmp, Types, Sound
    <3>2. CASE thread[t].fd # "tmp"
      BY <1>6, <3>2 DEF WriteTmp, Sound
    <3> QED  BY <3>1, <3>2
  <2>6. file'.grants \subseteq Once
    <3>1. CASE thread[t].fd = "file"
      BY <1>0, <1>6, <2>4, <3>1, OverlaidSound DEF WriteTmp, Types, Sound
    <3>2. CASE thread[t].fd # "file"
      BY <1>6, <3>2 DEF WriteTmp, Sound
    <3> QED  BY <3>1, <3>2
  <2>7. UNCHANGED <<truth, deliveries, everTrue>>
    BY <1>6 DEF WriteTmp
  <2> HIDE DEF r
  <2> QED  BY <1>0, <2>1, <2>3, <2>5, <2>6, <2>7, OneThreadSound
<1>7. ASSUME NEW t \in Threads, RenameTmp(t)  PROVE Sound'
  <2>1. UNCHANGED <<truth, deliveries, everTrue>>
    BY <1>7 DEF RenameTmp
  <2>2. CASE tmp = None
    <3>1. UNCHANGED <<file, tmp>> /\ thread' = [thread EXCEPT ![t] = Resting]
      BY <1>7, <2>2 DEF RenameTmp, Rest
    <3> QED  BY <1>0, <2>1, <3>1, RestingWarranted, OneThreadSound DEF Sound
  <2>3. CASE tmp # None
    <3>1. /\ file' = tmp /\ tmp' = None
          /\ thread' = [k \in Threads |-> IF k = t THEN Resting ELSE Follow(k)]
      BY <1>7, <2>3 DEF RenameTmp
    <3>2. ASSUME NEW k \in Threads  PROVE Warranted(Follow(k))
      <4>1. Follow(k).next = thread[k].next /\ Follow(k).task = thread[k].task
        BY <1>0, FollowConsistent DEF Types
      <4>2. Follow(k).pc = thread[k].pc
        BY <1>0 DEF Follow, Types, ThreadType
      <4> QED  BY <4>1, <4>2 DEF Warranted, Sound
    <3>3. \A k \in Threads : Warranted(thread'[k])
      BY <3>1, <3>2, RestingWarranted
    <3>4. /\ file'.grants \subseteq Once
          /\ tmp' \notin Content
      BY <1>0, <2>3, <3>1, MirrorAssumption DEF Sound, Types, Content
    <3> QED  BY <1>0, <2>1, <3>3, <3>4 DEF Sound, Once, OnceTrue, Warranted
  <2> QED  BY <2>2, <2>3
<1>8. ASSUME StartReconcile  PROVE Sound'
  <2> DEFINE r == [Resting EXCEPT !.pc = "fetch", !.task = Fetching({}, Sources)]
  <2>1. thread' = [thread EXCEPT ![Sync] = r] /\ Sync \in Threads
    BY <1>8 DEF StartReconcile, Threads
  <2>2. r.next \notin Content /\ r.task = Fetching({}, Sources)
    BY MirrorAssumption DEF Resting, Content
  <2>3. Fetching({}, Sources) \in Collecting /\ Justified(Fetching({}, Sources).members) = {}
    BY DEF Fetching, Collecting, Justified
  <2>4. OnceTrue(Fetching({}, Sources))
    BY <2>3, OpsDisjoint DEF OnceTrue
  <2>5. Warranted(r)
    <3> HIDE DEF r
    <3> QED  BY <2>2, <2>4 DEF Warranted
  <2>6. UNCHANGED <<truth, deliveries, file, tmp, everTrue>>
    BY <1>8 DEF StartReconcile
  <2> HIDE DEF r
  <2> QED  BY <1>0, <2>1, <2>5, <2>6, OneThreadSound DEF Sound
<1>9. ASSUME NEW s \in Sources, Fetch(s)  PROVE Sound'
  <2> DEFINE got  == thread[Sync].task.members \cup {m \in truth : m[2] = s}
             left == thread[Sync].task.left \ {s}
             new  == Fetching(got, left)
             r == [thread[Sync] EXCEPT !.task = new,
                                       !.pc = IF left = {} THEN "read" ELSE "fetch"]
  <2>1. thread' = [thread EXCEPT ![Sync] = r] /\ Sync \in Threads
    BY <1>9 DEF Fetch, Threads
  <2>2. thread[Sync].task \in Collecting /\ thread[Sync].pc = "fetch"
    BY <1>0, <1>9, <2>1 DEF Fetch, Types, Consistent
  <2>3. new \in Collecting /\ new.members = got
    BY <1>0, <2>2 DEF Types, Fetching, Collecting
  <2>4. Justified(thread[Sync].task.members) \subseteq everTrue
    BY <2>1, <2>2 DEF Sound, Warranted, OnceTrue
  <2>5. Justified(got) \subseteq everTrue
    BY <2>4 DEF Justified, Sound
  <2>6. OnceTrue(new)
    <3> HIDE DEF new, got
    <3> QED  BY <2>3, <2>5, OpsDisjoint DEF OnceTrue
  <2>7. Warranted(r)
    <3> HIDE DEF new, left
    <3>1. r.next = thread[Sync].next /\ r.task = new
      BY <1>0, <2>1 DEF Types, ThreadType
    <3> HIDE DEF r
    <3> QED  BY <2>1, <2>6, <3>1 DEF Warranted, Sound
  <2>8. UNCHANGED <<truth, deliveries, file, tmp, everTrue>>
    BY <1>9 DEF Fetch
  <2> HIDE DEF r, new, left, got
  <2> QED  BY <1>0, <2>1, <2>7, <2>8, OneThreadSound DEF Sound
<1>10. ASSUME NEW t \in Threads, Fail(t)  PROVE Sound'
  <2>1. /\ tmp' \in AfterFailure(t, "tmp", tmp) /\ file' \in AfterFailure(t, "file", file)
        /\ thread' = [thread EXCEPT ![t] = Resting]
        /\ UNCHANGED <<truth, deliveries, everTrue>>
    BY <1>10 DEF Fail, Rest
  <2>2. file'.grants \subseteq Once /\ (tmp' \in Content => tmp'.grants \subseteq Once)
    BY <2>1, AfterFailureSound
  <2> QED  BY <1>0, <2>1, <2>2, RestingWarranted, OneThreadSound
<1>11. ASSUME Crash  PROVE Sound'
  <2>1. /\ UNCHANGED <<truth, deliveries, tmp, everTrue>>
        /\ \A t \in Threads : thread'[t] = Resting
        /\ \E t \in Threads : file' \in AfterFailure(t, "file", file)
    BY <1>11 DEF Crash
  <2>2. \A t \in Threads : Warranted(thread'[t])
    BY <2>1, RestingWarranted
  <2>3. file'.grants \subseteq Once
    BY <2>1, AfterFailureSound
  <2> QED  BY <1>0, <2>1, <2>2, <2>3 DEF Sound, Once, OnceTrue, Warranted
<1>12. CASE UNCHANGED vars
  BY <1>0, <1>12 DEF vars, Sound, Once, OnceTrue, Warranted
<1> QED
  BY <1>1, <1>2, <1>3, <1>4, <1>5, <1>6, <1>7, <1>8, <1>9, <1>10, <1>11, <1>12 DEF Next, Write

(* "Mirrored, not created" (sync.rs:6): no interleaving of the writers,    *)
(* the failures and the deliveries grants what neither the operator nor a  *)
(* membership ever did and no torn line reads as.                          *)
THEOREM NothingIsCreated == Spec => []MirroredNotCreated
<1>1. Sound => MirroredNotCreated
  BY DEF Sound, MirroredNotCreated, Once
<1> QED  BY <1>1, SoundInit, SoundStep, PTL DEF Spec
=============================================================================
