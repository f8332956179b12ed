------------------------ MODULE PolicyApprovalProofs ------------------------
(***************************************************************************)
(* The file operations of the policy proposals, for any number of threads, *)
(* callers, proposals and texts: however the requests interleave and fail, *)
(* what is in force is one whole vetted text unless two approvals shared   *)
(* rights.pending; and requests that take turns keep the promise of        *)
(* FourEyes.                                                               *)
(***************************************************************************)
EXTENDS PolicyApproval, ProposalsProofs

Points == {"idle", "compose", "exists", "create", "fill", "load", "compare", "open", "write",
           "rename", "record", "rewrite"}

(* Steps of an approval that has passed the checks, and all those of a     *)
(* request that holds a proposal.                                          *)
Checked == {"open", "write", "rename", "record", "rewrite"}
Loaded  == Checked \cup {"compare", "exists", "create", "fill"}

(* What a request holds: a proposal that was pending when it was read.     *)
Held == ProposalsIn({"pending"})

HandlerState ==
  [pc : Points, caller : Callers \cup {None}, id : Ids \cup {None}, sub : Submissions \cup {None},
   scope : {Global, None} \cup SUBSET Trees, value : Held \cup {NoProposal},
   fd : {"pending", "active", "unlinked", None}]

(***************************************************************************)
(* A request w, where `rights.pending` is P and the texts V were vetted.   *)
(* Who got past the comparison has had another author's text vetted, and a *)
(* descriptor for `rights.pending` means that it exists.                   *)
(***************************************************************************)
Sound(w, P, V) ==
  /\ w \in HandlerState
  /\ w.pc = "idle" => w = Idle
  /\ w.pc # "idle" => w.id \in Ids /\ w.caller \in Callers /\ w.scope \in {Global} \cup SUBSET Trees
  /\ w.pc = "compose" => w.sub \in Submissions
  /\ w.pc \in Loaded => w.value \in Held
  /\ w.pc = "compare" => w.value.author # w.caller.user
  /\ w.pc \in Checked => w.value.text \in V
  /\ w.fd # None => w.pc = "write"
  /\ w.fd = "pending" => P # None

HandlersOK ==
  /\ handler \in [Handlers -> HandlerState]
  /\ \A h \in Handlers : Sound(handler[h], pending, vetted)

FilesOK ==
  /\ vetted \subseteq SUBSET FileLines /\ shared \subseteq {"pending", "active"}
  /\ active \subseteq FileLines
  /\ pending # None => pending \subseteq FileLines
  /\ stored \in [Ids -> FileType \cup {NoProposal}]

Inv == HandlersOK /\ FilesOK

LEMMA KnownLines ==
  /\ OperatorPolicies \subseteq SUBSET FileLines /\ Submissions \subseteq SUBSET FileLines
  /\ \A l \in FileLines : WellFormed(l)
BY FourEyesAssumption, ApprovalAssumption DEF FileLines, AllLines

(* Administrators' scopes and composed texts, where lines may be torn.     *)
LEMMA AnyScopeTyped ==
  ASSUME NEW P \in SUBSET FileLines, NEW c
  PROVE  ScopeOf(P, c) \in {Global} \cup SUBSET Trees
BY KnownLines, WellFormedScope

LEMMA AnyTextTyped ==
  ASSUME NEW P \in SUBSET FileLines, NEW sub \in Submissions, NEW scope
  PROVE  ProposedText(P, sub, scope) \in SUBSET FileLines
BY KnownLines DEF ProposedText, Compose

LEMMA NoneIsNoPolicy ==
  ASSUME NEW P, P \subseteq FileLines
  PROVE  P # None
BY ApprovalAssumption

LEMMA NoneIsNoFile == None \notin {"pending", "active", "unlinked"}
BY ApprovalAssumption

LEMMA IdleSound ==
  ASSUME NEW P, NEW V
  PROVE  /\ Idle \in HandlerState /\ Sound(Idle, P, V) /\ Idle.pc = "idle" /\ Idle.fd = None
         /\ Idle.value = NoProposal
<1> PICK w : w = Idle
  OBVIOUS
<1>1. w \in HandlerState /\ w.pc = "idle" /\ w.fd = None /\ w.value = NoProposal
  BY DEF Idle, HandlerState, Points
<1>2. Sound(w, P, V)
  BY <1>1, NoneIsNoFile DEF Sound, Loaded, Checked
<1> QED  BY <1>1, <1>2

(* One request moves on. *)
LEMMA OneMoves ==
  ASSUME HandlersOK, NEW h \in Handlers, NEW w, handler' = [handler EXCEPT ![h] = w],
         Sound(w, pending', vetted'), vetted \subseteq vetted', pending # None => pending' # None
  PROVE  HandlersOK'
<1>1. w \in HandlerState
  BY DEF Sound
<1>2. handler' \in [Handlers -> HandlerState]
  BY <1>1 DEF HandlersOK
<1>3. \A k \in Handlers : handler'[k] = IF k = h THEN w ELSE handler[k]
  BY DEF HandlersOK
<1>4. ASSUME NEW k \in Handlers, k # h  PROVE Sound(handler[k], pending', vetted')
  BY <1>4 DEF HandlersOK, Sound
<1> QED  BY <1>2, <1>3, <1>4 DEF HandlersOK

LEMMA FinishSound ==
  ASSUME HandlersOK, NEW h \in Handlers, Finish(h),
         vetted \subseteq vetted', pending # None => pending' # None
  PROVE  HandlersOK'
BY IdleSound, OneMoves DEF Finish

(* A request goes to its next step, holding on to what it has. *)
LEMMA PcChanged ==
  ASSUME NEW w \in HandlerState, NEW pc \in Points, NEW v, v = [w EXCEPT !.pc = pc]
  PROVE  /\ v \in HandlerState /\ v.pc = pc /\ v.caller = w.caller /\ v.id = w.id /\ v.sub = w.sub
         /\ v.scope = w.scope /\ v.value = w.value /\ v.fd = w.fd
BY DEF HandlerState

LEMMA GotoSound ==
  ASSUME HandlersOK, NEW h \in Handlers, NEW pc \in Points \ {"idle", "compose", "compare"}, Goto(h, pc),
         handler[h].pc # "idle", handler[h].fd = None,
         pc \in Loaded => handler[h].pc \in Loaded,
         pc \in Checked => handler[h].value.text \in vetted',
         vetted \subseteq vetted', pending # None => pending' # None
  PROVE  HandlersOK'
<1> PICK w : w = [handler[h] EXCEPT !.pc = pc]
  OBVIOUS
<1>1. /\ w \in HandlerState /\ w.pc = pc /\ w.caller = handler[h].caller /\ w.id = handler[h].id
      /\ w.scope = handler[h].scope /\ w.value = handler[h].value /\ w.fd = None
  BY PcChanged DEF HandlersOK
<1>2. Sound(handler[h], pending, vetted)
  BY DEF HandlersOK
<1>3. Sound(w, pending', vetted')
  BY <1>1, <1>2 DEF Sound
<1>4. handler' = [handler EXCEPT ![h] = w]
  BY DEF Goto
<1> QED  BY <1>3, <1>4, OneMoves

-----------------------------------------------------------------------------
LEMMA StartsSound ==
  ASSUME Inv, NEW h \in Handlers, NEW c \in Callers, NEW id \in Ids,
         StartApprove(h, c, id) \/ \E sub \in Submissions : StartCreate(h, c, id, sub)
  PROVE  Inv'
<1>1. ScopeOf(active, c) \in {Global} \cup SUBSET Trees
  BY AnyScopeTyped, KnownLines DEF Inv, FilesOK
<1> PICK scope : scope = ScopeOf(active, c)
  OBVIOUS
<1>2. CASE StartApprove(h, c, id)
  <2> PICK w : w = [Idle EXCEPT !.pc = "load", !.caller = c, !.id = id, !.scope = scope]
    OBVIOUS
  <2>1. /\ w \in HandlerState /\ w.pc = "load" /\ w.caller = c /\ w.id = id /\ w.scope = scope
        /\ w.fd = None
    BY <1>1 DEF Idle, HandlerState, Points
  <2>2. Sound(w, pending, vetted)
    BY <1>1, <2>1, NoneIsNoFile DEF Sound, Loaded, Checked
  <2>3. HandlersOK'
    BY <1>2, <2>2, OneMoves DEF StartApprove, Inv, history
  <2> QED  BY <1>2, <2>3 DEF StartApprove, Inv, FilesOK, history
<1>3. ASSUME NEW sub \in Submissions, StartCreate(h, c, id, sub)  PROVE Inv'
  <2> PICK w : w = [Idle EXCEPT !.pc = "compose", !.caller = c, !.id = id, !.sub = sub, !.scope = scope]
    OBVIOUS
  <2>1. /\ w \in HandlerState /\ w.pc = "compose" /\ w.caller = c /\ w.id = id /\ w.scope = scope
        /\ w.sub = sub /\ w.fd = None
    BY <1>1 DEF Idle, HandlerState, Points
  <2>2. Sound(w, pending, vetted)
    BY <1>1, <2>1, NoneIsNoFile DEF Sound, Loaded, Checked
  <2>3. HandlersOK'
    BY <1>3, <2>2, OneMoves DEF StartCreate, Inv, history
  <2> QED  BY <1>3, <2>3 DEF StartCreate, Inv, FilesOK, history
<1> QED  BY <1>2, <1>3

LEMMA NewIsHeld ==
  ASSUME NEW P \in SUBSET FileLines, NEW sub \in Submissions, NEW scope \in {Global} \cup SUBSET Trees,
         NEW author \in Names
  PROVE  NewProposal(P, sub, scope, author) \in Held
<1>1. ProposedText(P, sub, scope) \in SUBSET FileLines
  BY AnyTextTyped
<1> QED  BY <1>1 DEF NewProposal, Held, FileType, ProposalsIn

LEMMA StateChanged ==
  ASSUME NEW p \in Held,
         NEW approver \in Names \cup {NoProposal}, NEW state \in {"opened", "pending", "reopened", "approved"}
  PROVE  /\ [p EXCEPT !.state = state] \in FileType
         /\ [p EXCEPT !.state = state, !.approver = approver] \in FileType
BY DEF Held, FileType, ProposalsIn

(* Whatever is put in the file of a proposal is the content of one.        *)
LEMMA PutTyped ==
  ASSUME Inv, NEW h \in Handlers, handler[h].id \in Ids, NEW p \in FileType, Put(h, p)
  PROVE  stored' \in [Ids -> FileType \cup {NoProposal}]
<1>1. [p EXCEPT !.state = "torn"] \in FileType
  BY DEF FileType, ProposalsIn
<1> QED  BY <1>1 DEF Put, Inv, FilesOK

LEMMA CreateSound ==
  ASSUME Inv, NEW h \in Handlers, Create(h)
  PROVE  Inv'
<1>1. Sound(handler[h], pending, vetted) /\ handler[h] \in HandlerState
  BY DEF Inv, HandlersOK, Sound
<1>2. CASE CreateCompose(h)
  <2>1. CASE Finish(h)
    BY <1>2, <2>1, FinishSound DEF CreateCompose, Inv, FilesOK, history
  <2>2. CASE MayPropose(active, handler[h].sub, handler[h].scope)
    <3> PICK value : value = NewProposal(active, handler[h].sub, handler[h].scope, handler[h].caller.user)
      OBVIOUS
    <3>1. value \in Held
      <4>1. /\ active \in SUBSET FileLines /\ handler[h].sub \in Submissions
            /\ handler[h].scope \in {Global} \cup SUBSET Trees /\ handler[h].caller.user \in Names
        BY <1>1, <1>2, KnownLines, FourEyesAssumption DEF CreateCompose, Sound, Inv, FilesOK
      <4> QED  BY <4>1, NewIsHeld
    <3> PICK w : w = [handler[h] EXCEPT !.pc = "exists", !.sub = None, !.value = value]
      OBVIOUS
    <3>2. /\ w \in HandlerState /\ w.pc = "exists" /\ w.caller = handler[h].caller /\ w.id = handler[h].id
          /\ w.scope = handler[h].scope /\ w.value = value /\ w.fd = handler[h].fd
      BY <1>1, <3>1 DEF HandlerState, Points
    <3>3. Sound(w, pending, vetted)
      BY <1>1, <1>2, <3>1, <3>2 DEF Sound, Loaded, Checked, CreateCompose
    <3>4. handler' = [handler EXCEPT ![h] = w] /\ UNCHANGED <<active, pending, stored, history>>
      BY <1>2, <2>2 DEF CreateCompose
    <3>5. HandlersOK'
      BY <3>3, <3>4, OneMoves DEF Inv, history
    <3> QED  BY <3>4, <3>5 DEF Inv, FilesOK, history
  <2> QED  BY <1>2, <2>1, <2>2 DEF CreateCompose
<1>3. CASE CreateExists(h)
  <2>1. CASE Finish(h)
    BY <1>3, <2>1, FinishSound DEF CreateExists, Inv, FilesOK, history
  <2>2. CASE Goto(h, "create")
    BY <1>1, <1>3, <2>2, GotoSound DEF CreateExists, Inv, FilesOK, history, Points, Loaded, Checked, Sound
  <2> QED  BY <1>3, <2>1, <2>2 DEF CreateExists
<1>4. CASE CreateOpen(h)
  <2>1. HandlersOK'
    BY <1>1, <1>4, GotoSound DEF CreateOpen, Inv, history, Points, Loaded, Checked, Sound
  <2>2. [handler[h].value EXCEPT !.state = "opened"] \in FileType
    BY <1>1, <1>4, StateChanged DEF CreateOpen, Sound, Loaded
  <2> QED  BY <1>4, <2>1, <2>2 DEF CreateOpen, Inv, FilesOK, history
<1>5. CASE CreateWrite(h)
  <2>1. HandlersOK'
    BY <1>5, FinishSound DEF CreateWrite, Inv, history
  <2>2. handler[h].value \in FileType /\ handler[h].id \in Ids
    BY <1>1, <1>5 DEF CreateWrite, Sound, Loaded, Held, FileType, ProposalsIn
  <2>3. stored' \in [Ids -> FileType \cup {NoProposal}]
    BY <1>5, <2>2, PutTyped DEF CreateWrite
  <2> QED  BY <1>5, <2>1, <2>3 DEF CreateWrite, Inv, FilesOK, history
<1> QED  BY <1>2, <1>3, <1>4, <1>5 DEF Create

(* A write over another text, and a part of a write, leave lines that      *)
(* those two texts and their pieces can spell.                             *)
LEMMA PiecesTyped ==
  ASSUME NEW P \in SUBSET FileLines, NEW piece \in Pieces(P)
  PROVE  piece \in SUBSET FileLines
BY ApprovalAssumption

LEMMA OverlaidTyped ==
  ASSUME NEW new \in SUBSET FileLines, NEW old \in SUBSET FileLines
  PROVE  Overlaid(new, old) \subseteq SUBSET FileLines /\ Part(new, old) \subseteq SUBSET FileLines
<1>1. TornLines \subseteq FileLines /\ \A torn \in AtMostOne(TornLines) : torn \subseteq FileLines
  BY DEF FileLines, AtMostOne
<1>2. Overlaid(new, old) \subseteq SUBSET FileLines
  BY <1>1, PiecesTyped DEF Overlaid
<1>3. Part(new, old) \subseteq SUBSET FileLines
  BY <1>1, PiecesTyped DEF Part
<1> QED  BY <1>2, <1>3

(* What a write of h, or one that fails, leaves in either file.            *)
LEMMA WrittenTyped ==
  ASSUME Inv, NEW h \in Handlers, NEW name \in {"pending", "active"},
         NEW old, handler[h].fd = name => old \in SUBSET FileLines,
         NEW new, \/ new \in Wrote(h, name, old)
                  \/ new \in {old} \cup FailedToWrite(h, name, old)
  PROVE  new = old \/ (handler[h].fd = name /\ new \in SUBSET FileLines)
<1>1. CASE handler[h].fd # name
  BY <1>1 DEF Wrote, FailedToWrite
<1>2. CASE handler[h].fd = name
  <2>1. handler[h].value \in Held
    BY <1>2, NoneIsNoFile DEF Inv, HandlersOK, Sound, Loaded, Checked
  <2>2. handler[h].value.text \in SUBSET FileLines
    BY <2>1 DEF Held, ProposalsIn
  <2> QED  BY <1>2, <2>2, OverlaidTyped DEF Wrote, FailedToWrite
<1> QED  BY <1>1, <1>2

LEMMA RenameSound ==
  ASSUME Inv, NEW h \in Handlers, ApproveRename(h)
  PROVE  Inv'
<1>1. UNCHANGED <<stored, vetted>>
  BY DEF ApproveRename
<1>2. CASE pending = None
  <2>1. Finish(h) /\ UNCHANGED <<active, pending, shared>>
    BY <1>2 DEF ApproveRename
  <2> QED  BY <1>1, <2>1, FinishSound DEF Inv, FilesOK, history
<1>3. CASE pending # None
  <2>1. /\ active' = pending /\ pending' = None /\ shared' \subseteq {"pending", "active"}
        /\ \A k \in Handlers : handler'[k] = IF k = h THEN [handler[h] EXCEPT !.pc = "record"] ELSE Follow(k)
        /\ DOMAIN handler' = Handlers /\ handler' = [k \in Handlers |-> handler'[k]]
        /\ handler[h].pc = "rename"
    BY <1>3 DEF ApproveRename
  <2>2. ASSUME NEW k \in Handlers  PROVE Sound(handler'[k], pending', vetted')
    <3>1. Sound(handler[k], pending, vetted) /\ handler[k] \in HandlerState
      BY DEF Inv, HandlersOK, Sound
    <3>2. CASE k = h
      <4> PICK w : w = handler'[h]
        OBVIOUS
      <4>1. w = [handler[h] EXCEPT !.pc = "record"]
        BY <2>1
      <4>2. /\ w \in HandlerState /\ w.pc = "record" /\ w.caller = handler[h].caller /\ w.id = handler[h].id
            /\ w.scope = handler[h].scope /\ w.value = handler[h].value /\ w.fd = handler[h].fd
        BY <3>1, <3>2, <4>1, PcChanged DEF Points
      <4>3. handler[h].fd = None
        BY <2>1, <3>1, <3>2 DEF Sound
      <4>4. Sound(w, pending', vetted')
        BY <1>1, <2>1, <3>1, <3>2, <4>2, <4>3, NoneIsNoFile DEF Sound, Loaded, Checked
      <4> QED  BY <3>2, <4>4
    <3>3. CASE k # h
      <4> PICK w : w = handler'[k]
        OBVIOUS
      <4>1. w = Follow(k)
        BY <2>1, <3>3
      <4>2. /\ w \in HandlerState /\ w.pc = handler[k].pc /\ w.caller = handler[k].caller
            /\ w.id = handler[k].id /\ w.sub = handler[k].sub
            /\ w.scope = handler[k].scope /\ w.value = handler[k].value
            /\ w.fd # "pending" /\ (w.fd # None => handler[k].fd # None)
            /\ (handler[k].fd = None => w = handler[k])
        <5>1. CASE handler[k].fd = "pending"
          BY <3>1, <4>1, <5>1, NoneIsNoFile DEF Follow, HandlerState
        <5>2. CASE handler[k].fd = "active"
          BY <3>1, <4>1, <5>2, NoneIsNoFile DEF Follow, HandlerState
        <5>3. CASE handler[k].fd \notin {"pending", "active"}
          BY <3>1, <4>1, <5>3 DEF Follow
        <5> QED  BY <5>1, <5>2, <5>3
      <4>3. w.pc = "idle" => w = Idle
        BY <3>1, <4>2 DEF Sound
      <4>4. Sound(w, pending', vetted')
        BY <1>1, <3>1, <4>2, <4>3 DEF Sound
      <4> QED  BY <4>4
    <3> QED  BY <3>2, <3>3
  <2>3. handler' \in [Handlers -> HandlerState]
    BY <2>1, <2>2 DEF Sound
  <2>4. HandlersOK'
    BY <2>2, <2>3 DEF HandlersOK
  <2> QED  BY <1>1, <1>3, <2>1, <2>4 DEF Inv, FilesOK, history
<1> QED  BY <1>2, <1>3

LEMMA ApproveSound ==
  ASSUME Inv, NEW h \in Handlers, Approve(h)
  PROVE  Inv'
<1>1. Sound(handler[h], pending, vetted) /\ handler[h] \in HandlerState
  BY DEF Inv, HandlersOK, Sound
<1>2. CASE ApproveLoad(h)
  <2>1. CASE Finish(h)
    BY <1>2, <2>1, FinishSound DEF ApproveLoad, Inv, FilesOK, history
  <2>2. CASE /\ Readable(handler[h].id)
             /\ MayLoad(stored[handler[h].id], handler[h].caller.user, handler[h].scope)
    <3> PICK value : value = stored[handler[h].id]
      OBVIOUS
    <3>1. value \in Held /\ value.author # handler[h].caller.user
      <4>1. value \in FileType /\ value.state = "pending" /\ value.author # handler[h].caller.user
        BY <1>1, <1>2, <2>2 DEF ApproveLoad, Readable, MayLoad, Sound, Inv, FilesOK
      <4> QED  BY <4>1 DEF FileType, Held, ProposalsIn
    <3> PICK w : w = [handler[h] EXCEPT !.pc = "compare", !.value = value]
      OBVIOUS
    <3>2. /\ w \in HandlerState /\ w.pc = "compare" /\ w.caller = handler[h].caller /\ w.id = handler[h].id
          /\ w.scope = handler[h].scope /\ w.value = value /\ w.fd = handler[h].fd
      BY <1>1, <3>1 DEF HandlerState, Points
    <3>3. Sound(w, pending, vetted)
      BY <1>1, <1>2, <3>1, <3>2 DEF Sound, Loaded, Checked, ApproveLoad
    <3>4. handler' = [handler EXCEPT ![h] = w] /\ UNCHANGED <<active, pending, stored, history>>
      BY <1>2, <2>2 DEF ApproveLoad
    <3>5. HandlersOK'
      BY <3>3, <3>4, OneMoves DEF Inv, history
    <3> QED  BY <3>4, <3>5 DEF Inv, FilesOK, history
  <2> QED  BY <1>2, <2>1, <2>2 DEF ApproveLoad
<1>3. CASE ApproveCompare(h)
  <2>1. CASE Finish(h) /\ UNCHANGED vetted
    BY <1>3, <2>1, FinishSound DEF ApproveCompare, Inv, FilesOK, history
  <2>2. CASE Goto(h, "open") /\ vetted' = vetted \cup {p.text : p \in
                 {q \in {handler[h].value} : q.author # handler[h].caller.user}}
    <3>1. vetted' = vetted \cup {handler[h].value.text} /\ handler[h].value \in Held
      BY <1>1, <1>3, <2>2 DEF ApproveCompare, Sound, Loaded
    <3>2. handler[h].value.text \in SUBSET FileLines
      BY <3>1 DEF Held, ProposalsIn
    <3>3. HandlersOK'
      BY <1>1, <1>3, <2>2, <3>1, GotoSound DEF ApproveCompare, Inv, Points, Loaded, Checked, Sound
    <3> QED  BY <1>3, <3>1, <3>2, <3>3 DEF ApproveCompare, Inv, FilesOK, history
  <2> QED  BY <1>3, <2>1, <2>2 DEF ApproveCompare
<1>4. CASE ApproveOpen(h)
  <2>1. pending' # None /\ pending' \subseteq FileLines
    <3>1. pending' \subseteq FileLines
      BY <1>4 DEF ApproveOpen, Empty
    <3> QED  BY <3>1, NoneIsNoPolicy
  <2> PICK w : w = [handler[h] EXCEPT !.pc = "write", !.fd = "pending"]
    OBVIOUS
  <2>2. /\ w \in HandlerState /\ w.pc = "write" /\ w.caller = handler[h].caller /\ w.id = handler[h].id
        /\ w.scope = handler[h].scope /\ w.value = handler[h].value
    BY <1>1 DEF HandlerState, Points
  <2>3. Sound(w, pending', vetted)
    BY <1>1, <1>4, <2>1, <2>2 DEF Sound, Loaded, Checked, ApproveOpen
  <2>4. /\ handler' = [handler EXCEPT ![h] = w] /\ UNCHANGED <<active, stored, vetted>>
        /\ shared' \subseteq {"pending", "active"}
    BY <1>4 DEF ApproveOpen, Opens, Inv, FilesOK
  <2>5. HandlersOK'
    BY <2>1, <2>3, <2>4, OneMoves DEF Inv
  <2> QED  BY <2>1, <2>4, <2>5 DEF Inv, FilesOK, history
<1>5. CASE ApproveWrite(h)
  <2>1. handler[h].pc = "write" /\ UNCHANGED <<stored, vetted, shared>>
    BY <1>5 DEF ApproveWrite, history
  <2>2. pending # None => pending' # None /\ pending' \subseteq FileLines
    BY <1>5, WrittenTyped, NoneIsNoPolicy DEF ApproveWrite, Inv, FilesOK
  <2>3. pending = None => pending' = None
    BY <1>1, <1>5 DEF Sound, ApproveWrite, Wrote
  <2>4. active' \subseteq FileLines
    BY <1>5, WrittenTyped DEF ApproveWrite, Inv, FilesOK
  <2> PICK w : w = [handler[h] EXCEPT !.pc = "rename", !.fd = None]
    OBVIOUS
  <2>5. /\ w \in HandlerState /\ w.pc = "rename" /\ w.caller = handler[h].caller /\ w.id = handler[h].id
        /\ w.scope = handler[h].scope /\ w.value = handler[h].value /\ w.fd = None
    BY <1>1 DEF HandlerState, Points
  <2>6. Sound(w, pending', vetted)
    BY <1>1, <2>1, <2>5, NoneIsNoFile DEF Sound, Loaded, Checked
  <2>7. handler' = [handler EXCEPT ![h] = w]
    BY <1>5 DEF ApproveWrite
  <2>8. HandlersOK'
    BY <2>1, <2>2, <2>6, <2>7, OneMoves DEF Inv
  <2> QED  BY <2>1, <2>2, <2>3, <2>4, <2>8 DEF Inv, FilesOK, history
<1>6. CASE ApproveRename(h)
  BY <1>6, RenameSound
<1>7. ASSUME ApproveReopen(h) \/ ApproveRecord(h)
      PROVE  /\ Approved(h) \in FileType /\ [Approved(h) EXCEPT !.state = "reopened"] \in FileType
             /\ handler[h].id \in Ids
  <2> PICK value : value = handler[h].value
    OBVIOUS
  <2>1. value \in Held /\ handler[h].id \in Ids /\ handler[h].caller.user \in Names
    BY <1>1, <1>7, FourEyesAssumption DEF ApproveReopen, ApproveRecord, Sound, Loaded, Checked
  <2>2. Approved(h) \in FileType
    BY <2>1, StateChanged DEF Approved
  <2>3. [Approved(h) EXCEPT !.state = "reopened"] \in FileType
    BY <2>2 DEF FileType, ProposalsIn
  <2> QED  BY <2>1, <2>2, <2>3
<1>8. CASE ApproveReopen(h)
  <2>1. HandlersOK'
    BY <1>1, <1>8, GotoSound DEF ApproveReopen, Inv, history, Points, Loaded, Checked, Sound
  <2> QED  BY <1>7, <1>8, <2>1 DEF ApproveReopen, Inv, FilesOK, history
<1>9. CASE ApproveRecord(h)
  <2>1. HandlersOK'
    BY <1>9, FinishSound DEF ApproveRecord, Inv, history
  <2>2. stored' \in [Ids -> FileType \cup {NoProposal}]
    BY <1>7, <1>9, PutTyped DEF ApproveRecord
  <2> QED  BY <1>9, <2>1, <2>2 DEF ApproveRecord, Inv, FilesOK, history
<1> QED  BY <1>2, <1>3, <1>4, <1>5, <1>6, <1>8, <1>9 DEF Approve

LEMMA ReplaceSound ==
  ASSUME Inv, NEW P \in OperatorPolicies, Replace(P)
  PROVE  Inv'
<1>1. /\ UNCHANGED <<pending, stored, vetted>> /\ active' = P /\ shared' \subseteq shared
      /\ \A k \in Handlers : handler'[k] = IF handler[k].fd = "active" THEN [handler[k] EXCEPT !.fd = "unlinked"]
                                                                      ELSE handler[k]
      /\ handler' = [k \in Handlers |-> handler'[k]]
  BY DEF Replace
<1>2. ASSUME NEW k \in Handlers  PROVE Sound(handler'[k], pending', vetted')
  <2>1. Sound(handler[k], pending, vetted) /\ handler[k] \in HandlerState
    BY DEF Inv, HandlersOK, Sound
  <2>2. CASE handler[k].fd = "active"
    <3> PICK w : w = handler'[k]
      OBVIOUS
    <3>1. w = [handler[k] EXCEPT !.fd = "unlinked"]
      BY <1>1, <2>2
    <3>2. /\ w \in HandlerState /\ w.pc = handler[k].pc /\ w.caller = handler[k].caller
          /\ w.id = handler[k].id /\ w.sub = handler[k].sub
          /\ w.scope = handler[k].scope /\ w.value = handler[k].value /\ w.fd = "unlinked"
      BY <2>1, <3>1 DEF HandlerState
    <3>3. handler[k].pc = "write"
      BY <2>1, <2>2, NoneIsNoFile DEF Sound
    <3>4. Sound(w, pending', vetted')
      BY <1>1, <2>1, <3>2, <3>3 DEF Sound
    <3> QED  BY <3>4
  <2>3. CASE handler[k].fd # "active"
    BY <1>1, <2>1, <2>3
  <2> QED  BY <2>2, <2>3
<1>3. HandlersOK'
  <2>1. handler' \in [Handlers -> HandlerState]
    BY <1>1, <1>2 DEF Sound
  <2> QED  BY <1>2, <2>1 DEF HandlersOK
<1> QED  BY <1>1, <1>3, KnownLines DEF Inv, FilesOK

LEMMA FailSound ==
  ASSUME Inv, NEW h \in Handlers, Fail(h)
  PROVE  Inv'
<1>1. /\ pending' \in {pending} \cup FailedToWrite(h, "pending", pending)
      /\ active' \in {active} \cup FailedToWrite(h, "active", active)
      /\ stored' \in {stored} \cup FailedToPut(h)
      /\ Finish(h) /\ UNCHANGED <<vetted, shared>>
  BY DEF Fail, history
<1>2. Sound(handler[h], pending, vetted)
  BY DEF Inv, HandlersOK
<1>3. handler[h].fd = "pending" => pending \in SUBSET FileLines
  BY <1>2 DEF Inv, FilesOK, Sound
<1>4. pending' = pending \/ (pending # None /\ pending' # None /\ pending' \subseteq FileLines)
  <2>1. pending' = pending \/ (handler[h].fd = "pending" /\ pending' \in SUBSET FileLines)
    BY <1>1, <1>3, WrittenTyped
  <2> QED  BY <1>2, <2>1, NoneIsNoPolicy DEF Sound
<1>5. active' \subseteq FileLines
  <2>1. active' = active \/ active' \in SUBSET FileLines
    BY <1>1, WrittenTyped DEF Inv, FilesOK
  <2> QED  BY <2>1 DEF Inv, FilesOK
<1>6. stored' \in [Ids -> FileType \cup {NoProposal}]
  <2>1. CASE stored' = stored
    BY <2>1 DEF Inv, FilesOK
  <2>2. CASE stored' \in FailedToPut(h)
    <3>1. /\ handler[h].pc \in {"fill", "rewrite"}
          /\ stored' = [stored EXCEPT ![handler[h].id] = [handler[h].value EXCEPT !.state = "torn"]]
      BY <2>2 DEF FailedToPut
    <3>2. [handler[h].value EXCEPT !.state = "torn"] \in FileType
      BY <1>2, <3>1 DEF Sound, Loaded, Checked, Held, FileType, ProposalsIn
    <3> QED  BY <3>1, <3>2 DEF Inv, FilesOK
  <2> QED  BY <1>1, <2>1, <2>2
<1>7. HandlersOK'
  BY <1>1, <1>4, FinishSound DEF Inv
<1> QED  BY <1>1, <1>4, <1>5, <1>6, <1>7 DEF Inv, FilesOK

LEMMA InitSound == Init => Inv
<1> SUFFICES ASSUME Init  PROVE Inv
  OBVIOUS
<1>1. HandlersOK
  BY IdleSound DEF Init, HandlersOK
<1>2. FilesOK
  BY KnownLines DEF Init, FilesOK, history
<1> QED  BY <1>1, <1>2 DEF Inv

LEMMA NextSound ==
  ASSUME Inv, [Next]_vars
  PROVE  Inv'
<1>1. CASE UNCHANGED vars
  BY <1>1 DEF vars, Inv, HandlersOK, FilesOK, history
<1> QED  BY <1>1, StartsSound, CreateSound, ApproveSound, FailSound, ReplaceSound DEF Next

(* Files, requests and history have their types, the lines that overlapping *)
(* writes can spell included (policy.rs:61, policy.rs:96).                 *)
THEOREM TypesCorrect == Spec => []TypeOK
<1>1. Inv => TypeOK
  <2> SUFFICES ASSUME Inv  PROVE TypeOK
    OBVIOUS
  <2>1. \A h \in Handlers : handler[h] \in HandlerState
    BY DEF Inv, HandlersOK
  <2>2. \A h \in Handlers : /\ handler[h].value # NoProposal => handler[h].value \in FileType
                            /\ handler[h].fd \in {"pending", "active", "unlinked", None}
    BY <2>1 DEF HandlerState, Held, FileType, ProposalsIn
  <2> QED  BY <2>2 DEF Inv, FilesOK, TypeOK
<1>2. Inv /\ [Next]_vars => Inv'
  BY NextSound
<1> QED  BY <1>1, <1>2, InitSound, PTL DEF Spec

-----------------------------------------------------------------------------
(***************************************************************************)
(* Who opened `rights.pending` while nobody else had it open writes alone: *)
(* until it is renamed it is as that request left it.  A rights file that  *)
(* came to be in that way is whole, and no descriptor refers to it.        *)
(***************************************************************************)
Window == {"write", "rename"}

Unshared(w, P) ==
  /\ w.pc = "write" => w.fd = "pending" /\ P = Empty
  /\ w.pc = "rename" => P = w.value.text

WritesAlone(H, P) ==
  \A h \in Handlers : H[h].pc \in Window =>
    Unshared(H[h], P) /\ \A k \in Handlers : k # h => H[k].pc \notin Window

NobodyWrites(H) == \A h \in Handlers : H[h].fd # "active"

WInv ==
  /\ pending # None /\ "pending" \notin shared => WritesAlone(handler, pending)
  /\ "active" \notin shared => ActiveIsWhole /\ NobodyWrites(handler)

(* A request whose step concerns neither file. *)
LEMMA AsideKeeps ==
  ASSUME HandlersOK, WInv, NEW h \in Handlers, NEW w, handler' = [handler EXCEPT ![h] = w],
         w.pc \notin Window, w.fd # "active",
         UNCHANGED <<active, pending, shared>>, vetted \subseteq vetted'
  PROVE  WInv'
<1>1. \A k \in Handlers : handler'[k] = IF k = h THEN w ELSE handler[k]
  BY DEF HandlersOK
<1> QED  BY <1>1 DEF WInv, WritesAlone, NobodyWrites, ActiveIsWhole

LEMMA FinishKeeps ==
  ASSUME HandlersOK, WInv, NEW h \in Handlers, Finish(h), UNCHANGED <<active, pending, shared, vetted>>
  PROVE  WInv'
<1> PICK w : w = Idle
  OBVIOUS
<1>1. w.pc \notin Window /\ w.fd # "active"
  BY IdleSound, NoneIsNoFile DEF Window
<1> QED  BY <1>1, AsideKeeps DEF Finish

LEMMA GotoKeeps ==
  ASSUME HandlersOK, WInv, NEW h \in Handlers, NEW pc \in Points \ Window, Goto(h, pc),
         handler[h].fd = None, UNCHANGED <<active, pending, shared>>, vetted \subseteq vetted'
  PROVE  WInv'
<1> PICK w : w = [handler[h] EXCEPT !.pc = pc]
  OBVIOUS
<1>1. w.pc = pc /\ w.fd = None
  BY PcChanged DEF HandlersOK
<1>2. handler' = [handler EXCEPT ![h] = w]
  BY DEF Goto
<1> QED  BY <1>1, <1>2, NoneIsNoFile, AsideKeeps

LEMMA StartKeepsWhole ==
  ASSUME Inv, WInv, NEW h \in Handlers, NEW c \in Callers, NEW id \in Ids,
         StartApprove(h, c, id) \/ \E sub \in Submissions : StartCreate(h, c, id, sub)
  PROVE  WInv'
<1> PICK scope : scope = ScopeOf(active, c)
  OBVIOUS
<1>1. CASE StartApprove(h, c, id)
  <2> PICK w : w = [Idle EXCEPT !.pc = "load", !.caller = c, !.id = id, !.scope = scope]
    OBVIOUS
  <2>1. w.pc \notin Window /\ w.fd # "active"
    BY NoneIsNoFile DEF Idle, Window
  <2> QED  BY <1>1, <2>1, AsideKeeps DEF StartApprove, Inv, history
<1>2. ASSUME NEW sub \in Submissions, StartCreate(h, c, id, sub)  PROVE WInv'
  <2> PICK w : w = [Idle EXCEPT !.pc = "compose", !.caller = c, !.id = id, !.sub = sub, !.scope = scope]
    OBVIOUS
  <2>1. w.pc \notin Window /\ w.fd # "active"
    BY NoneIsNoFile DEF Idle, Window
  <2> QED  BY <1>2, <2>1, AsideKeeps DEF StartCreate, Inv, history
<1> QED  BY <1>1, <1>2

LEMMA CreateKeepsWhole ==
  ASSUME Inv, WInv, NEW h \in Handlers, Create(h)
  PROVE  WInv'
<1>1. /\ handler[h].pc \in {"compose", "exists", "create", "fill"}
      /\ UNCHANGED <<active, pending, shared, vetted>>
  BY DEF Create, CreateCompose, CreateExists, CreateOpen, CreateWrite, history
<1>2. handler[h].fd = None /\ handler[h] \in HandlerState /\ HandlersOK
  BY <1>1 DEF Inv, HandlersOK, Sound
<1>3. CASE Finish(h)
  BY <1>1, <1>2, <1>3, FinishKeeps
<1>4. CASE CreateCompose(h) /\ ~Finish(h)
  <2> PICK value : value = NewProposal(active, handler[h].sub, handler[h].scope, handler[h].caller.user)
    OBVIOUS
  <2> PICK w : w = [handler[h] EXCEPT !.pc = "exists", !.sub = None, !.value = value]
    OBVIOUS
  <2>1. w.pc \notin Window /\ w.fd # "active"
    BY <1>2, NoneIsNoFile DEF HandlerState, Window
  <2>2. handler' = [handler EXCEPT ![h] = w]
    BY <1>4 DEF CreateCompose
  <2> QED  BY <1>1, <1>2, <2>1, <2>2, AsideKeeps
<1>5. CASE Goto(h, "create") \/ Goto(h, "fill")
  BY <1>1, <1>2, <1>5, GotoKeeps DEF Points, Window
<1> QED  BY <1>3, <1>4, <1>5 DEF Create, CreateCompose, CreateExists, CreateOpen, CreateWrite

(* Opening it: alone, unless that is noted. *)
LEMMA OpenKeepsWhole ==
  ASSUME Inv, WInv, NEW h \in Handlers, ApproveOpen(h)
  PROVE  WInv'
<1> PICK w : w = [handler[h] EXCEPT !.pc = "write", !.fd = "pending"]
  OBVIOUS
<1>1. w.pc = "write" /\ w.fd = "pending"
  BY DEF Inv, HandlersOK, HandlerState
<1>2. \A k \in Handlers : handler'[k] = IF k = h THEN w ELSE handler[k]
  BY DEF ApproveOpen, Opens, Inv, HandlersOK
<1>3. /\ pending' = Empty /\ UNCHANGED <<active, vetted>> /\ handler[h].pc = "open"
      /\ shared' = IF Writing = {} THEN shared \ {"pending"} ELSE shared \cup {"pending"}
  BY DEF ApproveOpen, Opens
<1>4. "pending" \notin shared' => WritesAlone(handler', pending')
  <2> SUFFICES ASSUME "pending" \notin shared'  PROVE WritesAlone(handler', pending')
    OBVIOUS
  <2>1. \A k \in Handlers : k # h => handler'[k].pc \notin Window
    BY <1>2, <1>3 DEF Writing, Window
  <2>2. Unshared(handler'[h], pending')
    BY <1>1, <1>2, <1>3 DEF Unshared
  <2> QED  BY <2>1, <2>2 DEF WritesAlone
<1>5. "active" \notin shared' => ActiveIsWhole' /\ NobodyWrites(handler')
  BY <1>1, <1>2, <1>3 DEF WInv, ActiveIsWhole, NobodyWrites
<1> QED  BY <1>4, <1>5 DEF WInv

LEMMA WriteKeepsWhole ==
  ASSUME Inv, WInv, NEW h \in Handlers, ApproveWrite(h)
  PROVE  WInv'
<1> PICK w : w = [handler[h] EXCEPT !.pc = "rename", !.fd = None]
  OBVIOUS
<1>1. w.pc = "rename" /\ w.fd = None /\ w.value = handler[h].value
  BY DEF Inv, HandlersOK, HandlerState
<1>2. \A k \in Handlers : handler'[k] = IF k = h THEN w ELSE handler[k]
  BY DEF ApproveWrite, Inv, HandlersOK
<1>3. /\ UNCHANGED <<vetted, shared>> /\ handler[h].pc = "write"
      /\ pending' \in Wrote(h, "pending", pending) /\ active' \in Wrote(h, "active", active)
  BY DEF ApproveWrite, history
<1>4. pending' # None /\ "pending" \notin shared' => WritesAlone(handler', pending')
  <2> SUFFICES ASSUME pending' # None, "pending" \notin shared  PROVE WritesAlone(handler', pending')
    BY <1>3
  <2>1. pending # None
    <3>1. handler[h].fd = "pending" => pending # None
      BY DEF Inv, HandlersOK, Sound
    <3>2. handler[h].fd # "pending" => pending' = pending
      BY <1>3 DEF Wrote
    <3> QED  BY <3>1, <3>2
  <2>2. /\ handler[h].fd = "pending" /\ pending = Empty
        /\ \A k \in Handlers : k # h => handler[k].pc \notin Window
    BY <1>3, <2>1 DEF WInv, WritesAlone, Unshared, Window
  <2>3. pending' = handler[h].value.text
    BY <1>3, <2>2 DEF Wrote, Overlaid
  <2> QED  BY <1>1, <1>2, <2>2, <2>3 DEF WritesAlone, Unshared
<1>5. "active" \notin shared' => ActiveIsWhole' /\ NobodyWrites(handler')
  <2> SUFFICES ASSUME "active" \notin shared  PROVE ActiveIsWhole' /\ NobodyWrites(handler')
    BY <1>3
  <2>1. ActiveIsWhole /\ NobodyWrites(handler)
    BY DEF WInv
  <2>2. active' = active
    BY <1>3, <2>1 DEF Wrote, NobodyWrites
  <2> QED  BY <1>1, <1>2, <1>3, <2>1, <2>2, NoneIsNoFile DEF NobodyWrites, ActiveIsWhole
<1> QED  BY <1>4, <1>5 DEF WInv

(* What one request alone has written is a text that was vetted. *)
LEMMA RenameKeepsWhole ==
  ASSUME Inv, WInv, NEW h \in Handlers, ApproveRename(h)
  PROVE  WInv'
<1>1. handler[h].pc = "rename" /\ UNCHANGED vetted
  BY DEF ApproveRename
<1>2. CASE pending = None
  BY <1>2, FinishKeeps DEF ApproveRename, Inv
<1>3. CASE pending # None
  <2>1. /\ active' = pending /\ pending' = None
        /\ shared' = IF "pending" \in shared THEN {"active"} ELSE {}
        /\ \A k \in Handlers : handler'[k] = IF k = h THEN [handler[h] EXCEPT !.pc = "record"] ELSE Follow(k)
    BY <1>3 DEF ApproveRename
  <2> SUFFICES ASSUME "pending" \notin shared  PROVE active' \in vetted /\ NobodyWrites(handler')
    BY <1>1, <2>1 DEF WInv, ActiveIsWhole
  <2>2. pending = handler[h].value.text /\ \A k \in Handlers : k # h => handler[k].pc \notin Window
    BY <1>1, <1>3 DEF WInv, WritesAlone, Unshared, Window
  <2>3. handler[h].value.text \in vetted
    BY <1>1 DEF Inv, HandlersOK, Sound, Checked
  <2>4. \A k \in Handlers : handler[k].fd = None
    BY <1>1, <2>2 DEF Inv, HandlersOK, Sound, Window
  <2>5. \A k \in Handlers : handler'[k].fd = None
    <3>1. \A k \in Handlers : Follow(k) = handler[k]
      BY <2>4, NoneIsNoFile DEF Follow
    <3> PICK w : w = [handler[h] EXCEPT !.pc = "record"]
      OBVIOUS
    <3>2. w.fd = None
      BY <2>4, PcChanged DEF Inv, HandlersOK, Points
    <3> QED  BY <2>1, <2>4, <3>1, <3>2
  <2> QED  BY <2>1, <2>2, <2>3, <2>5, NoneIsNoFile DEF NobodyWrites
<1> QED  BY <1>2, <1>3

LEMMA ApproveKeepsWhole ==
  ASSUME Inv, WInv, NEW h \in Handlers, Approve(h)
  PROVE  WInv'
<1>1. CASE ApproveOpen(h) \/ ApproveWrite(h) \/ ApproveRename(h)
  BY <1>1, OpenKeepsWhole, WriteKeepsWhole, RenameKeepsWhole
<1>2. CASE ApproveLoad(h) \/ ApproveCompare(h) \/ ApproveReopen(h) \/ ApproveRecord(h)
  <2>1. /\ handler[h].pc \in {"load", "compare", "record", "rewrite"}
        /\ UNCHANGED <<active, pending, shared>> /\ vetted \subseteq vetted'
    BY <1>2 DEF ApproveLoad, ApproveCompare, ApproveReopen, ApproveRecord, history
  <2>2. handler[h].fd = None /\ handler[h] \in HandlerState /\ HandlersOK
    BY <2>1 DEF Inv, HandlersOK, Sound
  <2>3. CASE Finish(h)
    <3> PICK w : w = Idle
      OBVIOUS
    <3>1. w.pc \notin Window /\ w.fd # "active"
      BY IdleSound, NoneIsNoFile DEF Window
    <3> QED  BY <2>1, <2>2, <2>3, <3>1, AsideKeeps DEF Finish
  <2>4. CASE ApproveLoad(h) /\ ~Finish(h)
    <3> PICK value : value = stored[handler[h].id]
      OBVIOUS
    <3> PICK w : w = [handler[h] EXCEPT !.pc = "compare", !.value = value]
      OBVIOUS
    <3>1. w.pc \notin Window /\ w.fd # "active"
      BY <2>2, NoneIsNoFile DEF HandlerState, Window
    <3>2. handler' = [handler EXCEPT ![h] = w]
      BY <2>4 DEF ApproveLoad
    <3> QED  BY <2>1, <2>2, <3>1, <3>2, AsideKeeps
  <2>5. CASE Goto(h, "open") \/ Goto(h, "rewrite")
    BY <2>1, <2>2, <2>5, GotoKeeps DEF Points, Window
  <2> QED  BY <1>2, <2>3, <2>4, <2>5 DEF ApproveLoad, ApproveCompare, ApproveReopen, ApproveRecord
<1> QED  BY <1>1, <1>2 DEF Approve

LEMMA FailKeepsWhole ==
  ASSUME Inv, WInv, NEW h \in Handlers, Fail(h)
  PROVE  WInv'
<1> PICK w : w = Idle
  OBVIOUS
<1>1. w.pc \notin Window /\ w.fd # "active"
  BY IdleSound, NoneIsNoFile DEF Window
<1>2. /\ \A k \in Handlers : handler'[k] = IF k = h THEN w ELSE handler[k]
      /\ pending' \in {pending} \cup FailedToWrite(h, "pending", pending)
      /\ active' \in {active} \cup FailedToWrite(h, "active", active)
      /\ UNCHANGED <<vetted, shared>>
  BY DEF Fail, Finish, history, Inv, HandlersOK
<1>3. pending' # None /\ "pending" \notin shared' => WritesAlone(handler', pending')
  <2> SUFFICES ASSUME pending' # None, "pending" \notin shared  PROVE WritesAlone(handler', pending')
    BY <1>2
  <2>1. handler[h].fd = "pending" => pending # None /\ handler[h].pc \in Window
    BY NoneIsNoFile DEF Inv, HandlersOK, Sound, Window
  <2>2. handler[h].fd # "pending" => pending' = pending
    BY <1>2 DEF FailedToWrite
  <2>3. WritesAlone(handler, pending)
    BY <2>1, <2>2 DEF WInv
  <2> QED  BY <1>1, <1>2, <2>1, <2>2, <2>3 DEF WritesAlone
<1>4. "active" \notin shared' => ActiveIsWhole' /\ NobodyWrites(handler')
  BY <1>1, <1>2 DEF WInv, ActiveIsWhole, NobodyWrites, FailedToWrite
<1> QED  BY <1>3, <1>4 DEF WInv

LEMMA ReplaceKeepsWhole ==
  ASSUME Inv, WInv, NEW P \in OperatorPolicies, Replace(P)
  PROVE  WInv'
<1>1. /\ active' = P /\ UNCHANGED <<pending, vetted>> /\ shared' = shared \ {"active"}
      /\ \A k \in Handlers : handler'[k] = IF handler[k].fd = "active" THEN [handler[k] EXCEPT !.fd = "unlinked"]
                                                                      ELSE handler[k]
  BY DEF Replace
<1>2. ASSUME NEW k \in Handlers
      PROVE  /\ handler'[k].pc = handler[k].pc /\ handler'[k].value = handler[k].value
             /\ handler'[k].fd = IF handler[k].fd = "active" THEN "unlinked" ELSE handler[k].fd
  <2> PICK w : w = [handler[k] EXCEPT !.fd = "unlinked"]
    OBVIOUS
  <2>1. w.pc = handler[k].pc /\ w.value = handler[k].value /\ w.fd = "unlinked"
    BY DEF Inv, HandlersOK, HandlerState
  <2> QED  BY <1>1, <2>1
<1>3. ActiveIsWhole' /\ NobodyWrites(handler')
  BY <1>1, <1>2 DEF ActiveIsWhole, NobodyWrites
<1>4. WritesAlone(handler, pending) => WritesAlone(handler', pending)
  BY <1>2 DEF WritesAlone, Unshared
<1> QED  BY <1>1, <1>3, <1>4 DEF WInv

LEMMA NextKeepsWhole ==
  ASSUME Inv, WInv, [Next]_vars
  PROVE  WInv'
<1>1. CASE UNCHANGED vars
  BY <1>1 DEF vars, WInv, WritesAlone, NobodyWrites, ActiveIsWhole
<1> QED  BY <1>1, StartKeepsWhole, CreateKeepsWhole, ApproveKeepsWhole, FailKeepsWhole, ReplaceKeepsWhole
         DEF Next

(* However requests interleave, and wherever they fail, what is in force   *)
(* is one whole text, the operator's or one that passed the checks of an   *)
(* approval by somebody other than its author (policy.rs:74), unless two   *)
(* approvals had rights.pending open at a time (policy.rs:96).             *)
THEOREM InForceIsWhole == Spec => []WholeUnlessShared
<1>1. Init => Inv /\ WInv
  <2> SUFFICES ASSUME Init  PROVE WInv
    BY InitSound
  <2>1. active \in OperatorPolicies /\ pending = None /\ \A h \in Handlers : handler[h].fd = None
    BY IdleSound DEF Init
  <2> QED  BY <2>1, NoneIsNoFile DEF WInv, ActiveIsWhole, NobodyWrites
<1>2. Inv /\ WInv /\ [Next]_vars => Inv' /\ WInv'
  BY NextSound, NextKeepsWhole
<1>3. WInv => WholeUnlessShared
  BY DEF WInv, WholeUnlessShared
<1> QED  BY <1>1, <1>2, <1>3, PTL DEF Spec

-----------------------------------------------------------------------------
(***************************************************************************)
(* The operators FourEyes reaches through INSTANCE are the ones of this    *)
(* module.                                                                 *)
(***************************************************************************)
LEMMA SameListed ==
  ASSUME NEW P, NEW kind, NEW name
  PROVE  Promise!Listed(P, kind, name) = Listed(P, kind, name) /\ Promise!OfKind(P, kind) = OfKind(P, kind)
BY DEF Promise!Listed, Listed, Promise!OfKind, OfKind

LEMMA SameScope ==
  ASSUME NEW P, NEW c
  PROVE  Promise!ScopeOf(P, c) = ScopeOf(P, c)
<1>1. \A n : Promise!TreesOfTenant(P, n) = TreesOfTenant(P, n)
  BY SameListed DEF Promise!TreesOfTenant, TreesOfTenant
<1>2. Promise!RolesFor(P, c.user, c.groups) = RolesFor(P, c.user, c.groups)
  BY SameListed DEF Promise!RolesFor, RolesFor
<1>3. Promise!Listed(P, "tenant-admin", c.user) = Listed(P, "tenant-admin", c.user)
  BY SameListed
<1>4. Promise!IsAdmin(P, c.user, c.groups) <=> IsAdmin(P, c.user, c.groups)
  BY <1>2 DEF Promise!IsAdmin, IsAdmin
<1>5. UNION {Promise!TreesOfTenant(P, n) : n \in Listed(P, "tenant-admin", c.user)}
        = UNION {TreesOfTenant(P, n) : n \in Listed(P, "tenant-admin", c.user)}
  BY <1>1
<1> QED  BY <1>3, <1>4, <1>5 DEF Promise!ScopeOf, ScopeOf, Promise!AdminScope, AdminScope

LEMMA SameInside ==
  ASSUME NEW l, NEW P, NEW S
  PROVE  Promise!Inside(l, P, S) <=> Inside(l, P, S)
BY SameListed DEF Promise!Inside, Inside, Promise!LineTrees, LineTrees, Promise!GlobalOnly, GlobalOnly,
   Promise!Reached, Reached, Promise!TreesOfRole, TreesOfRole, Promise!TreesOfWorkspace, TreesOfWorkspace

LEMMA SameText ==
  ASSUME NEW P, NEW sub, NEW S
  PROVE  /\ Promise!Composable(P, sub, S) <=> Composable(P, sub, S)
         /\ Promise!ProposedText(P, sub, S) = ProposedText(P, sub, S)
<1>1. Promise!Both(P, sub) = Both(P, sub)
  BY SameListed DEF Promise!Both, Both
<1>2. Promise!Composable(P, sub, S) <=> Composable(P, sub, S)
  BY <1>1, SameInside DEF Promise!Composable, Composable
<1>3. Promise!Compose(P, sub, S) = Compose(P, sub, S)
  BY <1>1, SameInside DEF Promise!Compose, Compose
<1> QED  BY <1>2, <1>3 DEF Promise!ProposedText, ProposedText

LEMMA SameValid ==
  ASSUME NEW P
  PROVE  Promise!Valid(P) <=> Valid(P)
<1>1. ASSUME NEW kind
      PROVE  /\ Promise!OfKind(P, kind) = OfKind(P, kind)
             /\ Promise!Declared(P, kind) = Declared(P, kind)
             /\ Promise!DeclaredNonempty(P, kind) = DeclaredNonempty(P, kind)
  BY DEF Promise!OfKind, OfKind, Promise!Declared, Declared, Promise!DeclaredNonempty, DeclaredNonempty
<1>2. Promise!LinesValid(P) <=> LinesValid(P)
  BY <1>1 DEF Promise!LinesValid, LinesValid, Promise!ListKinds, ListKinds
<1>3. Promise!ReferencesValid(P) <=> ReferencesValid(P)
  BY <1>1 DEF Promise!ReferencesValid, ReferencesValid
<1> QED  BY <1>2, <1>3 DEF Promise!Valid, Valid

(* What FourEyes asks is what the code's handlers ask. *)
LEMMA SameChecks ==
  ASSUME NEW P, NEW sub, NEW scope, NEW user, NEW p
  PROVE  /\ Promise!MayPropose(P, sub, scope) <=> MayPropose(P, sub, scope)
         /\ Promise!NewProposal(P, sub, scope, user) = NewProposal(P, sub, scope, user)
         /\ Promise!MayLoad(p, user, scope) <=> MayLoad(p, user, scope)
         /\ Promise!StillApplies(p, P) <=> StillApplies(p, P)
<1>1. Promise!MayPropose(P, sub, scope) <=> MayPropose(P, sub, scope)
  BY SameText, SameValid DEF Promise!MayPropose, MayPropose
<1>2. Promise!NewProposal(P, sub, scope, user) = NewProposal(P, sub, scope, user)
  BY SameText DEF Promise!NewProposal, NewProposal
<1>3. Promise!MayLoad(p, user, scope) <=> MayLoad(p, user, scope)
  BY DEF Promise!MayLoad, MayLoad, Promise!Covers, Covers
<1>4. Promise!StillApplies(p, P) <=> StillApplies(p, P)
  BY SameValid DEF Promise!StillApplies, StillApplies
<1> QED  BY <1>1, <1>2, <1>3, <1>4

-----------------------------------------------------------------------------
(***************************************************************************)
(* One request at a time: what it has found out still holds when it uses   *)
(* it.  A is the policy in force, P `rights.pending`, S the proposals.     *)
(***************************************************************************)
Rec(p, state, approver) ==
  [state |-> state, author |-> p.author, scope |-> p.scope, base |-> p.base, text |-> p.text,
   approver |-> approver]

AtStep(w, A, P, S) ==
  /\ w.pc \notin {"idle", "record", "rewrite"} => w.scope = ScopeOf(A, w.caller)
  /\ w.pc \in {"exists", "create", "fill"} =>
       \E sub \in Submissions : /\ MayPropose(A, sub, w.scope)
                                /\ w.value = NewProposal(A, sub, w.scope, w.caller.user)
  /\ w.pc = "create" => S[w.id] = NoProposal
  /\ w.pc = "fill" => S[w.id] # NoProposal /\ S[w.id].state = "opened"
  /\ w.pc \in {"compare", "open", "write", "rename", "record"} => S[w.id] = w.value
  /\ w.pc \in {"compare", "open", "write", "rename"} => MayLoad(w.value, w.caller.user, w.scope)
  /\ w.pc \in {"open", "write", "rename"} => StillApplies(w.value, A)
  /\ w.pc = "write" => w.fd = "pending" /\ P = Empty
  /\ w.pc = "rename" => P = w.value.text
  /\ w.pc \in {"record", "rewrite"} => w.value.state = "pending"
  /\ w.pc = "rewrite" => S[w.id] = Rec(w.value, "reopened", w.caller.user)

Only(h) == \A k \in Handlers : k # h => handler[k] = Idle

Alone == \A h \in Handlers : handler[h] # Idle => Only(h)

Unapproved == \A id \in Ids :
  stored[id] # NoProposal /\ stored[id].state \in {"opened", "pending"} => stored[id].approver = NoProposal

SInv ==
  /\ Alone /\ Unapproved
  /\ \A h \in Handlers : AtStep(handler[h], active, pending, stored)

LEMMA IdleAtStep ==
  ASSUME NEW A, NEW P, NEW S
  PROVE  AtStep(Idle, A, P, S)
<1> PICK w : w = Idle
  OBVIOUS
<1>1. w.pc = "idle"
  BY IdleSound
<1>2. AtStep(w, A, P, S)
  BY <1>1 DEF AtStep
<1> QED  BY <1>2

LEMMA TurnKept ==
  ASSUME NEW h \in Handlers, Only(h)', AtStep(handler'[h], active', pending', stored'), Unapproved'
  PROVE  SInv'
<1>1. \A k \in Handlers : AtStep(handler'[k], active', pending', stored')
  BY IdleAtStep DEF Only
<1>2. Alone'
  BY DEF Alone, Only
<1> QED  BY <1>1, <1>2 DEF SInv

(* The step leaves h at w, and the file of the proposal id with p in it. *)
Moves(h, w)  == handler' = [handler EXCEPT ![h] = w]
Files(id, p) == stored' = [stored EXCEPT ![id] = p]

LEMMA TurnOfOne ==
  ASSUME HandlersOK, NEW h \in Handlers, Only(h), NEW w, Moves(h, w)
  PROVE  Only(h)' /\ handler'[h] = w
BY DEF Only, HandlersOK, Moves

LEMMA Filed ==
  ASSUME FilesOK, NEW id \in Ids, NEW p, Files(id, p)
  PROVE  stored'[id] = p /\ \A j \in Ids : j # id => stored'[j] = stored[j]
BY DEF FilesOK, Files

LEMMA Finished ==
  ASSUME NEW h \in Handlers, Finish(h)
  PROVE  Moves(h, Idle)
BY DEF Finish, Moves

(* Whoever is in the middle of a request is alone. *)
LEMMA OnlyOne ==
  ASSUME SInv, NEW h \in Handlers, handler[h].pc # "idle"
  PROVE  Only(h)
BY IdleSound DEF SInv, Alone

-----------------------------------------------------------------------------
(* The proposals as FourEyes sees them, with one request w at most. *)
Props == [id \in Ids |-> ProposalOf(id)]

Plain(p) == IF p = NoProposal \/ p.state = "opened" THEN NoProposal
            ELSE IF p.state = "reopened" THEN [p EXCEPT !.state = "activated"] ELSE p

Seen(w, id, p) ==
  IF w.id = id /\ w.pc \in {"record", "rewrite"}
    THEN [[w.value EXCEPT !.state = "approved", !.approver = w.caller.user] EXCEPT !.state = "activated"]
    ELSE Plain(p)

LEMMA SeenNow ==
  ASSUME NEW h \in Handlers, Only(h)
  PROVE  Props = [id \in Ids |-> Seen(handler[h], id, stored[id])]
<1> SUFFICES ASSUME NEW id \in Ids  PROVE ProposalOf(id) = Seen(handler[h], id, stored[id])
  BY DEF Props
<1>1. CASE handler[h].id = id /\ handler[h].pc \in {"record", "rewrite"}
  <2>1. Activated(id) = {h}
    BY <1>1, IdleSound DEF Only, Activated
  <2> QED  BY <1>1, <2>1 DEF ProposalOf, Approved, Seen
<1>2. CASE ~(handler[h].id = id /\ handler[h].pc \in {"record", "rewrite"})
  <2>1. Activated(id) = {}
    BY <1>2, IdleSound DEF Only, Activated
  <2> QED  BY <1>2, <2>1 DEF ProposalOf, Plain, Seen
<1> QED  BY <1>1, <1>2

LEMMA SeenNext ==
  ASSUME NEW h \in Handlers, Only(h)'
  PROVE  Props' = [id \in Ids |-> Seen(handler'[h], id, stored'[id])]
<1> SUFFICES ASSUME NEW id \in Ids  PROVE ProposalOf(id)' = Seen(handler'[h], id, stored'[id])
  BY DEF Props
<1>1. CASE handler'[h].id = id /\ handler'[h].pc \in {"record", "rewrite"}
  <2>1. Activated(id)' = {h}
    BY <1>1, IdleSound DEF Only, Activated
  <2> QED  BY <1>1, <2>1 DEF ProposalOf, Approved, Seen
<1>2. CASE ~(handler'[h].id = id /\ handler'[h].pc \in {"record", "rewrite"})
  <2>1. Activated(id)' = {}
    BY <1>2, IdleSound DEF Only, Activated
  <2> QED  BY <1>2, <2>1 DEF ProposalOf, Plain, Seen
<1> QED  BY <1>1, <1>2

(* Proposals are records, whatever is changed in them. *)
IsRec(p) == p = Rec(p, p.state, p.approver)

LEMMA RecTyped ==
  ASSUME NEW p \in Held \cup FileType
  PROVE  IsRec(p)
BY DEF IsRec, Rec, Held, FileType, ProposalsIn

LEMMA RecOf ==
  ASSUME NEW p, IsRec(p), NEW state, NEW approver
  PROVE  /\ [p EXCEPT !.state = state] = Rec(p, state, p.approver)
         /\ [p EXCEPT !.approver = approver] = Rec(p, p.state, approver)
<1> PICK q, s, a : q = p /\ s = p.state /\ a = p.approver
  OBVIOUS
<1> DEFINE r == [state |-> s, author |-> q.author, scope |-> q.scope, base |-> q.base, text |-> q.text, approver |-> a]
<1>1. p = r
  BY DEF IsRec, Rec
<1>2. /\ [r EXCEPT !.state = state] = Rec(q, state, a)
      /\ [r EXCEPT !.approver = approver] = Rec(q, s, approver)
  BY DEF Rec
<1> HIDE DEF r
<1> QED  BY <1>1, <1>2

LEMMA RecTwice ==
  ASSUME NEW p, IsRec(p), NEW state, NEW approver
  PROVE  [p EXCEPT !.state = state, !.approver = approver] = Rec(p, state, approver)
<1> PICK q : q = Rec(p, state, p.approver)
  OBVIOUS
<1>1. [p EXCEPT !.state = state] = q
  BY RecOf
<1>2. IsRec(q) /\ Rec(q, state, approver) = Rec(p, state, approver) /\ q.state = state
  BY DEF IsRec, Rec
<1>3. [q EXCEPT !.approver = approver] = Rec(q, q.state, approver)
  BY <1>2, RecOf
<1>4. [p EXCEPT !.state = state, !.approver = approver] = [[p EXCEPT !.state = state] EXCEPT !.approver = approver]
  OBVIOUS
<1> QED  BY <1>1, <1>2, <1>3, <1>4

LEMMA RecActivated ==
  ASSUME NEW q, IsRec(q), NEW user
  PROVE  [[q EXCEPT !.state = "approved", !.approver = user] EXCEPT !.state = "activated"] = Rec(q, "activated", user)
<1> PICK r : r = Rec(q, "approved", user)
  OBVIOUS
<1>1. [q EXCEPT !.state = "approved", !.approver = user] = r
  BY RecTwice
<1>2. IsRec(r) /\ Rec(r, "activated", r.approver) = Rec(q, "activated", user)
  BY DEF IsRec, Rec
<1>3. [r EXCEPT !.state = "activated"] = Rec(r, "activated", r.approver)
  BY <1>2, RecOf
<1> QED  BY <1>1, <1>2, <1>3

LEMMA ReopenedRec ==
  ASSUME NEW q, IsRec(q), NEW user
  PROVE  [[q EXCEPT !.state = "approved", !.approver = user] EXCEPT !.state = "reopened"] = Rec(q, "reopened", user)
<1> PICK r : r = Rec(q, "approved", user)
  OBVIOUS
<1>1. [q EXCEPT !.state = "approved", !.approver = user] = r
  BY RecTwice
<1>2. IsRec(r) /\ Rec(r, "reopened", r.approver) = Rec(q, "reopened", user)
  BY DEF IsRec, Rec
<1>3. [r EXCEPT !.state = "reopened"] = Rec(r, "reopened", r.approver)
  BY <1>2, RecOf
<1> QED  BY <1>1, <1>2, <1>3

LEMMA ReopenedIsTruncated ==
  ASSUME NEW q, NEW user
  PROVE  Truncated(Rec(q, "reopened", user))
BY DEF Truncated, Rec

LEMMA SeenActivated ==
  ASSUME NEW w, NEW id, NEW p, w.value \in Held, w.id = id, w.pc \in {"record", "rewrite"}
  PROVE  Seen(w, id, p) = Rec(w.value, "activated", w.caller.user)
<1> PICK q, user : q = w.value /\ user = w.caller.user
  OBVIOUS
<1>1. IsRec(q)
  BY RecTyped
<1>2. [[q EXCEPT !.state = "approved", !.approver = user] EXCEPT !.state = "activated"]
        = Rec(q, "activated", user)
  BY <1>1, RecActivated, Zenon
<1>3. Seen(w, id, p) = [[q EXCEPT !.state = "approved", !.approver = user] EXCEPT !.state = "activated"]
  BY DEF Seen
<1> QED  BY <1>2, <1>3

LEMMA StutterHere ==
  ASSUME NEW h \in Handlers, Only(h), Only(h)', UNCHANGED active,
         \A id \in Ids : Seen(handler'[h], id, stored'[id]) = Seen(handler[h], id, stored[id])
  PROVE  UNCHANGED Promise!vars
<1>1. Props' = Props
  BY SeenNow, SeenNext
<1> QED  BY <1>1 DEF Promise!vars, Props

LEMMA SeenPlain ==
  ASSUME NEW w, NEW id, NEW p, w.pc \notin {"record", "rewrite"} \/ w.id # id
  PROVE  Seen(w, id, p) = Plain(p)
BY DEF Seen

LEMMA SeenElsewhere ==
  ASSUME NEW w, NEW v, NEW id, NEW p, w.id # id, v.id # id
  PROVE  Seen(w, id, p) = Seen(v, id, p)
BY DEF Seen

(* A step that no reader of the proposals notices. *)
LEMMA Quiet ==
  ASSUME HandlersOK, NEW h \in Handlers, Only(h), NEW w, Moves(h, w),
         AtStep(w, active', pending', stored'), Unapproved', UNCHANGED active,
         \A id \in Ids : Seen(w, id, stored'[id]) = Seen(handler[h], id, stored[id])
  PROVE  SInv' /\ UNCHANGED Promise!vars
<1>1. Only(h)' /\ handler'[h] = w
  BY TurnOfOne
<1>2. SInv'
  BY <1>1, TurnKept
<1>3. UNCHANGED Promise!vars
  BY <1>1, StutterHere
<1> QED  BY <1>2, <1>3

(* Nothing but the request itself changes, before it has activated the     *)
(* proposal.                                                               *)
LEMMA QuietMove ==
  ASSUME HandlersOK, SInv, NEW h \in Handlers, Only(h), NEW w, Moves(h, w),
         UNCHANGED <<active, stored>>, AtStep(w, active, pending', stored),
         handler[h].pc \notin {"record", "rewrite"}, w.pc \notin {"record", "rewrite"}
  PROVE  SInv' /\ UNCHANGED Promise!vars
<1>1. \A id \in Ids : Seen(w, id, stored'[id]) = Seen(handler[h], id, stored[id])
  BY SeenPlain
<1>2. Unapproved'
  BY DEF SInv, Unapproved
<1>3. AtStep(w, active', pending', stored')
  OBVIOUS
<1> QED  BY <1>1, <1>2, <1>3, Quiet

LEMMA QuietEnd ==
  ASSUME HandlersOK, SInv, NEW h \in Handlers, Only(h), Finish(h), UNCHANGED <<active, stored>>,
         handler[h].pc \notin {"record", "rewrite"}
  PROVE  SInv' /\ UNCHANGED Promise!vars
<1> PICK w : w = Idle
  OBVIOUS
<1>1. AtStep(w, active, pending', stored) /\ w.pc = "idle"
  BY IdleAtStep, IdleSound
<1>2. Moves(h, w)
  BY Finished
<1> QED  BY <1>1, <1>2, QuietMove

(* One proposal changes. *)
Became(X, Y, id, v) ==
  X = [j \in Ids |-> X[j]] /\ Y = [j \in Ids |-> IF j = id THEN v ELSE X[j]]

LEMMA OneSeen ==
  ASSUME HandlersOK, NEW h \in Handlers, Only(h), NEW w, Moves(h, w),
         NEW id \in Ids,
         \A j \in Ids : j # id => Seen(w, j, stored'[j]) = Seen(handler[h], j, stored[j])
  PROVE  /\ Props[id] = Seen(handler[h], id, stored[id])
         /\ Became(Props, Props', id, Seen(w, id, stored'[id]))
<1>1. Only(h)' /\ handler'[h] = w
  BY TurnOfOne
<1>2. Props = [j \in Ids |-> Seen(handler[h], j, stored[j])]
  BY SeenNow
<1>3. Props' = [j \in Ids |-> Seen(w, j, stored'[j])]
  BY <1>1, SeenNext
<1> QED  BY <1>2, <1>3 DEF Became

LEMMA StartsKeep ==
  ASSUME Serialized, Inv, SInv, NEW h \in Handlers, NEW c \in Callers, NEW id \in Ids,
         StartApprove(h, c, id) \/ \E sub \in Submissions : StartCreate(h, c, id, sub)
  PROVE  SInv' /\ UNCHANGED Promise!vars
<1>1. Only(h) /\ handler[h].pc = "idle" /\ UNCHANGED <<active, pending, stored>>
  BY IdleSound DEF StartApprove, StartCreate, MyTurn, Only
<1> PICK scope : scope = ScopeOf(active, c)
  OBVIOUS
<1>2. CASE StartApprove(h, c, id)
  <2> PICK w : w = [Idle EXCEPT !.pc = "load", !.caller = c, !.id = id, !.scope = scope]
    OBVIOUS
  <2>1. w.pc = "load" /\ w.caller = c /\ w.scope = scope
    BY DEF Idle
  <2>2. AtStep(w, active, pending', stored)
    BY <2>1 DEF AtStep
  <2>3. Moves(h, w)
    BY <1>2 DEF StartApprove, Moves
  <2> QED  BY <1>1, <2>1, <2>2, <2>3, QuietMove DEF Inv
<1>3. ASSUME NEW sub \in Submissions, StartCreate(h, c, id, sub)  PROVE SInv' /\ UNCHANGED Promise!vars
  <2> PICK w : w = [Idle EXCEPT !.pc = "compose", !.caller = c, !.id = id, !.sub = sub, !.scope = scope]
    OBVIOUS
  <2>1. w.pc = "compose" /\ w.caller = c /\ w.scope = scope
    BY DEF Idle
  <2>2. AtStep(w, active, pending', stored)
    BY <2>1 DEF AtStep
  <2>3. Moves(h, w)
    BY <1>3 DEF StartCreate, Moves
  <2> QED  BY <1>1, <2>1, <2>2, <2>3, QuietMove DEF Inv
<1> QED  BY <1>2, <1>3

-----------------------------------------------------------------------------
(* Creating a proposal. *)

NoFile == NoProposal \notin Held \cup FileType \cup ProposalsIn({"activated"})

LEMMA NoProposalIsNoFile == NoFile
BY ApprovalAssumption DEF NoFile, Held, FileType, ProposalsIn

LEMMA RecChanged ==
  ASSUME NEW p \in Held, NEW state \in {"opened", "pending", "reopened", "approved"},
         NEW approver \in Names \cup {NoProposal}
  PROVE  Rec(p, state, approver) \in FileType
BY DEF Rec, Held, FileType, ProposalsIn

LEMMA PlainRec ==
  ASSUME NEW p \in Held, NEW approver \in Names \cup {NoProposal}
  PROVE  /\ Plain(Rec(p, "opened", approver)) = NoProposal
         /\ Plain(Rec(p, "pending", approver)) = Rec(p, "pending", approver)
         /\ Plain(Rec(p, "reopened", approver)) = Rec(p, "activated", approver)
         /\ Plain(Rec(p, "approved", approver)) = Rec(p, "approved", approver)
<1>1. /\ Rec(p, "opened", approver) # NoProposal /\ Rec(p, "pending", approver) # NoProposal
      /\ Rec(p, "reopened", approver) # NoProposal /\ Rec(p, "approved", approver) # NoProposal
  BY RecChanged, NoProposalIsNoFile DEF NoFile
<1>2. /\ Rec(p, "opened", approver).state = "opened" /\ Rec(p, "pending", approver).state = "pending"
      /\ Rec(p, "reopened", approver).state = "reopened" /\ Rec(p, "approved", approver).state = "approved"
  BY DEF Rec
<1>3. [Rec(p, "reopened", approver) EXCEPT !.state = "activated"] = Rec(p, "activated", approver)
  BY DEF Rec
<1> QED  BY <1>1, <1>2, <1>3 DEF Plain

LEMMA ActivatedIsNoFile ==
  ASSUME NEW p \in Held, NEW approver \in Names
  PROVE  Rec(p, "activated", approver) # NoProposal
<1>1. Rec(p, "activated", approver) \in ProposalsIn({"activated"})
  BY DEF Rec, Held, ProposalsIn
<1> QED  BY <1>1, NoProposalIsNoFile DEF NoFile

(* A pending proposal is written back unchanged, approver and all. *)
LEMMA PendingRec ==
  ASSUME NEW p \in Held, p.state = "pending"
  PROVE  p = Rec(p, "pending", p.approver) /\ Plain(p) = p /\ p # NoProposal
<1>1. p = Rec(p, "pending", p.approver)
  BY RecTyped DEF IsRec
<1>2. p # NoProposal
  BY NoProposalIsNoFile DEF NoFile
<1> QED  BY <1>1, <1>2 DEF Plain

LEMMA NewOnes ==
  ASSUME NEW P, NEW sub, NEW scope, NEW author
  PROVE  /\ NewProposal(P, sub, scope, author).state = "pending"
         /\ NewProposal(P, sub, scope, author).approver = NoProposal
BY DEF NewProposal

(* A created proposal is nobody's proposal until its text is written. *)
LEMMA OpenedUnseen ==
  ASSUME Inv, SInv, NEW h \in Handlers, Only(h), handler[h].pc = "create",
         NEW w, w.pc = "fill", w.caller = handler[h].caller, w.id = handler[h].id,
         w.scope = handler[h].scope, w.value = handler[h].value,
         NEW file \in FileType, file.state = "opened", file.approver = NoProposal,
         Moves(h, w), Files(w.id, file), UNCHANGED <<active, pending>>
  PROVE  SInv' /\ UNCHANGED Promise!vars
<1>1. /\ HandlersOK /\ FilesOK /\ AtStep(handler[h], active, pending, stored) /\ Unapproved
      /\ w.id \in Ids
  BY DEF Inv, HandlersOK, SInv, Sound
<1>2. stored'[w.id] = file /\ \A j \in Ids : j # w.id => stored'[j] = stored[j]
  BY <1>1, Filed
<1>3. file # NoProposal /\ stored[w.id] = NoProposal
  BY <1>1, NoProposalIsNoFile DEF NoFile, AtStep
<1>4. AtStep(w, active', pending', stored')
  BY <1>1, <1>2, <1>3 DEF AtStep
<1>5. Unapproved'
  BY <1>1, <1>2 DEF Unapproved
<1>6. \A j \in Ids : Plain(stored'[j]) = Plain(stored[j])
  BY <1>2, <1>3 DEF Plain
<1>7. \A j \in Ids : Seen(w, j, stored'[j]) = Seen(handler[h], j, stored[j])
  BY <1>6, SeenPlain
<1> QED  BY <1>1, <1>4, <1>5, <1>7, Quiet

LEMMA OpenKeeps ==
  ASSUME Inv, SInv, NEW h \in Handlers, Only(h), CreateOpen(h)
  PROVE  SInv' /\ UNCHANGED Promise!vars
<1>1. Sound(handler[h], pending, vetted) /\ handler[h] \in HandlerState
      /\ AtStep(handler[h], active, pending, stored)
  BY DEF Inv, HandlersOK, SInv
<1> PICK w, value, file : /\ w = [handler[h] EXCEPT !.pc = "fill"] /\ value = handler[h].value
                          /\ file = [value EXCEPT !.state = "opened"]
  OBVIOUS
<1>2. /\ w.pc = "fill" /\ w.caller = handler[h].caller /\ w.id = handler[h].id
      /\ w.scope = handler[h].scope /\ w.value = value
  BY <1>1 DEF HandlerState
<1>3. Moves(h, w) /\ Files(w.id, file) /\ handler[h].pc = "create" /\ UNCHANGED <<active, pending>>
  BY <1>2 DEF CreateOpen, Goto, Moves, Files
<1>4. value \in Held
  BY <1>1, <1>3 DEF Sound, Loaded
<1>5. value.approver = NoProposal
  BY <1>1, <1>3, NewOnes DEF AtStep
<1>6. file = Rec(value, "opened", NoProposal)
  BY <1>4, <1>5, RecTyped, RecOf
<1>7. file \in FileType /\ file.state = "opened" /\ file.approver = NoProposal
  BY <1>4, <1>6, RecChanged DEF Rec
<1> QED  BY <1>2, <1>3, <1>7, OpenedUnseen

LEMMA CreateKeeps ==
  ASSUME Inv, SInv, NEW h \in Handlers,
         CreateCompose(h) \/ CreateExists(h) \/ CreateOpen(h)
  PROVE  SInv' /\ UNCHANGED Promise!vars
<1>1. handler[h].pc \in {"compose", "exists", "create"} /\ UNCHANGED <<active, pending>>
  BY DEF CreateCompose, CreateExists, CreateOpen
<1>2. Only(h) /\ HandlersOK
  BY <1>1, OnlyOne DEF Inv
<1>3. Sound(handler[h], pending, vetted) /\ handler[h] \in HandlerState
      /\ AtStep(handler[h], active, pending, stored)
  BY DEF Inv, HandlersOK, SInv
<1>4. CASE Finish(h) /\ UNCHANGED stored
  BY <1>1, <1>2, <1>4, QuietEnd
<1>5. CASE CreateCompose(h) /\ ~Finish(h)
  <2> PICK value : value = NewProposal(active, handler[h].sub, handler[h].scope, handler[h].caller.user)
    OBVIOUS
  <2>1. value \in Held
    <3>1. /\ active \in SUBSET FileLines /\ handler[h].sub \in Submissions
          /\ handler[h].scope \in {Global} \cup SUBSET Trees /\ handler[h].caller.user \in Names
      BY <1>3, <1>5, KnownLines, FourEyesAssumption DEF CreateCompose, Sound, Inv, FilesOK
    <3> QED  BY <3>1, NewIsHeld
  <2> PICK w : w = [handler[h] EXCEPT !.pc = "exists", !.sub = None, !.value = value]
    OBVIOUS
  <2>2. /\ w.pc = "exists" /\ w.caller = handler[h].caller /\ w.id = handler[h].id
        /\ w.scope = handler[h].scope /\ w.value = value
    BY <1>3, <2>1 DEF HandlerState
  <2>3. handler[h].sub \in Submissions /\ MayPropose(active, handler[h].sub, handler[h].scope)
        /\ Moves(h, w) /\ UNCHANGED stored
    BY <1>3, <1>5 DEF CreateCompose, Sound, Moves
  <2>4. w.scope = ScopeOf(active, w.caller)
    BY <1>1, <1>3, <1>5, <2>2 DEF AtStep, CreateCompose
  <2>5. AtStep(w, active, pending', stored)
    BY <2>2, <2>3, <2>4 DEF AtStep
  <2> QED  BY <1>1, <1>2, <2>2, <2>3, <2>5, QuietMove
<1>6. CASE CreateExists(h) /\ ~Finish(h)
  <2> PICK w : w = [handler[h] EXCEPT !.pc = "create"]
    OBVIOUS
  <2>1. /\ w.pc = "create" /\ w.caller = handler[h].caller /\ w.id = handler[h].id
        /\ w.scope = handler[h].scope /\ w.value = handler[h].value
    BY <1>3 DEF HandlerState
  <2>2. Moves(h, w) /\ UNCHANGED stored /\ stored[w.id] = NoProposal
        /\ handler[h].pc = "exists"
    BY <1>6, <2>1 DEF CreateExists, Goto, Moves
  <2>3. AtStep(w, active, pending', stored)
    BY <1>3, <2>1, <2>2 DEF AtStep
  <2> QED  BY <1>1, <1>2, <2>1, <2>2, <2>3, QuietMove
<1>7. CASE CreateOpen(h)
  BY <1>2, <1>7, OpenKeeps
<1> QED  BY <1>4, <1>5, <1>6, <1>7 DEF CreateCompose, CreateExists

LEMMA ProposeMade ==
  ASSUME NEW c \in Callers, NEW id \in Ids, NEW sub \in Submissions, NEW value,
         Promise!MayPropose(active, sub, Promise!ScopeOf(active, c)),
         Promise!NewProposal(active, sub, Promise!ScopeOf(active, c), c.user) = value,
         Props[id] = NoProposal, Became(Props, Props', id, value), UNCHANGED active
  PROVE  Promise!Propose(c, id, sub)
<1>1. Props' = [Props EXCEPT ![id] = value]
  BY DEF Became
<1> QED  BY <1>1 DEF Promise!Propose, Props

(* Who writes a truncated file writes it as a whole.                       *)
LEMMA PutWhole ==
  ASSUME NEW h \in Handlers, NEW p, Put(h, p), Truncated(stored[handler[h].id])
  PROVE  Files(handler[h].id, p)
BY DEF Put, Files

LEMMA WriteProposes ==
  ASSUME Inv, SInv, NEW h \in Handlers, CreateWrite(h)
  PROVE  SInv' /\ Promise!Next
<1>1. handler[h].pc = "fill" /\ UNCHANGED <<active, pending>> /\ Finish(h)
  BY DEF CreateWrite
<1>2. Only(h) /\ HandlersOK
  BY <1>1, OnlyOne DEF Inv
<1>3. Sound(handler[h], pending, vetted) /\ AtStep(handler[h], active, pending, stored)
  BY DEF Inv, HandlersOK, SInv
<1> PICK id, value, caller : id = handler[h].id /\ value = handler[h].value /\ caller = handler[h].caller
  OBVIOUS
<1> PICK w : w = Idle
  OBVIOUS
<1>4. id \in Ids /\ value \in Held /\ caller \in Callers
  BY <1>1, <1>3 DEF Sound, Loaded
<1>5. Files(id, value) /\ Moves(h, w)
  <2>1. Truncated(stored[id])
    BY <1>1, <1>3 DEF AtStep, Truncated
  <2> QED  BY <2>1, PutWhole, Finished DEF CreateWrite
<1>6. stored'[id] = value /\ \A j \in Ids : j # id => stored'[j] = stored[j]
  BY <1>4, <1>5, Filed DEF Inv
<1> PICK sub \in Submissions : /\ MayPropose(active, sub, ScopeOf(active, caller))
                               /\ value = NewProposal(active, sub, ScopeOf(active, caller), caller.user)
  BY <1>1, <1>3 DEF AtStep
<1>7. value.state = "pending" /\ value.approver = NoProposal
  BY DEF NewProposal
<1>8. Props[id] = NoProposal /\ Became(Props, Props', id, value)
  <2>1. w.pc \notin {"record", "rewrite"}
    BY IdleSound
  <2>2. \A j \in Ids : Seen(w, j, stored'[j]) = Plain(stored'[j]) /\ Seen(handler[h], j, stored[j]) = Plain(stored[j])
    BY <1>1, <2>1, SeenPlain
  <2>3. Plain(stored[id]) = NoProposal
    BY <1>1, <1>3 DEF AtStep, Plain
  <2>4. Plain(value) = value
    BY <1>4, <1>7, PendingRec
  <2>5. \A j \in Ids : j # id => Seen(w, j, stored'[j]) = Seen(handler[h], j, stored[j])
    BY <1>6, <2>2
  <2>6. Props[id] = Seen(handler[h], id, stored[id]) /\ Became(Props, Props', id, Seen(w, id, stored'[id]))
    BY <1>2, <1>4, <1>5, <2>5, OneSeen
  <2> QED  BY <1>4, <1>6, <2>2, <2>3, <2>4, <2>6
<1>9. Promise!Propose(caller, id, sub)
  <2>1. /\ Promise!MayPropose(active, sub, Promise!ScopeOf(active, caller))
        /\ Promise!NewProposal(active, sub, Promise!ScopeOf(active, caller), caller.user) = value
    BY SameChecks, SameScope
  <2> QED  BY <1>1, <1>4, <1>8, <2>1, ProposeMade
<1>10. SInv'
  <2>1. Only(h)' /\ handler'[h] = w
    BY <1>2, <1>5, TurnOfOne
  <2>2. AtStep(w, active', pending', stored')
    BY IdleAtStep
  <2>3. Unapproved'
    BY <1>6, <1>7 DEF SInv, Unapproved
  <2> QED  BY <2>1, <2>2, <2>3, TurnKept
<1> QED  BY <1>4, <1>9, <1>10 DEF Promise!Next

-----------------------------------------------------------------------------
(* Approving it. *)

(* What the approval of a request h relies on while it is alone. *)
LEMMA ApprovingFacts ==
  ASSUME Inv, SInv, NEW h \in Handlers
  PROVE  /\ Sound(handler[h], pending, vetted) /\ handler[h] \in HandlerState
         /\ AtStep(handler[h], active, pending, stored) /\ Unapproved /\ HandlersOK /\ FilesOK
BY DEF Inv, HandlersOK, SInv

LEMMA LoadKeeps ==
  ASSUME Inv, SInv, NEW h \in Handlers, ApproveLoad(h) \/ ApproveCompare(h)
  PROVE  SInv' /\ UNCHANGED Promise!vars
<1>1. handler[h].pc \in {"load", "compare"} /\ UNCHANGED <<active, pending, stored>>
  BY DEF ApproveLoad, ApproveCompare
<1>2. Only(h)
  BY <1>1, OnlyOne
<1>3. CASE Finish(h)
  BY <1>1, <1>2, <1>3, QuietEnd, ApprovingFacts
<1>4. CASE ApproveLoad(h) /\ ~Finish(h)
  <2> PICK value : value = stored[handler[h].id]
    OBVIOUS
  <2>1. /\ handler[h].pc = "load" /\ MayLoad(value, handler[h].caller.user, handler[h].scope)
        /\ Readable(handler[h].id) /\ handler[h].id \in Ids
    BY <1>4, ApprovingFacts DEF ApproveLoad, Sound
  <2>2. value \in Held
    <3>1. value \in FileType /\ value.state = "pending"
      BY <2>1, ApprovingFacts DEF Readable, MayLoad, FilesOK
    <3> QED  BY <3>1 DEF FileType, Held, ProposalsIn
  <2> PICK w : w = [handler[h] EXCEPT !.pc = "compare", !.value = value]
    OBVIOUS
  <2>3. /\ w.pc = "compare" /\ w.caller = handler[h].caller /\ w.id = handler[h].id
        /\ w.scope = handler[h].scope /\ w.value = value
    BY <2>2, ApprovingFacts DEF HandlerState
  <2>4. Moves(h, w)
    BY <1>4 DEF ApproveLoad, Moves
  <2>5. handler[h].scope = ScopeOf(active, handler[h].caller)
    BY <2>1, ApprovingFacts DEF AtStep
  <2>6. AtStep(w, active, pending', stored)
    BY <2>1, <2>3, <2>5 DEF AtStep
  <2> QED  BY <1>1, <1>2, <2>3, <2>4, <2>6, QuietMove, ApprovingFacts
<1>5. CASE ApproveCompare(h) /\ ~Finish(h)
  <2> PICK w : w = [handler[h] EXCEPT !.pc = "open"]
    OBVIOUS
  <2>1. /\ w.pc = "open" /\ w.caller = handler[h].caller /\ w.id = handler[h].id
        /\ w.scope = handler[h].scope /\ w.value = handler[h].value
    BY ApprovingFacts DEF HandlerState
  <2>2. Moves(h, w) /\ handler[h].pc = "compare" /\ StillApplies(handler[h].value, active)
    BY <1>5 DEF ApproveCompare, Goto, Moves
  <2>3. AtStep(w, active, pending', stored)
    BY <2>1, <2>2, ApprovingFacts DEF AtStep
  <2> QED  BY <1>1, <1>2, <2>1, <2>2, <2>3, QuietMove, ApprovingFacts
<1> QED  BY <1>3, <1>4, <1>5 DEF ApproveLoad, ApproveCompare

LEMMA OpenWriteKeeps ==
  ASSUME Inv, SInv, NEW h \in Handlers, ApproveOpen(h) \/ ApproveWrite(h)
  PROVE  SInv' /\ UNCHANGED Promise!vars
<1>1. handler[h].pc \in {"open", "write"} /\ UNCHANGED stored
  BY DEF ApproveOpen, ApproveWrite
<1>2. Only(h)
  BY <1>1, OnlyOne
<1>3. CASE ApproveOpen(h)
  <2> PICK w : w = [handler[h] EXCEPT !.pc = "write", !.fd = "pending"]
    OBVIOUS
  <2>1. /\ w.pc = "write" /\ w.caller = handler[h].caller /\ w.id = handler[h].id
        /\ w.scope = handler[h].scope /\ w.value = handler[h].value /\ w.fd = "pending"
    BY ApprovingFacts DEF HandlerState
  <2>2. Moves(h, w) /\ handler[h].pc = "open" /\ pending' = Empty /\ UNCHANGED active
    BY <1>3 DEF ApproveOpen, Opens, Moves
  <2>3. AtStep(w, active, pending', stored)
    BY <2>1, <2>2, ApprovingFacts DEF AtStep
  <2> QED  BY <1>1, <1>2, <2>1, <2>2, <2>3, QuietMove, ApprovingFacts
<1>4. CASE ApproveWrite(h)
  <2>1. handler[h].pc = "write" /\ handler[h].fd = "pending" /\ pending = Empty
    BY <1>4, ApprovingFacts DEF ApproveWrite, AtStep
  <2>2. pending' \in Overlaid(handler[h].value.text, Empty) /\ UNCHANGED active
    BY <1>4, <2>1 DEF ApproveWrite, Wrote
  <2>3. pending' = handler[h].value.text
    BY <2>2 DEF Overlaid, Empty
  <2> PICK w : w = [handler[h] EXCEPT !.pc = "rename", !.fd = None]
    OBVIOUS
  <2>4. /\ w.pc = "rename" /\ w.caller = handler[h].caller /\ w.id = handler[h].id
        /\ w.scope = handler[h].scope /\ w.value = handler[h].value
    BY ApprovingFacts DEF HandlerState
  <2>5. Moves(h, w)
    BY <1>4 DEF ApproveWrite, Moves
  <2>6. AtStep(w, active, pending', stored)
    BY <2>1, <2>3, <2>4, ApprovingFacts DEF AtStep
  <2> QED  BY <1>1, <1>2, <2>2, <2>4, <2>5, <2>6, QuietMove, ApprovingFacts
<1> QED  BY <1>3, <1>4

(* A file of an activated proposal that is being rewritten still is it.    *)
LEMMA ReopenedUnseen ==
  ASSUME Inv, SInv, NEW h \in Handlers, Only(h), handler[h].pc = "record",
         NEW w, w.pc = "rewrite", w.caller = handler[h].caller, w.id = handler[h].id,
         w.scope = handler[h].scope, w.value = handler[h].value,
         w.value \in Held, w.caller.user \in Names,
         Moves(h, w), Files(w.id, Rec(w.value, "reopened", w.caller.user)), UNCHANGED <<active, pending>>
  PROVE  SInv' /\ UNCHANGED Promise!vars
<1> PICK file : file = Rec(w.value, "reopened", w.caller.user)
  OBVIOUS
<1>1. w.id \in Ids /\ w.value.state = "pending" /\ file.state = "reopened"
  BY ApprovingFacts DEF Sound, AtStep, Rec
<1>2. stored'[w.id] = file /\ \A j \in Ids : j # w.id => stored'[j] = stored[j]
  BY <1>1, Filed, ApprovingFacts
<1>3. AtStep(w, active', pending', stored')
  BY <1>1, <1>2 DEF AtStep
<1>4. Unapproved'
  BY <1>1, <1>2, ApprovingFacts DEF Unapproved
<1>5. ASSUME NEW j \in Ids  PROVE Seen(w, j, stored'[j]) = Seen(handler[h], j, stored[j])
  <2>1. CASE j = w.id
    BY <2>1 DEF Seen
  <2>2. CASE j # w.id
    BY <1>2, <2>2, SeenPlain
  <2> QED  BY <2>1, <2>2
<1> QED  BY <1>3, <1>4, <1>5, Quiet, ApprovingFacts

LEMMA ReopenKeeps ==
  ASSUME Inv, SInv, NEW h \in Handlers, ApproveReopen(h)
  PROVE  SInv' /\ UNCHANGED Promise!vars
<1>1. handler[h].pc = "record" /\ UNCHANGED <<active, pending>>
  BY DEF ApproveReopen
<1>2. Only(h)
  BY <1>1, OnlyOne
<1> PICK w, value, user : /\ w = [handler[h] EXCEPT !.pc = "rewrite"]
                          /\ value = handler[h].value /\ user = handler[h].caller.user
  OBVIOUS
<1>3. /\ w.pc = "rewrite" /\ w.caller = handler[h].caller /\ w.id = handler[h].id
      /\ w.scope = handler[h].scope /\ w.value = value
  BY ApprovingFacts DEF HandlerState
<1>4. value \in Held /\ user \in Names
  BY <1>1, ApprovingFacts, FourEyesAssumption DEF Sound, Loaded, Checked
<1>5. Moves(h, w)
  BY DEF ApproveReopen, Goto, Moves
<1>6. [Approved(h) EXCEPT !.state = "reopened"] = Rec(value, "reopened", user)
  BY <1>4, RecTyped, ReopenedRec DEF Approved
<1>7. Files(w.id, Rec(value, "reopened", user))
  BY <1>3, <1>6 DEF ApproveReopen, Files
<1> QED  BY <1>1, <1>2, <1>3, <1>4, <1>5, <1>7, ReopenedUnseen

LEMMA ActivatedRec ==
  ASSUME NEW p, IsRec(p), NEW user
  PROVE  [p EXCEPT !.state = "activated", !.approver = user] = Rec(p, "activated", user)
<1> PICK r : r = Rec(p, "activated", user)
  OBVIOUS
<1>1. [p EXCEPT !.state = "activated", !.approver = user] = r
  BY RecTwice
<1> QED  BY <1>1

LEMMA LostRec ==
  ASSUME NEW p, IsRec(p)
  PROVE  [p EXCEPT !.state = "pending", !.approver = NoProposal] = Rec(p, "pending", NoProposal)
<1> PICK r : r = Rec(p, "pending", NoProposal)
  OBVIOUS
<1>1. [p EXCEPT !.state = "pending", !.approver = NoProposal] = r
  BY RecTwice
<1> QED  BY <1>1

LEMMA ActivateMade ==
  ASSUME NEW c \in Callers, NEW id \in Ids, NEW p, IsRec(p), p # NoProposal, Props[id] = p,
         MayLoad(p, c.user, ScopeOf(active, c)), StillApplies(p, active), active' = p.text,
         Became(Props, Props', id, Rec(p, "activated", c.user))
  PROVE  Promise!Activate(c, id)
<1>1. Promise!MayLoad(p, c.user, Promise!ScopeOf(active, c)) /\ Promise!StillApplies(p, active)
  BY SameChecks, SameScope
<1>2. [p EXCEPT !.state = "activated", !.approver = c.user] = Rec(p, "activated", c.user)
  BY ActivatedRec, Zenon
<1>3. Props' = [Props EXCEPT ![id] = [p EXCEPT !.state = "activated", !.approver = c.user]]
  BY <1>2 DEF Became
<1>4. Props' = [Props EXCEPT ![id].state = "activated", ![id].approver = c.user]
  BY <1>3 DEF Became
<1> QED  BY <1>1, <1>4 DEF Promise!Activate, Props

LEMMA RecordMade ==
  ASSUME NEW id \in Ids, NEW p, NEW user, IsRec(p), Props[id] = Rec(p, "activated", user),
         Rec(p, "activated", user) # NoProposal,
         Became(Props, Props', id, Rec(p, "approved", user)), UNCHANGED active
  PROVE  Promise!Record(id)
<1> PICK q : q = Rec(p, "activated", user)
  OBVIOUS
<1>1. IsRec(q) /\ Rec(q, "approved", q.approver) = Rec(p, "approved", user) /\ q.state = "activated"
  BY DEF IsRec, Rec
<1>2. [q EXCEPT !.state = "approved"] = Rec(p, "approved", user)
  BY <1>1, RecOf
<1>3. Props' = [Props EXCEPT ![id] = [q EXCEPT !.state = "approved"]]
  BY <1>2 DEF Became
<1>4. Props' = [Props EXCEPT ![id].state = "approved"]
  BY <1>3 DEF Became
<1> QED  BY <1>1, <1>4 DEF Promise!Record, Props

LEMMA LoseRecordMade ==
  ASSUME NEW id \in Ids, NEW p, NEW user, IsRec(p), Props[id] = Rec(p, "activated", user),
         Rec(p, "activated", user) # NoProposal,
         Became(Props, Props', id, Rec(p, "pending", NoProposal)), UNCHANGED active
  PROVE  Promise!LoseRecord(id)
<1> PICK q : q = Rec(p, "activated", user)
  OBVIOUS
<1>1. IsRec(q) /\ Rec(q, "pending", NoProposal) = Rec(p, "pending", NoProposal) /\ q.state = "activated"
  BY DEF IsRec, Rec
<1>2. [q EXCEPT !.state = "pending", !.approver = NoProposal] = Rec(q, "pending", NoProposal)
  BY <1>1, LostRec, Zenon
<1>3. Props' = [Props EXCEPT ![id] = [q EXCEPT !.state = "pending", !.approver = NoProposal]]
  BY <1>1, <1>2 DEF Became
<1>4. Props' = [Props EXCEPT ![id].state = "pending", ![id].approver = NoProposal]
  BY <1>3 DEF Became
<1> QED  BY <1>1, <1>4 DEF Promise!LoseRecord, Props

(* The rename puts the proposal in force; its file says pending still.     *)
LEMMA RenamedIsActivated ==
  ASSUME Inv, SInv, NEW h \in Handlers, Only(h), handler[h].pc = "rename",
         NEW id, NEW value, NEW caller, handler[h].id = id, handler[h].value = value,
         handler[h].caller = caller,
         NEW w, w.pc = "record", w.caller = caller, w.id = id, w.value = value,
         Moves(h, w), active' = value.text, UNCHANGED stored
  PROVE  SInv' /\ Promise!Next
<1>1. id \in Ids /\ caller \in Callers /\ value \in Held /\ caller.user \in Names
  BY ApprovingFacts, FourEyesAssumption DEF Sound, Loaded, Checked
<1>2. /\ MayLoad(value, caller.user, ScopeOf(active, caller)) /\ StillApplies(value, active)
      /\ stored[id] = value /\ value.state = "pending"
  BY ApprovingFacts DEF AtStep, MayLoad
<1>3. Seen(w, id, stored'[id]) = Rec(value, "activated", caller.user)
  BY <1>1, SeenActivated
<1>4. Seen(handler[h], id, stored[id]) = value /\ value # NoProposal /\ IsRec(value)
  BY <1>1, <1>2, SeenPlain, PendingRec, RecTyped
<1>5. \A j \in Ids : j # id => Seen(w, j, stored'[j]) = Seen(handler[h], j, stored[j])
  BY SeenElsewhere
<1>6. Props[id] = value /\ Became(Props, Props', id, Rec(value, "activated", caller.user))
  BY <1>1, <1>3, <1>4, <1>5, OneSeen, ApprovingFacts
<1>7. Promise!Activate(caller, id)
  BY <1>1, <1>2, <1>4, <1>6, ActivateMade
<1>8. SInv'
  <2>1. Only(h)' /\ handler'[h] = w
    BY TurnOfOne, ApprovingFacts
  <2>2. AtStep(w, active', pending', stored')
    BY <1>2 DEF AtStep
  <2>3. Unapproved'
    BY ApprovingFacts DEF Unapproved
  <2> QED  BY <2>1, <2>2, <2>3, TurnKept
<1> QED  BY <1>1, <1>7, <1>8 DEF Promise!Next

LEMMA RenameActivates ==
  ASSUME Inv, SInv, NEW h \in Handlers, ApproveRename(h)
  PROVE  SInv' /\ Promise!Next
<1>1. handler[h].pc = "rename" /\ UNCHANGED stored
  BY DEF ApproveRename
<1>2. Only(h)
  BY <1>1, OnlyOne
<1>3. pending = handler[h].value.text /\ handler[h].value \in Held
  BY <1>1, ApprovingFacts DEF AtStep, Sound, Loaded, Checked
<1>4. pending # None
  BY <1>3, NoneIsNoPolicy DEF Held, ProposalsIn
<1> PICK w : w = [handler[h] EXCEPT !.pc = "record"]
  OBVIOUS
<1>5. w.pc = "record" /\ w.caller = handler[h].caller /\ w.id = handler[h].id /\ w.value = handler[h].value
  BY ApprovingFacts DEF HandlerState
<1>6. active' = pending /\ Moves(h, w)
  <2>1. /\ active' = pending
        /\ handler' = [k \in Handlers |-> IF k = h THEN w ELSE Follow(k)]
    BY <1>4 DEF ApproveRename
  <2>2. \A k \in Handlers : k # h => Follow(k) = handler[k]
    BY <1>2, IdleSound, NoneIsNoFile DEF Only, Follow
  <2>3. handler' = [handler EXCEPT ![h] = w]
    BY <2>1, <2>2, ApprovingFacts DEF HandlersOK
  <2> QED  BY <2>1, <2>3 DEF Moves
<1> QED  BY <1>1, <1>2, <1>3, <1>5, <1>6, RenamedIsActivated

LEMMA RecordRecords ==
  ASSUME Inv, SInv, NEW h \in Handlers, ApproveRecord(h)
  PROVE  SInv' /\ Promise!Next
<1>1. handler[h].pc = "rewrite" /\ UNCHANGED <<active, pending>> /\ Finish(h)
  BY DEF ApproveRecord
<1>2. Only(h)
  BY <1>1, OnlyOne
<1> PICK id, value, user : id = handler[h].id /\ value = handler[h].value /\ user = handler[h].caller.user
  OBVIOUS
<1>3. id \in Ids /\ value \in Held /\ user \in Names /\ IsRec(value)
  BY <1>1, ApprovingFacts, FourEyesAssumption, RecTyped DEF Sound, Loaded, Checked
<1> PICK w, file : w = Idle /\ file = Rec(value, "approved", user)
  OBVIOUS
<1>4. Approved(h) = file
  BY <1>3, RecTwice DEF Approved
<1>5. Moves(h, w) /\ Files(id, file)
  <2>1. stored[id] = Rec(value, "reopened", user)
    BY <1>1, ApprovingFacts DEF AtStep
  <2>2. Truncated(stored[id])
    BY <2>1, ReopenedIsTruncated
  <2> QED  BY <1>4, <2>2, PutWhole, Finished DEF ApproveRecord
<1>6. stored'[id] = file /\ \A j \in Ids : j # id => stored'[j] = stored[j]
  BY <1>3, <1>5, Filed, ApprovingFacts
<1>7. w.pc = "idle"
  BY IdleSound
<1>8. Seen(w, id, stored'[id]) = file /\ Seen(handler[h], id, stored[id]) = Rec(value, "activated", user)
  <2>1. Plain(file) = file
    BY <1>3, PlainRec
  <2> QED  BY <1>1, <1>3, <1>6, <1>7, <2>1, SeenPlain, SeenActivated
<1>9. \A j \in Ids : j # id => Seen(w, j, stored'[j]) = Seen(handler[h], j, stored[j])
  BY <1>6, <1>7, SeenPlain
<1>10. Props[id] = Rec(value, "activated", user) /\ Became(Props, Props', id, file)
  BY <1>2, <1>3, <1>5, <1>8, <1>9, OneSeen, ApprovingFacts
<1>11. Rec(value, "activated", user) # NoProposal
  BY <1>3, ActivatedIsNoFile
<1>12. Promise!Record(id)
  BY <1>1, <1>3, <1>10, <1>11, RecordMade
<1>13. SInv'
  <2>1. Only(h)' /\ handler'[h] = w
    BY <1>2, <1>5, TurnOfOne, ApprovingFacts
  <2>2. AtStep(w, active', pending', stored')
    BY IdleAtStep
  <2>3. file.state = "approved"
    BY DEF Rec
  <2>4. Unapproved'
    BY <1>6, <2>3, ApprovingFacts DEF Unapproved
  <2> QED  BY <2>1, <2>2, <2>4, TurnKept
<1> QED  BY <1>3, <1>12, <1>13 DEF Promise!Next

(* A request that ends early takes nothing back, but the record of an      *)
(* approval it had not begun to write is lost.                             *)
LEMMA FailKeeps ==
  ASSUME Inv, SInv, NEW h \in Handlers, Fail(h)
  PROVE  SInv' /\ [Promise!Next]_(Promise!vars)
<1>1. Finish(h) /\ handler[h] # Idle
  BY DEF Fail
<1>2. Only(h)
  BY <1>1 DEF SInv, Alone
<1>3. UNCHANGED <<active, stored>>
  <2>1. handler[h].fd # "active"
    BY ApprovingFacts, NoneIsNoFile DEF Sound, AtStep
  <2>2. FailedToPut(h) = {}
    BY <1>2, IdleSound DEF Only, FailedToPut
  <2> QED  BY <2>1, <2>2 DEF Fail, FailedToWrite
<1> PICK w : w = Idle
  OBVIOUS
<1>4. Moves(h, w) /\ w.pc = "idle" /\ AtStep(w, active', pending', stored')
  BY <1>1, <1>3, Finished, IdleSound, IdleAtStep
<1>5. Unapproved'
  BY <1>1, <1>3, ApprovingFacts DEF Unapproved
<1>6. CASE handler[h].pc \notin {"record", "rewrite"}
  BY <1>1, <1>3, <1>2, <1>6, QuietEnd, ApprovingFacts
<1>7. CASE handler[h].pc \in {"record", "rewrite"}
  <2> PICK id, value, user : id = handler[h].id /\ value = handler[h].value /\ user = handler[h].caller.user
    OBVIOUS
  <2>1. id \in Ids /\ value \in Held /\ user \in Names /\ IsRec(value) /\ value.state = "pending"
    BY <1>7, ApprovingFacts, FourEyesAssumption, RecTyped DEF Sound, Loaded, Checked, AtStep
  <2>2. Seen(handler[h], id, stored[id]) = Rec(value, "activated", user)
    BY <1>7, <2>1, SeenActivated
  <2>3. \A j \in Ids : j # id => Seen(w, j, stored'[j]) = Seen(handler[h], j, stored[j])
    BY <1>1, <1>3, <1>4, SeenPlain
  <2>4. Seen(w, id, stored'[id]) = Plain(stored[id])
    BY <1>1, <1>3, <1>4, SeenPlain
  <2>5. CASE handler[h].pc = "rewrite"
    <3>1. Plain(stored[id]) = Rec(value, "activated", user)
      BY <2>1, <2>5, ApprovingFacts, PlainRec DEF AtStep
    <3>2. \A j \in Ids : Seen(w, j, stored'[j]) = Seen(handler[h], j, stored[j])
      BY <2>2, <2>3, <2>4, <3>1
    <3> QED  BY <1>1, <1>3, <1>2, <1>4, <1>5, <3>2, Quiet, ApprovingFacts
  <2>6. CASE handler[h].pc = "record"
    <3>1. stored[id] = value
      BY <2>6, ApprovingFacts DEF AtStep
    <3>2. value = Rec(value, "pending", value.approver) /\ Plain(value) = value /\ value # NoProposal
      BY <2>1, PendingRec
    <3>3. value.approver = NoProposal
      BY <2>1, <3>1, <3>2, ApprovingFacts DEF Unapproved
    <3>4. Props[id] = Rec(value, "activated", user) /\ Became(Props, Props', id, Rec(value, "pending", NoProposal))
      BY <1>2, <1>4, <2>1, <2>2, <2>3, <2>4, <3>1, <3>2, <3>3, OneSeen, ApprovingFacts
    <3>5. Rec(value, "activated", user) # NoProposal
      BY <2>1, ActivatedIsNoFile
    <3>6. Promise!LoseRecord(id)
      BY <1>1, <1>3, <2>1, <3>4, <3>5, LoseRecordMade
    <3>7. SInv'
      <4>1. Only(h)' /\ handler'[h] = w
        BY <1>2, <1>4, TurnOfOne, ApprovingFacts
      <4> QED  BY <1>4, <1>5, <4>1, TurnKept
    <3> QED  BY <2>1, <3>6, <3>7 DEF Promise!Next
  <2> QED  BY <1>7, <2>5, <2>6
<1> QED  BY <1>6, <1>7

LEMMA ReplaceOverwrites ==
  ASSUME Serialized, Inv, SInv, NEW P \in OperatorPolicies, Replace(P)
  PROVE  SInv' /\ Promise!Next
<1>1. active' = P /\ UNCHANGED <<pending, stored>> /\ \A k \in Handlers : handler[k] = Idle
  BY DEF Replace, MyTurn
<1>2. UNCHANGED handler
  BY <1>1, IdleSound, NoneIsNoFile DEF Replace, Inv, HandlersOK
<1>3. UNCHANGED Props
  BY <1>1, <1>2 DEF Props, ProposalOf, Activated, Approved
<1>4. Promise!Overwrite(P)
  BY <1>1, <1>3 DEF Promise!Overwrite, Props
<1>5. SInv'
  <2>1. Alone' /\ Unapproved'
    BY <1>1, <1>2 DEF SInv, Alone, Only, Unapproved
  <2>2. \A k \in Handlers : AtStep(handler'[k], active', pending', stored')
    BY <1>1, <1>2, IdleAtStep
  <2> QED  BY <2>1, <2>2 DEF SInv
<1> QED  BY <1>4, <1>5 DEF Promise!Next

LEMMA NextKeepsPromise ==
  ASSUME Serialized, Inv, SInv, [Next]_vars
  PROVE  SInv' /\ [Promise!Next]_(Promise!vars)
<1>1. CASE UNCHANGED vars
  <2>1. UNCHANGED Props
    BY <1>1 DEF vars, Props, ProposalOf, Activated, Approved
  <2>2. UNCHANGED Promise!vars
    BY <1>1, <2>1 DEF vars, Promise!vars, Props
  <2>3. SInv'
    BY <1>1 DEF vars, SInv, Alone, Only, Unapproved
  <2> QED  BY <2>2, <2>3
<1>2. CASE \E h \in Handlers : Create(h)
  <2> PICK h \in Handlers : Create(h)
    BY <1>2
  <2>1. CASE CreateWrite(h)
    BY <2>1, WriteProposes
  <2>2. CASE CreateCompose(h) \/ CreateExists(h) \/ CreateOpen(h)
    BY <2>2, CreateKeeps
  <2> QED  BY <2>1, <2>2 DEF Create
<1>3. CASE \E h \in Handlers : Approve(h)
  <2> PICK h \in Handlers : Approve(h)
    BY <1>3
  <2>1. CASE ApproveRename(h)
    BY <2>1, RenameActivates
  <2>2. CASE ApproveRecord(h)
    BY <2>2, RecordRecords
  <2>3. CASE ApproveLoad(h) \/ ApproveCompare(h)
    BY <2>3, LoadKeeps
  <2>4. CASE ApproveOpen(h) \/ ApproveWrite(h)
    BY <2>4, OpenWriteKeeps
  <2>5. CASE ApproveReopen(h)
    BY <2>5, ReopenKeeps
  <2> QED  BY <2>1, <2>2, <2>3, <2>4, <2>5 DEF Approve
<1>4. CASE \E h \in Handlers : Fail(h)
  BY <1>4, FailKeeps
<1>5. CASE \E P \in OperatorPolicies : Replace(P)
  BY <1>5, ReplaceOverwrites
<1>6. CASE \/ \E h \in Handlers, c \in Callers, id \in Ids, sub \in Submissions : StartCreate(h, c, id, sub)
           \/ \E h \in Handlers, c \in Callers, id \in Ids : StartApprove(h, c, id)
  BY <1>6, StartsKeep
<1> QED  BY <1>1, <1>2, <1>3, <1>4, <1>5, <1>6 DEF Next

LEMMA InitKeepsPromise ==
  ASSUME Init
  PROVE  SInv /\ Promise!Init
<1>1. \A h \in Handlers : handler[h] = Idle
  BY DEF Init
<1>2. \A id \in Ids : ProposalOf(id) = NoProposal
  BY <1>1, IdleSound DEF Init, ProposalOf, Activated
<1>3. Promise!Init
  BY <1>2 DEF Init, Promise!Init
<1>4. SInv
  BY <1>1, IdleAtStep DEF Init, SInv, Alone, Unapproved
<1> QED  BY <1>3, <1>4

(* With one writer at a time the file operations implement FourEyes, with  *)
(* crashes and I/O errors between any two of them (policy.rs:64).          *)
THEOREM TurnsKeepThePromise == ASSUME Serialized PROVE Spec => KeepsPromise
<1>1. Init => Inv /\ SInv /\ Promise!Init
  BY InitSound, InitKeepsPromise
<1>2. Inv /\ SInv /\ [Next]_vars => Inv' /\ SInv' /\ [Promise!Next]_(Promise!vars)
  BY NextSound, NextKeepsPromise
<1> QED  BY <1>1, <1>2, PTL DEF Spec, KeepsPromise, Promise!Spec

(* With one writer at a time an approval replaces the policy its proposal  *)
(* was made against and no other: "a proposal made against an older policy *)
(* would silently undo whatever was approved since" (policy.rs:85).        *)
THEOREM TurnsUndoNothing == ASSUME Serialized PROVE Spec => NothingIsUndone
<1>1. Init => Inv /\ SInv
  BY InitSound, InitKeepsPromise
<1>2. Inv /\ SInv /\ [Next]_vars => Inv' /\ SInv'
  BY NextSound, NextKeepsPromise
<1>3. Inv /\ SInv => \A h \in Handlers : ApproveRename(h) => active = handler[h].value.base
  BY ApprovingFacts DEF AtStep, StillApplies, ApproveRename
<1> DEFINE A == \A h \in Handlers : ApproveRename(h) /\ pending = handler[h].value.text
                  => active \in {handler[h].value.base, handler[h].value.text}
<1>4. Inv /\ SInv /\ [Next]_vars => [A]_vars
  BY <1>3
<1> QED  BY <1>1, <1>2, <1>4, PTL DEF Spec, NothingIsUndone

=============================================================================
