# A verification development of glasir-control

glasir-control is a control plane in front of a set of *trees*, the indexed
repositories that Glasir Core processes serve over MCP. It authenticates
callers, decides from one file, `rights.tsv`, who may reach which tree with
which tools, forwards what it lets through with a credential of its own, and
keeps an audit log. Permissions come from the operator, from four-eyes policy
proposals, and from a code host that is mirrored by webhooks and periodic
reconciliation.

This directory holds TLA+ modules of those parts, the TLC configurations that
check them, and TLAPS proofs. `PROJECT.json` maps each definition to the lines
it models (paths in this file are relative to the repository).

## 1. The system

| Component | State | Operations |
|---|---|---|
| Rights semantics, `src/rights.rs` | none: functions of a text | `parse`, `may_with_groups`, `may_tool_with_groups`, `admin_scope`, `visible_workspaces`, `line_trees`, `scoped_text`, `compose`, `validate_text`, `restricted_to` |
| Policy proposals, `src/policy.rs` and their endpoints in `src/main.rs` | `rights.tsv`, `rights.pending`, one JSON file per proposal | `create`, `approve`, `read`, `list` |
| Permission mirror, `src/sync.rs` | `rights.tsv`, `rights.tsv.tmp.<pid>` | GitHub and GitLab membership webhooks, `apply_sync_actions`, `reconcile_remote` and the thread that repeats it |
| Audit log, `src/audit.rs` | bounded queue, drop counter, log, one rotation, lock file | `record`, the writer thread, `write_record`, `verify`, `recent`, export to a collector |
| Gateway, `src/main.rs::handle`, `src/proxy.rs::route`, `rights.rs::Watched` | cache of the parsed file with its mtime | the lease check, `current`, `route`, the tool check, `forward` |
| Sign-on, `src/auth.rs` | caches of the token file and of the key file | `identify`, `identify_with_groups` |
| Rate limiter, `src/security.rs` | a token bucket per address | `check_and_consume`, the penalty of a failed sign-on |
| Connection limits, `src/main.rs` | two counters of live connections | accept loops, the guard that lowers the count |
| Console endpoints, `src/main.rs::handle` | none of their own | session, trees, workspaces, access review, proposals, approvals, timeline, impact reviews, reviews that a code host's event starts |
| Cross-repository evidence, `src/crossrepo.rs` | none | `links`, `callers_of_changes` |
| Collector, `main.rs::run_audit_ingest`, `audit.rs::append_remote_event` | a log of its own, a count of workers | admission, one verified append per request |
| HTTP reading, TLS, console page, deployment | per connection only | parsing and I/O |

**How they interact.** Every connection has a thread of its own, and requests
share nothing but files, two mutex-protected caches, the limiter's map and
atomic counters. `rights.tsv` is the meeting point: proposals, webhooks, the
reconciling thread and the operator's editor all replace it by renaming a
finished file over it, none of them under a lock; every request reads it
through a cache keyed by its mtime; and its mtime is also the lease that says
whether the mirror is fresh. The audit writer is one thread per process, fed by
a bounded channel; replicas of the process share the log on a volume and take
turns by `flock`. Each writer posts its events to the collector, one connection
an event, and waits for the answer before it takes the next record.

**What is hard.** The read-check-write sequences on files without a lock
(proposals, mirror); two names that all threads of a process share for
temporary files; deliveries that are lost, repeated, late or out of order; a
process that dies between a rename and the record of it, or between a line and
its newline; an answer that is lost after the event was stored; a request that
reads the policy more than once, or once and then talks to backends for seconds;
a snapshot of members applied after newer events; a cache keyed by
a clock with finite resolution; a lease stamped by whoever writes; a queue at
its limit; a signed chain through rotations and replicas; and edits of a part of
a policy whose lines refer to each other.

**What makes each part correct.**

- Rights and proposals: a tenant's administrators change nothing outside the
  tenant's trees; a reviewer sees every line a proposal changes; views and
  reviews cut down to a tenant are exact; what is in force is one whole text,
  the operator's or one vetted by somebody other than its author; an approval
  undoes nothing approved since.
- Mirror: it grants nothing the code host or the operator did not; it ends up
  equal to the code host; it keeps all other lines.
- Audit: the signed chain of readable records neither forks nor skips, or only
  where a segment could not be read; every record
  is written, on its way, delivered, or counted by one of the two counters; drops
  are reported exactly once; `verify` accepts what the writers wrote.
- Collector: what it acknowledges it has stored; its count is that of its
  workers, so that it neither overruns its limit nor fills up.
- Gateway and sign-on: a request is let through only by a credential file and a
  policy that were in force since it arrived, and never by rights older than the
  lease.
- Console: nobody is told of a tree they may not reach, and a tree they may not
  reach is never spoken to; a tenant's edit stays inside, although the scope and
  the policy are read at different times; an access review tells exactly who may
  do what; reported callers are those a router would serve.
- Limits: a client gets no more than its rate and burst, although the limiter
  forgets idle clients; no more requests than the limit are served at a time,
  and every slot is given back.

## 2. Modules

```
Rights            meaning of a rights file (operators)
  Proposals       what a proposal is and what its checks ask
    ProposalsProofs  lemmas about both, shared by three proof modules
    FourEyes      the policy promise: each check with its effect in one step
      FourEyesProofs
    PolicyApproval  the same, one file operation at a time, requests interleaved
      PolicyApprovalProofs
  Gateway         requests, credential and rights caches, lease, routing
    GatewayProofs
CrossRepo         requests of one tree that reach a route of another (operators)
  Review          impact reviews and providers' reviews (with Proposals)
    Console       listings, administration, access review, and the reviews
      ConsoleProofs
Mirror            webhooks, reconciliation, shared temporary file, failures
  MirrorProofs
Audit             queue, writer, rotation, signed chain, replicas
  Collector       the replicas and the collector they post to, implementing Audit
    CollectorProofs  of both
TokenBucket       the limiter's promise: buckets that are never forgotten
  Admission       connection count, and the limiter as it is, implementing it
    AdmissionProofs
MCFourEyes, MCPolicyApproval, MCMirror, MCAudit, MCCollector, MCGateway,
MCConsole         instances for TLC
```

A definition that is preceded by a comment `Mutant:` belongs to no behaviour of
its module. It is a plausible mistake in the definition after it; `PROJECT.json`
says which, and which property notices it.

**Rights.** A policy is the *set* of the file's lines. The parser merges lines
of one key and every lookup asks for membership, so order and repetition do not
matter to an answer. Names are opaque; a line is a record of a directive, a
name, for four-column lines a second name, and the list in the last column.
`malformed` and `comment` stand for lines without meaning; both are kept and
both need a global administrator. Errors of `validate_text` about the *shape* of
a name (identifier characters, slashes in tree names, `host:port`) are left out,
because no property tells names apart.

**Proposals, FourEyes.** `FourEyes` is the abstract specification of the
four-eyes process: `Propose`, `Activate` (checks and effect together), `Record`
or `LoseRecord` (whether the proposal's file says so), `Overwrite` (anybody else
replaces the file). A hash is equal exactly when its text is, so `base` holds
the text.

**PolicyApproval.** `create` and `approve` as the code runs them: each read,
comparison, truncating open, write and rename is an action, and each of two
request threads may be between any two. `fs::write` truncates and later writes
through a descriptor that follows its file: after a rename by somebody else it
writes into the file in force. Two descriptors of one file both write from its
first byte, so the end of a longer text remains behind a shorter one, cut
anywhere: `Overlaid` keeps any piece of the old text (`Pieces`), and where it is
torn one line that stood in no text (`TornLines`: the grant behind the `#` of a
comment, a name cut short, or an unterminated last line run together with what
follows). `Fail` ends a request at any point, which is an I/O error or the death
of the process; a write that fails may have written any part of its text
(`Part`), and the file stays behind for whoever opens it next. Three things are
coarser than the code: a file is read in one step; a write that succeeds is one
step too, although the library may make several calls of it; and the JSON of a
proposal over which another was written is unreadable (`torn`), although two of
them might line up byte for byte. A torn line can also make a file read as no
text at all; a request that meets that ends, which is `Fail`.

The refinement mapping (`Promise`) takes a proposal to exist once its text is
written and to be activated from the rename to the record.
With `Serialized = TRUE` requests take turns; that is what the code would
satisfy under a lock, and the refinement is checked and proved under it. A file
that was truncated for a rewrite is `opened` or `reopened`: nobody can read it,
and the model keeps its other fields to say what it held. `vetted` and `shared`
are history variables: the texts that passed the checks of an approval, and which
of the two files was opened by one approval while another had it open.

**Mirror.** The code host changes memberships and sends a delivery for each;
deliveries are taken in any order, repeatedly, or never. A writer reads the
file, edits the direct grants, opens the shared temporary file, writes it and
renames it. Reconciliation fetches member lists source by source and then
writes like the others. `MisreadFile` is `read_to_string(...).unwrap_or_default()`
on an error. The file is abstracted to its direct grants and to whether all of
the other lines are there, or some, or none: the mirror never edits those, it can
only lose them. The temporary file is shared, and written over, as
`rights.pending` is above: `Overlaid` leaves grants of the longer text behind a
shorter one, and those that a torn line reads as (`TornGrants`), and a write that
fails or that the process dies in leaves a beginning of its text (`Beginnings`).
What a crash leaves in the temporary file need not be kept, since the next writer
truncates it; that of a write into the file in force is. `Plain` are
the users whose name `is_valid_identifier` accepts; for the others a webhook is
refused and reconciliation skips them.

**Audit, Collector.** `Request` is `record`; `Take` to `Export` are the steps of
the writer thread; `FailWrite`, `FailRotate` and `Crash` may happen at each of
them. A signature is modelled by the number of its record, since it is equal
exactly when record and predecessor are. A line is complete JSON or *garbled*; a
line without its newline is continued, and spoiled, by the next. `Sign` looks for
the predecessor in both segments. `SignUnread` is the same where a segment reads
as no text: the error is swallowed (src/audit.rs:252) and so is the lack of a
predecessor (src/audit.rs:207), and the record, signed after an older one or none,
is appended like any other. A read may fail once, which counts as a failure, or
every time while the segment holds a garbled line, which may end inside a
character and so not be UTF-8. `misread` is a history variable, the records signed
this way. A segment is
full after `SegmentLines` lines, instead of 10 MB.

`Collector` extends `Audit` and takes `Export` apart. The writer connects
(`Posted`) and then has its 204 (`Delivered`) or gives up (`GiveUp`: no
connection, no answer in time, an error); there is no second attempt. The
collector's one acceptor reads the count of workers (`Accept`) and swaps it
(`Admit`, again if a worker has left meanwhile). A worker locks the store,
appends, ends the line, answers and leaves (`WorkerStep`), whether or not the
writer still waits. `FailStore` is any error in between, `CollectorCrash` the
death of the collector, `ReplicaCrash` that of a replica, whose connections stay
with the collector. `AsLog` is the refinement mapping: to the log, a writer that
waits for an answer is one that is about to export.

**Gateway.** The clock counts the steps of the file system's timestamps. A
request arrives (`Receive`) with a bearer; the thread reads the credential file's
mtime (`StatCredentials`), takes the cache's lock, compares and reads
(`LoadCredentials`, where `Identify` says whom the bearer stands for), asks the
lease (`CheckLease`, 503), reads the rights the same way (`StatRights`,
`LoadRights`) and decides (`Forward`, `Refuse`). `Oidc` chooses between a token
file and a file of an issuer's keys, where the claims come with the bearer. A
file that cannot be read is cached as empty (`misread`). `since` is a history
variable: the contents of each file from the arrival of the request on. With
`OneStep = FALSE` no two writes leave one mtime. A write and its rename are one
step.

**CrossRepo, Review, Console.** `CrossRepo` holds `links` and
`callers_of_changes` for routes and requests that are sequences of segments, next
to what a router does with a path (`DispatchedTo`). The order in which trees and
links are listed, and duplicates, are left out. In `Review` a request takes a
snapshot of the policy and asks one tree after the other (`Detect`, `Surface`);
what a backend answers is any subset of what it could, or nothing. A review that
meets a tree its policy does not declare ends its thread (`StumbleOnUnknown`), or,
for a provider's event, is given up. `Console` adds what answers from one read
of the policy, and the administration, where the caller's scope is taken from one
read (`TakeScope`) and the files are read again later (`ComposeEdit`,
`StoreProposal`, `ListProposals`, `ReadProposal`, then `ShowActive`).
`ApproveProposal` is one step here; `PolicyApproval` has its steps. `Overwrite`
is anything else that replaces the file: the operator or the mirror. `told` is
what an answer names or a review has asked, and `since` is history as in
`Gateway`.

**TokenBucket, Admission.** The accepting thread reads the count (`Accept`) and
raises it (`Spawn`), with request threads lowering it in between (`Finish`, which
is the guard `Live` and so covers every return and a panic). A request thread
asks the limiter first (`Check`) and may ask again after a failed sign-on
(`Penalize`). `Consume` is `check_and_consume`: purge, refill, take. Time is
counted in ticks of `Rate` tokens each, instead of floating point seconds.
`spent` is a history variable. `TokenBucket` tops all buckets up at every tick
and forgets none; the refinement mapping takes a bucket's level to be what it
would hold if it were refilled now. Malformed headers, health checks and other
early answers are `Finish` after `Check`.

## 3. Runs

Runs expected to pass:

| Run | Configuration | What it shows | Bounds |
|---|---|---|---|
| `four_eyes` | `MCFourEyes.cfg` | `TenantStaysInside`, `ReviewerSeesEveryChange`, `UnchangedViewIsNoEdit`, `ReviewIsExact` | 2 trees, one tenant, 4 operator policies, every edit out of 7 lines that composes with one of them, one proposal |
| `approval_serial` | `PolicyApprovalSerial.cfg` | `KeepsPromise`: the file operations implement `FourEyes` when requests take turns, crashes included; `NothingIsUndone` | 2 proposals, one request at a time, global and tenant administrators |
| `approval_concurrent` | `PolicyApprovalConcurrent.cfg` | `WholeUnlessShared`: under every interleaving, and with writes that fail halfway, a text in force is whole and vetted unless two approvals had `rights.pending` open at once | 2 requests, 1 proposal, 2 texts, 1 torn line |
| `mirror` | `MirrorAll.cfg` | `MirroredNotCreated`, `EventuallyMirrored` | 2 users (one not `Plain`), 2 sources of one tree, 2 changes, one repeated delivery, I/O error or crash, 1 torn grant |
| `audit` | `Collector.cfg` | `ForksAreMisreads`, `DropsReported`, `RecordsAccounted`, `DeliveredIsStored`, `ImplementsLog`, `Settled` | 2 replicas, queues of 1, segments of 2 lines, 3 requests, 1 failure or crash of either side, 2 connections |
| `gateway` | `Gateway.cfg` | `EffectOnNextRequest`, `WithinLease` | 2 requests, 2 token files, 2 policies, 2 clock readings, lease of 0 |
| `console` | `Console.cfg` | `OnlyOwnTrees`, `UnreachableIsUnknown`, `ReviewTellsAccess`, `EditsConfined`, `NeverSpokenTo`, `DiesOfInvalidOnly`, `CallersAreExact` | 2 trees, 4 callers, 4 operator policies, 3 submissions, 1 proposal, 2 threads, 2 workspaces, 3 routes and 5 requests |
| `admission` | `Admission.cfg` | `RateBound`, `WithinLimit`, `LazyIsEager`, `CapacityReturns` | 2 clients, 3 threads, limit of 2, 1 token a tick, capacity 2, purge of buckets idle for 2 ticks when there are 2, 5 clock readings |

The bounds are chosen for the cases that matter: one proposal suffices for a
tenant's edit because `FourEyes` compares it with any file installed meanwhile;
two threads for every race between two writers; segments of two lines and three
requests give a rotation with a failure in between, and `OnlyMisreadsFork` covers
longer logs; two connections let a worker leave while the acceptor holds the next
connection; two sources of one tree make a removal from one that leaves the
other; queues of one record fill; a lease of 0 lapses with the first tick, and
the token file gets a token that expires with it and one that does not; a
bucket that counts as idle exactly when it is full again is the tightest that
`AdmissionAssumption` allows (in the code 300 s against 2 s), and a thread more
than the limit could be admitted if the count let it. The pieces of a text that
`Pieces` gives are those the properties tell apart: none of its lines, the ones
that an edit brought, the others, and all. The console's policies
differ in each way its handlers tell apart: both trees reachable, the second
taken from the developer and the tenant moved to it, no second tree, and a file
that names a tree it does not declare.

Four restrictions in the MC modules keep instances small, and each is a
conjunct there. `FirstRequest` (`MCCollector`): replicas are alike, so the first
request may be taken to go to a named one. `ClosedFirst` (`MCConsole`): an
answered request is closed before anything else happens; its properties look at
the answer, which no later step changes. `SecondApproves`: the second thread
serves only approvals by the global administrator, who may approve everything
that can be. `ReviewsApart`: a review runs while there is neither a proposal nor
another request, since they share only the file in force, which `Overwrite`
changes like an approval does; the two files with fewer trees come with reviews
only.

Each run also checks its
module's `TypeOK`, except `approval_serial`, whose states `approval_concurrent`
has among its own but for the larger texts (`TypesCorrect` covers both).

`NothingIsUndone` is in a run that passes and in one that fails: it holds when
requests take turns (`approval_serial`), and the code, which takes no lock, does
not have it (`approval_undone`).

`WholeUnlessShared` and `ForksAreMisreads` each have an exception, which is what
the code does not exclude: that two approvals have `rights.pending` open at once,
and that a segment cannot be read. The first two of the other observations below
say what happens then; TLC finds it at once where `ActiveIsWhole`, or
`Linked(Retained, {})`, takes the place of the property.

Runs expected to fail. Each states a sentence of the repository and shows a
behaviour of the code that contradicts it (`findings` in `PROJECT.json`):

| Run | Sentence | What happens |
|---|---|---|
| `approval_undone` | src/policy.rs:85 | two approvals compare before either renames; the second undoes the first |
| `mirror_rest` | src/sync.rs:335 | two writers share `rights.tsv.tmp.<pid>`; all lines but grants are lost |
| `audit_verify` | src/audit.rs:298 | after the second rotation an untampered log does not verify |
| `gateway_groups` | README.md:328 | `route` asks without the caller's IdP groups (src/proxy.rs:202): a tree granted through a group is refused with 404 |

**Other observations.** They follow from the actions of the modules, and no
run is spent on them.

- `rights.pending` is one name for all approvals: one can rename into force what
  another has just truncated, or what two have written over each other
  (src/policy.rs:96; `ApproveOpen`, `Overlaid`, `ApproveRename`), an empty policy
  or lines that stood in no text, whereas src/policy.rs:1 says the active rights
  "remain one atomic TSV source".
- A segment of the log that cannot be read is passed over (src/audit.rs:252), and
  no predecessor at all is taken for an empty one (src/audit.rs:207;
  `SignUnread`): the record is appended all the same and the chain forks there,
  whereas src/audit.rs:18 says replicas "cannot fork the signed chain".
- `create` asks whether a proposal exists and writes it later (src/policy.rs:57;
  `CreateExists`, `CreateOpen`): two creations of one id both pass, and the
  second replaces the first.
- A member list fetched before a removal can be written after it (src/sync.rs:424;
  `Fetch`, `Change`, `RenameTmp`); the grant returns until the next reconciliation.
- `/metrics` declares the dropped records a counter (src/main.rs:836), and the
  writer sets it back to zero (src/audit.rs:75; `Take`); `dropped` is documented
  as a number "so far" (src/audit.rs:134). Drops that a record reports whose post
  fails are never reported to the collector (`GiveUp`).
- The lease is the mtime of the rights file, so that webhooks and approvals renew
  it as well as a reconciliation (src/rights.rs:957 against README.md:222;
  `Fresh`, `Install`).
- Of two writes of the rights file in one step of the file system's clock the
  second is not seen until the next (src/rights.rs:946 against README.md:75;
  `OneStep`).
- A read that fails is cached as an empty file, and stays so until the file's next
  change (src/auth.rs:104, src/rights.rs:946; `Load`). An expiry that does not
  parse counts as none (src/auth.rs:38).
- A tenant's line may widen a workspace by trees of the tenant, whereupon users of
  its other trees lose it (src/rights.rs:433 against README.md:176;
  `TreesOfWorkspace`, `VisibleWorkspaces`).
- On a signed log the timeline of a tenant's administrator is empty: its filter
  looks for a tree where unsigned lines have it (src/main.rs:1443 against
  README.md:183; `ShowTimeline`). After a rotation it begins anew.
- README.md:258 says of the log "Every request"; early answers (limits, origin,
  stale mirror, webhooks, console pages, metrics) leave no record.
- A tree that does not answer a review's `http_surface` no longer competes, so a
  request links to a less specific route of another tree (README.md:305, "the most
  specific route winning"; `Surface`). `CallersAreExact` is about reviews that all
  trees answered.
- A provider's review concludes "success" whether or not its trees answered
  (`Detect`), and an impact review asks for trees, not for tools.
- The penalty of a failed sign-on is taken only from a bucket that holds all of
  it (src/security.rs:141; `Consume`, `Penalize`): an emptier bucket pays nothing
  beyond the request's one token.

**Deadlock** is checked everywhere except in `audit` and `audit_verify`: there
requests are bounded, so the system stops when they are used up and written.

**Fairness.** `Mirror` assumes weak fairness of the reconciling thread's steps
and of each thread's file operations: the loop of src/main.rs:496 never ends and
the operating system runs every thread. It assumes nothing of deliveries, which
may all be lost. `Collector` assumes weak fairness of each replica's writer, whose
wait for an answer is bounded by a timeout (src/backend_tls.rs), and of the
collector's workers taken together; the kernel hands the locks on. It assumes
nothing of the acceptor: a connection that is never admitted is given up by its
writer. Failures are bounded by a counter, which is the assumption that they
stop. `Admission` assumes weak fairness of each request thread's first and last
step: reads and writes of a connection have timeouts (src/main.rs:542), and
requests are bounded in size. It assumes nothing of the accepting thread or the
clients. `Console` and `Gateway` claim no liveness.

## 4. Proofs

| Theorem | Module | For every |
|---|---|---|
| `TypeCorrect`, `EveryChangeIsShown`, `TenantsStayInside`, `ViewRoundTrip`, `TenantReviewIsExact` | `FourEyesProofs` | set of names, trees, tools, callers, proposals, submissions, operator policies |
| `TypesCorrect`, `InForceIsWhole` | `PolicyApprovalProofs` | set of threads, callers, proposals, submissions, operator policies, torn lines and pieces, whether or not requests take turns |
| `TurnsKeepThePromise`, `TurnsUndoNothing` | `PolicyApprovalProofs` | the same; assuming `Serialized` |
| `OnlyMisreadsFork` | `CollectorProofs` | number of replicas, queue and segment size, number of failures |
| `TypeCorrect`, `RateIsBounded`, `LimitIsKept`, `BucketsAsPromised` | `AdmissionProofs` | rate, capacity, penalty, limit, number of clients and threads; assuming that a bucket refills before it counts as idle |
| `TypeCorrect` | `GatewayProofs` | number of threads, callers, credential and rights files, lease |
| `NextRequestSeesTheChange` | `GatewayProofs` | number of threads, callers, credential and rights files, lease; assuming `~OneStep` |
| `LeaseIsKept` | `GatewayProofs` | the same, also if writes share an mtime |
| `TypeCorrect`, `NothingIsCreated` | `MirrorProofs` | set of users, sources, trees, threads, torn grants, number of changes, repeated deliveries and failures |
| `CollectorTypesCorrect`, `CollectorImplementsLog`, `OnlyMisreadsForkHere`, `DropsAreReported`, `RecordsAreAccounted`, `DeliveredAreStored` | `CollectorProofs` | number of replicas and connections, queue and segment size, number of failures on both sides |
| `TypeCorrect`, `OnlyOwnTold`, `ListsHide`, `ReviewsComplete`, `ScopesHold`, `OnlyAllowedAsked`, `ValidPoliciesAreSafe`, `CallersComplete` | `ConsoleProofs` | set of names, trees, tools, callers, threads, proposals, submissions, operator policies, workspaces, routes and requests |

Assumptions are the named ones of each module; TLC evaluates them in the runs.

**Rights and proposals.** `ProposalsProofs` holds facts about the operators for
arbitrary sets of lines: what each kind of line reaches, what `Compose` leaves
alone, what a reviewer is shown, what `RestrictedTo` still grants.
Two are theorems of their own: `ComposeSameOutside` and `RestrictedAnswers`.

**FourEyes.** The core is an invariant of each stored proposal: its text is what
its author's submission composes to with its base, the submission was composable
inside its scope, and the text is valid. `ComposeSameOutside` shows from this
alone that putting the text in force where the base was changes nothing outside
the scope: a line that is replaced reaches only trees inside, before and after,
because roles are resolved against the union of both texts and the validity of
the result rules out references to roles that reach nothing. The other theorems
apply the facts of `ProposalsProofs`. The assumptions are `RightsAssumption` and
`FourEyesAssumption`: lines are well formed, callers are names.

**PolicyApproval.** That files hold known lines (`Inv`) follows for each place a
line can come from: texts, pieces of them, and torn lines (`OverlaidTyped`).
`WholeUnlessShared` is strengthened (`WInv`) by what an approval that opened
`rights.pending` alone can rely on (`WritesAlone`): until the rename nobody else
has a descriptor of it, it is empty until the write and the vetted text of that
approval after it; and if the file in force came to be this way, nobody has a
descriptor of it either (`NobodyWrites`). An approval that fails leaves the file
for others, who begin by truncating it. It needs no assumption on
who runs when. With `Serialized`, one request at a time is not idle (`Alone`),
and what it has found out still holds when it uses it (`AtStep`): its scope, its
proposal's file, the comparison, the content of `rights.pending`. From there each
file operation is shown to be a step of `FourEyes` or none: writing the new file
is `Propose`, the rename `Activate`, the rewrite `Record`, and a failure after the
rename but before the rewrite `LoseRecord`, for which a pending file must have no
approver (`Unapproved`). `ApprovalAssumption` keeps `None` and `NoProposal` apart
from policies and files.

**Audit.** `ForksAreMisreads` is not inductive. Strengthened, it says that whoever
is between signing and the end of the line holds the lock; that nobody else is in
the locked section; that a writer about to append has signed over the last
readable record of both segments or holds a record in `misread`; and that an
unended line is the last of a nonempty log. Appending then extends the chain, spoiling an unended last line
shortens it to one that is still linked, and rotation only moves lines between
the segments of `Retained` or drops a prefix.

**Collector.** Its steps are mapped to those of `Audit`: the writer's wait for an
answer is still the log's `Export`, a step of the collector is none. The only
invariant this needs is the shape of a writer's state (`Shape`), because the
mapping changes one field of it. The invariants of the log are proved for the
writers with the collector's extra point of waiting (`LogStep` allows both), so
that they hold of `Audit` and of `Collector` alike.

*Drops.* `DropsKept` adds to `DropsReported` that the sum it speaks of is finite:
a sum over all replicas is the cardinality of the set `Tally` of units counted,
and a step that changes one replica's counter moves as many units
(`CountedAtOne`, `OneReports`).

*Records.* That each record is in exactly one place is `HeldOnce`: the queues,
the writers' hands and the outcomes share no record, and a connection belongs to
the one writer that waits on it, or to none. With it the two halves of
`RecordsAccounted` are inductive (`AtLeast`, `Exactly`), and a failure takes away
one replica's queue and hand, which is at most `Capacity + 1`.

*Types.* That the shared count is that of the workers (`Counts`) needs to know
which connection the acceptor holds and who is between lock and answer (`Typed`).

*Store.* Each failure spoils at most one acknowledged line. This is not inductive:
what a failure will spoil may be answered only later. `Within` therefore counts
the events that are, *or will be*, answered for without a line of their own
(`Doomed`), and one more for a line that was left without its newline and will
spoil the next (`Spoilable`); `Lines` says whose the last line can be.

**Mirror.** `MirroredNotCreated` is strengthened to every place where grants can
be on their way into the file (`Sound`): the temporary file and each thread's
next text grant only what the operator or a membership once granted or a torn
line reads as, and so does what an overlay or a failed write makes of them
(`OverlaidGrants`, `AfterFailureGrants`); each
delivery, including repeated and late ones, and each task under way adds only
such a grant; and what a reconciliation has fetched so far are members who were
members when it was fetched. Since the shared temporary file may be anybody's,
the invariant speaks of contents and not of whose they are.

**Console.** One inductive invariant has three parts: what is true of a thread
by itself (`Sound`: its scope and its review's tree set come from a policy in its
`since`; its draft composes inside its scope; what it was told it could reach;
reported callers are exact), of a thread and the policy in force (`Informed`: a
thread at work has that policy in its `since`), and of a thread and the proposals
(`Recorded`). An action changes one thread, or the policy, and for each there is
one lemma that says what remains to be shown (`OneThread`, and the lemmas built on
it). The rest is about operators: `ListsWithout` (a list is that of a policy
without what the caller may not reach), `ReviewTells` (a review grants what
`may_tool` looks up), `CallersExact` (the join of verbs, parameters and
literalness is what a router does), and that a review meets an undeclared tree
only under a file the validation refuses. `ConsoleAssumption` keeps trees
apart from people, roles and tools, so that a name on a line shown to a tenant is
not taken for a tree that happens to be spelt alike (`TreesIn`), and
`CrossRepoAssumption` keeps the spelling of a request's parameter from that of
any literal segment.

**Gateway.** Types need that what a thread is about to stamp a cache with is no later
than the file's own mtime (`Typed`), and that a cached credential file is one of
those installed, or empty after a failed read (`CacheTyped`), so that whom it
names has a name. What a thread is going to use must have been in force after its
request was received, although the cache is filled by other threads. The
invariant: the cache's mtime is never later than the file's; a cache of the
file's mtime holds the file; and whenever a thread has read an mtime that the
cache also has, the cached contents are in the thread's `since`. The lease needs less: the mtime
a thread decides by is no earlier than the one its check compared.

**Admission.** The invariant has three parts: buckets are neither overdrawn nor
overfull; the count is the number of busy threads, and below the limit while the
accepting thread holds a connection; what a client was granted, together with
what its bucket holds now, is at most its burst and rate. `PurgeUnnoticed` is the
core: a bucket idle for `PurgeAge` is full, since `Capacity <= PurgeAge * Rate`,
and so is a new one. Hence a call of the limiter changes one level, by its cost
or not at all, and a tick changes all as `Refill` does, which is the refinement.

**Only model-checked:** the liveness properties (`EventuallyMirrored`, `Settled`,
`CapacityReturns`), which are beyond the prover, as is `ENABLED`. Every invariant,
action property and refinement of the passing runs is proved. No module declares
a `RECURSIVE` operator, and no proof needs induction over data defined
recursively.

## 5. What is not modelled

- HTTP reading, header and smuggling checks, identifier syntax: character-level
  parsing with no state across requests.
- The browser's sign-on flow, and JWT validation beyond key and expiry; TLS and
  hash algorithms: libraries. Signatures are taken to be what they promise.
- The exchange with a backend after `Forward`: it changes no state of this process.
- Health, readiness and metrics, which only read counters, and the filter of
  cross-repository evidence by package (src/main.rs:1840), which only drops
  entries of an answer.
- The console page (a client of the API), formatting, logging, deployment.

`PROJECT.json` lists each part with its reason.

## 6. Plan

Done, in this order: Rights, Proposals, FourEyes with proofs, PolicyApproval,
Mirror, Audit with its proof, Gateway with its proof, TokenBucket and Admission
with proofs; then Collector, the credential caches in Gateway, CrossRepo, Review
and Console, and the proofs of Gateway's lease, Mirror, Collector and Console.

Then the proofs of the type invariants of Gateway and Collector, of the accounts
of records, drops and stored events, and of PolicyApproval with its refinement.

Left:

1. The mirror and the approvals writing one file (a composition of `Mirror` and
   `PolicyApproval`; now `Overwrite` and `Replace` stand for the mirror there).
2. What `FourEyes` promises of tenants, stated of the file operations themselves
   and not only through the refinement.

Runs are kept few, one for each question.
