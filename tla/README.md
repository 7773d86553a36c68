# contextmesh in TLA+

contextmesh keeps the signed, content-addressed events of a *context* in a local transactional store, moves
branches by compare-and-swap, pulls histories from peers over authenticated HTTP, records the invocations of
external providers as events, and hands selected parts of a history on to other agents. This directory holds
a specification of the parts of it that decide something: TLA+ modules translated from the Rust source, TLC
models of them, and machine-checked proofs.

Paths below are relative to the repository root. Lines are those of the modelled commit; `PROJECT.json` maps
every definition to the lines it stands for.

* [1. The system](#1-the-system)
* [2. Modules](#2-modules)
* [3. What the runs show](#3-what-the-runs-show)
* [4. What is proved](#4-what-is-proved)
* [5. What the models assume and leave out](#5-what-the-models-assume-and-leave-out)
* [6. Where code and documents differ](#6-where-code-and-documents-differ)
* [7. Plan](#7-plan)

## 1. The system

### Components

**Event and wire contract** (`src/model.rs`, `src/error.rs`). An event is a signed body (context, author,
kind, parents, payload) whose identifier is a hash of that body. Pure: parsing, canonical JSON, sizes. What
the rest relies on: an identifier determines the body, and parents are signed before their children.

**Signing, hashing, key files** (`src/crypto.rs`). Pure functions and file reading.

**Transactional store** (`src/store.rs`, `src/store/dag.rs`, `src/store/bundle.rs`, `src/store/sync.rs`).
State: tables `contexts` (pinned genesis, pending or active), `authorized_authors`, `events`, `parent_edges`,
`local_refs`, `remote_refs`. Operations: provision or join a context, create one, authorise an author, admit
an event (with or without a compare-and-swap of a branch), append, merge, create a branch, set one remote ref,
replace a peer's refs, import a bundle. Each write is one IMMEDIATE transaction behind a process-wide gate. Hard: a
multi-row transaction that must be all or nothing; three operations that may activate a context; a
compare-and-swap that also succeeds when the branch is already there; commits whose outcome is unknown.
Correct when: stored histories are complete down to one pinned root, by listed authors only; nothing is
removed; refs resolve; peers never move local branches; no acknowledged write is lost.

**Full-store verification** (`src/store/verify.rs`). No state: a scan of all tables in one read snapshot.
Hard: ten overlapping checks, of which each sees only part of the tables. Correct when it reports nothing on
a store the transactions produced, and something whenever a row was changed by anything else.

**Ancestry projection** (`src/store/dag.rs`, `project_on`). State: an explicit stack with three marks per
event. Hard: shared ancestors, heads that are ancestors of each other, limits that count in-progress events.
Correct when it lists the whole history, once, parents first, or refuses exactly what exceeds a limit.

**Command provider** (`src/provider.rs`, `src/bin/demo_agent.rs`). State: a child process and two pipes. Hard:
who writes and reads when, bounded pipes, early exits, a timeout over all of it. Correct when a response is reported
only for a complete answer of a successful child, an error names the fault there was, and a well-behaved child is answered.

**Invocation recording** (`src/provider.rs`, `record_invocation`; `src/store/invocation.rs`). State: the
events it commits. Operations: record a request, call the provider, record the result, fall back to a detached
result; query pending requests and detached results. Hard: no transaction is held across the provider call;
crashes between the commits; queries that read three snapshots. Correct when the provider is only called for
committed requests, calls record one outcome for each, none is lost, and the queries find everything left behind.

**Sync server** (`src/http.rs`). State: connections, a pool of permits, a request counter, the shutdown flag.
Hard: heads that arrive in pieces, timers, abandoned handlers, shutdown. Correct when the head limit is exact,
permits are neither lost nor kept, and a shutdown ends. Its answers come from **Sync export**
(`src/store/sync.rs`): a plan of missing events, a cursor with a fingerprint of the plan, a page cut by binary search.

**Pull client** (`src/sync.rs`). State: the snapshot and cursor of each pull. Operations: fetch refs, read
what is known in two transactions, fetch and import pages, replace the peer's refs. Hard: both stores change
between any two requests; other pulls run; a pull dies anywhere. Correct when every page can be imported, refs
are only replaced once their history is complete, whole snapshots only, and repeating pulls catches up.

**Closure, delta, handoff, capability** (`src/closure.rs`, `src/delta.rs`, `src/handoff.rs`, `src/capability.rs`). Pure
functions over one projection, but composed along a protocol: close a selection, subtract what the recipient knows, list what was
left out, flag what it cannot act on, challenge and follow up. Correct when what is offered is unknown to the recipient it names,
what is listed as omitted is really left out, and what is offered can be used where it arrives.

**Source selection, claims, evaluation** (`src/selection.rs`, `src/compiler.rs`, `src/eval.rs`). Pure: which of the candidates a
task selects, within a budget that refuses and never truncates; whether a selection suffices for a simulated recipient, and
whether it is minimal; the evaluation's two cases per task. Hard: an error order of seven steps, and claims about *all* smaller selections made after
looking at a few of them.

**Repair loop and history file** (`src/repair.rs`). State: the loop's counters, an append-only JSON-lines file and
its handle. Hard: a driver that may answer anything, a recipient that moves on meanwhile, short writes and crashes.
Correct when only listed omissions are re-included, within bounds, and file, numbering and report agree.

**Artefacts** (`src/store/bundle.rs` `export_bundle`, `src/receipt.rs`, `src/summary.rs`, and the commands of `src/cli.rs` that make and
use them). State: files, which outlive the process that wrote them. Operations: export and import a bundle file, issue and verify a
receipt, summarise an event, a branch or the project and verify the summary. Hard: each is put together in several read snapshots while branches
move, and used elsewhere late, twice, out of order or never. Correct when a file imports wherever its premises hold, a peer's
refs never get ahead of the peer, and evidence keeps verifying and means what it says.

**Command line and demos** (`src/cli.rs`, `src/bin`). Every other command parses its arguments, calls one operation and prints.

### Interactions

```
 cli / tasks ──> record_invocation ──> CommandProvider ──pipes──> child process
      │               │ transactions
      ▼               ▼
    Store ◄── verify_full, project, recovery queries (read snapshots)
      ▲  transactions                       ▲ read snapshots
  PullClient ──HTTP──> sync server ──> export_sync_page ──> peer's Store
      
  selection ─> closure ─> delta ─> handoff ─> run_repair <─> task driver
                 (projections of the Store)        └──> history file

  Store ──> bundle files, receipts, summaries, handoffs ──> another Store
```

Everything shares the store, and only through transactions. Between two transactions nothing is held. That is
where the hard behaviour is: *read a head, sign, commit* (writers), *commit, call, commit* (invocations),
*head, projection, rows* (queries), *snapshot, known, pages, refs* (pulls), *heads, then events* (files, summaries). `PROJECT.json` lists these hazards line by line.

## 2. Modules

| Module | Models | Built from |
|---|---|---|
| `ContextStore` | every write transaction, as one action each | |
| `StoreVerification` | `verify_full` as operators over table values | `ContextStore` |
| `BranchWriters` | append, merge and branch creation by racing writers with lost acknowledgements | `ContextStore` |
| `AtomicWriters` | what appending and merging promise: each in one step (abstract) | `ContextStore` |
| `Invocation` | `record_invocation`, its crashes, and the recovery queries | `ContextStore` |
| `CommandProvider` | one exchange with a child process | |
| `Traversal` | the depth-first traversal as a step function on a record | |
| `ExportPage` | the binary search for a page | |
| `Export` | an export request: two projections, the plan, its pages | `Traversal`, `ExportPage` |
| `Projections` | what callers of a projection rely on | `ContextStore`, `Listing` |
| `PullSync` | pulls between a client store and a server store | `Projections`, `ContextStore` again |
| `Tracking` | what pulling promises (abstract) | |
| `SyncServer` | head guard, admission, permits, timers, shutdown | |
| `Handoff` | closure, delta, handoff and follow-up as operators | |
| `Selection` | source selection, the evaluation, sufficiency and minimality as operators | `Handoff` |
| `Repair` | the repair loop, its caller, and the history file | `Handoff` |
| `Exchange` | bundle files, receipts, summaries and handoffs between two stores | `Projections`, `ContextStore` again, `Selection` |
| `Listing` | what a list names, and what is left of it (`ListedIn`, `Kept`) | |
| `*Proofs` | theorems, see section 4 | the modules they speak of |
| `MC*` | the universes TLC checks | the module |

### State and actions against the code

`ContextStore`. Each table is a variable: `expected` and `active` are the columns of `contexts`, `authors`,
`events` (with the edges, which are a function of the event), `localRef`, `remoteRef`. A transaction that is
refused is rolled back, so refusals are stuttering steps, and an action's guard collects every condition on the
code's way to the commit. `Acceptable` is the admission check shared by `admit` and bundle import, which looks at each
event against what the store *and the earlier part of the bundle* hold. `RefCanMove` keeps the idempotent case: a
branch already at the new head counts as moved. Callers of the store reuse `AdmitAndMove`, `Admit` and `ExtendBranch`, so what is
proved of the store is about the very operators the other modules take.

`BranchWriters`. `ReadHead`, `Sign` and a commit are separate steps. `CommitIndeterminate` is
`StoreError::IndeterminateCommit` (or a crash of the writer): the transaction takes effect or not, and the writer may `Retry`
the same signed event or give up. Seen from outside, all of this is `AtomicWriters`: an event takes its place on the head its branch has in one step
(`ExtendBranch`), or not at all, and its writer is told only while it is the head. `Invocation`, `PullSync` and `Exchange` let their
other writers work that way.

`Invocation`. One action per step of the recording sequence; `Interrupted` ends a call anywhere, with or
without the effect of the commit in progress. The random invocation identifier is the guard `FreshId` (and `Guessed`: nobody else
can sign a request that only its call knows). Other writers append and merge in one step (`ExtendBranch`), which `WritersImplementAtomic` justifies; what they append
may be of every kind `Store::append` takes, so another request, or a result on top of a call's request while its provider is still running. A query is three actions, one per snapshot.

`PullSync`. The client's tables are the variables of `ContextStore`; the server's are a second instance of the
same module. An export request is answered atomically from one snapshot, as the code does; the answer is
computed from the request record alone (`EffectiveKnown`, `Plan`, `PaginationConflict`, `ExportResponse`). `ImportPage` and
`ReplaceRefs` *are* the store's `ImportBundle` and `ReplaceRemoteRefs`. The server appends, opens branches and imports the
client's events between requests.

`SyncServer`. A connection is a record whose shape follows its phase: reading a head, at the guard, reading a
body, in the store, replying. `Observe` is the byte-level guard with its three bytes of memory between reads. `Checks` keeps the order of the guard's
refusals. A handler that awaits holds a permit; it is dropped before the response is sent.

`CommandProvider`. Host and child are two processes joined by two pipes of bounded size; bytes are counted in units whose
first says what a line holds. The child is any program of a set: reads first or writes first, drains or not, any output,
any exit status.

`Repair`. The file is a sequence of pieces, three per line (first part of the JSON, rest, newline), so a write can stop
at each place that matters; the handle has a buffer that the next flush writes first. The driver is any
choice among the outcomes of an evaluation.

`Traversal` is written as a function of a record and used twice: `Export` runs it step by step, for the heads asked for and
then for the heads the client knows; `MCPullSync` and `MCExchange` tabulate its results for the constant `Projected` of `Projections`,
of which those models assume `ProjectedAssumption`. `ProjectionsAsAssumed` proves that of the traversal itself.

`Export`. The store stands still; `StepProjection` and `StepKnown` are one turn of the loop in `project_on`, for either set of heads, `PlanPages` the rest of the request's
preparation, `Probe` one turn of the binary search, `Respond` and `RefusePage` its ends, and `NextPage` the client's next request
with the cursor. The search is `ExportPage`, instantiated over variables of `Export`.

`Exchange`. The sender's tables are the variables of `ContextStore`, the recipient's a second instance. A process (`job`) holds what
it has read so far: `bundle export` reads the branches in one transaction and the events in another (`ReadBranches`, `WriteBundle`), a
project summary lists heads and walks each in snapshots of its own (`ReadHeads`, `Walk`, `FinishWalks`), and a handoff is `SelectFor`, `CloseOver` and
`HandOff`. `Selection` is instantiated over what the sender's store holds *now*, so each call reads for itself. Artefacts stay in their sets and
are used in any order; `GiveUp` ends a process anywhere. `ImportFile` *is* the store's `ImportBundle`.

## 3. What the runs show

Ten runs pass; the two others each exhibit one statement of the documents that the code does not keep (section 6).

| Run | Distinct states | Properties |
|---|---|---|
| `store` | 15,957 | `TypeOK` `HistoryRooted` `VerifiesClean` `DamageFound` |
| `writers` | 145,207 | `AckedStaysInHistory` `OneWinner` `NoOrphans` `WritersAtomic` |
| `invocation` | 2,127,701 | `RequestBeforeCall` `RecordedOnce` `OutcomeRetained` `ConflictStaysOff` `RecoveryComplete` |
| `provider` | 7,770 | `ResponseGenuine` `VerdictTrue` `HonestAnswered` |
| `export` | 2,354,558 | `ListsHistory` `LimitsExact` `AnswerExact` `PagesFollowOn` `Answered` |
| `server` | 352,568 | `HeadExact` `PermitsConserved` `PermitReturns` `Drains` |
| `pull_race` | 181,471 | `PagesImportable` `CompletePull` |
| `pull_often` | 132,900 | `MirrorsPeer` `MirrorForward` `Converges` |
| `exchange` | 120,691 | `FileImportable` `NeverAhead` `ReceiptsHold` `SummaryExact` `OfferUsable` |
| `repair` | 4,484,888 | `ReIncludedOmissions` `OfferedHonestly` `DeliveredFresh` `FileConsistent` `ReportBacked` |

For every property there is a faulty variant of a definition (the operators commented *Fault*), a slip the
code could plausibly make, under which TLC finds the property violated; `PROJECT.json` pairs them under `mutants`.

**store.** Two contexts, two authors, two interchangeable branch names, one peer and seven events: a genesis, a fork by two authors, its merge, a second
parentless event, a genesis of the other context and an event with a parent in the wrong context. Policies may pin a wrong
genesis; bundles come with missing parents, unlisted authors and foreign refs. Every case of the admission check and of the three
activations occurs. `HistoryRooted` relates every stored event to the root pinned at provisioning. In every reachable
state `verify_full` is asked about the tables as they are (`VerifiesClean`: no false alarm) and with one row of one table
dropped, added, moved to another key or changed in any one column (`DamageFound`: the store is still sound, or something is reported). The
values put in are all contexts, authors, kinds and events and, for the wire, one that cannot be read; an added event row is that of some event, at its
own address or another's, with its edges or without; an ordinal is at most the first not in use. The projection limit is
three so that the one legitimate finding occurs too.

**writers.** Two writers of different identities, two branches, a fork with an extension of either side, a merge and a merge with an ancestor. Two are enough
for every race on one compare-and-swap; retries and lost acknowledgements are unbounded. `WritersAtomic` is `AtomicWriters!AtomicSpec`, with what writers
were told mapped to what they were acknowledged.

**invocation.** Two interchangeable invokers, two branches, two requests on one head, a response and an error for the first (a call of the
second is refused, cut off, or answered with too much), a note another writer puts on top of a request and a merge that brings its detached response back. Other writers may append
requests and results of their own accord too: a response that another writer puts on a call's request makes the call's own result stale, and it is
retained beside the other one. So a request can have results from several writers, and `RecordedOnce` speaks of what calls record, returned or cut off by a crash. The row
limit of a query is 1 or 2, so that it is exceeded, met and not reached.

**provider.** Pipes of two units, requests of one, three and five units (within a pipe, more than a pipe, over the limit), and twelve
outputs combined with every way to read, drain and exit; one of them goes on behind a short answer, so that what was read with it may be over the limit or not.
`VerdictTrue` asks of every error that would be signed into the history whether it is what went wrong.

**export.** Every history of four events under one genesis, in every relation to the byte order of their addresses; every set of
heads asked for and of heads known; projection limits that bind by events or by bytes; page limits that bind by count, by bytes, by
neither, or leave the page to the response cap. Four events suffice for diamonds, for a shared ancestor met while visiting, for heads below heads, and
for a known history that cuts a plan in the middle. `Answered` says that projection, search and paging come to an end.

**server.** Two connections and one permit, so that they compete; heads that end before, at and after the limit, with false starts of the
blank line, split into reads of any length; bodies at, over and one under the limit; the request counter runs out. The
code's limits are larger, and nothing depends on their size: `Observe` remembers three bytes whatever the limit is.

**pull_race.** Two pulls, four events by two authors of whom the client lists one at first, pages of one event, one outside failure, the
server importing the client's events between pages. Pages of one event give the most places for something to happen in between, and three pages is the
depth of the graph.

**pull_often.** One pull repeated, two branches, both stores moving. `MirrorsPeer` is `Tracking!Spec` under a refinement
mapping: a pull maps to the snapshot it works on.

**exchange.** A genesis, two children and their merge, and the genesis of another context that receipts and selections may name by mistake; two
branches; files asked for with and without a head the recipient is said to know; two artefacts of any kind (`MaxMade`). Two are what
an order of use needs: an old file and a new one, a file and a receipt that names what it brings. The third adds only states. The merge is of a critical
kind and one child is not covered by the recipient's capabilities; limits and budget are met by some selections and exceeded by others.

**repair.** Three events in a line, the last one critical and the middle one beyond the recipient's capabilities, two sequences, two sets of bounds that end for different reasons, one short
write or crash at any piece, any driver. Handles may be opened and closed between sequences.

Bounds that exist only in the models: `MaxAborts` (pulls that die for outside reasons), `MaxRuns`, `MaxFaults`
(repair), `MaxMade` (artefacts), `IdLimit` (the 64-bit counter). Everything else finite follows from the finite set of events that can be signed.

Deadlock is checked where the system has no end (`store`, `writers`, `invocation`, `pull_race`, `pull_often`). The others stop when their
call is over or their bound is reached, and say `CHECK_DEADLOCK FALSE`.

### Fairness

* `Export`: weak fairness of the step. A call, once made, runs, and the client goes on while there is a cursor.
* `CommandProvider`: weak fairness of host and child; both processes are scheduled. The timeout is *not* assumed, so `HonestAnswered` shows that
  it is not needed, rather than that it helps.
* `SyncServer`: weak fairness of the header timer, the guard and the handler timer, for each connection: `tokio` timers fire, and the guard awaits
  nothing. Nothing is assumed of clients, of the store or of the connection being read.
* `PullSync`: weak fairness of each pull's steps: whoever runs the pull runs it again, and the server answers. Nothing is assumed of writers, which stop
  by themselves when no event is left to sign; `Converges` speaks of the time after that.

## 4. What is proved

All theorems hold for every value of the constants, under the named assumptions of the modules.

| Module | Theorems about |
|---|---|
| `ContextStoreProofs` | `ContextStore`, `StoreVerification` |
| `BranchWritersProofs` | `BranchWriters` |
| `InvocationProofs` | `Invocation`, `CommandProvider` |
| `ServerProofs` | `SyncServer`, `Export` with `Traversal` and `ExportPage` |
| `PullSyncProofs` | `PullSync` |
| `ExchangeProofs` | `Exchange` |
| `HandoffProofs` | `Handoff`, `Selection`, `Repair` |
| `ListingProofs` | lists, and the least number with a property |

**ContextStoreProofs.** From `BodyAssumption` (an address determines a typed body), `HashingAssumption` (hashing admits no cycle: every
non-empty set of events has a member without a parent in it), `NoneAssumption` and the types of policies and bundles:

    StoreInv == TypeOK /\ AncestryClosed /\ OneRoot /\ AuthorsVetted /\ RefsResolve

is inductive (`StoreSafety`, with `TypeCorrect` for its first part). `HistoryRooted` alone is not inductive: that an admitted event descends from the root
follows only if its parents are stored in the same context (`AncestryClosed`) and no stored event but the genesis lacks parents (`OneRoot`),
and that a bundle's refs keep resolving needs `RefsResolve`. Steps are proved once per kind of change: a policy row is added, a batch of accepted events is
stored, only refs move. `Rooted` then derives `HistoryRooted`: all ancestors of a stored event are stored in its context, one of
them has no parents (hashing), and `OneRoot` says it is the pinned genesis. `NothingRemoved` (`AppendOnly`) needs one more invariant, that a context
without a row has no authors. `PeersMoveNoBranch` is `LocalRefsSafe`.

*Full verification.* `ValidMeansSound` speaks of any six tables of the right types, however they came to be: a report without findings
means that the tables are sound, because each of the five things soundness asks is the business of one of the ten checks, or of two together. `NoDamageMissed` is its
instance for every reachable store with one row dropped, added or changed as in `DamageFound`: whatever is changed, the columns of the event rows keep their types (`ChangedRowsTyped`), and nothing else
is asked of the tables. The same argument serves for damage of more than one row. `NoFalseAlarm` goes the other way, from `StoreInv`: the tables the transactions
produce give no finding but the limit of a projection. It needs `PolicyHasAuthors`, that a context with a row has an author.

**BranchWritersProofs.** On top of `StoreInv`, a submission moves a branch only from a parent of the submitted
event, or finds it there; so every head is an ancestor of the next (`RefsForward`), acknowledged events are carried along, and since no event
is its own proper ancestor, a head expected once cannot be expected successfully again. Theorems: `NoLostUpdate`, `LinearHistory`,
`SingleWinner`, `LosersLeaveNothing`, `ForwardOnly`, for any number of writers, branches, retries and lost acknowledgements.
`WritersImplementAtomic` is the refinement of `AtomicWriters`: a submission that takes effect is an `ExtendBranch` on the head of that very moment, because the
compare-and-swap and the admission check leave no other outcome, and one that finds its event already in place is answered while that event is the head (`SubmitIsAtomic`).
So where the other models take an append or a merge as one step, they lose no behaviour of it.

**InvocationProofs.** A request belongs to one call (`FreshId`), and a branch only ever moves to a child of its head.

    InvocationInv == StoreInv /\ CallsSound /\ ReportsSound /\ QuerySound

`CallsSound` ties what a call holds to what is stored: once its request is committed it stays on the branch, and no other call holds it. `ReportsSound` holds `OutcomeRetained` and `RecordedOnce`,
and that no call still holds a request for which an outcome was recorded. `QuerySound` does the same for a query between its snapshots: what it has read was true then, and since events are never removed and branches only move
forward, what the last snapshot finds is at least that. Theorems: `InvocationSafe` (the invariant), `CalledOnRecord`, `OneOutcome`, `OutcomeKept`, `ConflictsNeedMerge`, `RecoveryFindsAll`,
for any number of invokers, branches and queries, interrupted anywhere.
*The provider.* `ProviderInv` says that what the host has collected is the beginning of what the child has written (`Piped`), and that the host waits for the exit only once that holds a
line, or is all there will be (`Waits`). What the host says of an outcome follows from what it had read by then. Theorems: `ProviderSafe`, `GenuineResponse`, `TrueVerdict`, for any program as child and any size of pipe.

**ServerProofs.** `ServerInv == Connections /\ Permitted`. What bounds a head is byte counting that has to be exact over any split into reads: the last three bytes and the next read together
contain every blank line that ends in that read, so `Observe` finds the first one (`ObserveExact`). `Connections` says that the watch is what the bytes seen so far make it, and that a
head goes on to the guard only with a blank line within the limit. Permits out are the running handlers (`Permitted`), finitely many, so that they can be counted without assuming that connections are. Theorems: `ServerSafe`,
`HeadsExact`, `PermitsKept`, for heads and reads of any length.
*Export.* `ExportInv == ProjectionInv /\ PlanInv /\ PagesInv`, from `ExportAssumption`, which says of the constants that `IdOrder` lists every event once (so there are finitely many),
that events have a size and that limits are numbers.
The traversal is the heart of it (`TraversalInv`). Each event being visited has one closing frame on the stack; every parent of it is listed or has a frame above that one; what is above
it belongs to its history, so meeting an event being visited would close a cycle, and there is none. The counters are the number and the bytes of what is being visited or listed, which is always
part of the history of the heads, so a limit is exceeded only if the whole history exceeds it, and when the stack is empty the events listed are that history. `PlanInv` says that the plan is what `Kept`
leaves of the requested projection, in its order, and that what was sent is the beginning of it; `PagesInv` that a page at work is cut from what is left, with the loop invariant of
the binary search (`SearchInv`: below `low` everything fits, above `high` nothing does, `best = low - 1`), which needs that bundles grow with their number of events (`BundlesGrow`), with what an answer says
of the finished loop. Theorems: `ExportSafe` (the invariant), `HistoriesListed`, `ExactLimits`, `ExactAnswers`, `PagesFollow`, for every history, all heads, and all limits.
The end of things is proved as far as it is no matter of scheduling. A traversal has at most `TurnsLeft` turns to go, its frames and a share of the number of events for every
event not yet met: meeting one uses up its share and puts no more frames on the stack than that (`TurnLowers`). Hence the loop of `project_on` run to its end, a recursive function of the turn,
has an end, and `ProjectionExact` says of its result what `HistoriesListed` and `ExactLimits` say of a finished traversal. `ProjectionsAsAssumed` turns that into `ProjectedAssumption`, which
`PullSync` and `Exchange` make of the constant `Projected`; its hypothesis is that the stored events together are within the limits. `ExportAdvances` puts the traversals, the searches and the pages of one
request in a lexicographic order (`Rank`): every step lowers it, and while there is no answer the guard of some action holds. `Answered` adds to that only that steps are taken. Two of the proofs' failures were
about the models: where guards of a `CASE` overlap the language does not say which is taken, so `EnterFrame` and `SelectSources` now say in which order the code asks.

**PullSyncProofs.** `PullTracks`: `PullSync` implements `Tracking`, for any number of concurrent pulls. The invariant (`TrackInv`) is small (the
shape of ref tables and pull records) and is needed because the mapping reads a pull's snapshot out of its record; each action then maps to `Take`, `Finish`,
`GiveUp`, `Publish`, `WorkLocally` or a stutter. `TransferInv` is what correctness of the transfer needs: both stores are sound, what a pull asks for stays on
the server and what it called known in the client, a plan is what the requested heads have and the known ones lack, parents first (`IsPlan`), and up to the cursor it has arrived. Then a page's
parents are on an earlier page or in the history of a head the client holds (`PagesFit`), and the last page completes what the refs name (`PullsComplete`). With a
single puller the peer's refs only move forward (`MirrorsForward`). Theorem `TransferSafe` is the invariant.

**ExchangeProofs.** On top of the lemmas about ancestry of `ContextStoreProofs`. The invariant (`ExchangeInv`) says that what either store holds is
closed under parents (`Stores`), that what the process at work has read so far was true at one instant (`Jobs`), and the same of every
file, receipt, summary and handoff, and of the peer's refs. It survives the sender's work because branches only move to descendants: refs read
earlier stay *behind* the branches (`Behind`), which is also why it survives files imported in any order. Theorems: `FilesNeverAhead`, `ReceiptsKeep`,
`SummariesExact`, `OffersUsable`, for any history, any number of branches, files and uses. `FilesImportable` adds `FilesInv`: a context has one root in either store, the recipient's context is
active exactly if it holds something, and a file is what a projection leaves after the history of the heads the recipient is said to hold. What is left keeps
its order, so every parent is earlier in the file or held by the recipient, whatever was imported before.

**HandoffProofs.** *Selection.* A closure over parent edges contains what it closes, is the least such set, and grows with it; so what a selection suffices
for, a larger one does. Theorems: `MinimalAmongSubsets` (`check_minimality` tries to leave out one source at a time; that this finds no
smaller sufficient part rules out every smaller part) and `EvaluationDecides` (a task of the evaluation passes exactly if both cases can be built and
its critical event has one of its terms, so the verdict measures the selector and nothing else).
*The repair loop.* The invariant (`RepairInv`) says that every handoff in play is honest about its own head (`Handoffs`), how the current one came from
the one offered first (`Descends`), and that a record being written carries the promises of the follow-up behind it (`Follows`): the loop adopts the
follow-up only after the record is appended, and by then nothing else says where it came from. Theorems: `ReInclusionsBounded`, `OffersHonest`,
`DeliveriesFresh`, for any history, bounds, driver and sequence of failures. The mutants of these three properties break the proof where they break the run.
*The history file.* A file is read by the pieces that close a line, and reading distributes over appending. `HistoryInv` says that the file followed by
the handle's buffer reads as records of which each begins a sequence or continues the one before it, and that the last ones are the rounds of the sequence at work; where lines
fit the buffer (`LinesFit`), also that records are numbered without a gap and that the handle counts them. Theorems: `HistorySafe`, `ReportsBacked` and `SequencesApart` for lines of any size,
and `FilesConsistent` where lines fit: a longer one that fails is lost while its number is used up (section 6), so that the numbering has gaps, and numbers are given twice once the file is opened again.

**ListingProofs.** `Kept(list, set)` is what is left of a list when only members of the set are kept, defined by recursion over the list's set of positions so that
it can be reasoned about: a set built up one element at a time can be followed by well-foundedness (`SetInduction`), without the library's
theorems about induction. What is kept is in the set and in the list, in the list's order, once (`KeptRest`); keeping distributes over concatenation
(`KeptConcat`); and a non-empty set of naturals has a least member (`LeastNumber`).

`NothingRemoved` and `PeersMoveNoBranch` speak of action properties that follow from the shape of the transactions once `StoreInv` is known; they are
proved and not run.

Only model-checked is what is out of the prover's reach, liveness under fairness: `Answered`, `HonestAnswered`, `PermitReturns`, `Drains` and `Converges`. The two runs that find a
violation have no theorem by their nature.

## 5. What the models assume and leave out

* Signatures and hashes work: an event has the author and the body its address stands for. Canonical JSON, strict parsing and size limits of single events are
  conversions, covered by the repository's golden and adversarial tests.
* The assumptions on constants beside those of hashing: every context identifier is the hash of some genesis, and a genesis has no parents (`ExchangeAssumption`); `None`, which stands for an absent
  value, is nothing else (`NoneAssumption`, `PullAssumption`); events have a size (`ExportAssumption`).
* Transactions are atomic and serialised (the embedded database, the gate in `Store::write`). Failure of a commit is modelled as effect or no effect.
* In `PullSync` the server runs this code and the peer's namespace is written by pulls only. The plan fingerprint is represented by the one hashed field
  that can change between requests, the effective known set.
* In `PullSync` pages are bounded by events; how bytes bound them is `Export`, where in turn the store does not change.
* In `SyncServer` what the store answers is any status its error mapping can produce; each connection carries one request, as every response closes it.
* In `StoreVerification` names and identifiers are well formed, findings are not cut (the report's limit is at least one, so it never hides that there are any),
  and the damage of `DamageFound` is to one row: dropped, added, or with its key or one column changed to any well-typed value, or one event dropped or added together with its edges. Two columns of one
  row changed at once, added event rows whose columns disagree with their wire, and damage to several rows are beyond the run; `ValidMeansSound` covers them.
* `CommandProvider` takes `kill_on_drop` at its word: every early return of the exchange drops the child's handle, and with it the child. That no child survives is therefore assumed and not shown.
* In `PullSync` and `Exchange` branches move by append and merge. `Store::admit` is public, and its compare-and-swap moves a branch to any admissible event whose parents need not contain the old head (the
  evaluation does so on branches of its own, `src/eval.rs:352-365`); `MirrorForward` and `NeverAhead` rest on a peer that does not. `Drains` assumes that the HTTP library takes up a head
  whose watch is complete, also one that begins with an empty line.
* In `Handoff` digests and signatures over a handoff are left out; a source reference stands for the event it names. Of the notes on a handoff only those are
  kept that a capability is missing; the reasons of omissions and the recipient's check of both (`verify_handoff`) are left out.
* In `Selection` a task is what selection can tell of it: blank, without terms, or the set of events that share one. Ranking orders the references and decides nothing.
* In `Exchange` signatures and content addresses hold, so an artefact that verifies is the one that was made; the sender's interior of append and merge is `BranchWriters`.
  `FileImportable` has premises, which are what the documents ask of the caller: the recipient holds the heads it is said to know, and every advertised branch is asked for or held there.
* In `Repair` one process holds the history at a time, and in the `repair` run a line fits the writer's buffer (`LineFits = {TRUE}`); `ReportsBacked` and `SequencesApart` are proved without that.
* In `PullSync` and `Exchange` projections stay within their limits (`ProjectedAssumption`, which `ProjectionsAsAssumed` derives from that); refusals for limits are `Export`'s.

Not modelled: key files, hashing and signing (`src/crypto.rs`, pure functions and file reading); the sync wire grammar and HTTP client configuration (parsing); canonical JSON
and sizes in `src/model.rs`; argument parsing, output and process start-up of the command line and the demos; manifest parsing and the wording of claims and refusals.

## 6. Where code and documents differ

Shown by a run:

* `pending_off_branch`: `pending_invocations` filters rows by kind and linkage and ignores `on_branch` (`src/store/invocation.rs:46`), so it also returns unanswered requests of other
  branches; its comment (`:35`) and spec-oa-05 say "on the branch ancestry".
* `repair_unreadable`: after a write that stops just before the newline the file is still readable; a new handle then appends on the same line, and the history can no longer
  be read (`src/repair.rs`, `append`), although numbering is documented to continue across runs.

Seen while modelling, and stated by no run:

* A page whose bundle fits the request but whose response exceeds the server's cap is refused (`src/http.rs:658`), where spec-oa-04 asks for the longest prefix that fits both. `AnswerExact` states what holds: it happens only if the request asked for more than the cap leaves.
* `append` takes request and result kinds from any writer (`src/store/dag.rs:144`, `src/cli.rs:644-651`), so a request may get results from others than its call, and more than one; `RecordedOnce` states what holds.
* `detached_results` reads the head first and the rows last (`src/store/invocation.rs:73`), so a result committed to the branch in between is reported as detached.
* Critical candidates are added to a closed selection without their parents and after the limits were applied (`src/closure.rs:384-397`), whereas spec-option-b asks that no parent dangles. `OfferUsable` states what holds: only what such an event stands on may be missing.
* `follow_up` drops an event offered earlier that the new selection lacks without listing it as an omission (`src/handoff.rs:472`). It keeps the old flags
  but flags nothing it re-includes, so a re-included event the recipient has no capability for makes `verify_handoff` refuse the handoff.
* `verify_handoff` looks omitted events up in the store it is run on (`src/capability.rs:255`); a recipient that lacks them, which is what an omission means, gets `Drifted`.
* `check_minimality` calls a selection minimal that does not suffice to begin with, and closes remainders without the critical policy (`src/selection.rs:678-716`).
* The simulated recipient counts a critical event that is already in the recipient's history as missing and hidden (`src/eval.rs:428`), since it only looks at what is offered.
* A summary's verification looks its events up and does not compare them with the history of its heads (`src/summary.rs:357`); `SummaryExact` holds because no other summary is built.
* `bundle export` advertises every branch of the context whatever heads were asked for (`src/cli.rs:781`), so a file for one head can be refused as a whole by a recipient that lacks another.
* Bundle files imported out of order set the peer's refs back; `NeverAhead` states that they still name something the peer's branch had.
* A client that knows more than 256 heads (`src/sync.rs:416`), or a server with more branches, is refused for good; the limit is documented.
* `run_repair` passes the same recipient state in every round (`src/repair.rs:399-402`) whereas its module comment says a stale handoff is never re-negotiated. `DeliveredFresh` holds because the
  delta is only released against the head at that moment.
* The first handoff of a sequence is not compared with `max_delta_bytes` (`src/repair.rs:403`).
* The sequence number is used up before the line is written (`src/repair.rs:285`), so a line larger than the buffer that fails leaves a gap in the numbering, and a number is given twice once the file is opened again; `SequencesApart` states what holds.
* Two processes may open one history and number alike (`src/repair.rs:253`).
* A response its client does not read has no timer and holds a graceful shutdown (`Drains` says that nothing else does).
* A provider that writes more than a pipe holds before it reads its request blocks both sides until the timeout.
* Two concurrent pulls of one peer may set its refs back to the older snapshot; `MirrorForward` is therefore checked for one.

## 7. Plan

Order of work: the store first, since everything is built from its operators; then what runs between its transactions; then the rest.

Done: `ContextStore`, `BranchWriters` and their proofs; `Invocation`; `Traversal`, `ExportPage` and `Export`; `Tracking`, `Projections`, `PullSync` and the refinement
proof; `SyncServer`; `CommandProvider`; `Handoff`, `Selection`, `Repair`; `Exchange`; `StoreVerification`; proofs of the safety properties of all of them; `AtomicWriters` and its refinement; the end of traversals and exports.

Next, extending the model:

1. The cycle search of `verify_full` as an algorithm, against `HasCycle`.
2. A repair run with lines that do not fit the buffer.
3. `verify_handoff` and omission reasons, with the recipient of `Exchange` running it.

Next, proofs: an abstract export (a history, and what of it was sent) that `Export` implements.
