# A TLA+ model of the shared memory hub

The hub is an MCP server that gives several AI clients one shared, durable memory
of a project. Each client starts a server process of its own; the processes share
nothing but a PostgreSQL database at READ COMMITTED. All coordination is therefore
in SQL: compare-and-set updates, unique keys and row locks. This directory models
that coordination, checks it with TLC on small instances and proves the main
results with TLAPS for every instance: all invariants, both refinements and two
action properties.

Source paths are relative to the repository root; the code is in `src/memhub/`.

## Inventory

| Component | State | Operations | Talks to | What is hard | What makes it correct |
|---|---|---|---|---|---|
| Write path (`services/memories.py`, `persistence/repositories/`, `persistence/sql/`) | `memories`, `memory_revisions`, `memory_dedup_keys`, `memory_attestations` | `remember`, `revise`, `forget` | idempotency, outbox, audit, all in one transaction | statements of several processes interleave; a read is stale by the time of the write; overlapping supersessions | writes behave as if atomic; one current revision, no gap; a retired memory keeps no dedup key, and no race makes one fact two; lineage acyclic; no deadlock |
| Idempotency keys (`services/idempotency.py`) | `idempotency_keys` | `claim`, `complete`, `purge_expired` | called inside `remember` and `revise` | retries racing the first attempt, rollbacks and the sweep | a key stands for at most one write, and a retry gets its answer |
| Outbox (`embeddings/worker.py`) | `embedding_jobs`, `memory_embeddings` | enqueue, claim batch, store, defer, `DEAD` | fed by the write path, polled by every server | several workers, crash in the middle of a batch, a poisoned batch | every revision has a job; every job ends DONE or DEAD |
| Operator (`cli/admin.py`) | all tables | `purge`, `gc`, `status` | bypasses the services | deletes in six tables against running tools | the tables it clears stay clear; no write is acknowledged for a memory it takes away |
| Projects (`services/projects.py`) | `projects`, `project_aliases` | `use_project` | first call of every client | two clients creating the same project or alias | one project per slug and alias; no answer against what the hints showed |
| Retrieval (`services/retrieval.py`, `retrieval/`) | none | `search`, `hybrid_search` | reads the write path's tables | a snapshot per statement; a leg that times out | what is returned was in force during the call; a timeout degrades |
| Context (`services/context.py`, `context/`) | none | `build_context`, `select` | retrieval | budget, quotas and ties at the boundary | budget never exceeded and not wasted; shares kept; every candidate accounted for |
| History (`services/memories.py`, `truth.py`) | none | `history` | reads revisions and lineage | six statements on six snapshots | the parts fit together |
| MCP tools and error mapping (`mcp/`) | none | eight tools and resources | calls the services | a connection lost during COMMIT | unknown outcomes are never called safe to retry |
| Audit, schema check, configuration, embedding models, observability, evaluation | logs, counters | - | - | sequential or numeric | not modelled, see below |

`PROJECT.json` lists the same components with their status, and every hazard at its
line with the properties that are there to catch it.

## Modules

| Module | What it is |
|---|---|
| `MemoryTables` | the tables of the write path and what each SQL write does to them |
| `MemoryLedger` | abstract specification: `Assert`, `Revise`, `Forget` as atomic, guarded writes |
| `MemoryStore` | the write path with idempotency keys, one action per SQL statement that others can observe or block; implements `MemoryLedger` |
| `MCMemoryStore` | instances of `MemoryStore` for TLC, one `.cfg` per run |
| `MemoryStoreProofs`, `MemoryHistoryProofs` | the TLAPS proofs about `MemoryStore` |
| `MemoryReaders` | `search`, `hybrid_search` and `history` statement by statement, composed with `MemoryLedger` as the writers and `RankFusion` |
| `JobQueue` | abstract specification of the outbox: waiting, indexed, dead, swept |
| `EmbeddingOutbox` | the workers of several servers, batches, failures, backoff, crash and restart; implements `JobQueue` (`INSTANCE ... WITH`) |
| `PurgeMemory` | `memhub-admin purge` against the tools and a worker, with row locks, foreign keys and cascades |
| `ProjectResolution`, `MCProjectResolution` | `use_project` against itself |
| `ToolFailures` | a writing tool seen from a client: pool, transaction, driver errors, `mcp/mapping.py`, retries |
| `RankFusion` | `reciprocal_rank_fusion` with exact fractions |
| `ContextBuilder`, `MCContextBuilder` | `select` and `_fill` of the context builder over fused rankings |
| `EmbeddingOutboxProofs`, `ToolFailuresProofs`, `ProjectResolutionProofs`, `PurgeMemoryProofs`, `MemoryReadersProofs`, `ContextBuilderProofs` | the TLAPS proofs about the module of that name |

### How state and actions correspond to the code: the write path

`mem`, `rev`, `current` and `dedup` hold the *committed* rows of one project (every
statement of the hub filters on `project_id`, so one project is a complete
instance). `tx[c]` is the call of client `c` and what its transaction has pending:
the row it wrote, the rows it locked, the targets it retired, the key it inserted.
A commit applies all of it in one step; a rollback or a lost connection drops it.

READ COMMITTED is modelled by what it guarantees. A statement reads the committed
rows of its own moment. An `UPDATE` of a row, or an `INSERT` of a unique key, that
another transaction has pending is not enabled until that transaction ends, and is
then evaluated on the newest committed row. Statements that touch only rows the
transaction has already locked or inserted (demoting the old revision, releasing a
dedup key, the attestation of a new memory) are part of the step that locked them:
nobody can come between. `UPDATE ... WHERE` that matches nothing keeps the row lock
if it had to wait for the row and takes none otherwise; the model allows both.
`now()` is the start of the transaction, so expiry is judged by `tx[c].past`, the
memories already expired when the call began.

`remember` is `BeginRemember`, `ClaimKey`, `WaitKey`, `Replay`, `InsertMemory`
(savepoint, insert, dedup key), `ReadHolder` and `Deduplicate` or `Supersede` once
per target, `Finish` (`idempotency.complete`) and a commit. `revise` is
`BeginRevise`, the key statements, `GetMemory`, `CompareAndSet`, `Reread` on
conflict, `Finish` and a commit. `forget` is `BeginForget`, `CheckExists`,
`ForgetMemory` and a commit. Early returns are kept: the deduplicated and the
conflict return reach their commit without `Finish`, because the code returns there
without `complete()`.

Abstractions. A content stands for all texts with one normalised hash. Tags,
importance, type and source take part in no decision of the write path (in the
fingerprint they vary with the content). Memory ids are numbers because the lock
order compares ids. Audit rows are written with the write they describe and read by
nobody who decides anything. Clients have different names; two processes with one
name contend for an attestation row after their last other wait, which can delay a
call and cannot close a cycle. `madeBy` is a history variable, used by properties
only.

### The other modules

`MemoryReaders`. A reader's call is a transaction of several statements, each on a
snapshot of its own; between any two of them a ledger write may commit, the worker
may store a vector (`Index`), or an expiry may pass (`Expire`). `search` is
`AllTerms`, `Count`, and once more `AnyTerm`, `Count` when nothing matched.
`hybrid_search` is `LexicalLeg`, one of `SemanticLeg`, `EmbedderDown`,
`SemanticTimeout`, `SemanticError`, then `FetchMissing` per missing winner and
`Coverage`. `history` is `ReadView`, `ReadRevisions`, `ReadSupersededBy`,
`ReadSupersedes`, `ReadRest`. Which contents a query matches is given by the
constants `Strict`, `Loose` and `Near`; a score is any order. `seen` is a history
variable: what was current at some moment of the call. That the ledger can stand in
for the writers is what `ImplementsLedger` proves.

`EmbeddingOutbox`. `job` and `vectors` are committed rows, `worker[s]` is the drain
loop of a server and its open batch. `Claim` is `FOR UPDATE SKIP LOCKED`; `Embed` or
`EmbedFails` follow, then `CommitStored` or `CommitDeferred`. `Raise` is any other
exception (rolled back, swallowed by `_drain_forever`, not counted as an attempt),
`Stop` the end of the process at any point. `BackoffOver` is the clock. A job is identified
with its revision; all workers run one model, since the claim filters on it.

`PurgeMemory`. The committed rows about one memory are a set; a transaction is its
locks and its inserted and deleted rows. Clients in `Keyed` send a
`client_request_id`; the key row of such a write is one of the rows, since it holds
a hash made from the content and the memory's id, and `SweepKey` is its expiry.
`purge` has no statement for it. A statement of `purge` is three steps: take
a snapshot, get the row locks (rows that have gone are passed over), run the
cascades on a fresh snapshot. Redacting an audit row is removing its readable
detail. A deadlock victim, a timeout and a lost connection are `Abort`, allowed
anywhere.

`ProjectResolution`. One action per statement of `use_project`: the lookups in the
code's order, the decision, `INSERT` of the project, lookup and `INSERT` of each
alias. An `INSERT` waits for a pending one of the same value and fails after a
committed one. `seen` is a history variable of a call: the owner each of its aliases
had when it was looked up.

`ToolFailures`. A call takes a connection, claims its key if it has one, writes and
commits; it can time out on the pool, fail in a statement, or lose the connection in
`COMMIT` before or after it took effect. `Classify` is
`classify_infrastructure_error`. The client does what the messages say: resend after
a retryable code, resend after an unknown outcome or silence only with a key. It may
stop waiting and resend while the first call still runs. Which exception the driver
raises in which situation is an assumption about asyncpg and SQLAlchemy, in
particular that a bare `ConnectionError` is only raised while connecting.

`ContextBuilder`. `Init` chooses the rankings and every memory's type, tokens and
words; a step is one round of `_fill`'s loop or the end of a pass. `int()` of the
code's float products equals the integer quotients of the model for every budget
from 100 to 32000, and MMR values are compared as exact fractions.

## Runs

| Run | Module and instance | Shows |
|---|---|---|
| `ledger` | `MCMemoryStore`: 2 clients, 2 memories, 2 contents, 2 revisions, one memory that expires, all operations | `LedgerSpec`, `NoStaleWrite`, `RevisionsSound`, `DedupUntilRevised`, `OutboxComplete`, `HistoryOnlyGrows` |
| `supersession` | 4 memories, 4 contents, 2 targets per call | `LineageSound`, `NoWaitCycle` |
| `keys` | 3 memories, 2 contents, one key, plain and padded, swept at any time, remember with supersession, `FairSpec` | `TypeOK`, `KeyNamesItsMemory`, `EveryCallReturns` |
| `outbox` | `EmbeddingOutbox`: 3 jobs (one that can never be embedded), 2 servers, batches of 2, 3 attempts, 2 batches per drain, 2 faults, `FairSpec` | `TypeOK`, `BatchesExclusive`, `VectorIffDone`, `GivenUpAtLimit`, `QueueSpec`, `EveryJobSettles` |
| `projects` | `MCProjectResolution`: 2 clients, 2 projects, 2 slugs, a remote and a path | `TypeOK`, `OneProjectPerSlug`, `LookupsHonoured`, `NoWaitCycle`, `NeverRepointed` |
| `purge` | `PurgeMemory`: 2 clients, one of them with keys, a worker, the operator, 2 revisions | `TypeOK`, `ClearedTablesStayClear`, `PurgeAlone` |
| `search` | `MemoryReaders`: 2 memories, 3 contents, 2 revisions, all four reads | `TypeOK`, `OnlyInForce`, `HistoryFitsMemory` |
| `brief` | `MCContextBuilder`: 3 memories, 10 profiles, every pair of rankings, budget 100 | `TypeOK`, `WithinBudget`, `NoRepetition`, `DropsAddUp`, `RoomUsed`, `ShareGuaranteed`, `AgreementRewarded` |
| `failures` | `ToolFailures`: a client with and one without a key, 2 calls each, a pool of 2, 4 faults, `FairSpec` | `TypeOK`, `WrittenOnce`, `AnswersTrue`, `KeyedSettles` |

Bounds. Write path: two clients for every race over one row or key, two contents for
a dedup key to be released and claimed by another, two revisions for a writer to be
behind, four memories for two calls to supersede the same pair while both insert,
one key for every collision of retries, and with it a third memory, so that one
client can go on taking and losing the key while another goes round the claim loop.
The loop ends after two rounds there instead of the code's three, and only `remember`
carries the key: keyed revisions are left to the theorems `TypeCorrect`,
`KeyMeansOneMemory` and `NoDeadlock`.
`HasRoom` keeps an id free for every remember in progress, `MaxRev` bounds
revisions, `MaxTargets` the supersedes list. Outbox: three jobs and batches of two,
so that a poisoned job takes a good one with it and a job is left over; two faults,
so that both servers can be cut off. Purge: a second client so that one waits while
another has committed; a second revision so that one can be appended after its table
was cleared; one keyed client and one without, so that erasures with and without a
key left behind occur. Readers: the three contents match both legs, the widened query only,
and the semantic leg only; two memories are enough for one to replace the other in
the middle of a call. Failures: two calls per request are an attempt and its resend
in flight together, and two connections let the pool run out. Brief: the profiles lie
on and one token beyond the shares, two are large enough to leave no room for each
other, one is too large alone, and an overlap of 3 words in 5 is exactly the
threshold.

The runs that refute a comment need less: `twin_facts` two memories and two contents,
so that one can be revised to what the other says.

Symmetry is used for clients, contents, projects and slugs in safety runs, never for
memory ids and never with liveness. Deadlock is checked except in `supersession` and
`keys` (remember uses up the ids), `purge` (the memory is gone) and `failures`
(the requests are settled). In `brief` it shows that `_fill` never hangs: whenever a
candidate is affordable, one of them is the best.

Fairness. `MemoryStore`: strong fairness of `Serve(c)`, everything a server does by
itself; a server never abandons a call, and PostgreSQL queues the waiters of a lock,
so a waiter whose row becomes free again and again does get it. `EmbeddingOutbox`:
weak fairness of each worker's loop (which runs as long as its server does, and a
client that uses the hub starts it again) and of the clock passing a backoff; faults
are finite in number, embedding failures are not. `ToolFailures`: weak fairness of
the event loop serving each call and of a ready client sending; faults are finite.

Three runs show where the code disagrees with its own comments or docs; each is a
finding in `PROJECT.json` with the quoted line.

| Run | Violated | In short |
|---|---|---|
| `stuck_key` | `RetryNeverInconsistent` | deduplicated and conflicting calls commit their key without a response |
| `aborted_search` | `NoStatementAfterAbort` | after a timeout of the semantic leg the transaction is aborted, and `semantic_coverage` fails the search that was meant to degrade |
| `twin_facts` | `ActiveContentsDiffer` | `revise` claims no dedup key for the new content, so two active memories come to say the same, against `docs/architecture.md:1175` |

What does hold of deduplication is `DedupUntilRevised`: a retired memory keeps no key,
and two active memories say the same only if one of them has been revised.

### Observed while modelling, without a run

The models follow the code in these places; a reader of the docs may expect
otherwise.

- A memory keeps the dedup key of its first content until it is retired: one that has
  expired, or has been revised to something else, still blocks that content
  (`services/memories.py:249`).
- A deduplicated `remember` returns before it looks at its `supersedes` list
  (`services/memories.py:171`, against 288), and the fingerprint leaves `supersedes`
  out (`services/memories.py:108`, against `persistence/models.py:298`).
- `complete` looks a key up unstripped, so a blank-padded key fails after its work is
  done (`services/idempotency.py:185`).
- An alias that was nobody's when a call looked it up, and that another project has
  taken by the time `_ensure_aliases` looks again, is passed over: the call answers its
  own project, and the alias leads to the other. The comment at `services/projects.py:186`
  says that an alias owned by a different project raises. What does hold is
  `LookupsHonoured` (the answer fits what the call was shown) and `NeverRepointed`.
- `purge` has no statement for `idempotency_keys`. Until it expires, the key row of a
  keyed `remember` or `revise` keeps `request_fingerprint`, a hash made from the content
  (`services/memories.py:108` and 432), and a response with the memory's id, although
  `cli/admin.py:39` says that every table holding a derivative must be cleared.
  `ClearedTablesStayClear` is about the tables `purge` does clear, and names what it
  spares.
- Two calls that add the same alias to resolved projects end in an uncaught
  `IntegrityError` for one of them.
- `TruthRepository.lineage` (`persistence/repositories/truth.py:226`) has no caller.
- Type and tag filters narrow only the lexical leg of a hybrid search
  (`services/retrieval.py:79`).
- Because statements have separate snapshots, a hybrid search can return a memory
  beside the one that replaced it, and a history can flag two revisions as current or
  show an ACTIVE memory with a successor. `OnlyInForce` and `HistoryFitsMemory` state
  what does hold.
- `SearchOut` drops `semantic_coverage`, which `truth.py:310` says every search
  response reports.
- `purge` takes its locks in the reverse of the tools' order
  (`docs/architecture.md:689`) and relies on the deadlock detector. The audit row of
  a refused `forget`, with the reason given, may be committed after the scrub.
- The headings and footer of a brief are not counted in its budget.
- That agreement of both legs beats a single leg (`retrieval/fusion.py`) holds for
  searches with a limit up to 20, whose legs return 3 * limit entries at most. From
  rank 62 in both legs on, 2 / (60 + rank) no longer exceeds 1 / 61; `build_context`
  asks for 60 candidates, so 180 per leg, and can meet that case. `AgreementRewarded`
  and `AgreementOutranks` carry the bound.

## Proofs

Every theorem is about any sets of clients, servers, memories, contents, keys and
projects and any bounds. It uses the assumptions on the constants that the modules
name (`...Assumption`) and no others; TLC evaluates them in every run. Two of them
carry facts about the code: `LastIdAssumption` (memory ids are 128-bit numbers, so
there is a greatest one) and `ProfilesAssumption` (`estimate` charges every memory
for its frame).

| Module | Theorem | Statement |
|---|---|---|
| `MemoryStoreProofs` | `Invariance` | `Spec => []IInv` |
| | `TypeCorrect` | `Spec => []TypeOK` |
| | `DecisionsHold` | `Spec => []NoStaleWrite` |
| | `OneCurrentRevision` | `Spec => []RevisionsSound` |
| | `DedupHolds` | `Spec => []DedupUntilRevised` |
| | `ImplementsLedger` | `Spec => LedgerSpec` |
| `MemoryHistoryProofs` | `NothingTakenBack` | `Spec => HistoryOnlyGrows` (action property) |
| | `LineageEnds` | `Spec => []LineageSound` |
| | `OutboxHoldsEveryRevision` | `Spec => []OutboxComplete` |
| | `KeyMeansOneMemory` | `Spec => []KeyNamesItsMemory` |
| | `NoDeadlock` | `Spec => []NoWaitCycle` |
| `EmbeddingOutboxProofs` | `TypeCorrect` | `Spec => []TypeOK` |
| | `NoJobTwice` | `Spec => []BatchesExclusive` |
| | `VectorsMatchJobs` | `Spec => []VectorIffDone` |
| | `GivenUpExactly` | `Spec => []GivenUpAtLimit` |
| | `ImplementsQueue` | `Spec => QueueSpec` |
| `ToolFailuresProofs` | `TypeCorrect` | `Spec => []TypeOK` |
| | `OneMemoryPerRequest` | `Spec => []WrittenOnce` |
| | `AnswersAreTrue` | `Spec => []AnswersTrue` |
| `ProjectResolutionProofs` | `TypeCorrect` | `Spec => []TypeOK` |
| | `SlugNamesOne` | `Spec => []OneProjectPerSlug` |
| | `AnswerFitsLookups` | `Spec => []LookupsHonoured` |
| | `WaitsAreAcyclic` | `Spec => []NoWaitCycle` |
| | `ResolutionIsStable` | `Spec => NeverRepointed` (action property) |
| `PurgeMemoryProofs` | `TypeCorrect` | `Spec => []TypeOK` |
| | `ClearedForGood` | `Spec => []ClearedTablesStayClear` |
| | `PurgeEndsAlone` | `Spec => []PurgeAlone` |
| `MemoryReadersProofs` | `AnswersWereInForce` | `Spec => []OnlyInForce` |
| | `HistoryIsCoherent` | `Spec => []HistoryFitsMemory` |
| | `TypeCorrect` | `Spec => []TypeOK` |
| `ContextBuilderProofs` | `TypeCorrect` | `Spec => []TypeOK` |
| | `BudgetKept` | `Spec => []WithinBudget` |
| | `NothingSaidTwice` | `Spec => []NoRepetition` |
| | `NoRoomWasted` | `Spec => []RoomUsed` |
| | `SharesAreKept` | `Spec => []ShareGuaranteed` |
| | `EveryCandidateAccounted` | `Spec => []DropsAddUp` |
| | `AgreementOutranks` | two ranks up to 60 come before any single one |
| | `AgreementFirst` | `Spec => []AgreementRewarded` |

### The arguments

Each module has an inductive invariant `IInv`, one lemma per action (or group of
actions) that it survives, and lemmas that say what a step of one actor leaves alone.

*Write path.* `NoStaleWrite` is what makes the commits correct, and it is not
inductive: that a call's decision survives the commit of another call needs to know
that the two hold different rows and keys. `IInv` adds `CallShape` (what a call has
pending at each statement, in particular that every row it decided on is locked) and
`Exclusive` (no row is locked twice and no id or dedup key is claimed twice). Steps
that leave the tables alone go through one lemma, `BecomeIInv`: a call may become
`t` if `t` is well shaped, decided on rows as they are, and shares nothing with the
others. Each commit has a lemma of its own, with one step per conjunct. The
refinement then reads off `NoStaleWrite` that the ledger's guard holds at every
commit. `DedupUntilRevised` follows from a stronger fact that is inductive,
`KeyOfFirstContent`: a key is held by exactly the active memory that was created with
its content. Two unrevised memories of one content would both hold its key. Lineage
needs no more: the winner of a supersession is a fresh row without a
successor, so a set of memories closed under "superseded by" would have to exclude
it.

*Keys and waits.* `KeyInv` adds to `IInv` that a key a transaction has inserted is
free to everybody else and inserted by nobody else, and that a call owns its key from
its claim to its end. The commit of a second creation under a key would need two
owners. The same discipline orders the locks: a call that waits for a key holds
nothing, a call that waits for a dedup key or for a single row holds only its key,
and one that supersedes waits only for rows above all those it has locked. In a
circle of waiting calls all would be superseding, and the one whose next target is
the greatest would wait for a call whose next target is greater still. `LargestId`
supplies that greatest id.

*Outbox.* `BatchesExclusive`, `VectorIffDone` and `GivenUpAtLimit` need each other
and one fact more, that a job not yet enqueued has not been tried. A commit applies
to the rows of its own batch what it saw when it claimed them; that they still are
as it saw them is the second part of `BatchesExclusive`. The refinement
maps a job's row to its phase: claims, embeddings and crashes stutter, a commit is
`Succeed` or `Fail` of the whole batch.

*Failures.* With a key, at most one call of a request is between its claim and its
end, and the key's state says whether the memory is there. Without one, at most one
call is open at all, and it accounts for the memory: the client only resends after
an answer that says nothing was written.

*Projects.* A call keeps, in a history variable, what each alias meant when it was
looked up; the unique indexes keep two open transactions `Apart`, so what a commit
makes visible was promised to nobody else. A call inserts its remote before its path
and the slug before both, which is why no two wait for each other.

*Purge.* Whoever has a write about the memory under way is `Anchored`: it holds a
lock on a committed row of it that `purge` has not deleted. Once the cascade of
`DELETE FROM memories` is through, no such row is left, so nobody is anchored and
nobody can become so, and the table still to be scrubbed can no longer grow. What
those without an anchor may still commit is `Harmless`: a refusal and a key.

*Readers.* The ledger grows (`WriteSound`): numbers do not fall and a successor stays.
So every part of a history that was read still fits the ledger (`GoodHistory`), and
whatever order the snapshots came in, the parts fit each other. Rows of a search were
observed when they were read (`Watching`). `Sizes` adds to the typing that rankings
and answers are sequences, within the limits of the statements that return them.

*Briefs.* `PlacesInv` says where a memory that fits can be, `BudgetInv` that the
passes before have spent no more than their shares, which rounded down add up to no
more than the whole. `SharesInv` ties what was spent to the memories it was spent on.
Sums are counted as sets of units, one per token, so that the facts about finite sets
give what induction over `MapThenSumSet` would: `TotalIsUnits` takes a smallest set
for which the sum were wrong.

*Fusion.* Scores are exact fractions, so `Before` is a strict total order
(`BeforeIsOrder`; `FractionsTransitive` is the arithmetic). `Fuse` puts each memory at
the place after all that sort before it. No two memories have the same place, and
there are as many places as memories, so every place is taken and the list is sorted
(`FusionIsSorted`). Two ranks of at most 60 weigh more than any single one
(`TwoBeatOne`).

### Only model-checked

- `EveryCallReturns`, `EveryJobSettles`, `KeyedSettles`: liveness under fairness.
- The violations of the three runs above are counterexamples.

TLC also checked the inductive invariants of the readers and of the context builder
on small instances before they were proved.

## Plan

Done: the write path with its refinement; the outbox and its refinement of a queue;
purge; project resolution; the readers; rank fusion and the context builder; failures
and retries; and the proofs above.

No safety property is left to the model checker alone. What could be proved next are
results beyond the properties checked, such as a characterisation of what a hybrid
search must find.

## Not modelled

Ranking scores computed in SQL, embedding inference, rendering, schemas, logging,
metrics and the offline evaluation are data and layout without shared state. The
schema check at start-up is one sequential read. Validation of arguments happens
before a transaction opens and refuses the call. `status` and the MCP resources read
one statement each and decide nothing. Migrations run before any server does.
