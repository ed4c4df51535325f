-------------------------- MODULE EmbeddingOutbox ---------------------------
(***************************************************************************)
(* The consuming side of the embedding outbox: one worker per server       *)
(* process (embeddings/worker.py, started by mcp/__main__.py) drains the   *)
(* one embedding_jobs table and fills memory_embeddings.                   *)
(*                                                                         *)
(* job and vectors hold committed rows.  A batch is one transaction: what  *)
(* a worker has claimed, and what it is about to commit, is in worker[s]   *)
(* and vanishes when the server stops or a statement fails.  A job is      *)
(* identified with the revision it is for; all workers run one model.      *)
(* next_attempt_at is kept as "has passed" or not, so the claim may take   *)
(* any due jobs where the query takes the longest due.                     *)
(***************************************************************************)
EXTENDS Naturals, FiniteSets

CONSTANTS
    Jobs,           \* revisions whose writer enqueues a job
    Servers,        \* server processes with an embedding model
    BatchSize,      \* batch_size of EmbeddingWorker
    MaxAttempts,    \* MAX_ATTEMPTS
    MaxBatches,     \* max_batches that _drain_forever() gives to drain()
    Unembeddable,   \* jobs whose text makes embed() raise every time
    MaxFaults       \* bound: stops and failed statements in a behaviour

ASSUME BatchAssumption == BatchSize \in Nat \ {0} /\ MaxBatches \in Nat \ {0}
ASSUME MaxAttemptsAssumption == MaxAttempts \in Nat \ {0}
ASSUME UnembeddableAssumption == Unembeddable \subseteq Jobs
ASSUME MaxFaultsAssumption == MaxFaults \in Nat

VARIABLES
    job,       \* embedding_jobs
    vectors,   \* memory_embeddings: the jobs whose vector is stored
    worker,    \* the drain loop and open transaction of each server
    faults     \* stops and failed statements so far

vars == <<job, vectors, worker, faults>>

-----------------------------------------------------------------------------
\* NONE: not enqueued yet; SWEPT: deleted by gc.  The others are the column's.
JobRow == [state : {"NONE", "PENDING", "DONE", "DEAD", "SWEPT"},
           attempts : 0 .. MaxAttempts,
           due : BOOLEAN]                  \* next_attempt_at <= now()

NoJob == [state |-> "NONE", attempts |-> 0, due |-> TRUE]

\* pc "ready": about to run_once(); "asleep": between two drains.
Worker == [pc    : {"stopped", "ready", "claimed", "stored", "deferred", "asleep"},
           batch : SUBSET Jobs,
           seen  : [Jobs -> 0 .. MaxAttempts],   \* row.attempts as claimed
           left  : 0 .. MaxBatches]              \* batches left in this drain()

Unseen == [j \in Jobs |-> 0]

Stopped == [pc |-> "stopped", batch |-> {}, seen |-> Unseen, left |-> 0]
Asleep == [Stopped EXCEPT !.pc = "asleep"]

TypeOK ==
    /\ job \in [Jobs -> JobRow]
    /\ vectors \subseteq Jobs
    /\ worker \in [Servers -> Worker]
    /\ faults \in 0 .. MaxFaults

Init ==
    /\ job = [j \in Jobs |-> NoJob]
    /\ vectors = {}
    /\ worker = [s \in Servers |-> Stopped]
    /\ faults = 0

Become(s, w) == worker' = [worker EXCEPT ![s] = w]

-----------------------------------------------------------------------------
(***************************************************************************)
(* The rows' side.                                                         *)
(***************************************************************************)

\* Mutant of Locked: the claim without FOR UPDATE.
NeverLocked == {}

\* Rows some open transaction holds FOR UPDATE.
Locked == UNION {worker[s].batch : s \in Servers}

\* The WHERE clause and SKIP LOCKED of CLAIM_JOBS.
Claimable == {j \in Jobs : job[j].state = "PENDING" /\ job[j].due} \ Locked

\* ORDER BY ... LIMIT: as many as there are, at most a batch.
IsBatch(B) ==
    /\ B # {}
    /\ B \subseteq Claimable
    /\ IF Cardinality(Claimable) <= BatchSize THEN B = Claimable
                                              ELSE Cardinality(B) = BatchSize

\* UPDATE embedding_jobs SET state = 'DONE'.
JobsAfterStore(tbl, B) == [j \in Jobs |-> IF j \in B THEN [tbl[j] EXCEPT !.state = "DONE"] ELSE tbl[j]]

\* Mutant of DeferredRow: the bound compared before counting this failure.
DeferredRowLate(row, attempts) ==
    IF attempts - 1 >= MaxAttempts
    THEN [row EXCEPT !.state = "DEAD", !.attempts = attempts]
    ELSE [row EXCEPT !.attempts = attempts, !.due = FALSE]

\* Mutant of DeferredRow: backs off without counting the failure.
DeferredRowUncounted(row, attempts) == [row EXCEPT !.due = FALSE]

\* One round of the loop in _defer().
DeferredRow(row, attempts) ==
    IF attempts >= MaxAttempts
    THEN [row EXCEPT !.state = "DEAD", !.attempts = attempts]
    ELSE [row EXCEPT !.attempts = attempts, !.due = FALSE]

JobsAfterDefer(tbl, B, seen) ==
    [j \in Jobs |-> IF j \in B THEN DeferredRow(tbl[j], seen[j] + 1) ELSE tbl[j]]

\* Mutant of StoredNow: the vectors are committed as soon as they are computed.
StoredEarly(B) == vectors' = vectors \cup B

\* The INSERTs of run_once() are not visible before the batch commits.
StoredNow(B) == UNCHANGED vectors

-----------------------------------------------------------------------------
(***************************************************************************)
(* The worker of server s.                                                 *)
(***************************************************************************)

\* _serve() creates the background task.
Start(s) ==
    /\ worker[s].pc = "stopped"
    /\ Become(s, [Stopped EXCEPT !.pc = "ready", !.left = MaxBatches])
    /\ UNCHANGED <<job, vectors, faults>>

\* run_once() claims a batch.
Claim(s) ==
    /\ worker[s].pc = "ready"
    /\ \E B \in SUBSET Jobs :
        /\ IsBatch(B)
        /\ Become(s, [worker[s] EXCEPT !.pc = "claimed", !.batch = B,
                        !.seen = [j \in Jobs |-> IF j \in B THEN job[j].attempts ELSE 0]])
    /\ UNCHANGED <<job, vectors, faults>>

\* run_once() finds nothing: the drain is over.
Drained(s) ==
    /\ worker[s].pc = "ready"
    /\ Claimable = {}
    /\ Become(s, Asleep)
    /\ UNCHANGED <<job, vectors, faults>>

\* embed() returns and the batch is written, uncommitted.
Embed(s) ==
    /\ worker[s].pc = "claimed"
    /\ worker[s].batch \cap Unembeddable = {}
    /\ Become(s, [worker[s] EXCEPT !.pc = "stored"])
    /\ StoredNow(worker[s].batch)
    /\ UNCHANGED <<job, faults>>

\* embed() raises EmbeddingError, for one bad text or because the model is
\* down: the whole batch is deferred, uncommitted.
EmbedFails(s) ==
    /\ worker[s].pc = "claimed"
    /\ Become(s, [worker[s] EXCEPT !.pc = "deferred"])
    /\ UNCHANGED <<job, vectors, faults>>

\* drain() goes on until its budget of batches is spent.
AfterBatch(w) ==
    IF w.left > 1 THEN [Stopped EXCEPT !.pc = "ready", !.left = w.left - 1] ELSE Asleep

CommitStored(s) ==
    /\ worker[s].pc = "stored"
    /\ vectors' = vectors \cup worker[s].batch
    /\ job' = JobsAfterStore(job, worker[s].batch)
    /\ Become(s, AfterBatch(worker[s]))
    /\ UNCHANGED faults

CommitDeferred(s) ==
    /\ worker[s].pc = "deferred"
    /\ job' = JobsAfterDefer(job, worker[s].batch, worker[s].seen)
    /\ Become(s, AfterBatch(worker[s]))
    /\ UNCHANGED <<vectors, faults>>

\* Anything but an EmbeddingError rolls back and is swallowed by the loop.
Raise(s) ==
    /\ faults < MaxFaults
    /\ worker[s].pc \in {"ready", "claimed", "stored", "deferred"}
    /\ Become(s, Asleep)
    /\ faults' = faults + 1
    /\ UNCHANGED <<job, vectors>>

\* The next round of _drain_forever().
Wake(s) ==
    /\ worker[s].pc = "asleep"
    /\ Become(s, [Stopped EXCEPT !.pc = "ready", !.left = MaxBatches])
    /\ UNCHANGED <<job, vectors, faults>>

\* The client closes its server, or kills it: the transaction rolls back.
Stop(s) ==
    /\ faults < MaxFaults
    /\ worker[s].pc # "stopped"
    /\ Become(s, Stopped)
    /\ faults' = faults + 1
    /\ UNCHANGED <<job, vectors>>

-----------------------------------------------------------------------------
(***************************************************************************)
(* Everyone else.                                                          *)
(***************************************************************************)

\* A write commits, and the job of its revision with it.
Enqueue(j) ==
    /\ job[j].state = "NONE"
    /\ job' = [job EXCEPT ![j].state = "PENDING"]
    /\ UNCHANGED <<vectors, worker, faults>>

\* The clock passes next_attempt_at.
BackoffOver(j) ==
    /\ job[j].state = "PENDING" /\ ~job[j].due
    /\ job' = [job EXCEPT ![j].due = TRUE]
    /\ UNCHANGED <<vectors, worker, faults>>

\* collect_garbage() deletes dead jobs that are old enough.
SweepDead(S) ==
    /\ S # {}
    /\ \A j \in S : job[j].state = "DEAD"
    /\ job' = [j \in Jobs |-> IF j \in S THEN [job[j] EXCEPT !.state = "SWEPT"] ELSE job[j]]
    /\ UNCHANGED <<vectors, worker, faults>>

Work(s) ==
    \/ Start(s) \/ Claim(s) \/ Drained(s) \/ Embed(s) \/ EmbedFails(s)
    \/ CommitStored(s) \/ CommitDeferred(s) \/ Wake(s)

Next ==
    \/ \E s \in Servers : Work(s) \/ Raise(s) \/ Stop(s)
    \/ \E j \in Jobs : Enqueue(j) \/ BackoffOver(j)
    \/ \E S \in SUBSET Jobs : SweepDead(S)

Spec == Init /\ [][Next]_vars

\* A running server goes on with its loop, a stopped one is started again by
\* its client, and the clock passes every backoff.
FairSpec ==
    /\ Spec
    /\ \A s \in Servers : WF_vars(Work(s))
    /\ \A j \in Jobs : WF_vars(BackoffOver(j))

-----------------------------------------------------------------------------
(***************************************************************************)
(* Properties.                                                             *)
(***************************************************************************)

\* No job is in the hands of two workers, and what a worker holds is still
\* as it was claimed (worker.py:5, "without ever processing the same job
\* twice").
BatchesExclusive ==
    /\ \A s, t \in Servers : s # t => worker[s].batch \cap worker[t].batch = {}
    /\ \A s \in Servers : \A j \in worker[s].batch :
        job[j].state = "PENDING" /\ job[j].attempts = worker[s].seen[j]

\* A vector is stored exactly for the jobs that are DONE, whatever is cut off
\* and wherever (docs/architecture.md:968, "there is no window where a vector
\* exists but the job looks pending, or vice versa").
VectorIffDone == \A j \in Jobs : j \in vectors <=> job[j].state = "DONE"

\* A job is given up at the MAX_ATTEMPTS-th counted failure, neither earlier
\* nor later, and a job that can still be claimed has failed fewer times.
GivenUpAtLimit ==
    \A j \in Jobs :
        /\ job[j].state \in {"DEAD", "SWEPT"} => job[j].attempts = MaxAttempts
        /\ job[j].state \in {"PENDING", "DONE"} => job[j].attempts < MaxAttempts

\* Where a job stands in the abstract queue.
Phase(j) ==
    CASE job[j].state = "NONE" -> "none"
      [] job[j].state = "PENDING" -> "waiting"
      [] job[j].state = "DONE" -> IF j \in vectors THEN "indexed" ELSE "none"
      [] job[j].state = "DEAD" -> "dead"
      [] job[j].state = "SWEPT" -> "swept"

Queue == INSTANCE JobQueue WITH
    phase <- [j \in Jobs |-> Phase(j)],
    tries <- [j \in Jobs |-> job[j].attempts]

\* The outbox is the abstract queue: claims, locks, crashes and backoff are
\* invisible in it (worker.py, run_once and _defer).
QueueSpec == Queue!Spec

\* Every enqueued job is eventually indexed or given up: a failing embedder
\* cannot keep a job for ever (worker.py:13, "Failure is expected and
\* bounded").
EveryJobSettles ==
    \A j \in Jobs : job[j].state = "PENDING" ~> job[j].state \in {"DONE", "DEAD"}
=============================================================================
