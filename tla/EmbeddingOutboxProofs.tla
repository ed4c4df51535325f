----------------------- MODULE EmbeddingOutboxProofs ------------------------
(***************************************************************************)
(* Theorems about EmbeddingOutbox, for any number of servers and jobs and  *)
(* any batch size, attempt limit and number of faults.                     *)
(***************************************************************************)
EXTENDS EmbeddingOutbox, TLAPS

\* A job nobody has enqueued has not been tried.
FreshUntried == \A j \in Jobs : job[j].state = "NONE" => job[j].attempts = 0

\* The inductive invariant.
IInv ==
    /\ TypeOK
    /\ FreshUntried
    /\ BatchesExclusive
    /\ VectorIffDone
    /\ GivenUpAtLimit

USE BatchAssumption, MaxAttemptsAssumption, UnembeddableAssumption, MaxFaultsAssumption

\* The records a server may be left with when it has no transaction open.
LEMMA StoppedRests == Stopped \in Worker /\ Stopped.batch = {}
  <1>1. Unseen \in [Jobs -> 0 .. MaxAttempts]
    BY DEF Unseen
  <1> QED
    BY <1>1 DEF Stopped, Worker

\* Between two drains.
LEMMA AsleepRests == Asleep \in Worker /\ Asleep.batch = {}
  BY StoppedRests DEF Asleep, Worker

\* About to claim.
LEMMA ReadyRests ==
    ASSUME NEW n \in 0 .. MaxBatches
    PROVE  /\ [Stopped EXCEPT !.pc = "ready", !.left = n] \in Worker
           /\ [Stopped EXCEPT !.pc = "ready", !.left = n].batch = {}
  BY StoppedRests DEF Worker

\* The empty tables satisfy the invariant.
LEMMA InitIInv == Init => IInv
  <1> SUFFICES ASSUME Init PROVE IInv
    OBVIOUS
  <1>1. TypeOK
    <2>1. NoJob \in JobRow
      BY DEF NoJob, JobRow
    <2> QED
      BY <2>1, StoppedRests DEF Init, TypeOK
  <1>2. FreshUntried /\ VectorIffDone /\ GivenUpAtLimit
    BY DEF Init, NoJob, FreshUntried, VectorIffDone, GivenUpAtLimit
  <1>3. BatchesExclusive
    BY StoppedRests DEF Init, BatchesExclusive
  <1> QED
    BY <1>1, <1>2, <1>3 DEF IInv

\* A worker may become w while the tables stand still, if w holds only rows
\* that are as it saw them and that nobody else holds.
LEMMA BecomeIInv ==
    ASSUME IInv, NEW s \in Servers, NEW w \in Worker, Become(s, w),
           UNCHANGED <<job, vectors>>, faults' \in 0 .. MaxFaults,
           \A t \in Servers \ {s} : w.batch \cap worker[t].batch = {},
           \A j \in w.batch : job[j].state = "PENDING" /\ job[j].attempts = w.seen[j]
    PROVE  IInv'
  <1>0. /\ worker' \in [Servers -> Worker]
        /\ worker'[s] = w
        /\ \A t \in Servers \ {s} : worker'[t] = worker[t]
    BY DEF IInv, TypeOK, Become
  <1>1. TypeOK'
    BY <1>0 DEF IInv, TypeOK
  <1>2. FreshUntried' /\ VectorIffDone' /\ GivenUpAtLimit'
    BY DEF IInv, FreshUntried, VectorIffDone, GivenUpAtLimit
  <1>3. BatchesExclusive'
    BY <1>0 DEF IInv, BatchesExclusive
  <1> QED
    BY <1>1, <1>2, <1>3 DEF IInv

\* A server may always let its batch go: that is what a rollback does.
LEMMA LetGoIInv ==
    ASSUME IInv, NEW s \in Servers, NEW w \in Worker, Become(s, w), w.batch = {},
           UNCHANGED <<job, vectors>>, faults' \in 0 .. MaxFaults
    PROVE  IInv'
  BY BecomeIInv

\* Between claim and commit a worker keeps its batch.
LEMMA KeepIInv ==
    ASSUME IInv, NEW s \in Servers,
           NEW label \in {"stored", "deferred"},
           Become(s, [worker[s] EXCEPT !.pc = label]),
           UNCHANGED <<job, vectors, faults>>
    PROVE  IInv'
  <1> DEFINE w == [worker[s] EXCEPT !.pc = label]
  <1>1. w \in Worker /\ w.batch = worker[s].batch /\ w.seen = worker[s].seen
    BY DEF IInv, TypeOK, Worker
  <1>2. faults' \in 0 .. MaxFaults
    BY DEF IInv, TypeOK
  <1>3. \A t \in Servers \ {s} : w.batch \cap worker[t].batch = {}
    BY <1>1 DEF IInv, BatchesExclusive
  <1>4. \A j \in w.batch : job[j].state = "PENDING" /\ job[j].attempts = w.seen[j]
    BY <1>1 DEF IInv, BatchesExclusive
  <1> QED
    BY <1>1, <1>2, <1>3, <1>4, BecomeIInv

\* FOR UPDATE SKIP LOCKED hands out rows nobody holds.
LEMMA ClaimIInv == ASSUME IInv, NEW s \in Servers, Claim(s) PROVE IInv'
  <1> PICK B \in SUBSET Jobs :
        /\ IsBatch(B)
        /\ Become(s, [worker[s] EXCEPT !.pc = "claimed", !.batch = B,
                        !.seen = [j \in Jobs |-> IF j \in B THEN job[j].attempts ELSE 0]])
    BY DEF Claim
  <1> DEFINE w == [worker[s] EXCEPT !.pc = "claimed", !.batch = B,
                        !.seen = [j \in Jobs |-> IF j \in B THEN job[j].attempts ELSE 0]]
  <1>0. worker[s] \in Worker /\ \A j \in Jobs : job[j].attempts \in 0 .. MaxAttempts
    BY DEF IInv, TypeOK, JobRow
  <1>1. w \in Worker /\ w.batch = B /\ \A j \in B : w.seen[j] = job[j].attempts
    <2> DEFINE f == [j \in Jobs |-> IF j \in B THEN job[j].attempts ELSE 0]
    <2>1. f \in [Jobs -> 0 .. MaxAttempts] /\ \A j \in B : f[j] = job[j].attempts
      BY <1>0
    <2> HIDE DEF f
    <2>2. [worker[s] EXCEPT !.pc = "claimed", !.batch = B, !.seen = f] \in Worker
      BY <1>0, <2>1 DEF Worker
    <2>3. /\ [worker[s] EXCEPT !.pc = "claimed", !.batch = B, !.seen = f].batch = B
          /\ [worker[s] EXCEPT !.pc = "claimed", !.batch = B, !.seen = f].seen = f
      BY <1>0 DEF Worker
    <2> QED
      BY <2>1, <2>2, <2>3 DEF f
  <1>2. B \subseteq Claimable
    BY DEF IsBatch
  <1>3. \A j \in B : job[j].state = "PENDING"
    BY <1>2 DEF Claimable
  <1>4. \A t \in Servers \ {s} : B \cap worker[t].batch = {}
    BY <1>2 DEF Claimable, Locked
  <1>5. UNCHANGED <<job, vectors>> /\ faults' \in 0 .. MaxFaults
    BY DEF IInv, TypeOK, Claim
  <1> QED
    BY <1>1, <1>3, <1>4, <1>5, BecomeIInv

\* What a worker that commits leaves to the others.
LEMMA AfterBatchRests ==
    ASSUME NEW w \in Worker
    PROVE  AfterBatch(w) \in Worker /\ AfterBatch(w).batch = {}
  <1>1. w.left \in 0 .. MaxBatches
    BY DEF Worker
  <1>2. w.left > 1 => w.left - 1 \in 0 .. MaxBatches
    BY <1>1
  <1> QED
    BY <1>2, AsleepRests, ReadyRests DEF AfterBatch

\* A batch is committed: the jobs in it become what Row(j) says, and nobody
\* else holds one of them.
LEMMA CommitIInv ==
    ASSUME IInv, NEW s \in Servers,
           Become(s, AfterBatch(worker[s])), UNCHANGED faults,
           vectors' \subseteq Jobs, job' \in [Jobs -> JobRow],
           \A j \in Jobs \ worker[s].batch :
                job'[j] = job[j] /\ (j \in vectors' <=> j \in vectors),
           \A j \in worker[s].batch :
                /\ job'[j].state # "NONE"
                /\ j \in vectors' <=> job'[j].state = "DONE"
                /\ job'[j].state \in {"DEAD", "SWEPT"} => job'[j].attempts = MaxAttempts
                /\ job'[j].state \in {"PENDING", "DONE"} => job'[j].attempts < MaxAttempts
    PROVE  IInv'
  <1>0. /\ worker' \in [Servers -> Worker]
        /\ worker'[s].batch = {}
        /\ \A t \in Servers \ {s} : worker'[t] = worker[t]
    BY AfterBatchRests DEF IInv, TypeOK, Become
  <1>1. TypeOK'
    BY <1>0 DEF IInv, TypeOK
  <1>2. FreshUntried' /\ VectorIffDone' /\ GivenUpAtLimit'
    BY DEF IInv, FreshUntried, VectorIffDone, GivenUpAtLimit
  <1>3. BatchesExclusive'
    <2>1. \A t \in Servers \ {s} : worker[t].batch \subseteq Jobs \ worker[s].batch
      BY DEF IInv, TypeOK, Worker, BatchesExclusive
    <2> QED
      BY <1>0, <2>1 DEF IInv, BatchesExclusive
  <1> QED
    BY <1>1, <1>2, <1>3 DEF IInv

\* run_once() commits vectors and DONE together.
LEMMA CommitStoredIInv == ASSUME IInv, NEW s \in Servers, CommitStored(s) PROVE IInv'
  <1> DEFINE B == worker[s].batch
  <1>0. B \subseteq Jobs /\ job \in [Jobs -> JobRow] /\ vectors \subseteq Jobs
    BY DEF IInv, TypeOK, Worker
  <1>1. /\ job' \in [Jobs -> JobRow]
        /\ \A j \in Jobs \ B : job'[j] = job[j]
        /\ \A j \in B : job'[j].state = "DONE" /\ job'[j].attempts = job[j].attempts
    BY <1>0 DEF CommitStored, JobsAfterStore, JobRow
  <1>2. vectors' = vectors \cup B
    BY DEF CommitStored
  <1>3. \A j \in B : job[j].attempts < MaxAttempts
    BY <1>0 DEF IInv, BatchesExclusive, GivenUpAtLimit
  <1> QED
    BY <1>0, <1>1, <1>2, <1>3, CommitIInv DEF CommitStored

\* _defer() counts one failure against every job of the batch.
LEMMA Deferred ==
    ASSUME IInv, NEW s \in Servers, CommitDeferred(s)
    PROVE  /\ job' \in [Jobs -> JobRow]
           /\ \A j \in Jobs \ worker[s].batch : job'[j] = job[j]
           /\ \A j \in worker[s].batch :
                /\ j \in Jobs /\ job[j].state = "PENDING"
                /\ job[j].attempts \in Nat /\ job[j].attempts < MaxAttempts
                /\ job'[j].attempts = job[j].attempts + 1
                /\ job'[j].state = IF job[j].attempts + 1 = MaxAttempts THEN "DEAD" ELSE "PENDING"
  <1> DEFINE B == worker[s].batch
  <1>0. B \subseteq Jobs /\ job \in [Jobs -> JobRow]
    BY DEF IInv, TypeOK, Worker
  <1>1. \A j \in B : /\ job[j].state = "PENDING" /\ worker[s].seen[j] = job[j].attempts
                     /\ job[j].attempts \in 0 .. MaxAttempts /\ job[j].attempts < MaxAttempts
    BY <1>0 DEF IInv, BatchesExclusive, GivenUpAtLimit, JobRow
  <1>2. job' = [j \in Jobs |-> IF j \in B THEN DeferredRow(job[j], worker[s].seen[j] + 1) ELSE job[j]]
    BY DEF CommitDeferred, JobsAfterDefer
  <1>3. ASSUME NEW j \in B
        PROVE  /\ DeferredRow(job[j], worker[s].seen[j] + 1) \in JobRow
               /\ DeferredRow(job[j], worker[s].seen[j] + 1).attempts = job[j].attempts + 1
               /\ DeferredRow(job[j], worker[s].seen[j] + 1).state =
                    IF job[j].attempts + 1 = MaxAttempts THEN "DEAD" ELSE "PENDING"
    <2>1. job[j] \in JobRow
      BY <1>0
    <2> DEFINE n == job[j].attempts + 1
    <2>a. n \in 0 .. MaxAttempts /\ worker[s].seen[j] + 1 = n /\ job[j].state = "PENDING"
      BY <1>1
    <2>2. CASE n = MaxAttempts
      <3>1. DeferredRow(job[j], n) = [job[j] EXCEPT !.state = "DEAD", !.attempts = n]
        BY <2>a, <2>2 DEF DeferredRow
      <3>2. /\ DeferredRow(job[j], n) \in JobRow
            /\ DeferredRow(job[j], n).attempts = n /\ DeferredRow(job[j], n).state = "DEAD"
        <4> HIDE DEF n
        <4> QED
          BY <2>1, <2>a, <3>1 DEF JobRow
      <3> QED
        BY <2>2, <2>a, <3>2
    <2>3. CASE n # MaxAttempts
      <3>1. DeferredRow(job[j], n) = [job[j] EXCEPT !.attempts = n, !.due = FALSE]
        BY <2>a, <2>3 DEF DeferredRow
      <3>2. /\ DeferredRow(job[j], n) \in JobRow
            /\ DeferredRow(job[j], n).attempts = n /\ DeferredRow(job[j], n).state = "PENDING"
        <4> HIDE DEF n
        <4> QED
          BY <2>1, <2>a, <3>1 DEF JobRow
      <3> QED
        BY <2>3, <2>a, <3>2
    <2> QED
      BY <2>2, <2>3
  <1> QED
    BY <1>0, <1>1, <1>2, <1>3

\* A deferred batch keeps the invariant.
LEMMA CommitDeferredIInv == ASSUME IInv, NEW s \in Servers, CommitDeferred(s) PROVE IInv'
  <1>1. /\ Become(s, AfterBatch(worker[s])) /\ UNCHANGED <<vectors, faults>>
        /\ vectors' \subseteq Jobs
    BY DEF CommitDeferred, IInv, TypeOK
  <1>2. ASSUME NEW j \in worker[s].batch
        PROVE  /\ job'[j].state \in {"PENDING", "DEAD"}
               /\ j \notin vectors'
               /\ job'[j].state = "DEAD" => job'[j].attempts = MaxAttempts
               /\ job'[j].state = "PENDING" => job'[j].attempts < MaxAttempts
    <2>1. j \notin vectors
      BY Deferred DEF IInv, VectorIffDone
    <2> QED
      BY <1>1, <2>1, Deferred
  <1> QED
    BY <1>1, <1>2, Deferred, CommitIInv

\* Writers, the clock and gc touch only rows that no worker holds, or their
\* next_attempt_at.
LEMMA OthersIInv ==
    ASSUME IInv,
           \/ \E j \in Jobs : Enqueue(j) \/ BackoffOver(j)
           \/ \E S \in SUBSET Jobs : SweepDead(S)
    PROVE  IInv'
  <1>0. /\ UNCHANGED <<vectors, worker, faults>>
        /\ job' \in [Jobs -> JobRow]
        /\ \A j \in Jobs : job'[j].attempts = job[j].attempts
        /\ \A j \in Jobs : \/ job'[j].state = job[j].state
                           \/ job[j].state = "NONE" /\ job'[j].state = "PENDING"
                           \/ job[j].state = "DEAD" /\ job'[j].state = "SWEPT"
    <2>1. ASSUME NEW j \in Jobs, Enqueue(j) PROVE <1>0!:
      BY <2>1 DEF Enqueue, IInv, TypeOK, JobRow
    <2>2. ASSUME NEW j \in Jobs, BackoffOver(j) PROVE <1>0!:
      BY <2>2 DEF BackoffOver, IInv, TypeOK, JobRow
    <2>3. ASSUME NEW S \in SUBSET Jobs, SweepDead(S) PROVE <1>0!:
      BY <2>3 DEF SweepDead, IInv, TypeOK, JobRow
    <2> QED
      BY <2>1, <2>2, <2>3
  <1>1. TypeOK'
    BY <1>0 DEF IInv, TypeOK
  <1>2. FreshUntried' /\ VectorIffDone'
    BY <1>0 DEF IInv, FreshUntried, VectorIffDone
  <1>3. GivenUpAtLimit'
    BY <1>0 DEF IInv, GivenUpAtLimit, FreshUntried
  <1>4. BatchesExclusive'
    <2>1. \A s \in Servers : worker[s].batch \subseteq Jobs
      BY DEF IInv, TypeOK, Worker
    <2> QED
      BY <1>0, <2>1 DEF IInv, BatchesExclusive
  <1> QED
    BY <1>1, <1>2, <1>3, <1>4 DEF IInv

\* Every step keeps the invariant.
LEMMA NextIInv == IInv /\ [Next]_vars => IInv'
  <1> SUFFICES ASSUME IInv, [Next]_vars PROVE IInv'
    OBVIOUS
  <1>0. faults \in 0 .. MaxFaults /\ (faults < MaxFaults => faults + 1 \in 0 .. MaxFaults)
    BY DEF IInv, TypeOK
  <1>1. ASSUME NEW s \in Servers, Start(s) \/ Wake(s) PROVE IInv'
    <2>1. MaxBatches \in 0 .. MaxBatches
      OBVIOUS
    <2>2. /\ Become(s, [Stopped EXCEPT !.pc = "ready", !.left = MaxBatches])
          /\ UNCHANGED <<job, vectors, faults>>
      BY <1>1 DEF Start, Wake
    <2> QED
      BY <1>0, <2>1, <2>2, ReadyRests, LetGoIInv
  <1>2. ASSUME NEW s \in Servers, Drained(s) \/ Raise(s) PROVE IInv'
    BY <1>0, <1>2, AsleepRests, LetGoIInv DEF Drained, Raise
  <1>3. ASSUME NEW s \in Servers, Stop(s) PROVE IInv'
    BY <1>0, <1>3, StoppedRests, LetGoIInv DEF Stop
  <1>4. ASSUME NEW s \in Servers, Claim(s) PROVE IInv'
    BY <1>4, ClaimIInv
  <1>5. ASSUME NEW s \in Servers, Embed(s) PROVE IInv'
    BY <1>5, KeepIInv DEF Embed, StoredNow
  <1>6. ASSUME NEW s \in Servers, EmbedFails(s) PROVE IInv'
    BY <1>6, KeepIInv DEF EmbedFails
  <1>7. ASSUME NEW s \in Servers, CommitStored(s) \/ CommitDeferred(s) PROVE IInv'
    BY <1>7, CommitStoredIInv, CommitDeferredIInv
  <1>8. CASE UNCHANGED vars
    BY <1>8 DEF vars, IInv, TypeOK, FreshUntried, BatchesExclusive, VectorIffDone, GivenUpAtLimit
  <1> QED
    BY <1>1, <1>2, <1>3, <1>4, <1>5, <1>6, <1>7, <1>8, OthersIInv DEF Next, Work

\* The invariant holds in every reachable state.
THEOREM Invariance == Spec => []IInv
  BY InitIInv, NextIInv, PTL DEF Spec

\* Every row of embedding_jobs and every worker stays within its columns: in
\* particular no job is tried more than MAX_ATTEMPTS times.
THEOREM TypeCorrect == Spec => []TypeOK
  BY Invariance, PTL DEF IInv

\* No job is ever in the hands of two workers, whatever the number of servers
\* (CLAIM_JOBS, FOR UPDATE SKIP LOCKED).
THEOREM NoJobTwice == Spec => []BatchesExclusive
  BY Invariance, PTL DEF IInv

\* A vector is stored exactly for the jobs marked DONE, wherever a batch is
\* cut off (run_once, one transaction).
THEOREM VectorsMatchJobs == Spec => []VectorIffDone
  BY Invariance, PTL DEF IInv

\* A job is given up at the MAX_ATTEMPTS-th counted failure and not before
\* (_defer).
THEOREM GivenUpExactly == Spec => []GivenUpAtLimit
  BY Invariance, PTL DEF IInv

-----------------------------------------------------------------------------
(***************************************************************************)
(* The outbox implements the queue.                                        *)
(***************************************************************************)

\* A job's place in the queue, read off its row.
LEMMA PhaseOfRow ==
    ASSUME IInv, NEW j \in Jobs
    PROVE  /\ Phase(j) = "none" <=> job[j].state = "NONE"
           /\ Phase(j) = "waiting" <=> job[j].state = "PENDING"
           /\ Phase(j) = "indexed" <=> job[j].state = "DONE"
           /\ Phase(j) = "dead" <=> job[j].state = "DEAD"
           /\ Phase(j) = "swept" <=> job[j].state = "SWEPT"
           /\ Phase(j) \in {"none", "waiting", "indexed", "dead", "swept"}
  <1>1. job[j].state \in {"NONE", "PENDING", "DONE", "DEAD", "SWEPT"}
    BY DEF IInv, TypeOK, JobRow
  <1>2. job[j].state = "DONE" => j \in vectors
    BY DEF IInv, VectorIffDone
  <1> QED
    BY <1>1, <1>2 DEF Phase

\* The same in the next state.
LEMMA PhaseOfNextRow ==
    ASSUME IInv', NEW j \in Jobs
    PROVE  /\ Phase(j)' = "none" <=> job'[j].state = "NONE"
           /\ Phase(j)' = "waiting" <=> job'[j].state = "PENDING"
           /\ Phase(j)' = "indexed" <=> job'[j].state = "DONE"
           /\ Phase(j)' = "dead" <=> job'[j].state = "DEAD"
           /\ Phase(j)' = "swept" <=> job'[j].state = "SWEPT"
           /\ Phase(j)' \in {"none", "waiting", "indexed", "dead", "swept"}
  <1>1. job'[j].state \in {"NONE", "PENDING", "DONE", "DEAD", "SWEPT"}
    BY DEF IInv, TypeOK, JobRow
  <1>2. job'[j].state = "DONE" => j \in vectors'
    BY DEF IInv, VectorIffDone
  <1> QED
    BY <1>1, <1>2 DEF Phase

\* A step that leaves every row's state and attempts alone is none to the queue.
LEMMA QueueStutters ==
    ASSUME IInv, IInv',
           \A j \in Jobs : job'[j].state = job[j].state /\ job'[j].attempts = job[j].attempts
    PROVE  UNCHANGED <<[j \in Jobs |-> Phase(j)], [j \in Jobs |-> job[j].attempts]>>
  <1>1. ASSUME NEW j \in Jobs PROVE Phase(j)' = Phase(j)
    BY PhaseOfRow, PhaseOfNextRow
  <1> QED
    BY <1>1

\* Jobs of S move to a phase and the others stay where they are.
LEMMA QueueMoves ==
    ASSUME NEW S \in SUBSET Jobs, NEW to,
           \A j \in S : Phase(j)' = to, \A j \in Jobs \ S : Phase(j)' = Phase(j)
    PROVE  Queue!Moved(S, to)
  BY DEF Queue!Moved

\* A row whose state has not changed has not moved in the queue.
LEMMA SamePhase ==
    ASSUME IInv, IInv', NEW j \in Jobs, job'[j].state = job[j].state
    PROVE  Phase(j)' = Phase(j)
  BY PhaseOfRow, PhaseOfNextRow

\* A write's commit adds its job.
LEMMA EnqueueIsAdd ==
    ASSUME IInv, IInv', NEW j \in Jobs, Enqueue(j)
    PROVE  Queue!Add(j)
  <1>1. /\ job[j].state = "NONE" /\ job'[j].state = "PENDING"
        /\ \A i \in Jobs \ {j} : job'[i].state = job[i].state
        /\ \A i \in Jobs : job'[i].attempts = job[i].attempts
    BY DEF Enqueue, IInv, TypeOK, JobRow
  <1>2. Phase(j) = "none" /\ Phase(j)' = "waiting"
    BY <1>1, PhaseOfRow, PhaseOfNextRow
  <1>3. Queue!Moved({j}, "waiting")
    BY <1>1, <1>2, SamePhase, QueueMoves
  <1>4. UNCHANGED [i \in Jobs |-> job[i].attempts]
    BY <1>1
  <1> QED
    BY <1>2, <1>3, <1>4 DEF Queue!Add

\* A stored batch succeeds in the queue.
LEMMA StoredIsSucceed ==
    ASSUME IInv, IInv', NEW s \in Servers, CommitStored(s)
    PROVE  worker[s].batch \in SUBSET Jobs /\ Queue!Succeed(worker[s].batch)
  <1> DEFINE B == worker[s].batch
  <1>0. B \subseteq Jobs /\ job \in [Jobs -> JobRow]
    BY DEF IInv, TypeOK, Worker
  <1>1. /\ \A j \in Jobs \ B : job'[j].state = job[j].state
        /\ \A j \in B : job[j].state = "PENDING" /\ job'[j].state = "DONE"
        /\ \A j \in Jobs : job'[j].attempts = job[j].attempts
    BY <1>0 DEF CommitStored, JobsAfterStore, JobRow, IInv, BatchesExclusive
  <1>2. \A j \in B : Phase(j) = "waiting" /\ Phase(j)' = "indexed"
    BY <1>0, <1>1, PhaseOfRow, PhaseOfNextRow
  <1>3. Queue!Moved(B, "indexed")
    BY <1>0, <1>1, <1>2, SamePhase, QueueMoves
  <1>4. UNCHANGED [i \in Jobs |-> job[i].attempts]
    BY <1>1
  <1> QED
    BY <1>0, <1>2, <1>3, <1>4 DEF Queue!Succeed, Queue!Waiting

\* A deferred batch fails in the queue.
LEMMA DeferredIsFail ==
    ASSUME IInv, IInv', NEW s \in Servers, CommitDeferred(s)
    PROVE  worker[s].batch \in SUBSET Jobs /\ Queue!Fail(worker[s].batch)
  <1> DEFINE B == worker[s].batch
             D == {j \in B : [i \in Jobs |-> job[i].attempts][j] + 1 = MaxAttempts}
  <1>0. B \subseteq Jobs
    BY DEF IInv, TypeOK, Worker
  <1>1. D \in SUBSET Jobs /\ \A j \in D : j \in B /\ job[j].attempts + 1 = MaxAttempts
    BY <1>0
  <1>2. \A j \in B : Phase(j) = "waiting"
    BY <1>0, Deferred, PhaseOfRow
  <1>3. \A j \in D : Phase(j)' = "dead"
    BY <1>0, <1>1, Deferred, PhaseOfNextRow
  <1>4. \A j \in Jobs \ D : job'[j].state = job[j].state
    BY <1>0, Deferred
  <1>5. Queue!Moved(D, "dead")
    <2>1. \A j \in Jobs \ D : Phase(j)' = Phase(j)
      BY <1>4, SamePhase
    <2> HIDE DEF D
    <2> QED
      BY <1>1, <1>3, <2>1, QueueMoves
  <1>6. [i \in Jobs |-> job[i].attempts]' =
            [j \in Jobs |-> IF j \in B THEN [i \in Jobs |-> job[i].attempts][j] + 1
                                       ELSE [i \in Jobs |-> job[i].attempts][j]]
    BY <1>0, Deferred
  <1> QED
    BY <1>0, <1>2, <1>5, <1>6 DEF Queue!Fail, Queue!Waiting

\* gc sweeps dead jobs in the queue too.
LEMMA SweepDeadIsSweep ==
    ASSUME IInv, IInv', NEW S \in SUBSET Jobs, SweepDead(S)
    PROVE  Queue!Sweep(S)
  <1>1. /\ \A j \in Jobs \ S : job'[j].state = job[j].state
        /\ \A j \in S : job[j].state = "DEAD" /\ job'[j].state = "SWEPT"
        /\ \A j \in Jobs : job'[j].attempts = job[j].attempts
    BY DEF SweepDead, IInv, TypeOK, JobRow
  <1>2. \A j \in S : Phase(j) = "dead" /\ Phase(j)' = "swept"
    BY <1>1, PhaseOfRow, PhaseOfNextRow
  <1>3. Queue!Moved(S, "swept")
    BY <1>1, <1>2, SamePhase, QueueMoves
  <1>4. UNCHANGED [i \in Jobs |-> job[i].attempts]
    BY <1>1
  <1> QED
    BY <1>2, <1>3, <1>4 DEF Queue!Sweep

\* Every step of the outbox is a step of the queue or none.
LEMMA StepIsQueueStep ==
    IInv /\ IInv' /\ [Next]_vars
        => [Queue!Next]_<<[j \in Jobs |-> Phase(j)], [j \in Jobs |-> job[j].attempts]>>
  <1> SUFFICES ASSUME IInv, IInv', [Next]_vars
               PROVE  \/ Queue!Next
                      \/ UNCHANGED <<[j \in Jobs |-> Phase(j)], [j \in Jobs |-> job[j].attempts]>>
    OBVIOUS
  <1>1. ASSUME NEW j \in Jobs, Enqueue(j) PROVE Queue!Next
    BY <1>1, EnqueueIsAdd DEF Queue!Next
  <1>2. ASSUME NEW s \in Servers, CommitStored(s) PROVE Queue!Next
    BY <1>2, StoredIsSucceed DEF Queue!Next
  <1>3. ASSUME NEW s \in Servers, CommitDeferred(s) PROVE Queue!Next
    <2>1. worker[s].batch \in SUBSET Jobs /\ Queue!Fail(worker[s].batch)
      BY <1>3, DeferredIsFail
    <2>2. PICK B \in SUBSET Jobs : B = worker[s].batch
      BY <2>1
    <2>3. Queue!Fail(B)
      BY <2>1, <2>2 DEF Queue!Fail
    <2> QED
      BY <2>3 DEF Queue!Next
  <1>4. ASSUME NEW S \in SUBSET Jobs, SweepDead(S) PROVE Queue!Next
    BY <1>4, SweepDeadIsSweep DEF Queue!Next
  <1>5. ASSUME NEW j \in Jobs, BackoffOver(j)
        PROVE  UNCHANGED <<[i \in Jobs |-> Phase(i)], [i \in Jobs |-> job[i].attempts]>>
    <2>1. \A i \in Jobs : job'[i].state = job[i].state /\ job'[i].attempts = job[i].attempts
      BY <1>5 DEF BackoffOver, IInv, TypeOK, JobRow
    <2> QED
      BY <2>1, QueueStutters
  <1>6. ASSUME NEW s \in Servers,
               \/ Start(s) \/ Claim(s) \/ Drained(s) \/ Embed(s) \/ EmbedFails(s) \/ Wake(s)
               \/ Raise(s) \/ Stop(s)
        PROVE  UNCHANGED <<[j \in Jobs |-> Phase(j)], [j \in Jobs |-> job[j].attempts]>>
    <2>1. UNCHANGED job
      BY <1>6 DEF Start, Claim, Drained, Embed, EmbedFails, Wake, Raise, Stop
    <2> QED
      BY <2>1, QueueStutters
  <1>7. CASE UNCHANGED vars
    BY <1>7, QueueStutters DEF vars
  <1> QED
    BY <1>1, <1>2, <1>3, <1>4, <1>5, <1>6, <1>7 DEF Next, Work

\* The workers, their locks, crashes and backoff implement the abstract queue
\* (embeddings/worker.py, run_once and _defer).
THEOREM ImplementsQueue == Spec => QueueSpec
  <1>1. Init => Queue!Init
    <2> SUFFICES ASSUME Init PROVE Queue!Init
      OBVIOUS
    <2>1. \A j \in Jobs : Phase(j) = "none" /\ job[j].attempts = 0
      BY DEF Init, NoJob, Phase
    <2> QED
      BY <2>1 DEF Queue!Init
  <1> QED
    BY <1>1, StepIsQueueStep, Invariance, PTL DEF Spec, QueueSpec, Queue!Spec
=============================================================================
