------------------------ MODULE MemoryHistoryProofs -------------------------
(***************************************************************************)
(* Theorems about what the store remembers: its history only grows, every  *)
(* superseded memory leads to a successor, the outbox has a job for every  *)
(* revision and an idempotency key stands for one memory; and about how    *)
(* the calls wait for each other.  All rest on the inductive invariant of  *)
(* MemoryStoreProofs.                                                      *)
(***************************************************************************)
EXTENDS MemoryStoreProofs, WellFoundedInduction

USE MemIdsAssumption, MaxRevAssumption, NoContentAssumption, NoKeyAssumption

\* What the three kinds of writing commit do to the rows and the revisions,
\* stated with what they decided; every other step leaves both alone.
Asserts(m, h, S) ==
    /\ m \in MemIds /\ h \in Contents /\ S \subseteq MemIds
    /\ mem[m].status = "ABSENT"
    /\ \A x \in S : mem[x].status = "ACTIVE"
    /\ mem' = RowsAfterAssert(mem, m, S)
    /\ rev' = WithRevision(rev, m, 1, h)

Revises(m, n, h) ==
    /\ m \in MemIds /\ n \in 1 .. MaxRev - 1 /\ h \in Contents
    /\ mem[m].status = "ACTIVE" /\ mem[m].cur = n
    /\ mem' = RowsAfterRevise(mem, m)
    /\ rev' = WithRevision(rev, m, n + 1, h)

Forgets(m) ==
    /\ m \in MemIds
    /\ mem[m].status = "ACTIVE"
    /\ mem' = RowsAfterForget(mem, m)
    /\ rev' = rev

\* A step of the write path is one of these writes, with its job, or leaves
\* rows, revisions and outbox alone.
LEMMA StepKinds ==
    ASSUME IInv, [Next]_vars
    PROVE  \/ \E c \in Clients, h \in Contents, S \in SUBSET MemIds :
                Asserts(tx[c].mem, h, S) /\ Enqueue(c, 1)
           \/ \E c \in Clients, n \in 1 .. MaxRev - 1, h \in Contents :
                Revises(tx[c].mem, n, h) /\ Enqueue(c, n + 1)
           \/ \E m \in MemIds : Forgets(m) /\ jobs' = jobs
           \/ UNCHANGED <<mem, rev, jobs>>
  <1> DEFINE Goal ==
           \/ \E c \in Clients, h \in Contents, S \in SUBSET MemIds :
                Asserts(tx[c].mem, h, S) /\ Enqueue(c, 1)
           \/ \E c \in Clients, n \in 1 .. MaxRev - 1, h \in Contents :
                Revises(tx[c].mem, n, h) /\ Enqueue(c, n + 1)
           \/ \E m \in MemIds : Forgets(m) /\ jobs' = jobs
           \/ UNCHANGED <<mem, rev, jobs>>
  <1>1. CASE UNCHANGED vars
    BY <1>1 DEF vars
  <1>2. ASSUME NEW c \in Clients, Begin(c) \/ Serve(c) \/ ConnectionLost(c)
        PROVE  Goal
    <2>0. tx[c] \in Call /\ Shape(tx[c]) /\ StillValid(tx[c])
      BY CommitFacts
    <2>1. CASE CommitRemember(c)
      <3>1. tx[c].mem \in MemIds /\ tx[c].content \in Contents
            /\ tx[c].retired \in SUBSET MemIds
        BY <2>0, <2>1 DEF CommitRemember, Shape, Call
      <3>2. Asserts(tx[c].mem, tx[c].content, tx[c].retired) /\ Enqueue(c, 1)
        BY <2>0, <2>1, <3>1 DEF CommitRemember, StillValid, Retiring, Asserts
      <3> QED
        BY <3>1, <3>2
    <2>2. CASE CommitRevise(c)
      <3>1. tx[c].mem \in MemIds /\ tx[c].content \in Contents
            /\ tx[c].expected \in 1 .. MaxRev - 1
        BY <2>0, <2>2 DEF CommitRevise, Shape, Call
      <3>2. Revises(tx[c].mem, tx[c].expected, tx[c].content)
            /\ Enqueue(c, tx[c].expected + 1)
        BY <2>0, <2>2, <3>1 DEF CommitRevise, StillValid, Revises
      <3> QED
        BY <3>1, <3>2
    <2>3. CASE CommitForget(c)
      <3>1. tx[c].mem \in MemIds
        BY <2>0, <2>3 DEF CommitForget, Shape, Call
      <3>2. Forgets(tx[c].mem) /\ jobs' = jobs
        BY <2>0, <2>3, <3>1 DEF CommitForget, StillValid, Retiring, Forgets
      <3> QED
        BY <3>1, <3>2
    <2>4. CASE CommitDeduplicated(c) \/ CommitUnchanged(c)
      BY <2>4 DEF CommitDeduplicated, CommitUnchanged
    <2>5. CASE Begin(c)
      BY <2>5 DEF Begin, BeginRemember, BeginRevise, BeginForget, Open, tables
    <2>6. CASE ClaimKey(c) \/ WaitKey(c) \/ Replay(c) \/ InsertMemory(c) \/ ReadHolder(c)
      BY <2>6 DEF ClaimKey, WaitKey, Replay, InsertMemory, ReadHolder, tables
    <2>7. CASE Deduplicate(c) \/ Supersede(c) \/ GetMemory(c) \/ CompareAndSet(c)
               \/ Reread(c)
      BY <2>7 DEF Deduplicate, Supersede, GetMemory, CompareAndSet, Reread, tables
    <2>8. CASE CheckExists(c) \/ ForgetMemory(c) \/ Finish(c) \/ Rollback(c)
               \/ ConnectionLost(c)
      BY <2>8 DEF CheckExists, ForgetMemory, Finish, Rollback, ConnectionLost, tables
    <2> QED
      BY <1>2, <2>1, <2>2, <2>3, <2>4, <2>5, <2>6, <2>7, <2>8 DEF Serve, Commit
  <1>3. ASSUME NEW m \in MemIds, Expire(m) PROVE UNCHANGED <<mem, rev, jobs>>
    BY <1>3 DEF Expire, tables
  <1>4. ASSUME NEW k \in Keys, PurgeExpired(k) PROVE UNCHANGED <<mem, rev, jobs>>
    BY <1>4 DEF PurgeExpired
  <1> QED
    BY <1>1, <1>2, <1>3, <1>4 DEF Next

-----------------------------------------------------------------------------
(***************************************************************************)
(* History only grows.                                                     *)
(***************************************************************************)
Grows ==
    \A m \in MemIds :
        /\ \A n \in RevNos : rev[m][n] # NoContent => rev'[m][n] = rev[m][n]
        /\ mem[m].cur <= mem'[m].cur
        /\ mem[m].status \in {"SUPERSEDED", "DELETED"} => mem'[m] = mem[m]

\* No step takes history back.
LEMMA StepGrows == IInv /\ [Next]_vars => [Grows]_<<mem, rev>>
  <1> SUFFICES ASSUME IInv, [Next]_vars, ~UNCHANGED <<mem, rev>>, NEW x \in MemIds
               PROVE  /\ \A i \in RevNos : rev[x][i] # NoContent => rev'[x][i] = rev[x][i]
                      /\ mem[x].cur <= mem'[x].cur
                      /\ mem[x].status \in {"SUPERSEDED", "DELETED"} => mem'[x] = mem[x]
    BY DEF Grows
  <1>0. /\ mem \in [MemIds -> MemoryRow]
        /\ rev \in [MemIds -> [RevNos -> ContentRefs]]
        /\ mem[x].cur \in Nat
    BY DEF IInv, TypeOK, MemoryRow
  <1>1. /\ \A i \in RevNos : rev[x][i] # NoContent <=> i <= mem[x].cur
        /\ mem[x].status # "ABSENT" <=> mem[x].cur >= 1
    BY DEF IInv, RevisionsSound, Known
  <1>2. ASSUME NEW m \in MemIds, NEW h \in Contents, NEW S \in SUBSET MemIds,
               Asserts(m, h, S)
        PROVE  /\ \A i \in RevNos : rev[x][i] # NoContent => rev'[x][i] = rev[x][i]
               /\ mem[x].cur <= mem'[x].cur
               /\ mem[x].status \in {"SUPERSEDED", "DELETED"} => mem'[x] = mem[x]
    <2>1. CASE x = m
      <3>1. mem[x].cur = 0 /\ mem'[x].cur = 1 /\ mem[x].status = "ABSENT"
        BY <1>0, <1>1, <1>2, <2>1 DEF Asserts, RowsAfterAssert, FirstRow
      <3> QED
        BY <1>1, <3>1 DEF RevNos
    <2>2. CASE x # m
      <3>1. rev'[x] = rev[x] /\ mem'[x].cur = mem[x].cur
        BY <1>0, <1>2, <2>2 DEF Asserts, RowsAfterAssert, WithRevision
      <3>2. mem[x].status # "ACTIVE" => mem'[x] = mem[x]
        BY <1>2, <2>2 DEF Asserts, RowsAfterAssert
      <3> QED
        BY <1>0, <3>1, <3>2
    <2> QED
      BY <2>1, <2>2
  <1>3. ASSUME NEW m \in MemIds, NEW n \in 1 .. MaxRev - 1, NEW h \in Contents,
               Revises(m, n, h)
        PROVE  /\ \A i \in RevNos : rev[x][i] # NoContent => rev'[x][i] = rev[x][i]
               /\ mem[x].cur <= mem'[x].cur
               /\ mem[x].status \in {"SUPERSEDED", "DELETED"} => mem'[x] = mem[x]
    <2>1. CASE x = m
      <3>1. mem[x].cur = n /\ mem'[x].cur = n + 1 /\ mem[x].status = "ACTIVE"
        BY <1>0, <1>3, <2>1 DEF Revises, RowsAfterRevise, MemoryRow
      <3>2. \A i \in RevNos : i # n + 1 => rev'[x][i] = rev[x][i]
        BY <1>0, <1>3, <2>1 DEF Revises, WithRevision
      <3>3. \A i \in RevNos : rev[x][i] # NoContent => i # n + 1
        BY <1>1, <3>1 DEF RevNos
      <3> QED
        BY <3>1, <3>2, <3>3
    <2>2. CASE x # m
      BY <1>0, <1>3, <2>2 DEF Revises, RowsAfterRevise, WithRevision
    <2> QED
      BY <2>1, <2>2
  <1>4. ASSUME NEW m \in MemIds, Forgets(m)
        PROVE  /\ \A i \in RevNos : rev[x][i] # NoContent => rev'[x][i] = rev[x][i]
               /\ mem[x].cur <= mem'[x].cur
               /\ mem[x].status \in {"SUPERSEDED", "DELETED"} => mem'[x] = mem[x]
    BY <1>0, <1>4 DEF Forgets, RowsAfterForget, MemoryRow
  <1> QED
    BY <1>2, <1>3, <1>4, StepKinds DEF Asserts, Revises

\* No write takes anything back: committed revisions keep their content,
\* pointers never move backwards, and a retired memory stays as it is.
THEOREM NothingTakenBack == Spec => HistoryOnlyGrows
  <1>1. IInv /\ [Next]_vars =>
          [\A m \in MemIds :
            /\ \A n \in RevNos : rev[m][n] # NoContent => rev'[m][n] = rev[m][n]
            /\ mem[m].cur <= mem'[m].cur
            /\ mem[m].status \in {"SUPERSEDED", "DELETED"} => mem'[m] = mem[m]]_<<mem, rev>>
    BY StepGrows DEF Grows
  <1> QED
    BY <1>1, Invariance, PTL DEF Spec, HistoryOnlyGrows

-----------------------------------------------------------------------------
(***************************************************************************)
(* Lineage.                                                                *)
(***************************************************************************)
\* A new successor has none itself, so it closes no circle.
LEMMA LineageStep == IInv /\ LineageSound /\ [Next]_vars => LineageSound'
  <1> SUFFICES ASSUME IInv, LineageSound, [Next]_vars PROVE LineageSound'
    OBVIOUS
  <1>0. mem \in [MemIds -> MemoryRow]
    BY DEF IInv, TypeOK
  <1>1. /\ \A x \in MemIds : /\ mem[x].status = "SUPERSEDED" <=> mem[x].by # NoMem
                             /\ mem[x].by # NoMem => mem[mem[x].by].status # "ABSENT"
                                                     /\ mem[x].by \in MemIds
        /\ \A T \in SUBSET MemIds : T # {} => \E x \in T : mem[x].by \notin T
    BY DEF LineageSound, Known
  <1> DEFINE Link(x) == /\ mem'[x].status = "SUPERSEDED" <=> mem'[x].by # NoMem
                        /\ mem'[x].by # NoMem => mem'[mem'[x].by].status # "ABSENT"
                                                 /\ mem'[x].by \in MemIds
             Ends(T) == \E x \in T : mem'[x].by \notin T
  <1>2. SUFFICES /\ \A x \in MemIds : Link(x)
                 /\ \A T \in SUBSET MemIds : T # {} => Ends(T)
    BY DEF LineageSound, Known
  <1>3. ASSUME NEW m \in MemIds, NEW h \in Contents, NEW S \in SUBSET MemIds,
               Asserts(m, h, S)
        PROVE  /\ \A x \in MemIds : Link(x)
               /\ \A T \in SUBSET MemIds : T # {} => Ends(T)
    <2>1. \A x \in MemIds :
            /\ mem'[x].status = IF x = m THEN "ACTIVE"
                                ELSE IF x \in S THEN "SUPERSEDED" ELSE mem[x].status
            /\ mem'[x].by = IF x = m THEN NoMem ELSE IF x \in S THEN m ELSE mem[x].by
      BY <1>3 DEF Asserts, RowsAfterAssert, FirstRow
    <2>2. m # NoMem
      BY DEF NoMem
    <2>3. \A x \in MemIds : mem[x].status # "ABSENT" => mem'[x].status # "ABSENT"
      BY <2>1
    <2>4. ASSUME NEW x \in MemIds PROVE Link(x)
      BY <1>1, <2>1, <2>2, <2>3
    <2>5. ASSUME NEW T \in SUBSET MemIds, T # {} PROVE Ends(T)
      <3>1. CASE m \in T
        <4>1. NoMem \notin T
          BY DEF NoMem
        <4> QED
          BY <2>1, <3>1, <4>1
      <3>2. CASE m \notin T
        <4>1. PICK x \in T : mem[x].by \notin T
          BY <1>1, <2>5
        <4> QED
          BY <2>1, <3>2, <4>1
      <3> QED
        BY <3>1, <3>2
    <2> QED
      BY <2>4, <2>5
  <1>4. ASSUME \A x \in MemIds :
                 /\ mem'[x].by = mem[x].by
                 /\ mem'[x].status = "SUPERSEDED" <=> mem[x].status = "SUPERSEDED"
                 /\ mem[x].status # "ABSENT" => mem'[x].status # "ABSENT"
        PROVE  /\ \A x \in MemIds : Link(x)
               /\ \A T \in SUBSET MemIds : T # {} => Ends(T)
    <2>1. ASSUME NEW x \in MemIds PROVE Link(x)
      BY <1>1, <1>4
    <2>2. ASSUME NEW T \in SUBSET MemIds, T # {} PROVE Ends(T)
      <3>1. PICK x \in T : mem[x].by \notin T
        BY <1>1, <2>2
      <3> QED
        BY <1>4, <3>1
    <2> QED
      BY <2>1, <2>2
  <1>5. ASSUME NEW m \in MemIds, NEW n \in 1 .. MaxRev - 1, NEW h \in Contents,
               Revises(m, n, h)
        PROVE  \A x \in MemIds : mem'[x].by = mem[x].by /\ mem'[x].status = mem[x].status
    BY <1>0, <1>5 DEF Revises, RowsAfterRevise, MemoryRow
  <1>6. ASSUME NEW m \in MemIds, Forgets(m)
        PROVE  \A x \in MemIds :
                 /\ mem'[x].by = mem[x].by
                 /\ mem'[x].status = IF x = m THEN "DELETED" ELSE mem[x].status
                 /\ mem[m].status = "ACTIVE"
    BY <1>0, <1>6 DEF Forgets, RowsAfterForget, MemoryRow
  <1>7. ASSUME UNCHANGED <<mem, rev, jobs>>
        PROVE  \A x \in MemIds : mem'[x] = mem[x]
    BY <1>7
  <1>8. CASE \E c \in Clients, h \in Contents, S \in SUBSET MemIds :
               Asserts(tx[c].mem, h, S)
    <2>1. PICK c \in Clients, h \in Contents, S \in SUBSET MemIds :
            tx[c].mem \in MemIds /\ Asserts(tx[c].mem, h, S)
      BY <1>8 DEF Asserts
    <2> HIDE DEF Link, Ends
    <2> QED
      BY <1>3, <2>1
  <1>9. CASE \/ \E c \in Clients, n \in 1 .. MaxRev - 1, h \in Contents :
                  Revises(tx[c].mem, n, h)
             \/ \E m \in MemIds : Forgets(m)
             \/ UNCHANGED <<mem, rev, jobs>>
    <2>1. \A x \in MemIds :
            /\ mem'[x].by = mem[x].by
            /\ mem'[x].status = "SUPERSEDED" <=> mem[x].status = "SUPERSEDED"
            /\ mem[x].status # "ABSENT" => mem'[x].status # "ABSENT"
      BY <1>5, <1>6, <1>7, <1>9 DEF Revises
    <2> HIDE DEF Link, Ends
    <2> QED
      BY <1>4, <2>1
  <1>10. \/ \E c \in Clients, h \in Contents, S \in SUBSET MemIds :
                Asserts(tx[c].mem, h, S)
         \/ \E c \in Clients, n \in 1 .. MaxRev - 1, h \in Contents :
                Revises(tx[c].mem, n, h)
         \/ \E m \in MemIds : Forgets(m)
         \/ UNCHANGED <<mem, rev, jobs>>
    BY StepKinds
  <1> HIDE DEF Link, Ends
  <1> QED
    BY <1>8, <1>9, <1>10

\* A superseded memory always leads to a successor that exists, and no chain
\* of supersessions ever runs in a circle, so history() reaches its end.
THEOREM LineageEnds == Spec => []LineageSound
  <1>1. ASSUME Init PROVE LineageSound
    <2>1. \A m \in MemIds : mem[m].status = "ABSENT" /\ mem[m].by = NoMem
      BY <1>1 DEF Init, NoRow
    <2>2. ASSUME NEW S \in SUBSET MemIds, S # {} PROVE \E m \in S : mem[m].by \notin S
      BY <2>1, <2>2 DEF NoMem
    <2> QED
      BY <2>1, <2>2 DEF LineageSound
  <1> QED
    BY <1>1, LineageStep, Invariance, PTL DEF Spec

-----------------------------------------------------------------------------
(***************************************************************************)
(* The outbox.                                                             *)
(***************************************************************************)
\* A step that adds a revision adds its job.
LEMMA OutboxStep == IInv /\ OutboxComplete /\ [Next]_vars => OutboxComplete'
  <1> SUFFICES ASSUME IInv, OutboxComplete, [Next]_vars PROVE OutboxComplete'
    OBVIOUS
  <1>0. /\ rev \in [MemIds -> [RevNos -> ContentRefs]]
        /\ jobs \subseteq MemIds \X RevNos
    BY DEF IInv, TypeOK
  <1>1. ASSUME NEW c \in Clients, NEW n \in RevNos, NEW h \in Contents,
               tx[c].mem \in MemIds,
               rev' = WithRevision(rev, tx[c].mem, n, h), Enqueue(c, n)
        PROVE  OutboxComplete'
    <2>1. \A x \in MemIds, i \in RevNos :
            rev'[x][i] = IF x = tx[c].mem /\ i = n THEN h ELSE rev[x][i]
      BY <1>0, <1>1 DEF WithRevision
    <2>2. ASSUME NEW j \in jobs' PROVE rev'[j[1]][j[2]] # NoContent
      <3>1. CASE j \in jobs
        <4>1. j[1] \in MemIds /\ j[2] \in RevNos /\ rev[j[1]][j[2]] # NoContent
          BY <1>0, <3>1 DEF OutboxComplete
        <4> QED
          BY <2>1, <4>1
      <3>2. CASE j = <<tx[c].mem, n>>
        <4>1. j[1] = tx[c].mem /\ j[2] = n
          BY <3>2
        <4>2. rev'[tx[c].mem][n] = h
          BY <1>1, <2>1
        <4> QED
          BY <4>1, <4>2
      <3> QED
        BY <1>1, <2>2, <3>1, <3>2 DEF Enqueue
    <2>3. Embedders = Clients =>
            \A x \in MemIds, i \in RevNos : rev'[x][i] # NoContent => <<x, i>> \in jobs'
      BY <1>1, <2>1 DEF Enqueue, OutboxComplete
    <2> QED
      BY <2>2, <2>3 DEF OutboxComplete
  <1>2. 1 \in RevNos /\ \A n \in 1 .. MaxRev - 1 : n + 1 \in RevNos
    BY DEF RevNos
  <1>3. ASSUME rev' = rev, jobs' = jobs PROVE OutboxComplete'
    BY <1>3 DEF OutboxComplete
  <1> QED
    BY <1>1, <1>2, <1>3, StepKinds DEF Asserts, Revises, Forgets

\* A job exists for every revision written by a server with an embedding
\* model, from the commit of the revision on, and for no other revision.
THEOREM OutboxHoldsEveryRevision == Spec => []OutboxComplete
  <1>1. Init => OutboxComplete
    BY DEF Init, OutboxComplete, NoRevisions
  <1> QED
    BY <1>1, OutboxStep, Invariance, PTL DEF Spec

-----------------------------------------------------------------------------
(***************************************************************************)
(* Idempotency keys and the lock order.                                    *)
(***************************************************************************)
\* How call t holds its key and its rows, by the statement it has reached: a
\* call that creates a memory under a key owns the key row, complete() is
\* the last statement of the call that ran it, a key is not waited for by
\* its owner, and rows are locked last and in ascending order.
Disciplined(t) ==
    /\ t.wrote = "create" \/ t.pc = "insert" => (t.key # NoKey => t.owns)
    /\ t.pc # "commit" => ~t.done
    /\ t.pc = "commit" /\ t.wrote = "create" => t.done = (t.key # NoKey)
    /\ t.done => t.outcome \in {"created", "ok"}
    /\ t.owns => t.pc \notin {"idle", "claim", "wait"}
    /\ t.locks # {} => t.pc \in {"supersede", "finish", "reread", "commit", "error"}
    /\ t.pc = "supersede" => \A l \in t.locks, u \in t.todo : l < u

\* A key row a transaction has inserted and not committed is its own: nobody
\* sees it, and nobody else has inserted it.
KeysOwned ==
    /\ \A c \in Clients : tx[c].owns => idem[tx[c].key].state = "FREE"
    /\ \A c, d \in Clients : c # d /\ tx[c].owns /\ tx[d].owns => tx[c].key # tx[d].key

\* The strengthening of KeyNamesItsMemory and of the lock order.
KeyInv ==
    /\ \A c \in Clients : Disciplined(tx[c])
    /\ KeysOwned
    /\ \A m \in MemIds : mem[m].status = "ABSENT" => madeBy[m] = NoKey
    /\ KeyNamesItsMemory

\* A call may become t: the key t owns was its own, or is free.
MayOwn(c, t) ==
    t.owns => \/ tx[c].owns /\ t.key = tx[c].key
              \/ t.key \in Keys /\ idem[t.key].state = "FREE" /\ ~KeyBusy(c, t.key)

\* A call that keeps to the discipline keeps the invariant while the tables
\* stand still.
LEMMA DisciplinedStep ==
    ASSUME IInv, KeyInv, NEW c \in Clients, NEW t, Become(c, t),
           UNCHANGED tables, Disciplined(t), MayOwn(c, t)
    PROVE  KeyInv'
  <1>0. /\ tx'[c] = t
        /\ \A d \in Clients \ {c} : tx'[d] = tx[d]
        /\ UNCHANGED <<mem, idem, madeBy>>
    BY DEF IInv, TypeOK, Become, tables
  <1>1. \A d \in Clients : Disciplined(tx'[d])
    BY <1>0 DEF KeyInv
  <1>2. KeysOwned'
    BY <1>0 DEF KeyInv, KeysOwned, MayOwn, KeyBusy
  <1>3. KeyNamesItsMemory'
    <2>1. KeyNamesItsMemory
      BY DEF KeyInv
    <2> QED
      BY <1>0, <2>1 DEF KeyNamesItsMemory
  <1>4. \A m \in MemIds : mem'[m].status = "ABSENT" => madeBy'[m] = NoKey
    BY <1>0 DEF KeyInv
  <1> QED
    BY <1>1, <1>2, <1>3, <1>4 DEF KeyInv, Disciplined

\* A call begins without a key row, without rows and without a lock.
LEMMA BeginDisciplined ==
    ASSUME IInv, KeyInv, NEW c \in Clients, Begin(c)
    PROVE  KeyInv'
  <1>1. ASSUME NEW t, Open(c, t), ~t.owns, ~t.done, t.wrote = "nothing", t.locks = {},
               t.pc \notin {"commit", "supersede"}, t.pc = "insert" => t.key = NoKey
        PROVE  KeyInv'
    BY <1>1, DisciplinedStep DEF Open, Disciplined, MayOwn
  <1>2. CASE BeginRemember(c)
    <2>1. PICK h \in Contents, k \in Keys \cup {NoKey}, pad \in PaddedForms,
               S \in SUBSET Known :
            Open(c, [Idle EXCEPT !.pc = IF k = NoKey THEN "insert" ELSE "claim",
                                 !.op = "remember", !.key = k, !.padded = pad,
                                 !.content = h, !.targets = S, !.todo = S, !.past = expired])
      BY <1>2 DEF BeginRemember
    <2> DEFINE t == [Idle EXCEPT !.pc = IF k = NoKey THEN "insert" ELSE "claim",
                                 !.op = "remember", !.key = k, !.padded = pad,
                                 !.content = h, !.targets = S, !.todo = S, !.past = expired]
    <2>2. /\ ~t.owns /\ ~t.done /\ t.wrote = "nothing" /\ t.locks = {}
          /\ t.pc \notin {"commit", "supersede"} /\ (t.pc = "insert" => t.key = NoKey)
      BY DEF Idle
    <2> QED
      BY <1>1, <2>1, <2>2
  <1>3. CASE BeginRevise(c)
    <2>1. PICK m \in Known \cup {NoMem}, n \in 1 .. MaxRev - 1, h \in Contents,
               k \in Keys \cup {NoKey}, pad \in PaddedForms :
            Open(c, [Idle EXCEPT !.pc = IF k = NoKey THEN "get" ELSE "claim",
                                 !.op = "revise", !.key = k, !.padded = pad, !.mem = m,
                                 !.content = h, !.expected = n, !.past = expired])
      BY <1>3 DEF BeginRevise
    <2> DEFINE t == [Idle EXCEPT !.pc = IF k = NoKey THEN "get" ELSE "claim",
                                 !.op = "revise", !.key = k, !.padded = pad, !.mem = m,
                                 !.content = h, !.expected = n, !.past = expired]
    <2>2. /\ ~t.owns /\ ~t.done /\ t.wrote = "nothing" /\ t.locks = {}
          /\ t.pc \notin {"commit", "supersede", "insert"}
      BY DEF Idle
    <2> QED
      BY <1>1, <2>1, <2>2
  <1>4. CASE BeginForget(c)
    <2>1. PICK m \in Known \cup {NoMem} :
            Open(c, [Idle EXCEPT !.pc = "exists", !.op = "forget", !.mem = m,
                                 !.past = expired])
      BY <1>4 DEF BeginForget
    <2> DEFINE t == [Idle EXCEPT !.pc = "exists", !.op = "forget", !.mem = m,
                                 !.past = expired]
    <2>2. /\ ~t.owns /\ ~t.done /\ t.wrote = "nothing" /\ t.locks = {}
          /\ t.pc \notin {"commit", "supersede", "insert"}
      BY DEF Idle
    <2> QED
      BY <1>1, <2>1, <2>2
  <1> QED
    BY <1>2, <1>3, <1>4 DEF Begin

\* The statements of the claim loop keep the discipline.
LEMMA ClaimDisciplined ==
    ASSUME IInv, KeyInv, NEW c \in Clients, ClaimKey(c) \/ WaitKey(c)
    PROVE  KeyInv'
  <1>0. tx[c] \in Call /\ Shape(tx[c]) /\ Disciplined(tx[c]) /\ tx[c].key \in Keys
        /\ ~tx[c].owns /\ ~tx[c].done /\ tx[c].locks = {} /\ tx[c].wrote = "nothing"
    BY CommitFacts DEF KeyInv, ClaimKey, WaitKey, At, Shape, Disciplined
  <1>1. CASE ClaimKey(c)
    BY <1>0, <1>1, DisciplinedStep DEF ClaimKey, Goto, Call, Disciplined, MayOwn, FirstStatement
  <1>2. CASE WaitKey(c)
    BY <1>0, <1>2, DisciplinedStep DEF WaitKey, Raise, Call, Disciplined, MayOwn
  <1> QED
    BY <1>1, <1>2

\* The statements of remember() keep the discipline: the next target is above
\* every row locked so far.
LEMMA RememberDisciplined ==
    ASSUME IInv, KeyInv, NEW c \in Clients,
           Replay(c) \/ InsertMemory(c) \/ ReadHolder(c) \/ Deduplicate(c) \/ Supersede(c)
    PROVE  KeyInv'
  <1>0. tx[c] \in Call /\ Shape(tx[c]) /\ Disciplined(tx[c])
    BY CommitFacts DEF KeyInv
  <1>1. CASE Replay(c)
    BY <1>0, <1>1, DisciplinedStep DEF Replay, At, Raise, Return, Call, Shape, Disciplined, MayOwn
  <1>2. CASE InsertMemory(c)
    BY <1>0, <1>2, DisciplinedStep DEF InsertMemory, At, Goto, Call, Shape, Disciplined, MayOwn
  <1>3. CASE ReadHolder(c)
    BY <1>0, <1>3, DisciplinedStep DEF ReadHolder, At, Raise, Call, Shape, Disciplined, MayOwn
  <1>4. CASE Deduplicate(c)
    BY <1>0, <1>4, DisciplinedStep
        DEF Deduplicate, At, Raise, Return, Call, Shape, Disciplined, MayOwn
  <1>5. CASE Supersede(c)
    <2>1. PICK x \in MemIds, held \in SUBSET MemIds, gone \in SUBSET MemIds :
            /\ IsNextTarget(c, x)
            /\ held \subseteq {x}
            /\ Become(c, [tx[c] EXCEPT !.todo = @ \ {x}, !.retired = @ \cup gone,
                                       !.locks = @ \cup held])
      <3>1. PICK x \in MemIds :
              /\ IsNextTarget(c, x)
              /\ \/ Become(c, [tx[c] EXCEPT !.todo = @ \ {x}, !.retired = @ \cup {x},
                                            !.locks = @ \cup {x}])
                 \/ \E kept \in SUBSET {x} :
                      Become(c, [tx[c] EXCEPT !.todo = @ \ {x}, !.locks = @ \cup kept])
        BY <1>5 DEF Supersede
      <3>2. ASSUME NEW kept \in SUBSET {x}
            PROVE  [tx[c] EXCEPT !.todo = @ \ {x}, !.locks = @ \cup kept]
                     = [tx[c] EXCEPT !.todo = @ \ {x}, !.retired = @ \cup {},
                                     !.locks = @ \cup kept]
        BY <1>0 DEF Call
      <3> QED
        BY <3>1, <3>2
    <2> DEFINE t == [tx[c] EXCEPT !.todo = @ \ {x}, !.retired = @ \cup gone,
                                  !.locks = @ \cup held]
    <2>2. /\ t.pc = "supersede" /\ t.key = tx[c].key /\ t.owns = tx[c].owns
          /\ t.done = tx[c].done /\ t.wrote = tx[c].wrote /\ t.outcome = tx[c].outcome
          /\ t.todo = tx[c].todo \ {x} /\ t.locks = tx[c].locks \cup held
      BY <1>0, <1>5 DEF Supersede, At, Call
    <2> HIDE DEF t
    <2>3. \A l \in t.locks, u \in t.todo : l < u
      <3>1. /\ tx[c].todo \subseteq Nat /\ x \in Nat
            /\ \A l \in tx[c].locks, u \in tx[c].todo : l < u
        BY <1>0, <1>5 DEF Call, Supersede, At, Disciplined
      <3>2. x \in tx[c].todo /\ (\A u \in tx[c].todo : x <= u) /\ held \subseteq {x}
        BY <2>1 DEF IsNextTarget
      <3>3. \A u \in tx[c].todo \ {x} : x < u
        BY <3>1, <3>2
      <3> QED
        BY <2>2, <3>1, <3>2, <3>3
    <2>4. Disciplined(t) /\ MayOwn(c, t)
      BY <1>0, <1>5, <2>2, <2>3 DEF Supersede, At, Disciplined, MayOwn
    <2> QED
      BY <1>5, <2>1, <2>4, DisciplinedStep DEF Supersede, t
  <1> QED
    BY <1>1, <1>2, <1>3, <1>4, <1>5

\* The statements of revise() and forget() keep the discipline.
LEMMA ReviseDisciplined ==
    ASSUME IInv, KeyInv, NEW c \in Clients,
           \/ GetMemory(c) \/ CompareAndSet(c) \/ Reread(c)
           \/ CheckExists(c) \/ ForgetMemory(c) \/ Finish(c)
    PROVE  KeyInv'
  <1>0. tx[c] \in Call /\ Shape(tx[c]) /\ Disciplined(tx[c])
    BY CommitFacts DEF KeyInv
  <1>1. CASE GetMemory(c)
    BY <1>0, <1>1, DisciplinedStep DEF GetMemory, At, Goto, Raise, Call, Shape, Disciplined, MayOwn
  <1>2. CASE CompareAndSet(c)
    BY <1>0, <1>2, DisciplinedStep DEF CompareAndSet, At, Call, Shape, Disciplined, MayOwn
  <1>3. CASE Reread(c)
    BY <1>0, <1>3, DisciplinedStep DEF Reread, At, Raise, Return, Call, Shape, Disciplined, MayOwn
  <1>4. CASE CheckExists(c)
    BY <1>0, <1>4, DisciplinedStep DEF CheckExists, At, Goto, Raise, Call, Shape, Disciplined, MayOwn
  <1>5. CASE ForgetMemory(c)
    BY <1>0, <1>5, DisciplinedStep DEF ForgetMemory, At, Call, Shape, Disciplined, MayOwn
  <1>6. CASE Finish(c)
    BY <1>0, <1>6, DisciplinedStep DEF Finish, At, Raise, Call, Shape, Disciplined, MayOwn
  <1> QED
    BY <1>1, <1>2, <1>3, <1>4, <1>5, <1>6

\* A call that ends without a commit, and a row whose time has come, leave
\* the keys alone.
LEMMA AbandonDisciplined ==
    ASSUME IInv, KeyInv, NEW c \in Clients, Rollback(c) \/ ConnectionLost(c)
    PROVE  KeyInv'
  <1>1. Disciplined(Idle) /\ MayOwn(c, Idle)
    BY DEF Idle, Disciplined, MayOwn
  <1> QED
    BY <1>1, DisciplinedStep DEF Rollback, ConnectionLost, EndCall

\* A commit that creates no memory leaves behind a key row that names none.
LEMMA CommitDisciplined ==
    ASSUME IInv, KeyInv, NEW c \in Clients,
           \/ CommitRevise(c) \/ CommitForget(c)
           \/ CommitDeduplicated(c) \/ CommitUnchanged(c)
    PROVE  KeyInv'
  <1>0. /\ tx[c] \in Call /\ Shape(tx[c]) /\ Disciplined(tx[c])
        /\ tx'[c] = Idle /\ \A d \in Clients \ {c} : tx'[d] = tx[d]
    BY CommitFacts, EndCallShape
        DEF KeyInv, CommitRevise, CommitForget, CommitDeduplicated, CommitUnchanged
  <1>1. /\ madeBy' = madeBy
        /\ \/ idem' = idem
           \/ PublishKey(c) /\ (tx[c].done => tx[c].op = "revise")
    BY <1>0 DEF CommitRevise, CommitForget, CommitDeduplicated, CommitUnchanged,
        Disciplined, Shape
  <1>2. \A m \in MemIds : mem'[m].status = "ABSENT" => mem[m].status = "ABSENT"
    <2>0. mem \in [MemIds -> MemoryRow] /\ (tx[c].wrote # "nothing" => tx[c].mem \in MemIds)
      BY <1>0 DEF IInv, TypeOK, Shape, Call
    <2>1. CASE CommitRevise(c)
      BY <2>0, <2>1 DEF CommitRevise, RowsAfterRevise, MemoryRow
    <2>2. CASE CommitForget(c)
      BY <2>0, <2>2 DEF CommitForget, RowsAfterForget, MemoryRow
    <2> QED
      BY <2>1, <2>2 DEF CommitDeduplicated, CommitUnchanged
  <1>3. idem \in [Keys -> KeyRow]
    BY DEF IInv, TypeOK
  <1>4. CASE idem' = idem
    <2>1. KeysOwned' /\ KeyNamesItsMemory'
      BY <1>0, <1>1, <1>4 DEF KeyInv, KeysOwned, KeyNamesItsMemory, Idle
    <2> QED
      BY <1>0, <1>1, <1>2, <2>1 DEF KeyInv, Disciplined, Idle
  <1>5. CASE /\ tx[c].owns /\ idem' = [idem EXCEPT ![tx[c].key] = KeyRowOf(c)]
             /\ tx[c].done => tx[c].op = "revise"
    <2> DEFINE k == tx[c].key
    <2>1. /\ k \in Keys /\ idem[k].state = "FREE"
          /\ idem'[k] = KeyRowOf(c)
          /\ \A j \in Keys \ {k} : idem'[j] = idem[j]
      BY <1>0, <1>3, <1>5 DEF KeyInv, KeysOwned, Shape
    <2>2. \A m \in MemIds : madeBy[m] # k
      BY <2>1 DEF KeyInv, KeyNamesItsMemory
    <2>3. ~(idem'[k].state = "COMPLETED" /\ idem'[k].print.op = "remember")
      BY <1>5, <2>1 DEF KeyRowOf, PrintOf
    <2>4. KeyNamesItsMemory'
      BY <1>1, <2>1, <2>2, <2>3 DEF KeyInv, KeyNamesItsMemory
    <2>5. KeysOwned'
      <3>1. \A d \in Clients \ {c} : tx[d].owns => tx[d].key # k /\ tx[d].key \in Keys
        BY <1>5, CommitFacts DEF KeyInv, KeysOwned, Shape
      <3> QED
        BY <1>0, <2>1, <3>1 DEF KeyInv, KeysOwned, Idle
    <2> QED
      BY <1>0, <1>1, <1>2, <2>4, <2>5 DEF KeyInv, Disciplined, Idle
  <1> QED
    BY <1>1, <1>4, <1>5 DEF PublishKey

\* The commit of remember() makes the key it owns stand for the new memory.
LEMMA CommitRememberDisciplined ==
    ASSUME IInv, KeyInv, NEW c \in Clients, CommitRemember(c)
    PROVE  KeyInv'
  <1> DEFINE m == tx[c].mem
             k == tx[c].key
  <1>0. /\ tx[c] \in Call /\ Shape(tx[c]) /\ StillValid(tx[c]) /\ Disciplined(tx[c])
        /\ tx'[c] = Idle /\ \A d \in Clients \ {c} : tx'[d] = tx[d]
    BY CommitFacts, EndCallShape DEF KeyInv, CommitRemember
  <1>1. /\ m \in MemIds /\ mem[m].status = "ABSENT" /\ madeBy[m] = NoKey
        /\ tx[c].op = "remember" /\ tx[c].wrote = "create" /\ tx[c].pc = "commit"
    BY <1>0 DEF CommitRemember, Shape, StillValid, KeyInv, At
  <1>2. /\ idem \in [Keys -> KeyRow] /\ madeBy \in [MemIds -> Keys \cup {NoKey}]
        /\ madeBy'[m] = k
        /\ \A x \in MemIds \ {m} : madeBy'[x] = madeBy[x]
        /\ \A x \in MemIds : mem'[x].status = "ABSENT" => x # m /\ mem[x].status = "ABSENT"
    BY <1>1 DEF CommitRemember, RowsAfterAssert, FirstRow, IInv, TypeOK
  <1>3. \A x \in MemIds : mem'[x].status = "ABSENT" => madeBy'[x] = NoKey
    BY <1>2 DEF KeyInv
  <1>4. CASE k = NoKey
    <2>1. idem' = idem /\ ~tx[c].owns
      BY <1>0, <1>4 DEF CommitRemember, PublishKey, Shape
    <2>2. KeysOwned' /\ KeyNamesItsMemory'
      BY <1>0, <1>1, <1>2, <1>4, <2>1 DEF KeyInv, KeysOwned, KeyNamesItsMemory, Idle
    <2> QED
      BY <1>0, <1>3, <2>2 DEF KeyInv, Disciplined, Idle
  <1>5. CASE k # NoKey
    <2>0. tx[c].owns /\ tx[c].done /\ k \in Keys
      BY <1>0, <1>1, <1>5 DEF Disciplined, Call
    <2>1. /\ idem[k].state = "FREE"
          /\ idem'[k] = KeyRowOf(c)
          /\ \A j \in Keys \ {k} : idem'[j] = idem[j]
      BY <1>2, <2>0 DEF CommitRemember, PublishKey, KeyInv, KeysOwned
    <2>2. \A x \in MemIds : madeBy[x] # k
      BY <2>0, <2>1 DEF KeyInv, KeyNamesItsMemory
    <2>3. idem'[k].state = "COMPLETED" /\ idem'[k].print.op = "remember" /\ idem'[k].resp = m
      BY <1>1, <2>0, <2>1 DEF KeyRowOf, PrintOf
    <2>4. KeyNamesItsMemory'
      BY <1>1, <1>2, <2>0, <2>1, <2>2, <2>3 DEF KeyInv, KeyNamesItsMemory
    <2>5. KeysOwned'
      <3>1. \A d \in Clients \ {c} : tx[d].owns => tx[d].key # k /\ tx[d].key \in Keys
        BY <2>0, CommitFacts DEF KeyInv, KeysOwned, Shape
      <3> QED
        BY <1>0, <2>1, <3>1 DEF KeyInv, KeysOwned, Idle
    <2> QED
      BY <1>0, <1>3, <2>4, <2>5 DEF KeyInv, Disciplined, Idle
  <1> QED
    BY <1>4, <1>5

\* The sweep frees a key together with the memory it stands for; a key that
\* is owned is not in the table yet.
LEMMA SweepDisciplined ==
    ASSUME IInv, KeyInv, NEW k \in Keys, PurgeExpired(k)
    PROVE  KeyInv'
  <1>1. /\ tx' = tx /\ mem' = mem
        /\ idem'[k] = FreeKey /\ idem[k].state # "FREE"
        /\ \A j \in Keys \ {k} : idem'[j] = idem[j]
        /\ \A m \in MemIds : madeBy'[m] = IF madeBy[m] = k THEN NoKey ELSE madeBy[m]
    BY DEF PurgeExpired, IInv, TypeOK
  <1>2. KeyNamesItsMemory'
    BY <1>1 DEF KeyInv, KeyNamesItsMemory, FreeKey
  <1>3. KeysOwned'
    <2>1. \A c \in Clients : tx[c].owns => tx[c].key \in Keys
      BY CommitFacts DEF Shape
    <2> QED
      BY <1>1, <2>1 DEF KeyInv, KeysOwned, FreeKey
  <1> QED
    BY <1>1, <1>2, <1>3 DEF KeyInv

\* Every step keeps the keys and the lock order.
LEMMA KeyStep == IInv /\ KeyInv /\ [Next]_vars => KeyInv'
  <1> SUFFICES ASSUME IInv, KeyInv, [Next]_vars PROVE KeyInv'
    OBVIOUS
  <1>1. ASSUME UNCHANGED <<tx, mem, idem, madeBy>> PROVE KeyInv'
    BY <1>1 DEF KeyInv, KeysOwned, KeyNamesItsMemory
  <1>2. ASSUME NEW c \in Clients, Begin(c) \/ Serve(c) \/ ConnectionLost(c) PROVE KeyInv'
    BY <1>2, BeginDisciplined, ClaimDisciplined, RememberDisciplined, ReviseDisciplined,
        AbandonDisciplined, CommitDisciplined, CommitRememberDisciplined DEF Serve, Commit
  <1>3. ASSUME NEW m \in MemIds, Expire(m) PROVE KeyInv'
    BY <1>1, <1>3 DEF Expire, tables
  <1> QED
    BY <1>1, <1>2, <1>3, SweepDisciplined DEF Next, vars

\* The keys and the locks of every reachable state.
LEMMA KeyInvariance == Spec => [](IInv /\ KeyInv)
  <1>1. ASSUME Init PROVE KeyInv
    BY <1>1 DEF Init, KeyInv, KeysOwned, KeyNamesItsMemory, Disciplined, Idle, FreeKey, NoRow
  <1> QED
    BY <1>1, KeyStep, Invariance, PTL DEF Spec

\* As long as an idempotency key is kept it stands for at most one created
\* memory, the one a replay answers with, and a completed remember() did
\* create it: retries, rollbacks, lost connections and the sweep included.
THEOREM KeyMeansOneMemory == Spec => []KeyNamesItsMemory
  BY KeyInvariance, PTL DEF KeyInv

-----------------------------------------------------------------------------
(***************************************************************************)
(* Waiting.                                                                *)
(***************************************************************************)
\* Any set of ids that is not empty has a largest member, because there is a
\* largest id: the least of their distances to it is its distance.
LEMMA LargestId ==
    ASSUME NEW T \in SUBSET MemIds, T # {}
    PROVE  \E t \in T : \A u \in T : u <= t
  <1>1. PICK last \in MemIds : \A m \in MemIds : m <= last
    BY LastIdAssumption
  <1> DEFINE D == {n \in Nat : last - n \in T}
             R == OpToRel(<, Nat)
  <1>2. IsWellFoundedOn(R, Nat)
    BY NatLessThanWellFounded
  <1>3. \A i, j \in Nat : i < j => <<i, j>> \in R
    BY DEF OpToRel
  <1>4. \A t \in T : t \in Nat /\ last - t \in Nat /\ last - (last - t) = t
    BY <1>1
  <1>5. D # {} /\ D \subseteq Nat
    <2>1. PICK t \in T : TRUE
      OBVIOUS
    <2>2. last - t \in D
      BY <1>4, <2>1
    <2> QED
      BY <2>2
  <1> HIDE DEF R
  <1>6. \E n \in D : \A i \in D : ~(<<i, n>> \in R)
    BY <1>2, <1>5, WFMin
  <1>7. PICK n \in D : \A i \in D : ~(<<i, n>> \in R)
    BY <1>6
  <1>8. ASSUME NEW u \in T PROVE u <= last - n
    <2>1. last - u \in D
      BY <1>4
    <2>2. ~(last - u < n)
      BY <1>3, <1>5, <1>7, <2>1
    <2>3. last \in Nat /\ n \in Nat /\ u \in Nat
      BY <1>4, <1>5
    <2> QED
      BY <2>2, <2>3
  <1>9. last - n \in T
    BY <1>7
  <1> QED
    BY <1>8, <1>9

\* A call that another waits for has passed the statements that wait for a
\* key or for a single row, and if it is superseding, its next target is
\* above every row it has locked.
LEMMA WaitedFor ==
    ASSUME IInv, KeyInv, NEW c \in Clients, NEW d \in Clients, WaitsFor(c, d)
    PROVE  /\ tx[c].pc \in {"claim", "insert", "supersede", "cas", "forget"}
           /\ tx[d].pc # "claim"
           /\ tx[c].pc # "claim" => tx[d].pc \notin {"insert", "cas", "forget"}
           /\ tx[c].pc = "supersede" =>
                \E t \in MemIds : /\ IsNextTarget(c, t)
                                  /\ \A u \in MemIds :
                                        At(d, "supersede") /\ IsNextTarget(d, u) => t < u
  <1>0. /\ tx[c] \in Call /\ tx[d] \in Call /\ Shape(tx[d]) /\ Disciplined(tx[d])
    BY CommitFacts DEF KeyInv
  <1>1. tx[d].pc \in {"claim", "insert", "cas", "forget"} =>
            tx[d].locks = {} /\ tx[d].wrote = "nothing" /\ Retiring(tx[d]) = {}
    BY <1>0 DEF Shape, Disciplined, Retiring
  <1>2. tx[d].owns => tx[d].pc # "claim"
    BY <1>0 DEF Disciplined
  <1>3. CASE At(c, "claim")
    BY <1>1, <1>2, <1>3 DEF WaitsFor, At
  <1>4. CASE At(c, "insert")
    BY <1>1, <1>4 DEF WaitsFor, At
  <1>5. CASE At(c, "cas") \/ At(c, "forget")
    BY <1>1, <1>5 DEF WaitsFor, At
  <1>6. CASE At(c, "supersede")
    <2>1. PICK t \in tx[d].locks : IsNextTarget(c, t)
      BY <1>6 DEF WaitsFor, At
    <2>2. t \in MemIds /\ tx[d].pc \notin {"claim", "insert", "cas", "forget"}
      BY <1>0, <1>1 DEF Call
    <2>3. \A u \in MemIds : At(d, "supersede") /\ IsNextTarget(d, u) => t < u
      BY <1>0 DEF Disciplined, At, IsNextTarget
    <2> QED
      BY <1>6, <2>1, <2>2, <2>3 DEF At
  <1> QED
    BY <1>3, <1>4, <1>5, <1>6 DEF WaitsFor

\* The order in which the tools take their locks (idempotency key, dedup
\* key, rows by ascending id) leaves no circle of waiting calls: in any set
\* of clients there is one that waits for none of the others.
THEOREM NoDeadlock == Spec => []NoWaitCycle
  <1>1. ASSUME IInv, KeyInv PROVE NoWaitCycle
    <2> SUFFICES ASSUME NEW S \in SUBSET Clients, S # {},
                        \A c \in S : \E d \in S : WaitsFor(c, d)
                 PROVE  FALSE
      BY DEF NoWaitCycle
    <2> DEFINE Sup == {c \in S : tx[c].pc = "supersede"}
               T == {t \in MemIds : \E c \in Sup : IsNextTarget(c, t)}
    <2>1. \E c \in S : tx[c].pc # "claim"
      BY <1>1, WaitedFor
    <2>2. PICK c \in S : tx[c].pc = "supersede"
      BY <1>1, <2>1, WaitedFor
    <2>3. \A x \in Sup : \E t \in T :
             /\ IsNextTarget(x, t)
             /\ \E y \in Sup : \A u \in MemIds : IsNextTarget(y, u) => t < u
      <3> SUFFICES ASSUME NEW x \in Sup
                   PROVE  \E t \in T :
                            /\ IsNextTarget(x, t)
                            /\ \E y \in Sup : \A u \in MemIds : IsNextTarget(y, u) => t < u
        OBVIOUS
      <3>1. PICK y \in S : WaitsFor(x, y)
        OBVIOUS
      <3>2. PICK t \in MemIds : /\ IsNextTarget(x, t)
                                /\ \A u \in MemIds :
                                     At(y, "supersede") /\ IsNextTarget(y, u) => t < u
        BY <1>1, <3>1, WaitedFor
      <3>3. PICK z \in S : WaitsFor(y, z)
        OBVIOUS
      <3>4. tx[y].pc = "supersede"
        BY <1>1, <3>1, <3>3, WaitedFor
      <3> QED
        BY <3>2, <3>4 DEF At
    <2>4. T # {} /\ T \in SUBSET MemIds
      BY <2>2, <2>3
    <2>5. PICK t \in T : \A u \in T : u <= t
      BY <2>4, LargestId
    <2>6. PICK x \in Sup : IsNextTarget(x, t)
      BY <2>5
    <2>7. PICK s \in T : /\ IsNextTarget(x, s)
                         /\ \E y \in Sup : \A u \in MemIds : IsNextTarget(y, u) => s < u
      BY <2>3, <2>6
    <2>8. s = t
      <3>1. tx[x].todo \subseteq MemIds
        BY <1>1, CommitFacts DEF Call
      <3> QED
        BY <2>6, <2>7, <3>1 DEF IsNextTarget
    <2>9. PICK y \in Sup : \A u \in MemIds : IsNextTarget(y, u) => t < u
      BY <2>7, <2>8
    <2>10. PICK v \in T : IsNextTarget(y, v)
      BY <2>3, <2>9
    <2> QED
      BY <2>5, <2>9, <2>10
  <1> QED
    BY <1>1, KeyInvariance, PTL
=============================================================================
