---------------------------- MODULE MemoryStore -----------------------------
(***************************************************************************)
(* The write path of the hub: remember, revise and forget                  *)
(* (services/memories.py) with their idempotency keys                      *)
(* (services/idempotency.py), one action per SQL statement that other      *)
(* transactions can observe or block.                                      *)
(*                                                                         *)
(* Each client has a server process of its own; PostgreSQL at READ         *)
(* COMMITTED is the only thing they share.  The table variables hold the   *)
(* committed rows.  What a transaction has written and not yet committed   *)
(* is in its record tx[c]: which row it wrote, which rows it locked, which *)
(* keys it inserted or deleted.  A statement reads the committed rows of   *)
(* its own moment; a statement that needs a row or a key another           *)
(* transaction has pending is not enabled until that transaction ends,     *)
(* and is then evaluated against the newest committed row (EvalPlanQual).  *)
(* Statements that touch only rows the transaction has already locked or   *)
(* inserted are part of the step that locked or inserted them.             *)
(***************************************************************************)
EXTENDS MemoryTables

CONSTANTS
    Clients,           \* server processes
    Keys,              \* client_request_id values after validate_key()
    NoKey,             \* a call made without a client_request_id
    PaddedForms,       \* may a key arrive with surrounding blanks: subset of BOOLEAN
    ExpiringKeys,      \* keys that outlive expires_at, so gc may delete them
    Perishable,        \* memories that were given an expires_at
    Embedders,         \* clients whose server has an embedding model
    Ops,               \* operations issued in this instance
    MaxTargets,        \* bound: memories one remember may supersede
    MaxClaimAttempts   \* MAX_CLAIM_ATTEMPTS of services/idempotency.py

ASSUME NoKeyAssumption == NoKey \notin Keys
ASSUME AttemptsAssumption == MaxClaimAttempts \in Nat \ {0}
ASSUME SubsetsAssumption ==
    /\ PaddedForms \subseteq BOOLEAN
    /\ Perishable \subseteq MemIds
    /\ ExpiringKeys \subseteq Keys

VARIABLES
    mem, rev, current, dedup,   \* see MemoryTables
    idem,       \* idempotency_keys
    attested,   \* memory_attestations: the clients that asserted a memory
    jobs,       \* embedding_jobs: <<memory, revision>> pairs enqueued
    expired,    \* memories whose expires_at the database clock has passed
    madeBy,     \* history: the live idempotency key a memory was created under
    tx          \* the call and open transaction of each client

tables == <<mem, rev, current, dedup, idem, attested, jobs, madeBy>>
vars == <<mem, rev, current, dedup, idem, attested, jobs, expired, madeBy, tx>>

-----------------------------------------------------------------------------
(***************************************************************************)
(* Rows and calls.                                                         *)
(***************************************************************************)
MemRefs == MemIds \cup {NoMem}
ContentRefs == Contents \cup {NoContent}

\* fingerprint(): the arguments a request is recognised by.
Fingerprint == [op       : {"none", "remember", "revise"},
                mem      : MemRefs,
                expected : 0 .. MaxRev,
                content  : ContentRefs]

NoPrint == [op |-> "none", mem |-> NoMem, expected |-> 0, content |-> NoContent]

KeyRow == [state : {"FREE", "IN_PROGRESS", "COMPLETED"},
           print : Fingerprint,
           resp  : MemRefs]

FreeKey == [state |-> "FREE", print |-> NoPrint, resp |-> NoMem]

Outcomes == {"none", "created", "deduplicated", "idempotent_replay", "ok", "conflict",
             "forgotten", "already_forgotten",
             "KEY_REUSED", "KEY_INCONSISTENT", "KEY_EXHAUSTED", "KEY_VANISHED",
             "HOLDER_VANISHED", "HOLDER_NOT_ACTIVE", "REPLAY_NOT_FOUND", "NOT_FOUND"}

Call == [pc       : {"idle", "claim", "wait", "replay", "insert", "holder", "dedup",
                     "supersede", "get", "cas", "reread", "exists", "forget",
                     "finish", "commit", "error"},
         op       : {"none", "remember", "revise", "forget"},
         key      : Keys \cup {NoKey},
         padded   : BOOLEAN,
         owns     : BOOLEAN,         \* inserted the key row, uncommitted
         done     : BOOLEAN,         \* complete() has run
         attempts : 0 .. MaxClaimAttempts,
         mem      : MemRefs,
         content  : ContentRefs,
         expected : 0 .. MaxRev,
         targets  : SUBSET MemIds,   \* supersedes
         todo     : SUBSET MemIds,   \* targets not examined yet
         retired  : SUBSET MemIds,   \* targets retired, uncommitted
         locks    : SUBSET MemIds,   \* memories rows locked
         wrote    : {"nothing", "create", "revise", "forget"},
         past     : SUBSET MemIds,   \* memories expired at transaction start
         outcome  : Outcomes]

Idle == [pc |-> "idle", op |-> "none", key |-> NoKey, padded |-> FALSE, owns |-> FALSE,
         done |-> FALSE, attempts |-> 0, mem |-> NoMem, content |-> NoContent,
         expected |-> 0, targets |-> {}, todo |-> {}, retired |-> {}, locks |-> {},
         wrote |-> "nothing", past |-> {}, outcome |-> "none"]

Known == {m \in MemIds : mem[m].status # "ABSENT"}
Fresh == {m \in MemIds : mem[m].status = "ABSENT" /\ \A d \in Clients : tx[d].mem # m}

At(c, label) == tx[c].pc = label

Become(c, t) == tx' = [tx EXCEPT ![c] = t]

\* The call goes on to its next statement, raises, or returns its answer.
Goto(c, label) == Become(c, [tx[c] EXCEPT !.pc = label])
Raise(c, code) == Become(c, [tx[c] EXCEPT !.pc = "error", !.outcome = code])
Return(c, answer) == Become(c, [tx[c] EXCEPT !.pc = "commit", !.outcome = answer])

-----------------------------------------------------------------------------
(***************************************************************************)
(* What blocks a statement.                                                *)
(***************************************************************************)

\* Mutant of RowBusy: the UPDATE does not wait for the row lock.
RowNeverBusy(c, m) == FALSE

\* A row of memories that another open transaction has locked.
RowBusy(c, m) == \E d \in Clients \ {c} : m \in tx[d].locks

\* Memories whose dedup keys transaction t has deleted, uncommitted.
Retiring(t) == t.retired \cup (IF t.wrote = "forget" THEN {t.mem} ELSE {})

\* Mutant of DedupBusy: check whether the content is known, then insert it.
DedupNeverBusy(c, h) == FALSE

\* A dedup key another open transaction has inserted or deleted.
DedupBusy(c, h) ==
    \E d \in Clients \ {c} :
        \/ tx[d].wrote = "create" /\ tx[d].content = h
        \/ dedup[h] # NoMem /\ dedup[h] \in Retiring(tx[d])

\* Mutant of KeyBusy: check whether the key exists, then insert it.
KeyNeverBusy(c, k) == FALSE

\* An idempotency key another open transaction has inserted.
KeyBusy(c, k) == \E d \in Clients \ {c} : tx[d].owns /\ tx[d].key = k

\* Transaction d has read the key row of k FOR SHARE.
Shares(d, k) == /\ tx[d].key = k
                /\ ~tx[d].owns
                /\ tx[d].pc \notin {"idle", "claim", "wait"}

\* current_revisions(): what a read sees.  now() is the start of the
\* transaction, so expiry is judged as of that moment.
Visible(c, m) ==
    /\ m # NoMem
    /\ mem[m].status = "ACTIVE"
    /\ m \notin tx[c].past
    /\ current[m] # {}

-----------------------------------------------------------------------------
(***************************************************************************)
(* A client makes a call.                                                  *)
(***************************************************************************)
Open(c, call) ==
    /\ At(c, "idle")
    /\ Become(c, call)
    /\ UNCHANGED <<tables, expired>>

\* Bound: an id is left for every remember in progress.
HasRoom ==
    Cardinality(Known) + Cardinality({d \in Clients : tx[d].op = "remember"})
        < Cardinality(MemIds)

BeginRemember(c) ==
    \E h \in Contents, k \in Keys \cup {NoKey}, pad \in PaddedForms, S \in SUBSET Known :
        /\ "remember" \in Ops
        /\ HasRoom
        /\ Cardinality(S) <= MaxTargets
        /\ k = NoKey => ~pad
        /\ Open(c, [Idle EXCEPT !.pc = IF k = NoKey THEN "insert" ELSE "claim",
                                !.op = "remember", !.key = k, !.padded = pad,
                                !.content = h, !.targets = S, !.todo = S, !.past = expired])

BeginRevise(c) ==
    \E m \in Known \cup {NoMem}, n \in 1 .. MaxRev - 1, h \in Contents,
       k \in Keys \cup {NoKey}, pad \in PaddedForms :
        /\ "revise" \in Ops
        /\ k = NoKey => ~pad
        /\ Open(c, [Idle EXCEPT !.pc = IF k = NoKey THEN "get" ELSE "claim",
                                !.op = "revise", !.key = k, !.padded = pad, !.mem = m,
                                !.content = h, !.expected = n, !.past = expired])

BeginForget(c) ==
    \E m \in Known \cup {NoMem} :
        /\ "forget" \in Ops
        /\ Open(c, [Idle EXCEPT !.pc = "exists", !.op = "forget", !.mem = m,
                                !.past = expired])

-----------------------------------------------------------------------------
(***************************************************************************)
(* idempotency.claim() and the replay of a stored response.                *)
(***************************************************************************)
PrintOf(c) == [op       |-> tx[c].op,
               mem      |-> IF tx[c].op = "revise" THEN tx[c].mem ELSE NoMem,
               expected |-> tx[c].expected,
               content  |-> tx[c].content]

FirstStatement(op) == IF op = "remember" THEN "insert" ELSE "get"

\* claim_idempotency.sql: INSERT ... ON CONFLICT DO NOTHING.  It waits for an
\* uncommitted INSERT of the same key, and succeeds if that is rolled back.
ClaimKey(c) ==
    LET k == tx[c].key
    IN  /\ At(c, "claim")
        /\ ~KeyBusy(c, k)
        /\ \/ /\ idem[k].state = "FREE"
              /\ Become(c, [tx[c] EXCEPT !.owns = TRUE, !.pc = FirstStatement(tx[c].op)])
           \/ /\ idem[k].state # "FREE"
              /\ Goto(c, "wait")
        /\ UNCHANGED <<tables, expired>>

\* Mutant of Attempt: the loop does not count its rounds.
AttemptNotCounted(c) == tx[c].attempts

\* The round of the claim loop that has just failed.
Attempt(c) == tx[c].attempts + 1

\* wait_idempotency.sql and what claim() makes of the row.  The row is gone
\* only when gc has deleted it since: then the INSERT is tried again.
WaitKey(c) ==
    LET row == idem[tx[c].key]
        tries == Attempt(c)
    IN  /\ At(c, "wait")
        /\ \/ /\ row.state = "FREE"
              /\ tries < MaxClaimAttempts
              /\ Become(c, [tx[c] EXCEPT !.attempts = tries, !.pc = "claim"])
           \/ /\ row.state = "FREE"
              /\ tries >= MaxClaimAttempts
              /\ Raise(c, "KEY_EXHAUSTED")
           \/ /\ row.state # "FREE"
              /\ row.print # PrintOf(c)
              /\ Raise(c, "KEY_REUSED")
           \/ /\ row.state = "COMPLETED"
              /\ row.print = PrintOf(c)
              /\ Become(c, [tx[c] EXCEPT !.mem = row.resp, !.pc = "replay"])
           \/ /\ row.state = "IN_PROGRESS"
              /\ row.print = PrintOf(c)
              /\ Raise(c, "KEY_INCONSISTENT")
        /\ UNCHANGED <<tables, expired>>

\* _replay_memory()
Replay(c) ==
    /\ At(c, "replay")
    /\ \/ Visible(c, tx[c].mem) /\ Return(c, "idempotent_replay")
       \/ ~Visible(c, tx[c].mem) /\ Raise(c, "REPLAY_NOT_FOUND")
    /\ UNCHANGED <<tables, expired>>

-----------------------------------------------------------------------------
(***************************************************************************)
(* remember() and _apply_supersession().                                   *)
(***************************************************************************)

\* SAVEPOINT, create(), claim_dedup_key.sql.  The key is free: the insert
\* stands.  The key is taken: the savepoint is rolled back, the claim on the
\* idempotency key survives.
InsertMemory(c) ==
    LET h == tx[c].content
    IN  /\ At(c, "insert")
        /\ ~DedupBusy(c, h)
        /\ \/ /\ dedup[h] = NoMem
              /\ \E m \in Fresh :
                    Become(c, [tx[c] EXCEPT !.mem = m, !.wrote = "create",
                                            !.pc = "supersede"])
           \/ /\ dedup[h] # NoMem
              /\ Goto(c, "holder")
        /\ UNCHANGED <<tables, expired>>

\* dedup_key_holder(): a new statement, hence a new snapshot.
ReadHolder(c) ==
    LET h == tx[c].content
    IN  /\ At(c, "holder")
        /\ \/ /\ dedup[h] # NoMem
              /\ Become(c, [tx[c] EXCEPT !.mem = dedup[h], !.pc = "dedup"])
           \/ dedup[h] = NoMem /\ Raise(c, "HOLDER_VANISHED")
        /\ UNCHANGED <<tables, expired>>

\* _deduplicate(): read the holder, attest it, and return.  complete() is
\* not called on this path.
Deduplicate(c) ==
    /\ At(c, "dedup")
    /\ \/ Visible(c, tx[c].mem) /\ Return(c, "deduplicated")
       \/ ~Visible(c, tx[c].mem) /\ Raise(c, "HOLDER_NOT_ACTIVE")
    /\ UNCHANGED <<tables, expired>>

\* Mutant of IsNextTarget: targets in the order the caller gave them.
IsAnyTarget(c, t) == t \in tx[c].todo

\* sorted(set(targets)): the next target is the lowest one left.
IsNextTarget(c, t) == t \in tx[c].todo /\ \A u \in tx[c].todo : t <= u

\* One cas_supersede.sql and, if it retired the row, release_dedup_keys().
\* An UPDATE that matches no row keeps the row lock if it had to wait for
\* the row first, and takes none otherwise; both are allowed here.
Supersede(c) ==
    /\ At(c, "supersede")
    /\ \E t \in MemIds :
        /\ IsNextTarget(c, t)
        /\ ~RowBusy(c, t)
        /\ \/ /\ mem[t].status = "ACTIVE"
              /\ t # tx[c].mem
              /\ Become(c, [tx[c] EXCEPT !.todo = @ \ {t}, !.retired = @ \cup {t},
                                         !.locks = @ \cup {t}])
           \/ /\ mem[t].status # "ACTIVE" \/ t = tx[c].mem
              /\ \E kept \in SUBSET {t} :
                    Become(c, [tx[c] EXCEPT !.todo = @ \ {t}, !.locks = @ \cup kept])
    /\ UNCHANGED <<tables, expired>>

-----------------------------------------------------------------------------
(***************************************************************************)
(* revise() and forget().                                                  *)
(***************************************************************************)

\* The first repo.get() of revise().
GetMemory(c) ==
    /\ At(c, "get")
    /\ \/ Visible(c, tx[c].mem) /\ Goto(c, "cas")
       \/ ~Visible(c, tx[c].mem) /\ Raise(c, "NOT_FOUND")
    /\ UNCHANGED <<tables, expired>>

\* Mutants of CasHolds: a WHERE clause without its revision, or its status.
CasIgnoresRevision(c) == mem[tx[c].mem].status = "ACTIVE"
CasIgnoresStatus(c) == mem[tx[c].mem].cur = tx[c].expected

\* The WHERE clause of cas_revise.sql.
CasHolds(c) ==
    LET m == tx[c].mem
    IN  mem[m].status = "ACTIVE" /\ mem[m].cur = tx[c].expected

\* compare_and_set(): the CAS takes the row lock; the demotion and the new
\* revision are behind it.
CompareAndSet(c) ==
    LET m == tx[c].mem
    IN  /\ At(c, "cas")
        /\ ~RowBusy(c, m)
        /\ \/ /\ CasHolds(c)
              /\ Become(c, [tx[c] EXCEPT !.wrote = "revise", !.locks = @ \cup {m},
                                         !.pc = "finish"])
           \/ /\ ~CasHolds(c)
              /\ \E kept \in SUBSET {m} :
                    Become(c, [tx[c] EXCEPT !.locks = @ \cup kept, !.pc = "reread"])
        /\ UNCHANGED <<tables, expired>>

\* The conflict branch: re-read what won.  complete() is not called here.
Reread(c) ==
    /\ At(c, "reread")
    /\ \/ Visible(c, tx[c].mem) /\ Return(c, "conflict")
       \/ ~Visible(c, tx[c].mem) /\ Raise(c, "NOT_FOUND")
    /\ UNCHANGED <<tables, expired>>

\* truth.exists() sees a memory in any status.
CheckExists(c) ==
    /\ At(c, "exists")
    /\ \/ tx[c].mem \in Known /\ Goto(c, "forget")
       \/ tx[c].mem \notin Known /\ Raise(c, "NOT_FOUND")
    /\ UNCHANGED <<tables, expired>>

\* cas_forget.sql and release_dedup_keys().
ForgetMemory(c) ==
    LET m == tx[c].mem
    IN  /\ At(c, "forget")
        /\ ~RowBusy(c, m)
        /\ \/ /\ mem[m].status = "ACTIVE"
              /\ Become(c, [tx[c] EXCEPT !.wrote = "forget", !.locks = @ \cup {m},
                                         !.pc = "commit", !.outcome = "forgotten"])
           \/ /\ mem[m].status # "ACTIVE"
              /\ \E kept \in SUBSET {m} :
                    Become(c, [tx[c] EXCEPT !.locks = @ \cup kept, !.pc = "commit",
                                            !.outcome = "already_forgotten"])
        /\ UNCHANGED <<tables, expired>>
-----------------------------------------------------------------------------
(***************************************************************************)
(* The end of the transaction.                                             *)
(***************************************************************************)

\* All targets examined, or the CAS won: idempotency.complete().  It looks
\* the row up by the client_request_id as it arrived, while claim() stored
\* it stripped of surrounding blanks.
Finish(c) ==
    /\ \/ At(c, "supersede") /\ tx[c].todo = {}
       \/ At(c, "finish")
    /\ \/ tx[c].padded /\ Raise(c, "KEY_VANISHED")
       \/ /\ ~tx[c].padded
          /\ Become(c, [tx[c] EXCEPT !.done = (tx[c].key # NoKey), !.pc = "commit",
                                     !.outcome = IF tx[c].op = "remember"
                                                 THEN "created" ELSE "ok"])
    /\ UNCHANGED <<tables, expired>>

\* The key row this transaction inserted becomes visible with its commit.
KeyRowOf(c) ==
    [state |-> IF tx[c].done THEN "COMPLETED" ELSE "IN_PROGRESS",
     print |-> PrintOf(c),
     resp  |-> IF tx[c].done THEN tx[c].mem ELSE NoMem]

PublishKey(c) ==
    idem' = IF tx[c].owns THEN [idem EXCEPT ![tx[c].key] = KeyRowOf(c)] ELSE idem

\* Mutant of Enqueue: revise() forgets the outbox.
EnqueueFirstOnly(c, n) ==
    jobs' = IF c \in Embedders /\ n = 1 THEN jobs \cup {<<tx[c].mem, n>>} ELSE jobs

\* enqueue_embedding(), in the transaction of the revision.
Enqueue(c, n) ==
    jobs' = IF c \in Embedders THEN jobs \cup {<<tx[c].mem, n>>} ELSE jobs

\* attest(): one row per memory and client.
Attest(c) == attested' = [attested EXCEPT ![tx[c].mem] = @ \cup {c}]

EndCall(c) == Become(c, Idle)

CommitRemember(c) ==
    LET m == tx[c].mem
    IN  /\ At(c, "commit")
        /\ tx[c].wrote = "create"
        /\ mem' = RowsAfterAssert(mem, m, tx[c].retired)
        /\ rev' = WithRevision(rev, m, 1, tx[c].content)
        /\ current' = [current EXCEPT ![m] = {1}]
        /\ dedup' = WithKey(Released(dedup, tx[c].retired), tx[c].content, m)
        /\ Attest(c)
        /\ Enqueue(c, 1)
        /\ madeBy' = [madeBy EXCEPT ![m] = tx[c].key]
        /\ PublishKey(c)
        /\ EndCall(c)
        /\ UNCHANGED expired

CommitRevise(c) ==
    LET m == tx[c].mem
        n == tx[c].expected
    IN  /\ At(c, "commit")
        /\ tx[c].wrote = "revise"
        /\ mem' = RowsAfterRevise(mem, m)
        /\ rev' = WithRevision(rev, m, n + 1, tx[c].content)
        /\ current' = CurrentAfterRevise(current, m, n)
        /\ Enqueue(c, n + 1)
        /\ PublishKey(c)
        /\ EndCall(c)
        /\ UNCHANGED <<dedup, attested, madeBy, expired>>

CommitForget(c) ==
    LET m == tx[c].mem
    IN  /\ At(c, "commit")
        /\ tx[c].wrote = "forget"
        /\ mem' = RowsAfterForget(mem, m)
        /\ dedup' = Released(dedup, {m})
        /\ EndCall(c)
        /\ UNCHANGED <<rev, current, idem, attested, jobs, madeBy, expired>>

\* A deduplicated assertion commits its attestation and its key claim.
CommitDeduplicated(c) ==
    /\ At(c, "commit")
    /\ tx[c].outcome = "deduplicated"
    /\ Attest(c)
    /\ PublishKey(c)
    /\ EndCall(c)
    /\ UNCHANGED <<mem, rev, current, dedup, jobs, madeBy, expired>>

\* A replay, a conflict or a forget of a retired memory writes no memory; a
\* conflict still commits its key claim.
CommitUnchanged(c) ==
    /\ At(c, "commit")
    /\ tx[c].outcome \in {"idempotent_replay", "conflict", "already_forgotten"}
    /\ PublishKey(c)
    /\ EndCall(c)
    /\ UNCHANGED <<mem, rev, current, dedup, attested, jobs, madeBy, expired>>

\* session_scope(): an exception rolls the transaction back.
Rollback(c) ==
    /\ At(c, "error")
    /\ EndCall(c)
    /\ UNCHANGED <<tables, expired>>

\* The process dies, the connection drops, or a statement times out: the
\* database rolls the transaction back.
ConnectionLost(c) ==
    /\ ~At(c, "idle")
    /\ EndCall(c)
    /\ UNCHANGED <<tables, expired>>

-----------------------------------------------------------------------------
(***************************************************************************)
(* The clock and the sweep.                                                *)
(***************************************************************************)
Expire(m) ==
    /\ m \in Perishable \cap Known
    /\ m \notin expired
    /\ expired' = expired \cup {m}
    /\ UNCHANGED <<tables, tx>>

\* idempotency.purge_expired(); its DELETE waits for readers FOR SHARE.
PurgeExpired(k) ==
    /\ k \in ExpiringKeys
    /\ idem[k].state # "FREE"
    /\ \A d \in Clients : ~Shares(d, k)
    /\ idem' = [idem EXCEPT ![k] = FreeKey]
    /\ madeBy' = [m \in MemIds |-> IF madeBy[m] = k THEN NoKey ELSE madeBy[m]]
    /\ UNCHANGED <<mem, rev, current, dedup, attested, jobs, expired, tx>>

Begin(c) == BeginRemember(c) \/ BeginRevise(c) \/ BeginForget(c)

Commit(c) ==
    \/ CommitRemember(c) \/ CommitRevise(c) \/ CommitForget(c)
    \/ CommitDeduplicated(c) \/ CommitUnchanged(c)

\* Everything a server does by itself once it has been called.
Serve(c) ==
    \/ ClaimKey(c) \/ WaitKey(c) \/ Replay(c)
    \/ InsertMemory(c) \/ ReadHolder(c) \/ Deduplicate(c) \/ Supersede(c)
    \/ GetMemory(c) \/ CompareAndSet(c) \/ Reread(c)
    \/ CheckExists(c) \/ ForgetMemory(c)
    \/ Finish(c) \/ Commit(c) \/ Rollback(c)

Init ==
    /\ mem = [m \in MemIds |-> NoRow]
    /\ rev = [m \in MemIds |-> NoRevisions]
    /\ current = [m \in MemIds |-> {}]
    /\ dedup = [h \in Contents |-> NoMem]
    /\ idem = [k \in Keys |-> FreeKey]
    /\ attested = [m \in MemIds |-> {}]
    /\ jobs = {}
    /\ expired = {}
    /\ madeBy = [m \in MemIds |-> NoKey]
    /\ tx = [c \in Clients |-> Idle]

Next ==
    \/ \E c \in Clients : Begin(c) \/ Serve(c) \/ ConnectionLost(c)
    \/ \E m \in MemIds : Expire(m)
    \/ \E k \in Keys : PurgeExpired(k)

Spec == Init /\ [][Next]_vars

\* PostgreSQL grants a released row or key to its waiters in turn, and a
\* server never abandons a call: strong fairness of each server.  Clients
\* need not call, connections need not break, and the clock need not move.
FairSpec == Spec /\ \A c \in Clients : SF_vars(Serve(c))
-----------------------------------------------------------------------------
(***************************************************************************)
(* Properties.                                                             *)
(***************************************************************************)

\* Every variable has its type: the committed rows fit their tables and
\* every open call is one the services can be in.
TypeOK ==
    /\ mem \in [MemIds -> MemoryRow]
    /\ rev \in [MemIds -> [RevNos -> ContentRefs]]
    /\ current \in [MemIds -> SUBSET RevNos]
    /\ dedup \in [Contents -> MemRefs]
    /\ idem \in [Keys -> KeyRow]
    /\ attested \in [MemIds -> SUBSET Clients]
    /\ jobs \subseteq MemIds \X RevNos
    /\ expired \subseteq MemIds
    /\ madeBy \in [MemIds -> Keys \cup {NoKey}]
    /\ tx \in [Clients -> Call]

\* A memory has exactly one current revision, the pointer names it, and the
\* revision numbers run from 1 to it without a gap: compare_and_set() never
\* lets two writers append to the same revision.
RevisionsSound ==
    \A m \in MemIds :
        /\ current[m] = IF m \in Known THEN {mem[m].cur} ELSE {}
        /\ \A n \in RevNos : rev[m][n] # NoContent <=> n <= mem[m].cur
        /\ m \in Known <=> mem[m].cur >= 1

\* The content a memory has in force.
Says(m) == rev[m][mem[m].cur]
Twins(m, n) ==
    /\ m # n
    /\ mem[m].status = "ACTIVE" /\ mem[n].status = "ACTIVE"
    /\ Says(m) = Says(n)

\* Deduplication, as far as the keys carry it: a retired memory never keeps
\* its key, so the same sentence can be asserted again (release_dedup_keys),
\* and racing assertions of one content never make two memories: two active
\* memories say the same only if one of them has been revised.  That they
\* never do is what the docs say; see ActiveContentsDiffer below.
DedupUntilRevised ==
    /\ \A h \in Contents : dedup[h] # NoMem => mem[dedup[h]].status = "ACTIVE"
    /\ \A m, n \in MemIds : Twins(m, n) => mem[m].cur > 1 \/ mem[n].cur > 1

\* Supersession never loses the successor and never runs in a circle: a
\* superseded memory names one that exists, and following successors comes
\* to an end.
LineageSound ==
    /\ \A m \in MemIds :
        /\ mem[m].status = "SUPERSEDED" <=> mem[m].by # NoMem
        /\ mem[m].by # NoMem => mem[m].by \in Known
    /\ \A S \in SUBSET MemIds : S # {} => \E m \in S : mem[m].by \notin S

\* The rows and keys transaction t decided on are as it found them.
StillValid(t) ==
    /\ t.wrote = "revise" => mem[t.mem].status = "ACTIVE" /\ mem[t.mem].cur = t.expected
    /\ \A m \in Retiring(t) : mem[m].status = "ACTIVE"
    /\ t.wrote = "create" => mem[t.mem].status = "ABSENT" /\ dedup[t.content] = NoMem

\* What a statement decided stays true until its transaction ends: a CAS
\* that won is still at its expected revision, a memory being retired is
\* still active and a claimed dedup key is still free, whatever the other
\* transactions commit in between.
NoStaleWrite == \A c \in Clients : StillValid(tx[c])

\* As long as an idempotency key is kept it stands for at most one created
\* memory, namely the one a replay answers with; and a completed remember
\* did create it.
KeyNamesItsMemory ==
    \A k \in Keys, m \in MemIds :
        madeBy[m] = k <=> /\ idem[k].state = "COMPLETED"
                          /\ idem[k].print.op = "remember"
                          /\ idem[k].resp = m

\* Every revision written by a server with an embedding model has its job in
\* the outbox from the moment it is committed, and no job names a revision
\* that was rolled back.
OutboxComplete ==
    /\ \A j \in jobs : rev[j[1]][j[2]] # NoContent
    /\ Embedders = Clients =>
        \A m \in MemIds, n \in RevNos : rev[m][n] # NoContent => <<m, n>> \in jobs

\* c waits for a row or a key that d has pending.
WaitsFor(c, d) ==
    /\ c # d
    /\ \/ At(c, "claim") /\ tx[d].owns /\ tx[d].key = tx[c].key
       \/ /\ At(c, "insert")
          /\ \/ tx[d].wrote = "create" /\ tx[d].content = tx[c].content
             \/ dedup[tx[c].content] # NoMem /\ dedup[tx[c].content] \in Retiring(tx[d])
       \/ At(c, "supersede") /\ \E t \in tx[d].locks : IsNextTarget(c, t)
       \/ (At(c, "cas") \/ At(c, "forget")) /\ tx[c].mem \in tx[d].locks

\* The lock order (idempotency key, dedup key, memory rows by ascending id)
\* keeps the tools free of deadlock: among any clients there is one that
\* waits for none of the others.
NoWaitCycle ==
    \A S \in SUBSET Clients :
        S # {} => \E c \in S : \A d \in S : ~WaitsFor(c, d)

\* No write takes anything back: a committed revision keeps its content, a
\* revision pointer never moves backwards, and a retired memory stays
\* retired in favour of the same successor.
HistoryOnlyGrows ==
    [][\A m \in MemIds :
        /\ \A n \in RevNos : rev[m][n] # NoContent => rev'[m][n] = rev[m][n]
        /\ mem[m].cur <= mem'[m].cur
        /\ mem[m].status \in {"SUPERSEDED", "DELETED"} => mem'[m] = mem[m]]_<<mem, rev>>

\* The statements of concurrent transactions add up to the atomic writes of
\* MemoryLedger: every commit is one write of the ledger, decided against
\* the state it changes, and nothing else touches the ledger.
Ledger == INSTANCE MemoryLedger
LedgerSpec == Ledger!Spec

\* Every call comes back: nobody waits for ever on a row or a key.
EveryCallReturns ==
    \A c \in Clients : ~At(c, "idle") ~> At(c, "idle")
-----------------------------------------------------------------------------
(***************************************************************************)
(* What the repository's comments and docs say and the code does not do.   *)
(***************************************************************************)

\* "Retrying with the same value returns the original result": a retry never
\* finds a key whose owner committed without a response (claim() calls that
\* a bug in the caller).
RetryNeverInconsistent == \A c \in Clients : tx[c].outcome # "KEY_INCONSISTENT"

\* "No two active memories share normalised content" (docs/architecture.md,
\* invariant 8; persistence/models.py:384): revise() gives a memory a new
\* content and claims no key for it.
ActiveContentsDiffer == \A m, n \in MemIds : ~Twins(m, n)
=============================================================================
