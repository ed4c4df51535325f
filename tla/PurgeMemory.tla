---------------------------- MODULE PurgeMemory -----------------------------
(***************************************************************************)
(* memhub-admin purge (cli/admin.py): one memory and everything derived    *)
(* from it is erased in one transaction, statement by statement, while     *)
(* clients revise, retire and attest that memory and a worker embeds it.   *)
(*                                                                         *)
(* db is the set of committed rows about the memory.  An open transaction  *)
(* is its locks and what it has inserted and deleted:                      *)
(*   upd    rows it updated or holds FOR UPDATE                            *)
(*   share  rows its foreign keys hold FOR KEY SHARE                       *)
(*   del    rows it deleted, ins rows it inserted, invisible until commit. *)
(* Audit rows are kept while their detail is readable: redacting one is    *)
(* deleting it.  The memory's dedup key is the one its first content took. *)
(***************************************************************************)
EXTENDS Naturals, FiniteSets, FiniteSetsExt, Sequences

CONSTANTS
    Clients,    \* clients that write to the memory, each with its own name
    Workers,    \* embedding workers
    Operator,   \* whoever runs memhub-admin purge
    Keyed,      \* clients that send a client_request_id with every write
    MaxRev      \* bound on the revisions

ASSUME ActorAssumption == Operator \notin Clients \cup Workers /\ Clients \cap Workers = {}
ASSUME KeyedAssumption == Keyed \subseteq Clients
ASSUME MaxRevAssumption == MaxRev \in Nat \ {0}

VARIABLES
    db,       \* committed rows about the memory
    active,   \* its status is ACTIVE
    tx        \* the open transaction of each actor

vars == <<db, active, tx>>

Actors == Clients \cup Workers \cup {Operator}
Revs == 1 .. MaxRev

-----------------------------------------------------------------------------
(***************************************************************************)
(* Rows, by table.                                                         *)
(***************************************************************************)
Row(table, id) == [table |-> table, id |-> id]

TheMemory == Row("memories", 0)
Predecessor == Row("superseded_by", 0)     \* a memory retired in favour of this one
DedupKey == Row("memory_dedup_keys", 0)
Revision(n) == Row("memory_revisions", n)
Job(n) == Row("embedding_jobs", n)
Vector(n) == Row("memory_embeddings", n)
Attestation(c) == Row("memory_attestations", c)
Audit(c) == Row("audit_events", c)              \* of a write that took effect
Refusal(c) == Row("refused_audit_events", c)    \* outcome 'rejected' or 'conflict'
KeyOf(c) == Row("idempotency_keys", c)          \* the fingerprint, the response with the id

Rows == {TheMemory, Predecessor, DedupKey}
        \cup {Revision(n) : n \in Revs} \cup {Job(n) : n \in Revs} \cup {Vector(n) : n \in Revs}
        \cup {Attestation(c) : c \in Clients} \cup {Audit(c) : c \in Clients}
        \cup {Refusal(c) : c \in Clients} \cup {KeyOf(c) : c \in Clients}

\* The key rows a write of client c leaves, besides what it writes.
KeysOf(c) == IF c \in Keyed THEN {KeyOf(c)} ELSE {}

\* Rows no statement of purge() waits for: keys are not in its order at all,
\* and whatever a refused call writes, it holds no lock on the memory.
Spared == {"refused_audit_events", "idempotency_keys"}

Revisions(rows) == {n \in Revs : Revision(n) \in rows}
Current == Max(Revisions(db))

\* Mutant of Children: vectors do not refer to their revision.
ChildrenButVectors(row) ==
    CASE row.table = "memories" -> {r \in db : r.table \in {"memory_revisions", "memory_dedup_keys",
                                                            "memory_attestations"}}
      [] row.table = "memory_revisions" -> {Job(row.id)} \cap db
      [] OTHER -> {}

\* The committed rows that ON DELETE CASCADE takes along with a row.
Children(row) ==
    CASE row.table = "memories" -> {r \in db : r.table \in {"memory_revisions", "memory_dedup_keys",
                                                            "memory_attestations"}}
      [] row.table = "memory_revisions" -> {Job(row.id), Vector(row.id)} \cap db
      [] OTHER -> {}

ChildrenOf(rows) == UNION {Children(r) : r \in rows}
Dependents(rows) == ChildrenOf(rows) \cup ChildrenOf(ChildrenOf(rows))

-----------------------------------------------------------------------------
(***************************************************************************)
(* Transactions and row locks.                                             *)
(***************************************************************************)
Tx == [pc    : {"idle", "cas", "demote", "retire", "release", "attest", "store", "commit",
                "begin", "lock", "cascade"},
       no    : 0 .. MaxRev,        \* expected_revision, or the claimed job's revision
       step  : 1 .. 9,             \* the statement purge() is at
       snap  : SUBSET Rows,        \* what that statement's snapshot showed it
       upd   : SUBSET Rows,
       share : SUBSET Rows,
       del   : SUBSET Rows,
       ins   : SUBSET Rows]

NoTx == [pc |-> "idle", no |-> 0, step |-> 1, snap |-> {}, upd |-> {}, share |-> {},
         del |-> {}, ins |-> {}]

TypeOK ==
    /\ db \subseteq Rows
    /\ active \in BOOLEAN
    /\ tx \in [Actors -> Tx]

\* The memory has been remembered by one client, in the place of another one.
Init ==
    /\ \E c \in Clients :
        db = {TheMemory, Predecessor, DedupKey, Revision(1), Job(1), Attestation(c), Audit(c)}
             \cup KeysOf(c)
    /\ active = TRUE
    /\ tx = [a \in Actors |-> NoTx]

At(a, label) == tx[a].pc = label
Become(a, t) == tx' = [tx EXCEPT ![a] = t] /\ UNCHANGED <<db, active>>

Others(a) == Actors \ {a}

\* FOR UPDATE, FOR NO KEY UPDATE and FOR KEY SHARE, as another transaction's
\* locks let them through.
CanDelete(a, rows) ==
    \A b \in Others(a) : rows \cap (tx[b].upd \cup tx[b].share \cup tx[b].del) = {}
CanUpdate(a, row) == \A b \in Others(a) : row \notin tx[b].upd \cup tx[b].del
CanShare(a, row) == \A b \in Others(a) : row \notin tx[b].del

\* Only revise() knows the revision it started from.
Retires(t) == TheMemory \in t.upd /\ t.no = 0

\* session_scope() commits.
Commit(a) ==
    /\ At(a, "commit")
    /\ db' = (db \ tx[a].del) \cup tx[a].ins
    /\ active' = (active /\ ~Retires(tx[a]))
    /\ tx' = [tx EXCEPT ![a] = NoTx]

\* A deadlock victim, a statement timeout, a lost connection: rolled back.
Abort(a) ==
    /\ ~At(a, "idle")
    /\ Become(a, NoTx)

-----------------------------------------------------------------------------
(***************************************************************************)
(* The tools, as far as they touch the memory's rows.                      *)
(***************************************************************************)

\* revise(): claim() inserts the key, the memory is read, then comes
\* compare_and_set().
Revise(c) ==
    /\ At(c, "idle")
    /\ TheMemory \in db /\ active
    /\ \E n \in Revisions(db) \ {MaxRev} : 
            Become(c, [NoTx EXCEPT !.pc = "cas", !.no = n, !.ins = KeysOf(c)])

\* The UPDATE of memories waits only for a row it would match.  A conflict is
\* answered and audited; a memory gone or retired by now is an error.
CompareAndSet(c) ==
    /\ At(c, "cas")
    /\ \/ /\ TheMemory \in db /\ active /\ Current = tx[c].no
          /\ CanUpdate(c, TheMemory)
          /\ Become(c, [tx[c] EXCEPT !.pc = "demote", !.upd = {TheMemory}])
       \/ /\ TheMemory \in db /\ active /\ Current # tx[c].no
          /\ Become(c, [tx[c] EXCEPT !.pc = "commit", !.ins = @ \cup {Refusal(c)}])
       \/ /\ TheMemory \notin db \/ ~active
          /\ Become(c, NoTx)

\* The outgoing revision is demoted, the new one appended with its job.
AppendRevision(c) ==
    LET old == tx[c].no IN
    /\ At(c, "demote")
    /\ CanUpdate(c, Revision(old))
    /\ Become(c, [tx[c] EXCEPT !.pc = "commit", !.upd = @ \cup {Revision(old)},
                               !.ins = @ \cup {Revision(old + 1), Job(old + 1), Audit(c)}])

\* forget(), and supersede() of this memory by another: it must exist.
Retire(c) ==
    /\ At(c, "idle")
    /\ TheMemory \in db
    /\ Become(c, [NoTx EXCEPT !.pc = "retire"])

\* The UPDATE of memories; one that finds it retired, or gone, is audited too.
Tombstone(c) ==
    /\ At(c, "retire")
    /\ \/ /\ TheMemory \in db /\ active
          /\ CanUpdate(c, TheMemory)
          /\ Become(c, [tx[c] EXCEPT !.pc = "release", !.upd = {TheMemory}])
       \/ /\ TheMemory \notin db \/ ~active
          /\ Become(c, [tx[c] EXCEPT !.pc = "commit", !.ins = @ \cup {Refusal(c)}])

\* release_dedup_keys().
Release(c) ==
    /\ At(c, "release")
    /\ CanDelete(c, {DedupKey} \cap db)
    /\ Become(c, [tx[c] EXCEPT !.pc = "commit", !.del = {DedupKey} \cap db, !.ins = {Audit(c)}])

\* remember() of the same content finds the key taken.
Duplicate(c) ==
    /\ At(c, "idle")
    /\ DedupKey \in db /\ active
    /\ Become(c, [NoTx EXCEPT !.pc = "attest", !.ins = KeysOf(c)])

\* attest(): an upsert.  Only a new row has its foreign key checked.
Attest(c) ==
    LET mine == Attestation(c) IN
    /\ At(c, "attest")
    /\ CanUpdate(c, mine)
    /\ \/ /\ mine \in db
          /\ Become(c, [tx[c] EXCEPT !.pc = "commit", !.upd = {mine}, !.ins = @ \cup {Audit(c)}])
       \/ /\ mine \notin db
          /\ CanShare(c, TheMemory)
          /\ TheMemory \in db
          /\ Become(c, [tx[c] EXCEPT !.pc = "commit", !.share = {TheMemory},
                                     !.ins = @ \cup {mine, Audit(c)}])
       \/ /\ mine \notin db /\ TheMemory \notin db
          /\ Become(c, NoTx)

\* run_once() of a worker claims a job, SKIP LOCKED ...
Claim(w) ==
    /\ At(w, "idle")
    /\ \E n \in Revs :
        /\ Job(n) \in db /\ Vector(n) \notin db
        /\ CanDelete(w, {Job(n)})
        /\ Become(w, [NoTx EXCEPT !.pc = "store", !.no = n, !.upd = {Job(n)}])

\* Mutant of Store: the vector is filed under the next revision.
StoreUnderNext(w) ==
    LET n == tx[w].no IN
    /\ At(w, "store")
    /\ CanShare(w, Revision(n))
    /\ Become(w, [tx[w] EXCEPT !.pc = "commit", !.share = {Revision(n)}, !.ins = {Vector(n + 1)}])

\* ... and stores the vector, whose foreign key is the revision.
Store(w) ==
    LET n == tx[w].no IN
    /\ At(w, "store")
    /\ CanShare(w, Revision(n))
    /\ Become(w, [tx[w] EXCEPT !.pc = "commit", !.share = {Revision(n)}, !.ins = {Vector(n)}])

-----------------------------------------------------------------------------
(***************************************************************************)
(* purge().                                                                *)
(***************************************************************************)

\* Mutant of PurgeOrder: the audit trail is scrubbed with the other tables.
PurgeAuditFirst ==
    <<"memory_embeddings", "embedding_jobs", "memory_dedup_keys", "memory_attestations",
      "memory_revisions", "audit_events", "superseded_by", "memories">>

\* Mutant of PurgeOrder: everything derived goes, the memories row stays.
PurgeDerivedOnly ==
    <<"memory_embeddings", "embedding_jobs", "memory_dedup_keys", "memory_attestations",
      "memory_revisions", "superseded_by", "audit_events">>

\* The statements after the existence check, by the table they clear.
PurgeOrder ==
    <<"memory_embeddings", "embedding_jobs", "memory_dedup_keys", "memory_attestations",
      "memory_revisions", "superseded_by", "memories", "audit_events">>

\* purge() raises unless the memory exists.
PurgeBegin ==
    /\ At(Operator, "idle")
    /\ TheMemory \in db
    /\ Become(Operator, [NoTx EXCEPT !.pc = "begin"])

\* A statement starts: this is what it can see.
PurgeStart ==
    LET t == tx[Operator]
        table == PurgeOrder[t.step]
        tables == IF table = "audit_events" THEN {table, "refused_audit_events"} ELSE {table}
    IN
    /\ At(Operator, "begin")
    /\ Become(Operator, [t EXCEPT !.pc = "lock", !.snap = {r \in db : r.table \in tables} \ t.del])

\* It has waited for whoever holds these rows; the ones that are gone by now
\* are passed over.
PurgeLock ==
    LET t == tx[Operator]
        rows == t.snap \cap db
    IN
    /\ At(Operator, "lock")
    /\ CanDelete(Operator, rows)
    /\ Become(Operator, [t EXCEPT !.pc = "cascade", !.snap = rows, !.del = @ \cup rows])

\* The cascades run on a snapshot of their own.
PurgeCascade ==
    LET t == tx[Operator]
        rows == Dependents(t.snap) \ t.del
    IN
    /\ At(Operator, "cascade")
    /\ CanDelete(Operator, rows)
    /\ Become(Operator, [t EXCEPT !.pc = IF t.step = Len(PurgeOrder) THEN "commit" ELSE "begin",
                                  !.step = @ + 1, !.snap = {}, !.del = @ \cup rows])

\* memhub-admin gc: idempotency.purge_expired(), a transaction of its own.
SweepKey(c) ==
    /\ KeyOf(c) \in db
    /\ db' = db \ {KeyOf(c)}
    /\ UNCHANGED <<active, tx>>

-----------------------------------------------------------------------------
ClientStep(c) ==
    \/ Revise(c) \/ CompareAndSet(c) \/ AppendRevision(c)
    \/ Retire(c) \/ Tombstone(c) \/ Release(c)
    \/ Duplicate(c) \/ Attest(c)

Next ==
    \/ \E c \in Clients : ClientStep(c) \/ SweepKey(c)
    \/ \E w \in Workers : Claim(w) \/ Store(w)
    \/ PurgeBegin \/ PurgeStart \/ PurgeLock \/ PurgeCascade
    \/ \E a \in Actors : Commit(a) \/ Abort(a)

Spec == Init /\ [][Next]_vars

-----------------------------------------------------------------------------
(***************************************************************************)
(* Properties.                                                             *)
(***************************************************************************)

\* The tables purge() clears stay clear: once the memory is gone they hold
\* nothing of it, not even what a client or a worker committed while purge()
\* was running.  Two kinds of row may outlive it.  A refused call takes no
\* lock on the memory: its audit row, with whatever reason the caller gave for
\* forgetting, may be committed after the scrub.  And purge() has no statement
\* for idempotency_keys, although cli/admin.py:39 says it must clear "every
\* table holding a copy of, or a derivative of, a memory's content": until it
\* expires, the key row of a write keeps request_fingerprint, a hash made from
\* the content, and a response with the memory's id.
ClearedTablesStayClear == TheMemory \notin db => \A r \in db : r.table \in Spared

\* Whoever holds a lock or an uncommitted row of the memory when purge() is
\* ready to commit has nothing it could still commit but a refusal and its key:
\* a write is never acknowledged for a memory the purge takes away under it.
PurgeAlone ==
    At(Operator, "commit") =>
        \A a \in Others(Operator) :
            /\ tx[a].upd \cup tx[a].share \cup tx[a].del = {}
            /\ \A r \in tx[a].ins : r.table \in Spared
=============================================================================
