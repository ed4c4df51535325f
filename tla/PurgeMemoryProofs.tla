------------------------- MODULE PurgeMemoryProofs --------------------------
(***************************************************************************)
(* Proofs about PurgeMemory: the tables that purge() clears stay clear,    *)
(* and nothing is taken away under a write that could still be             *)
(* acknowledged, for any number of clients, workers and revisions.         *)
(*                                                                         *)
(* The argument is about anchors.  Whoever has a write under way that says *)
(* something of the memory holds a lock on a committed row of it that      *)
(* purge() has not deleted: the memories row, its own attestation, or the  *)
(* job it embeds.  Once the cascade of DELETE FROM memories is through,    *)
(* purge() has deleted every such row, so nobody has an anchor, and nobody *)
(* can get one; what the remaining statement scrubs can no longer grow.    *)
(***************************************************************************)
EXTENDS PurgeMemory, TLAPS

\* The tables whose rows purge() deletes for good and a write locks.
AnchorTables == {"memories", "memory_attestations", "embedding_jobs"}

\* What the cascade of DELETE FROM memories reaches, the memory included.
DerivedTables == AnchorTables \cup {"memory_revisions", "memory_dedup_keys", "memory_embeddings"}

\* The rows purge() has deleted and not committed.
Deleted == tx[Operator].del

\* Only keys and refusals are about to be inserted.
Harmless(rows) == \A r \in rows : r.table \in Spared

\* Nothing is locked and at most a key and a refusal are going to be written.
Bare(t) == t.upd = {} /\ t.share = {} /\ t.del = {} /\ Harmless(t.ins)

\* A committed row of the memory is locked that purge() has not deleted.
Anchored(t) == \E r \in (t.upd \cup t.share) \cap db : r.table \in AnchorTables /\ r \notin Deleted

\* What a transaction of a client or a worker may be about to commit.
GoodRows(t) ==
    /\ t.del \subseteq {DedupKey}
    /\ t.ins \cap {TheMemory, Predecessor} = {}
    /\ \A n \in Revs : Job(n) \in t.ins => Revision(n) \in t.ins
    /\ \A n \in Revs : Vector(n) \in t.ins => Job(n) \in (t.upd \cap db)

\* A transaction of a client or a worker.
GoodTx(t) ==
    /\ Bare(t) \/ Anchored(t)
    /\ GoodRows(t)
    /\ t.pc \in {"idle", "cas", "retire", "attest"} => Bare(t)
    /\ t.pc \in {"demote", "release"} =>
            t.upd = {TheMemory} /\ t.share = {} /\ t.del = {} /\ Harmless(t.ins)
    /\ t.pc \in {"cas", "demote"} => t.no \in Revs \ {MaxRev}
    /\ t.pc = "store" => t.no \in Revs /\ t.upd = {Job(t.no)} /\ t.share = {} /\ t.ins = {}

\* Rows of these tables that purge() has left.
Left(t, tables) == {r \in db \ t.del : r.table \in tables}

\* The statement has not deleted anything yet.
BeforeDelete(t) == t.pc \in {"begin", "lock"}

\* How far purge() has come.
GoodPurge(t) ==
    /\ t.upd = {} /\ t.share = {} /\ t.ins = {}
    /\ t.pc \in {"idle", "begin", "lock", "cascade", "commit"}
    /\ t.pc = "idle" => t.del = {}
    /\ t.pc = "commit" <=> t.step = 9
    /\ t.pc # "idle" => TheMemory \in db
    /\ t.step < 7 \/ (t.step = 7 /\ BeforeDelete(t)) => TheMemory \notin t.del
    /\ t.step = 6 /\ t.pc = "lock" => Left(t, {"superseded_by"}) \subseteq t.snap
    /\ t.step > 6 \/ (t.step = 6 /\ t.pc = "cascade") => Left(t, {"superseded_by"}) = {}
    /\ t.step < 7 /\ t.pc \in {"lock", "cascade"} => TheMemory \notin t.snap
    /\ t.step = 7 /\ t.pc \in {"lock", "cascade"} => t.snap = {TheMemory}
    /\ t.step = 7 /\ t.pc = "cascade" => TheMemory \in t.del
    /\ t.step > 7 => Left(t, DerivedTables) = {}
    /\ t.step = 8 /\ t.pc = "lock" => Left(t, {"audit_events"}) \subseteq t.snap
    /\ t.step > 8 \/ (t.step = 8 /\ t.pc = "cascade") => Left(t, {"audit_events"}) = {}

\* A job and a vector belong to a revision that is there.
References == \A n \in Revs : Job(n) \in db \/ Vector(n) \in db => Revision(n) \in db

\* The inductive invariant.
IInv ==
    /\ TypeOK
    /\ References
    /\ ClearedTablesStayClear
    /\ \A a \in Clients \cup Workers : GoodTx(tx[a])
    /\ GoodPurge(tx[Operator])

-----------------------------------------------------------------------------
(***************************************************************************)
(* Rows and tables.                                                        *)
(***************************************************************************)

\* A row knows its table and its id.
LEMMA RowFacts ==
    /\ TheMemory.table = "memories" /\ Predecessor.table = "superseded_by"
    /\ DedupKey.table = "memory_dedup_keys"
    /\ \A n : /\ Revision(n).table = "memory_revisions" /\ Revision(n).id = n
              /\ Job(n).table = "embedding_jobs" /\ Job(n).id = n
              /\ Vector(n).table = "memory_embeddings" /\ Vector(n).id = n
    /\ \A c : /\ Attestation(c).table = "memory_attestations" /\ Audit(c).table = "audit_events"
              /\ Refusal(c).table = "refused_audit_events" /\ KeyOf(c).table = "idempotency_keys"
  BY DEF Row, TheMemory, Predecessor, DedupKey, Revision, Job, Vector, Attestation, Audit, Refusal,
         KeyOf

\* The rows of the model.
LEMMA RowMembers ==
    /\ {TheMemory, Predecessor, DedupKey} \subseteq Rows
    /\ \A n \in Revs : Revision(n) \in Rows /\ Job(n) \in Rows /\ Vector(n) \in Rows
    /\ \A c \in Clients : Attestation(c) \in Rows /\ Audit(c) \in Rows /\ Refusal(c) \in Rows
    /\ \A c \in Clients : KeysOf(c) \in SUBSET Rows
  BY DEF Rows, KeysOf

\* What is harmless is none of the rows that purge() is about.
LEMMA HarmlessRows ==
    /\ \A c : Harmless(KeysOf(c)) /\ Harmless({Refusal(c)})
    /\ Harmless({})
    /\ \A S, T : Harmless(S) /\ Harmless(T) => Harmless(S \cup T)
    /\ \A S : Harmless(S) => /\ S \cap {TheMemory, Predecessor} = {}
                             /\ \A n : Revision(n) \notin S /\ Job(n) \notin S /\ Vector(n) \notin S
  BY RowFacts DEF Harmless, Spared, KeysOf

\* A row of the model is one of these.
LEMMA RowCases ==
    ASSUME NEW r \in Rows
    PROVE  \/ r \in {TheMemory, Predecessor, DedupKey}
           \/ \E n \in Revs : r = Revision(n) \/ r = Job(n) \/ r = Vector(n)
           \/ \E c \in Clients : r = Attestation(c) \/ r = Audit(c) \/ r = Refusal(c) \/ r = KeyOf(c)
  BY DEF Rows

\* The tables of the rows, and which rows a table can hold.
LEMMA RowsOf ==
    ASSUME NEW r \in Rows
    PROVE  /\ r.table \in DerivedTables \cup Spared \cup {"superseded_by", "audit_events"}
           /\ r.table = "memories" => r = TheMemory
           /\ r.table = "superseded_by" => r = Predecessor
           /\ r.table = "memory_dedup_keys" => r = DedupKey
           /\ r.table = "memory_revisions" => \E n \in Revs : r = Revision(n)
           /\ r.table = "embedding_jobs" => \E n \in Revs : r = Job(n)
           /\ r.table = "memory_embeddings" => \E n \in Revs : r = Vector(n)
  BY RowCases, RowFacts DEF DerivedTables, AnchorTables, Spared

\* Cascades stay among the derived tables and never reach the memory itself.
LEMMA CascadeStays ==
    ASSUME NEW S, TypeOK
    PROVE  /\ Dependents(S) \subseteq db
           /\ TheMemory \notin Dependents(S)
  <1>1. ASSUME NEW row PROVE Children(row) \subseteq db /\ TheMemory \notin Children(row)
    <2>1. CASE row.table = "memories"
      BY <2>1, RowFacts DEF Children
    <2>2. CASE row.table = "memory_revisions"
      BY <2>2, RowFacts DEF Children
    <2>3. CASE row.table \notin {"memories", "memory_revisions"}
      BY <2>3 DEF Children
    <2> QED
      BY <2>1, <2>2, <2>3
  <1> QED
    BY <1>1 DEF Dependents, ChildrenOf

\* The cascade of DELETE FROM memories reaches every derived row.
LEMMA CascadeReaches ==
    ASSUME TypeOK, References, NEW r \in db, r.table \in DerivedTables, r # TheMemory
    PROVE  r \in Dependents({TheMemory})
  <1>0. r \in Rows
    BY DEF TypeOK
  <1>1. ChildrenOf({TheMemory}) = {x \in db : x.table \in {"memory_revisions", "memory_dedup_keys",
                                                         "memory_attestations"}}
    BY RowFacts DEF ChildrenOf, Children
  <1>2. CASE r.table \in {"memory_revisions", "memory_dedup_keys", "memory_attestations"}
    BY <1>1, <1>2 DEF Dependents
  <1>3. ASSUME NEW n \in Revs, r = Job(n) \/ r = Vector(n) PROVE r \in Dependents({TheMemory})
    <2>1. Revision(n) \in ChildrenOf({TheMemory})
      BY <1>1, <1>3, RowFacts DEF References
    <2>2. Children(Revision(n)) = {Job(n), Vector(n)} \cap db
      BY RowFacts DEF Children
    <2> QED
      BY <1>3, <2>1, <2>2 DEF Dependents, ChildrenOf
  <1> QED
    BY <1>0, <1>2, <1>3, RowsOf DEF DerivedTables, AnchorTables

-----------------------------------------------------------------------------
(***************************************************************************)
(* Steps of one transaction.                                               *)
(***************************************************************************)

\* No transaction: nothing locked, nothing deleted, nothing inserted.
LEMMA NoTxFacts ==
    /\ NoTx \in Tx
    /\ NoTx.pc = "idle" /\ NoTx.no = 0 /\ NoTx.step = 1
    /\ NoTx.upd = {} /\ NoTx.share = {} /\ NoTx.del = {} /\ NoTx.ins = {} /\ NoTx.snap = {}
  BY MaxRevAssumption DEF NoTx, Tx

\* ... is good for everybody.
LEMMA NoTxGood == GoodTx(NoTx) /\ GoodPurge(NoTx)
  <1>1. GoodTx(NoTx)
    BY NoTxFacts, HarmlessRows DEF GoodTx, Bare, GoodRows
  <1>2. GoodPurge(NoTx)
    BY NoTxFacts DEF GoodPurge, BeforeDelete
  <1> QED
    BY <1>1, <1>2

\* The operator is neither a client nor a worker.
LEMMA OperatorApart ==
    /\ Operator \in Actors /\ Others(Operator) = Clients \cup Workers
    /\ \A a \in Clients \cup Workers : a \in Actors /\ a # Operator /\ Operator \in Others(a)
  BY ActorAssumption DEF Actors, Others

\* The memory is all there is at first.
LEMMA InitIInv == Init => IInv
  <1> SUFFICES ASSUME Init PROVE IInv
    OBVIOUS
  <1>1. PICK c \in Clients :
            db = {TheMemory, Predecessor, DedupKey, Revision(1), Job(1), Attestation(c), Audit(c)}
                 \cup KeysOf(c)
    BY DEF Init
  <1>2. 1 \in Revs
    BY MaxRevAssumption DEF Revs
  <1>3. db \subseteq Rows
    BY <1>1, <1>2, RowMembers
  <1>4. TypeOK
    BY <1>3, NoTxFacts DEF Init, TypeOK
  <1>5. References
    <2> SUFFICES ASSUME NEW n \in Revs, Job(n) \in db \/ Vector(n) \in db PROVE Revision(n) \in db
      BY DEF References
    <2>0. Vector(n) \notin KeysOf(c) /\ Job(n) \notin KeysOf(c)
      BY HarmlessRows
    <2>1. Vector(n) \notin db
      BY <1>1, <2>0, RowFacts
    <2>2. n = 1
      BY <1>1, <2>0, <2>1, RowFacts
    <2> QED
      BY <1>1, <2>2
  <1>6. ClearedTablesStayClear
    BY <1>1 DEF ClearedTablesStayClear
  <1>7. \A a \in Actors : tx[a] = NoTx
    BY DEF Init
  <1> QED
    BY <1>4, <1>5, <1>6, <1>7, NoTxGood, OperatorApart DEF IInv

\* A client or a worker goes on: its own transaction has to stay good.
LEMMA OneTx ==
    ASSUME IInv, NEW a \in Clients \cup Workers, NEW t \in Tx, Become(a, t), GoodTx(t)
    PROVE  IInv'
  <1>1. /\ db' = db /\ active' = active /\ tx' \in [Actors -> Tx] /\ tx'[a] = t
        /\ \A b \in Actors \ {a} : tx'[b] = tx[b]
    BY OperatorApart DEF IInv, TypeOK, Become
  <1>2. tx'[Operator] = tx[Operator]
    BY <1>1, OperatorApart
  <1>3. TypeOK' /\ References' /\ ClearedTablesStayClear'
    BY <1>1 DEF IInv, TypeOK, References, ClearedTablesStayClear
  <1>4. \A b \in Clients \cup Workers : GoodTx(tx'[b])
    BY <1>1, OperatorApart DEF IInv
  <1>5. \A b \in Clients \cup Workers : GoodTx(tx[b])'
    BY <1>1, <1>2, <1>4 DEF GoodTx, Bare, Anchored, GoodRows, Deleted
  <1>6. GoodPurge(tx[Operator])'
    BY <1>1, <1>2 DEF IInv, GoodPurge, Left, BeforeDelete
  <1> QED
    BY <1>3, <1>5, <1>6 DEF IInv

\* purge() goes on: whatever it deletes is nobody's anchor.
LEMMA OnePurge ==
    ASSUME IInv, NEW t \in Tx, Become(Operator, t), GoodPurge(t),
           \A a \in Clients \cup Workers : t.del \cap (tx[a].upd \cup tx[a].share) \subseteq Deleted
    PROVE  IInv'
  <1>1. /\ db' = db /\ active' = active /\ tx' \in [Actors -> Tx] /\ tx'[Operator] = t
        /\ \A b \in Actors \ {Operator} : tx'[b] = tx[b]
    BY OperatorApart DEF IInv, TypeOK, Become
  <1>2. TypeOK' /\ References' /\ ClearedTablesStayClear'
    BY <1>1 DEF IInv, TypeOK, References, ClearedTablesStayClear
  <1>3. ASSUME NEW b \in Clients \cup Workers PROVE GoodTx(tx[b])'
    <2>1. tx'[b] = tx[b] /\ GoodTx(tx[b])
      BY <1>1, OperatorApart DEF IInv
    <2>2. Bare(tx[b]) => Bare(tx[b])'
      BY <2>1 DEF Bare
    <2>3. Anchored(tx[b]) => Anchored(tx[b])'
      BY <1>1, <2>1 DEF Anchored, Deleted
    <2>4. GoodRows(tx[b])'
      BY <1>1, <2>1 DEF GoodTx, GoodRows
    <2> QED
      BY <2>1, <2>2, <2>3, <2>4 DEF GoodTx
  <1>4. GoodPurge(tx[Operator])'
    BY <1>1 DEF GoodPurge, Left, BeforeDelete
  <1> QED
    BY <1>2, <1>3, <1>4 DEF IInv

\* A rollback, or a tool that gives up.
LEMMA GiveUp ==
    ASSUME IInv, NEW a \in Actors, Become(a, NoTx)
    PROVE  IInv'
  <1>1. CASE a = Operator
    BY <1>1, NoTxFacts, NoTxGood, OnePurge
  <1>2. CASE a \in Clients \cup Workers
    BY <1>2, NoTxFacts, NoTxGood, OneTx
  <1> QED
    BY <1>1, <1>2 DEF Actors

-----------------------------------------------------------------------------
(***************************************************************************)
(* One lemma for each statement of the tools.                              *)
(***************************************************************************)

\* A transaction that has claimed its key, if any, and read.
LEMMA Opens ==
    ASSUME IInv, NEW c \in Clients, NEW t \in Tx, Become(c, t), t.pc \in {"cas", "retire", "attest"},
           t.pc = "cas" => t.no \in Revs \ {MaxRev},
           t.upd = {}, t.share = {}, t.del = {}, Harmless(t.ins)
    PROVE  IInv'
  <1>1. GoodTx(t)
    BY HarmlessRows DEF GoodTx, Bare, GoodRows
  <1> QED
    BY <1>1, OneTx

\* revise(), forget() and remember() read first.
LEMMA ReadsIInv ==
    ASSUME IInv, NEW c \in Clients, Revise(c) \/ Retire(c) \/ Duplicate(c)
    PROVE  IInv'
  <1>1. ASSUME NEW n \in Revisions(db) \ {MaxRev},
               Become(c, [NoTx EXCEPT !.pc = "cas", !.no = n, !.ins = KeysOf(c)])
        PROVE  IInv'
    <2> DEFINE t == [NoTx EXCEPT !.pc = "cas", !.no = n, !.ins = KeysOf(c)]
    <2>1. n \in Revs \ {MaxRev} /\ n \in 0 .. MaxRev
      BY MaxRevAssumption DEF Revisions, Revs
    <2>2. /\ t \in Tx /\ t.pc = "cas" /\ t.no = n
          /\ t.upd = {} /\ t.share = {} /\ t.del = {} /\ t.ins = KeysOf(c)
      BY <2>1, NoTxFacts, RowMembers DEF Tx
    <2>3. Become(c, t)
      BY <1>1
    <2> HIDE DEF t
    <2> QED
      BY <2>1, <2>2, <2>3, Opens, HarmlessRows
  <1>2. ASSUME Become(c, [NoTx EXCEPT !.pc = "attest", !.ins = KeysOf(c)])
        PROVE  IInv'
    <2> DEFINE t == [NoTx EXCEPT !.pc = "attest", !.ins = KeysOf(c)]
    <2>1. /\ t \in Tx /\ t.pc = "attest" /\ t.upd = {} /\ t.share = {} /\ t.del = {}
          /\ t.ins = KeysOf(c)
      BY NoTxFacts, RowMembers DEF Tx
    <2>2. Become(c, t)
      BY <1>2
    <2> HIDE DEF t
    <2> QED
      BY <2>1, <2>2, Opens, HarmlessRows
  <1>3. ASSUME Become(c, [NoTx EXCEPT !.pc = "retire"])
        PROVE  IInv'
    <2> DEFINE t == [NoTx EXCEPT !.pc = "retire"]
    <2>1. t \in Tx /\ t.pc = "retire" /\ t.upd = {} /\ t.share = {} /\ t.del = {} /\ t.ins = {}
      BY NoTxFacts DEF Tx
    <2>2. Become(c, t)
      BY <1>3
    <2> HIDE DEF t
    <2> QED
      BY <2>1, <2>2, Opens, HarmlessRows
  <1> QED
    BY <1>1, <1>2, <1>3 DEF Revise, Retire, Duplicate

\* A client's transaction is a good one.
LEMMA GoodOne ==
    ASSUME IInv, NEW a \in Clients \cup Workers
    PROVE  tx[a] \in Tx /\ GoodTx(tx[a])
  BY OperatorApart DEF IInv, TypeOK

\* Refused: the audit row of the refusal, and no lock.
LEMMA Refused ==
    ASSUME IInv, NEW c \in Clients, tx[c].pc \in {"cas", "retire"},
           Become(c, [tx[c] EXCEPT !.pc = "commit", !.ins = tx[c].ins \cup {Refusal(c)}])
    PROVE  IInv'
  <1> DEFINE I == tx[c].ins \cup {Refusal(c)}
             t == [tx[c] EXCEPT !.pc = "commit", !.ins = I]
  <1>1. tx[c] \in Tx /\ GoodTx(tx[c]) /\ Bare(tx[c])
    BY GoodOne DEF GoodTx
  <1>2. I \in SUBSET Rows /\ Harmless(I)
    BY <1>1, RowMembers, HarmlessRows DEF Tx, Bare
  <1>3. Become(c, t)
    OBVIOUS
  <1> HIDE DEF I
  <1>4. /\ t \in Tx /\ t.pc = "commit" /\ t.ins = I
        /\ t.upd = {} /\ t.share = {} /\ t.del = {}
    BY <1>1, <1>2 DEF Tx, Bare
  <1> HIDE DEF t
  <1>5. Bare(t)
    BY <1>2, <1>4 DEF Bare
  <1>6. GoodRows(t)
    BY <1>2, <1>4, HarmlessRows DEF GoodRows
  <1>7. GoodTx(t)
    BY <1>4, <1>5, <1>6 DEF GoodTx
  <1> QED
    BY <1>3, <1>4, <1>7, OneTx

\* The UPDATE of memories locks the memory, which purge() has not deleted.
LEMMA Updates ==
    ASSUME IInv, NEW c \in Clients, NEW p \in {"demote", "release"},
           tx[c].pc = IF p = "demote" THEN "cas" ELSE "retire",
           TheMemory \in db, CanUpdate(c, TheMemory),
           Become(c, [tx[c] EXCEPT !.pc = p, !.upd = {TheMemory}])
    PROVE  IInv'
  <1> DEFINE t == [tx[c] EXCEPT !.pc = p, !.upd = {TheMemory}]
  <1>1. tx[c] \in Tx /\ GoodTx(tx[c]) /\ Bare(tx[c])
    BY GoodOne DEF GoodTx
  <1>2. {TheMemory} \in SUBSET Rows
    BY RowMembers
  <1>3. /\ t \in Tx /\ t.pc = p /\ t.no = tx[c].no /\ t.upd = {TheMemory}
        /\ Harmless(t.ins) /\ t.share = {} /\ t.del = {}
    BY <1>1, <1>2 DEF Tx, Bare
  <1> HIDE DEF t
  <1>4. TheMemory \notin Deleted
    BY OperatorApart DEF CanUpdate, Deleted
  <1>5. Anchored(t)
    BY <1>3, <1>4, RowFacts DEF Anchored, AnchorTables
  <1>6. GoodRows(t)
    BY <1>3, HarmlessRows DEF GoodRows
  <1>7. GoodTx(t)
    BY <1>1, <1>3, <1>5, <1>6 DEF GoodTx
  <1> QED
    BY <1>3, <1>7, OneTx DEF t

\* compare_and_set().
LEMMA CompareAndSetIInv ==
    ASSUME IInv, NEW c \in Clients, CompareAndSet(c)
    PROVE  IInv'
  BY Updates, Refused, GiveUp, OperatorApart DEF CompareAndSet, At

\* The UPDATE of a retirement.
LEMMA TombstoneIInv ==
    ASSUME IInv, NEW c \in Clients, Tombstone(c)
    PROVE  IInv'
  BY Updates, Refused DEF Tombstone, At

\* The new revision comes with its job, under the lock on the memory.
LEMMA AppendIInv ==
    ASSUME IInv, NEW c \in Clients, AppendRevision(c)
    PROVE  IInv'
  <1> DEFINE old == tx[c].no
             U == tx[c].upd \cup {Revision(old)}
             I == tx[c].ins \cup {Revision(old + 1), Job(old + 1), Audit(c)}
             t == [tx[c] EXCEPT !.pc = "commit", !.upd = U, !.ins = I]
  <1>1. /\ tx[c] \in Tx /\ GoodTx(tx[c]) /\ tx[c].pc = "demote"
        /\ old \in Revs \ {MaxRev} /\ tx[c].upd = {TheMemory} /\ Harmless(tx[c].ins)
    BY GoodOne DEF GoodTx, AppendRevision, At
  <1>2. old + 1 \in Revs /\ old \in Revs
    BY <1>1, MaxRevAssumption DEF Revs
  <1>3. U \in SUBSET Rows /\ I \in SUBSET Rows /\ TheMemory \in U
    BY <1>1, <1>2, RowMembers DEF Tx
  <1>4. Become(c, t)
    BY DEF AppendRevision
  <1>5. /\ \A n \in Revs : Job(n) \in I => Revision(n) \in I
        /\ \A n \in Revs : Vector(n) \notin I
        /\ I \cap {TheMemory, Predecessor} = {}
    BY <1>1, RowFacts, HarmlessRows
  <1> HIDE DEF U, I
  <1>6. t \in Tx /\ t.pc = "commit" /\ t.upd = U /\ t.ins = I /\ t.del = tx[c].del
    BY <1>1, <1>3 DEF Tx
  <1> HIDE DEF t
  <1>7. TheMemory \in db /\ TheMemory \notin Deleted
    BY <1>1, RowFacts DEF GoodTx, Bare, Anchored, GoodPurge
  <1>8. Anchored(t)
    BY <1>3, <1>6, <1>7, RowFacts DEF Anchored, AnchorTables
  <1>9. GoodRows(t)
    BY <1>1, <1>5, <1>6 DEF GoodTx, GoodRows
  <1>10. GoodTx(t)
    BY <1>6, <1>8, <1>9 DEF GoodTx
  <1> QED
    BY <1>4, <1>6, <1>10, OneTx

\* The dedup key is released under the lock on the memory.
LEMMA ReleaseIInv ==
    ASSUME IInv, NEW c \in Clients, Release(c)
    PROVE  IInv'
  <1> DEFINE D == {DedupKey} \cap db
             t == [tx[c] EXCEPT !.pc = "commit", !.del = D, !.ins = {Audit(c)}]
  <1>1. /\ tx[c] \in Tx /\ GoodTx(tx[c]) /\ tx[c].pc = "release"
        /\ tx[c].upd = {TheMemory} /\ tx[c].share = {}
    BY GoodOne DEF GoodTx, Release, At
  <1>2. D \in SUBSET Rows /\ D \subseteq {DedupKey} /\ {Audit(c)} \in SUBSET Rows
    BY RowMembers
  <1>3. Become(c, t)
    BY DEF Release
  <1> HIDE DEF D
  <1>4. t \in Tx /\ t.pc = "commit" /\ t.upd = {TheMemory} /\ t.del = D /\ t.ins = {Audit(c)}
    BY <1>1, <1>2 DEF Tx
  <1> HIDE DEF t
  <1>5. TheMemory \in db /\ TheMemory \notin Deleted
    BY <1>1, RowFacts DEF GoodTx, Bare, Anchored
  <1>6. Anchored(t)
    BY <1>4, <1>5, RowFacts DEF Anchored, AnchorTables
  <1>7. GoodRows(t)
    BY <1>2, <1>4, RowFacts DEF GoodRows
  <1>8. GoodTx(t)
    BY <1>4, <1>6, <1>7 DEF GoodTx
  <1> QED
    BY <1>3, <1>4, <1>8, OneTx

\* An attestation locks its own row, or the memory through the foreign key.
LEMMA AttestIInv ==
    ASSUME IInv, NEW c \in Clients, Attest(c)
    PROVE  IInv'
  <1> DEFINE mine == Attestation(c)
  <1>1. /\ tx[c] \in Tx /\ GoodTx(tx[c]) /\ Bare(tx[c]) /\ tx[c].pc = "attest"
        /\ CanUpdate(c, mine)
    BY GoodOne DEF GoodTx, Attest, At
  <1>2. mine \in Rows /\ TheMemory \in Rows /\ Audit(c) \in Rows /\ mine.table \in AnchorTables
        /\ TheMemory.table \in AnchorTables
    BY RowMembers, RowFacts DEF AnchorTables
  <1>3. ASSUME mine \in db,
               Become(c, [tx[c] EXCEPT !.pc = "commit", !.upd = {mine},
                                       !.ins = tx[c].ins \cup {Audit(c)}])
        PROVE  IInv'
    <2> DEFINE I == tx[c].ins \cup {Audit(c)}
               t == [tx[c] EXCEPT !.pc = "commit", !.upd = {mine}, !.ins = I]
    <2>7. /\ I \in SUBSET Rows
          /\ \A n \in Revs : Job(n) \notin I /\ Vector(n) \notin I
          /\ I \cap {TheMemory, Predecessor} = {}
      BY <1>1, <1>2, RowFacts, HarmlessRows DEF Tx, Bare
    <2>2. Become(c, t)
      BY <1>3
    <2> HIDE DEF I
    <2>1. t \in Tx /\ t.pc = "commit" /\ t.upd = {mine} /\ t.del = {} /\ t.ins = I
      BY <1>1, <1>2, <2>7 DEF Tx, Bare
    <2> HIDE DEF t
    <2>3. mine \notin Deleted
      BY <1>1, OperatorApart DEF CanUpdate, Deleted
    <2>4. Anchored(t)
      BY <1>2, <1>3, <2>1, <2>3 DEF Anchored
    <2>5. GoodRows(t)
      BY <2>1, <2>7 DEF GoodRows
    <2>6. GoodTx(t)
      BY <2>1, <2>4, <2>5 DEF GoodTx
    <2> QED
      BY <2>1, <2>2, <2>6, OneTx
  <1>4. ASSUME CanShare(c, TheMemory), TheMemory \in db,
               Become(c, [tx[c] EXCEPT !.pc = "commit", !.share = {TheMemory},
                                       !.ins = tx[c].ins \cup {mine, Audit(c)}])
        PROVE  IInv'
    <2> DEFINE I == tx[c].ins \cup {mine, Audit(c)}
               t == [tx[c] EXCEPT !.pc = "commit", !.share = {TheMemory}, !.ins = I]
    <2>1. I \in SUBSET Rows
      BY <1>1, <1>2 DEF Tx
    <2>2. /\ \A n \in Revs : Job(n) \notin I /\ Vector(n) \notin I
          /\ I \cap {TheMemory, Predecessor} = {}
      BY <1>1, RowFacts, HarmlessRows DEF Bare
    <2>3. Become(c, t)
      BY <1>4
    <2> HIDE DEF I
    <2>4. t \in Tx /\ t.pc = "commit" /\ t.share = {TheMemory} /\ t.del = {} /\ t.ins = I
      BY <1>1, <1>2, <2>1 DEF Tx, Bare
    <2> HIDE DEF t
    <2>5. TheMemory \notin Deleted
      BY <1>4, OperatorApart DEF CanShare, Deleted
    <2>6. Anchored(t)
      BY <1>2, <1>4, <2>4, <2>5 DEF Anchored
    <2>7. GoodRows(t)
      BY <2>2, <2>4 DEF GoodRows
    <2>8. GoodTx(t)
      BY <2>4, <2>6, <2>7 DEF GoodTx
    <2> QED
      BY <2>3, <2>4, <2>8, OneTx
  <1>5. ASSUME Become(c, NoTx) PROVE IInv'
    BY <1>5, GiveUp, OperatorApart
  <1> QED
    BY <1>3, <1>4, <1>5 DEF Attest

\* A worker holds the job it embeds until it commits the vector.
LEMMA WorkerIInv ==
    ASSUME IInv, NEW w \in Workers, Claim(w) \/ Store(w)
    PROVE  IInv'
  <1>1. ASSUME NEW n \in Revs, Job(n) \in db, CanDelete(w, {Job(n)}),
               Become(w, [NoTx EXCEPT !.pc = "store", !.no = n, !.upd = {Job(n)}])
        PROVE  IInv'
    <2> DEFINE t == [NoTx EXCEPT !.pc = "store", !.no = n, !.upd = {Job(n)}]
    <2>1. n \in 0 .. MaxRev /\ {Job(n)} \in SUBSET Rows /\ Job(n).table \in AnchorTables
      BY RowMembers, RowFacts, MaxRevAssumption DEF Revs, AnchorTables
    <2>2. /\ t \in Tx /\ t.pc = "store" /\ t.no = n /\ t.upd = {Job(n)}
          /\ t.share = {} /\ t.del = {} /\ t.ins = {}
      BY <2>1, NoTxFacts DEF Tx
    <2>3. Become(w, t)
      BY <1>1
    <2> HIDE DEF t
    <2>4. Job(n) \notin Deleted
      BY <1>1, OperatorApart DEF CanDelete, Deleted
    <2>5. Anchored(t)
      BY <1>1, <2>1, <2>2, <2>4 DEF Anchored
    <2>6. GoodTx(t)
      BY <2>2, <2>5 DEF GoodTx, GoodRows
    <2> QED
      BY <2>2, <2>3, <2>6, OneTx
  <1>2. CASE Store(w)
    <2> DEFINE n == tx[w].no
               t == [tx[w] EXCEPT !.pc = "commit", !.share = {Revision(n)}, !.ins = {Vector(n)}]
    <2>1. /\ tx[w] \in Tx /\ GoodTx(tx[w]) /\ tx[w].pc = "store"
          /\ n \in Revs /\ tx[w].upd = {Job(n)} /\ tx[w].del \subseteq {DedupKey}
      BY <1>2, GoodOne DEF GoodTx, GoodRows, Store, At
    <2>2. {Revision(n)} \in SUBSET Rows /\ {Vector(n)} \in SUBSET Rows
      BY <2>1, RowMembers
    <2>3. Become(w, t)
      BY <1>2 DEF Store
    <2>4. /\ t \in Tx /\ t.pc = "commit" /\ t.upd = {Job(n)} /\ t.share = {Revision(n)}
          /\ t.del = tx[w].del /\ t.ins = {Vector(n)}
      BY <2>1, <2>2 DEF Tx
    <2> HIDE DEF t
    <2>5. Job(n) \in db /\ Job(n) \notin Deleted
      <3>1. Anchored(tx[w]) /\ tx[w].share = {}
        BY <2>1 DEF GoodTx, Bare
      <3> QED
        BY <2>1, <3>1 DEF Anchored
    <2>6. Anchored(t)
      BY <2>4, <2>5, RowFacts DEF Anchored, AnchorTables
    <2>7. GoodRows(t)
      BY <2>1, <2>4, <2>5, RowFacts DEF GoodRows
    <2>8. GoodTx(t)
      BY <2>4, <2>6, <2>7 DEF GoodTx
    <2> QED
      BY <2>3, <2>4, <2>8, OneTx
  <1> QED
    BY <1>1, <1>2 DEF Claim

-----------------------------------------------------------------------------
(***************************************************************************)
(* Commits.                                                                *)
(***************************************************************************)

\* Nobody has an anchor once the memory is gone, or the cascade is through.
LEMMA NoAnchors ==
    ASSUME IInv, TheMemory \notin db \/ tx[Operator].step > 7, NEW a \in Clients \cup Workers
    PROVE  Bare(tx[a])
  <1>1. ~Anchored(tx[a])
    <2>1. CASE TheMemory \notin db
      BY <2>1 DEF IInv, ClearedTablesStayClear, Anchored, AnchorTables, Spared
    <2>2. CASE tx[Operator].step > 7
      BY <2>2 DEF IInv, GoodPurge, Left, Anchored, DerivedTables, Deleted
    <2> QED
      BY <2>1, <2>2
  <1> QED
    BY <1>1 DEF IInv, GoodTx

\* session_scope() of a client or a worker.
LEMMA CommitIInv ==
    ASSUME IInv, NEW a \in Clients \cup Workers, Commit(a)
    PROVE  IInv'
  <1> DEFINE D == tx[a].del
             I == tx[a].ins
             o == tx[Operator]
  <1>1. tx[a] \in Tx /\ GoodRows(tx[a]) /\ D \subseteq {DedupKey} /\ I \in SUBSET Rows
    BY GoodOne DEF GoodTx, GoodRows, Tx
  <1>2. db' = (db \ D) \cup I /\ active' \in BOOLEAN
    BY DEF Commit, Retires, IInv, TypeOK
  <1>3. /\ tx' \in [Actors -> Tx] /\ tx'[a] = NoTx
        /\ \A b \in Actors \ {a} : tx'[b] = tx[b]
    BY OperatorApart, NoTxFacts DEF Commit, IInv, TypeOK
  <1>4. o' = o
    BY <1>3, OperatorApart
  <1>5. /\ \A r \in db : r.table # "memory_dedup_keys" => r \in db'
        /\ \A r \in db' : r \in db \/ r \in I
    BY <1>1, <1>2, RowFacts
  <1>6. TypeOK'
    BY <1>1, <1>2, <1>3 DEF IInv, TypeOK
  <1>7. References'
    <2> SUFFICES ASSUME NEW n \in Revs, Job(n) \in db' \/ Vector(n) \in db' PROVE Revision(n) \in db'
      BY DEF References
    <2>1. Revision(n) \in db \/ Revision(n) \in I
      BY <1>1, <1>5 DEF IInv, References, GoodRows
    <2> QED
      BY <1>2, <1>5, <2>1, RowFacts
  <1>8. ClearedTablesStayClear'
    <2> SUFFICES ASSUME TheMemory \notin db' PROVE \A r \in db' : r.table \in Spared
      BY DEF ClearedTablesStayClear
    <2>1. TheMemory \notin db
      BY <1>5, RowFacts
    <2>2. Bare(tx[a])
      BY <2>1, NoAnchors
    <2> QED
      BY <1>5, <2>1, <2>2 DEF IInv, ClearedTablesStayClear, Bare, Harmless
  <1>9. ASSUME NEW b \in Clients \cup Workers PROVE GoodTx(tx[b])'
    <2>1. CASE b = a
      BY <1>3, <2>1, NoTxFacts, HarmlessRows DEF GoodTx, Bare, GoodRows
    <2>2. CASE b # a
      <3>1. tx'[b] = tx[b] /\ GoodTx(tx[b])
        BY <1>3, <2>2, OperatorApart DEF IInv
      <3>2. Bare(tx[b]) => Bare(tx[b])'
        BY <3>1 DEF Bare
      <3>3. Anchored(tx[b]) => Anchored(tx[b])'
        BY <1>4, <1>5, <3>1 DEF Anchored, Deleted, AnchorTables
      <3>4. GoodRows(tx[b])'
        BY <1>5, <3>1, RowFacts DEF GoodTx, GoodRows
      <3> QED
        BY <3>1, <3>2, <3>3, <3>4 DEF GoodTx
    <2> QED
      BY <2>1, <2>2
  <1>10. GoodPurge(o)'
    <2>1. GoodPurge(o)
      BY DEF IInv
    <2>2. TheMemory \in db => TheMemory \in db'
      BY <1>5, RowFacts
    <2>3. Left(o, {"superseded_by"})' \subseteq Left(o, {"superseded_by"})
      <3>1. \A r \in I : r.table # "superseded_by"
        BY <1>1, RowsOf DEF GoodRows
      <3> QED
        BY <1>4, <1>5, <3>1 DEF Left
    <2>4. o.step > 7 => /\ Left(o, DerivedTables)' \subseteq Left(o, DerivedTables)
                        /\ Left(o, {"audit_events"})' \subseteq Left(o, {"audit_events"})
      <3>1. o.step > 7 => \A r \in I : r.table \in Spared
        BY NoAnchors DEF Bare, Harmless
      <3> QED
        BY <1>4, <1>5, <3>1 DEF Left, DerivedTables, AnchorTables, Spared
    <2>5. o.step \in Nat
      BY OperatorApart DEF IInv, TypeOK, Tx
    <2> HIDE DEF o
    <2> QED
      BY <1>4, <2>1, <2>2, <2>3, <2>4, <2>5 DEF GoodPurge, BeforeDelete
  <1> QED
    BY <1>6, <1>7, <1>8, <1>9, <1>10 DEF IInv

\* The sweep takes a key, which nothing else depends on.
LEMMA SweepIInv ==
    ASSUME IInv, NEW c \in Clients, SweepKey(c)
    PROVE  IInv'
  <1>1. db' = db \ {KeyOf(c)} /\ active' = active /\ tx' = tx
    BY DEF SweepKey
  <1>2. /\ \A r \in db' : r \in db
        /\ \A r \in db : r.table # "idempotency_keys" => r \in db'
    BY <1>1, RowFacts
  <1>3. TypeOK'
    BY <1>1 DEF IInv, TypeOK
  <1>4. References' /\ ClearedTablesStayClear'
    BY <1>2, RowFacts DEF IInv, References, ClearedTablesStayClear
  <1>5. ASSUME NEW a \in Clients \cup Workers PROVE GoodTx(tx[a])'
    <2>1. GoodTx(tx[a])
      BY DEF IInv
    <2>2. Anchored(tx[a]) => Anchored(tx[a])'
      BY <1>1, <1>2 DEF Anchored, Deleted, AnchorTables
    <2>3. GoodRows(tx[a]) => GoodRows(tx[a])'
      BY <1>1, <1>2, RowFacts DEF GoodRows
    <2>4. Bare(tx[a]) => Bare(tx[a])'
      BY <1>1 DEF Bare
    <2> QED
      BY <1>1, <2>1, <2>2, <2>3, <2>4 DEF GoodTx
  <1>6. GoodPurge(tx[Operator])'
    <2> DEFINE o == tx[Operator]
    <2>1. GoodPurge(o) /\ o' = o
      BY <1>1 DEF IInv
    <2>2. TheMemory \in db => TheMemory \in db'
      BY <1>2, RowFacts
    <2>3. \A T : Left(o, T)' \subseteq Left(o, T)
      BY <1>1 DEF Left
    <2> QED
      BY <1>1, <2>1, <2>2, <2>3 DEF GoodPurge, BeforeDelete
  <1> QED
    BY <1>3, <1>4, <1>5, <1>6 DEF IInv

\* purge() commits: what it has left are keys and refusals.
LEMMA PurgeCommitIInv ==
    ASSUME IInv, Commit(Operator)
    PROVE  IInv'
  <1> DEFINE o == tx[Operator]
  <1>1. /\ o \in Tx /\ GoodPurge(o) /\ o.step = 9 /\ o.ins = {} /\ db \subseteq Rows
    BY OperatorApart DEF IInv, TypeOK, Commit, At, GoodPurge
  <1>2. db' = db \ o.del /\ active' \in BOOLEAN
    BY <1>1 DEF Commit, Retires, IInv, TypeOK
  <1>3. /\ tx' \in [Actors -> Tx] /\ tx'[Operator] = NoTx
        /\ \A b \in Actors \ {Operator} : tx'[b] = tx[b]
    BY OperatorApart, NoTxFacts DEF Commit, IInv, TypeOK
  <1>4. \A r \in db' : r.table \in Spared
    <2>1. /\ Left(o, {"superseded_by"}) = {} /\ Left(o, DerivedTables) = {}
          /\ Left(o, {"audit_events"}) = {}
      BY <1>1 DEF GoodPurge
    <2>2. \A r \in db' : r \in Rows /\ r \in db \ o.del
      BY <1>1, <1>2
    <2> QED
      BY <2>1, <2>2, RowsOf DEF Left
  <1>5. TypeOK'
    BY <1>1, <1>2, <1>3 DEF TypeOK
  <1>6. References' /\ ClearedTablesStayClear'
    BY <1>4, RowFacts DEF References, ClearedTablesStayClear, Spared
  <1>7. ASSUME NEW b \in Clients \cup Workers PROVE GoodTx(tx[b])'
    <2>1. tx'[b] = tx[b] /\ GoodTx(tx[b]) /\ Bare(tx[b])
      BY <1>1, <1>3, OperatorApart, NoAnchors DEF IInv
    <2>2. \A n \in Revs : Vector(n) \notin tx[b].ins
      BY <2>1, HarmlessRows DEF Bare
    <2>3. GoodRows(tx[b])'
      BY <2>1, <2>2 DEF GoodTx, GoodRows
    <2> QED
      BY <2>1, <2>3 DEF GoodTx, Bare
  <1>8. GoodPurge(tx[Operator])'
    BY <1>3, NoTxFacts DEF GoodPurge, BeforeDelete
  <1> QED
    BY <1>5, <1>6, <1>7, <1>8 DEF IInv

-----------------------------------------------------------------------------
(***************************************************************************)
(* The statements of purge().                                              *)
(***************************************************************************)

\* Which table each statement clears.
LEMMA PurgeTables ==
    /\ Len(PurgeOrder) = 8
    /\ \A k \in 1 .. 6 : PurgeOrder[k] # "memories"
    /\ PurgeOrder[6] = "superseded_by" /\ PurgeOrder[7] = "memories" /\ PurgeOrder[8] = "audit_events"
  BY DEF PurgeOrder

\* The operator's transaction while it is under way.
LEMMA OperatorTx ==
    ASSUME IInv
    PROVE  /\ tx[Operator] \in Tx /\ GoodPurge(tx[Operator])
           /\ tx[Operator].step \in 1 .. 9 /\ db \subseteq Rows
           /\ tx[Operator].pc \in {"begin", "lock", "cascade"} =>
                  tx[Operator].step \in 1 .. 8 /\ TheMemory \in db
  BY OperatorApart DEF IInv, TypeOK, Tx, GoodPurge

\* The memory exists when purge() begins.
LEMMA PurgeBeginIInv ==
    ASSUME IInv, PurgeBegin
    PROVE  IInv'
  <1> DEFINE t == [NoTx EXCEPT !.pc = "begin"]
  <1>1. /\ t \in Tx /\ t.pc = "begin" /\ t.step = 1
        /\ t.upd = {} /\ t.share = {} /\ t.del = {} /\ t.ins = {}
    BY NoTxFacts DEF Tx
  <1>2. Become(Operator, t) /\ TheMemory \in db
    BY DEF PurgeBegin
  <1> HIDE DEF t
  <1>3. GoodPurge(t)
    BY <1>1, <1>2 DEF GoodPurge, BeforeDelete
  <1> QED
    BY <1>1, <1>2, <1>3, OnePurge

\* A statement sees what its table holds.
LEMMA PurgeStartIInv ==
    ASSUME IInv, PurgeStart
    PROVE  IInv'
  <1> DEFINE o == tx[Operator]
             table == PurgeOrder[o.step]
             tables == IF table = "audit_events" THEN {table, "refused_audit_events"} ELSE {table}
             S == {r \in db : r.table \in tables} \ o.del
             t == [o EXCEPT !.pc = "lock", !.snap = S]
  <1>1. /\ o \in Tx /\ GoodPurge(o) /\ o.pc = "begin" /\ o.step \in 1 .. 8
        /\ TheMemory \in db /\ db \subseteq Rows
    BY OperatorTx DEF PurgeStart, At
  <1>2. Become(Operator, t)
    BY DEF PurgeStart
  <1>3. S \in SUBSET Rows
    BY <1>1
  <1>4. o.step < 7 => TheMemory \notin S
    BY <1>1, PurgeTables, RowFacts
  <1>5. o.step = 6 => Left(o, {"superseded_by"}) \subseteq S
    BY PurgeTables DEF Left
  <1>6. o.step = 7 => S = {TheMemory}
    <2>1. o.step = 7 => \A r \in S : r = TheMemory
      BY <1>1, PurgeTables, RowsOf
    <2>2. o.step = 7 => TheMemory \in S
      BY <1>1, PurgeTables, RowFacts DEF GoodPurge, BeforeDelete
    <2> QED
      BY <2>1, <2>2
  <1>7. o.step = 8 => Left(o, {"audit_events"}) \subseteq S
    BY PurgeTables DEF Left
  <1> HIDE DEF S
  <1>8. /\ t \in Tx /\ t.pc = "lock" /\ t.snap = S /\ t.step = o.step /\ t.del = o.del
        /\ t.upd = o.upd /\ t.share = o.share /\ t.ins = o.ins
    BY <1>1, <1>3 DEF Tx
  <1> HIDE DEF t
  <1>9. \A T : Left(t, T) = Left(o, T)
    BY <1>8 DEF Left
  <1>10. GoodPurge(t)
    BY <1>1, <1>4, <1>5, <1>6, <1>7, <1>8, <1>9 DEF GoodPurge, BeforeDelete
  <1> QED
    BY <1>2, <1>8, <1>10, OnePurge DEF Deleted

\* It deletes the rows it saw, once nobody else holds them.
LEMMA PurgeLockIInv ==
    ASSUME IInv, PurgeLock
    PROVE  IInv'
  <1> DEFINE o == tx[Operator]
             R == o.snap \cap db
             D == o.del \cup R
             t == [o EXCEPT !.pc = "cascade", !.snap = R, !.del = D]
  <1>1. /\ o \in Tx /\ GoodPurge(o) /\ o.pc = "lock" /\ o.step \in 1 .. 8
        /\ TheMemory \in db /\ db \subseteq Rows
    BY OperatorTx DEF PurgeLock, At
  <1>2. Become(Operator, t) /\ CanDelete(Operator, R)
    BY DEF PurgeLock
  <1>3. R \in SUBSET Rows /\ D \in SUBSET Rows
    BY <1>1 DEF Tx
  <1>4. \A a \in Clients \cup Workers : D \cap (tx[a].upd \cup tx[a].share) \subseteq Deleted
    BY <1>2, OperatorApart DEF CanDelete, Deleted
  <1>5. /\ o.step < 7 => TheMemory \notin R /\ TheMemory \notin D
        /\ o.step = 7 => R = {TheMemory} /\ TheMemory \in D
    BY <1>1 DEF GoodPurge, BeforeDelete
  <1>6. /\ \A T : {r \in db \ D : r.table \in T} \subseteq Left(o, T)
        /\ o.step = 6 => {r \in db \ D : r.table \in {"superseded_by"}} = {}
        /\ o.step = 8 => {r \in db \ D : r.table \in {"audit_events"}} = {}
    BY <1>1 DEF GoodPurge, Left
  <1> HIDE DEF R, D
  <1>7. /\ t \in Tx /\ t.pc = "cascade" /\ t.snap = R /\ t.step = o.step /\ t.del = D
        /\ t.upd = o.upd /\ t.share = o.share /\ t.ins = o.ins
    BY <1>1, <1>3 DEF Tx
  <1> HIDE DEF t
  <1>8. /\ \A T : Left(t, T) \subseteq Left(o, T)
        /\ o.step = 6 => Left(t, {"superseded_by"}) = {}
        /\ o.step = 8 => Left(t, {"audit_events"}) = {}
    BY <1>6, <1>7 DEF Left
  <1>9. GoodPurge(t)
    BY <1>1, <1>5, <1>7, <1>8 DEF GoodPurge, BeforeDelete
  <1> QED
    BY <1>2, <1>4, <1>7, <1>9, OnePurge

\* ... and what depends on them.
LEMMA PurgeCascadeIInv ==
    ASSUME IInv, PurgeCascade
    PROVE  IInv'
  <1> DEFINE o == tx[Operator]
             R == Dependents(o.snap) \ o.del
             D == o.del \cup R
             P == IF o.step = Len(PurgeOrder) THEN "commit" ELSE "begin"
             t == [o EXCEPT !.pc = P, !.step = o.step + 1, !.snap = {}, !.del = D]
  <1>1. /\ o \in Tx /\ GoodPurge(o) /\ o.pc = "cascade" /\ o.step \in 1 .. 8
        /\ TheMemory \in db /\ db \subseteq Rows
    BY OperatorTx DEF PurgeCascade, At
  <1>2. Become(Operator, t) /\ CanDelete(Operator, R)
    BY DEF PurgeCascade
  <1>3. R \in SUBSET Rows /\ D \in SUBSET Rows /\ TheMemory \notin R
    BY <1>1, CascadeStays DEF Tx, IInv
  <1>4. \A a \in Clients \cup Workers : D \cap (tx[a].upd \cup tx[a].share) \subseteq Deleted
    BY <1>2, OperatorApart DEF CanDelete, Deleted
  <1>5. o.step < 7 => TheMemory \notin D
    BY <1>1, <1>3 DEF GoodPurge
  <1>6. \A T : {r \in db \ D : r.table \in T} \subseteq Left(o, T)
    BY DEF Left
  <1>7. o.step = 7 => {r \in db \ D : r.table \in DerivedTables} = {}
    <2> SUFFICES ASSUME o.step = 7, NEW r \in db, r.table \in DerivedTables PROVE r \in D
      OBVIOUS
    <2>1. o.snap = {TheMemory} /\ TheMemory \in o.del
      BY <1>1 DEF GoodPurge
    <2>2. CASE r = TheMemory
      BY <2>1, <2>2
    <2>3. CASE r # TheMemory
      BY <2>1, <2>3, CascadeReaches DEF IInv
    <2> QED
      BY <2>2, <2>3
  <1>8. P \in {"commit", "begin"} /\ (P = "commit" <=> o.step = 8)
    BY PurgeTables
  <1> HIDE DEF R, D, P
  <1>9. /\ t \in Tx /\ t.pc = P /\ t.snap = {} /\ t.step = o.step + 1 /\ t.del = D
        /\ t.upd = o.upd /\ t.share = o.share /\ t.ins = o.ins
    <2>1. o.step + 1 \in 1 .. 9 /\ {} \in SUBSET Rows
      BY <1>1
    <2> QED
      BY <1>1, <1>3, <1>8, <2>1 DEF Tx
  <1> HIDE DEF t
  <1>10. /\ \A T : Left(t, T) \subseteq Left(o, T)
         /\ o.step = 7 => Left(t, DerivedTables) = {}
    BY <1>6, <1>7, <1>9 DEF Left
  <1>11. GoodPurge(t)
    BY <1>1, <1>5, <1>8, <1>9, <1>10 DEF GoodPurge, BeforeDelete
  <1> QED
    BY <1>2, <1>4, <1>9, <1>11, OnePurge

\* Every step keeps the invariant.
LEMMA NextIInv == IInv /\ [Next]_vars => IInv'
  <1> SUFFICES ASSUME IInv, [Next]_vars PROVE IInv'
    OBVIOUS
  <1>1. ASSUME NEW c \in Clients, ClientStep(c) PROVE IInv'
    BY <1>1, ReadsIInv, CompareAndSetIInv, AppendIInv, TombstoneIInv, ReleaseIInv, AttestIInv
       DEF ClientStep
  <1>2. ASSUME NEW w \in Workers, Claim(w) \/ Store(w) PROVE IInv'
    BY <1>2, WorkerIInv
  <1>3. CASE PurgeBegin \/ PurgeStart \/ PurgeLock \/ PurgeCascade
    BY <1>3, PurgeBeginIInv, PurgeStartIInv, PurgeLockIInv, PurgeCascadeIInv
  <1>4. ASSUME NEW a \in Actors, Commit(a) PROVE IInv'
    BY <1>4, CommitIInv, PurgeCommitIInv DEF Actors
  <1>5. ASSUME NEW a \in Actors, Abort(a) PROVE IInv'
    BY <1>5, GiveUp DEF Abort
  <1>6. CASE UNCHANGED vars
    BY <1>6 DEF vars, IInv, TypeOK, References, ClearedTablesStayClear, GoodTx, Bare, Anchored,
                GoodRows, Deleted, GoodPurge, Left, BeforeDelete
  <1>7. ASSUME NEW c \in Clients, SweepKey(c) PROVE IInv'
    BY <1>7, SweepIInv
  <1> QED
    BY <1>1, <1>2, <1>3, <1>4, <1>5, <1>6, <1>7 DEF Next

-----------------------------------------------------------------------------
(***************************************************************************)
(* The theorems.                                                           *)
(***************************************************************************)

\* The inductive invariant holds throughout every behaviour.
LEMMA Invariance == Spec => []IInv
  BY InitIInv, NextIInv, PTL DEF Spec

\* The rows and the transactions keep their types.
THEOREM TypeCorrect == Spec => []TypeOK
  BY Invariance, PTL DEF IInv

\* Once the memory is gone, the tables purge() clears keep nothing of it: what
\* is left are idempotency keys, which it does not clear, and audit rows of
\* refused calls (cli/admin.py, purge).
THEOREM ClearedForGood == Spec => []ClearedTablesStayClear
  BY Invariance, PTL DEF IInv

\* Whoever is still under way when purge() commits has nothing to commit that
\* the purge takes away (cli/admin.py, purge).
THEOREM PurgeEndsAlone == Spec => []PurgeAlone
  <1>1. IInv => PurgeAlone
    <2> SUFFICES ASSUME IInv, At(Operator, "commit"), NEW a \in Others(Operator)
                 PROVE  /\ tx[a].upd \cup tx[a].share \cup tx[a].del = {}
                        /\ \A r \in tx[a].ins : r.table \in Spared
      BY DEF PurgeAlone
    <2>1. tx[Operator].step > 7
      BY DEF IInv, GoodPurge, At
    <2>2. Bare(tx[a])
      BY <2>1, NoAnchors, OperatorApart
    <2> QED
      BY <2>2 DEF Bare, Harmless
  <1> QED
    BY <1>1, Invariance, PTL
=============================================================================
