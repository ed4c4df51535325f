---------------------------- MODULE MemoryTables ----------------------------
(***************************************************************************)
(* The tables that hold one project's shared truth, and what each write    *)
(* does to them.  Every statement of the hub filters on project_id, so one *)
(* project is a complete instance.                                         *)
(*                                                                         *)
(*   memories          mem      [MemIds -> MemoryRow]                      *)
(*   memory_revisions  rev      content per revision number                *)
(*                     current  the revision numbers with is_current       *)
(*   memory_dedup_keys dedup    content class -> memory that claimed it    *)
(*                                                                         *)
(* A memory id is a positive number: ids are ordered (UUIDs compare), and  *)
(* the order is what the lock discipline of supersession is about.  A      *)
(* content is a class of texts with one normalised hash                    *)
(* (domain/normalize.py), so equal contents are exactly equal dedup keys.  *)
(***************************************************************************)
EXTENDS Naturals, FiniteSets

CONSTANTS
    MemIds,     \* ids that gen_random_uuid() may hand out
    Contents,   \* content classes
    MaxRev,     \* bound: largest revision number in this instance
    NoContent   \* the content of a revision that does not exist

ASSUME MemIdsAssumption == MemIds \subseteq Nat \ {0}
ASSUME LastIdAssumption == \E last \in MemIds : \A m \in MemIds : m <= last  \* 128 bits
ASSUME MaxRevAssumption == MaxRev \in Nat \ {0}
ASSUME NoContentAssumption == NoContent \notin Contents

NoMem == 0   \* NULL in superseded_by_id, and an id that names no row
RevNos == 1 .. MaxRev

MemoryStatus == {"ABSENT", "ACTIVE", "SUPERSEDED", "DELETED"}

\* One row of memories; ABSENT stands for no row.
MemoryRow == [status : MemoryStatus,
              cur    : 0 .. MaxRev,
              by     : MemIds \cup {NoMem}]

NoRow == [status |-> "ABSENT", cur |-> 0, by |-> NoMem]

\* Mutant of FirstRow: the pointer of a new memory is one ahead.
FirstRowAhead == [status |-> "ACTIVE", cur |-> 2, by |-> NoMem]

FirstRow == [status |-> "ACTIVE", cur |-> 1, by |-> NoMem]

NoRevisions == [n \in RevNos |-> NoContent]

(***************************************************************************)
(* What the writes do to a table, as functions of the table.               *)
(***************************************************************************)

\* Mutant of RowsAfterAssert: the winner parameter bound to the target's id.
RowsAfterSelfAssert(tbl, m, S) ==
    [x \in MemIds |->
        IF x = m THEN FirstRow
        ELSE IF x \in S THEN [status |-> "SUPERSEDED", cur |-> tbl[x].cur, by |-> x]
        ELSE tbl[x]]

\* create() inserts m, cas_supersede.sql retires every member of S for it.
RowsAfterAssert(tbl, m, S) ==
    [x \in MemIds |->
        IF x = m THEN FirstRow
        ELSE IF x \in S THEN [status |-> "SUPERSEDED", cur |-> tbl[x].cur, by |-> m]
        ELSE tbl[x]]

\* cas_revise.sql advances the pointer by one.
RowsAfterRevise(tbl, m) == [tbl EXCEPT ![m].cur = @ + 1]

\* cas_forget.sql sets a tombstone.
RowsAfterForget(tbl, m) == [tbl EXCEPT ![m].status = "DELETED"]

\* MemoryRevision rows are only ever inserted.
WithRevision(tbl, m, n, h) == [tbl EXCEPT ![m][n] = h]

\* Mutant of CurrentAfterRevise: append without demoting.
CurrentNotDemoted(tbl, m, n) == [tbl EXCEPT ![m] = @ \cup {n + 1}]

\* compare_and_set(): demote revision n, append n + 1 as the current one.
CurrentAfterRevise(tbl, m, n) == [tbl EXCEPT ![m] = (@ \ {n}) \cup {n + 1}]

\* release_dedup_keys(): DELETE every key that points at a memory of S.
Released(tbl, S) == [h \in Contents |-> IF tbl[h] \in S THEN NoMem ELSE tbl[h]]

\* claim_dedup_key.sql: INSERT the key for h.
WithKey(tbl, h, m) == [tbl EXCEPT ![h] = m]
=============================================================================
