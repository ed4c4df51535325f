---------------------------- MODULE MemoryLedger ----------------------------
(***************************************************************************)
(* What the memory store promises: a ledger whose three kinds of write are *)
(* atomic and are decided against the state they change.  A caller may     *)
(* reason about the store as if writes happened one at a time, although    *)
(* each is a transaction of several statements at READ COMMITTED, run by   *)
(* server processes that share nothing but the database.                   *)
(***************************************************************************)
EXTENDS MemoryTables

VARIABLES mem, rev, current, dedup

ledgerVars == <<mem, rev, current, dedup>>

Init ==
    /\ mem = [m \in MemIds |-> NoRow]
    /\ rev = [m \in MemIds |-> NoRevisions]
    /\ current = [m \in MemIds |-> {}]
    /\ dedup = [h \in Contents |-> NoMem]

\* Assert fact h as memory m and, in the same act, retire the facts in S.
\* Nobody may hold the same assertion, and all of S must still be in force.
Assert(m, h, S) ==
    /\ mem[m].status = "ABSENT"
    /\ dedup[h] = NoMem
    /\ \A x \in S : mem[x].status = "ACTIVE"
    /\ mem' = RowsAfterAssert(mem, m, S)
    /\ rev' = WithRevision(rev, m, 1, h)
    /\ current' = [current EXCEPT ![m] = {1}]
    /\ dedup' = WithKey(Released(dedup, S), h, m)

\* Append revision n + 1; the ledger must be at revision n.
Revise(m, n, h) ==
    /\ mem[m].status = "ACTIVE"
    /\ mem[m].cur = n
    /\ mem' = RowsAfterRevise(mem, m)
    /\ rev' = WithRevision(rev, m, n + 1, h)
    /\ current' = CurrentAfterRevise(current, m, n)
    /\ UNCHANGED dedup

\* Tombstone a fact that is in force.
Forget(m) ==
    /\ mem[m].status = "ACTIVE"
    /\ mem' = RowsAfterForget(mem, m)
    /\ dedup' = Released(dedup, {m})
    /\ UNCHANGED <<rev, current>>

Next ==
    \/ \E m \in MemIds, h \in Contents, S \in SUBSET MemIds : Assert(m, h, S)
    \/ \E m \in MemIds, n \in 1 .. MaxRev - 1, h \in Contents : Revise(m, n, h)
    \/ \E m \in MemIds : Forget(m)

Spec == Init /\ [][Next]_ledgerVars
=============================================================================
