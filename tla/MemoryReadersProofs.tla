------------------------ MODULE MemoryReadersProofs -------------------------
(***************************************************************************)
(* Theorems about MemoryReaders, for any ledger, query and limit: a search *)
(* returns what was in force, and a history assembled from six snapshots   *)
(* does not contradict itself.                                             *)
(***************************************************************************)
EXTENDS MemoryReaders, FiniteSetTheorems, SequenceTheorems, TLAPS

USE MemIdsAssumption, MaxRevAssumption, NoContentAssumption, LimitAssumption,
    KindsAssumption

\* What the readers rely on in the ledger: one current revision, no gap
\* before it, a successor for each superseded memory, and no two memories
\* that supersede each other.
LedgerSound ==
    /\ mem \in [MemIds -> MemoryRow]
    /\ rev \in [MemIds -> [RevNos -> Contents \cup {NoContent}]]
    /\ current \in [MemIds -> SUBSET RevNos]
    /\ \A m \in MemIds :
        /\ current[m] = IF mem[m].status # "ABSENT" THEN {mem[m].cur} ELSE {}
        /\ \A n \in RevNos : rev[m][n] # NoContent <=> n <= mem[m].cur
        /\ mem[m].status # "ABSENT" <=> mem[m].cur >= 1
        /\ mem[m].status = "SUPERSEDED" <=> mem[m].by # NoMem
    /\ \A x, y \in MemIds : ~(mem[x].by = y /\ mem[y].by = x)

\* What a write never takes back from a reader that has seen it.
LedgerGrows ==
    \A m \in MemIds :
        /\ mem[m].cur <= mem'[m].cur
        /\ mem[m].status = "SUPERSEDED" => mem'[m] = mem[m]

\* t has the fields of a call.
IsCall(t) ==
    t \in [pc : {t.pc}, kind : {t.kind}, now : {t.now}, lexical : {t.lexical},
           semantic : {t.semantic}, fused : {t.fused}, rows : {t.rows},
           aborted : {t.aborted}, strategy : {t.strategy}, subject : {t.subject},
           view : [status : MemoryStatus, no : Nat, flagged : {t.view.flagged},
                   revisions : {t.view.revisions}, by : {t.view.by},
                   retired : {t.view.retired}],
           outcome : {t.outcome}]

Memories(rows) == {p[1] : p \in rows}

\* A search has seen every row it holds in force, and what it answers with
\* is among its rows.
GoodSearch(t) ==
    /\ \A p \in t.rows : <<p[1], p[2], "ACTIVE">> \in seen /\ p[1] \notin t.now
    /\ t.pc = "count" => ToSet(t.lexical) \subseteq Memories(t.rows)
    /\ t.pc \in {"all_terms", "count", "any_term"} => t.fused = <<>>
    /\ t.pc \in {"all_terms", "count", "any_term", "lexical", "semantic", "fetch"}
        => t.kind # "history"
    /\ t.outcome = "ok" => t.pc = "done"
    /\ t.kind # "history" /\ t.outcome = "ok" => ToSet(t.fused) \subseteq Memories(t.rows)

\* A history is past the statements that come before these.
Past(t, labels) == t.pc \in labels \/ (t.kind = "history" /\ t.outcome = "ok")

\* Every part of a history that has been read still fits the ledger, which
\* has only grown since.
GoodHistory(t) ==
    /\ t.pc \in {"view", "revisions", "superseded_by", "supersedes", "rest"}
        => t.kind = "history" /\ t.subject \in MemIds
    /\ t.kind = "history" =>
        \A n \in t.view.flagged : \E s \in MemoryStatus : <<t.subject, n, s>> \in seen
    /\ Past(t, {"revisions", "superseded_by", "supersedes", "rest"}) =>
        /\ t.subject \in MemIds
        /\ t.view.no <= mem[t.subject].cur
        /\ t.view.status = "SUPERSEDED" => mem[t.subject].status = "SUPERSEDED"
    /\ Past(t, {"superseded_by", "supersedes", "rest"}) =>
        1 .. t.view.no \subseteq t.view.revisions
    /\ Past(t, {"supersedes", "rest"}) =>
        /\ t.view.status = "SUPERSEDED" => t.view.by # NoMem
        /\ t.view.by # NoMem => mem[t.subject].by = t.view.by
    /\ Past(t, {"rest"}) => {t.view.by, t.subject} \cap t.view.retired = {}

\* A running call has observed what is current now.
Watching == ~At("idle") => Observed \subseteq seen

\* The inductive invariant.
IInv ==
    /\ LedgerSound
    /\ IsCall(call)
    /\ Watching
    /\ GoodSearch(call)
    /\ GoodHistory(call)

-----------------------------------------------------------------------------
(***************************************************************************)
(* The ledger under the readers.                                           *)
(***************************************************************************)
\* Each of the three writes keeps the ledger sound and takes nothing back.
LEMMA WriteSound ==
    ASSUME LedgerSound, Ledger!Next
    PROVE  LedgerSound' /\ LedgerGrows
  <1> DEFINE Row(x) == /\ current'[x] = IF mem'[x].status # "ABSENT" THEN {mem'[x].cur} ELSE {}
                       /\ \A n \in RevNos : rev'[x][n] # NoContent <=> n <= mem'[x].cur
                       /\ mem'[x].status # "ABSENT" <=> mem'[x].cur >= 1
                       /\ mem'[x].status = "SUPERSEDED" <=> mem'[x].by # NoMem
                       /\ mem[x].cur <= mem'[x].cur
                       /\ mem[x].status = "SUPERSEDED" => mem'[x] = mem[x]
             Types == /\ mem' \in [MemIds -> MemoryRow]
                      /\ rev' \in [MemIds -> [RevNos -> Contents \cup {NoContent}]]
                      /\ current' \in [MemIds -> SUBSET RevNos]
             NoCircle == \A x, y \in MemIds : ~(mem'[x].by = y /\ mem'[y].by = x)
  <1>0. /\ mem \in [MemIds -> MemoryRow]
        /\ rev \in [MemIds -> [RevNos -> Contents \cup {NoContent}]]
        /\ current \in [MemIds -> SUBSET RevNos]
        /\ \A x \in MemIds :
            /\ mem[x] \in MemoryRow /\ mem[x].cur \in 0 .. MaxRev
            /\ current[x] = IF mem[x].status # "ABSENT" THEN {mem[x].cur} ELSE {}
            /\ \A n \in RevNos : rev[x][n] # NoContent <=> n <= mem[x].cur
            /\ mem[x].status # "ABSENT" <=> mem[x].cur >= 1
            /\ mem[x].status = "SUPERSEDED" <=> mem[x].by # NoMem
    BY DEF LedgerSound, MemoryRow
  <1>00. \A x, y \in MemIds : ~(mem[x].by = y /\ mem[y].by = x)
    BY DEF LedgerSound
  <1>1. ASSUME NEW m \in MemIds, NEW h \in Contents, NEW S \in SUBSET MemIds,
               Ledger!Assert(m, h, S)
        PROVE  Types /\ NoCircle /\ \A x \in MemIds : Row(x)
    <2>1. /\ mem[m].status = "ABSENT" /\ \A x \in S : mem[x].status = "ACTIVE"
          /\ mem' = RowsAfterAssert(mem, m, S)
          /\ rev' = WithRevision(rev, m, 1, h)
          /\ current' = [current EXCEPT ![m] = {1}]
      BY <1>1 DEF Ledger!Assert, Ledger!RowsAfterAssert, RowsAfterAssert, Ledger!FirstRow,
          FirstRow, Ledger!WithRevision, WithRevision, Ledger!NoMem, NoMem
    <2>2. Types
      <3>1. mem' \in [MemIds -> MemoryRow]
        BY <1>0, <2>1 DEF RowsAfterAssert, FirstRow, MemoryRow, MemoryStatus, NoMem
      <3>2. 1 \in RevNos
        BY DEF RevNos
      <3> QED
        BY <2>1, <3>1, <3>2 DEF LedgerSound, WithRevision
    <2>3. m # NoMem /\ mem[m].by = NoMem /\ mem[m].cur = 0
      BY <1>0, <2>1 DEF LedgerSound, NoMem
    <2>4. \A x \in MemIds : mem'[x].by = IF x = m THEN NoMem
                                         ELSE IF x \in S THEN m ELSE mem[x].by
      BY <2>1 DEF RowsAfterAssert, FirstRow
    <2>5. NoCircle
      <3>1. m \notin S
        BY <2>1
      <3>2. \A x \in S : mem[x].by = NoMem /\ x # NoMem
        BY <2>1 DEF LedgerSound, NoMem
      <3> QED
        BY <2>3, <2>4, <3>1, <3>2 DEF LedgerSound, NoMem
    <2>6. ASSUME NEW x \in MemIds PROVE Row(x)
      <3>1. CASE x = m
        <4>1. mem'[x] = FirstRow /\ current'[x] = {1}
              /\ \A n \in RevNos : rev'[x][n] = IF n = 1 THEN h ELSE rev[x][n]
          BY <2>1, <3>1 DEF RowsAfterAssert, WithRevision, LedgerSound, RevNos
        <4> QED
          BY <2>1, <2>3, <3>1, <4>1 DEF FirstRow, LedgerSound, RevNos, NoMem
      <3>2. CASE x # m
        <4>1. rev'[x] = rev[x]
          BY <1>0, <2>1, <3>2 DEF WithRevision
        <4>2. current'[x] = current[x]
          BY <1>0, <2>1, <3>2
        <4>3. CASE x \in S
          <5>1. mem'[x] = [status |-> "SUPERSEDED", cur |-> mem[x].cur, by |-> m]
            BY <2>1, <3>2, <4>3 DEF RowsAfterAssert
          <5>2. mem[x].status = "ACTIVE"
            BY <2>1, <4>3
          <5>3. /\ mem'[x].status = "SUPERSEDED" /\ mem'[x].cur = mem[x].cur
                /\ mem'[x].by = m
            BY <5>1
          <5>4. current[x] = {mem[x].cur} /\ mem[x].cur >= 1
            BY <1>0, <5>2
          <5> QED
            BY <1>0, <2>3, <4>1, <4>2, <5>2, <5>3, <5>4
        <4>4. CASE x \notin S
          <5>1. mem'[x] = mem[x]
            BY <2>1, <3>2, <4>4 DEF RowsAfterAssert
          <5> QED
            BY <1>0, <4>1, <4>2, <5>1
        <4> QED
          BY <4>3, <4>4
      <3> QED
        BY <3>1, <3>2
    <2> QED
      BY <2>2, <2>5, <2>6
  <1>2. ASSUME NEW m \in MemIds, NEW n \in 1 .. MaxRev - 1, NEW h \in Contents,
               Ledger!Revise(m, n, h)
        PROVE  Types /\ NoCircle /\ \A x \in MemIds : Row(x)
    <2>1. /\ mem[m].status = "ACTIVE" /\ mem[m].cur = n
          /\ mem' = [mem EXCEPT ![m].cur = @ + 1]
          /\ rev' = [rev EXCEPT ![m][n + 1] = h]
          /\ current' = [current EXCEPT ![m] = (@ \ {n}) \cup {n + 1}]
      BY <1>2 DEF Ledger!Revise, Ledger!RowsAfterRevise, Ledger!WithRevision,
          Ledger!CurrentAfterRevise
    <2>2. n \in RevNos /\ n + 1 \in RevNos /\ n + 1 \in 0 .. MaxRev
      BY DEF RevNos
    <2>3. mem' \in [MemIds -> MemoryRow]
      <3>1. [mem[m] EXCEPT !.cur = @ + 1] \in MemoryRow
        BY <1>0, <2>1, <2>2 DEF MemoryRow
      <3> QED
        BY <2>1, <3>1 DEF LedgerSound
    <2>4. Types
      BY <2>1, <2>2, <2>3 DEF LedgerSound
    <2>5. \A x \in MemIds : mem'[x].by = mem[x].by /\ mem'[x].status = mem[x].status
                            /\ mem'[x].cur = (IF x = m THEN n + 1 ELSE mem[x].cur)
                            /\ (x # m => mem'[x] = mem[x])
      BY <1>0, <2>1 DEF LedgerSound, MemoryRow
    <2>6. \A x \in MemIds : x # m => rev'[x] = rev[x] /\ current'[x] = current[x]
      BY <2>1 DEF LedgerSound
    <2>7. /\ \A i \in RevNos : rev'[m][i] = IF i = n + 1 THEN h ELSE rev[m][i]
          /\ current'[m] = {n + 1}
      BY <2>1, <2>2 DEF LedgerSound
    <2>8. ASSUME NEW x \in MemIds PROVE Row(x)
      <3>1. CASE x = m
        BY <2>1, <2>2, <2>5, <2>7, <3>1 DEF LedgerSound, RevNos
      <3>2. CASE x # m
        <4>1. mem'[x] = mem[x] /\ rev'[x] = rev[x] /\ current'[x] = current[x]
          BY <2>5, <2>6, <3>2
        <4> QED
          BY <1>0, <4>1
      <3> QED
        BY <3>1, <3>2
    <2>9. NoCircle
      BY <1>00, <2>5
    <2> QED
      BY <2>4, <2>8, <2>9
  <1>3. ASSUME NEW m \in MemIds, Ledger!Forget(m)
        PROVE  Types /\ NoCircle /\ \A x \in MemIds : Row(x)
    <2>1. /\ mem[m].status = "ACTIVE"
          /\ mem' = [mem EXCEPT ![m].status = "DELETED"]
          /\ rev' = rev /\ current' = current
      BY <1>3 DEF Ledger!Forget, Ledger!RowsAfterForget
    <2>2. mem' \in [MemIds -> MemoryRow]
      BY <1>0, <2>1 DEF LedgerSound, MemoryRow, MemoryStatus
    <2>3. \A x \in MemIds : mem'[x].by = mem[x].by /\ mem'[x].cur = mem[x].cur
                            /\ mem'[x].status = (IF x = m THEN "DELETED" ELSE mem[x].status)
                            /\ (x # m => mem'[x] = mem[x])
      BY <1>0, <2>1 DEF LedgerSound, MemoryRow
    <2>4. NoCircle
      BY <1>00, <2>3
    <2>5. ASSUME NEW x \in MemIds PROVE Row(x)
      <3>1. CASE x = m
        BY <1>0, <2>1, <2>3, <3>1
      <3>2. CASE x # m
        BY <1>0, <2>1, <2>3, <3>2
      <3> QED
        BY <3>1, <3>2
    <2> QED
      BY <2>1, <2>2, <2>4, <2>5 DEF LedgerSound
  <1>4. Types /\ NoCircle /\ \A x \in MemIds : Row(x)
    <2> HIDE DEF Types, NoCircle, Row
    <2> QED
      BY <1>1, <1>2, <1>3 DEF Ledger!Next
  <1> QED
    BY <1>4 DEF LedgerSound, LedgerGrows

-----------------------------------------------------------------------------
(***************************************************************************)
(* The steps of a reader.                                                  *)
(***************************************************************************)
\* A reader that moves on to t has changed nothing else.
LEMMA ReaderStep ==
    ASSUME IInv, NEW t, Step(t), call.pc # "idle", IsCall(t), GoodSearch(t), GoodHistory(t)
    PROVE  IInv'
  <1>1. /\ call' = t
        /\ mem' = mem /\ rev' = rev /\ current' = current /\ seen' = seen
    BY DEF Step, store
  <1>2. LedgerSound'
    BY <1>1 DEF IInv, LedgerSound
  <1>3. Watching'
    <2>1. Observed' = Observed
      BY <1>1 DEF Observed, CurrentPairs
    <2> QED
      BY <1>1, <2>1 DEF IInv, Watching, At
  <1>4. IsCall(call)' /\ GoodSearch(call)'
    BY <1>1 DEF IsCall, GoodSearch
  <1>5. GoodHistory(call)'
    BY <1>1 DEF GoodHistory, Past
  <1> QED
    BY <1>2, <1>3, <1>4, <1>5 DEF IInv

\* The memory ids of an instance are finitely many.
LEMMA FiniteIds == IsFiniteSet(MemIds)
  BY LastIdAssumption, FS_BoundedSetOfNaturals

\* A ranking lists memories of the rows it ranks, and no more than n of them.
LEMMA RankingFacts ==
    ASSUME NEW rows \in SUBSET Pairs, NEW n \in Nat, NEW ranking \in Rankings(rows, n)
    PROVE  /\ ToSet(ranking) \subseteq Memories(Hydrated(rows, ranking))
           /\ ranking \in Seq(MemIds) /\ Len(ranking) <= n
  <1> DEFINE M == {p[1] : p \in rows}
  <1>1. M \in SUBSET MemIds
    BY DEF Pairs
  <1>2. Cardinality(M) \in Nat
    BY <1>1, FiniteIds, FS_Subset, FS_CardinalityType
  <1> HIDE DEF M
  <1>3. PICK s \in [1 .. Cardinality(M) -> M] :
          ranking = SubSeq(s, 1, IF Len(s) < n THEN Len(s) ELSE n)
    BY DEF Rankings, SetToSeqs, M
  <1>4. s \in Seq(M) /\ Len(s) = Cardinality(M)
    BY <1>2
  <1> DEFINE k == IF Len(s) < n THEN Len(s) ELSE n
  <1>5. k \in Nat /\ k <= Len(s)
    BY <1>2, <1>4
  <1>6. ranking \in Seq(M) /\ Len(ranking) = k
    <2>1. \A i \in 1 .. k : s[i] \in M
      BY <1>4, <1>5
    <2> QED
      BY <1>3, <1>5, <2>1, SubSeqProperties
  <1>7. ASSUME NEW m \in ToSet(ranking) PROVE m \in Memories(Hydrated(rows, ranking))
    <2>1. PICK i \in 1 .. Len(ranking) : ranking[i] = m
      BY <1>6, LenProperties DEF ToSet
    <2>2. m \in M
      BY <1>6, <2>1, LenProperties
    <2>3. PICK p \in rows : p[1] = m
      BY <2>2 DEF M
    <2>4. p \in Hydrated(rows, ranking)
      BY <2>1, <2>3 DEF Hydrated, Contains
    <2> QED
      BY <2>3, <2>4 DEF Memories
  <1>8. ranking \in Seq(MemIds) /\ Len(ranking) <= n
    <2>1. k <= n
      BY <1>4, <1>2
    <2> HIDE DEF k
    <2>2. Len(ranking) <= n
      BY <1>6, <2>1
    <2>3. \A i \in 1 .. Len(ranking) : ranking[i] \in MemIds
      <3>1. ranking \in Seq(M)
        BY <1>6
      <3>2. \A i \in 1 .. Len(ranking) : ranking[i] \in M
        BY <3>1
      <3> QED
        BY <1>1, <3>2
    <2>4. ranking \in Seq(MemIds)
      <3>1. ranking = [i \in 1 .. Len(ranking) |-> ranking[i]] /\ Len(ranking) \in Nat
        BY <1>6
      <3> QED
        BY <2>3, <3>1
    <2> QED
      BY <2>2, <2>4
  <1> QED
    BY <1>7, <1>8

\* A row that is read in force has been observed in force.
LEMMA InForce ==
    ASSUME IInv, call.pc # "idle", NEW p \in Pairs,
           Visible(p[1], call.now), p[2] \in current[p[1]]
    PROVE  <<p[1], p[2], "ACTIVE">> \in seen /\ p[1] \notin call.now
  <1>1. p \in CurrentPairs /\ mem[p[1]].status = "ACTIVE"
    BY DEF CurrentPairs, Visible
  <1>2. <<p[1], p[2], "ACTIVE">> \in Observed
    BY <1>1 DEF Observed
  <1> QED
    BY <1>2 DEF IInv, Watching, At, Visible

\* The statement of a lexical search keeps the invariant.
LEMMA FoundIInv ==
    ASSUME IInv, call.pc \in {"all_terms", "any_term", "lexical"},
           NEW contents, NEW n \in Nat, NEW label \in {"count", "semantic"}, NEW strategy,
           call.pc = "lexical" => label = "semantic",
           Found(contents, n, label, strategy)
    PROVE  IInv'
  <1> DEFINE rows == Matching(contents, call.now)
  <1>1. PICK ranking \in Rankings(rows, n) :
          Step([call EXCEPT !.pc = label, !.lexical = ranking, !.strategy = strategy,
                            !.rows = Hydrated(rows, ranking)])
    BY DEF Found
  <1> DEFINE t == [call EXCEPT !.pc = label, !.lexical = ranking, !.strategy = strategy,
                               !.rows = Hydrated(rows, ranking)]
             H == Hydrated(rows, ranking)
  <1>2. rows \in SUBSET Pairs
    BY DEF Matching
  <1>3. \A p \in rows : <<p[1], p[2], "ACTIVE">> \in seen /\ p[1] \notin call.now
    BY InForce DEF Matching
  <1>4. H \subseteq rows /\ ToSet(ranking) \subseteq Memories(H)
    BY <1>2, RankingFacts DEF Hydrated
  <1>5. IsCall(call) /\ GoodSearch(call) /\ GoodHistory(call)
    BY DEF IInv
  <1> HIDE DEF rows, H
  <1>6. /\ IsCall(t)
        /\ t.pc = label /\ t.lexical = ranking /\ t.rows = Hydrated(rows, ranking)
        /\ t.kind = call.kind /\ t.now = call.now /\ t.fused = call.fused
        /\ t.outcome = call.outcome /\ t.subject = call.subject /\ t.view = call.view
    BY <1>5 DEF IsCall
  <1> HIDE DEF t
  <1>7. GoodSearch(t)
    BY <1>3, <1>4, <1>5, <1>6 DEF GoodSearch, H
  <1>8. GoodHistory(t)
    BY <1>5, <1>6 DEF GoodHistory, GoodSearch, Past
  <1> QED
    BY <1>1, <1>6, <1>7, <1>8, ReaderStep DEF t

\* A search that answers is left with the rows it has.
LEMMA AnswerIInv ==
    ASSUME IInv, NEW t, Step(t), call.pc # "idle", call.kind # "history", IsCall(t),
           t.pc \notin {"all_terms", "count", "any_term"},
           t.pc \notin {"view", "revisions", "superseded_by", "supersedes", "rest"},
           t.pc \in {"lexical", "semantic", "fetch", "done"},
           t.kind = call.kind, t.now = call.now, t.subject = call.subject, t.view = call.view,
           \A p \in t.rows : <<p[1], p[2], "ACTIVE">> \in seen /\ p[1] \notin call.now,
           t.outcome = "ok" => t.pc = "done" /\ ToSet(t.fused) \subseteq Memories(t.rows)
    PROVE  IInv'
  <1>1. GoodSearch(t) /\ GoodHistory(t)
    BY DEF GoodSearch, GoodHistory, Past
  <1> QED
    BY <1>1, ReaderStep

\* Every statement of search and hybrid_search keeps the invariant.
LEMMA SearchIInv ==
    ASSUME IInv,
           \/ AllTerms \/ Count \/ AnyTerm
           \/ LexicalLeg \/ SemanticLeg \/ EmbedderDown \/ SemanticTimeout \/ SemanticError
           \/ FetchMissing \/ Coverage
    PROVE  IInv'
  <1>0. /\ IsCall(call) /\ GoodSearch(call) /\ GoodHistory(call) /\ call.kind # "history"
        /\ call.pc \in {"all_terms", "count", "any_term", "lexical", "semantic", "fetch"}
    BY DEF IInv, GoodSearch, AllTerms, Count, AnyTerm, LexicalLeg, SemanticLeg, EmbedderDown,
        SemanticTimeout, SemanticError, FetchMissing, Coverage, At
  <1>00. \A p \in call.rows : <<p[1], p[2], "ACTIVE">> \in seen /\ p[1] \notin call.now
    BY <1>0 DEF GoodSearch
  <1>1. CASE AllTerms
    BY <1>0, <1>1, FoundIInv DEF AllTerms, At
  <1>2. CASE Count
    <2>1. ASSUME Step([call EXCEPT !.fused = call.lexical, !.pc = "done", !.outcome = "ok"])
          PROVE  IInv'
      <3> DEFINE t == [call EXCEPT !.fused = call.lexical, !.pc = "done", !.outcome = "ok"]
      <3>1. /\ IsCall(t) /\ t.pc = "done" /\ t.fused = call.lexical /\ t.outcome = "ok"
            /\ t.kind = call.kind /\ t.now = call.now /\ t.subject = call.subject
            /\ t.view = call.view /\ t.rows = call.rows
        BY <1>0 DEF IsCall
      <3>2. ToSet(call.lexical) \subseteq Memories(call.rows)
        BY <1>0, <1>2 DEF Count, At, GoodSearch
      <3> HIDE DEF t
      <3> QED
        BY <1>0, <1>00, <2>1, <3>1, <3>2, AnswerIInv DEF t
    <2>2. ASSUME Step([call EXCEPT !.pc = "any_term"]), call.lexical = <<>>,
                 call.strategy = "all_terms"
          PROVE  IInv'
      <3> DEFINE t == [call EXCEPT !.pc = "any_term"]
      <3>1. /\ IsCall(t) /\ t.pc = "any_term" /\ t.fused = call.fused /\ t.outcome = call.outcome
            /\ t.kind = call.kind /\ t.now = call.now /\ t.subject = call.subject
            /\ t.view = call.view /\ t.rows = call.rows
        BY <1>0 DEF IsCall
      <3> HIDE DEF t
      <3>2. GoodSearch(t) /\ GoodHistory(t)
        BY <1>0, <1>2, <3>1 DEF Count, At, GoodSearch, GoodHistory, Past
      <3> QED
        BY <1>0, <2>2, <3>1, <3>2, ReaderStep DEF t
    <2> QED
      BY <1>2, <2>1, <2>2 DEF Count, Finish
  <1>3. CASE AnyTerm
    <2>1. ASSUME Step([call EXCEPT !.pc = "done", !.outcome = "ok"]) PROVE IInv'
      <3> DEFINE t == [call EXCEPT !.pc = "done", !.outcome = "ok"]
      <3>1. /\ IsCall(t) /\ t.pc = "done" /\ t.fused = call.fused /\ t.outcome = "ok"
            /\ t.kind = call.kind /\ t.now = call.now /\ t.subject = call.subject
            /\ t.view = call.view /\ t.rows = call.rows
        BY <1>0 DEF IsCall
      <3>2. ToSet(call.fused) = {}
        BY <1>0, <1>3 DEF AnyTerm, At, GoodSearch, ToSet
      <3> HIDE DEF t
      <3> QED
        BY <1>0, <1>00, <2>1, <3>1, <3>2, AnswerIInv DEF t
    <2> QED
      BY <1>0, <1>3, <2>1, FoundIInv DEF AnyTerm, Finish, At
  <1>4. CASE LexicalLeg
    BY <1>0, <1>4, FoundIInv DEF LexicalLeg, At
  <1>5. ASSUME NEW u, IsCall(u), Step(Fused(u)), u.kind = call.kind, u.now = call.now,
               u.subject = call.subject, u.view = call.view, u.rows = call.rows,
               u.outcome # "ok"
        PROVE  IInv'
    <2>1. /\ IsCall(Fused(u)) /\ Fused(u).pc = "fetch" /\ Fused(u).outcome = u.outcome
          /\ Fused(u).kind = u.kind /\ Fused(u).now = u.now /\ Fused(u).subject = u.subject
          /\ Fused(u).view = u.view /\ Fused(u).rows = u.rows
      BY <1>5 DEF IsCall, Fused
    <2> QED
      BY <1>0, <1>00, <1>5, <2>1, AnswerIInv
  <1>6. CASE SemanticLeg \/ EmbedderDown \/ SemanticTimeout
    <2>1. call.outcome # "ok"
      BY <1>0, <1>6 DEF GoodSearch, SemanticLeg, EmbedderDown, SemanticTimeout, At
    <2>2. ASSUME NEW ranking, Step(Fused([call EXCEPT !.semantic = ranking])) PROVE IInv'
      <3> DEFINE u == [call EXCEPT !.semantic = ranking]
      <3>1. /\ IsCall(u) /\ u.kind = call.kind /\ u.now = call.now /\ u.outcome = call.outcome
            /\ u.subject = call.subject /\ u.view = call.view /\ u.rows = call.rows
        BY <1>0 DEF IsCall
      <3> HIDE DEF u
      <3> QED
        BY <1>5, <2>1, <2>2, <3>1 DEF u
    <2>3. ASSUME Step(Fused([call EXCEPT !.aborted = TRUE])) PROVE IInv'
      <3> DEFINE u == [call EXCEPT !.aborted = TRUE]
      <3>1. /\ IsCall(u) /\ u.kind = call.kind /\ u.now = call.now /\ u.outcome = call.outcome
            /\ u.subject = call.subject /\ u.view = call.view /\ u.rows = call.rows
        BY <1>0 DEF IsCall
      <3> HIDE DEF u
      <3> QED
        BY <1>5, <2>1, <2>3, <3>1 DEF u
    <2>4. ASSUME Step(Fused(call)) PROVE IInv'
      BY <1>0, <1>5, <2>1, <2>4
    <2> QED
      BY <1>6, <2>2, <2>3, <2>4, Zenon DEF SemanticLeg, EmbedderDown, SemanticTimeout
  <1>7. ASSUME NEW outcome, Step([call EXCEPT !.pc = "done", !.outcome = outcome]),
               outcome = "ok" => ToSet(call.fused) \subseteq Memories(call.rows)
        PROVE  IInv'
    <2> DEFINE t == [call EXCEPT !.pc = "done", !.outcome = outcome]
    <2>1. /\ IsCall(t) /\ t.pc = "done" /\ t.fused = call.fused /\ t.outcome = outcome
          /\ t.kind = call.kind /\ t.now = call.now /\ t.subject = call.subject
          /\ t.view = call.view /\ t.rows = call.rows
      BY <1>0 DEF IsCall
    <2> HIDE DEF t
    <2> QED
      BY <1>0, <1>00, <1>7, <2>1, AnswerIInv DEF t
  <1>8. CASE SemanticError
    BY <1>7, <1>8 DEF SemanticError, Finish
  <1>9. CASE Coverage
    <2>1. ToSet(call.fused) \subseteq Memories(call.rows)
      BY <1>9 DEF Coverage, Missing, Memories
    <2> QED
      BY <1>7, <1>9, <2>1 DEF Coverage, Finish
  <1>10. CASE FetchMissing
    <2>1. ASSUME NEW m, NEW fused,
                 Step([call EXCEPT !.rows = @ \cup Fetched(m, call.now), !.fused = fused])
          PROVE  IInv'
      <3> DEFINE t == [call EXCEPT !.rows = @ \cup Fetched(m, call.now), !.fused = fused]
      <3>1. /\ IsCall(t) /\ t.pc = call.pc /\ t.outcome = call.outcome
            /\ t.kind = call.kind /\ t.now = call.now /\ t.subject = call.subject
            /\ t.view = call.view /\ t.rows = call.rows \cup Fetched(m, call.now)
        BY <1>0 DEF IsCall
      <3>2. \A p \in t.rows : <<p[1], p[2], "ACTIVE">> \in seen /\ p[1] \notin call.now
        <4>1. \A p \in Fetched(m, call.now) :
                <<p[1], p[2], "ACTIVE">> \in seen /\ p[1] \notin call.now
          BY <1>0, InForce DEF Fetched
        <4> QED
          BY <1>00, <3>1, <4>1
      <3>3. call.pc = "fetch" /\ call.outcome # "ok"
        BY <1>0, <1>10 DEF FetchMissing, At, GoodSearch
      <3> HIDE DEF t
      <3> QED
        BY <1>0, <2>1, <3>1, <3>2, <3>3, AnswerIInv DEF t
    <2> QED
      BY <1>10, <2>1, Zenon DEF FetchMissing
  <1> QED
    BY <1>1, <1>2, <1>3, <1>4, <1>6, <1>8, <1>9, <1>10

-----------------------------------------------------------------------------
(***************************************************************************)
(* The statements of history().                                            *)
(***************************************************************************)
\* The parts are read in this order.
LEMMA PartOrder ==
    /\ HistoryOrder[1] = "view"
    /\ NextPart("view") = "revisions"
    /\ NextPart("revisions") = "superseded_by"
    /\ NextPart("superseded_by") = "supersedes"
    /\ NextPart("supersedes") = "rest"
  <1>1. /\ DOMAIN HistoryOrder = 1 .. 4 /\ Len(HistoryOrder) = 4
        /\ HistoryOrder[1] = "view" /\ HistoryOrder[2] = "revisions"
        /\ HistoryOrder[3] = "superseded_by" /\ HistoryOrder[4] = "supersedes"
    BY DEF HistoryOrder
  <1>2. ASSUME NEW i \in 1 .. 4
        PROVE  (CHOOSE j \in DOMAIN HistoryOrder : HistoryOrder[j] = HistoryOrder[i]) = i
    <2>1. \A j \in 1 .. 4 : HistoryOrder[j] = HistoryOrder[i] <=> j = i
      BY <1>1
    <2> QED
      BY <1>1, <2>1
  <1>3. /\ (CHOOSE j \in DOMAIN HistoryOrder : HistoryOrder[j] = "view") = 1
        /\ (CHOOSE j \in DOMAIN HistoryOrder : HistoryOrder[j] = "revisions") = 2
        /\ (CHOOSE j \in DOMAIN HistoryOrder : HistoryOrder[j] = "superseded_by") = 3
        /\ (CHOOSE j \in DOMAIN HistoryOrder : HistoryOrder[j] = "supersedes") = 4
    BY <1>1, <1>2
  <1> QED
    BY <1>1, <1>3 DEF NextPart

\* A history holds no rows: what it has read is in its view.
LEMMA HistoryStep ==
    ASSUME IInv, NEW t, Step(t), call.pc # "idle", call.kind = "history", IsCall(t),
           t.pc \in {"view", "revisions", "superseded_by", "supersedes", "rest", "done"},
           t.kind = call.kind, t.now = call.now, t.rows = call.rows,
           t.outcome = "ok" => t.pc = "done", GoodHistory(t)
    PROVE  IInv'
  <1>1. GoodSearch(t)
    BY DEF IInv, GoodSearch
  <1> QED
    BY <1>1, ReaderStep

\* Every statement of history() keeps the invariant.
LEMMA HistoryIInv ==
    ASSUME IInv, ReadView \/ ReadRevisions \/ ReadSupersededBy \/ ReadSupersedes \/ ReadRest
    PROVE  IInv'
  <1> DEFINE m == call.subject
  <1>0. /\ call.pc \in {"view", "revisions", "superseded_by", "supersedes", "rest"}
        /\ IsCall(call) /\ GoodHistory(call) /\ call.kind = "history" /\ m \in MemIds
        /\ call.outcome # "ok"
    BY DEF IInv, GoodSearch, GoodHistory, ReadView, ReadRevisions, ReadSupersededBy,
        ReadSupersedes, ReadRest, At
  <1>1. \A n \in call.view.flagged : \E s \in MemoryStatus : <<m, n, s>> \in seen
    BY <1>0 DEF GoodHistory
  <1>2. /\ mem[m] \in MemoryRow /\ mem[m].cur \in 0 .. MaxRev
        /\ current[m] = IF mem[m].status # "ABSENT" THEN {mem[m].cur} ELSE {}
        /\ \A n \in RevNos : rev[m][n] # NoContent <=> n <= mem[m].cur
        /\ mem[m].status = "SUPERSEDED" <=> mem[m].by # NoMem
        /\ current[m] \subseteq RevNos
    BY <1>0 DEF IInv, LedgerSound, MemoryRow
  <1>3. \A n \in current[m] : \E s \in MemoryStatus : <<m, n, s>> \in seen
    <2> SUFFICES ASSUME NEW n \in current[m]
                 PROVE  \E s \in MemoryStatus : <<m, n, s>> \in seen
      OBVIOUS
    <2>1. <<m, n>> \in CurrentPairs
      BY <1>0, <1>2 DEF CurrentPairs, Pairs
    <2>2. <<m, n, mem[m].status>> \in Observed
      BY <2>1 DEF Observed
    <2> QED
      BY <1>0, <1>2, <2>2 DEF IInv, Watching, At, MemoryRow
  <1> HIDE DEF m
  <1>4. CASE ReadView
    <2>1. CASE m \in Known
      <3> DEFINE S == mem[m].status
                 N == mem[m].cur
                 t == [call EXCEPT !.pc = NextPart("view"), !.view.status = S,
                                   !.view.no = N, !.view.flagged = @ \cup {N}]
      <3>1. Step(t)
        BY <1>4, <2>1 DEF ReadView, m
      <3>0. S \in MemoryStatus /\ N \in Nat
        BY <1>2 DEF MemoryRow
      <3> HIDE DEF S, N
      <3>2. /\ IsCall(t) /\ t.pc = "revisions" /\ t.kind = call.kind /\ t.now = call.now
            /\ t.rows = call.rows /\ t.outcome = call.outcome /\ t.subject = call.subject
            /\ t.view.status = S /\ t.view.no = N
            /\ t.view.flagged = call.view.flagged \cup {N}
        BY <1>0, <3>0, PartOrder DEF IsCall
      <3>3. N \in current[m] /\ N <= mem[m].cur /\ S = mem[m].status
        BY <1>2, <2>1 DEF Known, S, N
      <3> HIDE DEF t
      <3>4. GoodHistory(t)
        BY <1>0, <1>1, <1>3, <3>2, <3>3 DEF GoodHistory, Past, m
      <3> QED
        BY <1>0, <3>1, <3>2, <3>4, HistoryStep
    <2>2. CASE m \notin Known
      <3> DEFINE t == [call EXCEPT !.pc = "done", !.outcome = "not_found"]
      <3>1. Step(t)
        BY <1>4, <2>2 DEF ReadView, Finish, m
      <3>2. /\ IsCall(t) /\ t.pc = "done" /\ t.kind = call.kind /\ t.now = call.now
            /\ t.rows = call.rows /\ t.outcome = "not_found" /\ t.subject = call.subject
            /\ t.view = call.view
        BY <1>0 DEF IsCall
      <3> HIDE DEF t
      <3>3. GoodHistory(t)
        BY <1>0, <1>1, <3>2 DEF GoodHistory, Past, m
      <3> QED
        BY <1>0, <3>1, <3>2, <3>3, HistoryStep
    <2> QED
      BY <2>1, <2>2
  <1>5. CASE ReadRevisions
    <2> DEFINE R == {n \in RevNos : rev[m][n] # NoContent}
               C == current[m]
               t == [call EXCEPT !.pc = NextPart("revisions"), !.view.revisions = R,
                                 !.view.flagged = @ \cup C]
    <2>1. Step(t) /\ call.pc = "revisions"
      BY <1>5 DEF ReadRevisions, At, m
    <2>2. 1 .. mem[m].cur \subseteq R
      BY <1>2 DEF RevNos
    <2> HIDE DEF R, C
    <2>3. /\ IsCall(t) /\ t.pc = "superseded_by" /\ t.kind = call.kind /\ t.now = call.now
          /\ t.rows = call.rows /\ t.outcome = call.outcome /\ t.subject = call.subject
          /\ t.view.status = call.view.status /\ t.view.no = call.view.no
          /\ t.view.flagged = call.view.flagged \cup C /\ t.view.revisions = R
      BY <1>0, PartOrder DEF IsCall
    <2>4. call.view.no \in Nat /\ call.view.no <= mem[m].cur
      BY <1>0, <2>1 DEF IsCall, GoodHistory, Past, m
    <2>5. 1 .. call.view.no \subseteq R
      BY <1>2, <2>2, <2>4
    <2> HIDE DEF t
    <2>6. GoodHistory(t)
      BY <1>0, <1>1, <1>3, <2>1, <2>3, <2>5 DEF GoodHistory, Past, m, C
    <2> QED
      BY <1>0, <2>1, <2>3, <2>6, HistoryStep
  <1>6. CASE ReadSupersededBy
    <2> DEFINE t == [call EXCEPT !.pc = NextPart("superseded_by"), !.view.by = mem[m].by]
    <2>1. Step(t) /\ call.pc = "superseded_by"
      BY <1>6 DEF ReadSupersededBy, At, m
    <2>2. /\ IsCall(t) /\ t.pc = "supersedes" /\ t.kind = call.kind /\ t.now = call.now
          /\ t.rows = call.rows /\ t.outcome = call.outcome /\ t.subject = call.subject
          /\ t.view.status = call.view.status /\ t.view.no = call.view.no
          /\ t.view.flagged = call.view.flagged /\ t.view.revisions = call.view.revisions
          /\ t.view.by = mem[m].by
      BY <1>0, PartOrder DEF IsCall
    <2> HIDE DEF t
    <2>3. GoodHistory(t)
      BY <1>0, <1>1, <1>2, <2>1, <2>2 DEF GoodHistory, Past, m
    <2> QED
      BY <1>0, <2>1, <2>2, <2>3, HistoryStep
  <1>7. CASE ReadSupersedes
    <2> DEFINE R == {x \in MemIds : mem[x].by = m}
               t == [call EXCEPT !.pc = NextPart("supersedes"), !.view.retired = R]
    <2>1. Step(t) /\ call.pc = "supersedes"
      BY <1>7 DEF ReadSupersedes, At, m
    <2>2. \A x \in R : x \in MemIds /\ x # NoMem /\ ~(mem[m].by = x) /\ x # m
      BY <1>0 DEF IInv, LedgerSound, NoMem
    <2> HIDE DEF R
    <2>3. /\ IsCall(t) /\ t.pc = "rest" /\ t.kind = call.kind /\ t.now = call.now
          /\ t.rows = call.rows /\ t.outcome = call.outcome /\ t.subject = call.subject
          /\ t.view.status = call.view.status /\ t.view.no = call.view.no
          /\ t.view.flagged = call.view.flagged /\ t.view.revisions = call.view.revisions
          /\ t.view.by = call.view.by /\ t.view.retired = R
      BY <1>0, PartOrder DEF IsCall
    <2>4. call.view.by # NoMem => mem[m].by = call.view.by
      BY <1>0, <2>1 DEF GoodHistory, Past, m
    <2>5. {call.view.by, m} \cap R = {}
      BY <2>2, <2>4
    <2> HIDE DEF t
    <2>6. GoodHistory(t)
      BY <1>0, <1>1, <2>1, <2>3, <2>5 DEF GoodHistory, Past, m
    <2> QED
      BY <1>0, <2>1, <2>3, <2>6, HistoryStep
  <1>8. CASE ReadRest
    <2> DEFINE t == [call EXCEPT !.pc = "done", !.outcome = "ok"]
    <2>1. Step(t) /\ call.pc = "rest"
      BY <1>8 DEF ReadRest, Finish, At
    <2>2. /\ IsCall(t) /\ t.pc = "done" /\ t.kind = call.kind /\ t.now = call.now
          /\ t.rows = call.rows /\ t.outcome = "ok" /\ t.subject = call.subject
          /\ t.view = call.view
      BY <1>0 DEF IsCall
    <2> HIDE DEF t
    <2>3. GoodHistory(t)
      BY <1>0, <2>1, <2>2 DEF GoodHistory, Past
    <2> QED
      BY <1>0, <2>1, <2>2, <2>3, HistoryStep
  <1> QED
    BY <1>4, <1>5, <1>6, <1>7, <1>8

-----------------------------------------------------------------------------
(***************************************************************************)
(* The invariant.                                                          *)
(***************************************************************************)
\* Between two calls nothing has been read.
LEMMA IdleGood == IsCall(Idle) /\ GoodSearch(Idle) /\ GoodHistory(Idle)
  <1>1. Idle.view = NoView /\ NoView.flagged = {} /\ Idle.rows = {} /\ Idle.pc = "idle"
        /\ Idle.kind = "browse" /\ Idle.outcome = "none"
    BY DEF Idle, NoView
  <1>2. IsCall(Idle)
    BY DEF IsCall, Idle, NoView, MemoryStatus
  <1> QED
    BY <1>1, <1>2 DEF GoodSearch, GoodHistory, Past

\* The empty ledger and no call satisfy the invariant.
LEMMA InitIInv == Init => IInv
  <1> SUFFICES ASSUME Init PROVE IInv
    OBVIOUS
  <1>1. LedgerSound
    BY DEF Init, Ledger!Init, Ledger!NoRow, Ledger!NoRevisions, Ledger!NoMem, LedgerSound,
        MemoryRow, MemoryStatus, NoMem, RevNos, Ledger!RevNos
  <1> QED
    BY <1>1, IdleGood DEF Init, IInv, Watching, At, Idle

\* A call begins by observing what is current.
LEMMA BeginIInv ==
    ASSUME IInv, NEW kind \in Kinds, NEW m \in MemIds \cup {NoMem}, Begin(kind, m)
    PROVE  IInv'
  <1> DEFINE P == CASE kind \in {"browse", "search"} -> "all_terms"
                    [] kind = "hybrid" -> "lexical"
                    [] kind = "history" -> HistoryOrder[1]
             t == [Idle EXCEPT !.pc = P, !.kind = kind, !.now = expired, !.subject = m]
  <1>1. /\ call' = t /\ seen' = Observed
        /\ mem' = mem /\ rev' = rev /\ current' = current
    BY DEF Begin, store
  <1>2. /\ kind \in {"browse", "search", "hybrid"} => P \in {"all_terms", "lexical"}
        /\ kind = "history" => P = "view" /\ m \in MemIds
    BY PartOrder DEF Begin
  <1>3. kind \in {"browse", "search", "hybrid", "history"}
    OBVIOUS
  <1> HIDE DEF P
  <1>4. /\ IsCall(t) /\ t.pc = P /\ t.kind = kind /\ t.subject = m /\ t.view = NoView
        /\ t.rows = {} /\ t.fused = <<>> /\ t.outcome = "none" /\ t.view.flagged = {}
    <2>1. IsCall(Idle) /\ Idle.view = NoView /\ NoView.flagged = {} /\ Idle.rows = {}
          /\ Idle.fused = <<>> /\ Idle.outcome = "none"
      BY IdleGood DEF Idle, NoView
    <2> QED
      BY <2>1 DEF IsCall
  <1> HIDE DEF t
  <1>5. LedgerSound'
    BY <1>1 DEF IInv, LedgerSound
  <1>6. Watching'
    <2>1. Observed' = Observed
      BY <1>1 DEF Observed, CurrentPairs
    <2> QED
      BY <1>1, <2>1 DEF Watching
  <1>7. /\ call'.pc = P /\ call'.kind = kind /\ call'.subject = m
        /\ call'.rows = {} /\ call'.fused = <<>> /\ call'.outcome = "none"
        /\ call'.view.flagged = {}
    BY <1>1, <1>4
  <1>8. IsCall(call)' /\ GoodSearch(call)' /\ GoodHistory(call)'
    <2>1. IsCall(call)'
      BY <1>1, <1>4 DEF IsCall
    <2>2. GoodSearch(call)'
      BY <1>2, <1>3, <1>7 DEF GoodSearch
    <2>3. GoodHistory(call)'
      BY <1>2, <1>3, <1>7 DEF GoodHistory, Past
    <2> QED
      BY <2>1, <2>2, <2>3
  <1> QED
    BY <1>5, <1>6, <1>8 DEF IInv

\* Between two steps of a reader the ledger grows and the reader watches.
LEMMA GrowingIInv ==
    ASSUME IInv, LedgerSound', LedgerGrows, call' = call, Watching', seen \subseteq seen'
    PROVE  IInv'
  <1>1. GoodSearch(call)'
    BY DEF IInv, GoodSearch
  <1>2. GoodHistory(call)'
    <2>1. \A m \in MemIds : mem[m].cur \in Nat /\ mem'[m].cur \in Nat
                            /\ (mem[m].by # NoMem => mem[m].status = "SUPERSEDED")
      BY DEF IInv, LedgerSound, MemoryRow
    <2>2. IsCall(call) /\ GoodHistory(call)
      BY DEF IInv
    <2>3. call.view.no \in Nat
      BY <2>2 DEF IsCall
    <2> DEFINE x == call.subject
    <2>4. x \in MemIds =>
            /\ call.view.no <= mem[x].cur => call.view.no <= mem'[x].cur
            /\ mem[x].status = "SUPERSEDED" => mem'[x].status = "SUPERSEDED"
            /\ call.view.by # NoMem /\ mem[x].by = call.view.by => mem'[x].by = call.view.by
      <3> SUFFICES ASSUME x \in MemIds
                   PROVE  /\ call.view.no <= mem[x].cur => call.view.no <= mem'[x].cur
                          /\ mem[x].status = "SUPERSEDED" => mem'[x].status = "SUPERSEDED"
                          /\ call.view.by # NoMem /\ mem[x].by = call.view.by
                                => mem'[x].by = call.view.by
        OBVIOUS
      <3> HIDE DEF x
      <3>1. /\ mem[x].cur <= mem'[x].cur /\ mem[x].cur \in Nat /\ mem'[x].cur \in Nat
            /\ mem[x].status = "SUPERSEDED" => mem'[x] = mem[x]
            /\ mem[x].by # NoMem => mem[x].status = "SUPERSEDED"
        BY <2>1 DEF LedgerGrows
      <3> QED
        BY <2>3, <3>1
    <2>5. call.kind = "history" =>
            \A n \in call.view.flagged : \E s \in MemoryStatus : <<x, n, s>> \in seen'
      BY <2>2 DEF GoodHistory
    <2>6. Past(call, {"supersedes", "rest"})
            => Past(call, {"revisions", "superseded_by", "supersedes", "rest"})
      BY DEF Past
    <2>7. Past(call, {"revisions", "superseded_by", "supersedes", "rest"}) =>
            /\ x \in MemIds
            /\ call.view.no <= mem'[x].cur
            /\ call.view.status = "SUPERSEDED" => mem'[x].status = "SUPERSEDED"
      BY <2>2, <2>4 DEF GoodHistory
    <2>8. Past(call, {"supersedes", "rest"}) =>
            /\ call.view.status = "SUPERSEDED" => call.view.by # NoMem
            /\ call.view.by # NoMem => mem'[x].by = call.view.by
      BY <2>2, <2>4, <2>6, <2>7 DEF GoodHistory
    <2> QED
      BY <2>2, <2>5, <2>7, <2>8 DEF GoodHistory, Past
  <1>3. IsCall(call)'
    BY DEF IInv, IsCall
  <1> QED
    BY <1>1, <1>2, <1>3 DEF IInv

\* Every step keeps the invariant.
LEMMA StepIInv == IInv /\ [Next]_vars => IInv'
  <1> SUFFICES ASSUME IInv, [Next]_vars PROVE IInv'
    OBVIOUS
  <1>1. CASE UNCHANGED <<mem, rev, current, call, seen>>
    <2>1. LedgerSound' /\ LedgerGrows
      BY <1>1 DEF IInv, LedgerSound, LedgerGrows, MemoryRow
    <2>2. Watching'
      BY <1>1 DEF IInv, Watching, Observed, CurrentPairs, At
    <2> QED
      BY <1>1, <2>1, <2>2, GrowingIInv
  <1>2. CASE Write
    <2>1. LedgerSound' /\ LedgerGrows
      BY <1>2, WriteSound DEF Write, IInv
    <2>2. Watching' /\ seen \subseteq seen' /\ call' = call
      BY <1>2 DEF Write, Watch, Watching, At
    <2> QED
      BY <2>1, <2>2, GrowingIInv
  <1>3. CASE Index \/ Expire
    BY <1>1, <1>3 DEF Index, Expire
  <1>4. CASE Return
    <2>1. /\ call' = Idle /\ mem' = mem /\ rev' = rev /\ current' = current
      BY <1>4 DEF Return, store
    <2>2. LedgerSound' /\ Watching'
      BY <2>1 DEF IInv, LedgerSound, Watching, At, Idle
    <2>3. IsCall(call)' /\ GoodSearch(call)' /\ GoodHistory(call)'
      <3>1. /\ Idle.view.flagged = {} /\ Idle.rows = {} /\ Idle.pc = "idle"
            /\ Idle.kind = "browse" /\ Idle.outcome = "none"
        BY DEF Idle, NoView
      <3> QED
        BY <2>1, <3>1, IdleGood DEF IsCall, GoodSearch, GoodHistory, Past
    <2> QED
      BY <2>2, <2>3 DEF IInv
  <1>5. CASE \E kind \in Kinds, m \in MemIds \cup {NoMem} : Begin(kind, m)
    BY <1>5, BeginIInv
  <1> QED
    BY <1>1, <1>2, <1>3, <1>4, <1>5, SearchIInv, HistoryIInv DEF Next, Read, vars, store

\* The inductive invariant holds in every reachable state.
THEOREM Invariance == Spec => []IInv
  BY InitIInv, StepIInv, PTL DEF Spec

\* Whatever the writers commit between its statements, a search answers only
\* with revisions that were in force at some moment of the call, of memories
\* that had not expired when it began.
THEOREM AnswersWereInForce == Spec => []OnlyInForce
  <1>1. IInv => OnlyInForce
    BY DEF IInv, GoodSearch, OnlyInForce, Memories
  <1> QED
    BY <1>1, Invariance, PTL

\* The six snapshots of a history fit together: no gap before the revision
\* shown, a successor for what is shown as superseded, no memory on both
\* sides of the lineage, and no flag on a revision that was never current.
THEOREM HistoryIsCoherent == Spec => []HistoryFitsMemory
  <1>1. IInv => HistoryFitsMemory
    BY DEF IInv, GoodHistory, Past, HistoryFitsMemory
  <1> QED
    BY <1>1, Invariance, PTL

-----------------------------------------------------------------------------
(***************************************************************************)
(* Types.  The lengths of what the statements return need an invariant of  *)
(* their own, that the rankings and the answer are sequences.              *)
(***************************************************************************)
Candidates == Limit * Overfetch

\* s is a sequence of at most n elements.
UpTo(s, n) == s \in Seq(ToSet(s)) /\ Len(s) <= n

\* A count follows a statement with the limit of the call; the legs of the
\* hybrid search are longer.
Sized(t) ==
    /\ t.rows \subseteq Pairs /\ t.now \subseteq MemIds
    /\ t.lexical \in Seq(MemIds) /\ Len(t.lexical) <= Candidates
    /\ t.pc = "count" => Len(t.lexical) <= Limit
    /\ t.semantic \in Seq(MemIds)
    /\ UpTo(t.fused, Limit)
    /\ t.subject \in MemIds \cup {NoMem}
    /\ t.view.status \in MemoryStatus /\ t.view.revisions \subseteq RevNos

Sizes ==
    /\ vectors \subseteq Pairs
    /\ expired \subseteq Perishable /\ expired \subseteq MemIds
    /\ Sized(call)

\* The legs fetch no less than the limit.
LEMMA CandidatesEnough == Limit \in Nat /\ Candidates \in Nat /\ Limit <= Candidates
  <1>1. \A x, y \in Nat \ {0} : x * y \in Nat /\ x <= x * y
    <2>1. \A x, y \in Nat \ {0} : x * y = x * (y - 1) + x /\ x * (y - 1) \in Nat
      OBVIOUS
    <2> QED
      BY <2>1
  <1> QED
    BY <1>1 DEF Candidates

\* A sequence is a sequence of its own elements.
LEMMA OwnElements ==
    ASSUME NEW S, NEW s \in Seq(S)
    PROVE  s \in Seq(ToSet(s))
  <1>1. DOMAIN s = 1 .. Len(s) /\ Len(s) \in Nat
    OBVIOUS
  <1>2. s \in [1 .. Len(s) -> ToSet(s)]
    BY <1>1 DEF ToSet
  <1> QED
    BY <1>1, <1>2

\* The first elements of a sequence, no more than n.
LEMMA CutOff ==
    ASSUME NEW S, NEW s \in Seq(S), NEW n \in Nat
    PROVE  UpTo(SubSeq(s, 1, IF Len(s) < n THEN Len(s) ELSE n), n)
  <1> DEFINE k == IF Len(s) < n THEN Len(s) ELSE n
  <1>1. k \in Nat /\ k <= Len(s) /\ k <= n
    OBVIOUS
  <1> HIDE DEF k
  <1>2. SubSeq(s, 1, k) \in Seq(S) /\ Len(SubSeq(s, 1, k)) = k
    <2>1. \A i \in 1 .. k : s[i] \in S
      BY <1>1
    <2> QED
      BY <1>1, <2>1, SubSeqProperties
  <1> QED
    BY <1>1, <1>2, OwnElements DEF UpTo, k

\* One element taken out.
LEMMA TakenOut ==
    ASSUME NEW s, NEW n \in Nat, UpTo(s, n), NEW i \in DOMAIN s
    PROVE  UpTo(RemoveAt(s, i), n)
  <1> DEFINE S == ToSet(s)
             a == SubSeq(s, 1, i - 1)
             b == SubSeq(s, i + 1, Len(s))
  <1>1. s \in Seq(S) /\ Len(s) \in Nat /\ Len(s) <= n /\ i \in 1 .. Len(s)
    BY DEF UpTo
  <1> HIDE DEF S
  <1>2. a \in Seq(S) /\ Len(a) = i - 1
    <2>1. \A j \in 1 .. i - 1 : s[j] \in S
      BY <1>1
    <2>2. i - 1 \in Nat /\ (1 <= i - 1 \/ i - 1 = 0)
      BY <1>1
    <2> QED
      BY <1>1, <2>1, <2>2, SubSeqProperties
  <1>3. b \in Seq(S) /\ Len(b) = Len(s) - i
    <2>1. \A j \in i + 1 .. Len(s) : s[j] \in S
      BY <1>1
    <2> QED
      BY <1>1, <2>1, SubSeqProperties
  <1> HIDE DEF a, b
  <1>4. a \o b \in Seq(S) /\ Len(a \o b) = Len(s) - 1
    BY <1>1, <1>2, <1>3
  <1>5. RemoveAt(s, i) = a \o b
    BY DEF RemoveAt, a, b
  <1>6. a \o b \in Seq(ToSet(a \o b))
    BY <1>4, OwnElements
  <1>7. Len(a \o b) <= n
    BY <1>1, <1>4
  <1> QED
    BY <1>5, <1>6, <1>7 DEF UpTo

\* The fusion of two rankings is a sequence.
LEMMA FusionIsSequence ==
    ASSUME NEW l \in Seq(MemIds), NEW s \in Seq(MemIds)
    PROVE  Fuse(l, s) \in Seq(ToSet(Fuse(l, s)))
  <1> DEFINE found == ToSet(l) \cup ToSet(s)
             c == Cardinality(found)
             place(m) == Cardinality({x \in found : Before(l, s, x, m)}) + 1
             f == [i \in 1 .. c |-> CHOOSE m \in found : place(m) = i]
  <1>1. found \subseteq MemIds
    BY DEF ToSet
  <1>2. c \in Nat
    BY <1>1, FiniteIds, FS_Subset, FS_CardinalityType
  <1> HIDE DEF c, found
  <1> DEFINE F == {CHOOSE m \in found : place(m) = i : i \in 1 .. c}
  <1>3. f \in Seq(F)
    <2>1. \A i \in 1 .. c : (CHOOSE m \in found : place(m) = i) \in F
      OBVIOUS
    <2>2. f \in [1 .. c -> F]
      <3> HIDE DEF F
      <3> QED
        BY <2>1
    <2> HIDE DEF f, F
    <2> QED
      BY <1>2, <2>2
  <1>4. f \in Seq(ToSet(f))
    <2> HIDE DEF f, F
    <2> QED
      BY <1>3, OwnElements
  <1> QED
    BY <1>4 DEF Fuse, c, found

\* A reader moves on to t.
LEMMA SizedStep ==
    ASSUME Sizes, NEW t, Step(t), Sized(t)
    PROVE  Sizes'
  BY DEF Sizes, Sized, UpTo, Step, store, Candidates

\* A lexical statement.
LEMMA FoundSized ==
    ASSUME IsCall(call), Sizes, NEW contents, NEW n \in Nat, n <= Candidates,
           NEW label, label = "count" => n <= Limit, NEW strategy,
           Found(contents, n, label, strategy)
    PROVE  Sizes'
  <1> DEFINE rows == Matching(contents, call.now)
  <1>1. PICK ranking \in Rankings(rows, n) :
          Step([call EXCEPT !.pc = label, !.lexical = ranking, !.strategy = strategy,
                            !.rows = Hydrated(rows, ranking)])
    BY DEF Found
  <1> DEFINE H == Hydrated(rows, ranking)
             t == [call EXCEPT !.pc = label, !.lexical = ranking, !.strategy = strategy,
                               !.rows = H]
  <1>2. rows \in SUBSET Pairs
    BY DEF Matching
  <1>3. H \subseteq Pairs /\ ranking \in Seq(MemIds) /\ Len(ranking) <= n
    BY <1>2, RankingFacts DEF Hydrated
  <1>4. Step(t)
    BY <1>1
  <1> HIDE DEF H
  <1>5. /\ t.pc = label /\ t.lexical = ranking /\ t.rows = H
        /\ t.now = call.now /\ t.fused = call.fused /\ t.semantic = call.semantic
        /\ t.subject = call.subject /\ t.view = call.view
    BY DEF IsCall
  <1> HIDE DEF t
  <1>6. Sized(t)
    <2>1. Len(ranking) \in Nat /\ Len(ranking) <= Candidates /\ (label = "count" => Len(ranking) <= Limit)
      BY <1>3, CandidatesEnough
    <2> QED
      BY <1>3, <1>5, <2>1 DEF Sizes, Sized
  <1> QED
    BY <1>4, <1>6, SizedStep

\* The two legs are fused.
LEMMA FusedSized ==
    ASSUME Sizes, NEW u, IsCall(u), Sized(u), Step(Fused(u))
    PROVE  Sizes'
  <1> DEFINE f == Fuse(u.lexical, u.semantic)
             g == SubSeq(f, 1, IF Len(f) < Limit THEN Len(f) ELSE Limit)
             t == [u EXCEPT !.pc = "fetch", !.fused = g]
  <1>1. UpTo(g, Limit)
    <2>1. f \in Seq(ToSet(f))
      BY FusionIsSequence DEF Sized
    <2> HIDE DEF f
    <2> QED
      BY <2>1, CutOff, CandidatesEnough
  <1>2. Step(t)
    BY DEF Fused
  <1> HIDE DEF g
  <1>3. /\ t.pc = "fetch" /\ t.lexical = u.lexical /\ t.rows = u.rows
        /\ t.now = u.now /\ t.fused = g /\ t.semantic = u.semantic
        /\ t.subject = u.subject /\ t.view = u.view
    BY DEF IsCall
  <1> HIDE DEF t
  <1>4. Sized(t)
    BY <1>1, <1>3 DEF Sized
  <1> QED
    BY <1>2, <1>4, SizedStep

\* The statements of search and hybrid_search keep the sizes.
LEMMA SearchSized ==
    ASSUME IsCall(call), Sizes,
           \/ AllTerms \/ Count \/ AnyTerm
           \/ LexicalLeg \/ SemanticLeg \/ EmbedderDown \/ SemanticTimeout \/ SemanticError
           \/ FetchMissing \/ Coverage
    PROVE  Sizes'
  <1>0. Sized(call)
    BY DEF Sizes
  <1>1. ASSUME NEW outcome, Step([call EXCEPT !.pc = "done", !.outcome = outcome])
        PROVE  Sizes'
    <2> DEFINE t == [call EXCEPT !.pc = "done", !.outcome = outcome]
    <2>1. /\ t.pc = "done" /\ t.lexical = call.lexical /\ t.rows = call.rows
          /\ t.now = call.now /\ t.fused = call.fused /\ t.semantic = call.semantic
          /\ t.subject = call.subject /\ t.view = call.view
      BY DEF IsCall
    <2> HIDE DEF t
    <2>2. Sized(t)
      BY <1>0, <2>1 DEF Sized
    <2> QED
      BY <1>1, <2>2, SizedStep DEF t
  <1>2. CASE AllTerms
    BY <1>2, FoundSized, CandidatesEnough DEF AllTerms
  <1>3. CASE Count
    <2>1. ASSUME Step([call EXCEPT !.fused = call.lexical, !.pc = "done", !.outcome = "ok"])
          PROVE  Sizes'
      <3> DEFINE t == [call EXCEPT !.fused = call.lexical, !.pc = "done", !.outcome = "ok"]
      <3>1. /\ t.pc = "done" /\ t.lexical = call.lexical /\ t.rows = call.rows
            /\ t.now = call.now /\ t.fused = call.lexical /\ t.semantic = call.semantic
            /\ t.subject = call.subject /\ t.view = call.view
        BY DEF IsCall
      <3> HIDE DEF t
      <3>2. UpTo(call.lexical, Limit)
        BY <1>0, <1>3, OwnElements DEF UpTo, Sized, Count, At
      <3>3. Sized(t)
        BY <1>0, <3>1, <3>2 DEF Sized
      <3> QED
        BY <2>1, <3>3, SizedStep DEF t
    <2>2. ASSUME Step([call EXCEPT !.pc = "any_term"])
          PROVE  Sizes'
      <3> DEFINE t == [call EXCEPT !.pc = "any_term"]
      <3>1. /\ t.pc = "any_term" /\ t.lexical = call.lexical /\ t.rows = call.rows
            /\ t.now = call.now /\ t.fused = call.fused /\ t.semantic = call.semantic
            /\ t.subject = call.subject /\ t.view = call.view
        BY DEF IsCall
      <3> HIDE DEF t
      <3>2. Sized(t)
        BY <1>0, <3>1 DEF Sized
      <3> QED
        BY <2>2, <3>2, SizedStep DEF t
    <2> QED
      BY <1>3, <2>1, <2>2 DEF Count, Finish
  <1>4. CASE AnyTerm
    <2>1. CASE Found(Loose, Limit, "count", "any_term")
      BY <2>1, FoundSized, CandidatesEnough
    <2>2. CASE Step([call EXCEPT !.pc = "done", !.outcome = "ok"])
      BY <1>1, <2>2
    <2> QED
      BY <1>4, <2>1, <2>2 DEF AnyTerm, Finish
  <1>5. CASE LexicalLeg
    <2>1. Found(Strict, Candidates, "semantic", "hybrid")
      BY <1>5 DEF LexicalLeg, Candidates
    <2> QED
      BY <2>1, FoundSized, CandidatesEnough
  <1>6. CASE SemanticLeg
    <2>1. PICK ranking \in Rankings(Matching(Near, call.now) \cap vectors, Candidates) :
            Step(Fused([call EXCEPT !.semantic = ranking]))
      BY <1>6 DEF SemanticLeg, Candidates
    <2>2. ranking \in Seq(MemIds)
      <3>1. Matching(Near, call.now) \cap vectors \in SUBSET Pairs
        BY DEF Matching
      <3> QED
        BY <3>1, RankingFacts, CandidatesEnough
    <2> DEFINE u == [call EXCEPT !.semantic = ranking]
    <2>3. /\ IsCall(u) /\ u.pc = call.pc /\ u.lexical = call.lexical /\ u.rows = call.rows
          /\ u.now = call.now /\ u.fused = call.fused /\ u.semantic = ranking
          /\ u.subject = call.subject /\ u.view = call.view
      BY DEF IsCall
    <2> HIDE DEF u
    <2>4. Sized(u)
      BY <1>0, <2>2, <2>3 DEF Sized
    <2> QED
      BY <2>1, <2>3, <2>4, FusedSized DEF u
  <1>7. CASE EmbedderDown
    BY <1>0, <1>7, FusedSized DEF EmbedderDown
  <1>8. CASE SemanticTimeout
    <2> DEFINE u == [call EXCEPT !.aborted = TRUE]
    <2>1. /\ IsCall(u) /\ u.pc = call.pc /\ u.lexical = call.lexical /\ u.rows = call.rows
          /\ u.now = call.now /\ u.fused = call.fused /\ u.semantic = call.semantic
          /\ u.subject = call.subject /\ u.view = call.view
      BY DEF IsCall
    <2>2. Step(Fused(u))
      BY <1>8 DEF SemanticTimeout
    <2> HIDE DEF u
    <2>3. Sized(u)
      BY <1>0, <2>1 DEF Sized
    <2> QED
      BY <2>1, <2>2, <2>3, FusedSized
  <1>9. CASE SemanticError
    BY <1>1, <1>9 DEF SemanticError, Finish
  <1>10. CASE FetchMissing
    <2>1. PICK i \in DOMAIN call.fused :
            LET row == Fetched(call.fused[i], call.now)
            IN  Step([call EXCEPT !.rows = @ \cup row,
                                  !.fused = IF row = {} THEN RemoveAt(@, i) ELSE @])
      BY <1>10 DEF FetchMissing
    <2> DEFINE row == Fetched(call.fused[i], call.now)
               g == IF row = {} THEN RemoveAt(call.fused, i) ELSE call.fused
               t == [call EXCEPT !.rows = @ \cup row, !.fused = g]
    <2>2. UpTo(g, Limit)
      <3>1. UpTo(call.fused, Limit)
        BY <1>0 DEF Sized
      <3>2. UpTo(RemoveAt(call.fused, i), Limit)
        BY <3>1, TakenOut, CandidatesEnough
      <3> QED
        BY <3>1, <3>2
    <2>3. row \subseteq Pairs
      BY DEF Fetched
    <2>4. Step(t)
      BY <2>1
    <2> HIDE DEF row, g
    <2>5. /\ t.pc = call.pc /\ t.lexical = call.lexical /\ t.rows = call.rows \cup row
          /\ t.now = call.now /\ t.fused = g /\ t.semantic = call.semantic
          /\ t.subject = call.subject /\ t.view = call.view
      BY DEF IsCall
    <2> HIDE DEF t
    <2>6. Sized(t)
      BY <1>0, <2>2, <2>3, <2>5 DEF Sized
    <2> QED
      BY <2>4, <2>6, SizedStep
  <1>11. CASE Coverage
    BY <1>1, <1>11 DEF Coverage, Finish
  <1> QED
    BY <1>2, <1>3, <1>4, <1>5, <1>6, <1>7, <1>8, <1>9, <1>10, <1>11

\* The statements of history() only touch its view.
LEMMA HistorySized ==
    ASSUME IInv, Sizes,
           ReadView \/ ReadRevisions \/ ReadSupersededBy \/ ReadSupersedes \/ ReadRest
    PROVE  Sizes'
  <1>0. IsCall(call) /\ Sized(call) /\ call.kind = "history" /\ call.subject \in MemIds
    BY DEF IInv, Sizes, GoodHistory, ReadView, ReadRevisions, ReadSupersededBy,
        ReadSupersedes, ReadRest, At
  <1>1. /\ call' \in [pc : {call'.pc}, kind : {call.kind}, now : {call.now},
                      lexical : {call.lexical}, semantic : {call.semantic},
                      fused : {call.fused}, rows : {call.rows}, aborted : {call.aborted},
                      strategy : {call.strategy}, subject : {call.subject},
                      view : [status : MemoryStatus, no : {call'.view.no},
                              flagged : {call'.view.flagged}, revisions : SUBSET RevNos,
                              by : {call'.view.by}, retired : {call'.view.retired}],
                      outcome : {call'.outcome}]
        /\ call'.pc # "count"
        /\ vectors' = vectors /\ expired' = expired
    <2> DEFINE m == call.subject
               S == mem[m].status
               R == {n \in RevNos : rev[m][n] # NoContent}
    <2>1. S \in MemoryStatus /\ R \subseteq RevNos
      BY <1>0 DEF IInv, LedgerSound, MemoryRow
    <2>2. call.view.status \in MemoryStatus /\ call.view.revisions \subseteq RevNos
      BY <1>0 DEF Sized
    <2>3. CASE ReadView
      <3> DEFINE N == mem[m].cur
      <3>1. \/ Step([call EXCEPT !.pc = NextPart("view"), !.view.status = S,
                                 !.view.no = N, !.view.flagged = @ \cup {N}])
            \/ Step([call EXCEPT !.pc = "done", !.outcome = "not_found"])
        BY <2>3 DEF ReadView, Finish
      <3> HIDE DEF S, N
      <3>2. CASE Step([call EXCEPT !.pc = NextPart("view"), !.view.status = S,
                                   !.view.no = N, !.view.flagged = @ \cup {N}])
        BY <1>0, <2>1, <2>2, <3>2, PartOrder DEF IsCall, Step, store
      <3>3. CASE Step([call EXCEPT !.pc = "done", !.outcome = "not_found"])
        BY <1>0, <2>2, <3>3 DEF IsCall, Step, store
      <3> QED
        BY <3>1, <3>2, <3>3
    <2>4. CASE ReadRevisions
      <3> DEFINE C == current[m]
      <3>1. Step([call EXCEPT !.pc = NextPart("revisions"), !.view.revisions = R,
                              !.view.flagged = @ \cup C])
        BY <2>4 DEF ReadRevisions
      <3> HIDE DEF R, C
      <3> QED
        BY <1>0, <2>1, <2>2, <3>1, PartOrder DEF IsCall, Step, store
    <2>5. CASE ReadSupersededBy
      <3> DEFINE b == mem[m].by
      <3>1. Step([call EXCEPT !.pc = NextPart("superseded_by"), !.view.by = b])
        BY <2>5 DEF ReadSupersededBy
      <3> HIDE DEF b
      <3> QED
        BY <1>0, <2>2, <3>1, PartOrder DEF IsCall, Step, store
    <2>6. CASE ReadSupersedes
      <3> DEFINE b == {x \in MemIds : mem[x].by = m}
      <3>1. Step([call EXCEPT !.pc = NextPart("supersedes"), !.view.retired = b])
        BY <2>6 DEF ReadSupersedes
      <3> HIDE DEF b
      <3> QED
        BY <1>0, <2>2, <3>1, PartOrder DEF IsCall, Step, store
    <2>7. CASE ReadRest
      <3>1. Step([call EXCEPT !.pc = "done", !.outcome = "ok"])
        BY <2>7 DEF ReadRest, Finish
      <3> QED
        BY <1>0, <2>2, <3>1 DEF IsCall, Step, store
    <2> QED
      BY <2>3, <2>4, <2>5, <2>6, <2>7
  <1>2. Sized(call)'
    <2>1. /\ call'.rows = call.rows /\ call'.now = call.now /\ call'.lexical = call.lexical
          /\ call'.semantic = call.semantic /\ call'.fused = call.fused
          /\ call'.subject = call.subject
          /\ call'.view.status \in MemoryStatus /\ call'.view.revisions \subseteq RevNos
      BY <1>1
    <2> QED
      BY <1>0, <1>1, <2>1 DEF Sized, UpTo, Candidates
  <1> QED
    BY <1>1, <1>2 DEF Sizes

\* A call that has read nothing.
LEMMA NothingRead ==
    ASSUME NEW t, t.rows = {}, t.now \subseteq MemIds, t.lexical = <<>>, t.semantic = <<>>,
           t.fused = <<>>, t.subject \in MemIds \cup {NoMem}, t.view = NoView
    PROVE  Sized(t)
  <1>1. <<>> \in Seq(MemIds) /\ Len(<<>>) = 0
    OBVIOUS
  <1>2. UpTo(<<>>, Limit)
    BY <1>1, OwnElements, CandidatesEnough DEF UpTo
  <1>3. NoView.status \in MemoryStatus /\ NoView.revisions \subseteq RevNos
    BY DEF NoView, MemoryStatus
  <1> QED
    BY <1>1, <1>2, <1>3, CandidatesEnough DEF Sized

\* Every step keeps the sizes.
LEMMA StepSizes == IInv /\ Sizes /\ [Next]_vars => Sizes'
  <1> SUFFICES ASSUME IInv, Sizes, [Next]_vars PROVE Sizes'
    OBVIOUS
  <1>0. IsCall(call)
    BY DEF IInv
  <1>1. ASSUME call' = call, vectors' \subseteq Pairs, expired' \subseteq Perishable \cap MemIds
        PROVE  Sizes'
    BY <1>1 DEF Sizes, Sized, UpTo, Candidates
  <1>2. CASE UNCHANGED vars \/ Write
    BY <1>1, <1>2 DEF vars, store, Write, Sizes
  <1>3. CASE Index
    <2>1. PICK m \in Known, n \in RevNos : vectors' = vectors \cup {<<m, n>>}
      BY <1>3 DEF Index
    <2>2. <<m, n>> \in Pairs
      BY DEF Pairs, Known
    <2> QED
      BY <1>1, <1>3, <2>1, <2>2 DEF Index, Sizes
  <1>4. CASE Expire
    BY <1>1, <1>4 DEF Expire, Known, Sizes
  <1>5. CASE Return
    <2>1. call' = Idle /\ vectors' = vectors /\ expired' = expired
      BY <1>5 DEF Return, store
    <2>2. Sized(Idle)
      BY NothingRead DEF Idle
    <2>3. Sized(call)'
      BY <2>1, <2>2 DEF Sized, UpTo, Candidates
    <2> QED
      BY <2>1, <2>3 DEF Sizes
  <1>6. ASSUME NEW kind \in Kinds, NEW m \in MemIds \cup {NoMem}, Begin(kind, m)
        PROVE  Sizes'
    <2> DEFINE P == CASE kind \in {"browse", "search"} -> "all_terms"
                      [] kind = "hybrid" -> "lexical"
                      [] kind = "history" -> HistoryOrder[1]
               t == [Idle EXCEPT !.pc = P, !.kind = kind, !.now = expired, !.subject = m]
    <2>1. call' = t /\ vectors' = vectors /\ expired' = expired
      BY <1>6 DEF Begin, store
    <2> HIDE DEF P
    <2>2. /\ t.rows = {} /\ t.now = expired /\ t.lexical = <<>> /\ t.semantic = <<>>
          /\ t.fused = <<>> /\ t.subject = m /\ t.view = NoView
      BY DEF Idle
    <2> HIDE DEF t
    <2>3. Sized(t)
      BY <2>2, NothingRead DEF Sizes
    <2>4. Sized(call)'
      BY <2>1, <2>3 DEF Sized, UpTo, Candidates
    <2> QED
      BY <2>1, <2>4 DEF Sizes
  <1> QED
    BY <1>0, <1>2, <1>3, <1>4, <1>5, <1>6, SearchSized, HistorySized DEF Next, Read

\* A reader keeps to the rows there are and to its limits, the lexical leg to
\* its own and the answer to that of the call.
THEOREM TypeCorrect == Spec => []TypeOK
  <1>1. Init => Sizes
    <2>1. Sized(Idle)
      BY NothingRead DEF Idle
    <2> QED
      BY <2>1 DEF Init, Sizes
  <1>2. IInv /\ Sizes => TypeOK
    BY DEF Sizes, Sized, UpTo, TypeOK, Candidates
  <1> QED
    BY <1>1, <1>2, Invariance, StepSizes, PTL DEF Spec
=============================================================================
