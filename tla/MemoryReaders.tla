--------------------------- MODULE MemoryReaders ----------------------------
(***************************************************************************)
(* The reading tools: search with and without a query (services/memories), *)
(* hybrid retrieval (services/retrieval) and history, each a transaction   *)
(* of several statements at READ COMMITTED, so that every statement has a  *)
(* snapshot of its own.  The writers are MemoryLedger, which the           *)
(* statement-level MemoryStore implements: one committed write at a time,  *)
(* between any two statements of a reader.                                 *)
(*                                                                         *)
(* One reader is enough, because readers do not affect anything.  Which    *)
(* contents a query matches is given by constants; types and tags narrow   *)
(* Strict and Loose, and do not narrow Near: the semantic leg is given     *)
(* neither.  now() is the start of the transaction, so a call judges       *)
(* expiry by what had expired when it began.                               *)
(***************************************************************************)
EXTENDS MemoryTables, RankFusion

CONSTANTS
    Strict,      \* contents that match all terms of the query
    Loose,       \* contents that match the query widened to any of its terms
    Near,        \* contents within max_distance of the query's vector
    Perishable,  \* memories with an expires_at
    Limit,       \* limit
    Overfetch,   \* OVERFETCH
    Kinds        \* which reads this instance makes

ASSUME LooseAssumption == Strict \subseteq Loose /\ Loose \cup Near \subseteq Contents
ASSUME LimitAssumption == Limit \in Nat \ {0} /\ Overfetch \in Nat \ {0}
ASSUME KindsAssumption == Kinds \subseteq {"browse", "search", "hybrid", "history"}

VARIABLES
    mem, rev, current, dedup,   \* the ledger
    vectors,                    \* memory_embeddings, as <<memory, revision>>
    expired,                    \* memories whose expires_at has passed
    call,                       \* the reader's call
    seen                        \* history: <<memory, current revision, status>>
                                \* at some moment since the call began

Ledger == INSTANCE MemoryLedger

store == <<mem, rev, current, dedup, vectors, expired>>
vars == <<store, call, seen>>

-----------------------------------------------------------------------------
Pairs == MemIds \X RevNos
NoView == [status |-> "ABSENT", no |-> 0, flagged |-> {}, revisions |-> {}, by |-> NoMem,
           retired |-> {}]

Idle == [pc |-> "idle", kind |-> "browse", now |-> {}, lexical |-> <<>>, semantic |-> <<>>,
         fused |-> <<>>, rows |-> {}, aborted |-> FALSE, strategy |-> "all_terms",
         subject |-> NoMem, view |-> NoView, outcome |-> "none"]

Known == {m \in MemIds : mem[m].status # "ABSENT"}
CurrentPairs == {p \in Pairs : p[2] \in current[p[1]]}
Observed == {<<p[1], p[2], mem[p[1]].status>> : p \in CurrentPairs}

TypeOK ==
    /\ call.rows \subseteq Pairs
    /\ call.now \subseteq MemIds
    /\ Len(call.lexical) <= Limit * Overfetch /\ Len(call.fused) <= Limit
    /\ call.subject \in MemIds \cup {NoMem}
    /\ call.view.status \in MemoryStatus /\ call.view.revisions \subseteq RevNos
    /\ vectors \subseteq Pairs /\ expired \subseteq Perishable

Init ==
    /\ Ledger!Init
    /\ vectors = {} /\ expired = {}
    /\ call = Idle
    /\ seen = {}

At(label) == call.pc = label
Step(t) == call' = t /\ UNCHANGED <<store, seen>>

\* The answer leaves and the transaction ends; what was observed is kept until
\* the next call.
Finish(t, outcome) == Step([t EXCEPT !.pc = "done", !.outcome = outcome])

-----------------------------------------------------------------------------
(***************************************************************************)
(* What a statement returns.                                               *)
(***************************************************************************)

\* Mutant of Visible: include_retired=True.
VisibleRetired(m, now) == m \in Known

\* The status and expiry conditions of current_revisions().
Visible(m, now) == mem[m].status = "ACTIVE" /\ m \notin now

\* The visible memories whose current revision has one of these contents.
Matching(contents, now) ==
    {p \in Pairs : Visible(p[1], now) /\ p[2] \in current[p[1]] /\ rev[p[1]][p[2]] \in contents}

\* Some order by score of the memories in a set of rows, cut off at n.
Rankings(rows, n) == {SubSeq(s, 1, IF Len(s) < n THEN Len(s) ELSE n) :
                        s \in SetToSeqs({p[1] : p \in rows})}

Hydrated(rows, ranking) == {p \in rows : Contains(ranking, p[1])}

\* Mutant of Fetched: the row is used although there is none.
FetchedUnchecked(m, now) ==
    {<<m, IF Visible(m, now) THEN mem[m].cur ELSE 0>>}

\* MemoryRepository.get(): the row, or none.
Fetched(m, now) == {p \in Pairs : p[1] = m /\ Visible(m, now) /\ p[2] \in current[m]}

\* Mutant of HistoryOrder: the memory itself is read last.
HistoryViewLast == <<"revisions", "superseded_by", "supersedes", "view">>

\* The parts of history() that come from the ledger, in this order.
HistoryOrder == <<"view", "revisions", "superseded_by", "supersedes">>

-----------------------------------------------------------------------------
(***************************************************************************)
(* search(): rows, then count(); once more with any term if nothing came   *)
(* back and the query is plain.  Browsing has no query to widen.           *)
(***************************************************************************)
Begin(kind, m) ==
    /\ At("idle")
    /\ m \in MemIds <=> kind = "history"
    /\ call' = [Idle EXCEPT !.pc = CASE kind \in {"browse", "search"} -> "all_terms"
                                     [] kind = "hybrid" -> "lexical"
                                     [] kind = "history" -> HistoryOrder[1],
                            !.kind = kind, !.now = expired, !.subject = m]
    /\ seen' = Observed
    /\ UNCHANGED store

Found(contents, n, label, strategy) ==
    LET rows == Matching(contents, call.now) IN
    \E ranking \in Rankings(rows, n) :
        Step([call EXCEPT !.pc = label, !.lexical = ranking, !.strategy = strategy,
                          !.rows = Hydrated(rows, ranking)])

AllTerms ==
    /\ At("all_terms")
    /\ Found(IF call.kind = "browse" THEN Contents ELSE Strict, Limit, "count", "all_terms")

\* count() issues one more statement; its number is reported beside the rows.
Count ==
    /\ At("count")
    /\ \/ /\ \/ call.lexical # <<>>
             \/ call.kind = "browse"
             \/ call.strategy = "any_term"
          /\ Finish([call EXCEPT !.fused = call.lexical], "ok")
       \/ /\ call.lexical = <<>> /\ call.kind = "search" /\ call.strategy = "all_terms"
          /\ Step([call EXCEPT !.pc = "any_term"])

\* any_term_query() declines to rewrite a query of one term, or with syntax.
AnyTerm ==
    /\ At("any_term")
    /\ \/ Found(Loose, Limit, "count", "any_term")
       \/ Finish(call, "ok")

-----------------------------------------------------------------------------
(***************************************************************************)
(* hybrid_search().                                                        *)
(***************************************************************************)
LexicalLeg ==
    /\ At("lexical")
    /\ Found(Strict, Limit * Overfetch, "semantic", "hybrid")

\* The two rankings are fused and cut off at the limit.
Fused(t) ==
    LET fused == Fuse(t.lexical, t.semantic)
    IN  [t EXCEPT !.pc = "fetch", !.fused = SubSeq(fused, 1, IF Len(fused) < Limit THEN Len(fused) ELSE Limit)]

\* search_by_vector(): visible memories whose current revision has a vector.
SemanticLeg ==
    /\ At("semantic")
    /\ \E ranking \in Rankings(Matching(Near, call.now) \cap vectors, Limit * Overfetch) :
        Step(Fused([call EXCEPT !.semantic = ranking]))

\* EmbeddingError: lexical only.
EmbedderDown ==
    /\ At("semantic")
    /\ Step(Fused(call))

\* 57014 is answered lexical only as well, but the transaction is aborted ...
SemanticTimeout ==
    /\ At("semantic")
    /\ Step(Fused([call EXCEPT !.aborted = TRUE]))

\* ... and any other database error is raised.
SemanticError ==
    /\ At("semantic")
    /\ Finish(call, "error")

\* Winners whose row has not been fetched.
Missing == {m \in ToSet(call.fused) : m \notin {p[1] : p \in call.rows}}

\* get() of the next missing winner; one that is gone by now is left out.
FetchMissing ==
    /\ At("fetch")
    /\ \E i \in DOMAIN call.fused :
        /\ call.fused[i] \in Missing
        /\ \A k \in 1 .. i - 1 : call.fused[k] \notin Missing
        /\ LET row == Fetched(call.fused[i], call.now)
           IN  Step([call EXCEPT !.rows = @ \cup row,
                                 !.fused = IF row = {} THEN RemoveAt(@, i) ELSE @])

\* semantic_coverage() is one more statement: in an aborted transaction it
\* raises 25P02.
Coverage ==
    /\ At("fetch")
    /\ Missing = {}
    /\ Finish(call, IF call.aborted THEN "IN_FAILED_TRANSACTION" ELSE "ok")

-----------------------------------------------------------------------------
(***************************************************************************)
(* history(): six statements.  The revision that came with the memory      *)
(* stays in the session as it was first read: a later statement that       *)
(* returns it again does not refresh its is_current.                       *)
(***************************************************************************)

NextPart(part) ==
    LET i == CHOOSE j \in DOMAIN HistoryOrder : HistoryOrder[j] = part
    IN  IF i = Len(HistoryOrder) THEN "rest" ELSE HistoryOrder[i + 1]

\* get() with include_retired, or MemoryNotFoundError.
ReadView ==
    LET m == call.subject IN
    /\ At("view")
    /\ \/ /\ m \in Known
          /\ Step([call EXCEPT !.pc = NextPart("view"), !.view.status = mem[m].status,
                               !.view.no = mem[m].cur, !.view.flagged = @ \cup {mem[m].cur}])
       \/ /\ m \notin Known
          /\ Finish(call, "not_found")

ReadRevisions ==
    /\ At("revisions")
    /\ LET m == call.subject IN
       Step([call EXCEPT !.pc = NextPart("revisions"),
                         !.view.revisions = {n \in RevNos : rev[m][n] # NoContent},
                         !.view.flagged = @ \cup current[m]])

ReadSupersededBy ==
    /\ At("superseded_by")
    /\ Step([call EXCEPT !.pc = NextPart("superseded_by"), !.view.by = mem[call.subject].by])

ReadSupersedes ==
    /\ At("supersedes")
    /\ Step([call EXCEPT !.pc = NextPart("supersedes"),
                         !.view.retired = {m \in MemIds : mem[m].by = call.subject}])

\* attestations() and audit_trail() read tables the ledger does not have: the
\* answer is complete.
ReadRest ==
    /\ At("rest")
    /\ Finish(call, "ok")

-----------------------------------------------------------------------------
Return ==
    /\ At("done")
    /\ call' = Idle /\ seen' = {}
    /\ UNCHANGED store

Read ==
    \/ \E kind \in Kinds, m \in MemIds \cup {NoMem} : Begin(kind, m)
    \/ AllTerms \/ Count \/ AnyTerm
    \/ LexicalLeg \/ SemanticLeg \/ EmbedderDown \/ SemanticTimeout \/ SemanticError
    \/ FetchMissing \/ Coverage
    \/ ReadView \/ ReadRevisions \/ ReadSupersededBy \/ ReadSupersedes \/ ReadRest
    \/ Return

\* The running call goes on observing.
Watch == seen' = IF At("idle") THEN seen ELSE seen \cup Observed'

\* What happens between an answer and the next call may as well happen after
\* the answer has been handed over.
Pending == ~At("done")

\* A write commits.
Write ==
    /\ Pending
    /\ Ledger!Next
    /\ UNCHANGED <<vectors, expired, call>>
    /\ Watch

\* The worker stores the vector of a revision; one the query is not near to
\* is never looked at.
Index ==
    /\ Pending
    /\ \E m \in Known, n \in RevNos :
        /\ rev[m][n] \in Near
        /\ vectors' = vectors \cup {<<m, n>>}
    /\ UNCHANGED <<mem, rev, current, dedup, expired, call, seen>>

\* The clock passes an expires_at.
Expire ==
    /\ Pending
    /\ \E m \in Perishable \ expired :
        /\ m \in Known
        /\ expired' = expired \cup {m}
    /\ UNCHANGED <<mem, rev, current, dedup, vectors, call, seen>>

Next == Read \/ Write \/ Index \/ Expire

Spec == Init /\ [][Next]_vars

-----------------------------------------------------------------------------
(***************************************************************************)
(* Properties.                                                             *)
(***************************************************************************)

\* What a search returns was in force, in the revision it returns, at some
\* moment of the call, and had not expired when the call began: a memory that
\* was retired before the search can never be in its answer, whichever of the
\* statements found it (server.py:336, "Superseded, deleted and expired
\* memories are never returned").
OnlyInForce ==
    call.kind # "history" /\ call.outcome = "ok" =>
        /\ \A p \in call.rows : <<p[1], p[2], "ACTIVE">> \in seen /\ p[1] \notin call.now
        /\ ToSet(call.fused) \subseteq {p[1] : p \in call.rows}

\* The parts of a history never contradict the memory they come with although
\* each has its own snapshot: the memory's revision is among the revisions,
\* there is no gap before it, a memory shown as superseded names its
\* successor, no memory is shown as both its successor and its predecessor,
\* and a revision flagged current was current during the call.
HistoryFitsMemory ==
    call.kind = "history" /\ call.outcome = "ok" =>
        /\ 1 .. call.view.no \subseteq call.view.revisions
        /\ call.view.status = "SUPERSEDED" => call.view.by # NoMem
        /\ {call.view.by, call.subject} \cap call.view.retired = {}
        /\ \A n \in call.view.flagged : \E s \in MemoryStatus : <<call.subject, n, s>> \in seen

\* A search never issues a statement in a transaction that a timeout has
\* aborted (retrieval.py:98, "Nothing after this point issues another
\* statement").
NoStatementAfterAbort == call.outcome # "IN_FAILED_TRANSACTION"
=============================================================================
