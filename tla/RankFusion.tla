----------------------------- MODULE RankFusion -----------------------------
(***************************************************************************)
(* reciprocal_rank_fusion() (retrieval/fusion.py) of a lexical and a       *)
(* semantic ranking of memory ids.  A score is the sum of one or two       *)
(* fractions 1 / (k + rank); it is kept as the exact fraction num / den.   *)
(***************************************************************************)
EXTENDS Naturals, SequencesExt

\* Mutant of RRF_K: no damping.
NoDamping == 0

RRF_K == 60

Position(ranking, m) == CHOOSE i \in DOMAIN ranking : ranking[i] = m

\* What one retriever contributes; nothing to a memory it did not return.
Contribution(ranking, m) ==
    IF Contains(ranking, m) THEN [num |-> 1, den |-> RRF_K + Position(ranking, m)]
                            ELSE [num |-> 0, den |-> 1]

Score(lexical, semantic, m) ==
    LET l == Contribution(lexical, m)
        s == Contribution(semantic, m)
    IN  [num |-> l.num * s.den + s.num * l.den, den |-> l.den * s.den]

\* The sort key (-score, id).
Before(lexical, semantic, x, y) ==
    LET p == Score(lexical, semantic, x)
        q == Score(lexical, semantic, y)
    IN  \/ p.num * q.den > q.num * p.den
        \/ p.num * q.den = q.num * p.den /\ x < y

\* Everything found, each at the place after all that sort before it.
Fuse(lexical, semantic) ==
    LET found == ToSet(lexical) \cup ToSet(semantic)
        place(m) == Cardinality({x \in found : Before(lexical, semantic, x, m)}) + 1
    IN  [i \in 1 .. Cardinality(found) |-> CHOOSE m \in found : place(m) = i]

FoundByBoth(lexical, semantic, m) == Contains(lexical, m) /\ Contains(semantic, m)
=============================================================================
