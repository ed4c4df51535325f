--------------------------- MODULE ContextBuilder ---------------------------
(***************************************************************************)
(* build_context() (services/context.py, context/builder.py): which of the *)
(* retrieved memories go into a brief of a given token budget.             *)
(*                                                                         *)
(* The input is chosen in Init: the two rankings that hybrid retrieval     *)
(* fuses, and the type, estimated tokens and content words of every        *)
(* memory.  select() then makes one pass per memory type and one over what *)
(* is left; a step is one round of the loop of _fill().  Shares are whole  *)
(* percentages and values exact fractions; for every budget the tool       *)
(* accepts, int() of the float products is the integer quotient used here. *)
(***************************************************************************)
EXTENDS Integers, FiniteSetsExt, RankFusion

CONSTANTS
    Ids,        \* memory ids, as numbers: ties are broken by id
    Profiles,   \* [type, tokens, words] that a memory may have
    Budget      \* token_budget

TYPE_QUOTA == [DECISION |-> 40, CONSTRAINT |-> 25, FACT |-> 20, TASK |-> 15]

ASSUME IdsAssumption == Ids \subseteq Nat /\ IsFiniteSet(Ids)
ASSUME BudgetAssumption == Budget \in 100 .. 32000

\* estimate() charges every memory for its frame, an empty one too.
ASSUME ProfilesAssumption ==
    \A p \in Profiles : p.type \in DOMAIN TYPE_QUOTA /\ p.tokens \in Nat \ {0}

VARIABLES
    lexical, semantic,   \* input: the rankings of the two retrievers
    profile,             \* input: Ids -> Profiles
    pool,                \* the candidates in the order of the retrieval
    pass,                \* the pass select() is in, Len(Passes) + 1 after the last
    remaining,           \* candidates _fill() has not looked at in this pass
    selected,            \* memories in the brief
    redundant,           \* memories rejected as near-duplicates
    used,                \* tokens of the passes that are over
    spent                \* tokens of this pass

input == <<lexical, semantic, profile, pool>>
vars == <<input, pass, remaining, selected, redundant, used, spent>>

-----------------------------------------------------------------------------
(***************************************************************************)
(* Candidates.                                                             *)
(***************************************************************************)
Candidates == {m \in Ids : Contains(pool, m)}

Type(m) == profile[m].type
Tokens(m) == profile[m].tokens
Rank(m) == Position(pool, m)    \* the score is 1 / rank

\* usable_budget(): the safety margin is held back.
Spendable == Max({1, (Budget * 90) \div 100})

Fitting == {m \in Candidates : Tokens(m) <= Spendable}

\* similarity(): Jaccard overlap of the content words, as a fraction.
Similarity(x, y) ==
    LET a == profile[x].words
        b == profile[y].words
    IN  IF a = {} \/ b = {} THEN [num |-> 0, den |-> 1]
                            ELSE [num |-> Cardinality(a \cap b), den |-> Cardinality(a \cup b)]

\* DUPLICATE_SIMILARITY = 0.6.
SaysTheSame(x, y) == 10 * Similarity(x, y).num >= 6 * Similarity(x, y).den

\* Mutant of RepeatsBrief: only the memories of the same pass are compared.
RepeatsPass(m) == \E x \in selected : Type(x) = Type(m) /\ SaysTheSame(m, x)

RepeatsBrief(m) == \E x \in selected : SaysTheSame(m, x)

-----------------------------------------------------------------------------
(***************************************************************************)
(* Passes: the types by falling share, then everything that is left.       *)
(***************************************************************************)
Passes == <<"DECISION", "CONSTRAINT", "FACT", "TASK", "REDISTRIBUTION">>

Quota(t) == (Spendable * TYPE_QUOTA[t]) \div 100

\* Mutant of Allowance: a type may take whatever is left.
AllowanceUnbounded(p, spentBefore) == Spendable - spentBefore

\* What pass p may spend when the passes before it have spent this much.
Allowance(p, spentBefore) ==
    IF Passes[p] \in DOMAIN TYPE_QUOTA THEN Quota(Passes[p]) ELSE Spendable - spentBefore

\* Mutant of Offered: what is left is offered to no one.
OfferedByType(p, chosen, ruledOut) == {m \in Fitting : Type(m) = Passes[p]} \ chosen

\* The candidates pass p is offered.
Offered(p, chosen, ruledOut) ==
    IF Passes[p] \in DOMAIN TYPE_QUOTA
    THEN {m \in Fitting : Type(m) = Passes[p]} \ chosen
    ELSE Fitting \ (chosen \cup ruledOut)

-----------------------------------------------------------------------------
(***************************************************************************)
(* _fill().                                                                *)
(***************************************************************************)

\* Mutant of Affordable: what this pass has spent already is forgotten.
AffordableAlone(m) == Tokens(m) <= Allowance(pass, used)

Affordable(m) == spent + Tokens(m) <= Allowance(pass, used)

\* The largest similarity to anything in the brief.
Overlap(m) ==
    LET all == {Similarity(m, x) : x \in selected} \cup {[num |-> 0, den |-> 1]}
    IN  CHOOSE s \in all : \A t \in all : t.num * s.den <= s.num * t.den

\* 0.7 * density + 0.3 * (1 - overlap) * density, density = 1 / (rank * tokens).
MmrValue(m) ==
    LET o == Overlap(m)
    IN  [num |-> 10 * o.den - 3 * o.num, den |-> 10 * o.den * Rank(m) * Tokens(m)]

\* The order in which the loop meets the candidates: (-density, id).
Denser(x, y) ==
    \/ Rank(x) * Tokens(x) < Rank(y) * Tokens(y)
    \/ Rank(x) * Tokens(x) = Rank(y) * Tokens(y) /\ x <= y

\* The first of those with the greatest value.
Preferred(x, y) ==
    LET p == MmrValue(x)
        q == MmrValue(y)
    IN  \/ p.num * q.den > q.num * p.den
        \/ p.num * q.den = q.num * p.den /\ Denser(x, y)

IsBest(m) == Affordable(m) /\ \A x \in remaining : Affordable(x) => Preferred(m, x)

Take ==
    /\ \E m \in remaining :
        /\ IsBest(m)
        /\ remaining' = remaining \ {m}
        /\ \/ /\ RepeatsBrief(m)
              /\ redundant' = redundant \cup {m}
              /\ UNCHANGED <<selected, spent>>
           \/ /\ ~RepeatsBrief(m)
              /\ selected' = selected \cup {m}
              /\ spent' = spent + Tokens(m)
              /\ UNCHANGED redundant
    /\ UNCHANGED <<input, pass, used>>

\* Nothing affordable is left: the next pass.
NextPass ==
    /\ pass <= Len(Passes)
    /\ \A m \in remaining : ~Affordable(m)
    /\ pass' = pass + 1
    /\ used' = used + spent
    /\ spent' = 0
    /\ remaining' = IF pass' <= Len(Passes) THEN Offered(pass', selected, redundant) ELSE {}
    /\ UNCHANGED <<input, selected, redundant>>

-----------------------------------------------------------------------------
Orders == UNION {SetToSeqs(S) : S \in SUBSET Ids}

Init ==
    /\ lexical \in Orders
    /\ semantic \in Orders
    /\ profile \in [Ids -> Profiles]
    /\ pool = Fuse(lexical, semantic)
    /\ pass = 1
    /\ selected = {} /\ redundant = {}
    /\ used = 0 /\ spent = 0
    /\ remaining = Offered(1, {}, {})

\* select() returns.
Done == pass > Len(Passes)

Returned == Done /\ UNCHANGED vars

Next == Take \/ NextPass \/ Returned

Spec == Init /\ [][Next]_vars

TypeOK ==
    /\ pass \in 1 .. Len(Passes) + 1
    /\ remaining \subseteq Fitting /\ selected \subseteq Fitting /\ redundant \subseteq Fitting
    /\ used \in 0 .. Spendable /\ spent \in 0 .. Spendable

\* The drop counts it reports.
TooLargeAlone == Cardinality(Candidates) - Cardinality(Fitting)
TooSimilar == Cardinality(redundant)

\* Mutant of NoBudgetLeft: counted over all candidates.
NoBudgetLeftOfAll == Cardinality(Candidates) - Cardinality(selected) - Cardinality(redundant)

NoBudgetLeft == Cardinality(Fitting) - Cardinality(selected) - Cardinality(redundant)

-----------------------------------------------------------------------------
(***************************************************************************)
(* Properties.                                                             *)
(***************************************************************************)

\* The tokens reported are those of the memories selected, and never more
\* than the budget less its margin (server.py, "The budget is never
\* exceeded").
WithinBudget ==
    /\ used + spent = MapThenSumSet(Tokens, selected)
    /\ used + spent <= Spendable
    /\ 10 * Spendable <= 9 * Budget

\* No two memories of a brief say the same thing, across types too, and a
\* memory is only left out as redundant for the sake of one that is there.
NoRepetition ==
    /\ \A x, y \in selected : x # y => ~SaysTheSame(x, y)
    /\ \A x \in redundant : \E y \in selected : SaysTheSame(x, y)

\* Every candidate is accounted for exactly once: selected, too large, too
\* similar, or out of budget, and each count, taken as a difference of
\* lengths, is the number of memories it speaks of (Selection.considered and
\* Selection.dropped).
DropsAddUp ==
    Done =>
        /\ selected \cap redundant = {}
        /\ TooLargeAlone = Cardinality(Candidates \ Fitting)
        /\ NoBudgetLeft = Cardinality(Fitting \ (selected \cup redundant))
        /\ Cardinality(Candidates) =
             Cardinality(selected) + TooLargeAlone + TooSimilar + NoBudgetLeft

\* A memory is only reported as out of budget when it really no longer fits:
\* what the quotas did not use has been offered to everything else.
RoomUsed ==
    Done => \A m \in Fitting \ (selected \cup redundant) : used + Tokens(m) > Spendable

\* A type whose candidates fit into its share loses none of them to the
\* budget, however good the others are (builder.py:39, "it gets a guaranteed
\* share").
ShareGuaranteed ==
    Done =>
        \A t \in DOMAIN TYPE_QUOTA :
            LET ofType == {m \in Fitting : Type(m) = t}
            IN  MapThenSumSet(Tokens, ofType) <= Quota(t) => ofType \subseteq selected \cup redundant

\* A memory that both legs of the retrieval found is never offered behind one
\* that a single leg found (fusion.py, "Rewards agreement"), as long as neither
\* leg returned more than RRF_K.
AgreementRewarded ==
    Len(lexical) <= 60 /\ Len(semantic) <= 60 =>
        \A i, j \in DOMAIN pool :
            i < j /\ FoundByBoth(lexical, semantic, pool[j])
                => FoundByBoth(lexical, semantic, pool[i])
=============================================================================
