------------------------ MODULE ContextBuilderProofs ------------------------
(***************************************************************************)
(* Theorems about ContextBuilder, for any rankings, any memories and any   *)
(* budget: a brief stays within its budget, says nothing twice, leaves no  *)
(* room that a candidate could have used, keeps the share of every type,   *)
(* and accounts for every candidate; and the ranking it starts from offers *)
(* no memory that both legs found behind one that a single leg found.      *)
(*                                                                         *)
(* Sums of tokens are counted as sets: a memory of k tokens is k units,    *)
(* and the sum over a set of memories is the number of their units.  That  *)
(* makes sums independent of the order in which MapThenSumSet takes them.  *)
(***************************************************************************)
EXTENDS ContextBuilder, FiniteSetTheorems, SequenceTheorems, WellFoundedInduction, TLAPS

(***************************************************************************)
(* Sums.                                                                   *)
(***************************************************************************)

\* What MapThenSumSet(Tokens, S) computes from S downwards, for the profile p.
Summed(p, S, f) ==
    [s \in SUBSET S |->
        IF s = {} THEN 0
        ELSE p[CHOOSE x \in s : TRUE].tokens + f[s \ {CHOOSE x \in s : TRUE}]]

Total(p, S) == (CHOOSE f : f = Summed(p, S, f))[S]

\* The tokens of the memories of S, one by one, if none has more than n.
Units(p, n, S) == {u \in S \X (1 .. n) : u[2] <= p[u[1]].tokens}

\* The tokens of a set of memories that fit.
CostOf(p, S) == Cardinality(Units(p, Spendable, S))

\* The candidates of the type of pass q.
OfType(q) == {m \in Fitting : Type(m) = Passes[q]}

-----------------------------------------------------------------------------
(***************************************************************************)
(* The invariant.                                                          *)
(***************************************************************************)

\* The shares of the types before pass p.
Reserved ==
    [p \in 1 .. 5 |->
        CASE p = 1 -> 0
          [] p = 2 -> Quota("DECISION")
          [] p = 3 -> Quota("DECISION") + Quota("CONSTRAINT")
          [] p = 4 -> Quota("DECISION") + Quota("CONSTRAINT") + Quota("FACT")
          [] p = 5 -> Quota("DECISION") + Quota("CONSTRAINT") + Quota("FACT") + Quota("TASK")]

\* Where a memory that fits can be: still to be looked at, in the brief, or
\* ruled out, never in two of them.  No type is looked at before its pass,
\* and in the last pass nothing that fits is anywhere else.
PlacesInv ==
    /\ pass \in 1 .. 6
    /\ profile \in [Ids -> Profiles]
    /\ remaining \subseteq Fitting /\ selected \subseteq Fitting /\ redundant \subseteq Fitting
    /\ remaining \cap (selected \cup redundant) = {}
    /\ selected \cap redundant = {}
    /\ pass <= 4 => \A m \in remaining : Type(m) = Passes[pass]
    /\ \A m \in selected \cup redundant : \A q \in 1 .. 4 : q > pass => Type(m) # Passes[q]
    /\ pass = 5 => Fitting \subseteq remaining \cup selected \cup redundant
    /\ pass = 6 => remaining = {}

\* The passes that are over spent no more than their shares, and this one no
\* more than its allowance.
BudgetInv ==
    /\ used \in Nat /\ spent \in Nat
    /\ pass <= 5 => used <= Reserved[pass] /\ spent <= Allowance(pass, used)
    /\ pass = 6 => spent = 0 /\ used <= Spendable

\* What has been spent, in all and in the pass of a type, is the cost of what
\* was selected.  A type whose pass is over lost nothing if it all fits its
\* share.
SharesInv ==
    /\ used + spent = CostOf(profile, selected)
    /\ pass <= 4 =>
        /\ spent = CostOf(profile, {m \in selected : Type(m) = Passes[pass]})
        /\ OfType(pass) \subseteq remaining \cup selected \cup redundant
    /\ \A q \in 1 .. 4 :
        q < pass /\ CostOf(profile, OfType(q)) <= Quota(Passes[q])
            => OfType(q) \subseteq selected \cup redundant

\* The inductive invariant.
IInv == PlacesInv /\ BudgetInv /\ SharesInv /\ NoRepetition /\ RoomUsed

-----------------------------------------------------------------------------
(***************************************************************************)
(* Sums as numbers of units.                                               *)
(***************************************************************************)

\* MapThenSumSet, expanded.
LEMMA TotalIs == ASSUME NEW S PROVE MapThenSumSet(Tokens, S) = Total(profile, S)
BY DEF MapThenSumSet, MapThenFoldSet, Total, Summed, Tokens

\* Every non-empty set of numbers has a least one.
LEMMA Least ==
    ASSUME NEW D \in SUBSET Nat, D # {}
    PROVE  \E n \in D : \A i \in D : n <= i
<1> DEFINE R == OpToRel(<, Nat)
<1>1. IsWellFoundedOn(R, Nat)
  BY NatLessThanWellFounded
<1>2. \A i, j \in Nat : i < j => <<i, j>> \in R
  BY DEF OpToRel
<1> HIDE DEF R
<1>3. \E n \in D : \A i \in D : ~(<<i, n>> \in R)
  BY <1>1, WFMin
<1>4. PICK n \in D : \A i \in D : ~(<<i, n>> \in R)
  BY <1>3
<1>5. ASSUME NEW i \in D PROVE n <= i
  <2>1. i \in Nat /\ n \in Nat
    OBVIOUS
  <2>2. ~(i < n)
    BY <1>2, <1>4, <2>1
  <2> QED BY <2>1, <2>2
<1> QED BY <1>5

\* There are b numbers from 1 to b.
LEMMA UpTo == ASSUME NEW b \in Nat PROVE IsFiniteSet(1 .. b) /\ Cardinality(1 .. b) = b
<1>1. /\ IsFiniteSet(1 .. b)
      /\ Cardinality(1 .. b) = IF 1 > b THEN 0 ELSE b - 1 + 1
  <2>1. 1 \in Int /\ b \in Int
    OBVIOUS
  <2> QED BY <2>1, FS_Interval, Zenon
<1> QED BY <1>1

\* One memory more is its tokens more.
LEMMA UnitsOfOne ==
    ASSUME NEW p, NEW n \in Nat, NEW S, IsFiniteSet(S), NEW x \in S, p[x].tokens \in 0 .. n
    PROVE  /\ IsFiniteSet(Units(p, n, S))
           /\ Cardinality(Units(p, n, S)) = p[x].tokens + Cardinality(Units(p, n, S \ {x}))
           /\ Cardinality(Units(p, n, S)) \in Nat /\ Cardinality(Units(p, n, S \ {x})) \in Nat
<1> DEFINE k == p[x].tokens
           A == Units(p, n, S \ {x})
           B == {x} \X (1 .. k)
<1>1. k \in Nat /\ k <= n
  OBVIOUS
<1>2. IsFiniteSet(1 .. n) /\ IsFiniteSet(1 .. k) /\ Cardinality(1 .. k) = k
  <2> HIDE DEF k
  <2> QED BY <1>1, UpTo
<1>3. IsFiniteSet({x}) /\ Cardinality({x}) = 1
  BY FS_Singleton
<1>4. IsFiniteSet(B) /\ Cardinality(B) = k
  <2>1. IsFiniteSet(B) /\ Cardinality(B) = Cardinality({x}) * Cardinality(1 .. k)
    BY <1>2, <1>3, FS_Product, Zenon
  <2> HIDE DEF B, k
  <2> QED BY <1>1, <1>2, <1>3, <2>1
<1>5. IsFiniteSet(S \X (1 .. n))
  BY <1>2, FS_Product
<1>6. Units(p, n, S) \subseteq S \X (1 .. n) /\ A \subseteq S \X (1 .. n)
  BY DEF Units
<1>7. IsFiniteSet(Units(p, n, S)) /\ IsFiniteSet(A)
  <2>1. \A U, T : IsFiniteSet(U) /\ T \subseteq U => IsFiniteSet(T)
    BY FS_Subset, Zenon
  <2> HIDE DEF A
  <2> QED BY <1>5, <1>6, <2>1
<1>8. A \cap B = {}
  BY DEF Units
<1>9. Units(p, n, S) = A \cup B
  <2>1. ASSUME NEW u \in Units(p, n, S) PROVE u \in A \cup B
    BY DEF Units
  <2>2. A \subseteq Units(p, n, S)
    BY DEF Units
  <2>3. ASSUME NEW u \in B PROVE u \in Units(p, n, S)
    <3>1. u \in S \X (1 .. n) /\ u[1] = x /\ u[2] <= k
      <4> HIDE DEF k
      <4> QED BY <1>1, <2>3
    <3> QED BY <3>1 DEF Units
  <2> QED BY <2>1, <2>2, <2>3
<1>10. Cardinality(A \cup B) = Cardinality(A) + Cardinality(B) - Cardinality(A \cap B)
  <2> HIDE DEF A, B
  <2> QED BY <1>4, <1>7, FS_Union, Zenon
<1>11. Cardinality(A \cap B) = 0 /\ Cardinality(A) \in Nat /\ Cardinality(Units(p, n, S)) \in Nat
  <2> HIDE DEF A, B
  <2> QED BY <1>7, <1>8, FS_EmptySet, FS_CardinalityType
<1> HIDE DEF A, B, k
<1>12. Cardinality(Units(p, n, S)) = k + Cardinality(A)
  BY <1>1, <1>4, <1>9, <1>10, <1>11
<1> QED BY <1>7, <1>11, <1>12 DEF A, k

\* The sum over a finite set is the number of its units: of the sets for
\* which it were not, a smallest one would lead to a smaller one.
LEMMA TotalIsUnits ==
    ASSUME NEW p, NEW n \in Nat, NEW S, IsFiniteSet(S), \A x \in S : p[x].tokens \in 0 .. n
    PROVE  Total(p, S) = Cardinality(Units(p, n, S))
<1> DEFINE g == [s \in SUBSET S |-> Cardinality(Units(p, n, s))]
           f == CHOOSE h : h = Summed(p, S, h)
<1>1. Units(p, n, {}) = {} /\ Cardinality({}) = 0
  BY FS_EmptySet DEF Units
<1>2. ASSUME NEW s \in SUBSET S, s # {}
      PROVE  LET x == CHOOSE y \in s : TRUE
             IN  x \in s /\ g[s] = p[x].tokens + g[s \ {x}] 
  <2> DEFINE x == CHOOSE y \in s : TRUE
  <2>1. x \in s
    BY <1>2
  <2> HIDE DEF x
  <2>2. IsFiniteSet(s)
    BY FS_Subset
  <2>3. p[x].tokens \in 0 .. n
    BY <2>1
  <2>4. Cardinality(Units(p, n, s)) = p[x].tokens + Cardinality(Units(p, n, s \ {x}))
    BY <2>1, <2>2, <2>3, UnitsOfOne
  <2>5. s \ {x} \in SUBSET S
    OBVIOUS
  <2>6. g[s] = p[x].tokens + g[s \ {x}]
    BY <2>4, <2>5
  <2> QED BY <2>1, <2>6 DEF x
<1>3. g = Summed(p, S, g)
  <2>1. \A s \in SUBSET S : g[s] = IF s = {} THEN 0
          ELSE p[CHOOSE x \in s : TRUE].tokens + g[s \ {CHOOSE x \in s : TRUE}]
    BY <1>1, <1>2
  <2> QED BY <2>1, Zenon DEF Summed
<1>4. f = Summed(p, S, f)
  <2> HIDE DEF g
  <2> QED BY <1>3, Zenon
<1>5. \A s \in SUBSET S : f[s] = IF s = {} THEN 0
          ELSE p[CHOOSE x \in s : TRUE].tokens + f[s \ {CHOOSE x \in s : TRUE}]
  <2> HIDE DEF f
  <2> QED BY <1>4, Zenon DEF Summed
<1> HIDE DEF f, g
<1> DEFINE Bad == {s \in SUBSET S : f[s] # g[s]}
           D == {Cardinality(s) : s \in Bad}
<1>6. ASSUME Bad # {} PROVE FALSE
  <2>1. \A s \in SUBSET S : IsFiniteSet(s) /\ Cardinality(s) \in Nat
    BY FS_Subset, FS_CardinalityType
  <2>2. D \in SUBSET Nat /\ D # {}
    BY <1>6, <2>1
  <2>3. PICK b \in Bad : \A s \in Bad : Cardinality(b) <= Cardinality(s)
    <3>1. PICK i \in D : \A j \in D : i <= j
      <4> HIDE DEF D
      <4> QED BY <2>2, Least
    <3> QED BY <3>1
  <2> DEFINE x == CHOOSE y \in b : TRUE
  <2>4. b # {} 
    <3>1. f[{}] = 0 
      BY <1>5
    <3>2. g[{}] = 0
      BY <1>1 DEF g
    <3> QED BY <3>1, <3>2
  <2>5. x \in b /\ g[b] = p[x].tokens + g[b \ {x}] /\ f[b] = p[x].tokens + f[b \ {x}]
    BY <2>4, <1>2, <1>5, Zenon
  <2> HIDE DEF x
  <2>6. Cardinality(b \ {x}) < Cardinality(b) /\ b \ {x} \in SUBSET S
    <3>1. Cardinality(b \ {x}) = Cardinality(b) - 1
      BY <2>1, <2>5, FS_RemoveElement
    <3> QED BY <2>1, <3>1
  <2>7. b \ {x} \notin Bad
    BY <2>1, <2>3, <2>6
  <2> QED BY <2>5, <2>6, <2>7
<1>7. f[S] = g[S]
  BY <1>6
<1> QED BY <1>7 DEF Total, f, g
-----------------------------------------------------------------------------
(***************************************************************************)
(* The shares.                                                             *)
(***************************************************************************)

\* The margin is held back from every budget the tool accepts, and what is
\* left is never nothing (usable_budget()).
LEMMA Margin == Spendable \in Nat /\ Spendable >= 1 /\ 10 * Spendable <= 9 * Budget
<1> DEFINE rest == (Budget * 90) \div 100
<1>1. rest \in Nat /\ rest >= 1 /\ 10 * rest <= 9 * Budget
  BY BudgetAssumption
<1>2. \A y \in {1, rest} : rest >= y
  BY <1>1
<1>3. Max({1, rest}) \in {1, rest} /\ \A y \in {1, rest} : Max({1, rest}) >= y
  <2> HIDE DEF rest
  <2> QED BY <1>2 DEF Max
<1>4. Max({1, rest}) = rest
  <2> HIDE DEF rest
  <2> QED BY <1>1, <1>3
<1> QED BY <1>1, <1>4 DEF Spendable

\* Rounded down one by one, the four shares are together no more than the
\* whole (TYPE_QUOTA adds up to 100 percent).
LEMMA Shares ==
    /\ \A t \in DOMAIN TYPE_QUOTA : Quota(t) \in Nat
    /\ Quota("DECISION") + Quota("CONSTRAINT") + Quota("FACT") + Quota("TASK") <= Spendable
<1>1. /\ DOMAIN TYPE_QUOTA = {"DECISION", "CONSTRAINT", "FACT", "TASK"}
      /\ TYPE_QUOTA["DECISION"] = 40 /\ TYPE_QUOTA["CONSTRAINT"] = 25
      /\ TYPE_QUOTA["FACT"] = 20 /\ TYPE_QUOTA["TASK"] = 15
  BY DEF TYPE_QUOTA
<1>2. ASSUME NEW S \in Nat
      PROVE  /\ (S * 40) \div 100 \in Nat /\ (S * 25) \div 100 \in Nat
             /\ (S * 20) \div 100 \in Nat /\ (S * 15) \div 100 \in Nat
             /\ ((S * 40) \div 100) + ((S * 25) \div 100)
                  + ((S * 20) \div 100) + ((S * 15) \div 100) <= S
  OBVIOUS
<1> QED BY <1>1, <1>2, Margin DEF Quota

\* The first four passes are those of the types, the fifth is of none.
LEMMA PassOrder ==
    /\ Len(Passes) = 5
    /\ \A p \in 1 .. 4 : Passes[p] \in DOMAIN TYPE_QUOTA
    /\ \A p, q \in 1 .. 4 : p # q => Passes[p] # Passes[q]
    /\ Passes[5] \notin DOMAIN TYPE_QUOTA
    /\ \A t \in DOMAIN TYPE_QUOTA : \E q \in 1 .. 4 : Passes[q] = t
    /\ Passes[1] = "DECISION" /\ Passes[2] = "CONSTRAINT"
    /\ Passes[3] = "FACT" /\ Passes[4] = "TASK"
BY DEF Passes, TYPE_QUOTA

\* What is reserved before a pass grows by the share of each, up to no more
\* than the whole.
LEMMA Reservations ==
    /\ \A p \in 1 .. 5 : Reserved[p] \in Nat /\ Reserved[p] <= Spendable
    /\ \A p \in 1 .. 4 : Reserved[p + 1] = Reserved[p] + Quota(Passes[p])
<1>1. /\ Quota("DECISION") \in Nat /\ Quota("CONSTRAINT") \in Nat
      /\ Quota("FACT") \in Nat /\ Quota("TASK") \in Nat
  BY Shares DEF TYPE_QUOTA
<1>2. /\ Reserved[1] = 0
      /\ Reserved[2] = Quota("DECISION")
      /\ Reserved[3] = Quota("DECISION") + Quota("CONSTRAINT")
      /\ Reserved[4] = Quota("DECISION") + Quota("CONSTRAINT") + Quota("FACT")
      /\ Reserved[5] = Quota("DECISION") + Quota("CONSTRAINT") + Quota("FACT") + Quota("TASK")
  BY DEF Reserved
<1>3. ASSUME NEW p \in 1 .. 5 PROVE Reserved[p] \in Nat /\ Reserved[p] <= Spendable
  <2>1. p = 1 \/ p = 2 \/ p = 3 \/ p = 4 \/ p = 5
    OBVIOUS
  <2> QED BY <2>1, <1>1, <1>2, Shares, Margin
<1>4. ASSUME NEW p \in 1 .. 4 PROVE Reserved[p + 1] = Reserved[p] + Quota(Passes[p])
  <2>1. p = 1 \/ p = 2 \/ p = 3 \/ p = 4
    OBVIOUS
  <2> QED BY <2>1, <1>1, <1>2, PassOrder
<1> QED BY <1>3, <1>4

\* The allowance of a type is its share, of the last pass what is left
\* (select()).
LEMMA Allowances ==
    ASSUME NEW u \in Nat
    PROVE  /\ \A p \in 1 .. 4 : Allowance(p, u) = Quota(Passes[p]) /\ Quota(Passes[p]) \in Nat
           /\ Allowance(5, u) = Spendable - u
BY PassOrder, Shares DEF Allowance

\* What is offered, by pass.
LEMMA Offers ==
    ASSUME NEW chosen, NEW ruledOut
    PROVE  /\ \A p \in 1 .. 4 :
                Offered(p, chosen, ruledOut) = {m \in Fitting : Type(m) = Passes[p]} \ chosen
           /\ Offered(5, chosen, ruledOut) = Fitting \ (chosen \cup ruledOut)
BY PassOrder DEF Offered

-----------------------------------------------------------------------------
(***************************************************************************)
(* The memories.                                                           *)
(***************************************************************************)

\* Every memory that fits costs something and has the type of some pass.
LEMMA Memories ==
    ASSUME PlacesInv
    PROVE  /\ Fitting \subseteq Candidates /\ Candidates \subseteq Ids
           /\ \A m \in Ids : Tokens(m) \in Nat /\ Tokens(m) >= 1
           /\ \A m \in Fitting : Tokens(m) <= Spendable
<1>1. Fitting \subseteq Candidates /\ \A m \in Fitting : Tokens(m) <= Spendable
  BY Zenon DEF Fitting
<1>2. Candidates \subseteq Ids
  BY Zenon DEF Candidates
<1>3. profile \in [Ids -> Profiles]
  BY DEF PlacesInv
<1>4. ASSUME NEW m \in Ids PROVE Tokens(m) \in Nat /\ Tokens(m) >= 1
  <2>1. profile[m] \in Profiles
    BY <1>3
  <2>2. Tokens(m) \in Nat \ {0}
    BY <2>1, ProfilesAssumption, Zenon DEF Tokens
  <2> QED BY <2>2
<1> QED BY <1>1, <1>2, <1>4

\* The cost of memories that fit is the sum of their tokens; one more memory
\* costs its tokens, and a part costs no more than the whole.
LEMMA Costs ==
    ASSUME PlacesInv, NEW S, S \subseteq Fitting
    PROVE  /\ MapThenSumSet(Tokens, S) = CostOf(profile, S)
           /\ CostOf(profile, S) \in Nat
           /\ \A x \in Fitting \ S :
                CostOf(profile, S \cup {x}) = Tokens(x) + CostOf(profile, S)
           /\ \A T : T \subseteq S => CostOf(profile, T) <= CostOf(profile, S)
<1>1. ASSUME NEW R, R \subseteq Fitting
      PROVE  IsFiniteSet(R) /\ \A x \in R : profile[x].tokens \in 0 .. Spendable
  <2>1. R \subseteq Ids
    BY <1>1, Memories
  <2>2. IsFiniteSet(R)
    BY <2>1, IdsAssumption, FS_Subset
  <2>3. ASSUME NEW x \in R PROVE profile[x].tokens \in 0 .. Spendable
    <3>1. Tokens(x) \in Nat /\ Tokens(x) <= Spendable
      BY <1>1, <2>1, Memories
    <3>2. Tokens(x) \in 0 .. Spendable
      BY <3>1, Margin
    <3> QED BY <3>2, Zenon DEF Tokens
  <2> QED BY <2>2, <2>3
<1>2. Spendable \in Nat
  BY Margin
<1>3. ASSUME NEW R, R \subseteq Fitting
      PROVE  IsFiniteSet(Units(profile, Spendable, R)) /\ CostOf(profile, R) \in Nat
  <2>1. IsFiniteSet(R \X (1 .. Spendable))
    BY <1>1, <1>2, <1>3, UpTo, FS_Product
  <2>2. IsFiniteSet(Units(profile, Spendable, R))
    BY <2>1, FS_Subset DEF Units
  <2> QED BY <2>2, FS_CardinalityType DEF CostOf
<1>4. Total(profile, S) = CostOf(profile, S)
  BY <1>1, <1>2, TotalIsUnits DEF CostOf
<1>5. ASSUME NEW x \in Fitting \ S
      PROVE  CostOf(profile, S \cup {x}) = Tokens(x) + CostOf(profile, S)
  <2>1. S \cup {x} \subseteq Fitting /\ (S \cup {x}) \ {x} = S /\ x \in S \cup {x}
    BY <1>5
  <2>2. Cardinality(Units(profile, Spendable, S \cup {x}))
          = profile[x].tokens + Cardinality(Units(profile, Spendable, (S \cup {x}) \ {x}))
    <3>1. IsFiniteSet(S \cup {x}) /\ profile[x].tokens \in 0 .. Spendable
      BY <1>1, <2>1
    <3> QED BY <1>2, <2>1, <3>1, UnitsOfOne
  <2> QED BY <2>1, <2>2, Zenon DEF CostOf, Tokens
<1>6. ASSUME NEW T, T \subseteq S PROVE CostOf(profile, T) <= CostOf(profile, S)
  <2>1. Units(profile, Spendable, T) \subseteq Units(profile, Spendable, S)
    BY <1>6 DEF Units
  <2>2. IsFiniteSet(Units(profile, Spendable, S))
    BY <1>3
  <2> QED BY <2>1, <2>2, FS_Subset DEF CostOf
<1>7. MapThenSumSet(Tokens, S) = Total(profile, S)
  BY TotalIs
<1> QED BY <1>3, <1>4, <1>5, <1>6, <1>7

\* Nothing costs nothing.
LEMMA NoCost == ASSUME NEW p PROVE CostOf(p, {}) = 0
<1>1. Units(p, Spendable, {}) = {}
  BY DEF Units
<1> QED BY <1>1, FS_EmptySet DEF CostOf

\* To say the same is symmetric (similarity()).
LEMMA Symmetry ==
    ASSUME NEW x, NEW y
    PROVE  SaysTheSame(x, y) <=> SaysTheSame(y, x)
<1> DEFINE a == profile[x].words
           b == profile[y].words
<1>1. a \cap b = b \cap a /\ a \cup b = b \cup a
  <2> HIDE DEF a, b
  <2> QED OBVIOUS
<1>2. Similarity(x, y) = Similarity(y, x)
  <2>1. CASE a = {} \/ b = {}
    BY <2>1, Zenon DEF Similarity
  <2>2. CASE ~(a = {} \/ b = {})
    <3>1. Similarity(x, y) = [num |-> Cardinality(a \cap b), den |-> Cardinality(a \cup b)]
      BY <2>2, Zenon DEF Similarity
    <3>2. Similarity(y, x) = [num |-> Cardinality(b \cap a), den |-> Cardinality(b \cup a)]
      BY <2>2, Zenon DEF Similarity
    <3> HIDE DEF a, b
    <3> QED BY <1>1, <3>1, <3>2, Zenon
  <2> QED BY <2>1, <2>2
<1> QED BY <1>2, Zenon DEF SaysTheSame

-----------------------------------------------------------------------------
(***************************************************************************)
(* The inductive invariant.                                                *)
(***************************************************************************)

\* No brief has been begun.
LEMMA InitInv == Init => IInv
<1> SUFFICES ASSUME Init PROVE IInv
  OBVIOUS
<1>1. /\ pass = 1 /\ selected = {} /\ redundant = {} /\ used = 0 /\ spent = 0
      /\ remaining = Offered(1, {}, {}) /\ profile \in [Ids -> Profiles]
  BY DEF Init
<1>2. remaining = {m \in Fitting : Type(m) = Passes[1]}
  BY <1>1, Offers
<1>3. PlacesInv
  BY <1>1, <1>2 DEF PlacesInv
<1>4. BudgetInv
  BY <1>1, Reservations, Allowances DEF BudgetInv
<1>5. NoRepetition /\ RoomUsed
  BY <1>1, PassOrder DEF NoRepetition, RoomUsed, Done
<1>6. SharesInv
  <2>1. {m \in selected : Type(m) = Passes[pass]} = {}
    BY <1>1
  <2> QED BY <1>1, <1>2, <2>1, NoCost DEF SharesInv, OfType
<1> QED BY <1>3, <1>4, <1>5, <1>6 DEF IInv

\* The input of a brief does not change while it is made.
LEMMA SameInput ==
    ASSUME UNCHANGED input
    PROVE  /\ Fitting' = Fitting /\ Candidates' = Candidates /\ profile' = profile
           /\ \A m : Type(m)' = Type(m) /\ Tokens(m)' = Tokens(m)
           /\ \A x, y : SaysTheSame(x, y)' <=> SaysTheSame(x, y)
           /\ \A p, u : Allowance(p, u)' = Allowance(p, u)
           /\ Reserved' = Reserved /\ Spendable' = Spendable
           /\ \A q : OfType(q)' = OfType(q)
<1>1. pool' = pool /\ profile' = profile
  BY DEF input
<1>2. Candidates' = Candidates
  BY <1>1 DEF Candidates
<1>3. Fitting' = Fitting
  BY <1>1, <1>2 DEF Fitting, Tokens, Spendable
<1>4. \A m : Type(m)' = Type(m) /\ Tokens(m)' = Tokens(m)
  BY <1>1 DEF Type, Tokens
<1>5. \A x, y : SaysTheSame(x, y)' <=> SaysTheSame(x, y)
  <2>1. \A x, y : Similarity(x, y)' = Similarity(x, y)
    BY <1>1 DEF Similarity
  <2> QED BY <2>1, Zenon DEF SaysTheSame
<1>6. \A p, u : Allowance(p, u)' = Allowance(p, u)
  BY DEF Allowance, Quota, Spendable
<1>7. Reserved' = Reserved /\ Spendable' = Spendable
  BY DEF Reserved, Quota, Spendable
<1>8. \A q : OfType(q)' = OfType(q)
  BY <1>3, <1>4 DEF OfType
<1> QED BY <1>1, <1>2, <1>3, <1>4, <1>5, <1>6, <1>7, <1>8

\* One round of _fill(): the best candidate joins the brief or is ruled out.
LEMMA TakeInv == ASSUME IInv, Take PROVE IInv'
<1>1. PICK m \in remaining :
        /\ IsBest(m)
        /\ remaining' = remaining \ {m}
        /\ \/ /\ RepeatsBrief(m)
              /\ redundant' = redundant \cup {m}
              /\ UNCHANGED <<selected, spent>>
           \/ /\ ~RepeatsBrief(m)
              /\ selected' = selected \cup {m}
              /\ spent' = spent + Tokens(m)
              /\ UNCHANGED redundant
  BY DEF Take
<1>2. UNCHANGED input /\ pass' = pass /\ used' = used
  BY DEF Take
<1>3. spent + Tokens(m) <= Allowance(pass, used)
  BY <1>1 DEF IsBest, Affordable
<1>4. PlacesInv /\ BudgetInv /\ NoRepetition
  BY DEF IInv
<1>5. m \in Fitting /\ m \notin selected /\ m \notin redundant /\ pass \in 1 .. 5
  BY <1>1, <1>4 DEF PlacesInv
<1>6. Tokens(m) \in Nat
  BY <1>4, <1>5, Memories
<1>7. selected' \cup redundant' = selected \cup redundant \cup {m}
  BY <1>1
<1>8. PlacesInv'
  <2>1. /\ remaining' \subseteq Fitting' /\ selected' \subseteq Fitting'
        /\ redundant' \subseteq Fitting'
    BY <1>1, <1>2, <1>4, <1>5, SameInput DEF PlacesInv
  <2>2. remaining' \cap (selected' \cup redundant') = {} /\ selected' \cap redundant' = {}
    BY <1>1, <1>4, <1>5 DEF PlacesInv
  <2>3. pass' <= 4 => \A x \in remaining' : Type(x)' = Passes[pass']
    BY <1>1, <1>2, <1>4, SameInput DEF PlacesInv
  <2>4. \A x \in selected' \cup redundant' : \A q \in 1 .. 4 : q > pass' => Type(x)' # Passes[q]
    <3> SUFFICES ASSUME NEW x \in selected' \cup redundant', NEW q \in 1 .. 4, q > pass
                 PROVE  Type(x) # Passes[q]
      BY <1>2, SameInput
    <3>1. CASE x = m
      BY <3>1, <1>1, <1>4, <1>5, PassOrder DEF PlacesInv
    <3>2. CASE x # m
      BY <3>2, <1>4, <1>7 DEF PlacesInv
    <3> QED BY <3>1, <3>2
  <2>5. pass' = 5 => Fitting' \subseteq remaining' \cup selected' \cup redundant'
    BY <1>1, <1>2, <1>4, <1>7, SameInput DEF PlacesInv
  <2> QED BY <1>2, <1>4, <1>5, <2>1, <2>2, <2>3, <2>4, <2>5, SameInput DEF PlacesInv
<1>9. BudgetInv'
  <2>1. /\ used \in Nat /\ spent \in Nat
        /\ used <= Reserved[pass] /\ spent <= Allowance(pass, used)
    BY <1>4, <1>5 DEF BudgetInv
  <2>2. spent' \in Nat /\ spent' <= Allowance(pass, used)
    BY <1>1, <1>3, <1>6, <2>1
  <2>3. Allowance(pass, used)' = Allowance(pass, used)
    BY <1>2, SameInput
  <2> QED BY <1>2, <1>5, <2>1, <2>2, <2>3, SameInput DEF BudgetInv
<1>10. NoRepetition'
  <2>1. CASE RepeatsBrief(m) /\ redundant' = redundant \cup {m} /\ selected' = selected
    BY <2>1, <1>2, <1>4, SameInput DEF NoRepetition, RepeatsBrief
  <2>2. CASE ~RepeatsBrief(m) /\ selected' = selected \cup {m} /\ redundant' = redundant
    BY <2>2, <1>2, <1>4, SameInput, Symmetry DEF NoRepetition, RepeatsBrief
  <2> QED BY <1>1, <2>1, <2>2
<1>11. RoomUsed'
  BY <1>2, <1>5, PassOrder DEF RoomUsed, Done
<1>12. SharesInv'
  <2> DEFINE mine == {x \in selected : Type(x) = Passes[pass]}
  <2>1. SharesInv /\ selected \subseteq Fitting
    BY <1>4 DEF IInv, PlacesInv
  <2>2. {x \in selected' : Type(x)' = Passes[pass']} = {x \in selected' : Type(x) = Passes[pass]}
    BY <1>2, SameInput
  <2>3. remaining' \cup selected' \cup redundant' = remaining \cup selected \cup redundant
    BY <1>1, <1>7
  <2>4. selected \cup redundant \subseteq selected' \cup redundant'
    BY <1>7
  <2>5. /\ used' + spent' = CostOf(profile, selected')
        /\ pass <= 4 => spent' = CostOf(profile, {x \in selected' : Type(x) = Passes[pass]})
    <3>1. CASE selected' = selected /\ spent' = spent
      BY <3>1, <1>2, <2>1 DEF SharesInv
    <3>2. CASE selected' = selected \cup {m} /\ spent' = spent + Tokens(m)
      <4>1. CostOf(profile, selected \cup {m}) = Tokens(m) + CostOf(profile, selected)
        BY <1>4, <1>5, <2>1, Costs
      <4>2. used \in Nat /\ spent \in Nat
        BY <1>4 DEF BudgetInv
      <4>3. ASSUME pass <= 4
            PROVE  spent' = CostOf(profile, {x \in selected' : Type(x) = Passes[pass]})
        <5>1. Type(m) = Passes[pass]
          BY <1>1, <1>4, <4>3 DEF PlacesInv
        <5>2. {x \in selected' : Type(x) = Passes[pass]} = mine \cup {m}
          BY <3>2, <5>1
        <5>3. mine \subseteq Fitting /\ m \in Fitting \ mine
          BY <1>5, <2>1
        <5>4. CostOf(profile, mine \cup {m}) = Tokens(m) + CostOf(profile, mine)
          <6> HIDE DEF mine
          <6> QED BY <1>4, <5>3, Costs
        <5>5. spent = CostOf(profile, mine)
          BY <2>1, <4>3 DEF SharesInv
        <5> HIDE DEF mine
        <5>6. spent' = CostOf(profile, mine \cup {m})
          BY <1>6, <3>2, <4>2, <5>4, <5>5
        <5> QED BY <5>2, <5>6, Zenon
      <4>4. used + spent = CostOf(profile, selected)
        BY <2>1 DEF SharesInv
      <4> QED BY <1>2, <1>6, <3>2, <4>1, <4>2, <4>3, <4>4
    <3> QED BY <1>1, <3>1, <3>2
  <2>6. pass <= 4 => OfType(pass) \subseteq remaining' \cup selected' \cup redundant'
    BY <2>1, <2>3 DEF SharesInv
  <2>7. \A q \in 1 .. 4 :
          q < pass /\ CostOf(profile, OfType(q)) <= Quota(Passes[q])
            => OfType(q) \subseteq selected' \cup redundant'
    BY <2>1, <2>4 DEF SharesInv
  <2>8. profile' = profile /\ \A q : OfType(q)' = OfType(q)
    BY <1>2, SameInput
  <2> QED BY <1>2, <2>2, <2>5, <2>6, <2>7, <2>8 DEF SharesInv
<1> QED BY <1>8, <1>9, <1>10, <1>11, <1>12 DEF IInv

\* The end of a pass: what it spent counts, and the next is made an offer.
LEMMA NextPassInv == ASSUME IInv, NextPass PROVE IInv'
<1>1. /\ \A m \in remaining : ~Affordable(m)
      /\ pass' = pass + 1 /\ used' = used + spent /\ spent' = 0
      /\ remaining' = IF pass' <= Len(Passes) THEN Offered(pass', selected, redundant) ELSE {}
      /\ UNCHANGED input /\ selected' = selected /\ redundant' = redundant
  BY DEF NextPass
<1>2. PlacesInv /\ BudgetInv /\ NoRepetition
  BY DEF IInv
<1>3. pass \in 1 .. 5
  BY <1>2, PassOrder DEF NextPass, PlacesInv
<1>4. /\ used \in Nat /\ spent \in Nat
      /\ used <= Reserved[pass] /\ spent <= Allowance(pass, used)
  BY <1>2, <1>3 DEF BudgetInv
<1>5. pass \in 1 .. 3 =>
        remaining' = {m \in Fitting : Type(m) = Passes[pass + 1]} \ selected
  BY <1>1, PassOrder, Offers
<1>6. pass = 4 => remaining' = Fitting \ (selected \cup redundant)
  BY <1>1, PassOrder, Offers
<1>7. pass = 5 => remaining' = {}
  BY <1>1, PassOrder
<1>8. pass \in 1 .. 3 \/ pass = 4 \/ pass = 5
  BY <1>3
<1>9. PlacesInv'
  <2>0. /\ selected \subseteq Fitting /\ redundant \subseteq Fitting
        /\ selected \cap redundant = {}
        /\ \A m \in selected \cup redundant : \A q \in 1 .. 4 : q > pass => Type(m) # Passes[q]
    BY <1>2 DEF PlacesInv
  <2>1. remaining' \subseteq Fitting
    BY <1>5, <1>6, <1>7, <1>8
  <2>2. remaining' \cap (selected \cup redundant) = {}
    <3>1. CASE pass \in 1 .. 3
      <4>1. pass + 1 \in 1 .. 4 /\ pass + 1 > pass
        BY <3>1
      <4> QED BY <4>1, <3>1, <1>5, <2>0
    <3> QED BY <1>6, <1>7, <1>8, <3>1
  <2>3. pass' <= 4 => \A x \in remaining' : Type(x) = Passes[pass']
    BY <1>1, <1>3, <1>5
  <2>4. \A x \in selected \cup redundant : \A q \in 1 .. 4 : q > pass' => Type(x) # Passes[q]
    BY <1>1, <1>3, <2>0
  <2>5. pass' = 5 => Fitting \subseteq remaining' \cup selected \cup redundant
    BY <1>1, <1>3, <1>6
  <2>6. pass' = 6 => remaining' = {}
    BY <1>1, <1>3, <1>7
  <2>7. pass' \in 1 .. 6 /\ profile' \in [Ids -> Profiles]
    BY <1>1, <1>2, <1>3, SameInput DEF PlacesInv
  <2> QED BY <1>1, <2>0, <2>1, <2>2, <2>3, <2>4, <2>5, <2>6, <2>7, SameInput DEF PlacesInv
<1>10. BudgetInv'
  <2>1. CASE pass \in 1 .. 4
    <3>1. spent <= Quota(Passes[pass]) /\ Quota(Passes[pass]) \in Nat
      BY <2>1, <1>4, Allowances
    <3>2. /\ Reserved[pass + 1] = Reserved[pass] + Quota(Passes[pass])
          /\ Reserved[pass] \in Nat
      BY <2>1, <1>3, Reservations
    <3>3. used' \in Nat /\ used' <= Reserved[pass + 1]
      BY <1>1, <1>4, <3>1, <3>2
    <3>4. pass + 1 \in 1 .. 5 /\ pass' = pass + 1
      BY <2>1, <1>1
    <3>5. Reserved[pass + 1] <= Spendable /\ Reserved[pass + 1] \in Nat
      BY <3>4, Reservations
    <3>6. 0 <= Allowance(pass + 1, used')
      <4>1. CASE pass + 1 = 5
        BY <4>1, <3>3, <3>5, Allowances, Margin
      <4>2. CASE pass + 1 \in 1 .. 4
        BY <4>2, <3>3, Allowances
      <4> QED BY <3>4, <4>1, <4>2
    <3>7. Allowance(pass, used)' = Allowance(pass + 1, used')
      BY <1>1 DEF Allowance, Quota, Spendable
    <3> QED BY <1>1, <3>3, <3>4, <3>6, <3>7, SameInput DEF BudgetInv
  <2>2. CASE pass = 5
    <3>1. used' \in Nat /\ used' <= Spendable
      BY <2>2, <1>1, <1>4, Allowances, Margin
    <3> QED BY <2>2, <1>1, <3>1, SameInput DEF BudgetInv
  <2> QED BY <1>3, <2>1, <2>2
<1>11. NoRepetition'
  BY <1>1, <1>2, SameInput DEF NoRepetition
<1>12. RoomUsed'
  <2>1. CASE pass = 5
    <3>1. ASSUME NEW m \in Fitting \ (selected \cup redundant)
          PROVE  used' + Tokens(m) > Spendable
      <4>1. m \in remaining
        BY <2>1, <1>2, <3>1 DEF PlacesInv
      <4>2. ~(spent + Tokens(m) <= Spendable - used)
        BY <2>1, <4>1, <1>1, <1>4, Allowances DEF Affordable
      <4>3. Tokens(m) \in Nat
        BY <1>2, <3>1, Memories
      <4> QED BY <1>1, <1>4, <4>2, <4>3, Margin
    <3> QED BY <1>1, <3>1, SameInput DEF RoomUsed
  <2>2. CASE pass # 5
    BY <2>2, <1>1, <1>3, PassOrder DEF RoomUsed, Done
  <2> QED BY <2>1, <2>2
<1>13. SharesInv'
  <2>1. SharesInv /\ selected \subseteq Fitting
    BY <1>2 DEF IInv, PlacesInv
  <2>2. used' + spent' = CostOf(profile, selected)
    BY <1>1, <1>4, <2>1 DEF SharesInv
  <2>3. ASSUME pass' <= 4
        PROVE  /\ {x \in selected : Type(x) = Passes[pass']} = {}
               /\ OfType(pass') \subseteq remaining' \cup selected \cup redundant
    <3>1. pass \in 1 .. 3 /\ pass + 1 \in 1 .. 4 /\ pass + 1 > pass /\ pass' = pass + 1
      BY <1>1, <1>3, <2>3
    <3>2. {x \in selected : Type(x) = Passes[pass + 1]} = {}
      BY <1>2, <3>1 DEF PlacesInv
    <3>3. OfType(pass + 1) \subseteq remaining' \cup selected \cup redundant
      BY <1>5, <3>1 DEF OfType
    <3> QED BY <3>1, <3>2, <3>3
  <2>4. ASSUME NEW q \in 1 .. 4, q < pass',
               CostOf(profile, OfType(q)) <= Quota(Passes[q])
        PROVE  OfType(q) \subseteq selected \cup redundant
    <3>1. CASE q < pass
      BY <3>1, <2>1, <2>4 DEF SharesInv
    <3>2. CASE q = pass
      <4> DEFINE mine == {x \in selected : Type(x) = Passes[pass]}
      <4>1. /\ spent = CostOf(profile, mine)
            /\ OfType(pass) \subseteq remaining \cup selected \cup redundant
        BY <2>1, <3>2 DEF SharesInv
      <4>2. ASSUME NEW m \in OfType(pass), m \notin selected \cup redundant PROVE FALSE
        <5>1. m \in remaining /\ m \in Fitting
          BY <4>1, <4>2 DEF OfType
        <5>2. mine \subseteq Fitting /\ m \in Fitting \ mine /\ mine \cup {m} \subseteq OfType(pass)
              /\ OfType(pass) \subseteq Fitting
          BY <2>1, <4>2, <5>1 DEF OfType
        <5> HIDE DEF mine
        <5>3. CostOf(profile, mine \cup {m}) = Tokens(m) + CostOf(profile, mine)
          BY <1>2, <5>2, Costs
        <5>4. CostOf(profile, mine \cup {m}) <= CostOf(profile, OfType(pass))
          BY <1>2, <5>2, Costs
        <5>5. ~(spent + Tokens(m) <= Quota(Passes[pass])) /\ Quota(Passes[pass]) \in Nat
          BY <1>1, <1>4, <3>2, <5>1, Allowances DEF Affordable
        <5>6. Tokens(m) \in Nat /\ CostOf(profile, OfType(pass)) \in Nat
          <6>1. m \in Ids
            BY <1>2, <5>1, Memories
          <6> QED BY <1>2, <5>2, <6>1, Memories, Costs
        <5> QED BY <1>4, <2>4, <3>2, <4>1, <5>3, <5>4, <5>5, <5>6
      <4> QED BY <3>2, <4>2
    <3> QED BY <1>1, <1>3, <2>4, <3>1, <3>2
  <2>5. profile' = profile /\ \A q : OfType(q)' = OfType(q)
    BY <1>1, SameInput
  <2>6. {x \in selected' : Type(x)' = Passes[pass']} = {x \in selected : Type(x) = Passes[pass']}
    BY <1>1, SameInput
  <2>7. pass' <= 4 => spent' = CostOf(profile', {x \in selected' : Type(x)' = Passes[pass']})
    BY <1>1, <2>3, <2>6, NoCost
  <2>8. OfType(pass)' = OfType(pass')
    BY <1>1 DEF OfType, Fitting, Candidates, Type, Tokens, input
  <2> QED BY <1>1, <2>2, <2>3, <2>4, <2>5, <2>7, <2>8 DEF SharesInv
<1> QED BY <1>9, <1>10, <1>11, <1>12, <1>13 DEF IInv

\* The inductive invariant holds in every reachable state, whatever the
\* rankings, the memories and the budget.
THEOREM Invariance == Spec => []IInv
<1>1. IInv /\ [Next]_vars => IInv'
  <2> SUFFICES ASSUME IInv, [Next]_vars PROVE IInv'
    OBVIOUS
  <2>1. CASE Take
    BY <2>1, TakeInv
  <2>2. CASE NextPass
    BY <2>2, NextPassInv
  <2>3. CASE UNCHANGED vars
    <3>1. UNCHANGED input /\ pass' = pass /\ remaining' = remaining /\ selected' = selected
          /\ redundant' = redundant /\ used' = used /\ spent' = spent
      BY <2>3 DEF vars
    <3>2. Allowance(pass, used)' = Allowance(pass, used)
      BY <3>1, SameInput
    <3>3. SharesInv'
      <4>1. OfType(pass)' = OfType(pass)
        BY <3>1 DEF OfType, Fitting, Candidates, Type, Tokens, input
      <4>2. {x \in selected' : Type(x)' = Passes[pass']} = {x \in selected : Type(x) = Passes[pass]}
        BY <3>1, SameInput
      <4> QED BY <3>1, <4>1, <4>2, SameInput DEF IInv, SharesInv
    <3> QED BY <3>1, <3>2, <3>3, SameInput DEF IInv, PlacesInv, BudgetInv, NoRepetition, RoomUsed, Done
  <2> QED BY <2>1, <2>2, <2>3 DEF Next, Returned
<1> QED BY InitInv, <1>1, PTL DEF Spec

-----------------------------------------------------------------------------
(***************************************************************************)
(* What the invariant says.                                                *)
(***************************************************************************)

\* What the passes spent so far and what this one spent are together within
\* the spendable budget.
LEMMA WithinSpendable ==
    ASSUME IInv
    PROVE  used \in Nat /\ spent \in Nat /\ used + spent <= Spendable
<1>1. pass \in 1 .. 4 \/ pass = 5 \/ pass = 6
  BY DEF IInv, PlacesInv
<1>2. BudgetInv
  BY DEF IInv
<1>3. CASE pass \in 1 .. 4
  <2>1. used \in Nat /\ spent \in Nat /\ used <= Reserved[pass] /\ spent <= Allowance(pass, used)
    BY <1>2, <1>3 DEF BudgetInv
  <2>2. spent <= Quota(Passes[pass]) /\ Quota(Passes[pass]) \in Nat
    BY <1>3, <2>1, Allowances
  <2>3. Reserved[pass + 1] = Reserved[pass] + Quota(Passes[pass]) /\ Reserved[pass] \in Nat
    BY <1>3, Reservations
  <2>4. Reserved[pass + 1] <= Spendable
    BY <1>3, Reservations
  <2> QED BY <2>1, <2>2, <2>3, <2>4, Margin
<1>4. CASE pass = 5
  BY <1>2, <1>4, Allowances, Margin DEF BudgetInv
<1>5. CASE pass = 6
  BY <1>2, <1>5, Margin DEF BudgetInv
<1> QED BY <1>1, <1>3, <1>4, <1>5

\* A brief holds candidates that fit, and its tokens are counted in range.
THEOREM TypeCorrect == Spec => []TypeOK
<1>1. IInv => TypeOK
  <2> SUFFICES ASSUME IInv PROVE TypeOK
    OBVIOUS
  <2>1. used \in 0 .. Spendable /\ spent \in 0 .. Spendable
    BY WithinSpendable, Margin
  <2> QED BY <2>1, PassOrder DEF IInv, PlacesInv, TypeOK
<1> QED BY <1>1, Invariance, PTL

\* The tokens reported are those of the memories in the brief, and neither the
\* budget nor the margin below it is ever exceeded (select(), the promise of
\* server.py).
THEOREM BudgetKept == Spec => []WithinBudget
<1>1. IInv => WithinBudget
  <2> SUFFICES ASSUME IInv PROVE WithinBudget
    OBVIOUS
  <2>1. PlacesInv /\ SharesInv /\ selected \subseteq Fitting
    BY DEF IInv, PlacesInv
  <2>2. MapThenSumSet(Tokens, selected) = CostOf(profile, selected)
    BY <2>1, Costs
  <2>3. used + spent = CostOf(profile, selected)
    BY <2>1 DEF SharesInv
  <2>4. used + spent = MapThenSumSet(Tokens, selected)
    BY <2>2, <2>3, Zenon
  <2> QED BY <2>4, WithinSpendable, Margin, Zenon DEF WithinBudget
<1> QED BY <1>1, Invariance, PTL

\* A brief never says the same thing twice, and never leaves a memory out
\* for the sake of one that is not there (_fill()).
THEOREM NothingSaidTwice == Spec => []NoRepetition
<1>1. IInv => NoRepetition
  BY DEF IInv
<1> QED BY <1>1, Invariance, PTL

\* No memory is left out of a brief it still had room in (select(), the
\* redistribution).
THEOREM NoRoomWasted == Spec => []RoomUsed
<1>1. IInv => RoomUsed
  BY DEF IInv
<1> QED BY <1>1, Invariance, PTL

\* A type whose candidates fit its share is never crowded out by the others,
\* whatever the rankings (TYPE_QUOTA, select()).
THEOREM SharesAreKept == Spec => []ShareGuaranteed
<1>1. IInv => ShareGuaranteed
  <2> SUFFICES ASSUME IInv, Done, NEW t \in DOMAIN TYPE_QUOTA,
                      MapThenSumSet(Tokens, {m \in Fitting : Type(m) = t}) <= Quota(t)
               PROVE  {m \in Fitting : Type(m) = t} \subseteq selected \cup redundant
    BY Zenon DEF ShareGuaranteed
  <2>1. PICK q \in 1 .. 4 : Passes[q] = t
    BY PassOrder
  <2>2. OfType(q) = {m \in Fitting : Type(m) = t} /\ OfType(q) \subseteq Fitting
    BY <2>1 DEF OfType
  <2>3. PlacesInv /\ SharesInv
    BY DEF IInv
  <2>4. MapThenSumSet(Tokens, OfType(q)) = CostOf(profile, OfType(q))
    BY <2>2, <2>3, Costs
  <2>5. MapThenSumSet(Tokens, OfType(q)) <= Quota(Passes[q])
    BY <2>1, <2>2, Zenon
  <2>6. CostOf(profile, OfType(q)) <= Quota(Passes[q])
    BY <2>4, <2>5, Zenon
  <2>7. pass = 6
    BY <2>3, PassOrder DEF Done, PlacesInv
  <2> QED BY <2>2, <2>3, <2>6, <2>7 DEF SharesInv
<1> QED BY <1>1, Invariance, PTL

\* The drop counts, taken as differences of lengths, count what they name
\* (Selection.dropped).
THEOREM EveryCandidateAccounted == Spec => []DropsAddUp
<1>1. IInv => DropsAddUp
  <2> SUFFICES ASSUME IInv PROVE DropsAddUp
    OBVIOUS
  <2>1. /\ selected \subseteq Fitting /\ redundant \subseteq Fitting
        /\ selected \cap redundant = {} /\ Fitting \subseteq Candidates /\ Candidates \subseteq Ids
    <3>1. PlacesInv
      BY DEF IInv
    <3> QED BY <3>1, Memories DEF PlacesInv
  <2>2. /\ IsFiniteSet(Candidates) /\ IsFiniteSet(Fitting)
        /\ IsFiniteSet(selected) /\ IsFiniteSet(redundant)
    <3>1. \A S, T : IsFiniteSet(S) /\ T \subseteq S => IsFiniteSet(T)
      BY FS_Subset, Zenon
    <3> QED BY <2>1, <3>1, IdsAssumption
  <2>3. \A S, T : IsFiniteSet(S) /\ T \subseteq S =>
          Cardinality(S \ T) = Cardinality(S) - Cardinality(T)
    <3> SUFFICES ASSUME NEW S, NEW T, IsFiniteSet(S), T \subseteq S
                 PROVE  Cardinality(S \ T) = Cardinality(S) - Cardinality(T)
      OBVIOUS
    <3>1. S \cap T = T
      OBVIOUS
    <3> QED BY <3>1, FS_Difference, Zenon
  <2>4. TooLargeAlone = Cardinality(Candidates \ Fitting)
    BY <2>1, <2>2, <2>3 DEF TooLargeAlone
  <2>5. Cardinality(selected \cup redundant) = Cardinality(selected) + Cardinality(redundant)
    <3>1. Cardinality(selected \cap redundant) = 0
      BY <2>1, FS_EmptySet
    <3>2. Cardinality(selected \cup redundant)
            = Cardinality(selected) + Cardinality(redundant) - Cardinality(selected \cap redundant)
      BY <2>2, FS_Union, Zenon
    <3>3. Cardinality(selected) \in Nat /\ Cardinality(redundant) \in Nat
      BY <2>2, FS_CardinalityType
    <3> QED BY <3>1, <3>2, <3>3
  <2>6. NoBudgetLeft = Cardinality(Fitting \ (selected \cup redundant))
    <3>1. Cardinality(Fitting \ (selected \cup redundant))
            = Cardinality(Fitting) - Cardinality(selected \cup redundant)
      BY <2>1, <2>2, <2>3
    <3> QED BY <3>1, <2>2, <2>5, FS_CardinalityType DEF NoBudgetLeft
  <2>7. Cardinality(Candidates) =
          Cardinality(selected) + TooLargeAlone + TooSimilar + NoBudgetLeft
    BY <2>2, FS_CardinalityType DEF TooLargeAlone, TooSimilar, NoBudgetLeft
  <2> QED BY <2>1, <2>4, <2>6, <2>7 DEF DropsAddUp
<1> QED BY <1>1, Invariance, PTL

-----------------------------------------------------------------------------
(***************************************************************************)
(* Fusion.                                                                 *)
(***************************************************************************)

\* A retriever that returned m contributes 1 / (60 + rank).
LEMMA Found ==
    ASSUME NEW S, NEW r \in Seq(S), NEW m, Contains(r, m)
    PROVE  /\ Position(r, m) \in 1 .. Len(r)
           /\ Contribution(r, m) = [num |-> 1, den |-> 60 + Position(r, m)]
<1>1. DOMAIN r = 1 .. Len(r)
  OBVIOUS
<1>2. \E i \in DOMAIN r : r[i] = m
  BY <1>1 DEF Contains
<1>3. Position(r, m) \in DOMAIN r
  BY <1>2, Zenon DEF Position
<1>4. Contribution(r, m) = [num |-> 1, den |-> 60 + Position(r, m)]
  BY Zenon DEF Contribution, RRF_K
<1> QED BY <1>1, <1>3, <1>4

\* Two ranks up to 60 outweigh any single one: 2 / 120 > 1 / 61.
LEMMA TwoBeatOne ==
    ASSUME NEW a \in 61 .. 120, NEW b \in 61 .. 120, NEW c \in Nat, c >= 61
    PROVE  (b + a) * c > a * b
<1>1. a * b <= 120 * a /\ a * b <= 120 * b
  <2>1. \A x, y, z \in Nat : x <= y => z * x <= y * z
    OBVIOUS
  <2> QED BY <2>1
<1>2. (b + a) * c >= 61 * (b + a)
  <2>1. \A x, y, z \in Nat : x <= y => x * z <= z * y
    OBVIOUS
  <2> QED BY <2>1
<1>3. a * b \in Nat /\ (b + a) * c \in Nat
  OBVIOUS
<1> QED BY <1>1, <1>2, <1>3

\* A memory found by both legs is ranked before one found by a single leg, as
\* long as the legs return at most 60 each, whatever their ranks
\* (reciprocal_rank_fusion, "Rewards agreement"; the legs return three times
\* the limit of the search).
THEOREM AgreementOutranks ==
    ASSUME NEW S, NEW l \in Seq(S), NEW s \in Seq(S), Len(l) <= 60, Len(s) <= 60,
           NEW x, FoundByBoth(l, s, x),
           NEW y, ~FoundByBoth(l, s, y)
    PROVE  Before(l, s, x, y)
<1> DEFINE a == 60 + Position(l, x)
           b == 60 + Position(s, x)
           p == Score(l, s, x)
           q == Score(l, s, y)
<1>1. a \in 61 .. 120 /\ b \in 61 .. 120
  <2>1. Contains(l, x) /\ Contains(s, x)
    BY DEF FoundByBoth
  <2>2. Position(l, x) \in 1 .. Len(l) /\ Position(s, x) \in 1 .. Len(s)
    BY <2>1, Found
  <2>3. \A k \in Nat : \A i \in 1 .. k : k <= 60 => 60 + i \in 61 .. 120
    OBVIOUS
  <2> QED BY <2>2, <2>3, LenProperties
<1>2. p.num = b + a /\ p.den = a * b
  <2>1. Contribution(l, x) = [num |-> 1, den |-> a] /\ Contribution(s, x) = [num |-> 1, den |-> b]
    BY Found DEF FoundByBoth
  <2> HIDE DEF a, b
  <2> QED BY <1>1, <2>1 DEF Score
<1> HIDE DEF a, b
<1>3. PICK c \in Nat : c >= 1 /\ (q.num = 0 \/ (q.num = 1 /\ c >= 61)) /\ q.den = c
  <2>1. CASE Contains(l, y)
    <3>1. ~Contains(s, y)
      BY <2>1 DEF FoundByBoth
    <3>2. Contribution(s, y) = [num |-> 0, den |-> 1]
      BY <3>1, Zenon DEF Contribution
    <3> DEFINE k == Position(l, y)
    <3>3. Contribution(l, y) = [num |-> 1, den |-> 60 + k] /\ k \in Nat /\ k >= 1
      BY <2>1, Found
    <3> HIDE DEF k
    <3>4. q.num = 1 /\ q.den = 60 + k
      BY <3>2, <3>3 DEF Score
    <3> QED BY <3>3, <3>4
  <2>2. CASE ~Contains(l, y) /\ Contains(s, y)
    <3>2. Contribution(l, y) = [num |-> 0, den |-> 1]
      BY <2>2, Zenon DEF Contribution
    <3> DEFINE k == Position(s, y)
    <3>3. Contribution(s, y) = [num |-> 1, den |-> 60 + k] /\ k \in Nat /\ k >= 1
      BY <2>2, Found
    <3> HIDE DEF k
    <3>4. q.num = 1 /\ q.den = 60 + k
      BY <3>2, <3>3 DEF Score
    <3> QED BY <3>3, <3>4
  <2>3. CASE ~Contains(l, y) /\ ~Contains(s, y)
    <3>2. Contribution(l, y) = [num |-> 0, den |-> 1] /\ Contribution(s, y) = [num |-> 0, den |-> 1]
      BY <2>3, Zenon DEF Contribution
    <3>4. q.num = 0 /\ q.den = 1
      BY <3>2 DEF Score
    <3> QED BY <3>4
  <2> QED BY <2>1, <2>2, <2>3
<1> HIDE DEF p, q
<1>4. p.num * q.den > q.num * p.den
  <2>1. CASE q.num = 0
    <3>1. (b + a) * c > 0
      BY <1>1, <1>3
    <3>2. 0 * (a * b) = 0
      BY <1>1
    <3> QED BY <1>2, <1>3, <2>1, <3>1, <3>2
  <2>2. CASE q.num = 1 /\ c >= 61
    <3>1. (b + a) * c > a * b
      BY <1>1, <2>2, TwoBeatOne
    <3>2. 1 * (a * b) = a * b
      BY <1>1
    <3> QED BY <1>2, <1>3, <2>2, <3>1, <3>2
  <2> QED BY <1>3, <2>1, <2>2
<1> QED BY <1>4, Zenon DEF Before, p, q

\* A score is a fraction.
LEMMA ScoreIsFraction ==
    ASSUME NEW S, NEW l \in Seq(S), NEW s \in Seq(S), NEW m
    PROVE  Score(l, s, m).num \in Nat /\ Score(l, s, m).den \in Nat \ {0}
<1>1. ASSUME NEW r \in Seq(S)
      PROVE  \E n \in 0 .. 1, d \in Nat \ {0} : Contribution(r, m) = [num |-> n, den |-> d]
  <2>1. CASE Contains(r, m)
    <3>1. 60 + Position(r, m) \in Nat \ {0}
      BY <2>1, Found, LenProperties
    <3> QED BY <2>1, <3>1, Found
  <2>2. CASE ~Contains(r, m)
    <3>1. Contribution(r, m) = [num |-> 0, den |-> 1]
      BY <2>2, Zenon DEF Contribution
    <3> QED BY <3>1
  <2> QED BY <2>1, <2>2
<1>2. PICK n1 \in 0 .. 1, d1 \in Nat \ {0} : Contribution(l, m) = [num |-> n1, den |-> d1]
  BY <1>1
<1>3. PICK n2 \in 0 .. 1, d2 \in Nat \ {0} : Contribution(s, m) = [num |-> n2, den |-> d2]
  BY <1>1
<1>4. Score(l, s, m).num = n1 * d2 + n2 * d1 /\ Score(l, s, m).den = d1 * d2
  BY <1>2, <1>3 DEF Score
<1>5. n1 * d2 + n2 * d1 \in Nat /\ d1 * d2 \in Nat /\ d1 * d2 # 0
  <2>1. \A x, y \in Nat \ {0} : x * y \in Nat /\ x * y # 0
    OBVIOUS
  <2> QED BY <2>1
<1> QED BY <1>4, <1>5

\* Fractions are compared by cross products.
LEMMA Cancel ==
    ASSUME NEW x \in Nat, NEW y \in Nat, NEW d \in Nat \ {0}
    PROVE  (d * x > d * y => x > y) /\ (d * x >= d * y => x >= y)
<1>1. x < y => d * x < d * y
  <2> SUFFICES ASSUME x < y PROVE d * x < d * y
    OBVIOUS
  <2>1. d * y = d * x + d * (y - x)
    OBVIOUS
  <2>2. \A a, b \in Nat \ {0} : a * b > 0
    OBVIOUS
  <2>3. y - x \in Nat \ {0}
    OBVIOUS
  <2>4. d * (y - x) > 0
    BY <2>2, <2>3
  <2>5. d * x \in Nat /\ d * y \in Nat /\ d * (y - x) \in Int
    OBVIOUS
  <2> QED BY <2>1, <2>4, <2>5
<1>2. d * x \in Nat /\ d * y \in Nat
  OBVIOUS
<1>3. x = y => d * x = d * y
  OBVIOUS
<1> QED BY <1>1, <1>2, <1>3

\* a / b >= c / d and c / d >= e / f.
LEMMA FractionsTransitive ==
    ASSUME NEW a \in Nat, NEW b \in Nat \ {0}, NEW c \in Nat, NEW d \in Nat \ {0},
           NEW e \in Nat, NEW f \in Nat \ {0},
           a * d >= c * b, c * f >= e * d
    PROVE  /\ a * f >= e * b
           /\ a * d > c * b \/ c * f > e * d => a * f > e * b
<1>1. ASSUME NEW x \in Nat, NEW y \in Nat, NEW z \in Nat \ {0}
      PROVE  (x >= y => z * x >= z * y) /\ (x > y => z * x > z * y)
  <2>1. z * x \in Nat /\ z * y \in Nat
    OBVIOUS
  <2>2. ASSUME x > y PROVE z * x > z * y
    <3>1. z * x = z * y + z * (x - y)
      OBVIOUS
    <3>2. x - y \in Nat \ {0}
      BY <2>2
    <3>3. \A v, w \in Nat \ {0} : v * w > 0
      OBVIOUS
    <3> QED BY <2>1, <3>1, <3>2, <3>3
  <2>3. x = y => z * x = z * y
    OBVIOUS
  <2> QED BY <2>1, <2>2, <2>3
<1> DEFINE ad == a * d
           cb == c * b
           cf == c * f
           ed == e * d
           af == a * f
           eb == e * b
<1>2. ad \in Nat /\ cb \in Nat /\ cf \in Nat /\ ed \in Nat /\ af \in Nat /\ eb \in Nat
  OBVIOUS
<1>3. f * ad = d * af /\ f * cb = b * cf /\ b * ed = d * eb
  OBVIOUS
<1>4. ad >= cb /\ cf >= ed
  OBVIOUS
<1> HIDE DEF ad, cb, cf, ed, af, eb
<1>5. f * ad \in Nat /\ f * cb \in Nat /\ b * cf \in Nat /\ b * ed \in Nat
  BY <1>2
<1>6. f * ad >= f * cb /\ (ad > cb => f * ad > f * cb)
  BY <1>1, <1>2, <1>4
<1>7. b * cf >= b * ed /\ (cf > ed => b * cf > b * ed)
  BY <1>1, <1>2, <1>4
<1>8. d * af >= d * eb /\ (ad > cb \/ cf > ed => d * af > d * eb)
  BY <1>3, <1>5, <1>6, <1>7
<1>9. af >= eb /\ (ad > cb \/ cf > ed => af > eb)
  BY <1>2, <1>8, Cancel
<1> QED BY <1>9 DEF ad, cb, cf, ed, af, eb

\* The sort key orders ids strictly and totally: by score, and by id where the
\* scores are equal.
LEMMA BeforeIsOrder ==
    ASSUME NEW S, NEW l \in Seq(S), NEW s \in Seq(S)
    PROVE  /\ \A x \in Nat : ~Before(l, s, x, x)
           /\ \A x, y \in Nat : x # y => Before(l, s, x, y) \/ Before(l, s, y, x)
           /\ \A x, y, z \in Nat :
                Before(l, s, x, y) /\ Before(l, s, y, z) => Before(l, s, x, z)
<1> DEFINE N(m) == Score(l, s, m).num
           D(m) == Score(l, s, m).den
           B(x, y) == \/ N(x) * D(y) > N(y) * D(x)
                      \/ N(x) * D(y) = N(y) * D(x) /\ x < y
<1>1. \A m : N(m) \in Nat /\ D(m) \in Nat \ {0}
  BY ScoreIsFraction
<1>2. \A x, y : Before(l, s, x, y) = B(x, y)
  BY Zenon DEF Before
<1> HIDE DEF N, D
<1>3. \A x, y : N(x) * D(y) \in Nat
  <2>1. \A a, b \in Nat : a * b \in Nat
    OBVIOUS
  <2> QED BY <1>1, <2>1
<1>4. \A x \in Nat : ~B(x, x)
  BY <1>3
<1>5. \A x, y \in Nat : x # y => B(x, y) \/ B(y, x)
  BY <1>3
<1>6. ASSUME NEW x \in Nat, NEW y \in Nat, NEW z \in Nat, B(x, y), B(y, z)
      PROVE  B(x, z)
  <2>1. N(x) * D(y) >= N(y) * D(x) /\ N(y) * D(z) >= N(z) * D(y)
    BY <1>3, <1>6
  <2>2. /\ N(x) * D(z) >= N(z) * D(x)
        /\ N(x) * D(y) > N(y) * D(x) \/ N(y) * D(z) > N(z) * D(y)
             => N(x) * D(z) > N(z) * D(x)
    BY <1>1, <2>1, FractionsTransitive
  <2> QED BY <1>3, <1>6, <2>2
<1> QED BY <1>2, <1>4, <1>5, <1>6, Zenon

\* Everything found has a place of its own, so the fusion lists all of it in
\* the order of the sort key.
LEMMA FusionIsSorted ==
    ASSUME NEW l \in Seq(Ids), NEW s \in Seq(Ids),
           NEW i \in DOMAIN Fuse(l, s), NEW j \in DOMAIN Fuse(l, s), i < j
    PROVE  /\ Before(l, s, Fuse(l, s)[i], Fuse(l, s)[j])
           /\ Fuse(l, s)[i] \in Nat /\ Fuse(l, s)[j] \in Nat
<1> DEFINE found == ToSet(l) \cup ToSet(s)
           c == Cardinality(found)
           B(x, y) == Before(l, s, x, y)
           Ahead(m) == {x \in found : B(x, m)}
           place(m) == Cardinality(Ahead(m)) + 1
           f == [n \in 1 .. c |-> CHOOSE m \in found : place(m) = n]
<1>1. found \subseteq Ids /\ found \subseteq Nat
  <2>1. ASSUME NEW r \in Seq(Ids) PROVE ToSet(r) \subseteq Ids
    <3>1. DOMAIN r = 1 .. Len(r)
      OBVIOUS
    <3> QED BY <3>1 DEF ToSet
  <2> QED BY <2>1, IdsAssumption
<1>2. IsFiniteSet(found) /\ c \in Nat
  <2> HIDE DEF found
  <2> QED BY <1>1, IdsAssumption, FS_Subset, FS_CardinalityType
<1>3. /\ \A x \in found : ~B(x, x)
      /\ \A x, y \in found : x # y => B(x, y) \/ B(y, x)
      /\ \A x, y, z \in found : B(x, y) /\ B(y, z) => B(x, z)
  <2> HIDE DEF found
  <2> QED BY <1>1, BeforeIsOrder
<1>4. Fuse(l, s) = f
  BY DEF Fuse
<1> HIDE DEF found, B
<1>5. \A m \in found : IsFiniteSet(Ahead(m)) /\ Cardinality(Ahead(m)) \in Nat
  <2> SUFFICES ASSUME NEW m \in found
               PROVE  IsFiniteSet(Ahead(m)) /\ Cardinality(Ahead(m)) \in Nat
    OBVIOUS
  <2>1. Ahead(m) \in SUBSET found
    OBVIOUS
  <2> HIDE DEF Ahead
  <2> QED BY <1>2, <2>1, FS_Subset, FS_CardinalityType
<1>6. ASSUME NEW x \in found, NEW T \in SUBSET found, IsFiniteSet(T),
             Ahead(x) \subseteq T, x \in T
      PROVE  Cardinality(Ahead(x)) < Cardinality(T)
  <2>1. Ahead(x) \in SUBSET (T \ {x})
    BY <1>3, <1>6
  <2>2. /\ IsFiniteSet(T \ {x}) /\ Cardinality(T \ {x}) = Cardinality(T) - 1
        /\ Cardinality(T) \in Nat
    BY <1>6, FS_RemoveElement, FS_CardinalityType
  <2> HIDE DEF Ahead
  <2>3. Cardinality(Ahead(x)) <= Cardinality(T \ {x})
    BY <2>1, <2>2, FS_Subset
  <2> QED BY <1>5, <2>2, <2>3
<1>7. ASSUME NEW x \in found, NEW y \in found, B(x, y)
      PROVE  place(x) < place(y)
  <2>1. Ahead(x) \subseteq Ahead(y) /\ x \in Ahead(y) /\ Ahead(y) \in SUBSET found
    BY <1>3, <1>7
  <2> HIDE DEF Ahead
  <2>2. Cardinality(Ahead(x)) < Cardinality(Ahead(y))
    BY <1>5, <1>6, <2>1
  <2> QED BY <1>5, <2>2
<1>8. \A m \in found : place(m) \in 1 .. c
  <2> SUFFICES ASSUME NEW m \in found PROVE place(m) \in 1 .. c
    OBVIOUS
  <2>1. Ahead(m) \subseteq found
    OBVIOUS
  <2> HIDE DEF Ahead
  <2>2. Cardinality(Ahead(m)) < c
    BY <1>2, <1>6, <2>1
  <2> QED BY <1>2, <1>5, <2>2
<1> HIDE DEF Ahead
<1> DEFINE g == [m \in found |-> place(m)]
<1>9. g \in Injection(found, 1 .. c)
  <2>1. g \in [found -> 1 .. c]
    BY <1>8
  <2>2. ASSUME NEW x \in found, NEW y \in found, x # y PROVE g[x] # g[y]
    <3>1. place(x) \in Int /\ place(y) \in Int
      BY <1>8
    <3>2. place(x) < place(y) \/ place(y) < place(x)
      BY <1>3, <1>7, <2>2
    <3> HIDE DEF place
    <3> QED BY <3>1, <3>2
  <2> HIDE DEF g
  <2> QED BY <2>1, <2>2 DEF Injection, IsInjective
<1>10. IsFiniteSet(1 .. c) /\ Cardinality(1 .. c) = c
  BY <1>2, UpTo
<1>11. g \in Surjection(found, 1 .. c)
  <2> HIDE DEF g
  <2> QED BY <1>9, <1>10, FS_Injection
<1>12. \A n \in 1 .. c : f[n] \in found /\ place(f[n]) = n
  <2> SUFFICES ASSUME NEW n \in 1 .. c PROVE f[n] \in found /\ place(f[n]) = n
    OBVIOUS
  <2>1. \E m \in found : place(m) = n
    BY <1>11 DEF Surjection
  <2> HIDE DEF place
  <2> QED BY <2>1
<1>13. i \in 1 .. c /\ j \in 1 .. c
  BY <1>4
<1> HIDE DEF f, place
<1>14. f[i] # f[j] /\ ~B(f[j], f[i])
  BY <1>7, <1>12, <1>13
<1>15. B(f[i], f[j])
  BY <1>3, <1>12, <1>13, <1>14
<1> QED BY <1>1, <1>4, <1>12, <1>13, <1>15 DEF B

\* The input of a brief stays what it was.
PoolInv == lexical \in Seq(Ids) /\ semantic \in Seq(Ids) /\ pool = Fuse(lexical, semantic)

\* No memory that both legs found comes behind one that a single leg found.
THEOREM AgreementFirst == Spec => []AgreementRewarded
<1>1. Init => PoolInv
  <2>1. ASSUME NEW r \in Orders PROVE r \in Seq(Ids)
    <3>1. PICK S \in SUBSET Ids : r \in SetToSeqs(S)
      BY DEF Orders
    <3>2. Cardinality(S) \in Nat
      BY IdsAssumption, FS_Subset, FS_CardinalityType
    <3>3. r \in [1 .. Cardinality(S) -> S]
      BY <3>1 DEF SetToSeqs
    <3>4. r \in [1 .. Cardinality(S) -> Ids]
      BY <3>3
    <3> QED BY <3>2, <3>4
  <2> QED BY <2>1 DEF Init, PoolInv
<1>2. PoolInv /\ [Next]_vars => PoolInv'
  BY DEF PoolInv, Next, Take, NextPass, Returned, vars, input
<1>3. PoolInv => AgreementRewarded
  <2> SUFFICES ASSUME PoolInv, Len(lexical) <= 60, Len(semantic) <= 60,
                      NEW i \in DOMAIN pool, NEW j \in DOMAIN pool, i < j,
                      FoundByBoth(lexical, semantic, pool[j]),
                      ~FoundByBoth(lexical, semantic, pool[i])
               PROVE  FALSE
    BY DEF AgreementRewarded
  <2>1. Before(lexical, semantic, pool[i], pool[j])
    BY FusionIsSorted DEF PoolInv
  <2>2. Before(lexical, semantic, pool[j], pool[i])
    BY AgreementOutranks DEF PoolInv
  <2>3. pool[i] \in Nat /\ pool[j] \in Nat
    BY FusionIsSorted DEF PoolInv
  <2> QED BY <2>1, <2>2, <2>3, BeforeIsOrder DEF PoolInv
<1> QED BY <1>1, <1>2, <1>3, PTL DEF Spec
=============================================================================
