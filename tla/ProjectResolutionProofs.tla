----------------------- MODULE ProjectResolutionProofs ----------------------
(***************************************************************************)
(* Proofs about ProjectResolution, for any number of clients, projects,    *)
(* slugs and aliases.                                                      *)
(*                                                                         *)
(* What the unique constraints protect is only visible in the committed    *)
(* rows; the properties are about calls that are under way.  So the        *)
(* inductive invariant says, for each phase of a call, what its local      *)
(* variables are worth against the committed rows: Resolving while hints   *)
(* are looked up, Answering once the project is settled; and what two open *)
(* transactions may not have both inserted.                                *)
(***************************************************************************)
EXTENDS ProjectResolution, FiniteSetTheorems, TLAPS

\* Hints that use_project() has dealt with.
Handled(t) == Supplied(t.args) \ t.todo

\* A call that has inserted nothing, at rest or answered with an error.
Resting(t) == ~t.made /\ t.added = {} /\ t.seen = NoOwner

\* Before the project is settled: every hint looked up is among the
\* candidates, or was allowed to miss.
Resolving(t) ==
    /\ ~t.made /\ t.added = {}
    /\ t.todo \subseteq Supplied(t.args) /\ (t.pc # "look" => t.todo = {})
    /\ IsFiniteSet(t.found)
    /\ "project_id" \in Handled(t) => t.args.project_id \in t.found
    /\ "slug" \in Handled(t) => t.missed \/ \E p \in t.found : slugOf[p] = t.args.slug
    /\ \A h \in AliasHints(t.args) \ t.todo : t.seen[t.args[h]] \in t.found \cup {None}
    /\ t.pc = "create" => t.found = {} /\ t.args.slug # None

\* The project is settled: the hints agree with it.
Agreeing(t) ==
    /\ t.answer \in ProjIds
    /\ t.args.project_id \in {None, t.answer}
    /\ t.args.slug \in {None, IF t.made THEN t.args.slug ELSE slugOf[t.answer]}
    /\ \A h \in AliasHints(t.args) : t.seen[t.args[h]] \in {None, t.answer}

\* What the transaction has inserted is nobody's yet, and in the one order.
Inserting(t) ==
    /\ t.made => t.args.slug # None /\ slugOf[t.answer] = None /\ ~SlugTaken(t.args.slug)
    /\ t.todo \subseteq AliasHints(t.args) /\ (t.pc = "commit" => t.todo = {})
    /\ \A a \in t.added : owner[a] = None
    /\ \A h \in AliasHints(t.args) \ t.todo : t.args[h] \in t.added \/ owner[t.args[h]] # None
    /\ "git_remote" \in t.todo => t.added = {}
    /\ "workspace_path" \in t.todo => t.added \subseteq {t.args.git_remote}

GoodCall(t) ==
    /\ t.pc \in {"idle", "error"} => Resting(t)
    /\ t.pc \in {"look", "decide", "create"} => Resolving(t)
    /\ t.pc \in {"check", "insert", "commit"} => Agreeing(t) /\ Inserting(t)
    /\ \A a \in Aliases : t.seen[a] # None => owner[a] = t.seen[a]

\* Two open transactions have inserted neither the same project or slug nor
\* the same alias.
Apart(t, u) ==
    /\ t.made /\ u.made => t.answer # u.answer /\ t.args.slug # u.args.slug
    /\ t.added \cap u.added = {}

SlugsUnique == \A p, q \in Existing : slugOf[p] = slugOf[q] => p = q

\* The inductive invariant.
IInv ==
    /\ TypeOK
    /\ SlugsUnique
    /\ \A c \in Clients : GoodCall(call[c])
    /\ \A c, d \in Clients : c # d => Apart(call[c], call[d])

-----------------------------------------------------------------------------
(***************************************************************************)
(* Facts about the operators.                                              *)
(***************************************************************************)

\* Hints are handled in order: the path of a workspace after the remote.
LEMMA NextHint ==
    ASSUME NEW todo \in SUBSET Hints, NEW h \in Hints, IsNext(todo, h)
    PROVE  h \in todo /\ (h = "workspace_path" => "git_remote" \notin todo)
  <1>1. HintOrder["git_remote"] = 3 /\ HintOrder["workspace_path"] = 4
    BY DEF HintOrder, Hints
  <1> QED
    BY <1>1 DEF IsNext

\* The empty arguments are arguments.
LEMMA NoArgsType == NoArgs \in Args
  BY DEF NoArgs, Args

\* A call at rest is a call.
LEMMA IdleType ==
    /\ Idle \in Call
    /\ \A code \in Outcomes : /\ [Idle EXCEPT !.pc = "error", !.outcome = code] \in Call
                              /\ GoodCall([Idle EXCEPT !.pc = "error", !.outcome = code])
                              /\ ~[Idle EXCEPT !.pc = "error", !.outcome = code].made
                              /\ [Idle EXCEPT !.pc = "error", !.outcome = code].added = {}
    /\ GoodCall(Idle) /\ ~Idle.made /\ Idle.added = {}
  BY NoArgsType DEF Idle, Call, NoOwner, Outcomes, GoodCall, Resting

\* An alias hint names an alias, a slug hint a slug.
LEMMA HintTypes ==
    ASSUME NEW args \in Args
    PROVE  /\ Supplied(args) \subseteq Hints
           /\ AliasHints(args) = Supplied(args) \cap {"git_remote", "workspace_path"}
           /\ \A h \in AliasHints(args) : args[h] \in Aliases /\ args[h] # None
           /\ "git_remote" \in AliasHints(args) => args.git_remote \in Remotes
           /\ "workspace_path" \in AliasHints(args) => args.workspace_path \in Paths
           /\ "project_id" \in Supplied(args) <=> args.project_id # None
           /\ "slug" \in Supplied(args) <=> args.slug # None
  BY DEF Supplied, AliasHints, Args, Hints, Aliases

\* The first states are good.
LEMMA InitIInv == Init => IInv
  <1> SUFFICES ASSUME Init PROVE IInv
    OBVIOUS
  <1>1. TypeOK
    BY IdleType DEF Init, TypeOK, NoOwner
  <1>2. SlugsUnique
    BY DEF Init, SlugsUnique, Existing
  <1>3. \A c \in Clients : call[c] = Idle
    BY DEF Init
  <1> QED
    BY <1>1, <1>2, <1>3, IdleType DEF IInv, Apart

\* A step that leaves the tables alone has to be good for its own call.
LEMMA OneCall ==
    ASSUME IInv, NEW c \in Clients, NEW t \in Call, Become(c, t), GoodCall(t),
           \A d \in Clients \ {c} : Apart(t, call[d])
    PROVE  IInv'
  <1>1. /\ slugOf' = slugOf /\ owner' = owner
        /\ call' \in [Clients -> Call]
        /\ call'[c] = t
        /\ \A d \in Clients \ {c} : call'[d] = call[d]
    BY DEF Become, IInv, TypeOK
  <1>2. TypeOK' /\ SlugsUnique'
    BY <1>1 DEF IInv, TypeOK, SlugsUnique, Existing
  <1>3. \A d \in Clients : GoodCall(call'[d])
    BY <1>1 DEF IInv
  <1>4. \A d \in Clients : GoodCall(call[d])'
    BY <1>1, <1>3 DEF GoodCall, Resting, Resolving, Agreeing, Inserting, Handled, SlugTaken,
                      Supplied, AliasHints
  <1>5. \A a, d \in Clients : a # d => Apart(call'[a], call'[d])
    BY <1>1 DEF IInv, Apart
  <1>6. \A a, d \in Clients : a # d => Apart(call[a], call[d])'
    BY <1>5 DEF Apart
  <1> QED
    BY <1>2, <1>4, <1>6 DEF IInv

\* A call that has inserted nothing is apart from every other.
LEMMA NothingInserted ==
    ASSUME NEW t, NEW u, ~t.made, t.added = {}
    PROVE  Apart(t, u)
  BY DEF Apart

\* An exception, or the end of a call, leaves a call at rest.
LEMMA RestIInv ==
    ASSUME IInv, NEW c \in Clients, Become(c, Idle) \/ \E code \in Outcomes : Raise(c, code)
    PROVE  IInv'
  <1>1. CASE Become(c, Idle)
    BY <1>1, IdleType, OneCall, NothingInserted
  <1>2. ASSUME NEW code \in Outcomes, Raise(c, code) PROVE IInv'
    <2> DEFINE t == [Idle EXCEPT !.pc = "error", !.outcome = code]
    <2>1. t \in Call /\ GoodCall(t) /\ ~t.made /\ t.added = {} /\ Become(c, t)
      BY <1>2, IdleType DEF Raise
    <2> HIDE DEF t
    <2> QED
      BY <2>1, OneCall, NothingInserted
  <1> QED
    BY <1>1, <1>2

-----------------------------------------------------------------------------
(***************************************************************************)
(* One lemma for each statement.                                           *)
(***************************************************************************)

\* A call begins: nothing is handled yet, and it has been shown nothing.
LEMMA BeginIInv ==
    ASSUME IInv, NEW c \in Clients, NEW args \in Args, NEW create \in BOOLEAN, Begin(c, args, create)
    PROVE  IInv'
  <1> DEFINE t == [Idle EXCEPT !.pc = "look", !.args = args, !.create = create,
                               !.todo = Supplied(args)]
  <1>1. Become(c, t)
    BY DEF Begin
  <1>2. /\ t \in Call /\ t.pc = "look" /\ t.args = args /\ t.todo = Supplied(args)
        /\ t.found = {} /\ t.made = FALSE /\ t.added = {} /\ t.seen = NoOwner
    <2>1. Supplied(args) \in SUBSET Hints
      BY DEF Supplied
    <2>2. Idle.found = {} /\ Idle.made = FALSE /\ Idle.added = {} /\ Idle.seen = NoOwner
      BY DEF Idle
    <2> QED
      BY <2>1, <2>2, IdleType DEF Call
  <1> HIDE DEF t
  <1>3. Resolving(t)
    BY <1>2, FS_EmptySet DEF Resolving, Handled, AliasHints
  <1>4. GoodCall(t)
    BY <1>2, <1>3 DEF GoodCall, NoOwner
  <1> QED
    BY <1>1, <1>2, <1>4, OneCall, NothingInserted

\* What a lookup finds: a finite set of projects that exist, and the project
\* the hint stands for unless the set is empty.
LEMMA Lookup ==
    ASSUME IInv, NEW c \in Clients, NEW h \in Supplied(call[c].args), call[c].added = {}
    PROVE  /\ ProjectsFor(c, h) \subseteq ProjIds /\ IsFiniteSet(ProjectsFor(c, h))
           /\ h = "project_id" /\ ProjectsFor(c, h) # {} => call[c].args.project_id \in ProjectsFor(c, h)
           /\ h = "slug" => \A p \in ProjectsFor(c, h) : slugOf[p] = call[c].args.slug
           /\ h \in AliasHints(call[c].args) =>
                owner[call[c].args[h]] \in ProjectsFor(c, h) \cup {None}
  <1> DEFINE v == call[c].args[h]
  <1>1. /\ call[c].args \in Args /\ h \in Hints /\ v # None
        /\ owner \in [Aliases -> ProjIds \cup {None}] /\ slugOf \in [ProjIds -> Slugs \cup {None}]
    BY HintTypes DEF IInv, TypeOK, Call, Supplied
  <1>2. CASE h = "project_id"
    <2>1. ProjectsFor(c, h) = {v} \cap Existing
      BY <1>2 DEF ProjectsFor
    <2>2. IsFiniteSet({v})
      BY FS_Singleton
    <2>3. IsFiniteSet({v} \cap Existing)
      BY <2>2, FS_Subset
    <2> QED
      BY <1>1, <1>2, <2>1, <2>3 DEF Existing, AliasHints
  <1>3. CASE h = "slug"
    <2>1. ProjectsFor(c, h) = {p \in ProjIds : slugOf[p] = v}
      BY <1>3 DEF ProjectsFor
    <2>2. \A p, q \in ProjectsFor(c, h) : p = q
      BY <1>1, <2>1 DEF IInv, SlugsUnique, Existing
    <2>3. IsFiniteSet(ProjectsFor(c, h))
      <3>1. CASE ProjectsFor(c, h) = {}
        BY <3>1, FS_EmptySet
      <3>2. ASSUME NEW p \in ProjectsFor(c, h) PROVE IsFiniteSet(ProjectsFor(c, h))
        <4>1. ProjectsFor(c, h) = {p}
          BY <2>2, <3>2
        <4> QED
          BY <4>1, FS_Singleton
      <3> QED
        BY <3>1, <3>2
    <2> QED
      BY <1>3, <2>1, <2>3 DEF AliasHints
  <1>4. CASE h \in {"git_remote", "workspace_path"}
    <2>1. ProjectsFor(c, h) = {owner[v]} \cap ProjIds
      BY <1>4 DEF ProjectsFor
    <2>2. IsFiniteSet({owner[v]})
      BY FS_Singleton
    <2>3. IsFiniteSet({owner[v]} \cap ProjIds)
      BY <2>2, FS_Subset
    <2>4. v \in Aliases
      BY <1>1, <1>4, HintTypes DEF AliasHints
    <2> QED
      BY <1>1, <1>4, <2>1, <2>3, <2>4
  <1> QED
    BY <1>1, <1>2, <1>3, <1>4 DEF Hints

\* One hint is looked up.
LEMMA LookUpIInv ==
    ASSUME IInv, NEW c \in Clients, LookUp(c)
    PROVE  IInv'
  <1>1. PICK h \in Hints :
            /\ IsNext(call[c].todo, h)
            /\ LET hits == ProjectsFor(c, h)
                   rest == call[c].todo \ {h}
               IN  IF hits = {} /\ (h = "project_id" \/ (h = "slug" /\ ~call[c].create))
                   THEN Raise(c, "PROJECT_NOT_FOUND")
                   ELSE Become(c, [call[c] EXCEPT
                            !.todo = rest,
                            !.found = @ \cup hits,
                            !.missed = @ \/ (h = "slug" /\ hits = {}),
                            !.seen = Shown(call[c], h),
                            !.pc = IF rest = {} THEN "decide" ELSE "look"])
    BY DEF LookUp
  <1> DEFINE r == call[c]
             hits == ProjectsFor(c, h)
             rest == r.todo \ {h}
             M == r.missed \/ (h = "slug" /\ hits = {})
             P == IF rest = {} THEN "decide" ELSE "look"
             N == Shown(r, h)
             t == [r EXCEPT !.todo = rest, !.found = r.found \cup hits, !.missed = M, !.seen = N,
                            !.pc = P]
  <1>2. CASE hits = {} /\ (h = "project_id" \/ (h = "slug" /\ ~r.create))
    <2>1. Raise(c, "PROJECT_NOT_FOUND") /\ "PROJECT_NOT_FOUND" \in Outcomes
      BY <1>1, <1>2 DEF Outcomes
    <2> QED
      BY <2>1, RestIInv
  <1>3. CASE ~(hits = {} /\ (h = "project_id" \/ (h = "slug" /\ ~r.create)))
    <2>1. Become(c, t)
      BY <1>1, <1>3
    <2>2. r \in Call /\ r.args \in Args /\ r.pc = "look" /\ GoodCall(r) /\ Resolving(r)
      BY DEF IInv, TypeOK, Call, LookUp, At, GoodCall
    <2>3. h \in r.todo /\ h \in Supplied(r.args) /\ r.added = {} /\ r.todo \subseteq Supplied(r.args)
      BY <1>1, <2>2 DEF IsNext, Resolving
    <2>4. /\ hits \subseteq ProjIds /\ IsFiniteSet(hits)
          /\ h = "project_id" => r.args.project_id \in hits
          /\ h = "slug" => \A p \in hits : slugOf[p] = r.args.slug
          /\ h \in AliasHints(r.args) => owner[r.args[h]] \in hits \cup {None}
      BY <1>3, <2>3, Lookup
    <2>5. IsFiniteSet(r.found \cup hits)
      BY <2>2, <2>4, FS_Union DEF Resolving
    <2>9. /\ N \in [Aliases -> ProjIds \cup {None}]
          /\ \A a \in Aliases : N[a] # None => owner[a] = N[a]
          /\ \A a \in Aliases : N[a] = r.seen[a] \/ (h \in AliasHints(r.args) /\ a = r.args[h])
      <3>1. r.seen \in [Aliases -> ProjIds \cup {None}] /\ owner \in [Aliases -> ProjIds \cup {None}]
        BY <2>2 DEF IInv, TypeOK, Call
      <3>2. h \in AliasHints(r.args) => r.args[h] \in Aliases
        BY <2>2, HintTypes
      <3> QED
        BY <2>2, <3>1, <3>2 DEF Shown, GoodCall
    <2> HIDE DEF hits, N
    <2>6. /\ t \in Call /\ t.pc \in {"look", "decide"} /\ t.args = r.args /\ t.todo = rest
          /\ t.found = r.found \cup hits /\ t.missed = M /\ t.made = r.made /\ t.added = r.added
          /\ t.seen = N /\ (t.pc # "look" => rest = {})
      <3>1. M \in BOOLEAN /\ P \in {"look", "decide"} /\ (P # "look" => rest = {})
        BY <2>2 DEF Call
      <3>2. rest \in SUBSET Hints /\ r.found \cup hits \in SUBSET ProjIds
        BY <2>2, <2>4 DEF Call
      <3> HIDE DEF M, P, rest
      <3> QED
        BY <2>2, <2>9, <3>1, <3>2 DEF Call
    <2> HIDE DEF t
    <2>7. Resolving(t)
      <3>1. /\ ~t.made /\ t.added = {} /\ IsFiniteSet(t.found)
            /\ t.todo \subseteq Supplied(t.args) /\ (t.pc # "look" => t.todo = {})
            /\ t.pc # "create"
        BY <2>2, <2>3, <2>5, <2>6 DEF Resolving
      <3>2. "project_id" \in Handled(t) => t.args.project_id \in t.found
        BY <2>2, <2>4, <2>6 DEF Resolving, Handled
      <3>3. "slug" \in Handled(t) => t.missed \/ \E p \in t.found : slugOf[p] = t.args.slug
        <4> SUFFICES ASSUME "slug" \in Handled(t), ~t.missed
                     PROVE  \E p \in t.found : slugOf[p] = t.args.slug
          OBVIOUS
        <4>1. CASE h = "slug"
          BY <2>4, <2>6, <4>1
        <4>2. CASE h # "slug"
          BY <2>2, <2>6, <4>2 DEF Resolving, Handled
        <4> QED
          BY <4>1, <4>2
      <3>4. ASSUME NEW g \in AliasHints(t.args) \ t.todo
            PROVE  t.seen[t.args[g]] \in t.found \cup {None}
        <4>0. g \in AliasHints(r.args) /\ r.args[g] \in Aliases
          BY <2>2, <2>6, HintTypes
        <4>1. CASE N[r.args[g]] = r.seen[r.args[g]] /\ g # h
          BY <2>2, <2>6, <4>0, <4>1 DEF Resolving
        <4>2. CASE h \in AliasHints(r.args) /\ r.args[g] = r.args[h]
          BY <2>4, <2>6, <2>9, <4>0, <4>2
        <4> QED
          BY <2>9, <4>0, <4>1, <4>2
      <3> QED
        BY <3>1, <3>2, <3>3, <3>4 DEF Resolving
    <2>8. GoodCall(t)
      BY <2>6, <2>7, <2>9 DEF GoodCall
    <2> QED
      BY <2>1, <2>6, <2>7, <2>8, OneCall, NothingInserted DEF Resolving
  <1> QED
    BY <1>2, <1>3

\* What _ensure_aliases() starts from.
LEMMA AliasesLeft ==
    ASSUME NEW t \in Call, NEW todo \in SUBSET Hints
    PROVE  LET u == WithAliasesLeft(t, todo) IN
           /\ u \in Call /\ u.todo = todo
           /\ u.pc \in {"check", "commit"} /\ (u.pc = "commit" => todo = {})
           /\ u.args = t.args /\ u.seen = t.seen
           /\ u.made = t.made /\ u.added = t.added /\ u.answer = t.answer
  <1> DEFINE P == IF todo = {} THEN "commit" ELSE "check"
             u == [t EXCEPT !.todo = todo, !.pc = P]
  <1>1. P \in {"check", "commit"} /\ (P = "commit" => todo = {})
    OBVIOUS
  <1> HIDE DEF P
  <1>2. /\ u \in Call /\ u.todo = todo
        /\ u.pc \in {"check", "commit"} /\ (u.pc = "commit" => todo = {})
        /\ u.args = t.args /\ u.seen = t.seen
        /\ u.made = t.made /\ u.added = t.added /\ u.answer = t.answer
    BY <1>1 DEF Call
  <1>3. WithAliasesLeft(t, todo) = u
    BY DEF WithAliasesLeft, P
  <1> HIDE DEF u
  <1> QED
    BY <1>2, <1>3

\* A finite set of at most one element has at most one element.
LEMMA AtMostOne ==
    ASSUME NEW S, IsFiniteSet(S), ~(Cardinality(S) > 1), NEW p \in S
    PROVE  S = {p}
  <1>1. Cardinality(S) \in Nat
    BY FS_CardinalityType
  <1>2. IsFiniteSet(S \ {p}) /\ Cardinality(S \ {p}) = Cardinality(S) - 1
    BY FS_RemoveElement
  <1>3. Cardinality(S \ {p}) \in Nat
    BY <1>2, FS_CardinalityType
  <1>4. S \ {p} = {}
    BY <1>1, <1>2, <1>3, FS_EmptySet
  <1> QED
    BY <1>4

\* The hints agree on one project, or nothing is answered.
LEMMA DecideIInv ==
    ASSUME IInv, NEW c \in Clients, Decide(c)
    PROVE  IInv'
  <1> DEFINE r == call[c]
  <1>1. r \in Call /\ r.args \in Args /\ r.pc = "decide" /\ GoodCall(r) /\ Resolving(r)
    BY DEF IInv, TypeOK, Call, Decide, At, GoodCall
  <1>2. ASSUME NEW p \in r.found, ~Disagree(r),
               Become(c, WithAliasesLeft([r EXCEPT !.answer = p, !.outcome = "resolved"],
                                         AliasHints(r.args)))
        PROVE  IInv'
    <2> DEFINE q == [r EXCEPT !.answer = p, !.outcome = "resolved"]
               H == AliasHints(r.args)
               t == WithAliasesLeft(q, H)
    <2>1. r.found = {p} /\ ~r.missed /\ p \in ProjIds
      BY <1>1, <1>2, AtMostOne DEF Disagree, Resolving, Call
    <2>2. /\ q \in Call /\ q.args = r.args /\ q.seen = r.seen /\ q.made = r.made
          /\ q.added = r.added /\ q.answer = p
      BY <1>1, <2>1 DEF Call, Outcomes
    <2>3. H \in SUBSET Hints
      BY <1>1, HintTypes
    <2> HIDE DEF q, H
    <2>4. /\ t \in Call /\ t.todo = H
          /\ t.pc \in {"check", "commit"} /\ (t.pc = "commit" => H = {})
          /\ t.args = q.args /\ t.seen = q.seen
          /\ t.made = q.made /\ t.added = q.added /\ t.answer = q.answer
      BY <2>2, <2>3, AliasesLeft
    <2>5. Become(c, t)
      BY <1>2 DEF q, H
    <2> HIDE DEF t
    <2>6. ~t.made /\ t.added = {} /\ t.answer = p /\ t.args = r.args /\ t.seen = r.seen
      BY <1>1, <2>2, <2>4 DEF Resolving
    <2>7. Handled(r) = Supplied(r.args) /\ AliasHints(r.args) \ r.todo = AliasHints(r.args)
      BY <1>1 DEF Resolving, Handled
    <2>8. t.args.project_id \in {None, p} /\ t.args.slug \in {None, slugOf[p]}
      BY <1>1, <2>1, <2>6, <2>7, HintTypes DEF Resolving
    <2>9. \A h \in AliasHints(t.args) : t.seen[t.args[h]] \in {None, p}
      BY <1>1, <2>1, <2>6, <2>7 DEF Resolving
    <2>10. Agreeing(t)
      BY <2>1, <2>6, <2>8, <2>9 DEF Agreeing
    <2>11. Inserting(t)
      BY <2>4, <2>6 DEF Inserting, H
    <2>12. GoodCall(t)
      BY <1>1, <2>4, <2>6, <2>10, <2>11 DEF GoodCall
    <2> QED
      BY <2>4, <2>5, <2>6, <2>12, OneCall, NothingInserted
  <1>3. ASSUME r.found = {}, r.args.slug # None, Become(c, [r EXCEPT !.pc = "create"])
        PROVE  IInv'
    <2> DEFINE t == [r EXCEPT !.pc = "create"]
    <2>1. /\ t \in Call /\ t.pc = "create" /\ t.args = r.args /\ t.seen = r.seen
          /\ t.made = r.made /\ t.added = r.added /\ t.todo = r.todo /\ t.found = r.found
          /\ t.missed = r.missed /\ Become(c, t)
      BY <1>1, <1>3 DEF Call
    <2> HIDE DEF t
    <2>2. Resolving(t)
      BY <1>1, <1>3, <2>1 DEF Resolving, Handled
    <2>3. GoodCall(t)
      BY <1>1, <2>1, <2>2 DEF GoodCall
    <2> QED
      BY <2>1, <2>2, <2>3, OneCall, NothingInserted DEF Resolving
  <1>4. ASSUME NEW code \in {"AMBIGUOUS_PROJECT", "PROJECT_NOT_FOUND", "VALIDATION_FAILED"},
               Raise(c, code)
        PROVE  IInv'
    BY <1>4, RestIInv DEF Outcomes
  <1> QED
    BY <1>2, <1>3, <1>4 DEF Decide

\* INSERT INTO projects: the slug and the id are nobody else's.
LEMMA CreateIInv ==
    ASSUME IInv, NEW c \in Clients, Create(c)
    PROVE  IInv'
  <1> DEFINE r == call[c]
  <1>1. r \in Call /\ r.args \in Args /\ r.pc = "create" /\ GoodCall(r) /\ Resolving(r)
    BY DEF IInv, TypeOK, Call, Create, At, GoodCall
  <1>2. ASSUME NEW p \in FreshIds, ~SlugTaken(r.args.slug), ~SlugBusy(c, r.args.slug),
               Become(c, WithAliasesLeft([r EXCEPT !.answer = p, !.made = TRUE, !.outcome = "created"],
                                         AliasHints(r.args)))
        PROVE  IInv'
    <2> DEFINE q == [r EXCEPT !.answer = p, !.made = TRUE, !.outcome = "created"]
               H == AliasHints(r.args)
               t == WithAliasesLeft(q, H)
    <2>1. p \in ProjIds /\ slugOf[p] = None
      BY DEF FreshIds
    <2>2. /\ q \in Call /\ q.args = r.args /\ q.seen = r.seen /\ q.made = TRUE
          /\ q.added = r.added /\ q.answer = p
      BY <1>1, <2>1 DEF Call, Outcomes
    <2>3. H \in SUBSET Hints
      BY <1>1, HintTypes
    <2> HIDE DEF q, H
    <2>4. /\ t \in Call /\ t.todo = H
          /\ t.pc \in {"check", "commit"} /\ (t.pc = "commit" => H = {})
          /\ t.args = q.args /\ t.seen = q.seen
          /\ t.made = q.made /\ t.added = q.added /\ t.answer = q.answer
      BY <2>2, <2>3, AliasesLeft
    <2>5. Become(c, t)
      BY <1>2 DEF q, H
    <2> HIDE DEF t
    <2>6. t.made /\ t.added = {} /\ t.answer = p /\ t.args = r.args /\ t.seen = r.seen
      BY <1>1, <2>2, <2>4 DEF Resolving
    <2>7. Handled(r) = Supplied(r.args) /\ AliasHints(r.args) \ r.todo = AliasHints(r.args)
          /\ r.found = {} /\ r.args.slug # None
      BY <1>1 DEF Resolving, Handled
    <2>8. t.args.project_id = None
      BY <1>1, <2>6, <2>7, HintTypes DEF Resolving
    <2>9. \A h \in AliasHints(t.args) : t.seen[t.args[h]] \in {None, p}
      BY <1>1, <2>6, <2>7 DEF Resolving
    <2>10. Agreeing(t)
      BY <2>1, <2>6, <2>8, <2>9 DEF Agreeing
    <2>11. Inserting(t)
      BY <1>2, <2>1, <2>4, <2>6, <2>7 DEF Inserting, H
    <2>12. GoodCall(t)
      BY <1>1, <2>4, <2>6, <2>10, <2>11 DEF GoodCall
    <2>13. \A d \in Clients \ {c} : Apart(t, call[d])
      BY <1>2, <2>6 DEF FreshIds, SlugBusy, Apart
    <2> QED
      BY <2>4, <2>5, <2>12, <2>13, OneCall
  <1>3. ASSUME Raise(c, "PROJECT_EXISTS") PROVE IInv'
    BY <1>3, RestIInv DEF Outcomes
  <1> QED
    BY <1>2, <1>3 DEF Create

\* A call that is settled, and a hint it handles next.
LEMMA Settled ==
    ASSUME IInv, NEW c \in Clients, call[c].pc \in {"check", "insert"},
           NEW h \in Hints, IsNext(call[c].todo, h)
    PROVE  /\ call[c] \in Call /\ call[c].args \in Args /\ call[c].todo \in SUBSET Hints
           /\ GoodCall(call[c]) /\ Agreeing(call[c]) /\ Inserting(call[c])
           /\ h \in call[c].todo /\ h \in AliasHints(call[c].args)
           /\ h \in {"git_remote", "workspace_path"}
           /\ h = "workspace_path" => "git_remote" \notin call[c].todo
           /\ call[c].args[h] \in Aliases
  <1>1. /\ call[c] \in Call /\ call[c].args \in Args /\ call[c].todo \in SUBSET Hints
        /\ GoodCall(call[c]) /\ Agreeing(call[c]) /\ Inserting(call[c])
    BY DEF IInv, TypeOK, Call, GoodCall
  <1>2. h \in call[c].todo /\ (h = "workspace_path" => "git_remote" \notin call[c].todo)
    BY <1>1, NextHint
  <1>3. h \in AliasHints(call[c].args)
    BY <1>1, <1>2 DEF Inserting
  <1> QED
    BY <1>1, <1>2, <1>3, HintTypes DEF AliasHints

\* _ensure_aliases() finds an alias owned, or is going to insert it.
LEMMA CheckAliasIInv ==
    ASSUME IInv, NEW c \in Clients, CheckAlias(c)
    PROVE  IInv'
  <1> DEFINE r == call[c]
  <1>1. PICK h \in Hints :
            /\ IsNext(r.todo, h)
            /\ IF ProjectsFor(c, h) # {}
               THEN Become(c, WithAliasesLeft(r, r.todo \ {h}))
               ELSE Become(c, [r EXCEPT !.pc = "insert"])
    BY DEF CheckAlias
  <1>2. /\ r \in Call /\ r.args \in Args /\ r.todo \in SUBSET Hints
        /\ GoodCall(r) /\ Agreeing(r) /\ Inserting(r) /\ r.pc = "check"
        /\ h \in r.todo /\ h \in AliasHints(r.args) /\ h \in {"git_remote", "workspace_path"}
        /\ r.args[h] \in Aliases
    BY <1>1, Settled DEF CheckAlias, At
  <1>3. \A d \in Clients \ {c} : Apart(r, call[d])
    BY DEF IInv
  <1>4. CASE ProjectsFor(c, h) # {}
    <2> DEFINE T == r.todo \ {h}
               t == WithAliasesLeft(r, T)
    <2>1. r.args[h] \in r.added \/ owner[r.args[h]] # None
      BY <1>2, <1>4, NoneAssumption DEF ProjectsFor
    <2>2. T \in SUBSET Hints /\ r \in Call
      BY <1>2
    <2> HIDE DEF T
    <2>3. /\ t \in Call /\ t.todo = T
          /\ t.pc \in {"check", "commit"} /\ (t.pc = "commit" => T = {})
          /\ t.args = r.args /\ t.seen = r.seen
          /\ t.made = r.made /\ t.added = r.added /\ t.answer = r.answer
      BY <2>2, AliasesLeft
    <2>4. Become(c, t)
      BY <1>1, <1>4 DEF T
    <2> HIDE DEF t
    <2>5. Agreeing(t)
      BY <1>2, <2>3 DEF Agreeing
    <2>6. Inserting(t)
      BY <1>2, <2>1, <2>3 DEF Inserting, T
    <2>7. GoodCall(t)
      BY <1>2, <2>3, <2>5, <2>6 DEF GoodCall
    <2>8. \A d \in Clients \ {c} : Apart(t, call[d])
      BY <1>3, <2>3 DEF Apart
    <2> QED
      BY <2>3, <2>4, <2>7, <2>8, OneCall
  <1>5. CASE ProjectsFor(c, h) = {}
    <2> DEFINE t == [r EXCEPT !.pc = "insert"]
    <2>1. /\ t \in Call /\ t.todo = r.todo /\ t.pc = "insert"
          /\ t.args = r.args /\ t.seen = r.seen
          /\ t.made = r.made /\ t.added = r.added /\ t.answer = r.answer
      BY <1>2 DEF Call
    <2>2. Become(c, t)
      BY <1>1, <1>5
    <2> HIDE DEF t
    <2>3. Agreeing(t)
      BY <1>2, <2>1 DEF Agreeing
    <2>4. Inserting(t)
      BY <1>2, <2>1 DEF Inserting
    <2>5. GoodCall(t)
      BY <1>2, <2>1, <2>3, <2>4 DEF GoodCall
    <2>6. \A d \in Clients \ {c} : Apart(t, call[d])
      BY <1>3, <2>1 DEF Apart
    <2> QED
      BY <2>1, <2>2, <2>5, <2>6, OneCall
  <1> QED
    BY <1>4, <1>5

\* INSERT INTO project_aliases: the alias was nobody's, committed or not.
LEMMA InsertAliasIInv ==
    ASSUME IInv, NEW c \in Clients, InsertAlias(c)
    PROVE  IInv'
  <1> DEFINE r == call[c]
  <1>1. PICK h \in Hints :
            /\ IsNext(r.todo, h)
            /\ ~AliasBusy(c, r.args[h])
            /\ IF AliasTaken(r.args[h])
               THEN Raise(c, IF r.made THEN "PROJECT_EXISTS" ELSE "INTERNAL")
               ELSE Become(c, WithAliasesLeft([r EXCEPT !.added = @ \cup {r.args[h]}],
                                              r.todo \ {h}))
    BY DEF InsertAlias
  <1>2. /\ r \in Call /\ r.args \in Args /\ r.todo \in SUBSET Hints
        /\ GoodCall(r) /\ Agreeing(r) /\ Inserting(r) /\ r.pc = "insert"
        /\ h \in r.todo /\ h \in AliasHints(r.args) /\ h \in {"git_remote", "workspace_path"}
        /\ h = "workspace_path" => "git_remote" \notin r.todo
        /\ r.args[h] \in Aliases
    BY <1>1, Settled DEF InsertAlias, At
  <1>3. CASE AliasTaken(r.args[h])
    <2>1. \E code \in Outcomes : Raise(c, code)
      BY <1>1, <1>3 DEF Outcomes
    <2> QED
      BY <2>1, RestIInv
  <1>4. CASE ~AliasTaken(r.args[h])
    <2> DEFINE A == r.added \cup {r.args[h]}
               q == [r EXCEPT !.added = A]
               t == WithAliasesLeft(q, r.todo \ {h})
    <2>1. A \in SUBSET Aliases
      BY <1>2 DEF Call
    <2>2. r.todo \ {h} \in SUBSET Hints
      BY <1>2
    <2>3. Become(c, t)
      BY <1>1, <1>4
    <2> HIDE DEF A
    <2>4. /\ q \in Call /\ q.args = r.args /\ q.seen = r.seen /\ q.made = r.made
          /\ q.added = A /\ q.answer = r.answer
      BY <1>2, <2>1 DEF Call
    <2> HIDE DEF q
    <2>5. /\ t \in Call /\ t.todo = r.todo \ {h}
          /\ t.pc \in {"check", "commit"} /\ (t.pc = "commit" => r.todo \ {h} = {})
          /\ t.args = q.args /\ t.seen = q.seen
          /\ t.made = q.made /\ t.added = q.added /\ t.answer = q.answer
      BY <2>2, <2>4, AliasesLeft
    <2> HIDE DEF t
    <2>6. t.args = r.args /\ t.seen = r.seen /\ t.made = r.made /\ t.answer = r.answer
          /\ t.added = r.added \cup {r.args[h]} /\ owner[r.args[h]] = None
      BY <1>4, <2>4, <2>5 DEF A, AliasTaken
    <2>7. Agreeing(t)
      BY <1>2, <2>6 DEF Agreeing
    <2>8. Inserting(t)
      <3>1. \A a \in t.added : owner[a] = None
        BY <1>2, <2>6 DEF Inserting
      <3>2. \A g \in AliasHints(t.args) \ t.todo : t.args[g] \in t.added \/ owner[t.args[g]] # None
        BY <1>2, <2>5, <2>6 DEF Inserting
      <3>3. "git_remote" \notin t.todo /\ ("workspace_path" \in t.todo => t.added \subseteq {t.args.git_remote})
        BY <1>2, <2>5, <2>6 DEF Inserting
      <3> QED
        BY <1>2, <2>5, <2>6, <3>1, <3>2, <3>3 DEF Inserting
    <2>9. GoodCall(t)
      BY <1>2, <2>5, <2>6, <2>7, <2>8 DEF GoodCall
    <2>10. \A d \in Clients \ {c} : Apart(t, call[d])
      BY <1>1, <2>6 DEF IInv, Apart, AliasBusy
    <2> QED
      BY <2>3, <2>5, <2>9, <2>10, OneCall
  <1> QED
    BY <1>3, <1>4

\* session_scope() commits: what becomes visible was promised to nobody else.
LEMMA CommitIInv ==
    ASSUME IInv, NEW c \in Clients, Commit(c)
    PROVE  IInv'
  <1> DEFINE r == call[c]
  <1>1. r \in Call /\ r.args \in Args /\ GoodCall(r) /\ Agreeing(r) /\ Inserting(r)
    BY DEF IInv, TypeOK, Call, Commit, At, GoodCall
  <1>2. /\ call' = [call EXCEPT ![c] = Idle]
        /\ slugOf' = IF r.made THEN [slugOf EXCEPT ![r.answer] = r.args.slug] ELSE slugOf
        /\ owner' = [a \in Aliases |-> IF a \in r.added THEN r.answer ELSE owner[a]]
    BY DEF Commit
  <1>3. /\ call' \in [Clients -> Call] /\ call'[c] = Idle
        /\ \A d \in Clients \ {c} : call'[d] = call[d]
    BY <1>2, IdleType DEF IInv, TypeOK
  <1>4. /\ slugOf' \in [ProjIds -> Slugs \cup {None}]
        /\ \A p \in ProjIds : slugOf[p] # None => slugOf'[p] = slugOf[p]
        /\ \A p \in ProjIds : slugOf'[p] # slugOf[p] =>
                r.made /\ p = r.answer /\ slugOf[p] = None /\ slugOf'[p] = r.args.slug
    BY <1>1, <1>2 DEF IInv, TypeOK, Args, Agreeing, Inserting
  <1>5. /\ owner' \in [Aliases -> ProjIds \cup {None}]
        /\ \A a \in Aliases : owner[a] # None => owner'[a] = owner[a]
        /\ \A a \in Aliases : owner'[a] # owner[a] => a \in r.added
    BY <1>1, <1>2 DEF IInv, TypeOK, Agreeing, Inserting
  <1>6. TypeOK'
    BY <1>3, <1>4, <1>5 DEF TypeOK
  <1>7. SlugsUnique'
    <2>1. \A p \in ProjIds : r.made => slugOf[p] # r.args.slug
      BY <1>1 DEF Inserting, SlugTaken
    <2> QED
      BY <1>4, <2>1 DEF IInv, SlugsUnique, Existing
  <1>8. ASSUME NEW d \in Clients \ {c} PROVE GoodCall(call[d])'
    <2> DEFINE u == call[d]
    <2>1. /\ u \in Call /\ u.args \in Args /\ u' = u /\ GoodCall(u)
          /\ u.seen \in [Aliases -> ProjIds \cup {None}] /\ u.added \in SUBSET Aliases
          /\ u.found \in SUBSET ProjIds
      BY <1>3 DEF IInv, TypeOK, Call
    <2>2. Apart(r, u) /\ Apart(u, r)
      BY DEF IInv
    <2>3. \A a \in Aliases : u.seen[a] # None => owner'[a] = u.seen[a]
      BY <1>5, <2>1 DEF GoodCall
    <2>4. Resolving(u) => Resolving(u)'
      <3> SUFFICES ASSUME Resolving(u) PROVE Resolving(u)'
        OBVIOUS
      <3>1. u.args.slug # None => \A p \in u.found : slugOf[p] = u.args.slug => slugOf'[p] = u.args.slug
        BY <1>4, <2>1
      <3>2. "slug" \in Handled(u) => u.args.slug # None
        BY <2>1, HintTypes DEF Handled
      <3> QED
        BY <2>1, <3>1, <3>2 DEF Resolving, Handled, Supplied, AliasHints
    <2>5. Agreeing(u) => Agreeing(u)'
      BY <1>4, <2>1 DEF Agreeing, AliasHints, Supplied
    <2>6. Agreeing(u) /\ Inserting(u) => Inserting(u)'
      <3> SUFFICES ASSUME Agreeing(u), Inserting(u) PROVE Inserting(u)'
        OBVIOUS
      <3>1. u.made => u.args.slug # None /\ slugOf'[u.answer] = None
        BY <1>4, <2>2 DEF Agreeing, Inserting, Apart
      <3>2. u.made => \A p \in ProjIds : slugOf'[p] # u.args.slug
        BY <1>4, <2>2 DEF Inserting, Apart, SlugTaken
      <3>3. \A a \in u.added : owner'[a] = None
        BY <1>5, <2>1, <2>2 DEF Inserting, Apart
      <3>4. \A h \in AliasHints(u.args) \ u.todo : u.args[h] \in u.added \/ owner'[u.args[h]] # None
        BY <1>5, <2>1, HintTypes DEF Inserting
      <3> QED
        BY <2>1, <3>1, <3>2, <3>3, <3>4 DEF Inserting, AliasHints, Supplied, SlugTaken
    <2>7. Resting(u) => Resting(u)'
      BY <2>1 DEF Resting
    <2> QED
      BY <2>1, <2>3, <2>4, <2>5, <2>6, <2>7 DEF GoodCall
  <1>9. GoodCall(call[c])'
    <2>1. Idle.pc = "idle" /\ Idle.seen = NoOwner /\ ~Idle.made /\ Idle.added = {}
      BY DEF Idle
    <2> QED
      BY <1>3, <2>1 DEF GoodCall, Resting, NoOwner
  <1>10. \A a, d \in Clients : a # d => Apart(call[a], call[d])'
    <2>1. Idle.made = FALSE /\ Idle.added = {}
      BY DEF Idle
    <2>2. \A a, d \in Clients : a # d => Apart(call'[a], call'[d])
      BY <1>3, <2>1 DEF IInv, Apart
    <2> QED
      BY <2>2 DEF Apart
  <1> QED
    BY <1>6, <1>7, <1>8, <1>9, <1>10 DEF IInv

\* Every step keeps the invariant.
LEMMA NextIInv == IInv /\ [Next]_vars => IInv'
  <1> SUFFICES ASSUME IInv, [Next]_vars PROVE IInv'
    OBVIOUS
  <1>1. ASSUME NEW c \in Clients, NEW args \in Args, NEW create \in BOOLEAN, Begin(c, args, create)
        PROVE  IInv'
    BY <1>1, BeginIInv
  <1>2. ASSUME NEW c \in Clients,
               LookUp(c) \/ Decide(c) \/ Create(c) \/ CheckAlias(c) \/ InsertAlias(c) \/ Commit(c)
        PROVE  IInv'
    BY <1>2, LookUpIInv, DecideIInv, CreateIInv, CheckAliasIInv, InsertAliasIInv, CommitIInv
  <1>3. ASSUME NEW c \in Clients, Abandon(c) PROVE IInv'
    BY <1>3, RestIInv DEF Abandon
  <1>4. CASE UNCHANGED vars
    BY <1>4 DEF vars, IInv, TypeOK, SlugsUnique, Existing, GoodCall, Resting, Resolving, Agreeing,
                Inserting, Handled, SlugTaken, Supplied, AliasHints, Apart
  <1> QED
    BY <1>1, <1>2, <1>3, <1>4 DEF Next

-----------------------------------------------------------------------------
(***************************************************************************)
(* The theorems.                                                           *)
(***************************************************************************)

\* The inductive invariant holds throughout every behaviour.
LEMMA Invariance == Spec => []IInv
  BY InitIInv, NextIInv, PTL DEF Spec

\* The tables and the calls keep their types.
THEOREM TypeCorrect == Spec => []TypeOK
  BY Invariance, PTL DEF IInv

\* A slug names one project, counting the ones about to be committed
\* (services/projects.py, use_project with create).
THEOREM SlugNamesOne == Spec => []OneProjectPerSlug
  <1>1. IInv => OneProjectPerSlug
    <2> SUFFICES ASSUME IInv PROVE OneProjectPerSlug
      OBVIOUS
    <2>1. \A c \in Clients : call[c].made => /\ call[c].answer \in ProjIds
                                             /\ \A p \in ProjIds : slugOf[p] # call[c].args.slug
      BY DEF IInv, TypeOK, Call, GoodCall, Resting, Resolving, Agreeing, Inserting, SlugTaken
    <2>2. \A c, d \in Clients : call[c].made /\ call[d].made /\ call[c].args.slug = call[d].args.slug
                                   => call[c].answer = call[d].answer
      BY DEF IInv, Apart
    <2>3. \A p, q \in Existing : slugOf[p] = slugOf[q] => p = q
      BY DEF IInv, SlugsUnique
    <2>4. Existing \subseteq ProjIds
      BY DEF Existing
    <2> QED
      BY <2>1, <2>2, <2>3, <2>4 DEF OneProjectPerSlug
  <1> QED
    BY <1>1, Invariance, PTL

\* A call about to answer was shown nothing that contradicts its answer; only
\* an alias that was nobody's when it was looked up may be somebody else's by
\* now (services/projects.py, use_project and _ensure_aliases).
THEOREM AnswerFitsLookups == Spec => []LookupsHonoured
  <1>1. IInv => LookupsHonoured
    <2> SUFFICES ASSUME IInv, NEW c \in Clients, At(c, "commit"), NEW h \in AliasHints(call[c].args)
                 PROVE  LET t == call[c]
                            a == t.args[h]
                        IN  /\ t.args.project_id \in {None, t.answer}
                            /\ t.args.slug \in {None, IF t.made THEN t.args.slug ELSE slugOf[t.answer]}
                            /\ \/ a \in t.added \/ owner[a] = t.answer
                               \/ t.seen[a] = None /\ owner[a] # None
      <3>1. ASSUME IInv, NEW c \in Clients, At(c, "commit")
            PROVE  LET t == call[c] IN
                   /\ t.args.project_id \in {None, t.answer}
                   /\ t.args.slug \in {None, IF t.made THEN t.args.slug ELSE slugOf[t.answer]}
        BY <3>1 DEF IInv, At, GoodCall, Agreeing
      <3> QED
        BY <3>1 DEF LookupsHonoured
    <2> DEFINE t == call[c]
               a == t.args[h]
    <2>1. GoodCall(t) /\ Agreeing(t) /\ Inserting(t) /\ t.todo = {} /\ a \in Aliases
      BY HintTypes DEF IInv, TypeOK, Call, At, GoodCall, Inserting
    <2>2. a \in t.added \/ owner[a] # None
      BY <2>1 DEF Inserting
    <2>3. t.seen[a] \in {None, t.answer} /\ (t.seen[a] # None => owner[a] = t.seen[a])
      BY <2>1 DEF Agreeing, GoodCall
    <2> QED
      BY <2>1, <2>2, <2>3 DEF Agreeing
  <1> QED
    BY <1>1, Invariance, PTL

\* No two calls wait for each other's uncommitted rows.
THEOREM WaitsAreAcyclic == Spec => []NoWaitCycle
  <1>1. IInv => NoWaitCycle
    <2> SUFFICES ASSUME IInv, NEW c \in Clients, NEW d \in Clients \ {c}, WaitsFor(c, d), WaitsFor(d, c)
                 PROVE  FALSE
      BY DEF NoWaitCycle
    <2>1. \A x \in Clients : call[x].pc = "create" => ~call[x].made /\ call[x].added = {}
      BY DEF IInv, GoodCall, Resolving
    <2>2. At(c, "insert") /\ At(d, "insert")
      BY <2>1 DEF WaitsFor, At
    <2>3. PICK h \in call[c].todo : IsNext(call[c].todo, h) /\ call[c].args[h] \in call[d].added
      BY <2>2 DEF WaitsFor, At
    <2>4. PICK g \in call[d].todo : IsNext(call[d].todo, g) /\ call[d].args[g] \in call[c].added
      BY <2>2 DEF WaitsFor, At
    <2>5. h \in Hints /\ g \in Hints /\ call[c].pc = "insert" /\ call[d].pc = "insert"
      BY <2>2, <2>3, <2>4 DEF IInv, TypeOK, Call, At
    <2>6. /\ call[c].args \in Args /\ Inserting(call[c]) /\ h \in AliasHints(call[c].args)
          /\ h \in {"git_remote", "workspace_path"}
      BY <2>3, <2>5, Settled
    <2>7. /\ call[d].args \in Args /\ Inserting(call[d]) /\ g \in AliasHints(call[d].args)
          /\ g \in {"git_remote", "workspace_path"}
      BY <2>4, <2>5, Settled
    <2>8. h = "workspace_path" /\ g = "workspace_path"
      BY <2>3, <2>4, <2>6, <2>7 DEF Inserting
    <2>9. call[c].args.workspace_path = call[d].args.git_remote
      BY <2>3, <2>4, <2>7, <2>8 DEF Inserting
    <2>10. call[c].args.workspace_path \in Paths /\ call[d].args.git_remote \in Remotes \cup {None}
      BY <2>6, <2>7, <2>8, HintTypes DEF Args
    <2> QED
      BY <2>9, <2>10, AliasAssumption, NoneAssumption DEF Aliases
  <1> QED
    BY <1>1, Invariance, PTL

\* No step re-points an alias or renames a project (services/projects.py,
\* _ensure_aliases; the unique constraints).
THEOREM ResolutionIsStable == Spec => NeverRepointed
  <1> DEFINE Kept == /\ \A a \in Aliases : owner[a] # None => owner'[a] = owner[a]
                     /\ \A p \in Existing : slugOf'[p] = slugOf[p]
  <1>1. IInv /\ [Next]_vars => [Kept]_vars
    <2> SUFFICES ASSUME IInv, Next PROVE Kept
      OBVIOUS
    <2>1. ASSUME NEW c \in Clients, Commit(c) PROVE Kept
      <3>1. Agreeing(call[c]) /\ Inserting(call[c])
        BY <2>1 DEF IInv, Commit, At, GoodCall
      <3> QED
        BY <2>1, <3>1 DEF Commit, IInv, TypeOK, Agreeing, Inserting, Existing
    <2>2. ASSUME NEW c \in Clients,
                 \/ \E args \in Args, create \in BOOLEAN : Begin(c, args, create)
                 \/ LookUp(c) \/ Decide(c) \/ Create(c) \/ CheckAlias(c) \/ InsertAlias(c) \/ Abandon(c)
          PROVE  UNCHANGED <<slugOf, owner>>
      BY <2>2 DEF Begin, LookUp, Decide, Create, CheckAlias, InsertAlias, Abandon, Raise, Become
    <2> QED
      BY <2>1, <2>2 DEF Next, Existing
  <1> QED
    BY <1>1, Invariance, PTL DEF Spec, NeverRepointed
=============================================================================
