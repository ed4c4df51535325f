------------------------- MODULE ProjectResolution --------------------------
(***************************************************************************)
(* use_project() (services/projects.py): resolving a project from an id, a *)
(* slug, a git remote and a workspace path, creating it on request, and    *)
(* recording the aliases it had not seen.  One action per SQL statement;   *)
(* the unique constraints on slug and on (kind, value_norm) decide between *)
(* clients that do this at the same time.                                  *)
(*                                                                         *)
(* slugOf and owner hold committed rows; what a call has inserted and not  *)
(* committed is in its record call[c].  A hint is compared after           *)
(* normalisation, so two spellings of a remote are one alias here.         *)
(***************************************************************************)
EXTENDS Naturals, FiniteSets

CONSTANTS
    Clients,   \* server processes
    ProjIds,   \* ids gen_random_uuid() may hand out
    Slugs,     \* slugs that validate_slug() lets through
    Remotes,   \* normalised git remotes
    Paths,     \* normalised workspace paths
    None       \* an argument left out, a column without a row

Aliases == Remotes \cup Paths

ASSUME AliasAssumption == Remotes \cap Paths = {}
ASSUME NoneAssumption == None \notin ProjIds \cup Slugs \cup Aliases

VARIABLES
    slugOf,   \* projects: id -> slug
    owner,    \* project_aliases: alias -> project
    call      \* the call and open transaction of each client

vars == <<slugOf, owner, call>>

-----------------------------------------------------------------------------
Hints == {"project_id", "slug", "git_remote", "workspace_path"}

\* Hints are looked up, and aliases are added, in this order.
HintOrder == [h \in Hints |-> CASE h = "project_id" -> 1
                                [] h = "slug" -> 2
                                [] h = "git_remote" -> 3
                                [] h = "workspace_path" -> 4]

Args == [project_id     : ProjIds \cup {None},
         slug           : Slugs \cup {None},
         git_remote     : Remotes \cup {None},
         workspace_path : Paths \cup {None}]

NoArgs == [project_id |-> None, slug |-> None, git_remote |-> None, workspace_path |-> None]

Outcomes == {"none", "resolved", "created", "PROJECT_NOT_FOUND", "AMBIGUOUS_PROJECT",
             "VALIDATION_FAILED", "PROJECT_EXISTS", "INTERNAL"}

Call == [pc      : {"idle", "look", "decide", "create", "check", "insert", "commit", "error"},
         args    : Args,
         create  : BOOLEAN,
         todo    : SUBSET Hints,          \* hints, later aliases, still to be handled
         found   : SUBSET ProjIds,        \* candidates
         missed  : BOOLEAN,               \* by_slug is None although a slug was given
         answer  : ProjIds \cup {None},
         made    : BOOLEAN,               \* answer is inserted by this transaction
         added   : SUBSET Aliases,        \* aliases inserted by this transaction
         seen    : [Aliases -> ProjIds \cup {None}],   \* history: the owners it was shown
         outcome : Outcomes]

NoOwner == [a \in Aliases |-> None]

Idle == [pc |-> "idle", args |-> NoArgs, create |-> FALSE, todo |-> {}, found |-> {},
         missed |-> FALSE, answer |-> None, made |-> FALSE, added |-> {},
         seen |-> NoOwner, outcome |-> "none"]

TypeOK ==
    /\ slugOf \in [ProjIds -> Slugs \cup {None}]
    /\ owner \in [Aliases -> ProjIds \cup {None}]
    /\ call \in [Clients -> Call]

Init ==
    /\ slugOf = [p \in ProjIds |-> None]
    /\ owner = NoOwner
    /\ call = [c \in Clients |-> Idle]

At(c, label) == call[c].pc = label
Become(c, t) == call' = [call EXCEPT ![c] = t] /\ UNCHANGED <<slugOf, owner>>

\* The exception leaves session_scope(), which rolls the transaction back.
Raise(c, code) == Become(c, [Idle EXCEPT !.pc = "error", !.outcome = code])

Supplied(args) == {h \in Hints : args[h] # None}
AliasHints(args) == Supplied(args) \cap {"git_remote", "workspace_path"}

\* Mutant of IsNext: aliases in whatever order the caller listed them.
IsAny(todo, h) == h \in todo

IsNext(todo, h) == h \in todo /\ \A g \in todo : HintOrder[h] <= HintOrder[g]

-----------------------------------------------------------------------------
(***************************************************************************)
(* What a statement sees and what blocks it.                               *)
(***************************************************************************)
Existing == {p \in ProjIds : slugOf[p] # None}

\* Mutant of ProjectsFor: an alias nobody holds is noted as a candidate too.
ProjectsOrNone(c, h) ==
    LET v == call[c].args[h] IN
    CASE h = "project_id" -> {v} \cap Existing
      [] h = "slug" -> {p \in ProjIds : slugOf[p] = v}
      [] h \in {"git_remote", "workspace_path"} -> {owner[v]}

\* get_by_id(), get_by_slug(), resolve_alias(): the committed rows, and the
\* ones this transaction inserted.
ProjectsFor(c, h) ==
    LET v == call[c].args[h] IN
    CASE h = "project_id" -> {v} \cap Existing
      [] h = "slug" -> {p \in ProjIds : slugOf[p] = v}
      [] h \in {"git_remote", "workspace_path"} ->
            IF v \in call[c].added THEN {call[c].answer} ELSE {owner[v]} \cap ProjIds

\* Another open transaction has inserted the slug, or the alias.
SlugBusy(c, s) == \E d \in Clients \ {c} : call[d].made /\ call[d].args.slug = s
AliasBusy(c, a) == \E d \in Clients \ {c} : a \in call[d].added

\* Mutant of SlugTaken: no unique constraint on slug.
SlugFree(s) == FALSE

\* UNIQUE (slug).
SlugTaken(s) == \E p \in ProjIds : slugOf[p] = s

\* Mutant of AliasTaken: INSERT ... ON CONFLICT DO UPDATE.
AliasFree(a) == FALSE

\* UNIQUE (kind, value_norm).
AliasTaken(a) == owner[a] # None

FreshIds == {p \in ProjIds : slugOf[p] = None
                             /\ \A d \in Clients : ~(call[d].made /\ call[d].answer = p)}

-----------------------------------------------------------------------------
(***************************************************************************)
(* The statements of use_project().                                        *)
(***************************************************************************)
Begin(c, args, create) ==
    /\ At(c, "idle")
    /\ Supplied(args) # {}
    /\ Become(c, [Idle EXCEPT !.pc = "look", !.args = args, !.create = create,
                              !.todo = Supplied(args)])

\* The owners the call has been shown, once it has looked hint h up.
Shown(t, h) ==
    IF h \in AliasHints(t.args) THEN [t.seen EXCEPT ![t.args[h]] = owner[t.args[h]]] ELSE t.seen

\* One lookup.  A miss is an error for an identifier the caller named, except
\* for the slug of a project that is to be created.
LookUp(c) ==
    /\ At(c, "look")
    /\ \E h \in Hints :
        /\ IsNext(call[c].todo, h)
        /\ LET hits == ProjectsFor(c, h)
               rest == call[c].todo \ {h}
           IN  IF hits = {} /\ (h = "project_id" \/ (h = "slug" /\ ~call[c].create))
               THEN Raise(c, "PROJECT_NOT_FOUND")
               ELSE Become(c, [call[c] EXCEPT
                        !.todo = rest,
                        !.found = @ \cup hits,
                        !.missed = @ \/ (h = "slug" /\ hits = {}),
                        !.seen = Shown(call[c], h),
                        !.pc = IF rest = {} THEN "decide" ELSE "look"])

\* Mutant of Disagree: the first candidate wins.
NeverDisagree(t) == FALSE

\* The hints match several projects, or another one than the slug names.
Disagree(t) == Cardinality(t.found) > 1 \/ (t.missed /\ t.found # {})

\* Where _ensure_aliases() starts, or ends.
WithAliasesLeft(t, todo) == [t EXCEPT !.todo = todo, !.pc = IF todo = {} THEN "commit" ELSE "check"]

Decide(c) ==
    LET t == call[c] IN
    /\ At(c, "decide")
    /\ \/ /\ Disagree(t)
          /\ Raise(c, "AMBIGUOUS_PROJECT")
       \/ /\ ~Disagree(t) /\ t.found # {}
          /\ \E p \in t.found :
                Become(c, WithAliasesLeft([t EXCEPT !.answer = p, !.outcome = "resolved"],
                                          AliasHints(t.args)))
       \/ /\ t.found = {} /\ ~t.create
          /\ Raise(c, "PROJECT_NOT_FOUND")
       \/ /\ t.found = {} /\ t.create /\ t.args.slug = None
          /\ Raise(c, "VALIDATION_FAILED")
       \/ /\ t.found = {} /\ t.create /\ t.args.slug # None
          /\ Become(c, [t EXCEPT !.pc = "create"])

\* INSERT INTO projects waits for a pending insert of the same slug.
Create(c) ==
    LET t == call[c] IN
    /\ At(c, "create")
    /\ ~SlugBusy(c, t.args.slug)
    /\ \/ /\ SlugTaken(t.args.slug)
          /\ Raise(c, "PROJECT_EXISTS")
       \/ /\ ~SlugTaken(t.args.slug)
          /\ \E p \in FreshIds :
                Become(c, WithAliasesLeft([t EXCEPT !.answer = p, !.made = TRUE,
                                                    !.outcome = "created"],
                                          AliasHints(t.args)))

\* _ensure_aliases() looks an alias up before it adds it.
CheckAlias(c) ==
    /\ At(c, "check")
    /\ \E h \in Hints :
        /\ IsNext(call[c].todo, h)
        /\ IF ProjectsFor(c, h) # {}
           THEN Become(c, WithAliasesLeft(call[c], call[c].todo \ {h}))
           ELSE Become(c, [call[c] EXCEPT !.pc = "insert"])

\* INSERT INTO project_aliases.  The IntegrityError is caught around the
\* create path only.
InsertAlias(c) ==
    LET t == call[c] IN
    /\ At(c, "insert")
    /\ \E h \in Hints :
        /\ IsNext(t.todo, h)
        /\ ~AliasBusy(c, t.args[h])
        /\ IF AliasTaken(t.args[h])
           THEN Raise(c, IF t.made THEN "PROJECT_EXISTS" ELSE "INTERNAL")
           ELSE Become(c, WithAliasesLeft([t EXCEPT !.added = @ \cup {t.args[h]}],
                                          t.todo \ {h}))

\* session_scope() commits the project and its aliases together.
Commit(c) ==
    LET t == call[c] IN
    /\ At(c, "commit")
    /\ slugOf' = IF t.made THEN [slugOf EXCEPT ![t.answer] = t.args.slug] ELSE slugOf
    /\ owner' = [a \in Aliases |-> IF a \in t.added THEN t.answer ELSE owner[a]]
    /\ call' = [call EXCEPT ![c] = Idle]

\* The error has been returned; or the connection is lost, and PostgreSQL
\* rolls everything back.
Abandon(c) ==
    /\ ~At(c, "idle")
    /\ Become(c, Idle)

Next ==
    \E c \in Clients :
        \/ \E args \in Args, create \in BOOLEAN : Begin(c, args, create)
        \/ LookUp(c) \/ Decide(c) \/ Create(c) \/ CheckAlias(c) \/ InsertAlias(c)
        \/ Commit(c) \/ Abandon(c)

Spec == Init /\ [][Next]_vars

-----------------------------------------------------------------------------
(***************************************************************************)
(* Properties.                                                             *)
(***************************************************************************)

\* A slug names one project, counting the ones about to be committed: two
\* clients creating it at once never split a corpus in two
\* (projects.py:3, "resolution never guesses and never auto-creates").
OneProjectPerSlug ==
    LET named == {<<p, slugOf[p]>> : p \in Existing}
                 \cup {<<call[c].answer, call[c].args.slug>> : c \in {d \in Clients : call[d].made}}
    IN  \A x, y \in named : x[2] = y[2] => x[1] = y[1]

\* What has been resolved once stays resolved so: no step re-points an alias
\* or renames a project, whoever inserts it at the same time (the unique
\* constraints).
NeverRepointed ==
    [][/\ \A a \in Aliases : owner[a] # None => owner'[a] = owner[a]
       /\ \A p \in Existing : slugOf'[p] = slugOf[p]]_vars

\* A call that is about to answer p was shown nothing that contradicts p: the
\* id and the slug it named are p's, and an alias it named is p's, or becomes
\* p's with this commit, or was nobody's when it was looked up.  In the last
\* case another project may have taken it since: _ensure_aliases() says that
\* this raises (projects.py:186), but passes over an alias that has an owner by
\* then, whoever it is, and the call still answers p.
LookupsHonoured ==
    \A c \in Clients : At(c, "commit") =>
        LET t == call[c] IN
        /\ t.args.project_id \in {None, t.answer}
        /\ t.args.slug \in {None, IF t.made THEN t.args.slug ELSE slugOf[t.answer]}
        /\ \A h \in AliasHints(t.args) :
            LET a == t.args[h] IN
            \/ a \in t.added \/ owner[a] = t.answer
            \/ t.seen[a] = None /\ owner[a] # None

\* c waits for a row that d has inserted.
WaitsFor(c, d) ==
    \/ At(c, "create") /\ call[d].made /\ call[d].args.slug = call[c].args.slug
    \/ At(c, "insert") /\ \E h \in call[c].todo :
            IsNext(call[c].todo, h) /\ call[c].args[h] \in call[d].added

\* No two calls wait for each other: slug, remote and path are inserted in
\* one order by everybody.
NoWaitCycle ==
    \A c \in Clients : \A d \in Clients \ {c} : ~(WaitsFor(c, d) /\ WaitsFor(d, c))
=============================================================================
