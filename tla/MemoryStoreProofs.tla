------------------------- MODULE MemoryStoreProofs --------------------------
(***************************************************************************)
(* Theorems about MemoryStore, for any number of clients, memories,        *)
(* contents, keys and revisions.                                           *)
(***************************************************************************)
EXTENDS MemoryStore, TLAPS

\* What call t has pending, by the statement it has reached.
Shape(t) ==
    /\ t.pc \in {"claim", "wait"} => t.op \in {"remember", "revise"} /\ t.key \in Keys
    /\ t.pc \in {"insert", "holder", "dedup", "supersede"} => t.op = "remember"
    /\ t.pc \in {"get", "cas", "reread", "finish"} => t.op = "revise"
    /\ t.pc \in {"cas", "forget"} => t.mem \in MemIds
    /\ t.owns => t.op \in {"remember", "revise"} /\ t.key \in Keys
    /\ t.op = "remember" => t.content \in Contents
    /\ t.op = "revise" => t.content \in Contents /\ t.expected \in 1 .. MaxRev - 1
    /\ t.pc \in {"idle", "claim", "wait", "replay", "insert", "holder", "dedup",
                 "get", "cas", "reread", "exists", "forget"}
        => t.wrote = "nothing" /\ t.retired = {}
    /\ t.pc = "supersede" => t.wrote = "create"
    /\ t.pc = "finish" => t.wrote = "revise"
    /\ t.wrote = "create" => t.op = "remember" /\ t.mem \in MemIds
    /\ t.wrote = "revise" => t.op = "revise" /\ t.mem \in t.locks
    /\ t.wrote = "forget" => t.mem \in t.locks
    /\ t.retired \subseteq t.locks

CallShape == \A c \in Clients : Shape(tx[c])

\* Transactions t and u have no row and no dedup key pending in common.
Apart(t, u) ==
    /\ t.locks \cap u.locks = {}
    /\ t.wrote = "create" /\ u.wrote = "create"
        => t.mem # u.mem /\ t.content # u.content

Exclusive == \A c, d \in Clients : c # d => Apart(tx[c], tx[d])

\* A dedup key belongs to exactly the active memory that was created with
\* its content, whatever that memory says by now.
KeyOfFirstContent ==
    \A h \in Contents, m \in MemIds :
        dedup[h] = m <=> mem[m].status = "ACTIVE" /\ rev[m][1] = h

\* The inductive invariant.
IInv ==
    /\ TypeOK
    /\ CallShape
    /\ Exclusive
    /\ NoStaleWrite
    /\ RevisionsSound
    /\ KeyOfFirstContent

USE MemIdsAssumption, MaxRevAssumption, NoContentAssumption, NoKeyAssumption,
    AttemptsAssumption, SubsetsAssumption

\* Between two calls a server has nothing pending.
LEMMA IdleCall == Idle \in Call /\ Shape(Idle) /\ StillValid(Idle)
  BY DEF Idle, Call, Outcomes, MemRefs, ContentRefs, NoMem, Shape, StillValid, Retiring

\* The empty database satisfies the invariant.
LEMMA InitIInv == Init => IInv
  <1> SUFFICES ASSUME Init PROVE IInv
    OBVIOUS
  <1>1. TypeOK
    BY IdleCall DEF Init, TypeOK, MemoryRow, NoRow, MemoryStatus, NoRevisions, RevNos,
        NoMem, MemRefs, ContentRefs, KeyRow, FreeKey, NoPrint, Fingerprint
  <1>2. CallShape /\ NoStaleWrite
    BY IdleCall DEF Init, CallShape, NoStaleWrite
  <1>3. Exclusive
    BY DEF Init, Exclusive, Apart, Idle
  <1>4. RevisionsSound /\ KeyOfFirstContent
    BY DEF Init, RevisionsSound, KeyOfFirstContent, Known, NoRow, NoRevisions, NoMem, RevNos
  <1> QED
    BY <1>1, <1>2, <1>3, <1>4 DEF IInv

\* A call may become t while the tables stand still: t is well shaped, it
\* decided on rows as they are, and it shares nothing with the others.
Fits(c, t) ==
    /\ t \in Call
    /\ Shape(t)
    /\ StillValid(t)
    /\ \A d \in Clients \ {c} : Apart(t, tx[d])

\* A call that fits keeps the invariant.
LEMMA BecomeIInv ==
    ASSUME IInv, NEW c \in Clients, NEW t,
           Become(c, t), UNCHANGED <<tables, expired>>, Fits(c, t)
    PROVE  IInv'
  <1>0. /\ tx' \in [Clients -> Call]
        /\ tx'[c] = t
        /\ \A d \in Clients \ {c} : tx'[d] = tx[d]
        /\ UNCHANGED <<mem, rev, current, dedup, idem, attested, jobs, madeBy, expired>>
    BY DEF IInv, TypeOK, Become, tables, Fits
  <1>1. TypeOK'
    BY <1>0 DEF IInv, TypeOK
  <1>2. CallShape'
    BY <1>0 DEF IInv, CallShape, Fits
  <1>3. Exclusive'
    <2> SUFFICES ASSUME NEW x \in Clients, NEW y \in Clients, x # y
                 PROVE  Apart(tx'[x], tx'[y])
      BY DEF Exclusive, Apart
    <2>1. \A d \in Clients \ {c} : Apart(tx[d], t)
      BY DEF Apart, Fits
    <2> QED
      BY <1>0, <2>1 DEF IInv, Exclusive, Fits
  <1>4. NoStaleWrite'
    <2> SUFFICES ASSUME NEW d \in Clients PROVE StillValid(tx[d])'
      BY DEF NoStaleWrite
    <2>1. StillValid(tx'[d])
      BY <1>0 DEF IInv, NoStaleWrite, Fits
    <2> QED
      BY <1>0, <2>1 DEF StillValid
  <1>5. RevisionsSound'
    BY <1>0 DEF IInv, RevisionsSound, Known
  <1>6. KeyOfFirstContent'
    <2>1. KeyOfFirstContent
      BY DEF IInv
    <2> QED
      BY <1>0, <2>1 DEF KeyOfFirstContent
  <1> QED
    BY <1>1, <1>2, <1>3, <1>4, <1>5, <1>6 DEF IInv

\* Every open call fits the state it is in.
LEMMA FitsNow == ASSUME IInv, NEW c \in Clients PROVE Fits(c, tx[c])
  BY DEF IInv, TypeOK, CallShape, NoStaleWrite, Exclusive, Fits

\* A call may always raise or return.
LEMMA RaiseIInv ==
    ASSUME IInv, NEW c \in Clients, NEW code \in Outcomes,
           Raise(c, code) \/ Return(c, code), UNCHANGED <<tables, expired>>
    PROVE  IInv'
  <1>1. ASSUME NEW label \in {"error", "commit"}
        PROVE  Fits(c, [tx[c] EXCEPT !.pc = label, !.outcome = code])
    <2> DEFINE t == [tx[c] EXCEPT !.pc = label, !.outcome = code]
    <2>0. tx[c] \in Call
      BY FitsNow DEF Fits
    <2>1. t \in Call
      BY <2>0 DEF Call
    <2>2. Shape(t) /\ StillValid(t)
      BY FitsNow DEF Fits, Call, Shape, StillValid, Retiring
    <2>3. \A d \in Clients \ {c} : Apart(t, tx[d])
      BY FitsNow DEF Fits, Call, Apart
    <2> QED
      BY <2>1, <2>2, <2>3 DEF Fits
  <1> QED
    BY <1>1, BecomeIInv DEF Raise, Return

\* A statement that only reads may be followed by another that has nothing
\* pending.
LEMMA GotoIInv ==
    ASSUME IInv, NEW c \in Clients, NEW t \in Call,
           Become(c, t), UNCHANGED <<tables, expired>>,
           tx[c].wrote = "nothing", tx[c].retired = {}, Shape(t),
           t.wrote = tx[c].wrote, t.retired = tx[c].retired, t.locks = tx[c].locks
    PROVE  IInv'
  <1>1. StillValid(t) /\ \A d \in Clients \ {c} : Apart(t, tx[d])
    BY FitsNow DEF Fits, StillValid, Retiring, Apart
  <1> QED
    BY <1>1, BecomeIInv DEF Fits

-----------------------------------------------------------------------------
(***************************************************************************)
(* The statements that leave the tables alone, one lemma each.             *)
(***************************************************************************)
\* A tool call opens its transaction with nothing pending.
LEMMA BeginIInv ==
    ASSUME IInv, NEW c \in Clients, Begin(c)
    PROVE  IInv'
  <1>1. ASSUME NEW t \in Call, Open(c, t), Shape(t),
               t.wrote = "nothing", t.retired = {}, t.locks = {}
        PROVE  IInv'
    <2>1. StillValid(t) /\ \A d \in Clients \ {c} : Apart(t, tx[d])
      BY <1>1 DEF StillValid, Retiring, Apart
    <2> QED
      BY <1>1, <2>1, BecomeIInv DEF Open, Fits
  <1>2. expired \in SUBSET MemIds
    BY DEF IInv, TypeOK
  <1>3. CASE BeginRemember(c)
    <2>1. PICK h \in Contents, k \in Keys \cup {NoKey}, pad \in PaddedForms,
               S \in SUBSET Known :
            Open(c, [Idle EXCEPT !.pc = IF k = NoKey THEN "insert" ELSE "claim",
                                 !.op = "remember", !.key = k, !.padded = pad,
                                 !.content = h, !.targets = S, !.todo = S, !.past = expired])
      BY <1>3 DEF BeginRemember
    <2> DEFINE t == [Idle EXCEPT !.pc = IF k = NoKey THEN "insert" ELSE "claim",
                                 !.op = "remember", !.key = k, !.padded = pad,
                                 !.content = h, !.targets = S, !.todo = S, !.past = expired]
    <2>2. t \in Call
      <3>1. pad \in BOOLEAN /\ S \in SUBSET MemIds /\ h \in ContentRefs
        BY DEF Known, ContentRefs
      <3> QED
        BY <1>2, <3>1, IdleCall DEF Call
    <2>3. Shape(t) /\ t.wrote = "nothing" /\ t.retired = {} /\ t.locks = {}
      BY DEF Shape, Idle
    <2> QED
      BY <1>1, <2>1, <2>2, <2>3
  <1>4. CASE BeginRevise(c)
    <2>1. PICK m \in Known \cup {NoMem}, n \in 1 .. MaxRev - 1, h \in Contents,
               k \in Keys \cup {NoKey}, pad \in PaddedForms :
            Open(c, [Idle EXCEPT !.pc = IF k = NoKey THEN "get" ELSE "claim",
                                 !.op = "revise", !.key = k, !.padded = pad, !.mem = m,
                                 !.content = h, !.expected = n, !.past = expired])
      BY <1>4 DEF BeginRevise
    <2> DEFINE t == [Idle EXCEPT !.pc = IF k = NoKey THEN "get" ELSE "claim",
                                 !.op = "revise", !.key = k, !.padded = pad, !.mem = m,
                                 !.content = h, !.expected = n, !.past = expired]
    <2>2. t \in Call
      <3>1. pad \in BOOLEAN /\ m \in MemRefs /\ h \in ContentRefs /\ n \in 0 .. MaxRev
        BY DEF Known, ContentRefs, MemRefs
      <3> QED
        BY <1>2, <3>1, IdleCall DEF Call
    <2>3. Shape(t) /\ t.wrote = "nothing" /\ t.retired = {} /\ t.locks = {}
      BY DEF Shape, Idle
    <2> QED
      BY <1>1, <2>1, <2>2, <2>3
  <1>5. CASE BeginForget(c)
    <2>1. PICK m \in Known \cup {NoMem} :
            Open(c, [Idle EXCEPT !.pc = "exists", !.op = "forget", !.mem = m,
                                 !.past = expired])
      BY <1>5 DEF BeginForget
    <2> DEFINE t == [Idle EXCEPT !.pc = "exists", !.op = "forget", !.mem = m,
                                 !.past = expired]
    <2>2. t \in Call
      BY <1>2, IdleCall DEF Call, MemRefs, Known, Idle
    <2>3. Shape(t) /\ t.wrote = "nothing" /\ t.retired = {} /\ t.locks = {}
      BY DEF Shape, Idle
    <2> QED
      BY <1>1, <2>1, <2>2, <2>3
  <1> QED
    BY <1>3, <1>4, <1>5 DEF Begin

\* claim_idempotency.sql keeps the invariant.
LEMMA ClaimKeyIInv ==
    ASSUME IInv, NEW c \in Clients, ClaimKey(c)
    PROVE  IInv'
  <1>1. tx[c] \in Call /\ tx[c].pc = "claim" /\ Shape(tx[c])
    BY FitsNow DEF Fits, ClaimKey, At
  <1>2. CASE Goto(c, "wait")
    <2> DEFINE t == [tx[c] EXCEPT !.pc = "wait"]
    <2>1. t \in Call /\ Shape(t)
      BY <1>1 DEF Call, Shape
    <2> QED
      BY <1>1, <1>2, <2>1, GotoIInv DEF ClaimKey, Goto, Shape, Call
  <1>3. CASE Become(c, [tx[c] EXCEPT !.owns = TRUE, !.pc = FirstStatement(tx[c].op)])
    <2> DEFINE t == [tx[c] EXCEPT !.owns = TRUE, !.pc = FirstStatement(tx[c].op)]
    <2>1. t \in Call /\ Shape(t)
      BY <1>1 DEF Call, Shape, FirstStatement
    <2> QED
      BY <1>1, <1>3, <2>1, GotoIInv DEF ClaimKey, Shape, Call
  <1> QED
    BY <1>2, <1>3 DEF ClaimKey

\* wait_idempotency.sql keeps the invariant: it replays, raises or tries again.
LEMMA WaitKeyIInv ==
    ASSUME IInv, NEW c \in Clients, WaitKey(c)
    PROVE  IInv'
  <1>1. tx[c] \in Call /\ tx[c].pc = "wait" /\ Shape(tx[c])
    BY FitsNow DEF Fits, WaitKey, At
  <1>2. CASE /\ Attempt(c) < MaxClaimAttempts
             /\ Become(c, [tx[c] EXCEPT !.attempts = Attempt(c), !.pc = "claim"])
    <2> DEFINE t == [tx[c] EXCEPT !.attempts = Attempt(c), !.pc = "claim"]
    <2>1. Attempt(c) \in 0 .. MaxClaimAttempts
      BY <1>1, <1>2 DEF Attempt, Call
    <2>2. t \in Call
      BY <1>1, <2>1 DEF Call
    <2>3. Shape(t)
      BY <1>1 DEF Call, Shape
    <2> QED
      BY <1>1, <1>2, <2>2, <2>3, GotoIInv DEF WaitKey, Shape, Call
  <1>3. CASE \E code \in Outcomes : Raise(c, code)
    BY <1>3, RaiseIInv DEF WaitKey
  <1>4. CASE /\ idem[tx[c].key].state = "COMPLETED"
             /\ Become(c, [tx[c] EXCEPT !.mem = idem[tx[c].key].resp, !.pc = "replay"])
    <2> DEFINE t == [tx[c] EXCEPT !.mem = idem[tx[c].key].resp, !.pc = "replay"]
    <2>0. tx[c].key \in Keys
      BY <1>1 DEF Shape
    <2>1. t \in Call
      <3>1. idem[tx[c].key].resp \in MemRefs
        BY <2>0 DEF IInv, TypeOK, KeyRow
      <3> QED
        BY <1>1, <3>1 DEF Call
    <2>2. Shape(t)
      BY <1>1 DEF Call, Shape
    <2> QED
      BY <1>1, <1>4, <2>1, <2>2, GotoIInv DEF WaitKey, Shape, Call
  <1> QED
    BY <1>2, <1>3, <1>4 DEF WaitKey, Outcomes

\* _replay_memory() only answers.
LEMMA ReplayIInv ==
    ASSUME IInv, NEW c \in Clients, Replay(c)
    PROVE  IInv'
  BY RaiseIInv DEF Replay, Outcomes

\* _deduplicate() only answers.
LEMMA DeduplicateIInv ==
    ASSUME IInv, NEW c \in Clients, Deduplicate(c)
    PROVE  IInv'
  BY RaiseIInv DEF Deduplicate, Outcomes

\* The conflict branch of revise() only answers.
LEMMA RereadIInv ==
    ASSUME IInv, NEW c \in Clients, Reread(c)
    PROVE  IInv'
  BY RaiseIInv DEF Reread, Outcomes

\* The insert takes an id and a dedup key nobody else has pending.
LEMMA InsertMemoryIInv ==
    ASSUME IInv, NEW c \in Clients, InsertMemory(c)
    PROVE  IInv'
  <1>1. tx[c] \in Call /\ tx[c].pc = "insert" /\ Shape(tx[c])
    BY FitsNow DEF Fits, InsertMemory, At
  <1>2. CASE Goto(c, "holder")
    <2> DEFINE t == [tx[c] EXCEPT !.pc = "holder"]
    <2>1. t \in Call /\ Shape(t)
      BY <1>1 DEF Call, Shape
    <2> QED
      BY <1>1, <1>2, <2>1, GotoIInv DEF InsertMemory, Goto, Shape, Call
  <1>3. ASSUME dedup[tx[c].content] = NoMem, NEW m \in Fresh,
               Become(c, [tx[c] EXCEPT !.mem = m, !.wrote = "create", !.pc = "supersede"])
        PROVE  IInv'
    <2> DEFINE t == [tx[c] EXCEPT !.mem = m, !.wrote = "create", !.pc = "supersede"]
    <2>0. /\ m \in MemIds /\ mem[m].status = "ABSENT"
          /\ \A d \in Clients : tx[d].mem # m
      BY DEF Fresh
    <2>1. t \in Call
      BY <1>1, <2>0 DEF Call, MemRefs
    <2>2. Shape(t)
      BY <1>1, <2>0 DEF Call, Shape
    <2>3. StillValid(t)
      BY <1>1, <1>3, <2>0 DEF Call, Shape, StillValid, Retiring
    <2>4. \A d \in Clients \ {c} : Apart(t, tx[d])
      BY <1>1, <2>0, FitsNow DEF Fits, Call, Apart, InsertMemory, DedupBusy
    <2> QED
      BY <1>3, <2>1, <2>2, <2>3, <2>4, BecomeIInv DEF Fits, InsertMemory
  <1> QED
    BY <1>2, <1>3 DEF InsertMemory

\* dedup_key_holder() only reads.
LEMMA ReadHolderIInv ==
    ASSUME IInv, NEW c \in Clients, ReadHolder(c)
    PROVE  IInv'
  <1>1. tx[c] \in Call /\ tx[c].pc = "holder" /\ Shape(tx[c])
    BY FitsNow DEF Fits, ReadHolder, At
  <1>2. CASE Raise(c, "HOLDER_VANISHED")
    BY <1>2, RaiseIInv DEF ReadHolder, Outcomes
  <1>3. CASE Become(c, [tx[c] EXCEPT !.mem = dedup[tx[c].content], !.pc = "dedup"])
    <2> DEFINE t == [tx[c] EXCEPT !.mem = dedup[tx[c].content], !.pc = "dedup"]
    <2>1. dedup[tx[c].content] \in MemRefs
      BY <1>1 DEF IInv, TypeOK, Shape
    <2>2. t \in Call
      BY <1>1, <2>1 DEF Call
    <2>3. Shape(t)
      BY <1>1 DEF Call, Shape
    <2> QED
      BY <1>1, <1>3, <2>2, <2>3, GotoIInv DEF ReadHolder, Shape, Call
  <1> QED
    BY <1>2, <1>3 DEF ReadHolder

\* cas_supersede.sql retires an active row that it has locked.
LEMMA SupersedeIInv ==
    ASSUME IInv, NEW c \in Clients, Supersede(c)
    PROVE  IInv'
  <1>1. tx[c] \in Call /\ tx[c].pc = "supersede" /\ Shape(tx[c]) /\ StillValid(tx[c])
    BY FitsNow DEF Fits, Supersede, At
  <1>2. PICK x \in MemIds :
          /\ IsNextTarget(c, x)
          /\ ~RowBusy(c, x)
          /\ \/ /\ mem[x].status = "ACTIVE"
                /\ Become(c, [tx[c] EXCEPT !.todo = @ \ {x}, !.retired = @ \cup {x},
                                           !.locks = @ \cup {x}])
             \/ \E kept \in SUBSET {x} :
                  Become(c, [tx[c] EXCEPT !.todo = @ \ {x}, !.locks = @ \cup kept])
    BY DEF Supersede
  <1>3. \A d \in Clients \ {c} : x \notin tx[d].locks
    BY <1>2 DEF RowBusy
  <1>4. CASE /\ mem[x].status = "ACTIVE"
             /\ Become(c, [tx[c] EXCEPT !.todo = @ \ {x}, !.retired = @ \cup {x},
                                        !.locks = @ \cup {x}])
    <2> DEFINE t == [tx[c] EXCEPT !.todo = @ \ {x}, !.retired = @ \cup {x},
                                  !.locks = @ \cup {x}]
    <2>1. t \in Call
      BY <1>1 DEF Call
    <2>2. Shape(t)
      BY <1>1 DEF Call, Shape
    <2>3. StillValid(t)
      BY <1>1, <1>4 DEF Call, Shape, StillValid, Retiring
    <2>4. \A d \in Clients \ {c} : Apart(t, tx[d])
      BY <1>1, <1>3, FitsNow DEF Fits, Call, Apart
    <2> QED
      BY <1>4, <2>1, <2>2, <2>3, <2>4, BecomeIInv DEF Fits, Supersede
  <1>5. ASSUME NEW kept \in SUBSET {x},
               Become(c, [tx[c] EXCEPT !.todo = @ \ {x}, !.locks = @ \cup kept])
        PROVE  IInv'
    <2> DEFINE t == [tx[c] EXCEPT !.todo = @ \ {x}, !.locks = @ \cup kept]
    <2>1. t \in Call
      BY <1>1 DEF Call
    <2>2. Shape(t)
      BY <1>1 DEF Call, Shape
    <2>3. StillValid(t)
      BY <1>1 DEF Call, Shape, StillValid, Retiring
    <2>4. \A d \in Clients \ {c} : Apart(t, tx[d])
      BY <1>1, <1>3, FitsNow DEF Fits, Call, Apart
    <2> QED
      BY <1>5, <2>1, <2>2, <2>3, <2>4, BecomeIInv DEF Fits, Supersede
  <1> QED
    BY <1>2, <1>4, <1>5

\* The first read of revise() takes no lock.
LEMMA GetMemoryIInv ==
    ASSUME IInv, NEW c \in Clients, GetMemory(c)
    PROVE  IInv'
  <1>1. tx[c] \in Call /\ tx[c].pc = "get" /\ Shape(tx[c])
    BY FitsNow DEF Fits, GetMemory, At
  <1>2. CASE Raise(c, "NOT_FOUND")
    BY <1>2, RaiseIInv DEF GetMemory, Outcomes
  <1>3. CASE Visible(c, tx[c].mem) /\ Goto(c, "cas")
    <2> DEFINE t == [tx[c] EXCEPT !.pc = "cas"]
    <2>0. tx[c].mem \in MemIds
      BY <1>1, <1>3 DEF Visible, Call, MemRefs
    <2>1. t \in Call /\ Shape(t)
      BY <1>1, <2>0 DEF Call, Shape
    <2> QED
      BY <1>1, <1>3, <2>1, GotoIInv DEF GetMemory, Goto, Shape, Call
  <1> QED
    BY <1>2, <1>3 DEF GetMemory

\* truth.exists() takes no lock.
LEMMA CheckExistsIInv ==
    ASSUME IInv, NEW c \in Clients, CheckExists(c)
    PROVE  IInv'
  <1>1. tx[c] \in Call /\ tx[c].pc = "exists" /\ Shape(tx[c])
    BY FitsNow DEF Fits, CheckExists, At
  <1>2. CASE Raise(c, "NOT_FOUND")
    BY <1>2, RaiseIInv DEF CheckExists, Outcomes
  <1>3. CASE tx[c].mem \in Known /\ Goto(c, "forget")
    <2> DEFINE t == [tx[c] EXCEPT !.pc = "forget"]
    <2>1. t \in Call /\ Shape(t)
      BY <1>1, <1>3 DEF Call, Shape, Known
    <2> QED
      BY <1>1, <1>3, <2>1, GotoIInv DEF CheckExists, Goto, Shape, Call
  <1> QED
    BY <1>2, <1>3 DEF CheckExists

\* cas_revise.sql wins only on an active row at the expected revision.
LEMMA CompareAndSetIInv ==
    ASSUME IInv, NEW c \in Clients, CompareAndSet(c)
    PROVE  IInv'
  <1> DEFINE m == tx[c].mem
  <1>1. tx[c] \in Call /\ tx[c].pc = "cas" /\ Shape(tx[c]) /\ m \in MemIds
    BY FitsNow DEF Fits, CompareAndSet, At, Shape
  <1>2. \A d \in Clients \ {c} : m \notin tx[d].locks
    BY DEF CompareAndSet, RowBusy
  <1>3. CASE /\ CasHolds(c)
             /\ Become(c, [tx[c] EXCEPT !.wrote = "revise", !.locks = @ \cup {m},
                                        !.pc = "finish"])
    <2> DEFINE t == [tx[c] EXCEPT !.wrote = "revise", !.locks = @ \cup {m}, !.pc = "finish"]
    <2>1. t \in Call
      BY <1>1 DEF Call
    <2>2. Shape(t)
      BY <1>1 DEF Call, Shape
    <2>3. StillValid(t)
      BY <1>1, <1>3 DEF Call, Shape, StillValid, Retiring, CasHolds
    <2>4. \A d \in Clients \ {c} : Apart(t, tx[d])
      BY <1>1, <1>2, FitsNow DEF Fits, Call, Apart
    <2> QED
      BY <1>3, <2>1, <2>2, <2>3, <2>4, BecomeIInv DEF Fits, CompareAndSet
  <1>4. ASSUME NEW kept \in SUBSET {m},
               Become(c, [tx[c] EXCEPT !.locks = @ \cup kept, !.pc = "reread"])
        PROVE  IInv'
    <2> DEFINE t == [tx[c] EXCEPT !.locks = @ \cup kept, !.pc = "reread"]
    <2>1. t \in Call
      BY <1>1 DEF Call
    <2>2. Shape(t)
      BY <1>1 DEF Call, Shape
    <2>3. StillValid(t)
      BY <1>1 DEF Call, Shape, StillValid, Retiring
    <2>4. \A d \in Clients \ {c} : Apart(t, tx[d])
      BY <1>1, <1>2, FitsNow DEF Fits, Call, Apart
    <2> QED
      BY <1>4, <2>1, <2>2, <2>3, <2>4, BecomeIInv DEF Fits, CompareAndSet
  <1> QED
    BY <1>3, <1>4 DEF CompareAndSet

\* cas_forget.sql retires an active row that it has locked.
LEMMA ForgetMemoryIInv ==
    ASSUME IInv, NEW c \in Clients, ForgetMemory(c)
    PROVE  IInv'
  <1> DEFINE m == tx[c].mem
  <1>1. tx[c] \in Call /\ tx[c].pc = "forget" /\ Shape(tx[c]) /\ m \in MemIds
    BY FitsNow DEF Fits, ForgetMemory, At, Shape
  <1>2. \A d \in Clients \ {c} : m \notin tx[d].locks
    BY DEF ForgetMemory, RowBusy
  <1>3. CASE /\ mem[m].status = "ACTIVE"
             /\ Become(c, [tx[c] EXCEPT !.wrote = "forget", !.locks = @ \cup {m},
                                        !.pc = "commit", !.outcome = "forgotten"])
    <2> DEFINE t == [tx[c] EXCEPT !.wrote = "forget", !.locks = @ \cup {m},
                                  !.pc = "commit", !.outcome = "forgotten"]
    <2>1. t \in Call
      BY <1>1 DEF Call, Outcomes
    <2>2. Shape(t)
      BY <1>1 DEF Call, Shape
    <2>3. StillValid(t)
      BY <1>1, <1>3 DEF Call, Shape, StillValid, Retiring
    <2>4. \A d \in Clients \ {c} : Apart(t, tx[d])
      BY <1>1, <1>2, FitsNow DEF Fits, Call, Apart
    <2> QED
      BY <1>3, <2>1, <2>2, <2>3, <2>4, BecomeIInv DEF Fits, ForgetMemory
  <1>4. ASSUME NEW kept \in SUBSET {m},
               Become(c, [tx[c] EXCEPT !.locks = @ \cup kept, !.pc = "commit",
                                       !.outcome = "already_forgotten"])
        PROVE  IInv'
    <2> DEFINE t == [tx[c] EXCEPT !.locks = @ \cup kept, !.pc = "commit",
                                  !.outcome = "already_forgotten"]
    <2>1. t \in Call
      BY <1>1 DEF Call, Outcomes
    <2>2. Shape(t)
      BY <1>1 DEF Call, Shape
    <2>3. StillValid(t)
      BY <1>1 DEF Call, Shape, StillValid, Retiring
    <2>4. \A d \in Clients \ {c} : Apart(t, tx[d])
      BY <1>1, <1>2, FitsNow DEF Fits, Call, Apart
    <2> QED
      BY <1>4, <2>1, <2>2, <2>3, <2>4, BecomeIInv DEF Fits, ForgetMemory
  <1> QED
    BY <1>3, <1>4 DEF ForgetMemory

\* complete() changes nothing but the call's own key row.
LEMMA FinishIInv ==
    ASSUME IInv, NEW c \in Clients, Finish(c)
    PROVE  IInv'
  <1>1. tx[c] \in Call /\ Shape(tx[c]) /\ StillValid(tx[c])
    BY FitsNow DEF Fits
  <1>2. CASE Raise(c, "KEY_VANISHED")
    BY <1>2, RaiseIInv DEF Finish, Outcomes
  <1>3. CASE Become(c, [tx[c] EXCEPT !.done = (tx[c].key # NoKey), !.pc = "commit",
                                     !.outcome = IF tx[c].op = "remember"
                                                 THEN "created" ELSE "ok"])
    <2> DEFINE t == [tx[c] EXCEPT !.done = (tx[c].key # NoKey), !.pc = "commit",
                                  !.outcome = IF tx[c].op = "remember"
                                              THEN "created" ELSE "ok"]
    <2>1. t \in Call
      <3> DEFINE finished == tx[c].key # NoKey
                 answer == IF tx[c].op = "remember" THEN "created" ELSE "ok"
      <3>1. finished \in BOOLEAN /\ answer \in Outcomes
        BY DEF Outcomes
      <3> HIDE DEF finished, answer
      <3>2. [tx[c] EXCEPT !.done = finished, !.pc = "commit", !.outcome = answer] \in Call
        BY <1>1, <3>1 DEF Call
      <3> QED
        BY <3>2 DEF finished, answer
    <2>2. Shape(t) /\ StillValid(t)
      BY <1>1 DEF Call, Shape, StillValid, Retiring
    <2>3. \A d \in Clients \ {c} : Apart(t, tx[d])
      BY <1>1, FitsNow DEF Fits, Call, Apart
    <2> QED
      BY <1>3, <2>1, <2>2, <2>3, BecomeIInv DEF Fits, Finish
  <1> QED
    BY <1>2, <1>3 DEF Finish

\* A rollback drops everything the call had pending.
LEMMA AbandonIInv ==
    ASSUME IInv, NEW c \in Clients, Rollback(c) \/ ConnectionLost(c)
    PROVE  IInv'
  <1>1. Fits(c, Idle)
    BY IdleCall DEF Fits, Apart, Idle
  <1> QED
    BY <1>1, BecomeIInv DEF Rollback, ConnectionLost, EndCall

\* The clock touches no row.
LEMMA ExpireIInv ==
    ASSUME IInv, NEW m \in MemIds, Expire(m)
    PROVE  IInv'
  <1>0. /\ UNCHANGED <<mem, rev, current, dedup, idem, attested, jobs, madeBy, tx>>
        /\ expired' \subseteq MemIds
    BY DEF Expire, tables, IInv, TypeOK
  <1>1. TypeOK'
    BY <1>0 DEF IInv, TypeOK
  <1>2. CallShape' /\ Exclusive'
    BY <1>0 DEF IInv, CallShape, Exclusive
  <1>3. NoStaleWrite'
    BY <1>0 DEF IInv, NoStaleWrite, StillValid
  <1>4. RevisionsSound'
    BY <1>0 DEF IInv, RevisionsSound, Known
  <1>5. KeyOfFirstContent'
    <2>1. KeyOfFirstContent
      BY DEF IInv
    <2> QED
      BY <1>0, <2>1 DEF KeyOfFirstContent
  <1> QED
    BY <1>1, <1>2, <1>3, <1>4, <1>5 DEF IInv

\* The sweep touches only idempotency keys.
LEMMA PurgeExpiredIInv ==
    ASSUME IInv, NEW k \in Keys, PurgeExpired(k)
    PROVE  IInv'
  <1>0. UNCHANGED <<mem, rev, current, dedup, attested, jobs, expired, tx>>
    BY DEF PurgeExpired
  <1>1. TypeOK'
    <2>1. FreeKey \in KeyRow
      BY DEF FreeKey, KeyRow, NoPrint, Fingerprint, MemRefs, ContentRefs
    <2>2. idem' \in [Keys -> KeyRow]
      BY <2>1 DEF PurgeExpired, IInv, TypeOK
    <2>3. madeBy' \in [MemIds -> Keys \cup {NoKey}]
      BY DEF PurgeExpired, IInv, TypeOK
    <2> QED
      BY <1>0, <2>2, <2>3 DEF IInv, TypeOK
  <1>2. CallShape' /\ Exclusive'
    BY <1>0 DEF IInv, CallShape, Exclusive
  <1>3. NoStaleWrite'
    BY <1>0 DEF IInv, NoStaleWrite, StillValid
  <1>4. RevisionsSound'
    BY <1>0 DEF IInv, RevisionsSound, Known
  <1>5. KeyOfFirstContent'
    <2>1. KeyOfFirstContent
      BY DEF IInv
    <2> QED
      BY <1>0, <2>1 DEF KeyOfFirstContent
  <1> QED
    BY <1>1, <1>2, <1>3, <1>4, <1>5 DEF IInv

-----------------------------------------------------------------------------
(***************************************************************************)
(* The commits.                                                            *)
(***************************************************************************)

\* What every commit does to the calls and to the key table.
LEMMA EndCallShape ==
    ASSUME IInv, NEW c \in Clients, EndCall(c)
    PROVE  /\ tx' \in [Clients -> Call]
           /\ tx'[c] = Idle
           /\ \A d \in Clients \ {c} : tx'[d] = tx[d]
           /\ CallShape'
           /\ Exclusive'
  <1>1. /\ tx' \in [Clients -> Call]
        /\ tx'[c] = Idle
        /\ \A d \in Clients \ {c} : tx'[d] = tx[d]
    BY IdleCall DEF EndCall, Become, IInv, TypeOK
  <1>2. CallShape'
    BY <1>1, IdleCall DEF IInv, CallShape
  <1>3. Exclusive'
    <2> SUFFICES ASSUME NEW x \in Clients, NEW y \in Clients, x # y
                 PROVE  Apart(tx'[x], tx'[y])
      BY DEF Exclusive, Apart
    <2>1. \A d \in Clients : Apart(tx[d], Idle) /\ Apart(Idle, tx[d])
      BY DEF Apart, Idle
    <2> QED
      BY <1>1, <2>1 DEF IInv, Exclusive
  <1> QED
    BY <1>1, <1>2, <1>3

\* The key row a commit publishes fits its table.
LEMMA PublishKeyType ==
    ASSUME IInv, NEW c \in Clients, PublishKey(c)
    PROVE  idem' \in [Keys -> KeyRow]
  <1>1. tx[c] \in Call /\ idem \in [Keys -> KeyRow]
    BY DEF IInv, TypeOK
  <1>2. CASE tx[c].owns
    <2>0. Shape(tx[c])
      BY FitsNow DEF Fits
    <2>1. PrintOf(c) \in Fingerprint
      <3>1. tx[c].op \in {"remember", "revise"}
        BY <1>2, <2>0 DEF Shape
      <3> QED
        BY <1>1, <3>1 DEF PrintOf, Fingerprint, Call, MemRefs
    <2>2. KeyRowOf(c) \in KeyRow
      BY <1>1, <2>1 DEF KeyRowOf, KeyRow, Call, MemRefs
    <2> QED
      BY <1>1, <1>2, <2>2 DEF PublishKey
  <1>3. CASE ~tx[c].owns
    BY <1>1, <1>3 DEF PublishKey
  <1> QED
    BY <1>2, <1>3

\* What the invariant says of the committing call and of the others.
LEMMA CommitFacts ==
    ASSUME IInv, NEW c \in Clients
    PROVE  /\ tx[c] \in Call
           /\ Shape(tx[c])
           /\ StillValid(tx[c])
           /\ \A d \in Clients \ {c} : /\ tx[d] \in Call
                                       /\ Shape(tx[d])
                                       /\ StillValid(tx[d])
                                       /\ Apart(tx[c], tx[d])
  BY FitsNow DEF Fits

\* The commit of remember: the other calls' decisions survive the new row,
\* its dedup key and the retirements, because they hold other rows and keys.
LEMMA CommitRememberIInv ==
    ASSUME IInv, NEW c \in Clients, CommitRemember(c)
    PROVE  IInv'
  <1> DEFINE m == tx[c].mem
             S == tx[c].retired
             h == tx[c].content
  <1>1. /\ m \in MemIds /\ h \in Contents /\ S \subseteq MemIds /\ S \subseteq tx[c].locks
        /\ mem[m].status = "ABSENT" /\ dedup[h] = NoMem
        /\ \A x \in S : mem[x].status = "ACTIVE"
    BY CommitFacts DEF CommitRemember, Shape, StillValid, Retiring, Call
  <1>2. /\ tx' \in [Clients -> Call] /\ tx'[c] = Idle
        /\ \A d \in Clients \ {c} : tx'[d] = tx[d]
        /\ CallShape' /\ Exclusive'
    BY EndCallShape DEF CommitRemember
  <1>3. TypeOK
    BY DEF IInv
  <1>4. /\ mem' = RowsAfterAssert(mem, m, S)
        /\ rev' = WithRevision(rev, m, 1, h)
        /\ current' = [current EXCEPT ![m] = {1}]
        /\ dedup' = WithKey(Released(dedup, S), h, m)
    BY DEF CommitRemember
  <1>5. TypeOK'
    <2>1. mem' \in [MemIds -> MemoryRow]
      BY <1>1, <1>3, <1>4 DEF TypeOK, RowsAfterAssert, MemoryRow, MemoryStatus, FirstRow
    <2>2. rev' \in [MemIds -> [RevNos -> ContentRefs]]
      BY <1>1, <1>3, <1>4 DEF TypeOK, WithRevision, ContentRefs
    <2>3. current' \in [MemIds -> SUBSET RevNos]
      BY <1>1, <1>3, <1>4 DEF TypeOK, RevNos
    <2>4. dedup' \in [Contents -> MemRefs]
      BY <1>1, <1>3, <1>4 DEF TypeOK, WithKey, Released, MemRefs
    <2>5. idem' \in [Keys -> KeyRow]
      BY PublishKeyType DEF CommitRemember
    <2>6. /\ attested' \in [MemIds -> SUBSET Clients]
          /\ jobs' \subseteq MemIds \X RevNos
          /\ expired' \subseteq MemIds
          /\ madeBy' \in [MemIds -> Keys \cup {NoKey}]
      <3>1. tx[c].key \in Keys \cup {NoKey}
        BY CommitFacts DEF Call
      <3>2. 1 \in RevNos
        BY DEF RevNos
      <3>3. attested' \in [MemIds -> SUBSET Clients]
        BY <1>1, <1>3 DEF CommitRemember, Attest, TypeOK
      <3>4. jobs' \subseteq MemIds \X RevNos
        BY <1>1, <1>3, <3>2 DEF CommitRemember, Enqueue, TypeOK
      <3>5. madeBy' \in [MemIds -> Keys \cup {NoKey}]
        BY <1>1, <1>3, <3>1 DEF CommitRemember, TypeOK
      <3> QED
        BY <1>3, <3>3, <3>4, <3>5 DEF CommitRemember, TypeOK
    <2> QED
      BY <1>2, <2>1, <2>2, <2>3, <2>4, <2>5, <2>6 DEF TypeOK
  <1>6. NoStaleWrite'
    <2> SUFFICES ASSUME NEW d \in Clients PROVE StillValid(tx[d])'
      BY DEF NoStaleWrite
    <2>1. CASE d = c
      BY <1>2, <2>1 DEF StillValid, Retiring, Idle
    <2>2. CASE d # c
      <3>1. tx'[d] = tx[d] /\ Shape(tx[d]) /\ StillValid(tx[d]) /\ Apart(tx[c], tx[d])
            /\ tx[d] \in Call /\ tx[c].wrote = "create"
        BY <1>2, <2>2, CommitFacts DEF CommitRemember
      <3>2. \A x \in MemIds : x \notin S /\ x # m => mem'[x] = mem[x]
        BY <1>4 DEF RowsAfterAssert
      <3>3. \A x \in tx[d].locks : mem[x].status = "ACTIVE" => mem'[x] = mem[x]
        BY <1>1, <3>1, <3>2 DEF Apart, Call
      <3>4. tx[d].wrote = "create" => mem'[tx[d].mem].status = "ABSENT"
        BY <1>1, <3>1, <3>2 DEF Apart, Shape, StillValid
      <3>5. tx[d].wrote = "create" => dedup'[tx[d].content] = NoMem
        BY <1>1, <1>3, <1>4, <3>1 DEF TypeOK, Apart, Shape, StillValid, WithKey, Released
      <3>6. \A x \in Retiring(tx[d]) : x \in tx[d].locks
        BY <3>1 DEF Retiring, Shape
      <3> QED
        BY <3>1, <3>3, <3>4, <3>5, <3>6 DEF StillValid, Retiring, Shape
    <2> QED
      BY <2>1, <2>2
  <1>7. RevisionsSound'
    <2> SUFFICES ASSUME NEW x \in MemIds
                 PROVE  /\ current'[x] = IF mem'[x].status # "ABSENT" THEN {mem'[x].cur} ELSE {}
                        /\ \A n \in RevNos : rev'[x][n] # NoContent <=> n <= mem'[x].cur
                        /\ mem'[x].status # "ABSENT" <=> mem'[x].cur >= 1
      BY DEF RevisionsSound, Known
    <2>0. /\ current[x] = IF mem[x].status # "ABSENT" THEN {mem[x].cur} ELSE {}
          /\ \A n \in RevNos : rev[x][n] # NoContent <=> n <= mem[x].cur
          /\ mem[x].status # "ABSENT" <=> mem[x].cur >= 1
      BY DEF IInv, RevisionsSound, Known
    <2>1. CASE x = m
      <3>1. mem'[x] = FirstRow /\ current'[x] = {1}
        BY <1>1, <1>3, <1>4, <2>1 DEF TypeOK, RowsAfterAssert
      <3>2. mem[x].cur = 0
        <4>1. mem[x].cur \in 0 .. MaxRev
          BY <1>3 DEF TypeOK, MemoryRow
        <4>2. ~(mem[x].cur >= 1)
          BY <1>1, <2>0, <2>1
        <4> QED
          BY <4>1, <4>2
      <3>3. \A n \in RevNos : rev'[x][n] = IF n = 1 THEN h ELSE rev[x][n]
        BY <1>1, <1>3, <1>4, <2>1 DEF TypeOK, WithRevision
      <3>4. \A n \in RevNos : rev'[x][n] # NoContent <=> n <= 1
        BY <1>1, <2>0, <3>2, <3>3 DEF RevNos
      <3> QED
        BY <3>1, <3>4 DEF FirstRow
    <2>2. CASE x # m
      <3>1. current'[x] = current[x] /\ rev'[x] = rev[x] /\ mem'[x].cur = mem[x].cur
        BY <1>1, <1>3, <1>4, <2>2 DEF TypeOK, WithRevision, RowsAfterAssert
      <3>2. mem'[x].status = "ABSENT" <=> mem[x].status = "ABSENT"
        BY <1>1, <1>3, <1>4, <2>2 DEF TypeOK, RowsAfterAssert
      <3> QED
        BY <2>0, <3>1, <3>2
    <2> QED
      BY <2>1, <2>2
  <1>8. KeyOfFirstContent'
    <2> SUFFICES ASSUME NEW g \in Contents, NEW x \in MemIds
                 PROVE  dedup'[g] = x <=> mem'[x].status = "ACTIVE" /\ rev'[x][1] = g
      BY DEF KeyOfFirstContent
    <2>0. KeyOfFirstContent
      BY DEF IInv
    <2>1. /\ dedup[g] = x <=> mem[x].status = "ACTIVE" /\ rev[x][1] = g
          /\ dedup[h] = x <=> mem[x].status = "ACTIVE" /\ rev[x][1] = h
      BY <1>1, <2>0 DEF KeyOfFirstContent
    <2>2. dedup'[g] = IF g = h THEN m ELSE IF dedup[g] \in S THEN NoMem ELSE dedup[g]
      BY <1>1, <1>4 DEF WithKey, Released
    <2>3. rev'[x][1] = IF x = m THEN h ELSE rev[x][1]
      BY <1>1, <1>3, <1>4 DEF TypeOK, WithRevision, RevNos
    <2>4. mem'[x].status = IF x = m THEN "ACTIVE" ELSE IF x \in S THEN "SUPERSEDED"
                           ELSE mem[x].status
      BY <1>4 DEF RowsAfterAssert, FirstRow
    <2> QED
      BY <1>1, <2>1, <2>2, <2>3, <2>4 DEF NoMem
  <1> QED
    BY <1>2, <1>5, <1>6, <1>7, <1>8 DEF IInv

\* The commit of revise: the numbers stay without a gap and the other calls
\* hold other rows.
LEMMA CommitReviseIInv ==
    ASSUME IInv, NEW c \in Clients, CommitRevise(c)
    PROVE  IInv'
  <1> DEFINE m == tx[c].mem
             n == tx[c].expected
             h == tx[c].content
  <1>1. /\ m \in MemIds /\ h \in Contents /\ n \in 1 .. MaxRev - 1 /\ m \in tx[c].locks
        /\ mem[m].status = "ACTIVE" /\ mem[m].cur = n
    BY CommitFacts DEF CommitRevise, Shape, StillValid, Call
  <1>2. /\ tx' \in [Clients -> Call] /\ tx'[c] = Idle
        /\ \A d \in Clients \ {c} : tx'[d] = tx[d]
        /\ CallShape' /\ Exclusive'
    BY EndCallShape DEF CommitRevise
  <1>3. TypeOK
    BY DEF IInv
  <1>4. /\ mem' = RowsAfterRevise(mem, m)
        /\ rev' = WithRevision(rev, m, n + 1, h)
        /\ current' = CurrentAfterRevise(current, m, n)
        /\ dedup' = dedup
    BY DEF CommitRevise
  <1>5. n + 1 \in RevNos /\ n \in RevNos /\ n + 1 # 1
    BY <1>1 DEF RevNos
  <1>6. /\ mem'[m] = [mem[m] EXCEPT !.cur = n + 1]
        /\ \A x \in MemIds \ {m} : mem'[x] = mem[x]
        /\ \A x \in MemIds : mem'[x].status = mem[x].status
    BY <1>1, <1>3, <1>4 DEF TypeOK, RowsAfterRevise, MemoryRow
  <1>7. TypeOK'
    <2>1. mem' \in [MemIds -> MemoryRow]
      <3>1. mem'[m] \in MemoryRow
        <4>1. mem[m] \in MemoryRow
          BY <1>1, <1>3 DEF TypeOK
        <4>2. n + 1 \in 0 .. MaxRev
          BY <1>5 DEF RevNos
        <4> QED
          BY <1>6, <4>1, <4>2 DEF MemoryRow
      <3> QED
        BY <1>3, <1>4, <1>6, <3>1 DEF TypeOK, RowsAfterRevise
    <2>2. rev' \in [MemIds -> [RevNos -> ContentRefs]]
      BY <1>1, <1>3, <1>4, <1>5 DEF TypeOK, WithRevision, ContentRefs
    <2>3. current' \in [MemIds -> SUBSET RevNos]
      BY <1>1, <1>3, <1>4, <1>5 DEF TypeOK, CurrentAfterRevise
    <2>5. idem' \in [Keys -> KeyRow]
      BY PublishKeyType DEF CommitRevise
    <2>6. /\ dedup' \in [Contents -> MemRefs]
          /\ attested' \in [MemIds -> SUBSET Clients]
          /\ jobs' \subseteq MemIds \X RevNos
          /\ expired' \subseteq MemIds
          /\ madeBy' \in [MemIds -> Keys \cup {NoKey}]
      BY <1>1, <1>3, <1>5 DEF CommitRevise, Enqueue, TypeOK
    <2> QED
      BY <1>2, <2>1, <2>2, <2>3, <2>5, <2>6 DEF TypeOK
  <1>8. NoStaleWrite'
    <2> SUFFICES ASSUME NEW d \in Clients PROVE StillValid(tx[d])'
      BY DEF NoStaleWrite
    <2>1. CASE d = c
      BY <1>2, <2>1 DEF StillValid, Retiring, Idle
    <2>2. CASE d # c
      <3>1. tx'[d] = tx[d] /\ Shape(tx[d]) /\ StillValid(tx[d]) /\ Apart(tx[c], tx[d])
            /\ tx[d] \in Call
        BY <1>2, <2>2, CommitFacts
      <3>2. \A x \in tx[d].locks : mem'[x] = mem[x]
        BY <1>1, <1>6, <3>1 DEF Apart, Call
      <3>3. \A x \in Retiring(tx[d]) : x \in tx[d].locks
        BY <3>1 DEF Retiring, Shape
      <3> QED
        BY <1>4, <1>6, <3>1, <3>2, <3>3 DEF StillValid, Retiring, Shape
    <2> QED
      BY <2>1, <2>2
  <1>9. RevisionsSound'
    <2> SUFFICES ASSUME NEW x \in MemIds
                 PROVE  /\ current'[x] = IF mem'[x].status # "ABSENT" THEN {mem'[x].cur} ELSE {}
                        /\ \A i \in RevNos : rev'[x][i] # NoContent <=> i <= mem'[x].cur
                        /\ mem'[x].status # "ABSENT" <=> mem'[x].cur >= 1
      BY DEF RevisionsSound, Known
    <2>0. /\ current[x] = IF mem[x].status # "ABSENT" THEN {mem[x].cur} ELSE {}
          /\ \A i \in RevNos : rev[x][i] # NoContent <=> i <= mem[x].cur
          /\ mem[x].status # "ABSENT" <=> mem[x].cur >= 1
      BY DEF IInv, RevisionsSound, Known
    <2>1. CASE x = m
      <3>1. mem'[x].cur = n + 1 /\ mem'[x].status = "ACTIVE"
        BY <1>1, <1>3, <1>6, <2>1 DEF TypeOK, MemoryRow
      <3>2. current'[x] = {n + 1}
        BY <1>1, <1>3, <1>4, <2>0, <2>1 DEF TypeOK, CurrentAfterRevise
      <3>3. \A i \in RevNos : rev'[x][i] = IF i = n + 1 THEN h ELSE rev[x][i]
        BY <1>1, <1>3, <1>4, <1>5, <2>1 DEF TypeOK, WithRevision
      <3>4. \A i \in RevNos : rev'[x][i] # NoContent <=> i <= n + 1
        BY <1>1, <2>0, <2>1, <3>3 DEF RevNos
      <3> QED
        BY <1>1, <3>1, <3>2, <3>4
    <2>2. CASE x # m
      <3>1. current'[x] = current[x] /\ rev'[x] = rev[x] /\ mem'[x] = mem[x]
        BY <1>1, <1>3, <1>4, <1>6, <2>2 DEF TypeOK, WithRevision, CurrentAfterRevise
      <3> QED
        BY <2>0, <3>1
    <2> QED
      BY <2>1, <2>2
  <1>10. KeyOfFirstContent'
    <2> SUFFICES ASSUME NEW g \in Contents, NEW x \in MemIds
                 PROVE  dedup'[g] = x <=> mem'[x].status = "ACTIVE" /\ rev'[x][1] = g
      BY DEF KeyOfFirstContent
    <2>0. KeyOfFirstContent
      BY DEF IInv
    <2>1. dedup[g] = x <=> mem[x].status = "ACTIVE" /\ rev[x][1] = g
      BY <2>0 DEF KeyOfFirstContent
    <2>2. rev'[x][1] = rev[x][1]
      BY <1>1, <1>3, <1>4, <1>5 DEF TypeOK, WithRevision
    <2> QED
      BY <1>4, <1>6, <2>1, <2>2
  <1> QED
    BY <1>2, <1>7, <1>8, <1>9, <1>10 DEF IInv

\* The commit of forget: the tombstone and the released key meet no other
\* call's decision.
LEMMA CommitForgetIInv ==
    ASSUME IInv, NEW c \in Clients, CommitForget(c)
    PROVE  IInv'
  <1> DEFINE m == tx[c].mem
  <1>1. m \in MemIds /\ m \in tx[c].locks /\ mem[m].status = "ACTIVE"
    BY CommitFacts DEF CommitForget, Shape, StillValid, Retiring, Call
  <1>2. /\ tx' \in [Clients -> Call] /\ tx'[c] = Idle
        /\ \A d \in Clients \ {c} : tx'[d] = tx[d]
        /\ CallShape' /\ Exclusive'
    BY EndCallShape DEF CommitForget
  <1>3. TypeOK
    BY DEF IInv
  <1>4. /\ mem' = RowsAfterForget(mem, m)
        /\ dedup' = Released(dedup, {m})
        /\ UNCHANGED <<rev, current, idem, attested, jobs, madeBy, expired>>
    BY DEF CommitForget
  <1>6. /\ mem'[m] = [mem[m] EXCEPT !.status = "DELETED"]
        /\ \A x \in MemIds \ {m} : mem'[x] = mem[x]
        /\ \A x \in MemIds : mem'[x].cur = mem[x].cur
    BY <1>1, <1>3, <1>4 DEF TypeOK, RowsAfterForget, MemoryRow
  <1>7. TypeOK'
    <2>1. mem' \in [MemIds -> MemoryRow]
      <3>1. mem'[m] \in MemoryRow
        <4>1. mem[m] \in MemoryRow /\ "DELETED" \in MemoryStatus
          BY <1>1, <1>3 DEF TypeOK, MemoryStatus
        <4> QED
          BY <1>6, <4>1 DEF MemoryRow
      <3> QED
        BY <1>3, <1>4, <1>6, <3>1 DEF TypeOK, RowsAfterForget
    <2>2. dedup' \in [Contents -> MemRefs]
      BY <1>3, <1>4 DEF TypeOK, Released, MemRefs
    <2> QED
      BY <1>2, <1>3, <1>4, <2>1, <2>2 DEF TypeOK
  <1>8. NoStaleWrite'
    <2> SUFFICES ASSUME NEW d \in Clients PROVE StillValid(tx[d])'
      BY DEF NoStaleWrite
    <2>1. CASE d = c
      BY <1>2, <2>1 DEF StillValid, Retiring, Idle
    <2>2. CASE d # c
      <3>1. tx'[d] = tx[d] /\ Shape(tx[d]) /\ StillValid(tx[d]) /\ Apart(tx[c], tx[d])
            /\ tx[d] \in Call
        BY <1>2, <2>2, CommitFacts
      <3>2. \A x \in tx[d].locks : mem'[x] = mem[x]
        BY <1>1, <1>6, <3>1 DEF Apart, Call
      <3>3. \A x \in Retiring(tx[d]) : x \in tx[d].locks
        BY <3>1 DEF Retiring, Shape
      <3>4. tx[d].wrote = "create" => mem'[tx[d].mem].status = "ABSENT"
        BY <1>1, <1>6, <3>1 DEF Shape, StillValid
      <3>5. tx[d].wrote = "create" => dedup'[tx[d].content] = NoMem
        BY <1>4, <3>1 DEF Shape, StillValid, Released
      <3> QED
        BY <3>1, <3>2, <3>3, <3>4, <3>5 DEF StillValid, Retiring, Shape
    <2> QED
      BY <2>1, <2>2
  <1>9. RevisionsSound'
    <2> SUFFICES ASSUME NEW x \in MemIds
                 PROVE  /\ current'[x] = IF mem'[x].status # "ABSENT" THEN {mem'[x].cur} ELSE {}
                        /\ \A i \in RevNos : rev'[x][i] # NoContent <=> i <= mem'[x].cur
                        /\ mem'[x].status # "ABSENT" <=> mem'[x].cur >= 1
      BY DEF RevisionsSound, Known
    <2>0. /\ current[x] = IF mem[x].status # "ABSENT" THEN {mem[x].cur} ELSE {}
          /\ \A i \in RevNos : rev[x][i] # NoContent <=> i <= mem[x].cur
          /\ mem[x].status # "ABSENT" <=> mem[x].cur >= 1
      BY DEF IInv, RevisionsSound, Known
    <2>1. mem'[x].status = "ABSENT" <=> mem[x].status = "ABSENT"
      BY <1>1, <1>3, <1>6 DEF TypeOK, MemoryRow
    <2> QED
      BY <1>4, <1>6, <2>0, <2>1
  <1>10. KeyOfFirstContent'
    <2> SUFFICES ASSUME NEW g \in Contents, NEW x \in MemIds
                 PROVE  dedup'[g] = x <=> mem'[x].status = "ACTIVE" /\ rev'[x][1] = g
      BY DEF KeyOfFirstContent
    <2>0. KeyOfFirstContent
      BY DEF IInv
    <2>1. dedup[g] = x <=> mem[x].status = "ACTIVE" /\ rev[x][1] = g
      BY <2>0 DEF KeyOfFirstContent
    <2>2. dedup'[g] = IF dedup[g] = m THEN NoMem ELSE dedup[g]
      BY <1>4 DEF Released
    <2>3. mem'[x].status = IF x = m THEN "DELETED" ELSE mem[x].status
      BY <1>1, <1>3, <1>6 DEF TypeOK, MemoryRow
    <2> QED
      BY <1>1, <1>4, <2>1, <2>2, <2>3 DEF NoMem
  <1> QED
    BY <1>2, <1>7, <1>8, <1>9, <1>10 DEF IInv

\* The commits that write no memory.
LEMMA CommitOtherIInv ==
    ASSUME IInv, NEW c \in Clients, CommitDeduplicated(c) \/ CommitUnchanged(c)
    PROVE  IInv'
  <1>1. /\ tx' \in [Clients -> Call] /\ tx'[c] = Idle
        /\ \A d \in Clients \ {c} : tx'[d] = tx[d]
        /\ CallShape' /\ Exclusive'
    BY EndCallShape DEF CommitDeduplicated, CommitUnchanged
  <1>2. UNCHANGED <<mem, rev, current, dedup, jobs, madeBy, expired>>
    BY DEF CommitDeduplicated, CommitUnchanged
  <1>3. TypeOK'
    <2>1. idem' \in [Keys -> KeyRow]
      BY PublishKeyType DEF CommitDeduplicated, CommitUnchanged
    <2>2. attested' \in [MemIds -> SUBSET Clients]
      BY DEF CommitDeduplicated, CommitUnchanged, Attest, IInv, TypeOK
    <2> QED
      BY <1>1, <1>2, <2>1, <2>2 DEF IInv, TypeOK
  <1>4. NoStaleWrite'
    <2> SUFFICES ASSUME NEW d \in Clients PROVE StillValid(tx[d])'
      BY DEF NoStaleWrite
    <2>1. StillValid(tx'[d])
      BY <1>1, IdleCall DEF IInv, NoStaleWrite
    <2> QED
      BY <1>2, <2>1 DEF StillValid
  <1>5. RevisionsSound'
    BY <1>2 DEF IInv, RevisionsSound, Known
  <1>6. KeyOfFirstContent'
    <2>1. KeyOfFirstContent
      BY DEF IInv
    <2> QED
      BY <1>2, <2>1 DEF KeyOfFirstContent
  <1> QED
    BY <1>1, <1>3, <1>4, <1>5, <1>6 DEF IInv

-----------------------------------------------------------------------------
(***************************************************************************)
(* The invariant, and the theorems that follow from it.                    *)
(***************************************************************************)
\* The invariant is inductive.
LEMMA NextIInv == IInv /\ [Next]_vars => IInv'
  <1> SUFFICES ASSUME IInv, [Next]_vars PROVE IInv'
    OBVIOUS
  <1>1. CASE UNCHANGED vars
    <2>0. UNCHANGED <<mem, rev, current, dedup, idem, attested, jobs, expired, madeBy, tx>>
      BY <1>1 DEF vars
    <2>1. TypeOK'
      BY <2>0 DEF IInv, TypeOK
    <2>2. CallShape' /\ Exclusive'
      BY <2>0 DEF IInv, CallShape, Exclusive
    <2>3. NoStaleWrite'
      BY <2>0 DEF IInv, NoStaleWrite, StillValid
    <2>4. RevisionsSound'
      BY <2>0 DEF IInv, RevisionsSound, Known
    <2>5. KeyOfFirstContent'
      <3>1. KeyOfFirstContent
        BY DEF IInv
      <3> QED
        BY <2>0, <3>1 DEF KeyOfFirstContent
    <2> QED
      BY <2>1, <2>2, <2>3, <2>4, <2>5 DEF IInv
  <1>2. ASSUME NEW c \in Clients, Begin(c) \/ Serve(c) \/ ConnectionLost(c)
        PROVE  IInv'
    <2>1. CASE Begin(c)
      BY <2>1, BeginIInv
    <2>2. CASE ClaimKey(c) \/ WaitKey(c) \/ Replay(c)
      BY <2>2, ClaimKeyIInv, WaitKeyIInv, ReplayIInv
    <2>3. CASE InsertMemory(c) \/ ReadHolder(c) \/ Deduplicate(c) \/ Supersede(c)
      BY <2>3, InsertMemoryIInv, ReadHolderIInv, DeduplicateIInv, SupersedeIInv
    <2>4. CASE GetMemory(c) \/ CompareAndSet(c) \/ Reread(c)
      BY <2>4, GetMemoryIInv, CompareAndSetIInv, RereadIInv
    <2>5. CASE CheckExists(c) \/ ForgetMemory(c)
      BY <2>5, CheckExistsIInv, ForgetMemoryIInv
    <2>6. CASE Finish(c) \/ Rollback(c) \/ ConnectionLost(c)
      BY <2>6, FinishIInv, AbandonIInv
    <2>7. CASE Commit(c)
      BY <2>7, CommitRememberIInv, CommitReviseIInv, CommitForgetIInv, CommitOtherIInv
         DEF Commit
    <2> QED
      BY <1>2, <2>1, <2>2, <2>3, <2>4, <2>5, <2>6, <2>7 DEF Serve
  <1>3. ASSUME NEW m \in MemIds, Expire(m) PROVE IInv'
    BY <1>3, ExpireIInv
  <1>4. ASSUME NEW k \in Keys, PurgeExpired(k) PROVE IInv'
    BY <1>4, PurgeExpiredIInv
  <1> QED
    BY <1>1, <1>2, <1>3, <1>4 DEF Next

\* The inductive invariant holds in every reachable state of the write path.
THEOREM Invariance == Spec => []IInv
  BY InitIInv, NextIInv, PTL DEF Spec

\* The rows stay within their tables and every call stays one the services
\* can be in, whatever the interleaving, the failures and the instance.
THEOREM TypeCorrect == Spec => []TypeOK
  <1>1. IInv => TypeOK
    BY DEF IInv
  <1> QED
    BY <1>1, Invariance, PTL

\* What a statement of remember, revise or forget decided is still true when
\* its transaction commits: row locks and unique keys are enough at READ
\* COMMITTED.
THEOREM DecisionsHold == Spec => []NoStaleWrite
  <1>1. IInv => NoStaleWrite
    BY DEF IInv
  <1> QED
    BY <1>1, Invariance, PTL

\* compare_and_set() keeps exactly one current revision per memory, named by
\* its pointer, and revision numbers without a gap.
THEOREM OneCurrentRevision == Spec => []RevisionsSound
  <1>1. IInv => RevisionsSound
    BY DEF IInv
  <1> QED
    BY <1>1, Invariance, PTL

\* A retired memory keeps no dedup key, and two active memories say the same
\* only if one of them has been revised (services/memories.py, remember; the
\* keys say nothing of what revise() writes).
THEOREM DedupHolds == Spec => []DedupUntilRevised
  <1>1. IInv => DedupUntilRevised
    <2> SUFFICES ASSUME IInv PROVE DedupUntilRevised
      OBVIOUS
    <2>1. KeyOfFirstContent /\ RevisionsSound /\ TypeOK
      BY DEF IInv
    <2>2. \A h \in Contents : dedup[h] # NoMem => mem[dedup[h]].status = "ACTIVE"
      <3> SUFFICES ASSUME NEW h \in Contents, dedup[h] # NoMem PROVE mem[dedup[h]].status = "ACTIVE"
        OBVIOUS
      <3>1. dedup[h] \in MemIds
        BY <2>1 DEF TypeOK, MemRefs
      <3> QED
        BY <2>1, <3>1 DEF KeyOfFirstContent
    <2>3. ASSUME NEW m \in MemIds, NEW n \in MemIds, Twins(m, n), mem[m].cur <= 1, mem[n].cur <= 1
          PROVE  FALSE
      <3>1. mem[m].cur = 1 /\ mem[n].cur = 1
        BY <2>1, <2>3 DEF Twins, RevisionsSound, Known, TypeOK, MemoryRow
      <3>2. rev[m][1] = rev[n][1] /\ rev[m][1] \in Contents
        BY <2>1, <2>3, <3>1 DEF Twins, Says, RevisionsSound, TypeOK, ContentRefs, RevNos
      <3>3. PICK h \in Contents : rev[m][1] = h /\ rev[n][1] = h
        BY <3>2
      <3>4. mem[m].status = "ACTIVE" /\ mem[n].status = "ACTIVE" /\ m # n
        BY <2>3 DEF Twins
      <3>5. dedup[h] = m
        BY <2>1, <3>3, <3>4 DEF KeyOfFirstContent
      <3>6. dedup[h] = n
        BY <2>1, <3>3, <3>4 DEF KeyOfFirstContent
      <3> QED
        BY <3>4, <3>5, <3>6
    <2>4. \A m \in MemIds : mem[m].cur \in Nat
      BY <2>1 DEF TypeOK, MemoryRow
    <2> QED
      BY <2>2, <2>3, <2>4 DEF DedupUntilRevised
  <1> QED
    BY <1>1, Invariance, PTL

-----------------------------------------------------------------------------
(***************************************************************************)
(* The store implements the ledger.                                        *)
(***************************************************************************)

\* Every step that is not the commit of a write leaves the ledger alone.
LEMMA StepsThatWriteNothing ==
    ASSUME NEW c \in Clients,
           \/ Begin(c) \/ ConnectionLost(c) \/ Rollback(c)
           \/ ClaimKey(c) \/ WaitKey(c) \/ Replay(c)
           \/ InsertMemory(c) \/ ReadHolder(c) \/ Deduplicate(c) \/ Supersede(c)
           \/ GetMemory(c) \/ CompareAndSet(c) \/ Reread(c)
           \/ CheckExists(c) \/ ForgetMemory(c) \/ Finish(c)
           \/ CommitDeduplicated(c) \/ CommitUnchanged(c)
    PROVE  UNCHANGED <<mem, rev, current, dedup>>
  <1>1. CASE Begin(c)
    BY <1>1 DEF Begin, BeginRemember, BeginRevise, BeginForget, Open, tables
  <1>2. CASE ClaimKey(c) \/ WaitKey(c) \/ Replay(c) \/ InsertMemory(c) \/ ReadHolder(c)
    BY <1>2 DEF ClaimKey, WaitKey, Replay, InsertMemory, ReadHolder, tables
  <1>3. CASE Deduplicate(c) \/ Supersede(c) \/ GetMemory(c) \/ CompareAndSet(c) \/ Reread(c)
    BY <1>3 DEF Deduplicate, Supersede, GetMemory, CompareAndSet, Reread, tables
  <1>4. CASE CheckExists(c) \/ ForgetMemory(c) \/ Finish(c) \/ Rollback(c)
             \/ ConnectionLost(c)
    BY <1>4 DEF CheckExists, ForgetMemory, Finish, Rollback, ConnectionLost, tables
  <1>5. CASE CommitDeduplicated(c) \/ CommitUnchanged(c)
    BY <1>5 DEF CommitDeduplicated, CommitUnchanged
  <1> QED
    BY <1>1, <1>2, <1>3, <1>4, <1>5

\* The commit of a write is the ledger's write, with its guard.
LEMMA CommitIsLedgerStep ==
    ASSUME IInv, NEW c \in Clients,
           CommitRemember(c) \/ CommitRevise(c) \/ CommitForget(c)
    PROVE  Ledger!Next
  <1> DEFINE m == tx[c].mem
             h == tx[c].content
  <1>1. tx[c] \in Call /\ Shape(tx[c]) /\ StillValid(tx[c])
    BY CommitFacts
  <1>2. CASE CommitRemember(c)
    <2>1. m \in MemIds /\ h \in Contents /\ tx[c].retired \in SUBSET MemIds
      BY <1>1, <1>2 DEF CommitRemember, Shape, Call
    <2>2. /\ mem[m].status = "ABSENT" /\ dedup[h] = NoMem
          /\ \A x \in tx[c].retired : mem[x].status = "ACTIVE"
      BY <1>1, <1>2 DEF CommitRemember, StillValid, Retiring
    <2>3. Ledger!Assert(m, h, tx[c].retired)
      BY <1>2, <2>2 DEF CommitRemember, Ledger!Assert, RowsAfterAssert,
          Ledger!RowsAfterAssert, FirstRow, Ledger!FirstRow, WithRevision,
          Ledger!WithRevision, WithKey, Ledger!WithKey, Released, Ledger!Released,
          NoMem, Ledger!NoMem
    <2> QED
      BY <2>1, <2>3 DEF Ledger!Next
  <1>3. CASE CommitRevise(c)
    <2>1. m \in MemIds /\ h \in Contents /\ tx[c].expected \in 1 .. MaxRev - 1
      BY <1>1, <1>3 DEF CommitRevise, Shape, Call
    <2>2. mem[m].status = "ACTIVE" /\ mem[m].cur = tx[c].expected
      BY <1>1, <1>3 DEF CommitRevise, StillValid
    <2>3. Ledger!Revise(m, tx[c].expected, h)
      BY <1>3, <2>2 DEF CommitRevise, Ledger!Revise, RowsAfterRevise,
          Ledger!RowsAfterRevise, WithRevision, Ledger!WithRevision,
          CurrentAfterRevise, Ledger!CurrentAfterRevise
    <2> QED
      BY <2>1, <2>3 DEF Ledger!Next
  <1>4. CASE CommitForget(c)
    <2>1. m \in MemIds /\ mem[m].status = "ACTIVE"
      BY <1>1, <1>4 DEF CommitForget, Shape, StillValid, Retiring, Call
    <2>2. Ledger!Forget(m)
      BY <1>4, <2>1 DEF CommitForget, Ledger!Forget, RowsAfterForget,
          Ledger!RowsAfterForget, Released, Ledger!Released, NoMem, Ledger!NoMem
    <2> QED
      BY <2>1, <2>2 DEF Ledger!Next
  <1> QED
    BY <1>2, <1>3, <1>4

\* Every step of the store is a step of the ledger or none.
LEMMA StepIsLedgerStep == IInv /\ [Next]_vars => [Ledger!Next]_(Ledger!ledgerVars)
  <1> SUFFICES ASSUME IInv, [Next]_vars
               PROVE  Ledger!Next \/ UNCHANGED <<mem, rev, current, dedup>>
    BY DEF Ledger!ledgerVars
  <1>1. CASE UNCHANGED vars
    BY <1>1 DEF vars
  <1>2. ASSUME NEW c \in Clients, Begin(c) \/ Serve(c) \/ ConnectionLost(c)
        PROVE  Ledger!Next \/ UNCHANGED <<mem, rev, current, dedup>>
    <2>1. CASE CommitRemember(c) \/ CommitRevise(c) \/ CommitForget(c)
      BY <2>1, CommitIsLedgerStep
    <2>2. CASE ~(CommitRemember(c) \/ CommitRevise(c) \/ CommitForget(c))
      BY <1>2, <2>2, StepsThatWriteNothing DEF Serve, Commit
    <2> QED
      BY <2>1, <2>2
  <1>3. ASSUME NEW m \in MemIds, Expire(m) PROVE UNCHANGED <<mem, rev, current, dedup>>
    BY <1>3 DEF Expire, tables
  <1>4. ASSUME NEW k \in Keys, PurgeExpired(k) PROVE UNCHANGED <<mem, rev, current, dedup>>
    BY <1>4 DEF PurgeExpired
  <1> QED
    BY <1>1, <1>2, <1>3, <1>4 DEF Next

\* The store implements the ledger: every commit of a transaction of several
\* statements is one atomic write, decided against the state it changes.
THEOREM ImplementsLedger == Spec => LedgerSpec
  <1>1. Init => Ledger!Init
    BY DEF Init, Ledger!Init, NoRow, Ledger!NoRow, NoRevisions, Ledger!NoRevisions,
        RevNos, Ledger!RevNos, NoMem, Ledger!NoMem
  <1> QED
    BY <1>1, StepIsLedgerStep, Invariance, PTL DEF Spec, LedgerSpec, Ledger!Spec
=============================================================================
