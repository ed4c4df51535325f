------------------------- MODULE ToolFailuresProofs -------------------------
(***************************************************************************)
(* Proofs about ToolFailures: however the pool, the driver and the client  *)
(* fail, a request writes one memory and every answer is true.             *)
(*                                                                         *)
(* WrittenOnce and AnswersTrue are not inductive: that a COMMIT does not   *)
(* write a second memory depends on who may be running one.  With a key it *)
(* is the call that inserted the row, and the row says how many memories   *)
(* there are; without a key it is the only call there is, because an       *)
(* answer that makes the client ready again comes from a call that wrote   *)
(* nothing.  GoodRequest(c) says this of one client, and a step of client  *)
(* c can only disturb GoodRequest(c).                                      *)
(***************************************************************************)
EXTENDS ToolFailures, TLAPS

\* The transaction has claimed its key, if it has one, and has not ended.
Writing(c, i) == call[c][i].pc \in {"write", "commit"}

\* A key is held by the one call that writes under it and tells whether its
\* memory is there.
GoodKey(c) ==
    /\ written[c] = IF key[c] = "complete" THEN 1 ELSE 0
    /\ \A i \in Slots : Writing(c, i) => key[c] = "held"
    /\ \A i, k \in Slots : Writing(c, i) /\ Writing(c, k) => i = k

\* Without a key there is one call at a time, which claims nothing and accounts
\* for the memory; a client that may send has written nothing.
GoodUnkeyed(c) ==
    /\ \A i \in Slots : ~At(c, i, "claim")
    /\ client[c] = "ready" => written[c] = 0 /\ \A i \in Slots : At(c, i, "free")
    /\ \A i \in Slots : ~At(c, i, "free") => written[c] = IF call[c][i].landed THEN 1 ELSE 0
    /\ \A i, k \in Slots : ~At(c, i, "free") /\ ~At(c, k, "free") => i = k

\* A call that committed says so, or says that it does not know.
GoodAnswer(c, i) ==
    /\ call[c][i].landed => At(c, i, "answered") /\ call[c][i].answer \in {"ok", "UNKNOWN_OUTCOME"}
    /\ At(c, i, "answered") /\ call[c][i].answer = "ok" => written[c] = 1

GoodRequest(c) ==
    /\ written[c] \in {0, 1}
    /\ c \in Keyed => GoodKey(c)
    /\ c \notin Keyed => GoodUnkeyed(c)
    /\ \A i \in Slots : GoodAnswer(c, i)

\* The inductive invariant.
IInv == TypeOK /\ \A c \in Clients : GoodRequest(c)

-----------------------------------------------------------------------------
(***************************************************************************)
(* What a step does to the table of calls.                                 *)
(***************************************************************************)

\* Become replaces one call and leaves the table well typed.
LEMMA Becomes ==
    ASSUME TypeOK, NEW c \in Clients, NEW i \in Slots, NEW t \in Call, Become(c, i, t)
    PROVE  /\ call' \in [Clients -> [Slots -> Call]]
           /\ call'[c][i] = t
           /\ \A k \in Slots \ {i} : call'[c][k] = call[c][k]
           /\ \A d \in Clients \ {c} : call'[d] = call[d]
  BY DEF TypeOK, Become

\* The request of a client that a step does not touch stays good.
LEMMA UntouchedGood ==
    ASSUME NEW d \in Clients, GoodRequest(d),
           client'[d] = client[d], call'[d] = call[d], key'[d] = key[d], written'[d] = written[d]
    PROVE  GoodRequest(d)'
  BY DEF GoodRequest, GoodKey, GoodUnkeyed, GoodAnswer, Writing, At

\* A failed call is answered with a code that no commit has to back.
LEMMA Classified ==
    ASSUME NEW exc \in {PoolTimeoutError, ConnectionRefused, QueryCanceled, AdminShutdown,
                        ConnectionDied, DeadlockDetected}
    PROVE  Classify(exc) \in Answers \ {"none", "ok"}
  BY DEF Classify, Answers, Retryable, CONNECTION_LOST, Exception, PoolTimeoutError,
         ConnectionRefused, QueryCanceled, AdminShutdown, ConnectionDied, DeadlockDetected

\* A connection that dies under a statement leaves the outcome unknown.
LEMMA DiedIsUnknown == Classify(ConnectionDied) = "UNKNOWN_OUTCOME"
  BY DEF Classify, CONNECTION_LOST, Exception, ConnectionDied

\* The first states are good.
LEMMA InitIInv == Init => IInv
  BY KeyedAssumption, PoolAssumption, MaxFaultsAssumption
     DEF Init, IInv, TypeOK, GoodRequest, GoodKey, GoodUnkeyed, GoodAnswer, Writing, At, NoCall,
         Call, Answers

-----------------------------------------------------------------------------
(***************************************************************************)
(* One lemma for each thing a step can do.                                 *)
(***************************************************************************)

\* A step of client c has to be good for c alone.
LEMMA OneClient ==
    ASSUME IInv, NEW c \in Clients, TypeOK', GoodRequest(c)',
           \A d \in Clients \ {c} : /\ client'[d] = client[d] /\ call'[d] = call[d]
                                    /\ key'[d] = key[d] /\ written'[d] = written[d]
    PROVE  IInv'
  <1>1. \A d \in Clients \ {c} : GoodRequest(d)'
    BY UntouchedGood DEF IInv
  <1> QED
    BY <1>1 DEF IInv

\* A new connection, the statements of the write: the call goes on, and does
\* not start to write under a key.
LEMMA ProgressGood ==
    ASSUME IInv, NEW c \in Clients, NEW i \in Slots, Connect(c, i) \/ Write(c, i)
    PROVE  IInv'
  <1>1. /\ call[c][i] \in Call
        /\ call[c][i].pc \in {"connect", "write"}
        /\ UNCHANGED <<client, key, written, faults>>
    BY DEF IInv, TypeOK, Connect, Write, At
  <1>2. PICK q \in {"claim", "write", "commit"} :
            /\ Become(c, i, [call[c][i] EXCEPT !.pc = q])
            /\ q = "claim" => c \in Keyed
            /\ call[c][i].pc = "connect" /\ c \in Keyed => q = "claim"
    BY DEF Connect, Write, At
  <1>3. /\ [call[c][i] EXCEPT !.pc = q] \in Call
        /\ [call[c][i] EXCEPT !.pc = q].pc = q
        /\ [call[c][i] EXCEPT !.pc = q].landed = call[c][i].landed
    BY <1>1 DEF Call
  <1>4. /\ call' \in [Clients -> [Slots -> Call]]
        /\ call'[c][i].pc = q /\ call'[c][i].landed = call[c][i].landed
        /\ \A k \in Slots \ {i} : call'[c][k] = call[c][k]
        /\ \A d \in Clients \ {c} : call'[d] = call[d]
    BY <1>2, <1>3, Becomes DEF IInv
  <1>5. TypeOK'
    BY <1>1, <1>4 DEF IInv, TypeOK
  <1>6. GoodRequest(c)
    BY DEF IInv
  <1>7. \A k \in Slots : GoodAnswer(c, k)'
    BY <1>1, <1>4, <1>6 DEF GoodRequest, GoodAnswer, At
  <1>8. c \in Keyed => GoodKey(c)'
    BY <1>1, <1>2, <1>4, <1>6 DEF GoodRequest, GoodKey, Writing
  <1>9. c \notin Keyed => GoodUnkeyed(c)'
    BY <1>1, <1>2, <1>4, <1>6 DEF GoodRequest, GoodUnkeyed, At
  <1>10. GoodRequest(c)'
    BY <1>1, <1>6, <1>7, <1>8, <1>9 DEF GoodRequest
  <1> QED
    BY <1>1, <1>4, <1>5, <1>10, OneClient

\* The call failed and its transaction was rolled back: it wrote nothing.
LEMMA FailsGood ==
    ASSUME IInv, NEW c \in Clients, NEW i \in Slots,
           NEW exc \in {PoolTimeoutError, ConnectionRefused, QueryCanceled, AdminShutdown,
                        ConnectionDied, DeadlockDetected},
           call[c][i].pc \in {"connect", "claim", "write", "commit"},
           Fails(c, i, exc), faults' \in 0 .. MaxFaults
    PROVE  IInv'
  <1> DEFINE A == Classify(exc)
             t == [call[c][i] EXCEPT !.pc = "answered", !.answer = A]
  <1>1. A \in Answers \ {"none", "ok"}
    BY Classified
  <1> HIDE DEF A
  <1>2. call[c][i] \in Call /\ GoodRequest(c)
    BY DEF IInv, TypeOK
  <1>3. t \in Call /\ t.pc = "answered" /\ t.answer = A /\ t.landed = FALSE
    BY <1>1, <1>2 DEF Call, GoodRequest, GoodAnswer, At
  <1>4. Become(c, i, t) /\ key' = KeyAfterRollback(c, i) /\ UNCHANGED <<client, written>>
    BY DEF Fails, A
  <1> HIDE DEF t
  <1>5. /\ call' \in [Clients -> [Slots -> Call]]
        /\ call'[c][i] = t
        /\ \A k \in Slots \ {i} : call'[c][k] = call[c][k]
        /\ \A d \in Clients \ {c} : call'[d] = call[d]
    BY <1>3, <1>4, Becomes DEF IInv
  <1>6. /\ key' \in [Clients -> {"free", "held", "complete"}]
        /\ \A d \in Clients \ {c} : key'[d] = key[d]
        /\ key'[c] = key[c] \/ (key[c] = "held" /\ key'[c] = "free")
        /\ key'[c] # key[c] => c \in Keyed /\ Writing(c, i)
    BY <1>4 DEF IInv, TypeOK, KeyAfterRollback, Writing
  <1>7. TypeOK'
    BY <1>4, <1>5, <1>6 DEF IInv, TypeOK
  <1>8. \A k \in Slots : GoodAnswer(c, k)'
    BY <1>1, <1>2, <1>3, <1>4, <1>5 DEF GoodRequest, GoodAnswer, At
  <1>9. c \in Keyed => GoodKey(c)'
    BY <1>2, <1>3, <1>4, <1>5, <1>6 DEF GoodRequest, GoodKey, Writing
  <1>10. c \notin Keyed => GoodUnkeyed(c)'
    BY <1>2, <1>3, <1>4, <1>5 DEF GoodRequest, GoodUnkeyed, GoodAnswer, At
  <1>11. GoodRequest(c)'
    BY <1>2, <1>4, <1>8, <1>9, <1>10 DEF GoodRequest
  <1> QED
    BY <1>4, <1>5, <1>6, <1>7, <1>11, OneClient

\* The COMMIT took effect: it is this request's first memory, with a key
\* because the row still said held, without one because no other call ran.
LEMMA LandGood ==
    ASSUME IInv, NEW c \in Clients, NEW i \in Slots, NEW A \in {"ok", "UNKNOWN_OUTCOME"},
           At(c, i, "commit"), Land(c, i, A), faults' \in 0 .. MaxFaults
    PROVE  IInv'
  <1> DEFINE t == [call[c][i] EXCEPT !.pc = "answered", !.answer = A, !.landed = TRUE]
  <1>1. call[c][i] \in Call /\ GoodRequest(c)
    BY DEF IInv, TypeOK
  <1>2. t \in Call /\ t.pc = "answered" /\ t.answer = A /\ t.landed = TRUE
    BY <1>1 DEF Call, Answers
  <1>3. /\ Become(c, i, t) /\ UNCHANGED client
        /\ written' = [written EXCEPT ![c] = written[c] + 1]
        /\ key' = IF c \in Keyed THEN [key EXCEPT ![c] = "complete"] ELSE key
    BY DEF Land
  <1> HIDE DEF t
  <1>4. /\ call' \in [Clients -> [Slots -> Call]]
        /\ call'[c][i] = t
        /\ \A k \in Slots \ {i} : call'[c][k] = call[c][k]
        /\ \A d \in Clients \ {c} : call'[d] = call[d]
    BY <1>2, <1>3, Becomes DEF IInv
  <1>5. /\ key' \in [Clients -> {"free", "held", "complete"}]
        /\ \A d \in Clients \ {c} : key'[d] = key[d]
        /\ c \in Keyed => key'[c] = "complete"
    BY <1>3 DEF IInv, TypeOK
  <1>6. written[c] = 0
    <2>1. CASE c \in Keyed
      BY <1>1, <2>1 DEF GoodRequest, GoodKey, Writing, At
    <2>2. CASE c \notin Keyed
      BY <1>1, <2>2 DEF GoodRequest, GoodUnkeyed, GoodAnswer, At
    <2> QED
      BY <2>1, <2>2
  <1>7. /\ written' \in [Clients -> 0 .. 2]
        /\ written'[c] = 1
        /\ \A d \in Clients \ {c} : written'[d] = written[d]
    BY <1>3, <1>6 DEF IInv, TypeOK
  <1>8. TypeOK'
    BY <1>3, <1>4, <1>5, <1>7 DEF IInv, TypeOK
  <1>9. \A k \in Slots : GoodAnswer(c, k)'
    BY <1>1, <1>2, <1>4, <1>7 DEF GoodRequest, GoodAnswer, At
  <1>10. c \in Keyed => GoodKey(c)'
    BY <1>1, <1>2, <1>4, <1>5, <1>7 DEF GoodRequest, GoodKey, Writing, At
  <1>11. c \notin Keyed => GoodUnkeyed(c)'
    <2> SUFFICES ASSUME c \notin Keyed PROVE GoodUnkeyed(c)'
      OBVIOUS
    <2>1. client'[c] # "ready" /\ \A k \in Slots \ {i} : call'[c][k].pc = "free"
      BY <1>1, <1>3, <1>4 DEF GoodRequest, GoodUnkeyed, At
    <2> QED
      BY <1>2, <1>4, <1>7, <2>1 DEF GoodUnkeyed, At
  <1>12. GoodRequest(c)'
    BY <1>7, <1>9, <1>10, <1>11 DEF GoodRequest
  <1> QED
    BY <1>3, <1>4, <1>5, <1>7, <1>8, <1>12, OneClient

\* claim() makes the call the one that writes, or replays a memory that is there.
LEMMA ClaimGood ==
    ASSUME IInv, NEW c \in Clients, NEW i \in Slots, ClaimKey(c, i)
    PROVE  IInv'
  <1>1. /\ call[c][i] \in Call /\ GoodRequest(c) /\ key[c] # "held"
        /\ call[c][i].pc = "claim" /\ call[c][i].landed = FALSE /\ c \in Keyed
        /\ UNCHANGED <<client, written, faults>>
    BY DEF IInv, TypeOK, GoodRequest, GoodAnswer, GoodUnkeyed, ClaimKey, KeyBusy, At, Call
  <1>2. CASE key[c] = "complete"
    <2> DEFINE t == [call[c][i] EXCEPT !.pc = "answered", !.answer = "ok"]
    <2>1. t \in Call /\ t.pc = "answered" /\ t.answer = "ok" /\ t.landed = FALSE
      BY <1>1 DEF Call, Answers
    <2>2. Become(c, i, t) /\ UNCHANGED key
      BY <1>2 DEF ClaimKey
    <2> HIDE DEF t
    <2>3. /\ call' \in [Clients -> [Slots -> Call]]
          /\ call'[c][i] = t
          /\ \A k \in Slots \ {i} : call'[c][k] = call[c][k]
          /\ \A d \in Clients \ {c} : call'[d] = call[d]
      BY <2>1, <2>2, Becomes DEF IInv
    <2>4. TypeOK'
      BY <1>1, <2>2, <2>3 DEF IInv, TypeOK
    <2>5. GoodKey(c)'
      BY <1>1, <2>1, <2>2, <2>3 DEF GoodRequest, GoodKey, Writing
    <2>6. \A k \in Slots : GoodAnswer(c, k)'
      BY <1>1, <1>2, <2>1, <2>3 DEF GoodRequest, GoodAnswer, GoodKey, At
    <2>7. GoodRequest(c)'
      BY <1>1, <2>5, <2>6 DEF GoodRequest
    <2> QED
      BY <1>1, <2>2, <2>3, <2>4, <2>7, OneClient
  <1>3. CASE key[c] # "complete"
    <2> DEFINE t == [call[c][i] EXCEPT !.pc = "write"]
    <2>1. t \in Call /\ t.pc = "write" /\ t.landed = FALSE
      BY <1>1 DEF Call
    <2>2. Become(c, i, t) /\ key' = [key EXCEPT ![c] = "held"]
      BY <1>3 DEF ClaimKey
    <2> HIDE DEF t
    <2>3. /\ call' \in [Clients -> [Slots -> Call]]
          /\ call'[c][i] = t
          /\ \A k \in Slots \ {i} : call'[c][k] = call[c][k]
          /\ \A d \in Clients \ {c} : call'[d] = call[d]
      BY <2>1, <2>2, Becomes DEF IInv
    <2>4. /\ key' \in [Clients -> {"free", "held", "complete"}]
          /\ key'[c] = "held"
          /\ \A d \in Clients \ {c} : key'[d] = key[d]
      BY <2>2 DEF IInv, TypeOK
    <2>5. TypeOK'
      BY <1>1, <2>3, <2>4 DEF IInv, TypeOK
    <2>6. GoodKey(c)'
      BY <1>1, <1>3, <2>1, <2>3, <2>4 DEF GoodRequest, GoodKey, Writing
    <2>7. \A k \in Slots : GoodAnswer(c, k)'
      BY <1>1, <2>1, <2>3 DEF GoodRequest, GoodAnswer, At
    <2>8. GoodRequest(c)'
      BY <1>1, <2>6, <2>7 DEF GoodRequest
    <2> QED
      BY <1>1, <2>3, <2>4, <2>5, <2>8, OneClient
  <1> QED
    BY <1>2, <1>3

\* A client that is ready opens a call.
LEMMA SendGood ==
    ASSUME IInv, NEW c \in Clients, Send(c)
    PROVE  IInv'
  <1> DEFINE t == [NoCall EXCEPT !.pc = "connect", !.heard = TRUE]
  <1>1. t \in Call /\ t.pc = "connect" /\ t.landed = FALSE
    BY DEF Call, NoCall, Answers
  <1>2. PICK i \in Slots : call[c][i].pc = "free" /\ Become(c, i, t)
    BY DEF Send, At
  <1> HIDE DEF t
  <1>3. /\ client[c] = "ready"
        /\ client' = [client EXCEPT ![c] = "waiting"]
        /\ UNCHANGED <<key, written, faults>>
    BY DEF Send
  <1>4. /\ call' \in [Clients -> [Slots -> Call]]
        /\ call'[c][i] = t
        /\ \A k \in Slots \ {i} : call'[c][k] = call[c][k]
        /\ \A d \in Clients \ {c} : call'[d] = call[d]
    BY <1>1, <1>2, Becomes DEF IInv
  <1>5. /\ client' \in [Clients -> {"ready", "waiting", "done", "failed", "unsure"}]
        /\ client'[c] = "waiting"
        /\ \A d \in Clients \ {c} : client'[d] = client[d]
    BY <1>3 DEF IInv, TypeOK
  <1>6. TypeOK'
    BY <1>3, <1>4, <1>5 DEF IInv, TypeOK
  <1>7. GoodRequest(c)
    BY DEF IInv
  <1>8. \A k \in Slots : GoodAnswer(c, k)'
    BY <1>1, <1>3, <1>4, <1>7 DEF GoodRequest, GoodAnswer, At
  <1>9. c \in Keyed => GoodKey(c)'
    BY <1>1, <1>3, <1>4, <1>7 DEF GoodRequest, GoodKey, Writing
  <1>10. c \notin Keyed => GoodUnkeyed(c)'
    BY <1>1, <1>3, <1>4, <1>5, <1>7 DEF GoodRequest, GoodUnkeyed, At
  <1>11. GoodRequest(c)'
    BY <1>3, <1>7, <1>8, <1>9, <1>10 DEF GoodRequest
  <1> QED
    BY <1>3, <1>4, <1>5, <1>6, <1>11, OneClient

\* Only a call that wrote nothing invites a client without a key to send again.
LEMMA Reacts ==
    ASSUME NEW c, NEW A \in Answers
    PROVE  /\ Reaction(c, A) \in {"ready", "waiting", "done", "failed", "unsure"}
           /\ Reaction(c, A) = "ready" /\ c \notin Keyed => A \in Retryable
  BY DEF Reaction, Answers, Retryable

\* An answer is taken, by the client or by nobody: its slot is free again.
LEMMA ReleaseGood ==
    ASSUME IInv, NEW c \in Clients, NEW i \in Slots, Receive(c, i) \/ Discard(c, i)
    PROVE  IInv'
  <1> DEFINE A == call[c][i].answer
  <1>1. call[c][i] \in Call /\ GoodRequest(c) /\ A \in Answers
    BY DEF IInv, TypeOK, Call
  <1>2. /\ call[c][i].pc = "answered" /\ Become(c, i, NoCall)
        /\ UNCHANGED <<key, written, faults>>
    BY DEF Receive, Discard, At
  <1>3. NoCall \in Call /\ NoCall.pc = "free" /\ NoCall.landed = FALSE
    BY DEF Call, NoCall, Answers
  <1>4. /\ call' \in [Clients -> [Slots -> Call]]
        /\ call'[c][i] = NoCall
        /\ \A k \in Slots \ {i} : call'[c][k] = call[c][k]
        /\ \A d \in Clients \ {c} : call'[d] = call[d]
    BY <1>2, <1>3, Becomes DEF IInv
  <1>5. /\ client' \in [Clients -> {"ready", "waiting", "done", "failed", "unsure"}]
        /\ \A d \in Clients \ {c} : client'[d] = client[d]
        /\ client'[c] = client[c] \/ client'[c] = Reaction(c, A)
    BY <1>1, Reacts DEF IInv, TypeOK, Receive, Discard
  <1>6. TypeOK'
    BY <1>2, <1>4, <1>5 DEF IInv, TypeOK
  <1>7. \A k \in Slots : GoodAnswer(c, k)'
    BY <1>1, <1>2, <1>3, <1>4 DEF GoodRequest, GoodAnswer, At
  <1>8. c \in Keyed => GoodKey(c)'
    BY <1>1, <1>2, <1>3, <1>4 DEF GoodRequest, GoodKey, Writing
  <1>9. c \notin Keyed => GoodUnkeyed(c)'
    <2> SUFFICES ASSUME c \notin Keyed PROVE GoodUnkeyed(c)'
      OBVIOUS
    <2>1. \A k \in Slots : call'[c][k].pc = "free"
      BY <1>1, <1>2, <1>3, <1>4 DEF GoodRequest, GoodUnkeyed, At
    <2>2. client'[c] = "ready" => written[c] = 0
      <3> SUFFICES ASSUME client'[c] = "ready" PROVE written[c] = 0
        OBVIOUS
      <3>1. client[c] # "ready"
        BY <1>1, <1>2 DEF GoodRequest, GoodUnkeyed, At
      <3>2. A \in Retryable
        BY <1>1, <1>5, <3>1, Reacts
      <3>3. ~call[c][i].landed
        BY <1>1, <3>2 DEF GoodRequest, GoodAnswer, Retryable
      <3> QED
        BY <1>1, <1>2, <3>3 DEF GoodRequest, GoodUnkeyed, At
    <2> QED
      BY <1>2, <2>1, <2>2 DEF GoodUnkeyed, At
  <1>10. GoodRequest(c)'
    BY <1>1, <1>2, <1>7, <1>8, <1>9 DEF GoodRequest
  <1> QED
    BY <1>2, <1>4, <1>5, <1>6, <1>10, OneClient

\* A client that stops waiting sends again only with a key.
LEMMA StopWaitingGood ==
    ASSUME IInv, NEW c \in Clients, NEW i \in Slots, StopWaiting(c, i)
    PROVE  IInv'
  <1> DEFINE t == [call[c][i] EXCEPT !.heard = FALSE]
  <1>1. call[c][i] \in Call /\ GoodRequest(c) /\ call[c][i].pc # "free"
    BY DEF IInv, TypeOK, StopWaiting, At
  <1>2. /\ t \in Call /\ t.pc = call[c][i].pc
        /\ t.landed = call[c][i].landed /\ t.answer = call[c][i].answer
    BY <1>1 DEF Call
  <1>3. /\ Become(c, i, t) /\ UNCHANGED <<key, written>> /\ faults' \in 0 .. MaxFaults
        /\ client' = [client EXCEPT ![c] = Reaction(c, "none")]
    BY MaxFaultsAssumption DEF StopWaiting, Fault, IInv, TypeOK
  <1> HIDE DEF t
  <1>4. /\ call' \in [Clients -> [Slots -> Call]]
        /\ call'[c][i] = t
        /\ \A k \in Slots \ {i} : call'[c][k] = call[c][k]
        /\ \A d \in Clients \ {c} : call'[d] = call[d]
    BY <1>2, <1>3, Becomes DEF IInv
  <1>5. /\ client' \in [Clients -> {"ready", "waiting", "done", "failed", "unsure"}]
        /\ \A d \in Clients \ {c} : client'[d] = client[d]
        /\ c \notin Keyed => client'[c] # "ready"
    <2>1. "none" \in Answers /\ "none" \notin Retryable
      BY DEF Answers, Retryable
    <2> QED
      BY <1>3, <2>1, Reacts DEF IInv, TypeOK
  <1>6. TypeOK'
    BY <1>3, <1>4, <1>5 DEF IInv, TypeOK
  <1>7. \A k \in Slots : GoodAnswer(c, k)'
    BY <1>1, <1>2, <1>3, <1>4 DEF GoodRequest, GoodAnswer, At
  <1>8. c \in Keyed => GoodKey(c)'
    BY <1>1, <1>2, <1>3, <1>4 DEF GoodRequest, GoodKey, Writing
  <1>9. c \notin Keyed => GoodUnkeyed(c)'
    <2>1. \A k \in Slots : /\ call'[c][k].pc = call[c][k].pc
                           /\ call'[c][k].landed = call[c][k].landed
      BY <1>2, <1>4
    <2> QED
      BY <1>1, <1>3, <1>5, <2>1 DEF GoodRequest, GoodUnkeyed, At
  <1>10. GoodRequest(c)'
    BY <1>1, <1>3, <1>7, <1>8, <1>9 DEF GoodRequest
  <1> QED
    BY <1>3, <1>4, <1>5, <1>6, <1>10, OneClient

\* Every step keeps the invariant.
LEMMA NextIInv == IInv /\ [Next]_vars => IInv'
  <1> SUFFICES ASSUME IInv, [Next]_vars PROVE IInv'
    OBVIOUS
  <1>1. ASSUME NEW c \in Clients, Send(c) PROVE IInv'
    BY <1>1, SendGood
  <1>2. ASSUME NEW c \in Clients, NEW i \in Slots, Connect(c, i) \/ Write(c, i) PROVE IInv'
    BY <1>2, ProgressGood
  <1>3. ASSUME NEW c \in Clients, NEW i \in Slots, ClaimKey(c, i) PROVE IInv'
    BY <1>3, ClaimGood
  <1>4. ASSUME NEW c \in Clients, NEW i \in Slots, Receive(c, i) \/ Discard(c, i) PROVE IInv'
    BY <1>4, ReleaseGood
  <1>5. ASSUME NEW c \in Clients, NEW i \in Slots, StopWaiting(c, i) PROVE IInv'
    BY <1>5, StopWaitingGood
  <1>6. faults \in 0 .. MaxFaults /\ (Fault => faults' \in 0 .. MaxFaults)
    BY MaxFaultsAssumption DEF IInv, TypeOK, Fault
  <1>7. ASSUME NEW c \in Clients, NEW i \in Slots,
               PoolTimesOut(c, i) \/ Refused(c, i) \/ StatementFails(c, i)
        PROVE  IInv'
    BY <1>6, <1>7, FailsGood DEF PoolTimesOut, Refused, StatementFails, At
  <1>8. ASSUME NEW c \in Clients, NEW i \in Slots, Commit(c, i) PROVE IInv'
    BY <1>6, <1>8, LandGood DEF Commit
  <1>9. ASSUME NEW c \in Clients, NEW i \in Slots, CommitLost(c, i) PROVE IInv'
    <2>1. CASE Fails(c, i, ConnectionDied)
      BY <1>6, <1>9, <2>1, FailsGood DEF CommitLost, At
    <2>2. CASE Land(c, i, Classify(ConnectionDied))
      BY <1>6, <1>9, <2>2, LandGood, DiedIsUnknown DEF CommitLost
    <2> QED
      BY <1>9, <2>1, <2>2 DEF CommitLost
  <1>10. CASE UNCHANGED vars
    BY <1>10 DEF vars, IInv, TypeOK, GoodRequest, GoodKey, GoodUnkeyed, GoodAnswer, Writing, At
  <1> QED
    BY <1>1, <1>2, <1>3, <1>4, <1>5, <1>7, <1>8, <1>9, <1>10 DEF Next, Serve, Break

-----------------------------------------------------------------------------
(***************************************************************************)
(* The theorems.                                                           *)
(***************************************************************************)

\* The inductive invariant holds throughout every behaviour.
LEMMA Invariance == Spec => []IInv
  BY InitIInv, NextIInv, PTL DEF Spec

\* The variables keep their types: no request counts more than two memories,
\* no behaviour more than MaxFaults failures.
THEOREM TypeCorrect == Spec => []TypeOK
  BY Invariance, PTL DEF IInv

\* However often a request is resent on the advice of the error codes, it
\* writes at most one memory (domain/errors.py, mcp/mapping.py), for every
\* number of clients, open calls, connections and failures.
THEOREM OneMemoryPerRequest == Spec => []WrittenOnce
  <1>1. IInv => WrittenOnce
    BY DEF IInv, GoodRequest, WrittenOnce
  <1> QED
    BY <1>1, Invariance, PTL

\* Every answer tells the truth about its call: ok means the memory is there,
\* every code but UNKNOWN_OUTCOME that the call wrote nothing (mcp/mapping.py).
THEOREM AnswersAreTrue == Spec => []AnswersTrue
  <1>1. IInv => AnswersTrue
    BY DEF IInv, GoodRequest, GoodAnswer, AnswersTrue
  <1> QED
    BY <1>1, Invariance, PTL
=============================================================================
