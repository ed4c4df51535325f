---------------------------- MODULE ToolFailures ----------------------------
(***************************************************************************)
(* A writing tool call from the client's side: the connection pool, the    *)
(* one transaction of session_scope(), the driver failures that            *)
(* mcp/mapping.py turns into error codes, and a client that acts on those  *)
(* codes the way their messages tell it to: it resends after a code that   *)
(* says nothing was written, and resends after an unknown outcome only if  *)
(* its request carries an idempotency key.                                 *)
(*                                                                         *)
(* Each client makes one request.  A client that stops waiting may resend  *)
(* while its earlier call still runs on the server, so a request has       *)
(* several calls, one per slot.  How many failures a behaviour has is      *)
(* bounded; where they strike is not.                                      *)
(***************************************************************************)
EXTENDS Naturals, FiniteSets

CONSTANTS
    Clients,     \* clients, each with one request
    Keyed,       \* those that send a client_request_id
    Slots,       \* calls of one request that may be open at a time
    PoolSize,    \* db_pool_size + db_max_overflow
    MaxFaults    \* bound: failures in a behaviour

ASSUME KeyedAssumption == Keyed \subseteq Clients
ASSUME PoolAssumption == PoolSize \in Nat \ {0}
ASSUME MaxFaultsAssumption == MaxFaults \in Nat

VARIABLES
    client,    \* what each client is doing
    call,      \* call[c][i]: the call of client c in slot i
    key,       \* idempotency_keys: the row of each client's request
    written,   \* memories committed for each request
    faults     \* failures so far

vars == <<client, call, key, written, faults>>

-----------------------------------------------------------------------------
(***************************************************************************)
(* Errors.                                                                 *)
(***************************************************************************)
\* What the driver raises: class, SQLSTATE and connection_invalidated.
Exception(class, sqlstate, invalidated) ==
    [class |-> class, sqlstate |-> sqlstate, invalidated |-> invalidated]

PoolTimeoutError == Exception("PoolTimeoutError", "", FALSE)
ConnectionRefused == Exception("ConnectionError", "", FALSE)
QueryCanceled == Exception("DBAPIError", "57014", FALSE)
AdminShutdown == Exception("DBAPIError", "57P01", FALSE)
ConnectionDied == Exception("DBAPIError", "08006", TRUE)
DeadlockDetected == Exception("DBAPIError", "40P01", FALSE)

CONNECTION_LOST == {"08006", "08003", "08000", "57P01"}

\* Mutant of Classify: any lost connection is an unreachable database.
ClassifyLostAsUnavailable(exc) ==
    CASE exc.class = "PoolTimeoutError" -> "BACKEND_BUSY"
      [] exc.class = "ConnectionError" -> "BACKEND_UNAVAILABLE"
      [] exc.sqlstate = "57014" -> "DEADLINE_EXCEEDED"
      [] exc.sqlstate \in CONNECTION_LOST -> "BACKEND_UNAVAILABLE"
      [] OTHER -> "INTERNAL"

\* Mutant of Classify: an unrecognised failure is answered with the classifier's None.
ClassifyOrNone(exc) ==
    CASE exc.class = "PoolTimeoutError" -> "BACKEND_BUSY"
      [] exc.class = "ConnectionError" -> "BACKEND_UNAVAILABLE"
      [] exc.sqlstate = "57014" -> "DEADLINE_EXCEEDED"
      [] exc.invalidated -> "UNKNOWN_OUTCOME"
      [] exc.sqlstate = "57P01" -> "BACKEND_UNAVAILABLE"
      [] OTHER -> "None"

\* classify_infrastructure_error(); INTERNAL is what it leaves to propagate.
Classify(exc) ==
    CASE exc.class = "PoolTimeoutError" -> "BACKEND_BUSY"
      [] exc.class = "ConnectionError" -> "BACKEND_UNAVAILABLE"
      [] exc.class = "DBAPIError" /\ exc.sqlstate = "57014" -> "DEADLINE_EXCEEDED"
      [] exc.class = "DBAPIError" /\ exc.invalidated -> "UNKNOWN_OUTCOME"
      [] exc.class = "DBAPIError" /\ ~exc.invalidated /\ exc.sqlstate \in CONNECTION_LOST ->
            "BACKEND_UNAVAILABLE"
      [] OTHER -> "INTERNAL"

\* The codes raised with retryable=True.
Retryable == {"BACKEND_BUSY", "BACKEND_UNAVAILABLE"}

Answers == {"none", "ok", "INTERNAL", "DEADLINE_EXCEEDED", "UNKNOWN_OUTCOME"} \cup Retryable

-----------------------------------------------------------------------------
Call == [pc     : {"free", "connect", "claim", "write", "commit", "answered"},
         heard  : BOOLEAN,         \* the client still waits for the answer
         landed : BOOLEAN,         \* this call's transaction committed a memory
         answer : Answers]

NoCall == [pc |-> "free", heard |-> FALSE, landed |-> FALSE, answer |-> "none"]

TypeOK ==
    /\ client \in [Clients -> {"ready", "waiting", "done", "failed", "unsure"}]
    /\ call \in [Clients -> [Slots -> Call]]
    /\ key \in [Clients -> {"free", "held", "complete"}]
    /\ written \in [Clients -> 0 .. 2]
    /\ faults \in 0 .. MaxFaults

Init ==
    /\ client = [c \in Clients |-> "ready"]
    /\ call = [c \in Clients |-> [i \in Slots |-> NoCall]]
    /\ key = [c \in Clients |-> "free"]
    /\ written = [c \in Clients |-> 0]
    /\ faults = 0

At(c, i, label) == call[c][i].pc = label
Become(c, i, t) == call' = [call EXCEPT ![c][i] = t]

\* Connections handed out by the pool.
InUse == {u \in Clients \X Slots : call[u[1]][u[2]].pc \in {"claim", "write", "commit"}}

Fault == faults < MaxFaults /\ faults' = faults + 1

\* Mutant of KeyAfterRollback: the key was claimed in a transaction of its own.
KeyLeftBehind(c, i) == key

\* A call between its claim and its commit holds the key: it inserted the row.
KeyAfterRollback(c, i) ==
    IF c \in Keyed /\ call[c][i].pc \in {"write", "commit"} /\ key[c] = "held"
    THEN [key EXCEPT ![c] = "free"] ELSE key

\* session_scope() rolls back, domain_errors() answers.
Fails(c, i, exc) ==
    /\ Become(c, i, [call[c][i] EXCEPT !.pc = "answered", !.answer = Classify(exc)])
    /\ key' = KeyAfterRollback(c, i)
    /\ UNCHANGED <<client, written>>

-----------------------------------------------------------------------------
(***************************************************************************)
(* The server's side of a call.                                            *)
(***************************************************************************)
Connect(c, i) ==
    /\ At(c, i, "connect")
    /\ Cardinality(InUse) < PoolSize
    /\ Become(c, i, [call[c][i] EXCEPT !.pc = IF c \in Keyed THEN "claim" ELSE "write"])
    /\ UNCHANGED <<client, key, written, faults>>

\* pool_timeout passes with every connection in use.
PoolTimesOut(c, i) ==
    /\ At(c, i, "connect")
    /\ Cardinality(InUse) = PoolSize
    /\ Fails(c, i, PoolTimeoutError)
    /\ UNCHANGED faults

\* There is no server to connect to.
Refused(c, i) ==
    /\ At(c, i, "connect")
    /\ Fault
    /\ Fails(c, i, ConnectionRefused)

\* Mutant of KeyBusy: the claim does not wait for another transaction's.
KeyNeverBusy(c) == FALSE

\* Another transaction has inserted the key and not committed.
KeyBusy(c) == key[c] = "held"

\* idempotency.claim(): ours, or the response of a call that committed.
ClaimKey(c, i) ==
    /\ At(c, i, "claim")
    /\ ~KeyBusy(c)
    /\ \/ /\ key[c] # "complete"
          /\ key' = [key EXCEPT ![c] = "held"]
          /\ Become(c, i, [call[c][i] EXCEPT !.pc = "write"])
       \/ /\ key[c] = "complete"
          /\ Become(c, i, [call[c][i] EXCEPT !.pc = "answered", !.answer = "ok"])
          /\ UNCHANGED key
    /\ UNCHANGED <<client, written, faults>>

\* The statements of the write, complete() included.
Write(c, i) ==
    /\ At(c, i, "write")
    /\ Become(c, i, [call[c][i] EXCEPT !.pc = "commit"])
    /\ UNCHANGED <<client, key, written, faults>>

\* A statement is cancelled, loses a deadlock, or loses its connection, with or
\* without the server saying so first.
StatementFails(c, i) ==
    /\ call[c][i].pc \in {"claim", "write"}
    /\ Fault
    /\ \E exc \in {QueryCanceled, AdminShutdown, ConnectionDied, DeadlockDetected} : Fails(c, i, exc)

\* What COMMIT leaves behind.
Land(c, i, answer) ==
    /\ Become(c, i, [call[c][i] EXCEPT !.pc = "answered", !.answer = answer, !.landed = TRUE])
    /\ written' = [written EXCEPT ![c] = @ + 1]
    /\ key' = IF c \in Keyed THEN [key EXCEPT ![c] = "complete"] ELSE key
    /\ UNCHANGED client

Commit(c, i) ==
    /\ At(c, i, "commit")
    /\ Land(c, i, "ok")
    /\ UNCHANGED faults

\* The connection dies during COMMIT: before it took effect, or after it.
CommitLost(c, i) ==
    /\ At(c, i, "commit")
    /\ Fault
    /\ \/ Fails(c, i, ConnectionDied)
       \/ Land(c, i, Classify(ConnectionDied))

-----------------------------------------------------------------------------
(***************************************************************************)
(* The client's side.                                                      *)
(***************************************************************************)
Send(c) ==
    /\ client[c] = "ready"
    /\ \E i \in Slots :
        /\ At(c, i, "free")
        /\ Become(c, i, [NoCall EXCEPT !.pc = "connect", !.heard = TRUE])
    /\ client' = [client EXCEPT ![c] = "waiting"]
    /\ UNCHANGED <<key, written, faults>>

\* What the client does with an answer, or with none.
Reaction(c, answer) ==
    CASE answer = "ok" -> "done"
      [] answer \in Retryable -> "ready"
      [] answer \in {"UNKNOWN_OUTCOME", "none"} -> IF c \in Keyed THEN "ready" ELSE "unsure"
      [] answer \in {"INTERNAL", "DEADLINE_EXCEEDED"} -> "failed"

Receive(c, i) ==
    /\ At(c, i, "answered") /\ call[c][i].heard
    /\ client' = [client EXCEPT ![c] = Reaction(c, call[c][i].answer)]
    /\ Become(c, i, NoCall)
    /\ UNCHANGED <<key, written, faults>>

\* The client stops waiting; the call goes on without it.
StopWaiting(c, i) ==
    /\ ~At(c, i, "free") /\ call[c][i].heard
    /\ Fault
    /\ client' = [client EXCEPT ![c] = Reaction(c, "none")]
    /\ Become(c, i, [call[c][i] EXCEPT !.heard = FALSE])
    /\ UNCHANGED <<key, written>>

\* An answer nobody waits for.
Discard(c, i) ==
    /\ At(c, i, "answered") /\ ~call[c][i].heard
    /\ Become(c, i, NoCall)
    /\ UNCHANGED <<client, key, written, faults>>

-----------------------------------------------------------------------------
Serve(c, i) ==
    \/ Connect(c, i) \/ PoolTimesOut(c, i) \/ ClaimKey(c, i) \/ Write(c, i) \/ Commit(c, i)
    \/ Receive(c, i) \/ Discard(c, i)

Break(c, i) ==
    \/ Refused(c, i) \/ StatementFails(c, i) \/ CommitLost(c, i) \/ StopWaiting(c, i)

Next ==
    \/ \E c \in Clients : Send(c)
    \/ \E c \in Clients, i \in Slots : Serve(c, i) \/ Break(c, i)

Spec == Init /\ [][Next]_vars

\* The event loop goes on with every call, and a client that is ready sends.
FairSpec ==
    /\ Spec
    /\ \A c \in Clients : WF_vars(Send(c))
    /\ \A c \in Clients, i \in Slots : WF_vars(Serve(c, i))

-----------------------------------------------------------------------------
(***************************************************************************)
(* Properties.                                                             *)
(***************************************************************************)

\* However often a request is resent on the advice of the error codes, it
\* writes one memory: with a key even when an earlier call is still running,
\* without one because no code that invites a retry follows a commit
\* (domain/errors.py UnknownOutcomeError, "Retrying without a key risks
\* writing twice").
WrittenOnce == \A c \in Clients : written[c] <= 1

\* An answer tells the truth about the call: ok means the request's memory is
\* there, and every code but UNKNOWN_OUTCOME means this call wrote nothing
\* (mapping.py:78, "Nothing was written; retry shortly").
AnswersTrue ==
    \A c \in Clients, i \in Slots :
        At(c, i, "answered") =>
            CASE call[c][i].answer = "ok" -> written[c] = 1
              [] call[c][i].answer = "UNKNOWN_OUTCOME" -> TRUE
              [] OTHER -> ~call[c][i].landed

\* A request that carries a key is eventually settled one way or the other:
\* no failure leaves its key claimed by nobody or its connection taken.
KeyedSettles ==
    \A c \in Keyed : <>(client[c] \in {"done", "failed"})
=============================================================================
