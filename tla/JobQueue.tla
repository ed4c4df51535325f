------------------------------ MODULE JobQueue ------------------------------
(***************************************************************************)
(* What the embedding outbox promises, without workers, locks, batches in  *)
(* flight or crashes: a job waits, is tried a bounded number of times, and *)
(* each try either finishes it or counts against it.                       *)
(***************************************************************************)
EXTENDS Naturals

CONSTANTS
    Jobs,         \* revisions that may be enqueued
    MaxAttempts   \* failures after which a job is given up

VARIABLES
    phase,   \* where a job stands
    tries    \* failures counted against a job

Phases == {"none", "waiting", "indexed", "dead", "swept"}

Init ==
    /\ phase = [j \in Jobs |-> "none"]
    /\ tries = [j \in Jobs |-> 0]

Waiting == {j \in Jobs : phase[j] = "waiting"}

Moved(S, to) == phase' = [j \in Jobs |-> IF j \in S THEN to ELSE phase[j]]

Add(j) ==
    /\ phase[j] = "none"
    /\ Moved({j}, "waiting")
    /\ UNCHANGED tries

\* A group of waiting jobs is finished together.
Succeed(S) ==
    /\ S \subseteq Waiting
    /\ Moved(S, "indexed")
    /\ UNCHANGED tries

\* A group of waiting jobs fails together; the last allowed failure is final.
Fail(S) ==
    /\ S \subseteq Waiting
    /\ tries' = [j \in Jobs |-> IF j \in S THEN tries[j] + 1 ELSE tries[j]]
    /\ Moved({j \in S : tries[j] + 1 = MaxAttempts}, "dead")

Sweep(S) ==
    /\ \A j \in S : phase[j] = "dead"
    /\ Moved(S, "swept")
    /\ UNCHANGED tries

Next ==
    \/ \E j \in Jobs : Add(j)
    \/ \E S \in SUBSET Jobs : Succeed(S) \/ Fail(S) \/ Sweep(S)

Spec == Init /\ [][Next]_<<phase, tries>>
=============================================================================
