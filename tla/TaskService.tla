----------------------------- MODULE TaskService -----------------------------
(***************************************************************************)
(* What a worker node promises the COMPSs runtime, with every detail of    *)
(* pipes, processes and R left out: each executor is handed jobs with      *)
(* increasing identifiers; while it is up it answers its oldest unanswered *)
(* job, once, with status 0 or 1; it may go away at any time, and then its *)
(* unanswered jobs stay unanswered.                                        *)
(***************************************************************************)
EXTENDS Integers, Sequences

CONSTANTS Executors,  \* the executors of one node, one per command/result pipe pair
          MaxJobs     \* bound: how many jobs the runtime issues

VARIABLES nextJob,    \* the identifier of the next job
          pending,    \* pending[e]: jobs handed to e and not answered
          answers,    \* answers[e]: the END_TASK messages of e, oldest first
          up          \* the executors that have started and not ended

vars == <<nextJob, pending, answers, up>>

Init ==
  /\ nextJob = 1
  /\ pending = [e \in Executors |-> {}]
  /\ answers = [e \in Executors |-> <<>>]
  /\ up = {}

\* The runtime hands the next job to executor e, whether e is up or not.
Submit(e) ==
  /\ nextJob <= MaxJobs
  /\ nextJob' = nextJob + 1
  /\ pending' = [pending EXCEPT ![e] = @ \union {nextJob}]
  /\ UNCHANGED <<answers, up>>

\* Executor e answers its oldest job j with status s.
Answer(e, j, s) ==
  /\ e \in up
  /\ j \in pending[e]
  /\ \A k \in pending[e] : j <= k
  /\ pending' = [pending EXCEPT ![e] = @ \ {j}]
  /\ answers' = [answers EXCEPT ![e] = Append(@, [id |-> j, status |-> s])]
  /\ UNCHANGED <<nextJob, up>>

Start(e) ==
  /\ e \notin up
  /\ up' = up \union {e}
  /\ UNCHANGED <<nextJob, pending, answers>>

Stop(e) ==
  /\ e \in up
  /\ up' = up \ {e}
  /\ UNCHANGED <<nextJob, pending, answers>>

Next ==
  \E e \in Executors :
    \/ Submit(e)
    \/ \E j \in 1..MaxJobs, s \in {0, 1} : Answer(e, j, s)
    \/ Start(e)
    \/ Stop(e)

Spec == Init /\ [][Next]_vars
=============================================================================
