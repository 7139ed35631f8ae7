----------------------------- MODULE StrobedUnit -----------------------------
(***************************************************************************)
(* What a client of modmult, or of RSACypher, may rely on.  The unit is    *)
(* idle and shows an answer until a strobe starts a job; it is busy for    *)
(* some time; when it is ready again the answer is the result of the job   *)
(* that was sampled with the strobe, and stays until the next strobe.      *)
(***************************************************************************)
CONSTANTS
  Jobs,     \* what a client may ask for
  Result,   \* a function: the answer to each job
  Output,   \* what the result bus can carry
  NoJob,    \* nothing was asked since the last reset
  NoAnswer  \* what a busy unit shows means nothing

VARIABLES busy, job, answer

vars == <<busy, job, answer>>

Start(j) ==
  /\ ~busy
  /\ busy' = TRUE
  /\ job' = j
  /\ answer' = NoAnswer

Complete ==
  /\ busy
  /\ busy' = FALSE
  /\ answer' = Result[job]
  /\ UNCHANGED job

\* A reset gives the job up; what is shown then means nothing.
GiveUp ==
  /\ busy' = FALSE
  /\ job' = NoJob
  /\ answer' \in Output

Init ==
  /\ busy = FALSE
  /\ job = NoJob
  /\ answer \in Output

Next == (\E j \in Jobs : Start(j)) \/ Complete \/ GiveUp

Safety == Init /\ [][Next]_vars

\* Every job ends, unless a reset gives it up.
Spec == Safety /\ WF_vars(Complete)
=============================================================================
