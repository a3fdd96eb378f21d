--------------------------- MODULE CommandService ---------------------------
(***************************************************************************)
(* What ATCortex promises about commands, without threads, semaphores,     *)
(* memory or time: the accepted commands wait in one first-in first-out    *)
(* queue, at most one of them runs, and each gets exactly one result.      *)
(***************************************************************************)
EXTENDS Sequences

CONSTANTS
  Commands,  \* identities of the accepted commands
  Outcomes,  \* the results a command may end with
  Idle       \* no command runs; not one of Commands

VARIABLES
  accepted,  \* commands accepted so far
  waiting,   \* accepted and not started, oldest first
  running,   \* the command the modem is working on
  outcome    \* result of each command, "none" before it ends

svars == <<accepted, waiting, running, outcome>>

Init ==
  /\ accepted = {}
  /\ waiting = <<>>
  /\ running = Idle
  /\ outcome = [k \in Commands |-> "none"]

\* A command is accepted once.
Accept(k) ==
  /\ k \notin accepted
  /\ accepted' = accepted \cup {k}
  /\ waiting' = Append(waiting, k)
  /\ UNCHANGED <<running, outcome>>

\* The oldest command starts when none runs.
Start ==
  /\ running = Idle /\ waiting # <<>>
  /\ running' = Head(waiting)
  /\ waiting' = Tail(waiting)
  /\ UNCHANGED <<accepted, outcome>>

\* The running command ends and its one result is reported.
Finish(r) ==
  /\ running # Idle
  /\ outcome[running] = "none"
  /\ outcome' = [outcome EXCEPT ![running] = r]
  /\ running' = Idle
  /\ UNCHANGED <<accepted, waiting>>

Next == (\E k \in Commands : Accept(k)) \/ Start \/ (\E r \in Outcomes : Finish(r))

Spec == Init /\ [][Next]_svars
===============================================================================
