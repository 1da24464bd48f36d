-------------------------- MODULE ExecutionControl --------------------------
(***************************************************************************)
(* What the Run, Step and Stop controls of the emulator promise.  The user *)
(* publishes commands; the CPU executes one instruction per licence, and   *)
(* takes a licence only from the command in force.  A step licence spends  *)
(* the user's request.  The CPU may stop itself, which withdraws whatever  *)
(* command is in force.                                                    *)
(*                                                                         *)
(* This says nothing of threads, samples or labels: RunControl implements  *)
(* it with two samples of one atomic word.                                 *)
(***************************************************************************)

Command == {"STEP", "KILL", "IDLE", "SINGLE_STEP"}

\* What the CPU may do now.  A "halting" CPU has given its licence up and has
\* not withdrawn the command yet.
Licence == {"none", "run", "single", "halting", "exited", "crashed"}

VARIABLES
    command,   \* the command in force
    credit,    \* a step was requested and not executed since
    licence

vars == <<command, credit, licence>>

Init ==
    /\ command = "IDLE"
    /\ credit = FALSE
    /\ licence = "none"

Publish(c) ==
    /\ command # "KILL"
    /\ command' = c
    /\ credit' = (credit \/ c = "SINGLE_STEP")
    /\ UNCHANGED licence

GrantRun ==
    /\ licence = "none"
    /\ command = "STEP"
    /\ licence' = "run"
    /\ UNCHANGED <<command, credit>>

GrantStep ==
    /\ licence = "none"
    /\ command = "SINGLE_STEP"
    /\ credit
    /\ licence' = "single"
    /\ UNCHANGED <<command, credit>>

Execute ==
    /\ licence \in {"run", "single"}
    /\ licence' = "none"
    /\ credit' = (credit /\ licence = "run")
    /\ UNCHANGED command

\* A breakpoint or a memory violation instead of an execution.
GiveUp ==
    /\ licence \in {"run", "single"}
    /\ licence' \in {"halting", "crashed"}
    /\ UNCHANGED <<command, credit>>

Withdraw ==
    /\ licence = "halting"
    /\ licence' = "none"
    /\ command' = "IDLE"
    /\ UNCHANGED credit

Exit ==
    /\ licence = "none"
    /\ command = "KILL"
    /\ licence' = "exited"
    /\ UNCHANGED <<command, credit>>

Next ==
    \/ \E c \in Command : Publish(c)
    \/ GrantRun \/ GrantStep \/ Execute \/ GiveUp \/ Withdraw \/ Exit

Spec == Init /\ [][Next]_vars
=============================================================================
