------------------------ MODULE RunControlRefinement ------------------------
(***************************************************************************)
(* RunControl implements ExecutionControl.  A licence is a sample of       *)
(* shared_state under which the CPU will execute; it lasts from the load   *)
(* to the instruction.                                                     *)
(***************************************************************************)
EXTENDS RunControl

LicenceOf ==
    CASE cpu = "aborted" -> "crashed"
      [] cpu = "exited" -> "exited"
      [] cpu = "halt" -> "halting"
      [] cpu \in {"tick"} \cup Executing /\ MayExecute ->
            IF current_state = "STEP" THEN "run" ELSE "single"
      [] OTHER -> "none"

Control == INSTANCE ExecutionControl
             WITH command <- shared_state, credit <- credit,
                  licence <- LicenceOf

\* The two threads keep the promise of the controls: each execution has a
\* licence from a command that was in force, a step executes once, KILL is
\* final and a CPU that stops itself withdraws the command.
ControlSpec == Control!Spec
=============================================================================
