----------------------------- MODULE RunControl -----------------------------
(***************************************************************************)
(* The two threads of emu::Emulator: cpu_thread() executes instructions,   *)
(* run() is the GUI loop.  They share one atomic word, shared_state, and a *)
(* condition variable, halt_state, that is waited on without a predicate   *)
(* and notified without its mutex.                                         *)
(*                                                                         *)
(* A label of cpu or gui is a point between two accesses to shared state;  *)
(* the accesses of one instruction, from its fetch to its result, are one  *)
(* step, after which pc may be anything.                                   *)
(* The emulated program is abstract: executing an instruction moves pc     *)
(* anywhere, unless its address is one whose fetch or whose operand access *)
(* violates a memory region.                                               *)
(***************************************************************************)
EXTENDS Naturals

CONSTANTS
    Addr,        \* the values pc takes
    ResetPc,     \* pc before a program is loaded (all registers are zero)
    Entry,       \* pc after a program is loaded (0x4400)
    Code,        \* the addresses the decompiler lists for the loaded program
    FetchFault,  \* addresses whose instruction word may not be read as a word
    DataFault    \* addresses whose instruction may access an illegal operand

ASSUME ProgramAssumption ==
    /\ ResetPc \in Addr
    /\ Entry \in Addr
    /\ Code \subseteq Addr

UserState == {"STEP", "KILL", "IDLE", "SINGLE_STEP"}

CpuLabel == {"load", "lock", "wait", "tick", "dispatch", "lookup", "fetch",
             "execute", "halt", "finalize", "exited", "aborted"}

GuiLabel == {"check", "load", "render", "toggle", "store", "notify", "join",
             "done", "undefined"}

VARIABLES
    shared_state,    \* the atomic the two threads talk through
    cpu,             \* where cpu_thread() is
    current_state,   \* its sample of shared_state in this iteration
    previous_state,  \* and in the iteration before
    pc_val,          \* what it last read of pc: to look up, then to execute
    gui,             \* where run() is
    gui_state,       \* run()'s current_state: what this frame started from
    new_state,       \* what render() returned
    backend,         \* the window: open, or terminated by render()
    pc,              \* register 0, written by both threads
    breakpoints,     \* BreakpointController::breakpoints
    listing          \* the addresses shown by the decompiler pane

(***************************************************************************)
(* History variables: they record what has happened and guard nothing.     *)
(***************************************************************************)
VARIABLES
    clicked,   \* the user clicked Run or Step in this frame
    credit,    \* a SINGLE_STEP was published and not executed since
    halted,    \* the CPU stopped itself and no click of the user got through since
    ran,       \* something was executed since the CPU last sampled IDLE
    overrun,   \* number of executions since IDLE or KILL was published
    meddled    \* what the GUI did between the CPU's lookup and its fetch

cpuVars == <<cpu, current_state, previous_state, pc_val>>
guiVars == <<gui, gui_state, new_state, backend>>
machineVars == <<pc, breakpoints, listing>>
historyVars == <<clicked, credit, halted, ran, overrun, meddled>>
vars == <<shared_state, cpuVars, guiVars, machineVars, historyVars>>

Init ==
    /\ shared_state = "IDLE"
    /\ cpu = "load"
    /\ current_state = "IDLE"
    /\ previous_state = "IDLE"
    /\ pc_val = ResetPc
    /\ gui = "check"
    /\ gui_state = "IDLE"
    /\ new_state = "IDLE"
    /\ backend = "open"
    /\ pc = ResetPc
    /\ breakpoints = {}
    /\ listing = {}
    /\ clicked = FALSE
    /\ credit = FALSE
    /\ halted = FALSE
    /\ ran = FALSE
    /\ overrun = 0
    /\ meddled = {}

\* The process is gone after std::terminate or after drawing on a destroyed
\* window.
Alive == cpu # "aborted" /\ gui # "undefined"

-----------------------------------------------------------------------------
(***************************************************************************)
(* cpu_thread()                                                            *)
(***************************************************************************)

(***************************************************************************)
(* A definition whose name ends in Mut is a plausible bug of the one that  *)
(* follows it.  It is not part of the model: the runs use it to show that  *)
(* the property it names would notice.                                     *)
(***************************************************************************)

\* StopLatency: the load is hoisted out of the loop while running.
CpuLoadHoistedMut ==
    /\ cpu = "load"
    /\ current_state' = IF current_state = "STEP" THEN "STEP" ELSE shared_state
    /\ cpu' = IF current_state' = "IDLE" /\ previous_state = "IDLE"
                THEN "lock" ELSE "tick"
    /\ ran' = (ran /\ current_state' # "IDLE")
    /\ UNCHANGED <<shared_state, previous_state, pc_val, guiVars, machineVars,
                   clicked, credit, halted, overrun, meddled>>

\* RunHonouredAwake: the fresh sample is left out of the test.
CpuLoadStaleTestMut ==
    /\ cpu = "load"
    /\ current_state' = shared_state
    /\ cpu' = IF previous_state = "IDLE" THEN "lock" ELSE "tick"
    /\ ran' = (ran /\ shared_state # "IDLE")
    /\ UNCHANGED <<shared_state, previous_state, pc_val, guiVars, machineVars,
                   clicked, credit, halted, overrun, meddled>>

\* StopHonoured: the thread spins where it should sleep.
CpuLoadSpinMut ==
    /\ cpu = "load"
    /\ current_state' = shared_state
    /\ cpu' = "tick"
    /\ ran' = (ran /\ shared_state # "IDLE")
    /\ UNCHANGED <<shared_state, previous_state, pc_val, guiVars, machineVars,
                   clicked, credit, halted, overrun, meddled>>

\* Sample shared_state; two IDLE samples in a row send the thread to sleep.
CpuLoad ==
    /\ cpu = "load"
    /\ current_state' = shared_state
    /\ cpu' = IF shared_state = "IDLE" /\ previous_state = "IDLE"
                THEN "lock" ELSE "tick"
    /\ ran' = (ran /\ shared_state # "IDLE")
    /\ UNCHANGED <<shared_state, previous_state, pc_val, guiVars, machineVars,
                   clicked, credit, halted, overrun, meddled>>

\* halt_state.wait(lock): from here on notify_all() finds the thread.
CpuWait ==
    /\ cpu = "lock"
    /\ cpu' = "wait"
    /\ UNCHANGED <<shared_state, current_state, previous_state, pc_val,
                   guiVars, machineVars, historyVars>>

\* wait() has no predicate, so a spurious wake-up goes on as a notified one.
CpuSpuriousWake ==
    /\ cpu = "wait"
    /\ cpu' = "tick"
    /\ UNCHANGED <<shared_state, current_state, previous_state, pc_val,
                   guiVars, machineVars, historyVars>>

\* StepBudget: the previous sample is left out.
MayExecuteAgainMut == current_state \in {"STEP", "SINGLE_STEP"}

\* Where cpu_thread() is about to execute something.
Executing == {"dispatch", "lookup", "fetch", "execute"}

MayExecute ==
    \/ current_state = "STEP"
    \/ current_state = "SINGLE_STEP" /\ previous_state # "SINGLE_STEP"

\* KillHonouredAwake: the break on KILL is missing.
CpuTickNoBreakMut ==
    /\ cpu = "tick"
    /\ cpu' = IF MayExecute THEN "dispatch" ELSE "finalize"
    /\ UNCHANGED <<shared_state, current_state, previous_state, pc_val,
                   guiVars, machineVars, historyVars>>

\* The sample decides, not shared_state: it may be stale by now.  The timers
\* ticked on the way raise an interrupt without a flag, which changes nothing.
CpuTick ==
    /\ cpu = "tick"
    /\ cpu' = IF MayExecute THEN "dispatch"
              ELSE IF current_state = "KILL" THEN "exited"
              ELSE "finalize"
    /\ UNCHANGED <<shared_state, current_state, previous_state, pc_val,
                   guiVars, machineVars, historyVars>>

\* Something was executed under the current sample.
Executed ==
    /\ credit' = (credit /\ current_state # "SINGLE_STEP")
    /\ ran' = TRUE
    /\ overrun' = IF shared_state \in {"IDLE", "KILL"} THEN overrun + 1
                                                       ELSE overrun
    /\ UNCHANGED <<clicked, halted, meddled>>

\* consume_interrupt() found one: enter its handler, breakpoint or not.
CpuInterrupt ==
    /\ cpu = "dispatch"
    /\ pc' \in Addr
    /\ cpu' = "finalize"
    /\ Executed
    /\ UNCHANGED <<shared_state, current_state, previous_state, pc_val,
                   guiVars, breakpoints, listing>>

\* No interrupt, and the sample before was IDLE: the lookup is left out.
CpuSkipLookup ==
    /\ cpu = "dispatch"
    /\ previous_state = "IDLE"
    /\ cpu' = "fetch"
    /\ UNCHANGED <<shared_state, current_state, previous_state, pc_val,
                   guiVars, machineVars, historyVars>>

\* No interrupt: read pc for has_breakpoint().
CpuReadPc ==
    /\ cpu = "dispatch"
    /\ previous_state # "IDLE"
    /\ pc_val' = pc
    /\ cpu' = "lookup"
    /\ UNCHANGED <<shared_state, current_state, previous_state,
                   guiVars, machineVars, historyVars>>

\* The answers has_breakpoint() may give: a lookup in the unguarded std::map
\* that overlaps the GUI's insertion or removal may come out either way.
HasBreakpoint == IF gui = "toggle" THEN BOOLEAN ELSE {pc_val \in breakpoints}

\* A breakpoint stops execution.
CpuBreakpoint ==
    /\ cpu = "lookup"
    /\ TRUE \in HasBreakpoint
    /\ cpu' = "halt"
    /\ meddled' = {}
    /\ UNCHANGED <<shared_state, current_state, previous_state, pc_val,
                   guiVars, machineVars, clicked, credit, halted, ran, overrun>>

CpuNoBreakpoint ==
    /\ cpu = "lookup"
    /\ FALSE \in HasBreakpoint
    /\ cpu' = "fetch"
    /\ meddled' = IF gui = "toggle" THEN meddled \cup {"toggle"} ELSE meddled
    /\ UNCHANGED <<shared_state, current_state, previous_state, pc_val,
                   guiVars, machineVars, clicked, credit, halted, ran, overrun>>

\* The overlapping lookup may also follow a node that was just freed.
CpuTornLookup ==
    /\ cpu = "lookup"
    /\ gui = "toggle"
    /\ cpu' = "aborted"
    /\ UNCHANGED <<shared_state, current_state, previous_state, pc_val,
                   guiVars, machineVars, historyVars>>

\* The first half of Pipeline::step(): read pc again, which is Entry by now if
\* the GUI has loaded a program since the lookup.
CpuFetch ==
    /\ cpu = "fetch"
    /\ pc_val' = pc
    /\ cpu' = "execute"
    /\ meddled' = {}
    /\ UNCHANGED <<shared_state, current_state, previous_state, guiVars,
                   machineVars, clicked, credit, halted, ran, overrun>>

\* The second half: write pc back, whatever the GUI stored there meanwhile.
CpuExecute ==
    /\ cpu = "execute"
    /\ pc_val \notin FetchFault
    /\ pc' \in Addr
    /\ cpu' = "finalize"
    /\ Executed
    /\ UNCHANGED <<shared_state, current_state, previous_state, pc_val,
                   guiVars, breakpoints, listing>>

\* The instruction fetch throws with pc already advanced; the handler halts.
CpuFetchFault ==
    /\ cpu = "execute"
    /\ pc_val \in FetchFault
    /\ pc' \in Addr
    /\ cpu' = "halt"
    /\ UNCHANGED <<shared_state, current_state, previous_state, pc_val,
                   guiVars, breakpoints, listing, historyVars>>

\* An operand access throws inside noexcept functions: std::terminate().
CpuDataFault ==
    /\ cpu = "execute"
    /\ pc_val \in DataFault \ FetchFault
    /\ pc' \in Addr
    /\ cpu' = "aborted"
    /\ UNCHANGED <<shared_state, current_state, previous_state, pc_val,
                   guiVars, breakpoints, listing, historyVars>>

\* ControlSpec: the breakpoint is noticed, and the run not stopped.
CpuHaltNoStoreMut ==
    /\ cpu = "halt"
    /\ cpu' = "finalize"
    /\ halted' = TRUE
    /\ UNCHANGED <<shared_state, current_state, previous_state, pc_val, guiVars,
                   machineVars, clicked, credit, ran, overrun, meddled>>

\* shared_state.store(IDLE), over whatever the GUI has stored since.
CpuHalt ==
    /\ cpu = "halt"
    /\ shared_state' = "IDLE"
    /\ cpu' = "finalize"
    /\ halted' = TRUE
    /\ UNCHANGED <<current_state, previous_state, pc_val, guiVars,
                   machineVars, clicked, credit, ran, overrun, meddled>>

\* BreakpointStopsRun: previous_state keeps its first value.
CpuFinalizeNoCopyMut ==
    /\ cpu = "finalize"
    /\ cpu' = "load"
    /\ UNCHANGED <<shared_state, current_state, previous_state, pc_val, guiVars,
                   machineVars, historyVars>>

CpuFinalize ==
    /\ cpu = "finalize"
    /\ previous_state' = current_state
    /\ cpu' = "load"
    /\ UNCHANGED <<shared_state, current_state, pc_val, guiVars, machineVars,
                   historyVars>>

-----------------------------------------------------------------------------
(***************************************************************************)
(* run() and EmuGui::render()                                              *)
(***************************************************************************)

GuiCheck ==
    /\ gui = "check"
    /\ gui' = IF shared_state = "KILL" THEN "join" ELSE "load"
    /\ UNCHANGED <<shared_state, cpuVars, gui_state, new_state, backend,
                   machineVars, historyVars>>

GuiLoad ==
    /\ gui = "load"
    /\ gui_state' = shared_state
    /\ gui' = "render"
    /\ UNCHANGED <<shared_state, cpuVars, new_state, backend, machineVars,
                   historyVars>>

\* render()'s result for a frame that started in state s with this click.
RenderResult(s, click) ==
    LET isRunning == (s = "STEP") # (click = "run") IN
    IF isRunning THEN "STEP"
    ELSE IF click = "step" THEN "SINGLE_STEP" ELSE "IDLE"

Rendered(click, label) ==
    /\ gui = "render"
    /\ backend = "open"
    /\ new_state' = RenderResult(gui_state, click)
    /\ gui' = label
    /\ clicked' = (click # "none")
    /\ UNCHANGED <<shared_state, cpuVars, gui_state, backend, credit, halted,
                   ran, overrun>>

GuiFrame(click) ==
    Rendered(click, "store") /\ UNCHANGED <<machineVars, meddled>>

\* The map is being rewired as long as the GUI is at "toggle".
ToggleBreakpoint(a) ==
    /\ Rendered("none", "toggle")
    /\ a \in listing
    /\ breakpoints' = IF a \in breakpoints THEN breakpoints \ {a}
                                           ELSE breakpoints \cup {a}
    /\ meddled' = IF cpu = "fetch" THEN meddled \cup {"toggle"} ELSE meddled
    /\ UNCHANGED <<pc, listing>>

GuiToggled ==
    /\ gui = "toggle"
    /\ gui' = "store"
    /\ UNCHANGED <<shared_state, cpuVars, gui_state, new_state, backend,
                   machineVars, historyVars>>

\* select_file(): a program that loads sets pc under the feet of the CPU.
LoadProgram ==
    /\ Rendered("none", "store")
    /\ pc' = Entry
    /\ listing' = Code
    /\ meddled' = IF cpu \in {"lookup", "fetch"} THEN meddled \cup {"load"}
                                                 ELSE meddled
    /\ UNCHANGED breakpoints

\* The user closed the window: destroy it and return KILL.
GuiClose ==
    /\ gui = "render"
    /\ backend = "open"
    /\ backend' = "terminated"
    /\ new_state' = "KILL"
    /\ gui' = "store"
    /\ clicked' = FALSE
    /\ UNCHANGED <<shared_state, cpuVars, gui_state, machineVars, credit,
                   halted, ran, overrun, meddled>>

\* One more frame after the backend was terminated draws without a context.
GuiFrameTerminated ==
    /\ gui = "render"
    /\ backend = "terminated"
    /\ gui' = "undefined"
    /\ UNCHANGED <<shared_state, cpuVars, gui_state, new_state, backend,
                   machineVars, historyVars>>

\* HaltIsFinal: every frame stores, whether it changed the state or not.
GuiStoreAlwaysMut ==
    /\ gui = "store"
    /\ shared_state' = new_state
    /\ gui' = IF gui_state = "IDLE" THEN "notify" ELSE "check"
    /\ credit' = (credit \/ new_state = "SINGLE_STEP")
    /\ halted' = (halted /\ ~clicked)
    /\ overrun' = 0
    /\ UNCHANGED <<clicked, ran, meddled, cpuVars, gui_state, new_state, backend,
                   machineVars>>

\* Publish a changed state; only a change away from IDLE is notified.
GuiStore ==
    /\ gui = "store"
    /\ IF new_state = gui_state
         THEN /\ gui' = "check"
              /\ UNCHANGED <<shared_state, historyVars>>
         ELSE /\ shared_state' = new_state
              /\ gui' = IF gui_state = "IDLE" THEN "notify" ELSE "check"
              /\ credit' = (credit \/ new_state = "SINGLE_STEP")
              /\ halted' = (halted /\ ~clicked)
              /\ overrun' = 0
              /\ UNCHANGED <<clicked, ran, meddled>>
    /\ UNCHANGED <<cpuVars, gui_state, new_state, backend, machineVars>>

\* notify_all() wakes the thread if it is waiting now, and is lost otherwise.
GuiNotify ==
    /\ gui = "notify"
    /\ cpu' = IF cpu = "wait" THEN "tick" ELSE cpu
    /\ gui' = "check"
    /\ UNCHANGED <<shared_state, current_state, previous_state, pc_val,
                   gui_state, new_state, backend, machineVars, historyVars>>

GuiJoin ==
    /\ gui = "join"
    /\ cpu = "exited"
    /\ gui' = "done"
    /\ UNCHANGED <<shared_state, cpuVars, gui_state, new_state, backend,
                   machineVars, historyVars>>

-----------------------------------------------------------------------------
\* What cpu_thread() does by itself: everything but waking up unasked.
CpuThread ==
    Alive /\ (\/ CpuLoad \/ CpuWait \/ CpuTick
              \/ CpuInterrupt \/ CpuSkipLookup \/ CpuReadPc
              \/ CpuBreakpoint \/ CpuNoBreakpoint \/ CpuTornLookup
              \/ CpuFetch \/ CpuExecute \/ CpuFetchFault \/ CpuDataFault
              \/ CpuHalt \/ CpuFinalize)

GuiThread ==
    Alive /\ (\/ GuiCheck \/ GuiLoad \/ GuiStore \/ GuiNotify \/ GuiJoin
              \/ \E click \in {"none", "run", "step"} : GuiFrame(click)
              \/ (\E a \in Addr : ToggleBreakpoint(a)) \/ GuiToggled
              \/ LoadProgram \/ GuiClose \/ GuiFrameTerminated)

\* The process has ended, one way or another.
Terminated == (gui = "done" \/ ~Alive) /\ UNCHANGED vars

Next == CpuThread \/ (Alive /\ CpuSpuriousWake) \/ GuiThread \/ Terminated

Spec == Init /\ [][Next]_vars

(***************************************************************************)
(* The scheduler runs both threads: each goes on while it can.  Nothing    *)
(* obliges the user to click, nor the system to wake a waiter unasked.     *)
(***************************************************************************)
FairSpec == Spec /\ WF_vars(CpuThread) /\ WF_vars(GuiThread)

-----------------------------------------------------------------------------
TypeOK ==
    /\ shared_state \in UserState
    /\ cpu \in CpuLabel
    /\ current_state \in UserState
    /\ previous_state \in UserState
    /\ pc_val \in Addr
    /\ gui \in GuiLabel
    /\ gui_state \in UserState
    /\ new_state \in UserState
    /\ backend \in {"open", "terminated"}
    /\ pc \in Addr
    /\ breakpoints \subseteq Addr
    /\ listing \subseteq Addr
    /\ clicked \in BOOLEAN
    /\ credit \in BOOLEAN
    /\ halted \in BOOLEAN
    /\ ran \in BOOLEAN
    /\ overrun \in Nat
    /\ meddled \subseteq {"load", "toggle"}

(***************************************************************************)
(* Safety                                                                  *)
(***************************************************************************)

\* One click on Step is one execution at most: whenever the CPU is about to
\* execute under a SINGLE_STEP sample, a SINGLE_STEP was published that
\* nothing was executed for.  emulator.h:70 keeps the promise by comparing
\* two samples of a word the GUI overwrites at any time.
StepBudget ==
    cpu \in {"tick"} \cup Executing /\ current_state = "SINGLE_STEP" /\
        MayExecute => credit

\* After IDLE or KILL was published the CPU executes once more at most (its
\* sample may be older), whoever overwrites whose store in between.
StopLatency == overrun <= 1

\* Once the CPU has stopped itself, at a breakpoint or after a memory
\* violation, it executes nothing until the user clicks Run or Step: no frame
\* that began before the stop puts the stale STEP back.
HaltIsFinal == halted => cpu \notin Executing

\* An execution that already ran an instruction runs through a breakpoint only
\* if the user changed the map while it was looked up (emulator.h:76) or since,
\* or loaded a program between the two reads of pc, for the lookup and for the
\* step (pipeline.h:104): then it runs Entry, which nobody looked up.
BreakpointStopsRun ==
    [][cpu = "fetch" /\ cpu' = "execute" /\ ran /\ pc \in breakpoints
         => \/ "toggle" \in meddled
            \/ "load" \in meddled /\ pc = Entry]_vars

\* The CPU thread exits only because the window was closed, and then KILL
\* stays in force: run() sees it and reaches thread.join().
ExitOnlyOnKill ==
    cpu = "exited" => backend = "terminated" /\ shared_state = "KILL"

(***************************************************************************)
(* Liveness, under FairSpec                                                *)
(***************************************************************************)

Asleep == cpu \in {"lock", "wait"}

\* A published Run is taken up unless it finds the CPU on its way to sleep, and
\* also by a CPU that sleeps if it was published from IDLE, with the
\* notification still to come.
RunHonouredAwake ==
    shared_state = "STEP" /\ ~Asleep
        ~> cpu = "dispatch" \/ shared_state # "STEP" \/ ~Alive
RunHonouredNotified ==
    shared_state = "STEP" /\ cpu = "wait" /\ gui = "notify"
        ~> cpu = "dispatch" \/ shared_state # "STEP" \/ ~Alive
RunHonoured == RunHonouredAwake /\ RunHonouredNotified

\* A stop comes through: the CPU thread goes to sleep, unless a new command
\* was published or the process ended.
StopHonoured ==
    shared_state = "IDLE" ~> cpu = "wait" \/ shared_state # "IDLE" \/ ~Alive

\* Closing the window ends both threads, unless KILL finds the CPU on its way
\* to sleep or is overwritten by the CPU's own store of IDLE.
CloseHonouredAwake ==
    shared_state = "KILL" /\ ~Asleep
        ~> gui = "done" \/ shared_state # "KILL" \/ ~Alive

(***************************************************************************)
(* What the code says and the interleavings refute                         *)
(***************************************************************************)

\* run() ends with thread.join() (emulator.h:108): once the user has closed
\* the window, both threads finish.
ClosingFinishes == backend = "terminated" ~> gui = "done" \/ ~Alive
=============================================================================
