-------------------------- MODULE RunControlProofs --------------------------
(***************************************************************************)
(* Proofs about RunControl, for every set of addresses and every program.  *)
(* The inductive invariant is IInv; it relates the CPU's two samples, its  *)
(* label and the GUI's frame to the shared word and to the history.        *)
(***************************************************************************)
EXTENDS RunControlRefinement, TLAPS

-----------------------------------------------------------------------------
(***************************************************************************)
(* The parts of the inductive invariant                                    *)
(***************************************************************************)

\* A CPU on its way to sleep has sampled IDLE; one that looks for something
\* to execute has a sample that allows it.
SampleInv ==
    /\ cpu \in {"lock", "wait"} => current_state = "IDLE"
    /\ cpu \in Executing => MayExecute

\* A frame the user did not click in returns its own state, or a quiet one.
FrameInv ==
    gui \in {"toggle", "store"} /\ ~clicked
        => new_state \in {gui_state, "IDLE", "KILL"}

\* KILL comes from closing the window, and no frame follows it.
KillInv ==
    /\ new_state = "KILL" => backend = "terminated"
    /\ shared_state = "KILL" => /\ backend = "terminated"
                               /\ gui \in {"check", "notify", "join", "done"}
    /\ cpu = "tick" /\ current_state = "KILL" => shared_state = "KILL"
    /\ cpu = "exited" => shared_state = "KILL"

\* While SINGLE_STEP is in force and the last sample was another state, the
\* request is unspent; so it is while the CPU executes under its sample.
CreditInv ==
    /\ shared_state = "SINGLE_STEP" /\ cpu = "load"
            /\ previous_state # "SINGLE_STEP" => credit
    /\ shared_state = "SINGLE_STEP" /\ cpu # "load"
            /\ current_state # "SINGLE_STEP" => credit
    /\ StepBudget

\* No execution is in sight: the command is quiet, and so is the sample.
Quiet ==
    /\ shared_state \in {"IDLE", "KILL"}
    /\ \/ cpu \in {"finalize", "load", "lock", "wait", "exited"}
       \/ cpu = "tick" /\ current_state \in {"IDLE", "KILL"}

QuietInv ==
    /\ overrun \in {0, 1}
    /\ overrun = 1 => Quiet
    /\ halted => Quiet

\* The history variable ran agrees with the samples.
RanInv ==
    ran => /\ cpu = "load" => previous_state # "IDLE"
           /\ cpu # "load" => current_state # "IDLE"
           /\ cpu \in {"tick"} \cup Executing => previous_state # "IDLE"

\* pc is still what was read for the lookup, unless a program was loaded since;
\* and past the lookup that address has no breakpoint, unless the user toggled.
LookupInv ==
    /\ cpu = "lookup" \/ (cpu = "fetch" /\ previous_state # "IDLE")
         => pc = pc_val \/ ("load" \in meddled /\ pc = Entry)
    /\ cpu = "fetch" /\ previous_state # "IDLE" /\ "toggle" \notin meddled
         => pc_val \notin breakpoints

IInv == /\ TypeOK /\ SampleInv /\ FrameInv /\ KillInv
        /\ CreditInv /\ QuietInv /\ RanInv /\ LookupInv

\* What becomes of an iteration without an interrupt, up to the step.
CpuLookup == \/ CpuSkipLookup \/ CpuReadPc \/ CpuBreakpoint
             \/ CpuNoBreakpoint \/ CpuTornLookup

-----------------------------------------------------------------------------
\* What the steps do to the history of the lookup.
LEMMA MeddledStep ==
    ASSUME meddled \subseteq {"load", "toggle"}, [Next]_vars
    PROVE  meddled' \subseteq {"load", "toggle"}
<1>1. CASE CpuBreakpoint \/ CpuNoBreakpoint \/ CpuFetch
  BY <1>1 DEF CpuBreakpoint, CpuNoBreakpoint, CpuFetch
<1>2. CASE LoadProgram \/ \E a \in Addr : ToggleBreakpoint(a)
  BY <1>2 DEF LoadProgram, ToggleBreakpoint
<1>3. CASE CpuLoad \/ CpuWait \/ CpuTick \/ CpuInterrupt \/ CpuSkipLookup
          \/ CpuReadPc \/ CpuTornLookup \/ CpuExecute \/ CpuFetchFault
          \/ CpuDataFault \/ CpuHalt
          \/ CpuFinalize \/ CpuSpuriousWake
  BY <1>3 DEF CpuLoad, CpuWait, CpuTick, CpuInterrupt, CpuSkipLookup,
         CpuReadPc, CpuTornLookup, CpuExecute, CpuFetchFault, CpuDataFault,
         CpuHalt, CpuFinalize, CpuSpuriousWake, Executed, historyVars
<1>4. CASE GuiCheck \/ GuiLoad
          \/ (\E click \in {"none", "run", "step"} : GuiFrame(click))
          \/ GuiToggled \/ GuiClose \/ GuiFrameTerminated \/ GuiStore
          \/ GuiNotify \/ GuiJoin
  BY <1>4 DEF GuiCheck, GuiLoad, GuiFrame, GuiToggled, GuiClose,
         GuiFrameTerminated, GuiStore, GuiNotify, GuiJoin, historyVars
<1>5. CASE UNCHANGED vars
  BY <1>5 DEF vars, historyVars
<1>6. QED
  BY <1>1, <1>2, <1>3, <1>4, <1>5 DEF Next, CpuThread, GuiThread, Terminated

\* Every step keeps the variables in their types: Next over TypeOK.
LEMMA TypeStep ==
    ASSUME TypeOK, [Next]_vars
    PROVE  TypeOK'
<1> USE ProgramAssumption DEF TypeOK, UserState, CpuLabel, GuiLabel, vars,
           cpuVars, guiVars, machineVars, historyVars
<1>0. meddled' \subseteq {"load", "toggle"}
  BY MeddledStep
<1>1. CASE CpuInterrupt
  <2>1. ran' \in BOOLEAN /\ credit' \in BOOLEAN
    BY <1>1, Zenon DEF CpuInterrupt, Executed
  <2>2. QED
    BY <1>0, <1>1, <2>1 DEF CpuInterrupt, Executed
<1>2. CASE CpuExecute
  <2>1. ran' \in BOOLEAN /\ credit' \in BOOLEAN
    BY <1>2, Zenon DEF CpuExecute, Executed
  <2>2. QED
    BY <1>0, <1>2, <2>1 DEF CpuExecute, Executed
<1>3. CASE (\E click \in {"none", "run", "step"} : GuiFrame(click))
          \/ (\E a \in Addr : ToggleBreakpoint(a)) \/ LoadProgram
  <2>1. clicked' \in BOOLEAN
    BY <1>3 DEF GuiFrame, ToggleBreakpoint, LoadProgram, Rendered
  <2>2. new_state' \in UserState
    BY <1>3 DEF GuiFrame, ToggleBreakpoint, LoadProgram, Rendered,
                RenderResult
  <2>3. gui' \in GuiLabel /\ pc' \in Addr /\ breakpoints' \subseteq Addr
          /\ listing' \subseteq Addr
    BY <1>3 DEF GuiFrame, ToggleBreakpoint, LoadProgram, Rendered
  <2>4. UNCHANGED <<shared_state, cpuVars, gui_state, backend, credit, halted,
                    ran, overrun>>
    BY <1>3 DEF GuiFrame, ToggleBreakpoint, LoadProgram, Rendered
  <2>5. QED
    BY <1>0, <2>1, <2>2, <2>3, <2>4
<1>4. CASE GuiClose
  <2>1. clicked' \in BOOLEAN
    BY <1>4 DEF GuiClose
  <2>2. QED
    BY <1>0, <1>4, <2>1 DEF GuiClose
<1>5. CASE GuiStore
  <2>1. /\ credit' \in BOOLEAN
        /\ halted' \in BOOLEAN
    BY <1>5, Zenon DEF GuiStore
  <2>2. QED
    BY <1>0, <1>5, <2>1 DEF GuiStore
<1>6. CASE CpuLoad \/ CpuWait \/ CpuTick \/ CpuFetchFault \/ CpuDataFault
          \/ CpuHalt \/ CpuFinalize \/ CpuSpuriousWake
  <2>1. CASE CpuLoad
    <3>1. ran' \in BOOLEAN
      BY <2>1, Zenon DEF CpuLoad
    <3>2. QED
      BY <1>0, <2>1, <3>1 DEF CpuLoad
  <2>2. CASE CpuHalt
    BY <1>0, <2>2 DEF CpuHalt
  <2>3. CASE CpuWait \/ CpuTick \/ CpuFetchFault \/ CpuDataFault
            \/ CpuFinalize \/ CpuSpuriousWake
    BY <1>0, <2>3 DEF CpuWait, CpuTick, CpuFetchFault, CpuDataFault,
         CpuFinalize, CpuSpuriousWake, MayExecute
  <2>4. QED
    BY <1>6, <2>1, <2>2, <2>3
<1>9. CASE CpuLookup \/ CpuFetch
  <2>1. cpu' \in CpuLabel /\ pc_val' \in Addr
    BY <1>9 DEF CpuLookup, CpuSkipLookup, CpuReadPc, CpuBreakpoint,
         CpuNoBreakpoint, CpuTornLookup, CpuFetch
  <2>2. UNCHANGED <<shared_state, current_state, previous_state, guiVars,
                    machineVars, clicked, credit, halted, ran, overrun>>
    BY <1>9 DEF CpuLookup, CpuSkipLookup, CpuReadPc, CpuBreakpoint,
         CpuNoBreakpoint, CpuTornLookup, CpuFetch
  <2>3. QED
    BY <1>0, <2>1, <2>2
<1>7. CASE GuiCheck \/ GuiLoad \/ GuiToggled \/ GuiFrameTerminated
          \/ GuiNotify \/ GuiJoin
  BY <1>0, <1>7 DEF GuiCheck, GuiLoad, GuiToggled, GuiFrameTerminated,
         GuiNotify, GuiJoin
<1>8. CASE UNCHANGED vars
  BY <1>0, <1>8 DEF vars
<1>10. QED
  BY <1>1, <1>2, <1>3, <1>4, <1>5, <1>6, <1>7, <1>8, <1>9
  DEF Next, CpuThread, CpuLookup, GuiThread, Terminated

\* Samples and labels stay in step (emulator.h:61-90).
LEMMA SampleStep ==
    ASSUME TypeOK, SampleInv, [Next]_vars
    PROVE  SampleInv'
<1> USE DEF SampleInv, MayExecute, Executing, vars, cpuVars, guiVars,
           machineVars, historyVars
<1>1. CASE CpuLoad
  BY <1>1 DEF CpuLoad
<1>2. CASE CpuTick
  BY <1>2 DEF CpuTick, MayExecute
<1>3. CASE CpuFinalize
  BY <1>3 DEF CpuFinalize
<1>4. CASE GuiNotify
  BY <1>4 DEF GuiNotify
<1>5. CASE CpuWait \/ CpuInterrupt \/ CpuLookup
          \/ CpuFetch \/ CpuExecute \/ CpuFetchFault \/ CpuDataFault \/ CpuHalt
          \/ CpuSpuriousWake
  BY <1>5 DEF CpuWait, CpuInterrupt, CpuLookup, CpuSkipLookup,
         CpuReadPc, CpuBreakpoint, CpuNoBreakpoint, CpuTornLookup, CpuFetch,
         CpuExecute, CpuFetchFault, CpuDataFault, CpuHalt, CpuSpuriousWake,
         Executed
<1>6. CASE GuiCheck \/ GuiLoad
          \/ (\E click \in {"none", "run", "step"} : GuiFrame(click))
          \/ (\E a \in Addr : ToggleBreakpoint(a)) \/ GuiToggled
          \/ LoadProgram \/ GuiClose \/ GuiFrameTerminated \/ GuiStore
          \/ GuiJoin
  BY <1>6 DEF GuiCheck, GuiLoad, GuiFrame, ToggleBreakpoint, GuiToggled,
         LoadProgram, GuiClose, GuiFrameTerminated, GuiStore, GuiJoin,
         Rendered, RenderResult
<1>7. CASE UNCHANGED vars
  BY <1>7 DEF vars
<1>8. QED
  BY <1>1, <1>2, <1>3, <1>4, <1>5, <1>6, <1>7
  DEF Next, CpuThread, CpuLookup, GuiThread, Terminated

\* What a frame without a click returns (emugui.h:344 and 439).
LEMMA FrameStep ==
    ASSUME TypeOK, FrameInv, [Next]_vars
    PROVE  FrameInv'
<1> USE DEF FrameInv, vars, cpuVars, guiVars, machineVars, historyVars
<1>1. CASE (\E click \in {"none", "run", "step"} : GuiFrame(click))
  BY <1>1 DEF GuiFrame, Rendered, RenderResult
<1>2. CASE (\E a \in Addr : ToggleBreakpoint(a))
  BY <1>2 DEF ToggleBreakpoint, Rendered, RenderResult
<1>3. CASE LoadProgram
  BY <1>3 DEF LoadProgram, Rendered, RenderResult
<1>4. CASE GuiClose
  BY <1>4 DEF GuiClose
<1>5. CASE CpuLoad \/ CpuWait \/ CpuTick \/ CpuInterrupt \/ CpuLookup
          \/ CpuFetch \/ CpuExecute \/ CpuFetchFault \/ CpuDataFault \/ CpuHalt
          \/ CpuFinalize \/ CpuSpuriousWake
  BY <1>5 DEF CpuLoad, CpuWait, CpuTick, CpuInterrupt, CpuLookup, CpuSkipLookup,
         CpuReadPc, CpuBreakpoint, CpuNoBreakpoint, CpuTornLookup, CpuFetch,
         CpuExecute, CpuFetchFault, CpuDataFault,
         CpuHalt, CpuFinalize, CpuSpuriousWake, MayExecute, Executed
<1>6. CASE GuiCheck \/ GuiLoad \/ GuiToggled \/ GuiFrameTerminated
          \/ GuiStore \/ GuiNotify \/ GuiJoin
  BY <1>6 DEF GuiCheck, GuiLoad, GuiToggled, GuiFrameTerminated, GuiStore,
         GuiNotify, GuiJoin
<1>7. CASE UNCHANGED vars
  BY <1>7 DEF vars
<1>8. QED
  BY <1>1, <1>2, <1>3, <1>4, <1>5, <1>6, <1>7
  DEF Next, CpuThread, CpuLookup, GuiThread, Terminated

\* KILL stays in force until the CPU halts itself.
LEMMA KillStep ==
    ASSUME TypeOK, SampleInv, KillInv, [Next]_vars
    PROVE  KillInv'
<1> USE DEF KillInv, TypeOK, UserState, SampleInv, Executing, vars, cpuVars,
           guiVars, machineVars, historyVars
<1>1. CASE CpuLoad
  BY <1>1 DEF CpuLoad
<1>2. CASE CpuTick
  BY <1>2 DEF CpuTick, MayExecute
<1>3. CASE CpuHalt
  BY <1>3 DEF CpuHalt
<1>4. CASE GuiCheck
  BY <1>4 DEF GuiCheck
<1>5. CASE GuiClose
  BY <1>5 DEF GuiClose
<1>6. CASE GuiStore
  BY <1>6 DEF GuiStore
<1>7. CASE CpuWait \/ CpuInterrupt \/ CpuLookup
          \/ CpuFetch \/ CpuExecute \/ CpuFetchFault \/ CpuDataFault
          \/ CpuFinalize \/ CpuSpuriousWake
  BY <1>7 DEF CpuWait, CpuInterrupt, CpuLookup, CpuSkipLookup,
         CpuReadPc, CpuBreakpoint, CpuNoBreakpoint, CpuTornLookup, CpuFetch,
         CpuExecute, CpuFetchFault, CpuDataFault, CpuFinalize,
         CpuSpuriousWake, Executed
<1>8. CASE GuiLoad
          \/ (\E click \in {"none", "run", "step"} : GuiFrame(click))
          \/ (\E a \in Addr : ToggleBreakpoint(a)) \/ GuiToggled
          \/ LoadProgram \/ GuiFrameTerminated \/ GuiNotify \/ GuiJoin
  BY <1>8 DEF GuiLoad, GuiFrame, ToggleBreakpoint, GuiToggled, LoadProgram,
         GuiFrameTerminated, GuiNotify, GuiJoin, Rendered, RenderResult
<1>9. CASE UNCHANGED vars
  BY <1>9 DEF vars
<1>10. QED
  BY <1>1, <1>2, <1>3, <1>4, <1>5, <1>6, <1>7, <1>8, <1>9
  DEF Next, CpuThread, CpuLookup, GuiThread, Terminated

\* The comparison of two samples (emulator.h:70) counts the requests.
LEMMA CreditStep ==
    ASSUME TypeOK, SampleInv, CreditInv, [Next]_vars
    PROVE  CreditInv'
<1> USE DEF CreditInv, SampleInv, StepBudget, MayExecute, Executing, vars,
           cpuVars, guiVars, machineVars, historyVars
<1>1. CASE CpuLoad
  BY <1>1 DEF CpuLoad
<1>2. CASE CpuInterrupt \/ CpuExecute
  BY <1>2 DEF CpuInterrupt, CpuExecute, Executed
<1>3. CASE CpuFinalize
  BY <1>3 DEF CpuFinalize
<1>4. CASE GuiStore
  BY <1>4 DEF GuiStore
<1>5. CASE CpuWait \/ CpuTick \/ CpuLookup \/ CpuFetch
          \/ CpuFetchFault \/ CpuDataFault \/ CpuHalt
          \/ CpuSpuriousWake
  BY <1>5 DEF CpuWait, CpuTick, CpuLookup, CpuSkipLookup,
         CpuReadPc, CpuBreakpoint, CpuNoBreakpoint, CpuTornLookup, CpuFetch,
         CpuFetchFault, CpuDataFault, CpuHalt, CpuSpuriousWake, MayExecute
<1>6. CASE GuiCheck \/ GuiLoad
          \/ (\E click \in {"none", "run", "step"} : GuiFrame(click))
          \/ (\E a \in Addr : ToggleBreakpoint(a)) \/ GuiToggled
          \/ LoadProgram \/ GuiClose \/ GuiFrameTerminated \/ GuiNotify
          \/ GuiJoin
  BY <1>6 DEF GuiCheck, GuiLoad, GuiFrame, ToggleBreakpoint, GuiToggled,
         LoadProgram, GuiClose, GuiFrameTerminated, GuiNotify, GuiJoin,
         Rendered, RenderResult
<1>7. CASE UNCHANGED vars
  BY <1>7 DEF vars
<1>8. QED
  BY <1>1, <1>2, <1>3, <1>4, <1>5, <1>6, <1>7
  DEF Next, CpuThread, CpuLookup, GuiThread, Terminated

\* A quiet machine stays quiet until a click gets through.
LEMMA QuietStep ==
    ASSUME TypeOK, SampleInv, FrameInv, QuietInv, [Next]_vars
    PROVE  QuietInv'
<1> USE DEF QuietInv, Quiet, SampleInv, FrameInv, MayExecute, Executing, vars,
           cpuVars, guiVars, machineVars, historyVars
<1>1. CASE CpuLoad
  BY <1>1 DEF CpuLoad
<1>2. CASE CpuTick
  BY <1>2 DEF CpuTick, MayExecute
<1>3. CASE CpuInterrupt \/ CpuExecute
  BY <1>3 DEF CpuInterrupt, CpuExecute, Executed
<1>4. CASE CpuHalt
  BY <1>4 DEF CpuHalt
<1>5. CASE CpuLookup
  <2>1. cpu \in {"dispatch", "lookup"} /\ UNCHANGED <<overrun, halted>>
    BY <1>5 DEF CpuLookup, CpuSkipLookup, CpuReadPc, CpuBreakpoint,
         CpuNoBreakpoint, CpuTornLookup
  <2>2. QED
    BY <2>1
<1>6. CASE CpuFetchFault
  BY <1>6 DEF CpuFetchFault
<1>7. CASE CpuDataFault
  BY <1>7 DEF CpuDataFault
<1>8. CASE CpuFetch
  BY <1>8 DEF CpuFetch
<1>9. CASE GuiStore
  <2>1. CASE new_state = gui_state
    BY <1>9, <2>1 DEF GuiStore
  <2>2. CASE new_state # gui_state
    <3>1. overrun' = 0
      BY <1>9, <2>2 DEF GuiStore
    <3>2. halted' => halted /\ ~clicked
      BY <1>9, <2>2, Zenon DEF GuiStore
    <3>3. /\ shared_state' = new_state
          /\ cpu' = cpu /\ current_state' = current_state /\ gui = "store"
      BY <1>9, <2>2 DEF GuiStore
    <3>4. QED
      <4>1. overrun' \in {0, 1} /\ (overrun' = 1 => Quiet')
        BY <3>1
      <4>2. ASSUME halted'
            PROVE  Quiet'
        <5>1. halted /\ ~clicked
          BY <3>2, <4>2, Zenon
        <5>2. new_state \in {"IDLE", "KILL"}
          BY <2>2, <3>3, <5>1
        <5>3. QED
          BY <3>3, <5>1, <5>2
      <4>3. QED
        BY <4>1, <4>2, Zenon
  <2>3. QED
    BY <2>1, <2>2
<1>10. CASE CpuWait \/ CpuFinalize \/ CpuSpuriousWake
  BY <1>10 DEF CpuWait, CpuFinalize, CpuSpuriousWake
<1>11. CASE GuiCheck \/ GuiLoad
          \/ (\E click \in {"none", "run", "step"} : GuiFrame(click))
          \/ (\E a \in Addr : ToggleBreakpoint(a)) \/ GuiToggled
          \/ LoadProgram \/ GuiClose \/ GuiFrameTerminated \/ GuiNotify
          \/ GuiJoin
  BY <1>11 DEF GuiCheck, GuiLoad, GuiFrame, ToggleBreakpoint, GuiToggled,
         LoadProgram, GuiClose, GuiFrameTerminated, GuiNotify, GuiJoin,
         Rendered, RenderResult
<1>12. CASE UNCHANGED vars
  BY <1>12 DEF vars
<1>13. QED
  BY <1>1, <1>2, <1>3, <1>4, <1>5, <1>6, <1>7, <1>8, <1>9, <1>10,
     <1>11, <1>12
  DEF Next, CpuThread, CpuLookup, GuiThread, Terminated

\* ran is cleared with the sample the breakpoint test looks at.
LEMMA RanStep ==
    ASSUME TypeOK, SampleInv, RanInv, [Next]_vars
    PROVE  RanInv'
<1> USE DEF RanInv, SampleInv, MayExecute, Executing, vars, cpuVars, guiVars,
           machineVars, historyVars
<1>1. CASE CpuLoad
  BY <1>1 DEF CpuLoad
<1>2. CASE CpuInterrupt \/ CpuExecute
  BY <1>2 DEF CpuInterrupt, CpuExecute, Executed
<1>3. CASE CpuFinalize
  BY <1>3 DEF CpuFinalize
<1>4. CASE CpuWait \/ CpuTick \/ CpuLookup \/ CpuFetch
          \/ CpuFetchFault \/ CpuDataFault \/ CpuHalt
          \/ CpuSpuriousWake
  BY <1>4 DEF CpuWait, CpuTick, CpuLookup, CpuSkipLookup,
         CpuReadPc, CpuBreakpoint, CpuNoBreakpoint, CpuTornLookup, CpuFetch,
         CpuFetchFault, CpuDataFault, CpuHalt, CpuSpuriousWake, MayExecute
<1>5. CASE GuiCheck \/ GuiLoad
          \/ (\E click \in {"none", "run", "step"} : GuiFrame(click))
          \/ (\E a \in Addr : ToggleBreakpoint(a)) \/ GuiToggled
          \/ LoadProgram \/ GuiClose \/ GuiFrameTerminated \/ GuiStore
          \/ GuiNotify \/ GuiJoin
  BY <1>5 DEF GuiCheck, GuiLoad, GuiFrame, ToggleBreakpoint, GuiToggled,
         LoadProgram, GuiClose, GuiFrameTerminated, GuiStore, GuiNotify,
         GuiJoin, Rendered, RenderResult
<1>6. CASE UNCHANGED vars
  BY <1>6 DEF vars
<1>7. QED
  BY <1>1, <1>2, <1>3, <1>4, <1>5, <1>6
  DEF Next, CpuThread, CpuLookup, GuiThread, Terminated

\* The two reads of pc (emulator.h:76, pipeline.h:104) and what the GUI does
\* between them: only a load changes pc, only a toggle changes the map.
LEMMA LookupStep ==
    ASSUME TypeOK, LookupInv, [Next]_vars
    PROVE  LookupInv'
<1> USE DEF LookupInv, vars, cpuVars, guiVars, machineVars, historyVars
<1>1. CASE CpuReadPc
  BY <1>1 DEF CpuReadPc
<1>2. CASE CpuNoBreakpoint
  BY <1>2 DEF CpuNoBreakpoint, HasBreakpoint
<1>3. CASE \E a \in Addr : ToggleBreakpoint(a)
  BY <1>3 DEF ToggleBreakpoint, Rendered
<1>4. CASE LoadProgram
  BY <1>4 DEF LoadProgram, Rendered
<1>5. CASE CpuLoad \/ CpuWait \/ CpuTick \/ CpuInterrupt \/ CpuSkipLookup
          \/ CpuBreakpoint \/ CpuTornLookup \/ CpuFetch \/ CpuExecute
          \/ CpuFetchFault \/ CpuDataFault \/ CpuHalt \/ CpuFinalize
          \/ CpuSpuriousWake
  BY <1>5 DEF CpuLoad, CpuWait, CpuTick, CpuInterrupt, CpuSkipLookup,
         CpuBreakpoint, CpuTornLookup, CpuFetch, CpuExecute, CpuFetchFault,
         CpuDataFault, CpuHalt, CpuFinalize, CpuSpuriousWake
<1>6. CASE GuiCheck \/ GuiLoad
          \/ (\E click \in {"none", "run", "step"} : GuiFrame(click))
          \/ GuiToggled \/ GuiClose \/ GuiFrameTerminated \/ GuiStore
          \/ GuiNotify \/ GuiJoin
  BY <1>6 DEF GuiCheck, GuiLoad, GuiFrame, GuiToggled, GuiClose,
         GuiFrameTerminated, GuiStore, GuiNotify, GuiJoin, Rendered
<1>7. CASE UNCHANGED vars
  BY <1>7 DEF vars
<1>8. QED
  BY <1>1, <1>2, <1>3, <1>4, <1>5, <1>6, <1>7 DEF Next, CpuThread, GuiThread,
     Terminated

\* The inductive invariant holds in every state of every behaviour.
THEOREM Inductive == Spec => []IInv
<1>1. Init => IInv
  <2> SUFFICES ASSUME Init
               PROVE  IInv
    OBVIOUS
  <2>1. TypeOK
    <3>1. clicked \in BOOLEAN /\ credit \in BOOLEAN /\ halted \in BOOLEAN
            /\ ran \in BOOLEAN
      BY Zenon DEF Init
    <3>2. QED
      BY <3>1, ProgramAssumption
      DEF Init, TypeOK, UserState, CpuLabel, GuiLabel
  <2>2. SampleInv /\ FrameInv /\ KillInv /\ CreditInv
    BY DEF Init, SampleInv, FrameInv, KillInv, CreditInv, StepBudget,
           Executing
  <2>3. QuietInv /\ RanInv /\ LookupInv
    BY DEF Init, QuietInv, Quiet, RanInv, LookupInv
  <2>4. QED
    BY <2>1, <2>2, <2>3 DEF IInv
<1>2. IInv /\ [Next]_vars => IInv'
  BY ProgramAssumption, TypeStep, SampleStep, FrameStep, KillStep, CreditStep,
     QuietStep, RanStep, LookupStep DEF IInv
<1>3. QED
  BY <1>1, <1>2, PTL DEF Spec

-----------------------------------------------------------------------------
(***************************************************************************)
(* The properties                                                          *)
(***************************************************************************)

\* Every variable keeps its type, for every set of addresses.
THEOREM TypeCorrect == Spec => []TypeOK
<1>1. IInv => TypeOK
  BY DEF IInv
<1>2. QED
  BY <1>1, Inductive, PTL

\* A SINGLE_STEP sample is never executed twice: each execution under one
\* spends a request of the user (emulator.h:70).
THEOREM StepIsBudgeted == Spec => []StepBudget
<1>1. IInv => StepBudget
  BY DEF IInv, CreditInv
<1>2. QED
  BY <1>1, Inductive, PTL

\* After IDLE or KILL was published at most one more instruction is executed.
THEOREM StopsWithinOne == Spec => []StopLatency
<1>1. IInv => StopLatency
  BY DEF IInv, QuietInv, StopLatency
<1>2. QED
  BY <1>1, Inductive, PTL

\* A CPU that stopped itself executes nothing until a click gets through.
THEOREM HaltHolds == Spec => []HaltIsFinal
<1>1. IInv => HaltIsFinal
  BY DEF IInv, QuietInv, Quiet, HaltIsFinal, Executing
<1>2. QED
  BY <1>1, Inductive, PTL

\* The CPU thread exits only when the window was closed, and KILL persists.
THEOREM ExitNeedsKill == Spec => []ExitOnlyOnKill
<1>1. IInv => ExitOnlyOnKill
  BY DEF IInv, KillInv, ExitOnlyOnKill
<1>2. QED
  BY <1>1, Inductive, PTL

\* A run that has begun executes the instruction at a breakpoint only if the
\* user toggled during or after the lookup, or loaded a program between the two
\* reads of pc and Entry is that breakpoint.
THEOREM BreakpointHolds == Spec => BreakpointStopsRun
<1> DEFINE Through == cpu = "fetch" /\ cpu' = "execute" /\ ran
                        /\ pc \in breakpoints
           Excused == \/ "toggle" \in meddled
                      \/ "load" \in meddled /\ pc = Entry
<1>1. IInv => (Through => Excused)
  <2> SUFFICES ASSUME IInv, Through, "toggle" \notin meddled
               PROVE  "load" \in meddled /\ pc = Entry
    OBVIOUS
  <2>1. previous_state # "IDLE"
    BY DEF IInv, RanInv, Executing
  <2>2. pc_val \notin breakpoints
    BY <2>1 DEF IInv, LookupInv
  <2>3. QED
    BY <2>1, <2>2 DEF IInv, LookupInv
<1>2. IInv /\ [Next]_vars => [Through => Excused]_vars
  BY <1>1
<1>3. QED
  BY <1>2, Inductive, PTL DEF Spec, BreakpointStopsRun

-----------------------------------------------------------------------------
(***************************************************************************)
(* Refinement: the threads implement ExecutionControl                      *)
(***************************************************************************)

\* The licence, case by case.
LEMMA LicenceValues ==
    /\ cpu = "aborted" => LicenceOf = "crashed"
    /\ cpu = "exited" => LicenceOf = "exited"
    /\ cpu = "halt" => LicenceOf = "halting"
    /\ cpu \in {"tick"} \cup Executing /\ MayExecute
         => LicenceOf = IF current_state = "STEP" THEN "run" ELSE "single"
    /\ cpu \in {"tick"} \cup Executing /\ ~MayExecute
         => LicenceOf = "none"
    /\ cpu \in {"load", "lock", "wait", "finalize"} => LicenceOf = "none"
BY DEF LicenceOf, Executing

\* The same in the next state.
LEMMA LicenceValuesNext ==
    /\ cpu' = "aborted" => LicenceOf' = "crashed"
    /\ cpu' = "exited" => LicenceOf' = "exited"
    /\ cpu' = "halt" => LicenceOf' = "halting"
    /\ cpu' \in {"tick"} \cup Executing /\ MayExecute'
         => LicenceOf' = IF current_state' = "STEP" THEN "run" ELSE "single"
    /\ cpu' \in {"tick"} \cup Executing /\ ~MayExecute'
         => LicenceOf' = "none"
    /\ cpu' \in {"load", "lock", "wait", "finalize"} => LicenceOf' = "none"
BY DEF LicenceOf, Executing

\* Every step of the two threads is a step of the controls, or invisible.
LEMMA ControlStep ==
    ASSUME IInv, [Next]_vars
    PROVE  [Control!Next]_(Control!vars)
<1> USE LicenceValues, LicenceValuesNext
    DEF Control!Next, Control!vars, MayExecute, Executing, vars, cpuVars,
        guiVars, machineVars, historyVars
<1>1. CASE CpuLoad
  <2>1. LicenceOf = "none" /\ shared_state' = shared_state /\ credit' = credit
    BY <1>1 DEF CpuLoad
  <2>2. CASE shared_state = "STEP"
    BY <1>1, <2>1, <2>2 DEF CpuLoad, Control!GrantRun
  <2>3. CASE shared_state = "SINGLE_STEP" /\ previous_state # "SINGLE_STEP"
    BY <1>1, <2>1, <2>3 DEF CpuLoad, Control!GrantStep, IInv, CreditInv
  <2>4. CASE /\ shared_state # "STEP"
             /\ ~(shared_state = "SINGLE_STEP" /\ previous_state # "SINGLE_STEP")
    BY <1>1, <2>1, <2>4 DEF CpuLoad
  <2>5. QED
    BY <2>2, <2>3, <2>4
<1>2. CASE CpuTick
  <2>1. CASE MayExecute
    BY <1>2, <2>1 DEF CpuTick
  <2>2. CASE ~MayExecute /\ current_state = "KILL"
    BY <1>2, <2>2 DEF CpuTick, Control!Exit, IInv, KillInv
  <2>3. CASE ~MayExecute /\ current_state # "KILL"
    BY <1>2, <2>3 DEF CpuTick
  <2>4. QED
    BY <2>1, <2>2, <2>3
<1>3. CASE CpuInterrupt \/ CpuExecute
  BY <1>3 DEF CpuInterrupt, CpuExecute, Executed, Control!Execute, IInv,
              SampleInv
<1>4. CASE CpuBreakpoint
  BY <1>4 DEF CpuBreakpoint, Control!GiveUp, IInv, SampleInv
<1>5. CASE CpuFetchFault
  BY <1>5 DEF CpuFetchFault, Control!GiveUp, IInv, SampleInv
<1>6. CASE CpuTornLookup
  BY <1>6 DEF CpuTornLookup, Control!GiveUp, IInv, SampleInv
<1>7. CASE CpuDataFault
  BY <1>7 DEF CpuDataFault, Control!GiveUp, IInv, SampleInv
<1>8. CASE CpuHalt
  BY <1>8 DEF CpuHalt, Control!Withdraw
<1>9. CASE CpuSkipLookup \/ CpuReadPc \/ CpuNoBreakpoint \/ CpuFetch
  <2>1. /\ cpu \in Executing /\ cpu' \in Executing
        /\ UNCHANGED <<shared_state, current_state, previous_state, credit>>
    BY <1>9 DEF CpuSkipLookup, CpuReadPc, CpuNoBreakpoint, CpuFetch
  <2>2. LicenceOf' = LicenceOf
    BY <2>1
  <2>3. QED
    BY <2>1, <2>2
<1>10. CASE CpuWait
  BY <1>10 DEF CpuWait
<1>11. CASE CpuFinalize
  BY <1>11 DEF CpuFinalize
<1>12. CASE CpuSpuriousWake
  BY <1>12 DEF CpuSpuriousWake, IInv, SampleInv
<1>13. CASE GuiStore
  <2>1. LicenceOf' = LicenceOf
    BY <1>13 DEF GuiStore, LicenceOf
  <2>2. CASE new_state = gui_state
    BY <1>13, <2>1, <2>2 DEF GuiStore
  <2>3. CASE new_state # gui_state
    <3>1. /\ shared_state' = new_state
          /\ credit' = (credit \/ new_state = "SINGLE_STEP")
          /\ gui = "store"
      BY <1>13, <2>3 DEF GuiStore
    <3>2. shared_state # "KILL" /\ new_state \in Control!Command
      BY <3>1 DEF IInv, KillInv, TypeOK, UserState, Control!Command
    <3>3. Control!Publish(new_state)
      BY <2>1, <3>1, <3>2 DEF Control!Publish
    <3>4. QED
      BY <3>2, <3>3
  <2>4. QED
    BY <2>2, <2>3
<1>14. CASE GuiNotify
  <2>1. LicenceOf' = LicenceOf
    BY <1>14 DEF GuiNotify, IInv, SampleInv, TypeOK, CpuLabel
  <2>2. QED
    BY <1>14, <2>1 DEF GuiNotify
<1>15. CASE \/ GuiCheck \/ GuiLoad \/ GuiToggled \/ LoadProgram \/ GuiClose
            \/ GuiFrameTerminated \/ GuiJoin
            \/ (\E click \in {"none", "run", "step"} : GuiFrame(click))
            \/ (\E a \in Addr : ToggleBreakpoint(a))
            \/ UNCHANGED vars
  <2>1. UNCHANGED <<shared_state, credit, cpu, current_state, previous_state>>
    BY <1>15 DEF GuiCheck, GuiLoad, GuiToggled, LoadProgram, GuiClose,
         GuiFrameTerminated, GuiJoin, GuiFrame, ToggleBreakpoint, Rendered
  <2>2. LicenceOf' = LicenceOf
    BY <2>1 DEF LicenceOf
  <2>3. QED
    BY <2>1, <2>2
<1>16. QED
  BY <1>1, <1>2, <1>3, <1>4, <1>5, <1>6, <1>7, <1>8, <1>9, <1>10, <1>11,
     <1>12, <1>13, <1>14, <1>15 DEF Next, CpuThread, GuiThread, Terminated

\* The threads implement the controls: an execution needs a licence from the
\* command in force, a step executes once, KILL is final, and a CPU that
\* stops itself withdraws the command (emulator.h:57-109).
THEOREM ImplementsControl == Spec => ControlSpec
<1>1. Init => Control!Init
  BY LicenceValues DEF Init, Control!Init
<1>2. IInv /\ [Next]_vars => [Control!Next]_(Control!vars)
  BY ControlStep
<1>3. QED
  BY <1>1, <1>2, Inductive, PTL DEF Spec, ControlSpec, Control!Spec
=============================================================================
