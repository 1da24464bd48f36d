------------------------ MODULE PortInterruptsProofs ------------------------
(***************************************************************************)
(* Proofs about PortInterrupts, for every program made of read-modify-     *)
(* write instructions on the port registers.                               *)
(***************************************************************************)
EXTENDS PortInterrupts, TLAPS

\* A CPU that polls has found GIE set; one that restores SR has saved the bit
\* that belongs to its context.
PollInv ==
    /\ cpu \in {"port1", "port2"} => gie
    /\ cpu = "store" => value \subseteq Pin
    /\ cpu = "restore" => ("gie" \in value <=> context = Main)

\* What is set and was not seen by who modifies the byte is what he missed.
MissedInv ==
    /\ \A p \in Port : CpuModifies(p) => ifg[p] \ value \subseteq cpu_missed
    /\ \A p \in Port : GuiModifies(p) => ifg[p] \ ifg_value \subseteq gui_missed

\* And what was seen and is not set any more, he will put back unless he clears
\* it himself.
DroppedInv ==
    /\ \A p \in Port : CpuModifies(p) => value \ ifg[p] \subseteq cpu_dropped
    /\ \A p \in Port : GuiModifies(p) => ifg_value \ ifg[p] \subseteq gui_dropped

\* What generate_interrupt has tested still holds, unless the program stored the
\* register since.
WantedInv ==
    LET p == slot[2] IN
    /\ Tested("ie") => "button" \in ie[p] \/ "ie" \in overtaken
    /\ Tested("ies") => ("button" \in ies[p]) # rising \/ "ies" \in overtaken

IInv == /\ TypeOK /\ PollInv /\ GieFollowsContext /\ HandlersDoNotNest
        /\ MissedInv /\ DroppedInv /\ WantedInv

-----------------------------------------------------------------------------
\* What main is interrupted with.
Frame == [context |-> Main, gie |-> TRUE]

\* A handler is entered from the main program, with interrupts enabled.
LEMMA EnterFromMain ==
    ASSUME IInv, NEW p \in Port, cpu \in {"port1", "port2"}, Enter(p)
    PROVE  stack' = <<Frame>> /\ context' = p /\ gie' = FALSE
<1>1. gie /\ cpu # "restore"
  BY DEF IInv, PollInv
<1>2. context = Main
  BY <1>1 DEF IInv, GieFollowsContext
<1>3. stack = <<>>
  BY <1>2 DEF IInv, HandlersDoNotNest
<1>4. gie = TRUE
  BY <1>1 DEF IInv, TypeOK
<1>5. stack' = <<Frame>> \o <<>>
  BY <1>2, <1>3, <1>4 DEF Enter, Frame
<1>6. <<Frame>> \o <<>> = <<Frame>>
  OBVIOUS
<1>7. QED
  BY <1>5, <1>6, Zenon DEF Enter

\* And it returns there.
LEMMA RetiToMain ==
    ASSUME IInv, Reti
    PROVE  stack' = <<>> /\ context' = Main /\ gie' = TRUE
<1>1. stack = <<Frame>>
  BY DEF IInv, HandlersDoNotNest, Reti, Frame
<1>2. Head(stack) = Frame /\ Tail(stack) = <<>>
  BY <1>1
<1>3. Frame.context = Main /\ Frame.gie = TRUE
  BY DEF Frame
<1>4. QED
  BY <1>2, <1>3, Zenon DEF Reti

\* The histories, too.
LEMMA HistoryTypeStep ==
    ASSUME IInv, [Next]_vars
    PROVE  /\ cpu_missed' \subseteq Pin /\ gui_missed' \subseteq Pin
           /\ cpu_dropped' \subseteq Pin /\ gui_dropped' \subseteq Pin
           /\ overtaken' \subseteq {"ie", "ies"}
<1>0. /\ ifg \in [Port -> SUBSET Pin] /\ ifg_value \subseteq Pin
      /\ slot[2] \in Port /\ pending.port \in Port
      /\ pending.set \subseteq Pin
      /\ cpu_missed \subseteq Pin /\ gui_missed \subseteq Pin
      /\ cpu_dropped \subseteq Pin /\ gui_dropped \subseteq Pin
      /\ overtaken \subseteq {"ie", "ies"}
  BY DEF IInv, TypeOK, Slot, Instruction
<1>1. CASE StoreFlags
  BY <1>0, <1>1 DEF StoreFlags, Pin
<1>2. CASE StoreOperand
  <2>1. cpu_missed' \subseteq Pin /\ cpu_dropped' \subseteq Pin
    BY <1>2 DEF StoreOperand
  <2>2. value \subseteq Pin
    BY <1>2 DEF StoreOperand, IInv, PollInv
  <2>3. gui_missed' \subseteq Pin /\ gui_dropped' \subseteq Pin
    BY <1>0, <1>2, <2>2 DEF StoreOperand
  <2>4. overtaken' \subseteq {"ie", "ies"}
    BY <1>0, <1>2 DEF StoreOperand, Tested
  <2>5. QED
    BY <2>1, <2>3, <2>4
<1>3. CASE TestEdge
  BY <1>0, <1>3 DEF TestEdge, Overlaps
<1>4. CASE ~StoreFlags /\ ~StoreOperand /\ ~TestEdge
  <2>1. UNCHANGED historyVars
    BY <1>4 DEF Next, Gui, Cpu, BoardButton, KeyEvent, NoKeyEvent, TestEnabled,
           LoadFlags, TestGie, PollPort1, PollPort2, Other, Reti,
           RestoreStatus, LoadOperand, WriteStatus, CpuRest, vars
  <2>2. QED
    BY <1>0, <2>1 DEF historyVars
<1>5. QED
  BY <1>1, <1>2, <1>3, <1>4

\* Every step keeps the variables in their types.
LEMMA TypeStep ==
    ASSUME IInv, [Next]_vars
    PROVE  TypeOK'
<1> USE ProgramType, HistoryTypeStep
    DEF IInv, TypeOK, Port, Pin, Main, Context, Slot, CpuStage, GuiStage,
        Instruction, vars, portVars, cpuVars, guiVars, historyVars, CpuRest
<1>1. NextSlot \in Slot
  BY DEF NextSlot
<1>0. <<Frame>> \in Seq([context : Context, gie : BOOLEAN])
  BY DEF Frame
<1>2. ASSUME NEW click \in BOOLEAN, BoardButton(click)
      PROVE  TypeOK'
  <2>1. (pressed[slot[2]] # click) \in BOOLEAN /\ slot[2] \in Port
    OBVIOUS
  <2>2. CASE click
    BY <1>2, <2>1, <2>2 DEF BoardButton
  <2>3. CASE ~click
    BY <1>1, <1>2, <2>1, <2>3 DEF BoardButton, Advance
  <2>4. QED
    BY <2>2, <2>3
<1>3. ASSUME NEW down \in BOOLEAN, KeyEvent(down)
      PROVE  TypeOK'
  BY <1>3 DEF KeyEvent
<1>4. CASE NoKeyEvent
  BY <1>1, <1>4 DEF NoKeyEvent, Advance
<1>5. CASE TestEnabled
  BY <1>1, <1>5 DEF TestEnabled, Advance
<1>6. CASE TestEdge
  BY <1>1, <1>6 DEF TestEdge, Overlaps, Advance
<1>7. CASE LoadFlags
  BY <1>7 DEF LoadFlags
<1>8. CASE StoreFlags
  BY <1>1, <1>8 DEF StoreFlags, Advance
<1>9. CASE TestGie
  BY <1>9 DEF TestGie
<1>10. CASE PollPort1
  <2>1. CASE ifg[1] # {}
    <3>1. stack' = <<Frame>> /\ context' = 1 /\ gie' = FALSE
      BY <1>10, <2>1, EnterFromMain DEF PollPort1
    <3>2. QED
      BY <1>0, <1>10, <2>1, <3>1 DEF PollPort1, Enter
  <2>2. CASE ifg[1] = {}
    BY <1>10, <2>2 DEF PollPort1
  <2>3. QED
    BY <2>1, <2>2
<1>11. CASE PollPort2
  <2>1. CASE ifg[2] # {}
    <3>1. stack' = <<Frame>> /\ context' = 2 /\ gie' = FALSE
      BY <1>11, <2>1, EnterFromMain DEF PollPort2
    <3>2. QED
      BY <1>0, <1>11, <2>1, <3>1 DEF PollPort2, Enter
  <2>2. CASE ifg[2] = {}
    BY <1>11, <2>2 DEF PollPort2
  <2>3. QED
    BY <2>1, <2>2
<1>12. CASE Other
  BY <1>12 DEF Other
<1>13. CASE Reti
  <2>1. stack' = <<>> /\ context' = Main /\ gie' = TRUE
    BY <1>13, RetiToMain
  <2>2. cpu' = "gie" /\ UNCHANGED <<pending, value, portVars, guiVars, historyVars>>
    BY <1>13 DEF Reti
  <2>3. QED
    BY <2>1, <2>2
<1>14. CASE StoreOperand
  <2>1. value \subseteq Pin
    BY <1>14 DEF StoreOperand, PollInv
  <2>2. QED
    BY <1>14, <2>1 DEF StoreOperand, Nothing
<1>15. CASE RestoreStatus
  BY <1>15 DEF RestoreStatus
<1>16. ASSUME NEW i \in Program, LoadOperand(i)
       PROVE  TypeOK'
  BY <1>16 DEF LoadOperand, Register
<1>17. ASSUME NEW bit \in BOOLEAN, WriteStatus(bit)
       PROVE  TypeOK'
  BY <1>17 DEF WriteStatus
<1>18. CASE UNCHANGED vars
  BY <1>18
<1>19. QED
  BY <1>2, <1>3, <1>4, <1>5, <1>6, <1>7, <1>8, <1>9, <1>10, <1>11, <1>12,
     <1>13, <1>14, <1>15, <1>16, <1>17, <1>18 DEF Next, Gui, Cpu

\* Handlers start from main and return to it (pipeline.h:85-101,
\* instructions.h:328-337).
LEMMA NestStep ==
    ASSUME IInv, [Next]_vars
    PROVE  HandlersDoNotNest'
<1> USE DEF vars, cpuVars, CpuRest
<1>1. context \in Context /\ Main \notin Port
  BY DEF IInv, TypeOK, Main, Port
<1>2. CASE PollPort1
  <2>1. CASE ifg[1] # {}
    <3>1. stack' = <<Frame>> /\ context' = 1
      BY <1>2, <2>1, EnterFromMain DEF PollPort1, Port
    <3>2. QED
      BY <3>1 DEF HandlersDoNotNest, Frame, Main
  <2>2. CASE ifg[1] = {}
    BY <1>2, <2>2 DEF PollPort1, IInv, HandlersDoNotNest
  <2>3. QED
    BY <2>1, <2>2
<1>3. CASE PollPort2
  <2>1. CASE ifg[2] # {}
    <3>1. stack' = <<Frame>> /\ context' = 2
      BY <1>3, <2>1, EnterFromMain DEF PollPort2, Port
    <3>2. QED
      BY <3>1 DEF HandlersDoNotNest, Frame, Main
  <2>2. CASE ifg[2] = {}
    BY <1>3, <2>2 DEF PollPort2, IInv, HandlersDoNotNest
  <2>3. QED
    BY <2>1, <2>2
<1>4. CASE Reti
  BY <1>4, RetiToMain DEF HandlersDoNotNest
<1>5. CASE Gui \/ TestGie \/ Other \/ StoreOperand \/ RestoreStatus
           \/ (\E i \in Program : LoadOperand(i))
           \/ (\E bit \in BOOLEAN : WriteStatus(bit)) \/ UNCHANGED vars
  <2>1. UNCHANGED <<stack, context>>
    BY <1>5 DEF Gui, BoardButton, KeyEvent, NoKeyEvent, TestEnabled, TestEdge,
           LoadFlags, StoreFlags, TestGie, Other, StoreOperand, RestoreStatus,
           LoadOperand, WriteStatus
  <2>2. QED
    BY <2>1 DEF IInv, HandlersDoNotNest
<1>6. QED
  BY <1>2, <1>3, <1>4, <1>5 DEF Next, Cpu

\* GIE belongs to the context: entry clears it, RETI restores it, and a write
\* of SR is undone (instructions.h:357-370).
LEMMA GieStep ==
    ASSUME IInv, [Next]_vars
    PROVE  GieFollowsContext' /\ PollInv'
<1> USE DEF PollInv, GieFollowsContext, vars, cpuVars, CpuRest
<1>0. gie \in BOOLEAN /\ context \in Context /\ Main \notin Port
  BY DEF IInv, TypeOK, Main, Port
<1>1. CASE PollPort1
  <2>1. CASE ifg[1] # {}
    <3>1. gie' = FALSE /\ context' = 1 /\ cpu' = "gie"
      BY <1>1, <2>1, EnterFromMain DEF PollPort1, Port, Enter
    <3>2. QED
      BY <3>1 DEF Main
  <2>2. CASE ifg[1] = {}
    BY <1>1, <2>2 DEF PollPort1, IInv
  <2>3. QED
    BY <2>1, <2>2
<1>2. CASE PollPort2
  <2>1. CASE ifg[2] # {}
    <3>1. gie' = FALSE /\ context' = 2 /\ cpu' = "gie"
      BY <1>2, <2>1, EnterFromMain DEF PollPort2, Port, Enter
    <3>2. QED
      BY <3>1 DEF Main
  <2>2. CASE ifg[2] = {}
    BY <1>2, <2>2 DEF PollPort2, IInv
  <2>3. QED
    BY <2>1, <2>2
<1>3. CASE Reti
  <2>1. cpu' = "gie" /\ context' = Main /\ gie' = TRUE
    BY <1>3, RetiToMain DEF Reti
  <2>2. QED
    BY <2>1
<1>4. CASE TestGie
  BY <1>4 DEF TestGie, IInv
<1>5. CASE Other
  BY <1>5 DEF Other, IInv
<1>6. CASE StoreOperand
  BY <1>6 DEF StoreOperand, IInv
<1>7. CASE RestoreStatus
  BY <1>7 DEF RestoreStatus, IInv
<1>8. ASSUME NEW i \in Program, LoadOperand(i)
      PROVE  GieFollowsContext' /\ PollInv'
  <2>1. Register(i.reg)[i.port] \subseteq Pin
    BY ProgramType DEF Register, IInv, TypeOK, Instruction
  <2>2. QED
    BY <1>8, <2>1 DEF LoadOperand, IInv
<1>9. ASSUME NEW bit \in BOOLEAN, WriteStatus(bit)
      PROVE  GieFollowsContext' /\ PollInv'
  <2>1. cpu' = "restore" /\ context' = context /\ value' = {g \in {"gie"} : gie}
    BY <1>9 DEF WriteStatus
  <2>2. gie <=> context = Main
    BY <1>9 DEF WriteStatus, IInv
  <2>3. QED
    BY <2>1, <2>2
<1>10. CASE Gui \/ UNCHANGED vars
  <2>1. UNCHANGED <<gie, context, cpu, value>>
    BY <1>10 DEF Gui, BoardButton, KeyEvent, NoKeyEvent, TestEnabled, TestEdge,
           LoadFlags, StoreFlags
  <2>2. QED
    BY <2>1 DEF IInv
<1>11. QED
  BY <1>1, <1>2, <1>3, <1>4, <1>5, <1>6, <1>7, <1>8, <1>9, <1>10 DEF Next, Cpu

\* Each thread's account of what the other stored since its load.
LEMMA MissedStep ==
    ASSUME IInv, [Next]_vars
    PROVE  MissedInv'
<1> USE DEF MissedInv, CpuModifies, GuiModifies, vars, portVars, cpuVars,
        guiVars, historyVars, CpuRest
<1>0. /\ ifg \in [Port -> SUBSET Pin]
      /\ slot[2] \in Port /\ pending.port \in Port
  BY DEF IInv, TypeOK, Slot, Instruction
<1>1. ASSUME NEW click \in BOOLEAN, BoardButton(click)
      PROVE  MissedInv'
  BY <1>1 DEF BoardButton, Advance, IInv
<1>2. ASSUME NEW down \in BOOLEAN, KeyEvent(down)
      PROVE  MissedInv'
  BY <1>2 DEF KeyEvent, IInv
<1>3. CASE NoKeyEvent \/ TestEnabled \/ TestEdge
  BY <1>3 DEF NoKeyEvent, TestEnabled, TestEdge, Overlaps, Advance, IInv
<1>4. CASE LoadFlags
  BY <1>4 DEF LoadFlags, IInv
<1>5. CASE StoreFlags
  BY <1>0, <1>5 DEF StoreFlags, Advance, IInv
<1>6. CASE StoreOperand
  BY <1>0, <1>6 DEF StoreOperand, IInv
<1>7. ASSUME NEW i \in Program, LoadOperand(i)
      PROVE  MissedInv'
  BY <1>7 DEF LoadOperand, Register, IInv
<1>8. CASE TestGie
  BY <1>8 DEF TestGie, IInv
<1>9. CASE PollPort1 \/ PollPort2 \/ Other \/ Reti \/ RestoreStatus
           \/ (\E bit \in BOOLEAN : WriteStatus(bit)) \/ UNCHANGED vars
  <2>1. /\ UNCHANGED <<ifg, gui, slot, ifg_value, cpu_missed, gui_missed>>
        /\ cpu' # "store" \/ UNCHANGED <<cpu, pending, value>>
    BY <1>9 DEF PollPort1, PollPort2, Enter, Other, Reti, RestoreStatus,
           WriteStatus
  <2>2. QED
    BY <2>1 DEF IInv
<1>10. QED
  BY <1>1, <1>2, <1>3, <1>4, <1>5, <1>6, <1>7, <1>8, <1>9 DEF Next, Gui, Cpu

\* The same for what the other cleared.
LEMMA DroppedStep ==
    ASSUME IInv, [Next]_vars
    PROVE  DroppedInv'
<1> USE DEF DroppedInv, CpuModifies, GuiModifies, vars, portVars, cpuVars,
        guiVars, historyVars, CpuRest
<1>0. /\ ifg \in [Port -> SUBSET Pin]
      /\ slot[2] \in Port /\ pending.port \in Port
  BY DEF IInv, TypeOK, Slot, Instruction
<1>1. ASSUME NEW click \in BOOLEAN, BoardButton(click)
      PROVE  DroppedInv'
  BY <1>1 DEF BoardButton, Advance, IInv
<1>2. ASSUME NEW down \in BOOLEAN, KeyEvent(down)
      PROVE  DroppedInv'
  BY <1>2 DEF KeyEvent, IInv
<1>3. CASE NoKeyEvent \/ TestEnabled \/ TestEdge
  BY <1>3 DEF NoKeyEvent, TestEnabled, TestEdge, Overlaps, Advance, IInv
<1>4. CASE LoadFlags
  BY <1>4 DEF LoadFlags, IInv
<1>5. CASE StoreFlags
  BY <1>0, <1>5 DEF StoreFlags, Advance, IInv
<1>6. CASE StoreOperand
  BY <1>0, <1>6 DEF StoreOperand, IInv
<1>7. ASSUME NEW i \in Program, LoadOperand(i)
      PROVE  DroppedInv'
  BY <1>7 DEF LoadOperand, Register, IInv
<1>8. CASE TestGie
  BY <1>8 DEF TestGie, IInv
<1>9. CASE PollPort1 \/ PollPort2 \/ Other \/ Reti \/ RestoreStatus
           \/ (\E bit \in BOOLEAN : WriteStatus(bit)) \/ UNCHANGED vars
  <2>1. /\ UNCHANGED <<ifg, gui, slot, ifg_value, cpu_dropped, gui_dropped>>
        /\ cpu' # "store" \/ UNCHANGED <<cpu, pending, value>>
    BY <1>9 DEF PollPort1, PollPort2, Enter, Other, Reti, RestoreStatus,
           WriteStatus
  <2>2. QED
    BY <2>1 DEF IInv
<1>10. QED
  BY <1>1, <1>2, <1>3, <1>4, <1>5, <1>6, <1>7, <1>8, <1>9 DEF Next, Gui, Cpu

\* A test of IE or IES is overtaken only by a store of that register.
LEMMA WantedStep ==
    ASSUME IInv, [Next]_vars
    PROVE  WantedInv'
<1> USE DEF WantedInv, Tested, vars, portVars, cpuVars, guiVars, historyVars,
        CpuRest
<1>0. /\ ie \in [Port -> SUBSET Pin] /\ ies \in [Port -> SUBSET Pin]
      /\ slot[2] \in Port /\ pending.port \in Port /\ rising \in BOOLEAN
  BY DEF IInv, TypeOK, Slot, Instruction
<1>1. ASSUME NEW click \in BOOLEAN, BoardButton(click)
      PROVE  WantedInv'
  <2>1. gui' \in {"input", "enabled"}
    BY <1>1 DEF BoardButton, Advance
  <2>2. QED
    BY <2>1
<1>2. CASE NoKeyEvent \/ LoadFlags \/ StoreFlags
           \/ \E down \in BOOLEAN : KeyEvent(down)
  <2>1. \/ gui' \in {"input", "enabled"}
        \/ /\ gui = "load" /\ gui' = "store"
           /\ UNCHANGED <<ie, ies, slot, rising, overtaken>>
    BY <1>2 DEF NoKeyEvent, LoadFlags, StoreFlags, KeyEvent, Advance
  <2>2. QED
    BY <2>1 DEF IInv
<1>3. CASE TestEnabled
  BY <1>3 DEF TestEnabled, Advance, IInv
<1>4. CASE TestEdge
  BY <1>4 DEF TestEdge, Overlaps, Advance, IInv
<1>5. CASE StoreOperand
  <2>1. UNCHANGED <<gui, slot, rising>>
    BY <1>5 DEF StoreOperand
  <2>2. /\ \/ pending.reg = "ie" /\ pending.port = slot[2]
           \/ ie'[slot[2]] = ie[slot[2]]
        /\ \/ pending.reg = "ies" /\ pending.port = slot[2]
           \/ ies'[slot[2]] = ies[slot[2]]
    BY <1>0, <1>5 DEF StoreOperand
  <2>3. /\ overtaken \subseteq overtaken'
        /\ pending.port = slot[2] /\ Tested(pending.reg)
             => pending.reg \in overtaken'
    BY <1>5 DEF StoreOperand
  <2>4. QED
    BY <2>1, <2>2, <2>3 DEF IInv
<1>6. CASE TestGie \/ PollPort1 \/ PollPort2 \/ Other \/ Reti \/ RestoreStatus
           \/ (\E i \in Program : LoadOperand(i))
           \/ (\E bit \in BOOLEAN : WriteStatus(bit)) \/ UNCHANGED vars
  <2>1. UNCHANGED <<ie, ies, gui, slot, rising, overtaken>>
    BY <1>6 DEF TestGie, PollPort1, PollPort2, Enter, Other, Reti,
           RestoreStatus, LoadOperand, WriteStatus
  <2>2. QED
    BY <2>1 DEF IInv
<1>7. QED
  BY <1>1, <1>2, <1>3, <1>4, <1>5, <1>6 DEF Next, Gui, Cpu

\* The inductive invariant holds in every state of every behaviour.
THEOREM Inductive == Spec => []IInv
<1>1. Init => IInv
  <2> SUFFICES ASSUME Init
               PROVE  IInv
    OBVIOUS
  <2>1. TypeOK
    <3> USE DEF Init, Port, Pin, Main, Context, CpuStage, GuiStage, Slot,
                Instruction, Nothing
    <3>1. gie \in BOOLEAN /\ rising \in BOOLEAN
      BY Zenon
    <3>2. /\ in \in [Port -> BOOLEAN] /\ pressed \in [Port -> BOOLEAN]
          /\ ifg \in [Port -> SUBSET Pin] /\ ie \in [Port -> SUBSET Pin]
          /\ ies \in [Port -> SUBSET Pin]
      OBVIOUS
    <3>3. stack \in Seq([context : Context, gie : BOOLEAN])
      OBVIOUS
    <3>4. /\ context \in Context /\ cpu \in CpuStage /\ gui \in GuiStage
          /\ slot \in Slot /\ pending \in Instruction
      OBVIOUS
    <3>5. /\ value \subseteq Pin \cup {"gie"} /\ ifg_value \subseteq Pin
          /\ cpu_missed \subseteq Pin /\ gui_missed \subseteq Pin
          /\ cpu_dropped \subseteq Pin /\ gui_dropped \subseteq Pin
          /\ overtaken \subseteq {"ie", "ies"}
      OBVIOUS
    <3>6. QED
      BY <3>1, <3>2, <3>3, <3>4, <3>5 DEF TypeOK
  <2>2. PollInv /\ GieFollowsContext /\ MissedInv /\ DroppedInv /\ WantedInv
    BY DEF Init, PollInv, GieFollowsContext, MissedInv, DroppedInv, WantedInv,
           CpuModifies, GuiModifies, Tested
  <2>3. HandlersDoNotNest
    BY DEF Init, HandlersDoNotNest
  <2>4. QED
    BY <2>1, <2>2, <2>3 DEF IInv
<1>2. IInv /\ [Next]_vars => IInv'
  BY TypeStep, NestStep, GieStep, MissedStep, DroppedStep, WantedStep
  DEF IInv
<1>3. QED
  BY <1>1, <1>2, PTL DEF Spec

-----------------------------------------------------------------------------
\* Every variable keeps its type, for every program.
THEOREM TypeCorrect == Spec => []TypeOK
<1>1. IInv => TypeOK
  BY DEF IInv
<1>2. QED
  BY <1>1, Inductive, PTL

\* No program makes handlers nest, and each returns to the main program.
THEOREM NoNesting == Spec => []HandlersDoNotNest
<1>1. IInv => HandlersDoNotNest
  BY DEF IInv
<1>2. QED
  BY <1>1, Inductive, PTL

\* No program ever changes whether interrupts are enabled in its context.
THEOREM GieIsFixed == Spec => []GieFollowsContext
<1>1. IInv => GieFollowsContext
  BY DEF IInv
<1>2. QED
  BY <1>1, Inductive, PTL

\* Only the two stores change a flag.
LEMMA FlagsStay ==
    ASSUME Next, ~StoreFlags, ~StoreOperand
    PROVE  ifg' = ifg
BY DEF Next, Gui, Cpu, BoardButton, KeyEvent, NoKeyEvent, TestEnabled,
       TestEdge, LoadFlags, TestGie, PollPort1, PollPort2, Enter, Other,
       Reti, RestoreStatus, LoadOperand, WriteStatus, CpuRest, portVars

\* The only flags that vanish unasked are those set while the other thread
\* was between its load and its store of the same byte.
THEOREM OverlapOnly == Spec => OnlyOverlapLoses
<1> DEFINE Lost(p, b) == \/ CpuStored(p) /\ b \in pending.clear \cup cpu_missed
                         \/ GuiStored(p) /\ b \in gui_missed
           Step == \A p \in Port : \A b \in ifg[p] \ ifg'[p] : Lost(p, b)
<1>1. IInv /\ [Next]_vars => [Step]_vars
  <2> SUFFICES ASSUME IInv, Next, NEW p \in Port, NEW b \in ifg[p] \ ifg'[p]
               PROVE  Lost(p, b)
    OBVIOUS
  <2>1. /\ ifg \in [Port -> SUBSET Pin]
        /\ slot[2] \in Port /\ pending.port \in Port
    BY DEF IInv, TypeOK, Slot, Instruction
  <2>2. CASE StoreFlags
    BY <2>1, <2>2 DEF StoreFlags, Advance, IInv, MissedInv, GuiModifies,
           GuiStored
  <2>3. CASE StoreOperand
    BY <2>1, <2>3 DEF StoreOperand, IInv, MissedInv, CpuModifies, CpuStored
  <2>4. CASE ~StoreFlags /\ ~StoreOperand
    BY <2>4, FlagsStay
  <2>5. QED
    BY <2>2, <2>3, <2>4
<1>2. QED
  BY <1>1, Inductive, PTL DEF Spec, OnlyOverlapLoses

\* The only flags that appear unasked are those cleared while the other thread
\* was between its load and its store of the same byte, and those whose enable
\* or edge bit the program stored between generate_interrupt's test and store.
THEOREM FlagsWanted == Spec => FlagsAreWanted
<1> DEFINE Button(p, b) ==
               /\ GuiStored(p)
               /\ b = "button"
               /\ "button" \in ie[p] \/ "ie" \in overtaken
               /\ ("button" \in ies[p]) # rising \/ "ies" \in overtaken
           Wanted(p, b) == \/ CpuStored(p) /\ b \in pending.set \cup cpu_dropped
                           \/ GuiStored(p) /\ b \in gui_dropped
                           \/ Button(p, b)
           Step == \A p \in Port : \A b \in ifg'[p] \ ifg[p] : Wanted(p, b)
<1>1. IInv /\ [Next]_vars => [Step]_vars
  <2> SUFFICES ASSUME IInv, Next, NEW p \in Port, NEW b \in ifg'[p] \ ifg[p]
               PROVE  Wanted(p, b)
    OBVIOUS
  <2>1. /\ ifg \in [Port -> SUBSET Pin]
        /\ slot[2] \in Port /\ pending.port \in Port
    BY DEF IInv, TypeOK, Slot, Instruction
  <2>2. CASE StoreFlags
    <3>1. slot[2] = p /\ b \in ifg_value \cup {"button"}
      BY <2>1, <2>2 DEF StoreFlags
    <3>2. GuiStored(p) /\ GuiModifies(p)
      BY <2>2, <3>1 DEF StoreFlags, Advance, GuiModifies, GuiStored
    <3>3. CASE b \in ifg_value
      BY <3>2, <3>3 DEF IInv, DroppedInv
    <3>4. CASE b = "button"
      BY <3>1, <3>2, <3>4 DEF IInv, WantedInv, Tested, GuiModifies
    <3>5. QED
      BY <3>1, <3>3, <3>4
  <2>3. CASE StoreOperand
    BY <2>1, <2>3 DEF StoreOperand, IInv, DroppedInv, CpuModifies, CpuStored
  <2>4. CASE ~StoreFlags /\ ~StoreOperand
    BY <2>4, FlagsStay
  <2>5. QED
    BY <2>2, <2>3, <2>4
<1>2. QED
  BY <1>1, Inductive, PTL DEF Spec, FlagsAreWanted
=============================================================================
