--------------------------- MODULE PortInterrupts ---------------------------
(***************************************************************************)
(* The board's two buttons and the interrupts of ports P1 and P2.  The GUI *)
(* thread moves the buttons and raises requests (EmuGui::renderBoard, the  *)
(* keys at the end of render(), InterruptController::generate_interrupt);  *)
(* the CPU thread polls the requests before each instruction and enters    *)
(* handlers (consume_interrupt, interrupt_step, RETI).  Both write the     *)
(* IFG byte of a port in plain memory, as a load and a store.              *)
(*                                                                         *)
(* A register of a port is the set of its pins that are 1.  Of a port's    *)
(* pins only two matter: the one with the button (P1.7 and P2.2) and any   *)
(* other, which the program may request an interrupt on by software.       *)
(***************************************************************************)
EXTENDS Naturals, Sequences

CONSTANT Program  \* the read-modify-write instructions the program may execute

Port == {1, 2}  \* port 1 has the higher priority
Pin == {"button", "soft"}

\* BIS, BIC, BIT... on a register: the pins it sets and clears.
Instruction == [reg : {"ifg", "ie", "ies"}, port : Port,
                set : SUBSET Pin, clear : SUBSET Pin]

ASSUME ProgramType == Program \subseteq Instruction

Main == 0
Context == Port \cup {Main}

CpuStage == {"gie", "port1", "port2", "execute", "store", "restore"}
GuiStage == {"input", "enabled", "edge", "load", "store"}

\* The places of a frame that look at a button: twice on the board, by key.
Slot == {"board", "key"} \X Port

VARIABLES
    ifg, ie, ies,   \* the registers of each port, in memory
    in,             \* the level of the button's pin in PxIN
    gie,            \* the bit of the status register
    context,        \* what the CPU runs: main or the handler of a port
    stack,          \* what interrupt_step pushed: pc, as a context, and GIE
    cpu,            \* where the CPU thread is in an iteration
    pending,        \* the instruction it is executing
    value,          \* what that instruction has loaded
    gui,            \* where the GUI thread is with a button
    slot,           \* which button, and looked at for what
    pressed,        \* Button::state
    rising,         \* the edge it reports
    ifg_value       \* what generate_interrupt has loaded from IFG

(***************************************************************************)
(* History variables: they record what the other thread has stored between *)
(* two accesses of one thread and guard nothing.                           *)
(***************************************************************************)
VARIABLES
    cpu_missed, gui_missed,    \* pins that appeared in the IFG one modifies,
    cpu_dropped, gui_dropped,  \* pins that disappeared from it,
    overtaken                  \* registers of the slot's port that were
                               \* stored since generate_interrupt tested them

portVars == <<ifg, ie, ies, in>>
cpuVars == <<gie, context, stack, cpu, pending, value>>
guiVars == <<gui, slot, pressed, rising, ifg_value>>
historyVars == <<cpu_missed, gui_missed, cpu_dropped, gui_dropped, overtaken>>
vars == <<portVars, cpuVars, guiVars, historyVars>>

Nothing == [reg |-> "ifg", port |-> 1, set |-> {}, clear |-> {}]

\* Memory is zero, GIE is set by the constructor (emulator.h:53-54).
Init ==
    /\ ifg = [p \in Port |-> {}]
    /\ ie = [p \in Port |-> {}]
    /\ ies = [p \in Port |-> {}]
    /\ in = [p \in Port |-> FALSE]
    /\ gie = TRUE
    /\ context = Main
    /\ stack = <<>>
    /\ cpu = "gie"
    /\ pending = Nothing
    /\ value = {}
    /\ gui = "input"
    /\ slot = <<"board", 1>>
    /\ pressed = [p \in Port |-> FALSE]
    /\ rising = FALSE
    /\ ifg_value = {}
    /\ cpu_missed = {}
    /\ gui_missed = {}
    /\ cpu_dropped = {}
    /\ gui_dropped = {}
    /\ overtaken = {}

\* Who is between his load and his store of the IFG of port p?
CpuModifies(p) == cpu = "store" /\ pending.reg = "ifg" /\ pending.port = p
GuiModifies(p) == gui = "store" /\ slot[2] = p

\* Has generate_interrupt tested a register of this port already?
Tested(r) == \/ r = "ie" /\ gui \in {"edge", "load", "store"}
             \/ r = "ies" /\ gui \in {"load", "store"}

-----------------------------------------------------------------------------
(***************************************************************************)
(* The GUI thread                                                          *)
(***************************************************************************)

(***************************************************************************)
(* A definition whose name ends in Mut is a plausible bug of the one that  *)
(* follows it.  It is not part of the model: the runs use it to show that  *)
(* the property it names would notice.                                     *)
(***************************************************************************)

\* The board's buttons in turn, then the keys.
NextSlot ==
    CASE slot = <<"board", 1>> -> <<"board", 2>>
      [] slot = <<"board", 2>> -> <<"key", 1>>
      [] slot = <<"key", 1>> -> <<"key", 2>>
      [] slot = <<"key", 2>> -> <<"board", 1>>

\* Done with this button.
Advance ==
    /\ gui' = "input"
    /\ slot' = NextSlot
    /\ rising' = FALSE

\* renderBoard copies the check box into PxIN in every frame and reports an
\* edge when the user has clicked.
BoardButton(click) ==
    LET p == slot[2]
        next == pressed[p] # click
    IN
    /\ gui = "input"
    /\ slot[1] = "board"
    /\ pressed' = [pressed EXCEPT ![p] = next]
    /\ in' = [in EXCEPT ![p] = next]
    /\ IF click THEN /\ rising' = next
                     /\ gui' = "enabled"
                     /\ UNCHANGED slot
                ELSE Advance
    /\ UNCHANGED <<ifg, ie, ies, cpuVars, ifg_value, historyVars>>

\* A key pressed pulls the pin low and reports a rising edge all the same.
KeyEvent(down) ==
    LET p == slot[2] IN
    /\ gui = "input"
    /\ slot[1] = "key"
    /\ pressed' = [pressed EXCEPT ![p] = down]
    /\ in' = [in EXCEPT ![p] = ~down]
    /\ rising' = down
    /\ gui' = "enabled"
    /\ UNCHANGED <<ifg, ie, ies, cpuVars, slot, ifg_value, historyVars>>

NoKeyEvent ==
    /\ gui = "input"
    /\ slot[1] = "key"
    /\ Advance
    /\ UNCHANGED <<portVars, cpuVars, pressed, ifg_value, historyVars>>

\* generate_interrupt: the pin must be enabled...
TestEnabled ==
    /\ gui = "enabled"
    /\ IF "button" \in ie[slot[2]]
         THEN gui' = "edge" /\ UNCHANGED <<slot, rising>>
         ELSE Advance
    /\ UNCHANGED <<portVars, cpuVars, pressed, ifg_value, historyVars>>

Overlaps == UNCHANGED <<cpu_missed, gui_missed, cpu_dropped, gui_dropped>>

\* FlagsAreWanted: the edge is compared the wrong way round.
TestEdgeMut ==
    /\ gui = "edge"
    /\ IF ("button" \in ies[slot[2]]) = rising
         THEN gui' = "load" /\ UNCHANGED <<slot, rising, overtaken>>
         ELSE Advance /\ overtaken' = {}
    /\ UNCHANGED <<portVars, cpuVars, pressed, ifg_value>> /\ Overlaps

\* ... and the edge the selected one, by now;
TestEdge ==
    /\ gui = "edge"
    /\ IF ("button" \in ies[slot[2]]) # rising
         THEN gui' = "load" /\ UNCHANGED <<slot, rising, overtaken>>
         ELSE Advance /\ overtaken' = {}
    /\ UNCHANGED <<portVars, cpuVars, pressed, ifg_value>> /\ Overlaps

\* then the flag is or-ed in: a load,
LoadFlags ==
    /\ gui = "load"
    /\ ifg_value' = ifg[slot[2]]
    /\ gui' = "store"
    /\ UNCHANGED <<portVars, cpuVars, slot, pressed, rising, historyVars>>

\* and a store.
StoreFlags ==
    LET p == slot[2]
        result == ifg_value \cup {"button"}
    IN
    /\ gui = "store"
    /\ ifg' = [ifg EXCEPT ![p] = result]
    /\ cpu_missed' = IF CpuModifies(p) THEN cpu_missed \cup (result \ ifg[p])
                                       ELSE cpu_missed
    /\ cpu_dropped' = IF CpuModifies(p) THEN cpu_dropped \cup (ifg[p] \ result)
                                        ELSE cpu_dropped
    /\ gui_missed' = {}
    /\ gui_dropped' = {}
    /\ overtaken' = {}
    /\ ifg_value' = {}
    /\ Advance
    /\ UNCHANGED <<ie, ies, in, cpuVars, pressed>>

-----------------------------------------------------------------------------
(***************************************************************************)
(* The CPU thread                                                          *)
(***************************************************************************)

CpuRest == UNCHANGED <<portVars, guiVars, historyVars>>

\* consume_interrupt: nothing is polled while GIE is clear.
TestGie ==
    /\ cpu = "gie"
    /\ cpu' = IF gie THEN "port1" ELSE "execute"
    /\ UNCHANGED <<gie, context, stack, pending, value>>
    /\ CpuRest

\* HandlersDoNotNest: GIE is not cleared.
EnterKeepGieMut(p) ==
    /\ stack' = <<[context |-> context, gie |-> gie]>> \o stack
    /\ context' = p
    /\ cpu' = "gie"
    /\ UNCHANGED <<gie, pending, value>>

\* interrupt_step: push pc and SR, jump, clear GIE.
Enter(p) ==
    /\ stack' = <<[context |-> context, gie |-> gie]>> \o stack
    /\ context' = p
    /\ gie' = FALSE
    /\ cpu' = "gie"
    /\ UNCHANGED <<pending, value>>

\* OnlyOverlapLoses: entering the handler acknowledges the request.
PollPort1AcknowledgeMut ==
    /\ cpu = "port1"
    /\ IF ifg[1] # {} THEN Enter(1) /\ ifg' = [ifg EXCEPT ![1] = {}]
       ELSE cpu' = "port2" /\ UNCHANGED <<ifg, gie, context, stack, pending, value>>
    /\ UNCHANGED <<ie, ies, in, guiVars, historyVars>>

\* PortTwoServed: only the first interrupt of the list is looked at.
PollPort1OnlyMut ==
    /\ cpu = "port1"
    /\ IF ifg[1] # {} THEN Enter(1)
       ELSE cpu' = "execute" /\ UNCHANGED <<gie, context, stack, pending, value>>
    /\ CpuRest

\* Any flag of the port is a request, enabled or not; it stays set.
PollPort1 ==
    /\ cpu = "port1"
    /\ IF ifg[1] # {} THEN Enter(1)
       ELSE cpu' = "port2" /\ UNCHANGED <<gie, context, stack, pending, value>>
    /\ CpuRest

PollPort2 ==
    /\ cpu = "port2"
    /\ IF ifg[2] # {} THEN Enter(2)
       ELSE cpu' = "execute" /\ UNCHANGED <<gie, context, stack, pending, value>>
    /\ CpuRest

\* An instruction that touches nothing modelled here.
Other ==
    /\ cpu = "execute"
    /\ cpu' = "gie"
    /\ UNCHANGED <<gie, context, stack, pending, value>>
    /\ CpuRest

\* GieFollowsContext: the popped SR is dropped.
RetiDropStatusMut ==
    /\ cpu = "execute"
    /\ context # Main
    /\ context' = Head(stack).context
    /\ stack' = Tail(stack)
    /\ cpu' = "gie"
    /\ UNCHANGED <<gie, pending, value>>
    /\ CpuRest

\* A handler returns: pop SR, pop pc.  Programs execute RETI in handlers only.
Reti ==
    /\ cpu = "execute"
    /\ context # Main
    /\ gie' = Head(stack).gie
    /\ context' = Head(stack).context
    /\ stack' = Tail(stack)
    /\ cpu' = "gie"
    /\ UNCHANGED <<pending, value>>
    /\ CpuRest

Register(r) == CASE r = "ifg" -> ifg [] r = "ie" -> ie [] r = "ies" -> ies

\* A two-operand instruction on a port register: load the operand,
LoadOperand(i) ==
    /\ cpu = "execute"
    /\ pending' = i
    /\ value' = Register(i.reg)[i.port]
    /\ cpu' = "store"
    /\ UNCHANGED <<gie, context, stack>>
    /\ CpuRest

\* and store it, even if the instruction was only a test (BIT and CMP return
\* their destination).
StoreOperand ==
    LET p == pending.port
        result == (value \ pending.clear) \cup pending.set
        Stored(r, reg) == IF pending.reg = r THEN [reg EXCEPT ![p] = result]
                                             ELSE reg
    IN
    /\ cpu = "store"
    /\ ifg' = Stored("ifg", ifg)
    /\ ie' = Stored("ie", ie)
    /\ ies' = Stored("ies", ies)
    /\ gui_missed' = IF CpuModifies(p) /\ GuiModifies(p)
                       THEN gui_missed \cup (result \ ifg[p]) ELSE gui_missed
    /\ gui_dropped' = IF CpuModifies(p) /\ GuiModifies(p)
                        THEN gui_dropped \cup (ifg[p] \ result) ELSE gui_dropped
    /\ cpu_missed' = {}
    /\ cpu_dropped' = {}
    /\ overtaken' = IF p = slot[2] /\ Tested(pending.reg)
                      THEN overtaken \cup {pending.reg} ELSE overtaken
    /\ cpu' = "gie"
    /\ pending' = Nothing
    /\ value' = {}
    /\ UNCHANGED <<in, gie, context, stack, guiVars>>

\* The same on the status register (EINT and DINT): it is written,
WriteStatus(bit) ==
    /\ cpu = "execute"
    /\ gie' = bit
    /\ value' = {g \in {"gie"} : gie}
    /\ cpu' = "restore"
    /\ UNCHANGED <<context, stack, pending>>
    /\ CpuRest

\* and written again with its old value and the new flags.
RestoreStatus ==
    /\ cpu = "restore"
    /\ gie' = ("gie" \in value)
    /\ value' = {}
    /\ cpu' = "gie"
    /\ UNCHANGED <<context, stack, pending>>
    /\ CpuRest

-----------------------------------------------------------------------------
Gui ==
    \/ \E click \in BOOLEAN : BoardButton(click)
    \/ \E down \in BOOLEAN : KeyEvent(down)
    \/ NoKeyEvent \/ TestEnabled \/ TestEdge \/ LoadFlags \/ StoreFlags

Cpu ==
    \/ TestGie \/ PollPort1 \/ PollPort2
    \/ Other \/ Reti \/ StoreOperand \/ RestoreStatus
    \/ \E i \in Program : LoadOperand(i)
    \/ \E bit \in BOOLEAN : WriteStatus(bit)

Next == Gui \/ Cpu

Spec == Init /\ [][Next]_vars

\* The CPU thread runs, and the program's handlers return.
FairSpec == Spec /\ WF_vars(Cpu) /\ SF_vars(Reti)

-----------------------------------------------------------------------------
TypeOK ==
    /\ ifg \in [Port -> SUBSET Pin]
    /\ ie \in [Port -> SUBSET Pin]
    /\ ies \in [Port -> SUBSET Pin]
    /\ in \in [Port -> BOOLEAN]
    /\ gie \in BOOLEAN
    /\ context \in Context
    /\ stack \in Seq([context : Context, gie : BOOLEAN])
    /\ cpu \in CpuStage
    /\ pending \in Instruction
    /\ value \subseteq Pin \cup {"gie"}
    /\ gui \in GuiStage
    /\ slot \in Slot
    /\ pressed \in [Port -> BOOLEAN]
    /\ rising \in BOOLEAN
    /\ ifg_value \subseteq Pin
    /\ cpu_missed \subseteq Pin
    /\ gui_missed \subseteq Pin
    /\ cpu_dropped \subseteq Pin
    /\ gui_dropped \subseteq Pin
    /\ overtaken \subseteq {"ie", "ies"}

\* Handlers do not nest, whatever the program does to GIE, and a handler
\* returns to the main program it interrupted, with interrupts enabled.
HandlersDoNotNest ==
    stack = IF context = Main THEN <<>>
                                ELSE <<[context |-> Main, gie |-> TRUE]>>

\* No program and no interrupt leaves the main program with interrupts
\* disabled, or a handler with interrupts enabled, between instructions.
GieFollowsContext == cpu # "restore" => (gie <=> context = Main)

\* Who has just stored the IFG of port p?
CpuStored(p) == CpuModifies(p) /\ cpu' # "store"
GuiStored(p) == GuiModifies(p) /\ gui' # "store"

\* A flag is cleared by an instruction that says so; or it was set while the
\* other thread was modifying the same byte, and is stored over unseen.
OnlyOverlapLoses ==
    [][\A p \in Port : \A b \in ifg[p] \ ifg'[p] :
          \/ CpuStored(p) /\ b \in pending.clear \cup cpu_missed
          \/ GuiStored(p) /\ b \in gui_missed]_vars

\* A flag is set by an instruction that says so, or by the button, enabled and
\* on the selected edge, unless the program changed its mind after the test
\* (interruptController.h:98, 104); or it was cleared while the other thread
\* was modifying the same byte, and is put back unseen.
FlagsAreWanted ==
    [][\A p \in Port : \A b \in ifg'[p] \ ifg[p] :
          \/ CpuStored(p) /\ b \in pending.set \cup cpu_dropped
          \/ GuiStored(p) /\ b \in gui_dropped
          \/ /\ GuiStored(p)
             /\ b = "button"
             /\ "button" \in ie[p] \/ "ie" \in overtaken
             /\ ("button" \in ies[p]) # rising \/ "ies" \in overtaken]_vars

\* A request on port 1 is served, or withdrawn by the program; so is one on
\* port 2, which is polled last, once port 1 makes no more requests.
PortOneServed == ifg[1] # {} ~> context = 1 \/ ifg[1] = {}
PortTwoServed ==
    <>[](ifg[1] = {}) => (ifg[2] # {} ~> context = 2 \/ ifg[2] = {})
PortsServed == PortOneServed /\ PortTwoServed
=============================================================================
