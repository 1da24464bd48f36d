------------------------------ MODULE FilePane ------------------------------
(***************************************************************************)
(* The file pane at work: the GUI thread goes through the explorer and,    *)
(* for a file that is selected, through the loader, while the CPU thread   *)
(* runs.                                                                   *)
(***************************************************************************)
EXTENDS FileExplorer, ProgramLoader
vars == <<explorer, loaderVars>>

Init == ExplorerInit /\ LoaderInit

(* renderFileExplorer() without a selection.                                 *)
Browse ==
    /\ \/ \E p \in Path : TypePath(p) \/ ClickDirectory(p)
       \/ BeginList \/ EndList
    /\ UNCHANGED loaderVars

(* select_file(): read, load, decompile; the pane goes on after it, also     *)
(* when an exception was caught, and the program is gone.                    *)
Select ==
    /\ \E p \in Path : ClickFile(p)
    /\ loader' = "read"
    /\ UNCHANGED <<memories, processor, program, index, image, decompiled, history>>
SelectStep == pane = "load" /\ Load /\ UNCHANGED explorer
SelectEnd ==
    /\ pane = "load" /\ loader \in {"done", "failed"}
    /\ pane' = "list" /\ loader' = "none" /\ program' = <<>> /\ index' = 0
    /\ touched' = {} /\ outdated' = {} /\ start' = "none"
    /\ UNCHANGED <<state, drawn, clicked, memories, processor, image, decompiled>>

Gui == pane /= "dead" /\ (Browse \/ Select \/ SelectStep \/ SelectEnd)
CpuStep == pane /= "dead" /\ Cpu /\ UNCHANGED explorer
Ended == pane = "dead" /\ UNCHANGED vars

Next == Gui \/ CpuStep \/ Ended
Spec == Init /\ [][Next]_vars

TypeOK == ExplorerTypeOK /\ LoaderTypeOK
=============================================================================
