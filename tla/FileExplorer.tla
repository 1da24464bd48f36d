---------------------------- MODULE FileExplorer ----------------------------
(***************************************************************************)
(* The file pane (utils/fileExplorer.h and emugui.h renderFileExplorer):   *)
(* the two last directories that were listed, of which the pane draws the  *)
(* newer one while a click may push another.                               *)
(*                                                                         *)
(* The disk belongs to everybody: each time it is read it may answer       *)
(* anything, a listing, or that there is no such directory.                *)
(***************************************************************************)
EXTENDS Sequences, FiniteSets, Integers

CONSTANTS Path,         \* paths a user may type
          Parent,       \* the parent of each path; the root is its own
          Directory,    \* the paths that are listed as directories
          HexFile,      \* the files whose name ends in .hex
          WorkingPath   \* std::filesystem::current_path()

ASSUME ExplorerAssumption ==
    /\ Parent \in [DOMAIN Parent -> Path] /\ DOMAIN Parent \subseteq Path
    /\ Directory \subseteq Path /\ HexFile \subseteq Path \ Directory
    /\ WorkingPath \in Directory

VARIABLES
    state,    \* the last listings, [current, files]
    pane,     \* "frame" between two drawings, "list" while drawing,
              \* "load" in select_file(), "dead" after an uncaught exception
    drawn,    \* the listing that is drawn: its place in state, 0 once popped
    clicked   \* a file of this drawing was clicked
explorer == <<state, pane, drawn, clicked>>

-----------------------------------------------------------------------------
(* get_files(): the way back, which the root has too, and whatever the       *)
(* directory holds.                                                          *)
Children(p) == {q \in DOMAIN Parent \ {p} : Parent[q] = p}
Back(p) == IF p \in DOMAIN Parent THEN {Parent[p]} ELSE {}
Listing(p) == {Back(p) \cup found : found \in SUBSET Children(p)}

ExplorerInit ==
    /\ \E fs \in Listing(WorkingPath) :
            state = <<[current |-> WorkingPath, files |-> fs]>>
    /\ pane = "frame" /\ drawn = 0 /\ clicked = FALSE

(* set_current(): push the new listing, keep two.                            *)
SetCurrentMut(p) ==
    \E fs \in Listing(p) :
        LET pushed == Append(state, [current |-> p, files |-> fs])
        IN  /\ state' = Tail(pushed)
            /\ drawn' = IF drawn > 0 THEN drawn - 1 ELSE 0
SetCurrent(p) ==
    \E fs \in Listing(p) :
        LET pushed == Append(state, [current |-> p, files |-> fs])
        IN  \/ /\ Len(pushed) > 2 /\ state' = Tail(pushed)
               /\ drawn' = IF drawn > 0 THEN drawn - 1 ELSE 0
            \/ Len(pushed) <= 2 /\ state' = pushed /\ UNCHANGED drawn

(* Nobody catches what directory_iterator throws: the process ends.          *)
Unreadable == pane' = "dead" /\ UNCHANGED <<state, drawn, clicked>>

(* Enter in the input line, at the beginning of a frame.                     *)
TypePath(p) ==
    /\ pane = "frame" /\ drawn = 0
    /\ \/ p \in Directory /\ SetCurrent(p) /\ UNCHANGED <<pane, clicked>>
       \/ Unreadable

BeginList ==
    /\ pane = "frame"
    /\ pane' = "list" /\ drawn' = Len(state)
    /\ UNCHANGED <<state, clicked>>

(* A click on an entry of the listing that is drawn, one in a frame: a       *)
(* directory is entered, a .hex file handed to select_file(), other files    *)
(* are disabled.                                                             *)
Clickable(p) == pane = "list" /\ ~clicked /\ drawn > 0 /\ p \in state[drawn].files
ClickDirectory(p) ==
    /\ Clickable(p) /\ p \in Directory
    /\ \/ SetCurrent(p) /\ clicked' = TRUE /\ UNCHANGED pane
       \/ Unreadable
ClickFile(p) ==
    /\ Clickable(p) /\ p \in HexFile
    /\ clicked' = TRUE /\ pane' = "load" /\ UNCHANGED <<state, drawn>>

EndList ==
    /\ pane = "list" /\ pane' = "frame" /\ drawn' = 0 /\ clicked' = FALSE
    /\ UNCHANGED state

-----------------------------------------------------------------------------
ExplorerTypeOK ==
    /\ state \in Seq([current : Path, files : SUBSET Path]) /\ Len(state) \in 1..2
    /\ pane \in {"frame", "list", "load", "dead"}
    /\ drawn \in 0..Len(state) /\ clicked \in BOOLEAN

(* The reference to state.back().files, which the loop of the pane goes on   *)
(* using after a click has changed the explorer's state, stays valid: the    *)
(* listing that is drawn is not the one that is dropped.                     *)
DrawnListingLives == pane \in {"list", "load"} => drawn > 0
=============================================================================
