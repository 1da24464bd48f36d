----------------------------- MODULE MCFilePane -----------------------------
(***************************************************************************)
(* The root, a directory and a program file in it; three cells of memory,  *)
(* the middle one refuses bytes.  The programs: no fragments, a byte that  *)
(* is refused, and three fragments that go past the end and write a cell   *)
(* twice.                                                                  *)
(***************************************************************************)
EXTENDS FilePane

MCPath == {"/", "/src", "/src/a.hex"}
MCParent == [p \in MCPath |-> IF p = "/src/a.hex" THEN "/src" ELSE "/"]
MCProgram == {<<>>,
              <<[address |-> 0, bytes |-> <<1, 1>>]>>,
              <<[address |-> 2, bytes |-> <<0, 1>>], [address |-> 0, bytes |-> <<1>>],
                [address |-> 2, bytes |-> <<1>>]>>}
=============================================================================
