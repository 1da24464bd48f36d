---------------------------- MODULE MCRunControl ----------------------------
(***************************************************************************)
(* Three addresses: where an unloaded machine starts, the entry of the     *)
(* program, and an address the program reaches.  The reset address holds a *)
(* byte-only region, as address 0 does; an instruction at the last one may *)
(* access an illegal operand.                                              *)
(***************************************************************************)
EXTENDS RunControlRefinement

CONSTANTS a0, a1, a2

MCAddr == {a0, a1, a2}
MCCode == {a1, a2}
MCFetchFault == {a0}
MCDataFault == {a2}
=============================================================================
