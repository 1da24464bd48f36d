------------------------- MODULE MCRegisterMachine -------------------------
(* Two registers of two bytes of MCByteSign * 2 values each.                 *)
EXTENDS RegisterMachine

MCByteSign == 2
MCBitCount == 4
MCGeneralRegister == {"R4", "R5"}
=============================================================================
