-------------------------- MODULE MCPortInterrupts --------------------------
(***************************************************************************)
(* The instructions of msp430/simple_1.cc (enable the button's interrupt,  *)
(* clear its flag, select the other edge), one that requests an interrupt  *)
(* by software, one that only tests the flags, one that masks the button.  *)
(***************************************************************************)
EXTENDS PortInterrupts

Ins(r, p, s, c) == [reg |-> r, port |-> p, set |-> s, clear |-> c]

Clear(p) == Ins("ifg", p, {}, {"button"})
ClearAll(p) == Ins("ifg", p, {}, Pin)
Request(p) == Ins("ifg", p, {"soft"}, {})
TestFlag(p) == Ins("ifg", p, {}, {})
Allow(p) == Ins("ie", p, {"button"}, {})
Mask(p) == Ins("ie", p, {}, {"button"})
OnUp(p) == Ins("ies", p, {"button"}, {})
OnDown(p) == Ins("ies", p, {}, {"button"})

MCProgram == {Allow(1), Clear(1), OnUp(1), OnDown(1), Request(1), TestFlag(1),
              ClearAll(1), Mask(1), Allow(2), ClearAll(2)}
=============================================================================
