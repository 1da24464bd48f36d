------------------------------ MODULE MCHex430 ------------------------------
(***************************************************************************)
(* Binary digits, addresses of three, lines of two bytes.  The programs:   *)
(* up to two fragments, none to five bytes each, so that lines are empty,  *)
(* half full and full.  The other texts: all short ones, which cut a file  *)
(* at every place, and addresses that are too long.                        *)
(***************************************************************************)
EXTENDS Hex430

MCDigit == <<"0", "1">>
MCBytes == {SubSeq(<<1, 2, 3, 1, 0>>, 1, n) : n \in 0..5}
MCFragment == {[address |-> a, bytes |-> bs] : a \in {2, 5}, bs \in MCBytes}
MCProgram == {<<>>} \cup {<<f>> : f \in MCFragment}
                    \cup {<<f, g>> : f, g \in MCFragment}
MCText == BoundedSeq({"@", "q", " ", "\n", "\r", "0", "1"}, 5)
              \cup {<<"@", "1", "0", "0", "1", "\r", "\n">>,
                    <<"@", "1", "0", "0", "0", "0", "0", " ", "q">>}
=============================================================================
