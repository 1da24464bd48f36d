---------------------------- MODULE MCDecompiler ----------------------------
(* A memory of five words: two of code and the three vectors, in the order   *)
(* they have on the machine.                                                 *)
EXTENDS Decompiler

MCVectorOf == [v \in Vector |-> CASE v = "PORT2" -> 4 [] v = "PORT1" -> 6 [] v = "RESET" -> 8]

(* 0 and 2 are no instructions and, as vectors, addresses of the code;       *)
(* MOV R4,R5 takes one word, CALL #x and MOV #x,R5 two, MOV &x,&y three,     *)
(* MOV @PC,R5 two of which only one is its own;                              *)
(* JMP back by two words, JMP ahead by one.                                  *)
MCMemoryWord == {0, 2, 17413, 4784, 16437, 16421, 17042, 16381, 15361}
=============================================================================
