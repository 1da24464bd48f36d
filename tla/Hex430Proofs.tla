---------------------------- MODULE Hex430Proofs ----------------------------
(***************************************************************************)
(* What is read of the files that are written: every program, with lines   *)
(* of every even size, addresses and bytes to every base.  The state is    *)
(* followed through the text, character by character; what is left of it   *)
(* is the text of what is left of the program (Ahead).                     *)
(*                                                                         *)
(* Texts grow with the program, so the definitions that go through one are *)
(* unrolled here: up to a number, over the set of the numbers something    *)
(* holds for.                                                              *)
(***************************************************************************)
EXTENDS Hex430, SequenceTheorems, WellFoundedInduction, TLAPS

-----------------------------------------------------------------------------
(* Induction up to a number, and functions that are defined by recursion.    *)

(* Every set of numbers has a least one.                                     *)
LEMMA Least ==
    ASSUME NEW S \in SUBSET Nat, S # {}
    PROVE  \E x \in S : \A y \in S : x <= y
<1>1. \A x, y \in Nat : <<x, y>> \in OpToRel(<, Nat) <=> x < y
  BY DEF OpToRel
<1>2. PICK R : (\A x, y \in Nat : <<x, y>> \in R <=> x < y) /\ IsWellFoundedOn(R, Nat)
  BY <1>1, NatLessThanWellFounded, Zenon
<1>3. \E x \in S : \A y \in S : ~ <<y, x>> \in R
  <2>1. S \subseteq Nat
    OBVIOUS
  <2>2. IsWellFoundedOn(R, Nat)
    BY <1>2
  <2> QED BY <2>1, <2>2, WFMin, Zenon
<1>4. PICK x \in S : \A y \in S : ~ <<y, x>> \in R
  BY <1>3
<1>5. \A y \in S : ~ (y < x)
  BY <1>2, <1>4
<1> QED BY <1>5

(* Induction up to a number, over the set of the numbers it holds for.       *)
LEMMA Induction ==
    ASSUME NEW N \in Nat, NEW S, 0 \in S, \A n \in 0..(N - 1) : n \in S => n + 1 \in S
    PROVE  0..N \subseteq S
<1> SUFFICES ASSUME (0..N) \ S # {} PROVE FALSE
  OBVIOUS
<1>0. (0..N) \ S \in SUBSET Nat
  OBVIOUS
<1>1. PICK x \in (0..N) \ S : \A y \in (0..N) \ S : x <= y
  BY <1>0, Least
<1>2. x \in Nat /\ x # 0 /\ x <= N
  BY <1>1
<1>3. x - 1 \in 0..(N - 1) /\ x - 1 \in 0..N
  BY <1>2
<1>4. x - 1 \in S
  BY <1>1, <1>2, <1>3
<1>5. (x - 1) + 1 = x
  BY <1>2
<1>6. x \in S
  BY <1>3, <1>4, <1>5
<1> QED BY <1>1, <1>6

(* There is a function that begins with x0 and goes on by steps.             *)
Unfolds(N, x0, step, f) == f[0] = x0 /\ \A n \in 1..N : f[n] = step[n][f[n - 1]]

(* A function that goes on by steps exists.                                  *)
LEMMA Recursion ==
    ASSUME NEW N \in Nat, NEW X, NEW x0 \in X, NEW step \in [1..N -> [X -> X]]
    PROVE  \E f \in [0..N -> X] : Unfolds(N, x0, step, f)
<1> DEFINE Upto(k, f) == f[0] = x0 /\ \A n \in 1..k : f[n] = step[n][f[n - 1]]
           S == {k \in 0..N : \E f \in [0..k -> X] : Upto(k, f)}
<1>1. 0 \in S
  <2> DEFINE f == [n \in 0..0 |-> x0]
  <2>1. f \in [0..0 -> X] /\ f[0] = x0
    OBVIOUS
  <2>2. Upto(0, f)
    BY <2>1
  <2> HIDE DEF f, Upto
  <2>3. 0 \in 0..N
    OBVIOUS
  <2> QED BY <2>1, <2>2, <2>3
<1>2. ASSUME NEW k \in 0..(N - 1), k \in S PROVE k + 1 \in S
  <2>1. PICK f \in [0..k -> X] : Upto(k, f)
    BY <1>2
  <2> DEFINE g == [n \in 0..(k + 1) |-> IF n = k + 1 THEN step[k + 1][f[k]] ELSE f[n]]
  <2>2. step[k + 1] \in [X -> X] /\ f[k] \in X
    BY <1>2, <2>1
  <2>3. g \in [0..(k + 1) -> X]
    BY <2>2
  <2>4. ASSUME NEW n \in 1..(k + 1) PROVE g[n] = step[n][g[n - 1]]
    <3>1. CASE n = k + 1
      BY <3>1
    <3>2. CASE n \in 1..k
      BY <2>1, <3>2
    <3> QED BY <3>1, <3>2
  <2>5. g[0] = x0
    BY <2>1
  <2>6. Upto(k + 1, g)
    BY <2>4, <2>5
  <2> HIDE DEF g, Upto
  <2> QED BY <2>3, <2>6
<1>3. N \in S
  <2>1. \A n \in 0..(N - 1) : n \in S => n + 1 \in S
    <3> HIDE DEF S
    <3> QED BY <1>2
  <2> HIDE DEF S
  <2>2. 0..N \subseteq S
    BY <1>1, <2>1, Induction
  <2> QED BY <2>2
<1> QED BY <1>3 DEF Unfolds

-----------------------------------------------------------------------------
(* Texts, one behind the other.                                              *)

(* Texts are joined by a name of its own, which the provers leave alone.     *)
Cat(a, b) == a \o b

(* Texts of characters make a text of characters.                            *)
LEMMA CatType ==
    ASSUME NEW C, NEW a \in Seq(C), NEW b \in Seq(C)
    PROVE  Cat(a, b) \in Seq(C)
BY DEF Cat

(* It does not matter which of them are joined first.                        *)
LEMMA CatAssociative ==
    ASSUME NEW C, NEW a \in Seq(C), NEW b \in Seq(C), NEW c \in Seq(C)
    PROVE  Cat(Cat(a, b), c) = Cat(a, Cat(b, c))
BY ConcatAssociative DEF Cat

(* Nothing is added by the empty text.                                       *)
LEMMA CatEmpty ==
    ASSUME NEW C, NEW a \in Seq(C)
    PROVE  Cat(<<>>, a) = a /\ Cat(a, <<>>) = a
BY ConcatEmptySeq DEF Cat

(* f holds what FlattenSeq gives of the first n of a list of texts.          *)
Joins(N, seqs, f) ==
    f[0] = <<>> /\ FlattenSeq(seqs) = f[N] /\ \A n \in 1..N : f[n] = f[n - 1] \o seqs[n]

(* FlattenSeq goes through its list from the left.                           *)
LEMMA Flattening ==
    ASSUME NEW C, NEW N \in Nat, NEW seqs \in [1..N -> Seq(C)]
    PROVE  \E f \in [0..N -> Seq(C)] : Joins(N, seqs, f)
<1> DEFINE step == [n \in 1..N |-> [s \in Seq(C) |-> s \o seqs[n]]]
<1>1. Len(seqs) = N
  OBVIOUS
<1>2. step \in [1..N -> [Seq(C) -> Seq(C)]]
  BY ConcatProperties
<1>3. <<>> \in Seq(C)
  OBVIOUS
<1>4. PICK f \in [0..N -> Seq(C)] : f[0] = <<>> /\ \A n \in 1..N : f[n] = step[n][f[n - 1]]
  <2> DEFINE X == Seq(C)
             x0 == <<>>
  <2>1. x0 \in X /\ step \in [1..N -> [X -> X]]
    BY <1>2
  <2> HIDE DEF step, X, x0
  <2>2. \E f \in [0..N -> X] : Unfolds(N, x0, step, f)
    BY <2>1, Recursion
  <2> QED BY <2>2 DEF X, x0, Unfolds
<1>5. \A n \in 1..N : f[n] = f[n - 1] \o seqs[n]
  <2> SUFFICES ASSUME NEW n \in 1..N PROVE f[n] = f[n - 1] \o seqs[n]
    OBVIOUS
  <2>1. f[n - 1] \in Seq(C)
    OBVIOUS
  <2>2. f[n] = step[n][f[n - 1]]
    BY <1>4
  <2> QED BY <2>1, <2>2
<1>6. CASE N = 0
  <2>1. FlattenSeq(seqs) = seqs /\ seqs = <<>>
    BY <1>6, <1>1 DEF FlattenSeq
  <2> QED BY <1>4, <1>5, <1>6, <2>1 DEF Joins
<1>7. CASE N > 0
  <2>8. f[1] = seqs[1]
    <3>1. 1 \in 1..N /\ 1 - 1 = 0
      BY <1>7
    <3>2. f[1] = f[0] \o seqs[1] /\ seqs[1] \in Seq(C)
      BY <1>5, <3>1
    <3> QED BY <1>4, <3>2, ConcatEmptySeq
  <2> DEFINE Flat(h) == h = [i \in 1..N |-> IF i = 1 THEN seqs[i] ELSE h[i - 1] \o seqs[i]]
             g == [i \in 1..N |-> f[i]]
             h == CHOOSE x : Flat(x)
  <2>1. Flat(g)
    <3>1. ASSUME NEW i \in 1..N
          PROVE  f[i] = IF i = 1 THEN seqs[i] ELSE g[i - 1] \o seqs[i]
      <4>1. CASE i = 1
        BY <4>1, <2>8
      <4>2. CASE i # 1
        <5>0. i - 1 \in 1..N
          BY <4>2
        <5>1. i - 1 \in 1..N /\ f[i] = f[i - 1] \o seqs[i]
          BY <1>5, <5>0
        <5>2. g[i - 1] = f[i - 1]
          BY <5>1
        <5> HIDE DEF g
        <5> QED BY <4>2, <5>1, <5>2
      <4> QED BY <4>1, <4>2
    <3> QED BY <3>1
  <2>2. Flat(h)
    <3> HIDE DEF Flat, g
    <3> QED BY <2>1
  <2>3. FlattenSeq(seqs) = h[N]
    <3>1. Len(seqs) # 0 /\ seqs # <<>>
      BY <1>1, <1>7
    <3> QED BY <1>1, <3>1 DEF FlattenSeq
  <2> HIDE DEF h
  <2> DEFINE S == {n \in 0..N : n = 0 \/ h[n] = f[n]}
  <2>4. ASSUME NEW n \in 0..(N - 1), n \in S PROVE n + 1 \in S
    <3>1. CASE n = 0
      <4>1. h[1] = seqs[1]
        BY <1>7, <2>2
      <4> QED BY <1>7, <2>8, <3>1, <4>1
    <3>2. CASE n # 0
      <4>1. n + 1 \in 1..N /\ n + 1 # 1 /\ (n + 1) - 1 = n
        BY <3>2
      <4>2. h[n + 1] = h[n] \o seqs[n + 1] /\ f[n + 1] = f[n] \o seqs[n + 1]
        BY <1>5, <2>2, <4>1
      <4>3. h[n] = f[n]
        BY <2>4, <3>2
      <4>4. h[n + 1] = f[n + 1]
        BY <4>2, <4>3
      <4> QED BY <4>1, <4>4
    <3> QED BY <3>1, <3>2
  <2>5. N \in S
    <3>1. 0 \in S
      OBVIOUS
    <3>2. \A n \in 0..(N - 1) : n \in S => n + 1 \in S
      <4> HIDE DEF S
      <4> QED BY <2>4
    <3> HIDE DEF S
    <3>3. 0..N \subseteq S
      BY <3>1, <3>2, Induction
    <3> QED BY <3>3
  <2>6. h[N] = f[N]
    BY <1>7, <2>5
  <2> QED BY <1>4, <1>5, <2>3, <2>6 DEF Joins
<1> QED BY <1>6, <1>7

(* Flattened texts of characters are a text of characters.                   *)
LEMMA FlattenType ==
    ASSUME NEW C, NEW N \in Nat, NEW seqs \in [1..N -> Seq(C)]
    PROVE  FlattenSeq(seqs) \in Seq(C)
<1>1. PICK f \in [0..N -> Seq(C)] : Joins(N, seqs, f)
  BY Flattening
<1>2. FlattenSeq(seqs) = f[N]
  BY <1>1 DEF Joins
<1> QED BY <1>2

(* The first text comes first, the others are behind it.                     *)
LEMMA FlattenCons ==
    ASSUME NEW C, NEW N \in Nat, NEW seqs \in [1..(N + 1) -> Seq(C)]
    PROVE  FlattenSeq(seqs) = Cat(seqs[1], FlattenSeq([n \in 1..N |-> seqs[n + 1]]))
<1> DEFINE rest == [n \in 1..N |-> seqs[n + 1]]
<1>1. rest \in [1..N -> Seq(C)] /\ \A n \in 1..N : rest[n] = seqs[n + 1]
  OBVIOUS
<1> HIDE DEF rest
<1>2. N + 1 \in Nat
  OBVIOUS
<1>3. PICK f \in [0..(N + 1) -> Seq(C)] :
          /\ f[0] = <<>> /\ FlattenSeq(seqs) = f[N + 1]
          /\ \A n \in 1..(N + 1) : f[n] = Cat(f[n - 1], seqs[n])
  <2>1. \E f \in [0..(N + 1) -> Seq(C)] : Joins(N + 1, seqs, f)
    BY <1>2, Flattening
  <2> QED BY <2>1 DEF Joins, Cat
<1>4. PICK g \in [0..N -> Seq(C)] :
          /\ g[0] = <<>> /\ FlattenSeq(rest) = g[N]
          /\ \A n \in 1..N : g[n] = Cat(g[n - 1], rest[n])
  <2>1. \E g \in [0..N -> Seq(C)] : Joins(N, rest, g)
    BY <1>1, Flattening
  <2> QED BY <2>1 DEF Joins, Cat
<1> DEFINE Good == {n \in 0..N : f[n + 1] = Cat(seqs[1], g[n])}
<1>5. 0 \in Good
  <2>1. 1 \in 1..(N + 1) /\ 1 - 1 = 0
    OBVIOUS
  <2>2. f[1] = Cat(seqs[1], <<>>)
    <3>1. f[1] = Cat(f[0], seqs[1]) /\ seqs[1] \in Seq(C)
      BY <1>3, <2>1
    <3> QED BY <1>3, <3>1, CatEmpty
  <2> QED BY <1>4, <2>2
<1>6. ASSUME NEW n \in 0..(N - 1), n \in Good PROVE n + 1 \in Good
  <2>0. n + 2 \in 1..(N + 1) /\ n + 1 \in 1..N /\ (n + 2) - 1 = n + 1 /\ (n + 1) - 1 = n
          /\ (n + 1) + 1 = n + 2 /\ n \in 0..N /\ 1 \in 1..(N + 1) /\ n + 1 \in 0..N
    OBVIOUS
  <2>1. f[n + 2] = Cat(f[n + 1], seqs[n + 2])
    BY <1>3, <2>0
  <2>2. g[n + 1] = Cat(g[n], seqs[n + 2])
    BY <1>1, <1>4, <2>0
  <2>3. f[n + 1] = Cat(seqs[1], g[n])
    BY <1>6
  <2>4. seqs[1] \in Seq(C) /\ g[n] \in Seq(C) /\ seqs[n + 2] \in Seq(C)
    BY <2>0
  <2>5. f[n + 2] = Cat(seqs[1], g[n + 1])
    BY <2>1, <2>2, <2>3, <2>4, CatAssociative
  <2> QED BY <2>0, <2>5
<1>7. N \in Good
  <2>1. \A n \in 0..(N - 1) : n \in Good => n + 1 \in Good
    <3> HIDE DEF Good
    <3> QED BY <1>6
  <2> HIDE DEF Good
  <2>2. 0..N \subseteq Good
    BY <1>5, <2>1, Induction
  <2> QED BY <2>2
<1> QED BY <1>3, <1>4, <1>7 DEF rest

-----------------------------------------------------------------------------
(* Numbers and their digits.                                                 *)

(* Numbers that are written.                                                 *)
Numeral == Seq(Range(Digit))

(* A digit and its worth give each other.                                    *)
LEMMA Digits ==
    /\ Base \in Nat /\ Base >= 2
    /\ Digit \in [1..Base -> Range(Digit)]
    /\ \A c \in Range(Digit) : Worth(c) \in 0..(Base - 1) /\ Digit[Worth(c) + 1] = c
    /\ \A v \in 0..(Base - 1) : Digit[v + 1] \in Range(Digit) /\ Worth(Digit[v + 1]) = v
<1>1. Base \in Nat /\ Base >= 2 /\ DOMAIN Digit = 1..Base
  BY HexAssumption, LenProperties DEF Base
<1>2. Range(Digit) = {Digit[i] : i \in 1..Base}
  BY <1>1 DEF Range
<1>3. Digit \in [1..Base -> Range(Digit)]
  <2>1. Digit = [i \in 1..Base |-> Digit[i]]
    BY HexAssumption, <1>1, LenProperties
  <2> QED BY <1>2, <2>1
<1>4. ASSUME NEW i \in 1..Base PROVE Worth(Digit[i]) = i - 1
  <2>1. \A j \in 1..Base : Digit[i] = Digit[j] => i = j
    BY HexAssumption, <1>1
  <2>2. \A j \in DOMAIN Digit : Digit[j] = Digit[i] <=> j = i
    BY <1>1, <2>1
  <2>3. (CHOOSE j \in DOMAIN Digit : Digit[j] = Digit[i]) = i
    BY <1>1, <2>2
  <2> QED BY <2>3 DEF Worth
<1>5. ASSUME NEW c \in Range(Digit)
      PROVE  Worth(c) \in 0..(Base - 1) /\ Digit[Worth(c) + 1] = c
  <2>1. PICK i \in 1..Base : c = Digit[i]
    BY <1>2
  <2>2. Worth(c) = i - 1
    BY <1>4, <2>1
  <2>3. Worth(c) \in 0..(Base - 1) /\ Worth(c) + 1 = i
    BY <1>1, <2>2
  <2> QED BY <2>1, <2>3
<1>6. ASSUME NEW v \in 0..(Base - 1)
      PROVE  Digit[v + 1] \in Range(Digit) /\ Worth(Digit[v + 1]) = v
  <2>1. v + 1 \in 1..Base
    BY <1>1
  <2> QED BY <1>2, <1>4, <2>1
<1> QED BY <1>1, <1>3, <1>5, <1>6

(* f holds the values of the first n digits.                                 *)
Evaluates(f, digits) ==
    /\ f \in [0..Len(digits) -> Nat] /\ f[0] = 0 /\ f[Len(digits)] = Number(digits)
    /\ \A n \in 1..Len(digits) : f[n] = Base * f[n - 1] + Worth(digits[n])

(* The digits of a number are evaluated from the left, each number of them.  *)
LEMMA Evaluating ==
    ASSUME NEW digits \in Numeral
    PROVE  \E f : Evaluates(f, digits)
<1> DEFINE N == Len(digits)
           X == Nat
           x0 == 0
           step == [n \in 1..N |-> [v \in Nat |-> Base * v + Worth(digits[n])]]
<1>1. N \in Nat /\ \A n \in 1..N : digits[n] \in Range(Digit)
  BY LenProperties, ElementOfSeq DEF Numeral
<1>2. step \in [1..N -> [X -> X]]
  <2>1. ASSUME NEW n \in 1..N, NEW v \in Nat PROVE Base * v + Worth(digits[n]) \in Nat
    <3>1. digits[n] \in Range(Digit) /\ Base \in Nat
      BY <1>1, Digits
    <3>2. Worth(digits[n]) \in Nat
      BY <3>1, Digits
    <3> HIDE DEF N
    <3> QED BY <3>1, <3>2
  <2> HIDE DEF N
  <2> QED BY <2>1
<1>3. \E f \in [0..N -> X] : Unfolds(N, x0, step, f)
  <2>1. x0 \in X
    OBVIOUS
  <2> HIDE DEF N, X, x0, step
  <2> QED BY <1>1, <1>2, <2>1, Recursion
<1>4. PICK f \in [0..N -> Nat] : f[0] = 0 /\ \A n \in 1..N : f[n] = step[n][f[n - 1]]
  BY <1>3 DEF Unfolds
<1> HIDE DEF N
<1>5. ASSUME NEW n \in 1..N PROVE f[n] = Base * f[n - 1] + Worth(digits[n])
  <2>1. n - 1 \in 0..N
    BY <1>1
  <2>2. f[n - 1] \in Nat /\ f[n] = step[n][f[n - 1]]
    BY <1>4, <2>1
  <2> QED BY <2>2
<1> HIDE DEF step, X, x0
<1> DEFINE Counts(h) == h = [n \in 0..N |-> IF n = 0 THEN 0 ELSE Base * h[n - 1] + Worth(digits[n])]
           h == CHOOSE x : Counts(x)
<1>6. Counts(f)
  <2>1. \A n \in 0..N : f[n] = IF n = 0 THEN 0 ELSE Base * f[n - 1] + Worth(digits[n])
    BY <1>1, <1>4, <1>5
  <2> QED BY <2>1
<1>7. Counts(h)
  <2> HIDE DEF Counts
  <2> QED BY <1>6
<1>8. Number(digits) = h[N]
  BY DEF Number, N
<1> HIDE DEF h
<1> DEFINE Good == {n \in 0..N : h[n] = f[n]}
<1>9. ASSUME NEW n \in 0..(N - 1), n \in Good PROVE n + 1 \in Good
  <2>1. n + 1 \in 1..N /\ n + 1 \in 0..N /\ (n + 1) - 1 = n /\ n + 1 # 0
    BY <1>1
  <2>2. h[n + 1] = Base * h[n] + Worth(digits[n + 1])
    BY <1>7, <2>1
  <2>3. f[n + 1] = Base * f[n] + Worth(digits[n + 1])
    BY <1>5, <2>1
  <2>4. h[n] = f[n]
    BY <1>9
  <2>5. h[n + 1] = f[n + 1]
    BY <2>2, <2>3, <2>4
  <2> QED BY <2>1, <2>5
<1>10. N \in Good
  <2>1. 0 \in Good
    <3>1. 0 \in 0..N
      BY <1>1
    <3> QED BY <1>4, <1>7, <3>1
  <2>2. \A n \in 0..(N - 1) : n \in Good => n + 1 \in Good
    <3> HIDE DEF Good
    <3> QED BY <1>9
  <2> HIDE DEF Good
  <2>3. 0..N \subseteq Good
    BY <1>1, <2>1, <2>2, Induction
  <2> QED BY <1>1, <2>3
<1>11. f[N] = Number(digits)
  BY <1>8, <1>10
<1> QED BY <1>4, <1>5, <1>11 DEF Evaluates, N

(* Digits have a value.                                                      *)
LEMMA NumberType ==
    ASSUME NEW digits \in Numeral
    PROVE  Number(digits) \in Nat
<1>1. PICK f : Evaluates(f, digits)
  BY Evaluating
<1>2. Len(digits) \in Nat
  BY LenProperties DEF Numeral
<1>3. f \in [0..Len(digits) -> Nat] /\ f[Len(digits)] = Number(digits)
  BY <1>1 DEF Evaluates
<1>4. Len(digits) \in 0..Len(digits)
  BY <1>2
<1> QED BY <1>3, <1>4

(* No digits are worth nothing.                                              *)
LEMMA NumberEmpty == Number(<<>>) = 0
<1>1. <<>> \in Numeral /\ Len(<<>>) = 0
  BY DEF Numeral
<1>2. PICK f : Evaluates(f, <<>>)
  BY <1>1, Evaluating
<1> QED BY <1>1, <1>2 DEF Evaluates

(* One more digit makes the number Base times as large, and adds its worth.  *)
LEMMA NumberAppend ==
    ASSUME NEW digits \in Numeral, NEW c \in Range(Digit)
    PROVE  Number(Append(digits, c)) = Base * Number(digits) + Worth(c)
<1> DEFINE longer == Append(digits, c)
           N == Len(digits)
<1>1. /\ longer \in Numeral /\ N \in Nat /\ Len(longer) = N + 1 /\ longer[N + 1] = c
      /\ \A n \in 1..N : longer[n] = digits[n]
  BY AppendProperties, LenProperties DEF Numeral
<1>2. PICK f : Evaluates(f, digits)
  BY Evaluating
<1>3. PICK g : Evaluates(g, longer)
  <2> HIDE DEF longer
  <2> QED BY <1>1, Evaluating
<1>4. /\ f[0] = 0 /\ f[N] = Number(digits)
      /\ \A n \in 1..N : f[n] = Base * f[n - 1] + Worth(digits[n])
  BY <1>2 DEF Evaluates
<1> HIDE DEF longer, N
<1>5. /\ g[0] = 0 /\ g[N + 1] = Number(longer)
      /\ \A n \in 1..(N + 1) : g[n] = Base * g[n - 1] + Worth(longer[n])
  BY <1>1, <1>3 DEF Evaluates
<1> DEFINE Good == {n \in 0..N : g[n] = f[n]}
<1>6. ASSUME NEW n \in 0..(N - 1), n \in Good PROVE n + 1 \in Good
  <2>1. n + 1 \in 1..N /\ n + 1 \in 1..(N + 1) /\ (n + 1) - 1 = n
    BY <1>1
  <2>2. g[n + 1] = Base * g[n] + Worth(longer[n + 1])
    BY <1>5, <2>1
  <2>3. f[n + 1] = Base * f[n] + Worth(digits[n + 1])
    BY <1>4, <2>1
  <2>4. g[n] = f[n] /\ longer[n + 1] = digits[n + 1]
    BY <1>1, <1>6, <2>1
  <2>5. g[n + 1] = f[n + 1]
    BY <2>2, <2>3, <2>4
  <2> QED BY <2>1, <2>5
<1>7. N \in Good
  <2>1. 0 \in Good
    BY <1>1, <1>4, <1>5
  <2>2. \A n \in 0..(N - 1) : n \in Good => n + 1 \in Good
    <3> HIDE DEF Good
    <3> QED BY <1>6
  <2> HIDE DEF Good
  <2>3. 0..N \subseteq Good
    BY <1>1, <2>1, <2>2, Induction
  <2> QED BY <1>1, <2>3
<1>8. N + 1 \in 1..(N + 1) /\ (N + 1) - 1 = N
  BY <1>1
<1>9. g[N + 1] = Base * g[N] + Worth(longer[N + 1])
  BY <1>5, <1>8
<1>10. g[N] = Number(digits)
  BY <1>4, <1>7
<1>11. g[N + 1] = Base * Number(digits) + Worth(c)
  BY <1>1, <1>9, <1>10
<1> QED BY <1>5, <1>11 DEF longer

(* A number of two digits, or fewer, is a byte.                              *)
LEMMA ShortNumber ==
    ASSUME NEW digits \in Numeral, Len(digits) <= 2
    PROVE  Number(digits) \in Byte
<1>1. PICK f : Evaluates(f, digits)
  BY Evaluating
<1>2. Len(digits) \in Nat /\ Base \in Nat /\ Base >= 2
  BY LenProperties, Digits DEF Numeral
<1>3. /\ f \in [0..Len(digits) -> Nat] /\ f[0] = 0 /\ f[Len(digits)] = Number(digits)
      /\ \A n \in 1..Len(digits) : f[n] = Base * f[n - 1] + Worth(digits[n])
  BY <1>1 DEF Evaluates
<1>4. \A n \in 1..Len(digits) : Worth(digits[n]) \in 0..(Base - 1)
  <2> SUFFICES ASSUME NEW n \in 1..Len(digits) PROVE Worth(digits[n]) \in 0..(Base - 1)
    OBVIOUS
  <2>1. digits[n] \in Range(Digit)
    BY ElementOfSeq DEF Numeral
  <2> QED BY <2>1, Digits
<1>5. Base * Base \in Int /\ Base <= Base * Base
  BY <1>2
<1>6. CASE Len(digits) = 0
  BY <1>2, <1>3, <1>5, <1>6 DEF Byte
<1>7. ASSUME Len(digits) >= 1 PROVE f[1] \in 0..(Base - 1)
  <2>1. 1 \in 1..Len(digits) /\ 1 - 1 = 0
    BY <1>2, <1>7
  <2>2. f[1] = Base * f[0] + Worth(digits[1])
    BY <1>3, <2>1
  <2>3. Worth(digits[1]) \in 0..(Base - 1)
    BY <1>4, <2>1
  <2>4. f[1] = Worth(digits[1])
    BY <1>2, <1>3, <2>2, <2>3
  <2> QED BY <2>3, <2>4
<1>8. CASE Len(digits) = 1
  <2>1. Number(digits) \in 0..(Base - 1)
    BY <1>3, <1>7, <1>8
  <2> QED BY <1>2, <1>5, <2>1 DEF Byte
<1>9. CASE Len(digits) = 2
  <2>1. 2 \in 1..Len(digits) /\ 2 - 1 = 1
    BY <1>9
  <2>2. f[2] = Base * f[1] + Worth(digits[2])
    BY <1>3, <2>1
  <2>3. PICK a \in 0..(Base - 1) : a = f[1]
    BY <1>7, <1>9
  <2>4. PICK w \in 0..(Base - 1) : w = Worth(digits[2])
    BY <1>4, <2>1
  <2>5. Base * a + w \in 0..(Base * Base - 1)
    <3>1. Base * a <= Base * (Base - 1) /\ 0 <= Base * a
      BY <1>2
    <3>2. Base * (Base - 1) = Base * Base - Base
      BY <1>2
    <3>3. Base * a \in Int
      BY <1>2
    <3> HIDE DEF Base
    <3> QED BY <1>2, <1>5, <3>1, <3>2, <3>3
  <2> QED BY <1>3, <1>9, <2>2, <2>3, <2>4, <2>5 DEF Byte
<1>10. Len(digits) = 0 \/ Len(digits) = 1 \/ Len(digits) = 2
  <2>1. PICK n \in Nat : n = Len(digits) /\ n <= 2
    BY <1>2
  <2>2. n = 0 \/ n = 1 \/ n = 2
    BY <2>1
  <2> QED BY <2>1, <2>2
<1> QED BY <1>6, <1>8, <1>9, <1>10

(* A number is made of its quotient and of its remainder by the base.        *)
LEMMA Dividing ==
    ASSUME NEW v \in Nat
    PROVE  /\ v \div Base \in Nat /\ v % Base \in 0..(Base - 1)
           /\ v = Base * (v \div Base) + (v % Base)
<1>1. Base \in Nat /\ Base >= 2
  BY Digits
<1>2. PICK b \in Nat : b = Base /\ b >= 2
  BY <1>1
<1>3. v \div b \in Nat
  BY <1>2
<1>4. v % b \in 0..(b - 1)
  BY <1>2
<1>5. v = b * (v \div b) + (v % b)
  BY <1>2
<1> QED BY <1>2, <1>3, <1>4, <1>5

(* Power is what its recursive definition says.                              *)
LEMMA Powers ==
    /\ Power \in [0..AddressDigits -> Nat] /\ Power[0] = 1
    /\ \A n \in 1..AddressDigits : Power[n] = Base * Power[n - 1]
<1> DEFINE N == AddressDigits
           X == Nat
           x0 == 1
           step == [n \in 1..N |-> [v \in Nat |-> Base * v]]
<1>1. N \in Nat /\ Base \in Nat
  BY HexAssumption, Digits
<1>2. step \in [1..N -> [X -> X]]
  <2>1. \A v \in Nat : Base * v \in Nat
    BY <1>1
  <2> HIDE DEF Base
  <2> QED BY <2>1
<1>3. \E f \in [0..N -> X] : Unfolds(N, x0, step, f)
  <2>1. x0 \in X
    OBVIOUS
  <2> HIDE DEF N, X, x0, step
  <2> QED BY <1>1, <1>2, <2>1, Recursion
<1>4. PICK f \in [0..N -> Nat] : f[0] = 1 /\ \A n \in 1..N : f[n] = step[n][f[n - 1]]
  BY <1>3 DEF Unfolds
<1> HIDE DEF N
<1>5. ASSUME NEW n \in 1..N PROVE f[n] = Base * f[n - 1]
  <2>1. n - 1 \in 0..N
    BY <1>1
  <2>2. f[n - 1] \in Nat /\ f[n] = step[n][f[n - 1]]
    BY <1>4, <2>1
  <2> QED BY <2>2
<1> HIDE DEF step, X, x0
<1> DEFINE Counts(h) == h = [n \in 0..N |-> IF n = 0 THEN 1 ELSE Base * h[n - 1]]
<1>6. Counts(f)
  <2>1. \A n \in 0..N : f[n] = IF n = 0 THEN 1 ELSE Base * f[n - 1]
    BY <1>1, <1>4, <1>5
  <2> QED BY <2>1
<1>7. Counts(Power)
  <2>1. Power = CHOOSE h : Counts(h)
    BY DEF Power, N
  <2> HIDE DEF Counts
  <2> QED BY <1>6, <2>1
<1> DEFINE Good == {n \in 0..N : Power[n] = f[n]}
<1>8. ASSUME NEW n \in 0..(N - 1), n \in Good PROVE n + 1 \in Good
  <2>1. n + 1 \in 1..N /\ n + 1 \in 0..N /\ (n + 1) - 1 = n /\ n + 1 # 0
    BY <1>1
  <2>2. Power[n + 1] = Base * Power[n]
    BY <1>7, <2>1
  <2>3. f[n + 1] = Base * f[n]
    BY <1>5, <2>1
  <2>4. Power[n] = f[n]
    BY <1>8
  <2>5. Power[n + 1] = f[n + 1]
    BY <2>2, <2>3, <2>4
  <2> QED BY <2>1, <2>5
<1>9. \A n \in 0..N : Power[n] = f[n]
  <2>1. 0 \in Good
    BY <1>1, <1>4, <1>7
  <2>2. \A n \in 0..(N - 1) : n \in Good => n + 1 \in Good
    <3> HIDE DEF Good
    <3> QED BY <1>8
  <2> HIDE DEF Good
  <2>3. 0..N \subseteq Good
    BY <1>1, <2>1, <2>2, Induction
  <2> QED BY <1>1, <2>3 DEF Good
<1>10. Power = f
  <2>1. Power = [n \in 0..N |-> Power[n]]
    BY <1>7
  <2> QED BY <1>4, <1>9, <2>1
<1> QED BY <1>4, <1>5, <1>10 DEF N

(* HexNumber gives n digits, whose value is the number if n digits are enough *)
(* (the conversions of write_stream() to two and to four digits).            *)
LEMMA HexNumbers ==
    ASSUME NEW n \in 0..AddressDigits, NEW v \in Nat
    PROVE  /\ HexNumber[n][v] \in Numeral /\ Len(HexNumber[n][v]) = n
           /\ v < Power[n] => Number(HexNumber[n][v]) = v
<1> DEFINE N == AddressDigits
           X == [Nat -> Numeral]
           x0 == [w \in Nat |-> <<>>]
           longer(h) == [w \in Nat |-> Append(h[w \div Base], Digit[(w % Base) + 1])]
           step == [m \in 1..N |-> [h \in X |-> longer(h)]]
<1>1. N \in Nat /\ Base \in Nat /\ Base >= 2
  BY HexAssumption, Digits
<1>2. ASSUME NEW h \in X PROVE longer(h) \in X
  <2>1. ASSUME NEW w \in Nat PROVE Append(h[w \div Base], Digit[(w % Base) + 1]) \in Numeral
    <3>1. h[w \div Base] \in Numeral
      BY Dividing
    <3>2. Digit[(w % Base) + 1] \in Range(Digit)
      BY Dividing, Digits
    <3> QED BY <3>1, <3>2, AppendProperties DEF Numeral
  <2> QED BY <2>1
<1>3. step \in [1..N -> [X -> X]]
  <2> HIDE DEF longer, X
  <2> QED BY <1>2
<1>4. x0 \in X
  BY DEF Numeral
<1>5. \E f \in [0..N -> X] : Unfolds(N, x0, step, f)
  <2> HIDE DEF N, X, x0, step
  <2> QED BY <1>1, <1>3, <1>4, Recursion
<1>6. PICK f \in [0..N -> X] : f[0] = x0 /\ \A m \in 1..N : f[m] = step[m][f[m - 1]]
  BY <1>5 DEF Unfolds
<1> HIDE DEF N
<1>7. ASSUME NEW m \in 1..N PROVE f[m] = longer(f[m - 1])
  <2>1. m - 1 \in 0..N
    BY <1>1
  <2>2. f[m - 1] \in X /\ f[m] = step[m][f[m - 1]]
    BY <1>6, <2>1
  <2> HIDE DEF longer, X
  <2> QED BY <2>2
<1> HIDE DEF step
<1> DEFINE either(m, h) ==
             [w \in Nat |-> IF m = 0 THEN <<>>
                            ELSE Append(h[m - 1][w \div Base], Digit[(w % Base) + 1])]
           Spells(h) == h = [m \in 0..N |-> either(m, h)]
<1>8. Spells(f)
  <2>1. ASSUME NEW m \in 0..N PROVE f[m] = either(m, f)
    <3>1. CASE m = 0
      <4>1. either(m, f) = x0
        BY <3>1
      <4> QED BY <1>6, <3>1, <4>1
    <3>2. CASE m # 0
      <4>1. m \in 1..N
        BY <1>1, <3>2
      <4>2. either(m, f) = longer(f[m - 1])
        BY <3>2
      <4> QED BY <1>7, <4>1, <4>2
    <3> QED BY <3>1, <3>2
  <2> HIDE DEF either, X
  <2> QED BY <2>1
<1>9. Spells(HexNumber)
  <2>1. HexNumber = CHOOSE h : Spells(h)
    BY DEF HexNumber, N
  <2> HIDE DEF Spells
  <2> QED BY <1>8, <2>1
<1>10. HexNumber[0] = x0 /\ \A m \in 1..N : HexNumber[m] = longer(HexNumber[m - 1])
  <2>1. HexNumber[0] = either(0, HexNumber) /\ \A m \in 1..N : HexNumber[m] = either(m, HexNumber)
    <3> HIDE DEF either
    <3>1. \A m \in 0..N : HexNumber[m] = either(m, HexNumber)
      BY <1>9
    <3>2. 0 \in 0..N /\ \A m \in 1..N : m \in 0..N
      BY <1>1
    <3> QED BY <3>1, <3>2
  <2>2. either(0, HexNumber) = x0
    OBVIOUS
  <2>3. ASSUME NEW m \in 1..N PROVE either(m, HexNumber) = longer(HexNumber[m - 1])
    <3>1. m # 0
      BY <1>1
    <3> QED BY <3>1
  <2> HIDE DEF either, longer, x0
  <2> QED BY <2>1, <2>2, <2>3
<1> HIDE DEF either, Spells
<1> DEFINE Spelt(m, w) ==
               /\ HexNumber[m][w] \in Numeral /\ Len(HexNumber[m][w]) = m
               /\ w < Power[m] => Number(HexNumber[m][w]) = w
           Good == {m \in 0..N : \A w \in Nat : Spelt(m, w)}
<1>11. ASSUME NEW m \in 0..(N - 1), m \in Good PROVE m + 1 \in Good
  <2>1. m + 1 \in 1..N /\ m + 1 \in 0..N /\ (m + 1) - 1 = m /\ m + 1 # 0 /\ m \in 0..N
    BY <1>1
  <2>2. HexNumber[m + 1] = longer(HexNumber[m])
    BY <1>10, <2>1
  <2>3. ASSUME NEW w \in Nat PROVE Spelt(m + 1, w)
    <3>0. /\ w \div Base \in Nat /\ w % Base \in 0..(Base - 1)
          /\ w = Base * (w \div Base) + (w % Base)
      BY <2>3, Dividing
    <3>1. PICK q \in Nat, r \in 0..(Base - 1) :
              q = w \div Base /\ r = w % Base /\ w = Base * q + r
      <4>1. PICK q : q = w \div Base
        OBVIOUS
      <4>2. PICK r : r = w % Base
        OBVIOUS
      <4>3. q \in Nat /\ r \in 0..(Base - 1) /\ w = Base * q + r
        BY <3>0, <4>1, <4>2
      <4> QED BY <4>1, <4>2, <4>3
    <3> DEFINE digits == HexNumber[m][q]
               c == Digit[r + 1]
    <3>2. HexNumber[m + 1][w] = Append(digits, c)
      BY <2>2, <3>1
    <3>3. Spelt(m, q)
      BY <1>11, <3>1
    <3>4. digits \in Numeral /\ Len(digits) = m /\ (q < Power[m] => Number(digits) = q)
      BY <3>3
    <3>5. c \in Range(Digit) /\ Worth(c) = r
      BY <3>1, Digits
    <3> HIDE DEF digits, c
    <3>6. Append(digits, c) \in Numeral /\ Len(Append(digits, c)) = m + 1
      BY <3>4, <3>5, AppendProperties DEF Numeral
    <3>7. Number(Append(digits, c)) = Base * Number(digits) + r
      BY <3>4, <3>5, NumberAppend
    <3>8. ASSUME w < Power[m + 1] PROVE Number(Append(digits, c)) = w
      <4>1. Power[m + 1] = Base * Power[m] /\ Power[m] \in Nat
        BY <2>1, Powers DEF N
      <4>2. PICK p \in Nat : p = Power[m]
        BY <4>1
      <4>3. Base * q + r < Base * p
        BY <3>1, <3>8, <4>1, <4>2
      <4>4. q < p
        <5>0. PICK b \in Nat : b = Base /\ b >= 2
          BY <1>1
        <5>1. PICK x \in Int : x = b * q
          OBVIOUS
        <5>2. PICK y \in Int : y = b * p
          OBVIOUS
        <5>3. x + r < y
          BY <4>3, <5>0, <5>1, <5>2
        <5>4. q >= p => x >= y
          BY <5>0, <5>1, <5>2
        <5> QED BY <5>3, <5>4
      <4>5. Number(digits) = q
        BY <3>4, <4>2, <4>4
      <4> QED BY <3>1, <3>7, <4>5
    <3> QED BY <3>2, <3>6, <3>8
  <2> HIDE DEF Spelt
  <2> QED BY <2>1, <2>3
<1>12. 0 \in Good
  <2>1. ASSUME NEW w \in Nat PROVE Spelt(0, w)
    <3>1. HexNumber[0][w] = <<>>
      BY <1>10
    <3>2. <<>> \in Numeral /\ Len(<<>>) = 0 /\ Power[0] = 1
      BY Powers DEF Numeral
    <3>3. w < 1 => w = 0
      OBVIOUS
    <3> QED BY <3>1, <3>2, <3>3, NumberEmpty
  <2> HIDE DEF Spelt
  <2> QED BY <1>1, <2>1
<1>13. n \in Good
  <2>1. \A m \in 0..(N - 1) : m \in Good => m + 1 \in Good
    <3> HIDE DEF Good
    <3> QED BY <1>11
  <2> HIDE DEF Good
  <2>2. 0..N \subseteq Good
    BY <1>1, <1>12, <2>1, Induction
  <2> QED BY <2>2 DEF N
<1> QED BY <1>13

-----------------------------------------------------------------------------
(* What stoi() makes of a text.                                              *)

(* What stoi() skips.                                                        *)
Blank == {" ", "\n", "\r"}

(* The least number of a set that has one.                                   *)
LEMMA Smallest ==
    ASSUME NEW numbers \in SUBSET Nat, numbers # {}
    PROVE  /\ Min(numbers) \in numbers
           /\ \A x \in numbers : Min(numbers) <= x
<1>1. \E x \in numbers : \A y \in numbers : x <= y
  BY Least
<1> QED BY <1>1 DEF Min

(* From a place on.                                                          *)
LEMMA Beginning ==
    ASSUME NEW C, NEW word \in Seq(C), NEW i \in 0..Len(word)
    PROVE  /\ From(word, i) \in Seq(C) /\ Len(From(word, i)) <= Len(word)
           /\ \A k \in 1..Len(From(word, i)) : From(word, i)[k] = word[k + i - 1]
           /\ i = 1 => From(word, i) = word
<1>1. Len(word) \in Nat /\ \A k \in 1..Len(word) : word[k] \in C
  BY LenProperties, ElementOfSeq
<1>2. CASE i = 0
  BY <1>1, <1>2 DEF From
<1>3. CASE i # 0
  <2>1. From(word, i) = SubSeq(word, i, Len(word))
    BY <1>3 DEF From
  <2>2. i \in Int /\ i >= 1 /\ Len(word) \in Int /\ \A k \in i..Len(word) : word[k] \in C
    BY <1>1, <1>3
  <2>3. /\ SubSeq(word, i, Len(word)) \in Seq(C)
        /\ Len(SubSeq(word, i, Len(word))) = Len(word) - i + 1
        /\ \A k \in 1..(Len(word) - i + 1) : SubSeq(word, i, Len(word))[k] = word[i + k - 1]
    BY <2>2, <1>1, SubSeqProperties
  <2>4. i = 1 => SubSeq(word, i, Len(word)) = word
    BY SubSeqFull
  <2> QED BY <1>1, <2>1, <2>2, <2>3, <2>4
<1> QED BY <1>2, <1>3

(* What stoi() evaluates is digits, no more of them than characters.         *)
LEMMA DigitsAre ==
    ASSUME NEW word \in Seq(Character)
    PROVE  DigitsOf(word) \in Numeral /\ Len(DigitsOf(word)) <= Len(word)
<1> DEFINE first == SelectInSeq(word, LAMBDA c : c \notin Blank)
           rest == From(word, first)
           end == SelectInSeq(rest, LAMBDA c : c \notin Range(Digit))
<1>1. DigitsOf(word) = IF end = 0 THEN rest ELSE SubSeq(rest, 1, end - 1)
  BY DEF DigitsOf, Skip, Blank
<1>2. first \in 0..Len(word)
  <2> DEFINE found == {i \in 1..Len(word) : word[i] \notin Blank}
  <2>1. first = IF found # {} THEN Min(found) ELSE 0
    BY DEF SelectInSeq
  <2>2. Len(word) \in Nat /\ found \in SUBSET Nat /\ found \subseteq 1..Len(word)
    BY LenProperties
  <2> HIDE DEF found
  <2>3. CASE found # {}
    <3>1. Min(found) \in found
      BY <2>2, <2>3, Smallest
    <3> QED BY <2>1, <2>2, <2>3, <3>1
  <2>4. CASE found = {}
    BY <2>1, <2>2, <2>4
  <2> QED BY <2>3, <2>4
<1> HIDE DEF first
<1>3. rest \in Seq(Character) /\ Len(rest) <= Len(word)
  BY <1>2, Beginning
<1> HIDE DEF rest
<1> DEFINE found == {i \in 1..Len(rest) : rest[i] \notin Range(Digit)}
<1>4. end = IF found # {} THEN Min(found) ELSE 0
  BY DEF SelectInSeq
<1>5. Len(rest) \in Nat /\ Len(word) \in Nat /\ found \in SUBSET Nat /\ found \subseteq 1..Len(rest)
  BY <1>3, LenProperties
<1>6. CASE found = {}
  <2>1. DigitsOf(word) = rest
    BY <1>1, <1>4, <1>6
  <2>2. \A i \in 1..Len(rest) : rest[i] \in Range(Digit)
    BY <1>6
  <2>3. rest = [i \in 1..Len(rest) |-> rest[i]]
    BY <1>3, LenProperties
  <2>4. rest \in Seq(Range(Digit))
    BY <1>5, <2>2, <2>3
  <2> QED BY <1>3, <2>1, <2>4 DEF Numeral
<1>7. CASE found # {}
  <2>1. end \in found /\ \A i \in found : end <= i
    <3> HIDE DEF found, end
    <3> QED BY <1>4, <1>5, <1>7, Smallest
  <2>2. end \in 1..Len(rest) /\ end # 0
    BY <1>5, <2>1
  <2>3. \A i \in 1..(end - 1) : rest[i] \in Range(Digit)
    <3>1. \A i \in 1..(end - 1) : i \in 1..Len(rest) /\ ~ (end <= i)
      <4> HIDE DEF end
      <4> QED BY <1>5, <2>2
    <3> HIDE DEF end
    <3> QED BY <2>1, <3>1
  <2> HIDE DEF end, found
  <2>4. /\ SubSeq(rest, 1, end - 1) \in Seq(Range(Digit))
        /\ Len(SubSeq(rest, 1, end - 1)) = IF 1 <= end - 1 THEN (end - 1) - 1 + 1 ELSE 0
    <3>1. 1 \in Int /\ end - 1 \in Int
      BY <2>2
    <3> QED BY <2>3, <3>1, SubSeqProperties
  <2> QED BY <1>1, <1>3, <1>5, <2>2, <2>4 DEF Numeral
<1> QED BY <1>6, <1>7

(* What stoi reads of a text that begins with digits.                        *)
LEMMA ReadsBack ==
    ASSUME NEW digits \in Numeral, digits # <<>>, NEW junk \in Seq(Character),
           junk = <<>> \/ junk[1] \notin Range(Digit)
    PROVE  DigitsOf(Cat(digits, junk)) = digits
<1> DEFINE word == Cat(digits, junk)
           m == Len(digits)
           first == SelectInSeq(word, LAMBDA c : c \notin Blank)
           rest == From(word, first)
           end == SelectInSeq(rest, LAMBDA c : c \notin Range(Digit))
<1>1. DigitsOf(word) = IF end = 0 THEN rest ELSE SubSeq(rest, 1, end - 1)
  BY DEF DigitsOf, Skip, Blank
<1>2. /\ m \in Nat /\ m >= 1 /\ \A i \in 1..m : digits[i] \in Range(Digit)
      /\ Len(junk) \in Nat /\ (junk # <<>> => Len(junk) >= 1)
  BY EmptySeq, LenProperties, ElementOfSeq DEF Numeral
<1>3. Range(Digit) \subseteq Character /\ Range(Digit) \cap Blank = {}
  BY HexAssumption DEF Character, Blank
<1>4. digits \in Seq(Character)
  BY <1>3, SeqMonotonic DEF Numeral
<1>5. /\ word \in Seq(Character) /\ Len(word) = m + Len(junk)
      /\ \A i \in 1..m : word[i] = digits[i]
      /\ junk # <<>> => word[m + 1] = junk[1]
  BY <1>2, <1>4, ConcatProperties DEF Cat
<1>6. junk = <<>> => word = digits
  BY <1>4, CatEmpty
<1> HIDE DEF word, m
<1>7. first = 1
  <2> DEFINE found == {i \in 1..Len(word) : word[i] \notin Blank}
  <2>1. first = IF found # {} THEN Min(found) ELSE 0
    BY DEF SelectInSeq
  <2>2. found \in SUBSET Nat /\ 1 \in found /\ \A i \in found : i >= 1
    <3>1. 1 \in 1..m /\ 1 \in 1..Len(word)
      BY <1>2, <1>5
    <3>2. word[1] \notin Blank
      BY <1>2, <1>3, <1>5, <3>1
    <3> QED BY <3>1, <3>2
  <2> HIDE DEF found
  <2>3. Min(found) \in found /\ Min(found) <= 1
    BY <2>2, Smallest
  <2>4. Min(found) \in Nat /\ Min(found) >= 1
    BY <2>2, <2>3
  <2>5. Min(found) = 1
    BY <2>3, <2>4
  <2> QED BY <2>1, <2>2, <2>5
<1>8. rest = word
  BY <1>2, <1>5, <1>7, Beginning
<1> HIDE DEF rest
<1> DEFINE found == {i \in 1..Len(rest) : rest[i] \notin Range(Digit)}
<1>9. end = IF found # {} THEN Min(found) ELSE 0
  BY DEF SelectInSeq
<1>10. CASE junk = <<>>
  <2>1. rest = digits /\ found = {}
    BY <1>2, <1>6, <1>8, <1>10 DEF m
  <2> QED BY <1>1, <1>9, <2>1 DEF word
<1>11. CASE junk # <<>>
  <2>1. m + 1 \in 1..Len(word)
    BY <1>2, <1>5, <1>11
  <2>2. m + 1 \in found
    BY <1>5, <1>8, <1>11, <2>1
  <2>3. found \in SUBSET Nat /\ \A i \in found : i >= m + 1
    <3>1. \A i \in 1..m : word[i] \in Range(Digit)
      BY <1>2, <1>5
    <3>2. \A i \in 1..Len(word) : i \in Nat /\ (i \notin 1..m => i >= m + 1)
      BY <1>2
    <3> QED BY <1>8, <3>1, <3>2
  <2> HIDE DEF found
  <2>4. Min(found) \in found /\ Min(found) <= m + 1
    BY <2>2, <2>3, Smallest
  <2>5. Min(found) \in Nat /\ Min(found) >= m + 1
    BY <2>3, <2>4
  <2>6. Min(found) = m + 1
    BY <1>2, <2>4, <2>5
  <2>7. end = m + 1
    BY <1>9, <2>2, <2>6
  <2>8. DigitsOf(word) = SubSeq(word, 1, m)
    <3>1. end # 0 /\ end - 1 = m
      BY <1>2, <2>7
    <3> QED BY <1>1, <1>8, <3>1
  <2>9. SubSeq(word, 1, m) = digits
    <3>1. \A i \in 1..m : word[i] \in Range(Digit)
      BY <1>2, <1>5
    <3>2. /\ SubSeq(word, 1, m) \in Numeral /\ Len(SubSeq(word, 1, m)) = m - 1 + 1
          /\ \A i \in 1..(m - 1 + 1) : SubSeq(word, 1, m)[i] = word[1 + i - 1]
      BY <1>2, <3>1, SubSeqProperties DEF Numeral
    <3>3. \A i \in 1..m : SubSeq(word, 1, m)[i] = digits[i]
      <4>1. m - 1 + 1 = m /\ \A i \in 1..m : 1 + i - 1 = i
        BY <1>2
      <4> QED BY <1>5, <3>2, <4>1
    <3>4. Len(SubSeq(word, 1, m)) = Len(digits)
      BY <1>2, <3>2 DEF m
    <3> QED BY <3>2, <3>3, <3>4, SeqEqual DEF Numeral, m
  <2> QED BY <2>8, <2>9 DEF word
<1> QED BY <1>10, <1>11

(* A text whose first character is neither a digit nor blank has no number.  *)
LEMMA NoNumber ==
    ASSUME NEW word \in Seq(Character), word # <<>>, word[1] \notin Blank \cup Range(Digit)
    PROVE  DigitsOf(word) = <<>>
<1> DEFINE first == SelectInSeq(word, LAMBDA c : c \notin Blank)
           rest == From(word, first)
           end == SelectInSeq(rest, LAMBDA c : c \notin Range(Digit))
<1>1. DigitsOf(word) = IF end = 0 THEN rest ELSE SubSeq(rest, 1, end - 1)
  BY DEF DigitsOf, Skip, Blank
<1>2. Len(word) \in Nat /\ 1 \in 1..Len(word)
  BY EmptySeq, LenProperties
<1> DEFINE found == {i \in 1..Len(word) : word[i] \notin Blank}
           none == {i \in 1..Len(rest) : rest[i] \notin Range(Digit)}
<1>3. first = (IF found # {} THEN Min(found) ELSE 0) /\ end = (IF none # {} THEN Min(none) ELSE 0)
  BY DEF SelectInSeq
<1>4. found \in SUBSET Nat /\ 1 \in found /\ \A i \in found : i \in Nat /\ i >= 1
  BY <1>2
<1> HIDE DEF found, first
<1>5. first = 1
  <2>1. Min(found) \in found /\ Min(found) <= 1
    BY <1>4, Smallest
  <2>2. Min(found) \in Nat /\ Min(found) >= 1
    BY <1>4, <2>1
  <2>3. Min(found) = 1
    BY <2>1, <2>2
  <2> QED BY <1>3, <1>4, <2>3
<1>6. rest = word
  BY <1>2, <1>5, Beginning
<1> HIDE DEF rest
<1>7. none \in SUBSET Nat /\ 1 \in none /\ \A i \in none : i \in Nat /\ i >= 1
  BY <1>2, <1>6
<1> HIDE DEF none, end
<1>8. end = 1
  <2>1. Min(none) \in none /\ Min(none) <= 1
    BY <1>7, Smallest
  <2>2. Min(none) \in Nat /\ Min(none) >= 1
    BY <1>7, <2>1
  <2>3. Min(none) = 1
    BY <2>1, <2>2
  <2> QED BY <1>3, <1>7, <2>3
<1>9. SubSeq(rest, 1, 0) = <<>>
  BY SubSeqEmpty
<1> QED BY <1>1, <1>8, <1>9

(* An address is never more than an int holds, and there is room for a byte. *)
LEMMA Bounds ==
    /\ AddressCount \in Nat /\ Base * Base <= AddressCount
    /\ \A v \in Nat : v < AddressCount => 2 * v < AddressCount * AddressCount
<1>1. AddressDigits \in Nat /\ AddressDigits >= 2 /\ Base \in Nat /\ Base >= 2
  BY HexAssumption, Digits
<1>2. PICK b \in Nat : b = Base /\ b >= 2
  BY <1>1
<1>3. /\ Power \in [0..AddressDigits -> Nat] /\ Power[0] = 1
      /\ \A n \in 1..AddressDigits : Power[n] = b * Power[n - 1]
  BY <1>2, Powers
<1>4. Power[2] = b * b
  <2>1. 1 \in 1..AddressDigits /\ 2 \in 1..AddressDigits /\ 1 - 1 = 0 /\ 2 - 1 = 1
    BY <1>1
  <2>2. Power[1] = b * 1
    BY <1>3, <2>1
  <2>3. Power[2] = b * Power[1]
    BY <1>3, <2>1
  <2> QED BY <2>2, <2>3
<1> DEFINE Good == {n \in 0..(AddressDigits - 2) : b * b <= Power[n + 2]}
<1>5. ASSUME NEW n \in 0..((AddressDigits - 2) - 1), n \in Good PROVE n + 1 \in Good
  <2>1. /\ (n + 1) + 2 \in 1..AddressDigits /\ ((n + 1) + 2) - 1 = n + 2
        /\ n + 1 \in 0..(AddressDigits - 2) /\ n + 2 \in 0..AddressDigits
    BY <1>1
  <2>2. Power[(n + 1) + 2] = b * Power[n + 2] /\ b * b <= Power[n + 2]
    BY <1>3, <1>5, <2>1
  <2>3. PICK p \in Nat : p = Power[n + 2]
    BY <1>3, <2>1
  <2>4. p <= b * p
    BY <1>2
  <2>5. b * b \in Nat /\ b * p \in Nat
    OBVIOUS
  <2>6. b * b <= b * p
    BY <2>2, <2>3, <2>4, <2>5
  <2>7. b * b <= Power[(n + 1) + 2]
    BY <2>2, <2>3, <2>6
  <2> QED BY <2>1, <2>7
<1>6. AddressDigits - 2 \in Good
  <2>1. 0 \in Good
    <3>1. 0 + 2 = 2 /\ 0 \in 0..(AddressDigits - 2)
      BY <1>1
    <3>2. b * b <= b * b
      OBVIOUS
    <3> QED BY <1>4, <3>1, <3>2
  <2>2. \A n \in 0..((AddressDigits - 2) - 1) : n \in Good => n + 1 \in Good
    <3> HIDE DEF Good
    <3> QED BY <1>5
  <2> HIDE DEF Good
  <2>3. AddressDigits - 2 \in Nat
    BY <1>1
  <2>4. 0..(AddressDigits - 2) \subseteq Good
    BY <2>1, <2>2, <2>3, Induction
  <2> QED BY <2>3, <2>4
<1>7. AddressCount \in Nat /\ b * b <= AddressCount
  <2>1. (AddressDigits - 2) + 2 = AddressDigits /\ AddressDigits \in 0..AddressDigits
    BY <1>1
  <2> QED BY <1>3, <1>6, <2>1 DEF AddressCount
<1>8. PICK n \in Nat : n = AddressCount /\ n >= 2
  <2>1. PICK x \in Nat : x = b * b
    OBVIOUS
  <2>2. x >= 2
    BY <1>2, <2>1
  <2> QED BY <1>7, <2>1, <2>2
<1>9. ASSUME NEW v \in Nat, v < n PROVE 2 * v < n * n
  <2>1. 2 * n <= n * n
    BY <1>8
  <2>2. n * n \in Nat
    OBVIOUS
  <2> QED BY <1>9, <2>1, <2>2
<1> QED BY <1>2, <1>7, <1>8, <1>9

(* Each byte that is written is read as itself.                              *)
LEMMA ByteReadsBack ==
    ASSUME NEW b \in Byte
    PROVE  /\ HexByte(b) \in Numeral /\ Len(HexByte(b)) = 2
           /\ Value(HexByte(b)) = b /\ ~Throws(HexByte(b))
<1>1. /\ AddressDigits \in Nat /\ AddressDigits >= 2
      /\ 2 \in 0..AddressDigits /\ b \in Nat /\ Base \in Nat
  <2>1. AddressDigits \in Nat /\ AddressDigits >= 2 /\ Base \in Nat
    BY HexAssumption, Digits
  <2>2. PICK x \in Int : x = Base * Base
    BY <2>1
  <2> QED BY <2>1, <2>2 DEF Byte
<1>2. b < Power[2]
  <2>1. 1 \in 1..AddressDigits /\ 2 \in 1..AddressDigits /\ 1 - 1 = 0 /\ 2 - 1 = 1
    BY <1>1
  <2>2. Power[1] = Base * 1
    BY <2>1, Powers
  <2>3. Power[2] = Base * Power[1]
    BY <2>1, Powers
  <2>4. Power[2] = Base * Base
    BY <1>1, <2>2, <2>3
  <2>5. PICK x \in Int : x = Base * Base
    BY <1>1
  <2> QED BY <2>4, <2>5 DEF Byte
<1>3. /\ HexByte(b) \in Numeral /\ Len(HexByte(b)) = 2 /\ Number(HexByte(b)) = b
  BY <1>1, <1>2, HexNumbers DEF HexByte
<1>4. HexByte(b) # <<>>
  <2>1. Len(<<>>) # 2
    OBVIOUS
  <2> QED BY <1>3, <2>1
<1>5. <<>> \in Seq(Character) /\ Cat(HexByte(b), <<>>) = HexByte(b)
  BY <1>3, CatEmpty DEF Numeral
<1>6. DigitsOf(HexByte(b)) = HexByte(b)
  BY <1>3, <1>4, <1>5, ReadsBack
<1>7. Value(HexByte(b)) = b
  BY <1>3, <1>6 DEF Value
<1>8. 2 * b < AddressCount * AddressCount
  <2>1. b < AddressCount
    <3>1. PICK x \in Int : x = Base * Base
      BY <1>1
    <3> QED BY <1>1, <3>1, Bounds DEF Byte
  <2> QED BY <1>1, <2>1, Bounds
<1>9. AddressCount * AddressCount \in Nat
  BY Bounds
<1>10. ~(2 * b >= AddressCount * AddressCount)
  BY <1>1, <1>8, <1>9
<1> QED BY <1>3, <1>4, <1>6, <1>7, <1>10 DEF Throws

(* So is each address, with the carriage return of TI's newline behind it or not. *)
LEMMA AddressReadsBack ==
    ASSUME NEW a \in 0..(AddressCount - 1), NEW junk \in {<<>>, <<"\r">>}
    PROVE  LET word == Cat(HexAddress(a), junk)
           IN  Value(word) = a /\ ~Throws(word)
<1> DEFINE hex == HexAddress(a)
           word == Cat(hex, junk)
<1>1. AddressDigits \in 0..AddressDigits /\ AddressDigits >= 2 /\ a \in Nat /\ a < AddressCount
  <2>1. AddressDigits \in Nat /\ AddressDigits >= 2
    BY HexAssumption
  <2>2. AddressCount \in Nat
    BY Bounds
  <2> QED BY <2>1, <2>2
<1>2. hex \in Numeral /\ Len(hex) = AddressDigits /\ Number(hex) = a
  BY <1>1, HexNumbers DEF HexAddress, AddressCount
<1> HIDE DEF hex
<1>3. hex # <<>>
  BY <1>1, <1>2, EmptySeq
<1>4. junk \in Seq(Character) /\ (junk = <<>> \/ junk[1] \notin Range(Digit))
  <2>1. "\r" \notin Range(Digit) /\ "\r" \in Character
    BY HexAssumption DEF Character
  <2>2. junk = <<>> \/ junk = <<"\r">>
    OBVIOUS
  <2>3. CASE junk = <<>>
    BY <2>3
  <2>4. CASE junk = <<"\r">>
    BY <2>1, <2>4
  <2> QED BY <2>2, <2>3, <2>4
<1>5. DigitsOf(word) = hex
  BY <1>2, <1>3, <1>4, ReadsBack
<1>6. Value(word) = a
  BY <1>2, <1>5 DEF Value
<1>7. 2 * a < AddressCount * AddressCount /\ AddressCount * AddressCount \in Nat
  BY <1>1, Bounds
<1>8. ~(2 * a >= AddressCount * AddressCount)
  BY <1>1, <1>7
<1> QED BY <1>3, <1>5, <1>6, <1>8 DEF Throws, hex

-----------------------------------------------------------------------------
(* What is left of a text that is written piece by piece.                    *)

(* What is left of N texts, joined, behind the first k of them.              *)
Rest(seqs, N, k) == FlattenSeq([n \in 1..(N - k) |-> seqs[n + k]])

(* Nothing is left behind the last text, and each is in front of what is left *)
(* behind it.                                                                *)
LEMMA RestIs ==
    ASSUME NEW C, NEW N \in Nat, NEW seqs \in [1..N -> Seq(C)], NEW k \in 0..N
    PROVE  /\ Rest(seqs, N, k) \in Seq(C)
           /\ k = 0 => Rest(seqs, N, k) = FlattenSeq(seqs)
           /\ k = N => Rest(seqs, N, k) = <<>>
           /\ k < N => Rest(seqs, N, k) = Cat(seqs[k + 1], Rest(seqs, N, k + 1))
<1> DEFINE M == N - k
           rest == [n \in 1..M |-> seqs[n + k]]
<1>1. M \in Nat /\ rest \in [1..M -> Seq(C)]
  OBVIOUS
<1>2. Rest(seqs, N, k) = FlattenSeq(rest)
  BY DEF Rest
<1>3. Rest(seqs, N, k) \in Seq(C)
  <2> HIDE DEF M, rest
  <2> QED BY <1>1, <1>2, FlattenType
<1>4. ASSUME k = 0 PROVE Rest(seqs, N, k) = FlattenSeq(seqs)
  <2>1. rest = seqs
    BY <1>4
  <2> QED BY <1>2, <2>1
<1>5. ASSUME k = N PROVE Rest(seqs, N, k) = <<>>
  <2>1. M = 0
    BY <1>5
  <2> HIDE DEF M, rest
  <2>2. PICK f \in [0..M -> Seq(C)] : Joins(M, rest, f)
    BY <1>1, Flattening
  <2> QED BY <1>2, <2>1, <2>2 DEF Joins
<1>6. ASSUME k < N PROVE Rest(seqs, N, k) = Cat(seqs[k + 1], Rest(seqs, N, k + 1))
  <2> DEFINE P == M - 1
             tail == [n \in 1..P |-> rest[n + 1]]
  <2>1. P \in Nat /\ P + 1 = M
    BY <1>6
  <2>2. FlattenSeq(rest) = Cat(rest[1], FlattenSeq(tail))
    <3>1. rest \in [1..(P + 1) -> Seq(C)]
      BY <1>1, <2>1
    <3> HIDE DEF P, rest
    <3> QED BY <2>1, <3>1, FlattenCons
  <2>3. rest[1] = seqs[k + 1]
    BY <1>6
  <2>4. tail = [n \in 1..(N - (k + 1)) |-> seqs[n + (k + 1)]]
    <3>1. P = N - (k + 1)
      OBVIOUS
    <3>2. \A n \in 1..P : rest[n + 1] = seqs[n + (k + 1)]
      <4> SUFFICES ASSUME NEW n \in 1..P PROVE rest[n + 1] = seqs[n + (k + 1)]
        OBVIOUS
      <4>1. n + 1 \in 1..M /\ (n + 1) + k = n + (k + 1)
        BY <1>6
      <4> HIDE DEF M
      <4> QED BY <4>1
    <3> HIDE DEF P, rest
    <3> QED BY <3>1, <3>2
  <2>5. FlattenSeq(tail) = Rest(seqs, N, k + 1)
    BY <2>4 DEF Rest
  <2> QED BY <1>2, <2>2, <2>3, <2>5
<1> QED BY <1>3, <1>4, <1>5, <1>6

(* A line that begins after full lines begins at an even place.              *)
LEMMA Lines ==
    /\ LineSize \in Nat /\ LineSize >= 2
    /\ \A k \in Nat : k % LineSize \in Nat
    /\ \A k \in Nat : k % LineSize = 0 => k % 2 = 0
    /\ \A k \in Nat : k >= 1 => ((k + 1) % LineSize = 1 <=> k % LineSize = 0)
<1>1. LineSize \in Nat /\ LineSize > 0 /\ LineSize % 2 = 0
  BY HexAssumption
<1>2. PICK m \in Nat : LineSize = 2 * m /\ m >= 1
  <2>1. LineSize \div 2 \in Nat /\ LineSize = 2 * (LineSize \div 2) /\ LineSize \div 2 >= 1
    BY <1>1
  <2> QED BY <2>1
<1>3. PICK n \in Nat : n = LineSize /\ n = 2 * m /\ n >= 2
  BY <1>1, <1>2
<1>7. n >= 2
  BY <1>3
<1>4. ASSUME NEW k \in Nat, k % n = 0 PROVE k % 2 = 0
  <2>1. k = n * (k \div n) + (k % n) /\ k \div n \in Nat
    BY <1>7
  <2>2. PICK q \in Nat : q = k \div n
    BY <2>1
  <2>3. k = (2 * m) * q
    BY <1>3, <1>4, <2>1, <2>2
  <2>4. PICK x \in Nat : x = m * q
    OBVIOUS
  <2>5. (2 * m) * q = 2 * (m * q)
    OBVIOUS
  <2>6. k = 2 * x
    BY <2>3, <2>4, <2>5
  <2> QED BY <2>6
<1>5. ASSUME NEW k \in Nat PROVE (k + 1) % n = 1 <=> k % n = 0
  <2>1. k = n * (k \div n) + (k % n) /\ k \div n \in Nat /\ k % n \in 0..(n - 1)
    BY <1>7
  <2>2. PICK q \in Nat : q = k \div n
    BY <2>1
  <2>3. PICK r \in 0..(n - 1) : r = k % n
    BY <2>1
  <2>4. k = n * q + r
    BY <2>1, <2>2, <2>3
  <2>5. CASE r < n - 1
    <3>1. r + 1 \in 0..(n - 1)
      BY <1>3, <2>5
    <3>2. k + 1 = n * q + (r + 1)
      BY <2>4
    <3>3. (n * q + (r + 1)) % n = r + 1
      BY <1>3, <3>1
    <3> QED BY <2>3, <3>2, <3>3
  <2>6. CASE r = n - 1
    <3>1. k + 1 = n * (q + 1) + 0
      BY <1>3, <2>4, <2>6
    <3>2. (n * (q + 1) + 0) % n = 0
      BY <1>3
    <3> QED BY <1>3, <2>3, <2>6, <3>1, <3>2
  <2> QED BY <1>3, <2>5, <2>6
<1>6. \A k \in Nat : k % n \in Nat
  BY <1>3
<1> QED BY <1>3, <1>4, <1>5, <1>6

-----------------------------------------------------------------------------
(* The bytes of a fragment, as either writer gives them.                     *)

(* How a line may end, and what may stand between two bytes.                 *)
Eol == {<<"\n">>, <<"\r", "\n">>}
Gaps == Eol \cup {<<" ">>, <<" ", "\n">>, <<>>}

(* What follows the k-th byte of a fragment up to the next one.              *)
Gap(o, eol, bs, k) ==
    CASE o = "ti" /\ (k = Len(bs) \/ k % LineSize = 0) -> eol
      [] o = "writer" /\ k < Len(bs) /\ k % LineSize = 0 -> <<" ", "\n">>
      [] o = "writer" /\ k = Len(bs) /\ k % LineSize = 0 -> <<>>
      [] o = "writer" /\ k = Len(bs) /\ k % LineSize # 0 -> <<"\n">>
      [] OTHER -> <<" ">>

(* A newline comes behind the k-th byte.                                     *)
Ended(o, bs, k) ==
    /\ k = Len(bs) \/ k % LineSize = 0
    /\ o = "writer" /\ k = Len(bs) => k % LineSize # 0

(* A gap, or what is left of one, that may stand behind the k-th byte.       *)
Fits(o, bs, k, gap) ==
    /\ gap \in Gaps
    /\ gap \in Eol \cup {<<" ", "\n">>} => Ended(o, bs, k)
    /\ gap = <<" ">> => k < Len(bs)
    /\ gap = <<>> => k < Len(bs) \/ (o = "writer" /\ k = Len(bs) /\ k % LineSize = 0)

(* The gaps are different.                                                   *)
LEMMA Tuples ==
    /\ <<"\n">> # <<"\r", "\n">> /\ <<"\n">> # <<" ">> /\ <<"\n">> # <<" ", "\n">> /\ <<"\n">> # <<>>
    /\ <<"\r", "\n">> # <<" ">> /\ <<"\r", "\n">> # <<" ", "\n">> /\ <<"\r", "\n">> # <<>>
    /\ <<" ">> # <<" ", "\n">> /\ <<" ">> # <<>> /\ <<" ", "\n">> # <<>>
OBVIOUS

(* The gap behind a byte is one that may stand there.                        *)
LEMMA GapFits ==
    ASSUME NEW o \in {"ti", "writer"}, NEW eol \in Eol, NEW bs \in Seq(Byte), NEW k \in 1..Len(bs)
    PROVE  Fits(o, bs, k, Gap(o, eol, bs, k))
<1>1. Len(bs) \in Nat /\ (k < Len(bs) \/ k = Len(bs)) /\ ~ (k < Len(bs) /\ k = Len(bs))
  BY LenProperties
<1>2. "ti" # "writer"
  OBVIOUS
<1> DEFINE lf == <<"\n">>
           crlf == <<"\r", "\n">>
           blank == <<" ">>
           both == <<" ", "\n">>
           none == <<>>
<1>3. /\ lf # crlf /\ lf # blank /\ lf # both /\ lf # none /\ crlf # blank /\ crlf # both
      /\ crlf # none /\ blank # both /\ blank # none /\ both # none
  BY Tuples
<1>4. Eol = {lf, crlf} /\ Gaps = {lf, crlf, blank, both, none}
  BY DEF Eol, Gaps
<1> HIDE DEF lf, crlf, blank, both, none
<1>5. CASE o = "ti"
  <2>1. Gap(o, eol, bs, k) = IF k = Len(bs) \/ k % LineSize = 0 THEN eol ELSE blank
    BY <1>2, <1>5 DEF Gap, blank
  <2> QED BY <1>1, <1>2, <1>3, <1>4, <1>5, <2>1 DEF Fits, Ended, both, none, blank
<1>6. CASE o = "writer"
  <2>1. CASE k < Len(bs)
    <3>1. Gap(o, eol, bs, k) = IF k % LineSize = 0 THEN both ELSE blank
      BY <1>1, <1>2, <1>6, <2>1 DEF Gap, blank, both
    <3> QED BY <1>1, <1>2, <1>3, <1>4, <1>6, <2>1, <3>1 DEF Fits, Ended, both, none, blank
  <2>2. CASE k = Len(bs)
    <3>1. Gap(o, eol, bs, k) = IF k % LineSize = 0 THEN none ELSE lf
      BY <1>1, <1>2, <1>6, <2>2 DEF Gap, lf, none
    <3> QED BY <1>1, <1>2, <1>3, <1>4, <1>6, <2>2, <3>1 DEF Fits, Ended, both, none, blank, lf
  <2> QED BY <1>1, <2>1, <2>2
<1> QED BY <1>5, <1>6

(* The text of each byte, with what its writer puts in front of and behind it; *)
(* the writer's own newline stands in front of the next byte, and the last one *)
(* behind all of them.                                                       *)
TiPieces(bs, eol) ==
    [i \in 1..Len(bs) |-> HexByte(bs[i]) \o IF i % LineSize = 0 \/ i = Len(bs) THEN eol ELSE <<" ">>]
WriterPieces(bs) ==
    [i \in 1..Len(bs) |->
        If(i > 1 /\ i % LineSize = 1, <<"\n">>) \o HexByte(bs[i]) \o If(i < Len(bs), <<" ">>)]
LineEnd(bs) == If(Len(bs) % LineSize > 0, <<"\n">>)
Body(o, eol, bs) == IF o = "ti" THEN TiBytes(bs, eol) ELSE WriteBytes(bs)

(* The text from the (k + 1)-th byte of a fragment on.                       *)
BytesAhead(o, eol, bs, k) ==
    IF k = Len(bs) THEN <<>>
    ELSE IF o = "ti" THEN Rest(TiPieces(bs, eol), Len(bs), k)
    ELSE Cat(HexByte(bs[k + 1]),
             Cat(If(k + 1 < Len(bs), <<" ">>),
                 Cat(Rest(WriterPieces(bs), Len(bs), k + 1), LineEnd(bs))))

(* All these are texts of characters.                                        *)
LEMMA Texts ==
    /\ \A eol \in Eol : eol \in Seq(Character) /\ eol # <<>>
    /\ \A gap \in Gaps : gap \in Seq(Character)
    /\ \A b \in Byte : HexByte(b) \in Seq(Character)
    /\ <<"@">> \in Seq(Character) /\ <<"q">> \in Seq(Character)
    /\ \A test \in BOOLEAN : If(test, <<" ">>) \in Seq(Character) /\ If(test, <<"\n">>) \in Seq(Character)
<1>1. {"@", "q", " ", "\n", "\r"} \subseteq Character /\ Range(Digit) \subseteq Character
  BY DEF Character
<1>2. \A b \in Byte : HexByte(b) \in Seq(Character)
  <2> SUFFICES ASSUME NEW b \in Byte PROVE HexByte(b) \in Seq(Character)
    OBVIOUS
  <2>1. HexByte(b) \in Seq(Range(Digit))
    BY ByteReadsBack DEF Numeral
  <2> QED BY <1>1, <2>1, SeqMonotonic
<1>3. /\ <<"\n">> \in Seq(Character) /\ <<"\r", "\n">> \in Seq(Character) /\ <<" ">> \in Seq(Character)
      /\ <<" ", "\n">> \in Seq(Character) /\ <<>> \in Seq(Character)
      /\ <<"@">> \in Seq(Character) /\ <<"q">> \in Seq(Character)
  <2>1. "\n" \in Character /\ "\r" \in Character /\ " " \in Character /\ "@" \in Character /\ "q" \in Character
    BY <1>1
  <2> HIDE DEF Character
  <2>2. \A c \in Character : <<c>> \in Seq(Character)
    OBVIOUS
  <2>3. \A c, d \in Character : <<c, d>> \in Seq(Character)
    OBVIOUS
  <2>4. <<>> \in Seq(Character)
    OBVIOUS
  <2> QED BY <2>1, <2>2, <2>3, <2>4, Zenon
<1>4. \A eol \in Eol : eol # <<>>
  BY Tuples DEF Eol
<1> QED BY <1>2, <1>3, <1>4 DEF Eol, Gaps, If

(* What each byte's text is made of.                                         *)
LEMMA PiecesAre ==
    ASSUME NEW eol \in Eol, NEW bs \in Seq(Byte)
    PROVE  /\ Len(bs) \in Nat
           /\ \A k \in 1..Len(bs) : bs[k] \in Byte /\ HexByte(bs[k]) \in Seq(Character)
           /\ TiPieces(bs, eol) \in [1..Len(bs) -> Seq(Character)]
           /\ \A k \in 1..Len(bs) :
                 TiPieces(bs, eol)[k] = Cat(HexByte(bs[k]), Gap("ti", eol, bs, k))
           /\ WriterPieces(bs) \in [1..Len(bs) -> Seq(Character)]
           /\ \A k \in 1..Len(bs) :
                 WriterPieces(bs)[k] = Cat(If(k > 1 /\ k % LineSize = 1, <<"\n">>),
                                           Cat(HexByte(bs[k]), If(k < Len(bs), <<" ">>)))
<1>1. Len(bs) \in Nat /\ \A k \in 1..Len(bs) : bs[k] \in Byte
  BY LenProperties, ElementOfSeq
<1>2. \A k \in 1..Len(bs) : HexByte(bs[k]) \in Seq(Character)
  BY <1>1, Texts
<1>3. ASSUME NEW k \in 1..Len(bs)
      PROVE  /\ TiPieces(bs, eol)[k] = Cat(HexByte(bs[k]), Gap("ti", eol, bs, k))
             /\ Cat(HexByte(bs[k]), Gap("ti", eol, bs, k)) \in Seq(Character)
  <2>1. Gap("ti", eol, bs, k) = IF k % LineSize = 0 \/ k = Len(bs) THEN eol ELSE <<" ">>
    BY DEF Gap
  <2>2. Gap("ti", eol, bs, k) \in Seq(Character)
    BY <2>1, Texts DEF Gaps
  <2>3. TiPieces(bs, eol)[k] = HexByte(bs[k]) \o IF k % LineSize = 0 \/ k = Len(bs) THEN eol ELSE <<" ">>
    BY DEF TiPieces
  <2>4. TiPieces(bs, eol)[k] = Cat(HexByte(bs[k]), IF k % LineSize = 0 \/ k = Len(bs) THEN eol ELSE <<" ">>)
    BY <2>3 DEF Cat
  <2> QED BY <1>2, <2>1, <2>2, <2>4, CatType
<1>4. ASSUME NEW k \in 1..Len(bs)
      PROVE  LET piece == Cat(If(k > 1 /\ k % LineSize = 1, <<"\n">>),
                              Cat(HexByte(bs[k]), If(k < Len(bs), <<" ">>)))
             IN  WriterPieces(bs)[k] = piece /\ piece \in Seq(Character)
  <2> DEFINE a == If(k > 1 /\ k % LineSize = 1, <<"\n">>)
             b == HexByte(bs[k])
             c == If(k < Len(bs), <<" ">>)
  <2>1. a \in Seq(Character) /\ b \in Seq(Character) /\ c \in Seq(Character)
    <3>1. (k > 1 /\ k % LineSize = 1) \in BOOLEAN /\ (k < Len(bs)) \in BOOLEAN
      OBVIOUS
    <3> QED BY <1>2, <3>1, Texts
  <2>2. WriterPieces(bs)[k] = (a \o b) \o c
    BY DEF WriterPieces
  <2> HIDE DEF a, b, c
  <2>3. WriterPieces(bs)[k] = Cat(Cat(a, b), c)
    BY <2>2 DEF Cat
  <2>4. Cat(Cat(a, b), c) = Cat(a, Cat(b, c)) /\ Cat(a, Cat(b, c)) \in Seq(Character)
    BY <2>1, CatAssociative, CatType
  <2> QED BY <2>3, <2>4 DEF a, b, c
<1>5. TiPieces(bs, eol) = [k \in 1..Len(bs) |-> TiPieces(bs, eol)[k]]
  BY DEF TiPieces
<1>6. WriterPieces(bs) = [k \in 1..Len(bs) |-> WriterPieces(bs)[k]]
  BY DEF WriterPieces
<1>7. TiPieces(bs, eol) \in [1..Len(bs) -> Seq(Character)]
  BY <1>3, <1>5
<1>8. WriterPieces(bs) \in [1..Len(bs) -> Seq(Character)]
  BY <1>4, <1>6
<1> QED BY <1>1, <1>2, <1>3, <1>4, <1>7, <1>8

(* Two characters make a text of two.                                        *)
LEMMA Couple ==
    ASSUME NEW C, NEW x \in C, NEW y \in C
    PROVE  Cat(<<x>>, <<y>>) = <<x, y>>
<1> DEFINE one == <<x>>
           other == <<y>>
           both == <<x, y>>
<1>1. /\ one \in Seq(C) /\ other \in Seq(C) /\ both \in Seq(C)
      /\ Len(one) = 1 /\ Len(other) = 1 /\ Len(both) = 2
      /\ one[1] = x /\ other[1] = y /\ both[1] = x /\ both[2] = y
  OBVIOUS
<1> HIDE DEF one, other, both
<1>2. /\ one \o other \in Seq(C) /\ Len(one \o other) = 2
      /\ (one \o other)[1] = x /\ (one \o other)[2] = y
  BY <1>1, ConcatProperties
<1>3. one \o other = both
  BY <1>1, <1>2, SeqEqual
<1> QED BY <1>3 DEF one, other, both, Cat

(* Both writers give a byte, its gap, and the rest, wherever the one puts its *)
(* newlines and the other its.                                               *)
LEMMA NextByte ==
    ASSUME NEW o \in {"ti", "writer"}, NEW eol \in Eol, NEW bs \in Seq(Byte),
           NEW k \in 0..(Len(bs) - 1)
    PROVE  BytesAhead(o, eol, bs, k) =
             Cat(HexByte(bs[k + 1]), Cat(Gap(o, eol, bs, k + 1), BytesAhead(o, eol, bs, k + 1)))
<1>1. PICK N \in Nat : N = Len(bs)
  BY LenProperties
<1>2. k + 1 \in 1..N /\ k # N /\ k < N /\ k \in 0..N /\ k + 1 \in 0..N /\ k \in Nat
  BY <1>1
<1> DEFINE C == Character
           T == TiPieces(bs, eol)
           W == WriterPieces(bs)
           hex(n) == HexByte(bs[n])
           E == LineEnd(bs)
<1>3. /\ T \in [1..N -> Seq(C)] /\ W \in [1..N -> Seq(C)]
      /\ \A n \in 1..N : hex(n) \in Seq(C) /\ T[n] = Cat(hex(n), Gap("ti", eol, bs, n))
      /\ \A n \in 1..N : W[n] = Cat(If(n > 1 /\ n % LineSize = 1, <<"\n">>),
                                     Cat(hex(n), If(n < N, <<" ">>)))
  BY <1>1, PiecesAre
<1>4. E \in Seq(C) /\ <<" ">> \in Seq(C) /\ <<"\n">> \in Seq(C) /\ <<>> \in Seq(C)
  <2>1. (Len(bs) % LineSize > 0) \in BOOLEAN
    OBVIOUS
  <2> QED BY <2>1, Texts DEF LineEnd, Gaps, Eol
<1>5. Gap(o, eol, bs, k + 1) \in Seq(C)
  BY <1>1, <1>2, GapFits, Texts DEF Fits
<1> HIDE DEF T, W, E, hex, C
<1>6. CASE o = "ti"
  <2>1. BytesAhead(o, eol, bs, k) = Rest(T, N, k)
    BY <1>1, <1>2, <1>6 DEF BytesAhead, T
  <2>2. Rest(T, N, k) = Cat(T[k + 1], Rest(T, N, k + 1)) /\ Rest(T, N, k + 1) \in Seq(C)
    BY <1>2, <1>3, RestIs
  <2>3. BytesAhead(o, eol, bs, k + 1) = Rest(T, N, k + 1)
    <3>1. CASE k + 1 = N
      <4>1. Rest(T, N, k + 1) = <<>>
        BY <1>2, <1>3, <3>1, RestIs
      <4> QED BY <1>1, <3>1, <4>1 DEF BytesAhead
    <3>2. CASE k + 1 # N
      BY <1>1, <1>6, <3>2 DEF BytesAhead, T
    <3> QED BY <3>1, <3>2
  <2>4. T[k + 1] = Cat(hex(k + 1), Gap(o, eol, bs, k + 1)) /\ hex(k + 1) \in Seq(C)
    BY <1>2, <1>3, <1>6
  <2>5. Cat(T[k + 1], Rest(T, N, k + 1)) =
          Cat(hex(k + 1), Cat(Gap(o, eol, bs, k + 1), Rest(T, N, k + 1)))
    BY <1>5, <2>2, <2>4, CatAssociative
  <2> QED BY <2>1, <2>2, <2>3, <2>5 DEF hex
<1>7. CASE o = "writer"
  <2>1. BytesAhead(o, eol, bs, k) =
          Cat(hex(k + 1), Cat(If(k + 1 < N, <<" ">>), Cat(Rest(W, N, k + 1), E)))
    BY <1>1, <1>2, <1>7 DEF BytesAhead, W, hex, E
  <2>2. CASE k + 1 = N
    <3>1. Rest(W, N, k + 1) = <<>>
      BY <1>2, <1>3, <2>2, RestIs
    <3>2. If(k + 1 < N, <<" ">>) = <<>>
      BY <1>2, <2>2 DEF If
    <3>3. BytesAhead(o, eol, bs, k) = Cat(hex(k + 1), E)
      BY <1>4, <2>1, <3>1, <3>2, CatEmpty
    <3>4. BytesAhead(o, eol, bs, k + 1) = <<>>
      BY <1>1, <2>2 DEF BytesAhead
    <3>5. Gap(o, eol, bs, k + 1) = E
      <4>1. N % LineSize \in Nat
        BY Lines
      <4>2. N % LineSize > 0 <=> N % LineSize # 0
        BY <4>1
      <4>3. E = IF N % LineSize # 0 THEN <<"\n">> ELSE <<>>
        BY <1>1, <4>2 DEF E, LineEnd, If
      <4>4. Gap(o, eol, bs, N) = IF N % LineSize # 0 THEN <<"\n">> ELSE <<>>
        <5>1. ~ (N < N) /\ "writer" # "ti"
          OBVIOUS
        <5> QED BY <1>1, <1>7, <5>1 DEF Gap
      <4> QED BY <2>2, <4>3, <4>4
    <3> QED BY <1>4, <3>3, <3>4, <3>5, CatEmpty DEF hex
  <2>3. CASE k + 1 < N
    <3> DEFINE a == If(k + 1 + 1 > 1 /\ (k + 1 + 1) % LineSize = 1, <<"\n">>)
               b == hex(k + 1 + 1)
               c == If(k + 1 + 1 < N, <<" ">>)
               r == Rest(W, N, k + 1 + 1)
    <3>1. k + 1 + 1 \in 1..N /\ k + 1 + 1 \in 0..N /\ k + 1 # N /\ k + 1 < N
      BY <1>2, <2>3
    <3>2. Rest(W, N, k + 1) = Cat(W[k + 1 + 1], r) /\ r \in Seq(C)
      BY <1>2, <1>3, <3>1, RestIs
    <3>3. W[k + 1 + 1] = Cat(a, Cat(b, c)) /\ b \in Seq(C)
      BY <1>3, <3>1
    <3>4. a \in Seq(C) /\ c \in Seq(C)
      BY <1>4 DEF If
    <3>5. If(k + 1 < N, <<" ">>) = <<" ">>
      BY <2>3 DEF If
    <3>6. BytesAhead(o, eol, bs, k + 1) = Cat(b, Cat(c, Cat(r, E)))
      BY <1>1, <1>7, <3>1 DEF BytesAhead, W, hex, E
    <3>7. Gap(o, eol, bs, k + 1) = Cat(<<" ">>, a)
      <4>1. (k + 1) + 1 > 1 /\ ((k + 1 + 1) % LineSize = 1 <=> (k + 1) % LineSize = 0)
        BY <1>2, Lines
      <4>2. a = IF (k + 1) % LineSize = 0 THEN <<"\n">> ELSE <<>>
        BY <4>1 DEF If
      <4>3. Gap(o, eol, bs, k + 1) = IF (k + 1) % LineSize = 0 THEN <<" ", "\n">> ELSE <<" ">>
        <5>1. "writer" # "ti"
          OBVIOUS
        <5> QED BY <1>1, <1>7, <3>1, <5>1 DEF Gap
      <4>4. Cat(<<" ">>, <<"\n">>) = <<" ", "\n">>
        <5>1. " " \in Character /\ "\n" \in Character
          BY DEF Character
        <5> QED BY <5>1, Couple
      <4>5. Cat(<<" ">>, <<>>) = <<" ">>
        BY <1>4, CatEmpty
      <4> HIDE DEF a
      <4> QED BY <4>2, <4>3, <4>4, <4>5
    <3> HIDE DEF a, b, c, r
    <3> DEFINE bl == <<" ">>
    <3>8. bl \in Seq(C)
      BY <1>4
    <3> HIDE DEF bl
    <3>9. Cat(bl, Cat(Cat(Cat(a, Cat(b, c)), r), E)) = Cat(Cat(bl, a), Cat(b, Cat(c, Cat(r, E))))
      <4>1. Cat(b, c) \in Seq(C) /\ Cat(r, E) \in Seq(C) /\ Cat(c, Cat(r, E)) \in Seq(C)
            /\ Cat(a, Cat(b, c)) \in Seq(C) /\ Cat(b, Cat(c, Cat(r, E))) \in Seq(C)
        BY <1>4, <3>2, <3>3, <3>4, CatType
      <4>0. a \in Seq(C) /\ b \in Seq(C) /\ c \in Seq(C) /\ r \in Seq(C) /\ E \in Seq(C)
        BY <1>4, <3>2, <3>3, <3>4
      <4>2. Cat(Cat(Cat(a, Cat(b, c)), r), E) = Cat(Cat(a, Cat(b, c)), Cat(r, E))
        BY <4>0, <4>1, CatAssociative
      <4>3. Cat(Cat(a, Cat(b, c)), Cat(r, E)) = Cat(a, Cat(Cat(b, c), Cat(r, E)))
        BY <4>0, <4>1, CatAssociative
      <4>4. Cat(Cat(b, c), Cat(r, E)) = Cat(b, Cat(c, Cat(r, E)))
        BY <4>0, <4>1, CatAssociative
      <4>5. Cat(Cat(bl, a), Cat(b, Cat(c, Cat(r, E)))) = Cat(bl, Cat(a, Cat(b, Cat(c, Cat(r, E)))))
        BY <4>0, <3>8, <4>1, CatAssociative
      <4> QED BY <4>2, <4>3, <4>4, <4>5
    <3> QED BY <2>1, <3>2, <3>3, <3>5, <3>6, <3>7, <3>9 DEF bl, hex
  <2> QED BY <1>2, <2>2, <2>3
<1> QED BY <1>6, <1>7

(* The rest is everything at the beginning, and nothing at the end.          *)
LEMMA WholeBody ==
    ASSUME NEW o \in {"ti", "writer"}, NEW eol \in Eol, NEW bs \in Seq(Byte)
    PROVE  /\ BytesAhead(o, eol, bs, 0) = Body(o, eol, bs)
           /\ \A k \in 0..Len(bs) : BytesAhead(o, eol, bs, k) \in Seq(Character)
           /\ BytesAhead(o, eol, bs, Len(bs)) = <<>>
<1>1. PICK N \in Nat : N = Len(bs)
  BY LenProperties
<1> DEFINE C == Character
           T == TiPieces(bs, eol)
           W == WriterPieces(bs)
           hex(n) == HexByte(bs[n])
           E == LineEnd(bs)
<1>2. /\ T \in [1..N -> Seq(C)] /\ W \in [1..N -> Seq(C)]
      /\ \A n \in 1..N : hex(n) \in Seq(C)
      /\ \A n \in 1..N : W[n] = Cat(If(n > 1 /\ n % LineSize = 1, <<"\n">>),
                                     Cat(hex(n), If(n < N, <<" ">>)))
  BY <1>1, PiecesAre
<1>3. E \in Seq(C) /\ <<" ">> \in Seq(C) /\ <<"\n">> \in Seq(C) /\ <<>> \in Seq(C)
  <2>1. (Len(bs) % LineSize > 0) \in BOOLEAN
    OBVIOUS
  <2> QED BY <2>1, Texts DEF LineEnd, Gaps, Eol
<1>4. DOMAIN bs = 1..N
  BY <1>1, LenProperties
<1>5. TiBytes(bs, eol) = FlattenSeq(T)
  BY <1>1, <1>4 DEF TiBytes, TiPieces, T
<1>6. WriteBytes(bs) = FlattenSeq(W) \o E
  BY <1>1, <1>4 DEF WriteBytes, WriterPieces, W, E, LineEnd
<1>7. WriteBytes(bs) = Cat(FlattenSeq(W), E)
  BY <1>6 DEF Cat
<1>8. 0 \in 0..N
  BY <1>1
<1> HIDE DEF T, W, E, hex, C
<1>9. Rest(T, N, 0) = FlattenSeq(T) /\ Rest(W, N, 0) = FlattenSeq(W)
  BY <1>2, <1>8, RestIs
<1>10. BytesAhead(o, eol, bs, 0) = Body(o, eol, bs)
  <2>1. CASE N = 0
    <3>1. BytesAhead(o, eol, bs, 0) = <<>>
      BY <1>1, <2>1 DEF BytesAhead
    <3>2. FlattenSeq(T) = <<>> /\ FlattenSeq(W) = <<>>
      <4>0. N \in 0..N
        BY <1>1
      <4>1. Rest(T, N, N) = <<>>
        BY <4>0, <1>2, RestIs
      <4>2. Rest(W, N, N) = <<>>
        BY <4>0, <1>2, RestIs
      <4> QED BY <1>9, <2>1, <4>1, <4>2
    <3>3. E = <<>>
      <4>1. ~ (0 % LineSize > 0)
        <5>1. 0 % LineSize = 0
          BY Lines
        <5> QED BY <5>1
      <4> QED BY <1>1, <2>1, <4>1 DEF E, LineEnd, If
    <3>4. Cat(<<>>, <<>>) = <<>>
      BY <1>3, CatEmpty
    <3> QED BY <1>5, <1>7, <3>1, <3>2, <3>3, <3>4 DEF Body
  <2>2. CASE N # 0 /\ o = "ti"
    BY <1>1, <1>5, <1>9, <2>2 DEF BytesAhead, Body, T
  <2>3. CASE N # 0 /\ o = "writer"
    <3>1. 1 \in 1..N /\ 1 \in 0..N /\ 0 < N /\ 0 + 1 = 1
      BY <1>1, <2>3
    <3> DEFINE a == hex(1)
               b == If(1 < N, <<" ">>)
               r == Rest(W, N, 1)
    <3>2. FlattenSeq(W) = Cat(W[1], r) /\ r \in Seq(C)
      <4>1. Rest(W, N, 0) = Cat(W[0 + 1], Rest(W, N, 0 + 1))
        BY <1>2, <1>8, <3>1, RestIs
      <4>2. r \in Seq(C)
        BY <1>2, <3>1, RestIs
      <4> QED BY <1>9, <3>1, <4>1, <4>2
    <3>3. W[1] = Cat(If(1 > 1 /\ 1 % LineSize = 1, <<"\n">>), Cat(a, b)) /\ a \in Seq(C)
      BY <1>2, <3>1
    <3>4. If(1 > 1 /\ 1 % LineSize = 1, <<"\n">>) = <<>>
      BY DEF If
    <3>5. b \in Seq(C)
      BY <1>3 DEF If
    <3>6. BytesAhead(o, eol, bs, 0) = Cat(a, Cat(b, Cat(r, E)))
      BY <1>1, <2>3, <3>1 DEF BytesAhead, W, hex, E
    <3> HIDE DEF a, b, r
    <3>7. a \in Seq(C) /\ b \in Seq(C) /\ r \in Seq(C) /\ E \in Seq(C)
      BY <1>3, <3>2, <3>3, <3>5
    <3>8. Cat(a, b) \in Seq(C) /\ Cat(r, E) \in Seq(C)
      BY <3>7, CatType
    <3>9. W[1] = Cat(a, b)
      BY <3>3, <3>4, <3>8, CatEmpty
    <3>11. Cat(Cat(Cat(a, b), r), E) = Cat(a, Cat(b, Cat(r, E)))
      BY <3>7, <3>8, CatAssociative
    <3>10. "writer" # "ti"
      OBVIOUS
    <3> QED BY <1>7, <2>3, <3>2, <3>6, <3>9, <3>10, <3>11 DEF Body
  <2> QED BY <2>1, <2>2, <2>3
<1>11. ASSUME NEW k \in 0..N PROVE BytesAhead(o, eol, bs, k) \in Seq(Character)
  <2>1. CASE k = N
    BY <1>1, <1>3, <2>1 DEF BytesAhead, C
  <2>2. CASE k # N /\ o = "ti"
    BY <1>1, <1>2, <2>2, RestIs DEF BytesAhead, T, C
  <2>3. CASE k # N /\ o = "writer"
    <3>1. k + 1 \in 1..N /\ k + 1 \in 0..N
      BY <1>1, <2>3
    <3>2. Rest(W, N, k + 1) \in Seq(C) /\ hex(k + 1) \in Seq(C)
      BY <1>2, <3>1, RestIs
    <3>3. If(k + 1 < N, <<" ">>) \in Seq(C)
      BY <1>3 DEF If
    <3>4. BytesAhead(o, eol, bs, k) = Cat(hex(k + 1), Cat(If(k + 1 < N, <<" ">>), Cat(Rest(W, N, k + 1), E)))
      BY <1>1, <2>3 DEF BytesAhead, W, hex, E
    <3> QED BY <1>3, <3>2, <3>3, <3>4, CatType DEF C
  <2> QED BY <2>1, <2>2, <2>3
<1>12. BytesAhead(o, eol, bs, Len(bs)) = <<>>
  BY DEF BytesAhead
<1> QED BY <1>1, <1>10, <1>11, <1>12

-----------------------------------------------------------------------------
(* The first character of a text, and what is behind it.                     *)

(* A text with a character in front.                                         *)
LEMMA HeadTail ==
    ASSUME NEW C, NEW c \in C, NEW more \in Seq(C)
    PROVE  /\ Cat(<<c>>, more) \in Seq(C) /\ Cat(<<c>>, more) # <<>>
           /\ Head(Cat(<<c>>, more)) = c /\ Tail(Cat(<<c>>, more)) = more
<1> DEFINE one == <<c>>
           all == one \o more
<1>1. one \in Seq(C) /\ Len(one) = 1 /\ one[1] = c /\ Len(more) \in Nat
  BY LenProperties
<1> HIDE DEF one
<1>2. /\ all \in Seq(C) /\ Len(all) = 1 + Len(more)
      /\ \A i \in 1..(1 + Len(more)) : all[i] = IF i <= 1 THEN one[i] ELSE more[i - 1]
  <2>1. /\ all \in Seq(C) /\ Len(all) = Len(one) + Len(more)
        /\ \A i \in 1..(Len(one) + Len(more)) :
              all[i] = IF i <= Len(one) THEN one[i] ELSE more[i - Len(one)]
    BY <1>1, ConcatProperties
  <2> HIDE DEF all
  <2> QED BY <1>1, <2>1
<1> HIDE DEF all
<1>3. all # <<>>
  BY <1>1, <1>2, EmptySeq
<1>4. Head(all) = c
  <2>1. Head(all) = all[1]
    BY <1>2, <1>3
  <2>2. all[1] = one[1]
    BY <1>1, <1>2
  <2> QED BY <1>1, <2>1, <2>2
<1>5. Tail(all) = more
  <2>1. /\ Tail(all) \in Seq(C) /\ Len(Tail(all)) = Len(all) - 1
        /\ \A i \in 1..Len(Tail(all)) : Tail(all)[i] = all[i + 1]
    BY <1>2, <1>3, HeadTailProperties
  <2>2. PICK rest : rest = Tail(all)
    OBVIOUS
  <2>3. rest \in Seq(C) /\ Len(rest) = Len(more)
    BY <1>1, <1>2, <2>1, <2>2
  <2>4. ASSUME NEW i \in 1..Len(rest) PROVE rest[i] = more[i]
    <3>1. rest[i] = all[i + 1]
      BY <2>1, <2>2
    <3>2. i + 1 \in 1..(1 + Len(more)) /\ ~ (i + 1 <= 1) /\ (i + 1) - 1 = i
      BY <1>1, <2>3
    <3> QED BY <1>2, <3>1, <3>2
  <2>5. rest = more
    BY <2>3, <2>4, SeqEqual
  <2> QED BY <2>2, <2>5
<1> QED BY <1>2, <1>3, <1>4, <1>5 DEF all, one, Cat

(* A text with two characters in front.                                      *)
LEMMA CoupleFirst ==
    ASSUME NEW C, NEW x \in C, NEW y \in C, NEW more \in Seq(C)
    PROVE  Cat(<<x, y>>, more) = Cat(<<x>>, Cat(<<y>>, more))
<1> DEFINE one == <<x>>
           other == <<y>>
           both == <<x, y>>
<1>1. Cat(one, other) = both
  BY Couple
<1>2. one \in Seq(C) /\ other \in Seq(C)
  OBVIOUS
<1> HIDE DEF one, other, both
<1>3. Cat(both, more) = Cat(one, Cat(other, more))
  BY <1>1, <1>2, CatAssociative
<1> QED BY <1>3 DEF one, other, both

(* What stands behind a part of a text.                                      *)
LEMMA Scanning ==
    ASSUME NEW C, NEW a \in Seq(C), NEW b \in Seq(C), NEW w \in Seq(C), NEW x \in C,
           NEW more \in Seq(C), Cat(a, b) = Cat(w, Cat(<<x>>, more)), Len(a) <= Len(w)
    PROVE  /\ b # <<>>
           /\ Len(a) < Len(w) => /\ Head(b) = w[Len(a) + 1]
                                 /\ Cat(Append(a, Head(b)), Tail(b)) = Cat(a, b)
           /\ Len(a) = Len(w) => a = w /\ Head(b) = x /\ Tail(b) = more
<1> DEFINE r == Cat(<<x>>, more)
<1>1. r \in Seq(C) /\ r # <<>> /\ Head(r) = x /\ Tail(r) = more
  BY HeadTail
<1> HIDE DEF r
<1>2. /\ Len(a) \in Nat /\ Len(b) \in Nat /\ Len(w) \in Nat /\ Len(r) \in Nat
      /\ Len(r) >= 1
  BY <1>1, EmptySeq, LenProperties
<1>3. PICK all : all = Cat(a, b) /\ all = Cat(w, r)
  BY DEF r
<1>4. /\ Len(all) = Len(a) + Len(b)
      /\ \A i \in 1..(Len(a) + Len(b)) : all[i] = IF i <= Len(a) THEN a[i] ELSE b[i - Len(a)]
  BY <1>3, ConcatProperties DEF Cat
<1>5. /\ Len(all) = Len(w) + Len(r)
      /\ \A i \in 1..(Len(w) + Len(r)) : all[i] = IF i <= Len(w) THEN w[i] ELSE r[i - Len(w)]
  BY <1>1, <1>3, ConcatProperties DEF Cat
<1>6. Len(b) >= 1 /\ Len(a) + Len(b) = Len(w) + Len(r)
  <2>1. Len(all) = Len(a) + Len(b)
    BY <1>4
  <2>2. Len(all) = Len(w) + Len(r)
    BY <1>5
  <2> QED BY <1>2, <2>1, <2>2
<1>7. b # <<>>
  BY <1>6, EmptySeq
<1>8. Head(b) = b[1] /\ Head(b) \in C /\ Tail(b) \in Seq(C)
  BY <1>7, HeadTailProperties
<1>9. ASSUME Len(a) < Len(w)
      PROVE  Head(b) = w[Len(a) + 1] /\ Cat(Append(a, Head(b)), Tail(b)) = Cat(a, b)
  <2>1. Len(a) + 1 \in 1..(Len(a) + Len(b)) /\ ~ (Len(a) + 1 <= Len(a)) /\ (Len(a) + 1) - Len(a) = 1
        /\ Len(a) + 1 <= Len(w)
    BY <1>2, <1>6, <1>9
  <2>2. all[Len(a) + 1] = b[1]
    BY <1>4, <2>1
  <2>3. all[Len(a) + 1] = w[Len(a) + 1]
    BY <1>5, <1>6, <2>1
  <2>4. Append(a, Head(b)) = Cat(a, <<Head(b)>>)
    BY <1>8, AppendIsConcat DEF Cat
  <2>5. Cat(<<Head(b)>>, Tail(b)) = b
    <3> DEFINE c == Head(b)
               t == Tail(b)
               back == Cat(<<c>>, t)
    <3>1. /\ back \in Seq(C) /\ back # <<>> /\ Head(back) = c /\ Tail(back) = t
      BY <1>8, HeadTail
    <3> HIDE DEF back
    <3>2. back[1] = b[1] /\ Len(back) = Len(b)
      <4>1. Len(Tail(back)) = Len(back) - 1 /\ Len(Tail(b)) = Len(b) - 1 /\ Len(back) \in Nat
        BY <1>7, <3>1, HeadTailProperties, LenProperties
      <4>2. Head(back) = back[1]
        BY <3>1
      <4>3. back[1] = b[1]
        BY <1>8, <3>1, <4>2
      <4>4. Len(back) - 1 = Len(b) - 1
        BY <3>1, <4>1
      <4> QED BY <1>2, <4>1, <4>3, <4>4
    <3>3. ASSUME NEW i \in 1..Len(back) PROVE back[i] = b[i]
      <4>1. CASE i = 1
        BY <3>2, <4>1
      <4>2. CASE i # 1
        <5>1. /\ Len(Tail(back)) = Len(back) - 1 /\ Len(Tail(b)) = Len(b) - 1
              /\ \A j \in 1..Len(Tail(back)) : Tail(back)[j] = back[j + 1]
              /\ \A j \in 1..Len(Tail(b)) : Tail(b)[j] = b[j + 1]
          BY <1>7, <3>1, HeadTailProperties
        <5>2. i - 1 \in 1..(Len(b) - 1) /\ (i - 1) + 1 = i
          BY <1>2, <3>2, <4>2
        <5>3. i - 1 \in 1..Len(Tail(back)) /\ i - 1 \in 1..Len(Tail(b))
          BY <3>2, <5>1, <5>2
        <5>4. Tail(back)[i - 1] = back[i] /\ Tail(b)[i - 1] = b[i]
          BY <5>1, <5>2, <5>3
        <5> QED BY <3>1, <5>4
      <4> QED BY <4>1, <4>2
    <3>4. back = b
      BY <3>1, <3>2, <3>3, SeqEqual
    <3> QED BY <3>4 DEF back
  <2>6. <<Head(b)>> \in Seq(C)
    BY <1>8
  <2>7. Cat(Cat(a, <<Head(b)>>), Tail(b)) = Cat(a, Cat(<<Head(b)>>, Tail(b)))
    <3> DEFINE one == <<Head(b)>>
               t == Tail(b)
    <3>1. one \in Seq(C) /\ t \in Seq(C)
      BY <1>8, <2>6
    <3> HIDE DEF one, t
    <3>2. Cat(Cat(a, one), t) = Cat(a, Cat(one, t))
      BY <3>1, CatAssociative
    <3> QED BY <3>2 DEF one, t
  <2> QED BY <1>8, <2>2, <2>3, <2>4, <2>5, <2>7
<1>10. ASSUME Len(a) = Len(w) PROVE a = w /\ Head(b) = x /\ Tail(b) = more
  <2>1. ASSUME NEW i \in 1..Len(a) PROVE a[i] = w[i]
    <3>1. i \in 1..(Len(a) + Len(b)) /\ i \in 1..(Len(w) + Len(r)) /\ i <= Len(a) /\ i <= Len(w)
      BY <1>2, <1>10
    <3> QED BY <1>4, <1>5, <3>1
  <2>2. a = w
    BY <1>10, <2>1, SeqEqual
  <2>3. Len(b) = Len(r)
    BY <1>2, <1>6, <1>10
  <2>4. ASSUME NEW i \in 1..Len(b) PROVE b[i] = r[i]
    <3>1. /\ Len(a) + i \in 1..(Len(a) + Len(b)) /\ Len(a) + i \in 1..(Len(w) + Len(r))
          /\ ~ (Len(a) + i <= Len(a)) /\ ~ (Len(a) + i <= Len(w))
          /\ (Len(a) + i) - Len(a) = i /\ (Len(a) + i) - Len(w) = i
      BY <1>2, <1>10, <2>3
    <3>2. all[Len(a) + i] = b[i]
      BY <1>4, <3>1
    <3>3. all[Len(a) + i] = r[i]
      BY <1>5, <3>1
    <3> QED BY <3>2, <3>3
  <2>5. b = r
    BY <1>1, <2>3, <2>4, SeqEqual
  <2> QED BY <1>1, <2>2, <2>5
<1> QED BY <1>7, <1>9, <1>10

-----------------------------------------------------------------------------
(* The fragments of a program, as either writer gives them.                  *)

(* What is left of a newline in front of its "\n", the address and what stands *)
(* in front of the "\n", and the texts of the fragments.                     *)
Junk(eol) == IF eol = <<"\n">> THEN <<>> ELSE <<"\r">>
Word(eol, fragment) == Cat(HexAddress(fragment.address), Junk(eol))
Pieces(o, eol, p) ==
    [i \in 1..Len(p) |-> <<"@">> \o HexAddress(p[i].address) \o eol \o Body(o, eol, p[i].bytes)]

(* The text from the (i + 1)-th fragment on, and from the (k + 1)-th byte of *)
(* the i-th on.                                                              *)
FragmentsAhead(o, eol, p, i) == Cat(Rest(Pieces(o, eol, p), Len(p), i), Cat(<<"q">>, eol))
Ahead(o, eol, p, i, k) ==
    IF i = 0 THEN FragmentsAhead(o, eol, p, 0)
             ELSE Cat(BytesAhead(o, eol, p[i].bytes, k), FragmentsAhead(o, eol, p, i))

(* A newline ends with "\n".                                                 *)
LEMMA EolIs ==
    ASSUME NEW eol \in Eol
    PROVE  /\ Junk(eol) \in {<<>>, <<"\r">>} /\ Junk(eol) \in Seq(Character)
           /\ eol \in Seq(Character) /\ eol = Cat(Junk(eol), <<"\n">>)
<1>1. "\n" \in Character /\ "\r" \in Character
  BY DEF Character
<1>2. <<"\n">> \in Seq(Character) /\ <<"\r">> \in Seq(Character) /\ <<>> \in Seq(Character)
  BY <1>1
<1>3. Cat(<<>>, <<"\n">>) = <<"\n">>
  BY <1>2, CatEmpty
<1>4. Cat(<<"\r">>, <<"\n">>) = <<"\r", "\n">>
  BY <1>1, Couple
<1>5. eol \in Seq(Character)
  BY Texts
<1>6. <<"\n">> # <<"\r", "\n">>
  BY Tuples
<1>7. CASE eol = <<"\n">>
  <2>1. Junk(eol) = <<>>
    BY <1>7 DEF Junk
  <2> QED BY <1>2, <1>3, <1>5, <1>7, <2>1
<1>8. CASE eol # <<"\n">>
  <2>1. Junk(eol) = <<"\r">>
    BY <1>8 DEF Junk
  <2>2. eol = <<"\r", "\n">>
    BY <1>8 DEF Eol
  <2>3. eol = Cat(Junk(eol), <<"\n">>)
    BY <1>4, <2>1, <2>2
  <2> QED BY <1>2, <1>5, <2>1, <2>3
<1> QED BY <1>7, <1>8

(* The address of a fragment is one, its text has AddressDigits characters.  *)
LEMMA FragmentIs ==
    ASSUME NEW p \in Seq(Fragment), NEW i \in 1..Len(p)
    PROVE  /\ p[i].address \in 0..(AddressCount - 1) /\ p[i].bytes \in Seq(Byte)
           /\ HexAddress(p[i].address) \in Numeral
           /\ HexAddress(p[i].address) \in Seq(Character)
           /\ Len(HexAddress(p[i].address)) = AddressDigits
<1>1. p[i] \in Fragment
  BY ElementOfSeq
<1>2. p[i].address \in 0..(AddressCount - 1) /\ p[i].bytes \in Seq(Byte)
  BY <1>1 DEF Fragment
<1>3. AddressDigits \in 0..AddressDigits
  <2>1. AddressDigits \in Nat
    BY HexAssumption
  <2> QED BY <2>1
<1>4. p[i].address \in Nat
  BY <1>2, Bounds
<1>5. HexAddress(p[i].address) \in Numeral /\ Len(HexAddress(p[i].address)) = AddressDigits
  BY <1>3, <1>4, HexNumbers DEF HexAddress
<1>6. Range(Digit) \subseteq Character
  BY DEF Character
<1>7. HexAddress(p[i].address) \in Seq(Character)
  BY <1>5, <1>6, SeqMonotonic DEF Numeral
<1> QED BY <1>2, <1>5, <1>7

(* What the text of a fragment is made of.                                   *)
LEMMA PieceIs ==
    ASSUME NEW o \in {"ti", "writer"}, NEW eol \in Eol, NEW p \in Seq(Fragment), NEW i \in 1..Len(p)
    PROVE  LET hex == HexAddress(p[i].address)
               body == BytesAhead(o, eol, p[i].bytes, 0)
           IN  /\ Pieces(o, eol, p)[i] = Cat(<<"@">>, Cat(hex, Cat(eol, body)))
               /\ Pieces(o, eol, p)[i] \in Seq(Character)
               /\ hex \in Seq(Character) /\ body \in Seq(Character)
<1> DEFINE at == <<"@">>
           hex == HexAddress(p[i].address)
           body == BytesAhead(o, eol, p[i].bytes, 0)
<1>1. hex \in Seq(Character) /\ p[i].bytes \in Seq(Byte)
  BY FragmentIs
<1>2. body = Body(o, eol, p[i].bytes) /\ body \in Seq(Character)
  <2>1. 0 \in 0..Len(p[i].bytes)
    BY <1>1, LenProperties
  <2> QED BY <1>1, <2>1, WholeBody
<1>3. at \in Seq(Character) /\ eol \in Seq(Character)
  BY Texts
<1>4. Pieces(o, eol, p)[i] = ((at \o hex) \o eol) \o body
  BY <1>2 DEF Pieces
<1> HIDE DEF at, hex, body
<1>5. Pieces(o, eol, p)[i] = Cat(Cat(Cat(at, hex), eol), body)
  BY <1>4 DEF Cat
<1>6. Cat(Cat(Cat(at, hex), eol), body) = Cat(at, Cat(hex, Cat(eol, body)))
  <2>1. Cat(at, hex) \in Seq(Character) /\ Cat(eol, body) \in Seq(Character)
    BY <1>1, <1>2, <1>3, CatType
  <2>2. at \in Seq(Character) /\ hex \in Seq(Character) /\ eol \in Seq(Character) /\ body \in Seq(Character)
    BY <1>1, <1>2, <1>3
  <2> QED BY <2>1, <2>2, CatAssociative
<1>7. Cat(at, Cat(hex, Cat(eol, body))) \in Seq(Character)
  BY <1>1, <1>2, <1>3, CatType
<1> QED BY <1>1, <1>2, <1>5, <1>6, <1>7 DEF at, hex, body

(* These are texts of characters.                                            *)
LEMMA PiecesType ==
    ASSUME NEW o \in {"ti", "writer"}, NEW eol \in Eol, NEW p \in Seq(Fragment)
    PROVE  Len(p) \in Nat /\ Pieces(o, eol, p) \in [1..Len(p) -> Seq(Character)]
<1>1. \A i \in 1..Len(p) : Pieces(o, eol, p)[i] \in Seq(Character)
  BY PieceIs
<1>2. Pieces(o, eol, p) = [i \in 1..Len(p) |-> Pieces(o, eol, p)[i]]
  BY DEF Pieces
<1>3. Len(p) \in Nat
  BY LenProperties
<1> QED BY <1>1, <1>2, <1>3

(* What is ahead is a text of characters; behind the last byte it is the next *)
(* fragment.                                                                 *)
LEMMA AheadType ==
    ASSUME NEW o \in {"ti", "writer"}, NEW eol \in Eol, NEW p \in Seq(Fragment), NEW i \in 0..Len(p)
    PROVE  /\ FragmentsAhead(o, eol, p, i) \in Seq(Character)
           /\ i = 0 => Ahead(o, eol, p, i, 0) = FragmentsAhead(o, eol, p, i)
           /\ i # 0 => \A k \in 0..Len(p[i].bytes) : Ahead(o, eol, p, i, k) \in Seq(Character)
           /\ i # 0 => Ahead(o, eol, p, i, Len(p[i].bytes)) = FragmentsAhead(o, eol, p, i)
<1>1. Len(p) \in Nat /\ Pieces(o, eol, p) \in [1..Len(p) -> Seq(Character)]
  BY PiecesType
<1>2. Rest(Pieces(o, eol, p), Len(p), i) \in Seq(Character)
  BY <1>1, RestIs
<1>3. <<"q">> \in Seq(Character) /\ eol \in Seq(Character)
  BY Texts
<1>4. FragmentsAhead(o, eol, p, i) \in Seq(Character)
  BY <1>2, <1>3, CatType DEF FragmentsAhead
<1>5. i = 0 => Ahead(o, eol, p, i, 0) = FragmentsAhead(o, eol, p, i)
  BY DEF Ahead
<1>6. ASSUME i # 0
      PROVE  /\ \A k \in 0..Len(p[i].bytes) : Ahead(o, eol, p, i, k) \in Seq(Character)
             /\ Ahead(o, eol, p, i, Len(p[i].bytes)) = FragmentsAhead(o, eol, p, i)
  <2>1. i \in 1..Len(p)
    BY <1>1, <1>6
  <2>2. p[i].bytes \in Seq(Byte)
    BY <2>1, FragmentIs
  <2>3. /\ \A k \in 0..Len(p[i].bytes) : BytesAhead(o, eol, p[i].bytes, k) \in Seq(Character)
        /\ BytesAhead(o, eol, p[i].bytes, Len(p[i].bytes)) = <<>>
    BY <2>2, WholeBody
  <2>4. \A k : Ahead(o, eol, p, i, k) = Cat(BytesAhead(o, eol, p[i].bytes, k), FragmentsAhead(o, eol, p, i))
    BY <1>6 DEF Ahead
  <2>5. Cat(<<>>, FragmentsAhead(o, eol, p, i)) = FragmentsAhead(o, eol, p, i)
    BY <1>4, CatEmpty
  <2> QED BY <1>4, <2>3, <2>4, <2>5, CatType
<1> QED BY <1>4, <1>5, <1>6

(* A fragment begins with "@", its address, and a newline.                   *)
LEMMA NextFragment ==
    ASSUME NEW o \in {"ti", "writer"}, NEW eol \in Eol, NEW p \in Seq(Fragment),
           NEW i \in 0..(Len(p) - 1)
    PROVE  FragmentsAhead(o, eol, p, i) =
             Cat(<<"@">>, Cat(Word(eol, p[i + 1]), Cat(<<"\n">>, Ahead(o, eol, p, i + 1, 0))))
<1>1. Len(p) \in Nat /\ Pieces(o, eol, p) \in [1..Len(p) -> Seq(Character)]
  BY PiecesType
<1>2. i \in 0..Len(p) /\ i < Len(p) /\ i + 1 \in 1..Len(p) /\ i + 1 \in 0..Len(p) /\ i + 1 # 0
  BY <1>1
<1> DEFINE at == <<"@">>
           hex == HexAddress(p[i + 1].address)
           body == BytesAhead(o, eol, p[i + 1].bytes, 0)
           rest == Rest(Pieces(o, eol, p), Len(p), i + 1)
           q == Cat(<<"q">>, eol)
           junk == Junk(eol)
           lf == <<"\n">>
           piece == Pieces(o, eol, p)[i + 1]
<1>3. Rest(Pieces(o, eol, p), Len(p), i) = Cat(piece, rest) /\ rest \in Seq(Character)
  <2>1. Rest(Pieces(o, eol, p), Len(p), i) = Cat(piece, rest)
    BY <1>1, <1>2, RestIs
  <2>2. rest \in Seq(Character)
    BY <1>1, <1>2, RestIs
  <2> QED BY <2>1, <2>2
<1>4. piece = Cat(at, Cat(hex, Cat(eol, body))) /\ hex \in Seq(Character) /\ body \in Seq(Character)
  BY <1>2, PieceIs
<1>5. at \in Seq(Character) /\ eol \in Seq(Character) /\ <<"q">> \in Seq(Character) /\ lf \in Seq(Character)
  BY Texts DEF Eol
<1>6. junk \in Seq(Character) /\ eol = Cat(junk, lf)
  BY EolIs
<1>7. FragmentsAhead(o, eol, p, i) = Cat(Cat(piece, rest), q)
  BY <1>3 DEF FragmentsAhead
<1>8. Ahead(o, eol, p, i + 1, 0) = Cat(body, Cat(rest, q))
  BY <1>2 DEF Ahead, FragmentsAhead
<1>9. q \in Seq(Character)
  BY <1>5, CatType
<1>10. Word(eol, p[i + 1]) = Cat(hex, junk)
  BY DEF Word
<1> HIDE DEF at, hex, body, rest, q, junk, lf, piece
<1>11. /\ at \in Seq(Character) /\ hex \in Seq(Character) /\ body \in Seq(Character) /\ rest \in Seq(Character)
       /\ q \in Seq(Character) /\ junk \in Seq(Character) /\ lf \in Seq(Character) /\ eol \in Seq(Character)
  BY <1>3, <1>4, <1>5, <1>6, <1>9
<1>12. Cat(Cat(Cat(at, Cat(hex, Cat(eol, body))), rest), q) =
          Cat(at, Cat(Cat(hex, junk), Cat(lf, Cat(body, Cat(rest, q)))))
  <2> DEFINE tail == Cat(body, Cat(rest, q))
  <2>1. /\ Cat(rest, q) \in Seq(Character) /\ Cat(eol, body) \in Seq(Character)
        /\ Cat(hex, Cat(eol, body)) \in Seq(Character) /\ tail \in Seq(Character)
        /\ Cat(at, Cat(hex, Cat(eol, body))) \in Seq(Character)
        /\ Cat(lf, tail) \in Seq(Character)
    BY <1>11, CatType
  <2>2. Cat(Cat(Cat(at, Cat(hex, Cat(eol, body))), rest), q) = Cat(Cat(at, Cat(hex, Cat(eol, body))), Cat(rest, q))
    BY <1>11, <2>1, CatAssociative
  <2>3. Cat(Cat(at, Cat(hex, Cat(eol, body))), Cat(rest, q)) = Cat(at, Cat(Cat(hex, Cat(eol, body)), Cat(rest, q)))
    BY <1>11, <2>1, CatAssociative
  <2>4. Cat(Cat(hex, Cat(eol, body)), Cat(rest, q)) = Cat(hex, Cat(Cat(eol, body), Cat(rest, q)))
    BY <1>11, <2>1, CatAssociative
  <2>5. Cat(Cat(eol, body), Cat(rest, q)) = Cat(eol, tail)
    BY <1>11, <2>1, CatAssociative
  <2> HIDE DEF tail
  <2>6. Cat(Cat(junk, lf), tail) = Cat(junk, Cat(lf, tail))
    BY <1>11, <2>1, CatAssociative
  <2>7. Cat(Cat(hex, junk), Cat(lf, tail)) = Cat(hex, Cat(junk, Cat(lf, tail)))
    BY <1>11, <2>1, CatAssociative
  <2> QED BY <1>6, <2>2, <2>3, <2>4, <2>5, <2>6, <2>7 DEF tail
<1> QED BY <1>4, <1>7, <1>8, <1>10, <1>12 DEF at, lf

(* Behind the last one is "q".                                               *)
LEMMA LastFragment ==
    ASSUME NEW o \in {"ti", "writer"}, NEW eol \in Eol, NEW p \in Seq(Fragment)
    PROVE  FragmentsAhead(o, eol, p, Len(p)) = Cat(<<"q">>, eol)
<1>1. Len(p) \in Nat /\ Pieces(o, eol, p) \in [1..Len(p) -> Seq(Character)]
  BY PiecesType
<1>2. Len(p) \in 0..Len(p)
  BY <1>1
<1>3. Rest(Pieces(o, eol, p), Len(p), Len(p)) = <<>>
  BY <1>1, <1>2, RestIs
<1>4. Cat(<<"q">>, eol) \in Seq(Character)
  BY Texts, CatType
<1>5. Cat(<<>>, Cat(<<"q">>, eol)) = Cat(<<"q">>, eol)
  BY <1>4, CatEmpty
<1> QED BY <1>3, <1>5 DEF FragmentsAhead

(* At the beginning everything is ahead: what write_stream() writes, or TI.  *)
LEMMA WholeText ==
    ASSUME NEW p \in Seq(Fragment), NEW eol \in Eol
    PROVE  /\ TiText(p, eol) = FragmentsAhead("ti", eol, p, 0)
           /\ WriteStream(p) = FragmentsAhead("writer", <<"\n">>, p, 0)
<1>1. DOMAIN p = 1..Len(p) /\ Len(p) \in Nat
  BY LenProperties
<1>2. <<"\n">> \in Eol /\ "q" \in Character /\ "\n" \in Character
  BY DEF Eol, Character
<1>3. 0 \in 0..Len(p)
  BY <1>1
<1>4. TiText(p, eol) = FragmentsAhead("ti", eol, p, 0)
  <2> DEFINE T == Pieces("ti", eol, p)
             q == <<"q">>
  <2>1. TiText(p, eol) = (FlattenSeq(T) \o q) \o eol
    BY <1>1 DEF TiText, Pieces, Body
  <2>2. T \in [1..Len(p) -> Seq(Character)] /\ q \in Seq(Character) /\ eol \in Seq(Character)
    BY PiecesType, Texts
  <2> HIDE DEF T, q
  <2>3. Rest(T, Len(p), 0) = FlattenSeq(T) /\ Rest(T, Len(p), 0) \in Seq(Character)
    BY <1>1, <1>3, <2>2, RestIs
  <2>4. TiText(p, eol) = Cat(Cat(FlattenSeq(T), q), eol)
    BY <2>1 DEF Cat
  <2>5. Cat(Cat(FlattenSeq(T), q), eol) = Cat(FlattenSeq(T), Cat(q, eol))
    BY <2>2, <2>3, CatAssociative
  <2> QED BY <2>3, <2>4, <2>5 DEF FragmentsAhead, T, q
<1>5. WriteStream(p) = FragmentsAhead("writer", <<"\n">>, p, 0)
  <2> DEFINE T == Pieces("writer", <<"\n">>, p)
             last == <<"q", "\n">>
  <2>1. WriteStream(p) = FlattenSeq(T) \o last
    <3>1. "writer" # "ti"
      OBVIOUS
    <3> QED BY <1>1, <3>1 DEF WriteStream, Pieces, Body
  <2>2. T \in [1..Len(p) -> Seq(Character)]
    BY <1>2, PiecesType
  <2>3. last = Cat(<<"q">>, <<"\n">>)
    BY <1>2, Couple
  <2> HIDE DEF T, last
  <2>4. Rest(T, Len(p), 0) = FlattenSeq(T)
    BY <1>1, <1>3, <2>2, RestIs
  <2>5. WriteStream(p) = Cat(FlattenSeq(T), last)
    BY <2>1 DEF Cat
  <2> QED BY <2>3, <2>4, <2>5 DEF FragmentsAhead, T
<1> QED BY <1>4, <1>5

-----------------------------------------------------------------------------
(* The invariant: what the reader keeps is what it has read of the program,  *)
(* and what is left of the text is the rest of the program.                  *)

(* What the k-th byte of a fragment is read as.                              *)
Swapped(bs, k) == IF k % 2 = 0 THEN bs[k - 1] ELSE IF k = Len(bs) THEN bs[k] ELSE bs[k + 1]

(* The places where write_stream() leaves out the newline.                   *)
Full(i) == i < Len(program) /\ Len(program[i].bytes) > 0 /\ Len(program[i].bytes) % LineSize = 0

(* The fragments that were begun, the bytes of the last of them that are in it *)
(* and those that were seen.                                                 *)
Begun == Len(fragments)
Size(i) == IF i = 0 THEN 0 ELSE Len(program[i].bytes)
Kept == IF Begun = 0 THEN 0 ELSE Len(fragments[Begun].bytes)
Seen == Kept + Len(bytes) + Len(byte_buffer)

(* What was read is right, up to where the reader is; only the last fragment *)
(* may lack bytes, and then whole lines of them.                             *)
FragmentsRight(o) ==
    /\ Begun <= Len(program)
    /\ \A j \in 1..Begun :
          /\ fragments[j].address = program[j].address
          /\ Len(fragments[j].bytes) <= Size(j)
          /\ \A k \in 1..Len(fragments[j].bytes) :
                fragments[j].bytes[k] = Swapped(program[j].bytes, k)
          /\ j < Begun => Len(fragments[j].bytes) = Size(j) /\ (o = "writer" => ~Full(j))
    /\ Kept = Size(Begun) \/ Kept % LineSize = 0

(* All the bytes of a fragment were read, and the next one may begin.        *)
AtFragmentEnd(o) == Kept = Size(Begun) /\ (o = "writer" /\ Begun > 0 => ~Full(Begun))

(* Where a part begins, and inside an address.                               *)
PartInv(o, eol) ==
    /\ Kept = Size(Begun) => AtFragmentEnd(o)
    /\ \/ text = Ahead(o, eol, program, Begun, Kept)
       \/ text = <<>> /\ Begun = Len(program) /\ Kept = Size(Begun)
AddressInv(o, eol) ==
    LET word == Word(eol, program[Begun + 1])
    IN  /\ AtFragmentEnd(o) /\ Begun < Len(program)
        /\ Cat(number, text) = Cat(word, Cat(<<"\n">>, Ahead(o, eol, program, Begun + 1, 0)))
        /\ Len(number) <= Len(word)

(* The bytes of the line, in pairs, and the byte that waits for its partner. *)
BytesRight ==
    LET bs == program[Begun].bytes
    IN  /\ Begun > 0 /\ Kept % LineSize = 0 /\ Len(bytes) % 2 = 0 /\ Seen <= Len(bs)
        /\ \A k \in 1..Len(bytes) : bytes[k] = Swapped(bs, Kept + k)
        /\ byte_buffer /= <<>> => byte_buffer[1] = bs[Seen]

(* Behind a byte, inside one, and behind the last one of a full line, where the *)
(* writer's next "@" or "q" is taken for half a byte.                        *)
AfterByte(o, eol) ==
    /\ number = <<>> /\ Seen > 0
    /\ \E gap \in Gaps : /\ Fits(o, program[Begun].bytes, Seen, gap)
                         /\ text = Cat(gap, Ahead(o, eol, program, Begun, Seen))
InByte(o, eol) ==
    LET bs == program[Begun].bytes
        hex == HexByte(bs[Seen + 1])
    IN  /\ Seen < Len(bs) /\ number = <<hex[1]>>
        /\ text = Cat(<<hex[2]>>, Cat(Gap(o, eol, bs, Seen + 1), Ahead(o, eol, program, Begun, Seen + 1)))
AfterLast(o, eol) ==
    /\ o = "writer" /\ Seen = Len(program[Begun].bytes)
    /\ \/ number = <<"q">> /\ text = <<"\n">> /\ Begun = Len(program)
       \/ /\ number = <<"@">> /\ Full(Begun)
          /\ text = Cat(Word(eol, program[Begun + 1]), Cat(<<"\n">>, Ahead(o, eol, program, Begun + 1, 0)))
LineInv(o, eol) == BytesRight /\ (AfterByte(o, eol) \/ InByte(o, eol) \/ AfterLast(o, eol))

(* The invariant for a file of o with the newline eol.  The read fails where *)
(* the writer left out a newline, and nowhere else.                          *)
Reading(o, eol) ==
    /\ FragmentsRight(o)
    /\ mode = "part" => PartInv(o, eol)
    /\ mode = "address" => AddressInv(o, eol)
    /\ mode = "line" => LineInv(o, eol)
    /\ mode = "done" => Begun = Len(program) /\ Kept = Size(Begun)
    /\ mode = "failed" => o = "writer" /\ \E i \in 1..Len(program) : Full(i)

(* The invariant, for the files that one of the writers wrote.               *)
ReadingInv ==
    origin \in {"ti", "writer"} =>
        \E eol \in Eol : (origin = "writer" => eol = <<"\n">>) /\ Reading(origin, eol)

(* The characters of a file are different, and none is the end of it.        *)
LEMMA Letters ==
    /\ {"@", "q", " ", "\n", "\r"} \subseteq Character /\ Range(Digit) \subseteq Character
    /\ Eof \notin Range(Digit)
    /\ \A c \in Range(Digit) : c \notin {"@", "q", " ", "\n", "\r", Eof}
    /\ Eof \notin {"@", "q", " ", "\n", "\r"} /\ Eof \notin Character
<1>1. Range(Digit) \cap {"@", "q", " ", "\n", "\r", Eof} = {}
  BY HexAssumption
<1>2. Eof \notin {"@", "q", " ", "\n", "\r"}
  BY DEF Eof
<1> QED BY <1>1, <1>2 DEF Character

(* Where the reader is, there is a program.                                  *)
LEMMA Setting ==
    ASSUME TypeOK, NEW o, FragmentsRight(o)
    PROVE  /\ program \in Seq(Fragment) /\ Len(program) \in Nat /\ fragments \in Seq(Fragment)
           /\ Begun \in 0..Len(program) /\ Kept \in 0..Size(Begun) /\ Size(Begun) \in Nat
           /\ Begun > 0 => /\ Begun \in 1..Len(program) /\ program[Begun].bytes \in Seq(Byte)
                           /\ Size(Begun) = Len(program[Begun].bytes)
           /\ Len(bytes) \in Nat /\ Len(byte_buffer) \in {0, 1} /\ Seen \in Nat
<1>1. program \in Seq(Fragment)
  <2>1. ProgramSet \subseteq Seq(Fragment)
    BY HexAssumption
  <2>3. <<>> \in Seq(Fragment)
    BY EmptySeq
  <2>2. program \in ProgramSet \cup {<<>>}
    BY DEF TypeOK
  <2> QED BY <2>1, <2>2, <2>3
<1>2. fragments \in Seq(Fragment) /\ bytes \in Seq(Byte) /\ byte_buffer \in Seq(Byte) /\ Len(byte_buffer) < 2
  BY DEF TypeOK
<1>3. Len(program) \in Nat /\ Begun \in Nat /\ Len(bytes) \in Nat /\ Len(byte_buffer) \in Nat
  BY <1>1, <1>2, LenProperties DEF Begun
<1>4. Begun <= Len(program)
  BY DEF FragmentsRight
<1>5. Begun \in 0..Len(program) /\ Len(byte_buffer) \in {0, 1}
  <2>1. Begun \in 0..Len(program)
    BY <1>3, <1>4
  <2>2. PICK n \in Nat : n = Len(byte_buffer)
    BY <1>3
  <2>3. n < 2
    BY <1>2, <2>2
  <2>4. n \in {0, 1}
    BY <2>3
  <2> QED BY <2>1, <2>2, <2>4
<1>6. ASSUME Begun > 0
      PROVE  /\ Begun \in 1..Len(program) /\ program[Begun].bytes \in Seq(Byte)
             /\ Size(Begun) = Len(program[Begun].bytes) /\ Size(Begun) \in Nat
             /\ Kept \in 0..Size(Begun)
  <2>1. Begun \in 1..Len(program) /\ Begun \in 1..Begun /\ Begun # 0
    BY <1>3, <1>4, <1>6
  <2>2. program[Begun].bytes \in Seq(Byte)
    BY <1>1, <2>1, FragmentIs
  <2>3. fragments[Begun].bytes \in Seq(Byte)
    <3>1. Begun \in 1..Len(fragments)
      BY <2>1 DEF Begun
    <3> QED BY <1>2, <3>1, FragmentIs
  <2>4. Size(Begun) = Len(program[Begun].bytes) /\ Kept = Len(fragments[Begun].bytes)
    BY <2>1 DEF Size, Kept
  <2>5. Len(program[Begun].bytes) \in Nat /\ Len(fragments[Begun].bytes) \in Nat
    BY <2>2, <2>3, LenProperties
  <2>6. Len(fragments[Begun].bytes) <= Size(Begun)
    BY <2>1 DEF FragmentsRight
  <2> QED BY <2>1, <2>2, <2>4, <2>5, <2>6
<1>7. ASSUME Begun = 0 PROVE Size(Begun) = 0 /\ Kept = 0
  BY <1>7 DEF Size, Kept
<1>8. Size(Begun) \in Nat /\ Kept \in 0..Size(Begun)
  BY <1>3, <1>6, <1>7
<1>9. Seen \in Nat
  BY <1>3, <1>8 DEF Seen
<1> QED BY <1>1, <1>2, <1>3, <1>5, <1>6, <1>8, <1>9

(* In front of a byte are its two digits.                                    *)
LEMMA ByteComes ==
    ASSUME NEW o \in {"ti", "writer"}, NEW eol \in Eol, NEW p \in Seq(Fragment),
           NEW i \in 1..Len(p), NEW k \in 0..(Len(p[i].bytes) - 1)
    PROVE  LET hex == HexByte(p[i].bytes[k + 1])
               more == Cat(Gap(o, eol, p[i].bytes, k + 1), Ahead(o, eol, p, i, k + 1))
           IN  /\ hex[1] \in Range(Digit) /\ hex[2] \in Range(Digit)
               /\ more \in Seq(Character) /\ Cat(<<hex[2]>>, more) \in Seq(Character)
               /\ Ahead(o, eol, p, i, k) = Cat(<<hex[1]>>, Cat(<<hex[2]>>, more))
<1> DEFINE bs == p[i].bytes
           hex == HexByte(bs[k + 1])
           gap == Gap(o, eol, bs, k + 1)
           rest == BytesAhead(o, eol, bs, k + 1)
           later == FragmentsAhead(o, eol, p, i)
           more == Cat(gap, Ahead(o, eol, p, i, k + 1))
           x == hex[1]
           y == hex[2]
<1>1. bs \in Seq(Byte) /\ Len(bs) \in Nat /\ k + 1 \in 1..Len(bs) /\ k + 1 \in 0..Len(bs) /\ i \in 0..Len(p) /\ i # 0
  BY FragmentIs, LenProperties
<1>2. bs[k + 1] \in Byte
  BY <1>1, ElementOfSeq
<1>3. hex \in Numeral /\ Len(hex) = 2
  BY <1>2, ByteReadsBack
<1>4. x \in Range(Digit) /\ y \in Range(Digit) /\ hex = <<x, y>>
  <2> HIDE DEF hex
  <2>1. hex[1] \in Range(Digit) /\ hex[2] \in Range(Digit)
    <3>1. 1 \in 1..Len(hex) /\ 2 \in 1..Len(hex)
      BY <1>3
    <3> QED BY <1>3, <3>1, ElementOfSeq DEF Numeral
  <2>2. hex = <<hex[1], hex[2]>>
    BY <1>3 DEF Numeral
  <2> QED BY <2>1, <2>2
<1>5. x \in Character /\ y \in Character
  BY <1>4, Letters
<1>6. Ahead(o, eol, p, i, k) = Cat(BytesAhead(o, eol, bs, k), later) /\ Ahead(o, eol, p, i, k + 1) = Cat(rest, later)
  BY <1>1 DEF Ahead
<1>7. BytesAhead(o, eol, bs, k) = Cat(hex, Cat(gap, rest))
  BY <1>1, NextByte
<1>8. gap \in Seq(Character) /\ rest \in Seq(Character) /\ later \in Seq(Character)
  <2>1. gap \in Gaps
    BY <1>1, GapFits DEF Fits
  <2>2. gap \in Seq(Character)
    BY <2>1, Texts
  <2>3. rest \in Seq(Character)
    BY <1>1, WholeBody
  <2>4. later \in Seq(Character)
    BY <1>1, AheadType
  <2> QED BY <2>2, <2>3, <2>4
<1> HIDE DEF hex, gap, rest, later, x, y
<1>9. more = Cat(gap, Cat(rest, later)) /\ more \in Seq(Character)
  BY <1>6, <1>8, CatType
<1> HIDE DEF more
<1>10. hex \in Seq(Character)
  <2>1. Range(Digit) \subseteq Character
    BY Letters
  <2> QED BY <1>3, <2>1, SeqMonotonic DEF Numeral
<1>11. Cat(Cat(hex, Cat(gap, rest)), later) = Cat(hex, more)
  <2>1. Cat(gap, rest) \in Seq(Character)
    BY <1>8, CatType
  <2>2. Cat(Cat(hex, Cat(gap, rest)), later) = Cat(hex, Cat(Cat(gap, rest), later))
    BY <1>8, <1>10, <2>1, CatAssociative
  <2>3. Cat(Cat(gap, rest), later) = Cat(gap, Cat(rest, later))
    BY <1>8, CatAssociative
  <2> QED BY <1>9, <2>2, <2>3
<1>12. Cat(hex, more) = Cat(<<x>>, Cat(<<y>>, more)) /\ Cat(<<y>>, more) \in Seq(Character)
  <2>1. Cat(<<x, y>>, more) = Cat(<<x>>, Cat(<<y>>, more))
    BY <1>5, <1>9, CoupleFirst
  <2>2. Cat(<<y>>, more) \in Seq(Character)
    BY <1>5, <1>9, HeadTail
  <2> QED BY <1>4, <2>1, <2>2
<1> QED BY <1>4, <1>6, <1>7, <1>9, <1>11, <1>12 DEF hex, gap, x, y, more

(* The text of an address: digits first, and stoi() gives the address.       *)
LEMMA WordIs ==
    ASSUME NEW eol \in Eol, NEW p \in Seq(Fragment), NEW i \in 1..Len(p)
    PROVE  LET word == Word(eol, p[i])
           IN  /\ word \in Seq(Character) /\ Len(word) \in Nat
               /\ \A n \in 1..Len(word) : word[n] \in Range(Digit) \cup {"\r"}
               /\ word # <<>> /\ word[1] \in Range(Digit)
               /\ Value(word) = p[i].address /\ ~Throws(word)
<1> DEFINE hex == HexAddress(p[i].address)
           junk == Junk(eol)
           word == Word(eol, p[i])
<1>1. /\ hex \in Numeral /\ hex \in Seq(Character) /\ Len(hex) = AddressDigits
      /\ p[i].address \in 0..(AddressCount - 1)
  BY FragmentIs
<1>2. junk \in {<<>>, <<"\r">>} /\ junk \in Seq(Character)
  BY EolIs
<1>3. word = Cat(hex, junk)
  BY DEF Word
<1>4. Value(word) = p[i].address /\ ~Throws(word)
  BY <1>1, <1>2, <1>3, AddressReadsBack
<1> HIDE DEF hex, junk, word
<1>5. /\ word \in Seq(Character) /\ Len(word) = Len(hex) + Len(junk)
      /\ \A n \in 1..(Len(hex) + Len(junk)) : word[n] = IF n <= Len(hex) THEN hex[n] ELSE junk[n - Len(hex)]
  BY <1>1, <1>2, <1>3, ConcatProperties DEF Cat
<1>6. Len(hex) \in Nat /\ Len(hex) >= 2 /\ Len(junk) \in Nat /\ Len(word) \in Nat
  <2>1. AddressDigits \in Nat /\ AddressDigits >= 2
    BY HexAssumption
  <2> QED BY <1>1, <1>2, <1>5, <2>1, LenProperties
<1>7. \A n \in 1..Len(hex) : hex[n] \in Range(Digit)
  BY <1>1, ElementOfSeq DEF Numeral
<1>8. \A n \in 1..Len(junk) : junk[n] = "\r"
  BY <1>2
<1>9. ASSUME NEW n \in 1..Len(word) PROVE word[n] \in Range(Digit) \cup {"\r"}
  <2>1. CASE n <= Len(hex)
    BY <1>5, <1>6, <1>7, <2>1
  <2>2. CASE ~ (n <= Len(hex))
    <3>1. n - Len(hex) \in 1..Len(junk)
      BY <1>5, <1>6, <2>2
    <3> QED BY <1>5, <1>6, <1>8, <2>2, <3>1
  <2> QED BY <2>1, <2>2
<1>10. word[1] \in Range(Digit)
  <2>1. 1 \in 1..(Len(hex) + Len(junk)) /\ 1 <= Len(hex) /\ 1 \in 1..Len(hex)
    BY <1>6
  <2> QED BY <1>5, <1>7, <2>1
<1>11. word # <<>>
  BY <1>5, <1>6, EmptySeq
<1> QED BY <1>4, <1>5, <1>6, <1>9, <1>10, <1>11 DEF word

-----------------------------------------------------------------------------
(* A part begins.                                                            *)

(* The next character, and the text behind it.                               *)
LEMMA Getting ==
    ASSUME NEW c \in Character, NEW more \in Seq(Character), text = Cat(<<c>>, more), Get
    PROVE  Char = c /\ text' = more /\ program' = program /\ origin' = origin
<1>1. text # <<>> /\ Head(text) = c /\ Tail(text) = more
  BY HeadTail
<1> QED BY <1>1 DEF Get, Char

(* Without a change of the fragments all that is said of them stays true.    *)
LEMMA Unread ==
    ASSUME NEW o, FragmentsRight(o), program' = program, fragments' = fragments
    PROVE  /\ FragmentsRight(o)' /\ Begun' = Begun /\ Kept' = Kept
           /\ (AtFragmentEnd(o) => AtFragmentEnd(o)') /\ Size(Begun)' = Size(Begun)
           /\ \A i : Full(i)' = Full(i)
<1>1. Begun' = Begun
  BY DEF Begun
<1>2. Kept' = Kept
  BY <1>1 DEF Kept
<1>3. Size(Begun)' = Size(Begun) /\ \A i : Full(i)' = Full(i)
  BY <1>1 DEF Size, Full
<1>4. FragmentsRight(o)'
  BY <1>1, <1>2 DEF FragmentsRight, Size, Full
<1>5. AtFragmentEnd(o) => AtFragmentEnd(o)'
  BY <1>1, <1>2, <1>3 DEF AtFragmentEnd
<1> QED BY <1>1, <1>2, <1>3, <1>4, <1>5

(* read_stream_part(): "@", "q", or the first digit of a line.               *)
LEMMA PartStep ==
    ASSUME TypeOK, NEW o \in {"ti", "writer"}, NEW eol \in Eol, Reading(o, eol), ReadPart
    PROVE  Reading(o, eol)'
<1>1. /\ mode = "part" /\ Get /\ fragments' = fragments /\ program' = program
      /\ FragmentsRight(o) /\ PartInv(o, eol)
  BY DEF ReadPart, Get, Reading
<1>2. /\ FragmentsRight(o)' /\ Begun' = Begun /\ Kept' = Kept
      /\ (AtFragmentEnd(o) => AtFragmentEnd(o)') /\ Size(Begun)' = Size(Begun)
  BY <1>1, Unread
<1>3. /\ program \in Seq(Fragment) /\ Len(program) \in Nat
      /\ Begun \in 0..Len(program) /\ Kept \in 0..Size(Begun) /\ Size(Begun) \in Nat
      /\ Begun > 0 => /\ Begun \in 1..Len(program) /\ program[Begun].bytes \in Seq(Byte)
                      /\ Size(Begun) = Len(program[Begun].bytes)
  BY <1>1, Setting
<1>4. ASSUME Begun = Len(program), Kept = Size(Begun), Char \in {Eof, "q"}
      PROVE  Reading(o, eol)'
  <2>1. mode' = "done"
    BY <1>4, Letters DEF ReadPart
  <2>2. Begun' = Len(program)' /\ Kept' = Size(Begun)'
    BY <1>1, <1>2, <1>4
  <2> QED BY <1>2, <2>1, <2>2 DEF Reading
<1>5. CASE text = <<>> /\ Begun = Len(program) /\ Kept = Size(Begun)
  <2>1. Char = Eof
    BY <1>5 DEF Char
  <2> QED BY <1>4, <1>5, <2>1
<1>6. CASE text = Ahead(o, eol, program, Begun, Kept) /\ Kept = Size(Begun)
  <2>1. text = FragmentsAhead(o, eol, program, Begun)
    <3>1. CASE Begun = 0
      <4>1. Kept = 0
        BY <3>1 DEF Kept
      <4> QED BY <1>6, <3>1, <4>1 DEF Ahead
    <3>2. CASE Begun > 0
      BY <1>3, <1>6, <3>2, AheadType
    <3> QED BY <1>3, <3>1, <3>2
  <2>2. CASE Begun = Len(program)
    <3>1. text = Cat(<<"q">>, eol)
      BY <1>3, <2>1, <2>2, LastFragment
    <3>2. "q" \in Character /\ eol \in Seq(Character)
      BY Letters, Texts
    <3>3. Char = "q"
      BY <1>1, <3>1, <3>2, Getting
    <3> QED BY <1>4, <1>6, <2>2, <3>3
  <2>3. CASE Begun # Len(program)
    <3> DEFINE word == Word(eol, program[Begun + 1])
               rest == Ahead(o, eol, program, Begun + 1, 0)
               more == Cat(word, Cat(<<"\n">>, rest))
    <3>1. Begun \in 0..(Len(program) - 1) /\ Begun + 1 \in 1..Len(program) /\ Begun + 1 # 0
          /\ Begun + 1 \in 0..Len(program) /\ Begun < Len(program)
      BY <1>3, <2>3
    <3>2. text = Cat(<<"@">>, more)
      BY <1>3, <2>1, <3>1, NextFragment
    <3>3. "@" \in Character /\ "\n" \in Character
      BY Letters
    <3>4. rest \in Seq(Character)
      <4>1. program[Begun + 1].bytes \in Seq(Byte)
        BY <1>3, <3>1, FragmentIs
      <4>2. 0 \in 0..Len(program[Begun + 1].bytes)
        BY <4>1, LenProperties
      <4> QED BY <1>3, <3>1, <4>2, AheadType
    <3>5. word \in Seq(Character) /\ Len(word) \in Nat
      BY <1>3, <3>1, WordIs
    <3>6. more \in Seq(Character)
      <4>1. Cat(<<"\n">>, rest) \in Seq(Character)
        BY <3>3, <3>4, HeadTail
      <4> QED BY <3>5, <4>1, CatType
    <3> HIDE DEF word, rest, more
    <3>7. Char = "@" /\ text' = more
      BY <1>1, <3>2, <3>3, <3>6, Getting
    <3>8. mode' = "address" /\ number' = <<>>
      BY <3>7, Letters DEF ReadPart
    <3>9. AtFragmentEnd(o)
      BY <1>1, <1>6 DEF PartInv
    <3>10. Cat(number', text') = more /\ Len(number') <= Len(word)
      <4>1. Len(<<>>) = 0
        OBVIOUS
      <4> QED BY <3>5, <3>6, <3>7, <3>8, <4>1, CatEmpty
    <3>11. AddressInv(o, eol)'
      <4>1. word = Word(eol, program[Begun + 1])' /\ rest = Ahead(o, eol, program, Begun + 1, 0)'
        BY <1>1, <1>2 DEF word, rest
      <4> QED BY <1>1, <1>2, <3>1, <3>9, <3>10, <4>1 DEF AddressInv, more
    <3> QED BY <1>2, <3>8, <3>11 DEF Reading
  <2> QED BY <2>2, <2>3
<1>7. CASE text = Ahead(o, eol, program, Begun, Kept) /\ Kept # Size(Begun)
  <2>1. Begun > 0 /\ Kept \in 0..(Size(Begun) - 1) /\ Kept % LineSize = 0 /\ Kept \in Nat
    <3>1. Begun > 0
      BY <1>3, <1>7 DEF Size, Kept
    <3>2. Kept % LineSize = 0
      BY <1>1, <1>7 DEF FragmentsRight
    <3> QED BY <1>3, <1>7, <3>1, <3>2
  <2> DEFINE bs == program[Begun].bytes
             x == HexByte(bs[Kept + 1])[1]
             y == HexByte(bs[Kept + 1])[2]
             more == Cat(Gap(o, eol, bs, Kept + 1), Ahead(o, eol, program, Begun, Kept + 1))
  <2>2. /\ x \in Range(Digit) /\ Cat(<<y>>, more) \in Seq(Character)
        /\ text = Cat(<<x>>, Cat(<<y>>, more))
    BY <1>3, <1>7, <2>1, ByteComes
  <2> HIDE DEF x, y, more
  <2>3. x \in Character /\ x \notin {Eof, "q", "@"}
    BY <2>2, Letters
  <2>4. Char = x /\ text' = Cat(<<y>>, more)
    BY <1>1, <2>2, <2>3, Getting
  <2>5. mode' = "line" /\ number' = <<x>> /\ byte_buffer' = <<>> /\ bytes' = <<>>
    BY <2>3, <2>4 DEF ReadPart
  <2>6. Seen' = Kept /\ Len(bytes') = 0
    <3>1. Len(<<>>) = 0
      OBVIOUS
    <3>2. Seen' = Kept' + Len(bytes') + Len(byte_buffer')
      BY DEF Seen
    <3> QED BY <1>2, <2>1, <2>5, <3>1, <3>2
  <2>7. BytesRight'
    <3>1. Len(bytes)' = 0 /\ Len(bytes)' % 2 = 0 /\ 1..0 = {}
      BY <2>6
    <3>2. (Seen <= Len(program[Begun].bytes))'
      BY <1>1, <1>2, <1>3, <2>1, <2>6
    <3>3. (Begun > 0 /\ Kept % LineSize = 0)'
      BY <1>2, <2>1
    <3>4. byte_buffer' = <<>>
      BY <2>5
    <3>5. \A k \in 1..Len(bytes') : FALSE
      BY <3>1
    <3> QED BY <3>1, <3>2, <3>3, <3>4, <3>5 DEF BytesRight
  <2>8. InByte(o, eol)'
    <3>1. (Seen < Len(program[Begun].bytes))'
      BY <1>1, <1>2, <1>3, <2>1, <2>6
    <3> QED BY <1>1, <1>2, <2>4, <2>5, <2>6, <3>1 DEF InByte, x, y, more
  <2> QED BY <1>2, <2>5, <2>7, <2>8 DEF Reading, LineInv
<1> QED BY <1>1, <1>5, <1>6, <1>7 DEF PartInv

-----------------------------------------------------------------------------
(* The address of a fragment.                                                *)

(* Inside an address: its characters come one by one, and then "\n".         *)
LEMMA InAddress ==
    ASSUME TypeOK, NEW o \in {"ti", "writer"}, NEW eol \in Eol, FragmentsRight(o), AddressInv(o, eol)
    PROVE  LET word == Word(eol, program[Begun + 1])
               rest == Ahead(o, eol, program, Begun + 1, 0)
           IN  /\ Begun + 1 \in 1..Len(program)
               /\ word \in Seq(Character) /\ Len(word) \in Nat /\ rest \in Seq(Character)
               /\ \A n \in 1..Len(word) : word[n] \in Range(Digit) \cup {"\r"}
               /\ Value(word) = program[Begun + 1].address /\ ~Throws(word)
               /\ number \in Seq(Character) /\ text \in Seq(Character)
               /\ Len(number) \in 0..Len(word) /\ text # <<>>
               /\ Len(number) < Len(word) =>
                     /\ Head(text) = word[Len(number) + 1]
                     /\ Cat(Append(number, Head(text)), Tail(text)) = Cat(number, text)
               /\ Len(number) = Len(word) => number = word /\ Head(text) = "\n" /\ Tail(text) = rest
<1> DEFINE word == Word(eol, program[Begun + 1])
           rest == Ahead(o, eol, program, Begun + 1, 0)
<1>1. /\ program \in Seq(Fragment) /\ Len(program) \in Nat /\ Begun \in 0..Len(program)
  BY Setting
<1>2. Begun < Len(program) /\ Len(number) <= Len(word) /\ Cat(number, text) = Cat(word, Cat(<<"\n">>, rest))
  BY DEF AddressInv
<1>3. Begun + 1 \in 1..Len(program) /\ Begun + 1 \in 0..Len(program) /\ Begun + 1 # 0
  BY <1>1, <1>2
<1>4. /\ word \in Seq(Character) /\ Len(word) \in Nat
      /\ \A n \in 1..Len(word) : word[n] \in Range(Digit) \cup {"\r"}
      /\ Value(word) = program[Begun + 1].address /\ ~Throws(word)
  BY <1>1, <1>3, WordIs
<1>5. rest \in Seq(Character)
  <2>1. program[Begun + 1].bytes \in Seq(Byte)
    BY <1>1, <1>3, FragmentIs
  <2>2. 0 \in 0..Len(program[Begun + 1].bytes)
    BY <2>1, LenProperties
  <2> QED BY <1>1, <1>3, <2>2, AheadType
<1>6. number \in Seq(Character) /\ text \in Seq(Character) /\ Len(number) \in Nat
  BY LenProperties DEF TypeOK
<1> HIDE DEF word, rest
<1>7. "\n" \in Character
  BY Letters
<1>8. /\ text # <<>>
      /\ Len(number) < Len(word) =>
            /\ Head(text) = word[Len(number) + 1]
            /\ Cat(Append(number, Head(text)), Tail(text)) = Cat(number, text)
      /\ Len(number) = Len(word) => number = word /\ Head(text) = "\n" /\ Tail(text) = rest
  BY <1>2, <1>4, <1>5, <1>6, <1>7, Scanning
<1>9. Len(number) \in 0..Len(word)
  BY <1>2, <1>4, <1>6
<1> QED BY <1>3, <1>4, <1>5, <1>6, <1>8, <1>9 DEF word, rest

(* A character of the address.                                               *)
LEMMA AddressDigitStep ==
    ASSUME TypeOK, NEW o \in {"ti", "writer"}, NEW eol \in Eol, Reading(o, eol), ReadAddressDigit
    PROVE  Reading(o, eol)'
<1> DEFINE word == Word(eol, program[Begun + 1])
           rest == Ahead(o, eol, program, Begun + 1, 0)
<1>1. /\ mode = "address" /\ mode' = "address" /\ Get /\ fragments' = fragments /\ program' = program
      /\ FragmentsRight(o) /\ AddressInv(o, eol) /\ Char \notin {" ", "\n"}
  BY DEF ReadAddressDigit, Get, Reading
<1>2. /\ FragmentsRight(o)' /\ Begun' = Begun /\ (AtFragmentEnd(o) => AtFragmentEnd(o)')
  BY <1>1, Unread
<1>3. /\ Len(word) \in Nat /\ number \in Seq(Character) /\ text \in Seq(Character)
      /\ Len(number) \in 0..Len(word) /\ text # <<>>
      /\ Len(number) < Len(word) =>
            Cat(Append(number, Head(text)), Tail(text)) = Cat(number, text)
      /\ Len(number) = Len(word) => Head(text) = "\n"
  BY <1>1, InAddress
<1>4. Char = Head(text) /\ text' = Tail(text) /\ Head(text) \in Character
  BY <1>1, <1>3, HeadTailProperties DEF Char, Get
<1>5. Len(number) < Len(word)
  <2>1. Len(number) # Len(word)
    BY <1>1, <1>3, <1>4
  <2> QED BY <1>3, <2>1
<1>6. number' = Append(number, Head(text))
  BY <1>4, Letters DEF ReadAddressDigit
<1>7. Len(number') <= Len(word)
  <2>1. Len(number') = Len(number) + 1
    BY <1>3, <1>4, <1>6, AppendProperties
  <2> QED BY <1>3, <1>5, <2>1
<1>8. Cat(number', text') = Cat(number, text)
  BY <1>3, <1>4, <1>5, <1>6
<1>9. word' = word /\ rest' = rest
  BY <1>1, <1>2
<1>10. /\ AtFragmentEnd(o)' /\ Begun' < Len(program')
       /\ Cat(number', text') = Cat(word, Cat(<<"\n">>, rest))
  BY <1>1, <1>2, <1>8 DEF AddressInv
<1>11. AddressInv(o, eol)'
  <2> HIDE DEF word, rest
  <2>1. /\ AtFragmentEnd(o)' /\ Begun' < Len(program')
        /\ Cat(number', text') = Cat(word', Cat(<<"\n">>, rest'))
        /\ Len(number') <= Len(word')
    BY <1>7, <1>9, <1>10
  <2> QED BY <2>1 DEF AddressInv, word, rest
<1> QED BY <1>1, <1>2, <1>11 DEF Reading

(* The newline behind it begins a fragment: stoi() gives the address that was *)
(* written, and 16 bits hold it.                                             *)
LEMMA AddressEndStep ==
    ASSUME TypeOK, NEW o \in {"ti", "writer"}, NEW eol \in Eol, Reading(o, eol), ReadAddressEnd
    PROVE  Reading(o, eol)'
<1> DEFINE word == Word(eol, program[Begun + 1])
           rest == Ahead(o, eol, program, Begun + 1, 0)
           new == [address |-> Value(number) % AddressCount, bytes |-> <<>>]
<1>1. /\ mode = "address" /\ Get /\ program' = program
      /\ FragmentsRight(o) /\ AddressInv(o, eol) /\ Char \in {" ", "\n"}
  BY DEF ReadAddressEnd, Get, Reading
<1>2. /\ Begun + 1 \in 1..Len(program) /\ Len(word) \in Nat /\ number \in Seq(Character) /\ text \in Seq(Character)
      /\ \A n \in 1..Len(word) : word[n] \in Range(Digit) \cup {"\r"}
      /\ Value(word) = program[Begun + 1].address /\ ~Throws(word)
      /\ Len(number) \in 0..Len(word) /\ text # <<>>
      /\ Len(number) < Len(word) => Head(text) = word[Len(number) + 1]
      /\ Len(number) = Len(word) => number = word /\ Head(text) = "\n" /\ Tail(text) = rest
  BY <1>1, InAddress
<1>3. Char = Head(text) /\ text' = Tail(text)
  BY <1>1, <1>2 DEF Char, Get
<1>4. number = word /\ text' = rest
  <2>1. Len(number) = Len(word)
    <3>1. SUFFICES ASSUME Len(number) < Len(word) PROVE FALSE
      BY <1>2
    <3>2. Len(number) + 1 \in 1..Len(word)
      BY <1>2, <3>1
    <3>3. Head(text) \in Range(Digit) \cup {"\r"}
      BY <1>2, <3>1, <3>2
    <3>4. Head(text) \notin Range(Digit) /\ Head(text) # "\r"
      BY <1>1, <1>3, Letters
    <3> QED BY <3>3, <3>4
  <2> QED BY <1>2, <1>3, <2>1
<1>5. /\ program \in Seq(Fragment) /\ Len(program) \in Nat /\ fragments \in Seq(Fragment)
      /\ Begun \in 0..Len(program) /\ Begun \in Nat
      /\ program[Begun + 1].address \in 0..(AddressCount - 1) /\ program[Begun + 1].bytes \in Seq(Byte)
  <2>1. /\ program \in Seq(Fragment) /\ Len(program) \in Nat /\ fragments \in Seq(Fragment)
        /\ Begun \in 0..Len(program)
    BY <1>1, Setting
  <2>2. Begun + 1 \in 1..Len(program)
    BY <1>2
  <2>3. program[Begun + 1].address \in 0..(AddressCount - 1) /\ program[Begun + 1].bytes \in Seq(Byte)
    BY <2>1, <2>2, FragmentIs
  <2> QED BY <2>1, <2>3
<1>6. /\ mode' = "part" /\ fragments' = Append(fragments, new)
      /\ new = [address |-> program[Begun + 1].address, bytes |-> <<>>]
  <2>1. ~Throws(number) /\ Value(number) = program[Begun + 1].address
    BY <1>2, <1>4
  <2>2. PICK a \in 0..(AddressCount - 1) : a = program[Begun + 1].address
    BY <1>5
  <2>3. a % AddressCount = a
    BY <2>2, Bounds
  <2> QED BY <2>1, <2>2, <2>3 DEF ReadAddressEnd
<1> HIDE DEF word, rest
<1>7. /\ Len(fragments') = Begun + 1 /\ fragments'[Begun + 1] = new
      /\ \A j \in 1..Begun : fragments'[j] = fragments[j]
  <2>1. <<>> \in Seq(Byte)
    BY EmptySeq
  <2>2. new \in Fragment
    BY <1>5, <1>6, <2>1 DEF Fragment
  <2> HIDE DEF new
  <2> QED BY <1>5, <1>6, <2>2, AppendProperties DEF Begun
<1>8. /\ Begun' = Begun + 1 /\ Begun' # 0 /\ new.address = program[Begun + 1].address
      /\ new.bytes = <<>> /\ Len(new.bytes) = 0
  BY <1>5, <1>6, <1>7 DEF Begun
<1>9. Kept' = 0
  BY <1>7, <1>8 DEF Kept
<1>10. Size(Begun)' = Len(program[Begun + 1].bytes) /\ Len(program[Begun + 1].bytes) \in Nat
  BY <1>1, <1>5, <1>8, LenProperties DEF Size
<1>11. AtFragmentEnd(o)
  BY <1>1 DEF AddressInv
<1>12. FragmentsRight(o)'
  <2>1. ASSUME NEW j \in 1..(Begun + 1)
        PROVE  /\ fragments'[j].address = program[j].address
               /\ Len(fragments'[j].bytes) <= Size(j)
               /\ \A k \in 1..Len(fragments'[j].bytes) :
                     fragments'[j].bytes[k] = Swapped(program[j].bytes, k)
               /\ j < Begun + 1 => Len(fragments'[j].bytes) = Size(j) /\ (o = "writer" => ~Full(j))
    <3>1. CASE j = Begun + 1
      <4>1. \A k \in 1..Len(fragments'[j].bytes) : FALSE
        BY <1>7, <1>8, <3>1
      <4>2. Len(fragments'[j].bytes) <= Size(j)
        BY <1>5, <1>7, <1>8, <1>10, <3>1 DEF Size
      <4>3. ~ (j < Begun + 1)
        BY <1>5, <3>1
      <4> QED BY <1>7, <1>8, <3>1, <4>1, <4>2, <4>3
    <3>2. CASE j \in 1..Begun
      <4>1. fragments'[j] = fragments[j]
        BY <1>7, <3>2
      <4>2. /\ fragments[j].address = program[j].address
            /\ Len(fragments[j].bytes) <= Size(j)
            /\ \A k \in 1..Len(fragments[j].bytes) :
                  fragments[j].bytes[k] = Swapped(program[j].bytes, k)
            /\ j < Begun => Len(fragments[j].bytes) = Size(j) /\ (o = "writer" => ~Full(j))
        BY <1>1, <3>2 DEF FragmentsRight
      <4>3. ASSUME j = Begun
            PROVE  Len(fragments[j].bytes) = Size(j) /\ (o = "writer" => ~Full(j))
        <5>1. Begun # 0 /\ Begun > 0
          BY <1>5, <3>2, <4>3
        <5> QED BY <1>11, <4>3, <5>1 DEF AtFragmentEnd, Kept
      <4>4. j < Begun \/ j = Begun
        BY <1>5, <3>2
      <4> QED BY <4>1, <4>2, <4>3, <4>4
    <3>3. j = Begun + 1 \/ j \in 1..Begun
      BY <1>5
    <3> QED BY <3>1, <3>2, <3>3
  <2>2. \A j : Size(j)' = Size(j) /\ Full(j)' = Full(j)
    BY <1>1 DEF Size, Full
  <2>3. Begun' <= Len(program') /\ Kept' % LineSize = 0
    <3>1. 0 % LineSize = 0
      BY Lines
    <3>2. Begun + 1 <= Len(program)
      <4>1. Begun + 1 \in 1..Len(program)
        BY <1>2
      <4> QED BY <1>5, <4>1
    <3>3. Kept' % LineSize' = 0
      BY <1>9, <3>1
    <3> QED BY <1>1, <1>8, <3>2, <3>3
  <2>4. \A j \in 1..Begun' :
               /\ fragments'[j].address = program'[j].address
               /\ Len(fragments'[j].bytes) <= Size(j)'
               /\ \A k \in 1..Len(fragments'[j].bytes) :
                     fragments'[j].bytes[k] = Swapped(program'[j].bytes, k)
               /\ j < Begun' => Len(fragments'[j].bytes) = Size(j)' /\ (o = "writer" => ~Full(j)')
    BY <1>1, <1>8, <2>1, <2>2
  <2> QED BY <2>3, <2>4 DEF FragmentsRight
<1>13. PartInv(o, eol)'
  <2>1. text' = Ahead(o, eol, program, Begun, Kept)'
    BY <1>1, <1>4, <1>8, <1>9 DEF rest
  <2>2. ASSUME (Kept = Size(Begun))' PROVE AtFragmentEnd(o)'
    <3>1. Len(program[Begun + 1].bytes) = 0
      BY <1>9, <1>10, <2>2
    <3>2. ~Full(Begun)'
      <4>1. Len(program'[Begun'].bytes) = 0
        BY <1>1, <1>8, <3>1
      <4>2. ~ (Len(program'[Begun'].bytes) > 0)
        BY <4>1
      <4> QED BY <4>2 DEF Full
    <3> QED BY <2>2, <3>2 DEF AtFragmentEnd
  <2> QED BY <2>1, <2>2 DEF PartInv
<1> QED BY <1>6, <1>12, <1>13 DEF Reading

-----------------------------------------------------------------------------
(* The next character inside a line.                                         *)

(* The fragment at hand, what is ahead behind its last byte seen, the digits of *)
(* the next byte, what is behind that one, and the next fragment behind its "@". *)
Here == program[Begun].bytes
Behind(o, eol) == Ahead(o, eol, program, Begun, Seen)
Nibble(n) == HexByte(Here[Seen + 1])[n]
AfterNext(o, eol) ==
    Cat(Gap(o, eol, Here, Seen + 1), Ahead(o, eol, program, Begun, Seen + 1))
NextHead(o, eol) ==
    Cat(Word(eol, program[Begun + 1]), Cat(<<"\n">>, Ahead(o, eol, program, Begun + 1, 0)))

(* What may come next inside a line.                                         *)
BlankComes(o, eol, c, more) ==
    /\ c \in {" ", "\r"} /\ number = <<>> /\ Seen > 0
    /\ \E gap \in {<<>>, <<"\n">>} : Fits(o, Here, Seen, gap) /\ more = Cat(gap, Behind(o, eol))
NewlineComes(o, eol, c, more) ==
    /\ c = "\n" /\ Ended(o, Here, Seen) /\ more = Behind(o, eol)
LastNewlineComes(o, c, more) ==
    /\ c = "\n" /\ o = "writer" /\ Seen = Len(Here) /\ more = <<>> /\ Begun = Len(program)
DigitComes(o, eol, c, more) ==
    /\ c = Nibble(1) /\ number = <<>> /\ Seen < Len(Here)
    /\ more = Cat(<<Nibble(2)>>, AfterNext(o, eol))
OtherDigitComes(o, eol, c, more) ==
    /\ c = Nibble(2) /\ number = <<Nibble(1)>> /\ Seen < Len(Here) /\ more = AfterNext(o, eol)
MarkComes(o, eol, c, more) ==
    /\ o = "writer" /\ number = <<>> /\ Seen = Len(Here)
    /\ \/ c = "q" /\ more = <<"\n">> /\ Begun = Len(program)
       \/ c = "@" /\ more = NextHead(o, eol) /\ Full(Begun)
GluedDigitComes(o, c) ==
    o = "writer" /\ number = <<"@">> /\ c \in Range(Digit) /\ Begun \in 1..Len(program) /\ Full(Begun)

(* One of these.                                                             *)
Comes(o, eol, c, more) ==
    \/ BlankComes(o, eol, c, more)
    \/ NewlineComes(o, eol, c, more)
    \/ LastNewlineComes(o, c, more)
    \/ DigitComes(o, eol, c, more) /\ c \in Range(Digit)
    \/ OtherDigitComes(o, eol, c, more) /\ c \in Range(Digit)
    \/ MarkComes(o, eol, c, more)
    \/ GluedDigitComes(o, c)

(* The same of the characters of a file.                                     *)
LEMMA CoupleOf ==
    \A x, y \in Character : \A z \in Seq(Character) : Cat(<<x, y>>, z) = Cat(<<x>>, Cat(<<y>>, z))
<1> SUFFICES ASSUME NEW x \in Character, NEW y \in Character, NEW z \in Seq(Character)
             PROVE  Cat(<<x, y>>, z) = Cat(<<x>>, Cat(<<y>>, z))
  OBVIOUS
<1> QED BY CoupleFirst

(* One of these comes, so that the file never ends inside a line.            *)
LEMMA InLine ==
    ASSUME TypeOK, NEW o \in {"ti", "writer"}, NEW eol \in Eol, o = "writer" => eol = <<"\n">>,
           FragmentsRight(o), LineInv(o, eol)
    PROVE  \E c \in Character : \E more \in Seq(Character) :
               text = Cat(<<c>>, more) /\ Comes(o, eol, c, more)
<1> DEFINE Goal == \E c \in Character : \E more \in Seq(Character) :
                       text = Cat(<<c>>, more) /\ Comes(o, eol, c, more)
<1>1. /\ program \in Seq(Fragment) /\ Len(program) \in Nat /\ Seen \in Nat /\ Kept \in Nat
      /\ Begun \in 1..Len(program) /\ Begun \in 0..Len(program) /\ Begun # 0
      /\ Here \in Seq(Byte) /\ Len(Here) \in Nat /\ Seen <= Len(Here) /\ Seen \in 0..Len(Here)
  <2>1. BytesRight
    BY DEF LineInv
  <2>2. Begun > 0 /\ Seen <= Len(Here)
    BY <2>1 DEF BytesRight, Here
  <2>3. /\ program \in Seq(Fragment) /\ Len(program) \in Nat /\ Seen \in Nat /\ Begun \in 0..Len(program)
        /\ Kept \in 0..Size(Begun) /\ Size(Begun) \in Nat
        /\ Begun \in 1..Len(program) /\ Here \in Seq(Byte)
    BY <2>2, Setting DEF Here
  <2>4. Len(Here) \in Nat
    BY <2>3, LenProperties
  <2> QED BY <2>2, <2>3, <2>4
<1>2. Behind(o, eol) \in Seq(Character)
  BY <1>1, AheadType DEF Behind, Here
<1>3. ASSUME Seen < Len(Here)
      PROVE  /\ Nibble(1) \in Range(Digit) /\ Nibble(2) \in Range(Digit)
             /\ Nibble(1) \in Character /\ Nibble(2) \in Character
             /\ AfterNext(o, eol) \in Seq(Character)
             /\ Cat(<<Nibble(2)>>, AfterNext(o, eol)) \in Seq(Character)
             /\ Behind(o, eol) = Cat(<<Nibble(1)>>, Cat(<<Nibble(2)>>, AfterNext(o, eol)))
  <2>1. Seen \in 0..(Len(program[Begun].bytes) - 1)
    BY <1>1, <1>3 DEF Here
  <2>2. /\ Nibble(1) \in Range(Digit) /\ Nibble(2) \in Range(Digit)
        /\ AfterNext(o, eol) \in Seq(Character)
        /\ Cat(<<Nibble(2)>>, AfterNext(o, eol)) \in Seq(Character)
        /\ Behind(o, eol) = Cat(<<Nibble(1)>>, Cat(<<Nibble(2)>>, AfterNext(o, eol)))
    BY <1>1, <2>1, ByteComes DEF Nibble, AfterNext, Behind, Here
  <2> QED BY <2>2, Letters
<1>4. "\n" \in Character /\ "\r" \in Character /\ " " \in Character /\ "q" \in Character /\ "@" \in Character
  BY Letters
<1>5. Cat(<<"\n">>, Behind(o, eol)) \in Seq(Character)
  BY <1>2, <1>4, HeadTail
<1>6. Cat(<<>>, Behind(o, eol)) = Behind(o, eol)
  BY <1>2, CatEmpty
<1>7. CASE InByte(o, eol)
  <2>1. Seen < Len(Here) /\ number = <<Nibble(1)>> /\ text = Cat(<<Nibble(2)>>, AfterNext(o, eol))
    BY <1>7 DEF InByte, Nibble, AfterNext, Here
  <2>2. OtherDigitComes(o, eol, Nibble(2), AfterNext(o, eol))
    BY <2>1 DEF OtherDigitComes
  <2> QED BY <1>3, <2>1, <2>2 DEF Comes
<1>8. CASE AfterLast(o, eol)
  <2>1. CASE number = <<"q">> /\ text = <<"\n">> /\ Begun = Len(program)
    <3>1. text = Cat(<<"\n">>, <<>>)
      <4>1. <<"\n">> \in Eol
        BY DEF Eol
      <4>2. <<"\n">> \in Seq(Character)
        BY <4>1, Texts
      <4> QED BY <2>1, <4>2, CatEmpty
    <3>2. LastNewlineComes(o, "\n", <<>>)
      BY <1>8, <2>1 DEF LastNewlineComes, AfterLast, Here
    <3>3. <<>> \in Seq(Character)
      BY EmptySeq
    <3> QED BY <1>4, <3>1, <3>2, <3>3 DEF Comes
  <2>2. CASE number = <<"@">> /\ Full(Begun) /\ text = NextHead(o, eol)
    <3> DEFINE word == Word(eol, program[Begun + 1])
               rest == Cat(<<"\n">>, Ahead(o, eol, program, Begun + 1, 0))
    <3>1. Begun + 1 \in 1..Len(program) /\ Begun + 1 \in 0..Len(program) /\ Begun + 1 # 0
      <4>1. Begun < Len(program)
        BY <2>2 DEF Full
      <4> QED BY <1>1, <4>1
    <3>2. word \in Seq(Character) /\ word # <<>> /\ word[1] \in Range(Digit)
      BY <1>1, <3>1, WordIs
    <3>3. rest \in Seq(Character)
      <4>1. program[Begun + 1].bytes \in Seq(Byte)
        BY <1>1, <3>1, FragmentIs
      <4>2. 0 \in 0..Len(program[Begun + 1].bytes)
        BY <4>1, LenProperties
      <4>3. Ahead(o, eol, program, Begun + 1, 0) \in Seq(Character)
        BY <1>1, <3>1, <4>2, AheadType
      <4> QED BY <1>4, <4>3, HeadTail
    <3> HIDE DEF word, rest
    <3>4. text = Cat(word, rest)
      BY <2>2 DEF NextHead, word, rest
    <3>5. PICK c \in Range(Digit) : c = word[1]
      BY <3>2
    <3>6. Tail(word) \in Seq(Character) /\ c \in Character
      BY <3>2, <3>5, HeadTailProperties, Letters
    <3>7. word = Cat(<<c>>, Tail(word))
      <4>1. Len(<<>>) = 0 /\ <<>> \in Seq(Character)
        OBVIOUS
      <4> DEFINE back == Cat(<<c>>, Tail(word))
      <4>2. back \in Seq(Character) /\ back # <<>> /\ Head(back) = c /\ Tail(back) = Tail(word)
        BY <3>6, HeadTail
      <4> HIDE DEF back
      <4>3. word = back
        <5>1. /\ Len(Tail(back)) = Len(back) - 1 /\ Len(Tail(word)) = Len(word) - 1
              /\ Len(back) \in Nat /\ Len(word) \in Nat
              /\ \A n \in 1..Len(Tail(back)) : Tail(back)[n] = back[n + 1]
              /\ \A n \in 1..Len(Tail(word)) : Tail(word)[n] = word[n + 1]
          BY <3>2, <4>2, HeadTailProperties, LenProperties
        <5>2. Len(back) = Len(word)
          <6>1. Len(back) - 1 = Len(word) - 1
            BY <4>2, <5>1
          <6> QED BY <5>1, <6>1
        <5>3. back[1] = word[1]
          BY <3>5, <4>2
        <5>4. ASSUME NEW n \in 1..Len(back) PROVE back[n] = word[n]
          <6>1. CASE n = 1
            BY <5>3, <6>1
          <6>2. CASE n # 1
            <7>1. n - 1 \in 1..Len(Tail(back)) /\ n - 1 \in 1..Len(Tail(word)) /\ (n - 1) + 1 = n
              BY <5>1, <5>2, <6>2
            <7> QED BY <4>2, <5>1, <7>1
          <6> QED BY <6>1, <6>2
        <5> QED BY <3>2, <4>2, <5>2, <5>4, SeqEqual
      <4> QED BY <4>3 DEF back
    <3>8. text = Cat(<<c>>, Cat(Tail(word), rest)) /\ Cat(Tail(word), rest) \in Seq(Character)
      <4> DEFINE one == <<c>>
                 t == Tail(word)
      <4>1. one \in Seq(Character) /\ t \in Seq(Character)
        BY <3>6
      <4> HIDE DEF one, t
      <4>2. Cat(Cat(one, t), rest) = Cat(one, Cat(t, rest)) /\ Cat(t, rest) \in Seq(Character)
        BY <3>3, <4>1, CatAssociative, CatType
      <4> QED BY <3>4, <3>7, <4>2 DEF one, t
    <3>9. GluedDigitComes(o, c)
      BY <1>1, <1>8, <2>2 DEF GluedDigitComes, AfterLast
    <3> QED BY <3>6, <3>8, <3>9 DEF Comes
  <2> QED BY <1>8, <2>1, <2>2 DEF AfterLast, NextHead
<1>9. CASE AfterByte(o, eol)
  <2>1. number = <<>> /\ Seen > 0
    BY <1>9 DEF AfterByte
  <2>2. PICK gap \in Gaps : Fits(o, Here, Seen, gap) /\ text = Cat(gap, Behind(o, eol))
    BY <1>9 DEF AfterByte, Behind, Here
  <2>3. ASSUME Ended(o, Here, Seen) PROVE Fits(o, Here, Seen, <<"\n">>)
    <3>1. <<"\n">> \in Gaps /\ <<"\n">> # <<" ">> /\ <<"\n">> # <<>>
      BY Tuples DEF Gaps, Eol
    <3> QED BY <2>3, <3>1 DEF Fits
  <2>4. CASE gap = <<"\r", "\n">> \/ gap = <<" ", "\n">>
    <3>1. Ended(o, Here, Seen)
      BY <2>2, <2>4 DEF Fits, Eol
    <3>2. PICK c \in {" ", "\r"} : gap = <<c, "\n">>
      BY <2>4
    <3>3. text = Cat(<<c>>, Cat(<<"\n">>, Behind(o, eol))) /\ c \in Character
      <4>1. c \in Character /\ "\n" \in Character
        BY <1>4
      <4> DEFINE behind == Behind(o, eol)
                 lf == "\n"
      <4>2. behind \in Seq(Character)
        BY <1>2
      <4>3. text = Cat(<<c, lf>>, behind)
        BY <2>2, <3>2
      <4> HIDE DEF behind
      <4>5. Cat(<<c, lf>>, behind) = Cat(<<c>>, Cat(<<lf>>, behind))
        <5> HIDE DEF lf
        <5> QED BY <4>1, <4>2, CoupleOf DEF lf
      <4> QED BY <4>1, <4>3, <4>5 DEF behind
    <3>4. BlankComes(o, eol, c, Cat(<<"\n">>, Behind(o, eol)))
      BY <2>1, <2>3, <3>1 DEF BlankComes
    <3> QED BY <1>5, <3>3, <3>4 DEF Comes
  <2>5. CASE gap = <<"\n">>
    <3>1. Ended(o, Here, Seen)
      BY <2>2, <2>5 DEF Fits, Eol
    <3>2. NewlineComes(o, eol, "\n", Behind(o, eol))
      BY <3>1 DEF NewlineComes
    <3> QED BY <1>2, <1>4, <2>2, <2>5, <3>2 DEF Comes
  <2>6. CASE gap = <<" ">>
    <3>1. Seen < Len(Here)
      BY <2>2, <2>6 DEF Fits
    <3>2. Fits(o, Here, Seen, <<>>)
      <4>1. <<>> \in Gaps /\ <<>> # <<" ">> /\ <<>> \notin Eol \cup {<<" ", "\n">>}
        BY Tuples DEF Gaps, Eol
      <4> QED BY <3>1, <4>1 DEF Fits
    <3>3. BlankComes(o, eol, " ", Behind(o, eol))
      BY <1>6, <2>1, <3>2 DEF BlankComes
    <3> QED BY <1>2, <1>4, <2>2, <2>6, <3>3 DEF Comes
  <2>7. CASE gap = <<>>
    <3>1. text = Behind(o, eol)
      BY <1>6, <2>2, <2>7
    <3>2. CASE Seen < Len(Here)
      <4>1. DigitComes(o, eol, Nibble(1), Cat(<<Nibble(2)>>, AfterNext(o, eol)))
        BY <2>1, <3>2 DEF DigitComes
      <4> QED BY <1>3, <3>1, <3>2, <4>1 DEF Comes
    <3>3. CASE ~ (Seen < Len(Here))
      <4>1. o = "writer" /\ Seen = Len(Here) /\ Seen % LineSize = 0 /\ eol = <<"\n">>
        BY <2>2, <2>7, <3>3 DEF Fits
      <4>2. text = FragmentsAhead(o, eol, program, Begun)
        BY <1>1, <3>1, <4>1, AheadType DEF Behind, Here
      <4>3. CASE Begun = Len(program)
        <5>1. text = Cat(<<"q">>, <<"\n">>) /\ <<"\n">> \in Seq(Character)
          BY <1>1, <4>1, <4>2, <4>3, LastFragment, Texts
        <5>2. MarkComes(o, eol, "q", <<"\n">>)
          BY <2>1, <4>1, <4>3 DEF MarkComes
        <5> QED BY <1>4, <5>1, <5>2 DEF Comes
      <4>4. CASE Begun # Len(program)
        <5>1. Begun \in 0..(Len(program) - 1) /\ Begun < Len(program) /\ Begun + 1 \in 1..Len(program)
              /\ Begun + 1 \in 0..Len(program) /\ Begun + 1 # 0
          BY <1>1, <4>4
        <5>2. text = Cat(<<"@">>, NextHead(o, eol))
          BY <1>1, <4>2, <5>1, NextFragment DEF NextHead
        <5>3. NextHead(o, eol) \in Seq(Character)
          <6>1. program[Begun + 1].bytes \in Seq(Byte)
            BY <1>1, <5>1, FragmentIs
          <6>2. 0 \in 0..Len(program[Begun + 1].bytes)
            BY <6>1, LenProperties
          <6>3. Ahead(o, eol, program, Begun + 1, 0) \in Seq(Character)
            BY <1>1, <5>1, <6>2, AheadType
          <6>4. Word(eol, program[Begun + 1]) \in Seq(Character)
            BY <1>1, <5>1, WordIs
          <6>5. Cat(<<"\n">>, Ahead(o, eol, program, Begun + 1, 0)) \in Seq(Character)
            BY <1>4, <6>3, HeadTail
          <6> QED BY <6>4, <6>5, CatType DEF NextHead
        <5>4. Full(Begun)
          BY <1>1, <2>1, <4>1, <5>1 DEF Full, Here
        <5>5. MarkComes(o, eol, "@", NextHead(o, eol))
          BY <2>1, <4>1, <5>4 DEF MarkComes
        <5> QED BY <1>4, <5>2, <5>3, <5>5 DEF Comes
      <4> QED BY <4>3, <4>4
    <3> QED BY <3>2, <3>3
  <2> QED BY <2>4, <2>5, <2>6, <2>7 DEF Gaps, Eol
<1> QED BY <1>7, <1>8, <1>9 DEF LineInv

-----------------------------------------------------------------------------
(* The steps inside a line.                                                  *)

(* Inside a line there is a fragment, and lines before this one are full.    *)
LEMMA InsideLine ==
    ASSUME TypeOK, NEW o \in {"ti", "writer"}, NEW eol \in Eol, Reading(o, eol), mode = "line"
    PROVE  /\ FragmentsRight(o) /\ LineInv(o, eol) /\ BytesRight
           /\ program \in Seq(Fragment) /\ fragments \in Seq(Fragment)
           /\ Begun \in 1..Len(program) /\ Begun \in Nat /\ Begun # 0
           /\ Here \in Seq(Byte) /\ Len(Here) \in Nat /\ Size(Begun) = Len(Here)
           /\ bytes \in Seq(Byte) /\ Len(bytes) \in Nat /\ byte_buffer \in Seq(Byte) /\ Len(byte_buffer) \in {0, 1}
           /\ fragments[Begun].bytes \in Seq(Byte) /\ Kept = Len(fragments[Begun].bytes) /\ Kept \in Nat
           /\ Seen \in Nat /\ Seen <= Len(Here) /\ Seen = (Kept + Len(bytes)) + Len(byte_buffer)
           /\ Kept % LineSize = 0 /\ Kept % 2 = 0 /\ Len(bytes) % 2 = 0
<1>1. FragmentsRight(o) /\ LineInv(o, eol) /\ BytesRight
  BY DEF Reading, LineInv
<1>2. Begun > 0 /\ Kept % LineSize = 0 /\ Len(bytes) % 2 = 0 /\ Seen <= Len(Here)
  BY <1>1 DEF BytesRight, Here
<1>3. /\ program \in Seq(Fragment) /\ Len(program) \in Nat /\ fragments \in Seq(Fragment)
      /\ Begun \in 1..Len(program) /\ Here \in Seq(Byte) /\ Size(Begun) = Len(Here)
      /\ Kept \in 0..Size(Begun) /\ Size(Begun) \in Nat
      /\ Len(bytes) \in Nat /\ Len(byte_buffer) \in {0, 1} /\ Seen \in Nat
  BY <1>1, <1>2, Setting DEF Here
<1>4. Begun \in Nat /\ Begun # 0 /\ Kept \in Nat
  BY <1>3
<1>5. bytes \in Seq(Byte) /\ byte_buffer \in Seq(Byte)
  BY DEF TypeOK
<1>6. Kept = Len(fragments[Begun].bytes) /\ fragments[Begun].bytes \in Seq(Byte)
  <2>1. Begun \in 1..Len(fragments)
    BY <1>3, <1>4 DEF Begun
  <2> QED BY <1>3, <1>4, <2>1, FragmentIs DEF Kept
<1>7. Kept % 2 = 0
  BY <1>2, <1>4, Lines
<1>8. Seen = (Kept + Len(bytes)) + Len(byte_buffer)
  BY DEF Seen
<1> QED BY <1>1, <1>2, <1>3, <1>4, <1>5, <1>6, <1>7, <1>8

(* Without a change of the bytes all that is said of them stays true.        *)
LEMMA SameBytes ==
    ASSUME BytesRight, program' = program, fragments' = fragments, bytes' = bytes, byte_buffer' = byte_buffer
    PROVE  BytesRight' /\ Begun' = Begun /\ Kept' = Kept /\ Seen' = Seen /\ Here' = Here
<1>1. Begun' = Begun
  BY DEF Begun
<1>2. Kept' = Kept
  BY <1>1 DEF Kept
<1>3. Seen' = Seen
  BY <1>2 DEF Seen
<1>4. Here' = Here
  BY <1>1 DEF Here
<1>5. BytesRight'
  BY <1>1, <1>2, <1>3 DEF BytesRight
<1> QED BY <1>1, <1>2, <1>3, <1>4, <1>5

(* A blank, or the carriage return of TI's newline.                          *)
LEMMA BlankStep ==
    ASSUME TypeOK, NEW o \in {"ti", "writer"}, NEW eol \in Eol, o = "writer" => eol = <<"\n">>,
           Reading(o, eol), ReadBlank
    PROVE  Reading(o, eol)'
<1>1. /\ mode = "line" /\ mode' = "line" /\ Get /\ number' = number /\ byte_buffer' = byte_buffer
      /\ bytes' = bytes /\ fragments' = fragments /\ program' = program /\ Char \in {" ", "\r"}
  BY DEF ReadBlank, Get
<1>2. FragmentsRight(o) /\ LineInv(o, eol) /\ BytesRight
  BY <1>1, InsideLine
<1>3. FragmentsRight(o)' /\ BytesRight' /\ Begun' = Begun /\ Seen' = Seen
  BY <1>1, <1>2, Unread, SameBytes
<1>4. PICK c \in Character : \E more \in Seq(Character) : text = Cat(<<c>>, more) /\ Comes(o, eol, c, more)
  BY <1>2, InLine
<1>5. PICK more \in Seq(Character) : text = Cat(<<c>>, more) /\ Comes(o, eol, c, more)
  BY <1>4
<1>6. Char = c /\ text' = more
  BY <1>1, <1>5, Getting
<1>7. BlankComes(o, eol, c, more)
  <2>1. c \in {" ", "\r"} /\ c \notin Range(Digit)
    BY <1>1, <1>6, Letters
  <2> QED BY <1>5, <2>1 DEF Comes, NewlineComes, LastNewlineComes, MarkComes, GluedDigitComes
<1>8. PICK gap \in {<<>>, <<"\n">>} : Fits(o, Here, Seen, gap) /\ more = Cat(gap, Behind(o, eol))
  BY <1>7 DEF BlankComes
<1>9. AfterByte(o, eol)'
  <2>1. number' = <<>> /\ Seen' > 0
    BY <1>1, <1>3, <1>7 DEF BlankComes
  <2>2. gap \in Gaps
    BY <1>8 DEF Fits
  <2>3. Fits(o, program[Begun].bytes, Seen, gap)' /\ text' = Cat(gap, Ahead(o, eol, program, Begun, Seen))'
    BY <1>1, <1>3, <1>6, <1>8 DEF Here, Behind
  <2> QED BY <2>1, <2>2, <2>3 DEF AfterByte
<1> QED BY <1>1, <1>3, <1>9 DEF Reading, LineInv

(* The file never ends here.                                                 *)
LEMMA CutLineStep ==
    ASSUME TypeOK, NEW o \in {"ti", "writer"}, NEW eol \in Eol, o = "writer" => eol = <<"\n">>,
           Reading(o, eol), ReadCutLine
    PROVE  FALSE
<1>1. mode = "line" /\ Get /\ Char = Eof
  BY DEF ReadCutLine
<1>2. FragmentsRight(o) /\ LineInv(o, eol)
  BY <1>1, InsideLine
<1>3. PICK c \in Character : \E more \in Seq(Character) : text = Cat(<<c>>, more)
  BY <1>2, InLine
<1>4. Char = c
  BY <1>1, <1>3, Getting
<1> QED BY <1>1, <1>3, <1>4, Letters

(* The line goes into the fragment.                                          *)
LEMMA KeepLine ==
    ASSUME TypeOK, NEW o \in {"ti", "writer"}, NEW eol \in Eol, Reading(o, eol), ReadNewline,
           Seen = Len(Here) \/ Seen % LineSize = 0
    PROVE  FragmentsRight(o)' /\ Begun' = Begun /\ Kept' = Seen
<1> DEFINE old == fragments[Begun].bytes
           both == old \o bytes
           new == both \o byte_buffer
<1>1. mode = "line" /\ program' = program
  BY DEF ReadNewline, Get
<1>2. /\ FragmentsRight(o) /\ BytesRight
      /\ program \in Seq(Fragment) /\ fragments \in Seq(Fragment)
      /\ Begun \in 1..Len(program) /\ Begun \in Nat /\ Begun # 0
      /\ Here \in Seq(Byte) /\ Len(Here) \in Nat /\ Size(Begun) = Len(Here)
      /\ bytes \in Seq(Byte) /\ Len(bytes) \in Nat /\ byte_buffer \in Seq(Byte) /\ Len(byte_buffer) \in {0, 1}
      /\ old \in Seq(Byte) /\ Kept = Len(old) /\ Kept \in Nat
      /\ Seen \in Nat /\ Seen <= Len(Here) /\ Seen = (Kept + Len(bytes)) + Len(byte_buffer)
      /\ Kept % LineSize = 0 /\ Kept % 2 = 0 /\ Len(bytes) % 2 = 0
  BY <1>1, InsideLine
<1>3. fragments # <<>> /\ Begun = Len(fragments)
  <2>1. Begun = Len(fragments)
    BY DEF Begun
  <2> QED BY <1>2, <2>1, EmptySeq
<1>4. fragments' = [fragments EXCEPT ![Begun].bytes = new]
  BY <1>3 DEF ReadNewline
<1>5. /\ Len(fragments') = Begun /\ fragments'[Begun].address = fragments[Begun].address
      /\ fragments'[Begun].bytes = new
      /\ \A j \in 1..Begun : j # Begun => fragments'[j] = fragments[j]
  <2> HIDE DEF new
  <2>1. DOMAIN fragments = 1..Begun /\ Begun \in 1..Begun
    BY <1>2, <1>3, LenProperties
  <2>2. fragments[Begun] \in Fragment
    BY <1>2, <1>3, <2>1, ElementOfSeq
  <2>3. fragments'[Begun].address = fragments[Begun].address /\ fragments'[Begun].bytes = new
    BY <1>4, <2>1, <2>2 DEF Fragment
  <2>4. \A j \in 1..Begun : j # Begun => fragments'[j] = fragments[j]
    BY <1>4, <2>1
  <2>5. Len(fragments') = Begun
    BY <1>2, <1>3, <1>4, <2>1
  <2> QED BY <2>3, <2>4, <2>5
<1>6. Begun' = Begun
  BY <1>5 DEF Begun
<1>7. /\ Len(both) = Kept + Len(bytes) /\ both \in Seq(Byte)
      /\ \A k \in 1..(Kept + Len(bytes)) : both[k] = IF k <= Kept THEN old[k] ELSE bytes[k - Kept]
  <2> HIDE DEF old
  <2> QED BY <1>2, ConcatProperties
<1> HIDE DEF both
<1>8. /\ Len(new) = Seen
      /\ \A k \in 1..Seen : new[k] = IF k <= Kept + Len(bytes) THEN both[k] ELSE byte_buffer[k - (Kept + Len(bytes))]
  <2>1. both \in Seq(Byte) /\ byte_buffer \in Seq(Byte)
    BY <1>2, <1>7
  <2>2. /\ Len(new) = Len(both) + Len(byte_buffer)
        /\ \A k \in 1..(Len(both) + Len(byte_buffer)) :
              new[k] = IF k <= Len(both) THEN both[k] ELSE byte_buffer[k - Len(both)]
    BY <2>1, ConcatProperties
  <2> HIDE DEF new
  <2>3. Len(both) + Len(byte_buffer) = Seen
    BY <1>2, <1>7
  <2>4. Len(both) = Kept + Len(bytes)
    BY <1>7
  <2> QED BY <2>2, <2>3, <2>4
<1> HIDE DEF new
<1>9. Kept' = Seen
  BY <1>2, <1>5, <1>6, <1>8 DEF Kept
<1>10. ASSUME NEW k \in 1..Seen PROVE new[k] = Swapped(Here, k)
  <2>1. CASE k <= Kept
    <3>1. k \in 1..Kept /\ k <= Kept + Len(bytes) /\ k \in 1..(Kept + Len(bytes))
      BY <1>2, <2>1
    <3>2. new[k] = old[k]
      BY <1>7, <1>8, <2>1, <3>1
    <3>3. Begun \in 1..Begun
      BY <1>2
    <3>4. old[k] = Swapped(program[Begun].bytes, k)
      BY <1>2, <3>1, <3>3 DEF FragmentsRight
    <3> QED BY <3>2, <3>4 DEF Here
  <2>2. CASE Kept < k /\ k <= Kept + Len(bytes)
    <3>1. k - Kept \in 1..Len(bytes) /\ Kept + (k - Kept) = k /\ k \in 1..(Kept + Len(bytes)) /\ ~ (k <= Kept)
      BY <1>2, <2>2
    <3>2. new[k] = bytes[k - Kept]
      BY <1>7, <1>8, <2>2, <3>1
    <3>3. bytes[k - Kept] = Swapped(program[Begun].bytes, Kept + (k - Kept))
      BY <1>2, <3>1 DEF BytesRight
    <3> QED BY <3>1, <3>2, <3>3 DEF Here
  <2>3. CASE k > Kept + Len(bytes)
    <3>1. Len(byte_buffer) = 1 /\ k = Seen /\ k - (Kept + Len(bytes)) = 1 /\ ~ (k <= Kept + Len(bytes))
      <4>1. PICK m \in Nat : m = Kept + Len(bytes)
        BY <1>2
      <4>2. Seen = m + Len(byte_buffer) /\ k > m /\ k \in 1..Seen
        BY <1>2, <2>3, <4>1
      <4>3. Len(byte_buffer) = 1
        BY <1>2, <4>2
      <4>4. k = m + 1 /\ Seen = m + 1
        BY <4>2, <4>3
      <4> QED BY <4>1, <4>3, <4>4
    <3>2. new[k] = byte_buffer[1]
      BY <1>8, <3>1
    <3>3. byte_buffer # <<>>
      BY <1>2, <3>1, EmptySeq
    <3>4. byte_buffer[1] = Here[Seen]
      BY <1>2, <3>3 DEF BytesRight, Here
    <3>5. Seen % 2 = 1
      <4>1. PICK a \in Nat, b \in Nat, n \in Nat : a = Kept /\ b = Len(bytes) /\ n = Seen
        BY <1>2
      <4>2. n = (a + b) + 1 /\ a % 2 = 0 /\ b % 2 = 0
        BY <1>2, <3>1, <4>1
      <4>3. n % 2 = 1
        BY <4>2
      <4> QED BY <4>1, <4>3
    <3>6. Seen = Len(Here)
      <4>1. Seen % LineSize # 0
        <5>1. Seen % LineSize = 0 => Seen % 2 = 0
          BY <1>2, Lines
        <5> QED BY <3>5, <5>1
      <4> QED BY <4>1
    <3>7. Seen % 2 # 0
      BY <3>5
    <3>8. Swapped(Here, k) = Here[k]
      BY <3>1, <3>6, <3>7 DEF Swapped
    <3> QED BY <3>1, <3>2, <3>4, <3>8
  <2>4. k <= Kept \/ (Kept < k /\ k <= Kept + Len(bytes)) \/ k > Kept + Len(bytes)
    BY <1>2
  <2> QED BY <2>1, <2>2, <2>3, <2>4
<1>11. \A j : Size(j)' = Size(j) /\ Full(j)' = Full(j)
  BY <1>1 DEF Size, Full
<1>12. ASSUME NEW j \in 1..Begun
       PROVE  /\ fragments'[j].address = program[j].address
              /\ Len(fragments'[j].bytes) <= Size(j)
              /\ \A k \in 1..Len(fragments'[j].bytes) :
                    fragments'[j].bytes[k] = Swapped(program[j].bytes, k)
              /\ j < Begun => Len(fragments'[j].bytes) = Size(j) /\ (o = "writer" => ~Full(j))
  <2>1. /\ fragments[j].address = program[j].address
        /\ Len(fragments[j].bytes) <= Size(j)
        /\ \A k \in 1..Len(fragments[j].bytes) :
              fragments[j].bytes[k] = Swapped(program[j].bytes, k)
        /\ j < Begun => Len(fragments[j].bytes) = Size(j) /\ (o = "writer" => ~Full(j))
    BY <1>2 DEF FragmentsRight
  <2>2. CASE j = Begun
    <3>1. fragments'[j].bytes = new /\ fragments'[j].address = fragments[j].address
      BY <1>5, <2>2
    <3>2. \A k \in 1..Len(fragments'[j].bytes) : fragments'[j].bytes[k] = Swapped(program[j].bytes, k)
      BY <1>8, <1>10, <2>2, <3>1 DEF Here
    <3>3. Len(fragments'[j].bytes) <= Size(j)
      BY <1>2, <1>8, <2>2, <3>1
    <3>4. ~ (j < Begun)
      BY <1>2, <2>2
    <3> QED BY <2>1, <3>1, <3>2, <3>3, <3>4
  <2>3. CASE j # Begun
    <3>1. fragments'[j] = fragments[j]
      BY <1>5, <2>3
    <3> QED BY <2>1, <3>1
  <2> QED BY <2>2, <2>3
<1>13. Begun' <= Len(program') /\ (Kept' = Size(Begun)' \/ Kept' % LineSize = 0)
  <2>1. Size(Begun)' = Len(Here)
    BY <1>1, <1>2, <1>6 DEF Size
  <2>2. Len(program) \in Nat
    BY <1>2, LenProperties
  <2>3. Begun' <= Len(program')
    BY <1>1, <1>2, <1>6, <2>2
  <2> QED BY <1>9, <2>1, <2>3
<1>14. FragmentsRight(o)'
  <2>1. \A j \in 1..Begun' :
               /\ fragments'[j].address = program'[j].address
               /\ Len(fragments'[j].bytes) <= Size(j)'
               /\ \A k \in 1..Len(fragments'[j].bytes) :
                     fragments'[j].bytes[k] = Swapped(program'[j].bytes, k)
               /\ j < Begun' => Len(fragments'[j].bytes) = Size(j)' /\ (o = "writer" => ~Full(j)')
    BY <1>1, <1>6, <1>11, <1>12
  <2> QED BY <1>13, <2>1 DEF FragmentsRight
<1> QED BY <1>6, <1>9, <1>14

(* A newline: a byte without a partner is the last one of its fragment, so it *)
(* stays where it is.                                                        *)
LEMMA NewlineStep ==
    ASSUME TypeOK, NEW o \in {"ti", "writer"}, NEW eol \in Eol, o = "writer" => eol = <<"\n">>,
           Reading(o, eol), ReadNewline
    PROVE  Reading(o, eol)'
<1>1. mode = "line" /\ mode' = "part" /\ Get /\ program' = program /\ Char = "\n"
  BY DEF ReadNewline, Get
<1>2. /\ FragmentsRight(o) /\ LineInv(o, eol) /\ Size(Begun) = Len(Here) /\ Seen \in Nat
      /\ Len(Here) \in Nat /\ Begun # 0
  BY <1>1, InsideLine
<1>3. PICK c \in Character : \E more \in Seq(Character) : text = Cat(<<c>>, more) /\ Comes(o, eol, c, more)
  BY <1>2, InLine
<1>4. PICK more \in Seq(Character) : text = Cat(<<c>>, more) /\ Comes(o, eol, c, more)
  BY <1>3
<1>5. Char = c /\ text' = more
  BY <1>1, <1>4, Getting
<1>6. NewlineComes(o, eol, c, more) \/ LastNewlineComes(o, c, more)
  <2>1. c = "\n" /\ c \notin Range(Digit)
    BY <1>1, <1>5, Letters
  <2> QED BY <1>4, <2>1 DEF Comes, BlankComes, MarkComes, GluedDigitComes
<1>7. Seen = Len(Here) \/ Seen % LineSize = 0
  BY <1>6 DEF NewlineComes, LastNewlineComes, Ended
<1>8. FragmentsRight(o)' /\ Begun' = Begun /\ Kept' = Seen
  BY <1>7, KeepLine
<1>9. Size(Begun)' = Len(Here) /\ Full(Begun)' = Full(Begun)
  BY <1>1, <1>2, <1>8 DEF Size, Full
<1>10. ASSUME Seen = Len(Here) PROVE o = "writer" => ~Full(Begun)
  <2>1. CASE NewlineComes(o, eol, c, more)
    BY <1>10, <2>1 DEF NewlineComes, Ended, Full, Here
  <2>2. CASE LastNewlineComes(o, c, more)
    <3>1. Begun = Len(program) /\ Len(program) \in Int
      BY <1>2, <2>2, Setting DEF LastNewlineComes
    <3> QED BY <3>1 DEF Full
  <2> QED BY <1>6, <2>1, <2>2
<1>11. (Kept = Size(Begun))' => AtFragmentEnd(o)'
  BY <1>8, <1>9, <1>10 DEF AtFragmentEnd
<1>12. \/ text' = Ahead(o, eol, program, Begun, Kept)'
       \/ text' = <<>> /\ Begun' = Len(program') /\ Kept' = Size(Begun)'
  <2>1. CASE NewlineComes(o, eol, c, more)
    BY <1>1, <1>5, <1>8, <2>1 DEF NewlineComes, Behind
  <2>2. CASE LastNewlineComes(o, c, more)
    BY <1>1, <1>5, <1>8, <1>9, <2>2 DEF LastNewlineComes
  <2> QED BY <1>6, <2>1, <2>2
<1>13. PartInv(o, eol)'
  BY <1>11, <1>12 DEF PartInv
<1> QED BY <1>1, <1>8, <1>13 DEF Reading

(* Two characters, one appended to the other.                                *)
LEMMA Two ==
    ASSUME NEW x, NEW y
    PROVE  Append(<<x>>, y) = <<x, y>> /\ Len(<<x, y>>) = 2
<1> DEFINE C == {x, y}
           one == <<x>>
<1>1. Append(one, y) = <<x, y>>
  <2>1. one \in Seq(C) /\ Len(one) = 1 /\ one[1] = x /\ y \in C
    OBVIOUS
  <2> HIDE DEF one, C
  <2>2. /\ Append(one, y) \in Seq(C) /\ Len(Append(one, y)) = Len(one) + 1
        /\ \A i \in 1..Len(one) : Append(one, y)[i] = one[i]
        /\ Append(one, y)[Len(one) + 1] = y
    BY <2>1, AppendProperties
  <2> DEFINE two == Append(one, y)
  <2> HIDE DEF two
  <2>3. two \in Seq(C) /\ Len(two) = 2 /\ two[1] = x /\ two[2] = y
    <3>1. two \in Seq(C) /\ Len(two) = 2 /\ two[2] = y
      BY <2>1, <2>2 DEF two
    <3>2. 1 \in 1..Len(one)
      BY <2>1
    <3>3. two[1] = x
      BY <2>1, <2>2, <3>2 DEF two
    <3> QED BY <3>1, <3>3
  <2>4. two = <<x, y>>
    BY <2>3
  <2> QED BY <2>4 DEF two
<1>2. Len(<<x, y>>) = 2
  OBVIOUS
<1> QED BY <1>1, <1>2

(* The second digit of a byte.                                               *)
LEMMA PairComes ==
    ASSUME TypeOK, NEW o \in {"ti", "writer"}, NEW eol \in Eol, Reading(o, eol), mode = "line",
           Seen < Len(Here), fragments' = fragments, program' = program,
           PushPair(Append(byte_buffer, Here[Seen + 1]))
    PROVE  BytesRight' /\ Begun' = Begun /\ Seen' = Seen + 1 /\ Here' = Here
<1> DEFINE b == Here[Seen + 1]
<1>1. /\ FragmentsRight(o) /\ BytesRight /\ Begun \in Nat /\ Begun # 0
      /\ Here \in Seq(Byte) /\ Len(Here) \in Nat
      /\ bytes \in Seq(Byte) /\ Len(bytes) \in Nat /\ byte_buffer \in Seq(Byte) /\ Len(byte_buffer) \in {0, 1}
      /\ Kept \in Nat
      /\ Seen \in Nat /\ Seen <= Len(Here) /\ Seen = (Kept + Len(bytes)) + Len(byte_buffer)
      /\ Kept % LineSize = 0 /\ Kept % 2 = 0 /\ Len(bytes) % 2 = 0
  BY InsideLine
<1>2. Begun' = Begun /\ Kept' = Kept
  BY <1>1, Unread
<1>3. Here' = Here
  BY <1>2 DEF Here
<1>4. Seen + 1 \in 1..Len(Here) /\ b \in Byte /\ Seen + 1 <= Len(Here)
  <2>1. Seen + 1 \in 1..Len(Here) /\ Seen + 1 <= Len(Here)
    BY <1>1
  <2> QED BY <1>1, <2>1, ElementOfSeq
<1> HIDE DEF b
<1>5. \A k \in 1..Len(bytes) : bytes[k] = Swapped(Here, Kept + k)
  BY <1>1 DEF BytesRight, Here
<1>6. /\ Begun' > 0 /\ Kept' % LineSize = 0
  BY <1>1, <1>2
<1>7. CASE Len(byte_buffer) = 0
  <2>1. byte_buffer = <<>>
    BY <1>1, <1>7, EmptySeq
  <2>2. Append(byte_buffer, b) = <<b>> /\ Len(<<b>>) = 1 /\ <<b>>[1] = b
    BY <2>1
  <2>3. byte_buffer' = <<b>> /\ bytes' = bytes
    BY <2>2 DEF PushPair, b
  <2>4. Seen' = Seen + 1
    <3>1. Seen' = Kept' + Len(bytes') + Len(byte_buffer')
      BY DEF Seen
    <3>2. Seen' = (Kept + Len(bytes)) + 1
      BY <1>2, <2>2, <2>3, <3>1
    <3> QED BY <1>1, <1>7, <3>2
  <2>5. byte_buffer'[1] = Here'[Seen']
    BY <1>3, <2>2, <2>3, <2>4 DEF b
  <2>6. \A k \in 1..Len(bytes') : bytes'[k] = Swapped(Here', Kept' + k)
    BY <1>2, <1>3, <1>5, <2>3
  <2>7. Len(bytes') % 2 = 0 /\ Seen' <= Len(Here')
    BY <1>1, <1>3, <1>4, <2>3, <2>4
  <2>8. BytesRight'
    BY <1>6, <2>5, <2>6, <2>7 DEF BytesRight, Here
  <2> QED BY <1>2, <1>3, <2>4, <2>8
<1>8. CASE Len(byte_buffer) = 1
  <2> DEFINE a == byte_buffer[1]
             two == <<b, a>>
  <2>1. byte_buffer = <<a>> /\ a \in Byte /\ byte_buffer # <<>>
    <3>1. byte_buffer = <<a>>
      BY <1>1, <1>8
    <3>2. 1 \in 1..Len(byte_buffer)
      BY <1>8
    <3>3. a \in Byte
      BY <1>1, <3>2, ElementOfSeq
    <3>4. byte_buffer # <<>>
      <4>1. Len(<<>>) = 0
        OBVIOUS
      <4> QED BY <1>8, <4>1
    <3> QED BY <3>1, <3>3, <3>4
  <2>2. a = Here[Seen]
    BY <1>1, <2>1 DEF BytesRight, Here
  <2> HIDE DEF a
  <2>3. Append(byte_buffer, b) = <<a, b>> /\ Len(<<a, b>>) = 2
    <3>1. byte_buffer = <<a>>
      BY <2>1
    <3> QED BY <3>1, Two
  <2>4. Reverse(<<a, b>>) = two
    BY DEF Reverse
  <2>5. byte_buffer' = <<>> /\ bytes' = bytes \o two
    BY <2>3, <2>4 DEF PushPair, b
  <2>6. two \in Seq(Byte) /\ Len(two) = 2 /\ two[1] = b /\ two[2] = a
    BY <1>4, <2>1
  <2> HIDE DEF two
  <2>7. /\ Len(bytes') = Len(bytes) + 2
        /\ \A k \in 1..(Len(bytes) + 2) : bytes'[k] = IF k <= Len(bytes) THEN bytes[k] ELSE two[k - Len(bytes)]
    <3>1. bytes \in Seq(Byte) /\ two \in Seq(Byte)
      BY <1>1, <2>6
    <3> DEFINE now == bytes \o two
    <3>2. /\ Len(now) = Len(bytes) + Len(two)
          /\ \A k \in 1..(Len(bytes) + Len(two)) : now[k] = IF k <= Len(bytes) THEN bytes[k] ELSE two[k - Len(bytes)]
      BY <3>1, ConcatProperties
    <3>3. bytes' = now
      BY <2>5
    <3> HIDE DEF now
    <3>4. Len(two) = 2
      BY <2>6
    <3> QED BY <3>2, <3>3, <3>4
  <2>8. Seen' = Seen + 1
    <3>1. Seen' = Kept' + Len(bytes') + Len(byte_buffer') /\ Len(<<>>) = 0
      BY DEF Seen
    <3>2. Seen' = (Kept + (Len(bytes) + 2)) + 0
      BY <1>2, <2>5, <2>7, <3>1
    <3> QED BY <1>1, <1>8, <3>2
  <2>9. PICK x \in Nat, y \in Nat, n \in Nat : x = Kept /\ y = Len(bytes) /\ n = Seen
    BY <1>1
  <2>10. x % 2 = 0 /\ y % 2 = 0 /\ n = (x + y) + 1
    BY <1>1, <1>8, <2>9
  <2>11. n % 2 = 1 /\ (n + 1) % 2 = 0 /\ (y + 2) % 2 = 0
    BY <2>10
  <2>12. Seen % 2 # 0 /\ (Seen + 1) % 2 = 0 /\ (Seen + 1) - 1 = Seen /\ Seen # Len(Here)
    BY <1>1, <2>9, <2>11
  <2>13. Swapped(Here, Seen) = b /\ Swapped(Here, Seen + 1) = a
    <3>1. Swapped(Here, Seen) = b
      BY <2>12 DEF Swapped, b
    <3>2. Swapped(Here, Seen + 1) = Here[(Seen + 1) - 1]
      BY <2>12 DEF Swapped
    <3> QED BY <2>2, <2>12, <3>1, <3>2
  <2>14. ASSUME NEW k \in 1..Len(bytes') PROVE bytes'[k] = Swapped(Here, Kept + k)
    <3>1. CASE k <= y
      <4>1. k \in 1..Len(bytes) /\ k <= Len(bytes) /\ k \in 1..(Len(bytes) + 2)
        BY <2>9, <2>7, <3>1
      <4> QED BY <1>5, <2>7, <4>1
    <3>2. CASE k = y + 1
      <4>1. k - Len(bytes) = 1 /\ ~ (k <= Len(bytes)) /\ k \in 1..(Len(bytes) + 2) /\ Kept + k = Seen
        BY <2>9, <2>10, <3>2
      <4> QED BY <2>6, <2>7, <2>13, <4>1
    <3>3. CASE k = y + 2
      <4>1. k - Len(bytes) = 2 /\ ~ (k <= Len(bytes)) /\ k \in 1..(Len(bytes) + 2) /\ Kept + k = Seen + 1
        BY <2>9, <2>10, <3>3
      <4> QED BY <2>6, <2>7, <2>13, <4>1
    <3>4. k <= y \/ k = y + 1 \/ k = y + 2
      BY <2>7, <2>9
    <3> QED BY <3>1, <3>2, <3>3, <3>4
  <2>15. \A k \in 1..Len(bytes') : bytes'[k] = Swapped(Here', Kept' + k)
    BY <1>2, <1>3, <2>14
  <2>16. Len(bytes') % 2 = 0 /\ Seen' <= Len(Here')
    BY <1>3, <1>4, <2>7, <2>8, <2>9, <2>11
  <2>17. BytesRight'
    BY <1>6, <2>5, <2>15, <2>16 DEF BytesRight, Here
  <2> QED BY <1>2, <1>3, <2>8, <2>17
<1> QED BY <1>1, <1>7, <1>8

(* A digit, or the "q" or "@" that is taken for one; with the digit of the   *)
(* address behind it "@" is no number, and stoi() throws.                    *)
LEMMA NibbleStep ==
    ASSUME TypeOK, NEW o \in {"ti", "writer"}, NEW eol \in Eol, o = "writer" => eol = <<"\n">>,
           Reading(o, eol), ReadNibble
    PROVE  Reading(o, eol)'
<1>1. /\ mode = "line" /\ Get /\ program' = program /\ fragments' = fragments
      /\ Char \notin {" ", "\r", "\n", Eof}
  BY DEF ReadNibble, Get
<1>2. /\ FragmentsRight(o) /\ LineInv(o, eol) /\ BytesRight /\ program \in Seq(Fragment)
      /\ Begun \in 1..Len(program) /\ Here \in Seq(Byte) /\ Len(Here) \in Nat /\ Seen \in Nat
  BY <1>1, InsideLine
<1>3. FragmentsRight(o)' /\ Begun' = Begun /\ \A i : Full(i)' = Full(i)
  BY <1>1, <1>2, Unread
<1>4. PICK c \in Character : \E more \in Seq(Character) : text = Cat(<<c>>, more) /\ Comes(o, eol, c, more)
  BY <1>2, InLine
<1>5. PICK more \in Seq(Character) : text = Cat(<<c>>, more) /\ Comes(o, eol, c, more)
  BY <1>4
<1>6. Char = c /\ text' = more
  BY <1>1, <1>5, Getting
<1> DEFINE both == Append(number, c)
<1>7. \/ Len(both) = 1 /\ number' = both /\ mode' = mode /\ byte_buffer' = byte_buffer /\ bytes' = bytes
      \/ Len(both) = 2 /\ Throws(both) /\ mode' = "failed"
      \/ /\ Len(both) = 2 /\ ~Throws(both) /\ number' = <<>> /\ mode' = mode
         /\ PushPair(Append(byte_buffer, Value(both)))
  BY <1>6 DEF ReadNibble, line
<1>8. ASSUME number = <<>>
      PROVE  /\ number' = <<c>> /\ mode' = "line" /\ BytesRight' /\ Begun' = Begun /\ Seen' = Seen
             /\ Here' = Here
  <2>1. both = <<c>> /\ Len(<<c>>) = 1
    BY <1>8
  <2>2. number' = <<c>> /\ mode' = mode /\ byte_buffer' = byte_buffer /\ bytes' = bytes
    <3> HIDE DEF both
    <3> QED BY <1>7, <2>1
  <2> QED BY <1>1, <1>2, <2>2, SameBytes
<1>9. CASE DigitComes(o, eol, c, more)
  <2>1. /\ number = <<>> /\ Seen < Len(Here) /\ c = Nibble(1) /\ more = Cat(<<Nibble(2)>>, AfterNext(o, eol))
    BY <1>9 DEF DigitComes
  <2>2. InByte(o, eol)'
    <3>1. Seen' < Len(Here') /\ number' = <<Nibble(1)>> /\ text' = Cat(<<Nibble(2)>>, AfterNext(o, eol))
      BY <1>6, <1>8, <2>1
    <3> QED BY <1>1, <1>8, <2>1, <3>1 DEF InByte, Nibble, AfterNext, Here
  <2> QED BY <1>3, <1>8, <2>1, <2>2 DEF Reading, LineInv
<1>10. CASE OtherDigitComes(o, eol, c, more)
  <2>1. number = <<Nibble(1)>> /\ Seen < Len(Here) /\ c = Nibble(2) /\ more = AfterNext(o, eol)
    BY <1>10 DEF OtherDigitComes
  <2>2. Seen + 1 \in 1..Len(Here) /\ Seen + 1 > 0
    BY <1>2, <2>1
  <2>3. Here[Seen + 1] \in Byte
    BY <1>2, <2>2, ElementOfSeq
  <2>4. both = HexByte(Here[Seen + 1]) /\ Len(both) = 2
    <3> DEFINE hex == HexByte(Here[Seen + 1])
    <3>1. hex \in Numeral /\ Len(hex) = 2
      BY <2>3, ByteReadsBack
    <3>2. number = <<hex[1]>> /\ c = hex[2]
      BY <2>1 DEF Nibble
    <3> HIDE DEF hex
    <3>3. hex = <<hex[1], hex[2]>>
      BY <3>1 DEF Numeral
    <3>4. both = <<hex[1], hex[2]>>
      BY <3>2, Two
    <3> QED BY <3>1, <3>3, <3>4 DEF hex
  <2>5. Value(both) = Here[Seen + 1] /\ ~Throws(both)
    BY <2>3, <2>4, ByteReadsBack
  <2>6. number' = <<>> /\ mode' = "line" /\ PushPair(Append(byte_buffer, Here[Seen + 1]))
    <3> HIDE DEF both
    <3>1. Len(both) # 1 /\ Len(both) = 2 /\ ~Throws(both)
      BY <2>4, <2>5
    <3>2. number' = <<>> /\ mode' = mode /\ PushPair(Append(byte_buffer, Value(both)))
      BY <1>7, <3>1
    <3> QED BY <1>1, <2>5, <3>2
  <2>7. BytesRight' /\ Begun' = Begun /\ Seen' = Seen + 1 /\ Here' = Here
    BY <1>1, <2>1, <2>6, PairComes
  <2>8. Fits(o, Here, Seen + 1, Gap(o, eol, Here, Seen + 1))
    BY <1>2, <2>2, GapFits
  <2>9. AfterByte(o, eol)'
    <3> DEFINE gap == Gap(o, eol, Here, Seen + 1)
    <3>1. gap \in Gaps
      BY <2>8 DEF Fits
    <3>2. text' = Cat(gap, Ahead(o, eol, program, Begun, Seen)')
      BY <1>1, <1>6, <2>1, <2>7 DEF AfterNext
    <3>3. Fits(o, Here', Seen', gap)
      BY <2>7, <2>8
    <3> HIDE DEF gap
    <3>4. number' = <<>> /\ Seen' > 0
      BY <2>2, <2>6, <2>7
    <3>5. \E g \in Gaps : /\ Fits(o, program'[Begun'].bytes, Seen', g)
                          /\ text' = Cat(g, Ahead(o, eol, program, Begun, Seen)')
      BY <3>1, <3>2, <3>3 DEF Here
    <3> QED BY <3>4, <3>5 DEF AfterByte
  <2> QED BY <1>3, <2>6, <2>7, <2>9 DEF Reading, LineInv
<1>11. CASE MarkComes(o, eol, c, more)
  <2>1. /\ o = "writer" /\ number = <<>> /\ Seen = Len(Here)
        /\ \/ c = "q" /\ more = <<"\n">> /\ Begun = Len(program)
           \/ c = "@" /\ more = NextHead(o, eol) /\ Full(Begun)
    BY <1>11 DEF MarkComes
  <2>2. AfterLast(o, eol)'
    <3>1. Seen' = Len(program'[Begun'].bytes)
      BY <1>8, <2>1 DEF Here
    <3>2. CASE c = "q" /\ more = <<"\n">> /\ Begun = Len(program)
      BY <1>1, <1>6, <1>8, <2>1, <3>1, <3>2 DEF AfterLast
    <3>3. CASE c = "@" /\ more = NextHead(o, eol) /\ Full(Begun)
      BY <1>1, <1>3, <1>6, <1>8, <2>1, <3>1, <3>3 DEF AfterLast, NextHead
    <3> QED BY <2>1, <3>2, <3>3
  <2> QED BY <1>3, <1>8, <2>1, <2>2 DEF Reading, LineInv
<1>12. CASE GluedDigitComes(o, c)
  <2>1. o = "writer" /\ number = <<"@">> /\ c \in Range(Digit) /\ Full(Begun)
    BY <1>12 DEF GluedDigitComes
  <2>2. both = <<"@", c>>
    BY <2>1, Two
  <2>3. both \in Seq(Character) /\ both # <<>> /\ both[1] = "@" /\ Len(both) = 2
    <3>1. "@" \in Character /\ c \in Character
      BY Letters
    <3> HIDE DEF both
    <3> QED BY <2>2, <3>1
  <2> HIDE DEF both
  <2>4. DigitsOf(both) = <<>>
    <3>1. "@" \notin Range(Digit) /\ "@" \notin Blank
      BY Letters DEF Blank
    <3> QED BY <2>3, <3>1, NoNumber
  <2>5. mode' = "failed"
    BY <1>7, <2>3, <2>4 DEF Throws
  <2>6. \E i \in 1..Len(program') : Full(i)'
    BY <1>1, <1>2, <1>3, <2>1
  <2> QED BY <1>3, <2>1, <2>5, <2>6 DEF Reading
<1>13. c \notin {" ", "\r", "\n"}
  BY <1>1, <1>6
<1> QED BY <1>5, <1>9, <1>10, <1>11, <1>12, <1>13 DEF Comes, BlankComes, NewlineComes, LastNewlineComes

-----------------------------------------------------------------------------
(* The reader's state has its type, whatever a file holds.                   *)

(* The programs, and the other texts.                                        *)
LEMMA Programs == ProgramSet \subseteq Seq(Fragment) /\ Text \subseteq Seq(Character)
BY HexAssumption

(* The texts that are written, from their beginning.                         *)
LEMMA Written ==
    ASSUME NEW p \in Seq(Fragment), NEW eol \in Eol
    PROVE  /\ TiText(p, eol) = Ahead("ti", eol, p, 0, 0) /\ TiText(p, eol) \in Seq(Character)
           /\ WriteStream(p) = Ahead("writer", <<"\n">>, p, 0, 0) /\ WriteStream(p) \in Seq(Character)
<1>1. <<"\n">> \in Eol /\ 0 \in 0..Len(p)
  BY LenProperties DEF Eol
<1>2. TiText(p, eol) = FragmentsAhead("ti", eol, p, 0) /\ WriteStream(p) = FragmentsAhead("writer", <<"\n">>, p, 0)
  BY WholeText
<1>3. /\ FragmentsAhead("ti", eol, p, 0) \in Seq(Character)
      /\ Ahead("ti", eol, p, 0, 0) = FragmentsAhead("ti", eol, p, 0)
  BY <1>1, AheadType
<1>4. /\ FragmentsAhead("writer", <<"\n">>, p, 0) \in Seq(Character)
      /\ Ahead("writer", <<"\n">>, p, 0, 0) = FragmentsAhead("writer", <<"\n">>, p, 0)
  BY <1>1, AheadType
<1> QED BY <1>2, <1>3, <1>4

(* Texts that are written are texts of characters.                           *)
LEMMA TypeInit == Init => TypeOK
<1> SUFFICES ASSUME Init PROVE TypeOK
  OBVIOUS
<1>1. /\ program \in ProgramSet \cup {<<>>} /\ origin \in {"writer", "ti", "other"} /\ text \in Seq(Character)
  <2>1. CASE program \in ProgramSet /\ origin = "writer" /\ text = WriteStream(program)
    <3>1. program \in Seq(Fragment) /\ <<"\n">> \in Eol
      BY <2>1, Programs DEF Eol
    <3>2. WriteStream(program) \in Seq(Character)
      BY <3>1, Written
    <3> QED BY <2>1, <3>2
  <2>2. CASE program \in ProgramSet /\ origin = "ti" /\ \E eol \in Eol : text = TiText(program, eol)
    <3>1. program \in Seq(Fragment)
      BY <2>2, Programs
    <3>2. PICK eol \in Eol : text = TiText(program, eol)
      BY <2>2
    <3>3. TiText(program, eol) \in Seq(Character)
      BY <3>1, Written
    <3> QED BY <2>2, <3>2, <3>3
  <2>3. CASE program = <<>> /\ origin = "other" /\ text \in Text
    BY <2>3, Programs
  <2> QED BY <2>1, <2>2, <2>3 DEF Init, Eol
<1>2. /\ mode = "part" /\ number = <<>> /\ byte_buffer = <<>> /\ bytes = <<>> /\ fragments = <<>>
  BY DEF Init
<1>3. Len(<<>>) = 0 /\ <<>> \in Seq(Byte) /\ <<>> \in Seq(Fragment) /\ <<>> \in Seq(Character)
  <2>1. Len(<<>>) = 0
    OBVIOUS
  <2> QED BY <2>1, EmptySeq
<1>4. Len(byte_buffer) < 2
  BY <1>2, <1>3
<1> QED BY <1>1, <1>2, <1>3, <1>4 DEF TypeOK

(* The next character is one, or the end of the file.                        *)
LEMMA GetType ==
    ASSUME TypeOK, Get
    PROVE  /\ text' \in Seq(Character) /\ program' \in ProgramSet \cup {<<>>}
           /\ origin' \in {"writer", "ti", "other"} /\ Char \in Character \cup {Eof}
<1>1. program' = program /\ origin' = origin /\ text \in Seq(Character)
      /\ program \in ProgramSet \cup {<<>>} /\ origin \in {"writer", "ti", "other"}
  BY DEF Get, TypeOK
<1>2. CASE text = <<>>
  <2>1. text' = <<>> /\ Char = Eof
    BY <1>2 DEF Get, Char
  <2>2. text' \in Seq(Character)
    BY <2>1, EmptySeq
  <2> QED BY <1>1, <2>1, <2>2
<1>3. CASE text # <<>>
  <2>1. text' = Tail(text) /\ Char = Head(text)
    BY <1>3 DEF Get, Char
  <2>2. text' \in Seq(Character) /\ Char \in Character
    BY <1>1, <1>3, <2>1, HeadTailProperties
  <2> QED BY <1>1, <2>2
<1> QED BY <1>2, <1>3

(* A pair goes into the line or waits.                                       *)
LEMMA PairType ==
    ASSUME NEW x \in Byte, TypeOK, PushPair(Append(byte_buffer, x))
    PROVE  Len(byte_buffer') < 2 /\ byte_buffer' \in Seq(Byte) /\ bytes' \in Seq(Byte)
<1>1. /\ Len(byte_buffer) < 2 /\ byte_buffer \in Seq(Byte) /\ bytes \in Seq(Byte) /\ Len(byte_buffer) \in Nat
  BY LenProperties DEF TypeOK
<1> DEFINE pair == Append(byte_buffer, x)
<1>2. pair \in Seq(Byte) /\ Len(pair) = Len(byte_buffer) + 1
  BY <1>1, AppendProperties
<1> HIDE DEF pair
<1>3. Len(pair) \in {1, 2}
  <2>1. PICK n \in Nat : n = Len(byte_buffer)
    BY <1>1
  <2>2. n < 2 /\ Len(pair) = n + 1
    BY <1>1, <1>2, <2>1
  <2> QED BY <2>2
<1>4. CASE Len(pair) = 1
  <2>1. Len(pair) # 2
    BY <1>4
  <2>2. byte_buffer' = pair /\ bytes' = bytes
    BY <2>1 DEF PushPair, pair
  <2> QED BY <1>1, <1>2, <1>4, <2>2
<1>5. CASE Len(pair) = 2
  <2>1. byte_buffer' = <<>> /\ bytes' = bytes \o Reverse(pair)
    BY <1>5 DEF PushPair, pair
  <2>2. pair[1] \in Byte /\ pair[2] \in Byte
    <3>1. 1 \in 1..Len(pair) /\ 2 \in 1..Len(pair)
      BY <1>5
    <3> QED BY <1>2, <3>1, ElementOfSeq
  <2>3. Reverse(pair) = <<pair[2], pair[1]>>
    <3>1. pair = <<pair[1], pair[2]>>
      <4>1. pair \in Seq(Byte)
        BY <1>2
      <4> QED BY <1>5, <4>1
    <3> DEFINE y == pair[1]
               z == pair[2]
    <3> HIDE DEF y, z
    <3>2. Reverse(<<y, z>>) = <<z, y>>
      BY DEF Reverse
    <3> QED BY <3>1, <3>2 DEF y, z
  <2> DEFINE back == <<pair[2], pair[1]>>
  <2>4. back \in Seq(Byte)
    BY <2>2
  <2> HIDE DEF back
  <2>5. bytes' = bytes \o back
    BY <2>1, <2>3 DEF back
  <2>6. bytes \o back \in Seq(Byte)
    BY <1>1, <2>4, ConcatProperties
  <2>7. Len(<<>>) = 0 /\ <<>> \in Seq(Byte)
    <3>1. Len(<<>>) = 0
      OBVIOUS
    <3> QED BY <3>1, EmptySeq
  <2> QED BY <2>1, <2>5, <2>6, <2>7
<1> QED BY <1>3, <1>4, <1>5

(* Every step keeps the types: stoi() gives a byte for two characters at most, *)
(* and an address is cut to 16 bits.                                         *)
LEMMA TypeNext == TypeOK /\ [Next]_vars => TypeOK'
<1> SUFFICES ASSUME TypeOK, [Next]_vars PROVE TypeOK'
  OBVIOUS
<1>1. /\ program \in ProgramSet \cup {<<>>} /\ origin \in {"writer", "ti", "other"}
      /\ text \in Seq(Character) /\ number \in Seq(Character)
      /\ mode \in {"part", "address", "line", "done", "failed"}
      /\ Len(byte_buffer) < 2 /\ byte_buffer \in Seq(Byte) /\ bytes \in Seq(Byte)
      /\ fragments \in Seq(Fragment)
  BY DEF TypeOK
<1>2. Len(<<>>) = 0 /\ <<>> \in Seq(Byte) /\ <<>> \in Seq(Character)
  <2>1. Len(<<>>) = 0
    OBVIOUS
  <2> QED BY <2>1, EmptySeq
<1>3. CASE ReadPart
  <2>1. Get /\ fragments' = fragments
    BY <1>3 DEF ReadPart
  <2>2. /\ text' \in Seq(Character) /\ program' \in ProgramSet \cup {<<>>}
        /\ origin' \in {"writer", "ti", "other"} /\ Char \in Character \cup {Eof}
    BY <2>1, GetType
  <2>3. CASE Char \in {Eof, "q"} /\ mode' = "done" /\ UNCHANGED line
    BY <1>1, <2>1, <2>2, <2>3 DEF TypeOK, line
  <2>4. CASE Char = "@" /\ mode' = "address" /\ number' = <<>> /\ UNCHANGED <<byte_buffer, bytes>>
    BY <1>1, <1>2, <2>1, <2>2, <2>4 DEF TypeOK
  <2>5. CASE /\ Char \notin {Eof, "q", "@"} /\ mode' = "line"
             /\ number' = <<Char>> /\ byte_buffer' = <<>> /\ bytes' = <<>>
    <3>1. PICK c \in Character : c = Char
      BY <2>2, <2>5
    <3>2. <<c>> \in Seq(Character)
      OBVIOUS
    <3>3. number' \in Seq(Character) /\ Len(byte_buffer') < 2
      BY <1>2, <2>5, <3>1, <3>2
    <3> QED BY <1>1, <1>2, <2>1, <2>2, <2>5, <3>3 DEF TypeOK
  <2> QED BY <1>3, <2>3, <2>4, <2>5 DEF ReadPart
<1>4. CASE ReadAddressDigit
  <2>1. /\ Get /\ mode' = mode /\ byte_buffer' = byte_buffer /\ bytes' = bytes /\ fragments' = fragments
    BY <1>4 DEF ReadAddressDigit
  <2>2. /\ text' \in Seq(Character) /\ program' \in ProgramSet \cup {<<>>}
        /\ origin' \in {"writer", "ti", "other"} /\ Char \in Character \cup {Eof}
    BY <2>1, GetType
  <2>3. number' \in Seq(Character)
    <3>1. CASE Char = Eof
      BY <1>1, <1>4, <3>1 DEF ReadAddressDigit
    <3>2. CASE Char # Eof
      <4>1. number' = Append(number, Char) /\ Char \in Character
        BY <1>4, <2>2, <3>2 DEF ReadAddressDigit
      <4> QED BY <1>1, <4>1, AppendProperties
    <3> QED BY <3>1, <3>2
  <2> QED BY <1>1, <2>1, <2>2, <2>3 DEF TypeOK
<1>5. CASE ReadAddressEnd
  <2>1. Get /\ number' = number /\ byte_buffer' = byte_buffer /\ bytes' = bytes
    BY <1>5 DEF ReadAddressEnd, line
  <2>2. /\ text' \in Seq(Character) /\ program' \in ProgramSet \cup {<<>>}
        /\ origin' \in {"writer", "ti", "other"}
    BY <2>1, GetType
  <2>3. mode' \in {"failed", "part"} /\ fragments' \in Seq(Fragment)
    <3> DEFINE new == [address |-> Value(number) % AddressCount, bytes |-> <<>>]
    <3>1. new \in Fragment
      <4>1. DigitsOf(number) \in Numeral
        BY <1>1, DigitsAre
      <4>2. Value(number) \in Nat
        BY <4>1, NumberType DEF Value
      <4>3. PICK v \in Nat, n \in Nat : v = Value(number) /\ n = AddressCount /\ n > 0
        <5>1. AddressCount \in Nat /\ AddressCount > 0
          <6>1. AddressCount \in Nat /\ Base * Base <= AddressCount /\ Base \in Nat /\ Base >= 2
            BY Bounds, Digits
          <6>2. PICK b \in Nat : b = Base /\ b >= 2
            BY <6>1
          <6>3. b * b >= 2
            BY <6>2
          <6> QED BY <6>1, <6>2, <6>3
        <5> QED BY <4>2, <5>1
      <4>4. v % n \in 0..(n - 1)
        BY <4>3
      <4>5. Value(number) % AddressCount \in 0..(AddressCount - 1)
        BY <4>3, <4>4
      <4> QED BY <1>2, <4>5 DEF Fragment
    <3>2. Append(fragments, new) \in Seq(Fragment)
      <4> HIDE DEF new
      <4> QED BY <1>1, <3>1, AppendProperties
    <3> QED BY <1>1, <1>5, <3>2 DEF ReadAddressEnd
  <2> QED BY <1>1, <2>1, <2>2, <2>3 DEF TypeOK
<1>6. CASE ReadBlank
  <2>1. /\ Get /\ mode' = mode /\ number' = number /\ byte_buffer' = byte_buffer /\ bytes' = bytes
        /\ fragments' = fragments
    BY <1>6 DEF ReadBlank
  <2> QED BY <1>1, <2>1, GetType DEF TypeOK
<1>7. CASE ReadNibble
  <2>1. Get /\ fragments' = fragments /\ Char # Eof
    BY <1>7 DEF ReadNibble
  <2>2. /\ text' \in Seq(Character) /\ program' \in ProgramSet \cup {<<>>}
        /\ origin' \in {"writer", "ti", "other"} /\ Char \in Character
    BY <2>1, GetType
  <2> DEFINE both == Append(number, Char)
  <2>3. both \in Seq(Character)
    BY <1>1, <2>2, AppendProperties
  <2>4. \/ number' = both /\ mode' = mode /\ byte_buffer' = byte_buffer /\ bytes' = bytes
        \/ mode' = "failed" /\ number' = number /\ byte_buffer' = byte_buffer /\ bytes' = bytes
        \/ /\ Len(both) = 2 /\ number' = <<>> /\ mode' = mode /\ PushPair(Append(byte_buffer, Value(both)))
    BY <1>7 DEF ReadNibble, line
  <2> HIDE DEF both
  <2>5. CASE number' = both /\ mode' = mode /\ byte_buffer' = byte_buffer /\ bytes' = bytes
    BY <1>1, <2>1, <2>2, <2>3, <2>5 DEF TypeOK
  <2>6. CASE mode' = "failed" /\ number' = number /\ byte_buffer' = byte_buffer /\ bytes' = bytes
    BY <1>1, <2>1, <2>2, <2>6 DEF TypeOK
  <2>7. CASE Len(both) = 2 /\ number' = <<>> /\ mode' = mode /\ PushPair(Append(byte_buffer, Value(both)))
    <3>1. DigitsOf(both) \in Numeral /\ Len(DigitsOf(both)) <= 2
      BY <2>3, <2>7, DigitsAre
    <3>2. Value(both) \in Byte
      BY <3>1, ShortNumber DEF Value
    <3>3. Len(byte_buffer') < 2 /\ byte_buffer' \in Seq(Byte) /\ bytes' \in Seq(Byte)
      BY <2>7, <3>2, PairType
    <3> QED BY <1>1, <1>2, <2>1, <2>2, <2>7, <3>3 DEF TypeOK
  <2> QED BY <2>4, <2>5, <2>6, <2>7
<1>8. CASE ReadNewline
  <2>1. /\ Get /\ mode' = "part" /\ number' = number /\ byte_buffer' = byte_buffer /\ bytes' = bytes
    BY <1>8 DEF ReadNewline, line
  <2>2. fragments' \in Seq(Fragment)
    <3>1. CASE fragments = <<>>
      BY <1>1, <1>8, <3>1 DEF ReadNewline
    <3>2. CASE fragments # <<>>
      <4> DEFINE old == fragments[Len(fragments)].bytes
                 new == old \o bytes \o byte_buffer
      <4>1. Len(fragments) \in 1..Len(fragments)
        BY <1>1, <3>2, EmptySeq, LenProperties
      <4>2. fragments[Len(fragments)] \in Fragment
        BY <1>1, <4>1, ElementOfSeq
      <4>3. old \in Seq(Byte)
        BY <4>2 DEF Fragment
      <4>4. new \in Seq(Byte)
        <5> HIDE DEF old
        <5> QED BY <1>1, <4>3, ConcatProperties
      <4>5. fragments' = [fragments EXCEPT ![Len(fragments)].bytes = new]
        BY <1>8, <3>2 DEF ReadNewline
      <4> HIDE DEF new, old
      <4>6. [fragments[Len(fragments)] EXCEPT !.bytes = new] \in Fragment
        BY <4>2, <4>4 DEF Fragment
      <4>7. fragments' = [fragments EXCEPT ![Len(fragments)] = [fragments[Len(fragments)] EXCEPT !.bytes = new]]
        BY <4>5
      <4> QED BY <1>1, <4>1, <4>6, <4>7, ExceptSeq
    <3> QED BY <3>1, <3>2
  <2> QED BY <1>1, <2>1, <2>2, GetType DEF TypeOK
<1>9. CASE ReadCutLine
  <2>1. /\ Get /\ mode' = "failed" /\ number' = number /\ byte_buffer' = byte_buffer /\ bytes' = bytes
        /\ fragments' = fragments
    BY <1>9 DEF ReadCutLine
  <2> QED BY <1>1, <2>1, GetType DEF TypeOK
<1>10. CASE UNCHANGED vars
  BY <1>1, <1>10 DEF TypeOK, vars
<1> QED BY <1>3, <1>4, <1>5, <1>6, <1>7, <1>8, <1>9, <1>10 DEF Next, Read

-----------------------------------------------------------------------------
(* What was written is read.                                                 *)

(* The invariant at the beginning: nothing was read, everything is ahead.    *)
LEMMA ReadingInit == Init => ReadingInv
<1> SUFFICES ASSUME Init, origin \in {"ti", "writer"}
             PROVE  \E eol \in Eol : (origin = "writer" => eol = <<"\n">>) /\ Reading(origin, eol)
  BY DEF ReadingInv
<1>1. program \in Seq(Fragment)
  BY Programs DEF Init
<1>2. PICK eol \in Eol : (origin = "writer" => eol = <<"\n">>) /\ text = Ahead(origin, eol, program, 0, 0)
  <2>1. <<"\n">> \in Eol
    BY DEF Eol
  <2>2. CASE origin = "writer"
    <3>1. text = WriteStream(program)
      BY <2>2 DEF Init
    <3> QED BY <1>1, <2>1, <2>2, <3>1, Written
  <2>3. CASE origin = "ti"
    <3>1. PICK eol \in Eol : text = TiText(program, eol)
      BY <2>3 DEF Init, Eol
    <3>2. text = Ahead("ti", eol, program, 0, 0)
      BY <1>1, <3>1, Written
    <3> QED BY <2>3, <3>2
  <2> QED BY <2>2, <2>3
<1>3. mode = "part" /\ Begun = 0
  <2>1. Len(<<>>) = 0
    OBVIOUS
  <2> QED BY <2>1 DEF Init, Begun
<1>4. Kept = 0 /\ Size(Begun) = 0
  BY <1>3 DEF Kept, Size
<1>5. FragmentsRight(origin)
  <2>1. Len(program) \in Nat
    BY <1>1, LenProperties
  <2>2. \A j \in 1..Begun : FALSE
    BY <1>3
  <2>3. Begun <= Len(program)
    BY <1>3, <2>1
  <2> QED BY <1>4, <2>2, <2>3 DEF FragmentsRight
<1>6. PartInv(origin, eol)
  BY <1>2, <1>3, <1>4 DEF PartInv, AtFragmentEnd
<1>7. Reading(origin, eol)
  BY <1>3, <1>5, <1>6 DEF Reading
<1> QED BY <1>2, <1>7

(* It does not change where nothing does.                                    *)
LEMMA Same ==
    ASSUME UNCHANGED vars, NEW o, NEW eol, Reading(o, eol)
    PROVE  Reading(o, eol)'
<1>1. /\ program' = program /\ text' = text /\ mode' = mode /\ number' = number
      /\ byte_buffer' = byte_buffer /\ bytes' = bytes /\ fragments' = fragments
  BY DEF vars
<1> QED BY <1>1 DEF Reading, FragmentsRight, PartInv, AddressInv, LineInv, BytesRight, AfterByte, InByte,
                    AfterLast, AtFragmentEnd, Begun, Kept, Seen, Size, Full

(* Every step keeps the invariant.                                           *)
LEMMA ReadingNext == TypeOK /\ ReadingInv /\ [Next]_vars => ReadingInv'
<1> SUFFICES ASSUME TypeOK, ReadingInv, [Next]_vars, origin' \in {"ti", "writer"}
             PROVE  \E eol \in Eol : (origin' = "writer" => eol = <<"\n">>) /\ Reading(origin, eol)'
  BY DEF ReadingInv
<1>1. origin' = origin
  BY DEF Next, Read, ReadPart, ReadAddressDigit, ReadAddressEnd, ReadBlank, ReadNibble, ReadNewline, ReadCutLine,
         Get, vars
<1>2. PICK o \in {"ti", "writer"} : o = origin
  BY <1>1
<1>3. PICK eol \in Eol : (o = "writer" => eol = <<"\n">>) /\ Reading(o, eol)
  BY <1>2 DEF ReadingInv
<1>4. Reading(o, eol)'
  <2>1. CASE ReadPart
    BY <1>3, <2>1, PartStep
  <2>2. CASE ReadAddressDigit
    BY <1>3, <2>2, AddressDigitStep
  <2>3. CASE ReadAddressEnd
    BY <1>3, <2>3, AddressEndStep
  <2>4. CASE ReadBlank
    BY <1>3, <2>4, BlankStep
  <2>5. CASE ReadNibble
    BY <1>3, <2>5, NibbleStep
  <2>6. CASE ReadNewline
    BY <1>3, <2>6, NewlineStep
  <2>7. CASE ReadCutLine
    BY <1>3, <2>7, CutLineStep
  <2>8. CASE UNCHANGED vars
    BY <1>3, <2>8, Same
  <2> QED BY <2>1, <2>2, <2>3, <2>4, <2>5, <2>6, <2>7, <2>8 DEF Next, Read
<1>5. Reading(origin, eol)'
  BY <1>1, <1>2, <1>4
<1> QED BY <1>1, <1>2, <1>3, <1>5

-----------------------------------------------------------------------------
(* The theorems.                                                             *)

(* Whatever a file holds, read_stream() keeps bytes, addresses of 16 bits, and *)
(* no pair that is complete but not in its line.                             *)
THEOREM TypeCorrect == Spec => []TypeOK
<1> QED BY TypeInit, TypeNext, PTL DEF Spec

(* The invariant holds.                                                      *)
LEMMA ReadingAlways == Spec => []ReadingInv
<1> QED BY TypeInit, TypeNext, ReadingInit, ReadingNext, PTL DEF Spec

(* For a file of TI's tools the invariant says what the property says.       *)
LEMMA TiFollows == ReadingInv /\ TypeOK => TiWordsAreRead
<1> SUFFICES ASSUME ReadingInv, TypeOK, origin = "ti" PROVE TiWordsAreRead
  BY DEF TiWordsAreRead
<1>1. PICK eol \in Eol : Reading("ti", eol)
  BY DEF ReadingInv
<1>2. mode # "failed"
  BY <1>1 DEF Reading
<1>3. ASSUME mode = "done"
      PROVE  /\ Len(fragments) = Len(program)
             /\ \A i \in DOMAIN program :
                LET ti == program[i].bytes
                    in == fragments[i].bytes
                IN  /\ fragments[i].address = program[i].address
                    /\ Len(in) = Len(ti)
                    /\ \A k \in 1..(Len(ti) - 1) :
                        k % 2 = 1 => in[k] = ti[k + 1] /\ in[k + 1] = ti[k]
  <2>1. FragmentsRight("ti") /\ Begun = Len(program) /\ Kept = Size(Begun)
    BY <1>1, <1>3 DEF Reading
  <2>2. Len(fragments) = Len(program) /\ program \in Seq(Fragment) /\ Len(program) \in Nat
    BY <2>1, Setting DEF Begun
  <2>3. ASSUME NEW i \in DOMAIN program
        PROVE  LET ti == program[i].bytes
                   in == fragments[i].bytes
               IN  /\ fragments[i].address = program[i].address
                   /\ Len(in) = Len(ti)
                   /\ \A k \in 1..(Len(ti) - 1) :
                       k % 2 = 1 => in[k] = ti[k + 1] /\ in[k + 1] = ti[k]
    <3> DEFINE ti == program[i].bytes
               in == fragments[i].bytes
    <3>1. i \in 1..Len(program) /\ i \in 1..Begun /\ i # 0
      BY <2>1, <2>2, LenProperties
    <3>2. ti \in Seq(Byte) /\ Len(ti) \in Nat
      BY <2>2, <3>1, FragmentIs, LenProperties
    <3>3. fragments[i].address = program[i].address /\ \A k \in 1..Len(in) : in[k] = Swapped(ti, k)
      BY <2>1, <3>1 DEF FragmentsRight
    <3>4. Len(in) = Len(ti)
      <4>1. Size(i) = Len(ti)
        BY <3>1 DEF Size
      <4>2. CASE i = Begun
        BY <2>1, <3>1, <4>1, <4>2 DEF Kept
      <4>3. CASE i # Begun
        <5>1. i < Begun
          BY <2>1, <2>2, <3>1, <4>3
        <5> QED BY <2>1, <3>1, <4>1, <5>1 DEF FragmentsRight
      <4> QED BY <4>2, <4>3
    <3> HIDE DEF ti, in
    <3>5. ASSUME NEW k \in 1..(Len(ti) - 1), k % 2 = 1 PROVE in[k] = ti[k + 1] /\ in[k + 1] = ti[k]
      <4>1. k \in 1..Len(in) /\ k + 1 \in 1..Len(in) /\ k # Len(ti) /\ (k + 1) - 1 = k /\ k \in Nat
        BY <3>2, <3>4
      <4>2. k % 2 # 0 /\ (k + 1) % 2 = 0
        BY <3>5, <4>1
      <4>3. Swapped(ti, k) = ti[k + 1]
        BY <4>1, <4>2 DEF Swapped
      <4>4. Swapped(ti, k + 1) = ti[k]
        BY <4>1, <4>2 DEF Swapped
      <4> QED BY <3>3, <4>1, <4>3, <4>4
    <3> QED BY <3>3, <3>4, <3>5 DEF ti, in
  <2> QED BY <2>2, <2>3
<1> QED BY <1>2, <1>3 DEF TiWordsAreRead

(* For a file of write_stream()'s too.                                       *)
LEMMA WrittenFollows == ReadingInv /\ TypeOK => WrittenReadsUnlessGlued
<1> SUFFICES ASSUME ReadingInv, TypeOK, origin = "writer" PROVE WrittenReadsUnlessGlued
  BY DEF WrittenReadsUnlessGlued
<1>1. PICK eol \in Eol : Reading("writer", eol)
  BY DEF ReadingInv
<1>2. /\ FragmentsRight("writer") /\ program \in Seq(Fragment) /\ Len(program) \in Nat
      /\ Begun \in 0..Len(program)
  <2>1. FragmentsRight("writer")
    BY <1>1 DEF Reading
  <2> QED BY <2>1, Setting
<1>3. Glued(program) <=> \E i \in 1..Len(program) : Full(i)
  <2>1. \A i \in 1..Len(program) : i < Len(program) <=> i \in 1..(Len(program) - 1)
    BY <1>2
  <2>2. 1..(Len(program) - 1) \subseteq 1..Len(program)
    BY <1>2
  <2> QED BY <2>1, <2>2 DEF Glued, Full
<1>4. mode = "failed" => Glued(program)
  BY <1>1, <1>3 DEF Reading
<1>5. ASSUME mode = "done"
      PROVE  /\ ~Glued(program) /\ Len(fragments) = Len(program)
             /\ \A i \in DOMAIN program :
                /\ fragments[i].address = program[i].address
                /\ Len(fragments[i].bytes) = Len(program[i].bytes)
                /\ \A k \in DOMAIN program[i].bytes :
                    fragments[i].bytes[k] =
                        IF k % 2 = 0 THEN program[i].bytes[k - 1]
                        ELSE IF k = Len(program[i].bytes) THEN program[i].bytes[k]
                        ELSE program[i].bytes[k + 1]
  <2>1. Begun = Len(program) /\ Kept = Size(Begun) /\ Len(fragments) = Len(program)
    BY <1>1, <1>5 DEF Reading, Begun
  <2>2. ~Glued(program)
    <3>1. SUFFICES ASSUME NEW i \in 1..Len(program), Full(i) PROVE FALSE
      BY <1>3
    <3>2. i < Begun /\ i \in 1..Begun
      BY <2>1, <3>1 DEF Full
    <3> QED BY <1>2, <3>1, <3>2 DEF FragmentsRight
  <2>3. ASSUME NEW i \in DOMAIN program
        PROVE  /\ fragments[i].address = program[i].address
               /\ Len(fragments[i].bytes) = Len(program[i].bytes)
               /\ \A k \in DOMAIN program[i].bytes :
                    fragments[i].bytes[k] = Swapped(program[i].bytes, k)
    <3>1. i \in 1..Len(program) /\ i \in 1..Begun /\ i # 0
      BY <1>2, <2>1, LenProperties
    <3>2. program[i].bytes \in Seq(Byte)
      BY <1>2, <3>1, FragmentIs
    <3>3. /\ fragments[i].address = program[i].address
          /\ \A k \in 1..Len(fragments[i].bytes) : fragments[i].bytes[k] = Swapped(program[i].bytes, k)
      BY <1>2, <3>1 DEF FragmentsRight
    <3>4. Len(fragments[i].bytes) = Len(program[i].bytes)
      <4>1. Size(i) = Len(program[i].bytes)
        BY <3>1 DEF Size
      <4>2. CASE i = Begun
        BY <2>1, <3>1, <4>1, <4>2 DEF Kept
      <4>3. CASE i # Begun
        <5>1. i < Begun
          BY <1>2, <2>1, <3>1, <4>3
        <5> QED BY <1>2, <3>1, <4>1, <5>1 DEF FragmentsRight
      <4> QED BY <4>2, <4>3
    <3>5. DOMAIN program[i].bytes = 1..Len(program[i].bytes)
      BY <3>2, LenProperties
    <3> QED BY <3>3, <3>4, <3>5
  <2> QED BY <2>1, <2>2, <2>3 DEF Swapped
<1> QED BY <1>4, <1>5 DEF WrittenReadsUnlessGlued

(* Every program as TI's tools write it, with either newline, is read whole by *)
(* read_stream(), address by address, and each little-endian word with its   *)
(* bytes exchanged.                                                          *)
THEOREM TiWordsAreReadHolds == Spec => []TiWordsAreRead
<1> QED BY TypeCorrect, ReadingAlways, TiFollows, PTL

(* So is every program that write_stream() wrote, unless a full last line runs *)
(* into the next "@": then, and for no other reason, the read fails.         *)
THEOREM WrittenReadsHolds == Spec => []WrittenReadsUnlessGlued
<1> QED BY TypeCorrect, ReadingAlways, WrittenFollows, PTL
=============================================================================
