--------------------------- MODULE FilePaneProofs ---------------------------
(***************************************************************************)
(* The file pane and the loader for every disk, every memory and every     *)
(* program: the drawn listing lives, a load is whole, refused or listed.   *)
(***************************************************************************)
EXTENDS FilePane, TLAPS

-----------------------------------------------------------------------------
(* The explorer.                                                             *)

(* Until something is clicked the pane draws the newest listing, so the one  *)
(* that a click drops is not it; and one click is all there is in a frame.   *)
ListInv ==
    /\ pane = "frame" => drawn = 0 /\ ~clicked
    /\ pane = "list" => drawn \in 1..Len(state) /\ (~clicked => drawn = Len(state))
    /\ pane = "load" => drawn \in 1..Len(state) /\ clicked
ExplorerInv == ExplorerTypeOK /\ ListInv

LEMMA ListingTyped ==
    ASSUME NEW p \in Path, NEW fs \in Listing(p)
    PROVE  fs \in SUBSET Path
BY ExplorerAssumption DEF Listing, Back, Children

LEMMA ExplorerInitial == ExplorerInit => ExplorerInv
<1> SUFFICES ASSUME ExplorerInit PROVE ExplorerInv
  OBVIOUS
<1>1. PICK fs \in Listing(WorkingPath) : state = <<[current |-> WorkingPath, files |-> fs]>>
  BY DEF ExplorerInit
<1>2. WorkingPath \in Path /\ fs \in SUBSET Path
  BY ListingTyped, ExplorerAssumption
<1>3. [current |-> WorkingPath, files |-> fs] \in [current : Path, files : SUBSET Path]
  BY <1>2
<1>4. state \in Seq([current : Path, files : SUBSET Path]) /\ Len(state) = 1
  BY <1>1, <1>3
<1>5. pane = "frame" /\ drawn = 0 /\ clicked = FALSE
  BY DEF ExplorerInit
<1>6. Len(state) \in 1..2 /\ drawn \in 0..Len(state)
  BY <1>4, <1>5
<1> QED  BY <1>4, <1>5, <1>6, Zenon DEF ExplorerInv, ExplorerTypeOK, ListInv

LEMMA Queue ==
    ASSUME NEW S, NEW s \in Seq(S), Len(s) \in 1..2, NEW x \in S, NEW d \in 0..Len(s),
           NEW t, NEW e,
           \/ /\ Len(Append(s, x)) > 2 /\ t = Tail(Append(s, x))
              /\ e = IF d > 0 THEN d - 1 ELSE 0
           \/ Len(Append(s, x)) <= 2 /\ t = Append(s, x) /\ e = d
    PROVE  /\ t \in Seq(S) /\ Len(t) \in 1..2 /\ e \in 0..Len(t)
           /\ d = 0 => e = 0
           /\ d = Len(s) => e \in 1..Len(t)
<1>1. Append(s, x) \in Seq(S) /\ Len(Append(s, x)) = Len(s) + 1
  OBVIOUS
<1>2. ASSUME NEW u \in Seq(S), Len(u) = 3
      PROVE  Tail(u) \in Seq(S) /\ Len(Tail(u)) = 2
  BY <1>2
<1>3. CASE Len(s) = 2
  <2>1. t = Tail(Append(s, x)) /\ e = IF d > 0 THEN d - 1 ELSE 0
    BY <1>1, <1>3
  <2>2. t \in Seq(S) /\ Len(t) = 2
    BY <1>1, <1>2, <1>3, <2>1
  <2> QED  BY <1>3, <2>1, <2>2
<1>4. CASE Len(s) = 1
  <2>1. t = Append(s, x) /\ e = d
    BY <1>1, <1>4
  <2> QED  BY <1>1, <1>4, <2>1
<1> QED  BY <1>3, <1>4

(* Pushing a listing keeps one or two, and the drawn one is there unless it  *)
(* was the older of two.                                                     *)
LEMMA Pushing ==
    ASSUME ExplorerTypeOK, NEW p \in Path, SetCurrent(p)
    PROVE  /\ state' \in Seq([current : Path, files : SUBSET Path])
           /\ Len(state') \in 1..2 /\ drawn' \in 0..Len(state')
           /\ drawn = 0 => drawn' = 0
           /\ drawn = Len(state) => drawn' \in 1..Len(state')
<1> DEFINE S == [current : Path, files : SUBSET Path]
<1>1. PICK fs \in Listing(p) :
        LET pushed == Append(state, [current |-> p, files |-> fs])
        IN  \/ /\ Len(pushed) > 2 /\ state' = Tail(pushed)
               /\ drawn' = IF drawn > 0 THEN drawn - 1 ELSE 0
            \/ Len(pushed) <= 2 /\ state' = pushed /\ UNCHANGED drawn
  BY DEF SetCurrent
<1>2. [current |-> p, files |-> fs] \in S
  BY ListingTyped
<1>3. PICK listing \in S :
        \/ /\ Len(Append(state, listing)) > 2 /\ state' = Tail(Append(state, listing))
           /\ drawn' = IF drawn > 0 THEN drawn - 1 ELSE 0
        \/ Len(Append(state, listing)) <= 2 /\ state' = Append(state, listing) /\ drawn' = drawn
  BY <1>1, <1>2
<1>4. state \in Seq(S) /\ Len(state) \in 1..2 /\ drawn \in 0..Len(state)
  BY DEF ExplorerTypeOK
<1> HIDE DEF S
<1>5. /\ state' \in Seq(S) /\ Len(state') \in 1..2 /\ drawn' \in 0..Len(state')
      /\ drawn = 0 => drawn' = 0
      /\ drawn = Len(state) => drawn' \in 1..Len(state')
  BY <1>3, <1>4, Queue
<1> QED  BY <1>5 DEF S

LEMMA ExplorerStep ==
    ASSUME ExplorerInv, [Next]_vars
    PROVE  ExplorerInv'
<1> USE DEF ExplorerInv
<1>1. ASSUME NEW p \in Path, TypePath(p) PROVE ExplorerInv'
  <2>1. CASE Unreadable
    BY <2>1 DEF Unreadable, ExplorerTypeOK, ListInv
  <2>2. CASE SetCurrent(p) /\ UNCHANGED <<pane, clicked>>
    BY <1>1, <2>2, Pushing DEF TypePath, ExplorerTypeOK, ListInv
  <2> QED  BY <1>1, <2>1, <2>2 DEF TypePath
<1>2. ASSUME NEW p \in Path, ClickDirectory(p) PROVE ExplorerInv'
  <2>1. CASE Unreadable
    BY <2>1 DEF Unreadable, ExplorerTypeOK, ListInv
  <2>2. CASE SetCurrent(p) /\ clicked' = TRUE /\ UNCHANGED pane
    <3>1. pane = "list" /\ drawn = Len(state)
      BY <1>2 DEF ClickDirectory, Clickable, ListInv
    <3> QED  BY <2>2, <3>1, Pushing DEF ExplorerTypeOK, ListInv
  <2> QED  BY <1>2, <2>1, <2>2 DEF ClickDirectory
<1>3. ASSUME NEW p \in Path, ClickFile(p) PROVE ExplorerInv'
  BY <1>3 DEF ClickFile, Clickable, ExplorerTypeOK, ListInv
<1>4. CASE BeginList
  BY <1>4 DEF BeginList, ExplorerTypeOK, ListInv
<1>5. CASE EndList
  <2>1. 0 \in 0..Len(state)
    BY DEF ExplorerTypeOK
  <2> QED  BY <1>5, <2>1, Zenon DEF EndList, ExplorerTypeOK, ListInv
<1>6. CASE SelectEnd
  BY <1>6 DEF SelectEnd, ExplorerTypeOK, ListInv
<1>7. CASE UNCHANGED explorer
  BY <1>7 DEF explorer, ExplorerTypeOK, ListInv
<1> QED  BY <1>1, <1>2, <1>3, <1>4, <1>5, <1>6, <1>7
         DEF Next, Gui, Browse, Select, SelectStep, CpuStep, Ended, vars

-----------------------------------------------------------------------------
(* The loader.                                                               *)

(* What the decompiler has copied of it: the cells below bound.              *)
ShowsBelow(cells, bound, cpus) ==
    LET w == Writes(program)
    IN  \A k \in DOMAIN w :
            /\ w[k][1] \in Address \ cpus
            /\ \A later \in (k + 1)..Len(w) : w[later][1] /= w[k][1]
            /\ w[k][1] < bound
            => cells[w[k][1]] = w[k][2]

(* Outside a load there is no program and nothing to remember of it; while   *)
(* bytes are written those before index are in memory and none of them was   *)
(* refused; while the memory is copied, and after, the whole program is in   *)
(* it, and the copy is what memory holds but for the cells written since.    *)
IdleInv ==
    loader \in {"none", "read", "bytes"} =>
        (loader /= "bytes" => index = 0 /\ touched = {}) /\ outdated = {}
BytesInv ==
    loader = "bytes" =>
        /\ index \in 0..Len(Writes(program))
        /\ \A k \in 1..index : Writes(program)[k][1] \notin WordOnly
        /\ ShowsFirst(memory, index, touched)
CopyInv ==
    loader = "copy" =>
        /\ index \in 0..(Top + 1) /\ image \in [0..(index - 1) -> Value]
        /\ ~HasRefused(program)
        /\ Shows(memory, touched \cup outdated) /\ ShowsBelow(image, index, touched)
        /\ outdated \subseteq 0..(index - 1)
        /\ \A a \in 0..(index - 1) : a \notin outdated => image[a] = memory[a]
DoneInv ==
    loader = "done" => Shows(memory, touched \cup outdated)

(* From Entry on the CPU takes the operands of one instruction, two at most, *)
(* counting the one it has read pc for.                                      *)
Past(taken) == (Entry + 2 * taken) % (Top + 1)
StartInv ==
    /\ start /= "none" => loader \in {"copy", "done"}
    /\ start = "next" => cpu = "between" /\ pc = Entry
    /\ start = "stale" => cpu = "latched"
    /\ start = "within" =>
            IF cpu = "latched"
              THEN latch = pc /\ \E taken \in 0..(1 - words) : pc = Past(taken)
              ELSE \E taken \in 0..(2 - words) : pc = Past(taken)
LoaderInv == /\ LoaderTypeOK /\ IdleInv /\ BytesInv /\ CopyInv /\ DoneInv
             /\ StartInv /\ LoadIsListed

(* The loader is only at work while the pane waits for it.                   *)
PaneInv == pane /= "load" => loader = "none"

IInv == ExplorerInv /\ LoaderInv /\ PaneInv

(* Remainders.                                                               *)
LEMMA Division ==
    ASSUME NEW m \in Nat \ {0}, NEW x \in Nat
    PROVE  x = m * (x \div m) + (x % m) /\ x \div m \in Int /\ x % m \in 0..(m - 1)
OBVIOUS

LEMMA Remainder ==
    ASSUME NEW m \in Nat \ {0}, NEW q \in Int, NEW x \in 0..(m - 1)
    PROVE  (m * q + x) % m = x
OBVIOUS

LEMMA Distributed ==
    ASSUME NEW m \in Int, NEW p \in Int, NEW q \in Int
    PROVE  m * p + m * q = m * (p + q)
OBVIOUS

LEMMA AddAgain ==
    ASSUME NEW m \in Nat \ {0}, NEW x \in Nat, NEW y \in Nat
    PROVE  ((x % m) + y) % m = (x + y) % m
<1> DEFINE r == (x % m) + y
           p == x \div m
           q == r \div m
           s == r % m
<1>1. x = m * p + (x % m) /\ p \in Int /\ x % m \in 0..(m - 1)
  BY Division
<1>2. r \in Nat
  BY <1>1
<1>3. r = m * q + s /\ q \in Int /\ s \in 0..(m - 1)
  <2> HIDE DEF r
  <2> QED  BY <1>2, Division
<1>4. x + y = m * p + r
  BY <1>1
<1> HIDE DEF r, p, q, s
<1>5. x + y = m * (p + q) + s
  <2>1. m * p \in Int /\ m * q \in Int
    BY <1>1, <1>3
  <2>2. x + y = m * p + m * q + s
    BY <1>3, <1>4, <2>1
  <2> QED  BY <2>2, <1>1, <1>3, Distributed
<1>6. p + q \in Int
  BY <1>1, <1>3
<1>7. (x + y) % m = s
  BY <1>3, <1>5, <1>6, Remainder
<1> QED  BY <1>7 DEF r, s

(* One operand more.                                                         *)
LEMMA PastOneMore ==
    ASSUME NEW taken \in Nat
    PROVE  (Past(taken) + 2) % (Top + 1) = Past(taken + 1)
<1>1. Top + 1 \in Nat \ {0} /\ Entry + 2 * taken \in Nat
  BY LoaderAssumption DEF Address
<1>2. (Past(taken) + 2) % (Top + 1) = (Entry + 2 * taken + 2) % (Top + 1)
  BY <1>1, AddAgain DEF Past
<1>3. Entry + 2 * taken + 2 = Entry + 2 * (taken + 1)
  BY <1>1, LoaderAssumption DEF Address
<1> QED  BY <1>2, <1>3 DEF Past

LEMMA EntryIsPastNothing == Past(0) = Entry
<1>1. Entry \in 0..Top /\ Top \in Nat
  BY LoaderAssumption DEF Address
<1>2. Entry + 2 * 0 = (Top + 1) * 0 + Entry
  BY <1>1
<1> QED  BY <1>1, <1>2, Remainder DEF Past

LEMMA WritesTyped ==
    ASSUME LoaderTypeOK
    PROVE  /\ Writes(program) \in Seq(Nat \X Value)
           /\ Len(Writes(program)) \in Nat
           /\ DOMAIN Writes(program) = 1..Len(Writes(program))
           /\ \A k \in 1..Len(Writes(program)) : /\ Writes(program)[k][1] \in Nat
                                                 /\ Writes(program)[k][2] \in Value
<1>1. Writes(program) \in Seq(Nat \X Value)
  BY LoaderAssumption DEF LoaderTypeOK
<1> DEFINE w == Writes(program)
<1>2. ASSUME NEW v \in Seq(Nat \X Value)
      PROVE  /\ Len(v) \in Nat /\ DOMAIN v = 1..Len(v)
             /\ \A k \in 1..Len(v) : v[k][1] \in Nat /\ v[k][2] \in Value
  OBVIOUS
<1> QED  BY <1>1, <1>2

(* What is shown but for fewer cells is shown but for more.                  *)
LEMMA ShowsMore ==
    ASSUME NEW cells, NEW few, NEW more, few \subseteq more
    PROVE  Shows(cells, few) => Shows(cells, more)
BY DEF Shows, ShowsFirst

(* A write of the CPU spoils no cell of the program but its own.             *)
LEMMA CpuWriteShows ==
    ASSUME LoaderTypeOK, NEW a \in Address, NEW v, NEW n \in Nat, NEW few, NEW more,
           memory' = [memory EXCEPT ![a] = v], few \subseteq more,
           \/ a \in more
           \/ a \notin {Writes(program)[k][1] : k \in 1..n},
           ShowsFirst(memory, n, few)
    PROVE  ShowsFirst(memory', n, more)
<1> DEFINE w == Writes(program)
<1>1. ASSUME NEW k \in 1..n, w[k][1] \in Address \ more,
             \A later \in (k + 1)..n : w[later][1] /= w[k][1]
      PROVE  memory'[w[k][1]] = w[k][2]
  <2>1. memory[w[k][1]] = w[k][2]
    BY <1>1 DEF ShowsFirst
  <2>2. w[k][1] /= a
    BY <1>1
  <2> QED  BY <1>1, <2>1, <2>2 DEF LoaderTypeOK
<1> QED  BY <1>1 DEF ShowsFirst

(* The byte that is written is the last one at its address so far.           *)
LEMMA LoadByteShows ==
    ASSUME LoaderTypeOK, BytesInv, LoadByte, index' = index + 1
    PROVE  /\ ShowsFirst(memory, index, touched)'
           /\ Writes(program)[index + 1][1] \notin WordOnly
<1> DEFINE w == Writes(program)
<1>0. /\ loader = "bytes" /\ index \in 0..Len(w) /\ ShowsFirst(memory, index, touched)
  BY DEF LoadByte, BytesInv
<1>1. /\ index < Len(w) /\ index + 1 \in 1..Len(w)
      /\ w[index + 1][1] \in Nat /\ w[index + 1][2] \in Value
  BY <1>0, WritesTyped DEF LoadByte
<1>2. UNCHANGED program
  BY DEF LoadByte
<1>3. \/ /\ w[index + 1][1] \in Address \ WordOnly
         /\ memory' = [memory EXCEPT ![w[index + 1][1]] = w[index + 1][2]]
         /\ touched' = touched \ {w[index + 1][1]}
      \/ w[index + 1][1] > Top /\ memory' = memory /\ touched' = touched
  BY <1>0, <1>1 DEF LoadByte
<1>4. w[index + 1][1] \notin WordOnly
  BY <1>1, <1>3, LoaderAssumption DEF Address
<1>5. ASSUME NEW k \in 1..(index + 1), w[k][1] \in Address \ touched',
             \A later \in (k + 1)..(index + 1) : w[later][1] /= w[k][1]
      PROVE  memory'[w[k][1]] = w[k][2]
  <2>1. CASE k = index + 1
    BY <1>1, <1>3, <1>5, <2>1, LoaderAssumption DEF LoaderTypeOK, Address
  <2>2. CASE k \in 1..index
    <3>1. index + 1 \in (k + 1)..(index + 1)
      BY <1>0, <1>1, <2>2
    <3>2. w[index + 1][1] /= w[k][1]
      BY <1>5, <3>1
    <3>3. w[k][1] \in Address \ touched
      BY <1>3, <1>5, <3>2
    <3>4. \A later \in (k + 1)..index : w[later][1] /= w[k][1]
      BY <1>0, <1>5, <2>2
    <3>5. memory[w[k][1]] = w[k][2]
      BY <1>0, <2>2, <3>3, <3>4 DEF ShowsFirst
    <3> QED  BY <1>3, <1>5, <3>2, <3>5 DEF LoaderTypeOK
  <2> QED  BY <1>0, <1>1, <2>1, <2>2
<1>6. ShowsFirst(memory, index, touched)'
  BY <1>2, <1>5 DEF ShowsFirst
<1> QED  BY <1>4, <1>6

(* What is copied is what memory shows.                                      *)
LEMMA CopyByteShows ==
    ASSUME LoaderTypeOK, CopyInv, CopyByte
    PROVE  CopyInv'
<1>1. /\ loader = "copy" /\ index \in Address /\ index' = index + 1
      /\ image' = [a \in 0..index |-> IF a = index THEN memory[a] ELSE image[a]]
      /\ UNCHANGED <<memory, loader, program, touched, outdated>>
  BY DEF CopyByte, memories, history, written
<1>2. index \in Nat /\ index <= Top /\ Top \in Nat
  BY <1>1, LoaderAssumption DEF Address
<1>3. index' \in 0..(Top + 1) /\ index' - 1 = index
  BY <1>1, <1>2
<1>4. image' \in [0..(index' - 1) -> Value]
  <2>1. ASSUME NEW a \in 0..index
        PROVE  (IF a = index THEN memory[a] ELSE image[a]) \in Value
    BY <1>1, <1>2 DEF CopyInv, LoaderTypeOK
  <2> QED  BY <1>1, <1>3, <2>1
<1>5. outdated \subseteq 0..(index - 1) /\ index \notin outdated
  BY <1>1, <1>2 DEF CopyInv
<1>6. ShowsBelow(image, index, touched)'
  <2> DEFINE w == Writes(program)
  <2>1. SUFFICES ASSUME NEW k \in DOMAIN w, w[k][1] \in Address \ touched,
                        \A later \in (k + 1)..Len(w) : w[later][1] /= w[k][1],
                        w[k][1] < index + 1
                 PROVE  image'[w[k][1]] = w[k][2]
    BY <1>1 DEF ShowsBelow
  <2>2. w[k][1] \in 0..index
    BY <1>2, <2>1 DEF Address
  <2>3. CASE w[k][1] = index
    <3>1. k \in 1..Len(w) /\ w[k][1] \in Address \ (touched \cup outdated)
      BY <1>5, <2>1, <2>3, WritesTyped
    <3>2. memory[w[k][1]] = w[k][2]
      BY <1>1, <2>1, <3>1 DEF CopyInv, Shows, ShowsFirst
    <3> QED  BY <1>1, <2>2, <2>3, <3>2
  <2>4. CASE w[k][1] < index
    <3>1. image[w[k][1]] = w[k][2]
      BY <1>1, <2>1, <2>4 DEF CopyInv, ShowsBelow
    <3> QED  BY <1>1, <1>2, <2>2, <2>4, <3>1
  <2> QED  BY <1>2, <2>2, <2>3, <2>4
<1>7. \A a \in 0..index : a \notin outdated => image'[a] = memory[a]
  <2> SUFFICES ASSUME NEW a \in 0..index, a \notin outdated PROVE image'[a] = memory[a]
    OBVIOUS
  <2>1. CASE a = index
    BY <1>1, <2>1
  <2>2. CASE a \in 0..(index - 1)
    BY <1>1, <1>2, <2>2 DEF CopyInv
  <2> QED  BY <1>2, <2>1, <2>2
<1>8. Shows(memory, touched \cup outdated)' /\ ~HasRefused(program)'
  BY <1>1 DEF CopyInv, Shows, ShowsFirst, HasRefused
<1>9. outdated' \subseteq 0..(index' - 1)
  BY <1>1, <1>2, <1>3, <1>5
<1>10. (\A a \in 0..(index - 1) : a \notin outdated => image[a] = memory[a])'
  BY <1>1, <1>3, <1>7
<1> QED  BY <1>1, <1>3, <1>4, <1>6, <1>8, <1>9, <1>10 DEF CopyInv

LEMMA LoaderTypeStep ==
    ASSUME LoaderInv, Load \/ Cpu \/ Select \/ SelectEnd
    PROVE  LoaderTypeOK'
<1> USE DEF LoaderInv, memories, processor, history, written, loading
<1>0. Top \in Nat /\ Entry \in Address /\ LoaderTypeOK /\ Len(Writes(program)) \in Nat
  BY WritesTyped, LoaderAssumption
<1>1. CASE ReadFile
  <2>1. program' \in Program \cup {<<>>} /\ index' = 0
    BY <1>1 DEF ReadFile, LoaderTypeOK, IdleInv
  <2>2. Len(Writes(program')) \in Nat
    BY <2>1, LoaderAssumption
  <2>3. index' \in 0..(Len(Writes(program')) + Top + 1)
    BY <1>0, <2>1, <2>2
  <2>4. loader' \in {"failed", "bytes"}
    BY <1>1 DEF ReadFile
  <2> QED  BY <1>1, <2>1, <2>3, <2>4 DEF ReadFile, LoaderTypeOK
<1>2. CASE LoadByte
  <2>1. index \in 0..Len(Writes(program)) /\ index < Len(Writes(program))
    BY <1>2 DEF LoadByte, BytesInv
  <2>2. index' \in 0..(Len(Writes(program)) + Top + 1)
    BY <1>0, <1>2, <2>1 DEF LoadByte
  <2>3. Writes(program)[index + 1][2] \in Value
    BY <2>1, WritesTyped
  <2>4. memory' \in [Address -> Value] /\ touched' \subseteq Address
    BY <1>2, <2>3 DEF LoadByte, LoaderTypeOK
  <2> QED  BY <1>2, <2>2, <2>4 DEF LoadByte, LoaderTypeOK
<1>3. CASE SetPc
  <2>1. 0 \in 0..(Len(Writes(program)) + Top + 1) /\ DOMAIN NoListing \subseteq Address
    BY <1>0 DEF NoListing
  <2>2. start' \in {"none", "next", "stale", "within"}
    BY <1>3 DEF SetPc, Met
  <2> QED  BY <1>0, <1>3, <2>1, <2>2 DEF SetPc, LoaderTypeOK
<1>4. CASE CopyByte
  <2>1. index \in Address /\ index' \in 0..(Len(Writes(program)) + Top + 1)
    BY <1>0, <1>4 DEF CopyByte, Address
  <2>2. DOMAIN image' \subseteq Address
    BY <1>0, <1>4, <2>1 DEF CopyByte, Address
  <2> QED  BY <1>4, <2>1, <2>2 DEF CopyByte, LoaderTypeOK
<1>5. CASE Publish
  <2>1. index = Top + 1 /\ image \in [0..Top -> Value]
    BY <1>0, <1>5 DEF Publish, CopyInv
  <2>2. decompiled' \in [Address -> Value] /\ DOMAIN image' \subseteq Address
    BY <1>5, <2>1 DEF Publish, NoListing, Address
  <2> QED  BY <1>5, <2>2 DEF Publish, LoaderTypeOK
<1>6. CASE Cpu
  <2>1. CASE CpuLoadPc
    BY <2>1 DEF CpuLoadPc, Begin, LoaderTypeOK
  <2>2. CASE CpuStorePc
    <3>1. (latch + 2) % (Top + 1) \in Address /\ 0 \in Address
      BY <1>0 DEF LoaderTypeOK, Address
    <3> QED  BY <2>2, <3>1 DEF CpuStorePc, LoaderTypeOK
  <2>3. CASE CpuInterrupt
    BY <2>3 DEF CpuInterrupt, Begin, LoaderTypeOK
  <2>4. CASE CpuLoadOperand
    BY <2>4 DEF CpuLoadOperand, LoaderTypeOK
  <2>5. CASE CpuWrite
    BY <2>5 DEF CpuWrite, LoaderTypeOK
  <2>6. CASE CpuJump
    BY <2>6 DEF CpuJump, LoaderTypeOK
  <2>7. CASE CpuEnd
    BY <2>7 DEF CpuEnd, LoaderTypeOK
  <2> QED  BY <1>6, <2>1, <2>2, <2>3, <2>4, <2>5, <2>6, <2>7 DEF Cpu
<1>7. CASE Select
  BY <1>7 DEF Select, LoaderTypeOK
<1>8. CASE SelectEnd
  <2>1. Len(Writes(<<>>)) \in Nat
    BY LoaderAssumption
  <2>2. 0 \in 0..(Len(Writes(<<>>)) + Top + 1)
    BY <1>0, <2>1
  <2> QED  BY <1>8, <2>2 DEF SelectEnd, LoaderTypeOK
<1> QED  BY <1>1, <1>2, <1>3, <1>4, <1>5, <1>6, <1>7, <1>8 DEF Load

(* The loader's own steps.                                                   *)
LEMMA LoadStep ==
    ASSUME LoaderInv, Load
    PROVE  IdleInv' /\ BytesInv' /\ CopyInv' /\ DoneInv' /\ StartInv' /\ LoadIsListed'
<1> USE DEF LoaderInv, memories, processor, history, written, loading
<1>0. Len(Writes(program)) \in Nat /\ Top \in Nat /\ LoaderTypeOK
  BY WritesTyped, LoaderAssumption
<1>1. CASE ReadFile
  <2>1. /\ loader' \in {"failed", "bytes"} /\ start = "none" /\ index' = 0
        /\ UNCHANGED <<memory, pc, cpu, latch, words, start, touched, outdated>>
        /\ outdated = {}
    BY <1>1 DEF ReadFile, StartInv, IdleInv
  <2>2. BytesInv'
    <3>1. SUFFICES ASSUME loader' = "bytes" PROVE BytesInv'
      BY DEF BytesInv
    <3>2. Len(Writes(program')) \in Nat
      BY <1>1, <2>1, <3>1, LoaderAssumption DEF ReadFile
    <3> QED  BY <2>1, <3>2 DEF BytesInv, ShowsFirst
  <2> QED  BY <2>1, <2>2 DEF IdleInv, CopyInv, DoneInv, StartInv, LoadIsListed
<1>2. CASE LoadByte
  <2>1. /\ loader = "bytes" /\ start = "none" /\ outdated = {}
        /\ UNCHANGED <<program, pc, cpu, latch, words, start, outdated>>
    BY <1>2 DEF LoadByte, StartInv, IdleInv
  <2>2. CASE loader' = "failed"
    BY <2>1, <2>2 DEF IdleInv, BytesInv, CopyInv, DoneInv, StartInv, LoadIsListed
  <2>3. CASE loader' = loader /\ index' = index + 1
    <3>1. index \in 0..Len(Writes(program)) /\ index < Len(Writes(program))
      BY <1>2, <2>1 DEF LoadByte, BytesInv
    <3>2. /\ ShowsFirst(memory, index, touched)'
          /\ Writes(program)[index + 1][1] \notin WordOnly
      BY <1>0, <1>2, <2>3, LoadByteShows
    <3>3. \A k \in 1..index' : Writes(program)[k][1] \notin WordOnly
      BY <2>1, <2>3, <3>1, <3>2 DEF BytesInv
    <3>4. BytesInv'
      BY <1>0, <2>1, <2>3, <3>1, <3>2, <3>3 DEF BytesInv
    <3> QED  BY <2>1, <2>3, <3>4 DEF IdleInv, CopyInv, DoneInv, StartInv, LoadIsListed
  <2> QED  BY <1>2, <2>1, <2>2, <2>3 DEF LoadByte
<1>3. CASE SetPc
  <2>1. /\ loader = "bytes" /\ index = Len(Writes(program)) /\ loader' = "copy"
        /\ index' = 0 /\ image' = NoListing /\ pc' = Entry /\ start' = Met
        /\ outdated = {}
        /\ UNCHANGED <<memory, cpu, latch, words, program, touched, outdated>>
    BY <1>3 DEF SetPc, IdleInv
  <2>2. Shows(memory, touched) /\ ~HasRefused(program)
    BY <1>0, <2>1, WritesTyped DEF BytesInv, HasRefused, Shows
  <2>3. Shows(memory, touched \cup outdated)' /\ ~HasRefused(program)'
    BY <2>1, <2>2, ShowsMore DEF Shows, ShowsFirst, HasRefused
  <2>4. /\ index' \in 0..(Top + 1) /\ image' \in [0..(index' - 1) -> Value]
        /\ outdated' \subseteq 0..(index' - 1)
        /\ (\A a \in 0..(index - 1) : a \notin outdated => image[a] = memory[a])'
    BY <1>0, <2>1 DEF NoListing
  <2>5. ShowsBelow(image, index, touched)'
    <3>1. \A k \in DOMAIN Writes(program) : ~ (Writes(program)[k][1] < 0)
      BY <1>0, WritesTyped
    <3> QED  BY <2>1, <3>1 DEF ShowsBelow
  <2>6. CopyInv'
    BY <2>3, <2>4, <2>5 DEF CopyInv
  <2>7. StartInv'
    <3>1. \E taken \in 0..(2 - words) : Entry = Past(taken)
      <4>1. 0 \in 0..(2 - words)
        BY <1>0 DEF LoaderTypeOK
      <4> QED  BY <4>1, EntryIsPastNothing
    <3>2. CASE cpu = "between"
      BY <2>1, <3>2 DEF StartInv, Met
    <3>3. CASE cpu = "latched"
      BY <2>1, <3>3 DEF StartInv, Met
    <3>4. CASE cpu = "executing"
      BY <2>1, <3>1, <3>4 DEF StartInv, Met
    <3> QED  BY <1>0, <3>2, <3>3, <3>4 DEF LoaderTypeOK
  <2> QED  BY <2>1, <2>6, <2>7 DEF IdleInv, BytesInv, DoneInv, LoadIsListed
<1>4. CASE CopyByte
  <2>1. CopyInv'
    BY <1>0, <1>4, CopyByteShows
  <2>2. loader = "copy" /\ UNCHANGED <<loader, pc, cpu, latch, words, start>>
    BY <1>4 DEF CopyByte
  <2>3. StartInv'
    BY <2>2 DEF StartInv
  <2> QED  BY <2>1, <2>2, <2>3 DEF IdleInv, BytesInv, DoneInv, LoadIsListed
<1>5. CASE Publish
  <2>1. /\ loader = "copy" /\ index > Top /\ loader' = "done" /\ decompiled' = image
        /\ UNCHANGED <<memory, pc, cpu, latch, words, program, start, touched, outdated>>
    BY <1>5 DEF Publish
  <2>2. index = Top + 1 /\ index - 1 = Top
    BY <1>0, <2>1 DEF CopyInv
  <2>3. Shows(memory, touched \cup outdated)'
    BY <2>1 DEF CopyInv, Shows, ShowsFirst
  <2>4. Shows(image, touched)
    <3> DEFINE w == Writes(program)
    <3>1. ASSUME NEW k \in 1..Len(w), w[k][1] \in Address \ touched,
                 \A later \in (k + 1)..Len(w) : w[later][1] /= w[k][1]
          PROVE  image[w[k][1]] = w[k][2]
      <4>1. k \in DOMAIN w /\ w[k][1] < index
        BY <1>0, <2>2, <3>1, WritesTyped DEF Address
      <4> QED  BY <2>1, <3>1, <4>1 DEF CopyInv, ShowsBelow
    <3> QED  BY <3>1 DEF Shows, ShowsFirst
  <2>5. Shows(decompiled, touched)'
    BY <2>1, <2>4 DEF Shows, ShowsFirst
  <2>6. \A a \in Address \ outdated : image[a] = memory[a]
    BY <2>1, <2>2 DEF CopyInv, Address
  <2>7. LoadIsListed'
    BY <2>1, <2>5, <2>6 DEF LoadIsListed
  <2>8. StartInv'
    BY <2>1 DEF StartInv
  <2> QED  BY <2>1, <2>3, <2>7, <2>8 DEF IdleInv, BytesInv, CopyInv, DoneInv
<1> QED  BY <1>1, <1>2, <1>3, <1>4, <1>5 DEF Load

(* The pane turning to the loader and away from it.                          *)
LEMMA SelectInvStep ==
    ASSUME LoaderInv, PaneInv, Select \/ SelectEnd
    PROVE  IdleInv' /\ BytesInv' /\ CopyInv' /\ DoneInv' /\ StartInv' /\ LoadIsListed'
<1> USE DEF LoaderInv, memories, processor, history, written
<1>1. CASE Select
  <2>1. loader = "none" /\ loader' = "read" /\ start = "none"
        /\ UNCHANGED <<index, touched, outdated, start>>
    BY <1>1 DEF Select, StartInv, PaneInv, ClickFile, Clickable
  <2> QED  BY <2>1 DEF IdleInv, BytesInv, CopyInv, DoneInv, StartInv, LoadIsListed
<1>2. CASE SelectEnd
  BY <1>2 DEF SelectEnd, IdleInv, BytesInv, CopyInv, DoneInv, StartInv, LoadIsListed
<1> QED  BY <1>1, <1>2

(* A write of the CPU is in one of the two histories when it matters.        *)
LEMMA CpuWriteStep ==
    ASSUME LoaderInv, CpuWrite
    PROVE  IdleInv' /\ BytesInv' /\ CopyInv' /\ DoneInv' /\ LoadIsListed'
<1> USE DEF LoaderInv
<1> DEFINE w == Writes(program)
<1>1. PICK a \in Address, v \in Value :
        /\ memory' = [memory EXCEPT ![a] = v]
        /\ touched' = IF a \in Loaded \ Copied THEN touched \cup {a} ELSE touched
        /\ outdated' = IF a \in Copied THEN outdated \cup {a} ELSE outdated
  BY DEF CpuWrite
<1>2. UNCHANGED <<loader, program, index, image, decompiled>>
  BY DEF CpuWrite, loading
<1>3. Len(w) \in Nat /\ DOMAIN w = 1..Len(w) /\ LoaderTypeOK /\ Top \in Nat
  BY WritesTyped, LoaderAssumption
<1>4. touched \subseteq touched' /\ outdated \subseteq outdated'
  BY <1>1
<1>5. CASE loader \in {"none", "read", "failed"}
  <2>1. UNCHANGED <<touched, outdated>>
    BY <1>1, <1>5 DEF Loaded, Copied
  <2> QED  BY <1>2, <1>5, <2>1 DEF IdleInv, BytesInv, CopyInv, DoneInv, LoadIsListed
<1>6. CASE loader = "bytes"
  <2>1. /\ touched' = IF a \in {w[k][1] : k \in 1..index} THEN touched \cup {a} ELSE touched
        /\ outdated' = outdated
    BY <1>1, <1>6 DEF Loaded, Copied
  <2>2. index \in Nat /\ ShowsFirst(memory, index, touched)
    BY <1>3, <1>6 DEF BytesInv
  <2>3. a \in touched' \/ a \notin {w[k][1] : k \in 1..index}
    BY <2>1
  <2>4. ShowsFirst(memory', index, touched')
    BY <1>1, <1>3, <1>4, <2>2, <2>3, CpuWriteShows
  <2>5. ShowsFirst(memory, index, touched)'
    BY <1>2, <2>4 DEF ShowsFirst
  <2>6. BytesInv'
    BY <1>2, <1>6, <2>5 DEF BytesInv
  <2> QED  BY <1>2, <1>6, <2>1, <2>6 DEF IdleInv, CopyInv, DoneInv, LoadIsListed
<1>7. CASE loader \in {"copy", "done"}
  <2> DEFINE more == touched' \cup outdated'
  <2>1. Shows(memory, touched \cup outdated)
    BY <1>7 DEF CopyInv, DoneInv
  <2>2. a \in more \/ a \notin {w[k][1] : k \in 1..Len(w)}
    <3>1. CASE loader = "copy"
      BY <1>1, <1>3, <3>1 DEF Loaded
    <3>2. CASE loader = "done"
      BY <1>1, <3>2 DEF Copied
    <3> QED  BY <1>7, <3>1, <3>2
  <2>3. touched \cup outdated \subseteq more
    BY <1>4
  <2>4. ShowsFirst(memory', Len(w), more)
    <3> HIDE DEF more
    <3> QED  BY <1>1, <1>3, <2>1, <2>2, <2>3, CpuWriteShows DEF Shows
  <2>5. Shows(memory, touched \cup outdated)'
    BY <1>2, <2>4 DEF Shows, ShowsFirst
  <2>6. CASE loader = "copy"
    <3>1. index \in 0..(Top + 1) /\ Copied = 0..(index - 1)
      BY <2>6 DEF CopyInv, Copied
    <3>2. ShowsBelow(image, index, touched)'
      BY <1>2, <1>4, <2>6 DEF CopyInv, ShowsBelow
    <3>3. outdated' \subseteq 0..(index - 1)
      BY <1>1, <2>6, <3>1 DEF CopyInv
    <3>4. ASSUME NEW b \in 0..(index - 1), b \notin outdated'
          PROVE  image[b] = memory'[b]
      <4>1. b /= a /\ b \in Address /\ image[b] = memory[b]
        BY <1>1, <1>3, <2>6, <3>1, <3>4 DEF CopyInv, Address
      <4> QED  BY <1>1, <1>3, <4>1 DEF LoaderTypeOK
    <3>5. (\A b \in 0..(index - 1) : b \notin outdated => image[b] = memory[b])'
      BY <1>2, <3>4
    <3>6. CopyInv'
      BY <1>2, <2>5, <2>6, <3>2, <3>3, <3>5 DEF CopyInv, HasRefused
    <3> QED  BY <1>2, <2>6, <3>6 DEF IdleInv, BytesInv, DoneInv, LoadIsListed
  <2>7. CASE loader = "done"
    <3>1. touched' = touched /\ outdated' = outdated \cup {a}
      BY <1>1, <2>7 DEF Loaded, Copied
    <3>2. Shows(decompiled, touched)'
      BY <1>2, <2>7, <3>1 DEF LoadIsListed, Shows, ShowsFirst
    <3>3. \A b \in Address \ outdated' : decompiled[b] = memory'[b]
      BY <1>1, <1>3, <2>7, <3>1 DEF LoadIsListed, LoaderTypeOK
    <3>4. LoadIsListed'
      BY <1>2, <3>2, <3>3 DEF LoadIsListed
    <3> QED  BY <1>2, <2>5, <2>7, <3>4 DEF IdleInv, BytesInv, CopyInv, DoneInv
  <2> QED  BY <1>7, <2>6, <2>7
<1> QED  BY <1>3, <1>5, <1>6, <1>7 DEF LoaderTypeOK

(* The pc after a load moves on by words of one instruction, or is lost.     *)
LEMMA CpuStartStep ==
    ASSUME LoaderInv, Cpu
    PROVE  StartInv'
<1> USE DEF LoaderInv, memories, processor, history, loading
<1>0. LoaderTypeOK /\ Top \in Nat
  BY LoaderAssumption
<1>1. CASE CpuLoadPc
  BY <1>1 DEF CpuLoadPc, Begin, StartInv
<1>2. CASE CpuStorePc
  <2>1. CASE start = "within"
    <3>1. PICK taken \in 0..(1 - words) : pc = Past(taken)
      BY <1>2, <2>1 DEF CpuStorePc, StartInv
    <3>2. /\ cpu' = "executing" /\ words' = words /\ start' = start /\ loader' = loader
          /\ pc' = (Past(taken) + 2) % (Top + 1)
      BY <1>2, <2>1, <3>1 DEF CpuStorePc, StartInv
    <3>3. taken \in Nat /\ taken + 1 \in 0..(2 - words)
      BY <1>0 DEF LoaderTypeOK
    <3>4. pc' = Past(taken + 1)
      BY <3>2, <3>3, PastOneMore
    <3> QED  BY <2>1, <3>2, <3>3, <3>4 DEF StartInv
  <2>2. CASE start \in {"none", "stale"}
    BY <1>2, <2>2 DEF CpuStorePc, StartInv
  <2> QED  BY <1>0, <1>2, <2>1, <2>2 DEF CpuStorePc, StartInv, LoaderTypeOK
<1>3. CASE CpuInterrupt
  BY <1>3 DEF CpuInterrupt, Begin, StartInv
<1>4. CASE CpuLoadOperand
  <2>1. /\ cpu = "executing" /\ words > 0 /\ words' = words - 1 /\ cpu' = "latched"
        /\ latch' = pc /\ UNCHANGED <<pc, loader, start>>
    BY <1>4 DEF CpuLoadOperand
  <2>2. 1 - words' = 2 - words
    BY <1>0, <2>1 DEF LoaderTypeOK
  <2> QED  BY <2>1, <2>2 DEF StartInv, Past
<1>5. CASE CpuWrite
  BY <1>5 DEF CpuWrite, StartInv, Past
<1>6. CASE CpuJump
  BY <1>6 DEF CpuJump, StartInv
<1>7. CASE CpuEnd
  BY <1>7 DEF CpuEnd, StartInv, Past
<1> QED  BY <1>1, <1>2, <1>3, <1>4, <1>5, <1>6, <1>7 DEF Cpu

LEMMA CpuInvStep ==
    ASSUME LoaderInv, Cpu
    PROVE  IdleInv' /\ BytesInv' /\ CopyInv' /\ DoneInv' /\ LoadIsListed'
<1>1. CASE CpuWrite
  BY <1>1, CpuWriteStep
<1>2. CASE ~CpuWrite
  <2>1. UNCHANGED <<memory, touched, outdated, loader, program, index, image, decompiled>>
    BY <1>2 DEF Cpu, CpuLoadPc, CpuStorePc, CpuInterrupt, CpuLoadOperand, CpuJump, CpuEnd,
                memories, loading, history, written
  <2> QED  BY <2>1 DEF LoaderInv, IdleInv, BytesInv, CopyInv, DoneInv, LoadIsListed, Shows,
                       ShowsFirst, ShowsBelow, HasRefused
<1> QED  BY <1>1, <1>2

LEMMA LoaderMoves ==
    ASSUME [Next]_vars
    PROVE  Load \/ Cpu \/ Select \/ SelectEnd \/ UNCHANGED loaderVars
BY DEF Next, Gui, Browse, SelectStep, CpuStep, Ended, vars

LEMMA LoaderStep ==
    ASSUME LoaderInv, PaneInv, [Next]_vars
    PROVE  LoaderInv'
<1>1. CASE Load
  BY <1>1, LoaderTypeStep, LoadStep DEF LoaderInv
<1>2. CASE Cpu
  BY <1>2, LoaderTypeStep, CpuInvStep, CpuStartStep DEF LoaderInv
<1>3. CASE Select \/ SelectEnd
  BY <1>3, LoaderTypeStep, SelectInvStep DEF LoaderInv
<1>4. CASE UNCHANGED loaderVars
  BY <1>4 DEF loaderVars, memories, processor, loading, history, written, LoaderInv,
              LoaderTypeOK, IdleInv, BytesInv, CopyInv, DoneInv, StartInv, Past,
              LoadIsListed, Shows, ShowsFirst, ShowsBelow, HasRefused
<1> QED  BY <1>1, <1>2, <1>3, <1>4, LoaderMoves

LEMMA PaneStep ==
    ASSUME PaneInv, [Next]_vars
    PROVE  PaneInv'
<1>1. CASE SelectStep
  BY <1>1 DEF SelectStep, PaneInv, explorer
<1>2. CASE CpuStep
  BY <1>2 DEF CpuStep, PaneInv, explorer, Cpu, CpuLoadPc, CpuStorePc, CpuInterrupt,
              CpuLoadOperand, CpuWrite, CpuJump, CpuEnd, loading
<1>3. CASE Browse
  BY <1>3 DEF Browse, PaneInv, TypePath, ClickDirectory, BeginList, EndList, Unreadable,
              SetCurrent, Clickable, loaderVars, loading
<1>4. CASE Select
  BY <1>4 DEF Select, ClickFile, PaneInv
<1>5. CASE SelectEnd
  BY <1>5 DEF SelectEnd, PaneInv
<1>6. CASE UNCHANGED vars
  BY <1>6 DEF vars, explorer, loaderVars, loading, PaneInv
<1> QED  BY <1>1, <1>2, <1>3, <1>4, <1>5, <1>6 DEF Next, Gui, Ended

LEMMA Initial == Init => IInv
<1> SUFFICES ASSUME Init PROVE IInv
  OBVIOUS
<1>1. ExplorerInv
  BY ExplorerInitial DEF Init
<1>2. LoaderInit
  BY DEF Init
<1>3. Top \in Nat /\ 0 \in Address /\ 0 \in Value
  BY LoaderAssumption DEF Address
<1>4. program = <<>> /\ Len(Writes(program)) \in Nat
  BY <1>2, LoaderAssumption DEF LoaderInit
<1>5. 0 \in 0..(Len(Writes(program)) + Top + 1)
  BY <1>3, <1>4
<1>6. LoaderTypeOK
  BY <1>2, <1>3, <1>4, <1>5 DEF LoaderInit, LoaderTypeOK, NoListing
<1> QED  BY <1>1, <1>2, <1>6 DEF LoaderInit, IInv, LoaderInv, IdleInv, BytesInv, CopyInv,
                                 DoneInv, StartInv, PaneInv, LoadIsListed

LEMMA Inductive == Spec => []IInv
<1>1. IInv /\ [Next]_vars => IInv'
  BY ExplorerStep, LoaderStep, PaneStep DEF IInv
<1> QED  BY <1>1, Initial, PTL DEF Spec

-----------------------------------------------------------------------------
(* Every variable of the pane and of the loader has its type.                *)
THEOREM TypeCorrect == Spec => []TypeOK
<1>1. IInv => TypeOK
  BY DEF IInv, ExplorerInv, LoaderInv, TypeOK
<1> QED  BY <1>1, Inductive, PTL

(* The listing that renderFileExplorer() walks through is never the one that *)
(* set_current() drops (fileExplorer.h 76-77), whatever is typed or clicked. *)
THEOREM DrawnListingLivesHolds == Spec => []DrawnListingLives
<1>1. IInv => DrawnListingLives
  BY DEF IInv, ExplorerInv, ExplorerTypeOK, ListInv, DrawnListingLives
<1> QED  BY <1>1, Inductive, PTL

(* However a load meets the CPU, between two instructions or within one, the *)
(* whole program is in memory when pc is set; the next instruction then      *)
(* begins at Entry, or past it by the operand words of the one under way,    *)
(* unless that stores a pc of its own: for every program, every memory and   *)
(* every interleaving.                                                       *)
THEOREM LoadIsWholeHolds == Spec => []LoadIsWhole
<1>1. ASSUME IInv PROVE LoadIsWhole
  <2>1. loader \in {"copy", "done"} => Shows(memory, touched \cup outdated)
    BY <1>1 DEF IInv, LoaderInv, CopyInv, DoneInv
  <2>2. start = "next" => cpu = "between" /\ pc = Entry
    BY <1>1 DEF IInv, LoaderInv, StartInv
  <2>3. ASSUME start = "within"
        PROVE  \E taken \in 0..(2 - words) : pc = Past(taken)
    <3>1. words \in 0..2
      BY <1>1 DEF IInv, LoaderInv, LoaderTypeOK
    <3>2. 0..(1 - words) \subseteq 0..(2 - words)
      BY <3>1
    <3> QED  BY <1>1, <2>3, <3>2 DEF IInv, LoaderInv, StartInv
  <2> QED  BY <2>1, <2>2, <2>3 DEF LoadIsWhole, Past
<1> QED  BY <1>1, Inductive, PTL

(* What is listed after a load is what was loaded, and what memory holds but *)
(* for the cells the CPU wrote after they were copied.                       *)
THEOREM LoadIsListedHolds == Spec => []LoadIsListed
<1>1. IInv => LoadIsListed
  BY DEF IInv, LoaderInv
<1> QED  BY <1>1, Inductive, PTL

(* A program with a refused byte is neither started nor listed, and memory   *)
(* shows the part of it before that byte.                                    *)
THEOREM RefusedIsNotStartedHolds == Spec => RefusedIsNotStarted
<1>1. ASSUME IInv, [Next]_vars, HasRefused(program), UNCHANGED processor
      PROVE  UNCHANGED <<pc, decompiled>>
  <2> USE DEF memories, history, processor
  <2>1. CASE Load
    <3>1. ~SetPc
      <4>1. SUFFICES ASSUME SetPc PROVE FALSE
        OBVIOUS
      <4>2. \A k \in 1..Len(Writes(program)) : Writes(program)[k][1] \notin WordOnly
        BY <1>1, <4>1 DEF SetPc, IInv, LoaderInv, BytesInv
      <4> QED  BY <1>1, <4>2, WritesTyped DEF HasRefused, IInv, LoaderInv
    <3>2. ~Publish
      BY <1>1 DEF Publish, IInv, LoaderInv, CopyInv
    <3> QED  BY <2>1, <3>1, <3>2 DEF Load, ReadFile, LoadByte, CopyByte
  <2>2. CASE Cpu
    <3>1. LoaderTypeOK
      BY <1>1 DEF IInv, LoaderInv
    <3> QED  BY <1>1, <2>2, <3>1 DEF Cpu, CpuLoadPc, CpuStorePc, CpuInterrupt,
                 CpuLoadOperand, CpuWrite, CpuJump, CpuEnd, loading, LoaderTypeOK
  <2>3. CASE Select \/ SelectEnd
    BY <2>3 DEF Select, SelectEnd
  <2>4. CASE UNCHANGED loaderVars
    BY <2>4 DEF loaderVars, loading
  <2> QED  BY <1>1, <2>1, <2>2, <2>3, <2>4, LoaderMoves
<1>2. ASSUME IInv, [Next]_vars, loader = "bytes", loader' = "failed"
      PROVE  /\ Writes(program)[index + 1][1] \in WordOnly
             /\ \A k \in 1..index : Writes(program)[k][1] \notin WordOnly
             /\ ShowsFirst(memory', index, touched)
  <2>1. LoadByte
    BY <1>2, LoaderMoves DEF Load, ReadFile, SetPc, CopyByte, Publish, Select, SelectEnd,
       Cpu, CpuLoadPc, CpuStorePc, CpuInterrupt, CpuLoadOperand, CpuWrite, CpuJump, CpuEnd,
       loading, loaderVars
  <2>2. Writes(program)[index + 1][1] \in WordOnly /\ memory' = memory
    BY <1>2, <2>1 DEF LoadByte
  <2> QED  BY <1>2, <2>2 DEF IInv, LoaderInv, BytesInv
<1>3. IInv /\ [Next]_vars
        => [/\ HasRefused(program) /\ UNCHANGED processor => UNCHANGED <<pc, decompiled>>
            /\ loader = "bytes" /\ loader' = "failed" =>
                  /\ Writes(program)[index + 1][1] \in WordOnly
                  /\ \A k \in 1..index : Writes(program)[k][1] \notin WordOnly
                  /\ ShowsFirst(memory', index, touched)]_loaderVars
  BY <1>1, <1>2
<1> QED  BY <1>3, Inductive, PTL DEF Spec, RefusedIsNotStarted
=============================================================================
