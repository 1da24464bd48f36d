-------------------------- MODULE CallStackProofs --------------------------
(* Proofs about CallStack, for every size of the memory, every place and     *)
(* size of the stack, and every program that keeps to them.                  *)
EXTENDS CallStack, SequenceTheorems, TLAPS

FrameSet == [kind : Kind, value : Word]

(* What is held of a stack fs by a memory and a stack pointer.               *)
Held(fs, mem, s) == /\ s = Slot(Len(fs))
                    /\ \A n \in 1..Len(fs) : mem[Slot(n)] = fs[n].value

(* Return addresses are addresses, and a status lies on one.                 *)
WellFormed(fs) ==
    \A n \in 1..Len(fs) :
        /\ fs[n].kind \in {"called", "interrupted"} => fs[n].value \in Address
        /\ fs[n].kind = "status" => n > 1 /\ fs[n - 1].kind = "interrupted"

StackInv == /\ frames \in Seq(FrameSet)
            /\ memory \in [Address -> Word]
            /\ sp \in Address
            /\ Held(frames, memory, sp)
            /\ WellFormed(frames)
            /\ Len(frames) <= Capacity

IInv == StackInv /\ pc \in Address /\ sr \in Word /\ r \in Word

-----------------------------------------------------------------------------
(* Addresses.                                                                *)

LEMMA Powers == 2^15 = 32768 /\ 2^16 = 65536
OBVIOUS

LEMMA Sizes == CellCount \in Nat \ {0} /\ CellCount <= 32768 /\ Size = 2 * CellCount
BY FramesAssumption, Powers DEF Size

(* The even numbers are addresses, up to the size of the memory.             *)
LEMMA Division ==
    ASSUME NEW m \in Nat \ {0}, NEW q \in Int, NEW x \in 0..(m - 1)
    PROVE  (m * q + x) % m = x
OBVIOUS

(* One round around the memory at most.                                      *)
Cell(i) == IF i < 0 THEN 2 * (i + CellCount)
           ELSE IF i < CellCount THEN 2 * i
           ELSE 2 * (i - CellCount)

LEMMA CellIsRemainder ==
    ASSUME NEW i \in Int, -CellCount <= i, i < 2 * CellCount
    PROVE  /\ (2 * i) % Size = Cell(i)
           /\ Cell(i) \in Address
<1> DEFINE j == IF i < 0 THEN i + CellCount
                ELSE IF i < CellCount THEN i ELSE i - CellCount
           q == IF i < 0 THEN -1 ELSE IF i < CellCount THEN 0 ELSE 1
<1>1. j \in 0..(CellCount - 1) /\ Cell(i) = 2 * j
  BY Sizes DEF Cell
<1>2. 2 * i = Size * q + 2 * j
  BY Sizes
<1>3. 2 * j \in 0..(Size - 1) /\ Size \in Nat \ {0} /\ q \in Int
  BY <1>1, Sizes
<1>4. (2 * i) % Size = 2 * j
  <2> HIDE DEF j, q
  <2> QED  BY <1>2, <1>3, Division
<1>5. 2 * j \in Address
  <2> HIDE DEF j
  <2> QED  BY <1>1 DEF Address
<1> QED  BY <1>1, <1>4, <1>5

LEMMA AddressRange ==
    ASSUME NEW a \in Address
    PROVE  \E i \in 0..(CellCount - 1) : a = 2 * i
BY DEF Address

LEMMA AddressIsWord ==
    ASSUME NEW a \in Address
    PROVE  a \in Word
<1>1. PICK i \in 0..(CellCount - 1) : a = 2 * i
  BY AddressRange
<1>2. a \in Nat /\ a < 65536
  BY <1>1, Sizes
<1> QED  BY <1>2, Powers DEF Word

(* Advancing the program counter stays among the addresses.                  *)
LEMMA BehindIsAddress ==
    ASSUME NEW a \in Address, NEW n \in {1, 2}
    PROVE  (a + 2 * n) % Size \in Address
<1>1. PICK i \in 0..(CellCount - 1) : a = 2 * i
  BY AddressRange
<1>2. a + 2 * n = 2 * (i + n)
  BY <1>1, Sizes
<1>3. CASE i + n < 2 * CellCount
  <2>1. i + n \in Int /\ -CellCount <= i + n
    BY Sizes
  <2>2. (2 * (i + n)) % Size \in Address
    BY <1>3, <2>1, CellIsRemainder
  <2> QED  BY <1>2, <2>2
<1>4. CASE i + n >= 2 * CellCount
  <2>1. CellCount = 1 /\ i + n = 2
    BY <1>1, <1>4, Sizes
  <2>2. (a + 2 * n) % Size = 0
    BY <1>2, <2>1, Sizes
  <2>3. 0 \in Address
    BY Sizes DEF Address
  <2> QED  BY <2>2, <2>3
<1> QED  BY <1>1, <1>3, <1>4, Sizes

(* The slots of the stack, as cells counted from the base.                   *)
LEMMA SlotCell ==
    ASSUME NEW b \in 0..(CellCount - 1), Base = 2 * b, NEW n \in 0..CellCount
    PROVE  Slot(n) = Cell(b - n) /\ Slot(n) \in Address
<1>1. Base - 2 * n = 2 * (b - n) /\ b - n \in Int /\ -CellCount <= b - n /\ b - n < 2 * CellCount
  BY Sizes
<1> QED  BY <1>1, CellIsRemainder DEF Slot

LEMMA BaseCell == \E b \in 0..(CellCount - 1) : Base = 2 * b
BY CallStackAssumption, AddressRange

(* Every word of the stack has a cell of its own.                            *)
LEMMA SlotsDiffer ==
    ASSUME NEW m \in 1..CellCount, NEW n \in 1..CellCount, Slot(m) = Slot(n)
    PROVE  m = n
<1>1. PICK b \in 0..(CellCount - 1) : Base = 2 * b
  BY BaseCell
<1>2. Cell(b - m) = Cell(b - n)
  <2>1. m \in 0..CellCount /\ n \in 0..CellCount
    OBVIOUS
  <2>2. Slot(m) = Cell(b - m)
    BY <1>1, <2>1, SlotCell
  <2>3. Slot(n) = Cell(b - n)
    BY <1>1, <2>1, SlotCell
  <2> QED  BY <2>2, <2>3
<1>3. b - m \in Int /\ b - n \in Int /\ b - m < CellCount /\ b - n < CellCount
      /\ -CellCount <= b - m /\ -CellCount <= b - n
  BY Sizes
<1>4. b - m = b - n
  BY <1>2, <1>3, Sizes DEF Cell
<1> QED  BY <1>4, Sizes

(* Down and Up go from a slot to the next and back.                          *)
LEMMA NextSlot ==
    ASSUME NEW n \in 0..(CellCount - 1)
    PROVE  /\ Down(Slot(n)) = Slot(n + 1)
           /\ Up(Slot(n + 1)) = Slot(n)
           /\ Slot(n) \in Address /\ Slot(n + 1) \in Address
<1>1. PICK b \in 0..(CellCount - 1) : Base = 2 * b
  BY BaseCell
<1>2. /\ Slot(n) = Cell(b - n) /\ Slot(n) \in Address
      /\ Slot(n + 1) = Cell(b - (n + 1)) /\ Slot(n + 1) \in Address
  BY <1>1, SlotCell, Sizes
<1>3. PICK i \in 0..(CellCount - 1) : Slot(n) = 2 * i
  BY <1>2, AddressRange
<1>4. PICK j \in 0..(CellCount - 1) : Slot(n + 1) = 2 * j
  BY <1>2, AddressRange
<1>5. j = IF i = 0 THEN CellCount - 1 ELSE i - 1
  BY <1>2, <1>3, <1>4, Sizes DEF Cell
<1>6. Down(Slot(n)) = Cell(i - 1)
  <2>1. Slot(n) - 2 = 2 * (i - 1) /\ -CellCount <= i - 1 /\ i - 1 < 2 * CellCount /\ i - 1 \in Int
    BY <1>3, Sizes
  <2> QED  BY <2>1, CellIsRemainder DEF Down
<1>7. Up(Slot(n + 1)) = Cell(j + 1)
  <2>1. Slot(n + 1) + 2 = 2 * (j + 1) /\ -CellCount <= j + 1 /\ j + 1 < 2 * CellCount /\ j + 1 \in Int
    BY <1>4, Sizes
  <2> QED  BY <2>1, CellIsRemainder DEF Up
<1>8. Cell(i - 1) = 2 * j /\ Cell(j + 1) = 2 * i
  BY <1>5, Sizes DEF Cell
<1> QED  BY <1>2, <1>3, <1>4, <1>6, <1>7, <1>8

(* Clearing a bit that is set leaves a word.                                 *)
LEMMA WithoutGieIsWord ==
    ASSUME NEW w \in Word
    PROVE  WithoutGie(w) \in Word
<1>1. w \in Nat /\ w < 65536
  BY Powers DEF Word
<1>2. CASE GieSet(w)
  <2>1. (w \div 8) % 2 = 1
    BY <1>2 DEF GieSet
  <2>2. w >= 8
    BY <1>1, <2>1
  <2>3. w - 8 \in Nat /\ w - 8 < 65536
    BY <1>1, <2>2
  <2> QED  BY <1>2, <2>3, Powers DEF WithoutGie, Word
<1>3. CASE ~GieSet(w)
  BY <1>3 DEF WithoutGie
<1> QED  BY <1>2, <1>3

-----------------------------------------------------------------------------
(* The stack in memory.                                                      *)

(* A word pushed below the stack leaves the words above it alone.            *)
LEMMA HeldGrows ==
    ASSUME NEW fs \in Seq(FrameSet), NEW mem \in [Address -> Word], NEW s,
           Held(fs, mem, s), Len(fs) < CellCount, NEW f \in FrameSet
    PROVE  /\ Down(s) \in Address
           /\ [mem EXCEPT ![Down(s)] = f.value] \in [Address -> Word]
           /\ Held(Append(fs, f), [mem EXCEPT ![Down(s)] = f.value], Down(s))
<1> DEFINE after == [mem EXCEPT ![Down(s)] = f.value]
<1>1. Len(fs) \in 0..(CellCount - 1) /\ s = Slot(Len(fs))
  BY Sizes DEF Held
<1>2. Down(s) = Slot(Len(fs) + 1) /\ Down(s) \in Address
  BY <1>1, NextSlot
<1>3. f.value \in Word
  BY DEF FrameSet
<1>4. after \in [Address -> Word] /\ after[Down(s)] = f.value
  BY <1>2, <1>3
<1>5. Len(Append(fs, f)) = Len(fs) + 1
  OBVIOUS
<1>6. ASSUME NEW n \in 1..(Len(fs) + 1)
      PROVE  after[Slot(n)] = Append(fs, f)[n].value
  <2>1. CASE n = Len(fs) + 1
    <3>1. Append(fs, f)[n] = f
      BY <2>1
    <3> QED  BY <2>1, <3>1, <1>2, <1>4
  <2>2. CASE n # Len(fs) + 1
    <3>1. n \in 1..Len(fs) /\ n \in 1..CellCount /\ Len(fs) + 1 \in 1..CellCount
          /\ n - 1 \in 0..(CellCount - 1) /\ (n - 1) + 1 = n
      BY <1>1, <2>2, Sizes
    <3>2. Slot(n) # Slot(Len(fs) + 1)
      BY <2>2, <3>1, SlotsDiffer
    <3>3. Slot(n) \in Address
      BY <3>1, NextSlot
    <3>4. after[Slot(n)] = mem[Slot(n)]
      BY <1>2, <3>2, <3>3
    <3>5. Append(fs, f)[n] = fs[n]
      BY <3>1
    <3>6. mem[Slot(n)] = fs[n].value
      BY <3>1 DEF Held
    <3> QED  BY <3>4, <3>5, <3>6
  <2> QED  BY <2>1, <2>2
<1>7. Held(Append(fs, f), after, Down(s))
  <2> HIDE DEF after
  <2> QED  BY <1>2, <1>5, <1>6 DEF Held
<1> QED  BY <1>2, <1>4, <1>7

(* A prefix of a stack, and where the stack pointer then is.                 *)
LEMMA Prefix ==
    ASSUME NEW fs \in Seq(FrameSet), NEW k \in 0..Len(fs)
    PROVE  /\ SubSeq(fs, 1, k) \in Seq(FrameSet)
           /\ Len(SubSeq(fs, 1, k)) = k
           /\ \A n \in 1..k : SubSeq(fs, 1, k)[n] = fs[n]
<1>1. \A n \in 1..k : fs[n] \in FrameSet
  OBVIOUS
<1>2. /\ SubSeq(fs, 1, k) \in Seq(FrameSet)
      /\ Len(SubSeq(fs, 1, k)) = IF 1 <= k THEN k - 1 + 1 ELSE 0
      /\ \A n \in 1..(k - 1 + 1) : SubSeq(fs, 1, k)[n] = fs[1 + n - 1]
  BY <1>1, SubSeqProperties
<1> QED  BY <1>2

LEMMA HeldShrinks ==
    ASSUME NEW fs \in Seq(FrameSet), NEW mem, NEW s, NEW k \in 0..Len(fs),
           Held(fs, mem, s)
    PROVE  Held(SubSeq(fs, 1, k), mem, Slot(k))
BY Prefix DEF Held

LEMMA WellFormedPrefix ==
    ASSUME NEW fs \in Seq(FrameSet), NEW k \in 0..Len(fs), WellFormed(fs)
    PROVE  WellFormed(SubSeq(fs, 1, k))
<1>1. SUFFICES ASSUME NEW n \in 1..k
               PROVE  LET gs == SubSeq(fs, 1, k)
                      IN  /\ gs[n].kind \in {"called", "interrupted"} => gs[n].value \in Address
                          /\ gs[n].kind = "status" => n > 1 /\ gs[n - 1].kind = "interrupted"
  BY Prefix DEF WellFormed
<1>2. n \in 1..Len(fs) /\ SubSeq(fs, 1, k)[n] = fs[n]
  BY Prefix
<1>3. n > 1 => SubSeq(fs, 1, k)[n - 1] = fs[n - 1]
  BY Prefix
<1> QED  BY <1>2, <1>3 DEF WellFormed

LEMMA WellFormedAppend ==
    ASSUME NEW fs \in Seq(FrameSet), WellFormed(fs), NEW f \in FrameSet,
           f.kind \in {"called", "interrupted"} => f.value \in Address,
           f.kind = "status" => fs # <<>> /\ fs[Len(fs)].kind = "interrupted"
    PROVE  WellFormed(Append(fs, f)) /\ Append(fs, f) \in Seq(FrameSet)
<1> DEFINE gs == Append(fs, f)
<1>1. Len(gs) = Len(fs) + 1 /\ gs \in Seq(FrameSet) /\ Len(fs) \in Nat
  OBVIOUS
<1>2. \A n \in 1..Len(fs) : gs[n] = fs[n]
  OBVIOUS
<1>3. gs[Len(fs) + 1] = f
  OBVIOUS
<1>4. fs # <<>> => Len(fs) > 0
  OBVIOUS
<1>5. ASSUME NEW n \in 1..(Len(fs) + 1)
      PROVE  /\ gs[n].kind \in {"called", "interrupted"} => gs[n].value \in Address
             /\ gs[n].kind = "status" => n > 1 /\ gs[n - 1].kind = "interrupted"
  <2> HIDE DEF gs
  <2>1. CASE n = Len(fs) + 1
    BY <1>1, <1>2, <1>3, <1>4, <2>1
  <2>2. CASE n \in 1..Len(fs)
    BY <1>1, <1>2, <2>2 DEF WellFormed
  <2> QED  BY <1>1, <2>1, <2>2
<1> QED
  <2> HIDE DEF gs
  <2> QED  BY <1>1, <1>5 DEF WellFormed

-----------------------------------------------------------------------------
(* The steps.                                                                *)

LEMMA CapacityFits == Capacity \in Nat /\ Capacity <= CellCount
BY FramesAssumption

LEMMA PushKeeps ==
    ASSUME StackInv, Room(1), NEW f \in FrameSet,
           f.kind \in {"pushed", "called"}, f.kind = "called" => f.value \in Address,
           frames' = Append(frames, f), sp' = Down(sp),
           memory' = [memory EXCEPT ![sp'] = f.value]
    PROVE  StackInv'
<1>1. Len(frames) + 1 <= Capacity /\ Len(frames) < CellCount /\ Len(frames') = Len(frames) + 1
  BY CapacityFits, Sizes DEF Room, StackInv
<1>2. /\ Down(sp) \in Address
      /\ [memory EXCEPT ![Down(sp)] = f.value] \in [Address -> Word]
      /\ Held(Append(frames, f), [memory EXCEPT ![Down(sp)] = f.value], Down(sp))
  BY <1>1, HeldGrows DEF StackInv
<1>3. WellFormed(Append(frames, f)) /\ Append(frames, f) \in Seq(FrameSet)
  BY WellFormedAppend DEF StackInv
<1>4. Held(frames', memory', sp')
  BY <1>2
<1>5. WellFormed(frames')
  BY <1>3
<1> QED  BY <1>1, <1>2, <1>3, <1>4, <1>5 DEF StackInv, Held, WellFormed

(* The words on top, and the stack without k of them.                        *)
LEMMA PopKeeps ==
    ASSUME StackInv, NEW k \in 1..2, k <= Len(frames), frames' = Below(k),
           sp' = IF k = 1 THEN Up(sp) ELSE Up(Up(sp)), UNCHANGED memory
    PROVE  StackInv'
<1>1. Len(frames) \in 1..CellCount /\ Len(frames) - k \in 0..Len(frames)
  BY CapacityFits, Sizes DEF StackInv
<1>2. sp = Slot(Len(frames))
  BY DEF StackInv, Held
<1>3. Up(sp) = Slot(Len(frames) - 1) /\ Slot(Len(frames) - 1) \in Address
  <2>1. Len(frames) - 1 \in 0..(CellCount - 1) /\ (Len(frames) - 1) + 1 = Len(frames)
    BY <1>1, Sizes
  <2> QED  BY <1>2, <2>1, NextSlot
<1>4. k = 2 => Up(Up(sp)) = Slot(Len(frames) - 2) /\ Slot(Len(frames) - 2) \in Address
  <2> SUFFICES ASSUME k = 2 PROVE Up(Up(sp)) = Slot(Len(frames) - 2) /\ Slot(Len(frames) - 2) \in Address
    OBVIOUS
  <2>1. Len(frames) - 2 \in 0..(CellCount - 1) /\ (Len(frames) - 2) + 1 = Len(frames) - 1
    BY <1>1, Sizes
  <2> QED  BY <1>3, <2>1, NextSlot
<1>5. sp' = Slot(Len(frames) - k) /\ sp' \in Address
  BY <1>3, <1>4
<1>6. Held(Below(k), memory, Slot(Len(frames) - k))
  BY <1>1, HeldShrinks DEF StackInv, Below
<1>7. WellFormed(Below(k)) /\ Below(k) \in Seq(FrameSet) /\ Len(Below(k)) = Len(frames) - k
  BY <1>1, WellFormedPrefix, Prefix DEF StackInv, Below
<1>8. Held(frames', memory', sp') /\ WellFormed(frames')
  BY <1>5, <1>6, <1>7
<1>9. Len(frames') <= Capacity
  BY <1>1, <1>7, CapacityFits DEF StackInv
<1> QED  BY <1>5, <1>7, <1>8, <1>9 DEF StackInv, Held, WellFormed

(* What the machine finds on top of its stack.                               *)
LEMMA OnTop ==
    ASSUME StackInv, NEW kind, TopIs(kind)
    PROVE  /\ memory[sp] = Top.value /\ Top.value \in Word
           /\ 1 <= Len(frames)
           /\ kind \in {"called", "interrupted"} => Top.value \in Address
<1>1. Len(frames) \in 1..Len(frames) /\ frames[Len(frames)] \in FrameSet
  BY DEF StackInv, TopIs
<1> QED  BY <1>1 DEF StackInv, Held, WellFormed, TopIs, Top, FrameSet

LEMMA UnderStatus ==
    ASSUME StackInv, TopIs("status")
    PROVE  /\ 2 <= Len(frames)
           /\ memory[Up(sp)] = frames[Len(frames) - 1].value
           /\ frames[Len(frames) - 1].value \in Address
<1>1. Len(frames) \in 1..Len(frames)
  BY OnTop DEF StackInv
<1>2. Len(frames) > 1 /\ frames[Len(frames) - 1].kind = "interrupted"
  BY <1>1 DEF StackInv, WellFormed, TopIs, Top
<1>3. Len(frames) - 1 \in 1..Len(frames) /\ Len(frames) - 1 \in 0..(CellCount - 1)
      /\ (Len(frames) - 1) + 1 = Len(frames)
  BY <1>2, CapacityFits, Sizes DEF StackInv
<1>4. Up(sp) = Slot(Len(frames) - 1)
  BY <1>3, NextSlot DEF StackInv, Held
<1> QED  BY <1>2, <1>3, <1>4 DEF StackInv, Held, WellFormed

(* interrupt_step() pushes twice.                                            *)
LEMMA EnterKeeps ==
    ASSUME StackInv, Room(2), pc \in Address, sr \in Word,
           frames' = frames \o <<Frame("interrupted", pc), Frame("status", sr)>>,
           sp' = Down(Down(sp)),
           memory' = [memory EXCEPT ![Down(sp)] = pc, ![sp'] = sr]
    PROVE  StackInv'
<1> DEFINE f == Frame("interrupted", pc)
           g == Frame("status", sr)
           fs == Append(frames, f)
           mem == [memory EXCEPT ![Down(sp)] = pc]
<1>1. f \in FrameSet /\ f.kind = "interrupted" /\ f.value = pc
  BY AddressIsWord DEF Frame, FrameSet, Kind
<1>2. g \in FrameSet /\ g.kind = "status" /\ g.value = sr
  BY DEF Frame, FrameSet, Kind
<1> HIDE DEF f, g
<1>3. Len(frames) + 2 <= Capacity /\ Len(frames) + 1 < CellCount /\ Len(frames) \in Nat
  BY CapacityFits, Sizes DEF Room, StackInv
<1>4. Down(sp) \in Address /\ mem \in [Address -> Word] /\ Held(fs, mem, Down(sp))
  <2>1. mem = [memory EXCEPT ![Down(sp)] = f.value]
    BY <1>1
  <2>2. Len(frames) < CellCount
    BY <1>3, Sizes
  <2> HIDE DEF mem
  <2>3. /\ Down(sp) \in Address
        /\ [memory EXCEPT ![Down(sp)] = f.value] \in [Address -> Word]
        /\ Held(Append(frames, f), [memory EXCEPT ![Down(sp)] = f.value], Down(sp))
    BY <1>1, <2>2, HeldGrows DEF StackInv
  <2> QED  BY <2>1, <2>3
<1>5. WellFormed(fs) /\ fs \in Seq(FrameSet) /\ Len(fs) = Len(frames) + 1
  BY <1>1, WellFormedAppend DEF StackInv
<1>6. fs # <<>> /\ fs[Len(fs)] = f
  BY <1>1 DEF StackInv
<1>7. frames' = Append(fs, g)
  BY <1>1, <1>2 DEF StackInv, f, g
<1>8. memory' = [mem EXCEPT ![Down(Down(sp))] = g.value]
  BY <1>2
<1> HIDE DEF fs, mem
<1>9. /\ Down(Down(sp)) \in Address
      /\ [mem EXCEPT ![Down(Down(sp))] = g.value] \in [Address -> Word]
      /\ Held(Append(fs, g), [mem EXCEPT ![Down(Down(sp))] = g.value], Down(Down(sp)))
  BY <1>2, <1>3, <1>4, <1>5, HeldGrows
<1>10. WellFormed(Append(fs, g)) /\ Append(fs, g) \in Seq(FrameSet)
  BY <1>1, <1>2, <1>5, <1>6, WellFormedAppend
<1>11. Len(Append(fs, g)) <= Capacity
  BY <1>3, <1>5
<1>12. Held(frames', memory', sp') /\ WellFormed(frames')
  BY <1>7, <1>8, <1>9, <1>10
<1> QED  BY <1>7, <1>8, <1>9, <1>10, <1>11, <1>12 DEF StackInv, Held, WellFormed

(* A store beside the stack.                                                 *)
LEMMA StoreKeeps ==
    ASSUME StackInv, r \in Word, NEW a \in Address,
           a \notin {Slot(n) : n \in 1..Len(frames)},
           memory' = [memory EXCEPT ![a] = r], UNCHANGED <<frames, sp>>
    PROVE  StackInv'
<1>1. \A n \in 1..Len(frames) : memory'[Slot(n)] = memory[Slot(n)]
  <2>1. SUFFICES ASSUME NEW n \in 1..Len(frames) PROVE memory'[Slot(n)] = memory[Slot(n)]
    OBVIOUS
  <2>2. n - 1 \in 0..(CellCount - 1) /\ (n - 1) + 1 = n
    BY CapacityFits, Sizes DEF StackInv
  <2>3. Slot(n) \in Address /\ Slot(n) # a
    BY <2>2, NextSlot
  <2> QED  BY <2>3 DEF StackInv
<1>2. Held(frames', memory', sp')
  BY <1>1 DEF StackInv, Held
<1> QED  BY <1>2 DEF StackInv, Held, WellFormed

LEMMA StackUnchanged ==
    ASSUME StackInv, UNCHANGED <<frames, memory, sp>>
    PROVE  StackInv'
BY DEF StackInv, Held, WellFormed

(* The invariant holds at the start and is kept by every step.               *)
LEMMA Initially == MachineInit => IInv
<1> SUFFICES ASSUME MachineInit PROVE IInv
  OBVIOUS
<1>1. sp = Slot(0)
  <2>1. PICK b \in 0..(CellCount - 1) : Base = 2 * b
    BY BaseCell
  <2>2. Slot(0) = Cell(b - 0)
    BY <2>1, SlotCell, Sizes
  <2> QED  BY <2>1, <2>2, Sizes DEF Cell, MachineInit
<1>2. 0 \in Word
  BY Powers DEF Word
<1>3. frames = <<>> /\ frames \in Seq(FrameSet) /\ Len(frames) = 0
  BY DEF MachineInit
<1>4. Held(frames, memory, sp) /\ WellFormed(frames)
  BY <1>1, <1>3 DEF Held, WellFormed
<1>5. memory \in [Address -> Word] /\ sp \in Address
  BY <1>2, CallStackAssumption DEF MachineInit
<1>6. pc \in Address /\ sr \in Word /\ r \in Word
  BY CallStackAssumption DEF MachineInit
<1> QED  BY <1>3, <1>4, <1>5, <1>6, CapacityFits DEF IInv, StackInv

LEMMA Stepwise == IInv /\ [MachineNext]_allVars => IInv'
<1> SUFFICES ASSUME IInv, [MachineNext]_allVars PROVE IInv'
  OBVIOUS
<1>1. CASE DoPush
  <2>1. Frame("pushed", r) \in FrameSet /\ Frame("pushed", r).kind = "pushed"
        /\ Frame("pushed", r).value = r
    BY DEF IInv, Frame, FrameSet, Kind
  <2>2. StackInv'
    BY <1>1, <2>1, PushKeeps DEF IInv, DoPush
  <2> QED  BY <1>1, <2>2, BehindIsAddress DEF IInv, DoPush, Behind
<1>2. CASE DoPop
  <2>1. StackInv'
    BY <1>2, OnTop, PopKeeps DEF IInv, DoPop
  <2> QED  BY <1>2, <2>1, OnTop, BehindIsAddress DEF IInv, DoPop, Behind
<1>3. CASE DoCall
  <2>1. PICK words \in {1, 2}, dst \in Address :
           /\ Room(1)
           /\ sp' = Down(sp)
           /\ memory' = [memory EXCEPT ![sp'] = Behind(words)]
           /\ pc' = dst
           /\ frames' = Append(frames, Frame("called", Behind(words)))
           /\ UNCHANGED <<sr, r>>
    BY <1>3 DEF DoCall
  <2>2. Behind(words) \in Address
    BY BehindIsAddress DEF IInv, Behind
  <2>3. Frame("called", Behind(words)) \in FrameSet
        /\ Frame("called", Behind(words)).kind = "called"
        /\ Frame("called", Behind(words)).value = Behind(words)
    BY <2>2, AddressIsWord DEF Frame, FrameSet, Kind
  <2>4. StackInv'
    BY <2>1, <2>2, <2>3, PushKeeps DEF IInv
  <2> QED  BY <2>1, <2>4 DEF IInv
<1>4. CASE DoReturn
  <2>1. StackInv'
    BY <1>4, OnTop, PopKeeps DEF IInv, DoReturn
  <2> QED  BY <1>4, <2>1, OnTop DEF IInv, DoReturn
<1>5. CASE DoEnter
  <2>1. StackInv'
    BY <1>5, EnterKeeps DEF IInv, DoEnter
  <2> QED  BY <1>5, <2>1, WithoutGieIsWord DEF IInv, DoEnter
<1>6. CASE DoReti
  <2>1. StackInv'
    BY <1>6, UnderStatus, PopKeeps DEF IInv, DoReti
  <2> QED  BY <1>6, <2>1, OnTop, UnderStatus DEF IInv, DoReti
<1>7. CASE Compute
  <2>1. StackInv'
    BY <1>7, StackUnchanged DEF IInv, Compute
  <2> QED  BY <1>7, <2>1, BehindIsAddress, CallStackAssumption DEF IInv, Compute, Behind
<1>8. CASE Store
  <2>1. StackInv'
    BY <1>8, StoreKeeps DEF IInv, Store
  <2> QED  BY <1>8, <2>1, BehindIsAddress DEF IInv, Store, Behind
<1>9. CASE Jump
  <2>1. StackInv'
    BY <1>9, StackUnchanged DEF IInv, Jump
  <2> QED  BY <1>9, <2>1 DEF IInv, Jump
<1>10. CASE UNCHANGED allVars
  <2>1. StackInv'
    BY <1>10, StackUnchanged DEF IInv, allVars
  <2> QED  BY <1>10, <2>1 DEF IInv, allVars
<1> QED
  BY <1>1, <1>2, <1>3, <1>4, <1>5, <1>6, <1>7, <1>8, <1>9, <1>10 DEF MachineNext

THEOREM Inductive == MachineSpec => []IInv
BY Initially, Stepwise, PTL DEF MachineSpec

-----------------------------------------------------------------------------
(* Every variable keeps its type: registers hold words, the program counter  *)
(* and the stack pointer addresses (core/registerFile.h, core/memoryRef.h).  *)
THEOREM TypeCorrect == MachineSpec => []TypeOK
<1>1. IInv => TypeOK
  BY DEF IInv, StackInv, TypeOK, FrameSet
<1> QED  BY <1>1, Inductive, PTL

(* Calls, pushes and interrupts keep their words on the stack, in order and  *)
(* untouched, and the stack pointer with them (pipeline.h 85-101,            *)
(* instructions.h 321-342).                                                  *)
THEOREM StackHolds == MachineSpec => []StackInMemory
<1>1. IInv => StackInMemory
  BY DEF IInv, StackInv, Held, StackInMemory
<1> QED  BY <1>1, Inductive, PTL

(* The machine implements the stack of Frames: calls return behind the call, *)
(* POP gives what PUSH took, and an interrupt is invisible to the program    *)
(* (pipeline.h 85-101, instructions.h 321-342).                              *)
THEOREM ImplementsFrames == MachineSpec => FramesSpec
<1>1. MachineInit => Init
  BY CallStackAssumption DEF MachineInit, Init
<1>2. IInv /\ [MachineNext]_allVars => [Next]_vars
  <2> SUFFICES ASSUME IInv, [MachineNext]_allVars PROVE [Next]_vars
    OBVIOUS
  <2>1. CASE DoPush
    BY <2>1 DEF DoPush, Push, Next
  <2>2. CASE DoPop
    BY <2>2, OnTop DEF IInv, DoPop, Pop, Next
  <2>3. CASE DoCall
    <3>1. Call
      BY <2>3 DEF DoCall, Call
    <3> QED  BY <3>1 DEF Next
  <2>4. CASE DoReturn
    BY <2>4, OnTop DEF IInv, DoReturn, Return, Next
  <2>5. CASE DoEnter
    <3>1. Enter
      BY <2>5 DEF DoEnter, Enter
    <3> QED  BY <3>1 DEF Next
  <2>6. CASE DoReti
    BY <2>6, OnTop, UnderStatus DEF IInv, DoReti, Reti, Next
  <2>7. CASE Compute
    BY <2>7, BehindIsAddress, CallStackAssumption DEF IInv, Compute, Behind, Other, Next
  <2>8. CASE Store
    BY <2>8, BehindIsAddress DEF IInv, Store, Behind, Other, Next
  <2>9. CASE Jump
    BY <2>9 DEF IInv, Jump, Other, Next
  <2>10. CASE UNCHANGED allVars
    BY <2>10 DEF allVars, vars
  <2> QED
    BY <2>1, <2>2, <2>3, <2>4, <2>5, <2>6, <2>7, <2>8, <2>9, <2>10 DEF MachineNext
<1> QED  BY <1>1, <1>2, Inductive, PTL DEF MachineSpec, FramesSpec, Spec
=============================================================================
