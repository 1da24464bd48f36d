------------------------------- MODULE Hex430 -------------------------------
(***************************************************************************)
(* TI-TXT program files (utils/hex430parser.h): read_stream(), one         *)
(* character at a time, on whatever a file may hold, and write_stream(),   *)
(* which gives the text of a program.                                      *)
(*                                                                         *)
(* A file is "@" and an address, lines of bytes, and "q" at the end.       *)
(* Numbers have the digits of Digit instead of sixteen, an address has     *)
(* AddressDigits of them.                                                  *)
(***************************************************************************)
EXTENDS Integers, SequencesExt

CONSTANTS Digit,          \* the digits, the n-th of them worth n - 1
          AddressDigits,  \* digits of an address: 4
          LineSize,       \* bytes on a line: 16
          ProgramSet,     \* the programs that are written
          Text            \* other texts a file may hold

Eof == "eof"
Base == Len(Digit)
Byte == 0..(Base * Base - 1)
Power[n \in 0..AddressDigits] == IF n = 0 THEN 1 ELSE Base * Power[n - 1]
AddressCount == Power[AddressDigits]
Fragment == [address : 0..(AddressCount - 1), bytes : Seq(Byte)]
Character == {"@", "q", " ", "\n", "\r"} \cup Range(Digit)

ASSUME HexAssumption ==
    /\ Digit \in Seq(STRING) /\ Base >= 2
    /\ \A i, j \in DOMAIN Digit : Digit[i] = Digit[j] => i = j
    /\ Range(Digit) \cap {"@", "q", " ", "\n", "\r", Eof} = {}
    /\ AddressDigits \in Nat /\ AddressDigits >= 2
    /\ LineSize \in {n \in Nat : n > 0 /\ n % 2 = 0}
    /\ ProgramSet \subseteq Seq(Fragment)
    /\ Text \subseteq Seq(Character)

VARIABLES
    program,      \* the program the file was written from
    origin,       \* who wrote the file
    text,         \* what is left to read of it
    mode,         \* where the reader is
    number,       \* characters of the address or byte at hand
    byte_buffer,  \* bytes of the pair at hand
    bytes,        \* bytes of the line at hand
    fragments     \* what was read, the current fragment the last of them
vars == <<program, origin, text, mode, number, byte_buffer, bytes, fragments>>
line == <<number, byte_buffer, bytes>>

-----------------------------------------------------------------------------
(* std::stoi with base 16: leading blanks are skipped, the digits up to the  *)
(* first other character count, and it throws if there is none or if the     *)
(* value is more than an int (eight digits with the first bit set).          *)
From(s, i) == IF i = 0 THEN <<>> ELSE SubSeq(s, i, Len(s))
Skip(s, set) == From(s, SelectInSeq(s, LAMBDA c : c \notin set))
DigitsOf(s) ==
    LET rest == Skip(s, {" ", "\n", "\r"})
        end == SelectInSeq(rest, LAMBDA c : c \notin Range(Digit))
    IN  IF end = 0 THEN rest ELSE SubSeq(rest, 1, end - 1)
Worth(c) == (CHOOSE i \in DOMAIN Digit : Digit[i] = c) - 1
Number(digits) ==
    LET upTo[n \in 0..Len(digits)] ==
            IF n = 0 THEN 0 ELSE Base * upTo[n - 1] + Worth(digits[n])
    IN  upTo[Len(digits)]
Value(s) == Number(DigitsOf(s))
Throws(s) == DigitsOf(s) = <<>> \/ 2 * Value(s) >= AddressCount * AddressCount

-----------------------------------------------------------------------------
(* Numbers of a fixed number of digits, the last one first.                  *)
HexNumber[n \in 0..AddressDigits] ==
    [v \in Nat |-> IF n = 0 THEN <<>>
                   ELSE Append(HexNumber[n - 1][v \div Base], Digit[(v % Base) + 1])]
HexByte(b) == HexNumber[2][b]
HexAddress(a) == HexNumber[AddressDigits][a]

(* write_stream(): a newline before every LineSize-th byte, and after the    *)
(* last one only when its line is not full.                                  *)
If(test, s) == IF test THEN s ELSE <<>>

WriteBytesMut(bs) ==
    FlattenSeq([i \in DOMAIN bs |->
        If(i > 1 /\ i % LineSize = 1, <<"\n">>) \o HexByte(bs[i])
            \o If(i < Len(bs), <<" ">>)]) \o If(bs /= <<>>, <<"\n">>)
WriteBytes(bs) ==
    FlattenSeq([i \in DOMAIN bs |->
        If(i > 1 /\ i % LineSize = 1, <<"\n">>) \o HexByte(bs[i])
            \o If(i < Len(bs), <<" ">>)]) \o If(Len(bs) % LineSize > 0, <<"\n">>)
WriteStream(p) ==
    FlattenSeq([i \in DOMAIN p |-> <<"@">> \o HexAddress(p[i].address) \o <<"\n">>
                                       \o WriteBytes(p[i].bytes)]) \o <<"q", "\n">>

(* The same program as TI's tools write it: every line is ended, by eol.     *)
TiBytes(bs, eol) ==
    FlattenSeq([i \in DOMAIN bs |->
        HexByte(bs[i]) \o IF i % LineSize = 0 \/ i = Len(bs) THEN eol ELSE <<" ">>])
TiText(p, eol) ==
    FlattenSeq([i \in DOMAIN p |-> <<"@">> \o HexAddress(p[i].address) \o eol
                                       \o TiBytes(p[i].bytes, eol)]) \o <<"q">> \o eol

-----------------------------------------------------------------------------
Init ==
    /\ \/ /\ program \in ProgramSet
          /\ \/ origin = "writer" /\ text = WriteStream(program)
             \/ origin = "ti" /\ \E eol \in {<<"\n">>, <<"\r", "\n">>} : text = TiText(program, eol)
       \/ program = <<>> /\ origin = "other" /\ text \in Text
    /\ mode = "part"
    /\ number = <<>> /\ byte_buffer = <<>> /\ bytes = <<>> /\ fragments = <<>>

(* ifs.get(): at the end of the file it goes on answering Eof.               *)
Char == IF text = <<>> THEN Eof ELSE Head(text)
Get ==
    /\ text' = IF text = <<>> THEN <<>> ELSE Tail(text)
    /\ UNCHANGED <<program, origin>>

(* read_stream_part(): the first character says what the part is.            *)
ReadPart ==
    /\ mode = "part" /\ Get /\ UNCHANGED fragments
    /\ \/ Char \in {Eof, "q"} /\ mode' = "done" /\ UNCHANGED line
       \/ Char = "@" /\ mode' = "address" /\ number' = <<>> /\ UNCHANGED <<byte_buffer, bytes>>
       \/ /\ Char \notin {Eof, "q", "@"} /\ mode' = "line"
          /\ number' = <<Char>> /\ byte_buffer' = <<>> /\ bytes' = <<>>

(* The characters of an address, the end of the file among them: the loop    *)
(* looks for a blank or a newline only.  (What the end of the file appends   *)
(* is left out, nobody will see it.)                                         *)
ReadAddressDigit ==
    /\ mode = "address" /\ Char \notin {" ", "\n"} /\ Get
    /\ number' = IF Char = Eof THEN number ELSE Append(number, Char)
    /\ UNCHANGED <<mode, byte_buffer, bytes, fragments>>

(* new_fragment(), with the address cut to 16 bits; or stoi throws, and the  *)
(* exception leaves read_stream().                                           *)
ReadAddressEndMut ==
    /\ mode = "address" /\ Char \in {" ", "\n"} /\ Get /\ UNCHANGED line
    /\ \/ Throws(number) /\ mode' = "failed" /\ UNCHANGED fragments
       \/ /\ ~Throws(number) /\ mode' = "part"
          /\ fragments' = Append(fragments, [address |-> Value(number), bytes |-> <<>>])
ReadAddressEnd ==
    /\ mode = "address" /\ Char \in {" ", "\n"} /\ Get /\ UNCHANGED line
    /\ \/ Throws(number) /\ mode' = "failed" /\ UNCHANGED fragments
       \/ /\ ~Throws(number) /\ mode' = "part"
          /\ fragments' = Append(fragments,
                                 [address |-> Value(number) % AddressCount, bytes |-> <<>>])

ReadBlank ==
    /\ mode = "line" /\ Char \in {" ", "\r"} /\ Get
    /\ UNCHANGED <<mode, number, byte_buffer, bytes, fragments>>

(* A character of a byte.  The second completes it, the second byte of a     *)
(* pair completes the pair, which goes into the line in reverse.             *)
PushPairMut(pair) == IF Len(pair) = 2 THEN /\ bytes' = bytes \o pair
                                          /\ byte_buffer' = <<>>
                                     ELSE byte_buffer' = pair /\ UNCHANGED bytes
PushPair(pair) == IF Len(pair) = 2 THEN /\ bytes' = bytes \o Reverse(pair)
                                       /\ byte_buffer' = <<>>
                                  ELSE byte_buffer' = pair /\ UNCHANGED bytes

ReadNibble ==
    /\ mode = "line" /\ Char \notin {" ", "\r", "\n", Eof} /\ Get /\ UNCHANGED fragments
    /\ LET both == Append(number, Char)
       IN  \/ Len(both) = 1 /\ number' = both /\ UNCHANGED <<mode, byte_buffer, bytes>>
           \/ /\ Len(both) = 2 /\ Throws(both) /\ mode' = "failed"
              /\ UNCHANGED line
           \/ /\ Len(both) = 2 /\ ~Throws(both) /\ number' = <<>>
              /\ PushPair(Append(byte_buffer, Value(both)))
              /\ UNCHANGED mode

(* The end of the line: a byte without a partner goes in as it is, half a    *)
(* byte is dropped, and so is a line before the first address (push_bytes).  *)
ReadNewline ==
    /\ mode = "line" /\ Char = "\n" /\ Get
    /\ mode' = "part"
    /\ fragments' =
          IF fragments = <<>> THEN <<>>
          ELSE [fragments EXCEPT ![Len(fragments)].bytes = @ \o bytes \o byte_buffer]
    /\ UNCHANGED line

(* The end of the file inside a line: characters of -1 are appended until    *)
(* two of them are a byte, for which stoi throws.                            *)
ReadCutLineMut ==
    /\ mode = "line" /\ Char = Eof
    /\ UNCHANGED vars
ReadCutLine ==
    /\ mode = "line" /\ Char = Eof /\ Get
    /\ mode' = "failed"
    /\ UNCHANGED <<number, byte_buffer, bytes, fragments>>

Read == \/ ReadPart \/ ReadAddressDigit \/ ReadAddressEnd
        \/ ReadBlank \/ ReadNibble \/ ReadNewline \/ ReadCutLine
Next == Read
Spec == Init /\ [][Next]_vars /\ WF_vars(Read)

-----------------------------------------------------------------------------
(* The reader's state has its type; an address has 16 bits, a byte is one,   *)
(* and a pair is never left standing.                                        *)
TypeOK ==
    /\ program \in ProgramSet \cup {<<>>}
    /\ origin \in {"writer", "ti", "other"}
    /\ text \in Seq(Character) /\ number \in Seq(Character)
    /\ mode \in {"part", "address", "line", "done", "failed"}
    /\ Len(byte_buffer) < 2 /\ byte_buffer \in Seq(Byte) /\ bytes \in Seq(Byte)
    /\ fragments \in Seq(Fragment)

(* A file of TI's tools is read whole, with either newline, and each of its  *)
(* little-endian words is found by the emulator, which keeps words           *)
(* big-endian (memory_set_bytes_get_word in the tests), as long as the       *)
(* fragment begins at an even address.                                       *)
TiWordsAreRead ==
    origin = "ti" =>
        /\ mode /= "failed"
        /\ mode = "done" =>
            /\ Len(fragments) = Len(program)
            /\ \A i \in DOMAIN program :
                LET ti == program[i].bytes
                    in == fragments[i].bytes
                IN  /\ fragments[i].address = program[i].address
                    /\ Len(in) = Len(ti)
                    /\ \A k \in 1..(Len(ti) - 1) :
                        k % 2 = 1 => in[k] = ti[k + 1] /\ in[k + 1] = ti[k]

(* What write_stream() wrote is read as TI's file of the same program would  *)
(* be, except that a full last line runs into the next "@", and then the     *)
(* read fails.  It fails for no other reason.                                *)
Glued(p) == \E i \in 1..(Len(p) - 1) :
                Len(p[i].bytes) > 0 /\ Len(p[i].bytes) % LineSize = 0
WrittenReadsUnlessGlued ==
    origin = "writer" =>
        /\ mode = "failed" => Glued(program)
        /\ mode = "done" =>
            /\ ~Glued(program)
            /\ Len(fragments) = Len(program)
            /\ \A i \in DOMAIN program :
                /\ fragments[i].address = program[i].address
                /\ Len(fragments[i].bytes) = Len(program[i].bytes)
                /\ \A k \in DOMAIN program[i].bytes :
                    fragments[i].bytes[k] =
                        IF k % 2 = 0 THEN program[i].bytes[k - 1]
                        ELSE IF k = Len(program[i].bytes) THEN program[i].bytes[k]
                        ELSE program[i].bytes[k + 1]

(* Reading ends, whatever the file holds, unless the file ends inside an     *)
(* address: for that one there is no way out of the loop.                    *)
ReadEndsUnlessCutInAddress ==
    <>(mode \in {"done", "failed"}) \/ <>[](mode = "address" /\ text = <<>>)
=============================================================================
