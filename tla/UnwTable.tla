------------------------------ MODULE UnwTable ------------------------------
(***************************************************************************)
(* What unwind/unw_table.rs reads out of the sections .ARM.exidx and       *)
(* .ARM.extab: position-relative pointers, index entries, table entries    *)
(* and unwind instructions.  Everything here is a pure function of bytes.  *)
(*                                                                         *)
(* A slice of a section is the address of its first byte and its bytes.    *)
(* Addresses are below 2^31, so that the wrapping additions of the code    *)
(* are plain ones.  An iterator over bytes is the sequence of the bytes it *)
(* has yet to yield, and a register mask is a set of register numbers.     *)
(* Numbers of 28 bits or more, longer than any function, are not told      *)
(* apart.                                                                  *)
(***************************************************************************)
EXTENDS Integers, Sequences

Byte(s, i) == s.bytes[i + 1]
Slice(s, from, to) ==
    [addr |-> s.addr + from, bytes |-> SubSeq(s.bytes, from + 1, to)]
Size(s) == Len(s.bytes)

Err == [tag |-> "err"]
\* Stands for every number that does not fit into 28 bits.
Wide == 2^28
\* The registers of the bits that are set in the low bits of n.
Bits(n, width, shift) ==
    {shift + i : i \in {j \in 0 .. width - 1 : (n \div 2^j) % 2 = 1}}

-----------------------------------------------------------------------------
\* Prel31: the low 31 bits are a signed offset from the place of the word.
is_msb_set(s) == Byte(s, 3) >= 128
offset_value(s) ==
    LET low == Byte(s, 0) + 256 * Byte(s, 1) + 65536 * Byte(s, 2)
               + 16777216 * (Byte(s, 3) % 128)
    IN  IF Byte(s, 3) % 128 < 64 THEN low ELSE (low - 2^30) - 2^30
value(s) == s.addr + offset_value(s)

\* UnwindByteIter: words upwards, and the bytes of a word downwards.
ReadOrder(bytes) ==
    [i \in 1 .. Len(bytes) |-> bytes[4 * ((i - 1) \div 4) + 4 - ((i - 1) % 4)]]
Skip(n, bytes) == SubSeq(bytes, n + 1, Len(bytes))

\* ExIdxEntryContent::from_raw
from_raw(s) ==
    IF s.bytes = <<1, 0, 0, 0>> THEN [tag |-> "cant_unwind"]
    ELSE IF is_msb_set(s)
         THEN [tag |-> "compact", personality |-> Byte(s, 3) % 16,
               instrs |-> Skip(1, ReadOrder(s.bytes))]
         ELSE [tag |-> "extab", addr |-> value(s)]

\* ExIdxEntry::from_bytes: the function and how it is unwound.
ExIdxEntry(s) ==
    IF is_msb_set(Slice(s, 0, 4)) THEN Err
    ELSE [tag |-> "ok", func_addr |-> value(Slice(s, 0, 4)),
          content |-> from_raw(Slice(s, 4, 8))]

\* ExTabEntry::from_bytes: the instructions from byte `skip` of the words
\* between `from` and `to`, and what follows them.  A slice that ends behind
\* the section is a panic inside the unwinder, which halts like an error.
ExTabWords(extab, personality, from, skip, to) ==
    IF to > Size(extab) THEN Err
    ELSE [tag |-> "ok", personality |-> personality,
          instrs |-> Skip(skip, ReadOrder(Slice(extab, from, to).bytes)),
          lsda |-> Skip(to, extab.bytes)]
ExTabEntry(extab, off) ==
    LET pers == Byte(extab, off + 3)
    IN  IF off % 4 # 0 THEN Err
        ELSE IF pers < 128
        THEN ExTabWords(extab, value(Slice(extab, off, off + 4)), off + 4, 1,
                        off + 8 + 4 * Byte(extab, off + 7))
        ELSE CASE pers % 16 \in {1, 2} ->
                     ExTabWords(extab, pers % 16, off, 2,
                                off + 4 + 4 * Byte(extab, off + 2))
               [] pers % 16 = 0 -> ExTabWords(extab, 0, off, 1, off + 4)
               [] OTHER -> Err

-----------------------------------------------------------------------------
\* Unwind instructions.
DataPop(n) == [tag |-> "DataPop", size |-> n]
DataPush(n) == [tag |-> "DataPush", size |-> n]
RegPop(mask) == [tag |-> "RegPop", mask |-> mask]
RegToSp(r) == [tag |-> "RegToSp", reg_num |-> r]
VfpPop(r, n) == [tag |-> "VfpPop", start_reg_num |-> r, count |-> n]
Plain(tag) == [tag |-> tag]  \* Finish, Refused, Reserved, Unimplemented, Error

\* A number in groups of 7 bits, the low one first, that starts at place k:
\* how many bytes it has (0 if it has no end) and its value.
UlebLen(bytes, k) ==
    LET ends == {n \in 1 .. Len(bytes) - k + 1 : bytes[k + n - 1] < 128}
    IN  IF ends = {} THEN 0 ELSE CHOOSE n \in ends : \A m \in ends : n <= m
UlebVal(bytes, k, len) ==
    LET val[n \in 0 .. 4] ==
            IF n = 0 THEN 0
            ELSE val[n - 1] + (bytes[k + n - 1] % 128) * 2^(7 * (n - 1))
    IN  IF \E n \in 5 .. len : bytes[k + n - 1] % 128 # 0 THEN Wide
        ELSE val[IF len < 4 THEN len ELSE 4]

\* UnwindInstruction::step_iter: the instruction at the front of the bytes and
\* how many bytes it takes.  One that lacks its second byte is an Error.
step_iter(bytes) ==
    LET op == Head(bytes)
        op2 == bytes[2]
        two(instr) == IF Len(bytes) < 2 THEN <<Plain("Error"), 1>> ELSE <<instr, 2>>
        uleb == UlebLen(bytes, 2)
    IN  CASE op < 64 -> <<DataPop(4 * op + 4), 1>>
          [] op \in 64 .. 127 -> <<DataPush(4 * (op - 64) + 4), 1>>
          [] op \in 128 .. 143 ->
                 two(IF op = 128 /\ op2 = 0 THEN Plain("Refused")
                     ELSE RegPop(Bits(256 * (op % 16) + op2, 12, 4)))
          [] op \in {157, 159} -> <<Plain("Reserved"), 1>>
          [] op \in (144 .. 159) \ {157, 159} -> <<RegToSp(op % 16), 1>>
          [] op \in 160 .. 175 ->
                 <<RegPop((4 .. 4 + (op % 8)) \union (IF op >= 168 THEN {14} ELSE {})), 1>>
          [] op = 176 -> <<Plain("Finish"), 1>>
          [] op = 177 ->
                 two(IF op2 \in 1 .. 15 THEN RegPop(Bits(op2, 4, 0))
                     ELSE Plain("Reserved"))
          [] op = 178 ->
                 IF uleb = 0 THEN <<Plain("Error"), Len(bytes)>>
                 ELSE <<DataPop(4 * UlebVal(bytes, 2, uleb) + 516), 1 + uleb>>
          [] op = 200 -> two(VfpPop((op2 \div 16) + 16, (op2 % 16) + 1))
          [] op = 201 -> two(VfpPop(op2 \div 16, (op2 % 16) + 1))
          [] OTHER -> <<Plain("Unimplemented"), 1>>
=============================================================================
