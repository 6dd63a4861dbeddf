------------------------------ MODULE UnwLsda ------------------------------
(***************************************************************************)
(* What unwind/unw_lsda.rs reads out of the language-specific data area of *)
(* a function: two headers and the call-site table.  A reader is the       *)
(* sequence of the bytes it has yet to read.  Of a value of 64 bits the    *)
(* low half is kept, as the casts of the code do; see Wide for the rest.   *)
(***************************************************************************)
EXTENDS UnwTable

Omit == 255
Uleb128 == 1
Sleb128 == 9
\* The encodings that have a fixed number of bytes, as gimli numbers them.
FixedSize == [e \in {0, 2, 3, 4, 10, 11, 12} |->
                CASE e \in {0, 4, 12} -> 8 [] e \in {3, 11} -> 4 [] OTHER -> 2]

Fail(reader) == [ok |-> FALSE, val |-> 0, rest |-> reader]
Got(reader, val, n) == [ok |-> TRUE, val |-> val, rest |-> Skip(n, reader)]

little_endian(reader, n) ==
    LET val[i \in 0 .. n] ==
            IF i = 0 THEN 0 ELSE val[i - 1] + reader[i] * 2^(8 * (i - 1))
    IN  IF n = 4 /\ reader[4] >= 16 THEN Wide ELSE val[n]

\* A 16-bit value of the signed kind is extended, a wider one is cut.
read_fixed(reader, encoding) ==
    LET size == FixedSize[encoding]
        low == little_endian(reader, IF size = 2 THEN 2 ELSE 4)
    IN  IF Len(reader) < size THEN Fail(reader)
        ELSE Got(reader, IF encoding = 10 /\ low >= 2^15 THEN low - 2^16 ELSE low, size)

\* At most 64 bits, so that only one bit of a tenth byte counts.
read_leb128(reader, signed) ==
    LET n == UlebLen(reader, 1)
        val == UlebVal(reader, 1, n)
        overflow == n > 10 \/ (n = 10 /\ reader[10] \notin {0, IF signed THEN 127 ELSE 1})
    IN  IF n = 0 \/ overflow THEN Fail(reader)
        ELSE Got(reader, IF signed /\ n <= 4 /\ reader[n] >= 64 THEN val - 2^(7 * n)
                         ELSE val, n)

read_encoded_pointer(reader, encoding) ==
    CASE encoding \in DOMAIN FixedSize -> read_fixed(reader, encoding)
      [] encoding \in {Uleb128, Sleb128} -> read_leb128(reader, encoding = Sleb128)
      [] OTHER -> Fail(reader)

read_u8(reader) ==
    IF reader = <<>> THEN Fail(reader) ELSE Got(reader, Head(reader), 1)

\* One read after the other, the first failure ending them all.
Then(r, Op(_, _)) ==
    CHOOSE s \in {IF x.ok THEN Op(x.val, x.rest) ELSE x : x \in {r}} : TRUE

\* A header field that an encoding byte precedes and may omit: the value, or
\* `default`.  Then what is read behind it.
optional(reader, encoding_of(_), default) ==
    Then(read_u8(reader), LAMBDA e, rest :
        IF e = Omit THEN Got(rest, default, 0)
        ELSE read_encoded_pointer(rest, encoding_of(e)))

\* The two headers.  The type table is skipped over.
LsdaHeader(lsda, function_start_address) ==
    LET lp == optional(lsda, LAMBDA e : e, function_start_address)
    IN  [landing_pad_base |-> lp.val,
         behind |-> Then(lp, LAMBDA v, rest : optional(rest, LAMBDA e : Uleb128, 0))]
CallSiteTableHeader(behind) ==
    LET encoding == Then(behind, LAMBDA v, rest : read_u8(rest))
    IN  [encoding |-> encoding.val,
         length |-> Then(encoding, LAMBDA v, rest : read_encoded_pointer(rest, Uleb128))]

\* LSDA::call_site_table_entries: the iterator, which stops when no more than
\* `stop` bytes are left.
call_site_table_entries(lsda, function_start_address) ==
    LET lsda_header == LsdaHeader(lsda, function_start_address)
        call_site_header == CallSiteTableHeader(lsda_header.behind)
        length == call_site_header.length
    IN  [ok |-> length.ok, landing_pad_base |-> lsda_header.landing_pad_base,
         encoding |-> call_site_header.encoding,
         stop |-> Len(length.rest) - length.val, reader |-> length.rest]

\* CallSiteTableEntry::parse, and the iterator behind the entry.
parse_entry(iter) ==
    LET start == read_encoded_pointer(iter.reader, iter.encoding)
        next(r, e) == Then(r, LAMBDA v, rest : read_encoded_pointer(rest, e))
        len == next(start, iter.encoding)
        lp == next(len, iter.encoding)
        action == next(lp, Uleb128)
    IN  [ok |-> action.ok, starting_offset |-> start.val, length |-> len.val,
         landing_pad_offset |-> lp.val, landing_pad_base |-> iter.landing_pad_base,
         iter |-> [iter EXCEPT !.reader = action.rest]]

AtEnd(iter) == Len(iter.reader) <= iter.stop

Covers(entry, address) ==
    LET start == entry.landing_pad_base + entry.starting_offset
    IN  address \in start .. start + entry.length - 1

\* Whether there is a landing pad, and where.
HasLandingPad(entry) == entry.landing_pad_offset # 0
landing_pad_address(entry) == entry.landing_pad_base + entry.landing_pad_offset
=============================================================================
