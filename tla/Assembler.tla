----------------------------- MODULE Assembler -----------------------------
(***************************************************************************)
(* External: what the compiler and the assembler write into .ARM.exidx and *)
(* .ARM.extab for a program, after the exception-handling ABI of the       *)
(* architecture.  The unwinder must read it back.                          *)
(*                                                                         *)
(* A function has an address and a size; the offsets of its calls; what    *)
(* its prologue does (save: the registers it pushes, vfp: how many of      *)
(* d8, d9, ... it pushes, locals: words it reserves, fp: whether r7 is a   *)
(* frame pointer that points at the saved r7); call sites [start, len,     *)
(* pad], pad 0 for none; whether its pads catch; and the form in which its *)
(* tables are written.                                                     *)
(***************************************************************************)
EXTENDS UnwLsda, FiniteSets

Below(regs, r) == Cardinality({q \in regs : q < r})

\* In reading order; in memory the bytes of each word are reversed.
InMemory(bytes) ==
    LET word(i) == SubSeq(bytes, 4 * i + 1, 4 * i + 4)
        all[i \in 0 .. Len(bytes) \div 4] ==
            IF i = 0 THEN <<>>
            ELSE all[i - 1] \o
                 <<word(i - 1)[4], word(i - 1)[3], word(i - 1)[2], word(i - 1)[1]>>
    IN  all[Len(bytes) \div 4]
Fill(bytes, by, to) == bytes \o [i \in 1 .. to |-> by]
\* Filled up to whole words with Finish, after `taken` bytes.
Padded(instrs, taken) == Fill(instrs, 176, (3 * (Len(instrs) + taken)) % 4)

Word(n) == <<n % 256, (n \div 256) % 256, (n \div 65536) % 256, n \div 16777216>>
Prel31(target, self) ==
    LET off == target - self
    IN  Word(IF off < 0 THEN (off + 2^30) + 2^30 ELSE off)
Uleb(n) == IF n < 128 THEN <<n>> ELSE <<128 + (n % 128), n \div 128>>

\* The unwind instructions that undo a prologue.
Sub(words) == IF words = 0 THEN <<>> ELSE <<63 + words>>
Add(words) ==
    CASE words = 0 -> <<>>
      [] words \in 1 .. 64 -> <<words - 1>>
      [] words \in 65 .. 128 -> <<63, words - 65>>
      [] OTHER -> <<178>> \o Uleb(words - 129)
Pops(save) ==
    LET low == save \ {14}
        n == Cardinality(low)
        bits[r \in 3 .. 15] ==
            IF r = 3 THEN 0 ELSE bits[r - 1] + (IF r \in save THEN 2^(r - 4) ELSE 0)
    IN  IF n \in 1 .. 8 /\ low = 4 .. 3 + n
        THEN <<159 + n + (IF 14 \in save THEN 8 ELSE 0)>>
        ELSE <<128 + (bits[15] \div 256), bits[15] % 256>>
Instrs(fn) ==
    (IF fn.fp THEN <<151>> \o Sub(Below(fn.save, 7) + 2 * fn.vfp) ELSE Add(fn.locals))
    \o (IF fn.vfp = 0 THEN <<>> ELSE <<201, 127 + fn.vfp>>)
    \o Pops(fn.save)

\* The data area: no landing-pad base, maybe a type table, and call sites in
\* one of the two encodings that compilers use.
CallSites(fn) ==
    LET num(n) == IF fn.encoding = 1 THEN Uleb(n) ELSE Word(n)
        all[i \in 0 .. Len(fn.sites)] ==
            IF i = 0 THEN <<>>
            ELSE all[i - 1] \o num(fn.sites[i].start) \o num(fn.sites[i].len)
                 \o num(fn.sites[i].pad) \o <<IF fn.catch THEN 1 ELSE 0>>
    IN  all[Len(fn.sites)]
DataArea(fn) ==
    LET sites == CallSites(fn)
        bytes == <<255>> \o (IF fn.catch THEN <<0>> \o Uleb(200) ELSE <<255>>)
                 \o <<fn.encoding>> \o Uleb(Len(sites)) \o sites
    IN  Fill(bytes, 0, (3 * Len(bytes)) % 4)

\* The entry in .ARM.extab, which is at address self.
TableEntry(fn, self, personality) ==
    CASE fn.form = "compact0" -> InMemory(<<128>> \o Padded(Instrs(fn), 1))
      [] fn.form = "compact1" ->
             LET instrs == Padded(Instrs(fn), 2)
             IN  InMemory(<<129, (Len(instrs) - 2) \div 4>> \o instrs) \o <<0, 0, 0, 0>>
      [] fn.form = "generic" ->
             LET instrs == Padded(Instrs(fn), 1)
             IN  Prel31(personality, self)
                 \o InMemory(<<(Len(instrs) - 3) \div 4>> \o instrs) \o DataArea(fn)
      [] OTHER -> <<>>

\* Both sections of a program, a sequence of functions in address order.
Assemble(fns, exidx_addr, extab_addr, personality) ==
    LET extab[i \in 0 .. Len(fns)] ==
            IF i = 0 THEN <<>>
            ELSE extab[i - 1]
                 \o TableEntry(fns[i], extab_addr + Len(extab[i - 1]), personality)
        content(i) ==
            CASE fns[i].form = "cant" -> <<1, 0, 0, 0>>
              [] fns[i].form = "inline" -> InMemory(<<128>> \o Padded(Instrs(fns[i]), 1))
              [] OTHER -> Prel31(extab_addr + Len(extab[i - 1]), exidx_addr + 8 * i - 4)
        exidx[i \in 0 .. Len(fns)] ==
            IF i = 0 THEN <<>>
            ELSE exidx[i - 1] \o Prel31(fns[i].addr, exidx_addr + 8 * (i - 1)) \o content(i)
    IN  [fns |-> fns, exidx |-> [addr |-> exidx_addr, bytes |-> exidx[Len(fns)]],
         extab |-> [addr |-> extab_addr, bytes |-> extab[Len(fns)]]]
=============================================================================
