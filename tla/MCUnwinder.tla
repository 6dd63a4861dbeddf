----------------------------- MODULE MCUnwinder -----------------------------
EXTENDS Unwinder

\* A function at an address, of 64 bytes, with calls at the offsets; `rest` is
\* its prologue and its tables.
F(addr, offsets, rest) == rest @@ [addr |-> addr, size |-> 64, calls |-> offsets]
Prologue(save, vfp, locals, fp) ==
    [save |-> save, vfp |-> vfp, locals |-> locals, fp |-> fp]
NoSites(form) == [form |-> form, sites |-> <<>>, catch |-> FALSE, encoding |-> 1]
Sites(s, catch, encoding) ==
    [form |-> "generic", sites |-> s, catch |-> catch, encoding |-> encoding]
Site(start, len, pad) == [start |-> start, len |-> len, pad |-> pad]

\* The bottom: a call that is caught and, at its very end, a call without pad.
Bottom(addr) ==
    F(addr, {8}, Prologue({4, 5, 6, 7, 14}, 0, 2, FALSE)
                 @@ Sites(<<Site(4, 12, 32)>>, TRUE, 1))

\* Cleanups in neighbouring call sites, the last call at the end of the
\* function, an odd number of words on the stack, and a function that cannot
\* be unwound.  The index lies between the functions.
Program1 ==
    <<Bottom(1024),
      F(1088, {0, 4, 60}, Prologue({4, 5, 14}, 0, 0, FALSE)
          @@ Sites(<<Site(0, 4, 40), Site(4, 4, 44), Site(8, 40, 0)>>, FALSE, 1)),
      F(1152, {20}, Prologue({4, 6, 8, 14}, 2, 70, FALSE) @@ NoSites("compact1")),
      F(2048, {60}, Prologue({4, 5, 6, 7, 14}, 1, 3, TRUE)
          @@ Sites(<<Site(8, 4, 16), Site(60, 4, 20)>>, FALSE, 3)),
      F(2112, {12}, Prologue({7, 14}, 0, 1, FALSE) @@ NoSites("cant"))>>

\* Short forms, an even number of entries, and more than 512 bytes of locals.
Program2 ==
    <<Bottom(1024),
      F(1088, {24}, Prologue({4, 14}, 0, 0, FALSE) @@ NoSites("inline")),
      F(2048, {0, 60}, Prologue({4, 5, 6, 7, 8, 9, 10, 11, 14}, 8, 260, FALSE)
          @@ Sites(<<Site(0, 4, 8)>>, FALSE, 1)),
      F(2112, {60}, Prologue({4, 5, 6, 14}, 0, 64, FALSE) @@ NoSites("compact0"))>>

\* The smallest index.
Program3 == <<Bottom(1024)>>

MCImages == {Assemble(p, 1500, 1700, 1032) : p \in {Program1, Program2, Program3}}
=============================================================================
