------------------------- MODULE TaskLifecycleProofs -------------------------
(***************************************************************************)
(* Proofs about TaskLifecycle: the stacklets of a task, forced unwinding   *)
(* and drop handlers, and the instances of a restarted task, for any       *)
(* number of task structs, depth of calls, sizes and stack configuration.  *)
(***************************************************************************)
EXTENDS TaskLifecycle, FiniteSetTheorems, TLAPS

Steps == {"none", "run", "panic", "divert", "create", "unwind", "step", "pad", "caught",
          "uncaught", "clear", "exit", "die"}
Frame == [kind : FrameKinds, bound : Ids, extended : BOOLEAN]

\* The types the argument needs.
Types ==
    /\ kind \in Kinds
    /\ pc \in [Slot -> Steps]
    /\ frames \in [Slot -> Seq(Frame)]
    /\ stklet_bound \in [Slot -> Ids] /\ unw_bound \in [Slot -> Ids]
    /\ nested_drop_cnt \in [Slot -> Nat] /\ unwind_pending \in [Slot -> BOOLEAN]
    /\ DOMAIN stacklets = Slot
    /\ base \in [Slot -> Nat] /\ catch \in [Slot -> {"none", "entry", "clear"}]
    /\ is_unwinding \in [Slot -> BOOLEAN] /\ has_restarted \in [Slot -> BOOLEAN]
    /\ restarted_from \in [Slot -> Slot \union {NoSlot}] /\ lowered \in [Slot -> BOOLEAN]
    /\ outcome \in {"active", "terminated", "given_up", "returned"}

(***************************************************************************)
(* The inductive invariant.                                                *)
(***************************************************************************)
Drops(i) == {n \in DOMAIN frames[i] : frames[i][n].kind = "drop"}

\* What the flags of the task struct and of the TLS are at each step.
ControlOf(i) ==
    /\ pc[i] # "die"
    /\ pc[i] \in {"none", "run", "panic", "divert", "create"} => ~is_unwinding[i]
    /\ pc[i] \in {"unwind", "step", "pad", "caught", "uncaught", "clear"} => is_unwinding[i]
    /\ has_restarted[i] => pc[i] \in {"unwind", "step", "pad", "caught", "uncaught", "exit"}
    /\ unwind_pending[i] => pc[i] = "run" /\ nested_drop_cnt[i] > 0
    /\ pc[i] \notin {"run", "pad"} => nested_drop_cnt[i] = 0

\* The active functions: the trampoline is the outermost one, nested_drop_cnt
\* counts the drop handlers, and a landing pad has called every one of them.
FramesOf(i) ==
    /\ Len(frames[i]) >= 1
    /\ Len(frames[i]) > 1 => Len(frames[i]) <= MaxDepth
    /\ \A n \in DOMAIN frames[i] : frames[i][n].kind = "entry" <=> n = 1
    /\ nested_drop_cnt[i] = Cardinality(Drops(i))
    /\ pc[i] \in {"none", "caught", "clear", "exit"} => Len(frames[i]) = 1
    /\ pc[i] = "step" => frames[i][Len(frames[i])].kind = "guard"
    /\ pc[i] = "pad" => /\ base[i] \in DOMAIN frames[i] /\ frames[i][base[i]].kind = "guard"
                        /\ frames[i][base[i]].bound = unw_bound[i]
                        /\ \A n \in Drops(i) : n > base[i]

\* The stacklets: each was given to one function, whose caller is on the stacklet
\* that it links to, or to the unwinder.
Owned(i) == {frames[i][n].bound : n \in Extended(i)}
Runs(i) == pc[i] \in Unwinder

ChainOf(i) ==
    /\ frames[i][1].bound = Initial /\ ~frames[i][1].extended
    /\ \A n \in DOMAIN frames[i] \ {1} :
          IF frames[i][n].extended
            THEN stacklets[i][frames[i][n].bound].prev = frames[i][n - 1].bound
            ELSE frames[i][n].bound = frames[i][n - 1].bound
    /\ \A m, n \in Extended(i) : frames[i][m].bound = frames[i][n].bound => m = n

OwnersOf(i) ==
    /\ frames[i][Len(frames[i])].bound = IF Runs(i) THEN unw_bound[i] ELSE stklet_bound[i]
    /\ Initial \notin DOMAIN stacklets[i]
    /\ Runs(i) => stklet_bound[i] \notin Owned(i) \union {Initial}
    /\ DOMAIN stacklets[i] = Owned(i) \union (IF Runs(i) THEN {stklet_bound[i]} ELSE {})

\* The instances: one is responsible, and there is no other but the one that it
\* was restarted from.
HeirInv ==
    /\ outcome = "active" =>
          \E h \in Slot : Heirs = {h} /\ Live \subseteq {h, restarted_from[h]}
    /\ outcome # "active" => Heirs = {}
    /\ \E a, b \in Slot : Live \subseteq {a, b}
    /\ kind # "plain" => \A i \in Heirs : ~lowered[i]

SlotInv(i) == ControlOf(i) /\ FramesOf(i) /\ ChainOf(i) /\ OwnersOf(i)

IInv == Types /\ HeirInv /\ \A i \in Slot : SlotInv(i)

-----------------------------------------------------------------------------
(***************************************************************************)
(* The functions of an instance, as a sequence of frames.                  *)
(***************************************************************************)
\* A call adds a frame at the end.
LEMMA AppendFrame ==
    ASSUME NEW s \in Seq(Frame), NEW f \in Frame
    PROVE  /\ Append(s, f) \in Seq(Frame) /\ DOMAIN s = 1 .. Len(s) /\ Len(s) \in Nat
           /\ Len(Append(s, f)) = Len(s) + 1 /\ DOMAIN Append(s, f) = 1 .. Len(s) + 1
           /\ Append(s, f)[Len(s) + 1] = f
           /\ \A n \in 1 .. Len(s) : Append(s, f)[n] = s[n]
  OBVIOUS

\* A return and a step of the unwinder take it away.
LEMMA FrontFrame ==
    ASSUME NEW s \in Seq(Frame), Len(s) >= 1
    PROVE  /\ Front(s) \in Seq(Frame) /\ DOMAIN s = 1 .. Len(s) /\ Len(s) \in Nat
           /\ Len(Front(s)) = Len(s) - 1 /\ DOMAIN Front(s) = 1 .. Len(s) - 1
           /\ \A n \in 1 .. Len(s) - 1 : Front(s)[n] = s[n]
           /\ Last(s) = s[Len(s)]
<1>1. DOMAIN s = 1 .. Len(s) /\ Len(s) \in Nat /\ \A n \in 1 .. Len(s) : s[n] \in Frame
  OBVIOUS
<1>2. Front(s) = [n \in 1 .. Len(s) - 1 |-> s[n]]
  BY DEF Front
<1>3. Front(s) \in Seq(Frame) /\ Len(Front(s)) = Len(s) - 1
  BY <1>1, <1>2
<1> QED
  BY <1>1, <1>2, <1>3 DEF Last

\* The innermost function.
LEMMA TopFrame ==
    ASSUME Types, NEW i \in Slot, FramesOf(i)
    PROVE  /\ Top(i) = frames[i][Len(frames[i])] /\ Top(i) \in Frame
           /\ Len(frames[i]) \in DOMAIN frames[i] /\ DOMAIN frames[i] = 1 .. Len(frames[i])
           /\ Len(frames[i]) \in Nat \ {0} /\ frames[i] \in Seq(Frame)
           /\ \A n \in DOMAIN frames[i] : frames[i][n] \in Frame
<1>1. frames[i] \in Seq(Frame) /\ Len(frames[i]) >= 1
  BY DEF Types, FramesOf
<1> QED
  BY <1>1 DEF Top, Last

\* nested_drop_cnt counts a set of positions, which is finite.
LEMMA DropsFinite ==
    ASSUME NEW s \in Seq(Frame)
    PROVE  IsFiniteSet({n \in DOMAIN s : s[n].kind = "drop"})
<1>1. DOMAIN s = 1 .. Len(s) /\ Len(s) \in Nat
  OBVIOUS
<1>2. IsFiniteSet(1 .. Len(s))
  BY <1>1, FS_Interval
<1> QED
  BY <1>1, <1>2, FS_Subset

\* One more drop handler with a call of one ...
LEMMA AppendDrops ==
    ASSUME NEW s \in Seq(Frame), NEW f \in Frame
    PROVE  Cardinality({n \in DOMAIN Append(s, f) : Append(s, f)[n].kind = "drop"}) =
               Cardinality({n \in DOMAIN s : s[n].kind = "drop"})
               + (IF f.kind = "drop" THEN 1 ELSE 0)
<1> DEFINE D == {n \in DOMAIN s : s[n].kind = "drop"}
           E == {n \in DOMAIN Append(s, f) : Append(s, f)[n].kind = "drop"}
<1>1. E = IF f.kind = "drop" THEN D \union {Len(s) + 1} ELSE D
  <2>1. \A n : n \in E <=> n \in D \/ (n = Len(s) + 1 /\ f.kind = "drop")
    BY AppendFrame
  <2> QED
    BY <2>1
<1>2. IsFiniteSet(D) /\ Len(s) + 1 \notin D
  BY DropsFinite, AppendFrame
<1> HIDE DEF D, E
<1>3. Cardinality(D) \in Nat /\ Cardinality(D \union {Len(s) + 1}) = Cardinality(D) + 1
  BY <1>2, FS_AddElement, FS_CardinalityType
<1>4. Cardinality(E) = Cardinality(D) + (IF f.kind = "drop" THEN 1 ELSE 0)
  BY <1>1, <1>3
<1> QED
  BY <1>4 DEF D, E

\* ... and one less with its return.
LEMMA FrontDrops ==
    ASSUME NEW s \in Seq(Frame), Len(s) >= 1
    PROVE  /\ Cardinality({n \in DOMAIN Front(s) : Front(s)[n].kind = "drop"}) =
                  Cardinality({n \in DOMAIN s : s[n].kind = "drop"})
                  - (IF Last(s).kind = "drop" THEN 1 ELSE 0)
           /\ Cardinality({n \in DOMAIN s : s[n].kind = "drop"}) \in Nat
           /\ Last(s).kind = "drop" => Cardinality({n \in DOMAIN s : s[n].kind = "drop"}) > 0
<1> DEFINE D == {n \in DOMAIN s : s[n].kind = "drop"}
           E == {n \in DOMAIN Front(s) : Front(s)[n].kind = "drop"}
<1>1. E = D \ {Len(s)} /\ (Len(s) \in D <=> Last(s).kind = "drop")
  <2>1. \A n : n \in E <=> n \in D /\ n # Len(s)
    BY FrontFrame
  <2>2. Len(s) \in D <=> Last(s).kind = "drop"
    BY FrontFrame
  <2> QED
    BY <2>1, <2>2
<1>2. IsFiniteSet(D)
  BY DropsFinite
<1> HIDE DEF D, E
<1>3. Cardinality(E) = IF Len(s) \in D THEN Cardinality(D) - 1 ELSE Cardinality(D)
  BY <1>1, <1>2, FS_RemoveElement
<1>4. Cardinality(D) \in Nat /\ (Len(s) \in D => Cardinality(D) > 0)
  BY <1>2, FS_CardinalityType, FS_EmptySet
<1>5. /\ Cardinality(E) = Cardinality(D) - (IF Last(s).kind = "drop" THEN 1 ELSE 0)
      /\ Cardinality(D) \in Nat /\ (Last(s).kind = "drop" => Cardinality(D) > 0)
  BY <1>1, <1>3, <1>4
<1> QED
  BY <1>5 DEF D, E

\* No drop handler is active exactly when the count is zero.
LEMMA NoDrops ==
    ASSUME Types, NEW i \in Slot, FramesOf(i)
    PROVE  nested_drop_cnt[i] = 0 <=> Drops(i) = {}
<1>1. IsFiniteSet(Drops(i))
  BY TopFrame, DropsFinite DEF Drops
<1> QED
  BY <1>1, FS_EmptySet DEF FramesOf

-----------------------------------------------------------------------------
(***************************************************************************)
(* The stacklets of an instance.                                           *)
(***************************************************************************)
\* As many stacklets are owned as there are functions that were given one, fewer
\* than there are functions.
LEMMA OwnedCount ==
    ASSUME Types, NEW i \in Slot, FramesOf(i), ChainOf(i)
    PROVE  /\ IsFiniteSet(Owned(i)) /\ Cardinality(Owned(i)) = Cardinality(Extended(i))
           /\ Cardinality(Owned(i)) \in Nat /\ Cardinality(Owned(i)) <= Len(frames[i]) - 1
<1>1. Extended(i) \subseteq 2 .. Len(frames[i])
  BY TopFrame DEF Extended, ChainOf
<1>2. IsFiniteSet(2 .. Len(frames[i])) /\ Cardinality(2 .. Len(frames[i])) = Len(frames[i]) - 1
  BY TopFrame, FS_Interval
<1>3. IsFiniteSet(Extended(i)) /\ Cardinality(Extended(i)) <= Len(frames[i]) - 1
  BY <1>1, <1>2, FS_Subset
<1>4. ExistsBijection(Extended(i), Owned(i))
  <2> DEFINE f == [n \in Extended(i) |-> frames[i][n].bound]
  <2>1. f \in [Extended(i) -> Owned(i)]
    BY DEF Owned
  <2>2. \A m, n \in Extended(i) : f[m] = f[n] => m = n
    BY DEF ChainOf
  <2>3. \A b \in Owned(i) : \E n \in Extended(i) : f[n] = b
    BY DEF Owned
  <2> HIDE DEF f
  <2>4. f \in Injection(Extended(i), Owned(i))
    BY <2>1, <2>2 DEF Injection, IsInjective
  <2>5. f \in Surjection(Extended(i), Owned(i))
    BY <2>1, <2>3 DEF Surjection
  <2> QED
    BY <2>4, <2>5 DEF ExistsBijection, Bijection
<1>5. IsFiniteSet(Owned(i)) /\ Cardinality(Owned(i)) = Cardinality(Extended(i))
  BY <1>3, <1>4, FS_Bijection
<1> QED
  BY <1>3, <1>5, FS_CardinalityType

\* So more_stack finds a place for another one.
LEMMA FreshId ==
    ASSUME Types, NEW i \in Slot, FramesOf(i), ChainOf(i), OwnersOf(i), ~Runs(i)
    PROVE  /\ NewId(i) \in Ids /\ NewId(i) # Initial /\ NewId(i) \notin DOMAIN stacklets[i]
           /\ DOMAIN stacklets[i] = Owned(i)
<1>1. DOMAIN stacklets[i] = Owned(i)
  BY DEF OwnersOf
<1>2. MaxDepth \in Nat
  BY SizeAssumption
<1>3. Cardinality(Owned(i)) \in Nat /\ Cardinality(Owned(i)) <= MaxDepth /\ IsFiniteSet(Owned(i))
  BY <1>2, OwnedCount, TopFrame DEF FramesOf
<1>4. Ids \ {Initial} = 1 .. MaxDepth + 1
  BY <1>2 DEF Ids, Initial
<1>5. Cardinality(1 .. MaxDepth + 1) = MaxDepth + 1
  BY <1>2, FS_Interval
<1>6. ~(Ids \ {Initial} \subseteq Owned(i))
  <2> SUFFICES ASSUME 1 .. MaxDepth + 1 \subseteq Owned(i) PROVE FALSE
    BY <1>4
  <2>1. Cardinality(1 .. MaxDepth + 1) <= Cardinality(Owned(i))
    BY <1>3, FS_Subset
  <2> QED
    BY <1>2, <1>3, <1>5, <2>1
<1>7. \E b \in Ids \ {Initial} : b \notin DOMAIN stacklets[i]
  BY <1>1, <1>6
<1> QED
  BY <1>1, <1>7 DEF NewId

-----------------------------------------------------------------------------
(***************************************************************************)
(* What a step does to the functions and stacklets of an instance.         *)
(***************************************************************************)
\* Nothing.
Untouched(i) ==
    /\ frames'[i] = frames[i] /\ nested_drop_cnt'[i] = nested_drop_cnt[i]
    /\ stacklets'[i] = stacklets[i] /\ stklet_bound'[i] = stklet_bound[i]

\* What FramesOf says of any step.
Shape(i) ==
    /\ Len(frames[i]) >= 1
    /\ Len(frames[i]) > 1 => Len(frames[i]) <= MaxDepth
    /\ \A n \in DOMAIN frames[i] : frames[i][n].kind = "entry" <=> n = 1
    /\ nested_drop_cnt[i] = Cardinality(Drops(i))

\* An instance whose functions and stacklets stay keeps what is said of them.
LEMMA UntouchedSlot ==
    ASSUME NEW i \in Slot, Shape(i), ChainOf(i), OwnersOf(i), Untouched(i),
           Runs(i)' <=> Runs(i), unw_bound'[i] = unw_bound[i] \/ ~Runs(i)
    PROVE  Shape(i)' /\ ChainOf(i)' /\ OwnersOf(i)'
<1>1. Shape(i)'
  BY DEF Untouched, Shape, Drops
<1>2. ChainOf(i)' /\ Owned(i)' = Owned(i)
  BY DEF Untouched, ChainOf, Owned, Extended
<1>3. OwnersOf(i)'
  BY <1>2 DEF Untouched, OwnersOf
<1> QED
  BY <1>1, <1>2, <1>3

\* A function is called.
Pushed(i, k, b, ext) ==
    LET f == [kind |-> k, bound |-> b, extended |-> ext] IN
    /\ frames'[i] = Append(frames[i], f)
    /\ nested_drop_cnt'[i] = nested_drop_cnt[i] + (IF k = "drop" THEN 1 ELSE 0)
    /\ stklet_bound'[i] = b

\* Its frame is there, and those of the others stay.
LEMMA PushedFrames ==
    ASSUME Types, NEW i \in Slot, FramesOf(i), NEW k \in {"fn", "guard", "drop"}, NEW b \in Ids,
           NEW ext \in BOOLEAN, Pushed(i, k, b, ext), Len(frames[i]) < MaxDepth
    PROVE  /\ Shape(i)' /\ frames'[i] \in Seq(Frame)
           /\ Len(frames'[i]) = Len(frames[i]) + 1 /\ DOMAIN frames'[i] = 1 .. Len(frames[i]) + 1
           /\ \A n \in 1 .. Len(frames[i]) : frames'[i][n] = frames[i][n]
           /\ frames'[i][Len(frames[i]) + 1] = [kind |-> k, bound |-> b, extended |-> ext]
<1> DEFINE s == frames[i]
           f == [kind |-> k, bound |-> b, extended |-> ext]
<1>1. s \in Seq(Frame) /\ f \in Frame /\ f.kind = k /\ Len(s) \in Nat \ {0} /\ MaxDepth \in Nat
  BY TopFrame, SizeAssumption DEF Frame, FrameKinds
<1>2. frames'[i] = Append(s, f)
  BY DEF Pushed
<1> HIDE DEF s, f
<1>3. /\ Append(s, f) \in Seq(Frame) /\ DOMAIN s = 1 .. Len(s)
      /\ Len(Append(s, f)) = Len(s) + 1 /\ DOMAIN Append(s, f) = 1 .. Len(s) + 1
      /\ Append(s, f)[Len(s) + 1] = f
      /\ \A n \in 1 .. Len(s) : Append(s, f)[n] = s[n]
  BY <1>1, AppendFrame
<1>4. \A n \in DOMAIN frames'[i] : frames'[i][n].kind = "entry" <=> n = 1
  <2>1. \A n \in 1 .. Len(s) : s[n].kind = "entry" <=> n = 1
    BY <1>3 DEF FramesOf, s
  <2>2. f.kind # "entry"
    BY <1>1
  <2> QED
    BY <1>1, <1>2, <1>3, <2>1, <2>2
<1>5. nested_drop_cnt'[i] = Cardinality(Drops(i)')
  <2>1. nested_drop_cnt[i] = Cardinality({n \in DOMAIN s : s[n].kind = "drop"})
    BY DEF FramesOf, Drops, s
  <2>2. Drops(i)' = {n \in DOMAIN Append(s, f) : Append(s, f)[n].kind = "drop"}
    BY <1>2 DEF Drops
  <2>3. Cardinality(Drops(i)') = nested_drop_cnt[i] + (IF f.kind = "drop" THEN 1 ELSE 0)
    BY <1>1, <2>1, <2>2, AppendDrops
  <2> QED
    BY <1>1, <2>3 DEF Pushed
<1>6. Shape(i)'
  <2>1. Len(frames'[i]) >= 1 /\ Len(frames'[i]) <= MaxDepth
    BY <1>1, <1>2, <1>3 DEF s
  <2> QED
    BY <1>4, <1>5, <2>1 DEF Shape
<1> QED
  BY <1>2, <1>3, <1>6 DEF s, f

\* The callee fits into the stacklet of its caller.
LEMMA PushedPlain ==
    ASSUME Types, NEW i \in Slot, FramesOf(i), ChainOf(i), OwnersOf(i), ~Runs(i), ~Runs(i)',
           NEW k \in {"fn", "guard", "drop"}, Len(frames[i]) < MaxDepth,
           Pushed(i, k, stklet_bound[i], FALSE), stacklets'[i] = stacklets[i]
    PROVE  Shape(i)' /\ ChainOf(i)' /\ OwnersOf(i)' /\ frames'[i] \in Seq(Frame)
<1> DEFINE L == Len(frames[i])
<1>1. stklet_bound[i] \in Ids
  BY DEF Types
<1>2. /\ Shape(i)' /\ frames'[i] \in Seq(Frame)
      /\ Len(frames'[i]) = L + 1 /\ DOMAIN frames'[i] = 1 .. L + 1
      /\ \A n \in 1 .. L : frames'[i][n] = frames[i][n]
      /\ frames'[i][L + 1] = [kind |-> k, bound |-> stklet_bound[i], extended |-> FALSE]
  BY <1>1, PushedFrames
<1>3. DOMAIN frames[i] = 1 .. L /\ L \in Nat \ {0}
  BY TopFrame
<1>4. frames[i][L].bound = stklet_bound[i]
  BY DEF OwnersOf
<1> HIDE DEF L
<1>5. Extended(i)' = Extended(i) /\ Owned(i)' = Owned(i)
  <2>1. \A n : n \in Extended(i)' <=> n \in Extended(i)
    BY <1>2, <1>3 DEF Extended
  <2>2. Extended(i)' = Extended(i) /\ Extended(i) \subseteq 1 .. L
    BY <1>3, <2>1 DEF Extended
  <2> QED
    BY <1>2, <2>2 DEF Owned
<1>6. ChainOf(i)'
  <2>1. frames'[i][1].bound = Initial /\ ~frames'[i][1].extended
    BY <1>2, <1>3 DEF ChainOf
  <2>2. ASSUME NEW n \in DOMAIN frames'[i] \ {1}
        PROVE  IF frames'[i][n].extended
                 THEN stacklets'[i][frames'[i][n].bound].prev = frames'[i][n - 1].bound
                 ELSE frames'[i][n].bound = frames'[i][n - 1].bound
    <3>1. CASE n \in 1 .. L
      <4>1. n \in DOMAIN frames[i] \ {1} /\ n - 1 \in 1 .. L
        BY <1>3, <2>2, <3>1
      <4> QED
        BY <1>2, <3>1, <4>1 DEF ChainOf
    <3>2. CASE n = L + 1
      <4>1. n - 1 = L /\ L \in 1 .. L
        BY <1>3, <3>2
      <4> QED
        BY <1>2, <1>4, <3>2, <4>1
    <3> QED
      BY <1>2, <1>3, <2>2, <3>1, <3>2
  <2>3. \A m, n \in Extended(i)' : frames'[i][m].bound = frames'[i][n].bound => m = n
    BY <1>2, <1>3, <1>5 DEF ChainOf, Extended
  <2> QED
    BY <2>1, <2>2, <2>3 DEF ChainOf
<1>7. OwnersOf(i)'
  BY <1>2, <1>5 DEF OwnersOf, Pushed
<1> QED
  BY <1>2, <1>6, <1>7

\* A stacklet is allocated, and linked to the one in use.
Added(i, size) ==
    stacklets'[i] = [b \in DOMAIN stacklets[i] \union {NewId(i)} |->
                        IF b = NewId(i) THEN [prev |-> stklet_bound[i], count_size |-> size]
                        ELSE stacklets[i][b]]

\* The callee is given a stacklet.
LEMMA PushedExtended ==
    ASSUME Types, NEW i \in Slot, FramesOf(i), ChainOf(i), OwnersOf(i), ~Runs(i), ~Runs(i)',
           NEW k \in {"fn", "guard", "drop"}, Len(frames[i]) < MaxDepth, NEW size,
           Pushed(i, k, NewId(i), TRUE), Added(i, size)
    PROVE  Shape(i)' /\ ChainOf(i)' /\ OwnersOf(i)' /\ frames'[i] \in Seq(Frame)
<1> DEFINE L == Len(frames[i])
           b == NewId(i)
<1>1. b \in Ids /\ b # Initial /\ b \notin DOMAIN stacklets[i] /\ DOMAIN stacklets[i] = Owned(i)
  BY FreshId
<1>2. /\ Shape(i)' /\ frames'[i] \in Seq(Frame)
      /\ Len(frames'[i]) = L + 1 /\ DOMAIN frames'[i] = 1 .. L + 1
      /\ \A n \in 1 .. L : frames'[i][n] = frames[i][n]
      /\ frames'[i][L + 1] = [kind |-> k, bound |-> b, extended |-> TRUE]
  BY <1>1, PushedFrames
<1>3. DOMAIN frames[i] = 1 .. L /\ L \in Nat \ {0}
  BY TopFrame
<1>4. frames[i][L].bound = stklet_bound[i]
  BY DEF OwnersOf
<1>s. /\ DOMAIN stacklets'[i] = DOMAIN stacklets[i] \union {b}
      /\ stacklets'[i][b].prev = stklet_bound[i]
      /\ \A d \in DOMAIN stacklets[i] : stacklets'[i][d] = stacklets[i][d]
  BY <1>1 DEF Added
<1>t. stklet_bound'[i] = b
  BY DEF Pushed
<1> HIDE DEF L, b
<1>5. Extended(i)' = Extended(i) \union {L + 1} /\ Owned(i)' = Owned(i) \union {b}
  <2>1. \A n : n \in Extended(i)' <=> n \in Extended(i) \/ n = L + 1
    BY <1>2, <1>3 DEF Extended
  <2>2. Extended(i)' = Extended(i) \union {L + 1} /\ Extended(i) \subseteq 1 .. L
    BY <1>3, <2>1 DEF Extended
  <2>3. \A n \in Extended(i) : frames'[i][n] = frames[i][n]
    BY <1>2, <2>2
  <2> QED
    BY <1>2, <2>2, <2>3 DEF Owned
<1>o. \A n \in Extended(i) : n \in 1 .. L /\ frames[i][n].bound \in Owned(i)
  BY <1>3 DEF Extended, Owned
<1>6. ChainOf(i)'
  <2>0. /\ frames[i][1].bound = Initial /\ ~frames[i][1].extended
        /\ \A n \in DOMAIN frames[i] \ {1} :
              IF frames[i][n].extended
                THEN stacklets[i][frames[i][n].bound].prev = frames[i][n - 1].bound
                ELSE frames[i][n].bound = frames[i][n - 1].bound
    BY DEF ChainOf
  <2>1. frames'[i][1].bound = Initial /\ ~frames'[i][1].extended
    <3>1. 1 \in 1 .. L
      BY <1>3
    <3>2. frames'[i][1] = frames[i][1]
      BY <1>2, <3>1
    <3> QED
      BY <2>0, <3>2
  <2>2. ASSUME NEW n \in DOMAIN frames'[i] \ {1}
        PROVE  IF frames'[i][n].extended
                 THEN stacklets'[i][frames'[i][n].bound].prev = frames'[i][n - 1].bound
                 ELSE frames'[i][n].bound = frames'[i][n - 1].bound
    <3>1. CASE n \in 1 .. L
      <4>1. n \in DOMAIN frames[i] \ {1} /\ n - 1 \in 1 .. L
        BY <1>3, <2>2, <3>1
      <4>2. frames[i][n].extended => frames[i][n].bound \in DOMAIN stacklets[i]
        BY <1>1, <1>o, <4>1 DEF Extended
      <4>3. frames'[i][n] = frames[i][n] /\ frames'[i][n - 1] = frames[i][n - 1]
        BY <1>2, <3>1, <4>1
      <4>4. frames[i][n].extended =>
               stacklets'[i][frames[i][n].bound] = stacklets[i][frames[i][n].bound]
        BY <1>s, <4>2
      <4> QED
        BY <2>0, <4>1, <4>3, <4>4
    <3>2. CASE n = L + 1
      <4>1. n - 1 = L /\ L \in 1 .. L
        BY <1>3, <3>2
      <4> QED
        BY <1>2, <1>4, <1>s, <3>2, <4>1, SMTT(30)
    <3> QED
      BY <1>2, <1>3, <2>2, <3>1, <3>2
  <2>3. ASSUME NEW m \in Extended(i)', NEW n \in Extended(i)',
               frames'[i][m].bound = frames'[i][n].bound
        PROVE  m = n
    <3>1. /\ m \in Extended(i) => frames'[i][m] = frames[i][m] /\ frames[i][m].bound # b
          /\ n \in Extended(i) => frames'[i][n] = frames[i][n] /\ frames[i][n].bound # b
      BY <1>1, <1>2, <1>o
    <3>2. frames'[i][L + 1].bound = b
      BY <1>2
    <3> QED
      BY <1>5, <2>3, <3>1, <3>2 DEF ChainOf
  <2> QED
    BY <2>1, <2>2, <2>3 DEF ChainOf
<1>7. OwnersOf(i)'
  <2>1. frames'[i][Len(frames'[i])].bound = stklet_bound'[i]
    BY <1>2, <1>t
  <2>2. Initial \notin DOMAIN stacklets'[i] /\ DOMAIN stacklets'[i] = Owned(i)'
    BY <1>1, <1>5, <1>s DEF OwnersOf
  <2> QED
    BY <2>1, <2>2 DEF OwnersOf
<1> QED
  BY <1>2, <1>6, <1>7

-----------------------------------------------------------------------------
\* A function returns, or the unwinder steps out of it.
Popped(i) == frames'[i] = Front(frames[i])

\* A stacklet is freed.
Freed(i, b) == stacklets'[i] = Restrict(stacklets[i], DOMAIN stacklets[i] \ {b})

\* What is left of the functions.
LEMMA PoppedFrames ==
    ASSUME Types, NEW i \in Slot, FramesOf(i), Len(frames[i]) > 1, Popped(i),
           nested_drop_cnt'[i] = nested_drop_cnt[i] - (IF Top(i).kind = "drop" THEN 1 ELSE 0)
    PROVE  /\ Shape(i)' /\ frames'[i] \in Seq(Frame) /\ nested_drop_cnt'[i] \in Nat
           /\ Len(frames'[i]) = Len(frames[i]) - 1 /\ DOMAIN frames'[i] = 1 .. Len(frames[i]) - 1
           /\ \A n \in 1 .. Len(frames[i]) - 1 : frames'[i][n] = frames[i][n]
<1> DEFINE s == frames[i]
<1>1. s \in Seq(Frame) /\ Len(s) \in Nat \ {0} /\ Len(s) > 1 /\ MaxDepth \in Nat /\ Top(i) = Last(s)
  BY TopFrame, SizeAssumption DEF Top
<1>2. frames'[i] = Front(s)
  BY DEF Popped
<1>c. nested_drop_cnt[i] = Cardinality({n \in DOMAIN s : s[n].kind = "drop"})
  BY DEF FramesOf, Drops
<1>k. /\ \A n \in DOMAIN s : s[n].kind = "entry" <=> n = 1
      /\ Len(s) > 1 => Len(s) <= MaxDepth
  BY DEF FramesOf
<1> HIDE DEF s
<1>3. /\ Front(s) \in Seq(Frame) /\ DOMAIN s = 1 .. Len(s)
      /\ Len(Front(s)) = Len(s) - 1 /\ DOMAIN Front(s) = 1 .. Len(s) - 1
      /\ \A n \in 1 .. Len(s) - 1 : Front(s)[n] = s[n]
  BY <1>1, FrontFrame
<1>4. \A n \in DOMAIN frames'[i] : frames'[i][n].kind = "entry" <=> n = 1
  BY <1>1, <1>2, <1>3, <1>k
<1>5. nested_drop_cnt'[i] = Cardinality(Drops(i)') /\ nested_drop_cnt'[i] \in Nat
  <2>1. Drops(i)' = {n \in DOMAIN Front(s) : Front(s)[n].kind = "drop"}
    BY <1>2 DEF Drops
  <2>2. /\ Cardinality(Drops(i)') = nested_drop_cnt[i] - (IF Last(s).kind = "drop" THEN 1 ELSE 0)
        /\ nested_drop_cnt[i] \in Nat /\ (Last(s).kind = "drop" => nested_drop_cnt[i] > 0)
    BY <1>1, <1>c, <2>1, FrontDrops
  <2> QED
    BY <1>1, <2>2
<1>6. Shape(i)'
  <2>1. Len(frames'[i]) >= 1 /\ (Len(frames'[i]) > 1 => Len(frames'[i]) <= MaxDepth)
    BY <1>1, <1>2, <1>3, <1>k
  <2> QED
    BY <1>4, <1>5, <2>1 DEF Shape
<1> QED
  BY <1>2, <1>3, <1>5, <1>6 DEF s

\* A function on the stacklet of its caller is left.
LEMMA PoppedPlain ==
    ASSUME Types, NEW i \in Slot, FramesOf(i), ChainOf(i), OwnersOf(i), Len(frames[i]) > 1,
           ~Top(i).extended, Runs(i)' <=> Runs(i), Popped(i),
           nested_drop_cnt'[i] = nested_drop_cnt[i] - (IF Top(i).kind = "drop" THEN 1 ELSE 0),
           stacklets'[i] = stacklets[i], stklet_bound'[i] = stklet_bound[i],
           unw_bound'[i] = unw_bound[i]
    PROVE  ChainOf(i)' /\ OwnersOf(i)'
<1> DEFINE L == Len(frames[i])
<1>1. /\ Len(frames'[i]) = L - 1 /\ DOMAIN frames'[i] = 1 .. L - 1
      /\ \A n \in 1 .. L - 1 : frames'[i][n] = frames[i][n]
  BY PoppedFrames
<1>2. DOMAIN frames[i] = 1 .. L /\ L \in Nat /\ L > 1 /\ ~frames[i][L].extended
  BY TopFrame
<1> HIDE DEF L
<1>3. Extended(i)' = Extended(i) /\ Owned(i)' = Owned(i)
  <2>1. \A n : n \in Extended(i)' <=> n \in Extended(i)
    BY <1>1, <1>2 DEF Extended
  <2>2. Extended(i)' = Extended(i)
    BY <2>1
  <2>3. \A n \in Extended(i) : frames'[i][n] = frames[i][n]
    BY <1>1, <1>2 DEF Extended
  <2> QED
    BY <2>2, <2>3 DEF Owned
<1>4. ChainOf(i)'
  <2>1. frames'[i][1].bound = Initial /\ ~frames'[i][1].extended
    BY <1>1, <1>2 DEF ChainOf
  <2>2. ASSUME NEW n \in DOMAIN frames'[i] \ {1}
        PROVE  IF frames'[i][n].extended
                 THEN stacklets'[i][frames'[i][n].bound].prev = frames'[i][n - 1].bound
                 ELSE frames'[i][n].bound = frames'[i][n - 1].bound
    <3>1. n \in DOMAIN frames[i] \ {1} /\ n \in 1 .. L - 1 /\ n - 1 \in 1 .. L - 1
      BY <1>1, <1>2, <2>2
    <3> QED
      BY <1>1, <3>1 DEF ChainOf
  <2>3. \A m, n \in Extended(i)' : frames'[i][m].bound = frames'[i][n].bound => m = n
    BY <1>1, <1>2, <1>3 DEF ChainOf, Extended
  <2> QED
    BY <2>1, <2>2, <2>3 DEF ChainOf
<1>5. OwnersOf(i)'
  <2>1. frames'[i][L - 1].bound = frames[i][L].bound
    <3>1. L \in DOMAIN frames[i] \ {1} /\ L - 1 \in 1 .. L - 1
      BY <1>2
    <3> QED
      BY <1>1, <1>2, <3>1 DEF ChainOf
  <2>2. frames[i][L].bound = IF Runs(i) THEN unw_bound[i] ELSE stklet_bound[i]
    BY DEF OwnersOf, L
  <2>3. frames'[i][Len(frames'[i])].bound = IF Runs(i)' THEN unw_bound'[i] ELSE stklet_bound'[i]
    BY <1>1, <2>1, <2>2
  <2> QED
    BY <1>3, <2>3 DEF OwnersOf
<1> QED
  BY <1>4, <1>5

\* A function that was given a stacklet is left, and the stacklet is freed.
LEMMA PoppedExtended ==
    ASSUME Types, NEW i \in Slot, FramesOf(i), ChainOf(i), OwnersOf(i), Len(frames[i]) > 1,
           Top(i).extended, Runs(i)' <=> Runs(i), Popped(i),
           nested_drop_cnt'[i] = nested_drop_cnt[i] - (IF Top(i).kind = "drop" THEN 1 ELSE 0),
           Freed(i, Top(i).bound),
           IF Runs(i) THEN /\ unw_bound'[i] = stacklets[i][Top(i).bound].prev
                           /\ stklet_bound'[i] = stklet_bound[i]
           ELSE stklet_bound'[i] = stacklets[i][Top(i).bound].prev
    PROVE  ChainOf(i)' /\ OwnersOf(i)' /\ stacklets[i][Top(i).bound].prev \in Ids
<1> DEFINE L == Len(frames[i])
           b == frames[i][L].bound
<1>0. Top(i) = frames[i][L]
  BY TopFrame
<1>1. /\ Len(frames'[i]) = L - 1 /\ DOMAIN frames'[i] = 1 .. L - 1
      /\ \A n \in 1 .. L - 1 : frames'[i][n] = frames[i][n]
  BY PoppedFrames
<1>2. /\ DOMAIN frames[i] = 1 .. L /\ L \in Nat /\ L > 1 /\ frames[i][L].extended
      /\ \A n \in DOMAIN frames[i] : frames[i][n] \in Frame
  BY <1>0, TopFrame
<1>s. stacklets'[i] = [d \in DOMAIN stacklets[i] \ {b} |-> stacklets[i][d]]
  BY <1>0 DEF Freed, Restrict
<1>r. /\ Runs(i) => unw_bound'[i] = stacklets[i][b].prev /\ stklet_bound'[i] = stklet_bound[i]
      /\ ~Runs(i) => stklet_bound'[i] = stacklets[i][b].prev
  BY <1>0
<1>b. b = frames[i][L].bound
  OBVIOUS
<1>c. /\ frames[i][1].bound = Initial /\ ~frames[i][1].extended
      /\ \A n \in DOMAIN frames[i] \ {1} :
            IF frames[i][n].extended
              THEN stacklets[i][frames[i][n].bound].prev = frames[i][n - 1].bound
              ELSE frames[i][n].bound = frames[i][n - 1].bound
      /\ \A m, n \in Extended(i) : frames[i][m].bound = frames[i][n].bound => m = n
  BY DEF ChainOf
<1> HIDE DEF L, b
<1>3. /\ Extended(i)' = Extended(i) \ {L} /\ Extended(i) \subseteq 1 .. L /\ L \in Extended(i)
      /\ \A n \in Extended(i)' : n \in 1 .. L - 1
  <2>1. \A n : n \in Extended(i)' <=> n \in Extended(i) /\ n # L
    BY <1>1, <1>2 DEF Extended
  <2> QED
    BY <1>1, <1>2, <2>1 DEF Extended
<1>4. \A n \in Extended(i)' : frames'[i][n] = frames[i][n] /\ frames[i][n].bound # b
  BY <1>1, <1>3, <1>b, <1>c
<1>5. Owned(i)' = Owned(i) \ {b} /\ b \in Owned(i)
  <2>1. Owned(i)' = {frames[i][n].bound : n \in Extended(i)'}
    BY <1>4 DEF Owned
  <2> QED
    BY <1>3, <1>4, <1>b, <2>1 DEF Owned
<1>6. ChainOf(i)'
  <2>1. frames'[i][1].bound = Initial /\ ~frames'[i][1].extended
    <3>1. 1 \in 1 .. L - 1
      BY <1>2
    <3>2. frames'[i][1] = frames[i][1]
      BY <1>1, <3>1
    <3> QED
      BY <1>c, <3>2
  <2>2. ASSUME NEW n \in DOMAIN frames'[i] \ {1}
        PROVE  IF frames'[i][n].extended
                 THEN stacklets'[i][frames'[i][n].bound].prev = frames'[i][n - 1].bound
                 ELSE frames'[i][n].bound = frames'[i][n - 1].bound
    <3>1. n \in DOMAIN frames[i] \ {1} /\ n \in 1 .. L - 1 /\ n - 1 \in 1 .. L - 1
      BY <1>1, <1>2, <2>2
    <3>2. frames'[i][n] = frames[i][n] /\ frames'[i][n - 1] = frames[i][n - 1]
      BY <1>1, <3>1
    <3>3. frames[i][n].extended => frames[i][n].bound \in DOMAIN stacklets[i] \ {b}
      <4>1. frames[i][n].extended => n \in Extended(i)' /\ n \in Extended(i)
        BY <1>1, <1>2, <3>1, <3>2 DEF Extended
      <4>2. frames[i][n].extended => frames[i][n].bound \in Owned(i)
        BY <4>1 DEF Owned
      <4> QED
        BY <1>4, <4>1, <4>2 DEF OwnersOf
    <3>4. frames[i][n].extended =>
             stacklets'[i][frames[i][n].bound] = stacklets[i][frames[i][n].bound]
      BY <1>s, <3>3
    <3> QED
      BY <1>c, <3>1, <3>2, <3>4
  <2>3. \A m, n \in Extended(i)' : frames'[i][m].bound = frames'[i][n].bound => m = n
    BY <1>3, <1>4, <1>c
  <2> QED
    BY <2>1, <2>2, <2>3 DEF ChainOf
<1>7. stacklets[i][b].prev = frames[i][L - 1].bound /\ frames[i][L - 1].bound \in Ids
  <2>1. L \in DOMAIN frames[i] \ {1} /\ L - 1 \in DOMAIN frames[i]
    BY <1>2
  <2>2. frames[i][L - 1] \in Frame
    BY <1>2, <2>1
  <2> QED
    BY <1>2, <1>b, <1>c, <2>1, <2>2 DEF Frame
<1>8. OwnersOf(i)'
  <2>1. frames'[i][L - 1] = frames[i][L - 1]
    BY <1>1, <1>2
  <2>2. frames'[i][Len(frames'[i])].bound = IF Runs(i)' THEN unw_bound'[i] ELSE stklet_bound'[i]
    BY <1>1, <1>7, <1>r, <2>1
  <2>3. /\ Initial \notin DOMAIN stacklets[i]
        /\ Runs(i) => stklet_bound[i] \notin Owned(i) \union {Initial}
        /\ DOMAIN stacklets[i] = Owned(i) \union (IF Runs(i) THEN {stklet_bound[i]} ELSE {})
    BY DEF OwnersOf
  <2>4. DOMAIN stacklets'[i] = DOMAIN stacklets[i] \ {b}
    BY <1>s
  <2>5. DOMAIN stacklets'[i] = Owned(i)' \union (IF Runs(i)' THEN {stklet_bound'[i]} ELSE {})
    BY <1>5, <1>r, <2>3, <2>4
  <2>6. /\ Initial \notin DOMAIN stacklets'[i]
        /\ Runs(i)' => stklet_bound'[i] \notin Owned(i)' \union {Initial}
    BY <1>5, <1>r, <2>3, <2>4
  <2> QED
    BY <2>2, <2>5, <2>6 DEF OwnersOf
<1> QED
  BY <1>0, <1>6, <1>7, <1>8, <1>b

-----------------------------------------------------------------------------
\* The unwinder is given a stacklet to run on.
LEMMA UnwinderEnters ==
    ASSUME Types, NEW i \in Slot, FramesOf(i), ChainOf(i), OwnersOf(i), ~Runs(i), Runs(i)',
           frames'[i] = frames[i], nested_drop_cnt'[i] = nested_drop_cnt[i],
           NEW size, Added(i, size), stklet_bound'[i] = NewId(i), unw_bound'[i] = Top(i).bound
    PROVE  Shape(i)' /\ ChainOf(i)' /\ OwnersOf(i)' /\ NewId(i) \in Ids
<1> DEFINE b == NewId(i)
<1>1. b \in Ids /\ b # Initial /\ b \notin DOMAIN stacklets[i] /\ DOMAIN stacklets[i] = Owned(i)
  BY FreshId
<1>2. /\ DOMAIN stacklets'[i] = DOMAIN stacklets[i] \union {b}
      /\ \A d \in DOMAIN stacklets[i] : stacklets'[i][d] = stacklets[i][d]
  BY <1>1 DEF Added
<1>3. Shape(i)'
  BY DEF FramesOf, Shape, Drops
<1>4. Extended(i)' = Extended(i) /\ Owned(i)' = Owned(i)
  BY DEF Extended, Owned
<1>5. ChainOf(i)'
  <2>1. \A n \in DOMAIN frames[i] : frames[i][n].extended => frames[i][n].bound \in DOMAIN stacklets[i]
    BY <1>1 DEF Extended, Owned
  <2> QED
    BY <1>2, <1>4, <2>1 DEF ChainOf
<1>6. OwnersOf(i)'
  <2>1. Top(i) = frames[i][Len(frames[i])]
    BY TopFrame
  <2>2. Initial \notin DOMAIN stacklets[i]
    BY DEF OwnersOf
  <2> QED
    BY <1>1, <1>2, <1>4, <2>1, <2>2 DEF OwnersOf
<1> QED
  BY <1>1, <1>3, <1>5, <1>6

\* It leaves for a landing pad, and frees the stacklet.
LEMMA UnwinderLands ==
    ASSUME Types, NEW i \in Slot, FramesOf(i), ChainOf(i), OwnersOf(i), Runs(i), ~Runs(i)',
           frames'[i] = frames[i], nested_drop_cnt'[i] = nested_drop_cnt[i],
           Freed(i, stklet_bound[i]), stklet_bound'[i] = unw_bound[i]
    PROVE  Shape(i)' /\ ChainOf(i)' /\ OwnersOf(i)'
<1>1. /\ stklet_bound[i] \notin Owned(i) /\ Initial \notin DOMAIN stacklets[i]
      /\ DOMAIN stacklets[i] = Owned(i) \union {stklet_bound[i]}
      /\ frames[i][Len(frames[i])].bound = unw_bound[i]
  BY DEF OwnersOf
<1>2. /\ DOMAIN stacklets'[i] = Owned(i)
      /\ \A d \in Owned(i) : stacklets'[i][d] = stacklets[i][d]
  BY <1>1 DEF Freed, Restrict
<1>3. Shape(i)'
  BY DEF FramesOf, Shape, Drops
<1>4. Extended(i)' = Extended(i) /\ Owned(i)' = Owned(i)
  BY DEF Extended, Owned
<1>5. ChainOf(i)'
  <2>1. \A n \in DOMAIN frames[i] : frames[i][n].extended => frames[i][n].bound \in Owned(i)
    BY DEF Extended, Owned
  <2> QED
    BY <1>2, <1>4, <2>1 DEF ChainOf
<1>6. OwnersOf(i)'
  BY <1>1, <1>2, <1>4 DEF OwnersOf
<1> QED
  BY <1>3, <1>5, <1>6

\* A drop handler is over but for its epilogue, and it was the only one.
LEMMA DropOver ==
    ASSUME Types, NEW i \in Slot, FramesOf(i), ChainOf(i), OwnersOf(i), ~Runs(i), ~Runs(i)',
           Top(i).kind = "drop", nested_drop_cnt[i] = 1, nested_drop_cnt'[i] = 0,
           frames'[i] = Append(Pop(i), [Top(i) EXCEPT !.kind = "fn"]),
           stacklets'[i] = stacklets[i], stklet_bound'[i] = stklet_bound[i]
    PROVE  Shape(i)' /\ ChainOf(i)' /\ OwnersOf(i)' /\ frames'[i] \in Seq(Frame)
<1> DEFINE s == frames[i]
           L == Len(s)
           f == [Top(i) EXCEPT !.kind = "fn"]
           p == Front(s)
<1>1. /\ s \in Seq(Frame) /\ L \in Nat \ {0} /\ DOMAIN s = 1 .. L /\ MaxDepth \in Nat
      /\ Top(i) = s[L] /\ Top(i) \in Frame /\ Last(s) = s[L]
      /\ f \in Frame /\ f.kind = "fn" /\ f.bound = s[L].bound /\ f.extended = s[L].extended
  BY TopFrame, SizeAssumption DEF Frame, FrameKinds, Top
<1>2. frames'[i] = Append(p, f)
  BY DEF Pop
<1>k. /\ \A n \in DOMAIN s : s[n].kind = "entry" <=> n = 1
      /\ L > 1 => L <= MaxDepth
      /\ nested_drop_cnt[i] = Cardinality({n \in DOMAIN s : s[n].kind = "drop"})
  BY DEF FramesOf, Drops
<1>m. L > 1
  <2>1. s[L].kind = "drop" /\ L \in DOMAIN s
    BY <1>1
  <2>2. "drop" # "entry"
    OBVIOUS
  <2> QED
    BY <1>1, <1>k, <2>1, <2>2
<1>p. p = Front(s) /\ Len(s) = L
  OBVIOUS
<1> HIDE DEF s, L, f, p
<1>g. Len(s) >= 1
  BY <1>1, <1>p
<1>3. /\ p \in Seq(Frame) /\ Len(p) = L - 1 /\ DOMAIN p = 1 .. L - 1
      /\ \A n \in 1 .. L - 1 : p[n] = s[n]
  BY <1>1, <1>p, <1>g, FrontFrame
<1>4. /\ frames'[i] \in Seq(Frame) /\ Len(frames'[i]) = L /\ DOMAIN frames'[i] = 1 .. L
      /\ frames'[i][L] = f
      /\ \A n \in 1 .. L - 1 : frames'[i][n] = s[n]
  <2>1. /\ Append(p, f) \in Seq(Frame) /\ Len(Append(p, f)) = Len(p) + 1
        /\ DOMAIN Append(p, f) = 1 .. Len(p) + 1
        /\ Append(p, f)[Len(p) + 1] = f
        /\ \A n \in 1 .. Len(p) : Append(p, f)[n] = p[n]
    BY <1>1, <1>3, AppendFrame
  <2>2. Len(p) + 1 = L
    BY <1>1, <1>3
  <2> QED
    BY <1>2, <1>3, <2>1, <2>2
<1>5. nested_drop_cnt'[i] = Cardinality(Drops(i)')
  <2>1. Cardinality({n \in DOMAIN p : p[n].kind = "drop"}) = 0
    <3>1. s[L].kind = "drop"
      BY <1>1
    <3>2. Cardinality({n \in DOMAIN Front(s) : Front(s)[n].kind = "drop"}) = 1 - 1
      BY <1>1, <1>g, <1>k, <3>1, FrontDrops
    <3> QED
      BY <1>p, <3>2
  <2>2. Cardinality({n \in DOMAIN Append(p, f) : Append(p, f)[n].kind = "drop"}) = 0
    <3> DEFINE d(q) == Cardinality({n \in DOMAIN q : q[n].kind = "drop"})
    <3>1. d(p) = 0 /\ f.kind # "drop"
      BY <1>1, <2>1
    <3>2. d(Append(p, f)) = d(p) + (IF f.kind = "drop" THEN 1 ELSE 0)
      BY <1>1, <1>3, AppendDrops
    <3> HIDE DEF d
    <3>3. d(Append(p, f)) = 0
      BY <3>1, <3>2
    <3> QED
      BY <3>3 DEF d
  <2> QED
    BY <1>2, <2>2 DEF Drops
<1>6. Shape(i)'
  <2>1. \A n \in DOMAIN frames'[i] : frames'[i][n].kind = "entry" <=> n = 1
    <3>1. \A n \in 1 .. L : n \in 1 .. L - 1 \/ n = L
      BY <1>1
    <3> QED
      BY <1>1, <1>4, <1>k, <1>m, <3>1
  <2> QED
    BY <1>1, <1>4, <1>5, <1>k, <2>1 DEF Shape
<1>7. /\ \A n \in 1 .. L : frames'[i][n].bound = s[n].bound /\ frames'[i][n].extended = s[n].extended
  <2>1. \A n \in 1 .. L : n \in 1 .. L - 1 \/ n = L
    BY <1>1
  <2> QED
    BY <1>1, <1>4, <2>1
<1>8. Extended(i)' = Extended(i) /\ Owned(i)' = Owned(i)
  <2>1. Extended(i)' = Extended(i) /\ Extended(i) \subseteq 1 .. L
    BY <1>1, <1>4, <1>7 DEF Extended, s
  <2> QED
    BY <1>7, <2>1 DEF Owned, s
<1>9. ChainOf(i)'
  <2>1. frames'[i][1].bound = Initial /\ ~frames'[i][1].extended
    BY <1>1, <1>7 DEF ChainOf, s
  <2>2. ASSUME NEW n \in DOMAIN frames'[i] \ {1}
        PROVE  IF frames'[i][n].extended
                 THEN stacklets'[i][frames'[i][n].bound].prev = frames'[i][n - 1].bound
                 ELSE frames'[i][n].bound = frames'[i][n - 1].bound
    <3>1. n \in DOMAIN frames[i] \ {1} /\ n \in 1 .. L /\ n - 1 \in 1 .. L
      BY <1>1, <1>4, <2>2 DEF s
    <3> QED
      BY <1>7, <3>1, SMTT(30) DEF ChainOf, s
  <2>3. \A m, n \in Extended(i)' : frames'[i][m].bound = frames'[i][n].bound => m = n
    <3>1. Extended(i) \subseteq 1 .. L
      BY <1>1 DEF Extended, s
    <3>2. \A n \in Extended(i) : frames'[i][n].bound = frames[i][n].bound
      BY <1>7, <3>1 DEF s
    <3>3. \A m, n \in Extended(i) : frames[i][m].bound = frames[i][n].bound => m = n
      BY DEF ChainOf
    <3> QED
      BY <1>8, <3>2, <3>3
  <2> QED
    BY <2>1, <2>2, <2>3 DEF ChainOf
<1>10. OwnersOf(i)'
  <2>1. frames'[i][Len(frames'[i])].bound = stklet_bound'[i]
    BY <1>1, <1>4, <1>7 DEF OwnersOf, s, L
  <2> QED
    BY <1>8, <2>1 DEF OwnersOf
<1> QED
  BY <1>4, <1>6, <1>9, <1>10

-----------------------------------------------------------------------------
(***************************************************************************)
(* The actions, as far as they concern one instance.                       *)
(***************************************************************************)
SlotsInv == \A i \in Slot : SlotInv(i)

\* The other instances.
Aside(j) ==
    /\ pc'[j] = pc[j] /\ Untouched(j) /\ unw_bound'[j] = unw_bound[j] /\ base'[j] = base[j]
    /\ unwind_pending'[j] = unwind_pending[j] /\ is_unwinding'[j] = is_unwinding[j]
    /\ has_restarted'[j] = has_restarted[j]

\* They stay as they are.
LEMMA AsideSlot ==
    ASSUME NEW j \in Slot, SlotInv(j), Aside(j)
    PROVE  SlotInv(j)'
<1>1. Shape(j)' /\ ChainOf(j)' /\ OwnersOf(j)'
  BY UntouchedSlot DEF SlotInv, Aside, FramesOf, Shape, Runs
<1>2. ControlOf(j)'
  BY DEF SlotInv, Aside, Untouched, ControlOf
<1>3. FramesOf(j)'
  BY <1>1 DEF SlotInv, Aside, Untouched, FramesOf, Shape, Drops
<1> QED
  BY <1>1, <1>2, <1>3 DEF SlotInv

\* The caller goes on where it was, in application code or in a landing pad.
LEMMA PushedControl ==
    ASSUME Types, NEW i \in Slot, SlotInv(i), NEW k \in {"fn", "guard", "drop"}, NEW b \in Ids,
           NEW ext \in BOOLEAN, Pushed(i, k, b, ext), Len(frames[i]) < MaxDepth,
           pc[i] \in {"run", "pad"}, pc'[i] = pc[i], base'[i] = base[i], unw_bound'[i] = unw_bound[i],
           is_unwinding'[i] = is_unwinding[i], has_restarted'[i] = has_restarted[i],
           unwind_pending'[i] =>
               unwind_pending[i] \/ (~is_unwinding[i] /\ (k = "drop" \/ nested_drop_cnt[i] > 0))
    PROVE  ControlOf(i)' /\ FramesOf(i)' /\ nested_drop_cnt'[i] \in Nat
<1> DEFINE L == Len(frames[i])
<1>0. /\ Shape(i)' /\ Len(frames'[i]) = L + 1 /\ DOMAIN frames'[i] = 1 .. L + 1
      /\ \A n \in 1 .. L : frames'[i][n] = frames[i][n]
  BY PushedFrames DEF SlotInv
<1>1. DOMAIN frames[i] = 1 .. L /\ L \in Nat \ {0}
  BY TopFrame DEF SlotInv
<1>2. nested_drop_cnt[i] \in Nat
  BY DEF Types
<1>3. /\ nested_drop_cnt'[i] = nested_drop_cnt[i] + (IF k = "drop" THEN 1 ELSE 0)
      /\ nested_drop_cnt'[i] \in Nat
  BY <1>2 DEF Pushed
<1>4. ControlOf(i)'
  <2>1. pc[i] = "pad" => is_unwinding[i]
    BY DEF SlotInv, ControlOf
  <2>2. unwind_pending'[i] => pc[i] = "run" /\ nested_drop_cnt'[i] > 0
    BY <1>2, <1>3, <2>1 DEF SlotInv, ControlOf
  <2> QED
    BY <2>2 DEF SlotInv, ControlOf
<1> HIDE DEF L
<1>5. pc[i] = "pad" => /\ base'[i] \in DOMAIN frames'[i] /\ frames'[i][base'[i]].kind = "guard"
                       /\ frames'[i][base'[i]].bound = unw_bound'[i]
                       /\ \A n \in Drops(i)' : n > base'[i]
  <2> SUFFICES ASSUME pc[i] = "pad"
               PROVE  /\ base[i] \in DOMAIN frames'[i] /\ frames'[i][base[i]].kind = "guard"
                      /\ frames'[i][base[i]].bound = unw_bound[i]
                      /\ \A n \in Drops(i)' : n > base[i]
    OBVIOUS
  <2>1. /\ base[i] \in 1 .. L /\ frames[i][base[i]].kind = "guard"
        /\ frames[i][base[i]].bound = unw_bound[i] /\ \A n \in Drops(i) : n > base[i]
    BY <1>1 DEF SlotInv, FramesOf
  <2>2. \A n \in Drops(i)' : n \in Drops(i) \/ n = L + 1
    BY <1>0, <1>1 DEF Drops
  <2> QED
    BY <1>0, <1>1, <2>1, <2>2
<1>6. FramesOf(i)'
  BY <1>0, <1>5 DEF FramesOf, Shape
<1> QED
  BY <1>3, <1>4, <1>6

\* A call within the stacklet.
LEMMA callSlots ==
    ASSUME Types, SlotsInv, NEW i \in Slot, NEW k \in {"fn", "guard", "drop"}, call(i, k)
    PROVE  Types' /\ SlotsInv'
<1>1. /\ frames' = [frames EXCEPT ![i] = Append(@, [kind |-> k, bound |-> stklet_bound[i], extended |-> FALSE])]
      /\ nested_drop_cnt' = [nested_drop_cnt EXCEPT ![i] = IF k = "drop" THEN @ + 1 ELSE @]
      /\ UNCHANGED <<kind, pc, stklet_bound, unwind_pending, stacklets, unw_bound, base, catch,
                     is_unwinding, has_restarted, restarted_from, lowered, outcome>>
      /\ pc[i] \in {"run", "pad"} /\ Len(frames[i]) < MaxDepth
  BY DEF call, Enter, MayCall, given, memory, struct, history
<1>2. SlotInv(i) /\ FramesOf(i) /\ ChainOf(i) /\ OwnersOf(i) /\ stklet_bound[i] \in Ids
  BY DEF SlotsInv, SlotInv, Types
<1>3. Pushed(i, k, stklet_bound[i], FALSE)
  BY <1>1 DEF Pushed, Types
<1>4. ~Runs(i) /\ ~Runs(i)'
  BY <1>1 DEF Runs, Unwinder
<1>5. ChainOf(i)' /\ OwnersOf(i)' /\ frames'[i] \in Seq(Frame)
  BY <1>1, <1>2, <1>3, <1>4, PushedPlain
<1>6. ControlOf(i)' /\ FramesOf(i)' /\ nested_drop_cnt'[i] \in Nat
  BY <1>1, <1>2, <1>3, PushedControl
<1>7. ASSUME NEW j \in Slot, j # i PROVE SlotInv(j)'
  <2>1. Aside(j)
    BY <1>1, <1>7 DEF Types, Aside, Untouched
  <2> QED
    BY <2>1, AsideSlot DEF SlotsInv
<1>8. Types'
  <2>1. frames' \in [Slot -> Seq(Frame)]
    BY <1>1, <1>5 DEF Types
  <2>2. nested_drop_cnt' \in [Slot -> Nat]
    BY <1>1, <1>6 DEF Types
  <2> QED
    BY <1>1, <2>1, <2>2 DEF Types
<1> QED
  BY <1>5, <1>6, <1>7, <1>8 DEF SlotsInv, SlotInv

\* A call with a stacklet of its own.
LEMMA call_more_stackSlots ==
    ASSUME Types, SlotsInv, NEW i \in Slot, NEW k \in {"fn", "guard", "drop"}, NEW size \in Sizes,
           call_more_stack(i, k, size)
    PROVE  Types' /\ SlotsInv'
<1>1. /\ frames' = [frames EXCEPT ![i] = Append(@, [kind |-> k, bound |-> NewId(i), extended |-> TRUE])]
      /\ nested_drop_cnt' = [nested_drop_cnt EXCEPT ![i] = IF k = "drop" THEN @ + 1 ELSE @]
      /\ stacklets' = [stacklets EXCEPT ![i] =
             [b \in DOMAIN @ \union {NewId(i)} |->
                 IF b = NewId(i) THEN [prev |-> stklet_bound[i], count_size |-> size] ELSE @[b]]]
      /\ stklet_bound' = [stklet_bound EXCEPT ![i] = NewId(i)]
      /\ unwind_pending' = [unwind_pending EXCEPT ![i] = @ \/ Pends(i, Reason(k), size)]
      /\ UNCHANGED <<kind, pc, unw_bound, base, catch,
                     is_unwinding, has_restarted, restarted_from, lowered, outcome>>
      /\ pc[i] \in {"run", "pad"} /\ Len(frames[i]) < MaxDepth
  BY DEF call_more_stack, more_stack, Enter, MayCall, given, struct, history
<1>2. SlotInv(i) /\ FramesOf(i) /\ ChainOf(i) /\ OwnersOf(i)
  BY DEF SlotsInv, SlotInv
<1>4. ~Runs(i) /\ ~Runs(i)'
  BY <1>1 DEF Runs, Unwinder
<1>n. NewId(i) \in Ids
  BY <1>2, <1>4, FreshId
<1>3. Pushed(i, k, NewId(i), TRUE) /\ Added(i, size)
  BY <1>1 DEF Pushed, Added, Types
<1>5. ChainOf(i)' /\ OwnersOf(i)' /\ frames'[i] \in Seq(Frame)
  BY <1>1, <1>2, <1>3, <1>4, PushedExtended
<1>p. unwind_pending'[i] =>
         unwind_pending[i] \/ (~is_unwinding[i] /\ (k = "drop" \/ nested_drop_cnt[i] > 0))
  <2>1. unwind_pending'[i] => unwind_pending[i] \/ Pends(i, Reason(k), size)
    BY <1>1 DEF Types
  <2>2. Pends(i, Reason(k), size) => ~is_unwinding[i] /\ (k = "drop" \/ nested_drop_cnt[i] > 0)
    BY DEF Pends, Exempt, InDrop, Reason
  <2> QED
    BY <2>1, <2>2
<1>6. ControlOf(i)' /\ FramesOf(i)' /\ nested_drop_cnt'[i] \in Nat
  BY <1>1, <1>2, <1>3, <1>n, <1>p, PushedControl
<1>7. ASSUME NEW j \in Slot, j # i PROVE SlotInv(j)'
  <2>1. Aside(j)
    BY <1>1, <1>7 DEF Types, Aside, Untouched
  <2> QED
    BY <2>1, AsideSlot DEF SlotsInv
<1>8. Types'
  <2>1. frames' \in [Slot -> Seq(Frame)]
    BY <1>1, <1>5 DEF Types
  <2>2. nested_drop_cnt' \in [Slot -> Nat]
    BY <1>1, <1>6 DEF Types
  <2>3. stklet_bound' \in [Slot -> Ids] /\ DOMAIN stacklets' = Slot
    BY <1>1, <1>n DEF Types
  <2>4. unwind_pending' \in [Slot -> BOOLEAN]
    <3>1. (unwind_pending[i] \/ Pends(i, Reason(k), size)) \in BOOLEAN
      OBVIOUS
    <3> QED
      BY <1>1, <3>1 DEF Types
  <2> QED
    BY <1>1, <2>1, <2>2, <2>3, <2>4 DEF Types
<1> QED
  BY <1>5, <1>6, <1>7, <1>8 DEF SlotsInv, SlotInv

\* A return, with less_stack if the function was given a stacklet.
LEMMA returnSlots ==
    ASSUME Types, SlotsInv, NEW i \in Slot, return(i)
    PROVE  Types' /\ SlotsInv'
<1>1. /\ frames' = [frames EXCEPT ![i] = Pop(i)]
      /\ nested_drop_cnt' = [nested_drop_cnt EXCEPT ![i] = IF Top(i).kind = "drop" THEN @ - 1 ELSE @]
      /\ IF Top(i).extended
           THEN /\ stklet_bound' = [stklet_bound EXCEPT ![i] = stacklets[i][stklet_bound[i]].prev]
                /\ stacklets' = [stacklets EXCEPT ![i] = Restrict(@, DOMAIN @ \ {stklet_bound[i]})]
           ELSE UNCHANGED <<stklet_bound, stacklets>>
      /\ UNCHANGED <<kind, pc, unwind_pending, unw_bound, base, catch,
                     is_unwinding, has_restarted, restarted_from, lowered, outcome>>
      /\ \/ pc[i] = "run" /\ Len(frames[i]) > 1
         \/ pc[i] = "pad" /\ Len(frames[i]) > base[i]
      /\ ~Deferred(i)
  BY DEF return, less_stack, Dealloc, given, memory, struct, history
<1>2. SlotInv(i) /\ FramesOf(i) /\ ChainOf(i) /\ OwnersOf(i) /\ ControlOf(i)
  BY DEF SlotsInv, SlotInv
<1> DEFINE L == Len(frames[i])
<1>3. DOMAIN frames[i] = 1 .. L /\ L \in Nat \ {0} /\ Top(i) = frames[i][L]
  BY <1>2, TopFrame
<1>4. L > 1
  <2>1. pc[i] = "pad" => base[i] \in 1 .. L
    BY <1>2, <1>3 DEF FramesOf
  <2> QED
    BY <1>1, <1>3, <2>1
<1>5. ~Runs(i) /\ ~Runs(i)' /\ Popped(i)
  BY <1>1 DEF Runs, Unwinder, Popped, Pop, Types
<1>6. nested_drop_cnt'[i] = nested_drop_cnt[i] - (IF Top(i).kind = "drop" THEN 1 ELSE 0)
  BY <1>1 DEF Types
<1>7. /\ Shape(i)' /\ frames'[i] \in Seq(Frame) /\ nested_drop_cnt'[i] \in Nat
      /\ Len(frames'[i]) = L - 1 /\ DOMAIN frames'[i] = 1 .. L - 1
      /\ \A n \in 1 .. L - 1 : frames'[i][n] = frames[i][n]
  BY <1>2, <1>4, <1>5, <1>6, PoppedFrames
<1>b. stklet_bound[i] = Top(i).bound
  BY <1>2, <1>3, <1>5 DEF OwnersOf
<1>8. ChainOf(i)' /\ OwnersOf(i)' /\ stklet_bound'[i] \in Ids
  <2>1. CASE Top(i).extended
    <3>1. Freed(i, Top(i).bound) /\ stklet_bound'[i] = stacklets[i][Top(i).bound].prev
      BY <1>1, <1>b, <2>1 DEF Freed, Types
    <3> QED
      BY <1>2, <1>4, <1>5, <1>6, <2>1, <3>1, PoppedExtended
  <2>2. CASE ~Top(i).extended
    <3>1. stacklets' = stacklets /\ stklet_bound' = stklet_bound /\ unw_bound' = unw_bound
      BY <1>1, <2>2
    <3>2. ChainOf(i)' /\ OwnersOf(i)'
      BY <1>2, <1>4, <1>5, <1>6, <2>2, <3>1, PoppedPlain
    <3> QED
      BY <3>1, <3>2 DEF Types
  <2> QED
    BY <2>1, <2>2
<1> HIDE DEF L
<1>9. ControlOf(i)'
  <2>1. nested_drop_cnt[i] \in Nat
    BY DEF Types
  <2>2. unwind_pending[i] => nested_drop_cnt'[i] > 0
    <3>1. unwind_pending[i] => nested_drop_cnt[i] > 0
      BY <1>2 DEF ControlOf
    <3>2. unwind_pending[i] /\ Top(i).kind = "drop" => nested_drop_cnt[i] # 1
      BY <1>1 DEF Deferred
    <3> QED
      BY <1>6, <2>1, <3>1, <3>2
  <2> QED
    BY <1>1, <1>2, <2>2 DEF ControlOf
<1>10. FramesOf(i)'
  <2>1. pc[i] = "pad" => /\ base[i] \in DOMAIN frames'[i] /\ frames'[i][base[i]] = frames[i][base[i]]
                         /\ \A n \in Drops(i)' : n \in Drops(i)
    <3>1. pc[i] = "pad" => base[i] \in 1 .. L /\ L > base[i]
      BY <1>1, <1>2, <1>3 DEF FramesOf, L
    <3>2. pc[i] = "pad" => base[i] \in 1 .. L - 1
      BY <1>3, <3>1
    <3>3. \A n \in Drops(i)' : n \in Drops(i)
      BY <1>3, <1>7 DEF Drops
    <3> QED
      BY <1>7, <3>2, <3>3
  <2> QED
    BY <1>1, <1>2, <1>7, <2>1 DEF FramesOf, Shape
<1>11. ASSUME NEW j \in Slot, j # i PROVE SlotInv(j)'
  <2>1. Aside(j)
    <3>1. stacklets'[j] = stacklets[j] /\ stklet_bound'[j] = stklet_bound[j]
      BY <1>1, <1>11 DEF Types
    <3> QED
      BY <1>1, <1>11, <3>1 DEF Types, Aside, Untouched
  <2> QED
    BY <2>1, AsideSlot DEF SlotsInv
<1>12. Types'
  <2>1. frames' \in [Slot -> Seq(Frame)]
    BY <1>1, <1>7 DEF Types
  <2>2. nested_drop_cnt' \in [Slot -> Nat]
    BY <1>1, <1>7 DEF Types
  <2>3. stklet_bound' \in [Slot -> Ids] /\ DOMAIN stacklets' = Slot
    BY <1>1, <1>8 DEF Types
  <2> QED
    BY <1>1, <2>1, <2>2, <2>3 DEF Types
<1> QED
  BY <1>8, <1>9, <1>10, <1>11, <1>12 DEF SlotsInv, SlotInv

\* The forced unwinding that was put off begins.
LEMMA deferred_unwindSlots ==
    ASSUME Types, SlotsInv, NEW i \in Slot, deferred_unwind(i)
    PROVE  Types' /\ SlotsInv'
<1>1. /\ frames' = [frames EXCEPT ![i] = Append(Pop(i), [Top(i) EXCEPT !.kind = "fn"])]
      /\ nested_drop_cnt' = [nested_drop_cnt EXCEPT ![i] = 0]
      /\ unwind_pending' = [unwind_pending EXCEPT ![i] = FALSE]
      /\ pc' = [pc EXCEPT ![i] = "divert"]
      /\ UNCHANGED <<kind, stklet_bound, stacklets, unw_bound, base, catch,
                     is_unwinding, has_restarted, restarted_from, lowered, outcome>>
      /\ Top(i).kind = "drop" /\ nested_drop_cnt[i] = 1 /\ unwind_pending[i]
  BY DEF deferred_unwind, Deferred, Goto, given, memory, struct, history
<1>2. SlotInv(i) /\ FramesOf(i) /\ ChainOf(i) /\ OwnersOf(i) /\ ControlOf(i)
  BY DEF SlotsInv, SlotInv
<1>3. /\ pc'[i] = "divert" /\ nested_drop_cnt'[i] = 0 /\ ~unwind_pending'[i]
      /\ frames'[i] = Append(Pop(i), [Top(i) EXCEPT !.kind = "fn"])
  BY <1>1 DEF Types
<1>4. pc[i] = "run" /\ ~is_unwinding[i] /\ ~has_restarted[i]
  BY <1>1, <1>2 DEF ControlOf
<1>5. ~Runs(i) /\ ~Runs(i)'
  BY <1>3, <1>4 DEF Runs, Unwinder
<1>6. Shape(i)' /\ ChainOf(i)' /\ OwnersOf(i)' /\ frames'[i] \in Seq(Frame)
  BY <1>1, <1>2, <1>3, <1>5, DropOver
<1>7. ControlOf(i)'
  BY <1>1, <1>3, <1>4 DEF ControlOf
<1>8. FramesOf(i)'
  BY <1>3, <1>6 DEF FramesOf, Shape
<1>9. ASSUME NEW j \in Slot, j # i PROVE SlotInv(j)'
  <2>1. Aside(j)
    BY <1>1, <1>9 DEF Types, Aside, Untouched
  <2> QED
    BY <2>1, AsideSlot DEF SlotsInv
<1>10. Types'
  <2>1. frames' \in [Slot -> Seq(Frame)]
    BY <1>1, <1>6 DEF Types
  <2>2. nested_drop_cnt' \in [Slot -> Nat] /\ unwind_pending' \in [Slot -> BOOLEAN]
    BY <1>1 DEF Types
  <2>3. pc' \in [Slot -> Steps]
    BY <1>1 DEF Types, Steps
  <2> QED
    BY <1>1, <2>1, <2>2, <2>3 DEF Types
<1> QED
  BY <1>6, <1>7, <1>8, <1>9, <1>10 DEF SlotsInv, SlotInv

\* The unwinder steps out of a function.
LEMMA stepSlots ==
    ASSUME Types, SlotsInv, NEW i \in Slot, step(i)
    PROVE  Types' /\ SlotsInv'
<1>1. /\ frames' = [frames EXCEPT ![i] = Pop(i)]
      /\ IF Top(i).extended
           THEN /\ unw_bound' = [unw_bound EXCEPT ![i] = stacklets[i][unw_bound[i]].prev]
                /\ stacklets' = [stacklets EXCEPT ![i] = Restrict(@, DOMAIN @ \ {unw_bound[i]})]
           ELSE UNCHANGED <<unw_bound, stacklets>>
      /\ pc' = [pc EXCEPT ![i] = "unwind"]
      /\ UNCHANGED <<kind, stklet_bound, nested_drop_cnt, unwind_pending, base, catch,
                     is_unwinding, has_restarted, restarted_from, lowered, outcome>>
      /\ pc[i] = "step" \/ (pc[i] = "unwind" /\ Top(i).kind \notin {"entry", "guard"})
  BY DEF step, HasPad, Dealloc, Goto, given, memory, struct, history, tls
<1>2. SlotInv(i) /\ FramesOf(i) /\ ChainOf(i) /\ OwnersOf(i) /\ ControlOf(i)
  BY DEF SlotsInv, SlotInv
<1> DEFINE L == Len(frames[i])
<1>3. DOMAIN frames[i] = 1 .. L /\ L \in Nat \ {0} /\ Top(i) = frames[i][L] /\ L \in DOMAIN frames[i]
  BY <1>2, TopFrame
<1>4. Top(i).kind \notin {"entry", "drop"}
  <2>1. CASE pc[i] = "step"
    BY <1>2, <1>3, <2>1 DEF FramesOf
  <2>2. CASE pc[i] = "unwind"
    <3>1. nested_drop_cnt[i] = 0
      BY <1>2, <2>2 DEF ControlOf
    <3>2. Drops(i) = {}
      BY <1>2, <3>1, NoDrops
    <3>3. frames[i][L].kind # "drop"
      BY <1>3, <3>2 DEF Drops
    <3> QED
      BY <1>1, <1>3, <2>2, <3>3
  <2> QED
    BY <1>1, <2>1, <2>2
<1>5. L > 1
  BY <1>2, <1>3, <1>4 DEF FramesOf
<1>6. Runs(i) /\ Runs(i)' /\ Popped(i) /\ pc'[i] = "unwind"
  BY <1>1 DEF Runs, Unwinder, Popped, Pop, Types
<1>7. nested_drop_cnt'[i] = nested_drop_cnt[i] - (IF Top(i).kind = "drop" THEN 1 ELSE 0)
  BY <1>1, <1>4 DEF Types
<1>8. Shape(i)' /\ frames'[i] \in Seq(Frame)
  BY <1>2, <1>5, <1>6, <1>7, PoppedFrames
<1>b. unw_bound[i] = Top(i).bound
  BY <1>2, <1>3, <1>6 DEF OwnersOf
<1>9. ChainOf(i)' /\ OwnersOf(i)' /\ unw_bound'[i] \in Ids
  <2>1. CASE Top(i).extended
    <3>1. /\ Freed(i, Top(i).bound) /\ unw_bound'[i] = stacklets[i][Top(i).bound].prev
          /\ stklet_bound'[i] = stklet_bound[i]
      BY <1>1, <1>b, <2>1 DEF Freed, Types
    <3> QED
      BY <1>2, <1>5, <1>6, <1>7, <2>1, <3>1, PoppedExtended
  <2>2. CASE ~Top(i).extended
    <3>1. stacklets' = stacklets /\ stklet_bound' = stklet_bound /\ unw_bound' = unw_bound
      BY <1>1, <2>2
    <3>2. ChainOf(i)' /\ OwnersOf(i)'
      BY <1>2, <1>5, <1>6, <1>7, <2>2, <3>1, PoppedPlain
    <3> QED
      BY <3>1, <3>2 DEF Types
  <2> QED
    BY <2>1, <2>2
<1>10. ControlOf(i)'
  BY <1>1, <1>2, <1>6 DEF ControlOf
<1>11. FramesOf(i)'
  BY <1>6, <1>8 DEF FramesOf, Shape
<1>12. ASSUME NEW j \in Slot, j # i PROVE SlotInv(j)'
  <2>1. Aside(j)
    <3>1. stacklets'[j] = stacklets[j] /\ unw_bound'[j] = unw_bound[j]
      BY <1>1, <1>12 DEF Types
    <3> QED
      BY <1>1, <1>12, <3>1 DEF Types, Aside, Untouched
  <2> QED
    BY <2>1, AsideSlot DEF SlotsInv
<1>13. Types'
  <2>1. frames' \in [Slot -> Seq(Frame)]
    BY <1>1, <1>8 DEF Types
  <2>2. pc' \in [Slot -> Steps]
    BY <1>1 DEF Types, Steps
  <2>3. unw_bound' \in [Slot -> Ids] /\ DOMAIN stacklets' = Slot
    BY <1>1, <1>9 DEF Types
  <2> QED
    BY <1>1, <2>1, <2>2, <2>3 DEF Types
<1> QED
  BY <1>9, <1>10, <1>11, <1>12, <1>13 DEF SlotsInv, SlotInv

\* The unwinder is entered, by a panic or a diverted call.
LEMMA start_unwind_entrySlots ==
    ASSUME Types, SlotsInv, NEW i \in Slot, start_unwind_entry(i)
    PROVE  Types' /\ SlotsInv'
<1>1. /\ stacklets' = [stacklets EXCEPT ![i] =
             [b \in DOMAIN @ \union {NewId(i)} |->
                 IF b = NewId(i) THEN [prev |-> stklet_bound[i], count_size |-> UnwinderSize] ELSE @[b]]]
      /\ stklet_bound' = [stklet_bound EXCEPT ![i] = NewId(i)]
      /\ unwind_pending' = [unwind_pending EXCEPT ![i] = @ \/ Pends(i, "Unwind", UnwinderSize)]
      /\ unw_bound' = [unw_bound EXCEPT ![i] = stklet_bound[i]]
      /\ pc' = [pc EXCEPT ![i] = "create"]
      /\ UNCHANGED <<kind, frames, nested_drop_cnt, base, catch,
                     is_unwinding, has_restarted, restarted_from, lowered, outcome>>
      /\ pc[i] \in {"panic", "divert"}
  BY DEF start_unwind_entry, more_stack, Goto, given, struct, history
<1>2. SlotInv(i) /\ FramesOf(i) /\ ChainOf(i) /\ OwnersOf(i) /\ ControlOf(i)
  BY DEF SlotsInv, SlotInv
<1>3. ~Runs(i) /\ Runs(i)' /\ pc'[i] = "create"
  BY <1>1 DEF Runs, Unwinder, Types
<1>4. unwind_pending' = unwind_pending
  <2>1. ~Pends(i, "Unwind", UnwinderSize)
    BY DEF Pends, Exempt
  <2>2. (unwind_pending[i] \/ Pends(i, "Unwind", UnwinderSize)) = unwind_pending[i]
    BY <2>1 DEF Types
  <2> QED
    BY <1>1, <2>2 DEF Types
<1>5. Added(i, UnwinderSize) /\ stklet_bound'[i] = NewId(i) /\ unw_bound'[i] = stklet_bound[i]
  BY <1>1 DEF Added, Types
<1>6. unw_bound'[i] = Top(i).bound
  BY <1>2, <1>3, <1>5, TopFrame DEF OwnersOf
<1>7. Shape(i)' /\ ChainOf(i)' /\ OwnersOf(i)' /\ NewId(i) \in Ids
  BY <1>1, <1>2, <1>3, <1>5, <1>6, UnwinderEnters
<1>8. ControlOf(i)'
  BY <1>1, <1>2, <1>3, <1>4 DEF ControlOf
<1>9. FramesOf(i)'
  BY <1>3, <1>7 DEF FramesOf, Shape
<1>10. ASSUME NEW j \in Slot, j # i PROVE SlotInv(j)'
  <2>1. Aside(j)
    BY <1>1, <1>4, <1>10 DEF Types, Aside, Untouched
  <2> QED
    BY <2>1, AsideSlot DEF SlotsInv
<1>11. Types'
  <2>1. stklet_bound' \in [Slot -> Ids] /\ unw_bound' \in [Slot -> Ids] /\ DOMAIN stacklets' = Slot
    BY <1>1, <1>7 DEF Types
  <2>2. pc' \in [Slot -> Steps]
    BY <1>1 DEF Types, Steps
  <2> QED
    BY <1>1, <1>4, <2>1, <2>2 DEF Types
<1> QED
  BY <1>7, <1>8, <1>9, <1>10, <1>11 DEF SlotsInv, SlotInv

\* The unwinder is entered again, at the end of a landing pad.
LEMMA unwind_resume_entrySlots ==
    ASSUME Types, SlotsInv, NEW i \in Slot, unwind_resume_entry(i)
    PROVE  Types' /\ SlotsInv'
<1>1. /\ stacklets' = [stacklets EXCEPT ![i] =
             [b \in DOMAIN @ \union {NewId(i)} |->
                 IF b = NewId(i) THEN [prev |-> stklet_bound[i], count_size |-> UnwinderSize] ELSE @[b]]]
      /\ stklet_bound' = [stklet_bound EXCEPT ![i] = NewId(i)]
      /\ unwind_pending' = [unwind_pending EXCEPT ![i] = @ \/ Pends(i, "Unwind", UnwinderSize)]
      /\ pc' = [pc EXCEPT ![i] = "step"]
      /\ UNCHANGED <<kind, frames, nested_drop_cnt, unw_bound, base, catch,
                     is_unwinding, has_restarted, restarted_from, lowered, outcome>>
      /\ pc[i] = "pad" /\ Len(frames[i]) = base[i]
  BY DEF unwind_resume_entry, more_stack, Goto, given, struct, history
<1>2. SlotInv(i) /\ FramesOf(i) /\ ChainOf(i) /\ OwnersOf(i) /\ ControlOf(i)
  BY DEF SlotsInv, SlotInv
<1>3. ~Runs(i) /\ Runs(i)' /\ pc'[i] = "step"
  BY <1>1 DEF Runs, Unwinder, Types
<1>4. unwind_pending' = unwind_pending
  <2>1. ~Pends(i, "Unwind", UnwinderSize)
    BY DEF Pends, Exempt
  <2>2. (unwind_pending[i] \/ Pends(i, "Unwind", UnwinderSize)) = unwind_pending[i]
    BY <2>1 DEF Types
  <2> QED
    BY <1>1, <2>2 DEF Types
<1>5. Added(i, UnwinderSize) /\ stklet_bound'[i] = NewId(i)
  BY <1>1 DEF Added, Types
<1>t. /\ Top(i) = frames[i][Len(frames[i])] /\ DOMAIN frames[i] = 1 .. Len(frames[i])
      /\ Len(frames[i]) \in Nat
  BY <1>2, TopFrame
<1>6. unw_bound'[i] = Top(i).bound /\ frames[i][Len(frames[i])].kind = "guard"
  BY <1>1, <1>2, <1>t DEF FramesOf
<1>d. nested_drop_cnt[i] = 0
  <2>1. \A n \in Drops(i) : n > Len(frames[i])
    BY <1>1, <1>2 DEF FramesOf
  <2>2. Drops(i) = {}
    BY <1>t, <2>1 DEF Drops
  <2> QED
    BY <1>2, <2>2, NoDrops
<1>7. Shape(i)' /\ ChainOf(i)' /\ OwnersOf(i)' /\ NewId(i) \in Ids
  BY <1>1, <1>2, <1>3, <1>5, <1>6, UnwinderEnters
<1>8. ControlOf(i)'
  BY <1>1, <1>2, <1>3, <1>4, <1>d DEF ControlOf
<1>9. FramesOf(i)'
  BY <1>1, <1>3, <1>6, <1>7 DEF FramesOf, Shape
<1>10. ASSUME NEW j \in Slot, j # i PROVE SlotInv(j)'
  <2>1. Aside(j)
    BY <1>1, <1>4, <1>10 DEF Types, Aside, Untouched
  <2> QED
    BY <2>1, AsideSlot DEF SlotsInv
<1>11. Types'
  <2>1. stklet_bound' \in [Slot -> Ids] /\ DOMAIN stacklets' = Slot
    BY <1>1, <1>7 DEF Types
  <2>2. pc' \in [Slot -> Steps]
    BY <1>1 DEF Types, Steps
  <2> QED
    BY <1>1, <1>4, <2>1, <2>2 DEF Types
<1> QED
  BY <1>7, <1>8, <1>9, <1>10, <1>11 DEF SlotsInv, SlotInv

\* A landing pad begins, or the trampoline has caught the panic.
LEMMA unwind_landSlots ==
    ASSUME Types, SlotsInv, NEW i \in Slot, unwind_land(i)
    PROVE  Types' /\ SlotsInv'
<1>1. /\ stacklets' = [stacklets EXCEPT ![i] = Restrict(@, DOMAIN @ \ {stklet_bound[i]})]
      /\ stklet_bound' = [stklet_bound EXCEPT ![i] = unw_bound[i]]
      /\ base' = [base EXCEPT ![i] = Len(frames[i])]
      /\ pc' = [pc EXCEPT ![i] = IF Top(i).kind = "entry" THEN "caught" ELSE "pad"]
      /\ UNCHANGED <<kind, frames, nested_drop_cnt, unwind_pending, unw_bound, catch,
                     is_unwinding, has_restarted, restarted_from, lowered, outcome>>
      /\ pc[i] = "unwind" /\ Top(i).kind \in {"entry", "guard"}
  BY DEF unwind_land, HasPad, Dealloc, Goto, given, struct, history
<1>2. SlotInv(i) /\ FramesOf(i) /\ ChainOf(i) /\ OwnersOf(i) /\ ControlOf(i)
  BY DEF SlotsInv, SlotInv
<1>3. pc'[i] = (IF Top(i).kind = "entry" THEN "caught" ELSE "pad") /\ base'[i] = Len(frames[i])
  BY <1>1 DEF Types
<1>4. Runs(i) /\ ~Runs(i)'
  BY <1>1, <1>3 DEF Runs, Unwinder
<1>5. Freed(i, stklet_bound[i]) /\ stklet_bound'[i] = unw_bound[i]
  BY <1>1 DEF Freed, Types
<1>6. Shape(i)' /\ ChainOf(i)' /\ OwnersOf(i)'
  BY <1>1, <1>2, <1>4, <1>5, UnwinderLands
<1>7. ControlOf(i)'
  BY <1>1, <1>2, <1>3 DEF ControlOf
<1>t. /\ Top(i) = frames[i][Len(frames[i])] /\ Len(frames[i]) \in DOMAIN frames[i]
      /\ Len(frames[i]) \in Nat
  BY <1>2, TopFrame
<1>8. FramesOf(i)'
  <2>1. Drops(i)' = {}
    <3>1. nested_drop_cnt[i] = 0
      BY <1>1, <1>2 DEF ControlOf
    <3>2. Drops(i) = {}
      BY <1>2, <3>1, NoDrops
    <3> QED
      BY <1>1, <3>2 DEF Drops
  <2>2. Top(i).kind = "entry" => Len(frames[i]) = 1
    BY <1>2, <1>t DEF FramesOf
  <2>3. frames[i][Len(frames[i])].bound = unw_bound[i]
    BY <1>2, <1>4 DEF OwnersOf
  <2>4. pc'[i] = "caught" => Len(frames[i]) = 1
    BY <1>3, <2>2
  <2>5. pc'[i] = "pad" => frames[i][Len(frames[i])].kind = "guard"
    BY <1>1, <1>3, <1>t
  <2> QED
    BY <1>1, <1>3, <1>6, <1>t, <2>1, <2>3, <2>4, <2>5 DEF FramesOf, Shape
<1>9. ASSUME NEW j \in Slot, j # i PROVE SlotInv(j)'
  <2>1. Aside(j)
    BY <1>1, <1>9 DEF Types, Aside, Untouched
  <2> QED
    BY <2>1, AsideSlot DEF SlotsInv
<1>10. Types'
  <2>1. stklet_bound' \in [Slot -> Ids] /\ DOMAIN stacklets' = Slot
    BY <1>1 DEF Types
  <2>2. pc' \in [Slot -> Steps]
    BY <1>1 DEF Types, Steps
  <2>3. base' \in [Slot -> Nat]
    BY <1>1, <1>t DEF Types
  <2> QED
    BY <1>1, <2>1, <2>2, <2>3 DEF Types
<1> QED
  BY <1>6, <1>7, <1>8, <1>9, <1>10 DEF SlotsInv, SlotInv

-----------------------------------------------------------------------------
\* An instance goes on to another step of its life, with the functions and the
\* stacklets it has.
LEMMA MovedSlot ==
    ASSUME NEW i \in Slot, SlotInv(i), Untouched(i),
           Runs(i)' <=> Runs(i), unw_bound'[i] = unw_bound[i] \/ ~Runs(i),
           ControlOf(i)', pc'[i] \notin {"step", "pad"},
           pc'[i] \in {"none", "caught", "clear", "exit"} => Len(frames[i]) = 1
    PROVE  SlotInv(i)'
<1>1. Shape(i)' /\ ChainOf(i)' /\ OwnersOf(i)'
  BY UntouchedSlot DEF SlotInv, FramesOf, Shape
<1>2. FramesOf(i)'
  BY <1>1 DEF Untouched, FramesOf, Shape
<1> QED
  BY <1>1, <1>2 DEF SlotInv

\* A call is diverted to unwinding.
LEMMA diverted_unwindSlots ==
    ASSUME Types, SlotsInv, NEW i \in Slot, NEW k \in {"fn", "guard", "drop"}, NEW size \in Sizes,
           diverted_unwind(i, k, size)
    PROVE  Types' /\ SlotsInv'
<1>1. /\ pc' = [pc EXCEPT ![i] = "divert"]
      /\ UNCHANGED <<kind, frames, stklet_bound, nested_drop_cnt, unwind_pending, stacklets,
                     unw_bound, base, catch, is_unwinding, has_restarted, restarted_from, lowered,
                     outcome>>
      /\ pc[i] \in {"run", "pad"} /\ ~is_unwinding[i] /\ ~(nested_drop_cnt[i] > 0)
  BY DEF diverted_unwind, MayCall, Diverts, Exempt, InDrop, Goto, given, tls, struct, history
<1>2. SlotInv(i) /\ ControlOf(i)
  BY DEF SlotsInv, SlotInv
<1>3. pc[i] = "run" /\ nested_drop_cnt[i] = 0 /\ pc'[i] = "divert"
  BY <1>1, <1>2 DEF ControlOf, Types
<1>4. ControlOf(i)'
  BY <1>1, <1>2, <1>3 DEF ControlOf
<1>5. SlotInv(i)'
  <2>1. Untouched(i) /\ (Runs(i)' <=> Runs(i)) /\ unw_bound'[i] = unw_bound[i]
    BY <1>1, <1>3 DEF Untouched, Runs, Unwinder
  <2> QED
    BY <1>2, <1>3, <1>4, <2>1, MovedSlot
<1>6. ASSUME NEW j \in Slot, j # i PROVE SlotInv(j)'
  <2>1. Aside(j)
    BY <1>1, <1>6 DEF Types, Aside, Untouched
  <2> QED
    BY <2>1, AsideSlot DEF SlotsInv
<1>7. Types'
  <2>1. pc' \in [Slot -> Steps]
    BY <1>1 DEF Types, Steps
  <2> QED
    BY <1>1, <2>1 DEF Types
<1> QED
  BY <1>5, <1>6, <1>7 DEF SlotsInv

\* Application code panics.
LEMMA panicSlots ==
    ASSUME Types, SlotsInv, NEW i \in Slot, panic(i)
    PROVE  Types' /\ SlotsInv'
<1>1. /\ pc' = [pc EXCEPT ![i] = "panic"]
      /\ UNCHANGED <<kind, frames, stklet_bound, nested_drop_cnt, unwind_pending, stacklets,
                     unw_bound, base, catch, is_unwinding, has_restarted, restarted_from, lowered,
                     outcome>>
      /\ pc[i] = "run" /\ nested_drop_cnt[i] = 0
  BY DEF panic, Goto, given, tls, memory, struct, history
<1>2. SlotInv(i) /\ ControlOf(i)
  BY DEF SlotsInv, SlotInv
<1>3. pc'[i] = "panic"
  BY <1>1 DEF Types
<1>4. ControlOf(i)'
  BY <1>1, <1>2, <1>3 DEF ControlOf
<1>5. SlotInv(i)'
  <2>1. Untouched(i) /\ (Runs(i)' <=> Runs(i)) /\ unw_bound'[i] = unw_bound[i]
    BY <1>1, <1>3 DEF Untouched, Runs, Unwinder
  <2> QED
    BY <1>2, <1>3, <1>4, <2>1, MovedSlot
<1>6. ASSUME NEW j \in Slot, j # i PROVE SlotInv(j)'
  <2>1. Aside(j)
    BY <1>1, <1>6 DEF Types, Aside, Untouched
  <2> QED
    BY <2>1, AsideSlot DEF SlotsInv
<1>7. Types'
  <2>1. pc' \in [Slot -> Steps]
    BY <1>1 DEF Types, Steps
  <2> QED
    BY <1>1, <2>1 DEF Types
<1> QED
  BY <1>5, <1>6, <1>7 DEF SlotsInv

\* The unwinding begins for good: the struct is marked, and a new one may take over.
LEMMA create_unwind_stateSlots ==
    ASSUME Types, SlotsInv, NEW i \in Slot, create_unwind_state(i)
    PROVE  Types' /\ SlotsInv'
<1>1. /\ is_unwinding' = [is_unwinding EXCEPT ![i] = TRUE]
      /\ UNCHANGED <<kind, frames, stklet_bound, nested_drop_cnt, unwind_pending, stacklets,
                     unw_bound, base, catch, outcome>>
      /\ pc[i] = "create"
  BY DEF create_unwind_state, given, tls, memory
<1>2. SlotInv(i) /\ ControlOf(i)
  BY DEF SlotsInv, SlotInv
<1>3. no_restart(i) \/ \E j \in Slot : restart_from(i, j)
  <2>1. ~is_unwinding[i]
    BY <1>1, <1>2 DEF ControlOf
  <2> QED
    BY <2>1 DEF create_unwind_state
<1>4. ASSUME pc'[i] = "unwind" PROVE SlotInv(i)'
  <2>1. is_unwinding'[i]
    BY <1>1 DEF Types
  <2>2. ControlOf(i)'
    BY <1>1, <1>2, <1>4, <2>1 DEF ControlOf
  <2>3. Untouched(i) /\ (Runs(i)' <=> Runs(i)) /\ unw_bound'[i] = unw_bound[i]
    BY <1>1, <1>4 DEF Untouched, Runs, Unwinder
  <2> QED
    BY <1>2, <1>4, <2>2, <2>3, MovedSlot
<1>5. CASE no_restart(i)
  <2>1. /\ pc' = [pc EXCEPT ![i] = "unwind"] /\ UNCHANGED <<restarted_from, has_restarted>>
        /\ lowered' = [lowered EXCEPT ![i] = @ \/ kind = "plain"]
    BY <1>5 DEF no_restart, Goto
  <2>2. SlotInv(i)'
    BY <1>4, <2>1 DEF Types
  <2>3. ASSUME NEW j \in Slot, j # i PROVE SlotInv(j)'
    <3>1. Aside(j)
      BY <1>1, <2>1, <2>3 DEF Types, Aside, Untouched
    <3> QED
      BY <3>1, AsideSlot DEF SlotsInv
  <2>4. Types'
    <3>1. pc' \in [Slot -> Steps]
      BY <2>1 DEF Types, Steps
    <3>2. lowered' \in [Slot -> BOOLEAN]
      BY <2>1 DEF Types
    <3>3. is_unwinding' \in [Slot -> BOOLEAN]
      BY <1>1 DEF Types
    <3> QED
      BY <1>1, <2>1, <3>1, <3>2, <3>3 DEF Types
  <2> QED
    BY <2>2, <2>3, <2>4 DEF SlotsInv
<1>6. ASSUME NEW j \in Slot, restart_from(i, j) PROVE Types' /\ SlotsInv'
  <2>1. /\ pc[j] = "none" /\ pc' = [pc EXCEPT ![i] = "unwind", ![j] = "run"]
        /\ restarted_from' = [restarted_from EXCEPT ![j] = i]
        /\ has_restarted' = [has_restarted EXCEPT ![i] = TRUE]
        /\ lowered' = [lowered EXCEPT ![i] = TRUE, ![j] = lowered[i]]
    BY <1>6 DEF restart_from
  <2>2. j # i
    BY <1>1, <2>1
  <2>3. SlotInv(i)'
    BY <1>4, <2>1, <2>2 DEF Types
  <2>4. SlotInv(j)'
    <3>1. SlotInv(j) /\ ControlOf(j)
      BY DEF SlotsInv, SlotInv
    <3>2. /\ pc'[j] = "run" /\ is_unwinding'[j] = is_unwinding[j]
          /\ has_restarted'[j] = has_restarted[j]
      BY <1>1, <2>1, <2>2 DEF Types
    <3>3. ControlOf(j)'
      BY <1>1, <2>1, <3>1, <3>2 DEF ControlOf
    <3>4. Untouched(j) /\ (Runs(j)' <=> Runs(j)) /\ unw_bound'[j] = unw_bound[j]
      BY <1>1, <2>1, <3>2 DEF Untouched, Runs, Unwinder
    <3> QED
      BY <3>1, <3>2, <3>3, <3>4, MovedSlot
  <2>5. ASSUME NEW m \in Slot, m # i, m # j PROVE SlotInv(m)'
    <3>1. Aside(m)
      BY <1>1, <2>1, <2>5 DEF Types, Aside, Untouched
    <3> QED
      BY <3>1, AsideSlot DEF SlotsInv
  <2>6. Types'
    <3>1. pc' \in [Slot -> Steps]
      BY <2>1 DEF Types, Steps
    <3>2. lowered' \in [Slot -> BOOLEAN]
      BY <2>1 DEF Types
    <3>3. is_unwinding' \in [Slot -> BOOLEAN] /\ has_restarted' \in [Slot -> BOOLEAN]
      BY <1>1, <2>1 DEF Types
    <3>4. restarted_from' \in [Slot -> Slot \union {NoSlot}]
      BY <2>1 DEF Types
    <3> QED
      BY <1>1, <3>1, <3>2, <3>3, <3>4 DEF Types
  <2> QED
    BY <2>3, <2>4, <2>5, <2>6 DEF SlotsInv
<1> QED
  BY <1>3, <1>5, <1>6

\* The trampoline looks at the panic that it has caught.
LEMMA panic_callbackSlots ==
    ASSUME Types, SlotsInv, NEW i \in Slot, panic_callback(i)
    PROVE  Types' /\ SlotsInv'
<1>1. /\ unw_bound' = [unw_bound EXCEPT ![i] = Initial]
      /\ base' = [base EXCEPT ![i] = 0]
      /\ UNCHANGED <<kind, frames, stklet_bound, nested_drop_cnt, unwind_pending, stacklets,
                     catch, is_unwinding, has_restarted, restarted_from, lowered>>
      /\ pc[i] = "caught"
  BY DEF panic_callback, given, tls, memory, struct
<1>2. SlotInv(i) /\ ControlOf(i) /\ FramesOf(i)
  BY DEF SlotsInv, SlotInv
<1>3. /\ \/ pc' = [pc EXCEPT ![i] = "exit"]
         \/ pc' = [pc EXCEPT ![i] = "clear"] /\ ~has_restarted[i]
      /\ outcome' \in {outcome, "terminated", "given_up"}
  BY DEF panic_callback, Leave, Goto
<1>4. pc'[i] = "exit" \/ (pc'[i] = "clear" /\ ~has_restarted[i])
  BY <1>3 DEF Types
<1>5. ControlOf(i)'
  BY <1>1, <1>2, <1>4 DEF ControlOf
<1>6. SlotInv(i)'
  <2>1. Untouched(i) /\ (Runs(i)' <=> Runs(i)) /\ ~Runs(i) /\ Len(frames[i]) = 1
    BY <1>1, <1>2, <1>4 DEF Untouched, Runs, Unwinder, FramesOf
  <2> QED
    BY <1>2, <1>4, <1>5, <2>1, MovedSlot
<1>7. ASSUME NEW j \in Slot, j # i PROVE SlotInv(j)'
  <2>1. Aside(j)
    BY <1>1, <1>3, <1>7 DEF Types, Aside, Untouched
  <2> QED
    BY <2>1, AsideSlot DEF SlotsInv
<1>8. Types'
  <2>1. pc' \in [Slot -> Steps]
    BY <1>3 DEF Types, Steps
  <2>2. unw_bound' \in [Slot -> Ids] /\ base' \in [Slot -> Nat]
    BY <1>1, SizeAssumption DEF Types, Ids, Initial
  <2>3. outcome' \in {"active", "terminated", "given_up", "returned"}
    BY <1>3 DEF Types
  <2> QED
    BY <1>1, <2>1, <2>2, <2>3 DEF Types
<1> QED
  BY <1>6, <1>7, <1>8 DEF SlotsInv

\* The struct is no longer marked.
LEMMA set_unwind_flagSlots ==
    ASSUME Types, SlotsInv, NEW i \in Slot, set_unwind_flag(i)
    PROVE  Types' /\ SlotsInv'
<1>1. /\ pc' = [pc EXCEPT ![i] = "run"]
      /\ is_unwinding' = [is_unwinding EXCEPT ![i] = FALSE]
      /\ catch' = [catch EXCEPT ![i] = "clear"]
      /\ UNCHANGED <<kind, frames, stklet_bound, nested_drop_cnt, unwind_pending, stacklets,
                     unw_bound, base, has_restarted, restarted_from, lowered, outcome>>
      /\ pc[i] = "clear"
  BY DEF set_unwind_flag, Goto, given, tls, memory, history
<1>2. SlotInv(i) /\ ControlOf(i)
  BY DEF SlotsInv, SlotInv
<1>3. pc'[i] = "run" /\ ~is_unwinding'[i]
  BY <1>1 DEF Types
<1>4. ControlOf(i)'
  BY <1>1, <1>2, <1>3 DEF ControlOf
<1>5. SlotInv(i)'
  <2>1. Untouched(i) /\ (Runs(i)' <=> Runs(i)) /\ unw_bound'[i] = unw_bound[i]
    BY <1>1, <1>3 DEF Untouched, Runs, Unwinder
  <2> QED
    BY <1>2, <1>3, <1>4, <2>1, MovedSlot
<1>6. ASSUME NEW j \in Slot, j # i PROVE SlotInv(j)'
  <2>1. Aside(j)
    BY <1>1, <1>6 DEF Types, Aside, Untouched
  <2> QED
    BY <2>1, AsideSlot DEF SlotsInv
<1>7. Types'
  <2>1. pc' \in [Slot -> Steps]
    BY <1>1 DEF Types, Steps
  <2>2. is_unwinding' \in [Slot -> BOOLEAN] /\ catch' \in [Slot -> {"none", "entry", "clear"}]
    BY <1>1 DEF Types
  <2> QED
    BY <1>1, <2>1, <2>2 DEF Types
<1> QED
  BY <1>5, <1>6, <1>7 DEF SlotsInv

\* The trampoline's loop runs over again.
LEMMA restartSlots ==
    ASSUME Types, SlotsInv, NEW i \in Slot, restart(i)
    PROVE  Types' /\ SlotsInv'
<1>1. /\ catch' = [catch EXCEPT ![i] = "none"]
      /\ UNCHANGED <<kind, pc, frames, stklet_bound, nested_drop_cnt, unwind_pending, stacklets,
                     unw_bound, base, is_unwinding, has_restarted, restarted_from, lowered,
                     outcome>>
  BY DEF restart, given, tls, memory, struct, history
<1>2. ASSUME NEW j \in Slot PROVE SlotInv(j)'
  <2>1. Aside(j)
    BY <1>1 DEF Aside, Untouched
  <2> QED
    BY <2>1, AsideSlot DEF SlotsInv
<1>3. Types'
  BY <1>1 DEF Types
<1> QED
  BY <1>2, <1>3 DEF SlotsInv

\* The entry closure is called.
LEMMA catch_unwindSlots ==
    ASSUME Types, SlotsInv, NEW i \in Slot, catch_unwind(i)
    PROVE  Types' /\ SlotsInv'
<1>1. /\ catch' = [catch EXCEPT ![i] = "entry"]
      /\ UNCHANGED <<kind, pc, frames, stklet_bound, nested_drop_cnt, unwind_pending, stacklets,
                     unw_bound, base, is_unwinding, has_restarted, restarted_from, lowered,
                     outcome>>
  BY DEF catch_unwind, given, tls, memory, struct, history
<1>2. ASSUME NEW j \in Slot PROVE SlotInv(j)'
  <2>1. Aside(j)
    BY <1>1 DEF Aside, Untouched
  <2> QED
    BY <2>1, AsideSlot DEF SlotsInv
<1>3. Types'
  BY <1>1 DEF Types
<1> QED
  BY <1>2, <1>3 DEF SlotsInv

\* No function above has a landing pad or a catch.
LEMMA unwind_uncaughtSlots ==
    ASSUME Types, SlotsInv, NEW i \in Slot, unwind_uncaught(i)
    PROVE  Types' /\ SlotsInv'
<1>1. /\ pc' = [pc EXCEPT ![i] = "uncaught"]
      /\ UNCHANGED <<kind, frames, stklet_bound, nested_drop_cnt, unwind_pending, stacklets,
                     unw_bound, base, catch, is_unwinding, has_restarted, restarted_from, lowered,
                     outcome>>
      /\ pc[i] = "unwind"
  BY DEF unwind_uncaught, Goto, given, tls, memory, struct, history
<1>2. SlotInv(i) /\ ControlOf(i)
  BY DEF SlotsInv, SlotInv
<1>3. pc'[i] = "uncaught"
  BY <1>1 DEF Types
<1>4. ControlOf(i)'
  BY <1>1, <1>2, <1>3 DEF ControlOf
<1>5. SlotInv(i)'
  <2>1. Untouched(i) /\ (Runs(i)' <=> Runs(i)) /\ unw_bound'[i] = unw_bound[i]
    BY <1>1, <1>3 DEF Untouched, Runs, Unwinder
  <2> QED
    BY <1>2, <1>3, <1>4, <2>1, MovedSlot
<1>6. ASSUME NEW j \in Slot, j # i PROVE SlotInv(j)'
  <2>1. Aside(j)
    BY <1>1, <1>6 DEF Types, Aside, Untouched
  <2> QED
    BY <2>1, AsideSlot DEF SlotsInv
<1>7. Types'
  <2>1. pc' \in [Slot -> Steps]
    BY <1>1 DEF Types, Steps
  <2> QED
    BY <1>1, <2>1 DEF Types
<1> QED
  BY <1>5, <1>6, <1>7 DEF SlotsInv

\* The entry closure returns.
LEMMA entry_returnSlots ==
    ASSUME Types, SlotsInv, NEW i \in Slot, entry_return(i)
    PROVE  Types' /\ SlotsInv'
<1>1. /\ pc' = [pc EXCEPT ![i] = "exit"]
      /\ outcome' \in {outcome, "returned"}
      /\ UNCHANGED <<kind, frames, stklet_bound, nested_drop_cnt, unwind_pending, stacklets,
                     unw_bound, base, catch, is_unwinding, has_restarted, restarted_from, lowered>>
      /\ pc[i] = "run" /\ Len(frames[i]) = 1
  BY DEF entry_return, Leave, Goto, given, tls, memory, struct
<1>2. SlotInv(i) /\ ControlOf(i) /\ FramesOf(i)
  BY DEF SlotsInv, SlotInv
<1>3. pc'[i] = "exit"
  BY <1>1 DEF Types
<1>4. nested_drop_cnt[i] = 0
  <2>1. Drops(i) = {}
    <3>1. DOMAIN frames[i] = 1 .. 1 /\ frames[i][1].kind = "entry"
      BY <1>1, <1>2, TopFrame DEF FramesOf
    <3> QED
      BY <3>1 DEF Drops
  <2> QED
    BY <1>2, <2>1, NoDrops
<1>5. ControlOf(i)'
  BY <1>1, <1>2, <1>3, <1>4 DEF ControlOf
<1>6. SlotInv(i)'
  <2>1. Untouched(i) /\ (Runs(i)' <=> Runs(i)) /\ unw_bound'[i] = unw_bound[i]
    BY <1>1, <1>3 DEF Untouched, Runs, Unwinder
  <2> QED
    BY <1>1, <1>2, <1>3, <1>5, <2>1, MovedSlot
<1>7. ASSUME NEW j \in Slot, j # i PROVE SlotInv(j)'
  <2>1. Aside(j)
    BY <1>1, <1>7 DEF Types, Aside, Untouched
  <2> QED
    BY <2>1, AsideSlot DEF SlotsInv
<1>8. Types'
  <2>1. pc' \in [Slot -> Steps]
    BY <1>1 DEF Types, Steps
  <2>2. outcome' \in {"active", "terminated", "given_up", "returned"}
    BY <1>1 DEF Types
  <2> QED
    BY <1>1, <2>1, <2>2 DEF Types
<1> QED
  BY <1>6, <1>7, <1>8 DEF SlotsInv

\* The struct is dropped, with nothing but its initial stacklet.
LEMMA drop_taskSlots ==
    ASSUME Types, SlotsInv, NEW i \in Slot, drop_task(i)
    PROVE  Types' /\ SlotsInv'
<1>1. /\ pc' = [pc EXCEPT ![i] = "none"]
      /\ stacklets' = [stacklets EXCEPT ![i] = <<>>]
      /\ catch' = [catch EXCEPT ![i] = "none"]
      /\ is_unwinding' = [is_unwinding EXCEPT ![i] = FALSE]
      /\ has_restarted' = [has_restarted EXCEPT ![i] = FALSE]
      /\ lowered' = [lowered EXCEPT ![i] = FALSE]
      /\ restarted_from' = [j \in Slot |-> IF j = i \/ restarted_from[j] = i THEN NoSlot
                                           ELSE restarted_from[j]]
      /\ UNCHANGED <<kind, frames, stklet_bound, nested_drop_cnt, unwind_pending, unw_bound, base,
                     outcome>>
      /\ pc[i] = "exit"
  BY DEF drop_task, Goto, given, tls, history
<1>2. SlotInv(i) /\ ControlOf(i) /\ FramesOf(i) /\ ChainOf(i) /\ OwnersOf(i)
  BY DEF SlotsInv, SlotInv
<1>3. /\ pc'[i] = "none" /\ ~is_unwinding'[i] /\ ~has_restarted'[i] /\ stacklets'[i] = <<>>
  BY <1>1 DEF Types
<1>4. DOMAIN frames[i] = 1 .. 1 /\ Len(frames[i]) = 1
  BY <1>1, <1>2, TopFrame DEF FramesOf
<1>5. Extended(i)' = {} /\ Owned(i)' = {}
  BY <1>1, <1>2, <1>4 DEF ChainOf, Extended, Owned
<1>6. ControlOf(i)'
  BY <1>1, <1>2, <1>3 DEF ControlOf
<1>7. FramesOf(i)'
  BY <1>1, <1>2, <1>3, <1>4 DEF FramesOf, Drops
<1>8. ChainOf(i)'
  BY <1>1, <1>2, <1>4, <1>5 DEF ChainOf
<1>9. OwnersOf(i)'
  <2>1. ~Runs(i) /\ ~Runs(i)'
    BY <1>1, <1>3 DEF Runs, Unwinder
  <2>2. DOMAIN stacklets'[i] = {}
    BY <1>3
  <2> QED
    BY <1>1, <1>2, <1>5, <2>1, <2>2 DEF OwnersOf
<1>10. ASSUME NEW j \in Slot, j # i PROVE SlotInv(j)'
  <2>1. Aside(j)
    BY <1>1, <1>10 DEF Types, Aside, Untouched
  <2> QED
    BY <2>1, AsideSlot DEF SlotsInv
<1>11. Types'
  <2>1. pc' \in [Slot -> Steps]
    BY <1>1 DEF Types, Steps
  <2>2. DOMAIN stacklets' = Slot /\ catch' \in [Slot -> {"none", "entry", "clear"}]
    BY <1>1 DEF Types
  <2>3. is_unwinding' \in [Slot -> BOOLEAN] /\ has_restarted' \in [Slot -> BOOLEAN]
    BY <1>1 DEF Types
  <2>4. lowered' \in [Slot -> BOOLEAN]
    BY <1>1 DEF Types
  <2>5. restarted_from' \in [Slot -> Slot \union {NoSlot}]
    BY <1>1 DEF Types
  <2> QED
    BY <1>1, <2>1, <2>2, <2>3, <2>4, <2>5 DEF Types
<1> QED
  BY <1>6, <1>7, <1>8, <1>9, <1>10, <1>11 DEF SlotsInv, SlotInv

-----------------------------------------------------------------------------
(***************************************************************************)
(* The instances of the task.                                              *)
(***************************************************************************)
\* Most steps are an instance's own: none comes, leaves or takes over.
Quiet ==
    /\ kind' = kind /\ outcome' = outcome /\ has_restarted' = has_restarted
    /\ restarted_from' = restarted_from
    /\ \A j \in Slot : /\ pc'[j] = "none" <=> pc[j] = "none"
                       /\ pc'[j] = "exit" <=> pc[j] = "exit"
                       /\ kind # "plain" => lowered'[j] = lowered[j]

\* The responsible instance stays responsible.
LEMMA QuietHeirs ==
    ASSUME HeirInv, Quiet
    PROVE  HeirInv'
<1>1. Live' = Live /\ Heirs' = Heirs
  BY DEF Quiet, Live, Heirs
<1>2. \A j \in Heirs : j \in Slot
  BY DEF Heirs, Live
<1> QED
  BY <1>1, <1>2 DEF HeirInv, Quiet

\* Calls, returns and the unwinder change nothing of it.
LEMMA QuietSteps ==
    ASSUME Types, HeirInv, NEW i \in Slot,
           \/ \E k \in {"fn", "guard", "drop"} :
                 \/ call(i, k)
                 \/ \E size \in Sizes : call_more_stack(i, k, size) \/ diverted_unwind(i, k, size)
           \/ return(i) \/ deferred_unwind(i) \/ panic(i)
           \/ start_unwind_entry(i) \/ step(i) \/ unwind_land(i) \/ unwind_resume_entry(i)
           \/ unwind_uncaught(i) \/ set_unwind_flag(i) \/ restart(i) \/ catch_unwind(i)
    PROVE  HeirInv'
<1>1. /\ UNCHANGED <<kind, outcome, has_restarted, restarted_from, lowered>>
      /\ \/ UNCHANGED pc
         \/ /\ pc[i] \notin {"none", "exit"}
            /\ \E s \in Steps \ {"none", "exit"} : pc' = [pc EXCEPT ![i] = s]
  <2>1. CASE \E k \in {"fn", "guard", "drop"} :
                 \/ call(i, k)
                 \/ \E size \in Sizes : call_more_stack(i, k, size) \/ diverted_unwind(i, k, size)
    BY <2>1 DEF call, call_more_stack, diverted_unwind, MayCall, Goto, given, struct, history, Steps
  <2>2. CASE return(i) \/ deferred_unwind(i) \/ panic(i)
    BY <2>2 DEF return, deferred_unwind, panic, Goto, given, struct, history, Steps
  <2>3. CASE start_unwind_entry(i) \/ unwind_resume_entry(i)
    BY <2>3 DEF start_unwind_entry, unwind_resume_entry, Goto, given, struct, history, Steps
  <2>4. CASE step(i)
    BY <2>4 DEF step, Goto, given, struct, history, Steps
  <2>5. CASE unwind_land(i)
    BY <2>5 DEF unwind_land, Goto, given, struct, history, Steps
  <2>6. CASE unwind_uncaught(i) \/ set_unwind_flag(i) \/ restart(i) \/ catch_unwind(i)
    BY <2>6 DEF unwind_uncaught, set_unwind_flag, restart, catch_unwind, Goto, given, struct, history, Steps
  <2> QED
    BY <2>1, <2>2, <2>3, <2>4, <2>5, <2>6
<1>2. Quiet
  BY <1>1 DEF Types, Quiet
<1> QED
  BY <1>2, QuietHeirs

\* An instance that may restart concurrently is alone: OriginGone.
LEMMA Alone ==
    ASSUME Types, HeirInv, NEW i \in Heirs, restarted_from[i] = NoSlot
    PROVE  Live = {i} /\ Heirs = {i} /\ outcome = "active"
<1>1. outcome = "active"
  BY DEF HeirInv
<1>2. PICK h \in Slot : Heirs = {h} /\ Live \subseteq {h, restarted_from[h]}
  BY <1>1 DEF HeirInv
<1>3. h = i
  BY <1>2
<1>4. Live \subseteq {i, NoSlot} /\ NoSlot \notin Live /\ i \in Live
  BY <1>2, <1>3, SlotAssumption DEF Live, Heirs
<1> QED
  BY <1>1, <1>2, <1>3, <1>4

\* A restarted instance takes over from the one that unwinds.
LEMMA create_unwind_stateHeirs ==
    ASSUME Types, HeirInv, SlotsInv, NEW i \in Slot, create_unwind_state(i)
    PROVE  HeirInv'
<1>1. pc[i] = "create" /\ UNCHANGED <<kind, outcome>> /\ ~is_unwinding[i] /\ ~has_restarted[i]
  <2>1. pc[i] = "create" /\ UNCHANGED <<kind, outcome>>
    BY DEF create_unwind_state, given
  <2> QED
    BY <2>1 DEF SlotsInv, SlotInv, ControlOf
<1>2. no_restart(i) \/ \E j \in Slot : restart_from(i, j)
  BY <1>1 DEF create_unwind_state
<1>3. CASE no_restart(i)
  <2>1. Quiet
    BY <1>1, <1>3 DEF no_restart, Goto, Quiet, Types
  <2> QED
    BY <2>1, QuietHeirs
<1>4. ASSUME NEW j \in Slot, restart_from(i, j) PROVE HeirInv'
  <2>1. /\ pc[j] = "none" /\ pc' = [pc EXCEPT ![i] = "unwind", ![j] = "run"]
        /\ restarted_from' = [restarted_from EXCEPT ![j] = i]
        /\ has_restarted' = [has_restarted EXCEPT ![i] = TRUE]
        /\ lowered' = [lowered EXCEPT ![i] = TRUE, ![j] = lowered[i]]
        /\ restarted_from[i] = NoSlot
    BY <1>4 DEF restart_from, OriginGone
  <2>2. i # j /\ ~has_restarted[j]
    BY <1>1, <2>1 DEF SlotsInv, SlotInv, ControlOf
  <2>3. i \in Heirs
    BY <1>1 DEF Heirs, Live
  <2>4. Live = {i} /\ outcome = "active"
    BY <2>1, <2>3, Alone
  <2>5. \A m \in Slot : /\ pc'[m] = IF m = i THEN "unwind" ELSE IF m = j THEN "run" ELSE pc[m]
                        /\ has_restarted'[m] = IF m = i THEN TRUE ELSE has_restarted[m]
    BY <2>1, <2>2 DEF Types
  <2>6. Live' = {i, j}
    BY <2>4, <2>5 DEF Live
  <2>7. Heirs' = {j}
    BY <2>2, <2>5, <2>6 DEF Heirs
  <2>8. restarted_from'[j] = i /\ lowered'[j] = lowered[i]
    BY <2>1, <2>2 DEF Types
  <2>9. kind # "plain" => ~lowered[i]
    BY <2>3 DEF HeirInv
  <2> QED
    BY <1>1, <2>4, <2>6, <2>7, <2>8, <2>9 DEF HeirInv
<1> QED
  BY <1>2, <1>3, <1>4

\* An instance leaves: the task ends with it unless another has taken over.
LEMMA LeftHeirs ==
    ASSUME Types, HeirInv, NEW i \in Slot, pc[i] \notin {"none", "exit"},
           pc' = [pc EXCEPT ![i] = "exit"],
           NEW o \in {"terminated", "given_up", "returned"},
           outcome' = IF has_restarted[i] THEN outcome ELSE o,
           UNCHANGED <<kind, has_restarted, restarted_from, lowered>>
    PROVE  HeirInv'
<1>1. \A m \in Slot : pc'[m] = IF m = i THEN "exit" ELSE pc[m]
  BY DEF Types
<1>2. Live' = Live /\ Heirs' = Heirs \ {i} /\ (i \in Heirs <=> ~has_restarted[i])
  BY <1>1 DEF Live, Heirs
<1>3. CASE has_restarted[i]
  <2>1. Heirs' = Heirs /\ outcome' = outcome
    BY <1>2, <1>3
  <2> QED
    BY <1>2, <2>1 DEF HeirInv
<1>4. CASE ~has_restarted[i]
  <2>1. outcome' # "active"
    BY <1>4
  <2>2. outcome = "active"
    BY <1>2, <1>4 DEF HeirInv
  <2>3. Heirs' = {}
    BY <1>2, <1>4, <2>2 DEF HeirInv
  <2> QED
    BY <1>2, <2>1, <2>3 DEF HeirInv
<1> QED
  BY <1>3, <1>4

\* The trampoline ends the task or restarts it in place.
LEMMA panic_callbackHeirs ==
    ASSUME Types, HeirInv, NEW i \in Slot, panic_callback(i)
    PROVE  HeirInv'
<1>1. UNCHANGED <<kind, has_restarted, restarted_from, lowered>> /\ pc[i] = "caught"
  BY DEF panic_callback, given, struct
<1>2. \/ \E o \in {"terminated", "given_up", "returned"} : Leave(i, o)
      \/ pc' = [pc EXCEPT ![i] = "clear"] /\ outcome' = outcome
  BY DEF panic_callback, Goto
<1>3. CASE \E o \in {"terminated", "given_up", "returned"} : Leave(i, o)
  BY <1>1, <1>3, LeftHeirs DEF Leave, Goto
<1>4. CASE pc' = [pc EXCEPT ![i] = "clear"] /\ outcome' = outcome
  <2>1. Quiet
    BY <1>1, <1>4 DEF Types, Quiet
  <2> QED
    BY <2>1, QuietHeirs
<1> QED
  BY <1>2, <1>3, <1>4

\* The entry closure returns.
LEMMA entry_returnHeirs ==
    ASSUME Types, HeirInv, NEW i \in Slot, entry_return(i)
    PROVE  HeirInv'
<1>1. /\ UNCHANGED <<kind, has_restarted, restarted_from, lowered>> /\ pc[i] = "run"
      /\ pc' = [pc EXCEPT ![i] = "exit"]
      /\ outcome' = IF has_restarted[i] THEN outcome ELSE "returned"
  BY DEF entry_return, Leave, Goto, given, struct
<1> QED
  BY <1>1, LeftHeirs

\* A struct that is dropped was nobody's heir, and restarted_from forgets it.
LEMMA drop_taskHeirs ==
    ASSUME Types, HeirInv, NEW i \in Slot, drop_task(i)
    PROVE  HeirInv'
<1>1. /\ pc' = [pc EXCEPT ![i] = "none"]
      /\ has_restarted' = [has_restarted EXCEPT ![i] = FALSE]
      /\ lowered' = [lowered EXCEPT ![i] = FALSE]
      /\ restarted_from' = [j \in Slot |-> IF j = i \/ restarted_from[j] = i THEN NoSlot
                                           ELSE restarted_from[j]]
      /\ UNCHANGED <<kind, outcome>> /\ pc[i] = "exit"
  BY DEF drop_task, Goto, given, history
<1>2. \A m \in Slot : /\ pc'[m] = IF m = i THEN "none" ELSE pc[m]
                      /\ m # i => has_restarted'[m] = has_restarted[m] /\ lowered'[m] = lowered[m]
  BY <1>1 DEF Types
<1>3. i \notin Heirs /\ Live' = Live \ {i}
  BY <1>1, <1>2 DEF Live, Heirs
<1>4. Heirs' = Heirs
  BY <1>1, <1>2, <1>3 DEF Heirs, Live
<1>5. ASSUME outcome = "active"
      PROVE  \E h \in Slot : Heirs' = {h} /\ Live' \subseteq {h, restarted_from'[h]}
  <2>1. PICK h \in Slot : Heirs = {h} /\ Live \subseteq {h, restarted_from[h]}
    BY <1>5 DEF HeirInv
  <2>2. h # i
    BY <1>3, <2>1
  <2>3. restarted_from[h] # i => restarted_from'[h] = restarted_from[h]
    BY <1>1, <2>2
  <2>4. Live' \subseteq {h, restarted_from'[h]}
    BY <1>3, <2>1, <2>3
  <2> QED
    BY <1>4, <2>1, <2>4
<1>6. outcome # "active" => Heirs' = {}
  BY <1>4 DEF HeirInv
<1>7. \E a, b \in Slot : Live' \subseteq {a, b}
  BY <1>3 DEF HeirInv
<1>8. kind # "plain" => \A m \in Heirs' : ~lowered'[m]
  <2>1. \A m \in Heirs : m \in Slot /\ m # i
    BY <1>3 DEF Heirs, Live
  <2> QED
    BY <1>2, <1>4, <2>1 DEF HeirInv
<1> QED
  BY <1>1, <1>5, <1>6, <1>7, <1>8 DEF HeirInv

-----------------------------------------------------------------------------
(***************************************************************************)
(* The theorems.                                                           *)
(***************************************************************************)
\* The task begins with one struct and no stacklet but the initial one.
LEMMA InitIInv == Init => IInv
<1> SUFFICES ASSUME Init PROVE IInv
  OBVIOUS
<1> USE DEF Init
<1>1. /\ Entry \in Frame /\ <<Entry>> \in Seq(Frame) /\ Len(<<Entry>>) = 1
      /\ DOMAIN <<Entry>> = {1} /\ <<Entry>>[1] = Entry /\ Initial \in Ids /\ MaxDepth \in Nat
  BY SizeAssumption DEF Entry, Frame, FrameKinds, Ids, Initial
<1>2. PICK first \in Slot : pc = [i \in Slot |-> IF i = first THEN "run" ELSE "none"]
  OBVIOUS
<1>3. Types
  <2>1. pc \in [Slot -> Steps]
    BY <1>2 DEF Steps
  <2> QED
    BY <1>1, <2>1 DEF Types
<1>4. ASSUME NEW i \in Slot PROVE SlotInv(i)
  <2>1. pc[i] \in {"run", "none"} /\ frames[i] = <<Entry>> /\ stacklets[i] = <<>>
    BY <1>2
  <2>2. DOMAIN stacklets[i] = {} /\ ~Runs(i)
    BY <2>1 DEF Runs, Unwinder
  <2>3. ControlOf(i)
    BY <2>1 DEF ControlOf
  <2>4. FramesOf(i)
    <3>1. Drops(i) = {}
      BY <1>1, <2>1 DEF Drops, Entry
    <3> QED
      BY <1>1, <2>1, <3>1, FS_EmptySet DEF FramesOf, Entry
  <2>5. ChainOf(i) /\ Owned(i) = {}
    BY <1>1, <2>1 DEF ChainOf, Owned, Extended, Entry
  <2>6. OwnersOf(i)
    BY <1>1, <2>1, <2>2, <2>5 DEF OwnersOf, Entry
  <2> QED
    BY <2>3, <2>4, <2>5, <2>6 DEF SlotInv
<1>5. HeirInv
  <2>1. Live = {first} /\ Heirs = {first}
    BY <1>2 DEF Live, Heirs
  <2> QED
    BY <2>1 DEF HeirInv
<1> QED
  BY <1>3, <1>4, <1>5 DEF IInv

\* Every step keeps the invariant.
LEMMA NextIInv == IInv /\ [Next]_vars => IInv'
<1> SUFFICES ASSUME IInv, [Next]_vars PROVE IInv'
  OBVIOUS
<1>1. Types /\ HeirInv /\ SlotsInv
  BY DEF IInv, SlotsInv
<1> SUFFICES Types' /\ HeirInv' /\ SlotsInv'
  BY DEF IInv, SlotsInv
<1>2. CASE UNCHANGED vars
  <2>1. /\ UNCHANGED <<kind, pc, frames, stklet_bound, nested_drop_cnt, unwind_pending, stacklets,
                       unw_bound, base, catch, is_unwinding, has_restarted, restarted_from,
                       lowered, outcome>>
    BY <1>2 DEF vars, given, tls, memory, struct, history
  <2>2. Types'
    BY <1>1, <2>1 DEF Types
  <2>3. Quiet
    BY <2>1 DEF Quiet
  <2>4. \A j \in Slot : Aside(j)
    BY <2>1 DEF Aside, Untouched
  <2> QED
    BY <1>1, <2>2, <2>3, <2>4, QuietHeirs, AsideSlot DEF SlotsInv
<1>3. ASSUME NEW i \in Slot, NEW k \in {"fn", "guard", "drop"}, call(i, k)
      PROVE  Types' /\ HeirInv' /\ SlotsInv'
  BY <1>1, <1>3, callSlots, QuietSteps
<1>4. ASSUME NEW i \in Slot, NEW k \in {"fn", "guard", "drop"}, NEW size \in Sizes,
             call_more_stack(i, k, size)
      PROVE  Types' /\ HeirInv' /\ SlotsInv'
  BY <1>1, <1>4, call_more_stackSlots, QuietSteps
<1>5. ASSUME NEW i \in Slot, NEW k \in {"fn", "guard", "drop"}, NEW size \in Sizes,
             diverted_unwind(i, k, size)
      PROVE  Types' /\ HeirInv' /\ SlotsInv'
  BY <1>1, <1>5, diverted_unwindSlots, QuietSteps
<1>6. ASSUME NEW i \in Slot, return(i) PROVE Types' /\ HeirInv' /\ SlotsInv'
  BY <1>1, <1>6, returnSlots, QuietSteps
<1>7. ASSUME NEW i \in Slot, deferred_unwind(i) PROVE Types' /\ HeirInv' /\ SlotsInv'
  BY <1>1, <1>7, deferred_unwindSlots, QuietSteps
<1>8. ASSUME NEW i \in Slot, panic(i) PROVE Types' /\ HeirInv' /\ SlotsInv'
  BY <1>1, <1>8, panicSlots, QuietSteps
<1>9. ASSUME NEW i \in Slot, start_unwind_entry(i) PROVE Types' /\ HeirInv' /\ SlotsInv'
  BY <1>1, <1>9, start_unwind_entrySlots, QuietSteps
<1>10. ASSUME NEW i \in Slot, create_unwind_state(i) PROVE Types' /\ HeirInv' /\ SlotsInv'
  BY <1>1, <1>10, create_unwind_stateSlots, create_unwind_stateHeirs
<1>11. ASSUME NEW i \in Slot, step(i) PROVE Types' /\ HeirInv' /\ SlotsInv'
  BY <1>1, <1>11, stepSlots, QuietSteps
<1>12. ASSUME NEW i \in Slot, unwind_land(i) PROVE Types' /\ HeirInv' /\ SlotsInv'
  BY <1>1, <1>12, unwind_landSlots, QuietSteps
<1>13. ASSUME NEW i \in Slot, unwind_resume_entry(i) PROVE Types' /\ HeirInv' /\ SlotsInv'
  BY <1>1, <1>13, unwind_resume_entrySlots, QuietSteps
<1>14. ASSUME NEW i \in Slot, panic_callback(i) PROVE Types' /\ HeirInv' /\ SlotsInv'
  BY <1>1, <1>14, panic_callbackSlots, panic_callbackHeirs
<1>15. ASSUME NEW i \in Slot, set_unwind_flag(i) PROVE Types' /\ HeirInv' /\ SlotsInv'
  BY <1>1, <1>15, set_unwind_flagSlots, QuietSteps
<1>16. ASSUME NEW i \in Slot, restart(i) PROVE Types' /\ HeirInv' /\ SlotsInv'
  BY <1>1, <1>16, restartSlots, QuietSteps
<1>17. ASSUME NEW i \in Slot, entry_return(i) PROVE Types' /\ HeirInv' /\ SlotsInv'
  BY <1>1, <1>17, entry_returnSlots, entry_returnHeirs
<1>18. ASSUME NEW i \in Slot, drop_task(i) PROVE Types' /\ HeirInv' /\ SlotsInv'
  BY <1>1, <1>18, drop_taskSlots, drop_taskHeirs
<1>19. ASSUME NEW i \in Slot, unwind_uncaught(i) PROVE Types' /\ HeirInv' /\ SlotsInv'
  BY <1>1, <1>19, unwind_uncaughtSlots, QuietSteps
<1>20. ASSUME NEW i \in Slot, catch_unwind(i) PROVE Types' /\ HeirInv' /\ SlotsInv'
  BY <1>1, <1>20, catch_unwindSlots, QuietSteps
<1> QED
  BY <1>2, <1>3, <1>4, <1>5, <1>6, <1>7, <1>8, <1>9, <1>10, <1>11, <1>12, <1>13, <1>14, <1>15,
     <1>16, <1>17, <1>18, <1>19, <1>20 DEF Next, Unwind

\* The invariant holds however deep functions call and however the instances interleave.
THEOREM Invariance == Spec => []IInv
  BY InitIInv, NextIInv, PTL DEF Spec

\* No instance begins an unwinding while it unwinds, which would halt the system
\* (create_unwind_state in unwind.rs).
THEOREM NoInstanceUnwindsTwice == Spec => []NeverUnwindsTwice
<1>1. IInv => NeverUnwindsTwice
  BY DEF IInv, SlotInv, ControlOf, NeverUnwindsTwice
<1> QED
  BY <1>1, Invariance, PTL

\* A forced unwinding begins outside of drop handlers, and one that was put off is never
\* forgotten (segmented_stack.rs, more_stack and the epilogue of drop handlers).
THEOREM UnwindsOutsideDropHandlers == Spec => []ForcedUnwindOutsideDrop
<1>1. IInv => ForcedUnwindOutsideDrop
  <2> SUFFICES ASSUME IInv, NEW i \in Live
               PROVE  /\ pc[i] = "divert" => ~InsideDrop(i)
                      /\ unwind_pending[i] => pc[i] = "run" /\ InsideDrop(i)
    BY DEF ForcedUnwindOutsideDrop
  <2>1. i \in Slot /\ Types /\ ControlOf(i) /\ FramesOf(i)
    BY DEF Live, IInv, SlotInv
  <2>2. nested_drop_cnt[i] = 0 <=> ~InsideDrop(i)
    BY <2>1, NoDrops DEF Drops, InsideDrop
  <2> QED
    BY <2>1, <2>2 DEF ControlOf
<1> QED
  BY <1>1, Invariance, PTL

\* The task has one responsible instance and at most one that is on its way out, and a
\* restartable task keeps its priority (try_concurrent_restart in task_struct.rs).
THEOREM OneHeirAtATime == Spec => []OneHeir
<1>1. IInv => OneHeir
  <2> SUFFICES ASSUME IInv PROVE OneHeir
    OBVIOUS
  <2>1. HeirInv
    BY DEF IInv
  <2>2. ASSUME NEW a, NEW b, NEW S \in SUBSET {a, b}
        PROVE  Cardinality(S) \in Nat /\ Cardinality(S) <= 2
    <3>1. IsFiniteSet({a}) /\ Cardinality({a}) = 1
      BY FS_Singleton
    <3>2. {a, b} = {a} \union {b}
      OBVIOUS
    <3>3. IsFiniteSet({a, b}) /\ Cardinality({a, b}) <= 2
      BY <3>1, <3>2, FS_AddElement
    <3>4. Cardinality({a, b}) \in Nat
      BY <3>3, FS_CardinalityType
    <3>5. IsFiniteSet(S) /\ Cardinality(S) <= Cardinality({a, b})
      BY <3>3, FS_Subset
    <3>6. Cardinality(S) \in Nat
      BY <3>5, FS_CardinalityType
    <3> QED
      BY <3>3, <3>4, <3>5, <3>6
  <2>3. CASE outcome = "active"
    <3>1. PICK h \in Slot : Heirs = {h} /\ Live \subseteq {h, restarted_from[h]}
      BY <2>1, <2>3 DEF HeirInv
    <3>2. Cardinality(Heirs) = 1
      BY <3>1, FS_Singleton
    <3>3. Live \ Heirs \in SUBSET {restarted_from[h]}
      BY <3>1
    <3>4. Cardinality(Live \ Heirs) <= 1
      <4>1. IsFiniteSet({restarted_from[h]}) /\ Cardinality({restarted_from[h]}) = 1
        BY FS_Singleton
      <4>2. Cardinality(Live \ Heirs) <= Cardinality({restarted_from[h]})
        BY <3>3, <4>1, FS_Subset
      <4> QED
        BY <4>1, <4>2
    <3> QED
      BY <2>1, <2>3, <3>2, <3>4 DEF HeirInv, OneHeir
  <2>4. CASE outcome # "active"
    <3>1. Cardinality(Heirs) = 0
      BY <2>1, <2>4, FS_EmptySet DEF HeirInv
    <3>2. PICK a, b \in Slot : Live \subseteq {a, b}
      BY <2>1 DEF HeirInv
    <3>3. Cardinality(Live \ Heirs) <= 2
      BY <2>2, <3>2
    <3> QED
      BY <2>1, <2>4, <3>1, <3>3 DEF HeirInv, OneHeir
  <2> QED
    BY <2>3, <2>4
<1> QED
  BY <1>1, Invariance, PTL

\* With a static stack application code has no stacklet but the initial one, except inside
\* a drop handler after which the task is unwound.
StaticStack ==
    \A i \in Slot : ~stack_config.dynamic /\ pc[i] = "run" /\ ~unwind_pending[i] =>
        DOMAIN stacklets[i] = {}

\* One step keeps it.
LEMMA NextStatic == IInv /\ StaticStack /\ [Next]_vars => StaticStack'
<1> SUFFICES ASSUME IInv, StaticStack, [Next]_vars, NEW m \in Slot,
                    ~stack_config'.dynamic, pc'[m] = "run", ~unwind_pending'[m]
             PROVE  DOMAIN stacklets'[m] = {}
  BY DEF StaticStack
<1>1. /\ Types /\ ControlOf(m) /\ FramesOf(m) /\ ChainOf(m) /\ OwnersOf(m)
  BY DEF IInv, SlotInv
<1>2. /\ pc[m] = "run" /\ ~unwind_pending[m] /\ ~stack_config.dynamic => DOMAIN stacklets[m] = {}
  BY DEF StaticStack
<1>3. Len(frames[m]) = 1 /\ ~Runs(m) => DOMAIN stacklets[m] = {}
  <2>1. Len(frames[m]) = 1 => Extended(m) = {}
    BY <1>1, TopFrame DEF ChainOf, Extended
  <2> QED
    BY <1>1, <2>1 DEF OwnersOf, Owned
<1>4. \A k, size : MayCall(m, k) /\ ~Diverts(m, Reason(k), size) /\ ~stack_config.dynamic
                   /\ pc[m] = "run" => Pends(m, Reason(k), size)
  BY <1>1 DEF ControlOf, Diverts, Pends, Exempt, LimitExceeded, Reason
<1>5. CASE UNCHANGED vars
  BY <1>2, <1>5 DEF vars, given, tls, memory
<1>6. ASSUME NEW i \in Slot, NEW k \in {"fn", "guard", "drop"}, call(i, k)
      PROVE  DOMAIN stacklets'[m] = {}
  BY <1>2, <1>6 DEF call, given, memory
<1>7. ASSUME NEW i \in Slot, NEW k \in {"fn", "guard", "drop"}, NEW size \in Sizes,
             call_more_stack(i, k, size)
      PROVE  DOMAIN stacklets'[m] = {}
  <2>1. /\ UNCHANGED <<pc, stack_config>> /\ MayCall(i, k) /\ ~Diverts(i, Reason(k), size)
        /\ unwind_pending' = [unwind_pending EXCEPT ![i] = @ \/ Pends(i, Reason(k), size)]
        /\ i # m => stacklets'[m] = stacklets[m]
    BY <1>1, <1>7 DEF call_more_stack, more_stack, given, Types
  <2>2. CASE i = m
    <3>1. Pends(m, Reason(k), size)
      BY <1>4, <2>1, <2>2
    <3> QED
      BY <1>1, <2>1, <2>2, <3>1 DEF Types
  <2>3. CASE i # m
    BY <1>1, <1>2, <2>1, <2>3 DEF Types
  <2> QED
    BY <2>2, <2>3
<1>8. ASSUME NEW i \in Slot, return(i) PROVE DOMAIN stacklets'[m] = {}
  <2>1. UNCHANGED <<pc, stack_config, unwind_pending>>
    BY <1>8 DEF return, given
  <2>2. DOMAIN stacklets[m] = {} /\ Owned(m) = {} /\ ~Top(m).extended
    <3>1. DOMAIN stacklets[m] = {}
      BY <1>2, <2>1
    <3>2. Owned(m) = {}
      BY <1>1, <3>1 DEF OwnersOf
    <3>3. Top(m) = frames[m][Len(frames[m])] /\ Len(frames[m]) \in DOMAIN frames[m]
      BY <1>1, TopFrame
    <3>4. Extended(m) = {}
      BY <3>2 DEF Owned
    <3> QED
      BY <3>1, <3>2, <3>3, <3>4 DEF Extended
  <2>3. stacklets'[m] = stacklets[m]
    BY <1>1, <1>8, <2>2 DEF return, less_stack, Dealloc, memory, Types
  <2> QED
    BY <2>2, <2>3
<1>9. ASSUME NEW i \in Slot, \/ deferred_unwind(i) \/ panic(i) \/ entry_return(i) \/ unwind_uncaught(i)
                             \/ \E k \in {"fn", "guard", "drop"}, size \in Sizes :
                                   diverted_unwind(i, k, size)
      PROVE  DOMAIN stacklets'[m] = {}
  <2>1. /\ UNCHANGED <<stack_config, stacklets>>
        /\ \E s \in {"divert", "panic", "exit", "uncaught"} : pc' = [pc EXCEPT ![i] = s]
        /\ i # m => unwind_pending'[m] = unwind_pending[m]
    BY <1>1, <1>9 DEF deferred_unwind, panic, entry_return, unwind_uncaught, diverted_unwind, Leave, Goto, given,
                      tls, memory, Types
  <2> QED
    BY <1>1, <1>2, <2>1 DEF Types
<1>10. ASSUME NEW i \in Slot, start_unwind_entry(i) \/ unwind_resume_entry(i)
       PROVE  DOMAIN stacklets'[m] = {}
  <2>1. /\ \E s \in {"create", "step"} : pc' = [pc EXCEPT ![i] = s]
        /\ UNCHANGED stack_config
        /\ i # m => stacklets'[m] = stacklets[m] /\ unwind_pending'[m] = unwind_pending[m]
    BY <1>1, <1>10 DEF start_unwind_entry, unwind_resume_entry, more_stack, Goto, given, Types
  <2> QED
    BY <1>1, <1>2, <2>1 DEF Types
<1>11. ASSUME NEW i \in Slot, step(i) \/ unwind_land(i) PROVE DOMAIN stacklets'[m] = {}
  <2>1. /\ \E s \in {"unwind", "caught", "pad"} : pc' = [pc EXCEPT ![i] = s]
        /\ UNCHANGED <<stack_config, unwind_pending>>
        /\ i # m => stacklets'[m] = stacklets[m]
    BY <1>1, <1>11 DEF step, unwind_land, Dealloc, Goto, given, tls, memory, Types
  <2> QED
    BY <1>1, <1>2, <2>1 DEF Types
<1>12. ASSUME NEW i \in Slot, create_unwind_state(i) PROVE DOMAIN stacklets'[m] = {}
  <2>1. UNCHANGED <<stack_config, unwind_pending, stacklets>>
    BY <1>12 DEF create_unwind_state, given, tls, memory
  <2>2. pc[m] = "run" \/ pc[m] = "none"
    BY <1>1, <1>12 DEF create_unwind_state, no_restart, restart_from, Goto, Types
  <2>3. CASE pc[m] = "run"
    BY <1>2, <2>1, <2>3
  <2>4. CASE pc[m] = "none"
    BY <1>1, <1>3, <2>1, <2>4 DEF FramesOf, Runs, Unwinder
  <2> QED
    BY <2>2, <2>3, <2>4
<1>13. ASSUME NEW i \in Slot, panic_callback(i) \/ set_unwind_flag(i) \/ restart(i) \/ catch_unwind(i)
       PROVE  DOMAIN stacklets'[m] = {}
  <2>1. UNCHANGED <<stack_config, unwind_pending, stacklets>>
    BY <1>13 DEF panic_callback, set_unwind_flag, restart, catch_unwind, given, tls, memory
  <2>2. pc[m] = "run" \/ pc[m] = "clear"
    BY <1>1, <1>13 DEF panic_callback, set_unwind_flag, restart, catch_unwind, Leave, Goto, Types
  <2>3. CASE pc[m] = "run"
    BY <1>2, <2>1, <2>3
  <2>4. CASE pc[m] = "clear"
    BY <1>1, <1>3, <2>1, <2>4 DEF FramesOf, Runs, Unwinder
  <2> QED
    BY <2>2, <2>3, <2>4
<1>14. ASSUME NEW i \in Slot, drop_task(i) PROVE DOMAIN stacklets'[m] = {}
  <2>1. /\ UNCHANGED <<stack_config, unwind_pending>> /\ pc' = [pc EXCEPT ![i] = "none"]
        /\ i # m => stacklets'[m] = stacklets[m]
    BY <1>1, <1>14 DEF drop_task, Goto, given, tls, Types
  <2> QED
    BY <1>1, <1>2, <2>1 DEF Types
<1> QED
  BY <1>5, <1>6, <1>7, <1>8, <1>9, <1>10, <1>11, <1>12, <1>13, <1>14 DEF Next, Unwind

-----------------------------------------------------------------------------
(***************************************************************************)
(* The limit of a dynamic stack: cumulated_size is never less than what    *)
(* the stacklets take (it is more after a diverted call, or when the       *)
(* unwinder's stacklet was freed in unwind_land), and more_stack compares  *)
(* it with the limit after every call that is not exempt.                  *)
(***************************************************************************)
UsageOf(i) ==
    /\ cumulated_size[i] \in Int
    /\ \A b \in DOMAIN stacklets[i] : stacklets[i][b].count_size \in Nat
    /\ IsFiniteSet(Bytes(stacklets[i]))
    /\ stack_config.dynamic => Allocated(i) <= cumulated_size[i]

LimitOf(i) ==
    stack_config.dynamic /\ stack_config.limit # NoLimit /\ pc[i] = "run" /\ ~unwind_pending[i] =>
        Allocated(i) <= stack_config.limit

Usage ==
    /\ stack_config \in [dynamic : BOOLEAN, limit : Nat \union {NoLimit}]
    /\ cumulated_size \in [Slot -> Int]
    /\ \A i \in Slot : UsageOf(i) /\ LimitOf(i)

\* The bytes of one stacklet.
LEMMA StackletBytes ==
    ASSUME NEW d, NEW n \in Nat
    PROVE  IsFiniteSet({d} \X (1 .. n)) /\ Cardinality({d} \X (1 .. n)) = n
<1>1. IsFiniteSet({d}) /\ Cardinality({d}) = 1
  BY FS_Singleton
<1>2. IsFiniteSet(1 .. n) /\ Cardinality(1 .. n) = n
  BY FS_Interval
<1>3. IsFiniteSet({d} \X (1 .. n)) /\ Cardinality({d} \X (1 .. n)) = Cardinality({d}) * Cardinality(1 .. n)
  BY <1>1, <1>2, FS_Product
<1> QED
  BY <1>1, <1>2, <1>3

\* No stacklet, no bytes.
LEMMA NoBytes ==
    ASSUME NEW s, DOMAIN s = {}
    PROVE  Bytes(s) = {} /\ IsFiniteSet(Bytes(s)) /\ Cardinality(Bytes(s)) = 0
<1>1. Bytes(s) = {}
  BY DEF Bytes
<1> QED
  BY <1>1, FS_EmptySet

\* One stacklet more, or less.
LEMMA BytesOf ==
    ASSUME NEW s, NEW t, NEW d, d \notin DOMAIN s, DOMAIN t = DOMAIN s \union {d},
           \A b \in DOMAIN s : t[b] = s[b], t[d].count_size \in Nat
    PROVE  /\ IsFiniteSet(Bytes(s)) <=> IsFiniteSet(Bytes(t))
           /\ IsFiniteSet(Bytes(s)) =>
                 /\ Cardinality(Bytes(s)) \in Nat
                 /\ Cardinality(Bytes(t)) = Cardinality(Bytes(s)) + t[d].count_size
<1> DEFINE n == t[d].count_size
           D == {d} \X (1 .. n)
<1>1. Bytes(t) = Bytes(s) \union D
  <2>1. ASSUME NEW x \in Bytes(t) PROVE x \in Bytes(s) \union D
    <3>1. PICK b \in DOMAIN t : x \in {b} \X (1 .. t[b].count_size)
      BY DEF Bytes
    <3>2. CASE b = d
      BY <3>1, <3>2
    <3>3. CASE b \in DOMAIN s
      BY <3>1, <3>3 DEF Bytes
    <3> QED
      BY <3>2, <3>3
  <2>2. ASSUME NEW x \in Bytes(s) PROVE x \in Bytes(t)
    <3>1. PICK b \in DOMAIN s : x \in {b} \X (1 .. s[b].count_size)
      BY DEF Bytes
    <3>2. b \in DOMAIN t /\ x \in {b} \X (1 .. t[b].count_size)
      BY <3>1
    <3> QED
      BY <3>2 DEF Bytes
  <2>3. ASSUME NEW x \in D PROVE x \in Bytes(t)
    BY DEF Bytes
  <2> HIDE DEF D
  <2> QED
    BY <2>1, <2>2, <2>3
<1>2. Bytes(s) \cap D = {}
  BY DEF Bytes
<1>3. IsFiniteSet(D) /\ Cardinality(D) = n /\ n \in Nat
  BY StackletBytes
<1> HIDE DEF D, n
<1>4. IsFiniteSet(Bytes(t)) => IsFiniteSet(Bytes(s))
  <2>1. Bytes(s) \in SUBSET Bytes(t)
    BY <1>1
  <2> QED
    BY <2>1, FS_Subset
<1>5. ASSUME IsFiniteSet(Bytes(s))
      PROVE  /\ IsFiniteSet(Bytes(t)) /\ Cardinality(Bytes(s)) \in Nat
             /\ Cardinality(Bytes(t)) = Cardinality(Bytes(s)) + n
  <2>1. /\ IsFiniteSet(Bytes(s) \union D)
        /\ Cardinality(Bytes(s) \union D) =
              Cardinality(Bytes(s)) + Cardinality(D) - Cardinality(Bytes(s) \cap D)
    BY <1>3, <1>5, FS_Union
  <2>2. Cardinality(Bytes(s) \cap D) = 0 /\ Cardinality(Bytes(s)) \in Nat
    BY <1>2, <1>5, FS_EmptySet, FS_CardinalityType
  <2> QED
    BY <1>1, <1>3, <2>1, <2>2
<1> QED
  BY <1>4, <1>5 DEF n

\* The stacklets of an instance stay; what it is charged may grow.
LEMMA UsageKept ==
    ASSUME NEW m \in Slot, UsageOf(m), stacklets'[m] = stacklets[m], UNCHANGED stack_config,
           cumulated_size'[m] \in Int, cumulated_size'[m] >= cumulated_size[m]
    PROVE  UsageOf(m)' /\ Allocated(m)' = Allocated(m)
<1>1. Allocated(m) \in Nat /\ Allocated(m)' = Allocated(m)
  BY FS_CardinalityType DEF UsageOf, Allocated
<1>2. stack_config.dynamic => Allocated(m)' <= cumulated_size'[m]
  BY <1>1 DEF UsageOf
<1> QED
  BY <1>1, <1>2 DEF UsageOf

\* It gets one, which is charged.
LEMMA UsageAdded ==
    ASSUME NEW m \in Slot, UsageOf(m), NEW size \in Nat, Added(m, size), UNCHANGED stack_config,
           NewId(m) \notin DOMAIN stacklets[m],
           cumulated_size'[m] = IF stack_config.dynamic THEN cumulated_size[m] + size ELSE cumulated_size[m]
    PROVE  UsageOf(m)' /\ Allocated(m) \in Nat /\ Allocated(m)' = Allocated(m) + size
<1> DEFINE s == stacklets[m]
           t == stacklets'[m]
           d == NewId(m)
<1>1. /\ DOMAIN t = DOMAIN s \union {d} /\ \A b \in DOMAIN s : t[b] = s[b]
      /\ t[d].count_size = size
  BY DEF Added
<1>2. /\ IsFiniteSet(Bytes(t)) /\ Cardinality(Bytes(s)) \in Nat
      /\ Cardinality(Bytes(t)) = Cardinality(Bytes(s)) + size
  <2>1. IsFiniteSet(Bytes(s))
    BY DEF UsageOf
  <2> HIDE DEF s, t, d
  <2>2. d \notin DOMAIN s
    BY DEF s, d
  <2> QED
    BY <1>1, <2>1, <2>2, BytesOf
<1>3. \A b \in DOMAIN t : t[b].count_size \in Nat
  BY <1>1 DEF UsageOf
<1>4. stack_config.dynamic => Cardinality(Bytes(t)) <= cumulated_size'[m]
  BY <1>2 DEF UsageOf, Allocated
<1>5. cumulated_size'[m] \in Int
  BY DEF UsageOf
<1> QED
  BY <1>2, <1>3, <1>4, <1>5 DEF UsageOf, Allocated

\* One is freed, and its size at most is no longer charged.
LEMMA UsageFreed ==
    ASSUME NEW m \in Slot, UsageOf(m), NEW d \in DOMAIN stacklets[m], Freed(m, d),
           UNCHANGED stack_config, cumulated_size'[m] \in Int,
           cumulated_size'[m] >= IF stack_config.dynamic
                                 THEN cumulated_size[m] - stacklets[m][d].count_size
                                 ELSE cumulated_size[m]
    PROVE  UsageOf(m)' /\ Allocated(m)' <= Allocated(m) /\ Allocated(m) \in Nat /\ Allocated(m)' \in Nat
<1> DEFINE s == stacklets[m]
           t == stacklets'[m]
           n == stacklets[m][d].count_size
<1>1. /\ d \notin DOMAIN t /\ DOMAIN s = DOMAIN t \union {d} /\ \A b \in DOMAIN t : s[b] = t[b]
      /\ n \in Nat
  BY DEF Freed, Restrict, UsageOf
<1>2. /\ IsFiniteSet(Bytes(t)) /\ Cardinality(Bytes(t)) \in Nat
      /\ Cardinality(Bytes(s)) = Cardinality(Bytes(t)) + n
  <2>1. IsFiniteSet(Bytes(s)) /\ n = s[d].count_size
    BY DEF UsageOf
  <2> HIDE DEF s, t, n
  <2> QED
    BY <1>1, <2>1, BytesOf
<1>3. \A b \in DOMAIN t : t[b].count_size \in Nat
  BY <1>1 DEF UsageOf
<1>4. stack_config.dynamic => Cardinality(Bytes(t)) <= cumulated_size'[m]
  BY <1>1, <1>2 DEF UsageOf, Allocated
<1>5. Cardinality(Bytes(t)) <= Cardinality(Bytes(s)) /\ Cardinality(Bytes(s)) \in Nat
  BY <1>1, <1>2
<1> QED
  BY <1>2, <1>3, <1>4, <1>5 DEF UsageOf, Allocated

\* The configuration stays, and what at most one instance is charged changes.
LEMMA Charged ==
    ASSUME [Next]_vars
    PROVE  /\ UNCHANGED stack_config
           /\ \/ UNCHANGED cumulated_size
              \/ \E i \in Slot : \E v : cumulated_size' = [cumulated_size EXCEPT ![i] = v]
<1>1. CASE UNCHANGED vars
  BY <1>1 DEF vars, given, memory
<1>2. ASSUME NEW i \in Slot, NEW k \in {"fn", "guard", "drop"}, call(i, k)
      PROVE  UNCHANGED <<stack_config, cumulated_size>>
  BY <1>2 DEF call, given, memory
<1>3. ASSUME NEW i \in Slot, NEW k \in {"fn", "guard", "drop"}, NEW size \in Sizes,
             call_more_stack(i, k, size) \/ diverted_unwind(i, k, size)
      PROVE  UNCHANGED stack_config /\ \E v : cumulated_size' = [cumulated_size EXCEPT ![i] = v]
  BY <1>3 DEF call_more_stack, diverted_unwind, more_stack, Charge, given
<1>4. ASSUME NEW i \in Slot, return(i)
      PROVE  /\ UNCHANGED stack_config
             /\ UNCHANGED cumulated_size \/ \E v : cumulated_size' = [cumulated_size EXCEPT ![i] = v]
  BY <1>4 DEF return, less_stack, Uncharge, given, memory
<1>5. ASSUME NEW i \in Slot, step(i)
      PROVE  /\ UNCHANGED stack_config
             /\ UNCHANGED cumulated_size \/ \E v : cumulated_size' = [cumulated_size EXCEPT ![i] = v]
  BY <1>5 DEF step, Uncharge, given, memory
<1>6. ASSUME NEW i \in Slot, start_unwind_entry(i) \/ unwind_resume_entry(i) \/ drop_task(i)
      PROVE  UNCHANGED stack_config /\ \E v : cumulated_size' = [cumulated_size EXCEPT ![i] = v]
  BY <1>6 DEF start_unwind_entry, unwind_resume_entry, drop_task, more_stack, Charge, given
<1>7. ASSUME NEW i \in Slot,
             \/ deferred_unwind(i) \/ panic(i) \/ create_unwind_state(i) \/ unwind_land(i)
             \/ panic_callback(i) \/ set_unwind_flag(i) \/ restart(i) \/ entry_return(i)
             \/ unwind_uncaught(i) \/ catch_unwind(i)
      PROVE  UNCHANGED <<stack_config, cumulated_size>>
  BY <1>7 DEF deferred_unwind, panic, create_unwind_state, unwind_land, panic_callback, set_unwind_flag,
     restart, entry_return, unwind_uncaught, catch_unwind, given, memory
<1> QED
  BY <1>1, <1>2, <1>3, <1>4, <1>5, <1>6, <1>7 DEF Next, Unwind

\* One step keeps the usage and the limit of an instance.
LEMMA NextUsageOf ==
    ASSUME IInv, Usage, [Next]_vars, NEW m \in Slot
    PROVE  UsageOf(m)' /\ LimitOf(m)' /\ cumulated_size'[m] \in Int
<1>0. /\ Types /\ ControlOf(m) /\ FramesOf(m) /\ ChainOf(m) /\ OwnersOf(m)
      /\ UsageOf(m) /\ LimitOf(m) /\ cumulated_size \in [Slot -> Int] /\ cumulated_size[m] \in Int
      /\ stack_config.limit \in Nat \union {NoLimit} /\ stack_config.dynamic \in BOOLEAN
  BY DEF IInv, SlotInv, Usage
<1>1. UNCHANGED stack_config
  BY Charged
\* The instance keeps its stacklets.
<1>2. ASSUME stacklets'[m] = stacklets[m], cumulated_size'[m] \in Int,
             cumulated_size'[m] >= cumulated_size[m],
             pc'[m] = "run" /\ ~unwind_pending'[m] =>
                (pc[m] = "run" /\ ~unwind_pending[m]) \/ pc[m] \in {"none", "clear"}
      PROVE  UsageOf(m)' /\ LimitOf(m)' /\ cumulated_size'[m] \in Int
  <2>1. UsageOf(m)' /\ Allocated(m)' = Allocated(m)
    BY <1>0, <1>1, <1>2, UsageKept
  <2>2. ASSUME pc[m] \in {"none", "clear"} PROVE Allocated(m) = 0
    <3>1. Len(frames[m]) = 1 /\ ~Runs(m)
      BY <1>0, <2>2 DEF FramesOf, Runs, Unwinder
    <3>2. Extended(m) = {}
      BY <1>0, <3>1, TopFrame DEF ChainOf, Extended
    <3>3. DOMAIN stacklets[m] = {}
      BY <1>0, <3>1, <3>2 DEF OwnersOf, Owned
    <3> QED
      BY <3>3, NoBytes DEF Allocated
  <2>3. LimitOf(m)'
    <3> SUFFICES ASSUME stack_config.dynamic, stack_config.limit # NoLimit,
                        pc'[m] = "run", ~unwind_pending'[m]
                 PROVE  Allocated(m)' <= stack_config.limit
      BY <1>1 DEF LimitOf
    <3>1. stack_config.limit >= 0
      BY <1>0
    <3> QED
      BY <1>0, <1>2, <2>1, <2>2, <3>1 DEF LimitOf
  <2> QED
    BY <1>2, <2>1, <2>3
\* It stops running application code, or is unwound soon.
<1>3. ASSUME UsageOf(m)', pc'[m] # "run" \/ unwind_pending'[m]
      PROVE  UsageOf(m)' /\ LimitOf(m)' /\ cumulated_size'[m] \in Int
  BY <1>3 DEF UsageOf, LimitOf
<1>4. CASE \/ UNCHANGED vars
           \/ \E i \in Slot :
                 \/ \E k \in {"fn", "guard", "drop"} : call(i, k)
                 \/ deferred_unwind(i) \/ panic(i) \/ create_unwind_state(i)
                 \/ panic_callback(i) \/ set_unwind_flag(i) \/ restart(i) \/ entry_return(i)
                 \/ unwind_uncaught(i) \/ catch_unwind(i)
  <2>1. UNCHANGED <<stacklets, cumulated_size>>
    BY <1>4 DEF vars, memory, call, deferred_unwind, panic, create_unwind_state, panic_callback,
       set_unwind_flag, restart, entry_return, unwind_uncaught, catch_unwind
  <2>2. pc'[m] = "run" => pc[m] \in {"run", "none", "clear"}
    <3>1. CASE UNCHANGED vars \/ \E i \in Slot, k \in {"fn", "guard", "drop"} : call(i, k)
      BY <1>0, <3>1 DEF vars, call
    <3>2. ASSUME NEW i \in Slot, \/ deferred_unwind(i) \/ panic(i) \/ entry_return(i)
                                 \/ panic_callback(i) \/ unwind_uncaught(i)
          PROVE  \E s \in {"divert", "panic", "exit", "clear", "uncaught"} : pc' = [pc EXCEPT ![i] = s]
      BY <3>2 DEF deferred_unwind, panic, entry_return, panic_callback, unwind_uncaught, Leave, Goto
    <3>3. ASSUME NEW i \in Slot, set_unwind_flag(i) \/ restart(i) \/ catch_unwind(i)
          PROVE  (pc[i] = "clear" /\ pc' = [pc EXCEPT ![i] = "run"]) \/ pc' = pc
      BY <3>3 DEF set_unwind_flag, restart, catch_unwind, Goto
    <3>4. ASSUME NEW i \in Slot, create_unwind_state(i)
          PROVE  \/ \E s \in {"die", "unwind"} : pc' = [pc EXCEPT ![i] = s]
                 \/ \E j \in Slot : pc[j] = "none" /\ pc' = [pc EXCEPT ![i] = "unwind", ![j] = "run"]
      BY <3>4 DEF create_unwind_state, no_restart, restart_from, Goto
    <3> QED
      BY <1>0, <1>4, <3>1, <3>2, <3>3, <3>4 DEF Types
  <2>3. pc'[m] = "run" /\ pc[m] = "run" => unwind_pending'[m] = unwind_pending[m]
    BY <1>0, <1>4 DEF vars, tls, call, deferred_unwind, panic, create_unwind_state,
       panic_callback, set_unwind_flag, restart, entry_return, unwind_uncaught, catch_unwind, Goto,
       Types
  <2>4. cumulated_size'[m] \in Int /\ cumulated_size'[m] >= cumulated_size[m]
    BY <1>0, <2>1
  <2> QED
    BY <1>2, <2>1, <2>2, <2>3, <2>4
<1>5. ASSUME NEW i \in Slot, NEW k \in {"fn", "guard", "drop"}, NEW size \in Sizes,
             diverted_unwind(i, k, size)
      PROVE  UsageOf(m)' /\ LimitOf(m)' /\ cumulated_size'[m] \in Int
  <2>1. /\ UNCHANGED <<stacklets, unwind_pending>> /\ pc' = [pc EXCEPT ![i] = "divert"]
        /\ Charge(i, size) /\ size \in Nat
    BY <1>5, SizeAssumption DEF diverted_unwind, Goto, tls
  <2>2. cumulated_size'[m] \in Int /\ cumulated_size'[m] >= cumulated_size[m]
    BY <1>0, <2>1 DEF Charge
  <2>3. pc'[m] = "run" => pc[m] = "run"
    BY <1>0, <2>1 DEF Types
  <2> QED
    BY <1>2, <2>1, <2>2, <2>3
<1>6. ASSUME NEW i \in Slot, i # m, stacklets'[m] = stacklets[m], cumulated_size'[m] = cumulated_size[m],
             pc'[m] = pc[m], unwind_pending'[m] = unwind_pending[m]
      PROVE  UsageOf(m)' /\ LimitOf(m)' /\ cumulated_size'[m] \in Int
  <2>1. cumulated_size'[m] \in Int /\ cumulated_size'[m] >= cumulated_size[m]
    BY <1>0, <1>6
  <2> QED
    BY <1>2, <1>6, <2>1
<1>7. ASSUME NEW k \in {"fn", "guard", "drop"}, NEW size \in Sizes, call_more_stack(m, k, size)
      PROVE  UsageOf(m)' /\ LimitOf(m)' /\ cumulated_size'[m] \in Int
  <2>1. /\ MayCall(m, k) /\ ~Diverts(m, Reason(k), size) /\ UNCHANGED pc
        /\ unwind_pending' = [unwind_pending EXCEPT ![m] = @ \/ Pends(m, Reason(k), size)]
        /\ Charge(m, size) /\ size \in Nat /\ Added(m, size)
    BY <1>0, <1>7, SizeAssumption DEF call_more_stack, more_stack, Added, Types
  <2>2. ~Runs(m)
    BY <2>1 DEF MayCall, Runs, Unwinder
  <2>3. NewId(m) \notin DOMAIN stacklets[m]
    BY <1>0, <2>2, FreshId
  <2>4. cumulated_size'[m] = IF stack_config.dynamic THEN cumulated_size[m] + size ELSE cumulated_size[m]
    BY <1>0, <2>1 DEF Charge
  <2>5. UsageOf(m)' /\ Allocated(m) \in Nat /\ Allocated(m)' = Allocated(m) + size
    BY <1>0, <1>1, <2>1, <2>3, <2>4, UsageAdded
  <2>6. ASSUME stack_config.dynamic, stack_config.limit # NoLimit, pc'[m] = "run", ~unwind_pending'[m]
        PROVE  Allocated(m)' <= stack_config.limit
    <3>1. ~Pends(m, Reason(k), size)
      BY <1>0, <2>1, <2>6 DEF Types
    <3>2. ~Exempt(m, Reason(k))
      BY <1>0, <2>1, <2>6 DEF Exempt, Reason, ControlOf
    <3>3. ~LimitExceeded(m, size)
      BY <2>1, <3>1, <3>2 DEF Pends, Diverts
    <3>4. ~(cumulated_size[m] + size > stack_config.limit) /\ Allocated(m) <= cumulated_size[m]
      BY <1>0, <2>6, <3>3 DEF LimitExceeded, UsageOf
    <3>5. stack_config.limit \in Int /\ size \in Int
      BY <1>0, <2>1, <2>6
    <3> QED
      BY <1>0, <2>5, <3>4, <3>5
  <2>7. LimitOf(m)'
    BY <1>1, <2>6 DEF LimitOf
  <2> QED
    BY <2>5, <2>7 DEF UsageOf
<1>8. ASSUME start_unwind_entry(m) \/ unwind_resume_entry(m)
      PROVE  UsageOf(m)' /\ LimitOf(m)' /\ cumulated_size'[m] \in Int
  <2>1. /\ pc[m] \in {"panic", "divert", "pad"} /\ pc'[m] # "run"
        /\ Charge(m, UnwinderSize) /\ UnwinderSize \in Nat /\ Added(m, UnwinderSize)
    BY <1>0, <1>8, SizeAssumption DEF start_unwind_entry, unwind_resume_entry, more_stack, Added, Goto, Types
  <2>2. ~Runs(m)
    BY <2>1 DEF Runs, Unwinder
  <2>3. NewId(m) \notin DOMAIN stacklets[m]
    BY <1>0, <2>2, FreshId
  <2>4. cumulated_size'[m] = IF stack_config.dynamic THEN cumulated_size[m] + UnwinderSize
                             ELSE cumulated_size[m]
    BY <1>0, <2>1 DEF Charge
  <2>5. UsageOf(m)'
    BY <1>0, <1>1, <2>1, <2>3, <2>4, UsageAdded
  <2> QED
    BY <1>3, <2>1, <2>5
\* The innermost function has the stacklet that it was given.
<1>9. Top(m).extended => Top(m).bound \in Owned(m) /\ Top(m).bound \in DOMAIN stacklets[m]
  <2>1. Top(m) = frames[m][Len(frames[m])] /\ Len(frames[m]) \in DOMAIN frames[m]
    BY <1>0, TopFrame
  <2> QED
    BY <1>0, <2>1 DEF Owned, Extended, OwnersOf
<1>10. ASSUME NEW d \in DOMAIN stacklets[m], Dealloc(m, d),
              Uncharge(m, stacklets[m][d].count_size) \/ UNCHANGED cumulated_size
       PROVE  /\ UsageOf(m)' /\ Allocated(m)' <= Allocated(m)
              /\ Allocated(m) \in Nat /\ Allocated(m)' \in Nat
  <2>1. Freed(m, d) /\ stacklets[m][d].count_size \in Nat
    BY <1>0, <1>10 DEF Dealloc, Freed, Types, UsageOf
  <2>2. /\ cumulated_size'[m] \in Int
        /\ cumulated_size'[m] >= IF stack_config.dynamic
                                 THEN cumulated_size[m] - stacklets[m][d].count_size
                                 ELSE cumulated_size[m]
    BY <1>0, <1>10, <2>1 DEF Uncharge
  <2> QED
    BY <1>0, <1>1, <1>10, <2>1, <2>2, UsageFreed
<1>11. ASSUME return(m) PROVE UsageOf(m)' /\ LimitOf(m)' /\ cumulated_size'[m] \in Int
  <2>1. UNCHANGED <<pc, unwind_pending>> /\ pc[m] \in {"run", "pad"}
    BY <1>11 DEF return
  <2>2. CASE Top(m).extended
    <3>1. /\ Dealloc(m, stklet_bound[m])
          /\ Uncharge(m, stacklets[m][stklet_bound[m]].count_size)
      BY <1>11, <2>2 DEF return, less_stack
    <3>2. stklet_bound[m] \in DOMAIN stacklets[m]
      BY <1>0, <1>9, <2>1, <2>2, TopFrame DEF OwnersOf, Runs, Unwinder
    <3>3. UsageOf(m)' /\ Allocated(m)' <= Allocated(m) /\ Allocated(m) \in Nat /\ Allocated(m)' \in Nat
      BY <1>10, <3>1, <3>2
    <3>4. LimitOf(m)'
      BY <1>0, <1>1, <2>1, <3>3 DEF LimitOf
    <3> QED
      BY <3>3, <3>4 DEF UsageOf
  <2>3. CASE ~Top(m).extended
    <3>1. UNCHANGED <<stacklets, cumulated_size>>
      BY <1>11, <2>3 DEF return, memory
    <3>2. cumulated_size'[m] \in Int /\ cumulated_size'[m] >= cumulated_size[m]
      BY <1>0, <3>1
    <3> QED
      BY <1>2, <2>1, <3>1, <3>2
  <2> QED
    BY <2>2, <2>3
<1>12. ASSUME step(m) PROVE UsageOf(m)' /\ LimitOf(m)' /\ cumulated_size'[m] \in Int
  <2>1. Runs(m) /\ pc'[m] # "run"
    BY <1>0, <1>12 DEF step, Goto, Runs, Unwinder, Types
  <2>2. CASE Top(m).extended
    <3>1. /\ Dealloc(m, unw_bound[m])
          /\ Uncharge(m, stacklets[m][unw_bound[m]].count_size)
      BY <1>12, <2>2 DEF step
    <3>2. unw_bound[m] \in DOMAIN stacklets[m]
      BY <1>0, <1>9, <2>1, <2>2, TopFrame DEF OwnersOf
    <3> QED
      BY <1>3, <1>10, <2>1, <3>1, <3>2
  <2>3. CASE ~Top(m).extended
    <3>1. UNCHANGED <<stacklets, cumulated_size>>
      BY <1>12, <2>3 DEF step, memory
    <3>2. cumulated_size'[m] \in Int /\ cumulated_size'[m] >= cumulated_size[m]
      BY <1>0, <3>1
    <3> QED
      BY <1>2, <2>1, <3>1, <3>2
  <2> QED
    BY <2>2, <2>3
<1>13. ASSUME unwind_land(m) PROVE UsageOf(m)' /\ LimitOf(m)' /\ cumulated_size'[m] \in Int
  <2>1. Runs(m) /\ pc'[m] # "run" /\ Dealloc(m, stklet_bound[m]) /\ UNCHANGED cumulated_size
    BY <1>0, <1>13 DEF unwind_land, Goto, Runs, Unwinder, Types
  <2>2. stklet_bound[m] \in DOMAIN stacklets[m]
    BY <1>0, <2>1 DEF OwnersOf
  <2> QED
    BY <1>3, <1>10, <2>1, <2>2
<1>14. ASSUME drop_task(m) PROVE UsageOf(m)' /\ LimitOf(m)' /\ cumulated_size'[m] \in Int
  <2>1. stacklets'[m] = <<>> /\ cumulated_size'[m] = 0 /\ pc'[m] = "none"
    BY <1>0, <1>14 DEF drop_task, Goto, Types
  <2>2. DOMAIN stacklets'[m] = {}
    BY <2>1
  <2>3. IsFiniteSet(Bytes(stacklets'[m])) /\ Cardinality(Bytes(stacklets'[m])) = 0
    BY <2>2, NoBytes
  <2>4. UsageOf(m)'
    BY <2>1, <2>2, <2>3 DEF UsageOf, Allocated
  <2> QED
    BY <1>3, <2>1, <2>4
<1>15. ASSUME NEW i \in Slot, i # m,
              \/ \E k \in {"fn", "guard", "drop"}, size \in Sizes : call_more_stack(i, k, size)
              \/ start_unwind_entry(i) \/ unwind_resume_entry(i) \/ return(i) \/ step(i)
              \/ unwind_land(i) \/ drop_task(i)
       PROVE  UsageOf(m)' /\ LimitOf(m)' /\ cumulated_size'[m] \in Int
  <2>1. pc'[m] = pc[m] /\ unwind_pending'[m] = unwind_pending[m]
    BY <1>0, <1>15 DEF call_more_stack, start_unwind_entry, unwind_resume_entry, return, step, unwind_land,
       drop_task, more_stack, Goto, tls, Types
  <2>2. stacklets'[m] = stacklets[m] /\ cumulated_size'[m] = cumulated_size[m]
    BY <1>0, <1>15 DEF call_more_stack, start_unwind_entry, unwind_resume_entry, return, step, unwind_land,
       drop_task, more_stack, less_stack, Charge, Uncharge, Dealloc, memory, Types
  <2> QED
    BY <1>6, <1>15, <2>1, <2>2
<1> QED
  BY <1>4, <1>5, <1>7, <1>8, <1>11, <1>12, <1>13, <1>14, <1>15 DEF Next, Unwind

\* One step keeps the usage and the limit of all.
LEMMA NextUsage == IInv /\ Usage /\ [Next]_vars => Usage'
<1> SUFFICES ASSUME IInv, Usage, [Next]_vars PROVE Usage'
  OBVIOUS
<1>1. cumulated_size \in [Slot -> Int]
  BY DEF Usage
<1>2. cumulated_size' = [i \in Slot |-> cumulated_size'[i]]
  BY <1>1, Charged
<1>3. UNCHANGED stack_config
  BY Charged
<1>4. \A i \in Slot : UsageOf(i)' /\ LimitOf(i)' /\ cumulated_size'[i] \in Int
  BY NextUsageOf
<1>5. cumulated_size' \in [Slot -> Int]
  BY <1>2, <1>4
<1> QED
  BY <1>3, <1>4, <1>5 DEF Usage

\* A task begins without stacklets.
LEMMA InitUsage == Init => Usage
<1> SUFFICES ASSUME Init PROVE Usage
  OBVIOUS
<1>1. /\ stack_config \in StackConfig /\ cumulated_size = [i \in Slot |-> 0]
      /\ \A i \in Slot : DOMAIN stacklets[i] = {}
  BY DEF Init
<1>2. stack_config \in [dynamic : BOOLEAN, limit : Nat \union {NoLimit}]
  BY <1>1, SizeAssumption
<1>3. ASSUME NEW i \in Slot PROVE UsageOf(i) /\ LimitOf(i)
  <2>1. IsFiniteSet(Bytes(stacklets[i])) /\ Allocated(i) = 0
    BY <1>1, NoBytes DEF Allocated
  <2>2. UsageOf(i)
    BY <1>1, <2>1 DEF UsageOf
  <2>3. stack_config.limit # NoLimit => stack_config.limit >= 0
    BY <1>2
  <2>4. LimitOf(i)
    BY <2>1, <2>3 DEF LimitOf
  <2> QED
    BY <2>2, <2>4
<1> QED
  BY <1>1, <1>2, <1>3 DEF Usage

\* Every stacklet has one owner and every owner its stacklet, a static stack is not
\* extended, and a dynamic one not beyond its limit: more_stack, less_stack,
\* UnwindState::step and unwind_land agree.
THEOREM StackletsAreSound == Spec => []StackletsSound
<1>1. IInv /\ StaticStack /\ Usage => StackletsSound
  <2> SUFFICES ASSUME IInv, StaticStack, Usage, NEW i \in Live
               PROVE  /\ StackletsOwned(i)
                      /\ pc[i] = "run" /\ ~is_unwinding[i] /\ ~unwind_pending[i] => WithinLimit(i)
    BY DEF StackletsSound
  <2>1. i \in Slot /\ Types /\ FramesOf(i) /\ ChainOf(i) /\ OwnersOf(i)
    BY DEF Live, IInv, SlotInv
  <2>2. Top(i) = frames[i][Len(frames[i])] /\ Cardinality(Owned(i)) = Cardinality(Extended(i))
    BY <2>1, TopFrame, OwnedCount
  <2>3. StackletsOwned(i)
    BY <2>1, <2>2 DEF OwnersOf, StackletsOwned, Owned, Runs
  <2>4. pc[i] = "run" /\ ~unwind_pending[i] => WithinLimit(i)
    BY <2>1 DEF StaticStack, Usage, LimitOf, WithinLimit
  <2> QED
    BY <2>3, <2>4
<1>2. Init => StaticStack
  BY DEF Init, StaticStack
<1> QED
  BY <1>1, <1>2, InitUsage, NextStatic, NextUsage, Invariance, PTL DEF Spec
==============================================================================
