---------------------------- MODULE ChannelProofs ----------------------------
(***************************************************************************)
(* Proofs about Channel, for any capacity of at least two and any modulus  *)
(* of the positions that is a multiple of twice the capacity, any tasks,   *)
(* any nesting of interrupt handlers and any elements.                     *)
(***************************************************************************)
EXTENDS Channel, FiniteSetTheorems, SequenceTheorems, TLAPS

(***************************************************************************)
(* The inductive invariant.                                                *)
(***************************************************************************)
\* The positions from the next one to be taken on, and how many are in use.
Position(k) == (dequeue_pos + k) % Modulus
Size == (enqueue_pos - dequeue_pos) % Modulus

Moving(c) == pc[c] = "move"
Filling(c) == Moving(c) /\ call[c] \in Push
Emptying(c) == Moving(c) /\ call[c] \in Pop

CallInv == \A c \in Ctx : pc[c] = "home" <=> call[c] = "none"

\* Who has reserved a slot or an element, and who has claimed its cell.
Reserving(calls) == {c \in Ctx : call[c] \in calls /\ pc[c] \in {"claim", "die"}}
Claiming(calls) == {c \in Ctx : call[c] \in calls /\ pc[c] \in {"move", "signal"}}

\* The elements are offered, reserved or not yet signalled, and so are the
\* slots.
AccountInv ==
    /\ Size = sem_occupied + Cardinality(Reserving(Pop)) + Cardinality(Claiming(Push))
    /\ N - Size = sem_empty + Cardinality(Reserving(Push)) + Cardinality(Claiming(Pop))

\* The sequence number of each cell is that of its turn, or somebody is moving
\* an element there; and who moves one has the cell for itself.
UsedCell(k) ==
    \/ sequence[Position(k) % N] = (Position(k) + 1) % Modulus
    \/ \E c \in Ctx : Filling(c) /\ pos[c] = Position(k)
FreeCell(k) ==
    \/ sequence[Position(k) % N] = Position(k)
    \/ \E c \in Ctx : Emptying(c) /\ (pos[c] + N) % Modulus = Position(k)
FillingOf(c) ==
    /\ \E k \in 0 .. Size - 1 : pos[c] = Position(k)
    /\ sequence[pos[c] % N] = pos[c]
EmptyingOf(c) ==
    /\ \E k \in Size .. N - 1 : (pos[c] + N) % Modulus = Position(k)
    /\ sequence[pos[c] % N] = (pos[c] + 1) % Modulus

CellInv ==
    /\ \A k \in 0 .. Size - 1 : UsedCell(k)
    /\ \A k \in Size .. N - 1 : FreeCell(k)
    /\ \A c \in Ctx : Filling(c) => FillingOf(c)
    /\ \A c \in Ctx : Emptying(c) => EmptyingOf(c)
    /\ \A c, d \in Ctx : Moving(c) /\ Moving(d) /\ pos[c] % N = pos[d] % N => c = d

IInv == TypeOK /\ CallInv /\ AccountInv /\ CellInv

-----------------------------------------------------------------------------
(***************************************************************************)
(* Arithmetic: the cells that positions belong to.                         *)
(***************************************************************************)
\* What % and \div compute.
LEMMA DivMod ==
  ASSUME NEW b \in Nat \ {0}, NEW x \in Int
  PROVE  /\ x % b \in 0 .. b - 1
         /\ x \div b \in Int
         /\ x = (b * (x \div b)) + (x % b)
  OBVIOUS

\* The remainder is the only number of its range that a multiple of the
\* divisor takes to the dividend.
LEMMA ModUnique ==
  ASSUME NEW b \in Nat \ {0}, NEW m \in Int, NEW r \in 0 .. b - 1
  PROVE  ((b * m) + r) % b = r
  OBVIOUS

\* The positions wrap at a multiple of the capacity, twice it or more.
LEMMA ModulusMultiple ==
  /\ N \in Nat /\ N >= 2
  /\ Modulus \in Nat \ {0} /\ Modulus >= 2 * N
  /\ \E h \in Nat : Modulus = N * h
<1> DEFINE b == 2 * N
<1> DEFINE h == Modulus \div b
<1>1. N \in Nat /\ N >= 2 /\ Modulus \in Nat \ {0} /\ Modulus % b = 0
  BY ChannelAssumption
<1>2. b \in Nat \ {0}
  BY <1>1
<1> HIDE DEF b
<1>3. h \in Int /\ Modulus = b * h
  BY <1>1, <1>2, DivMod
<1> HIDE DEF h
<1>4. h >= 1
  <2>1. CASE h <= 0
    <3>1. b * h <= 0
      BY <1>2, <1>3, <2>1
    <3> QED
      BY <3>1, <1>1, <1>3
  <2> QED
    BY <2>1, <1>3
<1>5. b * h >= b
  BY <1>2, <1>3, <1>4
<1>6. Modulus = N * (2 * h) /\ 2 * h \in Nat
  BY <1>1, <1>3, <1>4 DEF b
<1> QED
  BY <1>1, <1>3, <1>5, <1>6 DEF b

\* Numbers not far out of the range of positions.
LEMMA WrapNear ==
  \A x \in Int : -Modulus <= x /\ x < 2 * Modulus =>
      x % Modulus = IF x < 0 THEN x + Modulus ELSE IF x < Modulus THEN x ELSE x - Modulus
<1> SUFFICES ASSUME NEW x \in Int, -Modulus <= x, x < 2 * Modulus
             PROVE  x % Modulus = IF x < 0 THEN x + Modulus
                                  ELSE IF x < Modulus THEN x ELSE x - Modulus
  OBVIOUS
<1>0. Modulus \in Nat \ {0}
  BY ModulusMultiple
<1>1. CASE x < 0
  BY <1>0, <1>1
<1>2. CASE x \in 0 .. Modulus - 1
  BY <1>0, <1>2
<1>3. CASE x >= Modulus
  BY <1>0, <1>3
<1> QED
  BY <1>0, <1>1, <1>2, <1>3

\* A position that wraps stays in its cell.
LEMMA WrapKeepsCell ==
  \A x \in Int : (x % Modulus) % N = x % N
<1> SUFFICES ASSUME NEW x \in Int PROVE (x % Modulus) % N = x % N
  OBVIOUS
<1>1. /\ N \in Nat \ {0} /\ Modulus \in Nat \ {0}
      /\ \E h \in Nat : Modulus = N * h
  BY ModulusMultiple
<1>2. PICK h \in Nat : Modulus = N * h
  BY <1>1
<1> DEFINE a == x \div Modulus
           y == x % Modulus
           d == y \div N
           r == y % N
<1>3. a \in Int /\ y \in 0 .. Modulus - 1 /\ x = (Modulus * a) + y
  BY <1>1, DivMod
<1> HIDE DEF a, y
<1>4. d \in Int /\ r \in 0 .. N - 1 /\ y = (N * d) + r
  BY <1>1, <1>3, DivMod
<1> HIDE DEF d, r
<1>5. (Modulus * a) + (N * d) = N * ((h * a) + d)
  BY <1>1, <1>2, <1>3, <1>4
<1>6. x = (N * ((h * a) + d)) + r
  BY <1>1, <1>3, <1>4, <1>5
<1>7. (h * a) + d \in Int
  BY <1>2, <1>3, <1>4
<1>8. x % N = r
  BY <1>1, <1>4, <1>6, <1>7, ModUnique
<1> QED
  BY <1>8 DEF r, y

\* Numbers less than a capacity apart are in different cells.
LEMMA NearCellsDiffer ==
  \A x, y \in Int : x < y /\ y < x + N => x % N # y % N
<1> SUFFICES ASSUME NEW x \in Int, NEW y \in Int, x < y, y < x + N,
                    x % N = y % N
             PROVE  FALSE
  OBVIOUS
<1>1. N \in Nat \ {0}
  BY ModulusMultiple
<1> DEFINE a == x \div N
           d == y \div N
<1>2. /\ a \in Int /\ x = (N * a) + (x % N) /\ x % N \in 0 .. N - 1
      /\ d \in Int /\ y = (N * d) + (y % N) /\ y % N \in 0 .. N - 1
  BY <1>1, DivMod
<1> HIDE DEF a, d
<1> DEFINE m == d - a
           z == N * m
<1>3. m \in Int /\ y - x = z
  BY <1>1, <1>2
<1>4. m <= 0 => z <= 0
  BY <1>1, <1>3
<1>5. m >= 1 => z >= N
  BY <1>1, <1>3
<1> HIDE DEF m, z
<1> QED
  BY <1>1, <1>3, <1>4, <1>5

\* What a cell's sequence number is while it is free, once it is filled and once
\* it is free again for the next round: three different numbers, of one cell
\* the first and the last.
LEMMA Successors ==
  ASSUME NEW p \in 0 .. Modulus - 1
  PROVE  /\ (p + 1) % Modulus \in 0 .. Modulus - 1
         /\ (p + N) % Modulus \in 0 .. Modulus - 1
         /\ (p + 1) % Modulus # p
         /\ (p + 1) % Modulus # (p + N) % Modulus
         /\ ((p + N) % Modulus) % N = p % N
         /\ p % N \in 0 .. N - 1
<1>1. N \in Nat /\ N >= 2 /\ Modulus \in Nat \ {0} /\ Modulus >= 2 * N
  BY ModulusMultiple
<1>2. /\ (p + 1) % Modulus = IF p + 1 < Modulus THEN p + 1 ELSE p + 1 - Modulus
      /\ (p + N) % Modulus = IF p + N < Modulus THEN p + N ELSE p + N - Modulus
  <2>1. (p + 1) % Modulus = IF p + 1 < Modulus THEN p + 1 ELSE p + 1 - Modulus
    BY <1>1, WrapNear
  <2>2. (p + N) % Modulus = IF p + N < Modulus THEN p + N ELSE p + N - Modulus
    BY <1>1, WrapNear
  <2> QED
    BY <2>1, <2>2
<1>3. (p + N) % N = p % N
  <2> DEFINE a == p \div N
             r == p % N
  <2>1. a \in Int /\ r \in 0 .. N - 1 /\ p = (N * a) + r
    BY <1>1, DivMod
  <2> HIDE DEF a, r
  <2>2. p + N = (N * (a + 1)) + r /\ a + 1 \in Int
    BY <1>1, <2>1
  <2>3. (p + N) % N = r
    BY <1>1, <2>1, <2>2, ModUnique
  <2> QED
    BY <2>3 DEF r
<1>4. ((p + N) % Modulus) % N = p % N
  <2> DEFINE x == p + N
  <2>1. x \in Int
    BY <1>1
  <2> HIDE DEF x
  <2>2. (x % Modulus) % N = x % N
    BY <2>1, WrapKeepsCell
  <2> QED
    BY <2>2, <1>3 DEF x
<1>5. p % N \in 0 .. N - 1
  BY <1>1, DivMod
<1> QED
  BY <1>1, <1>2, <1>4, <1>5

-----------------------------------------------------------------------------
(***************************************************************************)
(* The ring.                                                               *)
(***************************************************************************)
\* The positions are numbered from the next one to be taken on; the next one to
\* be given out ends those in use; and a round of positions are of different
\* cells.
LEMMA Ring ==
  ASSUME enqueue_pos \in 0 .. Modulus - 1, dequeue_pos \in 0 .. Modulus - 1
  PROVE  /\ Size \in 0 .. Modulus - 1
         /\ \A k \in 0 .. N : Position(k) \in 0 .. Modulus - 1
         /\ Position(0) = dequeue_pos
         /\ Position(Size) = enqueue_pos
         /\ Position(N) = (dequeue_pos + N) % Modulus
         /\ \A k, l \in 0 .. N - 1 : Position(k) % N = Position(l) % N => k = l
<1>1. N \in Nat /\ N >= 2 /\ Modulus \in Nat \ {0} /\ Modulus >= 2 * N
  BY ModulusMultiple
<1>2. Size = IF enqueue_pos < dequeue_pos THEN enqueue_pos - dequeue_pos + Modulus
                                          ELSE enqueue_pos - dequeue_pos
  BY <1>1, WrapNear DEF Size
<1>3. \A k \in 0 .. N : Position(k) \in 0 .. Modulus - 1
  BY <1>1, DivMod DEF Position
<1>4. Position(0) = dequeue_pos
  BY <1>1, WrapNear DEF Position
<1>5. Position(Size) = enqueue_pos
  <2>1. dequeue_pos + Size = IF enqueue_pos < dequeue_pos THEN enqueue_pos + Modulus
                                                          ELSE enqueue_pos
    BY <1>1, <1>2
  <2> QED
    BY <2>1, <1>1, WrapNear DEF Position
<1>6. ASSUME NEW k \in 0 .. N - 1, NEW l \in 0 .. N - 1, k < l
      PROVE  Position(k) % N # Position(l) % N
  <2> DEFINE x == dequeue_pos + k
             y == dequeue_pos + l
  <2>1. x \in Int /\ y \in Int /\ x < y /\ y < x + N
    BY <1>1, <1>6
  <2> HIDE DEF x, y
  <2>2. (x % Modulus) % N = x % N /\ (y % Modulus) % N = y % N
    BY <2>1, WrapKeepsCell
  <2>3. x % N # y % N
    BY <2>1, NearCellsDiffer
  <2> QED
    BY <2>2, <2>3 DEF Position, x, y
<1>7. ASSUME NEW k \in 0 .. N - 1, NEW l \in 0 .. N - 1, Position(k) % N = Position(l) % N
      PROVE  k = l
  BY <1>1, <1>6, <1>7
<1> QED
  BY <1>1, <1>2, <1>3, <1>4, <1>5, <1>7 DEF Position

\* A push takes the position after those in use.
LEMMA PushClaims ==
  ASSUME enqueue_pos \in 0 .. Modulus - 1, dequeue_pos \in 0 .. Modulus - 1,
         Size < N, enqueue_pos' = (enqueue_pos + 1) % Modulus,
         dequeue_pos' = dequeue_pos
  PROVE  /\ Size' = Size + 1
         /\ \A k \in 0 .. N : Position(k)' = Position(k)
<1>1. N \in Nat /\ N >= 2 /\ Modulus \in Nat \ {0} /\ Modulus >= 2 * N
  BY ModulusMultiple
<1>2. Size = IF enqueue_pos < dequeue_pos THEN enqueue_pos - dequeue_pos + Modulus
                                          ELSE enqueue_pos - dequeue_pos
  BY <1>1, WrapNear DEF Size
<1>3. enqueue_pos' = IF enqueue_pos + 1 < Modulus THEN enqueue_pos + 1 ELSE 0
  BY <1>1, WrapNear
<1>4. Size' = IF enqueue_pos' < dequeue_pos THEN enqueue_pos' - dequeue_pos + Modulus
                                            ELSE enqueue_pos' - dequeue_pos
  BY <1>1, <1>3, WrapNear DEF Size
<1>5. Size' = Size + 1
  BY <1>1, <1>2, <1>3, <1>4
<1> QED
  BY <1>5 DEF Position

\* A pop takes the first position in use: the others move up, and the cell ends
\* the free ones.
LEMMA PopClaims ==
  ASSUME enqueue_pos \in 0 .. Modulus - 1, dequeue_pos \in 0 .. Modulus - 1,
         Size > 0, dequeue_pos' = (dequeue_pos + 1) % Modulus,
         enqueue_pos' = enqueue_pos
  PROVE  /\ Size' = Size - 1
         /\ \A k \in 0 .. N - 1 : Position(k)' = Position(k + 1)
<1>1. N \in Nat /\ N >= 2 /\ Modulus \in Nat \ {0} /\ Modulus >= 2 * N
  BY ModulusMultiple
<1>2. Size = IF enqueue_pos < dequeue_pos THEN enqueue_pos - dequeue_pos + Modulus
                                          ELSE enqueue_pos - dequeue_pos
  BY <1>1, WrapNear DEF Size
<1>3. dequeue_pos' = IF dequeue_pos + 1 < Modulus THEN dequeue_pos + 1 ELSE 0
  BY <1>1, WrapNear
<1>4. Size' = IF enqueue_pos < dequeue_pos' THEN enqueue_pos - dequeue_pos' + Modulus
                                            ELSE enqueue_pos - dequeue_pos'
  BY <1>1, <1>3, WrapNear DEF Size
<1>5. Size' = Size - 1
  BY <1>1, <1>2, <1>3, <1>4
<1>6. ASSUME NEW k \in 0 .. N - 1
      PROVE  Position(k)' = Position(k + 1)
  <2> DEFINE x == dequeue_pos' + k
             y == dequeue_pos + (k + 1)
  <2>1. x \in Int /\ y \in Int /\ 0 <= x /\ 0 <= y /\ x < 2 * Modulus /\ y < 2 * Modulus
    BY <1>1, <1>3
  <2>2. x = y \/ x = y - Modulus
    BY <1>1, <1>3
  <2> HIDE DEF x, y
  <2>3. x % Modulus = y % Modulus
    BY <1>1, <2>1, <2>2, WrapNear
  <2> QED
    BY <2>3 DEF Position, x, y
<1> QED
  BY <1>5, <1>6

-----------------------------------------------------------------------------
(***************************************************************************)
(* The account.                                                            *)
(***************************************************************************)
\* Who has reserved or claimed can be counted.
LEMMA Finite ==
  /\ IsFiniteSet(Ctx)
  /\ \A calls : /\ IsFiniteSet(Reserving(calls)) /\ Cardinality(Reserving(calls)) \in Nat
                /\ IsFiniteSet(Claiming(calls)) /\ Cardinality(Claiming(calls)) \in Nat
<1>1. IsFiniteSet(Task) /\ IsFiniteSet(Irq)
  BY ChannelAssumption, FS_Interval DEF Irq
<1>2. IsFiniteSet(Ctx)
  BY <1>1, FS_Union DEF Ctx
<1>3. ASSUME NEW calls
      PROVE  Reserving(calls) \in SUBSET Ctx /\ Claiming(calls) \in SUBSET Ctx
  BY DEF Reserving, Claiming
<1> QED
  BY <1>2, <1>3, FS_Subset, FS_CardinalityType

\* Whoever has reserved or claimed is counted.
LEMMA Counted ==
  ASSUME NEW c \in Ctx, NEW calls
  PROVE  /\ c \in Reserving(calls) => Cardinality(Reserving(calls)) > 0
         /\ c \in Claiming(calls) => Cardinality(Claiming(calls)) > 0
  BY Finite, FS_EmptySet

\* A call in progress is a push or a pop.
LEMMA CallKinds ==
  ASSUME IInv, NEW c \in Ctx, pc[c] # "home"
  PROVE  /\ call[c] \in Push \union Pop
         /\ call[c] \in Push <=> call[c] \notin Pop
  BY DEF IInv, TypeOK, CallInv, Push, Pop

\* The account bounds the buffer: there is room for who has reserved a slot, an
\* element for who has reserved one, and the counter has room for who signals.
LEMMA Bounds ==
  ASSUME IInv
  PROVE  /\ Size \in 0 .. N
         /\ \A c \in Ctx :
                /\ c \in Reserving(Push) => Size < N
                /\ c \in Reserving(Pop) => Size > 0
                /\ c \in Claiming(Push) => sem_occupied < N
                /\ c \in Claiming(Pop) => sem_empty < N
<1> DEFINE rp == Cardinality(Reserving(Push))
           ro == Cardinality(Reserving(Pop))
           cp == Cardinality(Claiming(Push))
           co == Cardinality(Claiming(Pop))
<1>1. rp \in Nat /\ ro \in Nat /\ cp \in Nat /\ co \in Nat
  BY Finite
<1>2. /\ Size = sem_occupied + ro + cp
      /\ N - Size = sem_empty + rp + co
  BY DEF IInv, AccountInv
<1>3. \A c \in Ctx : /\ c \in Reserving(Push) => rp > 0
                     /\ c \in Reserving(Pop) => ro > 0
                     /\ c \in Claiming(Push) => cp > 0
                     /\ c \in Claiming(Pop) => co > 0
  BY Counted
<1> HIDE DEF rp, ro, cp, co
<1>4. sem_empty \in Nat /\ sem_occupied \in Nat /\ N \in Nat /\ Size \in Int
  BY ModulusMultiple, Ring DEF IInv, TypeOK
<1> QED
  BY <1>1, <1>2, <1>3, <1>4

\* The cells stay as they are while nobody claims or moves.
LEMMA CellFrame ==
  ASSUME CellInv, UNCHANGED <<sequence, enqueue_pos, dequeue_pos>>,
         \A c \in Ctx : Moving(c)' <=> Moving(c),
         \A c \in Ctx : Moving(c) => pos'[c] = pos[c] /\ call'[c] = call[c]
  PROVE  CellInv'
<1>1. Size' = Size /\ \A k \in 0 .. N : Position(k)' = Position(k)
  BY DEF Size, Position
<1>2. \A c \in Ctx : (Filling(c)' <=> Filling(c)) /\ (Emptying(c)' <=> Emptying(c))
  BY DEF Filling, Emptying
<1> QED
  BY <1>1, <1>2 DEF CellInv, UsedCell, FreeCell, FillingOf, EmptyingOf, Filling, Emptying,
                    Size, Position

-----------------------------------------------------------------------------
(***************************************************************************)
(* The steps that leave the buffer alone.                                  *)
(***************************************************************************)
\* begin: the call is only asked for.
LEMMA BeginStep ==
  ASSUME IInv, NEW c \in Ctx, begin(c)
  PROVE  IInv'
<1>1. PICK k \in Calls[c] : call' = [call EXCEPT ![c] = k]
  BY DEF begin
<1>2. k \in Push \union Pop
  BY ChannelAssumption DEF Push, Pop
<1>3. pc' = [pc EXCEPT ![c] = "reserve"] /\ pc[c] = "home"
  BY DEF begin, Goto, At
<1>4. item' \in [Ctx -> Data \union {NoItem}]
  BY DEF begin, IInv, TypeOK
<1>5. UNCHANGED <<sems, buffer>>
  BY DEF begin
<1>6. TypeOK'
  BY <1>1, <1>2, <1>3, <1>4, <1>5 DEF IInv, TypeOK, sems, buffer
<1>7. CallInv'
  BY <1>1, <1>2, <1>3 DEF IInv, TypeOK, CallInv, Push, Pop
<1>8. AccountInv'
  <2>1. \A calls : Reserving(calls)' = Reserving(calls) /\ Claiming(calls)' = Claiming(calls)
    BY <1>1, <1>3 DEF IInv, TypeOK, Reserving, Claiming
  <2> QED
    BY <2>1, <1>5 DEF IInv, AccountInv, Size, sems, buffer
<1>9. CellInv'
  BY <1>1, <1>3, <1>5, CellFrame DEF IInv, TypeOK, Moving, buffer
<1> QED
  BY <1>6, <1>7, <1>8, <1>9 DEF IInv

\* sem.down: one less is offered and one more reserved.
LEMMA DownStep ==
  ASSUME IInv, NEW c \in Ctx, down(c)
  PROVE  IInv'
<1>1. pc' = [pc EXCEPT ![c] = "claim"] /\ pc[c] = "reserve"
  BY DEF down, Goto, At
<1>2. UNCHANGED <<call, item, buffer>>
  BY DEF down
<1>3. call[c] \in Push \union Pop /\ (call[c] \in Push <=> call[c] \notin Pop)
  BY <1>1, CallKinds
<1>4. \/ /\ call[c] \in Push /\ sem_empty > 0
         /\ sem_empty' = sem_empty - 1 /\ sem_occupied' = sem_occupied
      \/ /\ call[c] \in Pop /\ sem_occupied > 0
         /\ sem_empty' = sem_empty /\ sem_occupied' = sem_occupied - 1
  BY <1>3 DEF down, Count, Takes, Change, IInv, TypeOK
<1>5. TypeOK'
  <2>1. sem_empty' \in 0 .. N /\ sem_occupied' \in 0 .. N
    BY <1>4, ModulusMultiple DEF IInv, TypeOK
  <2> QED
    BY <2>1, <1>1, <1>2 DEF IInv, TypeOK, buffer
<1>6. CallInv'
  BY <1>1, <1>2 DEF IInv, TypeOK, CallInv
<1>7. AccountInv'
  <2>1. Claiming(Push)' = Claiming(Push) /\ Claiming(Pop)' = Claiming(Pop) /\ Size' = Size
    BY <1>1, <1>2 DEF IInv, TypeOK, Claiming, Size, buffer
  <2>2. c \notin Reserving(Push) /\ c \notin Reserving(Pop)
    BY <1>1 DEF Reserving
  <2>3. CASE call[c] \in Push
    <3>1. Reserving(Push)' = Reserving(Push) \union {c} /\ Reserving(Pop)' = Reserving(Pop)
      BY <1>1, <1>2, <1>3, <2>3 DEF IInv, TypeOK, Reserving
    <3>2. Cardinality(Reserving(Push)') = Cardinality(Reserving(Push)) + 1
      BY <2>2, <3>1, Finite, FS_AddElement
    <3> QED
      BY <2>1, <2>3, <3>1, <3>2, <1>3, <1>4, Finite DEF IInv, AccountInv, TypeOK
  <2>4. CASE call[c] \in Pop
    <3>1. Reserving(Pop)' = Reserving(Pop) \union {c} /\ Reserving(Push)' = Reserving(Push)
      BY <1>1, <1>2, <1>3, <2>4 DEF IInv, TypeOK, Reserving
    <3>2. Cardinality(Reserving(Pop)') = Cardinality(Reserving(Pop)) + 1
      BY <2>2, <3>1, Finite, FS_AddElement
    <3> QED
      BY <2>1, <2>4, <3>1, <3>2, <1>3, <1>4, Finite DEF IInv, AccountInv, TypeOK
  <2> QED
    BY <2>3, <2>4, <1>3
<1>8. CellInv'
  BY <1>1, <1>2, CellFrame DEF IInv, TypeOK, Moving, buffer
<1> QED
  BY <1>5, <1>6, <1>7, <1>8 DEF IInv

\* A refused call just returns.
LEMMA RefusedStep ==
  ASSUME IInv, NEW c \in Ctx, refused(c)
  PROVE  IInv'
<1>1. /\ pc[c] = "reserve" /\ pc' = [pc EXCEPT ![c] = "home"]
      /\ call' = [call EXCEPT ![c] = "none"]
      /\ item' = [item EXCEPT ![c] = NoItem]
      /\ UNCHANGED <<sems, buffer>>
  BY DEF refused, Goto, At, return
<1>2. TypeOK'
  BY <1>1 DEF IInv, TypeOK, sems, buffer
<1>3. CallInv'
  BY <1>1 DEF IInv, TypeOK, CallInv
<1>4. AccountInv'
  <2>1. /\ Reserving(Push)' = Reserving(Push) /\ Claiming(Push)' = Claiming(Push)
        /\ Reserving(Pop)' = Reserving(Pop) /\ Claiming(Pop)' = Claiming(Pop)
    BY <1>1 DEF IInv, TypeOK, Reserving, Claiming
  <2> QED
    BY <2>1, <1>1 DEF IInv, AccountInv, Size, sems, buffer
<1>5. CellInv'
  BY <1>1, CellFrame DEF IInv, TypeOK, Moving, buffer
<1> QED
  BY <1>2, <1>3, <1>4, <1>5 DEF IInv

\* sem.up: the counter has room, so the call returns, and one more is offered.
LEMMA UpReturns ==
  ASSUME IInv, NEW c \in Ctx, up(c)
  PROVE  /\ pc[c] = "signal" /\ return(c) /\ UNCHANGED buffer
         /\ \/ /\ call[c] \in Push /\ sem_occupied < N
               /\ sem_occupied' = sem_occupied + 1 /\ sem_empty' = sem_empty
            \/ /\ call[c] \in Pop /\ sem_empty < N
               /\ sem_empty' = sem_empty + 1 /\ sem_occupied' = sem_occupied
<1>1. pc[c] = "signal" /\ UNCHANGED buffer
  BY DEF up, At
<1>2. call[c] \in Push \union Pop /\ (call[c] \in Push <=> call[c] \notin Pop)
  BY <1>1, CallKinds
<1>3. \/ call[c] \in Push /\ sem_occupied < N
      \/ call[c] \in Pop /\ sem_empty < N
  BY <1>1, <1>2, Bounds DEF Claiming
<1>4. Change(Gives(c), 1) /\ return(c)
  BY <1>2, <1>3, ModulusMultiple DEF up, Count, Gives, IInv, TypeOK
<1> QED
  BY <1>1, <1>2, <1>3, <1>4 DEF Change, Gives, IInv, TypeOK

\* sem.up keeps the account.
LEMMA UpStep ==
  ASSUME IInv, NEW c \in Ctx, up(c)
  PROVE  IInv'
<1>1. /\ pc[c] = "signal" /\ pc' = [pc EXCEPT ![c] = "home"]
      /\ call' = [call EXCEPT ![c] = "none"]
      /\ item' = [item EXCEPT ![c] = NoItem]
      /\ UNCHANGED buffer
  BY UpReturns DEF Goto, return
<1>2. call[c] \in Push \union Pop /\ (call[c] \in Push <=> call[c] \notin Pop)
  BY <1>1, CallKinds
<1>3. \/ /\ call[c] \in Push /\ sem_occupied < N
         /\ sem_occupied' = sem_occupied + 1 /\ sem_empty' = sem_empty
      \/ /\ call[c] \in Pop /\ sem_empty < N
         /\ sem_empty' = sem_empty + 1 /\ sem_occupied' = sem_occupied
  BY UpReturns
<1>4. TypeOK'
  <2>1. sem_empty' \in 0 .. N /\ sem_occupied' \in 0 .. N
    BY <1>3, ModulusMultiple DEF IInv, TypeOK
  <2> QED
    BY <2>1, <1>1 DEF IInv, TypeOK, buffer
<1>5. CallInv'
  BY <1>1 DEF IInv, TypeOK, CallInv
<1>6. AccountInv'
  <2>1. Reserving(Push)' = Reserving(Push) /\ Reserving(Pop)' = Reserving(Pop) /\ Size' = Size
    BY <1>1 DEF IInv, TypeOK, Reserving, Size, buffer
  <2>2. CASE call[c] \in Push
    <3>1. /\ Claiming(Push)' = Claiming(Push) \ {c} /\ Claiming(Pop)' = Claiming(Pop)
          /\ c \in Claiming(Push)
      BY <1>1, <1>2, <2>2 DEF IInv, TypeOK, Claiming, Push, Pop
    <3>2. Cardinality(Claiming(Push)') = Cardinality(Claiming(Push)) - 1
      BY <3>1, Finite, FS_RemoveElement
    <3> QED
      BY <2>1, <2>2, <3>1, <3>2, <1>2, <1>3, Finite DEF IInv, AccountInv, TypeOK
  <2>3. CASE call[c] \in Pop
    <3>1. /\ Claiming(Pop)' = Claiming(Pop) \ {c} /\ Claiming(Push)' = Claiming(Push)
          /\ c \in Claiming(Pop)
      BY <1>1, <1>2, <2>3 DEF IInv, TypeOK, Claiming, Push, Pop
    <3>2. Cardinality(Claiming(Pop)') = Cardinality(Claiming(Pop)) - 1
      BY <3>1, Finite, FS_RemoveElement
    <3> QED
      BY <2>1, <2>3, <3>1, <3>2, <1>2, <1>3, Finite DEF IInv, AccountInv, TypeOK
  <2> QED
    BY <2>2, <2>3, <1>2
<1>7. CellInv'
  BY <1>1, CellFrame DEF IInv, TypeOK, Moving, buffer
<1> QED
  BY <1>4, <1>5, <1>6, <1>7 DEF IInv

-----------------------------------------------------------------------------
(***************************************************************************)
(* The steps of the buffer.                                                *)
(***************************************************************************)
\* Whoever moves an element has a cell of its own, and that of a pop counts
\* among the free ones.
LEMMA MovingCell ==
  ASSUME IInv, NEW c \in Ctx, Moving(c)
  PROVE  /\ pos[c] \in 0 .. Modulus - 1 /\ pos[c] % N \in 0 .. N - 1
         /\ Filling(c) => \E k \in 0 .. Size - 1 : pos[c] = Position(k)
         /\ Emptying(c) => \E k \in Size .. N - 1 :
                               /\ (pos[c] + N) % Modulus = Position(k)
                               /\ pos[c] % N = Position(k) % N
         /\ Filling(c) \/ Emptying(c)
<1>1. pos[c] \in 0 .. Modulus - 1
  BY DEF IInv, TypeOK
<1>2. pos[c] % N \in 0 .. N - 1 /\ ((pos[c] + N) % Modulus) % N = pos[c] % N
  BY <1>1, Successors
<1>3. Filling(c) \/ Emptying(c)
  BY CallKinds DEF Filling, Emptying, Moving
<1>4. Filling(c) => FillingOf(c)
  BY DEF IInv, CellInv
<1>5. Emptying(c) => EmptyingOf(c)
  BY DEF IInv, CellInv
<1> QED
  BY <1>1, <1>2, <1>3, <1>4, <1>5 DEF FillingOf, EmptyingOf

\* A push finds its cell ready, unless a pop has yet to empty it.
LEMMA PushTurn ==
  ASSUME IInv, NEW c \in Ctx, pc[c] = "claim", call[c] \in Push
  PROVE  /\ Size < N
         /\ Turn(c) \/ \E d \in Ctx : Moving(d)
<1>1. Size < N /\ Size \in 0 .. N
  BY Bounds DEF Reserving
<1>2. FreeCell(Size) /\ Position(Size) = enqueue_pos
  BY <1>1, Ring, ModulusMultiple DEF IInv, CellInv, TypeOK
<1> QED
  BY <1>1, <1>2 DEF FreeCell, Turn, Emptying

\* A pop finds its element, unless a push has yet to bring it.
LEMMA PopTurn ==
  ASSUME IInv, NEW c \in Ctx, pc[c] = "claim", call[c] \in Pop
  PROVE  /\ Size > 0
         /\ Turn(c) \/ \E d \in Ctx : Moving(d)
<1>1. Size > 0 /\ Size \in 0 .. N
  BY Bounds DEF Reserving
<1>2. UsedCell(0) /\ Position(0) = dequeue_pos
  BY <1>1, Ring, ModulusMultiple DEF IInv, CellInv, TypeOK
<1>3. call[c] \notin Push
  BY CallKinds
<1> QED
  BY <1>1, <1>2, <1>3 DEF UsedCell, Turn, Filling

\* A claim that fails changes nothing but its caller.
LEMMA ClaimFails ==
  ASSUME IInv, NEW c \in Ctx, claim(c), ~Turn(c)
  PROVE  IInv'
<1>1. /\ pc[c] = "claim" /\ pc' = [pc EXCEPT ![c] = "die"]
      /\ UNCHANGED <<call, item, sems, buffer>>
  BY DEF claim, At, Goto, buffer
<1>2. TypeOK' /\ CallInv'
  BY <1>1 DEF IInv, TypeOK, CallInv, sems, buffer
<1>3. AccountInv'
  <2>1. /\ Reserving(Push)' = Reserving(Push) /\ Claiming(Push)' = Claiming(Push)
        /\ Reserving(Pop)' = Reserving(Pop) /\ Claiming(Pop)' = Claiming(Pop)
    BY <1>1 DEF IInv, TypeOK, Reserving, Claiming
  <2> QED
    BY <2>1, <1>1 DEF IInv, AccountInv, Size, sems, buffer
<1>4. CellInv'
  BY <1>1, CellFrame DEF IInv, TypeOK, Moving, buffer
<1> QED
  BY <1>2, <1>3, <1>4 DEF IInv

\* What a push that claims its position changes, and what it finds: nobody is at
\* work in the cell.
LEMMA PushClaimed ==
  ASSUME IInv, NEW c \in Ctx, claim(c), Turn(c), call[c] \in Push
  PROVE  /\ pc[c] = "claim" /\ pc' = [pc EXCEPT ![c] = "move"]
         /\ pos' = [pos EXCEPT ![c] = Position(Size)]
         /\ UNCHANGED <<call, item, sems, sequence, cell, dequeue_pos>>
         /\ enqueue_pos' = (enqueue_pos + 1) % Modulus
         /\ Size \in 0 .. N - 1 /\ Size' = Size + 1
         /\ \A k \in 0 .. N : Position(k)' = Position(k)
         /\ sequence[Position(Size) % N] = Position(Size)
         /\ \A d \in Ctx : Moving(d) => pos[d] % N # Position(Size) % N
<1>1. /\ pc[c] = "claim" /\ pc' = [pc EXCEPT ![c] = "move"]
      /\ pos' = [pos EXCEPT ![c] = enqueue_pos]
      /\ UNCHANGED <<call, item, sems, sequence, cell, dequeue_pos>>
      /\ enqueue_pos' = (enqueue_pos + 1) % Modulus
      /\ sequence[enqueue_pos % N] = enqueue_pos
  BY DEF claim, At, Goto, Turn
<1>2. /\ enqueue_pos \in 0 .. Modulus - 1 /\ dequeue_pos \in 0 .. Modulus - 1
      /\ N \in Nat
  BY ModulusMultiple DEF IInv, TypeOK
<1>3. Size \in 0 .. N - 1
  BY <1>1, <1>2, PushTurn, Bounds
<1>4. Position(Size) = enqueue_pos
  BY <1>2, Ring
<1>5. Size' = Size + 1 /\ \A k \in 0 .. N : Position(k)' = Position(k)
  BY <1>1, <1>2, <1>3, PushClaims
<1>6. \A k, l \in 0 .. N - 1 : Position(k) % N = Position(l) % N => k = l
  BY <1>2, Ring
<1>7. ASSUME NEW d \in Ctx, Moving(d), pos[d] % N = Position(Size) % N
      PROVE  FALSE
  <2>1. CASE Filling(d)
    <3>1. PICK k \in 0 .. Size - 1 : pos[d] = Position(k)
      BY <2>1, <1>7, MovingCell
    <3> QED
      BY <3>1, <1>2, <1>3, <1>6, <1>7
  <2>2. CASE Emptying(d)
    <3>1. PICK k \in Size .. N - 1 : /\ (pos[d] + N) % Modulus = Position(k)
                                     /\ pos[d] % N = Position(k) % N
      BY <2>2, <1>7, MovingCell
    <3>2. k = Size
      BY <3>1, <1>2, <1>3, <1>6, <1>7
    <3>3. sequence[pos[d] % N] = (pos[d] + 1) % Modulus
      BY <2>2 DEF IInv, CellInv, EmptyingOf
    <3>4. (pos[d] + 1) % Modulus = (pos[d] + N) % Modulus
      BY <3>1, <3>2, <3>3, <1>1, <1>4, <1>7
    <3> QED
      BY <3>4, <1>7, MovingCell, Successors
  <2> QED
    BY <2>1, <2>2, <1>7, MovingCell
<1> QED
  BY <1>1, <1>3, <1>4, <1>5, <1>7

\* A claim of a push keeps the invariant.
LEMMA ClaimPush ==
  ASSUME IInv, NEW c \in Ctx, claim(c), Turn(c), call[c] \in Push
  PROVE  IInv'
<1>1. /\ pc[c] = "claim" /\ pc' = [pc EXCEPT ![c] = "move"]
      /\ pos' = [pos EXCEPT ![c] = Position(Size)]
      /\ UNCHANGED <<call, item, sems, sequence, cell, dequeue_pos>>
      /\ enqueue_pos' = (enqueue_pos + 1) % Modulus
  BY PushClaimed
<1>2. /\ Size \in 0 .. N - 1 /\ Size' = Size + 1
      /\ \A k \in 0 .. N : Position(k)' = Position(k)
  BY PushClaimed
<1>3. /\ sequence[Position(Size) % N] = Position(Size)
      /\ \A d \in Ctx : Moving(d) => pos[d] % N # Position(Size) % N
  BY PushClaimed
<1>4. N \in Nat /\ N >= 2 /\ Position(Size) \in 0 .. Modulus - 1
  BY ModulusMultiple, Ring DEF IInv, TypeOK
<1>5. TypeOK'
  <2>1. enqueue_pos' \in 0 .. Modulus - 1
    BY <1>1, Successors DEF IInv, TypeOK
  <2> QED
    BY <2>1, <1>1, <1>4 DEF IInv, TypeOK, sems
<1>6. CallInv'
  BY <1>1 DEF IInv, TypeOK, CallInv
<1>7. AccountInv'
  <2>1. /\ Reserving(Push)' = Reserving(Push) \ {c} /\ c \in Reserving(Push)
        /\ Claiming(Push)' = Claiming(Push) \union {c} /\ c \notin Claiming(Push)
    BY <1>1 DEF IInv, TypeOK, Reserving, Claiming
  <2>2. Reserving(Pop)' = Reserving(Pop) /\ Claiming(Pop)' = Claiming(Pop)
    BY <1>1 DEF IInv, TypeOK, Reserving, Claiming, Push, Pop
  <2>3. Cardinality(Reserving(Push)') = Cardinality(Reserving(Push)) - 1
    BY <2>1, Finite, FS_RemoveElement
  <2>4. Cardinality(Claiming(Push)') = Cardinality(Claiming(Push)) + 1
    BY <2>1, Finite, FS_AddElement
  <2>5. /\ Size = sem_occupied + Cardinality(Reserving(Pop)) + Cardinality(Claiming(Push))
        /\ N - Size = sem_empty + Cardinality(Reserving(Push)) + Cardinality(Claiming(Pop))
        /\ sem_empty \in Int /\ sem_occupied \in Int /\ UNCHANGED sems
    BY <1>1 DEF IInv, AccountInv, TypeOK
  <2> QED
    BY <2>2, <2>3, <2>4, <2>5, <1>2, <1>4, Finite DEF AccountInv, sems
<1>8. CellInv'
  <2>1. \A d \in Ctx : /\ Moving(d)' <=> d = c \/ Moving(d)
                       /\ Filling(d)' <=> d = c \/ Filling(d)
                       /\ Emptying(d)' <=> Emptying(d)
                       /\ Moving(d) => pos'[d] = pos[d] /\ d # c
    BY <1>1 DEF IInv, TypeOK, Moving, Filling, Emptying, Push, Pop
  <2>2. /\ pos'[c] = Position(Size) /\ ~Emptying(c)
        /\ \A d \in Ctx : Filling(d) \/ Emptying(d) => Moving(d)
    BY <1>1 DEF IInv, TypeOK, Moving, Filling, Emptying
  <2>3. ASSUME NEW k \in 0 .. Size' - 1 PROVE UsedCell(k)'
    <3>1. k \in 0 .. N /\ (k = Size \/ k \in 0 .. Size - 1)
      BY <1>2, <1>4
    <3>2. CASE k = Size
      BY <3>1, <3>2, <2>1, <2>2, <1>2 DEF UsedCell
    <3>3. CASE k \in 0 .. Size - 1
      <4>1. UsedCell(k)
        BY <3>3 DEF IInv, CellInv
      <4> QED
        BY <3>1, <4>1, <2>1, <2>2, <1>1, <1>2 DEF UsedCell
    <3> QED
      BY <3>1, <3>2, <3>3
  <2>4. ASSUME NEW k \in Size' .. N - 1 PROVE FreeCell(k)'
    <3>1. k \in 0 .. N /\ k \in Size .. N - 1
      BY <1>2, <1>4
    <3>2. FreeCell(k)
      BY <3>1 DEF IInv, CellInv
    <3> QED
      BY <3>1, <3>2, <2>1, <2>2, <1>1, <1>2 DEF FreeCell
  <2>5. ASSUME NEW d \in Ctx, Filling(d)' PROVE FillingOf(d)'
    <3>1. CASE d = c
      <4>1. Size \in 0 .. Size' - 1 /\ Size \in 0 .. N
        BY <1>2, <1>4
      <4> QED
        BY <4>1, <3>1, <2>2, <1>1, <1>2, <1>3 DEF FillingOf
    <3>2. CASE d # c
      <4>1. Filling(d) /\ FillingOf(d) /\ pos'[d] = pos[d]
        BY <3>2, <2>1, <2>2, <2>5 DEF IInv, CellInv
      <4>2. PICK k \in 0 .. Size - 1 : pos[d] = Position(k)
        BY <4>1 DEF FillingOf
      <4>3. k \in 0 .. Size' - 1 /\ k \in 0 .. N
        BY <1>2, <1>4
      <4> QED
        BY <4>1, <4>2, <4>3, <1>1, <1>2 DEF FillingOf
    <3> QED
      BY <3>1, <3>2
  <2>6. ASSUME NEW d \in Ctx, Emptying(d)' PROVE EmptyingOf(d)'
    <3>1. Emptying(d) /\ EmptyingOf(d) /\ Moving(d) /\ pos'[d] = pos[d]
      BY <2>1, <2>2, <2>6 DEF IInv, CellInv
    <3>2. PICK k \in Size .. N - 1 : /\ (pos[d] + N) % Modulus = Position(k)
                                     /\ pos[d] % N = Position(k) % N
      BY <3>1, MovingCell
    <3>3. k # Size
      BY <3>1, <3>2, <1>3
    <3>4. k \in Size' .. N - 1 /\ k \in 0 .. N
      BY <3>3, <1>2, <1>4
    <3> QED
      BY <3>1, <3>2, <3>4, <1>1, <1>2 DEF EmptyingOf
  <2>7. ASSUME NEW d \in Ctx, NEW e \in Ctx, Moving(d)', Moving(e)',
               pos'[d] % N = pos'[e] % N
        PROVE  d = e
    BY <2>1, <2>2, <2>7, <1>3 DEF IInv, CellInv
  <2> QED
    BY <2>3, <2>4, <2>5, <2>6, <2>7 DEF CellInv
<1> QED
  BY <1>5, <1>6, <1>7, <1>8 DEF IInv

\* What a pop that claims its position changes, and what it finds: nobody is at
\* work in the cell.
LEMMA PopClaimed ==
  ASSUME IInv, NEW c \in Ctx, claim(c), Turn(c), call[c] \in Pop
  PROVE  /\ pc[c] = "claim" /\ pc' = [pc EXCEPT ![c] = "move"]
         /\ pos' = [pos EXCEPT ![c] = Position(0)]
         /\ UNCHANGED <<call, item, sems, sequence, cell, enqueue_pos>>
         /\ dequeue_pos' = (dequeue_pos + 1) % Modulus
         /\ Size \in 1 .. N /\ Size' = Size - 1
         /\ \A k \in 0 .. N - 1 : Position(k)' = Position(k + 1)
         /\ Position(N) = (Position(0) + N) % Modulus
         /\ sequence[Position(0) % N] = (Position(0) + 1) % Modulus
         /\ \A d \in Ctx : Moving(d) => pos[d] % N # Position(0) % N
<1>0. call[c] \notin Push
  BY CallKinds DEF claim, At
<1>1. /\ pc[c] = "claim" /\ pc' = [pc EXCEPT ![c] = "move"]
      /\ pos' = [pos EXCEPT ![c] = dequeue_pos]
      /\ UNCHANGED <<call, item, sems, sequence, cell, enqueue_pos>>
      /\ dequeue_pos' = (dequeue_pos + 1) % Modulus
      /\ sequence[dequeue_pos % N] = (dequeue_pos + 1) % Modulus
  BY <1>0 DEF claim, At, Goto, Turn
<1>2. /\ enqueue_pos \in 0 .. Modulus - 1 /\ dequeue_pos \in 0 .. Modulus - 1
      /\ N \in Nat
  BY ModulusMultiple DEF IInv, TypeOK
<1>3. Size \in 1 .. N
  BY <1>1, <1>2, PopTurn, Bounds
<1>4. Position(0) = dequeue_pos /\ Position(N) = (dequeue_pos + N) % Modulus
  BY <1>2, Ring
<1>5. Size' = Size - 1 /\ \A k \in 0 .. N - 1 : Position(k)' = Position(k + 1)
  BY <1>1, <1>2, <1>3, PopClaims
<1>6. \A k, l \in 0 .. N - 1 : Position(k) % N = Position(l) % N => k = l
  BY <1>2, Ring
<1>7. ASSUME NEW d \in Ctx, Moving(d), pos[d] % N = Position(0) % N
      PROVE  FALSE
  <2>1. CASE Filling(d)
    <3>1. PICK k \in 0 .. Size - 1 : pos[d] = Position(k)
      BY <2>1, <1>7, MovingCell
    <3>2. k = 0
      BY <3>1, <1>2, <1>3, <1>6, <1>7
    <3>3. sequence[pos[d] % N] = pos[d]
      BY <2>1 DEF IInv, CellInv, FillingOf
    <3>4. (dequeue_pos + 1) % Modulus = dequeue_pos
      BY <3>1, <3>2, <3>3, <1>1, <1>4
    <3> QED
      BY <3>4, <1>2, Successors
  <2>2. CASE Emptying(d)
    <3>1. PICK k \in Size .. N - 1 : pos[d] % N = Position(k) % N
      BY <2>2, <1>7, MovingCell
    <3> QED
      BY <3>1, <1>2, <1>3, <1>6, <1>7
  <2> QED
    BY <2>1, <2>2, <1>7, MovingCell
<1> QED
  BY <1>1, <1>3, <1>4, <1>5, <1>7

\* A claim of a pop keeps the invariant.
LEMMA ClaimPop ==
  ASSUME IInv, NEW c \in Ctx, claim(c), Turn(c), call[c] \in Pop
  PROVE  IInv'
<1>1. /\ pc[c] = "claim" /\ pc' = [pc EXCEPT ![c] = "move"]
      /\ pos' = [pos EXCEPT ![c] = Position(0)]
      /\ UNCHANGED <<call, item, sems, sequence, cell, enqueue_pos>>
      /\ dequeue_pos' = (dequeue_pos + 1) % Modulus
  BY PopClaimed
<1>2. /\ Size \in 1 .. N /\ Size' = Size - 1
      /\ \A k \in 0 .. N - 1 : Position(k)' = Position(k + 1)
      /\ Position(N) = (Position(0) + N) % Modulus
  BY PopClaimed
<1>3. /\ sequence[Position(0) % N] = (Position(0) + 1) % Modulus
      /\ \A d \in Ctx : Moving(d) => pos[d] % N # Position(0) % N
  BY PopClaimed
<1>4. N \in Nat /\ N >= 2 /\ Position(0) \in 0 .. Modulus - 1
  BY ModulusMultiple, Ring DEF IInv, TypeOK
<1>5. TypeOK'
  <2>1. dequeue_pos' \in 0 .. Modulus - 1
    BY <1>1, Successors DEF IInv, TypeOK
  <2> QED
    BY <2>1, <1>1, <1>4 DEF IInv, TypeOK, sems
<1>6. CallInv'
  BY <1>1 DEF IInv, TypeOK, CallInv
<1>7. AccountInv'
  <2>1. /\ Reserving(Pop)' = Reserving(Pop) \ {c} /\ c \in Reserving(Pop)
        /\ Claiming(Pop)' = Claiming(Pop) \union {c} /\ c \notin Claiming(Pop)
    BY <1>1 DEF IInv, TypeOK, Reserving, Claiming
  <2>2. Reserving(Push)' = Reserving(Push) /\ Claiming(Push)' = Claiming(Push)
    BY <1>1 DEF IInv, TypeOK, Reserving, Claiming, Push, Pop
  <2>3. Cardinality(Reserving(Pop)') = Cardinality(Reserving(Pop)) - 1
    BY <2>1, Finite, FS_RemoveElement
  <2>4. Cardinality(Claiming(Pop)') = Cardinality(Claiming(Pop)) + 1
    BY <2>1, Finite, FS_AddElement
  <2>5. /\ Size = sem_occupied + Cardinality(Reserving(Pop)) + Cardinality(Claiming(Push))
        /\ N - Size = sem_empty + Cardinality(Reserving(Push)) + Cardinality(Claiming(Pop))
        /\ sem_empty \in Int /\ sem_occupied \in Int /\ UNCHANGED sems
    BY <1>1 DEF IInv, AccountInv, TypeOK
  <2> QED
    BY <2>2, <2>3, <2>4, <2>5, <1>2, <1>4, Finite DEF AccountInv, sems
<1>8. CellInv'
  <2>1. \A d \in Ctx : /\ Moving(d)' <=> d = c \/ Moving(d)
                       /\ Filling(d)' <=> Filling(d)
                       /\ Emptying(d)' <=> d = c \/ Emptying(d)
                       /\ Moving(d) => pos'[d] = pos[d] /\ d # c
    BY <1>1 DEF IInv, TypeOK, Moving, Filling, Emptying, Push, Pop
  <2>2. /\ pos'[c] = Position(0) /\ ~Filling(c)
        /\ \A d \in Ctx : Filling(d) \/ Emptying(d) => Moving(d)
    BY <1>1 DEF IInv, TypeOK, Moving, Filling, Emptying
  <2>3. ASSUME NEW k \in 0 .. Size' - 1 PROVE UsedCell(k)'
    <3>1. k \in 0 .. N - 1 /\ k + 1 \in 0 .. Size - 1
      BY <1>2, <1>4
    <3>2. UsedCell(k + 1) /\ Position(k)' = Position(k + 1)
      BY <3>1, <1>2 DEF IInv, CellInv
    <3> QED
      BY <3>2, <2>1, <2>2, <1>1 DEF UsedCell
  <2>4. ASSUME NEW k \in Size' .. N - 1 PROVE FreeCell(k)'
    <3>1. k \in 0 .. N - 1 /\ (k = N - 1 \/ k + 1 \in Size .. N - 1)
      BY <1>2, <1>4
    <3>2. Position(k)' = Position(k + 1)
      BY <3>1, <1>2
    <3>3. CASE k = N - 1
      <4>1. Position(k)' = (pos'[c] + N) % Modulus
        BY <3>2, <3>3, <2>2, <1>2, <1>4
      <4> QED
        BY <4>1, <2>1 DEF FreeCell
    <3>4. CASE k + 1 \in Size .. N - 1
      <4>1. FreeCell(k + 1)
        BY <3>4 DEF IInv, CellInv
      <4> QED
        BY <3>2, <4>1, <2>1, <2>2, <1>1 DEF FreeCell
    <3> QED
      BY <3>1, <3>3, <3>4
  <2>5. ASSUME NEW d \in Ctx, Filling(d)' PROVE FillingOf(d)'
    <3>1. Filling(d) /\ FillingOf(d) /\ Moving(d) /\ pos'[d] = pos[d]
      BY <2>1, <2>2, <2>5 DEF IInv, CellInv
    <3>2. PICK k \in 0 .. Size - 1 : pos[d] = Position(k)
      BY <3>1 DEF FillingOf
    <3>3. k # 0
      BY <3>1, <3>2, <1>3
    <3> DEFINE l == k - 1
    <3>4. l \in 0 .. Size' - 1 /\ l \in 0 .. N - 1 /\ k = l + 1
      BY <3>3, <1>2, <1>4
    <3> HIDE DEF l
    <3>5. pos'[d] = Position(l)'
      BY <3>1, <3>2, <3>4, <1>2
    <3> QED
      BY <3>1, <3>4, <3>5, <1>1 DEF FillingOf
  <2>6. ASSUME NEW d \in Ctx, Emptying(d)' PROVE EmptyingOf(d)'
    <3>1. CASE d = c
      <4> DEFINE l == N - 1
      <4>1. l \in Size' .. N - 1 /\ l \in 0 .. N - 1 /\ l + 1 = N
        BY <1>2, <1>4
      <4> HIDE DEF l
      <4>2. (pos'[d] + N) % Modulus = Position(l)'
        BY <3>1, <4>1, <2>2, <1>2
      <4> QED
        BY <4>1, <4>2, <3>1, <2>2, <1>1, <1>3 DEF EmptyingOf
    <3>2. CASE d # c
      <4>1. Emptying(d) /\ EmptyingOf(d) /\ Moving(d) /\ pos'[d] = pos[d]
        BY <3>2, <2>1, <2>2, <2>6 DEF IInv, CellInv
      <4>2. PICK k \in Size .. N - 1 : (pos[d] + N) % Modulus = Position(k)
        BY <4>1 DEF EmptyingOf
      <4> DEFINE l == k - 1
      <4>3. l \in Size' .. N - 1 /\ l \in 0 .. N - 1 /\ k = l + 1
        BY <1>2, <1>4
      <4> HIDE DEF l
      <4>4. (pos'[d] + N) % Modulus = Position(l)'
        BY <4>1, <4>2, <4>3, <1>2
      <4> QED
        BY <4>1, <4>3, <4>4, <1>1 DEF EmptyingOf
    <3> QED
      BY <3>1, <3>2
  <2>7. ASSUME NEW d \in Ctx, NEW e \in Ctx, Moving(d)', Moving(e)',
               pos'[d] % N = pos'[e] % N
        PROVE  d = e
    BY <2>1, <2>2, <2>7, <1>3 DEF IInv, CellInv
  <2> QED
    BY <2>3, <2>4, <2>5, <2>6, <2>7 DEF CellInv
<1> QED
  BY <1>5, <1>6, <1>7, <1>8 DEF IInv

\* What a move changes: only the caller's own cell, of which the sequence number
\* becomes that of its next turn.
LEMMA Moved ==
  ASSUME IInv, NEW c \in Ctx, move(c)
  PROVE  /\ Moving(c) /\ pc' = [pc EXCEPT ![c] = "signal"]
         /\ pos' = [pos EXCEPT ![c] = 0]
         /\ UNCHANGED <<call, sems, enqueue_pos, dequeue_pos>>
         /\ item' \in [Ctx -> Data \union {NoItem}]
         /\ cell' \in [0 .. N - 1 -> Data \union {NoItem}]
         /\ sequence' = [sequence EXCEPT ![pos[c] % N] =
                            IF call[c] \in Push THEN (pos[c] + 1) % Modulus
                                                ELSE (pos[c] + N) % Modulus]
         /\ Size' = Size /\ \A k \in 0 .. N : Position(k)' = Position(k)
<1>1. /\ pc[c] = "move" /\ pc' = [pc EXCEPT ![c] = "signal"]
      /\ pos' = [pos EXCEPT ![c] = 0]
      /\ UNCHANGED <<call, sems, enqueue_pos, dequeue_pos>>
      /\ sequence' = [sequence EXCEPT ![pos[c] % N] =
                         IF call[c] \in Push THEN (pos[c] + 1) % Modulus
                                             ELSE (pos[c] + N) % Modulus]
  BY DEF move, At, Goto
<1>2. pos[c] % N \in 0 .. N - 1
  BY <1>1, MovingCell DEF Moving
<1>3. /\ item' \in [Ctx -> Data \union {NoItem}]
      /\ cell' \in [0 .. N - 1 -> Data \union {NoItem}]
  <2>1. CASE call[c] \in Push
    BY <2>1 DEF move, IInv, TypeOK
  <2>2. CASE call[c] \notin Push
    BY <2>2, <1>2 DEF move, IInv, TypeOK
  <2> QED
    BY <2>1, <2>2
<1> QED
  BY <1>1, <1>3 DEF Moving, Size, Position

\* A move keeps the invariant.
LEMMA MoveStep ==
  ASSUME IInv, NEW c \in Ctx, move(c)
  PROVE  IInv'
<1>1. /\ Moving(c) /\ pc' = [pc EXCEPT ![c] = "signal"]
      /\ pos' = [pos EXCEPT ![c] = 0]
      /\ UNCHANGED <<call, sems, enqueue_pos, dequeue_pos>>
      /\ item' \in [Ctx -> Data \union {NoItem}]
      /\ cell' \in [0 .. N - 1 -> Data \union {NoItem}]
  BY Moved
<1>2. sequence' = [sequence EXCEPT ![pos[c] % N] =
                      IF call[c] \in Push THEN (pos[c] + 1) % Modulus
                                          ELSE (pos[c] + N) % Modulus]
  BY Moved
<1>3. Size' = Size /\ \A k \in 0 .. N : Position(k)' = Position(k)
  BY Moved
<1>4. /\ N \in Nat /\ N >= 2 /\ Modulus \in Nat \ {0} /\ Size \in 0 .. N
      /\ \A k, l \in 0 .. N - 1 : Position(k) % N = Position(l) % N => k = l
      /\ \A k \in 0 .. N : Position(k) \in 0 .. Modulus - 1
  BY ModulusMultiple, Bounds, Ring DEF IInv, TypeOK
<1>5. pos[c] \in 0 .. Modulus - 1 /\ pos[c] % N \in 0 .. N - 1
  BY <1>1, MovingCell
<1>6. TypeOK'
  <2>1. sequence' \in [0 .. N - 1 -> 0 .. Modulus - 1]
    BY <1>2, <1>5, Successors DEF IInv, TypeOK
  <2>2. 0 \in 0 .. Modulus - 1
    BY <1>4
  <2> QED
    BY <2>1, <2>2, <1>1 DEF IInv, TypeOK, sems
<1>7. CallInv'
  BY <1>1 DEF IInv, TypeOK, CallInv, Moving
<1>8. AccountInv'
  <2>1. /\ Reserving(Push)' = Reserving(Push) /\ Claiming(Push)' = Claiming(Push)
        /\ Reserving(Pop)' = Reserving(Pop) /\ Claiming(Pop)' = Claiming(Pop)
    BY <1>1 DEF IInv, TypeOK, Reserving, Claiming, Moving
  <2> QED
    BY <2>1, <1>1, <1>3 DEF IInv, AccountInv, sems
<1>9. CellInv'
  <2>1. \A d \in Ctx : /\ Moving(d)' <=> d # c /\ Moving(d)
                       /\ Filling(d)' <=> d # c /\ Filling(d)
                       /\ Emptying(d)' <=> d # c /\ Emptying(d)
                       /\ d # c => pos'[d] = pos[d]
    BY <1>1 DEF IInv, TypeOK, Moving, Filling, Emptying
  <2>2. \A d \in Ctx : d # c /\ Moving(d) => pos[d] % N # pos[c] % N
    BY <1>1 DEF IInv, CellInv
  <2>3. PICK j \in 0 .. N - 1 :
            /\ pos[c] % N = Position(j) % N
            /\ sequence'[pos[c] % N] = IF j < Size THEN (Position(j) + 1) % Modulus
                                                   ELSE Position(j)
            /\ j < Size <=> Filling(c)
    <3>1. CASE Filling(c)
      <4>1. PICK k \in 0 .. Size - 1 : pos[c] = Position(k)
        BY <3>1, <1>1, MovingCell
      <4>2. sequence'[pos[c] % N] = (pos[c] + 1) % Modulus
        BY <3>1, <1>2, <1>5 DEF Filling, IInv, TypeOK
      <4>3. k \in 0 .. N - 1 /\ k < Size
        BY <1>4
      <4> QED
        BY <3>1, <4>1, <4>2, <4>3
    <3>2. CASE Emptying(c)
      <4>1. PICK k \in Size .. N - 1 : /\ (pos[c] + N) % Modulus = Position(k)
                                       /\ pos[c] % N = Position(k) % N
        BY <3>2, <1>1, MovingCell
      <4>2. call[c] \notin Push /\ ~Filling(c)
        BY <3>2 DEF Emptying, Filling, Push, Pop
      <4>3. sequence'[pos[c] % N] = (pos[c] + N) % Modulus
        BY <4>2, <1>2, <1>5 DEF IInv, TypeOK
      <4>4. k \in 0 .. N - 1 /\ ~(k < Size)
        BY <1>4
      <4> QED
        BY <4>1, <4>2, <4>3, <4>4
    <3> QED
      BY <3>1, <3>2, <1>1, MovingCell
  <2>4. ASSUME NEW k \in 0 .. N - 1, k # j
        PROVE  /\ Position(k) % N # pos[c] % N
               /\ sequence'[Position(k) % N] = sequence[Position(k) % N]
    <3>1. Position(k) % N # pos[c] % N
      BY <2>3, <2>4, <1>4
    <3>2. Position(k) % N \in 0 .. N - 1
      BY <1>4, Successors
    <3> QED
      BY <3>1, <3>2, <1>2, <1>5 DEF IInv, TypeOK
  <2>5. ASSUME NEW k \in 0 .. Size - 1 PROVE UsedCell(k)'
    <3>1. k \in 0 .. N - 1 /\ Position(k)' = Position(k)
      BY <1>3, <1>4
    <3>2. CASE k = j
      <4>1. j < Size
        BY <3>2, <1>4
      <4> QED
        BY <3>1, <3>2, <4>1, <2>3 DEF UsedCell
    <3>3. CASE k # j
      <4>1. UsedCell(k)
        BY DEF IInv, CellInv
      <4>2. \A d \in Ctx : Filling(d) /\ pos[d] = Position(k) => d # c
        BY <3>1, <3>3, <2>4
      <4> QED
        BY <3>1, <3>3, <4>1, <4>2, <2>1, <2>4 DEF UsedCell
    <3> QED
      BY <3>2, <3>3
  <2>6. ASSUME NEW k \in Size .. N - 1 PROVE FreeCell(k)'
    <3>1. k \in 0 .. N - 1 /\ Position(k)' = Position(k)
      BY <1>3, <1>4
    <3>2. CASE k = j
      <4>1. ~(j < Size)
        BY <3>2, <1>4
      <4> QED
        BY <3>1, <3>2, <4>1, <2>3 DEF FreeCell
    <3>3. CASE k # j
      <4>1. FreeCell(k)
        BY DEF IInv, CellInv
      <4>2. \A d \in Ctx : (pos[d] + N) % Modulus = Position(k) => d # c
        BY <3>1, <3>3, <2>4, <1>5, Successors
      <4> QED
        BY <3>1, <3>3, <4>1, <4>2, <2>1, <2>4 DEF FreeCell
    <3> QED
      BY <3>2, <3>3
  <2>7. ASSUME NEW d \in Ctx, d # c, Moving(d)
        PROVE  sequence'[pos'[d] % N] = sequence[pos[d] % N]
    <3>1. pos[d] % N \in 0 .. N - 1
      BY <2>7, MovingCell
    <3> QED
      BY <3>1, <2>1, <2>2, <2>7, <1>2 DEF IInv, TypeOK
  <2>8. ASSUME NEW d \in Ctx, Filling(d)' PROVE FillingOf(d)'
    <3>1. d # c /\ FillingOf(d) /\ Moving(d) /\ pos'[d] = pos[d]
      BY <2>1, <2>8 DEF IInv, CellInv, Filling
    <3>2. PICK k \in 0 .. Size - 1 : pos[d] = Position(k)
      BY <3>1 DEF FillingOf
    <3>3. k \in 0 .. N
      BY <1>4
    <3> QED
      BY <3>1, <3>2, <3>3, <2>7, <1>3 DEF FillingOf
  <2>9. ASSUME NEW d \in Ctx, Emptying(d)' PROVE EmptyingOf(d)'
    <3>1. d # c /\ EmptyingOf(d) /\ Moving(d) /\ pos'[d] = pos[d]
      BY <2>1, <2>9 DEF IInv, CellInv, Emptying
    <3>2. PICK k \in Size .. N - 1 : (pos[d] + N) % Modulus = Position(k)
      BY <3>1 DEF EmptyingOf
    <3>3. k \in 0 .. N
      BY <1>4
    <3> QED
      BY <3>1, <3>2, <3>3, <2>7, <1>3 DEF EmptyingOf
  <2>10. ASSUME NEW d \in Ctx, NEW e \in Ctx, Moving(d)', Moving(e)',
               pos'[d] % N = pos'[e] % N
        PROVE  d = e
    BY <2>1, <2>10 DEF IInv, CellInv
  <2> QED
    BY <2>5, <2>6, <2>8, <2>9, <2>10, <1>3 DEF CellInv
<1> QED
  BY <1>6, <1>7, <1>8, <1>9 DEF IInv

-----------------------------------------------------------------------------
(***************************************************************************)
(* The invariant, and when a call dies.                                    *)
(***************************************************************************)
\* Channel::new establishes the invariant.
LEMMA Initially == Init => IInv
<1> SUFFICES ASSUME Init PROVE IInv
  OBVIOUS
<1>1. N \in Nat /\ N >= 2 /\ Modulus \in Nat \ {0} /\ Modulus >= 2 * N
  BY ModulusMultiple
<1>2. TypeOK
  <2>1. /\ 0 .. N - 1 \subseteq 0 .. Modulus - 1 /\ 0 \in 0 .. Modulus - 1
        /\ N \in 0 .. N /\ 0 \in 0 .. N
    BY <1>1
  <2> QED
    BY <2>1 DEF Init, TypeOK
<1>3. CallInv
  BY DEF Init, CallInv
<1>4. Size = 0 /\ \A k \in 0 .. N - 1 : Position(k) = k /\ k % N = k
  <2>1. ASSUME NEW k \in 0 .. N - 1 PROVE k % N = k
    BY <1>1
  <2>2. ASSUME NEW k \in 0 .. N - 1 PROVE Position(k) = k
    <3>1. Position(k) = k % Modulus
      BY <1>1 DEF Init, Position
    <3> QED
      BY <3>1, <1>1, WrapNear
  <2>3. Size = 0
    BY <1>1 DEF Init, Size
  <2> QED
    BY <2>1, <2>2, <2>3
<1>5. AccountInv
  <2>1. /\ Reserving(Push) = {} /\ Reserving(Pop) = {}
        /\ Claiming(Push) = {} /\ Claiming(Pop) = {}
    BY DEF Init, Reserving, Claiming
  <2> QED
    BY <2>1, <1>1, <1>4, FS_EmptySet DEF Init, AccountInv
<1>6. CellInv
  <2>1. \A c \in Ctx : ~Moving(c) /\ ~Filling(c) /\ ~Emptying(c)
    BY DEF Init, Moving, Filling, Emptying
  <2>2. \A k \in 0 .. N - 1 : FreeCell(k)
    BY <1>4 DEF Init, FreeCell
  <2> QED
    BY <2>1, <2>2, <1>1, <1>4 DEF CellInv
<1> QED
  BY <1>2, <1>3, <1>5, <1>6 DEF IInv

\* Every step keeps the invariant.
LEMMA Step ==
  ASSUME IInv, [Next]_vars
  PROVE  IInv'
<1>1. ASSUME NEW c \in Ctx, claim(c)
      PROVE  IInv'
  <2>1. call[c] \in Push \union Pop
    BY <1>1, CallKinds DEF claim, At
  <2> QED
    BY <2>1, <1>1, ClaimFails, ClaimPush, ClaimPop
<1>2. CASE UNCHANGED vars
  <2>1. TypeOK' /\ CallInv'
    BY <1>2 DEF IInv, TypeOK, CallInv, vars, caller, sems, buffer
  <2>2. AccountInv'
    BY <1>2 DEF IInv, AccountInv, Size, Reserving, Claiming, vars, caller, sems, buffer
  <2>3. CellInv'
    BY <1>2, CellFrame DEF IInv, Moving, vars, caller, buffer
  <2> QED
    BY <2>1, <2>2, <2>3 DEF IInv
<1>3. CASE Next
  <2>1. PICK c \in Ctx : begin(c) \/ proceed(c) \/ die(c)
    BY <1>3 DEF Next
  <2> QED
    BY <2>1, <1>1, <1>2, BeginStep, DownStep, RefusedStep, MoveStep, UpStep DEF proceed, die
<1> QED
  BY <1>2, <1>3

\* The invariant holds throughout: the semaphores account for every cell, and
\* every cell carries the sequence number of its turn or has one context at
\* work in it.
THEOREM Invariance == Spec => []IInv
<1>1. IInv /\ [Next]_vars => IInv'
  BY Step
<1> QED
  BY <1>1, Initially, PTL DEF Spec

\* No unwrap_or_die of channel.rs fails but that of a buffer in which another
\* call has claimed a cell and not yet finished with it.
THEOREM DiesOnlyOnUnfinished == Spec => DiesOnlyOnUnfinishedCell
<1> DEFINE Dies == \A c \in Ctx : pc[c] # "die" /\ pc'[c] = "die" =>
                       pc[c] = "claim" /\ \E d \in Ctx : pc[d] = "move"
<1>1. ASSUME IInv, [Next]_vars PROVE Dies
  <2> SUFFICES ASSUME NEW x \in Ctx, pc[x] # "die", pc'[x] = "die"
               PROVE  pc[x] = "claim" /\ \E d \in Ctx : pc[d] = "move"
    OBVIOUS
  <2>1. PICK c \in Ctx : begin(c) \/ proceed(c) \/ die(c)
    BY <1>1 DEF Next, vars, caller
  <2>2. ASSUME begin(c) \/ down(c) \/ refused(c) \/ move(c) \/ die(c) PROVE FALSE
    BY <1>1, <2>2 DEF begin, down, refused, move, die, return, Goto, IInv, TypeOK, vars, caller
  <2>3. ASSUME up(c) PROVE FALSE
    BY <1>1, <2>3, UpReturns DEF return, Goto, IInv, TypeOK
  <2>4. CASE claim(c)
    <3>1. x = c /\ pc[c] = "claim" /\ ~Turn(c)
      BY <1>1, <2>4 DEF claim, At, Goto, IInv, TypeOK
    <3> QED
      BY <1>1, <3>1, CallKinds, PushTurn, PopTurn DEF Moving
  <2> QED
    BY <2>1, <2>2, <2>3, <2>4 DEF proceed
<1> QED
  BY <1>1, Invariance, PTL DEF Spec, DiesOnlyOnUnfinishedCell

-----------------------------------------------------------------------------
(***************************************************************************)
(* Refinement.  A call takes effect when it claims its position; what it   *)
(* has to move then is already in the abstract queue, or already out.      *)
(***************************************************************************)
\* An element is with its producer until it has been moved, and in its cell
\* then.
WithProducer == \A c \in Ctx : Filling(c) => ElementAt(pos[c]) = item[c]
Stored ==
  \A p \in 0 .. Modulus - 1 :
      (\A c \in Ctx : Filling(c) => pos[c] # p) => ElementAt(p) = cell[p % N]
\* The elements are a sequence, the k-th of them that of the k-th position.
Listed ==
  /\ Elements \in Seq(Data \union {NoItem}) /\ Len(Elements) = Size
  /\ \A k \in 1 .. Size : Elements[k] = ElementAt(Position(k - 1))

\* Where the elements are, and that they are a sequence.
LEMMA ElementsInv == IInv => WithProducer /\ Stored /\ Listed
<1> SUFFICES ASSUME IInv PROVE WithProducer /\ Stored /\ Listed
  OBVIOUS
<1> DEFINE claimer(p) == {c \in Ctx : pc[c] = "move" /\ call[c] \in Push /\ pos[c] = p}
<1>1. ASSUME NEW c \in Ctx, Filling(c) PROVE ElementAt(pos[c]) = item[c]
  <2>1. claimer(pos[c]) = {c}
    BY <1>1 DEF Filling, Moving, IInv, CellInv
  <2>2. (CHOOSE x \in {c} : TRUE) = c
    OBVIOUS
  <2> QED
    BY <2>1, <2>2 DEF ElementAt
<1>2. ASSUME NEW p \in 0 .. Modulus - 1, \A c \in Ctx : Filling(c) => pos[c] # p
      PROVE  ElementAt(p) = cell[p % N]
  <2>1. claimer(p) = {}
    BY <1>2 DEF Filling, Moving
  <2> QED
    BY <2>1 DEF ElementAt
<1>3. /\ Size \in 0 .. N /\ N \in Nat /\ dequeue_pos \in Nat
      /\ \A k \in 0 .. N : Position(k) \in 0 .. Modulus - 1
  BY Bounds, Ring, ModulusMultiple DEF IInv, TypeOK
<1>4. \A p \in 0 .. Modulus - 1 : ElementAt(p) \in Data \union {NoItem}
  <2> TAKE p \in 0 .. Modulus - 1
  <2>1. CASE \E c \in Ctx : Filling(c) /\ pos[c] = p
    BY <2>1, <1>1 DEF IInv, TypeOK
  <2>2. CASE \A c \in Ctx : Filling(c) => pos[c] # p
    <3>1. p % N \in 0 .. N - 1
      BY Successors
    <3> QED
      BY <3>1, <2>2, <1>2 DEF IInv, TypeOK
  <2> QED
    BY <2>1, <2>2
<1>5. Elements = [k \in 1 .. Size |-> ElementAt((dequeue_pos + k - 1) % Modulus)]
  BY DEF Elements, Size
<1>6. ASSUME NEW k \in 1 .. Size
      PROVE  /\ (dequeue_pos + k - 1) % Modulus = Position(k - 1)
             /\ Position(k - 1) \in 0 .. Modulus - 1
  <2>1. k - 1 \in 0 .. N
    BY <1>3
  <2>2. dequeue_pos + k - 1 = dequeue_pos + (k - 1)
    BY <1>3
  <2> QED
    BY <2>1, <2>2, <1>3 DEF Position
<1>7. Elements = [k \in 1 .. Size |-> ElementAt(Position(k - 1))]
  BY <1>5, <1>6
<1>8. Elements \in [1 .. Size -> Data \union {NoItem}]
  BY <1>4, <1>6, <1>7
<1>9. Elements \in Seq(Data \union {NoItem}) /\ Len(Elements) = Size
  <2>1. Size \in Nat
    BY <1>3
  <2> HIDE DEF Size
  <2> QED
    BY <2>1, <1>8
<1> QED
  BY <1>1, <1>2, <1>7, <1>9 DEF WithProducer, Stored, Listed

\* The same in the next state.
LEMMA ElementsNext == IInv' => WithProducer' /\ Stored' /\ Listed'
  BY ElementsInv, PTL

\* The element at a position, in the next state.
LEMMA ElementAtPosition ==
  ASSUME NEW k, NEW p, Position(k)' = p
  PROVE  ElementAt(Position(k))' = ElementAt(p)'
  BY DEF ElementAt

\* The elements stay as they are if those at the positions in use do.
LEMMA SameElements ==
  ASSUME Listed, Listed', Size \in Nat, Size' = Size,
         \A k \in 1 .. Size : ElementAt(Position(k - 1))' = ElementAt(Position(k - 1))
  PROVE  Elements' = Elements
<1>1. /\ Elements \in Seq(Data \union {NoItem}) /\ Elements' \in Seq(Data \union {NoItem})
      /\ Len(Elements) = Size /\ Len(Elements') = Size
  BY DEF Listed
<1>2. \A k \in 1 .. Len(Elements') : Elements'[k] = Elements[k]
  BY <1>1 DEF Listed
<1> QED
  BY <1>1, <1>2, SeqEqual

\* They do while no position is claimed and nothing is moved.
LEMMA ElementFrame ==
  ASSUME IInv, IInv', UNCHANGED <<cell, enqueue_pos, dequeue_pos>>,
         \A c \in Ctx : Filling(c)' <=> Filling(c),
         \A c \in Ctx : Filling(c) => pos'[c] = pos[c] /\ item'[c] = item[c]
  PROVE  Elements' = Elements
<1>1. /\ WithProducer /\ Stored /\ Listed /\ WithProducer' /\ Stored' /\ Listed'
      /\ Size \in 0 .. N /\ N \in Nat
      /\ \A k \in 0 .. N : Position(k) \in 0 .. Modulus - 1
  BY ElementsInv, ElementsNext, Bounds, Ring, ModulusMultiple DEF IInv, TypeOK
<1>2. \A p \in 0 .. Modulus - 1 : ElementAt(p)' = ElementAt(p)
  <2> TAKE p \in 0 .. Modulus - 1
  <2>1. CASE \E c \in Ctx : Filling(c) /\ pos[c] = p
    <3>1. PICK c \in Ctx : Filling(c) /\ pos[c] = p
      BY <2>1
    <3>2. ElementAt(pos[c]) = item[c] /\ ElementAt(pos[c])' = item'[c]
      BY <3>1, <1>1 DEF WithProducer
    <3>3. pos'[c] = p
      BY <3>1
    <3> QED
      BY <3>1, <3>2, <3>3 DEF ElementAt
  <2>2. CASE \A c \in Ctx : Filling(c) => pos[c] # p
    BY <2>2, <1>1 DEF Stored
  <2> QED
    BY <2>1, <2>2
<1>3. Size' = Size /\ \A k \in 0 .. N : Position(k)' = Position(k)
  BY DEF Size, Position
<1>4. ASSUME NEW k \in 1 .. Size
      PROVE  ElementAt(Position(k - 1))' = ElementAt(Position(k - 1))
  <2>1. k - 1 \in 0 .. N
    BY <1>1
  <2>2. PICK p \in 0 .. Modulus - 1 : p = Position(k - 1)
    BY <2>1, <1>1
  <2>3. ElementAt(Position(k - 1))' = ElementAt(p)'
    BY <2>1, <2>2, <1>3, ElementAtPosition
  <2> QED
    BY <2>2, <2>3, <1>2
<1> QED
  BY <1>1, <1>3, <1>4, SameElements

\* The phase of each caller.
LEMMA PhaseCases ==
  ASSUME NEW c \in Ctx
  PROVE  /\ Phases[c] = PhaseOf(c)
         /\ pc[c] = "home" => PhaseOf(c) = <<"out">>
         /\ pc[c] \in {"reserve", "claim", "die"} =>
                PhaseOf(c) = <<"asked", call[c], item[c]>>
         /\ Filling(c) => PhaseOf(c) = <<"served", call[c], item[c]>>
         /\ Emptying(c) => PhaseOf(c) = <<"served", call[c], cell[pos[c] % N]>>
         /\ pc[c] = "signal" => PhaseOf(c) = <<"served", call[c], item[c]>>
<1>1. Phases[c] = PhaseOf(c)
  BY DEF Phases
<1>2. /\ pc[c] = "home" => PhaseOf(c) = <<"out">>
      /\ pc[c] \in {"reserve", "claim", "die"} =>
                PhaseOf(c) = <<"asked", call[c], item[c]>>
      /\ pc[c] = "signal" => PhaseOf(c) = <<"served", call[c], item[c]>>
  BY DEF PhaseOf
<1>3. /\ Filling(c) => PhaseOf(c) = <<"served", call[c], item[c]>>
      /\ Emptying(c) => PhaseOf(c) = <<"served", call[c], cell[pos[c] % N]>>
  BY DEF PhaseOf, Filling, Emptying, Moving, Push, Pop
<1> QED
  BY <1>1, <1>2, <1>3

\* A step of one caller leaves the phases of the others, of which the cells that
\* are being emptied are a part, and makes its own one new.
LEMMA PhaseFrame ==
  ASSUME NEW c \in Ctx,
         \A d \in Ctx \ {c} : pc'[d] = pc[d] /\ call'[d] = call[d] /\ item'[d] = item[d],
         \A d \in Ctx \ {c} : Emptying(d) => cell'[pos'[d] % N] = cell[pos[d] % N],
         IInv
  PROVE  Phases' = [Phases EXCEPT ![c] = PhaseOf(c)']
<1>1. ASSUME NEW d \in Ctx, d # c PROVE PhaseOf(d)' = PhaseOf(d)
  <2>1. pc[d] = "move" => call[d] \in Push \/ Emptying(d)
    BY CallKinds DEF Emptying, Moving
  <2> QED
    BY <1>1, <2>1 DEF PhaseOf
<1> QED
  BY <1>1 DEF Phases

\* A caller that is not out is in none of the phases of one that is.
LEMMA InProgress ==
  ASSUME NEW c \in Ctx, pc[c] # "home"
  PROVE  Phases[c] # <<"out">>
<1>1. \A x, y, a : <<a, x, y>> # <<"out">>
  OBVIOUS
<1>2. PhaseOf(c) # <<"out">>
  BY <1>1 DEF PhaseOf
<1> QED
  BY <1>2 DEF Phases

\* A step of the promise, named by what it serves.
LEMMA PromiseStep ==
  ASSUME NEW c \in Ctx, NEW k \in Push \union Pop, NEW x \in Data \union {NoItem},
         \/ Promise!Ask(c, k, x) \/ Promise!ServePush(c, k, x) \/ Promise!ServePop(c, k, x)
         \/ Promise!Refuse(c, k, x) \/ Promise!Return(c, k, x)
  PROVE  Promise!Next
  BY DEF Promise!Next, Promise!Push, Promise!Pop, Push, Pop

\* begin is the asking.
LEMMA BeginAsks ==
  ASSUME IInv, IInv', NEW c \in Ctx, begin(c)
  PROVE  Promise!Next
<1>1. PICK k \in Calls[c] : /\ call' = [call EXCEPT ![c] = k]
                            /\ \E x \in IF k \in Push THEN Data ELSE {NoItem} :
                                   item' = [item EXCEPT ![c] = x]
  BY DEF begin
<1>2. PICK x \in Data \union {NoItem} : item' = [item EXCEPT ![c] = x]
  BY <1>1
<1>3. k \in Push \union Pop
  BY ChannelAssumption DEF Push, Pop
<1>4. pc' = [pc EXCEPT ![c] = "reserve"] /\ pc[c] = "home" /\ UNCHANGED buffer
  BY DEF begin, Goto, At
<1>5. Elements' = Elements
  BY <1>1, <1>2, <1>4, ElementFrame DEF IInv, TypeOK, Filling, Moving, buffer
<1>6. Phases' = [Phases EXCEPT ![c] = PhaseOf(c)']
  BY <1>1, <1>2, <1>4, PhaseFrame DEF IInv, TypeOK, buffer
<1>7. PhaseOf(c)' = <<"asked", k, x>>
  <2>1. pc'[c] = "reserve" /\ call'[c] = k /\ item'[c] = x
    BY <1>1, <1>2, <1>4 DEF IInv, TypeOK
  <2> QED
    BY <2>1 DEF PhaseOf
<1>8. Phases[c] = <<"out">>
  BY <1>4, PhaseCases
<1>9. Promise!Ask(c, k, x)
  BY <1>5, <1>6, <1>7, <1>8 DEF Promise!Ask
<1> QED
  BY <1>3, <1>9, PromiseStep

\* A step of a call that has been asked for, and is not yet claimed or refused.
LEMMA StillAsked ==
  ASSUME IInv, IInv', NEW c \in Ctx, down(c) \/ (claim(c) /\ ~Turn(c)) \/ die(c)
  PROVE  UNCHANGED <<Elements, Phases>>
<1>1. /\ pc[c] \in {"reserve", "claim", "die"}
      /\ \E s \in {"claim", "die"} : pc' = [pc EXCEPT ![c] = s]
      /\ UNCHANGED <<call, item, buffer>>
  <2>1. CASE down(c)
    BY <2>1 DEF down, At, Goto
  <2>2. CASE claim(c) /\ ~Turn(c)
    BY <2>2 DEF claim, At, Goto, buffer
  <2>3. CASE die(c)
    <3>1. pc' = [pc EXCEPT ![c] = "die"]
      BY <2>3 DEF die, At, vars, caller, IInv, TypeOK
    <3> QED
      BY <2>3, <3>1 DEF die, At, vars, caller
  <2> QED
    BY <2>1, <2>2, <2>3
<1>2. pc'[c] \in {"claim", "die"}
  BY <1>1 DEF IInv, TypeOK
<1>3. Elements' = Elements
  BY <1>1, <1>2, ElementFrame DEF IInv, TypeOK, Filling, Moving, buffer
<1>4. Phases' = [Phases EXCEPT ![c] = PhaseOf(c)']
  BY <1>1, PhaseFrame DEF IInv, TypeOK, buffer
<1>5. PhaseOf(c)' = <<"asked", call[c], item[c]>>
  BY <1>1, <1>2 DEF PhaseOf
<1>6. Phases[c] = <<"asked", call[c], item[c]>>
  BY <1>1, PhaseCases
<1>7. Phases' = Phases
  BY <1>4, <1>5, <1>6 DEF Phases
<1> QED
  BY <1>3, <1>7

\* Every reservation and every claim that a refused call may have lost to is of
\* a call in progress.
LEMMA CountOthers ==
  ASSUME NEW c \in Ctx, pc[c] = "reserve", NEW a, NEW b
  PROVE  /\ Promise!Others(c) \in Nat
         /\ Cardinality(Reserving(a)) + Cardinality(Claiming(b)) <= Promise!Others(c)
<1> DEFINE O == {d \in Ctx \ {c} : Phases[d] # <<"out">>}
           R == Reserving(a)
           C == Claiming(b)
<1>0. Promise!Others(c) = Cardinality(O)
  BY DEF Promise!Others, Promise!Cardinality, Cardinality
<1>1. O \in SUBSET Ctx
  OBVIOUS
<1>2. IsFiniteSet(O) /\ Cardinality(O) \in Nat
  BY <1>1, Finite, FS_Subset, FS_CardinalityType
<1>3. R \union C \in SUBSET O
  BY InProgress DEF Reserving, Claiming
<1>4. R \intersect C = {}
  BY DEF Reserving, Claiming
<1>5. /\ IsFiniteSet(R) /\ Cardinality(R) \in Nat
      /\ IsFiniteSet(C) /\ Cardinality(C) \in Nat
  BY Finite
<1> HIDE DEF O, R, C
<1>6. Cardinality(R \union C) = Cardinality(R) + Cardinality(C)
  <2>1. Cardinality(R \union C) =
            Cardinality(R) + Cardinality(C) - Cardinality(R \intersect C)
    BY <1>5, FS_Union
  <2>2. Cardinality(R \intersect C) = 0
    BY <1>4, FS_EmptySet
  <2> QED
    BY <2>1, <2>2, <1>5
<1>7. Cardinality(R \union C) <= Cardinality(O)
  BY <1>2, <1>3, FS_Subset
<1> QED
  BY <1>0, <1>2, <1>6, <1>7 DEF R, C

\* A try_ call is refused when calls in progress have the room or the elements.
LEMMA RefusedRefuses ==
  ASSUME IInv, IInv', NEW c \in Ctx, refused(c)
  PROVE  Promise!Next
<1>1. /\ pc[c] = "reserve" /\ pc' = [pc EXCEPT ![c] = "home"]
      /\ call' = [call EXCEPT ![c] = "none"]
      /\ item' = [item EXCEPT ![c] = NoItem]
      /\ UNCHANGED <<sems, buffer>>
  BY DEF refused, Goto, At, return
<1>2. /\ call[c] \in Push \union Pop /\ (call[c] \in Push <=> call[c] \notin Pop)
      /\ item[c] \in Data \union {NoItem}
  BY <1>1, CallKinds DEF IInv, TypeOK
<1>3. \/ call[c] = "try_push" /\ sem_empty = 0
      \/ call[c] = "try_pop" /\ sem_occupied = 0
  BY <1>2 DEF refused, Count, Takes, Blocking, Push, Pop
<1>4. Elements' = Elements
  BY <1>1, ElementFrame DEF IInv, TypeOK, Filling, Moving, buffer
<1>5. Phases' = [Phases EXCEPT ![c] = PhaseOf(c)']
  BY <1>1, PhaseFrame DEF IInv, TypeOK, buffer
<1>6. PhaseOf(c)' = <<"out">>
  <2>1. pc'[c] = "home"
    BY <1>1 DEF IInv, TypeOK
  <2> QED
    BY <2>1 DEF PhaseOf
<1>7. Phases[c] = <<"asked", call[c], item[c]>>
  BY <1>1, PhaseCases
<1>8. /\ Len(Elements) = Size /\ Size \in 0 .. N /\ N \in Nat
      /\ Size = sem_occupied + Cardinality(Reserving(Pop)) + Cardinality(Claiming(Push))
      /\ N - Size = sem_empty + Cardinality(Reserving(Push)) + Cardinality(Claiming(Pop))
  BY ElementsInv, Bounds, ModulusMultiple DEF Listed, IInv, AccountInv
<1>9. CASE call[c] = "try_push" /\ sem_empty = 0
  <2>1. /\ Promise!Others(c) \in Nat
        /\ Cardinality(Reserving(Push)) + Cardinality(Claiming(Pop)) <= Promise!Others(c)
    BY <1>1, CountOthers
  <2>2. Len(Elements) + Promise!Others(c) >= N
    BY <2>1, <1>8, <1>9, Finite
  <2> QED
    BY <2>2, <1>2, <1>4, <1>5, <1>6, <1>7, <1>9, PromiseStep DEF Promise!Refuse
<1>10. CASE call[c] = "try_pop" /\ sem_occupied = 0
  <2>1. /\ Promise!Others(c) \in Nat
        /\ Cardinality(Reserving(Pop)) + Cardinality(Claiming(Push)) <= Promise!Others(c)
    BY <1>1, CountOthers
  <2>2. Len(Elements) <= Promise!Others(c)
    BY <2>1, <1>8, <1>10, Finite
  <2> QED
    BY <2>2, <1>2, <1>4, <1>5, <1>6, <1>7, <1>10, PromiseStep DEF Promise!Refuse
<1> QED
  BY <1>3, <1>9, <1>10

\* The signal is the last step: what was served is returned.
LEMMA UpReturnsServed ==
  ASSUME IInv, IInv', NEW c \in Ctx, up(c)
  PROVE  Promise!Next
<1>1. /\ pc[c] = "signal" /\ pc' = [pc EXCEPT ![c] = "home"]
      /\ call' = [call EXCEPT ![c] = "none"]
      /\ item' = [item EXCEPT ![c] = NoItem]
      /\ UNCHANGED buffer
  BY UpReturns DEF Goto, return
<1>2. call[c] \in Push \union Pop /\ item[c] \in Data \union {NoItem}
  BY <1>1, CallKinds DEF IInv, TypeOK
<1>3. Elements' = Elements
  BY <1>1, ElementFrame DEF IInv, TypeOK, Filling, Moving, buffer
<1>4. Phases' = [Phases EXCEPT ![c] = PhaseOf(c)']
  BY <1>1, PhaseFrame DEF IInv, TypeOK, buffer
<1>5. PhaseOf(c)' = <<"out">>
  <2>1. pc'[c] = "home"
    BY <1>1 DEF IInv, TypeOK
  <2> QED
    BY <2>1 DEF PhaseOf
<1>6. Phases[c] = <<"served", call[c], item[c]>>
  BY <1>1, PhaseCases
<1> QED
  BY <1>2, <1>3, <1>4, <1>5, <1>6, PromiseStep DEF Promise!Return

\* A push takes effect when it claims its position.
LEMMA ClaimServesPush ==
  ASSUME IInv, IInv', NEW c \in Ctx, claim(c), Turn(c), call[c] \in Push
  PROVE  Promise!Next
<1>1. /\ pc[c] = "claim" /\ pc' = [pc EXCEPT ![c] = "move"]
      /\ pos' = [pos EXCEPT ![c] = Position(Size)]
      /\ UNCHANGED <<call, item, cell>>
      /\ Size \in 0 .. N - 1 /\ Size' = Size + 1
      /\ \A k \in 0 .. N : Position(k)' = Position(k)
  BY PushClaimed
<1>2. /\ call[c] \in Push \union Pop /\ item[c] \in Data \union {NoItem}
      /\ WithProducer /\ Stored /\ Listed /\ WithProducer' /\ Stored' /\ Listed'
      /\ N \in Nat
  BY ElementsInv, ElementsNext, ModulusMultiple DEF IInv, TypeOK
<1>3. /\ \A k \in 0 .. N : Position(k) \in 0 .. Modulus - 1
      /\ \A k, l \in 0 .. N - 1 : Position(k) % N = Position(l) % N => k = l
  BY Ring DEF IInv, TypeOK
<1>4. \A d \in Ctx : /\ Filling(d)' <=> d = c \/ Filling(d)
                     /\ Filling(d) => d # c /\ pos'[d] = pos[d]
  BY <1>1 DEF IInv, TypeOK, Filling, Moving
<1>5. pos'[c] = Position(Size)
  BY <1>1 DEF IInv, TypeOK
<1>6. ASSUME NEW p \in 0 .. Modulus - 1, p # Position(Size)
      PROVE  ElementAt(p)' = ElementAt(p)
  <2>1. CASE \E d \in Ctx : Filling(d) /\ pos[d] = p
    <3>1. PICK d \in Ctx : Filling(d) /\ pos[d] = p
      BY <2>1
    <3>2. ElementAt(pos[d]) = item[d] /\ ElementAt(pos[d])' = item'[d] /\ pos'[d] = p
      BY <3>1, <1>2, <1>4 DEF WithProducer
    <3> QED
      BY <3>1, <3>2, <1>1 DEF ElementAt
  <2>2. CASE \A d \in Ctx : Filling(d) => pos[d] # p
    BY <2>2, <1>1, <1>2, <1>4, <1>5, <1>6 DEF Stored
  <2> QED
    BY <2>1, <2>2
<1>7. ASSUME NEW k \in 1 .. Size'
      PROVE  Elements'[k] = Append(Elements, item[c])[k]
  <2>0. /\ Elements \in Seq(Data \union {NoItem}) /\ Len(Elements) = Size
        /\ k \in 1 .. Len(Elements) + 1
    BY <1>1, <1>2 DEF Listed
  <2>1. k - 1 \in 0 .. N /\ k - 1 \in 0 .. N - 1
    BY <1>1, <1>2
  <2>2. PICK p \in 0 .. Modulus - 1 : p = Position(k - 1)
    BY <2>1, <1>3
  <2>3. Elements'[k] = ElementAt(p)'
    <3>1. ElementAt(Position(k - 1))' = ElementAt(p)'
      BY <2>1, <2>2, <1>1, ElementAtPosition
    <3> QED
      BY <3>1, <1>2 DEF Listed
  <2>4. CASE k = Size + 1
    <3>1. p = pos'[c]
      BY <2>2, <2>4, <1>1, <1>5
    <3>2. ElementAt(pos[c])' = item[c]
      BY <1>1, <1>2, <1>4 DEF WithProducer
    <3>3. ElementAt(p)' = ElementAt(pos[c])'
      BY <3>1 DEF ElementAt
    <3> QED
      BY <3>2, <3>3, <2>0, <2>3, <2>4, <1>2
  <2>5. CASE k # Size + 1
    <3>1. k \in 1 .. Size /\ k - 1 # Size
      BY <2>5, <1>1
    <3>2. p # Position(Size)
      BY <3>1, <2>1, <2>2, <1>1, <1>3
    <3>3. ElementAt(p)' = Elements[k]
      BY <3>1, <3>2, <2>2, <1>2, <1>6 DEF Listed
    <3> QED
      BY <3>1, <3>3, <2>0, <2>3, <1>2
  <2> QED
    BY <2>4, <2>5
<1>8. Elements' = Append(Elements, item[c]) /\ Len(Elements) < N
  <2>1. /\ Elements \in Seq(Data \union {NoItem}) /\ Len(Elements) = Size
        /\ Elements' \in Seq(Data \union {NoItem}) /\ Len(Elements') = Size'
    BY <1>2 DEF Listed
  <2>2. /\ Append(Elements, item[c]) \in Seq(Data \union {NoItem})
        /\ Len(Append(Elements, item[c])) = Len(Elements')
    BY <2>1, <1>1, <1>2
  <2>3. Elements' = Append(Elements, item[c])
    BY <2>1, <2>2, <1>7, SeqEqual
  <2> QED
    BY <2>1, <2>3, <1>1, <1>2
<1>9. Phases' = [Phases EXCEPT ![c] = PhaseOf(c)']
  BY <1>1, PhaseFrame DEF IInv, TypeOK
<1>10. PhaseOf(c)' = <<"served", call[c], item[c]>>
  <2>1. pc'[c] = "move"
    BY <1>1 DEF IInv, TypeOK
  <2> QED
    BY <2>1, <1>1 DEF PhaseOf
<1>11. Phases[c] = <<"asked", call[c], item[c]>>
  BY <1>1, PhaseCases
<1>12. Promise!ServePush(c, call[c], item[c])
  BY <1>8, <1>9, <1>10, <1>11 DEF Promise!ServePush, Promise!Push, Push
<1> QED
  BY <1>2, <1>12, PromiseStep

\* A pop takes effect when it claims its position.
LEMMA ClaimServesPop ==
  ASSUME IInv, IInv', NEW c \in Ctx, claim(c), Turn(c), call[c] \in Pop
  PROVE  Promise!Next
<1>1. /\ pc[c] = "claim" /\ pc' = [pc EXCEPT ![c] = "move"]
      /\ pos' = [pos EXCEPT ![c] = Position(0)]
      /\ UNCHANGED <<call, item, cell>>
      /\ Size \in 1 .. N /\ Size' = Size - 1
      /\ \A k \in 0 .. N - 1 : Position(k)' = Position(k + 1)
      /\ \A d \in Ctx : Moving(d) => pos[d] % N # Position(0) % N
  BY PopClaimed
<1>2. /\ call[c] \in Push \union Pop /\ item[c] \in Data \union {NoItem}
      /\ call[c] \notin Push
      /\ WithProducer /\ Stored /\ Listed /\ WithProducer' /\ Stored' /\ Listed'
      /\ N \in Nat
  BY <1>1, CallKinds, ElementsInv, ElementsNext, ModulusMultiple DEF IInv, TypeOK
<1>3. \A k \in 0 .. N : Position(k) \in 0 .. Modulus - 1
  BY Ring DEF IInv, TypeOK
<1>4. \A d \in Ctx : /\ Filling(d)' <=> Filling(d)
                     /\ Filling(d) => d # c /\ pos'[d] = pos[d] /\ Moving(d)
  BY <1>1, <1>2 DEF IInv, TypeOK, Filling, Moving
<1>5. pos'[c] = Position(0)
  BY <1>1 DEF IInv, TypeOK
<1>6. ASSUME NEW p \in 0 .. Modulus - 1
      PROVE  ElementAt(p)' = ElementAt(p)
  <2>1. CASE \E d \in Ctx : Filling(d) /\ pos[d] = p
    <3>1. PICK d \in Ctx : Filling(d) /\ pos[d] = p
      BY <2>1
    <3>2. ElementAt(pos[d]) = item[d] /\ ElementAt(pos[d])' = item'[d] /\ pos'[d] = p
      BY <3>1, <1>2, <1>4 DEF WithProducer
    <3> QED
      BY <3>1, <3>2, <1>1 DEF ElementAt
  <2>2. CASE \A d \in Ctx : Filling(d) => pos[d] # p
    BY <2>2, <1>1, <1>2, <1>4 DEF Stored
  <2> QED
    BY <2>1, <2>2
<1>7. /\ Elements \in Seq(Data \union {NoItem}) /\ Len(Elements) = Size
      /\ Elements' \in Seq(Data \union {NoItem}) /\ Len(Elements') = Size - 1
      /\ Elements # <<>>
  BY <1>1, <1>2 DEF Listed
<1>8. /\ Tail(Elements) \in Seq(Data \union {NoItem}) /\ Len(Tail(Elements)) = Size - 1
      /\ \A k \in 1 .. Size - 1 : Tail(Elements)[k] = Elements[k + 1]
      /\ Head(Elements) = Elements[1]
  BY <1>7, HeadTailProperties
<1>9. ASSUME NEW k \in 1 .. Size - 1
      PROVE  Elements'[k] = Tail(Elements)[k]
  <2>1. /\ k - 1 \in 0 .. N - 1 /\ k \in 0 .. N /\ (k - 1) + 1 = k
        /\ k + 1 \in 1 .. Size /\ (k + 1) - 1 = k
    BY <1>1, <1>2
  <2>2. PICK p \in 0 .. Modulus - 1 : p = Position(k)
    BY <2>1, <1>3
  <2>3. Position(k - 1)' = p
    <3>1. Position(k - 1)' = Position((k - 1) + 1)
      BY <2>1, <1>1
    <3> QED
      BY <3>1, <2>1, <2>2
  <2>4. Elements'[k] = ElementAt(p)'
    <3>1. ElementAt(Position(k - 1))' = ElementAt(p)'
      BY <2>3, ElementAtPosition
    <3> QED
      BY <3>1, <1>1, <1>2 DEF Listed
  <2>5. Elements[k + 1] = ElementAt(p)
    <3>1. Elements[k + 1] = ElementAt(Position((k + 1) - 1))
      BY <2>1, <1>2 DEF Listed
    <3> QED
      BY <3>1, <2>1, <2>2
  <2> QED
    BY <2>2, <2>4, <2>5, <1>6, <1>8
<1>10. Elements' = Tail(Elements)
  BY <1>7, <1>8, <1>9, SeqEqual
<1>11. Head(Elements) = cell[Position(0) % N]
  <2>1. Elements[1] = ElementAt(Position(0))
    <3>1. 1 \in 1 .. Size /\ 1 - 1 = 0
      BY <1>1, <1>2
    <3>2. Elements[1] = ElementAt(Position(1 - 1))
      BY <3>1, <1>2 DEF Listed
    <3> QED
      BY <3>1, <3>2
  <2>2. \A d \in Ctx : Filling(d) => pos[d] # Position(0)
    BY <1>1, <1>4
  <2>3. Position(0) \in 0 .. Modulus - 1
    BY <1>2, <1>3
  <2> QED
    BY <2>1, <2>2, <2>3, <1>2, <1>8 DEF Stored
<1>12. Phases' = [Phases EXCEPT ![c] = PhaseOf(c)']
  BY <1>1, PhaseFrame DEF IInv, TypeOK
<1>13. PhaseOf(c)' = <<"served", call[c], Head(Elements)>>
  <2>1. pc'[c] = "move"
    BY <1>1 DEF IInv, TypeOK
  <2>2. PhaseOf(c)' = <<"served", call'[c], cell'[pos'[c] % N]>>
    BY <2>1, <1>1, <1>2 DEF PhaseOf
  <2> QED
    BY <2>2, <1>1, <1>5, <1>11
<1>14. Phases[c] = <<"asked", call[c], item[c]>>
  BY <1>1, PhaseCases
<1>15. Promise!ServePop(c, call[c], item[c])
  BY <1>7, <1>10, <1>12, <1>13, <1>14 DEF Promise!ServePop, Promise!Pop, Pop
<1> QED
  BY <1>2, <1>15, PromiseStep

\* A move is not seen from outside: the element was in the queue, or out of it,
\* already.
LEMMA MoveUnseen ==
  ASSUME IInv, IInv', NEW c \in Ctx, move(c)
  PROVE  UNCHANGED <<Elements, Phases>>
<1>1. /\ Moving(c) /\ pc' = [pc EXCEPT ![c] = "signal"]
      /\ pos' = [pos EXCEPT ![c] = 0] /\ UNCHANGED call
      /\ Size' = Size /\ \A k \in 0 .. N : Position(k)' = Position(k)
  BY Moved
<1>2. /\ pos[c] \in 0 .. Modulus - 1 /\ pos[c] % N \in 0 .. N - 1
      /\ Filling(c) \/ Emptying(c)
      /\ Filling(c) => ~Emptying(c)
  BY <1>1, MovingCell DEF Filling, Emptying, Push, Pop
<1>3. /\ Filling(c) => cell' = [cell EXCEPT ![pos[c] % N] = item[c]] /\ item' = item
      /\ Emptying(c) => /\ cell' = [cell EXCEPT ![pos[c] % N] = NoItem]
                        /\ item' = [item EXCEPT ![c] = cell[pos[c] % N]]
  BY DEF move, Filling, Emptying, Push, Pop
<1>4. /\ WithProducer /\ Stored /\ Listed /\ WithProducer' /\ Stored' /\ Listed'
      /\ Size \in 0 .. N /\ N \in Nat
  BY ElementsInv, ElementsNext, Bounds, ModulusMultiple
<1>5. /\ \A k \in 0 .. N : Position(k) \in 0 .. Modulus - 1
      /\ \A k, l \in 0 .. N - 1 : Position(k) % N = Position(l) % N => k = l
  BY Ring DEF IInv, TypeOK
<1>6. \A d \in Ctx : /\ Filling(d)' <=> d # c /\ Filling(d)
                     /\ d # c => pos'[d] = pos[d] /\ item'[d] = item[d]
                     /\ d # c /\ Moving(d) => pos[d] % N # pos[c] % N
                     /\ Filling(d) \/ Emptying(d) => Moving(d)
  <2>1. \A d \in Ctx : d # c => pos'[d] = pos[d] /\ item'[d] = item[d]
    BY <1>1, <1>2, <1>3 DEF IInv, TypeOK
  <2>2. \A d \in Ctx : Filling(d)' <=> d # c /\ Filling(d)
    BY <1>1 DEF IInv, TypeOK, Filling, Moving
  <2>3. \A d \in Ctx : d # c /\ Moving(d) => pos[d] % N # pos[c] % N
    BY <1>1 DEF IInv, CellInv
  <2> QED
    BY <2>1, <2>2, <2>3 DEF Filling, Emptying
<1>7. \A i \in 0 .. N - 1 : i # pos[c] % N => cell'[i] = cell[i]
  BY <1>2, <1>3 DEF IInv, TypeOK
<1>8. ASSUME NEW k \in 1 .. Size
      PROVE  ElementAt(Position(k - 1))' = ElementAt(Position(k - 1))
  <2>1. k - 1 \in 0 .. N /\ k - 1 \in 0 .. Size - 1 /\ k - 1 \in 0 .. N - 1
    BY <1>4
  <2>2. PICK p \in 0 .. Modulus - 1 : p = Position(k - 1)
    BY <2>1, <1>5
  <2>3. ElementAt(Position(k - 1))' = ElementAt(p)'
    BY <2>1, <2>2, <1>1, ElementAtPosition
  <2>4. CASE \E d \in Ctx : d # c /\ Filling(d) /\ pos[d] = p
    <3>1. PICK d \in Ctx : d # c /\ Filling(d) /\ pos[d] = p
      BY <2>4
    <3>2. ElementAt(pos[d]) = item[d] /\ ElementAt(pos[d])' = item'[d] /\ pos'[d] = p
      BY <3>1, <1>4, <1>6 DEF WithProducer
    <3>3. ElementAt(pos[d])' = ElementAt(p)'
      BY <3>2 DEF ElementAt
    <3> QED
      BY <3>1, <3>2, <3>3, <2>2, <2>3, <1>6
  <2>5. CASE Filling(c) /\ pos[c] = p
    <3>1. \A d \in Ctx : Filling(d)' => pos'[d] # p
      BY <2>5, <1>6
    <3>2. ElementAt(p)' = cell'[p % N]
      BY <3>1, <1>4 DEF Stored
    <3>3. cell'[p % N] = item[c]
      BY <2>5, <1>2, <1>3 DEF IInv, TypeOK
    <3>4. ElementAt(p) = item[c]
      BY <2>5, <1>4 DEF WithProducer
    <3> QED
      BY <3>2, <3>3, <3>4, <2>2, <2>3
  <2>6. CASE \A d \in Ctx : Filling(d) => pos[d] # p
    <3>1. p % N # pos[c] % N
      <4>1. CASE Filling(c)
        <5>1. PICK j \in 0 .. Size - 1 : pos[c] = Position(j)
          BY <4>1, <1>1, MovingCell
        <5>2. j \in 0 .. N - 1 /\ j # k - 1
          BY <5>1, <4>1, <2>2, <2>6, <1>4
        <5> QED
          BY <5>1, <5>2, <2>1, <2>2, <1>5
      <4>2. CASE Emptying(c)
        <5>1. PICK j \in Size .. N - 1 : pos[c] % N = Position(j) % N
          BY <4>2, <1>1, MovingCell
        <5>2. j \in 0 .. N - 1 /\ j # k - 1
          BY <2>1, <1>4
        <5> QED
          BY <5>1, <5>2, <2>1, <2>2, <1>5
      <4> QED
        BY <4>1, <4>2, <1>2
    <3>2. p % N \in 0 .. N - 1
      BY Successors
    <3>3. ElementAt(p) = cell[p % N] /\ ElementAt(p)' = cell'[p % N]
      BY <2>6, <1>4, <1>6 DEF Stored
    <3> QED
      BY <3>1, <3>2, <3>3, <2>2, <2>3, <1>7
  <2> QED
    BY <2>4, <2>5, <2>6
<1>9. Elements' = Elements
  BY <1>1, <1>4, <1>8, SameElements
<1>10. Phases' = [Phases EXCEPT ![c] = PhaseOf(c)']
  <2>1. ASSUME NEW d \in Ctx \ {c}, Emptying(d)
        PROVE  cell'[pos'[d] % N] = cell[pos[d] % N]
    <3>1. pos[d] % N \in 0 .. N - 1
      BY <2>1, <1>6, MovingCell
    <3> QED
      BY <3>1, <2>1, <1>6, <1>7
  <2>2. \A d \in Ctx \ {c} : pc'[d] = pc[d] /\ call'[d] = call[d] /\ item'[d] = item[d]
    BY <1>1, <1>6 DEF IInv, TypeOK
  <2> QED
    BY <2>1, <2>2, PhaseFrame
<1>11. PhaseOf(c)' = Phases[c]
  <2>1. pc'[c] = "signal"
    BY <1>1 DEF IInv, TypeOK
  <2>2. PhaseOf(c)' = <<"served", call[c], item'[c]>>
    BY <2>1, <1>1 DEF PhaseOf
  <2>3. /\ Filling(c) => item'[c] = item[c]
        /\ Emptying(c) => item'[c] = cell[pos[c] % N]
    BY <1>3 DEF IInv, TypeOK
  <2>4. /\ Filling(c) => Phases[c] = <<"served", call[c], item[c]>>
        /\ Emptying(c) => Phases[c] = <<"served", call[c], cell[pos[c] % N]>>
    BY PhaseCases
  <2> QED
    BY <2>2, <2>3, <2>4, <1>2
<1>12. Phases' = Phases
  BY <1>10, <1>11 DEF Phases
<1> QED
  BY <1>9, <1>12

\* The channel implements the bounded queue that it promises: however the calls
\* overlap, each takes effect at one moment between its begin and its return,
\* elements come out in the order they went in, and a try_ call is refused only
\* when calls in progress may have used up the room or the elements.
THEOREM ChannelIsFifo == Spec => ImplementsFifo
<1>1. Init => Promise!Init
  <2> SUFFICES ASSUME Init PROVE Promise!Init
    OBVIOUS
  <2>1. Elements = <<>>
    <3>1. Size = 0
      BY ModulusMultiple DEF Init, Size
    <3>2. Elements \in Seq(Data \union {NoItem}) /\ Len(Elements) = 0
      BY <3>1, Initially, ElementsInv DEF Listed
    <3> QED
      BY <3>2, EmptySeq
  <2>2. Phases = [c \in Ctx |-> <<"out">>]
    BY DEF Init, Phases, PhaseOf
  <2> QED
    BY <2>1, <2>2 DEF Promise!Init
<1>2. IInv /\ IInv' /\ [Next]_vars => [Promise!Next]_<<Elements, Phases>>
  <2> SUFFICES ASSUME IInv, IInv', [Next]_vars
               PROVE  Promise!Next \/ UNCHANGED <<Elements, Phases>>
    OBVIOUS
  <2>1. CASE UNCHANGED vars
    <3>1. UNCHANGED <<pc, call, item, sequence, cell, enqueue_pos, dequeue_pos, pos>>
      BY <2>1 DEF vars, caller, buffer
    <3>2. Elements' = Elements
      BY <3>1, ElementFrame DEF Filling, Moving
    <3>3. Phases' = Phases
      BY <3>1 DEF Phases, PhaseOf
    <3> QED
      BY <3>2, <3>3
  <2>2. CASE Next
    <3>1. PICK c \in Ctx : begin(c) \/ proceed(c) \/ die(c)
      BY <2>2 DEF Next
    <3>2. CASE claim(c)
      <4>1. call[c] \in Push \union Pop
        BY <3>2, CallKinds DEF claim, At
      <4> QED
        BY <3>2, <4>1, StillAsked, ClaimServesPush, ClaimServesPop
    <3> QED
      BY <3>1, <3>2, BeginAsks, StillAsked, RefusedRefuses, MoveUnseen, UpReturnsServed
         DEF proceed
  <2> QED
    BY <2>1, <2>2
<1> QED
  BY <1>1, <1>2, Invariance, PTL DEF Spec, ImplementsFifo, Promise!Spec
=============================================================================
