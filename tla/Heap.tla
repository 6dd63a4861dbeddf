------------------------------- MODULE Heap -------------------------------
(***************************************************************************)
(* The heap of src/allocator/heap.rs and its entry points in               *)
(* src/allocator/mod.rs.  Memory is divided into chunks.  A chunk begins   *)
(* with a header word: its size, whether it is allocated and whether its   *)
(* left neighbour is.  A free chunk ends with a footer word, its size.     *)
(* Free chunks are kept in lists by size class; the chunk that was freed   *)
(* last is not free yet but cached.                                        *)
(*                                                                         *)
(* Calls come from SVC, from PendSV (free only) and, before the scheduler  *)
(* starts, from the boot code.  None of these preempts another, and an     *)
(* interrupt handler that calls is stopped by die_if_not_in_svc, so a call *)
(* is one step.                                                            *)
(*                                                                         *)
(* A list is the set of its members: search_first_fit may find any fitting *)
(* chunk of the first list that has one, whatever the order of the list.   *)
(***************************************************************************)
EXTENDS Integers, FiniteSets, FiniteSetsExt

CONSTANTS
    DataEnd,        \* end of the static data
    RamEnd,         \* end of the memory
    LinkOffset,     \* __MEM_CHUNK_LINK_OFFSET, from where links count
    MaxList,        \* the last list, 5 in the code
    CacheSlack,     \* how much larger the cached chunk may be, 512 in the code
    Requests,       \* the sizes that are asked for
    Junk            \* what users leave in their memory, as a word

HDR_SIZE == 4
GUARD_SIZE == 4
FREE_CHUNK_MIN_SIZE == 12
Null == 0

\* mcu_heap_init: a multiple of 4 that is not a multiple of 8.
HEAP_START ==
    LET d == ((DataEnd + 3) \div 4) * 4 IN
    IF d % 8 = 0 THEN d + 4 ELSE d

Guard == RamEnd - GUARD_SIZE
Addr == {a \in HEAP_START .. Guard : a % 4 = 0}
Word == [size : Nat, self : BOOLEAN, left : BOOLEAN]
ListIndex == 0 .. MaxList

ASSUME MemoryAssumption ==
    /\ DataEnd \in Nat \ {0} /\ RamEnd \in Nat
    /\ RamEnd % 8 = 0
    /\ RamEnd - HEAP_START >= FREE_CHUNK_MIN_SIZE + 8
\* A link has 16 bits and counts words.
ASSUME LinkAssumption ==
    /\ LinkOffset \in Nat /\ LinkOffset % 4 = 0 /\ LinkOffset <= HEAP_START
    /\ RamEnd - LinkOffset <= 4 * 65536
ASSUME ListAssumption == MaxList \in Nat /\ CacheSlack \in Nat
ASSUME RequestAssumption == Requests \subseteq Nat \ {0}
ASSUME JunkAssumption == Junk \in Word

VARIABLES
    mem,                  \* the words of the heap
    list,                 \* the free lists, without their sentinels
    CACHED,
    HIGH_WATER_MARK, CUR_ALLOC_SIZE, MAX_ALLOC_SIZE,
    live,                 \* the headers of the chunks in use, and the size
                          \* that was asked for
    hung                  \* out of memory, the kernel loops

heapvars == <<mem, list, CACHED, HIGH_WATER_MARK, CUR_ALLOC_SIZE, MAX_ALLOC_SIZE, live, hung>>

-----------------------------------------------------------------------------
(***************************************************************************)
(* Headers and footers in a memory m.                                      *)
(***************************************************************************)
right(m, a) == a + m[a].size
left(m, a) == a - m[a - 4].size

\* set_free_chunk_hdr_ftr; the left flag is cleared too.
set_free_chunk_hdr_ftr(m, a, size) ==
    [m EXCEPT ![a] = [size |-> size, self |-> FALSE, left |-> FALSE],
              ![(a + size) - 4] = [size |-> size, self |-> FALSE, left |-> FALSE]]

\* 27 - leading_zeros(size), saturating, at most MaxList: the number of the
\* lists above the first whose least size is reached.
chunk_size_to_list_index(size) == Cardinality({i \in 1 .. MaxList : size >= 16 * 2 ^ i})

\* The links by which the chunks of a list are chained.
ptr_to_link(a) == ((a - LinkOffset) \div 4) % 65536
link_to_ptr(link) == LinkOffset + 4 * link

\* unlink_chunk, link_chunk: a list has the addresses to which its links lead.
unlink_chunk(l, a) == [i \in ListIndex |-> l[i] \ {a}]
link_chunk(l, a, size) ==
    [l EXCEPT ![chunk_size_to_list_index(size)] = @ \union {link_to_ptr(ptr_to_link(a))}]

\* The chunks search_first_fit may return; none stands for null.
search_first_fit(size) ==
    LET from == Min({chunk_size_to_list_index(size) + 1, MaxList})
        fit(i) == {a \in list[i] : mem[a].size >= size}
    IN  UNION {fit(i) : i \in {j \in from .. MaxList : \A k \in from .. j - 1 : fit(k) = {}}}

\* The words of a chunk that its user may write.
Payload(a, request) == {w \in Addr : a + 4 <= w /\ w < a + 4 + request}

-----------------------------------------------------------------------------
(***************************************************************************)
(* Faults: what a plausible mistake in heap.rs would make of an operator   *)
(* below.  No specification uses them.                                     *)
(***************************************************************************)
\* The chunk keeps its size when the excess is split off.
split_not_shrunk(a, size) ==
    IF mem[a].size >= size + FREE_CHUNK_MIN_SIZE
      THEN set_free_chunk_hdr_ftr(mem, a + size, mem[a].size - size)
      ELSE mem

\* The sizes may differ either way.
cache_near(size) ==
    /\ CACHED # Null
    /\ mem[CACHED].size + CacheSlack >= size
    /\ mem[CACHED].size - size <= CacheSlack

-----------------------------------------------------------------------------
(***************************************************************************)
(* mcu_heap_init: one free chunk, and a guard header behind it.            *)
(***************************************************************************)
InitHeap ==
    LET size == Guard - HEAP_START
        blank == [a \in Addr |-> Junk]
    IN
    /\ mem = [set_free_chunk_hdr_ftr(blank, HEAP_START, size) EXCEPT
                 ![HEAP_START].left = TRUE,
                 ![Guard] = [size |-> 0, self |-> TRUE, left |-> FALSE]]
    /\ list = link_chunk([i \in ListIndex |-> {}], HEAP_START, size)
    /\ CACHED = Null
    /\ HIGH_WATER_MARK = 0 /\ CUR_ALLOC_SIZE = 0 /\ MAX_ALLOC_SIZE = 0
    /\ live = << >>
    /\ hung = FALSE

-----------------------------------------------------------------------------
(***************************************************************************)
(* mcu_malloc, called from kernel_malloc.                                  *)
(***************************************************************************)
\* The size of the chunk for a request.
chunk_size(request) ==
    LET least == Max({request + HDR_SIZE, 16}) IN
    ((least + 7) \div 8) * 8

\* return_excess_to_free_list, on memory and lists
Excess(a, size) == mem[a].size >= size + FREE_CHUNK_MIN_SIZE

excess_mem(a, size) ==
    IF Excess(a, size)
      THEN [set_free_chunk_hdr_ftr(mem, a + size, mem[a].size - size) EXCEPT ![a].size = size]
      ELSE mem

excess_list(l, a, size) ==
    IF Excess(a, size) THEN link_chunk(l, a + size, mem[a].size - size) ELSE l

\* set_self_allocated, set_left_allocated, and set_left_allocated in the
\* header on the right
set_allocated(m, a) ==
    [m EXCEPT ![a].self = TRUE, ![a].left = TRUE, ![right(m, a)].left = TRUE]

\* The headers of the chunks in use, with chunk a.
Taken(a, request) == [c \in DOMAIN live \union {a} |-> IF c = a THEN request ELSE live[c]]

\* The user of chunk a writes what was asked for.
UserWrites(m, a, request) == [w \in Addr |-> IF w \in Payload(a, request) THEN Junk ELSE m[w]]

CacheServes(size) ==
    /\ CACHED # Null
    /\ mem[CACHED].size >= size
    /\ mem[CACHED].size - size <= CacheSlack

malloc_cached(request) ==
    /\ ~hung
    /\ CacheServes(chunk_size(request))
    /\ live' = Taken(CACHED, request)
    /\ mem' = UserWrites(mem, CACHED, request)
    /\ CACHED' = Null
    /\ UNCHANGED <<list, HIGH_WATER_MARK, CUR_ALLOC_SIZE, MAX_ALLOC_SIZE, hung>>

malloc_first_fit(request) ==
    LET size == chunk_size(request) IN
    /\ ~hung
    /\ ~CacheServes(size)
    /\ \E a \in search_first_fit(size) :
          LET m == set_allocated(excess_mem(a, size), a) IN
          /\ mem' = UserWrites(m, a, request)
          /\ list' = excess_list(unlink_chunk(list, a), a, size)
          /\ HIGH_WATER_MARK' = Max({HIGH_WATER_MARK, right(m, a)})
          /\ CUR_ALLOC_SIZE' = CUR_ALLOC_SIZE + m[a].size
          /\ live' = Taken(a, request)
    /\ MAX_ALLOC_SIZE' = Max({MAX_ALLOC_SIZE, CUR_ALLOC_SIZE'})
    /\ UNCHANGED <<CACHED, hung>>

\* kernel_malloc loops with interrupts disabled on a null pointer.
malloc_null(request) ==
    /\ ~hung
    /\ ~CacheServes(chunk_size(request)) /\ search_first_fit(chunk_size(request)) = {}
    /\ hung' = TRUE
    /\ UNCHANGED <<mem, list, CACHED, HIGH_WATER_MARK, CUR_ALLOC_SIZE, MAX_ALLOC_SIZE, live>>

-----------------------------------------------------------------------------
(***************************************************************************)
(* mcu_free, called from kernel_free.                                      *)
(***************************************************************************)
\* Without the chunk whose header is a.
Freed(a) == [c \in DOMAIN live \ {a} |-> live[c]]

free_to_cache(a) ==
    /\ ~hung /\ CACHED = Null
    /\ CACHED' = a
    /\ live' = Freed(a)
    /\ UNCHANGED <<mem, list, HIGH_WATER_MARK, CUR_ALLOC_SIZE, MAX_ALLOC_SIZE, hung>>

\* merge_neighbor_if_possible: the neighbours to merge with, where the merged
\* chunk begins, and its size.
left_of(a) == IF ~mem[a].left THEN {left(mem, a)} ELSE {}
right_of(a) == IF ~mem[right(mem, a)].self THEN {right(mem, a)} ELSE {}

merged_hdr(a) == IF ~mem[a].left THEN left(mem, a) ELSE a

total_size(a) ==
    LET left_size == IF ~mem[a].left THEN mem[left(mem, a)].size ELSE 0
        right_size == IF ~mem[right(mem, a)].self THEN mem[right(mem, a)].size ELSE 0
    IN  mem[a].size + left_size + right_size

\* set_this_free, set_ftr_chunk_size, set_left_allocated, and set_left_free in
\* the header on the right
freed_mem(a, size) ==
    [mem EXCEPT ![a] = [size |-> size, self |-> FALSE, left |-> TRUE],
                ![(a + size) - 4] = [size |-> size, self |-> FALSE, left |-> FALSE],
                ![a + size].left = FALSE]

\* The chunk that was cached is freed, the new one takes its place.
free_cached(new) ==
    LET a == CACHED
        neighbours == left_of(a) \union right_of(a)
        first == merged_hdr(a)
        size == total_size(a)
    IN
    /\ ~hung /\ CACHED # Null
    /\ CACHED' = new
    /\ live' = Freed(new)
    /\ CUR_ALLOC_SIZE' = CUR_ALLOC_SIZE - mem[a].size
    /\ mem' = freed_mem(first, size)
    /\ list' = link_chunk([i \in ListIndex |-> list[i] \ neighbours], first, size)
    /\ UNCHANGED <<HIGH_WATER_MARK, MAX_ALLOC_SIZE, hung>>

-----------------------------------------------------------------------------
HeapNext ==
    \/ \E request \in Requests :
          malloc_cached(request) \/ malloc_first_fit(request) \/ malloc_null(request)
    \/ \E a \in DOMAIN live : free_to_cache(a) \/ free_cached(a)

HeapSpec == InitHeap /\ [][HeapNext]_heapvars

-----------------------------------------------------------------------------
Free == UNION {list[i] : i \in ListIndex}
InUse == DOMAIN live \union ({CACHED} \ {Null})
Chunks == Free \union InUse

\* What the chunks with the headers S take of memory m.
Bytes(m, S) == {b \in HEAP_START .. Guard - 1 : \E a \in S : a <= b /\ b < right(m, a)}

HeapTypeOK ==
    /\ mem \in [Addr -> Word]
    /\ list \in [ListIndex -> SUBSET Addr]
    /\ CACHED \in Addr \union {Null}
    /\ {HIGH_WATER_MARK, CUR_ALLOC_SIZE, MAX_ALLOC_SIZE} \subseteq Nat
    /\ DOMAIN live \subseteq Addr /\ \A a \in DOMAIN live : live[a] \in Requests
    /\ hung \in BOOLEAN

(***************************************************************************)
(* The chunks that are listed, in use or cached are distinct and tile the  *)
(* heap: each one ends where the next begins, the last at the guard.  No   *)
(* memory is lost, and none is given out twice.                            *)
(***************************************************************************)
ChunksTile ==
    /\ Free \intersect InUse = {} /\ CACHED \notin DOMAIN live
    /\ HEAP_START \in Chunks
    /\ \A a \in Chunks : mem[a].size >= 16 /\ right(mem, a) \in Chunks \union {Guard}
    /\ \A a, c \in Chunks : a < c => right(mem, a) <= c

(***************************************************************************)
(* The boundary tags tell the truth, so that a merge reads a size only     *)
(* where one was written: the flags of a header agree with the chunk and   *)
(* its left neighbour, and a free chunk ends with its size.                *)
(***************************************************************************)
TagsTruthful ==
    /\ \A a \in Chunks : mem[a].self <=> a \in InUse
    /\ mem[HEAP_START].left
    /\ \A a \in Chunks : mem[right(mem, a)].left <=> a \in InUse
    /\ \A a \in Free : mem[right(mem, a) - 4] = [size |-> mem[a].size, self |-> FALSE, left |-> FALSE]
    /\ mem[Guard].self /\ mem[Guard].size = 0

(***************************************************************************)
(* "We maintain the invariant that there is no adjacent free chunks"       *)
(* (heap.rs), and a free chunk is in the list of its size, where           *)
(* search_first_fit looks for it, and in no other.                         *)
(***************************************************************************)
FreeChunksMerged ==
    /\ \A a \in Free : right(mem, a) \notin Free
    /\ \A i \in ListIndex : \A a \in list[i] : chunk_size_to_list_index(mem[a].size) = i

(***************************************************************************)
(* CUR_ALLOC_SIZE counts the bytes of the chunks in use and of the cached  *)
(* one, and the high water mark lies behind every one of them.             *)
(***************************************************************************)
AllocSizeExact ==
    /\ CUR_ALLOC_SIZE = Cardinality(Bytes(mem, InUse))
    /\ CUR_ALLOC_SIZE <= MAX_ALLOC_SIZE
    /\ \A a \in InUse : right(mem, a) <= HIGH_WATER_MARK

(***************************************************************************)
(* All of them together, after whatever allocations and frees: each        *)
(* operation of heap.rs relies on them and has to restore them.            *)
(***************************************************************************)
HeapSound == ChunksTile /\ TagsTruthful /\ FreeChunksMerged /\ AllocSizeExact

(***************************************************************************)
(* A user gets memory that is aligned to 8 bytes and large enough, also    *)
(* when it is the cached chunk, and the allocator does not touch it until  *)
(* it is freed.                                                            *)
(***************************************************************************)
PayloadIntact ==
    \A a \in DOMAIN live :
        /\ (a + 4) % 8 = 0
        /\ live[a] <= mem[a].size - HDR_SIZE
        /\ \A w \in Payload(a, live[a]) : mem[w] = Junk

(***************************************************************************)
(* What the induction needs besides: headers lie 4 bytes before a multiple *)
(* of 8, and every chunk but the first has a left neighbour.               *)
(***************************************************************************)
Aligned == \A a \in Chunks : a % 8 = 4 /\ mem[a].size % 8 = 0

Connected == \A a \in Chunks \ {HEAP_START} : \E c \in Chunks : right(mem, c) = a

HeapInv == HeapTypeOK /\ HeapSound /\ PayloadIntact /\ Aligned /\ Connected
=============================================================================
