-------------------------------- MODULE Tlsf --------------------------------
(***************************************************************************)
(* The heap of the quiesce hypapp: malloc.c over the two-level segregated  *)
(* fit allocator of tlsf.c.  mem_init makes one pool at start-up, and the  *)
(* hypapp allocates its process map and its page list from it.             *)
(*                                                                         *)
(* Sizes and addresses are bytes.  Address 0 is the first block header of  *)
(* the pool.  A header is two words, prev_phys_block and size, and a       *)
(* block's prev_phys_block word is the last word of the block before it:   *)
(* user data while that block is used.  The model holds the headers of     *)
(* the blocks that exist (mem), writes NoBlock into a prev_phys_block that *)
(* has become user data, and lets the flag bits of a header carved out of  *)
(* user data start with any value.  A free list is a sequence of blocks.   *)
(***************************************************************************)
EXTENDS Integers, Sequences, FiniteSets, SequencesExt

CONSTANTS
    AlignLog2,   \* ALIGN_SIZE_LOG2
    SlLog2,      \* SL_INDEX_COUNT_LOG2
    FlMax,       \* FL_INDEX_MAX
    PoolBytes,   \* pool_bytes of tlsf_create
    Sizes,       \* the sizes callers ask for
    Aligns,      \* the alignments callers of tlsf_memalign ask for
    MaxLive      \* bound on the pointers held at once

VARIABLES
    heap,        \* [mem, fl, sl, blocks]: the headers and pool_t
    owned        \* the pointers callers hold, with the size and alignment asked for

vars == <<heap, owned>>

AlignSize == 2^AlignLog2
FlShift == SlLog2 + AlignLog2
FlCount == FlMax - FlShift + 1
SmallBlockSize == 2^FlShift
Overhead == AlignSize
StartOffset == 2 * AlignSize
HeaderSize == 4 * AlignSize
BlockSizeMin == 3 * AlignSize
BlockSizeMax == 2^FlMax
Lists == (0 .. FlCount - 1) \X (0 .. 2^SlLog2 - 1)
NoBlock == -1
Sentinel == PoolBytes + Overhead

\* align_down(bytes - pool_overhead, ALIGN_SIZE), and the range tlsf_create accepts.
ASSUME PoolAssumption ==
    /\ AlignLog2 \in Nat /\ SlLog2 \in Nat /\ FlMax \in Nat /\ FlMax > FlShift
    /\ PoolBytes \in BlockSizeMin .. BlockSizeMax - 1 /\ PoolBytes % AlignSize = 0

Larger(a, b) == IF a > b THEN a ELSE b
AlignUp(x, a) == ((x + a - 1) \div a) * a
Fls(n) == CHOOSE i \in 0 .. FlMax + 1 : 2^i <= n /\ n < 2^(i + 1)
Least(S) == CHOOSE i \in S : \A j \in S : i <= j

-----------------------------------------------------------------------------
(* Block headers. *)

NextOf(h, b) == b + h.mem[b].size + Overhead
ToPtr(b) == b + StartOffset
FromPtr(p) == p - StartOffset

LinkNext(h, b) == [h EXCEPT !.mem[NextOf(h, b)].prev = b]

MarkAsFree(h, b) ==
    [LinkNext(h, b) EXCEPT !.mem[NextOf(h, b)].prevFree = TRUE, !.mem[b].free = TRUE]

\* The last word of a used block is the caller's: it is the next block's
\* prev_phys_block no more.
MarkAsUsed(h, b) ==
    [h EXCEPT !.mem[NextOf(h, b)].prevFree = FALSE,
              !.mem[NextOf(h, b)].prev = NoBlock,
              !.mem[b].free = FALSE]

-----------------------------------------------------------------------------
(* Size classes, free lists and bitmaps. *)

AdjustRequestSize(size, align) ==
    IF size = 0 \/ size >= BlockSizeMax THEN 0
    ELSE Larger(AlignUp(size, align), BlockSizeMin)

MappingInsert(size) ==
    IF size < SmallBlockSize
    THEN <<0, size \div (SmallBlockSize \div 2^SlLog2)>>
    ELSE <<Fls(size) - (FlShift - 1), (size \div 2^(Fls(size) - SlLog2)) - 2^SlLog2>>

\* Mutant: the search starts in the request's own class.
RoundUpForgotten(size) == size

RoundUp(size) ==
    IF size >= 2^SlLog2 THEN size + 2^(Fls(size) - SlLog2) - 1 ELSE size

MappingSearch(size) == MappingInsert(RoundUp(size))

\* The list search_suitable_block settles on: NoBlock when both bitmaps are
\* empty from the class asked for upwards.
SearchSuitableBlock(h, class) ==
    LET sls == {s \in h.sl[class[1]] : s >= class[2]}
        fls == {f \in h.fl : f > class[1]}
    IN  CASE sls # {} -> Head(h.blocks[<<class[1], Least(sls)>>])
          [] sls = {} /\ fls # {} -> Head(h.blocks[<<Least(fls), Least(h.sl[Least(fls)])>>])
          [] OTHER -> NoBlock

\* Mutant: taking any block out of a list clears its bit.
BlockRemoveClears(h, b) ==
    LET class == MappingInsert(h.mem[b].size)
    IN  [h EXCEPT !.blocks[class] = SelectSeq(@, LAMBDA x : x # b),
                  !.sl[class[1]] = @ \ {class[2]},
                  !.fl = IF h.sl[class[1]] = {class[2]} THEN @ \ {class[1]} ELSE @]

\* The bitmaps change only when the block taken out was the head and was alone.
BlockRemove(h, b) ==
    LET class == MappingInsert(h.mem[b].size)
        list == h.blocks[class]
        sls == h.sl[class[1]] \ {class[2]}
    IN  [h EXCEPT !.blocks[class] = SelectSeq(list, LAMBDA x : x # b),
                  !.sl[class[1]] = IF list = <<b>> THEN sls ELSE @,
                  !.fl = IF list = <<b>> /\ sls = {} THEN @ \ {class[1]} ELSE @]

BlockInsert(h, b) ==
    LET class == MappingInsert(h.mem[b].size)
    IN  [h EXCEPT !.blocks[class] = <<b>> \o @,
                  !.sl[class[1]] = @ \union {class[2]},
                  !.fl = @ \union {class[1]}]

-----------------------------------------------------------------------------
(* Splitting and merging.  junk is what the flag bits of the new header    *)
(* were before it was one.                                                 *)

CanSplit(h, b, size) == h.mem[b].size >= HeaderSize + size

Remaining(b, size) == b + size + Overhead

BlockSplit(h, b, size, junk) ==
    LET r == Remaining(b, size)
        cut == [a \in DOMAIN h.mem \union {r} |->
                 CASE a = r -> [size |-> h.mem[b].size - (size + Overhead),
                                free |-> junk, prevFree |-> junk, prev |-> NoBlock]
                   [] a = b /\ a # r -> [h.mem[b] EXCEPT !.size = size]
                   [] OTHER -> h.mem[a]]
    IN  MarkAsFree([h EXCEPT !.mem = cut], r)

BlockAbsorb(h, p, b) ==
    LinkNext([h EXCEPT !.mem = [a \in DOMAIN h.mem \ {b} |->
                 IF a = p THEN [h.mem[p] EXCEPT !.size = @ + h.mem[b].size + Overhead]
                          ELSE h.mem[a]]], p)

\* Mutant: a freed block is merged forwards only.
MergePrevNever(h, b) == [heap |-> h, block |-> b]

\* block_merge_prev: the heap, and the block the storage is in now.
MergePrev(h, b) ==
    IF h.mem[b].prevFree
    THEN [heap |-> BlockAbsorb(BlockRemove(h, h.mem[b].prev), h.mem[b].prev, b),
          block |-> h.mem[b].prev]
    ELSE [heap |-> h, block |-> b]

MergeNext(h, b) ==
    LET n == NextOf(h, b)
    IN  IF h.mem[n].free THEN BlockAbsorb(BlockRemove(h, n), b, n) ELSE h

TrimFree(h, b, size, junk) ==
    LET r == Remaining(b, size)
        cut == LinkNext(BlockSplit(h, b, size, junk), b)
    IN  IF CanSplit(h, b, size)
        THEN BlockInsert([cut EXCEPT !.mem[r].prevFree = TRUE], r)
        ELSE h

\* Mutant: what a shrinking realloc cuts off is not coalesced.
TrimUsedAlone(h, b, size, junk) ==
    LET r == Remaining(b, size)
        cut == BlockSplit(h, b, size, junk)
    IN  IF CanSplit(h, b, size)
        THEN BlockInsert([cut EXCEPT !.mem[r].prevFree = FALSE], r)
        ELSE h

TrimUsed(h, b, size, junk) ==
    LET r == Remaining(b, size)
        cut == BlockSplit(h, b, size, junk)
    IN  IF CanSplit(h, b, size)
        THEN BlockInsert(MergeNext([cut EXCEPT !.mem[r].prevFree = FALSE], r), r)
        ELSE h

TrimFreeLeading(h, b, size, junk) ==
    LET r == Remaining(b, size - Overhead)
        cut == BlockSplit(h, b, size - Overhead, junk)
    IN  IF CanSplit(h, b, size)
        THEN [heap |-> BlockInsert(LinkNext([cut EXCEPT !.mem[r].prevFree = TRUE], b), b),
              block |-> r]
        ELSE [heap |-> h, block |-> b]

-----------------------------------------------------------------------------
(* The operations.  Each gives the heap it leaves and the pointer it       *)
(* returns, 0 for NULL.                                                    *)

LocateFree(h, size) ==
    IF size = 0 THEN NoBlock ELSE SearchSuitableBlock(h, MappingSearch(size))

PrepareUsed(h, b, size, junk) ==
    [heap |-> MarkAsUsed(TrimFree(h, b, size, junk), b), ptr |-> ToPtr(b)]

TlsfMalloc(h, size, junk) ==
    LET adjust == AdjustRequestSize(size, AlignSize)
        b == LocateFree(h, adjust)
    IN  IF b = NoBlock THEN [heap |-> h, ptr |-> 0]
        ELSE PrepareUsed(BlockRemove(h, b), b, adjust, junk)

\* The distance from ptr to the aligned address tlsf_memalign takes: far
\* enough for a free block of its own in front, or nothing.
AlignGap(ptr, align) ==
    LET first == AlignUp(ptr, align)
    IN  IF first - ptr \in 1 .. HeaderSize - 1
        THEN AlignUp(first + Larger(HeaderSize - (first - ptr), align), align) - ptr
        ELSE first - ptr

TlsfMemalign(h, align, size, junk) ==
    LET adjust == AdjustRequestSize(size, AlignSize)
        withGap == AdjustRequestSize(adjust + align + HeaderSize, align)
        b == LocateFree(h, IF align <= AlignSize THEN adjust ELSE withGap)
        gap == AlignGap(ToPtr(b), align)
        taken == BlockRemove(h, b)
        lead == IF gap = 0 THEN [heap |-> taken, block |-> b]
                ELSE TrimFreeLeading(taken, b, gap, junk)
    IN  IF b = NoBlock THEN [heap |-> h, ptr |-> 0]
        ELSE PrepareUsed(lead.heap, lead.block, adjust, junk)

TlsfFree(h, ptr) ==
    LET m == MergePrev(MarkAsFree(h, FromPtr(ptr)), FromPtr(ptr))
    IN  BlockInsert(MergeNext(m.heap, m.block), m.block)

\* size # 0 and ptr # NULL: the other two cases are tlsf_free and tlsf_malloc.
TlsfRealloc(h, ptr, size, junk) ==
    LET b == FromPtr(ptr)
        n == NextOf(h, b)
        cursize == h.mem[b].size
        combined == cursize + h.mem[n].size + Overhead
        adjust == AdjustRequestSize(size, AlignSize)
        moved == TlsfMalloc(h, size, junk)
        grown == IF adjust > cursize THEN MarkAsUsed(MergeNext(h, b), b) ELSE h
    IN  IF adjust > cursize /\ (~h.mem[n].free \/ adjust > combined)
        THEN IF moved.ptr = 0 THEN moved
             ELSE [moved EXCEPT !.heap = TlsfFree(moved.heap, ptr)]
        ELSE [heap |-> TrimUsed(grown, b, adjust, junk), ptr |-> ptr]

-----------------------------------------------------------------------------
(* tlsf_create, and the callers. *)

Create ==
    LET empty == [mem |-> [a \in {0, Sentinel} |->
                            IF a = 0
                            THEN [size |-> PoolBytes, free |-> TRUE,
                                  prevFree |-> FALSE, prev |-> NoBlock]
                            ELSE [size |-> 0, free |-> FALSE,
                                  prevFree |-> TRUE, prev |-> 0]],
                  fl |-> {}, sl |-> [f \in 0 .. FlCount - 1 |-> {}],
                  blocks |-> [class \in Lists |-> <<>>]]
    IN  BlockInsert(empty, 0)

Init ==
    /\ heap = Create
    /\ owned = <<>>

Hold(held, ptr, req) ==
    [p \in DOMAIN held \union {ptr} |-> IF p = ptr THEN req ELSE held[p]]
Drop(held, ptr) == [p \in DOMAIN held \ {ptr} |-> held[p]]

Return(r, held, size, align) ==
    /\ heap' = r.heap
    /\ owned' = IF r.ptr = 0 THEN held
                ELSE Hold(held, r.ptr, [size |-> size, align |-> align])

Malloc(size, junk) ==
    /\ Cardinality(DOMAIN owned) < MaxLive
    /\ Return(TlsfMalloc(heap, size, junk), owned, size, AlignSize)

Memalign(align, size, junk) ==
    /\ Cardinality(DOMAIN owned) < MaxLive
    /\ Return(TlsfMemalign(heap, align, size, junk), owned, size, align)

Free(ptr) ==
    /\ heap' = TlsfFree(heap, ptr)
    /\ owned' = Drop(owned, ptr)

\* A failed realloc leaves the caller with the pointer it had.
Realloc(ptr, size, junk) ==
    LET r == TlsfRealloc(heap, ptr, size, junk)
    IN  Return(r, IF r.ptr = 0 THEN owned ELSE Drop(owned, ptr), size, AlignSize)

Next ==
    \/ \E size \in Sizes, junk \in BOOLEAN : Malloc(size, junk)
    \/ \E align \in Aligns, size \in Sizes, junk \in BOOLEAN :
          Memalign(align, size, junk)
    \/ \E ptr \in DOMAIN owned : Free(ptr)
    \/ \E ptr \in DOMAIN owned, size \in Sizes, junk \in BOOLEAN :
          Realloc(ptr, size, junk)

Spec == Init /\ [][Next]_vars

-----------------------------------------------------------------------------
(* Properties. *)

FreeBlocks == {b \in DOMAIN heap.mem : heap.mem[b].free}

\* tlsf_check_heap: the walk from the first block meets consistent flags, and
\* each list holds coalesced free blocks of its class under set bits.
CheckHeap(h) ==
    /\ ~h.mem[0].prevFree
    /\ \A b \in DOMAIN h.mem \ {Sentinel} : h.mem[NextOf(h, b)].prevFree = h.mem[b].free
    /\ \A class \in Lists :
        LET listed == Range(h.blocks[class])
        IN  /\ (listed # {}) <=> class[2] \in h.sl[class[1]]
            /\ class[2] \in h.sl[class[1]] => class[1] \in h.fl
            /\ \A b \in listed : /\ h.mem[b].free /\ ~h.mem[b].prevFree
                                 /\ ~h.mem[NextOf(h, b)].free
                                 /\ h.mem[b].size >= BlockSizeMin
                                 /\ MappingInsert(h.mem[b].size) = class

\* After every operation the heap passes the allocator's own integrity check,
\* tlsf_check_heap, the blocks fill the pool from end to end, and each free
\* block is in exactly one list, once, with the header after it pointing back.
HeapIntact ==
    /\ \A b \in DOMAIN heap.mem \ {Sentinel} :
        /\ NextOf(heap, b) \in DOMAIN heap.mem
        /\ \A a \in DOMAIN heap.mem : ~(b < a /\ a < NextOf(heap, b))
    /\ CheckHeap(heap)
    /\ \A b \in FreeBlocks :
        /\ heap.mem[NextOf(heap, b)].prev = b
        /\ Len(SelectSeq(heap.blocks[MappingInsert(heap.mem[b].size)],
                         LAMBDA x : x = b)) = 1

\* Every pointer a caller holds is the data of a used block of the pool that
\* is at least as long and as aligned as the caller asked for, and every used
\* block belongs to a caller: nothing is handed out twice, cut short or leaked.
CallersKeepMemory ==
    /\ {FromPtr(p) : p \in DOMAIN owned}
           = DOMAIN heap.mem \ (FreeBlocks \union {Sentinel})
    /\ \A p \in DOMAIN owned : /\ heap.mem[FromPtr(p)].size >= owned[p].size
                              /\ p % owned[p].align = 0

\* tlsf_malloc gives up only when no free block is as long as the request
\* rounded up to its size class, and what it finds is long enough: the two
\* bitmaps and the class arithmetic never hide a block.
SearchComplete ==
    \A size \in Sizes :
        LET adjust == AdjustRequestSize(size, AlignSize)
            found == LocateFree(heap, adjust)
        IN  IF found = NoBlock
            THEN \A b \in FreeBlocks : heap.mem[b].size < RoundUp(adjust)
            ELSE found \in FreeBlocks /\ heap.mem[found].size >= adjust

\* When every pointer has been freed the pool is one block again, as
\* tlsf_create made it: no sequence of operations fragments the heap for good.
EmptyHeapIsWhole == owned = <<>> => heap = Create
=============================================================================
