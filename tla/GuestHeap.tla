------------------------------ MODULE GuestHeap ------------------------------
(***************************************************************************)
(* The guest heap: Allocator of src/mem/allocator.rs, the allocation calls *)
(* of src/mem.rs, and the aligned allocations that libc builds on them.    *)
(*                                                                         *)
(* The address space is split into chunks, in use or not. Addresses and    *)
(* sizes count 32-bit words. A call is one step, unless it finds no chunk: *)
(* then the loop of coalesce_unused_chunks takes a step per chunk, in      *)
(* place, and the call tries again. Which of several chunks of the best    *)
(* size is taken depends on the order of a bucket, which is not modelled.  *)
(*                                                                         *)
(* Memory is zero or not, word by word; of its contents only the headers   *)
(* of aligned allocations matter to the host.                              *)
(***************************************************************************)
EXTENDS Integers, FiniteSets

CONSTANTS MinChunk,    (* MIN_CHUNK_SIZE                                   *)
          PageSize,    (* PAGE_SIZE                                        *)
          StackBase,   (* MAIN_THREAD_STACK_LOW_END                        *)
          MemTop,      (* the size of the address space                    *)
          MaxAlloc,    (* MAX_DEFENSIVE_GUEST_ALLOCATION                   *)
          ZeroOnFree,  (* Mem.zero_memory_on_free                          *)
          Segments,    (* the null segment and those of the binaries       *)
          Sizes,       (* the sizes that the guest program asks for        *)
          Alignments,  (* the alignments, beyond the natural one           *)
          Calls,       (* the allocation calls that it makes               *)
          MaxLive      (* bound on the blocks it has at a time             *)

Chunk(b, n) == [base |-> b, size |-> n]
End(c) == c.base + c.size
Span(c) == c.base..(End(c) - 1)

Multiple(a, n) == \E k \in 0..a : a = k * n
PageAligned(a) == Multiple(a, PageSize)

(* What Chunk::new and SizeBucketedChunkMap::insert assert of a chunk.     *)
Sound(c) ==
  /\ c.size >= MinChunk
  /\ c.size >= PageSize => PageAligned(c.base)

ASSUME HeapAssumption ==
  /\ MinChunk \in Nat \ {0}
  /\ PageSize \in Nat \ {0} /\ Multiple(PageSize, MinChunk)
  /\ StackBase \in Nat /\ PageAligned(StackBase) /\ PageSize < StackBase
  /\ MemTop \in Nat /\ StackBase < MemTop /\ PageAligned(MemTop)
  /\ MaxAlloc \in Nat
  /\ ZeroOnFree \in BOOLEAN
  /\ \A s \in Segments :
       /\ s \in [base : Nat, size : Nat \ {0}]
       /\ PageAligned(s.base) /\ PageAligned(s.size)
       /\ PageSize <= s.base /\ End(s) <= StackBase
  (* Well-formed binaries: the reservation of a segment that overlaps      *)
  (* another would be skipped, and its bytes copied over the other.        *)
  /\ \A s, u \in Segments : s # u => Span(s) \cap Span(u) = {}
  /\ Sizes \subseteq Nat \ {0}
  /\ Alignments \subseteq Nat \ {0}
  /\ MaxLive \in Nat

VARIABLES heap,     (* used_chunks, unused_chunks and freed_bases          *)
          dirty,    (* the words that are not zero                         *)
          headers,  (* where memory holds the header of an aligned         *)
                    (* allocation, and the address it gives                *)
          pc,       (* "load", "idle" or "coalesce"                        *)
          call,     (* the call that waits for coalesce_unused_chunks      *)
          last,     (* base of the last merged chunk, 0 before the first   *)
          live,     (* history: the blocks the guest has got and not freed *)
          lost      (* history: chunks of aligned blocks that a call has   *)
                    (* not found a way to free                             *)

vars == <<heap, dirty, headers, pc, call, last, live, lost>>
memory == <<dirty, headers>>

Addresses == 0..(MemTop - 1)
NoCall == [op |-> "none"]

Block(ptr, size, raw, op) == [ptr |-> ptr, size |-> size, raw |-> raw, by |-> op]

-----------------------------------------------------------------------------
(* Allocator::align, and the rounding of alloc.                            *)
CeilTo(n, u) == IF n % u = 0 THEN n ELSE n + (u - (n % u))

RoundUp(n) ==
  IF n >= PageSize THEN CeilTo(n, PageSize)
  ELSE CeilTo(IF n < MinChunk THEN MinChunk ELSE n, MinChunk)

(* SizeBucketedChunkMap::bucket_for                                        *)
BucketFor(n) ==
  CHOOSE k \in 0..n : 2^k * MinChunk <= n /\ n < 2^(k + 1) * MinChunk

Bucket(h, k) == {c \in h.unused : BucketFor(c.size) = k}

BestFits(S, n) ==
  {c \in S : c.size >= n /\ \A d \in S : d.size >= n => c.size <= d.size}

(* Mutant: the search stops at the bucket after that of the size.          *)
MutCandidates(h, n) ==
  LET own == BestFits(Bucket(h, BucketFor(n)), n)
      next == Bucket(h, BucketFor(n) + 1)
  IN IF own # {} THEN own ELSE BestFits(next, n)

(* allocate: the bucket of the size, or else the next that is not empty.   *)
Candidates(h, n) ==
  LET own == BestFits(Bucket(h, BucketFor(n)), n)
      larger == {c \in h.unused : BucketFor(c.size) > BucketFor(n)}
      next == {c \in larger : \A d \in larger : BucketFor(c.size) <= BucketFor(d.size)}
  IN IF own # {} THEN own ELSE BestFits(next, n)

(* Mutant: the first of the two remaining chunks ends a page after its own *)
(* base, instead of at the page boundary.                                  *)
MutRump(c, n) ==
  IF c.size = n THEN {}
  ELSE IF c.size - n >= PageSize /\ ~PageAligned(c.base + n)
    THEN {Chunk(c.base + n, PageSize),
          Chunk(c.base + PageSize, c.size - PageSize)}
    ELSE {Chunk(c.base + n, c.size - n)}

(* What allocate_in_bucket gives back of a chunk it takes n words of.      *)
Rump(c, n) ==
  IF c.size = n THEN {}
  ELSE IF c.size - n >= PageSize /\ ~PageAligned(c.base + n)
    THEN {Chunk(c.base + n, PageSize - n),
          Chunk(c.base + PageSize, c.size - PageSize)}
    ELSE {Chunk(c.base + n, c.size - n)}

Take(h, c, n) ==
  [used   |-> h.used \cup {Chunk(c.base, n)},
   unused |-> (h.unused \ {c}) \cup Rump(c, n),
   freed  |-> h.freed \ {c.base}]

(* Mutant: chunks are joined whatever their alignment.                     *)
MutCanJoin(b, n) == TRUE

(* Allocator::free merges with one neighbour: the one after, or else the   *)
(* one before, unless a chunk of a page or more would not be aligned.      *)
CanJoin(b, n) == n < PageSize \/ PageAligned(b)

Neighbour(h, f) ==
  LET after == {c \in h.unused : c.base = End(f)}
  IN IF after # {} THEN after ELSE {c \in h.unused : End(c) = f.base}

Join(c, d) ==
  Chunk(IF c.base < d.base THEN c.base ELSE d.base, c.size + d.size)

Merged(h, f) ==
  LET joined == {a \in Neighbour(h, f) :
                   LET j == Join(a, f) IN CanJoin(j.base, j.size)}
  IN (h.unused \ joined) \cup
       (IF joined = {} THEN {f} ELSE {Join(a, f) : a \in joined})

Release(h, f) ==
  [used   |-> h.used \ {f},
   unused |-> Merged(h, f),
   freed  |-> h.freed \cup {f.base}]

-----------------------------------------------------------------------------
Init ==
  /\ heap = [used   |-> {Chunk(0, PageSize),
                         Chunk(StackBase, MemTop - StackBase)},
             unused |-> {Chunk(PageSize, StackBase - PageSize)},
             freed  |-> {}]
  /\ dirty = {}
  /\ headers = {}
  /\ pc = "load"
  /\ call = NoCall
  /\ last = 0
  /\ live = {}
  /\ lost = {}

(* Allocator::reserve, by set_null_segment_size and the loader.            *)
Encloses(c, s) == c.base <= s.base /\ End(s) <= End(c)

Sides(c, s) ==
  (IF s.base > c.base THEN {Chunk(c.base, s.base - c.base)} ELSE {}) \cup
  (IF End(c) > End(s) THEN {Chunk(End(s), End(c) - End(s))} ELSE {})

reserve(s) ==
  /\ pc = "load"
  /\ \E c \in heap.unused :
       /\ Encloses(c, s)
       /\ heap' = [heap EXCEPT !.used = @ \cup {s},
                               !.unused = (@ \ {c}) \cup Sides(c, s)]
  /\ dirty' = dirty \cup Span(s)
  /\ UNCHANGED <<headers, pc, call, last, live, lost>>

Loaded ==
  /\ pc = "load"
  /\ Segments \subseteq heap.used
  /\ pc' = "idle"
  /\ UNCHANGED <<heap, memory, call, last, live, lost>>

-----------------------------------------------------------------------------
(* The contents of memory.                                                 *)
Header(at) == {at - 2, at - 1}

Erase(W) ==
  /\ dirty' = dirty \ W
  /\ headers' = {hd \in headers : Header(hd.at) \cap W = {}}

(* Mem::alloc clears what was asked for if free does not.                  *)
Cleared(base, n) == IF ZeroOnFree THEN {} ELSE base..(base + n - 1)

(* Mem::free: the chunk at the address, or the one that a header before it *)
(* gives; other addresses are refused.                                     *)
Known(h, a) == {f \in h.used : f.base = a}

(* Mutant: an address inside a block frees the block.                      *)
MutFreeTarget(h, a) == {f \in h.used : f.base <= a /\ a < End(f)}

(* Mutant: the header of an aligned allocation is not looked for.          *)
MutFreeTargetPlain(h, a) == Known(h, a)

FreeTarget(h, a) ==
  IF Known(h, a) # {} THEN Known(h, a)
  ELSE UNION {Known(h, hd.raw) : hd \in {x \in headers : x.at = a}}

AlignUp(a, n) == CeilTo(a, n)

(* What is left of a call once it has got the n words at base.             *)
FinishMalloc(h, cl, base) ==
  /\ heap' = h
  /\ Erase(Cleared(base, cl.size))
  /\ live' = live \cup {Block(base, cl.size, base, cl.op)}
  /\ UNCHANGED lost

(* posix_memalign leaves a header of two words, malloc_zone_memalign only  *)
(* the second of them.                                                     *)
FinishAligned(h, cl, base) ==
  LET words == IF cl.op = "posix_memalign" THEN 2 ELSE 1
      at == AlignUp(base + words, cl.align)
      W == (at - words)..(at - 1)
      new == IF words = 2 THEN {[at |-> at, raw |-> base]} ELSE {}
      C == Cleared(base, cl.need)
  IN /\ heap' = h
     /\ dirty' = (dirty \ C) \cup W
     /\ headers' = {hd \in headers : Header(hd.at) \cap (C \cup W) = {}} \cup new
     /\ live' = live \cup {Block(at, cl.size, base, cl.op)}
     /\ UNCHANGED lost

(* No header leads from a block of malloc_zone_memalign to its chunk.      *)
Stranded(B, gone) ==
  {b.raw : b \in {x \in B : gone = {} /\ x.by = "zone_memalign"}}

(* Mem::realloc copies what the allocator finds at the old address, which  *)
(* is nothing if the block is an aligned one, and frees the old block.     *)
FinishRealloc(h, cl, base) ==
  LET old == cl.old
      from == UNION {Span(c) : c \in Known(h, old.ptr)}
      gone == FreeTarget(h, old.ptr)
      zeroed == IF ZeroOnFree THEN UNION {Span(c) : c \in gone} ELSE {}
      C == Cleared(base, cl.size)
      copy == {base + (a - old.ptr) : a \in dirty \cap from}
  IN /\ heap' = IF gone = {} THEN h ELSE Release(h, CHOOSE c \in gone : TRUE)
     /\ dirty' = ((dirty \ C) \cup copy) \ zeroed
     /\ headers' = {hd \in headers : Header(hd.at) \cap (C \cup zeroed) = {}}
     /\ live' = (live \ {old}) \cup {Block(base, cl.size, base, cl.op)}
     /\ lost' = lost \cup Stranded({old}, gone)

Finish(h, cl, base) ==
  \/ cl.op = "malloc" /\ FinishMalloc(h, cl, base)
  \/ cl.op \in {"posix_memalign", "zone_memalign"} /\ FinishAligned(h, cl, base)
  \/ cl.op = "realloc" /\ FinishRealloc(h, cl, base)

(* Allocator::alloc, at its first try and at its second.                   *)
FirstTry(cl) ==
  LET n == RoundUp(cl.need) IN
  /\ pc = "idle"
  /\ cl.op \in Calls
  /\ cl.need <= MaxAlloc
  /\ Cardinality(live) + Cardinality(lost) < MaxLive
  /\ IF Candidates(heap, n) # {}
       THEN /\ \E c \in Candidates(heap, n) : Finish(Take(heap, c, n), cl, c.base)
            /\ UNCHANGED <<pc, call, last>>
       ELSE /\ pc' = "coalesce" /\ call' = cl /\ last' = 0
            /\ UNCHANGED <<heap, memory, live, lost>>

Malloc(n) ==
  FirstTry([op |-> "malloc", size |-> n, need |-> n])

Memalign(n, a) ==
  FirstTry([op |-> "posix_memalign", size |-> n, align |-> a, need |-> n + a + 2])

ZoneMemalign(n, a) ==
  FirstTry([op |-> "zone_memalign", size |-> n, align |-> a, need |-> n + a + 1])

Realloc(b, n) ==
  /\ \A c \in Known(heap, b.ptr) : c.size < n
  /\ FirstTry([op |-> "realloc", old |-> b, size |-> n, need |-> n])

-----------------------------------------------------------------------------
(* The loop of coalesce_unused_chunks.                                     *)
Ahead == {c \in heap.unused : c.base > last}

CoalesceStep ==
  /\ pc = "coalesce"
  /\ \E c \in Ahead :
       /\ \A d \in Ahead : c.base <= d.base
       /\ LET previous == {p \in heap.unused :
                             /\ p.base = last /\ End(p) = c.base
                             /\ CanJoin(p.base, p.size + c.size)}
          IN IF previous = {}
               THEN last' = c.base /\ UNCHANGED heap
               ELSE /\ heap' = [heap EXCEPT !.unused = (@ \ (previous \cup {c}))
                                                  \cup {Join(p, c) : p \in previous}]
                    /\ UNCHANGED last
  /\ UNCHANGED <<memory, pc, call, live, lost>>

SecondTry ==
  LET n == RoundUp(call.need) IN
  /\ pc = "coalesce"
  /\ Ahead = {}
  /\ pc' = "idle" /\ call' = NoCall /\ last' = 0
  /\ IF Candidates(heap, n) # {}
       THEN \E c \in Candidates(heap, n) : Finish(Take(heap, c, n), call, c.base)
       ELSE UNCHANGED <<heap, memory, live, lost>>

-----------------------------------------------------------------------------
(* Mutant: what is freed is not cleared.                                   *)
MutFree(a) ==
  /\ pc = "idle"
  /\ PageSize <= a /\ a < StackBase
  /\ \A s \in Segments : a # s.base
  /\ \A b \in live : a # b.raw \/ a = b.ptr
  /\ live' = {b \in live : b.ptr # a}
  /\ lost' = lost \cup Stranded({b \in live : b.ptr = a}, FreeTarget(heap, a))
  /\ IF FreeTarget(heap, a) = {} THEN UNCHANGED heap
       ELSE \E f \in FreeTarget(heap, a) : heap' = Release(heap, f)
  /\ UNCHANGED <<memory, pc, call, last>>

(* free, of any address in its range: also one that the guest has freed,   *)
(* or never got. But it frees neither its segments nor, by accident, the   *)
(* chunk of another block: the host could not tell.                        *)
Free(a) ==
  /\ pc = "idle"
  /\ PageSize <= a /\ a < StackBase
  /\ \A s \in Segments : a # s.base
  /\ \A b \in live : a # b.raw \/ a = b.ptr
  /\ live' = {b \in live : b.ptr # a}
  /\ lost' = lost \cup Stranded({b \in live : b.ptr = a}, FreeTarget(heap, a))
  /\ LET gone == FreeTarget(heap, a) IN
       IF gone = {}
         THEN UNCHANGED <<heap, memory>>
         ELSE \E f \in gone :
                /\ heap' = Release(heap, f)
                /\ Erase(IF ZeroOnFree THEN Span(f) ELSE {})
  /\ UNCHANGED <<pc, call, last>>

(* malloc_zone_free does not look for a header.                            *)
ZoneFree(b) ==
  /\ pc = "idle"
  /\ "zone_free" \in Calls
  /\ live' = live \ {b}
  /\ lost' = IF b.ptr = b.raw THEN lost ELSE lost \cup {b.raw}
  /\ IF Known(heap, b.ptr) = {}
       THEN UNCHANGED <<heap, memory>>
       ELSE \E f \in Known(heap, b.ptr) :
              /\ heap' = Release(heap, f)
              /\ Erase(IF ZeroOnFree THEN Span(f) ELSE {})
  /\ UNCHANGED <<pc, call, last>>

(* The guest fills a block of its own.                                     *)
Write(b) ==
  /\ pc = "idle"
  /\ LET W == b.ptr..(b.ptr + b.size - 1)
     IN  /\ dirty' = dirty \cup W
         /\ headers' = {hd \in headers : Header(hd.at) \cap W = {}}
  /\ UNCHANGED <<heap, pc, call, last, live, lost>>

-----------------------------------------------------------------------------
Load == Loaded \/ \E s \in Segments : reserve(s)

Guest ==
  \/ \E n \in Sizes : Malloc(n) \/ \E b \in live : Realloc(b, n)
  \/ \E n \in Sizes, a \in Alignments : Memalign(n, a) \/ ZoneMemalign(n, a)
  \/ \E a \in Addresses : Free(a)
  \/ \E b \in live : ZoneFree(b) \/ Write(b)

Allocator == CoalesceStep \/ SecondTry

Next == Load \/ Guest \/ Allocator

Spec == Init /\ [][Next]_vars

-----------------------------------------------------------------------------
Chunks == heap.used \cup heap.unused

TypeOK ==
  /\ heap \in [used : SUBSET [base : Nat, size : Nat \ {0}],
               unused : SUBSET [base : Nat, size : Nat \ {0}],
               freed : SUBSET Nat]
  /\ dirty \subseteq Addresses
  /\ headers \subseteq [at : Addresses, raw : Addresses]
  /\ pc \in {"load", "idle", "coalesce"}
  /\ last \in Addresses
  /\ live \subseteq [ptr : Addresses, size : Nat, raw : Addresses, by : STRING]
  /\ lost \subseteq Addresses

(* The chunks never overlap and leave nothing out: no word of the address  *)
(* space is handed out twice, and none is lost by a split, a merge, a      *)
(* reservation or in the middle of coalescing.                             *)
Partition ==
  /\ heap.used \cap heap.unused = {}
  /\ \A c, d \in Chunks : c # d => End(c) <= d.base \/ End(d) <= c.base
  /\ \A a \in Addresses : \E c \in Chunks : c.base <= a /\ a < End(c)

(* No split or merge makes a chunk that the assertions of Chunk::new and   *)
(* of the size buckets would refuse.                                       *)
ChunksSound == \A c \in Chunks : Sound(c)

(* Every block of the guest lies in a chunk in use, and no two in the same *)
(* one, whatever else the guest frees: not a double free, not an address   *)
(* inside a block, not the stale header of an aligned allocation.          *)
LiveBacked ==
  /\ \A b \in live : \E c \in heap.used :
       /\ c.base = b.raw
       /\ b.raw <= b.ptr /\ b.ptr + b.size <= End(c)
  /\ \A b, d \in live : b.raw = d.raw => b = d

(* What is in use is reserved or the guest's: nothing it has freed leaks,  *)
(* except the blocks of malloc_zone_memalign, and aligned ones that are    *)
(* given to malloc_zone_free.                                              *)
NothingLeaks ==
  \A c \in heap.used :
    \/ c.base = 0 \/ c.base = StackBase
    \/ c \in Segments
    \/ \E b \in live : b.raw = c.base
    \/ c.base \in lost

(* Every chunk is in front of a block that leads to it, until it is freed. *)
NothingLost == lost = {}

(* An address in use is not reported as one that has been freed.           *)
FreedNotInUse == \A c \in heap.used : c.base \notin heap.freed

(* The buckets never hide a chunk: the search fails only if no chunk is    *)
(* large enough.                                                           *)
SearchComplete ==
  \A n \in {RoundUp(s) : s \in Sizes} :
    (\E c \in heap.unused : c.size >= n) => Candidates(heap, n) # {}

(* A block is all zero when the guest gets it, unless realloc copied to it.*)
FreshIsZero ==
  [][\A b \in live' \ live :
       live \subseteq live' =>
         (b.ptr..(b.ptr + b.size - 1)) \cap dirty' = {}]_vars
=============================================================================
