-------------------------- MODULE GuestHeapProofs --------------------------
(***************************************************************************)
(* That the chunks of the guest heap always tile the address space, and    *)
(* that the blocks of the guest keep theirs, proved for every page size,   *)
(* address space and choice of the program's calls.                        *)
(*                                                                         *)
(* Every operation replaces a few chunks by others that cover the same     *)
(* words (Retile); what is left to show of each is that the new chunks are *)
(* well placed, which is arithmetic of multiples. Blocks and headers are   *)
(* then followed through the two things a call does to chunks: it takes    *)
(* one (GiveOwns) or releases one (ReleaseOwns).                           *)
(***************************************************************************)
EXTENDS GuestHeap, FiniteSetTheorems, WellFoundedInduction, TLAPS

(* A chunk that may stand in the heap; Sound follows (PlacedIsSound).      *)
Placed(c) ==
  /\ c \in [base : Nat, size : Nat \ {0}]
  /\ End(c) <= MemTop
  /\ Multiple(c.base, MinChunk) /\ Multiple(c.size, MinChunk)
  /\ c.size >= PageSize => PageAligned(c.base)

Disjoint(c, d) == End(c) <= d.base \/ End(d) <= c.base
Within(a, c) == c.base <= a /\ a < End(c)

Tiling(S) ==
  /\ \A c \in S : Placed(c)
  /\ \A c, d \in S : c # d => Disjoint(c, d)
  /\ \A a \in Addresses : \E c \in S : Within(a, c)

HeapOK(h) ==
  /\ h \in [used : SUBSET [base : Nat, size : Nat \ {0}],
            unused : SUBSET [base : Nat, size : Nat \ {0}],
            freed : SUBSET Nat]
  /\ h.used \cap h.unused = {}
  /\ Tiling(h.used \cup h.unused)
  /\ \A c \in h.used : c.base \notin h.freed

(* A size that Allocator::alloc looks for.                                 *)
Rounded(n) ==
  /\ n \in Nat \ {0}
  /\ Multiple(n, MinChunk)
  /\ n >= PageSize => Multiple(n, PageSize)

IInv ==
  /\ HeapOK(heap)
  /\ pc = "load" => heap.freed = {}
  /\ pc = "coalesce" => call.need \in Nat \ {0}

-----------------------------------------------------------------------------
(* Multiples.                                                              *)
LEMMA MultipleSum ==
  ASSUME NEW n \in Nat \ {0}, NEW a \in Nat, NEW b \in Nat,
         Multiple(a, n), Multiple(b, n)
  PROVE  Multiple(a + b, n)
<1>1. PICK k \in 0..a : a = k * n  BY DEF Multiple
<1>2. PICK l \in 0..b : b = l * n  BY DEF Multiple
<1>3. k + l \in 0..(a + b)  BY <1>1, <1>2
<1>4. a + b = (k + l) * n  BY <1>1, <1>2
<1> QED  BY <1>3, <1>4 DEF Multiple

(* The difference of two multiples is one.                                 *)
LEMMA MultipleDifference ==
  ASSUME NEW n \in Nat \ {0}, NEW a \in Nat, NEW b \in Nat,
         Multiple(a, n), Multiple(b, n), b <= a
  PROVE  Multiple(a - b, n)
<1>1. PICK k \in 0..a : a = k * n  BY DEF Multiple
<1>2. PICK l \in 0..b : b = l * n  BY DEF Multiple
<1>3. a - b = (k - l) * n  BY <1>1, <1>2
<1>4. k - l >= 0
  <2>1. CASE k < l
    <3>1. (l - k) * n >= n  BY <2>1
    <3>2. (l - k) * n = l * n - k * n  OBVIOUS
    <3> QED  BY <3>1, <3>2, <1>1, <1>2
  <2> QED  BY <2>1
<1>5. k - l <= (k - l) * n  BY <1>4
<1>6. k - l \in 0..(a - b)  BY <1>3, <1>4, <1>5
<1> QED  BY <1>3, <1>6 DEF Multiple

(* A multiple of a multiple of a unit is a multiple of the unit.           *)
LEMMA MultipleTransitive ==
  ASSUME NEW m \in Nat \ {0}, NEW n \in Nat \ {0}, NEW a \in Nat,
         Multiple(a, n), Multiple(n, m)
  PROVE  Multiple(a, m)
<1>1. PICK k \in 0..a : a = k * n  BY DEF Multiple
<1>2. PICK l \in 0..n : n = l * m  BY DEF Multiple
<1> DEFINE j == k * l
<1>3. j \in Nat  BY <1>1, <1>2
<1>4. a = j * m  BY <1>1, <1>2
<1> HIDE DEF j
<1>5. j <= j * m  BY <1>3
<1>6. j \in 0..a  BY <1>3, <1>4, <1>5
<1> QED  BY <1>4, <1>6 DEF Multiple

(* A positive multiple is at least the unit.                               *)
LEMMA MultipleAtLeast ==
  ASSUME NEW n \in Nat \ {0}, NEW a \in Nat \ {0}, Multiple(a, n)
  PROVE  a >= n
<1>1. PICK k \in 0..a : a = k * n  BY DEF Multiple
<1>2. k >= 1  BY <1>1
<1> QED  BY <1>1, <1>2

(* Every unit is a multiple of itself, and zero is one of every unit.      *)
LEMMA MultipleSelf ==
  ASSUME NEW n \in Nat \ {0}
  PROVE  Multiple(n, n) /\ Multiple(0, n)
BY DEF Multiple

(* Rounding up gives the next multiple, less than one unit away.           *)
LEMMA CeilToIsNext ==
  ASSUME NEW n \in Nat, NEW u \in Nat \ {0}
  PROVE  /\ CeilTo(n, u) \in Nat
         /\ Multiple(CeilTo(n, u), u)
         /\ n <= CeilTo(n, u) /\ CeilTo(n, u) < n + u
<1> DEFINE q == n \div u
           r == n % u
<1>1. n = u * q + r /\ r \in 0..(u - 1) /\ q \in Nat  OBVIOUS
<1>2. CASE r = 0
  <2>1. n = q * u  BY <1>1, <1>2
  <2>2. q <= q * u  BY <1>1
  <2> QED  BY <1>1, <1>2, <2>1, <2>2 DEF CeilTo, Multiple
<1>3. CASE r # 0
  <2> DEFINE m == n + (u - r)
  <2>1. m = (q + 1) * u  BY <1>1
  <2>2. q + 1 \in Nat /\ q + 1 <= (q + 1) * u  BY <1>1
  <2>3. CeilTo(n, u) = m  BY <1>3 DEF CeilTo
  <2>4. m \in Nat /\ n <= m /\ m < n + u  BY <1>1, <1>3
  <2>5. q + 1 \in 0..m  BY <2>1, <2>2
  <2>6. Multiple(m, u)  BY <2>1, <2>5 DEF Multiple
  <2> QED  BY <2>3, <2>4, <2>6
<1> QED  BY <1>2, <1>3

(* A request is rounded to a size that keeps the chunks in place.          *)
LEMMA RoundUpRounds ==
  ASSUME NEW n \in Nat \ {0}
  PROVE  Rounded(RoundUp(n)) /\ RoundUp(n) >= n
<1> USE HeapAssumption
<1>1. CASE n >= PageSize
  <2>1. RoundUp(n) = CeilTo(n, PageSize)  BY <1>1 DEF RoundUp
  <2>2. Multiple(RoundUp(n), PageSize) /\ RoundUp(n) \in Nat /\ RoundUp(n) >= n
    BY <2>1, CeilToIsNext
  <2>3. Multiple(RoundUp(n), MinChunk)  BY <2>2, MultipleTransitive
  <2> QED  BY <2>2, <2>3 DEF Rounded
<1>2. CASE n < PageSize
  <2> DEFINE m == IF n < MinChunk THEN MinChunk ELSE n
             c == CeilTo(m, MinChunk)
  <2>1. RoundUp(n) = c  BY <1>2 DEF RoundUp
  <2>2. MinChunk <= PageSize  BY MultipleAtLeast
  <2>3. m \in Nat \ {0} /\ n <= m /\ m <= PageSize  BY <1>2, <2>2
  <2> HIDE DEF m
  <2>4. c \in Nat /\ Multiple(c, MinChunk) /\ m <= c /\ c < m + MinChunk
    BY <2>3, CeilToIsNext
  <2>5. c <= PageSize
    <3> HIDE DEF c
    <3>1. PICK k \in 0..c : c = k * MinChunk  BY <2>4 DEF Multiple
    <3>2. PICK l \in 0..PageSize : PageSize = l * MinChunk  BY DEF Multiple
    <3>3. k * MinChunk < (l + 1) * MinChunk  BY <2>3, <2>4, <3>1, <3>2
    <3>4. k <= l
      <4>1. CASE k >= l + 1
        <5>1. k * MinChunk >= (l + 1) * MinChunk  BY <4>1
        <5> QED  BY <5>1, <3>3
      <4> QED  BY <4>1
    <3>5. k * MinChunk <= l * MinChunk  BY <3>4
    <3> QED  BY <3>1, <3>2, <3>5
  <2> HIDE DEF c
  <2>6. c >= PageSize => Multiple(c, PageSize)  BY <2>4, <2>5, MultipleSelf
  <2>7. c \in Nat \ {0} /\ c >= n  BY <2>3, <2>4
  <2> QED  BY <2>1, <2>4, <2>6, <2>7 DEF Rounded
<1> QED  BY <1>1, <1>2

-----------------------------------------------------------------------------
(* Chunks that are replaced by others that cover the same words.           *)
LEMMA Retile ==
  ASSUME NEW S, NEW X, NEW Y, Tiling(S), X \subseteq S,
         \A y \in Y : Placed(y),
         \A y, z \in Y : y # z => Disjoint(y, z),
         \A y \in Y : \A a \in Nat : Within(a, y) => \E x \in X : Within(a, x),
         \A x \in X : \A a \in Nat : Within(a, x) => \E y \in Y : Within(a, y)
  PROVE  /\ Tiling((S \ X) \cup Y)
         /\ \A y \in Y : y \notin S \ X
<1>1. \A c \in S \cup Y : c.base \in Nat /\ c.size \in Nat \ {0}
  BY DEF Tiling, Placed
<1>2. ASSUME NEW s \in S \ X, NEW y \in Y
      PROVE  Disjoint(s, y) /\ s # y
  <2>1. SUFFICES ASSUME ~Disjoint(s, y) \/ s = y  PROVE FALSE
    OBVIOUS
  <2> DEFINE a == IF s.base <= y.base THEN y.base ELSE s.base
  <2>2. a \in Nat /\ Within(a, s) /\ Within(a, y)
    BY <1>1, <2>1 DEF Disjoint, Within, End
  <2>3. PICK x \in X : Within(a, x)  BY <2>2
  <2>4. x \in S /\ x # s /\ Disjoint(x, s)  BY DEF Tiling
  <2> QED  BY <1>1, <2>2, <2>3, <2>4 DEF Disjoint, Within, End
<1>3. \A c \in (S \ X) \cup Y : Placed(c)  BY DEF Tiling
<1>4. ASSUME NEW c \in (S \ X) \cup Y, NEW d \in (S \ X) \cup Y, c # d
      PROVE  Disjoint(c, d)
  <2>1. CASE c \in Y /\ d \in Y  BY <2>1, <1>4
  <2>2. CASE c \in S \ X /\ d \in S \ X  BY <2>2, <1>4 DEF Tiling
  <2>3. CASE c \in S \ X /\ d \in Y  BY <2>3, <1>2
  <2>4. CASE c \in Y /\ d \in S \ X  BY <2>4, <1>2 DEF Disjoint
  <2> QED  BY <2>1, <2>2, <2>3, <2>4
<1>5. ASSUME NEW a \in Addresses
      PROVE  \E c \in (S \ X) \cup Y : Within(a, c)
  <2>1. PICK c \in S : Within(a, c)  BY DEF Tiling
  <2>2. a \in Nat  BY HeapAssumption DEF Addresses
  <2>3. CASE c \in X  BY <2>1, <2>2, <2>3
  <2> QED  BY <2>1, <2>3
<1> QED  BY <1>2, <1>3, <1>4, <1>5 DEF Tiling

(* Replacing one chunk by chunks that tile it keeps the tiling.            *)
LEMMA RetileOne ==
  ASSUME NEW S, NEW c \in S, NEW Y, Tiling(S),
         \A y \in Y : Placed(y),
         \A y, z \in Y : y # z => Disjoint(y, z),
         \A y \in Y : \A a \in Nat : Within(a, y) => Within(a, c),
         \A a \in Nat : Within(a, c) => \E y \in Y : Within(a, y)
  PROVE  /\ Tiling((S \ {c}) \cup Y)
         /\ \A y \in Y : y \notin S \ {c}
<1> DEFINE X == {c}
<1>1. X \subseteq S  OBVIOUS
<1>2. \A y \in Y : \A a \in Nat : Within(a, y) => \E x \in X : Within(a, x)
  OBVIOUS
<1>3. \A x \in X : \A a \in Nat : Within(a, x) => \E y \in Y : Within(a, y)
  OBVIOUS
<1>4. Tiling((S \ X) \cup Y) /\ \A y \in Y : y \notin S \ X
  <2> HIDE DEF X
  <2> QED  BY <1>1, <1>2, <1>3, Retile
<1> QED  BY <1>4

(* A chunk that is placed on the boundaries is sound.                      *)
LEMMA PlacedIsSound ==
  ASSUME NEW c, Placed(c)
  PROVE  Sound(c)
<1> USE HeapAssumption
<1>1. c.size >= MinChunk  BY MultipleAtLeast DEF Placed
<1> QED  BY <1>1 DEF Sound, Placed

(* Two chunks of a tiling that share a boundary are the same.              *)
LEMMA SameBoundary ==
  ASSUME NEW S, Tiling(S), NEW c \in S, NEW d \in S,
         c.base = d.base \/ End(c) = End(d)
  PROVE  c = d
<1>1. c.base \in Nat /\ c.size \in Nat \ {0} /\ d.base \in Nat /\ d.size \in Nat \ {0}
  BY DEF Tiling, Placed
<1>2. ~Disjoint(c, d)  BY <1>1 DEF Disjoint, End
<1> QED  BY <1>2 DEF Tiling

-----------------------------------------------------------------------------
(* allocate_in_bucket splits a chunk.                                      *)
LEMMA RumpPlaced ==
  ASSUME NEW c, Placed(c), NEW n, Rounded(n), n <= c.size
  PROVE  LET Y == {Chunk(c.base, n)} \cup Rump(c, n) IN
         /\ \A y \in Y : Placed(y)
         /\ \A y, z \in Y : y # z => Disjoint(y, z)
         /\ \A y \in Y : \A a \in Nat : Within(a, y) => Within(a, c)
         /\ \A a \in Nat : Within(a, c) => \E y \in Y : Within(a, y)
         /\ Chunk(c.base, n) \notin Rump(c, n)
<1> DEFINE k == Chunk(c.base, n)
<1> USE HeapAssumption
<1>1. /\ c = [base |-> c.base, size |-> c.size]
      /\ c.base \in Nat /\ c.size \in Nat \ {0} /\ n \in Nat \ {0}
      /\ c.base + c.size <= MemTop
      /\ Multiple(c.base, MinChunk) /\ Multiple(c.size, MinChunk)
      /\ Multiple(n, MinChunk)
      /\ n >= PageSize => Multiple(n, PageSize)
      /\ c.size >= PageSize => PageAligned(c.base)
  BY DEF Placed, Rounded, End
<1>2. k = [base |-> c.base, size |-> n] /\ k.base = c.base /\ k.size = n
  BY DEF Chunk
<1>3. Placed(k)
  BY <1>1, <1>2 DEF Placed, End
<1>4. CASE c.size = n
  <2>1. Rump(c, n) = {} /\ k = c  BY <1>1, <1>2, <1>4 DEF Rump
  <2> QED  BY <2>1, <1>3
<1>5. Multiple(c.base + n, MinChunk)  BY <1>1, MultipleSum
<1>6. CASE c.size # n /\ c.size - n >= PageSize /\ ~PageAligned(c.base + n)
  <2> DEFINE l == Chunk(c.base + n, PageSize - n)
             r == Chunk(c.base + PageSize, c.size - PageSize)
  <2>1. Rump(c, n) = {l, r}  BY <1>6 DEF Rump
  <2>2. PageAligned(c.base)  BY <1>1, <1>6
  <2>3. n < PageSize
    <3>1. CASE n >= PageSize
      <4>1. PageAligned(c.base + n)
        BY <1>1, <2>2, <3>1, MultipleSum DEF PageAligned
      <4> QED  BY <4>1, <1>6
    <3> QED  BY <3>1, <1>1
  <2>4. /\ l = [base |-> c.base + n, size |-> PageSize - n]
        /\ l.base = c.base + n /\ l.size = PageSize - n
        /\ r = [base |-> c.base + PageSize, size |-> c.size - PageSize]
        /\ r.base = c.base + PageSize /\ r.size = c.size - PageSize
    BY DEF Chunk
  <2>5. Multiple(PageSize - n, MinChunk)  BY <1>1, <2>3, MultipleDifference
  <2>6. Placed(l)
    <3>1. l.size < PageSize /\ l.size \in Nat \ {0} /\ l.base \in Nat
      BY <1>1, <2>3, <2>4
    <3>2. End(l) <= MemTop  BY <1>1, <1>6, <2>4 DEF End
    <3> QED  BY <3>1, <3>2, <2>4, <2>5, <1>5 DEF Placed
  <2>7. Placed(r)
    <3>1. r.size \in Nat \ {0} /\ r.base \in Nat  BY <1>1, <1>6, <2>4
    <3>2. End(r) <= MemTop  BY <1>1, <2>4 DEF End
    <3>3. PageAligned(r.base)  BY <1>1, <2>2, <2>4, MultipleSum, MultipleSelf DEF PageAligned
    <3>4. Multiple(r.base, MinChunk)  BY <1>1, <2>4, MultipleSum
    <3>5. Multiple(r.size, MinChunk)  BY <1>1, <1>6, <2>4, MultipleDifference
    <3> QED  BY <3>1, <3>2, <3>3, <3>4, <3>5, <2>4 DEF Placed
  <2>8. Disjoint(k, l) /\ Disjoint(k, r) /\ Disjoint(l, r)
        /\ Disjoint(l, k) /\ Disjoint(r, k) /\ Disjoint(r, l)
    BY <1>1, <1>2, <1>6, <2>3, <2>4 DEF Disjoint, End
  <2>9. \A a \in Nat : Within(a, c) <=> Within(a, k) \/ Within(a, l) \/ Within(a, r)
    BY <1>1, <1>2, <1>6, <2>3, <2>4 DEF Within, End
  <2>10. k # l /\ k # r  BY <1>1, <1>2, <2>4
  <2> HIDE DEF k, l, r
  <2>11. \A y \in {k} \cup {l, r} : y = k \/ y = l \/ y = r  OBVIOUS
  <2> QED  BY <1>3, <2>1, <2>6, <2>7, <2>8, <2>9, <2>10, <2>11 DEF k
<1>7. CASE c.size # n /\ ~(c.size - n >= PageSize /\ ~PageAligned(c.base + n))
  <2> DEFINE l == Chunk(c.base + n, c.size - n)
  <2>1. Rump(c, n) = {l}  BY <1>7 DEF Rump
  <2>2. /\ l = [base |-> c.base + n, size |-> c.size - n]
        /\ l.base = c.base + n /\ l.size = c.size - n
    BY DEF Chunk
  <2>3. Multiple(l.size, MinChunk)  BY <1>1, <2>2, MultipleDifference
  <2>4. Placed(l)
    <3>1. l.size \in Nat \ {0} /\ l.base \in Nat  BY <1>1, <1>7, <2>2
    <3>2. End(l) <= MemTop  BY <1>1, <2>2 DEF End
    <3>3. l.size >= PageSize => PageAligned(l.base)  BY <1>7, <2>2
    <3> QED  BY <3>1, <3>2, <3>3, <2>2, <2>3, <1>5 DEF Placed
  <2>5. Disjoint(k, l) /\ Disjoint(l, k)
    BY <1>1, <1>2, <2>2 DEF Disjoint, End
  <2>6. \A a \in Nat : Within(a, c) <=> Within(a, k) \/ Within(a, l)
    BY <1>1, <1>2, <2>2 DEF Within, End
  <2>7. k # l  BY <1>1, <1>2, <2>2
  <2> HIDE DEF k, l
  <2> QED  BY <1>3, <2>1, <2>4, <2>5, <2>6, <2>7 DEF k
<1> QED  BY <1>4, <1>6, <1>7

(* Taking an allocation out of an unused chunk keeps the heap in order.    *)
LEMMA TakeKeeps ==
  ASSUME NEW h, HeapOK(h), NEW c \in h.unused, NEW n, Rounded(n), n <= c.size
  PROVE  HeapOK(Take(h, c, n))
<1> DEFINE S == h.used \cup h.unused
           k == Chunk(c.base, n)
           R == Rump(c, n)
           t == Take(h, c, n)
<1>1. Tiling(S) /\ h.used \cap h.unused = {} /\ c \in S /\ Placed(c) /\ c \notin h.used
  BY DEF HeapOK, Tiling
<1>2. /\ \A y \in {k} \cup R : Placed(y)
      /\ \A y, z \in {k} \cup R : y # z => Disjoint(y, z)
      /\ \A y \in {k} \cup R : \A a \in Nat : Within(a, y) => Within(a, c)
      /\ \A a \in Nat : Within(a, c) => \E y \in {k} \cup R : Within(a, y)
      /\ k \notin R
  BY <1>1, RumpPlaced
<1>3. /\ t.used = h.used \cup {k}
      /\ t.unused = (h.unused \ {c}) \cup R
      /\ t.freed = h.freed \ {c.base}
      /\ t = [used |-> t.used, unused |-> t.unused, freed |-> t.freed]
  BY DEF Take
<1> HIDE DEF k, R, t
<1>4. /\ Tiling((S \ {c}) \cup ({k} \cup R))
      /\ \A y \in {k} \cup R : y \notin S \ {c}
  BY <1>1, <1>2, RetileOne
<1>5. t.used \cup t.unused = (S \ {c}) \cup ({k} \cup R)
  BY <1>1, <1>3
<1>6. t.used \cap t.unused = {}
  BY <1>1, <1>2, <1>3, <1>4
<1>7. \A d \in t.used : d.base \notin t.freed
  <2>1. k.base = c.base  BY DEF k, Chunk
  <2> QED  BY <1>3, <2>1 DEF HeapOK
<1>8. /\ t.used \subseteq [base : Nat, size : Nat \ {0}]
      /\ t.unused \subseteq [base : Nat, size : Nat \ {0}]
      /\ t.freed \subseteq Nat
  BY <1>2, <1>3 DEF HeapOK, Placed
<1>9. t \in [used : SUBSET [base : Nat, size : Nat \ {0}],
             unused : SUBSET [base : Nat, size : Nat \ {0}],
             freed : SUBSET Nat]
  BY <1>3, <1>8
<1>10. HeapOK(t)  BY <1>4, <1>5, <1>6, <1>7, <1>9 DEF HeapOK
<1> QED  BY <1>10 DEF t

-----------------------------------------------------------------------------
(* Two adjacent chunks are joined.                                         *)
LEMMA JoinPlaced ==
  ASSUME NEW c, NEW d, Placed(c), Placed(d),
         End(c) = d.base \/ End(d) = c.base,
         CanJoin(Join(c, d).base, Join(c, d).size)
  PROVE  /\ Placed(Join(c, d))
         /\ \A a \in Nat : Within(a, Join(c, d)) <=> Within(a, c) \/ Within(a, d)
<1> DEFINE j == Join(c, d)
<1> USE HeapAssumption
<1>1. /\ c.base \in Nat /\ c.size \in Nat \ {0} /\ d.base \in Nat /\ d.size \in Nat \ {0}
      /\ Multiple(c.base, MinChunk) /\ Multiple(c.size, MinChunk)
      /\ Multiple(d.base, MinChunk) /\ Multiple(d.size, MinChunk)
      /\ c.base + c.size <= MemTop /\ d.base + d.size <= MemTop
      /\ c.base + c.size = d.base \/ d.base + d.size = c.base
  BY DEF Placed, End
<1>2. /\ j = [base |-> j.base, size |-> j.size]
      /\ j.base = (IF c.base < d.base THEN c.base ELSE d.base)
      /\ j.size = c.size + d.size
  BY DEF Join, Chunk
<1>3. j.base \in Nat /\ j.size \in Nat \ {0} /\ j.base + j.size <= MemTop
  BY <1>1, <1>2
<1>4. Multiple(j.base, MinChunk) /\ Multiple(j.size, MinChunk)
  BY <1>1, <1>2, MultipleSum
<1>5. j.size >= PageSize => PageAligned(j.base)
  BY <1>3 DEF CanJoin
<1>6. \A a \in Nat : Within(a, j) <=> Within(a, c) \/ Within(a, d)
  BY <1>1, <1>2 DEF Within, End
<1> HIDE DEF j
<1>7. Placed(j)  BY <1>2, <1>3, <1>4, <1>5 DEF Placed, End
<1> QED  BY <1>6, <1>7 DEF j

(* Any two chunks of a tiling may be replaced by their join.               *)
LEMMA JoinKeeps ==
  ASSUME NEW S, Tiling(S), NEW c \in S, NEW d \in S,
         End(c) = d.base \/ End(d) = c.base,
         CanJoin(Join(c, d).base, Join(c, d).size)
  PROVE  /\ Tiling((S \ {c, d}) \cup {Join(c, d)})
         /\ Join(c, d) \notin S \ {c, d}
         /\ Join(c, d) \in [base : Nat, size : Nat \ {0}]
<1>1. Placed(c) /\ Placed(d)  BY DEF Tiling
<1>2. /\ Placed(Join(c, d))
      /\ \A a \in Nat : Within(a, Join(c, d)) <=> Within(a, c) \/ Within(a, d)
  BY <1>1, JoinPlaced
<1> DEFINE X == {c, d}
           Y == {Join(c, d)}
<1>3. X \subseteq S  OBVIOUS
<1>4. \A y \in Y : Placed(y)  BY <1>2
<1>5. \A y, z \in Y : y # z => Disjoint(y, z)  OBVIOUS
<1>6. \A y \in Y : \A a \in Nat : Within(a, y) => \E x \in X : Within(a, x)
  BY <1>2
<1>7. \A x \in X : \A a \in Nat : Within(a, x) => \E y \in Y : Within(a, y)
  BY <1>2
<1>8. Tiling((S \ X) \cup Y) /\ \A y \in Y : y \notin S \ X
  <2> HIDE DEF X, Y
  <2> QED  BY <1>3, <1>4, <1>5, <1>6, <1>7, Retile
<1> QED  BY <1>2, <1>8 DEF Placed

(* Releasing a used chunk, joined with a neighbour or not, does too.       *)
LEMMA ReleaseKeeps ==
  ASSUME NEW h, HeapOK(h), NEW f \in h.used
  PROVE  HeapOK(Release(h, f))
<1> DEFINE S == h.used \cup h.unused
           r == Release(h, f)
           joined == {a \in Neighbour(h, f) :
                        LET j == Join(a, f) IN CanJoin(j.base, j.size)}
<1>1. /\ Tiling(S) /\ h.used \cap h.unused = {} /\ f \in S /\ f \notin h.unused
      /\ f \in [base : Nat, size : Nat \ {0}]
      /\ h.used \subseteq [base : Nat, size : Nat \ {0}]
      /\ h.unused \subseteq [base : Nat, size : Nat \ {0}]
      /\ h.freed \subseteq Nat
  BY DEF HeapOK
<1>2. \A a \in Neighbour(h, f) : a \in h.unused /\ (End(f) = a.base \/ End(a) = f.base)
  BY DEF Neighbour
<1>3. \A a, b \in Neighbour(h, f) : a = b
  <2>1. \A a, b \in Neighbour(h, f) : a.base = b.base \/ End(a) = End(b)
    BY DEF Neighbour
  <2> QED  BY <1>1, <1>2, <2>1, SameBoundary
<1>4. /\ r.used = h.used \ {f}
      /\ r.unused = (h.unused \ joined) \cup
                      (IF joined = {} THEN {f} ELSE {Join(a, f) : a \in joined})
      /\ r.freed = h.freed \cup {f.base}
      /\ r = [used |-> r.used, unused |-> r.unused, freed |-> r.freed]
  BY DEF Release, Merged
<1> HIDE DEF r
<1>5. /\ r.used \cap r.unused = {}
      /\ Tiling(r.used \cup r.unused)
      /\ r.unused \subseteq [base : Nat, size : Nat \ {0}]
  <2>1. CASE joined = {}
    <3>1. r.unused = h.unused \cup {f}  BY <1>4, <2>1
    <3>2. r.used \cup r.unused = S  BY <1>1, <1>4, <3>1
    <3> QED  BY <1>1, <1>4, <3>1, <3>2
  <2>2. CASE joined # {}
    <3>1. PICK a \in joined : TRUE  BY <2>2
    <3>2. joined = {a}  BY <1>3, <3>1
    <3> DEFINE j == Join(a, f)
    <3>3. r.unused = (h.unused \ {a}) \cup {j}
      <4> HIDE DEF joined
      <4> QED  BY <1>4, <2>2, <3>2
    <3>4. a \in h.unused /\ a \in S /\ CanJoin(j.base, j.size)
          /\ (End(a) = f.base \/ End(f) = a.base)
      BY <1>2, <3>1
    <3>5. /\ Tiling((S \ {a, f}) \cup {j})
          /\ j \notin S \ {a, f}
          /\ j \in [base : Nat, size : Nat \ {0}]
      BY <1>1, <3>4, JoinKeeps
    <3> HIDE DEF j, joined
    <3>6. r.used \cup r.unused = (S \ {a, f}) \cup {j}
      BY <1>1, <1>4, <3>3, <3>4
    <3>7. r.used \cap r.unused = {}
      BY <1>1, <1>4, <3>3, <3>4, <3>5
    <3> QED  BY <1>1, <3>3, <3>5, <3>6, <3>7
  <2> QED  BY <2>1, <2>2
<1>6. \A d \in r.used : d.base \notin r.freed
  <2>1. \A d \in h.used : d # f => d.base # f.base  BY <1>1, SameBoundary
  <2> QED  BY <1>4, <2>1 DEF HeapOK
<1>7. r \in [used : SUBSET [base : Nat, size : Nat \ {0}],
             unused : SUBSET [base : Nat, size : Nat \ {0}],
             freed : SUBSET Nat]
  <2>1. r.freed \subseteq Nat  BY <1>1, <1>4
  <2>2. r.used \subseteq [base : Nat, size : Nat \ {0}]  BY <1>1, <1>4
  <2> QED  BY <1>4, <1>5, <2>1, <2>2
<1>8. HeapOK(r)  BY <1>5, <1>6, <1>7 DEF HeapOK
<1> QED  BY <1>8 DEF r

-----------------------------------------------------------------------------
(* reserve cuts a segment out of a chunk.                                  *)
LEMMA SidesPlaced ==
  ASSUME NEW c, Placed(c), NEW s \in Segments, Encloses(c, s)
  PROVE  LET Y == {s} \cup Sides(c, s) IN
         /\ \A y \in Y : Placed(y)
         /\ \A y, z \in Y : y # z => Disjoint(y, z)
         /\ \A y \in Y : \A a \in Nat : Within(a, y) => Within(a, c)
         /\ \A a \in Nat : Within(a, c) => \E y \in Y : Within(a, y)
         /\ s \notin Sides(c, s)
<1> DEFINE l == Chunk(c.base, s.base - c.base)
           r == Chunk(End(s), End(c) - End(s))
           L == IF s.base > c.base THEN {l} ELSE {}
           R == IF End(c) > End(s) THEN {r} ELSE {}
<1> USE HeapAssumption
<1>1. /\ c.base \in Nat /\ c.size \in Nat \ {0}
      /\ s.base \in Nat /\ s.size \in Nat \ {0} /\ s = [base |-> s.base, size |-> s.size]
      /\ c.base + c.size <= MemTop
      /\ c.base <= s.base /\ s.base + s.size <= c.base + c.size
      /\ Multiple(c.base, MinChunk) /\ Multiple(c.size, MinChunk)
      /\ c.size >= PageSize => PageAligned(c.base)
      /\ PageAligned(s.base) /\ PageAligned(s.size)
  BY DEF Placed, End, Encloses
<1>2. Multiple(s.base, MinChunk) /\ Multiple(s.size, MinChunk)
  BY <1>1, MultipleTransitive DEF PageAligned
<1>3. Placed(s)  BY <1>1, <1>2 DEF Placed, End
<1>4. Sides(c, s) = L \cup R  BY DEF Sides
<1>5. /\ l.base = c.base /\ l.size = s.base - c.base
      /\ l = [base |-> c.base, size |-> s.base - c.base]
      /\ r.base = s.base + s.size
      /\ r.size = (c.base + c.size) - (s.base + s.size)
      /\ r = [base |-> s.base + s.size, size |-> (c.base + c.size) - (s.base + s.size)]
  BY DEF Chunk, End
<1>6. ASSUME s.base > c.base  PROVE Placed(l)
  <2>1. l.size \in Nat \ {0} /\ End(l) <= MemTop  BY <1>1, <1>5, <1>6 DEF End
  <2>2. Multiple(l.size, MinChunk)  BY <1>1, <1>2, <1>5, <1>6, MultipleDifference
  <2>3. l.size >= PageSize => PageAligned(l.base)  BY <1>1, <1>5
  <2> QED  BY <1>1, <1>5, <2>1, <2>2, <2>3 DEF Placed
<1>7. ASSUME End(c) > End(s)  PROVE Placed(r)
  <2>1. r.size \in Nat \ {0} /\ End(r) <= MemTop  BY <1>1, <1>5, <1>7 DEF End
  <2>2. PageAligned(r.base)  BY <1>1, <1>5, MultipleSum DEF PageAligned
  <2>3. Multiple(r.base, MinChunk)  BY <1>1, <1>2, <1>5, MultipleSum
  <2>4. Multiple(c.base + c.size, MinChunk)  BY <1>1, MultipleSum
  <2>5. Multiple(r.size, MinChunk)
    BY <1>1, <1>5, <2>3, <2>4, MultipleDifference
  <2> QED  BY <1>1, <1>5, <2>1, <2>2, <2>3, <2>5 DEF Placed
<1>8. /\ \A y \in L : y = l /\ s.base > c.base
      /\ \A y \in R : y = r /\ End(c) > End(s)
  OBVIOUS
<1>9. /\ s.base > c.base => Disjoint(l, s) /\ Disjoint(s, l) /\ l # s
      /\ End(c) > End(s) => Disjoint(r, s) /\ Disjoint(s, r) /\ r # s
      /\ s.base > c.base /\ End(c) > End(s) => Disjoint(r, l) /\ Disjoint(l, r)
  BY <1>1, <1>5 DEF Disjoint, End
<1>10. \A a \in Nat : Within(a, c) <=>
         \/ Within(a, s)
         \/ s.base > c.base /\ Within(a, l)
         \/ End(c) > End(s) /\ Within(a, r)
  BY <1>1, <1>5 DEF Within, End
<1>11. /\ s.base > c.base => l \in L
       /\ End(c) > End(s) => r \in R
  OBVIOUS
<1> HIDE DEF l, r, L, R
<1>12. \A y \in {s} \cup (L \cup R) :
         \/ y = s
         \/ y = l /\ s.base > c.base
         \/ y = r /\ End(c) > End(s)
  BY <1>8
<1>13. \A y \in {s} \cup (L \cup R) : Placed(y)  BY <1>3, <1>6, <1>7, <1>12
<1>14. \A y, z \in {s} \cup (L \cup R) : y # z => Disjoint(y, z)
  BY <1>9, <1>12
<1>15. \A y \in {s} \cup (L \cup R) : \A a \in Nat : Within(a, y) => Within(a, c)
  BY <1>10, <1>12
<1>16. \A a \in Nat : Within(a, c) => \E y \in {s} \cup (L \cup R) : Within(a, y)
  BY <1>10, <1>11
<1>17. s \notin L \cup R  BY <1>8, <1>9
<1> QED  BY <1>4, <1>13, <1>14, <1>15, <1>16, <1>17

(* Reserving a segment at load time does too.                              *)
LEMMA ReserveKeeps ==
  ASSUME HeapOK(heap), heap.freed = {}, NEW s \in Segments, reserve(s)
  PROVE  HeapOK(heap') /\ heap'.freed = {}
<1> DEFINE S == heap.used \cup heap.unused
<1>1. PICK c \in heap.unused :
        /\ Encloses(c, s)
        /\ heap' = [heap EXCEPT !.used = @ \cup {s},
                                !.unused = (@ \ {c}) \cup Sides(c, s)]
  BY DEF reserve
<1>2. /\ Tiling(S) /\ heap.used \cap heap.unused = {} /\ c \in S /\ Placed(c)
      /\ c \notin heap.used
      /\ heap = [used |-> heap.used, unused |-> heap.unused, freed |-> heap.freed]
      /\ heap.used \subseteq [base : Nat, size : Nat \ {0}]
      /\ heap.unused \subseteq [base : Nat, size : Nat \ {0}]
  BY DEF HeapOK, Tiling
<1> DEFINE R == Sides(c, s)
<1>3. /\ heap'.used = heap.used \cup {s}
      /\ heap'.unused = (heap.unused \ {c}) \cup R
      /\ heap'.freed = {}
      /\ heap' = [used |-> heap'.used, unused |-> heap'.unused, freed |-> heap'.freed]
  BY <1>1, <1>2
<1>4. /\ \A y \in {s} \cup R : Placed(y)
      /\ \A y, z \in {s} \cup R : y # z => Disjoint(y, z)
      /\ \A y \in {s} \cup R : \A a \in Nat : Within(a, y) => Within(a, c)
      /\ \A a \in Nat : Within(a, c) => \E y \in {s} \cup R : Within(a, y)
      /\ s \notin R
  BY <1>1, <1>2, SidesPlaced
<1> HIDE DEF R
<1>5. /\ Tiling((S \ {c}) \cup ({s} \cup R))
      /\ \A y \in {s} \cup R : y \notin S \ {c}
  <2> DEFINE Y == {s} \cup R
  <2>1. /\ \A y \in Y : Placed(y)
        /\ \A y, z \in Y : y # z => Disjoint(y, z)
        /\ \A y \in Y : \A a \in Nat : Within(a, y) => Within(a, c)
        /\ \A a \in Nat : Within(a, c) => \E y \in Y : Within(a, y)
    BY <1>4
  <2> HIDE DEF Y, S
  <2>2. Tiling((S \ {c}) \cup Y) /\ \A y \in Y : y \notin S \ {c}
    BY <1>2, <2>1, RetileOne
  <2> QED  BY <2>2 DEF Y
<1>6. heap'.used \cup heap'.unused = (S \ {c}) \cup ({s} \cup R)
  BY <1>2, <1>3
<1>7. heap'.used \cap heap'.unused = {}
  BY <1>2, <1>3, <1>4, <1>5
<1>8. heap' \in [used : SUBSET [base : Nat, size : Nat \ {0}],
                 unused : SUBSET [base : Nat, size : Nat \ {0}],
                 freed : SUBSET Nat]
  <2>1. heap'.used \subseteq [base : Nat, size : Nat \ {0}]
        /\ heap'.unused \subseteq [base : Nat, size : Nat \ {0}]
    BY <1>2, <1>3, <1>4 DEF Placed
  <2> QED  BY <1>3, <2>1
<1>9. Tiling(heap'.used \cup heap'.unused)  BY <1>5, <1>6
<1> QED  BY <1>3, <1>7, <1>8, <1>9 DEF HeapOK

(* A step of coalesce_unused_chunks.                                       *)
LEMMA CoalesceKeeps ==
  ASSUME HeapOK(heap), CoalesceStep
  PROVE  HeapOK(heap')
<1> DEFINE S == heap.used \cup heap.unused
<1>1. PICK c \in Ahead :
        LET previous == {p \in heap.unused :
                           /\ p.base = last /\ End(p) = c.base
                           /\ CanJoin(p.base, p.size + c.size)}
        IN IF previous = {}
             THEN last' = c.base /\ UNCHANGED heap
             ELSE /\ heap' = [heap EXCEPT !.unused = (@ \ (previous \cup {c}))
                                               \cup {Join(p, c) : p \in previous}]
                  /\ UNCHANGED last
  BY DEF CoalesceStep
<1> DEFINE previous == {p \in heap.unused :
                          /\ p.base = last /\ End(p) = c.base
                          /\ CanJoin(p.base, p.size + c.size)}
<1>2. /\ Tiling(S) /\ heap.used \cap heap.unused = {} /\ c \in S /\ c \in heap.unused
      /\ heap = [used |-> heap.used, unused |-> heap.unused, freed |-> heap.freed]
      /\ heap.used \subseteq [base : Nat, size : Nat \ {0}]
      /\ heap.unused \subseteq [base : Nat, size : Nat \ {0}]
      /\ heap.freed \subseteq Nat
  BY DEF HeapOK, Ahead
<1>3. CASE previous = {}  BY <1>1, <1>3
<1>4. CASE previous # {}
  <2>1. PICK p \in previous : TRUE  BY <1>4
  <2>2. previous = {p}
    <3>1. \A q \in previous : q \in S /\ q.base = p.base  BY <2>1
    <3>2. p \in S  BY <2>1
    <3>3. \A q \in previous : q = p  BY <1>2, <3>1, <3>2, SameBoundary
    <3> QED  BY <2>1, <3>3
  <2>3. p \in heap.unused /\ p \in S /\ End(p) = c.base
        /\ CanJoin(p.base, p.size + c.size)
    BY <2>1
  <2> DEFINE j == Join(p, c)
  <2>4. j.base = p.base /\ j.size = p.size + c.size
    BY <1>2, <2>3 DEF Join, Chunk, End
  <2>5. /\ Tiling((S \ {p, c}) \cup {j})
        /\ j \notin S \ {p, c}
        /\ j \in [base : Nat, size : Nat \ {0}]
    BY <1>2, <2>3, <2>4, JoinKeeps
  <2>6. heap' = [heap EXCEPT !.unused = (@ \ (previous \cup {c}))
                                            \cup {Join(q, c) : q \in previous}]
    BY <1>1, <1>4
  <2> HIDE DEF previous
  <2>7. heap' = [heap EXCEPT !.unused = (@ \ {p, c}) \cup {j}]
    BY <2>2, <2>6
  <2> HIDE DEF j
  <2>8. /\ heap'.used = heap.used
        /\ heap'.unused = (heap.unused \ {p, c}) \cup {j}
        /\ heap'.freed = heap.freed
        /\ heap' = [used |-> heap'.used, unused |-> heap'.unused, freed |-> heap'.freed]
    BY <1>2, <2>7
  <2>9. heap'.used \cup heap'.unused = (S \ {p, c}) \cup {j}
    BY <1>2, <2>3, <2>8
  <2>10. heap'.used \cap heap'.unused = {}
    BY <1>2, <2>3, <2>5, <2>8
  <2>11. heap'.unused \subseteq [base : Nat, size : Nat \ {0}]
    BY <1>2, <2>5, <2>8
  <2>12. heap' \in [used : SUBSET [base : Nat, size : Nat \ {0}],
                    unused : SUBSET [base : Nat, size : Nat \ {0}],
                    freed : SUBSET Nat]
    BY <1>2, <2>8, <2>11
  <2>13. Tiling(heap'.used \cup heap'.unused)  BY <2>5, <2>9
  <2>14. \A d \in heap'.used : d.base \notin heap'.freed  BY <2>8 DEF HeapOK
  <2> QED  BY <2>10, <2>12, <2>13, <2>14 DEF HeapOK
<1> QED  BY <1>3, <1>4

-----------------------------------------------------------------------------
(* The specification.                                                      *)
LEMMA InitHeapOK == Init => HeapOK(heap)
<1> USE HeapAssumption
<1> DEFINE z == Chunk(0, PageSize)
           r == Chunk(PageSize, StackBase - PageSize)
           t == Chunk(StackBase, MemTop - StackBase)
<1> SUFFICES ASSUME Init  PROVE HeapOK(heap)
  OBVIOUS
<1>1. heap = [used |-> {z, t}, unused |-> {r}, freed |-> {}]
  BY DEF Init
<1>2. /\ z.base = 0 /\ z.size = PageSize /\ z = [base |-> 0, size |-> PageSize]
      /\ r.base = PageSize /\ r.size = StackBase - PageSize
      /\ r = [base |-> PageSize, size |-> StackBase - PageSize]
      /\ t.base = StackBase /\ t.size = MemTop - StackBase
      /\ t = [base |-> StackBase, size |-> MemTop - StackBase]
  BY DEF Chunk
<1>3. /\ PageAligned(0) /\ PageAligned(PageSize)
      /\ PageAligned(StackBase - PageSize) /\ PageAligned(MemTop - StackBase)
  BY MultipleSelf, MultipleDifference DEF PageAligned
<1>4. /\ Multiple(0, MinChunk) /\ Multiple(StackBase, MinChunk)
      /\ Multiple(StackBase - PageSize, MinChunk)
      /\ Multiple(MemTop - StackBase, MinChunk)
  BY <1>3, MultipleSelf, MultipleTransitive DEF PageAligned
<1>5. /\ PageSize \in Nat \ {0} /\ StackBase \in Nat /\ MemTop \in Nat
      /\ PageSize < StackBase /\ StackBase < MemTop
  OBVIOUS
<1> HIDE DEF z, r, t
<1>6. Placed(z) /\ Placed(r) /\ Placed(t)
  BY <1>2, <1>3, <1>4, <1>5 DEF Placed, End
<1>7. /\ Disjoint(z, r) /\ Disjoint(r, z) /\ Disjoint(z, t) /\ Disjoint(t, z)
      /\ Disjoint(r, t) /\ Disjoint(t, r)
  BY <1>2, <1>5 DEF Disjoint, End
<1>8. \A a \in Addresses : Within(a, z) \/ Within(a, r) \/ Within(a, t)
  BY <1>2, <1>5 DEF Addresses, Within, End
<1>9. Tiling({z, r, t})  BY <1>6, <1>7, <1>8 DEF Tiling
<1>10. heap.used \cup heap.unused = {z, r, t}  BY <1>1
<1>11. heap.used \cap heap.unused = {}  BY <1>1, <1>2, <1>5
<1>12. heap \in [used : SUBSET [base : Nat, size : Nat \ {0}],
                 unused : SUBSET [base : Nat, size : Nat \ {0}],
                 freed : SUBSET Nat]
  <2>1. {z, t} \subseteq [base : Nat, size : Nat \ {0}]
        /\ {r} \subseteq [base : Nat, size : Nat \ {0}]
    BY <1>6 DEF Placed
  <2> QED  BY <1>1, <2>1
<1>13. \A c \in heap.used : c.base \notin heap.freed  BY <1>1
<1> QED  BY <1>9, <1>10, <1>11, <1>12, <1>13 DEF HeapOK

(* A candidate for an allocation is unused and large enough.               *)
LEMMA CandidatesFit ==
  ASSUME NEW h, NEW n, NEW c \in Candidates(h, n)
  PROVE  c \in h.unused /\ c.size >= n
BY DEF Candidates, BestFits, Bucket

(* What realloc does once it has its new chunk keeps the heap in order.    *)
LEMMA FinishKeeps ==
  ASSUME NEW h, HeapOK(h), NEW cl, NEW base, Finish(h, cl, base)
  PROVE  HeapOK(heap')
<1>1. CASE heap' = h  BY <1>1
<1>2. CASE FinishRealloc(h, cl, base)
  <2> DEFINE gone == FreeTarget(h, cl.old.ptr)
             f == CHOOSE c \in gone : TRUE
  <2>1. heap' = IF gone = {} THEN h ELSE Release(h, f)
    BY <1>2 DEF FinishRealloc
  <2>2. gone \subseteq h.used  BY DEF FreeTarget, Known
  <2>3. gone # {} => f \in gone  OBVIOUS
  <2> HIDE DEF gone, f
  <2> QED  BY <2>1, <2>2, <2>3, ReleaseKeeps
<1> QED  BY <1>1, <1>2 DEF Finish, FinishMalloc, FinishAligned

(* An allocation out of a candidate keeps the heap in order.               *)
LEMMA GrantKeeps ==
  ASSUME HeapOK(heap), NEW cl, cl.need \in Nat \ {0},
         NEW c \in Candidates(heap, RoundUp(cl.need)),
         Finish(Take(heap, c, RoundUp(cl.need)), cl, c.base)
  PROVE  HeapOK(heap')
<1>1. Rounded(RoundUp(cl.need))  BY RoundUpRounds
<1>2. c \in heap.unused /\ c.size >= RoundUp(cl.need)  BY CandidatesFit
<1>3. c.size \in Nat /\ RoundUp(cl.need) \in Nat  BY <1>1, <1>2 DEF HeapOK, Rounded
<1>4. HeapOK(Take(heap, c, RoundUp(cl.need)))  BY <1>1, <1>2, <1>3, TakeKeeps
<1> QED  BY <1>4, FinishKeeps

(* The first try of an allocation keeps the invariant.                     *)
LEMMA FirstTryKeeps ==
  ASSUME IInv, NEW cl, cl.need \in Nat \ {0}, FirstTry(cl)
  PROVE  IInv'
<1> USE DEF IInv
<1>1. pc = "idle"  BY DEF FirstTry
<1>2. CASE Candidates(heap, RoundUp(cl.need)) # {}
  <2>1. pc' = pc /\ call' = call  BY <1>2 DEF FirstTry
  <2>2. HeapOK(heap')  BY <1>2, GrantKeeps DEF FirstTry
  <2> QED  BY <1>1, <2>1, <2>2
<1>3. CASE Candidates(heap, RoundUp(cl.need)) = {}
  <2>1. heap' = heap /\ pc' = "coalesce" /\ call' = cl  BY <1>3 DEF FirstTry
  <2> QED  BY <2>1
<1> QED  BY <1>2, <1>3

(* Every step keeps the inductive invariant.                               *)
LEMMA InductiveStep == IInv /\ [Next]_vars => IInv'
<1> SUFFICES ASSUME IInv, [Next]_vars  PROVE IInv'
  OBVIOUS
<1> USE HeapAssumption
<1>1. CASE UNCHANGED vars  BY <1>1 DEF IInv, vars
<1>2. CASE Loaded  BY <1>2 DEF IInv, Loaded
<1>3. ASSUME NEW s \in Segments, reserve(s)  PROVE IInv'
  <2>1. pc = "load" /\ pc' = pc  BY <1>3 DEF reserve
  <2>2. HeapOK(heap') /\ heap'.freed = {}  BY <1>3, <2>1, ReserveKeeps DEF IInv
  <2> QED  BY <2>1, <2>2 DEF IInv
<1>4. ASSUME NEW n \in Sizes, Malloc(n)  PROVE IInv'
  <2> DEFINE cl == [op |-> "malloc", size |-> n, need |-> n]
  <2>1. cl.need \in Nat \ {0}  OBVIOUS
  <2>2. FirstTry(cl)  BY <1>4 DEF Malloc
  <2> HIDE DEF cl
  <2> QED  BY <2>1, <2>2, FirstTryKeeps
<1>5. ASSUME NEW n \in Sizes, NEW b \in live, Realloc(b, n)  PROVE IInv'
  <2> DEFINE cl == [op |-> "realloc", old |-> b, size |-> n, need |-> n]
  <2>1. cl.need \in Nat \ {0}  OBVIOUS
  <2>2. FirstTry(cl)  BY <1>5 DEF Realloc
  <2> HIDE DEF cl
  <2> QED  BY <2>1, <2>2, FirstTryKeeps
<1>6. ASSUME NEW n \in Sizes, NEW a \in Alignments, Memalign(n, a)  PROVE IInv'
  <2> DEFINE cl == [op |-> "posix_memalign", size |-> n, align |-> a, need |-> n + a + 2]
  <2>1. cl.need \in Nat \ {0}  OBVIOUS
  <2>2. FirstTry(cl)  BY <1>6 DEF Memalign
  <2> HIDE DEF cl
  <2> QED  BY <2>1, <2>2, FirstTryKeeps
<1>7. ASSUME NEW n \in Sizes, NEW a \in Alignments, ZoneMemalign(n, a)  PROVE IInv'
  <2> DEFINE cl == [op |-> "zone_memalign", size |-> n, align |-> a, need |-> n + a + 1]
  <2>1. cl.need \in Nat \ {0}  OBVIOUS
  <2>2. FirstTry(cl)  BY <1>7 DEF ZoneMemalign
  <2> HIDE DEF cl
  <2> QED  BY <2>1, <2>2, FirstTryKeeps
<1>8. CASE CoalesceStep
  <2>1. pc' = pc /\ call' = call /\ pc = "coalesce"  BY <1>8 DEF CoalesceStep
  <2> QED  BY <1>8, <2>1, CoalesceKeeps DEF IInv
<1>9. CASE SecondTry
  <2>1. call.need \in Nat \ {0} /\ pc' = "idle"  BY <1>9 DEF IInv, SecondTry
  <2>2. CASE Candidates(heap, RoundUp(call.need)) # {}
    <3>1. HeapOK(heap')  BY <1>9, <2>1, <2>2, GrantKeeps DEF IInv, SecondTry
    <3> QED  BY <2>1, <3>1 DEF IInv
  <2>3. CASE Candidates(heap, RoundUp(call.need)) = {}
    <3>1. heap' = heap  BY <1>9, <2>3 DEF SecondTry
    <3> QED  BY <2>1, <3>1 DEF IInv
  <2> QED  BY <2>2, <2>3
<1>10. ASSUME NEW a \in Addresses, Free(a)  PROVE IInv'
  <2>1. pc = "idle" /\ pc' = pc  BY <1>10 DEF Free
  <2>2. FreeTarget(heap, a) \subseteq heap.used  BY DEF FreeTarget, Known
  <2>3. HeapOK(heap')  BY <1>10, <2>2, ReleaseKeeps DEF Free, IInv
  <2> QED  BY <2>1, <2>3 DEF IInv
<1>11. ASSUME NEW b \in live, ZoneFree(b)  PROVE IInv'
  <2>1. pc = "idle" /\ pc' = pc  BY <1>11 DEF ZoneFree
  <2>2. Known(heap, b.ptr) \subseteq heap.used  BY DEF Known
  <2>3. HeapOK(heap')  BY <1>11, <2>2, ReleaseKeeps DEF ZoneFree, IInv
  <2> QED  BY <2>1, <2>3 DEF IInv
<1>12. ASSUME NEW b \in live, Write(b)  PROVE IInv'
  BY <1>12 DEF Write, IInv
<1> QED
  BY <1>1, <1>2, <1>3, <1>4, <1>5, <1>6, <1>7, <1>8, <1>9, <1>10, <1>11, <1>12
  DEF Next, Load, Guest, Allocator

(* The inductive invariant holds in every behaviour.                       *)
THEOREM Invariance == Spec => []IInv
<1>1. Init => IInv  BY InitHeapOK DEF Init, IInv
<1> QED  BY <1>1, InductiveStep, PTL DEF Spec

(* No word is handed out twice, and none is lost: whatever the calls and   *)
(* the frees, the chunks are a partition of the address space.             *)
THEOREM HeapPartition == Spec => []Partition
<1>1. IInv => Partition
  BY DEF IInv, HeapOK, Tiling, Partition, Chunks, Disjoint, Within
<1> QED  BY <1>1, Invariance, PTL

(* The assertions of Chunk::new and of the buckets never fail.             *)
THEOREM NoUnsoundChunk == Spec => []ChunksSound
<1>1. IInv => ChunksSound
  BY PlacedIsSound DEF IInv, HeapOK, Tiling, ChunksSound, Chunks
<1> QED  BY <1>1, Invariance, PTL

(* was_freed never holds of an address that is in use.                     *)
THEOREM NoFalseDoubleFree == Spec => []FreedNotInUse
<1>1. IInv => FreedNotInUse  BY DEF IInv, HeapOK, FreedNotInUse
<1> QED  BY <1>1, Invariance, PTL

-----------------------------------------------------------------------------
(* The blocks of the guest, when what is freed is cleared: every block has *)
(* a chunk of its own, and every header that memory holds lies in a chunk  *)
(* in use and belongs to the block of that chunk. The rest of memory in    *)
(* use is accounted for; what is not in use is zero.                       *)
Backed(h, b) ==
  \E c \in h.used : c.base = b.raw /\ b.raw <= b.ptr /\ b.ptr + b.size <= End(c)

Held(h, hd) ==
  \E c \in h.used : c.base = hd.raw /\ hd.raw + 2 <= hd.at /\ hd.at <= End(c)

Blocks == [ptr : Nat, size : Nat \ {0}, raw : Nat,
           by : {"malloc", "realloc", "posix_memalign", "zone_memalign"}]

Owned(h, hs, B) ==
  /\ B \subseteq Blocks
  /\ hs \subseteq [at : Nat, raw : Nat]
  /\ \A b \in B : Backed(h, b)
  /\ \A b, d \in B : b.raw = d.raw => b = d
  /\ \A b \in B : b.by \in {"malloc", "realloc"} => b.ptr = b.raw
  /\ \A b \in B :
       b.by = "posix_memalign" => [at |-> b.ptr, raw |-> b.raw] \in hs
  /\ \A hd \in hs : Held(h, hd)
  /\ \A hd \in hs, b \in B : hd.raw = b.raw => hd.at = b.ptr

Clean(h, D) == \A c \in h.unused : Span(c) \cap D = {}

Accounted(h, B, L) ==
  \A c \in h.used :
    \/ c.base = 0 \/ c.base = StackBase
    \/ c \in Segments
    \/ \E b \in B : b.raw = c.base
    \/ c.base \in L

(* A call of the guest that asks for memory.                               *)
Asked(cl) ==
  /\ cl.size \in Nat \ {0} /\ cl.need \in Nat \ {0}
  /\ \/ cl.op = "malloc" /\ cl.need = cl.size
     \/ /\ cl.op = "realloc" /\ cl.need = cl.size
        /\ cl.old \in live
        /\ \A c \in Known(heap, cl.old.ptr) : c.size < cl.size
     \/ /\ cl.op = "posix_memalign" /\ cl.align \in Nat \ {0}
        /\ cl.need = cl.size + cl.align + 2
     \/ /\ cl.op = "zone_memalign" /\ cl.align \in Nat \ {0}
        /\ cl.need = cl.size + cl.align + 1

BlockInv ==
  /\ IInv
  /\ pc = "load" => live = {} /\ headers = {}
  /\ pc = "coalesce" => Asked(call)
  /\ ZeroOnFree =>
       /\ Owned(heap, headers, live)
       /\ Clean(heap, dirty)
       /\ Accounted(heap, live, lost)

(* Chunks in use that share a word are the same, and share no word with an *)
(* unused one.                                                             *)
LEMMA UsedApart ==
  ASSUME NEW h, HeapOK(h)
  PROVE  /\ \A c, e \in h.used : \A a \in Nat :
              Within(a, c) /\ Within(a, e) => c = e
         /\ \A c \in h.used, e \in h.unused : \A a \in Nat :
              ~(Within(a, c) /\ Within(a, e))
         /\ \A c \in h.used \cup h.unused :
              /\ c \in [base : Nat, size : Nat \ {0}]
              /\ End(c) <= MemTop
         /\ \A c, e \in h.used : c.base = e.base => c = e
         /\ \A c \in h.used, e \in h.unused : c.base # e.base
<1> DEFINE S == h.used \cup h.unused
<1>1. /\ Tiling(S) /\ h.used \cap h.unused = {}
      /\ \A c \in S : c.base \in Nat /\ c.size \in Nat \ {0}
      /\ \A c \in S : c \in [base : Nat, size : Nat \ {0}] /\ End(c) <= MemTop
  BY DEF HeapOK, Tiling, Placed
<1>2. ASSUME NEW c \in S, NEW e \in S, NEW a \in Nat, Within(a, c), Within(a, e)
      PROVE  c = e
  <2>1. ~Disjoint(c, e)  BY <1>1, <1>2 DEF Disjoint, Within, End
  <2> QED  BY <1>1, <2>1 DEF Tiling
<1>3. ASSUME NEW c \in S, NEW e \in S, c.base = e.base
      PROVE  c = e
  BY <1>1, <1>3, SameBoundary
<1>4. \A c \in h.used, e \in h.unused : c # e  BY <1>1
<1> QED  BY <1>1, <1>2, <1>3, <1>4

(* What is not in use stays clean as long as a chunk that is given back is.*)
LEMMA StaysClean ==
  ASSUME NEW h, NEW g, HeapOK(h), HeapOK(g), NEW D, Clean(h, D),
         \A c \in h.used : c \in g.used \/ Span(c) \cap D = {}
  PROVE  Clean(g, D)
<1> SUFFICES ASSUME NEW u \in g.unused, NEW a \in Span(u), a \in D
             PROVE FALSE
  BY DEF Clean
<1>1. /\ u.base \in Nat /\ u.size \in Nat \ {0} /\ End(u) <= MemTop
      /\ End(u) = u.base + u.size
  BY UsedApart DEF End
<1>2. a \in Nat /\ Within(a, u) /\ a \in Addresses
  BY <1>1, HeapAssumption DEF Span, Within, Addresses
<1>3. PICK c \in h.used \cup h.unused : Within(a, c)
  BY <1>2 DEF HeapOK, Tiling
<1>4. c.base \in Nat /\ c.size \in Nat \ {0} /\ End(c) = c.base + c.size
  BY <1>3, UsedApart DEF End
<1>5. a \in Span(c)  BY <1>2, <1>3, <1>4 DEF Span, Within
<1>6. CASE c \in h.unused  BY <1>5, <1>6 DEF Clean
<1>7. CASE c \in h.used /\ c \in g.used  BY <1>2, <1>3, <1>7, UsedApart
<1>8. CASE c \in h.used /\ Span(c) \cap D = {}  BY <1>5, <1>8
<1> QED  BY <1>3, <1>6, <1>7, <1>8

(* The words of a header lie in the chunk that holds it, and in no other.  *)
LEMMA HeaderApart ==
  ASSUME NEW h, HeapOK(h), NEW hd \in [at : Nat, raw : Nat], Held(h, hd),
         NEW k \in h.used, hd.raw # k.base, NEW W, W \subseteq Span(k)
  PROVE  Header(hd.at) \cap W = {}
<1>1. PICK c \in h.used : c.base = hd.raw /\ hd.raw + 2 <= hd.at /\ hd.at <= End(c)
  BY DEF Held
<1>2. /\ c.base \in Nat /\ c.size \in Nat \ {0} /\ End(c) = c.base + c.size
      /\ k.base \in Nat /\ k.size \in Nat \ {0} /\ End(k) = k.base + k.size
      /\ hd.at \in Nat /\ hd.raw \in Nat
  BY UsedApart DEF End
<1>3. SUFFICES ASSUME NEW a \in Header(hd.at), a \in W  PROVE FALSE
  OBVIOUS
<1>4. a = hd.at - 2 \/ a = hd.at - 1  BY DEF Header
<1>5. a \in Nat /\ Within(a, c)  BY <1>1, <1>2, <1>4 DEF Within
<1>6. Within(a, k)  BY <1>2, <1>3, <1>5 DEF Within, Span
<1> QED  BY <1>1, <1>5, <1>6, UsedApart

(* The chunk of a block is the one that its address lies in.               *)
LEMMA BlockApart ==
  ASSUME NEW h, HeapOK(h), NEW b \in Blocks, Backed(h, b), NEW k \in h.used,
         Within(b.ptr, k) \/ k.base = b.raw
  PROVE  /\ k.base = b.raw /\ b.raw <= b.ptr /\ b.ptr + b.size <= End(k)
         /\ Within(b.ptr, k)
         /\ b.ptr..(b.ptr + b.size - 1) \subseteq Span(k)
<1>1. PICK c \in h.used : c.base = b.raw /\ b.raw <= b.ptr /\ b.ptr + b.size <= End(c)
  BY DEF Backed
<1>2. /\ c.base \in Nat /\ c.size \in Nat \ {0} /\ End(c) = c.base + c.size
      /\ b.ptr \in Nat /\ b.size \in Nat \ {0}
  BY UsedApart DEF End, Blocks
<1>3. Within(b.ptr, c)  BY <1>1, <1>2 DEF Within
<1>4. k = c  BY <1>1, <1>2, <1>3, UsedApart
<1>5. b.ptr..(b.ptr + b.size - 1) \subseteq Span(c)  BY <1>1, <1>2 DEF Span
<1> QED  BY <1>1, <1>3, <1>4, <1>5

(* A chunk that is taken belongs to no block and to no header yet.         *)
LEMMA TakeOwns ==
  ASSUME NEW h, HeapOK(h), NEW c \in h.unused, NEW n, Rounded(n), n <= c.size,
         NEW hs, NEW B, NEW D, Owned(h, hs, B), Clean(h, D)
  PROVE  LET t == Take(h, c, n)
             k == Chunk(c.base, n)
         IN  /\ Owned(t, hs, B) /\ Clean(t, D)
             /\ \A b \in B : b.raw # k.base
             /\ \A hd \in hs : hd.raw # k.base
             /\ Span(k) \cap D = {}
<1> DEFINE t == Take(h, c, n)
           k == Chunk(c.base, n)
<1>1. t.used = h.used \cup {k} /\ k.base = c.base /\ k.size = n
  BY DEF Take, Chunk
<1>2. HeapOK(t)  BY TakeKeeps
<1> HIDE DEF t, k
<1>3. \A e \in h.used : e.base # k.base  BY <1>1, UsedApart
<1>4. \A b \in B : b.raw # k.base  BY <1>3 DEF Owned, Backed
<1>5. \A hd \in hs : hd.raw # k.base  BY <1>3 DEF Owned, Held
<1>6. \A b \in B : Backed(t, b)  BY <1>1 DEF Owned, Backed
<1>7. \A hd \in hs : Held(t, hd)  BY <1>1 DEF Owned, Held
<1>8. Owned(t, hs, B)  BY <1>6, <1>7 DEF Owned
<1>9. Clean(t, D)  BY <1>1, <1>2, StaysClean
<1>10. Span(k) \subseteq Span(c)
  <2>1. c.base \in Nat /\ c.size \in Nat \ {0} /\ n \in Nat
    BY UsedApart DEF Rounded
  <2> QED  BY <1>1, <2>1 DEF Span, End
<1>11. Span(k) \cap D = {}  BY <1>10 DEF Clean
<1> QED  BY <1>4, <1>5, <1>8, <1>9, <1>11 DEF t, k

(* A block, and perhaps its header, is put in a chunk that is nobody's.    *)
LEMMA GiveOwns ==
  ASSUME NEW h, HeapOK(h), NEW hs, NEW B, NEW D, Owned(h, hs, B), Clean(h, D),
         NEW k \in h.used,
         \A b \in B : b.raw # k.base,
         \A hd \in hs : hd.raw # k.base,
         NEW x \in Blocks, x.raw = k.base, x.raw <= x.ptr, x.ptr + x.size <= End(k),
         x.by \in {"malloc", "realloc"} => x.ptr = x.raw,
         NEW new,
         new = {} \/ (new = {[at |-> x.ptr, raw |-> x.raw]} /\ x.raw + 2 <= x.ptr),
         x.by = "posix_memalign" => new # {},
         NEW W, W \subseteq Span(k)
  PROVE  /\ Owned(h, hs \cup new, B \cup {x})
         /\ Clean(h, D \cup W)
<1> DEFINE y == [at |-> x.ptr, raw |-> x.raw]
<1>1. y \in [at : Nat, raw : Nat] /\ y.at = x.ptr /\ y.raw = x.raw
  BY DEF Blocks
<1>2. new = {} \/ (new = {y} /\ x.raw + 2 <= x.ptr)  OBVIOUS
<1>3. /\ k.base \in Nat /\ k.size \in Nat \ {0} /\ End(k) = k.base + k.size
      /\ x.ptr \in Nat /\ x.size \in Nat \ {0} /\ x.raw \in Nat
  BY UsedApart DEF End, Blocks
<1>4. Backed(h, x)  BY DEF Backed
<1>5. y \in new => Held(h, y)  BY <1>1, <1>2, <1>3 DEF Held
<1>6. x.by = "posix_memalign" => y \in new  BY <1>2
<1>7. \A z \in new : z = y  BY <1>2
<1> HIDE DEF y
<1>8. Owned(h, hs \cup new, B \cup {x})
  <2>1. B \cup {x} \subseteq Blocks /\ hs \cup new \subseteq [at : Nat, raw : Nat]
    BY <1>1, <1>7 DEF Owned
  <2>2. \A b \in B \cup {x} : Backed(h, b)  BY <1>4 DEF Owned
  <2>3. \A b, d \in B \cup {x} : b.raw = d.raw => b = d  BY DEF Owned
  <2>4. \A b \in B \cup {x} : b.by \in {"malloc", "realloc"} => b.ptr = b.raw
    BY DEF Owned
  <2>5. \A b \in B \cup {x} :
          b.by = "posix_memalign" => [at |-> b.ptr, raw |-> b.raw] \in hs \cup new
    BY <1>6 DEF Owned, y
  <2>6. \A hd \in hs \cup new : Held(h, hd)  BY <1>5, <1>7 DEF Owned
  <2>7. \A hd \in hs \cup new, b \in B \cup {x} : hd.raw = b.raw => hd.at = b.ptr
    BY <1>1, <1>7 DEF Owned
  <2> QED  BY <2>1, <2>2, <2>3, <2>4, <2>5, <2>6, <2>7 DEF Owned
<1>9. Clean(h, D \cup W)
  <2> SUFFICES ASSUME NEW u \in h.unused, NEW a \in Span(u), a \in W  PROVE FALSE
    BY DEF Clean
  <2>1. u.base \in Nat /\ u.size \in Nat \ {0} /\ End(u) = u.base + u.size
    BY UsedApart DEF End
  <2>2. a \in Nat /\ Within(a, u) /\ Within(a, k)
    BY <1>3, <2>1 DEF Span, Within
  <2> QED  BY <2>2, UsedApart
<1> QED  BY <1>8, <1>9

(* A chunk is released: its block and its header go, and it is cleared.    *)
LEMMA ReleaseOwns ==
  ASSUME NEW h, HeapOK(h), NEW hs, NEW B, NEW D, Owned(h, hs, B), Clean(h, D),
         NEW f \in h.used
  PROVE  LET B2 == {b \in B : b.raw # f.base}
             hs2 == {hd \in hs : Header(hd.at) \cap Span(f) = {}}
         IN  /\ Owned(Release(h, f), hs2, B2)
             /\ Clean(Release(h, f), D \ Span(f))
<1> DEFINE g == Release(h, f)
           B2 == {b \in B : b.raw # f.base}
           hs2 == {hd \in hs : Header(hd.at) \cap Span(f) = {}}
<1>1. HeapOK(g) /\ g.used = h.used \ {f}  BY ReleaseKeeps DEF Release
<1> HIDE DEF g
<1>2. \A b \in B2 : Backed(g, b)  BY <1>1 DEF Owned, Backed
<1>3. \A hd \in hs : hd.raw # f.base => hd \in hs2
  BY HeaderApart DEF Owned
<1>4. ASSUME NEW hd \in hs2  PROVE hd.raw # f.base
  <2>1. SUFFICES ASSUME hd.raw = f.base  PROVE FALSE
    OBVIOUS
  <2>2. PICK c \in h.used : c.base = hd.raw /\ hd.raw + 2 <= hd.at /\ hd.at <= End(c)
    BY DEF Owned, Held
  <2>3. c = f  BY <2>1, <2>2, UsedApart
  <2>4. /\ f.base \in Nat /\ f.size \in Nat \ {0} /\ End(f) = f.base + f.size
        /\ hd.at \in Nat
    BY UsedApart DEF End, Owned
  <2>5. hd.at - 1 \in Span(f)  BY <2>1, <2>2, <2>3, <2>4 DEF Span
  <2>6. hd.at - 1 \in Header(hd.at)  BY DEF Header
  <2> QED  BY <2>5, <2>6
<1>5. \A hd \in hs2 : Held(g, hd)  BY <1>1, <1>4 DEF Owned, Held
<1>6. \A b \in B2 :
        b.by = "posix_memalign" => [at |-> b.ptr, raw |-> b.raw] \in hs2
  BY <1>3 DEF Owned
<1>7. B2 \subseteq B /\ hs2 \subseteq hs  OBVIOUS
<1> HIDE DEF B2, hs2
<1>8. Owned(g, hs2, B2)
  <2>1. B2 \subseteq Blocks /\ hs2 \subseteq [at : Nat, raw : Nat]
    BY <1>7 DEF Owned
  <2>2. \A b, d \in B2 : b.raw = d.raw => b = d  BY <1>7 DEF Owned
  <2>3. \A b \in B2 : b.by \in {"malloc", "realloc"} => b.ptr = b.raw
    BY <1>7 DEF Owned
  <2>4. \A hd \in hs2, b \in B2 : hd.raw = b.raw => hd.at = b.ptr
    BY <1>7 DEF Owned
  <2> QED  BY <2>1, <2>2, <2>3, <2>4, <1>2, <1>5, <1>6 DEF Owned
<1>9. Clean(g, D \ Span(f))
  <2> DEFINE E == D \ Span(f)
  <2>1. Clean(h, E)  BY DEF Clean
  <2>2. \A c \in h.used : c \in g.used \/ Span(c) \cap E = {}  BY <1>1
  <2> HIDE DEF E
  <2> QED  BY <1>1, <2>1, <2>2, StaysClean DEF E
<1> QED  BY <1>8, <1>9 DEF g, B2, hs2

(* Fewer blocks have their chunks, too.                                    *)
LEMMA FewerOwns ==
  ASSUME NEW h, NEW hs, NEW B, Owned(h, hs, B), NEW B2, B2 \subseteq B
  PROVE  Owned(h, hs, B2)
BY DEF Owned

(* What free finds at the address of a block is the chunk of the block.    *)
LEMMA TargetOfBlock ==
  ASSUME NEW h, HeapOK(h), NEW B, Owned(h, headers, B), NEW a \in Nat,
         NEW f \in FreeTarget(h, a)
  PROVE  /\ f \in h.used
         /\ \A b \in B : b.ptr = a => b.raw = f.base
         /\ \A b \in B : b.raw = f.base => b.ptr = a \/ b.raw = a
<1>1. \A b \in B : b \in Blocks /\ Backed(h, b)  BY DEF Owned
<1>2. CASE Known(h, a) # {}
  <2>1. f \in h.used /\ f.base = a  BY <1>2 DEF FreeTarget, Known
  <2>2. f.size \in Nat \ {0} /\ Within(a, f)
    BY <2>1, UsedApart DEF Within, End
  <2>3. \A b \in B : b.ptr = a => b.raw = f.base
    BY <1>1, <2>1, <2>2, BlockApart
  <2> QED  BY <2>1, <2>3
<1>3. CASE Known(h, a) = {}
  <2>1. PICK x \in headers : x.at = a /\ f \in Known(h, x.raw)
    BY <1>3 DEF FreeTarget
  <2>2. f \in h.used /\ f.base = x.raw /\ Held(h, x)
    BY <2>1 DEF Known, Owned
  <2>3. PICK c \in h.used : c.base = x.raw /\ x.raw + 2 <= x.at /\ x.at <= End(c)
    BY <2>2 DEF Held
  <2>4. c = f  BY <2>2, <2>3, UsedApart
  <2>5. \A b \in B : b.raw = f.base => b.ptr = a  BY <2>1, <2>2 DEF Owned
  <2>6. ASSUME NEW b \in B, b.ptr = a  PROVE b.raw = f.base
    <3>1. PICK e \in h.used : e.base = b.raw /\ b.raw <= b.ptr /\ b.ptr + b.size <= End(e)
      BY <1>1 DEF Backed
    <3>2. /\ e.base \in Nat /\ e.size \in Nat \ {0} /\ End(e) = e.base + e.size
          /\ f.base \in Nat /\ f.size \in Nat \ {0} /\ End(f) = f.base + f.size
          /\ b.ptr \in Nat /\ b.size \in Nat \ {0}
      BY <1>1, <2>2, <3>1, UsedApart DEF End, Blocks
    <3>3. e.base # a  BY <1>3, <3>1 DEF Known
    <3>4. a - 1 \in Nat /\ Within(a - 1, e) /\ Within(a - 1, f)
      BY <2>1, <2>2, <2>3, <2>4, <2>6, <3>1, <3>2, <3>3 DEF Within
    <3>5. e = f  BY <2>2, <3>1, <3>4, UsedApart
    <3> QED  BY <3>1, <3>5
  <2> QED  BY <2>2, <2>5, <2>6
<1> QED  BY <1>2, <1>3

(* free finds the chunk of a block, unless malloc_zone_memalign made it.   *)
LEMMA TargetFound ==
  ASSUME NEW h, NEW B, Owned(h, headers, B), NEW b \in B,
         b.by # "zone_memalign"
  PROVE  FreeTarget(h, b.ptr) # {}
<1>1. PICK c \in h.used : c.base = b.raw  BY DEF Owned, Backed
<1>2. c \in Known(h, b.raw)  BY <1>1 DEF Known
<1>3. b.by \in {"malloc", "realloc", "posix_memalign"}  BY DEF Owned, Blocks
<1>4. CASE b.by \in {"malloc", "realloc"}
  <2>1. b.ptr = b.raw  BY <1>4 DEF Owned
  <2> QED  BY <1>2, <2>1 DEF FreeTarget
<1>5. CASE b.by = "posix_memalign"
  <2> DEFINE y == [at |-> b.ptr, raw |-> b.raw]
  <2>1. y \in headers /\ y.at = b.ptr /\ y.raw = b.raw  BY <1>5 DEF Owned
  <2> HIDE DEF y
  <2>2. c \in UNION {Known(h, hd.raw) : hd \in {x \in headers : x.at = b.ptr}}
    BY <1>2, <2>1
  <2> QED  BY <2>2 DEF FreeTarget
<1> QED  BY <1>3, <1>4, <1>5

(* The headers outside of a chunk are kept when words of it are written.   *)
LEMMA HeadersKept ==
  ASSUME NEW h, HeapOK(h), NEW hs, NEW B, Owned(h, hs, B), NEW k \in h.used,
         \A hd \in hs : hd.raw # k.base, NEW W, W \subseteq Span(k)
  PROVE  {hd \in hs : Header(hd.at) \cap W = {}} = hs
BY HeaderApart DEF Owned

(* malloc gets a block.                                                    *)
LEMMA MallocOwns ==
  ASSUME ZeroOnFree, NEW h, HeapOK(h), Owned(h, headers, live), Clean(h, dirty),
         NEW k \in h.used,
         \A b \in live : b.raw # k.base,
         \A hd \in headers : hd.raw # k.base,
         NEW cl, Asked(cl), cl.need <= k.size,
         FinishMalloc(h, cl, k.base), cl.op = "malloc"
  PROVE  /\ Owned(h, headers', live') /\ Clean(h, dirty')
         /\ live' = live \cup {Block(k.base, cl.size, k.base, cl.op)}
<1> DEFINE x == Block(k.base, cl.size, k.base, cl.op)
<1>1. /\ k.base \in Nat /\ k.size \in Nat \ {0} /\ End(k) = k.base + k.size
      /\ cl.size \in Nat \ {0} /\ cl.need = cl.size
  BY UsedApart DEF Asked, End
<1>2. /\ x \in Blocks /\ x.raw = k.base /\ x.ptr = k.base /\ x.size = cl.size
      /\ x.by = "malloc"
  BY <1>1 DEF Blocks, Block
<1>3. /\ dirty' = dirty /\ headers' = headers /\ live' = live \cup {x}
  BY DEF FinishMalloc, Cleared, Erase
<1> HIDE DEF x
<1>4. /\ Owned(h, headers \cup {}, live \cup {x})
      /\ Clean(h, dirty \cup {})
  <2>1. x.raw <= x.ptr /\ x.ptr + x.size <= End(k)  BY <1>1, <1>2
  <2> QED  BY <1>2, <2>1, GiveOwns
<1>5. headers \cup {} = headers /\ dirty \cup {} = dirty  OBVIOUS
<1> QED  BY <1>3, <1>4, <1>5 DEF x

(* Where an aligned block and its header lie in their chunk.               *)
LEMMA AlignedFits ==
  ASSUME NEW base \in Nat, NEW words \in 1..2, NEW align \in Nat \ {0},
         NEW size \in Nat \ {0}
  PROVE  LET at == AlignUp(base + words, align) IN
         /\ at \in Nat /\ base + words <= at
         /\ at + size <= base + (size + align + words)
<1>1. base + words \in Nat  OBVIOUS
<1>2. /\ CeilTo(base + words, align) \in Nat
      /\ base + words <= CeilTo(base + words, align)
      /\ CeilTo(base + words, align) < base + words + align
  BY <1>1, CeilToIsNext
<1> QED  BY <1>2 DEF AlignUp

(* posix_memalign and malloc_zone_memalign get a block.                    *)
LEMMA AlignedOwns ==
  ASSUME ZeroOnFree, NEW h, HeapOK(h), Owned(h, headers, live), Clean(h, dirty),
         NEW k \in h.used,
         \A b \in live : b.raw # k.base,
         \A hd \in headers : hd.raw # k.base,
         NEW cl, Asked(cl), cl.need <= k.size,
         FinishAligned(h, cl, k.base), cl.op \in {"posix_memalign", "zone_memalign"}
  PROVE  /\ Owned(h, headers', live') /\ Clean(h, dirty')
         /\ \E x : x.raw = k.base /\ live' = live \cup {x}
<1> DEFINE words == IF cl.op = "posix_memalign" THEN 2 ELSE 1
           at == AlignUp(k.base + words, cl.align)
           W == (at - words)..(at - 1)
           new == IF words = 2 THEN {[at |-> at, raw |-> k.base]} ELSE {}
           x == Block(at, cl.size, k.base, cl.op)
<1>1. /\ k.base \in Nat /\ k.size \in Nat \ {0} /\ End(k) = k.base + k.size
      /\ cl.size \in Nat \ {0} /\ cl.align \in Nat \ {0}
      /\ cl.need = cl.size + cl.align + words
      /\ words \in 1..2
  BY UsedApart DEF Asked, End
<1>2. /\ dirty' = (dirty \ Cleared(k.base, cl.need)) \cup W
      /\ headers' = {hd \in headers :
                       Header(hd.at) \cap (Cleared(k.base, cl.need) \cup W) = {}} \cup new
      /\ live' = live \cup {x}
  BY DEF FinishAligned
<1>3. cl.op = "posix_memalign" <=> words = 2  OBVIOUS
<1>4. new = {} \/ (new = {[at |-> at, raw |-> k.base]} /\ words = 2)  OBVIOUS
<1>5. words = 2 => new # {}  OBVIOUS
<1> HIDE DEF words, new
<1>6. /\ at \in Nat /\ k.base + words <= at
      /\ at + cl.size <= k.base + cl.need
  BY <1>1, AlignedFits
<1> HIDE DEF at
<1>7. /\ x \in Blocks /\ x.raw = k.base /\ x.ptr = at /\ x.size = cl.size
      /\ x.by = cl.op
  BY <1>1, <1>6 DEF Blocks, Block
<1>8. x.raw <= x.ptr /\ x.ptr + x.size <= End(k)  BY <1>1, <1>6, <1>7
<1>9. W \subseteq Span(k)  BY <1>1, <1>6 DEF Span
<1> HIDE DEF x, W
<1>10. new = {} \/ (new = {[at |-> x.ptr, raw |-> x.raw]} /\ x.raw + 2 <= x.ptr)
  BY <1>1, <1>4, <1>6, <1>7
<1>11. /\ Owned(h, headers \cup new, live \cup {x})
       /\ Clean(h, dirty \cup W)
  BY <1>3, <1>5, <1>7, <1>8, <1>9, <1>10, GiveOwns
<1>12. {hd \in headers : Header(hd.at) \cap W = {}} = headers
  BY <1>9, HeadersKept
<1>13. Cleared(k.base, cl.need) = {}  BY DEF Cleared
<1>14. dirty' = dirty \cup W /\ headers' = headers \cup new
  BY <1>2, <1>12, <1>13
<1> QED  BY <1>2, <1>7, <1>11, <1>14

(* realloc gets a block, and gives its old one back if free finds it.      *)
LEMMA ReallocOwns ==
  ASSUME ZeroOnFree, NEW h, HeapOK(h), Owned(h, headers, live), Clean(h, dirty),
         NEW k \in h.used,
         \A b \in live : b.raw # k.base,
         \A hd \in headers : hd.raw # k.base,
         NEW cl, Asked(cl), cl.need <= k.size,
         h.used = heap.used \cup {k},
         Accounted(heap, live, lost),
         FinishRealloc(h, cl, k.base), cl.op = "realloc"
  PROVE  /\ Owned(heap', headers', live') /\ Clean(heap', dirty')
         /\ Accounted(heap', live', lost')
<1> DEFINE old == cl.old
           from == UNION {Span(c) : c \in Known(h, old.ptr)}
           gone == FreeTarget(h, old.ptr)
           zeroed == UNION {Span(c) : c \in gone}
           copy == {k.base + (a - old.ptr) : a \in dirty \cap from}
           x == Block(k.base, cl.size, k.base, cl.op)
           f == CHOOSE c \in gone : TRUE
           B == live \cup {x}
           D == dirty \cup copy
<1>1. /\ k.base \in Nat /\ k.size \in Nat \ {0} /\ End(k) = k.base + k.size
      /\ cl.size \in Nat \ {0} /\ cl.need = cl.size
      /\ old \in live
      /\ \A c \in Known(heap, old.ptr) : c.size < cl.size
  BY UsedApart DEF Asked, End
<1>2. /\ heap' = IF gone = {} THEN h ELSE Release(h, f)
      /\ dirty' = ((dirty \ Cleared(k.base, cl.size)) \cup copy) \ zeroed
      /\ headers' = {hd \in headers :
                       Header(hd.at) \cap (Cleared(k.base, cl.size) \cup zeroed) = {}}
      /\ live' = (live \ {old}) \cup {x}
      /\ lost' = lost \cup Stranded({old}, gone)
  BY DEF FinishRealloc
<1>3. Cleared(k.base, cl.size) = {}  BY DEF Cleared
<1>4. /\ x \in Blocks /\ x.raw = k.base /\ x.ptr = k.base /\ x.size = cl.size
      /\ x.by = "realloc"
  BY <1>1 DEF Blocks, Block
<1>5. old \in Blocks /\ Backed(h, old) /\ old.raw # k.base /\ old.ptr \in Nat
  BY <1>1 DEF Owned, Blocks
<1>6. copy \subseteq Span(k)
  <2> SUFFICES ASSUME NEW c \in Known(h, old.ptr), NEW a \in Span(c)
               PROVE k.base + (a - old.ptr) \in Span(k)
    OBVIOUS
  <2>1. c \in h.used /\ c.base = old.ptr  BY DEF Known
  <2>2. /\ c.base \in Nat /\ c.size \in Nat \ {0} /\ End(c) = c.base + c.size
    BY <2>1, UsedApart DEF End
  <2>3. Within(old.ptr, c)  BY <2>1, <2>2 DEF Within
  <2>4. c.base = old.raw  BY <1>5, <2>1, <2>3, BlockApart
  <2>5. c \in Known(heap, old.ptr)  BY <1>5, <2>1, <2>4 DEF Known
  <2>6. c.size < cl.size  BY <1>1, <2>5
  <2> QED  BY <1>1, <2>1, <2>2, <2>6 DEF Span
<1>7. gone \subseteq h.used /\ \A c \in gone : c.base = old.raw
  BY <1>1, <1>5, TargetOfBlock
<1>8. gone # {} => f \in gone /\ f.base = old.raw /\ f \in h.used /\ zeroed = Span(f)
  <2> SUFFICES ASSUME gone # {}
               PROVE f \in gone /\ f.base = old.raw /\ f \in h.used /\ zeroed = Span(f)
    OBVIOUS
  <2>1. f \in gone  OBVIOUS
  <2> HIDE DEF gone, f
  <2>2. \A c \in gone : c = f  BY <1>7, <2>1, UsedApart
  <2>3. gone = {f}  BY <2>1, <2>2
  <2> QED  BY <1>7, <2>1, <2>3
<1>9. gone = {} => zeroed = {} /\ (old.by = "zone_memalign" => old.raw \in lost')
  BY <1>2 DEF Stranded
<1>10. gone = {} => old.by = "zone_memalign"
  BY <1>1, TargetFound
<1> HIDE DEF old, gone, zeroed, copy, x, f
<1>11. /\ Owned(h, headers \cup {}, B)
       /\ Clean(h, D)
  <2>1. x.raw <= x.ptr /\ x.ptr + x.size <= End(k)  BY <1>1, <1>4
  <2> QED  BY <1>4, <1>6, <2>1, GiveOwns
<1>12. headers \cup {} = headers  OBVIOUS
<1>13. Owned(h, headers, B)  BY <1>11, <1>12
<1>14. /\ dirty' = D \ zeroed
       /\ headers' = {hd \in headers : Header(hd.at) \cap zeroed = {}}
  BY <1>2, <1>3
<1>15. CASE gone = {}
  <2>1. heap' = h  BY <1>2, <1>15
  <2>2. dirty' = D /\ headers' = headers  BY <1>9, <1>14, <1>15
  <2>3. live' \subseteq B  BY <1>2
  <2>4. Owned(h, headers, live')  BY <1>13, <2>3, FewerOwns
  <2>5. Accounted(h, live', lost')
    <3> SUFFICES ASSUME NEW c \in h.used,
                        c.base # 0, c.base # StackBase, c \notin Segments,
                        c.base \notin lost'
                 PROVE \E b \in live' : b.raw = c.base
      BY DEF Accounted
    <3>1. CASE c = k  BY <1>2, <1>4, <3>1
    <3>2. CASE c \in heap.used
      <4>1. c.base \notin lost  BY <1>2
      <4>2. PICK b \in live : b.raw = c.base  BY <3>2, <4>1 DEF Accounted
      <4>3. b # old  BY <1>9, <1>10, <1>15, <4>2
      <4> QED  BY <1>2, <4>2, <4>3
    <3> QED  BY <3>1, <3>2
  <2> QED  BY <1>11, <2>1, <2>2, <2>4, <2>5
<1>16. CASE gone # {}
  <2> DEFINE g == Release(h, f)
             B2 == {b \in B : b.raw # f.base}
  <2>1. heap' = g /\ dirty' = D \ Span(f)
        /\ headers' = {hd \in headers : Header(hd.at) \cap Span(f) = {}}
    BY <1>2, <1>8, <1>14, <1>16
  <2>2. /\ Owned(g, {hd \in headers : Header(hd.at) \cap Span(f) = {}}, B2)
        /\ Clean(g, D \ Span(f))
    <3> HIDE DEF B, D
    <3> QED  BY <1>8, <1>11, <1>13, <1>16, ReleaseOwns
  <2>3. live' = B2
    <3>1. \A b \in live : b.raw = f.base <=> b = old
      BY <1>1, <1>8, <1>16 DEF Owned
    <3>2. x.raw # f.base  BY <1>4, <1>5, <1>8, <1>16
    <3> QED  BY <1>2, <3>1, <3>2
  <2>4. g.used = h.used \ {f}  BY DEF Release
  <2>5. Accounted(g, live', lost')
    <3> SUFFICES ASSUME NEW c \in h.used, c # f,
                        c.base # 0, c.base # StackBase, c \notin Segments,
                        c.base \notin lost'
                 PROVE \E b \in live' : b.raw = c.base
      BY <2>4 DEF Accounted
    <3>1. CASE c = k  BY <1>2, <1>4, <3>1
    <3>2. CASE c \in heap.used
      <4>1. c.base \notin lost  BY <1>2
      <4>2. PICK b \in live : b.raw = c.base  BY <3>2, <4>1 DEF Accounted
      <4>3. c.base # f.base  BY <1>8, <1>16, UsedApart
      <4>4. b \in B2  BY <4>2, <4>3
      <4> QED  BY <2>3, <4>2, <4>4
    <3> QED  BY <3>1, <3>2
  <2> QED  BY <2>1, <2>2, <2>3, <2>5
<1> QED  BY <1>15, <1>16

(* What a call that gets its memory leaves.                                *)
LEMMA GrantOwns ==
  ASSUME IInv, ZeroOnFree, Owned(heap, headers, live), Clean(heap, dirty),
         Accounted(heap, live, lost),
         NEW cl, Asked(cl), NEW c \in Candidates(heap, RoundUp(cl.need)),
         Finish(Take(heap, c, RoundUp(cl.need)), cl, c.base)
  PROVE  /\ Owned(heap', headers', live') /\ Clean(heap', dirty')
         /\ Accounted(heap', live', lost')
<1> DEFINE n == RoundUp(cl.need)
           h == Take(heap, c, n)
           k == Chunk(c.base, n)
<1>1. Rounded(n) /\ n >= cl.need  BY RoundUpRounds DEF Asked
<1>2. HeapOK(heap) /\ c \in heap.unused /\ c.size >= n
  BY CandidatesFit DEF IInv
<1>3. n \in Nat /\ c.size \in Nat  BY <1>1, <1>2, UsedApart DEF Rounded
<1> HIDE DEF n
<1>4. /\ HeapOK(h)
      /\ Owned(h, headers, live) /\ Clean(h, dirty)
      /\ \A b \in live : b.raw # k.base
      /\ \A hd \in headers : hd.raw # k.base
  BY <1>1, <1>2, <1>3, TakeKeeps, TakeOwns
<1>5. /\ h.used = heap.used \cup {k} /\ k.base = c.base /\ k.size = n
  BY DEF Take, Chunk
<1>6. Finish(h, cl, k.base)  BY <1>5 DEF n
<1>7. cl.need <= k.size /\ k \in h.used  BY <1>1, <1>5
<1> HIDE DEF h, k
<1>8. ASSUME lost' = lost, heap' = h, NEW x, x.raw = k.base, live' = live \cup {x}
      PROVE  Accounted(heap', live', lost')
  BY <1>5, <1>8 DEF Accounted
<1>9. CASE cl.op = "malloc" /\ FinishMalloc(h, cl, k.base)
  <2>1. heap' = h /\ lost' = lost  BY <1>9 DEF FinishMalloc
  <2>2. /\ Owned(h, headers', live') /\ Clean(h, dirty')
        /\ live' = live \cup {Block(k.base, cl.size, k.base, cl.op)}
    BY <1>4, <1>7, <1>9, MallocOwns
  <2>3. Block(k.base, cl.size, k.base, cl.op).raw = k.base  BY DEF Block
  <2> QED  BY <1>8, <2>1, <2>2, <2>3
<1>10. CASE cl.op \in {"posix_memalign", "zone_memalign"} /\ FinishAligned(h, cl, k.base)
  <2>1. heap' = h /\ lost' = lost  BY <1>10 DEF FinishAligned
  <2>2. /\ Owned(h, headers', live') /\ Clean(h, dirty')
        /\ \E x : x.raw = k.base /\ live' = live \cup {x}
    BY <1>4, <1>7, <1>10, AlignedOwns
  <2> QED  BY <1>8, <2>1, <2>2
<1>11. CASE cl.op = "realloc" /\ FinishRealloc(h, cl, k.base)
  BY <1>4, <1>5, <1>7, <1>11, ReallocOwns
<1> QED  BY <1>6, <1>9, <1>10, <1>11 DEF Finish

(* The first try of a call keeps the invariant.                            *)
LEMMA FirstTryOwns ==
  ASSUME BlockInv, NEW cl, Asked(cl), FirstTry(cl)
  PROVE  BlockInv'
<1>1. cl.need \in Nat \ {0} /\ pc = "idle"  BY DEF Asked, FirstTry
<1>2. IInv'  BY <1>1, FirstTryKeeps DEF BlockInv
<1>3. CASE Candidates(heap, RoundUp(cl.need)) # {}
  <2>1. pc' = "idle"  BY <1>1, <1>3 DEF FirstTry
  <2>2. PICK c \in Candidates(heap, RoundUp(cl.need)) :
          Finish(Take(heap, c, RoundUp(cl.need)), cl, c.base)
    BY <1>3 DEF FirstTry
  <2>3. ZeroOnFree => /\ Owned(heap', headers', live') /\ Clean(heap', dirty')
                      /\ Accounted(heap', live', lost')
    BY <2>2, GrantOwns DEF BlockInv
  <2> QED  BY <1>2, <2>1, <2>3 DEF BlockInv
<1>4. CASE Candidates(heap, RoundUp(cl.need)) = {}
  <2>1. /\ pc' = "coalesce" /\ call' = cl
        /\ heap' = heap /\ live' = live /\ lost' = lost
        /\ dirty' = dirty /\ headers' = headers
    BY <1>4 DEF FirstTry, memory
  <2>2. Asked(call)'  BY <2>1 DEF Asked, Known
  <2> QED  BY <1>2, <2>1, <2>2 DEF BlockInv
<1> QED  BY <1>3, <1>4

(* Segments are in use before there are blocks.                            *)
LEMMA ReserveOwns ==
  ASSUME BlockInv, IInv', NEW s \in Segments, reserve(s)
  PROVE  BlockInv'
<1>1. PICK c \in heap.unused :
        heap' = [heap EXCEPT !.used = @ \cup {s},
                             !.unused = (@ \ {c}) \cup Sides(c, s)]
  BY DEF reserve
<1>2. /\ pc = "load" /\ pc' = pc /\ headers' = headers /\ live' = live /\ lost' = lost
      /\ dirty' = dirty \cup Span(s)
  BY DEF reserve
<1>3. live = {} /\ headers = {}  BY <1>2 DEF BlockInv
<1>4. heap'.used = heap.used \cup {s}  BY <1>1 DEF BlockInv, IInv, HeapOK
<1>5. HeapOK(heap) /\ HeapOK(heap')  BY DEF BlockInv, IInv
<1>6. ASSUME ZeroOnFree  PROVE Owned(heap', headers', live')
  BY <1>2, <1>3 DEF Owned
<1>7. ASSUME ZeroOnFree  PROVE Accounted(heap', live', lost')
  BY <1>2, <1>4, <1>7 DEF BlockInv, Accounted
<1>8. ASSUME ZeroOnFree  PROVE Clean(heap', dirty')
  <2>1. Clean(heap', dirty)  BY <1>4, <1>5, <1>8, StaysClean DEF BlockInv
  <2> SUFFICES ASSUME NEW u \in heap'.unused, NEW a \in Span(u), a \in Span(s)
               PROVE FALSE
    BY <1>2, <2>1 DEF Clean
  <2>2. /\ u.base \in Nat /\ u.size \in Nat \ {0} /\ End(u) = u.base + u.size
        /\ s.base \in Nat /\ s.size \in Nat \ {0} /\ End(s) = s.base + s.size
        /\ s \in heap'.used
    BY <1>4, <1>5, UsedApart DEF End
  <2>3. a \in Nat /\ Within(a, u) /\ Within(a, s)  BY <2>2 DEF Span, Within
  <2> QED  BY <1>5, <2>2, <2>3, UsedApart
<1>9. pc' # "coalesce"  BY <1>2
<1> QED  BY <1>2, <1>3, <1>6, <1>7, <1>8, <1>9 DEF BlockInv

(* Coalescing touches neither what is in use nor what is in memory.        *)
LEMMA CoalesceOwns ==
  ASSUME BlockInv, IInv', CoalesceStep
  PROVE  BlockInv'
<1>1. /\ pc' = pc /\ call' = call /\ headers' = headers /\ live' = live
      /\ lost' = lost /\ dirty' = dirty /\ pc = "coalesce"
  BY DEF CoalesceStep, memory
<1>2. HeapOK(heap) /\ HeapOK(heap')  BY DEF BlockInv, IInv
<1>3. heap'.used = heap.used
  <2>1. PICK X, Y : heap' = heap \/ heap' = [heap EXCEPT !.unused = (@ \ X) \cup Y]
    BY DEF CoalesceStep
  <2> QED  BY <1>2, <2>1 DEF HeapOK
<1>4. Asked(call)'  BY <1>1, <1>3 DEF BlockInv, Asked, Known
<1>5. ASSUME ZeroOnFree  PROVE Owned(heap', headers', live')
  BY <1>1, <1>3, <1>5 DEF BlockInv, Owned, Backed, Held
<1>6. ASSUME ZeroOnFree  PROVE Clean(heap', dirty')
  BY <1>1, <1>2, <1>3, <1>6, StaysClean DEF BlockInv
<1>7. ASSUME ZeroOnFree  PROVE Accounted(heap', live', lost')
  BY <1>1, <1>3, <1>7 DEF BlockInv, Accounted
<1> QED  BY <1>1, <1>4, <1>5, <1>6, <1>7 DEF BlockInv

(* free of any address takes away a block only together with its chunk.    *)
LEMMA FreeOwns ==
  ASSUME BlockInv, IInv', NEW a \in Addresses, Free(a)
  PROVE  BlockInv'
<1> DEFINE gone == FreeTarget(heap, a)
           B2 == {b \in live : b.ptr # a}
<1>1. /\ pc = "idle" /\ pc' = pc
      /\ \A b \in live : a # b.raw \/ a = b.ptr
      /\ live' = B2
      /\ lost' = lost \cup Stranded({b \in live : b.ptr = a}, gone)
  BY DEF Free
<1>2. HeapOK(heap) /\ a \in Nat  BY HeapAssumption DEF BlockInv, IInv, Addresses
<1> SUFFICES ASSUME ZeroOnFree
             PROVE  /\ Owned(heap', headers', live') /\ Clean(heap', dirty')
                    /\ Accounted(heap', live', lost')
  BY <1>1 DEF BlockInv
<1>3. Owned(heap, headers, live) /\ Clean(heap, dirty) /\ Accounted(heap, live, lost)
  BY DEF BlockInv
<1>4. CASE gone = {}
  <2>1. heap' = heap /\ dirty' = dirty /\ headers' = headers
    BY <1>4 DEF Free, memory
  <2>2. Owned(heap, headers, live')  BY <1>1, <1>3, FewerOwns
  <2>3. Accounted(heap, live', lost')
    <3>1. \A b \in live : b.ptr = a => b.by = "zone_memalign"
      BY <1>3, <1>4, TargetFound
    <3>2. \A b \in live : b.ptr = a => b.raw \in lost'
      BY <1>1, <1>4, <3>1 DEF Stranded
    <3> QED  BY <1>1, <1>3, <3>2 DEF Accounted
  <2> QED  BY <1>3, <2>1, <2>2, <2>3
<1>5. CASE gone # {}
  <2>1. PICK f \in gone :
          /\ heap' = Release(heap, f)
          /\ Erase(Span(f))
    BY <1>5 DEF Free
  <2>2. /\ f \in heap.used
        /\ \A b \in live : b.ptr = a => b.raw = f.base
        /\ \A b \in live : b.raw = f.base => b.ptr = a \/ b.raw = a
    BY <1>2, <1>3, TargetOfBlock
  <2>3. live' = {b \in live : b.raw # f.base}  BY <1>1, <2>2
  <2>4. /\ dirty' = dirty \ Span(f)
        /\ headers' = {hd \in headers : Header(hd.at) \cap Span(f) = {}}
    BY <2>1 DEF Erase
  <2>5. Owned(heap', headers', live') /\ Clean(heap', dirty')
    <3>1. /\ Owned(Release(heap, f),
                   {hd \in headers : Header(hd.at) \cap Span(f) = {}}, {b \in live : b.raw # f.base})
          /\ Clean(Release(heap, f), dirty \ Span(f))
      BY <1>2, <1>3, <2>2, ReleaseOwns
    <3> QED  BY <2>1, <2>3, <2>4, <3>1
  <2>6. heap'.used = heap.used \ {f}  BY <2>1 DEF Release
  <2>7. \A c \in heap'.used : c.base # f.base
    BY <1>2, <2>2, <2>6, UsedApart
  <2>8. Accounted(heap', live', lost')
    BY <1>1, <1>3, <2>3, <2>6, <2>7 DEF Accounted
  <2> QED  BY <2>5, <2>8
<1> QED  BY <1>4, <1>5

(* malloc_zone_free does too, or else the chunk is known to be lost.       *)
LEMMA ZoneFreeOwns ==
  ASSUME BlockInv, IInv', NEW b \in live, ZoneFree(b)
  PROVE  BlockInv'
<1>1. /\ pc = "idle" /\ pc' = pc /\ live' = live \ {b}
      /\ lost' = IF b.ptr = b.raw THEN lost ELSE lost \cup {b.raw}
  BY DEF ZoneFree
<1>2. HeapOK(heap)  BY DEF BlockInv, IInv
<1> SUFFICES ASSUME ZeroOnFree
             PROVE  /\ Owned(heap', headers', live') /\ Clean(heap', dirty')
                    /\ Accounted(heap', live', lost')
  BY <1>1 DEF BlockInv
<1>3. Owned(heap, headers, live) /\ Clean(heap, dirty) /\ Accounted(heap, live, lost)
  BY DEF BlockInv
<1>4. b \in Blocks /\ Backed(heap, b) /\ b.ptr \in Nat
  BY <1>3 DEF Owned, Blocks
<1>5. CASE Known(heap, b.ptr) = {}
  <2>1. heap' = heap /\ dirty' = dirty /\ headers' = headers
    BY <1>5 DEF ZoneFree, memory
  <2>2. Owned(heap, headers, live')  BY <1>1, <1>3, FewerOwns
  <2>3. b.ptr # b.raw  BY <1>4, <1>5 DEF Backed, Known
  <2>4. Accounted(heap, live', lost')
    BY <1>1, <1>3, <2>3 DEF Accounted
  <2> QED  BY <1>3, <2>1, <2>2, <2>4
<1>6. CASE Known(heap, b.ptr) # {}
  <2>1. PICK f \in Known(heap, b.ptr) :
          /\ heap' = Release(heap, f)
          /\ Erase(Span(f))
    BY <1>6 DEF ZoneFree
  <2>2. f \in heap.used /\ f.base = b.ptr  BY DEF Known
  <2>3. Within(b.ptr, f)  BY <1>2, <1>4, <2>2, UsedApart DEF Within, End
  <2>4. f.base = b.raw  BY <1>2, <1>4, <2>2, <2>3, BlockApart
  <2>5. live' = {x \in live : x.raw # f.base}
    BY <1>1, <1>3, <2>4 DEF Owned
  <2>6. /\ dirty' = dirty \ Span(f)
        /\ headers' = {hd \in headers : Header(hd.at) \cap Span(f) = {}}
    BY <2>1 DEF Erase
  <2>7. Owned(heap', headers', live') /\ Clean(heap', dirty')
    <3>1. /\ Owned(Release(heap, f),
                   {hd \in headers : Header(hd.at) \cap Span(f) = {}}, {x \in live : x.raw # f.base})
          /\ Clean(Release(heap, f), dirty \ Span(f))
      BY <1>2, <1>3, <2>2, ReleaseOwns
    <3> QED  BY <2>1, <2>5, <2>6, <3>1
  <2>8. heap'.used = heap.used \ {f}  BY <2>1 DEF Release
  <2>9. \A c \in heap'.used : c.base # f.base
    BY <1>2, <2>2, <2>8, UsedApart
  <2>10. Accounted(heap', live', lost')
    BY <1>1, <1>3, <2>5, <2>8, <2>9 DEF Accounted
  <2> QED  BY <2>7, <2>10
<1> QED  BY <1>5, <1>6

(* The guest writes to a block of its own: no header of another is lost.   *)
LEMMA WriteOwns ==
  ASSUME BlockInv, IInv', NEW b \in live, Write(b)
  PROVE  BlockInv'
<1> DEFINE W == b.ptr..(b.ptr + b.size - 1)
           hs == {hd \in headers : Header(hd.at) \cap W = {}}
<1>1. /\ pc = "idle" /\ pc' = pc /\ heap' = heap /\ live' = live /\ lost' = lost
      /\ dirty' = dirty \cup W /\ headers' = hs
  BY DEF Write
<1>2. HeapOK(heap)  BY DEF BlockInv, IInv
<1> SUFFICES ASSUME ZeroOnFree
             PROVE  Owned(heap, hs, live) /\ Clean(heap, dirty \cup W)
  BY <1>1 DEF BlockInv
<1>3. Owned(heap, headers, live) /\ Clean(heap, dirty)  BY DEF BlockInv
<1>4. b \in Blocks /\ Backed(heap, b) /\ b.ptr \in Nat /\ b.size \in Nat \ {0}
  BY <1>3 DEF Owned, Blocks
<1>5. PICK k \in heap.used : k.base = b.raw  BY <1>4 DEF Backed
<1>6. W \subseteq Span(k)  BY <1>2, <1>4, <1>5, BlockApart
<1>7. ASSUME NEW x \in live, x.by = "posix_memalign"
      PROVE  [at |-> x.ptr, raw |-> x.raw] \in hs
  <2> DEFINE y == [at |-> x.ptr, raw |-> x.raw]
  <2>1. /\ y \in headers /\ y \in [at : Nat, raw : Nat] /\ Held(heap, y)
        /\ y.at = x.ptr /\ y.raw = x.raw
    BY <1>3, <1>7 DEF Owned
  <2> HIDE DEF y
  <2>2. CASE x = b
    <3>1. Header(y.at) \cap W = {}  BY <1>4, <2>1, <2>2 DEF Header
    <3> QED  BY <2>1, <3>1 DEF y
  <2>3. CASE x # b
    <3>1. y.raw # k.base  BY <1>3, <1>5, <2>1, <2>3 DEF Owned
    <3> HIDE DEF W
    <3>2. Header(y.at) \cap W = {}  BY <1>2, <1>6, <2>1, <3>1, HeaderApart
    <3> QED  BY <2>1, <3>2 DEF y
  <2> QED  BY <2>2, <2>3
<1>8. hs \subseteq headers  OBVIOUS
<1> HIDE DEF hs
<1>9. Owned(heap, hs, live)
  BY <1>3, <1>7, <1>8 DEF Owned
<1>10. Clean(heap, dirty \cup W)
  <2> HIDE DEF W
  <2> SUFFICES ASSUME NEW u \in heap.unused, NEW a \in Span(u), a \in W
               PROVE FALSE
    BY <1>3 DEF Clean
  <2>1. /\ u.base \in Nat /\ u.size \in Nat \ {0} /\ End(u) = u.base + u.size
        /\ k.base \in Nat /\ k.size \in Nat \ {0} /\ End(k) = k.base + k.size
    BY <1>2, UsedApart DEF End
  <2>2. a \in Nat /\ Within(a, u) /\ Within(a, k)
    BY <1>6, <2>1 DEF Span, Within
  <2> QED  BY <1>2, <2>2, UsedApart
<1> QED  BY <1>9, <1>10

(* What the guest asks for when it calls.                                  *)
LEMMA CallsAsk ==
  ASSUME HeapAssumption
  PROVE  /\ \A n \in Sizes : Asked([op |-> "malloc", size |-> n, need |-> n])
         /\ \A n \in Sizes, b \in live :
              Realloc(b, n) => Asked([op |-> "realloc", old |-> b, size |-> n, need |-> n])
         /\ \A n \in Sizes, a \in Alignments :
              /\ Asked([op |-> "posix_memalign", size |-> n, align |-> a, need |-> n + a + 2])
              /\ Asked([op |-> "zone_memalign", size |-> n, align |-> a, need |-> n + a + 1])
BY DEF Asked, Realloc

(* Every step that is not a stutter is one of these.                       *)
LEMMA HeapSteps ==
  ASSUME BlockInv, Next
  PROVE  \/ Loaded
         \/ \E s \in Segments : reserve(s)
         \/ \E cl : Asked(cl) /\ FirstTry(cl)
         \/ CoalesceStep \/ SecondTry
         \/ \E a \in Addresses : Free(a)
         \/ \E b \in live : ZoneFree(b) \/ Write(b)
<1>1. CASE \E n \in Sizes : Malloc(n)
  BY <1>1, HeapAssumption, CallsAsk DEF Malloc
<1>2. CASE \E n \in Sizes, b \in live : Realloc(b, n)
  <2>1. PICK n \in Sizes, b \in live : Realloc(b, n)  BY <1>2
  <2>2. FirstTry([op |-> "realloc", old |-> b, size |-> n, need |-> n])
    BY <2>1 DEF Realloc
  <2> QED  BY <2>1, <2>2, HeapAssumption, CallsAsk
<1>3. CASE \E n \in Sizes, a \in Alignments : Memalign(n, a)
  BY <1>3, HeapAssumption, CallsAsk DEF Memalign
<1>4. CASE \E n \in Sizes, a \in Alignments : ZoneMemalign(n, a)
  BY <1>4, HeapAssumption, CallsAsk DEF ZoneMemalign
<1> QED  BY <1>1, <1>2, <1>3, <1>4 DEF Next, Load, Guest, Allocator

(* Every step keeps the invariant of the blocks.                           *)
LEMMA BlockStep == BlockInv /\ [Next]_vars => BlockInv'
<1> SUFFICES ASSUME BlockInv, [Next]_vars  PROVE BlockInv'
  OBVIOUS
<1>1. IInv'  BY InductiveStep DEF BlockInv
<1>2. CASE UNCHANGED vars
  BY <1>1, <1>2 DEF vars, BlockInv, Asked, Known
<1>3. CASE Next
  <2>1. CASE Loaded
    BY <1>1, <2>1 DEF Loaded, memory, BlockInv
  <2>2. CASE SecondTry
    <3>1. pc' = "idle" /\ Asked(call)  BY <2>2 DEF SecondTry, BlockInv
    <3>2. CASE Candidates(heap, RoundUp(call.need)) # {}
      <4>1. PICK c \in Candidates(heap, RoundUp(call.need)) :
              Finish(Take(heap, c, RoundUp(call.need)), call, c.base)
        BY <2>2, <3>2 DEF SecondTry
      <4>2. ZeroOnFree => /\ Owned(heap', headers', live') /\ Clean(heap', dirty')
                          /\ Accounted(heap', live', lost')
        BY <3>1, <4>1, GrantOwns DEF BlockInv
      <4> QED  BY <1>1, <3>1, <4>2 DEF BlockInv
    <3>3. CASE Candidates(heap, RoundUp(call.need)) = {}
      BY <1>1, <2>2, <3>1, <3>3 DEF SecondTry, memory, BlockInv
    <3> QED  BY <3>2, <3>3
  <2> QED
    BY <1>1, <1>3, <2>1, <2>2, HeapSteps, ReserveOwns, FirstTryOwns, CoalesceOwns,
       FreeOwns, ZoneFreeOwns, WriteOwns
<1> QED  BY <1>2, <1>3

(* The invariant of the blocks holds in every behaviour.                   *)
THEOREM BlockInvariance == Spec => []BlockInv
<1>1. Init => BlockInv
  <2> SUFFICES ASSUME Init  PROVE BlockInv
    OBVIOUS
  <2>1. IInv  BY InitHeapOK DEF Init, IInv
  <2>2. /\ heap.unused = {Chunk(PageSize, StackBase - PageSize)}
        /\ heap.used = {Chunk(0, PageSize), Chunk(StackBase, MemTop - StackBase)}
        /\ dirty = {} /\ headers = {} /\ live = {} /\ pc = "load"
    BY DEF Init
  <2>3. Owned(heap, headers, live)  BY <2>2 DEF Owned
  <2>4. Clean(heap, dirty)  BY <2>2 DEF Clean
  <2>5. Accounted(heap, live, lost)  BY <2>2 DEF Accounted, Chunk
  <2> QED  BY <2>1, <2>2, <2>3, <2>4, <2>5 DEF BlockInv
<1> QED  BY <1>1, BlockStep, PTL DEF Spec

(* A block of the guest keeps a chunk of its own until the guest gives it  *)
(* up, whatever addresses it frees: provided that free clears memory, so   *)
(* that no header outlives its block. Without that, a second free of an    *)
(* aligned block follows the stale header to a chunk that is another's.    *)
THEOREM BlocksKeepChunks ==
  ASSUME ZeroOnFree
  PROVE  Spec => []LiveBacked
<1>1. BlockInv => LiveBacked  BY DEF BlockInv, Owned, Backed, LiveBacked
<1> QED  BY <1>1, BlockInvariance, PTL

(* Nothing that the guest frees leaks, but for the aligned blocks whose    *)
(* chunk the zone calls cannot find.                                       *)
THEOREM FreedIsReturned ==
  ASSUME ZeroOnFree
  PROVE  Spec => []NothingLeaks
<1>1. BlockInv => NothingLeaks  BY DEF BlockInv, Accounted, NothingLeaks
<1> QED  BY <1>1, BlockInvariance, PTL

-----------------------------------------------------------------------------
(* Fresh blocks.                                                           *)
Fresh(b, D) == (b.ptr..(b.ptr + b.size - 1)) \cap D = {}

(* A call that gets memory gives a block that is zero, or has moved one.   *)
LEMMA GrantFresh ==
  ASSUME BlockInv, NEW cl, Asked(cl), NEW c \in Candidates(heap, RoundUp(cl.need)),
         Finish(Take(heap, c, RoundUp(cl.need)), cl, c.base),
         NEW b \in live' \ live, live \subseteq live'
  PROVE  Fresh(b, dirty')
<1> DEFINE n == RoundUp(cl.need)
           h == Take(heap, c, n)
           E == dirty \ Cleared(c.base, cl.need)
<1>1. n \in Nat /\ n >= cl.need /\ cl.need \in Nat \ {0} /\ cl.size \in Nat \ {0}
  BY RoundUpRounds DEF Asked, Rounded
<1>2. c \in heap.unused /\ c.size >= n /\ HeapOK(heap)
  BY CandidatesFit DEF BlockInv, IInv
<1>3. c.base \in Nat /\ c.size \in Nat \ {0} /\ End(c) = c.base + c.size
  BY <1>2, UsedApart DEF End
<1> HIDE DEF n
<1>4. (c.base..(c.base + cl.need - 1)) \cap E = {}
  <2>1. CASE ZeroOnFree
    <3>1. (c.base..(c.base + cl.need - 1)) \subseteq Span(c)
      BY <1>1, <1>2, <1>3 DEF Span
    <3>2. Span(c) \cap dirty = {}  BY <1>2, <2>1 DEF BlockInv, Clean
    <3> QED  BY <3>1, <3>2
  <2>2. CASE ~ZeroOnFree
    BY <2>2 DEF Cleared
  <2> QED  BY <2>1, <2>2
<1>5. CASE cl.op = "malloc" /\ FinishMalloc(h, cl, c.base)
  <2>1. cl.need = cl.size  BY <1>5 DEF Asked
  <2>2. dirty' = E /\ b = Block(c.base, cl.size, c.base, cl.op)
    BY <1>5, <2>1 DEF FinishMalloc, Erase
  <2>3. b.ptr = c.base /\ b.size = cl.size  BY <2>2 DEF Block
  <2> QED  BY <1>4, <2>1, <2>2, <2>3 DEF Fresh
<1>6. CASE cl.op \in {"posix_memalign", "zone_memalign"} /\ FinishAligned(h, cl, c.base)
  <2> DEFINE words == IF cl.op = "posix_memalign" THEN 2 ELSE 1
             at == AlignUp(c.base + words, cl.align)
             W == (at - words)..(at - 1)
  <2>1. dirty' = E \cup W /\ b = Block(at, cl.size, c.base, cl.op)
    BY <1>6 DEF FinishAligned
  <2>2. /\ cl.align \in Nat \ {0} /\ words \in 1..2
        /\ cl.need = cl.size + cl.align + words
    BY <1>6 DEF Asked
  <2> HIDE DEF words
  <2>3. at \in Nat /\ c.base + words <= at /\ at + cl.size <= c.base + cl.need
    BY <1>1, <1>3, <2>2, AlignedFits
  <2> HIDE DEF at
  <2>4. b.ptr = at /\ b.size = cl.size  BY <2>1 DEF Block
  <2>5. (at..(at + cl.size - 1)) \subseteq (c.base..(c.base + cl.need - 1))
    BY <1>1, <1>3, <2>2, <2>3
  <2>6. (at..(at + cl.size - 1)) \cap W = {}  BY <1>1, <2>2, <2>3
  <2> HIDE DEF E, W
  <2> QED  BY <1>4, <2>1, <2>4, <2>5, <2>6 DEF Fresh
<1>7. CASE cl.op = "realloc" /\ FinishRealloc(h, cl, c.base)
  <2> DEFINE x == Block(c.base, cl.size, c.base, cl.op)
  <2>1. live' = (live \ {cl.old}) \cup {x} /\ cl.old \in live
    BY <1>7 DEF FinishRealloc, Asked
  <2> HIDE DEF x
  <2>2. b = x /\ cl.old = x  BY <2>1
  <2> QED  BY <2>1, <2>2
<1> QED  BY <1>5, <1>6, <1>7 DEF Finish, n, h

(* Memory is zero when the guest gets it, cleared at free or else at       *)
(* alloc: the words that a header or a copy makes are never part of it.    *)
THEOREM FreshMemory == Spec => FreshIsZero
<1>1. ASSUME BlockInv, [Next]_vars
      PROVE  [\A b \in live' \ live :
                live \subseteq live' =>
                  (b.ptr..(b.ptr + b.size - 1)) \cap dirty' = {}]_vars
  <2>1. SUFFICES ASSUME Next, NEW b \in live' \ live, live \subseteq live'
                 PROVE  Fresh(b, dirty')
    BY <1>1 DEF Fresh
  <2>2. ASSUME NEW cl, Asked(cl), FirstTry(cl)  PROVE Fresh(b, dirty')
    <3>1. Candidates(heap, RoundUp(cl.need)) # {}  BY <2>1, <2>2 DEF FirstTry
    <3>2. PICK c \in Candidates(heap, RoundUp(cl.need)) :
            Finish(Take(heap, c, RoundUp(cl.need)), cl, c.base)
      BY <2>2, <3>1 DEF FirstTry
    <3> QED  BY <1>1, <2>1, <2>2, <3>2, GrantFresh
  <2>3. CASE SecondTry
    <3>1. Candidates(heap, RoundUp(call.need)) # {}  BY <2>1, <2>3 DEF SecondTry
    <3>2. PICK c \in Candidates(heap, RoundUp(call.need)) :
            Finish(Take(heap, c, RoundUp(call.need)), call, c.base)
      BY <2>3, <3>1 DEF SecondTry
    <3>3. Asked(call)  BY <1>1, <2>3 DEF BlockInv, SecondTry
    <3> QED  BY <1>1, <2>1, <3>2, <3>3, GrantFresh
  <2>4. CASE Loaded  BY <2>1, <2>4 DEF Loaded
  <2>5. CASE \E s \in Segments : reserve(s)  BY <2>1, <2>5 DEF reserve
  <2>6. CASE CoalesceStep  BY <2>1, <2>6 DEF CoalesceStep
  <2>7. CASE \E a \in Addresses : Free(a)  BY <2>1, <2>7 DEF Free
  <2>8. CASE \E x \in live : ZoneFree(x) \/ Write(x)
    BY <2>1, <2>8 DEF ZoneFree, Write
  <2> QED  BY <1>1, <2>1, <2>2, <2>3, <2>4, <2>5, <2>6, <2>7, <2>8, HeapSteps
<1> QED  BY <1>1, BlockInvariance, PTL DEF Spec, FreshIsZero

-----------------------------------------------------------------------------
(* The search. A bucket is a logarithm, so that larger chunks are in the   *)
(* same bucket or in a later one.                                          *)

(* The natural numbers are well ordered.                                   *)
LEMMA LeastOf ==
  ASSUME NEW S \in SUBSET Nat, S # {}
  PROVE  \E i \in S : \A j \in S : i <= j
<1> DEFINE R == OpToRel(<, Nat)
<1>1. IsWellFoundedOn(R, Nat)  BY NatLessThanWellFounded
<1>2. R = {ss \in Nat \X Nat : ss[1] < ss[2]}  BY DEF OpToRel
<1> HIDE DEF R
<1>3. \E x \in S : \A y \in S : ~ (<<y, x>> \in R)  BY <1>1, WFMin
<1>4. \A x \in Nat, y \in Nat : <<y, x>> \in R <=> y < x  BY <1>2
<1>5. PICK x \in S : \A y \in S : ~ (<<y, x>> \in R)  BY <1>3
<1>6. ASSUME NEW y \in S
      PROVE  x <= y
  <2>1. ~ (y < x)  BY <1>4, <1>5
  <2> QED  BY <2>1
<1> QED  BY <1>6

(* Powers of two count subsets, which is all the prover is told of them.   *)
LEMMA PowerCounts ==
  ASSUME NEW k \in Nat
  PROVE  /\ IsFiniteSet(SUBSET (1..k)) /\ Cardinality(SUBSET (1..k)) = 2^k
         /\ 2^k \in Nat
<1>1. IsFiniteSet(1..k) /\ Cardinality(1..k) = k  BY FS_Interval
<1>2. IsFiniteSet(SUBSET (1..k)) /\ Cardinality(SUBSET (1..k)) = 2^Cardinality(1..k)
  BY <1>1, FS_SUBSET
<1>3. Cardinality(SUBSET (1..k)) \in Nat  BY <1>2, FS_CardinalityType
<1> QED  BY <1>1, <1>2, <1>3

(* They grow with their exponents.                                         *)
LEMMA PowerGrows ==
  ASSUME NEW k \in Nat, NEW l \in Nat, k <= l
  PROVE  2^k <= 2^l
<1>1. SUBSET (1..k) \subseteq SUBSET (1..l)  OBVIOUS
<1>2. Cardinality(SUBSET (1..k)) <= Cardinality(SUBSET (1..l))
  BY <1>1, PowerCounts, FS_Subset
<1> QED  BY <1>2, PowerCounts

(* They are more than their exponents.                                     *)
LEMMA PowerExceeds ==
  ASSUME NEW k \in Nat
  PROVE  k < 2^k
<1> DEFINE f == [i \in 1..k |-> {i}]
           S == {{i} : i \in 1..k}
<1>1. IsFiniteSet(1..k) /\ Cardinality(1..k) = k  BY FS_Interval
<1>2. IsFiniteSet(S) /\ Cardinality(S) = k
  <2>1. f \in Bijection(1..k, S)  BY DEF Bijection, Injection, Surjection, IsInjective
  <2>2. ExistsBijection(1..k, S)  BY <2>1 DEF ExistsBijection
  <2> QED  BY <1>1, <2>2, FS_Bijection
<1>3. {} \notin S  OBVIOUS
<1>4. IsFiniteSet(S \cup {{}}) /\ Cardinality(S \cup {{}}) = k + 1
  <2> HIDE DEF S
  <2> QED  BY <1>2, <1>3, FS_AddElement
<1>5. S \cup {{}} \subseteq SUBSET (1..k)  OBVIOUS
<1> HIDE DEF S
<1>6. Cardinality(S \cup {{}}) <= Cardinality(SUBSET (1..k))
  BY <1>5, PowerCounts, FS_Subset
<1> QED  BY <1>4, <1>6, PowerCounts

(* The first one.                                                          *)
LEMMA PowerOfZero == 2^0 = 1
<1>1. 1..0 = {}  OBVIOUS
<1>2. Cardinality(SUBSET (1..0)) = 1
  <2>1. SUBSET (1..0) = {{}}  BY <1>1
  <2> QED  BY <2>1, FS_Singleton
<1> QED  BY <1>2, PowerCounts

(* Products grow with their factors.                                       *)
LEMMA ProductGrows ==
  ASSUME NEW a \in Nat, NEW b \in Nat, NEW m \in Nat, a <= b
  PROVE  a * m <= b * m /\ a * m \in Nat /\ b * m \in Nat
OBVIOUS

(* bucket_for is the logarithm of a size in smallest chunks.               *)
LEMMA BucketForIs ==
  ASSUME NEW n \in Nat, n >= MinChunk
  PROVE  /\ BucketFor(n) \in Nat
         /\ 2^BucketFor(n) * MinChunk <= n
         /\ n < 2^(BucketFor(n) + 1) * MinChunk
<1> USE HeapAssumption
<1> DEFINE Above(k) == n < 2^(k + 1) * MinChunk
           S == {k \in Nat : Above(k)}
<1>1. n \in S
  <2>1. n + 1 < 2^(n + 1) /\ 2^(n + 1) \in Nat  BY PowerExceeds, PowerCounts
  <2>2. 2^(n + 1) * 1 <= 2^(n + 1) * MinChunk
    <3> DEFINE p == 2^(n + 1)
    <3>1. p \in Nat  BY <2>1
    <3> HIDE DEF p
    <3>2. 1 * p <= MinChunk * p  BY <3>1, ProductGrows
    <3>3. p * 1 <= p * MinChunk  BY <3>1, <3>2
    <3> QED  BY <3>3 DEF p
  <2> QED  BY <2>1, <2>2
<1> HIDE DEF Above
<1>2. PICK k \in S : \A j \in S : k <= j  BY <1>1, LeastOf
<1>3. k \in 0..n  BY <1>1, <1>2
<1>4. 2^k * MinChunk <= n
  <2>1. CASE k = 0
    <3>1. 2^k = 1  BY <2>1, PowerOfZero
    <3> QED  BY <3>1
  <2>2. CASE k # 0
    <3>1. k - 1 \in Nat /\ ~ (k <= k - 1)  BY <1>3, <2>2
    <3>2. ~ Above(k - 1)  BY <1>2, <3>1
    <3>3. (k - 1) + 1 = k  BY <1>3
    <3>4. ~ (n < 2^k * MinChunk)  BY <3>2, <3>3 DEF Above
    <3>5. 2^k \in Nat  BY <1>3, PowerCounts
    <3> QED  BY <3>4, <3>5
  <2> QED  BY <2>1, <2>2
<1>5. n < 2^(k + 1) * MinChunk  BY <1>2 DEF Above
<1>6. \E j \in 0..n : 2^j * MinChunk <= n /\ n < 2^(j + 1) * MinChunk  BY <1>3, <1>4, <1>5
<1>7. BucketFor(n) \in 0..n /\ 2^BucketFor(n) * MinChunk <= n /\ n < 2^(BucketFor(n) + 1) * MinChunk
  BY <1>6 DEF BucketFor
<1> QED  BY <1>7

(* What is in a later bucket is larger.                                    *)
LEMMA LaterIsLarger ==
  ASSUME NEW m \in Nat, NEW n \in Nat, m >= MinChunk, n >= MinChunk,
         BucketFor(m) > BucketFor(n)
  PROVE  m > n
<1> USE HeapAssumption
<1> DEFINE k == BucketFor(m)
           l == BucketFor(n)
<1>1. k \in Nat /\ 2^k * MinChunk <= m  BY BucketForIs
<1>2. l \in Nat /\ n < 2^(l + 1) * MinChunk  BY BucketForIs
<1>3. k > l  OBVIOUS
<1> HIDE DEF k, l
<1>4. 2^(l + 1) <= 2^k /\ 2^(l + 1) \in Nat /\ 2^k \in Nat
  BY <1>1, <1>2, <1>3, PowerGrows, PowerCounts
<1>5. 2^(l + 1) * MinChunk <= 2^k * MinChunk  BY <1>4, ProductGrows
<1>6. 2^(l + 1) * MinChunk \in Nat /\ 2^k * MinChunk \in Nat  BY <1>4
<1> QED  BY <1>1, <1>2, <1>5, <1>6

(* Of chunks one of which is large enough, one is the best fit.            *)
LEMMA BestFitExists ==
  ASSUME NEW S, \A c \in S : c.size \in Nat, NEW n \in Nat, NEW c \in S, c.size >= n
  PROVE  BestFits(S, n) # {}
<1> DEFINE N == {d.size : d \in {e \in S : e.size >= n}}
<1>1. N \in SUBSET Nat /\ c.size \in N  OBVIOUS
<1> HIDE DEF N
<1>2. PICK i \in N : \A j \in N : i <= j  BY <1>1, LeastOf
<1>3. PICK d \in S : d.size = i /\ d.size >= n  BY <1>2 DEF N
<1>4. \A e \in S : e.size >= n => e.size \in N  BY DEF N
<1>5. d \in BestFits(S, n)  BY <1>2, <1>3, <1>4 DEF BestFits
<1> QED  BY <1>5

(* A chunk that is large enough is found.                                  *)
LEMMA SearchFinds ==
  ASSUME NEW h, \A c \in h.unused : c.size \in Nat /\ c.size >= MinChunk,
         NEW n \in Nat, n >= MinChunk, NEW c \in h.unused, c.size >= n
  PROVE  Candidates(h, n) # {}
<1> DEFINE B == BucketFor(n)
           own == BestFits(Bucket(h, B), n)
           larger == {d \in h.unused : BucketFor(d.size) > B}
           next == {d \in larger : \A e \in larger : BucketFor(d.size) <= BucketFor(e.size)}
<1>1. B \in Nat /\ \A d \in h.unused : BucketFor(d.size) \in Nat  BY BucketForIs
<1>2. CASE c \in Bucket(h, B)
  <2>1. \A d \in Bucket(h, B) : d.size \in Nat  BY DEF Bucket
  <2>2. own # {}  BY <1>2, <2>1, BestFitExists
  <2> QED  BY <2>2 DEF Candidates
<1>3. CASE c \notin Bucket(h, B)
  <2>1. BucketFor(c.size) # B  BY <1>3 DEF Bucket
  <2>2. ~ (B > BucketFor(c.size))
    <3>1. c.size \in Nat /\ c.size >= MinChunk /\ ~ (n > c.size)  OBVIOUS
    <3> QED  BY <3>1, LaterIsLarger
  <2>3. c \in larger  BY <1>1, <2>1, <2>2
  <2>4. next # {}
    <3> DEFINE K == {BucketFor(d.size) : d \in larger}
    <3>1. K \in SUBSET Nat /\ BucketFor(c.size) \in K  BY <1>1, <2>3
    <3> HIDE DEF K
    <3>2. PICK i \in K : \A j \in K : i <= j  BY <3>1, LeastOf
    <3>3. PICK d \in larger : i = BucketFor(d.size)  BY <3>2 DEF K
    <3>4. \A e \in larger : BucketFor(e.size) \in K  BY DEF K
    <3>5. d \in next  BY <3>2, <3>3, <3>4
    <3> QED  BY <3>5
  <2>5. PICK d : d \in next  BY <2>4
  <2>6. d \in h.unused /\ BucketFor(d.size) > B  BY <2>5
  <2>7. d.size >= n
    <3>1. d.size \in Nat /\ d.size >= MinChunk  BY <2>6
    <3>2. d.size > n  BY <2>6, <3>1, LaterIsLarger
    <3> QED  BY <3>1, <3>2
  <2>8. \A e \in next : e.size \in Nat  OBVIOUS
  <2>9. BestFits(next, n) # {}
    <3> HIDE DEF next
    <3> QED  BY <2>5, <2>7, <2>8, BestFitExists
  <2> QED  BY <2>9 DEF Candidates
<1> QED  BY <1>2, <1>3

(* Allocation fails only if no unused chunk is large enough: the bucket of *)
(* the size and the next one that is not empty are all it has to look at.  *)
THEOREM SearchNeverMisses == Spec => []SearchComplete
<1>1. IInv => SearchComplete
  <2> SUFFICES ASSUME IInv, NEW s \in Sizes, NEW c \in heap.unused, c.size >= RoundUp(s)
               PROVE  Candidates(heap, RoundUp(s)) # {}
    BY DEF SearchComplete
  <2>1. \A d \in heap.unused : d.size \in Nat /\ d.size >= MinChunk
    <3>1. \A d \in heap.unused : Placed(d)  BY DEF IInv, HeapOK, Tiling
    <3>2. \A d \in heap.unused : Sound(d)  BY <3>1, PlacedIsSound
    <3> QED  BY <3>1, <3>2 DEF Placed, Sound
  <2>2. s \in Nat \ {0}  BY HeapAssumption
  <2>3. Rounded(RoundUp(s))  BY <2>2, RoundUpRounds
  <2>4. RoundUp(s) \in Nat /\ RoundUp(s) >= MinChunk
    <3>1. RoundUp(s) \in Nat \ {0} /\ Multiple(RoundUp(s), MinChunk)  BY <2>3 DEF Rounded
    <3>2. MinChunk \in Nat \ {0}  BY HeapAssumption
    <3> QED  BY <3>1, <3>2, MultipleAtLeast
  <2> QED  BY <2>1, <2>4, SearchFinds
<1> QED  BY <1>1, Invariance, PTL

=============================================================================
