------------------------ MODULE ObjectLifetimeProofs ------------------------
(***************************************************************************)
(* For any number of threads, objects, pools and weak variables: the side  *)
(* table of weak references is exact, and the state well-formed, also if   *)
(* the guest loads a weak reference to an object that is being deallocated;*)
(* if it does not, the count of an object is the number of references there*)
(* are to it, it is deallocated once, when that is none, and what the guest*)
(* owns or can reach through a weak variable is an object.                 *)
(***************************************************************************)
EXTENDS ObjectLifetime, FiniteSetTheorems, TLAPS

(* What the frames hold comes from the pools and the properties: the types *)
(* of these are needed to know which object is deallocated next.           *)
FramesOK ==
  /\ kvc \in [Objects -> Objects \cup {Nil}]
  /\ pool_stacks \in [Threads -> Seq(Pools)]
  /\ pooled \in [Pools -> Seq(Objects)]
  /\ frames \in [Threads -> Seq(Frames)]

SlotsOK ==
  /\ weak_refs \in [Objects -> SUBSET Slots]
  /\ slot \in [Slots -> Objects \cup {Nil, Raw}]
  /\ SideTableExact

-----------------------------------------------------------------------------
(* Registering a slot that is in no list, under the object that it is about*)
(* to hold, keeps the table exact.                                         *)
LEMMA RegisterKeeps ==
  ASSUME NEW refs \in [Objects -> SUBSET Slots],
         NEW s \in [Slots -> Objects \cup {Nil, Raw}],
         NEW l \in Slots, NEW o \in Objects \cup {Nil},
         \A x \in Objects : refs[x] = {k \in Slots : s[k] = x} \ {l}
  PROVE  /\ Registered(refs, o, l) \in [Objects -> SUBSET Slots]
         /\ \A x \in Objects : Registered(refs, o, l)[x]
                                 = {k \in Slots : [s EXCEPT ![l] = o][k] = x}
<1>1. CASE o = Nil
  BY <1>1, LifetimeAssumption DEF Registered
<1>2. CASE o \in Objects
  BY <1>2, LifetimeAssumption DEF Registered
<1> QED BY <1>1, <1>2

(* Unregistering a slot from what it holds takes it out of every list.     *)
LEMMA UnregisterKeeps ==
  ASSUME SlotsOK, NEW l \in Slots, slot[l] # Raw
  PROVE  /\ Unregistered(weak_refs, slot[l], l) \in [Objects -> SUBSET Slots]
         /\ \A x \in Objects : Unregistered(weak_refs, slot[l], l)[x]
                                 = {k \in Slots : slot[k] = x} \ {l}
<1>1. CASE slot[l] = Nil
  BY <1>1, LifetimeAssumption DEF Unregistered, SlotsOK, SideTableExact
<1>2. CASE slot[l] \in Objects
  BY <1>2, LifetimeAssumption DEF Unregistered, SlotsOK, SideTableExact
<1> QED BY <1>1, <1>2 DEF SlotsOK

(* A slot that is no weak variable is in no list.                          *)
LEMMA RawIsUnlisted ==
  ASSUME SlotsOK, NEW l \in Slots, slot[l] = Raw
  PROVE  \A x \in Objects : weak_refs[x] = {k \in Slots : slot[k] = x} \ {l}
BY LifetimeAssumption DEF SlotsOK, SideTableExact

(* The types of the frames that a step can push.                           *)
LEMMA NewFrames ==
  /\ \A o \in Objects : Dealloc(o) \in Frames
  /\ \A ps \in Seq(Pools) : Draining(ps) \in Frames
<1>1. << >> \in Seq(Objects)
  OBVIOUS
<1> QED BY <1>1 DEF Dealloc, Draining, Frames

(* A release leaves well-formed frames.                                    *)
LEMMA ReleaseFrames ==
  ASSUME FramesOK, NEW t \in Threads, NEW o \in Objects, NEW rc,
         NEW below \in Seq(Frames), Release(rc, t, o, below)
  PROVE  frames' \in [Threads -> Seq(Frames)]
<1>1. <<Dealloc(o)>> \o below \in Seq(Frames)
  BY NewFrames
<1> QED BY <1>1 DEF Release, FramesOK

-----------------------------------------------------------------------------
(* The guest's calls but those on weak references.                         *)
LEMMA GuestCallKeeps ==
  ASSUME FramesOK, NEW t \in Threads, GuestCalls(t)
  PROVE  FramesOK' /\ UNCHANGED weakVars
<1>F. frames[t] \in Seq(Frames)
  BY DEF FramesOK
<1>1. ASSUME NEW o \in Objects, alloc(t, o) \/ retain(t, o)
      PROVE  FramesOK' /\ UNCHANGED weakVars
  BY <1>1 DEF alloc, retain, FramesOK, poolVars
<1>2. ASSUME NEW o \in Objects, release(t, o)
      PROVE  FramesOK' /\ UNCHANGED weakVars
  <2>1. frames' \in [Threads -> Seq(Frames)]
    BY <1>2, <1>F, ReleaseFrames DEF release
  <2> QED BY <1>2, <2>1 DEF release, FramesOK, poolVars
<1>3. ASSUME NEW o \in Objects, autorelease(t, o)
      PROVE  FramesOK' /\ UNCHANGED weakVars
  <2> DEFINE p == SX!Last(pool_stacks[t])
  <2>1. pooled' \in [Pools -> Seq(Objects)]
    <3>1. CASE pooled' = pooled
      BY <3>1 DEF FramesOK
    <3>2. CASE pooled' = [pooled EXCEPT ![p] = Append(@, o)]
      <4>1. p \in Pools => Append(pooled[p], o) \in Seq(Objects)
        BY DEF FramesOK
      <4> QED BY <3>2, <4>1 DEF FramesOK
    <3> QED BY <1>3, <3>1, <3>2 DEF autorelease
  <2> QED BY <1>3, <2>1 DEF autorelease, FramesOK
<1>4. ASSUME NEW o \in Objects, NEW v \in Objects \cup {Nil}, setValue(t, o, v)
      PROVE  FramesOK' /\ UNCHANGED weakVars
  <2>1. frames' \in [Threads -> Seq(Frames)]
    <3>1. CASE kvc[o] = Nil
      BY <1>4, <3>1 DEF setValue, FramesOK
    <3>2. CASE kvc[o] \in Objects
      BY <1>4, <3>2, <1>F, ReleaseFrames, LifetimeAssumption DEF setValue
    <3> QED BY <3>1, <3>2 DEF FramesOK
  <2>2. kvc' \in [Objects -> Objects \cup {Nil}]
    BY <1>4 DEF setValue, FramesOK
  <2> QED BY <1>4, <2>1, <2>2 DEF setValue, FramesOK, poolVars
<1>5. ASSUME NEW p \in Pools, new_pool(t, p)
      PROVE  FramesOK' /\ UNCHANGED weakVars
  BY <1>5 DEF new_pool, FramesOK
<1>6. ASSUME NEW u \in Threads, NEW i \in 1..Cardinality(Pools), drain(t, u, i)
      PROVE  FramesOK' /\ UNCHANGED weakVars
  <2> DEFINE s == pool_stacks[u]
  <2>1. s \in Seq(Pools) /\ i \in 1..Len(s)
    BY <1>6 DEF drain, FramesOK
  <2>2. /\ SubSeq(s, 1, i - 1) \in Seq(Pools)
        /\ SubSeq(s, i, Len(s)) \in Seq(Pools)
    BY <2>1
  <2>3. <<Draining(SubSeq(s, i, Len(s)))>> \o frames[t] \in Seq(Frames)
    <3>1. Draining(SubSeq(s, i, Len(s))) \in Frames
      BY <2>2, NewFrames
    <3> QED BY <3>1, <1>F
  <2> QED BY <1>6, <2>2, <2>3 DEF drain, FramesOK
<1>7. ASSUME SuperDealloc(t) \/ HostDealloc(t)
      PROVE  FramesOK' /\ UNCHANGED weakVars
  <2> DEFINE f == Head(frames[t])
  <2>1. f \in Frames /\ Tail(frames[t]) \in Seq(Frames)
    BY <1>7, <1>F DEF SuperDealloc, HostDealloc
  <2>2. CASE f.kind = "drain"
    <3>1. ~f.guest
      BY <2>1, <2>2 DEF Frames
    <3> QED BY <1>7, <3>1 DEF SuperDealloc, HostDealloc, Guest, InGuestCode
  <2>3. CASE f.kind = "dealloc"
    <3>1. f.of \in Objects
      BY <2>1, <2>3 DEF Frames
    <3>2. Properties(f.of) \in Seq(Objects)
      BY <3>1, LifetimeAssumption DEF Properties, FramesOK
    <3>3. /\ [f EXCEPT !.guest = FALSE] \in Frames
          /\ [f EXCEPT !.guest = FALSE, !.todo = Properties(f.of)] \in Frames
      BY <2>1, <2>3, <3>2 DEF Frames
    <3>4. \A g \in Frames : <<g>> \o Tail(frames[t]) \in Seq(Frames)
      BY <2>1
    <3>5. \E g \in Frames : frames' = [frames EXCEPT ![t] = <<g>> \o Tail(@)]
      BY <1>7, <3>3 DEF SuperDealloc, HostDealloc
    <3>6. frames' \in [Threads -> Seq(Frames)]
      BY <3>4, <3>5 DEF FramesOK
    <3>7. kvc' \in [Objects -> Objects \cup {Nil}]
      BY <1>7 DEF SuperDealloc, HostDealloc, FramesOK
    <3>8. UNCHANGED <<weakVars, poolVars>>
      BY <1>7 DEF SuperDealloc, HostDealloc
    <3> QED BY <3>6, <3>7, <3>8 DEF FramesOK, poolVars
  <2> QED BY <2>1, <2>2, <2>3 DEF Frames
<1> QED BY <1>1, <1>2, <1>3, <1>4, <1>5, <1>6, <1>7 DEF GuestCalls

(* The steps of the host, but the end of a deallocation.                   *)
LEMMA HostStepKeeps ==
  ASSUME FramesOK, NEW t \in Threads,
         DrainNext(t) \/ DrainEnds(t) \/ ReleaseNext(t)
  PROVE  FramesOK' /\ UNCHANGED weakVars
<1> DEFINE f == Head(frames[t])
<1>1. frames[t] \in Seq(Frames) /\ frames[t] # << >>
  BY DEF FramesOK, DrainNext, DrainEnds, ReleaseNext, InHost, InGuestCode
<1>2. f \in Frames /\ Tail(frames[t]) \in Seq(Frames)
  BY <1>1
<1>3. CASE DrainNext(t)
  <2> DEFINE p == SX!Last(f.pools)
             g == [f EXCEPT !.pools = SX!Front(@), !.todo = pooled[p]]
  <2>1. f.kind = "drain" /\ f.pools \in Seq(Pools) /\ f.pools # << >>
    BY <1>2, <1>3 DEF DrainNext, InHost, Frames
  <2>2. p \in Pools /\ SX!Front(f.pools) \in Seq(Pools)
    BY <2>1 DEF SX!Last, SX!Front
  <2>3. g \in Frames
    BY <1>2, <2>1, <2>2 DEF Frames, FramesOK
  <2>4. <<g>> \o Tail(frames[t]) \in Seq(Frames)
    BY <1>2, <2>3
  <2>5. /\ frames' = [frames EXCEPT ![t] = <<g>> \o Tail(@)]
        /\ pooled' = [pooled EXCEPT ![p] = << >>]
        /\ UNCHANGED <<weakVars, kvc, pool_stacks>>
    BY <1>3 DEF DrainNext
  <2>6. pooled' \in [Pools -> Seq(Objects)]
    BY <2>2, <2>5 DEF FramesOK
  <2> QED BY <2>4, <2>5, <2>6 DEF FramesOK
<1>4. CASE DrainEnds(t)
  BY <1>2, <1>4 DEF DrainEnds, FramesOK, poolVars
<1>5. CASE ReleaseNext(t)
  <2> DEFINE g == [f EXCEPT !.todo = Tail(@)]
  <2>1. f.todo \in Seq(Objects) /\ f.todo # << >>
    BY <1>2, <1>5 DEF ReleaseNext, Frames
  <2>2. Head(f.todo) \in Objects /\ Tail(f.todo) \in Seq(Objects)
    BY <2>1
  <2>3. g \in Frames
    BY <1>2, <2>2 DEF Frames
  <2>4. <<g>> \o Tail(frames[t]) \in Seq(Frames)
    BY <1>2, <2>3
  <2>5. Release(refcount, t, Head(f.todo), <<g>> \o Tail(frames[t]))
    BY <1>5 DEF ReleaseNext
  <2>6. frames' \in [Threads -> Seq(Frames)]
    BY <2>2, <2>4, <2>5, ReleaseFrames
  <2> QED BY <1>5, <2>6 DEF ReleaseNext, FramesOK, poolVars
<1> QED BY <1>3, <1>4, <1>5

(* The end of a deallocation zeroes exactly the slots that its list names. *)
LEMMA DeallocKeeps ==
  ASSUME FramesOK, SlotsOK, NEW t \in Threads, dealloc_object(t)
  PROVE  FramesOK' /\ SlotsOK'
<1> DEFINE f == Head(frames[t])
<1>1. frames[t] \in Seq(Frames) /\ frames[t] # << >>
  BY DEF FramesOK, dealloc_object, InHost, InGuestCode
<1>2. f \in Frames /\ Tail(frames[t]) \in Seq(Frames)
  BY <1>1
<1>3. f.of \in Objects
  BY <1>2 DEF dealloc_object, InHost, Frames
<1>4. FramesOK'
  BY <1>2 DEF dealloc_object, FramesOK, poolVars
<1>5. ZeroWeakReferences(f.of)
  BY DEF dealloc_object
<1>6. SlotsOK'
  BY <1>3, <1>5, LifetimeAssumption DEF ZeroWeakReferences, SlotsOK, SideTableExact
<1> QED BY <1>4, <1>6

-----------------------------------------------------------------------------
(* The calls on weak references.                                           *)
LEMMA WeakCallKeeps ==
  ASSUME FramesOK, SlotsOK, NEW t \in Threads, WeakCalls(t)
  PROVE  FramesOK' /\ SlotsOK'
<1>1. FramesOK'
  <2>1. UNCHANGED <<kvc, pool_stacks, pooled, frames>>
    BY DEF WeakCalls, objc_initWeak, objc_storeWeak, objc_loadWeakRetained,
           objc_destroyWeak, objc_copyWeak, objc_moveWeak, weakUnchanged, poolVars
  <2> QED BY <2>1 DEF FramesOK
<1>2. ASSUME NEW l \in Slots, NEW o \in Objects \cup {Nil}, objc_initWeak(t, l, o)
      PROVE  SlotsOK'
  BY <1>2, RawIsUnlisted, RegisterKeeps DEF objc_initWeak, SlotsOK, SideTableExact
<1>3. ASSUME NEW l \in Slots, NEW o \in Objects \cup {Nil}, objc_storeWeak(t, l, o)
      PROVE  SlotsOK'
  <2> DEFINE refs == Unregistered(weak_refs, slot[l], l)
  <2>1. /\ refs \in [Objects -> SUBSET Slots]
        /\ \A x \in Objects : refs[x] = {k \in Slots : slot[k] = x} \ {l}
    BY <1>3, UnregisterKeeps DEF objc_storeWeak
  <2>2. /\ weak_refs' = Registered(refs, o, l)
        /\ slot' = [slot EXCEPT ![l] = o]
        /\ slot \in [Slots -> Objects \cup {Nil, Raw}]
    BY <1>3 DEF objc_storeWeak, SlotsOK
  <2> HIDE DEF refs
  <2> QED BY <2>1, <2>2, RegisterKeeps DEF SlotsOK, SideTableExact
<1>4. ASSUME NEW l \in Slots, objc_loadWeakRetained(t, l)
      PROVE  SlotsOK'
  BY <1>4 DEF objc_loadWeakRetained, weakVars, SlotsOK, SideTableExact
<1>5. ASSUME NEW l \in Slots, objc_destroyWeak(t, l)
      PROVE  SlotsOK'
  <2>1. /\ weak_refs' = Unregistered(weak_refs, slot[l], l)
        /\ slot' = [slot EXCEPT ![l] = Raw]
        /\ slot[l] # Raw
    BY <1>5 DEF objc_destroyWeak
  <2>2. \A x \in Objects : weak_refs'[x] = {k \in Slots : slot'[k] = x}
    BY <2>1, UnregisterKeeps, LifetimeAssumption DEF SlotsOK
  <2> QED BY <2>1, <2>2, UnregisterKeeps DEF SlotsOK, SideTableExact
<1>6. ASSUME NEW to \in Slots, NEW from \in Slots, objc_copyWeak(t, to, from)
      PROVE  SlotsOK'
  <2>1. slot[from] \in Objects \cup {Nil}
    BY <1>6 DEF objc_copyWeak, SlotsOK
  <2> QED BY <1>6, <2>1, RawIsUnlisted, RegisterKeeps
          DEF objc_copyWeak, SlotsOK, SideTableExact
<1>7. ASSUME NEW to \in Slots, NEW from \in Slots, objc_moveWeak(t, to, from)
      PROVE  SlotsOK'
  <2> DEFINE o == slot[from]
             refs == Unregistered(weak_refs, o, from)
             s == [slot EXCEPT ![from] = Raw]
  <2>1. o \in Objects \cup {Nil} /\ to # from
    BY <1>7 DEF objc_moveWeak, SlotsOK
  <2>2. /\ refs \in [Objects -> SUBSET Slots]
        /\ \A x \in Objects : refs[x] = {k \in Slots : slot[k] = x} \ {from}
    BY <2>1, UnregisterKeeps, LifetimeAssumption
  <2>3. s \in [Slots -> Objects \cup {Nil, Raw}]
    BY DEF SlotsOK
  <2>4. \A x \in Objects : refs[x] = {k \in Slots : s[k] = x} \ {to}
    BY <1>7, <2>1, <2>2, LifetimeAssumption DEF objc_moveWeak, SlotsOK
  <2>5. slot' = [s EXCEPT ![to] = o] /\ weak_refs' = Registered(refs, o, to)
    BY <1>7, <2>1 DEF objc_moveWeak, SlotsOK
  <2>6. /\ Registered(refs, o, to) \in [Objects -> SUBSET Slots]
        /\ \A x \in Objects : Registered(refs, o, to)[x]
                                = {k \in Slots : [s EXCEPT ![to] = o][k] = x}
    <3> HIDE DEF refs, s, o
    <3> QED BY <2>1, <2>2, <2>3, <2>4, RegisterKeeps
  <2>7. slot' \in [Slots -> Objects \cup {Nil, Raw}]
    BY <2>1, <2>3, <2>5
  <2>8. \A x \in Objects : weak_refs'[x] = {k \in Slots : slot'[k] = x}
    BY <2>5, <2>6
  <2>9. weak_refs' \in [Objects -> SUBSET Slots]
    BY <2>5, <2>6
  <2> QED BY <2>7, <2>8, <2>9 DEF SlotsOK, SideTableExact
<1> QED BY <1>1, <1>2, <1>3, <1>4, <1>5, <1>6, <1>7 DEF WeakCalls

-----------------------------------------------------------------------------
(* One step of the guest or the host.                                      *)
LEMMA WeakStep ==
  ASSUME FramesOK, SlotsOK, [Next]_vars
  PROVE  FramesOK' /\ SlotsOK'
<1>1. CASE UNCHANGED vars
  BY <1>1 DEF vars, weakVars, poolVars, FramesOK, SlotsOK, SideTableExact
<1>2. ASSUME NEW t \in Threads, GuestCalls(t)
      PROVE  FramesOK' /\ SlotsOK'
  BY <1>2, GuestCallKeeps DEF weakVars, SlotsOK, SideTableExact
<1>3. ASSUME NEW t \in Threads, WeakCalls(t)
      PROVE  FramesOK' /\ SlotsOK'
  BY <1>3, WeakCallKeeps
<1>4. ASSUME NEW t \in Threads, HostSteps(t)
      PROVE  FramesOK' /\ SlotsOK'
  BY <1>4, HostStepKeeps, DeallocKeeps
     DEF HostSteps, weakVars, SlotsOK, SideTableExact
<1> QED BY <1>1, <1>2, <1>3, <1>4 DEF Next

(* Whatever the guest does with its objects, pools, properties and weak    *)
(* references, on however many threads, the side table lists a slot under  *)
(* the object that it holds and nowhere else (register_weak: "the side     *)
(* table never holds duplicate entries for one slot").                     *)
THEOREM WeakTableExact == Spec => []SideTableExact
<1> DEFINE WInv == FramesOK /\ SlotsOK
<1>1. Init => WInv
  BY LifetimeAssumption DEF Init, FramesOK, SlotsOK, SideTableExact
<1>2. WInv /\ [Next]_vars => WInv'
  BY WeakStep
<1>3. WInv => SideTableExact
  BY DEF SlotsOK
<1> QED BY <1>1, <1>2, <1>3, PTL DEF Spec

-----------------------------------------------------------------------------
(* Reference counts. Every reference there is has a place: a message sent  *)
(* to an object takes one of them away, so that the count is what is left. *)
Same(x, y) == IF x = y THEN 1 ELSE 0

(* The references to o outside the stacks.                                 *)
Outer(o) ==
  owned[o] + leaked[o] + Cardinality(Holders(o)) + Cardinality(PooledAt(o))

OuterFinite(o) == IsFiniteSet(Holders(o)) /\ IsFiniteSet(PooledAt(o))

(* With the objects obs and the counts rc, o has out references besides    *)
(* those in the stacks fs.                                                 *)
Balances(obs, out, fs, rc, o) ==
  /\ IsFiniteSet(ToRelease(fs, o))
  /\ out + Cardinality(ToRelease(fs, o)) = IF o \in obs THEN rc[o] ELSE 0

(* An object is in a dealloc frame, and in only one, if nothing refers to  *)
(* it any more and its memory is not given back yet.                       *)
Dying(obs, fs, rc, o) ==
  IF o \in obs /\ rc[o] = 0
    THEN \E x : Deallocs(fs, o) = {x}
    ELSE Deallocs(fs, o) = {}

(* The guest's dealloc methods run before the properties are released.     *)
Quiet(fs) ==
  \A t \in Threads : \A d \in DOMAIN fs[t] : fs[t][d].guest => fs[t][d].todo = << >>

Counted(o) ==
  /\ OuterFinite(o)
  /\ Balances(objects, Outer(o), frames, refcount, o)
  /\ Dying(objects, frames, refcount, o)

NatsOK ==
  /\ refcount \in [Objects -> Nat]
  /\ owned \in [Objects -> Nat]
  /\ leaked \in [Objects -> Nat]

CountsOK ==
  /\ NatsOK
  /\ objects \subseteq Objects
  /\ Quiet(frames)
  /\ \A o \in Objects : Counted(o)

LifeInv == FramesOK /\ SlotsOK /\ CountsOK /\ WeakNeverDangles

(* The stacks when the innermost frame of t is taken off, or another frame *)
(* is put on them or in its place.                                         *)
Popped(t) == [frames EXCEPT ![t] = Tail(@)]

Pushed(fs, t, f) == [fs EXCEPT ![t] = <<f>> \o @]

Swapped(t, f) == [frames EXCEPT ![t] = <<f>> \o Tail(@)]

InFrame(t, n, f, o) == {<<t, n, i>> : i \in Places(f, o)}

Num(f, o) == Cardinality(Places(f, o))

(* With a frame f at depth n of t, the places in the stacks gs are those in *)
(* fs and those in f.                                                      *)
OneMore(fs, gs, t, f, n, o) ==
  /\ ToRelease(gs, o) = ToRelease(fs, o) \cup InFrame(t, n, f, o)
  /\ \A i : <<t, n, i>> \notin ToRelease(fs, o)
  /\ Deallocs(gs, o) = Deallocs(fs, o) \cup (IF f.of = o THEN {<<t, n>>} ELSE {})
  /\ <<t, n>> \notin Deallocs(fs, o)

(* A frame is pushed: the places in the others stay.                       *)
LEMMA PushPlaces ==
  ASSUME NEW fs \in [Threads -> Seq(Frames)], NEW t \in Threads, NEW f \in Frames,
         NEW o, NEW gs, gs = Pushed(fs, t, f),
         NEW n, n = Len(fs[t]) + 1
  PROVE  /\ OneMore(fs, gs, t, f, n, o)
         /\ Quiet(fs) /\ (f.guest => f.todo = << >>) => Quiet(gs)
         /\ Quiet(gs) => Quiet(fs)
<1> DEFINE s == fs[t]
<1>1. s \in Seq(Frames) /\ Len(s) \in Nat  OBVIOUS
<1>2. /\ gs[t] = <<f>> \o s /\ gs[t] \in Seq(Frames)
      /\ Len(gs[t]) = n /\ DOMAIN gs[t] = 1..n /\ DOMAIN s = 1..Len(s)
      /\ \A u \in Threads : u # t => gs[u] = fs[u]
  BY <1>1 DEF Pushed
<1>3. /\ gs[t][1] = f
      /\ \A d \in 1..Len(s) : gs[t][d + 1] = s[d]
  BY <1>1, <1>2
<1>4. FromEnd(gs[t], n) = f  BY <1>1, <1>2, <1>3 DEF FromEnd
<1>5. \A d \in 1..Len(s) : FromEnd(gs[t], d) = FromEnd(s, d)
  <2> SUFFICES ASSUME NEW d \in 1..Len(s)  PROVE FromEnd(gs[t], d) = FromEnd(s, d)
    OBVIOUS
  <2>1. Len(s) + 1 - d \in 1..Len(s)  BY <1>1
  <2>2. Len(gs[t]) + 1 - d = (Len(s) + 1 - d) + 1  BY <1>1, <1>2
  <2> QED  BY <1>3, <2>1, <2>2 DEF FromEnd
<1>6. 1..n = (1..Len(s)) \cup {n} /\ n \notin 1..Len(s)  BY <1>1
<1>7. \A x : x \in ToRelease(gs, o)
               <=> x \in ToRelease(fs, o) \cup InFrame(t, n, f, o)
  <2> DEFINE G(u, x) == \E d \in DOMAIN gs[u] :
                          \E i \in Places(FromEnd(gs[u], d), o) : x = <<u, d, i>>
             F(u, x) == \E d \in DOMAIN fs[u] :
                          \E i \in Places(FromEnd(fs[u], d), o) : x = <<u, d, i>>
             N == InFrame(t, n, f, o)
  <2>1. \A x : x \in ToRelease(gs, o) <=> \E u \in Threads : G(u, x)
    BY DEF ToRelease
  <2>2. \A x : x \in ToRelease(fs, o) <=> \E u \in Threads : F(u, x)
    BY DEF ToRelease
  <2>3. \A x : G(t, x) <=> F(t, x) \/ x \in N
    BY <1>2, <1>4, <1>5, <1>6 DEF InFrame
  <2>4. \A x, u : u \in Threads /\ u # t => (G(u, x) <=> F(u, x))
    BY <1>2
  <2> HIDE DEF G, F, N
  <2>5. \A x : x \in ToRelease(gs, o) <=> x \in ToRelease(fs, o) \/ x \in N
    BY <2>1, <2>2, <2>3, <2>4
  <2> QED  BY <2>5 DEF N
<1>8. \A i : <<t, n, i>> \notin ToRelease(fs, o)
  BY <1>2, <1>6 DEF ToRelease
<1>9. <<t, n>> \notin Deallocs(fs, o)
  BY <1>2, <1>6 DEF Deallocs
<1>10. \A x : x \in Deallocs(gs, o)
                <=> x \in Deallocs(fs, o) \/ (f.of = o /\ x = <<t, n>>)
  <2> DEFINE G(u, x) == \E d \in DOMAIN gs[u] : FromEnd(gs[u], d).of = o /\ x = <<u, d>>
             F(u, x) == \E d \in DOMAIN fs[u] : FromEnd(fs[u], d).of = o /\ x = <<u, d>>
             N(x) == f.of = o /\ x = <<t, n>>
  <2>1. \A x : x \in Deallocs(gs, o) <=> \E u \in Threads : G(u, x)
    BY DEF Deallocs
  <2>2. \A x : x \in Deallocs(fs, o) <=> \E u \in Threads : F(u, x)
    BY DEF Deallocs
  <2>3. \A x : G(t, x) <=> F(t, x) \/ N(x)
    BY <1>2, <1>4, <1>5, <1>6
  <2>4. \A x, u : u \in Threads /\ u # t => (G(u, x) <=> F(u, x))
    BY <1>2
  <2> HIDE DEF G, F, N
  <2>5. \A x : x \in Deallocs(gs, o) <=> x \in Deallocs(fs, o) \/ N(x)
    BY <2>1, <2>2, <2>3, <2>4
  <2> QED  BY <2>5 DEF N
<1>11. ASSUME Quiet(fs), f.guest => f.todo = << >>  PROVE Quiet(gs)
  <2> SUFFICES ASSUME NEW u \in Threads, NEW d \in DOMAIN gs[u], gs[u][d].guest
               PROVE  gs[u][d].todo = << >>
    BY DEF Quiet
  <2>1. CASE u # t  BY <1>2, <1>11, <2>1 DEF Quiet
  <2>2. CASE u = t /\ d = 1  BY <1>3, <1>11, <2>2
  <2>3. CASE u = t /\ d # 1
    <3>1. d - 1 \in 1..Len(s) /\ (d - 1) + 1 = d  BY <1>1, <1>2, <2>3
    <3>2. gs[t][d] = s[d - 1]  BY <1>3, <3>1
    <3> QED  BY <1>2, <1>11, <2>3, <3>1, <3>2 DEF Quiet
  <2> QED  BY <2>1, <2>2, <2>3
<1>12. ASSUME Quiet(gs)  PROVE Quiet(fs)
  <2> SUFFICES ASSUME NEW u \in Threads, NEW d \in DOMAIN fs[u], fs[u][d].guest
               PROVE  fs[u][d].todo = << >>
    BY DEF Quiet
  <2>1. CASE u # t  BY <1>2, <1>12, <2>1 DEF Quiet
  <2>2. CASE u = t
    <3>1. d \in 1..Len(s) /\ d + 1 \in DOMAIN gs[t]  BY <1>1, <1>2, <2>2
    <3>2. gs[t][d + 1] = s[d]  BY <1>3, <3>1
    <3> QED  BY <1>12, <2>2, <3>1, <3>2 DEF Quiet
  <2> QED  BY <2>1, <2>2
<1>13. OneMore(fs, gs, t, f, n, o)
  <2>1. Deallocs(gs, o) = Deallocs(fs, o) \cup (IF f.of = o THEN {<<t, n>>} ELSE {})
    BY <1>10
  <2> QED  BY <1>7, <1>8, <1>9, <2>1 DEF OneMore
<1> QED  BY <1>11, <1>12, <1>13

(* Without its innermost frame, a stack is that frame pushed on the rest.  *)
LEMMA PopPlaces ==
  ASSUME frames \in [Threads -> Seq(Frames)], NEW t \in Threads,
         frames[t] # << >>, NEW o, NEW f, f = Head(frames[t]),
         NEW n, n = Len(frames[t]), NEW fs, fs = Popped(t)
  PROVE  /\ f \in Frames /\ fs \in [Threads -> Seq(Frames)]
         /\ f = frames[t][1]
         /\ fs[t] = Tail(frames[t])
         /\ Len(fs[t]) + 1 = n
         /\ OneMore(fs, frames, t, f, n, o)
         /\ Quiet(frames) => Quiet(fs)
<1> DEFINE s == frames[t]
<1>1. s \in Seq(Frames) /\ s # << >>  OBVIOUS
<1>2. f \in Frames /\ Tail(s) \in Seq(Frames) /\ Len(Tail(s)) + 1 = Len(s)
      /\ <<f>> \o Tail(s) = s /\ f = s[1]
  BY <1>1
<1>3. fs \in [Threads -> Seq(Frames)] /\ fs[t] = Tail(s)  BY <1>2 DEF Popped
<1>4. [fs EXCEPT ![t] = <<f>> \o fs[t]] = frames
  <2>1. [fs EXCEPT ![t] = <<f>> \o fs[t]] = [frames EXCEPT ![t] = <<f>> \o Tail(s)]
    BY <1>3 DEF Popped
  <2> QED  BY <1>2, <2>1
<1>5. n = Len(fs[t]) + 1  BY <1>2, <1>3
<1>6. frames = Pushed(fs, t, f)  BY <1>4 DEF Pushed
<1>7. OneMore(fs, frames, t, f, n, o) /\ (Quiet(frames) => Quiet(fs))
  BY <1>2, <1>3, <1>5, <1>6, PushPlaces
<1> QED  BY <1>2, <1>3, <1>5, <1>7

(* A frame without releases to send has no places.                         *)
LEMMA NoPlaces ==
  ASSUME NEW f, f.todo = << >>, NEW o, NEW t, NEW n
  PROVE  InFrame(t, n, f, o) = {}
BY DEF Places, InFrame

-----------------------------------------------------------------------------
(* A function that is one to one and onto counts its range.                *)
LEMMA SameSize ==
  ASSUME NEW S, NEW T, IsFiniteSet(S), NEW g \in [S -> T],
         \A x, y \in S : g[x] = g[y] => x = y,
         \A z \in T : \E x \in S : g[x] = z
  PROVE  IsFiniteSet(T) /\ Cardinality(T) = Cardinality(S)
<1>1. g \in Injection(S, T) /\ g \in Surjection(S, T)
  BY DEF Injection, Surjection, IsInjective
<1>2. ExistsBijection(S, T)
  BY <1>1 DEF Bijection, ExistsBijection
<1> QED BY <1>2, FS_Bijection

(* There are as many places for o in a frame as releases of o it has yet to *)
(* send.                                                                   *)
LEMMA FramePlaces ==
  ASSUME NEW f, f.todo \in Seq(Objects), NEW o, NEW t, NEW n
  PROVE  /\ IsFiniteSet(Places(f, o)) /\ Num(f, o) \in Nat
         /\ IsFiniteSet(InFrame(t, n, f, o))
         /\ Cardinality(InFrame(t, n, f, o)) = Num(f, o)
<1>1. IsFiniteSet(Places(f, o))
  <2>1. Places(f, o) \in SUBSET (1..Len(f.todo))
    BY DEF Places
  <2>2. IsFiniteSet(1..Len(f.todo))
    BY FS_Interval
  <2> QED BY <2>1, <2>2, FS_Subset
<1>2. /\ IsFiniteSet(InFrame(t, n, f, o))
      /\ Cardinality(InFrame(t, n, f, o)) = Cardinality(Places(f, o))
  <2> DEFINE S == Places(f, o)
             T == InFrame(t, n, f, o)
             g == [i \in S |-> <<t, n, i>>]
  <2>1. g \in [S -> T]
    BY DEF InFrame
  <2>2. \A i, j \in S : g[i] = g[j] => i = j
    OBVIOUS
  <2>3. \A x \in T : \E i \in S : g[i] = x
    BY DEF InFrame
  <2>4. IsFiniteSet(S)
    BY <1>1
  <2> HIDE DEF g, S, T
  <2>5. IsFiniteSet(T) /\ Cardinality(T) = Cardinality(S)
    BY <2>1, <2>2, <2>3, <2>4, SameSize
  <2> QED BY <2>5 DEF S, T
<1> QED BY <1>1, <1>2, FS_CardinalityType DEF Num

(* The places with one more frame, counted.                                *)
LEMMA OneMoreCount ==
  ASSUME NEW fs, NEW gs, NEW t, NEW f, NEW n, NEW o, f.todo \in Seq(Objects),
         OneMore(fs, gs, t, f, n, o)
  PROVE  /\ IsFiniteSet(ToRelease(gs, o)) <=> IsFiniteSet(ToRelease(fs, o))
         /\ IsFiniteSet(ToRelease(fs, o)) =>
              Cardinality(ToRelease(gs, o)) = Cardinality(ToRelease(fs, o)) + Num(f, o)
<1> DEFINE A == ToRelease(fs, o)
           B == InFrame(t, n, f, o)
<1>1. ToRelease(gs, o) = A \cup B
  BY DEF OneMore
<1>2. A \cap B = {}
  BY DEF OneMore, InFrame
<1>3. IsFiniteSet(B) /\ Cardinality(B) = Num(f, o) /\ Num(f, o) \in Nat
  BY FramePlaces
<1> HIDE DEF A, B
<1>4. ASSUME IsFiniteSet(A)
      PROVE  IsFiniteSet(A \cup B) /\ Cardinality(A \cup B) = Cardinality(A) + Num(f, o)
  <2>1. Cardinality(A) \in Nat /\ Cardinality({}) = 0
    BY <1>4, FS_CardinalityType, FS_EmptySet
  <2>2. /\ IsFiniteSet(A \cup B)
        /\ Cardinality(A \cup B) = Cardinality(A) + Cardinality(B) - Cardinality(A \cap B)
    BY <1>3, <1>4, FS_Union
  <2>3. Cardinality(A \cap B) = 0
    BY <1>2, <2>1
  <2>4. Cardinality(A \cup B) = Cardinality(A) + Num(f, o)
    BY <1>3, <2>1, <2>2, <2>3
  <2> QED BY <2>2, <2>4
<1>5. IsFiniteSet(A \cup B) => IsFiniteSet(A)
  <2>1. A \in SUBSET (A \cup B)
    OBVIOUS
  <2> QED BY <2>1, FS_Subset
<1> QED BY <1>1, <1>4, <1>5 DEF A

(* A frame with nothing to release is put on the stacks.                   *)
LEMMA PushCount ==
  ASSUME NEW fs \in [Threads -> Seq(Frames)], NEW t \in Threads, NEW f \in Frames,
         NEW o, f.todo = << >>
  PROVE  /\ Pushed(fs, t, f) \in [Threads -> Seq(Frames)]
         /\ ToRelease(Pushed(fs, t, f), o) = ToRelease(fs, o)
         /\ f.of # o => Deallocs(Pushed(fs, t, f), o) = Deallocs(fs, o)
         /\ f.of = o /\ Deallocs(fs, o) = {} => \E x : Deallocs(Pushed(fs, t, f), o) = {x}
         /\ Quiet(fs) => Quiet(Pushed(fs, t, f))
<1> DEFINE n == Len(fs[t]) + 1
           gs == Pushed(fs, t, f)
<1>1. OneMore(fs, gs, t, f, n, o) /\ (Quiet(fs) => Quiet(gs))
  BY PushPlaces
<1>2. InFrame(t, n, f, o) = {}
  BY NoPlaces
<1>3. <<f>> \o fs[t] \in Seq(Frames)
  OBVIOUS
<1>4. gs \in [Threads -> Seq(Frames)]
  BY <1>3 DEF Pushed
<1> HIDE DEF n, gs
<1>5. ToRelease(gs, o) = ToRelease(fs, o)
  BY <1>1, <1>2 DEF OneMore
<1>6. f.of # o => Deallocs(gs, o) = Deallocs(fs, o)
  BY <1>1 DEF OneMore
<1>7. f.of = o /\ Deallocs(fs, o) = {} => Deallocs(gs, o) = {<<t, n>>}
  BY <1>1 DEF OneMore
<1> QED BY <1>1, <1>4, <1>5, <1>6, <1>7 DEF gs

(* A frame with nothing to release is taken off the stacks.                *)
LEMMA PopCount ==
  ASSUME frames \in [Threads -> Seq(Frames)], NEW t \in Threads,
         frames[t] # << >>, NEW o, NEW f, f = Head(frames[t]), f.todo = << >>
  PROVE  /\ Popped(t) \in [Threads -> Seq(Frames)]
         /\ ToRelease(Popped(t), o) = ToRelease(frames, o)
         /\ f.of # o => Deallocs(Popped(t), o) = Deallocs(frames, o)
         /\ f.of = o => \E x : /\ x \in Deallocs(frames, o)
                               /\ Deallocs(Popped(t), o) = Deallocs(frames, o) \ {x}
         /\ Quiet(frames) => Quiet(Popped(t))
<1> DEFINE n == Len(frames[t])
           fs == Popped(t)
<1>1. /\ OneMore(fs, frames, t, f, n, o) /\ (Quiet(frames) => Quiet(fs))
      /\ fs \in [Threads -> Seq(Frames)]
  BY PopPlaces
<1>2. InFrame(t, n, f, o) = {}
  BY NoPlaces
<1> HIDE DEF n, fs
<1>5. ToRelease(fs, o) = ToRelease(frames, o)
  BY <1>1, <1>2 DEF OneMore
<1>6. f.of # o => Deallocs(fs, o) = Deallocs(frames, o)
  BY <1>1 DEF OneMore
<1>7. f.of = o => <<t, n>> \in Deallocs(frames, o)
                    /\ Deallocs(fs, o) = Deallocs(frames, o) \ {<<t, n>>}
  BY <1>1 DEF OneMore
<1> QED BY <1>1, <1>5, <1>6, <1>7 DEF fs

(* The innermost frame is changed.                                         *)
LEMMA SwapCount ==
  ASSUME frames \in [Threads -> Seq(Frames)], NEW t \in Threads,
         frames[t] # << >>, NEW o, NEW f, f = Head(frames[t]), NEW g \in Frames,
         g.of = f.of, IsFiniteSet(ToRelease(frames, o))
  PROVE  /\ Swapped(t, g) \in [Threads -> Seq(Frames)]
         /\ IsFiniteSet(ToRelease(Swapped(t, g), o))
         /\ Num(f, o) \in Nat /\ Num(g, o) \in Nat
         /\ Cardinality(ToRelease(frames, o)) \in Nat
         /\ Cardinality(ToRelease(Swapped(t, g), o)) + Num(f, o)
              = Cardinality(ToRelease(frames, o)) + Num(g, o)
         /\ Deallocs(Swapped(t, g), o) = Deallocs(frames, o)
         /\ Quiet(frames) /\ (g.guest => g.todo = << >>) => Quiet(Swapped(t, g))
<1> DEFINE n == Len(frames[t])
           fs == Popped(t)
           gs == Swapped(t, g)
<1>1. /\ OneMore(fs, frames, t, f, n, o) /\ (Quiet(frames) => Quiet(fs))
      /\ fs \in [Threads -> Seq(Frames)] /\ f \in Frames
      /\ Len(fs[t]) + 1 = n
  BY PopPlaces
<1>2. gs = Pushed(fs, t, g)
  BY DEF Swapped, Popped, Pushed
<1>3. <<g>> \o Tail(frames[t]) \in Seq(Frames)
  OBVIOUS
<1>4. gs \in [Threads -> Seq(Frames)]
  BY <1>3 DEF Swapped
<1> HIDE DEF n, fs, gs
<1>5. /\ OneMore(fs, gs, t, g, n, o)
      /\ Quiet(fs) /\ (g.guest => g.todo = << >>) => Quiet(gs)
  BY <1>1, <1>2, PushPlaces
<1>6. f.todo \in Seq(Objects) /\ g.todo \in Seq(Objects)
  BY <1>1 DEF Frames
<1>7. Num(f, o) \in Nat /\ Num(g, o) \in Nat
  BY <1>6, FramePlaces
<1>8. /\ IsFiniteSet(ToRelease(fs, o))
      /\ Cardinality(ToRelease(frames, o)) = Cardinality(ToRelease(fs, o)) + Num(f, o)
  BY <1>1, <1>6, OneMoreCount
<1>9. /\ IsFiniteSet(ToRelease(gs, o))
      /\ Cardinality(ToRelease(gs, o)) = Cardinality(ToRelease(fs, o)) + Num(g, o)
  BY <1>5, <1>6, <1>8, OneMoreCount
<1>10. Cardinality(ToRelease(fs, o)) \in Nat
  BY <1>8, FS_CardinalityType
<1>11. Deallocs(gs, o) = Deallocs(frames, o)
  BY <1>1, <1>5 DEF OneMore
<1> QED BY <1>1, <1>4, <1>5, <1>7, <1>8, <1>9, <1>10, <1>11 DEF gs
-----------------------------------------------------------------------------
(* A frame that has nothing to release, or one object.                     *)
LEMMA SmallNum ==
  ASSUME NEW f, NEW o, NEW v \in Objects
  PROVE  /\ f.todo = << >> => Num(f, o) = 0
         /\ f.todo = <<v>> => Num(f, o) = Same(v, o)
<1>1. ASSUME f.todo = << >>
      PROVE  Num(f, o) = 0
  <2>1. Places(f, o) = {}
    BY <1>1 DEF Places
  <2> QED BY <2>1, FS_EmptySet DEF Num
<1>2. ASSUME f.todo = <<v>>
      PROVE  Num(f, o) = Same(v, o)
  <2>1. \A i : i \in DOMAIN f.todo <=> i = 1
    BY <1>2
  <2>2. FromEnd(f.todo, 1) = v
    BY <1>2 DEF FromEnd
  <2>3. Places(f, o) = IF v = o THEN {1} ELSE {}
    BY <2>1, <2>2 DEF Places
  <2>4. Cardinality({}) = 0 /\ Cardinality({1}) = 1
    BY FS_EmptySet, FS_Singleton
  <2> QED BY <2>3, <2>4 DEF Num, Same
<1> QED BY <1>1, <1>2

(* The first release of a frame is sent.                                   *)
LEMMA TailNum ==
  ASSUME NEW f \in Frames, f.todo # << >>, NEW o,
         NEW g, g = [f EXCEPT !.todo = Tail(@)]
  PROVE  /\ g \in Frames /\ g.of = f.of /\ g.guest = f.guest
         /\ Head(f.todo) \in Objects
         /\ Num(g, o) \in Nat
         /\ Num(f, o) = Num(g, o) + Same(Head(f.todo), o)
<1> DEFINE s == f.todo
<1>1. s \in Seq(Objects) /\ s # << >>
  BY DEF Frames
<1>2. /\ Head(s) \in Objects /\ Tail(s) \in Seq(Objects)
      /\ Len(s) \in Nat /\ Len(s) > 0 /\ Len(Tail(s)) = Len(s) - 1
      /\ Head(s) = s[1]
      /\ \A i \in 1..(Len(s) - 1) : Tail(s)[i] = s[i + 1]
      /\ DOMAIN s = 1..Len(s) /\ DOMAIN Tail(s) = 1..(Len(s) - 1)
  BY <1>1
<1>3. g \in Frames /\ g.of = f.of /\ g.guest = f.guest /\ g.todo = Tail(s)
  BY <1>2 DEF Frames
<1>4. IsFiniteSet(Places(g, o)) /\ Num(g, o) \in Nat
  BY <1>2, <1>3, FramePlaces
<1>5. \A i \in 1..(Len(s) - 1) : FromEnd(Tail(s), i) = FromEnd(s, i)
  <2> SUFFICES ASSUME NEW i \in 1..(Len(s) - 1)
               PROVE  FromEnd(Tail(s), i) = FromEnd(s, i)
    OBVIOUS
  <2>1. Len(Tail(s)) + 1 - i \in 1..(Len(s) - 1)
        /\ (Len(Tail(s)) + 1 - i) + 1 = Len(s) + 1 - i
    BY <1>2
  <2> QED BY <1>2, <2>1 DEF FromEnd
<1>6. FromEnd(s, Len(s)) = Head(s)
  BY <1>2 DEF FromEnd
<1>7. \A i : i \in DOMAIN s <=> i \in DOMAIN Tail(s) \/ i = Len(s)
  BY <1>2
<1>8. Len(s) \notin DOMAIN Tail(s)
  BY <1>2
<1>9. \A i : i \in Places(f, o) <=> i \in Places(g, o) \/ (i = Len(s) /\ Head(s) = o)
  BY <1>2, <1>3, <1>5, <1>6, <1>7 DEF Places
<1>10. Len(s) \notin Places(g, o)
  BY <1>3, <1>8 DEF Places
<1>11. CASE Head(s) = o
  <2>1. Places(f, o) = Places(g, o) \cup {Len(s)}
    BY <1>9, <1>11
  <2>2. Cardinality(Places(g, o) \cup {Len(s)}) = Cardinality(Places(g, o)) + 1
    BY <1>4, <1>10, FS_AddElement
  <2> QED BY <1>2, <1>3, <1>4, <1>11, <2>1, <2>2 DEF Num, Same
<1>12. CASE Head(s) # o
  <2>1. Places(f, o) = Places(g, o)
    BY <1>9, <1>12
  <2> QED BY <1>2, <1>3, <1>4, <1>12, <2>1 DEF Num, Same
<1> QED BY <1>11, <1>12

(* The contents of a pool become releases to send.                         *)
LEMMA PoolNum ==
  ASSUME pooled \in [Pools -> Seq(Objects)], NEW p \in Pools,
         pooled' = [pooled EXCEPT ![p] = << >>], NEW o,
         IsFiniteSet(PooledAt(o)), NEW g, g.todo = pooled[p]
  PROVE  /\ IsFiniteSet(PooledAt(o)')
         /\ Cardinality(PooledAt(o)') \in Nat /\ Num(g, o) \in Nat
         /\ Cardinality(PooledAt(o)) = Cardinality(PooledAt(o)') + Num(g, o)
<1> DEFINE s == pooled[p]
           E == {<<p, i>> : i \in {j \in DOMAIN s : s[j] = o}}
           A == PooledAt(o)
           B == PooledAt(o)'
<1>1. s \in Seq(Objects) /\ Len(s) \in Nat /\ DOMAIN s = 1..Len(s)
  OBVIOUS
<1>2. \A x : x \in A <=> \E q \in Pools : \E i \in DOMAIN pooled[q] :
                                 pooled[q][i] = o /\ x = <<q, i>>
  BY DEF PooledAt
<1>3. \A x : x \in B <=> \E q \in Pools : \E i \in DOMAIN pooled'[q] :
                                 pooled'[q][i] = o /\ x = <<q, i>>
  BY DEF PooledAt
<1>4. pooled'[p] = << >> /\ \A q \in Pools : q # p => pooled'[q] = pooled[q]
  OBVIOUS
<1>5. \A x : x \in E <=> \E i \in DOMAIN s : s[i] = o /\ x = <<p, i>>
  OBVIOUS
<1>6. \A x \in B : x \in A /\ x \notin E
  BY <1>2, <1>3, <1>4
<1>7. \A x \in A : x \in B \/ x \in E
  BY <1>2, <1>3, <1>4, <1>5
<1>8. \A x \in E : x \in A
  BY <1>2, <1>5
<1>9. IsFiniteSet(E) /\ Cardinality(E) = Num(g, o) /\ Num(g, o) \in Nat
  <2> DEFINE S == Places(g, o)
             h == [i \in S |-> <<p, Len(s) + 1 - i>>]
  <2>1. IsFiniteSet(S) /\ Num(g, o) \in Nat
    BY <1>1, FramePlaces
  <2>2. \A i \in S : i \in 1..Len(s) /\ s[Len(s) + 1 - i] = o
    BY <1>1 DEF Places, FromEnd
  <2>3. \A i \in 1..Len(s) : Len(s) + 1 - i \in 1..Len(s)
                              /\ Len(s) + 1 - (Len(s) + 1 - i) = i
    BY <1>1
  <2>4. h \in [S -> E]
    BY <1>1, <1>5, <2>2, <2>3
  <2>5. \A i, j \in S : h[i] = h[j] => i = j
    BY <1>1, <2>2
  <2>6. \A x \in E : \E i \in S : h[i] = x
    <3> SUFFICES ASSUME NEW i \in DOMAIN s, s[i] = o
                 PROVE  \E j \in S : h[j] = <<p, i>>
      BY <1>5
    <3>1. Len(s) + 1 - i \in S
      BY <1>1, <2>3 DEF Places, FromEnd
    <3> QED BY <1>1, <2>3, <3>1
  <2> HIDE DEF S, E, h
  <2>7. IsFiniteSet(E) /\ Cardinality(E) = Cardinality(S)
    BY <2>1, <2>4, <2>5, <2>6, SameSize
  <2> QED BY <2>1, <2>7 DEF S, Num
<1> HIDE DEF A, B, E
<1>10. A \ E = B /\ A \cap E = E
  BY <1>6, <1>7, <1>8
<1>11. IsFiniteSet(A)
  BY DEF A
<1>12. IsFiniteSet(A \ E) /\ Cardinality(A \ E) = Cardinality(A) - Cardinality(A \cap E)
  BY <1>11, FS_Difference
<1>13. IsFiniteSet(B) /\ Cardinality(B) \in Nat /\ Cardinality(A) \in Nat
  BY <1>10, <1>11, <1>12, FS_CardinalityType
<1>14. Cardinality(B) = Cardinality(A) - Cardinality(E)
  BY <1>10, <1>12
<1> QED BY <1>9, <1>13, <1>14 DEF A, B

(* An object is given to a pool.                                           *)
LEMMA PooledOne ==
  ASSUME pooled \in [Pools -> Seq(Objects)], NEW p \in Pools, NEW v \in Objects,
         pooled' = [pooled EXCEPT ![p] = Append(@, v)], NEW o,
         IsFiniteSet(PooledAt(o))
  PROVE  /\ IsFiniteSet(PooledAt(o)')
         /\ Cardinality(PooledAt(o)) \in Nat
         /\ Cardinality(PooledAt(o)') = Cardinality(PooledAt(o)) + Same(v, o)
<1> DEFINE s == pooled[p]
           k == Len(s) + 1
           A == PooledAt(o)
           B == PooledAt(o)'
<1>1. s \in Seq(Objects) /\ Len(s) \in Nat /\ DOMAIN s = 1..Len(s)
  OBVIOUS
<1>2. \A x : x \in A <=> \E q \in Pools : \E i \in DOMAIN pooled[q] :
                                 pooled[q][i] = o /\ x = <<q, i>>
  BY DEF PooledAt
<1>3. \A x : x \in B <=> \E q \in Pools : \E i \in DOMAIN pooled'[q] :
                                 pooled'[q][i] = o /\ x = <<q, i>>
  BY DEF PooledAt
<1>4. pooled'[p] = Append(s, v) /\ \A q \in Pools : q # p => pooled'[q] = pooled[q]
  OBVIOUS
<1>5. /\ DOMAIN Append(s, v) = 1..k /\ Append(s, v)[k] = v
      /\ \A i \in 1..Len(s) : Append(s, v)[i] = s[i]
      /\ \A i : i \in 1..k <=> i \in 1..Len(s) \/ i = k
      /\ k \notin 1..Len(s)
  BY <1>1
<1> HIDE DEF k
<1>6. <<p, k>> \notin A
  BY <1>1, <1>2, <1>5
<1>7. \A x : x \in B <=> x \in A \/ (v = o /\ x = <<p, k>>)
  BY <1>1, <1>2, <1>3, <1>4, <1>5
<1>8. IsFiniteSet(A) /\ Cardinality(A) \in Nat
  BY FS_CardinalityType
<1> HIDE DEF A, B
<1>9. CASE v = o
  <2>1. B = A \cup {<<p, k>>}
    BY <1>7, <1>9
  <2>2. IsFiniteSet(A \cup {<<p, k>>}) /\ Cardinality(A \cup {<<p, k>>}) = Cardinality(A) + 1
    BY <1>6, <1>8, FS_AddElement
  <2> QED BY <1>8, <1>9, <2>1, <2>2 DEF A, B, Same
<1>10. CASE v # o
  <2>1. B = A
    BY <1>7, <1>10
  <2> QED BY <1>8, <1>10, <2>1 DEF A, B, Same
<1> QED BY <1>9, <1>10

(* A dynamic property gets a value.                                        *)
LEMMA HoldersCount ==
  ASSUME kvc \in [Objects -> Objects \cup {Nil}], NEW k \in Objects, NEW v,
         kvc' = [kvc EXCEPT ![k] = v], NEW o, IsFiniteSet(Holders(o))
  PROVE  /\ IsFiniteSet(Holders(o)')
         /\ Cardinality(Holders(o)) \in Nat /\ Cardinality(Holders(o)') \in Nat
         /\ Cardinality(Holders(o)') + Same(kvc[k], o) = Cardinality(Holders(o)) + Same(v, o)
<1> DEFINE A == Holders(o)
           B == Holders(o)'
           C == A \ {k}
<1>1. \A x : x \in B <=> (x \in A /\ x # k) \/ (v = o /\ x = k)
  BY DEF Holders
<1>2. k \in A <=> kvc[k] = o
  BY DEF Holders
<1>3. IsFiniteSet(A)
  OBVIOUS
<1> HIDE DEF A, B
<1>4. /\ IsFiniteSet(C) /\ Cardinality(C) \in Nat /\ Cardinality(A) \in Nat
      /\ Cardinality(C) = IF k \in A THEN Cardinality(A) - 1 ELSE Cardinality(A)
  BY <1>3, FS_RemoveElement, FS_CardinalityType
<1>5. Cardinality(A) = Cardinality(C) + Same(kvc[k], o)
  BY <1>2, <1>4 DEF Same
<1>6. B = IF v = o THEN C \cup {k} ELSE C
  BY <1>1
<1>7. k \notin C
  OBVIOUS
<1> HIDE DEF C
<1>8. IsFiniteSet(C \cup {k}) /\ Cardinality(C \cup {k}) = Cardinality(C) + 1
  BY <1>4, <1>7, FS_AddElement
<1>9. IsFiniteSet(B) /\ Cardinality(B) = Cardinality(C) + Same(v, o)
  BY <1>4, <1>6, <1>8 DEF Same
<1>10. Same(v, o) \in Nat /\ Same(kvc[k], o) \in Nat
  BY DEF Same
<1>11. Cardinality(B) \in Nat
  BY <1>4, <1>9, <1>10
<1>12. Cardinality(B) + Same(kvc[k], o) = Cardinality(A) + Same(v, o)
  <2>1. /\ Cardinality(C) \in Nat /\ Same(v, o) \in Nat /\ Same(kvc[k], o) \in Nat
        /\ Cardinality(A) = Cardinality(C) + Same(kvc[k], o)
        /\ Cardinality(B) = Cardinality(C) + Same(v, o)
    BY <1>4, <1>5, <1>9, <1>10
  <2> DEFINE x == Same(kvc[k], o)
             y == Same(v, o)
             c == Cardinality(C)
  <2> HIDE DEF x, y, c
  <2>2. c \in Nat /\ x \in Nat /\ y \in Nat => (c + y) + x = (c + x) + y
    OBVIOUS
  <2> QED BY <2>1, <2>2 DEF x, y, c
<1>13. IsFiniteSet(Holders(o)')
  BY <1>9 DEF B
<1>14. Cardinality(Holders(o)) \in Nat /\ Cardinality(Holders(o)') \in Nat
  BY <1>4, <1>11 DEF A, B
<1>15. Cardinality(Holders(o)') + Same(kvc[k], o) = Cardinality(Holders(o)) + Same(v, o)
  BY <1>12 DEF A, B
<1> QED BY <1>13, <1>14, <1>15
-----------------------------------------------------------------------------
(* The numbers that references outside the stacks are counted with.        *)
LEMMA OuterNat ==
  ASSUME NatsOK, NEW o \in Objects, OuterFinite(o)
  PROVE  /\ owned[o] \in Nat /\ leaked[o] \in Nat
         /\ Cardinality(Holders(o)) \in Nat /\ Cardinality(PooledAt(o)) \in Nat
         /\ Outer(o) \in Nat
<1>1. Cardinality(Holders(o)) \in Nat /\ Cardinality(PooledAt(o)) \in Nat
  BY FS_CardinalityType DEF OuterFinite
<1>2. owned[o] \in Nat /\ leaked[o] \in Nat
  BY DEF NatsOK
<1> QED BY <1>1, <1>2 DEF Outer

(* What the guest owns, what a property holds and what a frame is about to *)
(* release is an object, and one that is not being deallocated.            *)
LEMMA Alive ==
  ASSUME NatsOK, NEW o \in Objects, Counted(o),
         \/ owned[o] > 0
         \/ \E k \in Objects : kvc[k] = o
         \/ Cardinality(ToRelease(frames, o)) > 0
  PROVE  o \in objects /\ refcount[o] > 0
<1>1. OuterFinite(o) /\ Balances(objects, Outer(o), frames, refcount, o)
  BY DEF Counted
<1>2. /\ owned[o] \in Nat /\ leaked[o] \in Nat /\ refcount[o] \in Nat
      /\ Cardinality(Holders(o)) \in Nat /\ Cardinality(PooledAt(o)) \in Nat
      /\ Cardinality(ToRelease(frames, o)) \in Nat
  BY <1>1, OuterNat, FS_CardinalityType DEF Balances, NatsOK
<1>3. (\E k \in Objects : kvc[k] = o) => Cardinality(Holders(o)) > 0
  <2>1. (\E k \in Objects : kvc[k] = o) => Holders(o) # {}
    BY DEF Holders
  <2>2. Cardinality(Holders(o)) # 0 <=> Holders(o) # {}
    BY <1>1, FS_EmptySet DEF OuterFinite
  <2> QED BY <1>2, <2>1, <2>2
<1>4. Outer(o) + Cardinality(ToRelease(frames, o)) > 0
  BY <1>2, <1>3 DEF Outer
<1>5. Outer(o) + Cardinality(ToRelease(frames, o))
        = IF o \in objects THEN refcount[o] ELSE 0
  BY <1>1 DEF Balances
<1> QED BY <1>2, <1>4, <1>5 DEF Outer

(* An object with a dealloc frame is still one, and nothing refers to it.  *)
LEMMA DyingIsDead ==
  ASSUME NatsOK, NEW o \in Objects, Counted(o), NEW x, x \in Deallocs(frames, o)
  PROVE  /\ o \in objects /\ refcount[o] = 0
         /\ Deallocs(frames, o) = {x}
         /\ Outer(o) = 0 /\ Cardinality(ToRelease(frames, o)) = 0
         /\ \A k \in Objects : kvc[k] # o
         /\ owned[o] = 0
<1>1. /\ OuterFinite(o) /\ Balances(objects, Outer(o), frames, refcount, o)
      /\ Dying(objects, frames, refcount, o)
  BY DEF Counted
<1>2. o \in objects /\ refcount[o] = 0 /\ Deallocs(frames, o) = {x}
  BY <1>1 DEF Dying
<1>3. Outer(o) \in Nat /\ Cardinality(ToRelease(frames, o)) \in Nat
  BY <1>1, OuterNat, FS_CardinalityType DEF Balances
<1>4. Outer(o) + Cardinality(ToRelease(frames, o)) = 0
  BY <1>1, <1>2 DEF Balances
<1>5. Outer(o) = 0 /\ Cardinality(ToRelease(frames, o)) = 0
  BY <1>3, <1>4
<1>6. ~(\E k \in Objects : kvc[k] = o) /\ ~(owned[o] > 0)
  BY <1>2, Alive
<1>7. owned[o] \in Nat
  BY DEF NatsOK
<1> QED BY <1>2, <1>5, <1>6, <1>7

(* A release takes away one reference: with none left, a dealloc frame is  *)
(* put on the stack.                                                       *)
LEMMA ReleaseKeeps ==
  ASSUME NEW t \in Threads, NEW v \in objects, objects \subseteq Objects,
         NEW rc \in [Objects -> Nat], rc[v] > 0,
         NEW bs \in [Threads -> Seq(Frames)], Quiet(bs),
         refcount' = Decremented(rc, v),
         frames' = IF IsLast(rc, v) THEN Pushed(bs, t, Dealloc(v)) ELSE bs,
         NEW o \in Objects, NEW out \in Nat,
         Balances(objects, out + Same(v, o), bs, rc, o), Dying(objects, bs, rc, o)
  PROVE  /\ refcount' \in [Objects -> Nat]
         /\ frames' \in [Threads -> Seq(Frames)]
         /\ Quiet(frames')
         /\ Balances(objects, out, frames', refcount', o)
         /\ Dying(objects, frames', refcount', o)
<1> DEFINE f == Dealloc(v)
           c == Cardinality(ToRelease(bs, o))
<1>1. f \in Frames /\ f.todo = << >> /\ f.of = v
  BY NewFrames DEF Dealloc
<1>2. refcount' = [rc EXCEPT ![v] = rc[v] - 1]
  BY DEF Decremented
<1>3. refcount' \in [Objects -> Nat]
  BY <1>2
<1>4. frames' = (IF rc[v] = 1 THEN Pushed(bs, t, f) ELSE bs)
  BY DEF IsLast
<1> HIDE DEF f
<1>5. /\ Pushed(bs, t, f) \in [Threads -> Seq(Frames)] /\ Quiet(Pushed(bs, t, f))
      /\ ToRelease(Pushed(bs, t, f), o) = ToRelease(bs, o)
      /\ v # o => Deallocs(Pushed(bs, t, f), o) = Deallocs(bs, o)
      /\ v = o /\ Deallocs(bs, o) = {} => \E x : Deallocs(Pushed(bs, t, f), o) = {x}
  <2> DEFINE gs == Pushed(bs, t, f)
  <2>1. /\ gs \in [Threads -> Seq(Frames)]
        /\ ToRelease(gs, o) = ToRelease(bs, o)
        /\ f.of # o => Deallocs(gs, o) = Deallocs(bs, o)
        /\ f.of = o /\ Deallocs(bs, o) = {} => \E x : Deallocs(gs, o) = {x}
        /\ Quiet(bs) => Quiet(gs)
    BY <1>1, PushCount, Zenon
  <2> HIDE DEF gs
  <2>2. /\ gs \in [Threads -> Seq(Frames)] /\ Quiet(gs)
        /\ ToRelease(gs, o) = ToRelease(bs, o)
        /\ v # o => Deallocs(gs, o) = Deallocs(bs, o)
        /\ v = o /\ Deallocs(bs, o) = {} => \E x : Deallocs(gs, o) = {x}
    BY <1>1, <2>1
  <2> QED BY <2>2 DEF gs
<1>6. frames' \in [Threads -> Seq(Frames)] /\ Quiet(frames')
  BY <1>4, <1>5
<1>7. ToRelease(frames', o) = ToRelease(bs, o)
  BY <1>4, <1>5
<1>8. Balances(objects, out, frames', refcount', o)
  <2>1. IsFiniteSet(ToRelease(bs, o)) /\ c \in Nat
    BY FS_CardinalityType DEF Balances
  <2>2. (out + Same(v, o)) + c = IF o \in objects THEN rc[o] ELSE 0
    BY DEF Balances
  <2> HIDE DEF c
  <2>3. out + c = IF o \in objects THEN refcount'[o] ELSE 0
    <3>1. CASE v = o
      <4>1. (out + 1) + c = rc[o]
        BY <2>2, <3>1 DEF Same
      <4>2. refcount'[o] = rc[o] - 1
        BY <1>2, <3>1
      <4> QED BY <2>1, <3>1, <4>1, <4>2
    <3>2. CASE v # o
      BY <1>2, <2>1, <2>2, <3>2 DEF Same
    <3> QED BY <3>1, <3>2
  <2> QED BY <1>7, <2>1, <2>3 DEF Balances, c
<1>9. Dying(objects, frames', refcount', o)
  <2>1. CASE v # o
    <3>1. Deallocs(frames', o) = Deallocs(bs, o) /\ refcount'[o] = rc[o]
      BY <1>2, <1>4, <1>5, <2>1
    <3> QED BY <3>1 DEF Dying
  <2>2. CASE v = o /\ rc[v] = 1
    <3>1. Deallocs(bs, o) = {}
      BY <2>2 DEF Dying
    <3>2. \E x : Deallocs(frames', o) = {x}
      BY <1>4, <1>5, <2>2, <3>1
    <3>3. refcount'[o] = 0
      BY <1>2, <2>2
    <3> QED BY <2>2, <3>2, <3>3 DEF Dying
  <2>3. CASE v = o /\ rc[v] # 1
    <3>1. Deallocs(frames', o) = {}
      BY <1>4, <2>3 DEF Dying
    <3>2. refcount'[o] # 0
      BY <1>2, <2>3
    <3> QED BY <2>3, <3>1, <3>2 DEF Dying
  <2> QED BY <2>1, <2>2, <2>3
<1> QED BY <1>3, <1>6, <1>8, <1>9
-----------------------------------------------------------------------------
(* Properties and pools are the same: only the guest's references change.  *)
LEMMA OuterMoves ==
  ASSUME UNCHANGED <<kvc, pooled>>, NEW o
  PROVE  /\ OuterFinite(o)' <=> OuterFinite(o)
         /\ Outer(o)' = owned'[o] + leaked'[o] + Cardinality(Holders(o))
                          + Cardinality(PooledAt(o))
<1>1. Holders(o)' = Holders(o)
  BY DEF Holders
<1>2. PooledAt(o)' = PooledAt(o)
  BY DEF PooledAt
<1> QED BY <1>1, <1>2 DEF OuterFinite, Outer

(* The guest comes to own a reference, to a new object or to one that is   *)
(* not being deallocated.                                                  *)
LEMMA OwnMore ==
  ASSUME NatsOK, objects \subseteq Objects, NEW a \in Objects,
         a \in objects => refcount[a] > 0,
         objects' = objects \cup {a},
         refcount' = [refcount EXCEPT ![a] = IF a \in objects THEN @ + 1 ELSE 1],
         owned' = [owned EXCEPT ![a] = @ + 1],
         UNCHANGED <<kvc, pooled, frames, leaked>>,
         NEW o \in Objects, Counted(o)
  PROVE  Counted(o)'
<1> DEFINE h == Cardinality(Holders(o))
           p == Cardinality(PooledAt(o))
           c == Cardinality(ToRelease(frames, o))
<1>1. /\ OuterFinite(o) /\ Balances(objects, Outer(o), frames, refcount, o)
      /\ Dying(objects, frames, refcount, o)
  BY DEF Counted
<1>2. OuterFinite(o)' /\ Outer(o)' = owned'[o] + leaked[o] + h + p
  BY <1>1, OuterMoves
<1>3. /\ owned[o] \in Nat /\ leaked[o] \in Nat /\ refcount[o] \in Nat
      /\ h \in Nat /\ p \in Nat /\ c \in Nat
  BY <1>1, OuterNat, FS_CardinalityType DEF Balances, NatsOK
<1>4. Outer(o) = owned[o] + leaked[o] + h + p
  BY DEF Outer
<1>5. IsFiniteSet(ToRelease(frames, o))
      /\ Outer(o) + c = IF o \in objects THEN refcount[o] ELSE 0
  BY <1>1 DEF Balances
<1> HIDE DEF h, p, c
<1>6. CASE o = a
  <2>1. owned'[o] = owned[o] + 1 /\ o \in objects'
        /\ refcount'[o] = IF o \in objects THEN refcount[o] + 1 ELSE 1
    BY <1>6 DEF NatsOK
  <2>2. Outer(o)' + c = IF o \in objects' THEN refcount'[o] ELSE 0
    BY <1>2, <1>3, <1>4, <1>5, <2>1
  <2>3. refcount'[o] # 0
    BY <1>3, <2>1
  <2>4. Deallocs(frames, o) = {}
    BY <1>1, <1>6 DEF Dying
  <2>5. Dying(objects', frames', refcount', o)
    BY <2>3, <2>4 DEF Dying
  <2>6. Balances(objects', Outer(o)', frames', refcount', o)
    BY <1>5, <2>2 DEF Balances, c
  <2> QED BY <1>2, <2>5, <2>6 DEF Counted
<1>7. CASE o # a
  <2>1. owned'[o] = owned[o] /\ refcount'[o] = refcount[o] /\ (o \in objects' <=> o \in objects)
    BY <1>7 DEF NatsOK
  <2>2. Outer(o)' + c = IF o \in objects' THEN refcount'[o] ELSE 0
    BY <1>2, <1>3, <1>4, <1>5, <2>1
  <2>5. Dying(objects', frames', refcount', o)
    BY <1>1, <2>1 DEF Dying
  <2>6. Balances(objects', Outer(o)', frames', refcount', o)
    BY <1>5, <2>2 DEF Balances, c
  <2> QED BY <1>2, <2>5, <2>6 DEF Counted
<1> QED BY <1>6, <1>7

(* No count changes, and no reference comes or goes: some move.            *)
LEMMA MovesKeep ==
  ASSUME UNCHANGED <<objects, refcount>>, NEW o \in Objects, Counted(o),
         OuterFinite(o)', IsFiniteSet(ToRelease(frames', o)),
         Outer(o)' + Cardinality(ToRelease(frames', o))
           = Outer(o) + Cardinality(ToRelease(frames, o)),
         Deallocs(frames', o) = Deallocs(frames, o)
  PROVE  Counted(o)'
<1> DEFINE c == Cardinality(ToRelease(frames, o))
           d == Cardinality(ToRelease(frames', o))
           out == Outer(o)'
<1>1. /\ Balances(objects, Outer(o), frames, refcount, o)
      /\ Dying(objects, frames, refcount, o)
  BY DEF Counted
<1>2. Outer(o) + c = IF o \in objects THEN refcount[o] ELSE 0
  BY <1>1 DEF Balances
<1>3. out + d = Outer(o) + c
  OBVIOUS
<1> HIDE DEF c, out
<1>5. out + d = IF o \in objects' THEN refcount'[o] ELSE 0
  BY <1>2, <1>3
<1>6. Balances(objects', Outer(o)', frames', refcount', o)
  BY <1>5 DEF Balances, out
<1>7. Dying(objects', frames', refcount', o)
  BY <1>1 DEF Dying
<1> QED BY <1>6, <1>7 DEF Counted
-----------------------------------------------------------------------------
(* A new object, and one more reference of the guest to what it owns.      *)
LEMMA OwnCounts ==
  ASSUME CountsOK, NEW t \in Threads, NEW a \in Objects, alloc(t, a) \/ retain(t, a)
  PROVE  CountsOK'
<1>1. /\ NatsOK /\ objects \subseteq Objects /\ Quiet(frames)
      /\ \A o \in Objects : Counted(o)
  BY DEF CountsOK
<1>2. /\ owned' = [owned EXCEPT ![a] = @ + 1]
      /\ UNCHANGED <<kvc, pooled, frames, leaked>>
  BY DEF alloc, retain, poolVars
<1>3. /\ a \in objects => refcount[a] > 0
      /\ objects' = objects \cup {a}
      /\ refcount' = [refcount EXCEPT ![a] = IF a \in objects THEN @ + 1 ELSE 1]
  <2>1. CASE alloc(t, a)
    BY <2>1 DEF alloc
  <2>2. CASE retain(t, a)
    <3>1. a \in objects /\ refcount[a] > 0
      BY <1>1, <2>2, Alive DEF retain, Owns
    <3> QED BY <2>2, <3>1 DEF retain, Incremented
  <2> QED BY <2>1, <2>2
<1>4. \A o \in Objects : Counted(o)'
  BY <1>1, <1>2, <1>3, OwnMore
<1>5. NatsOK'
  BY <1>1, <1>2, <1>3 DEF NatsOK
<1> QED BY <1>1, <1>2, <1>3, <1>4, <1>5 DEF CountsOK

(* The guest releases what it owns.                                        *)
LEMMA ReleaseCounts ==
  ASSUME FramesOK, CountsOK, NEW t \in Threads, NEW v \in Objects, release(t, v)
  PROVE  CountsOK'
<1>1. /\ NatsOK /\ objects \subseteq Objects /\ Quiet(frames)
      /\ \A o \in Objects : Counted(o)
      /\ frames \in [Threads -> Seq(Frames)]
  BY DEF CountsOK, FramesOK
<1>2. /\ owned[v] > 0 /\ owned' = [owned EXCEPT ![v] = @ - 1]
      /\ UNCHANGED <<objects, kvc, pooled, leaked>>
      /\ refcount' = Decremented(refcount, v)
  BY DEF release, poolVars, Owns, Release
<1>3. frames' = IF IsLast(refcount, v) THEN Pushed(frames, t, Dealloc(v)) ELSE frames
  BY <1>1 DEF release, Release, Pushed
<1>4. v \in objects /\ refcount[v] > 0
  BY <1>1, <1>2, Alive
<1>5. /\ owned' \in [Objects -> Nat] /\ leaked' \in [Objects -> Nat]
      /\ refcount \in [Objects -> Nat]
  BY <1>1, <1>2 DEF NatsOK
<1>6. ASSUME NEW o \in Objects
      PROVE  /\ refcount' \in [Objects -> Nat] /\ Quiet(frames')
             /\ Counted(o)'
  <2> DEFINE out == Outer(o)'
             h == Cardinality(Holders(o))
             p == Cardinality(PooledAt(o))
  <2>1. /\ OuterFinite(o) /\ Balances(objects, Outer(o), frames, refcount, o)
        /\ Dying(objects, frames, refcount, o)
    BY <1>1 DEF Counted
  <2>2. OuterFinite(o)' /\ out = owned'[o] + leaked[o] + h + p
    BY <1>2, <2>1, OuterMoves
  <2>3. /\ owned[o] \in Nat /\ owned'[o] \in Nat /\ leaked[o] \in Nat
        /\ h \in Nat /\ p \in Nat
        /\ Outer(o) = owned[o] + leaked[o] + h + p
    BY <1>1, <1>5, <2>1, OuterNat DEF Outer
  <2>4. owned[o] = owned'[o] + Same(v, o)
    BY <1>2, <2>3, <1>1 DEF Same, NatsOK
  <2> HIDE DEF h, p
  <2>5. out \in Nat /\ Outer(o) = out + Same(v, o)
    BY <2>2, <2>3, <2>4 DEF Same
  <2> HIDE DEF out
  <2>6. Balances(objects, out + Same(v, o), frames, refcount, o)
    BY <2>1, <2>5
  <2>7. /\ refcount' \in [Objects -> Nat] /\ Quiet(frames')
        /\ Balances(objects, out, frames', refcount', o)
        /\ Dying(objects, frames', refcount', o)
    BY <1>1, <1>2, <1>3, <1>4, <1>5, <2>1, <2>5, <2>6, ReleaseKeeps
  <2> QED BY <1>2, <2>2, <2>7 DEF Counted, out
<1>7. refcount' \in [Objects -> Nat] /\ Quiet(frames')
  BY <1>6
<1> QED BY <1>1, <1>2, <1>5, <1>6, <1>7 DEF CountsOK, NatsOK

(* A reference of the guest goes to a pool, or is lost for want of one.    *)
LEMMA AutoreleaseCounts ==
  ASSUME FramesOK, CountsOK, NEW t \in Threads, NEW v \in Objects, autorelease(t, v)
  PROVE  CountsOK'
<1>1. /\ NatsOK /\ objects \subseteq Objects /\ Quiet(frames)
      /\ \A o \in Objects : Counted(o)
      /\ pooled \in [Pools -> Seq(Objects)]
  BY DEF CountsOK, FramesOK
<1>2. /\ owned[v] > 0 /\ owned' = [owned EXCEPT ![v] = @ - 1]
      /\ UNCHANGED <<objects, refcount, kvc, frames>>
  BY DEF autorelease, Owns
<1>3. \/ UNCHANGED pooled /\ leaked' = [leaked EXCEPT ![v] = @ + 1]
      \/ UNCHANGED leaked /\ \E p \in Pools : pooled' = [pooled EXCEPT ![p] = Append(@, v)]
  <2>1. CASE pool_stacks[t] = << >>
    BY <2>1 DEF autorelease
  <2>2. CASE pool_stacks[t] # << >>
    <3>1. pool_stacks[t] \in Seq(Pools)
      BY DEF FramesOK
    <3>2. SX!Last(pool_stacks[t]) \in Pools
      BY <2>2, <3>1 DEF SX!Last
    <3> QED BY <2>2, <3>2 DEF autorelease
  <2> QED BY <2>1, <2>2
<1>4. NatsOK'
  BY <1>1, <1>2, <1>3 DEF NatsOK
<1>5. ASSUME NEW o \in Objects
      PROVE  Counted(o)'
  <2> DEFINE h == Cardinality(Holders(o))
             p == Cardinality(PooledAt(o))
             q == Cardinality(PooledAt(o)')
  <2>1. OuterFinite(o) /\ Counted(o)
        /\ IsFiniteSet(ToRelease(frames', o)) /\ frames' = frames
    BY <1>1, <1>2 DEF Counted, Balances
  <2>2. Holders(o)' = Holders(o)
    BY <1>2 DEF Holders
  <2>3. /\ owned[o] \in Nat /\ owned'[o] \in Nat /\ leaked[o] \in Nat /\ leaked'[o] \in Nat
        /\ h \in Nat /\ p \in Nat
    BY <1>1, <1>4, <2>1, OuterNat DEF NatsOK
  <2>4. Outer(o) = owned[o] + leaked[o] + h + p
    BY DEF Outer
  <2>5. Outer(o)' = owned'[o] + leaked'[o] + h + q
    BY <2>2 DEF Outer
  <2>6. owned[o] = owned'[o] + Same(v, o)
    BY <1>1, <1>2, <2>3 DEF Same, NatsOK
  <2>7. /\ IsFiniteSet(PooledAt(o)') /\ q \in Nat
        /\ leaked'[o] + q = leaked[o] + p + Same(v, o)
    <3>1. CASE UNCHANGED pooled /\ leaked' = [leaked EXCEPT ![v] = @ + 1]
      <4>1. PooledAt(o)' = PooledAt(o)
        BY <3>1 DEF PooledAt
      <4>2. leaked'[o] = leaked[o] + Same(v, o)
        BY <1>1, <2>3, <3>1 DEF Same, NatsOK
      <4>3. IsFiniteSet(PooledAt(o)') /\ q = p
        BY <2>1, <4>1 DEF OuterFinite
      <4> HIDE DEF p, q
      <4> QED BY <2>3, <4>2, <4>3 DEF Same
    <3>2. CASE UNCHANGED leaked /\ \E r \in Pools : pooled' = [pooled EXCEPT ![r] = Append(@, v)]
      <4>1. IsFiniteSet(PooledAt(o)') /\ q = p + Same(v, o)
        BY <1>1, <2>1, <3>2, PooledOne DEF OuterFinite
      <4> HIDE DEF p, q
      <4> QED BY <2>3, <3>2, <4>1 DEF Same
    <3> QED BY <1>3, <3>1, <3>2
  <2> HIDE DEF h, p, q
  <2>8. Same(v, o) \in Nat
    BY DEF Same
  <2>9. Outer(o)' = Outer(o)
    BY <2>3, <2>4, <2>5, <2>6, <2>7, <2>8
  <2>10. OuterFinite(o)'
    BY <2>1, <2>2, <2>7 DEF OuterFinite
  <2> QED BY <1>2, <2>1, <2>9, <2>10, MovesKeep
<1> QED BY <1>1, <1>2, <1>4, <1>5 DEF CountsOK
(* Pools come and are taken off the stacks of pools.                       *)
LEMMA PoolCounts ==
  ASSUME FramesOK, CountsOK, NEW t \in Threads,
         \/ \E p \in Pools : new_pool(t, p)
         \/ \E u \in Threads : \E i \in 1..Len(pool_stacks[u]) : drain(t, u, i)
  PROVE  CountsOK'
<1>1. /\ NatsOK /\ objects \subseteq Objects /\ Quiet(frames)
      /\ \A o \in Objects : Counted(o)
      /\ frames \in [Threads -> Seq(Frames)]
  BY DEF CountsOK, FramesOK
<1>2. UNCHANGED <<objects, refcount, kvc, pooled, owned, leaked>>
  BY DEF new_pool, drain, history
<1>3. \/ frames' = frames
      \/ \E f \in Frames : /\ f.todo = << >> /\ f.of = Nil
                           /\ frames' = Pushed(frames, t, f)
  <2>1. ASSUME NEW u \in Threads, NEW i \in 1..Len(pool_stacks[u]), drain(t, u, i)
        PROVE  \E f \in Frames : /\ f.todo = << >> /\ f.of = Nil
                                 /\ frames' = Pushed(frames, t, f)
    <3> DEFINE s == pool_stacks[u]
               f == Draining(SubSeq(s, i, Len(s)))
    <3>1. s \in Seq(Pools) /\ i \in 1..Len(s)
      BY DEF FramesOK
    <3>2. SubSeq(s, i, Len(s)) \in Seq(Pools)
      BY <3>1
    <3>3. f \in Frames
      BY <3>2, NewFrames
    <3>4. f.todo = << >> /\ f.of = Nil
      BY DEF Draining
    <3>5. frames' = Pushed(frames, t, f)
      BY <2>1 DEF drain, Pushed
    <3> HIDE DEF f
    <3> QED BY <3>3, <3>4, <3>5
  <2> QED BY <2>1 DEF new_pool
<1>4. ASSUME NEW o
      PROVE  /\ ToRelease(frames', o) = ToRelease(frames, o)
             /\ o # Nil => Deallocs(frames', o) = Deallocs(frames, o)
             /\ Quiet(frames')
  <2>1. ASSUME NEW f \in Frames, f.todo = << >>, f.of = Nil, frames' = Pushed(frames, t, f)
        PROVE  /\ ToRelease(frames', o) = ToRelease(frames, o)
               /\ o # Nil => Deallocs(frames', o) = Deallocs(frames, o)
               /\ Quiet(frames')
    <3>1. o # Nil => f.of # o
      BY <2>1
    <3> DEFINE gs == Pushed(frames, t, f)
    <3>2. /\ gs \in [Threads -> Seq(Frames)]
          /\ ToRelease(gs, o) = ToRelease(frames, o)
          /\ f.of # o => Deallocs(gs, o) = Deallocs(frames, o)
          /\ f.of = o /\ Deallocs(frames, o) = {} => \E x : Deallocs(gs, o) = {x}
          /\ Quiet(frames) => Quiet(gs)
      BY <1>1, <2>1, PushCount
    <3>3. frames' = gs
      BY <2>1
    <3> HIDE DEF gs
    <3> QED BY <1>1, <3>1, <3>2, <3>3
  <2> QED BY <1>1, <1>3, <2>1
<1>5. ASSUME NEW o \in Objects
      PROVE  Counted(o)'
  <2>1. OuterFinite(o) /\ IsFiniteSet(ToRelease(frames, o)) /\ Counted(o)
    BY <1>1 DEF Counted, Balances
  <2>2. OuterFinite(o)' /\ Outer(o)' = Outer(o)
    BY <1>2, <2>1, OuterMoves DEF Outer
  <2>3. Deallocs(frames', o) = Deallocs(frames, o)
    BY <1>4, LifetimeAssumption
  <2> QED BY <1>2, <1>4, <2>1, <2>2, <2>3, MovesKeep
<1>6. Quiet(frames')
  BY <1>4
<1> QED BY <1>1, <1>2, <1>5, <1>6 DEF CountsOK, NatsOK

(* The innermost frame of a thread, and its object if it deallocates one.  *)
LEMMA HeadFrame ==
  ASSUME FramesOK, CountsOK, NEW t \in Threads, frames[t] # << >>
  PROVE  /\ Head(frames[t]) \in Frames
         /\ Tail(frames[t]) \in Seq(Frames)
         /\ Head(frames[t]).guest => Head(frames[t]).todo = << >>
         /\ Head(frames[t]).of \in Objects =>
              \E x : x \in Deallocs(frames, Head(frames[t]).of)
<1> DEFINE s == frames[t]
<1>1. s \in Seq(Frames) /\ s # << >>
  BY DEF FramesOK
<1>2. /\ Head(s) \in Frames /\ Tail(s) \in Seq(Frames)
      /\ 1 \in DOMAIN s /\ s[1] = Head(s)
      /\ Len(s) \in DOMAIN s /\ FromEnd(s, Len(s)) = s[1]
  BY <1>1 DEF FromEnd
<1>3. Head(s).guest => Head(s).todo = << >>
  BY <1>2 DEF CountsOK, Quiet
<1>4. <<t, Len(s)>> \in Deallocs(frames, Head(s).of)
  BY <1>2 DEF Deallocs
<1> QED BY <1>2, <1>3, <1>4
(* The end of the guest's dealloc method: in NSObject's the references of  *)
(* the object's properties become releases to send.                        *)
LEMMA DeallocStarts ==
  ASSUME FramesOK, CountsOK, NEW t \in Threads, SuperDealloc(t) \/ HostDealloc(t)
  PROVE  CountsOK'
<1> DEFINE f == Head(frames[t])
           k == f.of
           todo == IF SuperDealloc(t) THEN Properties(k) ELSE << >>
           g == [f EXCEPT !.guest = FALSE, !.todo = todo]
<1>1. /\ NatsOK /\ objects \subseteq Objects /\ Quiet(frames)
      /\ \A o \in Objects : Counted(o)
      /\ frames \in [Threads -> Seq(Frames)]
      /\ kvc \in [Objects -> Objects \cup {Nil}]
  BY DEF CountsOK, FramesOK
<1>2. /\ UNCHANGED <<objects, refcount, pooled, owned, leaked>>
      /\ frames[t] # << >> /\ f.guest
  BY DEF SuperDealloc, HostDealloc, poolVars, history, Guest, InGuestCode
<1>3. f \in Frames /\ f.todo = << >>
  BY <1>2, HeadFrame
<1>4. k \in Objects /\ f.kind = "dealloc"
  BY <1>2, <1>3 DEF Frames
<1>5. \/ todo = << >> /\ UNCHANGED kvc
      \/ todo = Properties(k) /\ kvc' = [kvc EXCEPT ![k] = Nil]
  BY DEF SuperDealloc, HostDealloc
<1> HIDE DEF todo
<1>6. \/ todo = << >> /\ kvc[k] = Nil
      \/ todo = << >> /\ UNCHANGED kvc
      \/ kvc[k] \in Objects /\ todo = <<kvc[k]>> /\ kvc' = [kvc EXCEPT ![k] = Nil]
  BY <1>1, <1>4, <1>5 DEF Properties
<1>7. todo \in Seq(Objects)
  <2>1. << >> \in Seq(Objects) /\ \A v \in Objects : <<v>> \in Seq(Objects)
    OBVIOUS
  <2> QED BY <1>6, <2>1
<1>8. frames' = Swapped(t, g)
  <2>1. CASE SuperDealloc(t)
    BY <2>1 DEF SuperDealloc, Swapped, todo
  <2>2. CASE ~SuperDealloc(t)
    <3>1. [f EXCEPT !.guest = FALSE] = g
      BY <1>3, <1>4, <2>2 DEF Frames, todo
    <3>2. frames' = [frames EXCEPT ![t] = <<[f EXCEPT !.guest = FALSE]>> \o Tail(@)]
      BY <2>2 DEF HostDealloc
    <3> QED BY <3>1, <3>2 DEF Swapped
  <2> QED BY <2>1, <2>2
<1>9. g \in Frames /\ g.of = f.of /\ ~g.guest /\ g.todo = todo
  BY <1>3, <1>4, <1>7 DEF Frames
<1> HIDE DEF g, f
<1>10. ASSUME NEW o \in Objects
       PROVE  Quiet(frames') /\ Counted(o)'
  <2> DEFINE gs == Swapped(t, g)
             h == Cardinality(Holders(o))
             hh == Cardinality(Holders(o)')
             p == Cardinality(PooledAt(o))
             c == Cardinality(ToRelease(frames, o))
             d == Cardinality(ToRelease(gs, o))
             m == Num(g, o)
  <2>1. OuterFinite(o) /\ IsFiniteSet(ToRelease(frames, o)) /\ Counted(o)
    BY <1>1 DEF Counted, Balances
  <2>2. /\ gs \in [Threads -> Seq(Frames)]
        /\ IsFiniteSet(ToRelease(gs, o))
        /\ Num(f, o) \in Nat /\ Num(g, o) \in Nat
        /\ Cardinality(ToRelease(frames, o)) \in Nat
        /\ Cardinality(ToRelease(gs, o)) + Num(f, o)
             = Cardinality(ToRelease(frames, o)) + Num(g, o)
        /\ Deallocs(gs, o) = Deallocs(frames, o)
        /\ Quiet(frames) /\ (g.guest => g.todo = << >>) => Quiet(gs)
    BY <1>1, <1>2, <1>9, <2>1, SwapCount DEF f
  <2>3. Num(f, o) = 0
    BY <1>3, SmallNum
  <2>4. IsFiniteSet(ToRelease(gs, o)) /\ d \in Nat
    BY <2>2, FS_CardinalityType
  <2>5. d = c + m /\ c \in Nat /\ m \in Nat
    BY <2>2, <2>3, <2>4
  <2>6. IsFiniteSet(Holders(o)') /\ h \in Nat /\ hh \in Nat /\ hh + m = h
    <3>1. CASE todo = << >> /\ UNCHANGED kvc
      <4>1. Holders(o)' = Holders(o)
        BY <3>1 DEF Holders
      <4>2. m = 0
        BY <1>9, <3>1, SmallNum
      <4> HIDE DEF m
      <4> QED BY <2>1, <4>1, <4>2, FS_CardinalityType DEF OuterFinite
    <3>2. CASE todo = << >> /\ kvc[k] = Nil /\ kvc' = [kvc EXCEPT ![k] = Nil]
      <4>1. Holders(o)' = Holders(o)
        BY <1>1, <1>4, <3>2 DEF Holders
      <4>2. m = 0
        BY <1>9, <3>2, SmallNum
      <4> HIDE DEF m
      <4> QED BY <2>1, <4>1, <4>2, FS_CardinalityType DEF OuterFinite
    <3>3. CASE kvc[k] \in Objects /\ todo = <<kvc[k]>> /\ kvc' = [kvc EXCEPT ![k] = Nil]
      <4>1. m = Same(kvc[k], o)
        BY <1>9, <3>3, SmallNum
      <4>2. /\ IsFiniteSet(Holders(o)') /\ h \in Nat /\ hh \in Nat
            /\ hh + Same(kvc[k], o) = h + Same(Nil, o)
        BY <1>1, <1>4, <2>1, <3>3, HoldersCount DEF OuterFinite
      <4>3. Same(Nil, o) = 0
        BY LifetimeAssumption DEF Same
      <4> HIDE DEF m, h, hh
      <4> QED BY <4>1, <4>2, <4>3
    <3> QED BY <1>5, <1>6, <3>1, <3>2, <3>3
  <2>7. PooledAt(o)' = PooledAt(o)
    BY <1>2 DEF PooledAt
  <2>8. OuterFinite(o)'
    BY <2>1, <2>6, <2>7 DEF OuterFinite
  <2>9. /\ Outer(o) = owned[o] + leaked[o] + h + p
        /\ Outer(o)' = owned[o] + leaked[o] + hh + p
        /\ owned[o] \in Nat /\ leaked[o] \in Nat /\ p \in Nat
    BY <1>1, <1>2, <2>1, <2>7, OuterNat DEF Outer
  <2> HIDE DEF h, hh, p, c, d, m
  <2>10. Outer(o)' + d = Outer(o) + c
    BY <2>4, <2>5, <2>6, <2>9
  <2> HIDE DEF gs
  <2>11. frames' = gs
    BY <1>8 DEF gs
  <2>12. Outer(o)' + Cardinality(ToRelease(frames', o))
           = Outer(o) + Cardinality(ToRelease(frames, o))
    BY <2>10, <2>11 DEF c, d
  <2>13. Counted(o)'
    BY <1>2, <2>1, <2>2, <2>8, <2>11, <2>12, MovesKeep
  <2> QED BY <1>1, <1>9, <2>2, <2>11, <2>13
<1> QED BY <1>1, <1>2, <1>4, <1>10 DEF CountsOK, NatsOK
(* What was in a pool is to be released.                                   *)
LEMMA DrainCounts ==
  ASSUME FramesOK, CountsOK, NEW t \in Threads, DrainNext(t)
  PROVE  CountsOK'
<1> DEFINE f == Head(frames[t])
           r == SX!Last(f.pools)
           g == [f EXCEPT !.pools = SX!Front(@), !.todo = pooled[r]]
<1>1. /\ NatsOK /\ objects \subseteq Objects /\ Quiet(frames)
      /\ \A o \in Objects : Counted(o)
      /\ frames \in [Threads -> Seq(Frames)]
      /\ pooled \in [Pools -> Seq(Objects)]
  BY DEF CountsOK, FramesOK
<1>2. /\ UNCHANGED <<objects, refcount, kvc, owned, leaked>>
      /\ frames[t] # << >> /\ ~f.guest /\ f.kind = "drain"
      /\ f.todo = << >> /\ f.pools # << >>
      /\ pooled' = [pooled EXCEPT ![r] = << >>]
      /\ frames' = Swapped(t, g)
  BY DEF DrainNext, InHost, InGuestCode, history, Swapped
<1>3. f \in Frames
  BY <1>2, HeadFrame
<1>4. f.pools \in Seq(Pools) /\ f.pools # << >>
  BY <1>2, <1>3 DEF Frames
<1>5. r \in Pools /\ SX!Front(f.pools) \in Seq(Pools)
  BY <1>4 DEF SX!Last, SX!Front
<1> HIDE DEF r
<1>6. g \in Frames /\ g.of = f.of /\ ~g.guest /\ g.todo = pooled[r]
  BY <1>1, <1>2, <1>3, <1>5 DEF Frames
<1> HIDE DEF g, f
<1>7. ASSUME NEW o \in Objects
      PROVE  Counted(o)'
  <2> DEFINE gs == Swapped(t, g)
             h == Cardinality(Holders(o))
             p == Cardinality(PooledAt(o))
             q == Cardinality(PooledAt(o)')
             c == Cardinality(ToRelease(frames, o))
             d == Cardinality(ToRelease(gs, o))
             m == Num(g, o)
  <2>1. OuterFinite(o) /\ IsFiniteSet(ToRelease(frames, o)) /\ Counted(o)
    BY <1>1 DEF Counted, Balances
  <2>2. /\ gs \in [Threads -> Seq(Frames)]
        /\ IsFiniteSet(ToRelease(gs, o))
        /\ Num(f, o) \in Nat /\ Num(g, o) \in Nat
        /\ Cardinality(ToRelease(frames, o)) \in Nat
        /\ Cardinality(ToRelease(gs, o)) + Num(f, o)
             = Cardinality(ToRelease(frames, o)) + Num(g, o)
        /\ Deallocs(gs, o) = Deallocs(frames, o)
        /\ Quiet(frames) /\ (g.guest => g.todo = << >>) => Quiet(gs)
    BY <1>1, <1>2, <1>6, <2>1, SwapCount DEF f
  <2>3. Num(f, o) = 0
    BY <1>2, SmallNum
  <2>4. IsFiniteSet(ToRelease(gs, o)) /\ d \in Nat
    BY <2>2, FS_CardinalityType
  <2>5. d = c + m /\ c \in Nat /\ m \in Nat
    BY <2>2, <2>3, <2>4
  <2>6. IsFiniteSet(PooledAt(o)') /\ q \in Nat /\ m \in Nat /\ p = q + m
    BY <1>1, <1>2, <1>5, <1>6, <2>1, PoolNum DEF OuterFinite
  <2>7. Holders(o)' = Holders(o)
    BY <1>2 DEF Holders
  <2>8. OuterFinite(o)'
    BY <2>1, <2>6, <2>7 DEF OuterFinite
  <2>9. /\ Outer(o) = owned[o] + leaked[o] + h + p
        /\ Outer(o)' = owned[o] + leaked[o] + h + q
        /\ owned[o] \in Nat /\ leaked[o] \in Nat /\ h \in Nat
    BY <1>1, <1>2, <2>1, <2>7, OuterNat DEF Outer
  <2> HIDE DEF h, q, p, c, d, m
  <2>10. Outer(o)' + d = Outer(o) + c
    BY <2>4, <2>5, <2>6, <2>9
  <2> HIDE DEF gs
  <2>11. frames' = gs
    BY <1>2 DEF gs
  <2>12. Outer(o)' + Cardinality(ToRelease(frames', o))
           = Outer(o) + Cardinality(ToRelease(frames, o))
    BY <2>10, <2>11 DEF c, d
  <2> QED BY <1>2, <2>1, <2>2, <2>8, <2>11, <2>12, MovesKeep
<1>8. Quiet(frames')
  <2>1. PICK gs : gs = Swapped(t, g)
    OBVIOUS
  <2>2. gs = Pushed(Popped(t), t, g)
    BY <2>1 DEF Swapped, Pushed, Popped
  <2>3. Popped(t) \in [Threads -> Seq(Frames)] /\ Quiet(Popped(t))
    BY <1>1, <1>2, PopPlaces
  <2>4. Quiet(gs)
    BY <1>6, <2>2, <2>3, PushPlaces
  <2> QED BY <1>2, <2>1, <2>4
<1> QED BY <1>1, <1>2, <1>7, <1>8 DEF CountsOK, NatsOK
(* The pools that were taken off are all empty.                            *)
LEMMA DrainEndCounts ==
  ASSUME FramesOK, CountsOK, NEW t \in Threads, DrainEnds(t)
  PROVE  CountsOK'
<1> DEFINE f == Head(frames[t])
           gs == Popped(t)
<1>1. /\ NatsOK /\ objects \subseteq Objects /\ Quiet(frames)
      /\ \A o \in Objects : Counted(o)
      /\ frames \in [Threads -> Seq(Frames)]
  BY DEF CountsOK, FramesOK
<1>2. /\ UNCHANGED <<objects, refcount, kvc, pooled, owned, leaked>>
      /\ frames[t] # << >> /\ f.kind = "drain" /\ f.todo = << >>
      /\ frames' = gs
  BY DEF DrainEnds, InHost, InGuestCode, history, poolVars, Popped
<1>3. f \in Frames
  BY <1>2, HeadFrame
<1>4. f.of = Nil
  BY <1>2, <1>3 DEF Frames
<1>5. ASSUME NEW o
      PROVE  /\ ToRelease(gs, o) = ToRelease(frames, o)
             /\ f.of # o => Deallocs(gs, o) = Deallocs(frames, o)
             /\ Quiet(gs)
  <2>1. /\ gs \in [Threads -> Seq(Frames)]
        /\ ToRelease(gs, o) = ToRelease(frames, o)
        /\ f.of # o => Deallocs(gs, o) = Deallocs(frames, o)
        /\ f.of = o => \E x : /\ x \in Deallocs(frames, o)
                              /\ Deallocs(gs, o) = Deallocs(frames, o) \ {x}
        /\ Quiet(frames) => Quiet(gs)
    BY <1>1, <1>2, PopCount
  <2> HIDE DEF gs, f
  <2> QED BY <1>1, <2>1
<1> HIDE DEF gs, f
<1>6. ASSUME NEW o \in Objects
      PROVE  Counted(o)'
  <2>1. OuterFinite(o) /\ IsFiniteSet(ToRelease(frames, o)) /\ Counted(o)
    BY <1>1 DEF Counted, Balances
  <2>2. OuterFinite(o)' /\ Outer(o)' = Outer(o)
    BY <1>2, <2>1, OuterMoves DEF Outer
  <2>3. f.of # o
    BY <1>4, LifetimeAssumption
  <2>4. ToRelease(frames', o) = ToRelease(frames, o) /\ Deallocs(frames', o) = Deallocs(frames, o)
    BY <1>2, <1>5, <2>3
  <2> QED BY <1>2, <2>1, <2>2, <2>4, MovesKeep
<1>7. Quiet(frames')
  BY <1>2, <1>5
<1> QED BY <1>1, <1>2, <1>6, <1>7 DEF CountsOK, NatsOK

(* A frame sends its next release: to an object, since it has the reference*)
(* that it is to release.                                                  *)
LEMMA ReleaseNextCounts ==
  ASSUME FramesOK, CountsOK, NEW t \in Threads, ReleaseNext(t)
  PROVE  CountsOK'
<1> DEFINE f == Head(frames[t])
           g == [f EXCEPT !.todo = Tail(@)]
           v == Head(f.todo)
           bs == Swapped(t, g)
<1>1. /\ NatsOK /\ objects \subseteq Objects /\ Quiet(frames)
      /\ \A o \in Objects : Counted(o)
      /\ frames \in [Threads -> Seq(Frames)]
  BY DEF CountsOK, FramesOK
<1>2. /\ UNCHANGED <<objects, kvc, pooled, owned, leaked>>
      /\ frames[t] # << >> /\ ~f.guest /\ f.todo # << >>
      /\ refcount' = Decremented(refcount, v)
      /\ frames' = [frames EXCEPT ![t] = IF IsLast(refcount, v)
                      THEN <<Dealloc(v)>> \o (<<g>> \o Tail(frames[t]))
                      ELSE <<g>> \o Tail(frames[t])]
  BY DEF ReleaseNext, InGuestCode, history, poolVars, Release
<1>3. f \in Frames /\ Tail(frames[t]) \in Seq(Frames)
  BY <1>2, HeadFrame
<1>4. /\ g \in Frames /\ g.of = f.of /\ g.guest = f.guest
      /\ v \in Objects
  BY <1>2, <1>3, TailNum
<1>5. frames' = IF IsLast(refcount, v) THEN Pushed(bs, t, Dealloc(v)) ELSE bs
  BY <1>1, <1>2 DEF Pushed, Swapped
<1> HIDE DEF v
<1>6. ASSUME NEW o \in Objects
      PROVE  /\ bs \in [Threads -> Seq(Frames)] /\ Quiet(bs)
             /\ IsFiniteSet(ToRelease(bs, o))
             /\ Cardinality(ToRelease(bs, o)) \in Nat
             /\ Cardinality(ToRelease(bs, o)) + Same(v, o)
                  = Cardinality(ToRelease(frames, o))
             /\ Deallocs(bs, o) = Deallocs(frames, o)
  <2> DEFINE c == Cardinality(ToRelease(frames, o))
             d == Cardinality(ToRelease(bs, o))
             m == Num(f, o)
             n == Num(g, o)
  <2>1. IsFiniteSet(ToRelease(frames, o))
    BY <1>1 DEF Counted, Balances
  <2>2. /\ bs \in [Threads -> Seq(Frames)]
        /\ IsFiniteSet(ToRelease(bs, o))
        /\ m \in Nat /\ n \in Nat
        /\ c \in Nat
        /\ d + m = c + n
        /\ Deallocs(bs, o) = Deallocs(frames, o)
        /\ Quiet(frames) /\ (g.guest => g.todo = << >>) => Quiet(bs)
    <3> HIDE DEF g
    <3> QED BY <1>1, <1>2, <1>4, <2>1, SwapCount
  <2>3. n \in Nat /\ m = n + Same(v, o)
    BY <1>2, <1>3, TailNum DEF v
  <2>4. d \in Nat /\ Same(v, o) \in Nat
    BY <2>2, FS_CardinalityType DEF Same
  <2>5. d + Same(v, o) = c
    <3> DEFINE s == Same(v, o)
    <3>1. /\ c \in Nat /\ d \in Nat /\ m \in Nat /\ n \in Nat /\ s \in Nat
          /\ d + m = c + n /\ m = n + s
      BY <2>2, <2>3, <2>4
    <3> HIDE DEF c, d, m, n, s
    <3>2. d + s = c
      BY <3>1
    <3> QED BY <3>2 DEF s
  <2> HIDE DEF c, d, m, n, bs, f, g
  <2> QED BY <1>1, <1>2, <1>4, <2>2, <2>4, <2>5 DEF c, d
<1> HIDE DEF bs, f, g
<1>7. v \in objects /\ refcount[v] > 0
  <2>1. Cardinality(ToRelease(bs, v)) \in Nat
        /\ Cardinality(ToRelease(bs, v)) + 1 = Cardinality(ToRelease(frames, v))
    BY <1>4, <1>6 DEF Same
  <2>2. Cardinality(ToRelease(frames, v)) > 0
    BY <2>1
  <2> QED BY <1>1, <1>4, <2>2, Alive
<1>8. refcount \in [Objects -> Nat]
  BY <1>1 DEF NatsOK
<1>9. ASSUME NEW o \in Objects
      PROVE  refcount' \in [Objects -> Nat] /\ Quiet(frames') /\ Counted(o)'
  <2> DEFINE c == Cardinality(ToRelease(frames, o))
             d == Cardinality(ToRelease(bs, o))
             out == Outer(o)
  <2>1. /\ OuterFinite(o) /\ Balances(objects, out, frames, refcount, o)
        /\ Dying(objects, frames, refcount, o)
    BY <1>1 DEF Counted
  <2>2. OuterFinite(o)' /\ Outer(o)' = out
    BY <1>2, <2>1, OuterMoves DEF Outer
  <2>3. out \in Nat
    BY <1>1, <2>1, OuterNat
  <2>4. d \in Nat /\ d + Same(v, o) = c /\ Same(v, o) \in Nat
    BY <1>6 DEF Same
  <2>5. out + c = IF o \in objects THEN refcount[o] ELSE 0
    BY <2>1 DEF Balances
  <2> HIDE DEF c, d, out
  <2>6. (out + Same(v, o)) + d = out + c
    BY <2>3, <2>4
  <2>7. Balances(objects, out + Same(v, o), bs, refcount, o)
    BY <1>6, <2>5, <2>6 DEF Balances, d
  <2>8. Dying(objects, bs, refcount, o)
    BY <1>6, <2>1 DEF Dying
  <2>9. /\ refcount' \in [Objects -> Nat] /\ Quiet(frames')
        /\ Balances(objects, out, frames', refcount', o)
        /\ Dying(objects, frames', refcount', o)
    BY <1>1, <1>2, <1>5, <1>6, <1>7, <1>8, <2>3, <2>7, <2>8, ReleaseKeeps
  <2> QED BY <1>2, <2>2, <2>9 DEF Counted, out
<1>10. refcount' \in [Objects -> Nat] /\ Quiet(frames')
  BY <1>4, <1>9
<1> QED BY <1>1, <1>2, <1>9, <1>10 DEF CountsOK, NatsOK
(* An object that is given back has no references, and no dealloc frame is *)
(* left of it.                                                             *)
LEMMA DeallocCounts ==
  ASSUME FramesOK, CountsOK, NEW t \in Threads, dealloc_object(t)
  PROVE  CountsOK'
<1> DEFINE f == Head(frames[t])
           k == f.of
           gs == Popped(t)
<1>1. /\ NatsOK /\ objects \subseteq Objects /\ Quiet(frames)
      /\ \A o \in Objects : Counted(o)
      /\ frames \in [Threads -> Seq(Frames)]
  BY DEF CountsOK, FramesOK
<1>2. /\ UNCHANGED <<refcount, kvc, pooled, owned, leaked>>
      /\ objects' = objects \ {k}
      /\ frames[t] # << >> /\ f.kind = "dealloc" /\ f.todo = << >>
      /\ frames' = gs
  BY DEF dealloc_object, InHost, InGuestCode, history, poolVars, Popped
<1>3. f \in Frames /\ (k \in Objects => \E x : x \in Deallocs(frames, k))
  BY <1>2, HeadFrame
<1>4. k \in Objects
  BY <1>2, <1>3 DEF Frames
<1>5. PICK x : x \in Deallocs(frames, k)
  BY <1>3, <1>4
<1>6. /\ k \in objects /\ refcount[k] = 0
      /\ Deallocs(frames, k) = {x}
      /\ Outer(k) = 0 /\ Cardinality(ToRelease(frames, k)) = 0
  BY <1>1, <1>4, <1>5, DyingIsDead
<1>7. ASSUME NEW o
      PROVE  /\ ToRelease(gs, o) = ToRelease(frames, o)
             /\ k # o => Deallocs(gs, o) = Deallocs(frames, o)
             /\ k = o => \E y : /\ y \in Deallocs(frames, o)
                                /\ Deallocs(gs, o) = Deallocs(frames, o) \ {y}
             /\ Quiet(gs)
  <2>1. /\ gs \in [Threads -> Seq(Frames)]
        /\ ToRelease(gs, o) = ToRelease(frames, o)
        /\ f.of # o => Deallocs(gs, o) = Deallocs(frames, o)
        /\ f.of = o => \E y : /\ y \in Deallocs(frames, o)
                              /\ Deallocs(gs, o) = Deallocs(frames, o) \ {y}
        /\ Quiet(frames) => Quiet(gs)
    BY <1>1, <1>2, PopCount
  <2> HIDE DEF gs, f
  <2> QED BY <1>1, <2>1
<1> HIDE DEF gs, k, f
<1>8. ASSUME NEW o \in Objects
      PROVE  Counted(o)'
  <2> DEFINE c == Cardinality(ToRelease(frames, o))
             out == Outer(o)
  <2>1. /\ OuterFinite(o) /\ Balances(objects, out, frames, refcount, o)
        /\ Dying(objects, frames, refcount, o)
    BY <1>1 DEF Counted
  <2>2. OuterFinite(o)' /\ Outer(o)' = out
    BY <1>2, <2>1, OuterMoves DEF Outer
  <2>3. IsFiniteSet(ToRelease(frames, o)) /\ out + c = IF o \in objects THEN refcount[o] ELSE 0
    BY <2>1 DEF Balances
  <2>4. k = o => out + c = 0
    BY <1>6
  <2> HIDE DEF out
  <2>5. out + c = IF o \in objects' THEN refcount'[o] ELSE 0
    <3> HIDE DEF c
    <3> QED BY <1>2, <2>3, <2>4
  <2>6. Balances(objects', out, frames', refcount', o)
    BY <1>2, <1>7, <2>3, <2>5 DEF Balances
  <2>7. Dying(objects', frames', refcount', o)
    <3>1. CASE k = o
      <4>1. Deallocs(frames', o) = {}
        BY <1>2, <1>6, <1>7, <3>1
      <4> QED BY <1>2, <3>1, <4>1 DEF Dying
    <3>2. CASE k # o
      BY <1>2, <1>7, <2>1, <3>2 DEF Dying
    <3> QED BY <3>1, <3>2
  <2> QED BY <2>2, <2>6, <2>7 DEF Counted, out
<1>9. Quiet(frames')
  BY <1>2, <1>7
<1> QED BY <1>1, <1>2, <1>8, <1>9 DEF CountsOK, NatsOK

(* A property gets a value: the new one is retained, the old one, if any,  *)
(* released, and that may be the same object.                              *)
LEMMA SetValueCounts ==
  ASSUME FramesOK, CountsOK, NEW t \in Threads, NEW k \in Objects,
         NEW v \in Objects \cup {Nil}, setValue(t, k, v)
  PROVE  CountsOK'
<1> DEFINE w == kvc[k]
           rc == IF v = Nil THEN refcount ELSE Incremented(refcount, v)
<1>1. /\ NatsOK /\ objects \subseteq Objects /\ Quiet(frames)
      /\ \A o \in Objects : Counted(o)
      /\ frames \in [Threads -> Seq(Frames)]
      /\ kvc \in [Objects -> Objects \cup {Nil}]
  BY DEF CountsOK, FramesOK
<1>2. /\ UNCHANGED <<objects, pooled, owned, leaked>>
      /\ kvc' = [kvc EXCEPT ![k] = v]
      /\ v # Nil => owned[v] > 0
  BY DEF setValue, history, poolVars, Owns
<1>3. \/ w = Nil /\ refcount' = rc /\ UNCHANGED frames
      \/ /\ w \in Objects /\ refcount' = Decremented(rc, w)
         /\ frames' = IF IsLast(rc, w) THEN Pushed(frames, t, Dealloc(w)) ELSE frames
  BY <1>1 DEF setValue, Release, Pushed
<1>4. w \in Objects => w \in objects /\ refcount[w] > 0
  BY <1>1, Alive
<1>5. v # Nil => v \in objects /\ refcount[v] > 0
  BY <1>1, <1>2, Alive
<1>6. /\ rc \in [Objects -> Nat]
      /\ \A o \in Objects : /\ rc[o] = refcount[o] + Same(v, o)
                            /\ rc[o] = 0 <=> refcount[o] = 0
                            /\ v = o => o \in objects
  <2>1. CASE v = Nil
    BY <1>1, <2>1, LifetimeAssumption DEF Same, NatsOK
  <2>2. CASE v # Nil
    <3>1. rc = [refcount EXCEPT ![v] = refcount[v] + 1]
      BY <1>5, <2>2 DEF Incremented
    <3>2. refcount \in [Objects -> Nat]
      BY <1>1 DEF NatsOK
    <3> HIDE DEF rc
    <3> QED BY <1>5, <2>2, <3>1, <3>2 DEF Same
  <2> QED BY <2>1, <2>2
<1> HIDE DEF rc
<1>7. w \in Objects => rc[w] > 0
  <2>1. refcount \in [Objects -> Nat]
    BY <1>1 DEF NatsOK
  <2> QED BY <1>4, <1>6, <2>1
<1> HIDE DEF w
<1>8. ASSUME NEW o \in Objects
      PROVE  refcount' \in [Objects -> Nat] /\ Quiet(frames') /\ Counted(o)'
  <2> DEFINE h == Cardinality(Holders(o))
             hh == Cardinality(Holders(o)')
             p == Cardinality(PooledAt(o))
             c == Cardinality(ToRelease(frames, o))
             out == Outer(o)'
             a == Same(v, o)
             b == Same(w, o)
  <2>1. /\ OuterFinite(o) /\ Balances(objects, Outer(o), frames, refcount, o)
        /\ Dying(objects, frames, refcount, o)
    BY <1>1 DEF Counted
  <2>2. /\ IsFiniteSet(Holders(o)') /\ h \in Nat /\ hh \in Nat
        /\ hh + b = h + a
    BY <1>1, <1>2, <2>1, HoldersCount DEF OuterFinite, w
  <2>3. PooledAt(o)' = PooledAt(o)
    BY <1>2 DEF PooledAt
  <2>4. OuterFinite(o)'
    BY <2>1, <2>2, <2>3 DEF OuterFinite
  <2>5. /\ Outer(o) = owned[o] + leaked[o] + h + p
        /\ out = owned[o] + leaked[o] + hh + p
        /\ owned[o] \in Nat /\ leaked[o] \in Nat /\ p \in Nat
    BY <1>1, <1>2, <2>1, <2>3, OuterNat DEF Outer
  <2>6. /\ IsFiniteSet(ToRelease(frames, o)) /\ c \in Nat
        /\ Outer(o) + c = IF o \in objects THEN refcount[o] ELSE 0
    BY <2>1, FS_CardinalityType DEF Balances
  <2>7. a \in Nat /\ b \in Nat /\ refcount[o] \in Nat
    BY <1>1 DEF Same, NatsOK
  <2>8. a # 0 => o \in objects
    BY <1>6 DEF Same
  <2>9. rc[o] = refcount[o] + a
    BY <1>6
  <2> HIDE DEF h, hh, p, c, out, a, b
  <2>10. out \in Nat /\ out + b = Outer(o) + a /\ Outer(o) \in Nat
    BY <2>2, <2>5, <2>7
  <2>11. (out + b) + c = IF o \in objects THEN rc[o] ELSE 0
    BY <2>6, <2>7, <2>8, <2>9, <2>10
  <2>12. Balances(objects, out + b, frames, rc, o)
    BY <2>6, <2>11 DEF Balances, c
  <2>13. Dying(objects, frames, rc, o)
    BY <1>6, <2>1 DEF Dying
  <2>14. CASE w = Nil /\ refcount' = rc /\ UNCHANGED frames
    <3>1. b = 0
      BY <2>14, LifetimeAssumption DEF Same, b
    <3>2. out + b = out
      BY <2>10, <3>1
    <3>3. Balances(objects, out, frames', refcount', o) /\ Dying(objects, frames', refcount', o)
      BY <2>12, <2>13, <2>14, <3>2
    <3> QED BY <1>1, <1>2, <1>6, <2>4, <2>14, <3>3 DEF Counted, out
  <2>15. CASE /\ w \in Objects /\ refcount' = Decremented(rc, w)
              /\ frames' = IF IsLast(rc, w) THEN Pushed(frames, t, Dealloc(w)) ELSE frames
    <3>1. Balances(objects, out + Same(w, o), frames, rc, o)
      BY <2>12 DEF b
    <3>2. w \in objects /\ rc[w] > 0
      BY <1>4, <1>7, <2>15 DEF w
    <3>3. /\ refcount' \in [Objects -> Nat] /\ Quiet(frames')
          /\ Balances(objects, out, frames', refcount', o)
          /\ Dying(objects, frames', refcount', o)
      BY <1>1, <1>6, <2>10, <2>13, <2>15, <3>1, <3>2, ReleaseKeeps
    <3> QED BY <1>2, <2>4, <3>3 DEF Counted, out
  <2> QED BY <1>3, <2>14, <2>15
<1>9. refcount' \in [Objects -> Nat] /\ Quiet(frames')
  BY <1>8
<1> QED BY <1>1, <1>2, <1>8, <1>9 DEF CountsOK, NatsOK
(* What the guest may use is an object.                                    *)
LEMMA UsableIsObject ==
  ASSUME FramesOK, CountsOK, NEW t \in Threads, NEW o \in Objects, Usable(t, o)
  PROVE  o \in objects
<1>1. NatsOK /\ Counted(o)
  BY DEF CountsOK
<1>2. CASE owned[o] > 0
  BY <1>1, <1>2, Alive
<1>3. CASE frames[t] # << >> /\ Head(frames[t]).of = o
  <2>1. \E x : x \in Deallocs(frames, o)
    BY <1>3, HeadFrame
  <2> QED BY <1>1, <2>1, DyingIsDead
<1> QED BY <1>2, <1>3 DEF Usable

(* The calls on weak references, by a guest that does not load one to an   *)
(* object that is being deallocated.                                       *)
LEMMA WeakCounts ==
  ASSUME LifeInv, ~LoadsDying, NEW t \in Threads, WeakCalls(t)
  PROVE  CountsOK' /\ WeakNeverDangles'
<1>1. /\ FramesOK /\ SlotsOK /\ CountsOK /\ WeakNeverDangles
      /\ NatsOK /\ objects \subseteq Objects /\ Quiet(frames)
      /\ \A o \in Objects : Counted(o)
      /\ slot \in [Slots -> Objects \cup {Nil, Raw}]
  BY DEF LifeInv, CountsOK, SlotsOK
<1>2. ASSUME NEW l \in Slots, objc_loadWeakRetained(t, l)
      PROVE  CountsOK' /\ WeakNeverDangles'
  <2> DEFINE a == slot[l]
  <2>1. /\ a \in Objects /\ refcount[a] > 0
        /\ UNCHANGED <<objects, kvc, pooled, frames, leaked, slot>>
        /\ refcount' = Incremented(refcount, a)
        /\ owned' = [owned EXCEPT ![a] = @ + 1]
    BY <1>2 DEF objc_loadWeakRetained, weakUnchanged, weakVars, poolVars
  <2>2. a \in objects
    BY <1>1, <2>1, LifetimeAssumption DEF WeakNeverDangles
  <2> HIDE DEF a
  <2>3. /\ objects' = objects \cup {a}
        /\ refcount' = [refcount EXCEPT ![a] = IF a \in objects THEN @ + 1 ELSE 1]
    BY <2>1, <2>2 DEF Incremented
  <2>4. \A o \in Objects : Counted(o)'
    BY <1>1, <2>1, <2>3, OwnMore
  <2>5. NatsOK'
    BY <1>1, <2>1, <2>3 DEF NatsOK
  <2> QED BY <1>1, <2>1, <2>4, <2>5 DEF CountsOK, WeakNeverDangles
<1>3. ASSUME UNCHANGED <<objects, refcount, kvc, pooled, frames, owned, leaked>>
      PROVE  CountsOK'
  <2>1. ASSUME NEW o \in Objects
        PROVE  Counted(o)'
    <3>1. OuterFinite(o) /\ IsFiniteSet(ToRelease(frames, o)) /\ Counted(o)
      BY <1>1 DEF Counted, Balances
    <3>2. OuterFinite(o)' /\ Outer(o)' = Outer(o)
      BY <1>3, <3>1, OuterMoves DEF Outer
    <3> QED BY <1>3, <3>1, <3>2, MovesKeep
  <2> QED BY <1>1, <1>3, <2>1 DEF CountsOK, NatsOK
<1>4. ASSUME NEW l \in Slots, NEW o \in Objects \cup {Nil},
             objc_initWeak(t, l, o) \/ objc_storeWeak(t, l, o)
      PROVE  CountsOK' /\ WeakNeverDangles'
  <2>1. /\ UNCHANGED <<objects, refcount, kvc, pooled, frames, owned, leaked>>
        /\ slot' = [slot EXCEPT ![l] = o]
        /\ o # Nil => Usable(t, o)
    BY <1>4 DEF objc_initWeak, objc_storeWeak, weakUnchanged, poolVars
  <2>2. o \in objects \cup {Nil}
    BY <1>1, <2>1, UsableIsObject
  <2> QED BY <1>1, <1>3, <2>1, <2>2 DEF WeakNeverDangles
<1>5. ASSUME NEW l \in Slots, objc_destroyWeak(t, l)
      PROVE  CountsOK' /\ WeakNeverDangles'
  BY <1>1, <1>3, <1>5 DEF objc_destroyWeak, weakUnchanged, poolVars, WeakNeverDangles
<1>6. ASSUME NEW to \in Slots, NEW from \in Slots,
             objc_copyWeak(t, to, from) \/ objc_moveWeak(t, to, from)
      PROVE  CountsOK' /\ WeakNeverDangles'
  <2>1. UNCHANGED <<objects, refcount, kvc, pooled, frames, owned, leaked>>
    BY <1>6 DEF objc_copyWeak, objc_moveWeak, weakUnchanged, poolVars
  <2>2. \A l \in Slots : slot'[l] \in {slot[l], slot[from], Raw}
    BY <1>1, <1>6 DEF objc_copyWeak, objc_moveWeak
  <2> QED BY <1>1, <1>3, <2>1, <2>2 DEF WeakNeverDangles
<1> QED BY <1>2, <1>4, <1>5, <1>6 DEF WeakCalls

(* Its weak references go with the object.                                 *)
LEMMA DeallocLeavesNone ==
  ASSUME FramesOK, SlotsOK, WeakNeverDangles, NEW t \in Threads, dealloc_object(t)
  PROVE  WeakNeverDangles'
<1> DEFINE k == Head(frames[t]).of
<1>1. frames[t] \in Seq(Frames) /\ frames[t] # << >>
  BY DEF FramesOK, dealloc_object, InHost, InGuestCode
<1>2. Head(frames[t]) \in Frames
  BY <1>1
<1>3. k \in Objects
  BY <1>2 DEF dealloc_object, InHost, Frames
<1>4. ZeroWeakReferences(k) /\ objects' = objects \ {k}
  BY DEF dealloc_object
<1> HIDE DEF k
<1>5. \A l \in Slots : slot'[l] = IF slot[l] = k THEN Nil ELSE slot[l]
  BY <1>3, <1>4 DEF ZeroWeakReferences, SlotsOK, SideTableExact
<1> QED BY <1>4, <1>5 DEF WeakNeverDangles

(* One step of a guest that does not load weak references to objects that  *)
(* are being deallocated.                                                  *)
LEMMA LifeStep ==
  ASSUME LifeInv, ~LoadsDying, [Next]_vars
  PROVE  LifeInv'
<1>1. FramesOK /\ SlotsOK /\ CountsOK /\ WeakNeverDangles
  BY DEF LifeInv
<1>2. FramesOK' /\ SlotsOK'
  BY <1>1, WeakStep
<1>3. CASE UNCHANGED vars
  <2>1. UNCHANGED <<objects, refcount, slot, kvc, pooled, frames, owned, leaked>>
    BY <1>3 DEF vars, weakVars, poolVars, history
  <2>2. ASSUME NEW o \in Objects
        PROVE  Counted(o)'
    <3>1. OuterFinite(o) /\ IsFiniteSet(ToRelease(frames, o)) /\ Counted(o)
      BY <1>1 DEF CountsOK, Counted, Balances
    <3>2. OuterFinite(o)' /\ Outer(o)' = Outer(o)
      BY <2>1, <3>1, OuterMoves DEF Outer
    <3> QED BY <2>1, <3>1, <3>2, MovesKeep
  <2>3. CountsOK'
    BY <1>1, <2>1, <2>2 DEF CountsOK, NatsOK
  <2> QED BY <1>1, <1>2, <2>1, <2>3 DEF LifeInv, WeakNeverDangles
<1>4. ASSUME NEW t \in Threads, GuestCalls(t)
      PROVE  LifeInv'
  <2>1. CountsOK'
    <3>1. ASSUME NEW u \in Threads, NEW i \in 1..Cardinality(Pools), drain(t, u, i)
          PROVE  i \in 1..Len(pool_stacks[u])
      BY <3>1 DEF drain
    <3> QED BY <1>1, <1>4, <3>1, OwnCounts, ReleaseCounts, AutoreleaseCounts,
               SetValueCounts, PoolCounts, DeallocStarts
            DEF GuestCalls
  <2>2. UNCHANGED slot /\ objects \subseteq objects'
    BY <1>4 DEF GuestCalls, alloc, retain, release, autorelease, setValue, new_pool,
                drain, SuperDealloc, HostDealloc, weakVars
  <2>3. WeakNeverDangles'
    BY <1>1, <2>2 DEF WeakNeverDangles
  <2> QED BY <1>2, <2>1, <2>3 DEF LifeInv
<1>5. ASSUME NEW t \in Threads, WeakCalls(t)
      PROVE  LifeInv'
  <2>1. CountsOK' /\ WeakNeverDangles'
    BY <1>5, WeakCounts
  <2> QED BY <1>2, <2>1 DEF LifeInv
<1>6. ASSUME NEW t \in Threads, HostSteps(t)
      PROVE  LifeInv'
  <2>1. CountsOK'
    BY <1>1, <1>6, DrainCounts, DrainEndCounts, ReleaseNextCounts, DeallocCounts
       DEF HostSteps
  <2>2. CASE dealloc_object(t)
    BY <1>1, <1>2, <2>1, <2>2, DeallocLeavesNone DEF LifeInv
  <2>3. CASE DrainNext(t) \/ DrainEnds(t) \/ ReleaseNext(t)
    <3>1. UNCHANGED <<slot, objects>>
      BY <2>3 DEF DrainNext, DrainEnds, ReleaseNext, weakVars
    <3>2. WeakNeverDangles'
      BY <1>1, <3>1 DEF WeakNeverDangles
    <3> QED BY <1>2, <2>1, <3>2 DEF LifeInv
  <2> QED BY <1>6, <2>2, <2>3 DEF HostSteps
<1> QED BY <1>3, <1>4, <1>5, <1>6 DEF Next

(* The invariant of the counts: whatever the guest does with its objects on*)
(* its threads, if it loads no weak reference to a dying one.              *)
THEOREM LifeInvariance ==
  ASSUME ~LoadsDying
  PROVE  Spec => []LifeInv
<1>1. Init => LifeInv
  <2> SUFFICES ASSUME Init
               PROVE  LifeInv
    OBVIOUS
  <2>1. FramesOK /\ SlotsOK
    BY LifetimeAssumption DEF Init, FramesOK, SlotsOK, SideTableExact
  <2>2. /\ NatsOK /\ objects \subseteq Objects /\ Quiet(frames) /\ WeakNeverDangles
    BY DEF Init, NatsOK, Quiet, WeakNeverDangles
  <2>3. ASSUME NEW o \in Objects
        PROVE  Counted(o)
    <3>1. Holders(o) = {}
      BY <2>3, LifetimeAssumption DEF Init, Holders
    <3>2. PooledAt(o) = {}
      BY DEF Init, PooledAt
    <3>3. ToRelease(frames, o) = {} /\ Deallocs(frames, o) = {}
      BY DEF Init, ToRelease, Deallocs
    <3>4. OuterFinite(o) /\ Outer(o) = 0
      BY <3>1, <3>2, FS_EmptySet DEF Init, OuterFinite, Outer
    <3>5. Balances(objects, Outer(o), frames, refcount, o)
      <4>1. IsFiniteSet(ToRelease(frames, o)) /\ Cardinality(ToRelease(frames, o)) = 0
        BY <3>3, FS_EmptySet
      <4>2. o \notin objects
        BY DEF Init
      <4> QED BY <3>4, <4>1, <4>2 DEF Balances
    <3>6. Dying(objects, frames, refcount, o)
      BY <3>3 DEF Init, Dying
    <3> QED BY <3>4, <3>5, <3>6 DEF Counted
  <2> QED BY <2>1, <2>2, <2>3 DEF LifeInv, CountsOK
<1>2. LifeInv /\ [Next]_vars => LifeInv'
  BY LifeStep
<1> QED BY <1>1, <1>2, PTL DEF Spec

(* The count of an object is the number of references there are to it, and *)
(* a deallocated one has none left: no message goes to a dead object, in   *)
(* whatever order nested drains and deallocs of several threads come       *)
(* (release and dealloc of ns_object.rs, decrement_refcount).              *)
THEOREM RefcountsHold ==
  ASSUME ~LoadsDying
  PROVE  Spec => []RefcountExact
<1>1. LifeInv => RefcountExact
  <2> SUFFICES ASSUME LifeInv, NEW o \in Objects
               PROVE  References(o) = IF o \in objects THEN refcount[o] ELSE 0
    BY DEF RefcountExact
  <2>1. Balances(objects, Outer(o), frames, refcount, o)
    BY DEF LifeInv, CountsOK, Counted
  <2> QED BY <2>1 DEF Balances, References, Outer
<1> QED BY <1>1, LifeInvariance, PTL

(* An object is deallocated by one frame of one thread, and by none before *)
(* its last reference is gone.                                             *)
THEOREM OneDealloc ==
  ASSUME ~LoadsDying
  PROVE  Spec => []DeallocOnce
<1>1. LifeInv => DeallocOnce
  <2> SUFFICES ASSUME LifeInv, NEW o \in objects
               PROVE  Cardinality(Deallocs(frames, o)) = IF refcount[o] = 0 THEN 1 ELSE 0
    BY DEF DeallocOnce
  <2>1. Dying(objects, frames, refcount, o)
    BY DEF LifeInv, CountsOK, Counted
  <2>2. Cardinality({}) = 0 /\ \A x : Cardinality({x}) = 1
    BY FS_EmptySet, FS_Singleton
  <2> QED BY <2>1, <2>2 DEF Dying
<1> QED BY <1>1, LifeInvariance, PTL

(* A weak variable holds an object, or nil: dealloc_object zeroes it before*)
(* the address can be used again (zero_weak_references_for).               *)
THEOREM WeakIsAlive ==
  ASSUME ~LoadsDying
  PROVE  Spec => []WeakNeverDangles
<1>1. LifeInv => WeakNeverDangles
  BY DEF LifeInv
<1> QED BY <1>1, LifeInvariance, PTL

(* What the guest owns is an object. With loads of dying objects it need   *)
(* not be, as a run shows: the retain of objc_loadWeakRetained is then     *)
(* without effect.                                                         *)
THEOREM OwnedIsAlive ==
  ASSUME ~LoadsDying
  PROVE  Spec => []OwnedAlive
<1>1. LifeInv => OwnedAlive
  BY Alive DEF LifeInv, CountsOK, OwnedAlive
<1> QED BY <1>1, LifeInvariance, PTL
-----------------------------------------------------------------------------
(* No count of references goes below zero.                                 *)
LEMMA NatStep ==
  ASSUME FramesOK, NatsOK, objects \subseteq Objects, [Next]_vars
  PROVE  NatsOK' /\ objects' \subseteq Objects
<1>1. ASSUME NEW rc \in [Objects -> Nat], NEW o
      PROVE  Incremented(rc, o) \in [Objects -> Nat] /\ Decremented(rc, o) \in [Objects -> Nat]
  <2>1. \A n \in Nat : /\ (IF o \in objects /\ n > 0 THEN n + 1 ELSE n) \in Nat
                      /\ (IF o \in objects /\ n > 0 THEN n - 1 ELSE n) \in Nat
    OBVIOUS
  <2>2. CASE o \in Objects
    BY <2>1, <2>2 DEF Incremented, Decremented
  <2>3. CASE o \notin Objects
    BY <2>3 DEF Incremented, Decremented
  <2> QED BY <2>2, <2>3
<1>2. CASE UNCHANGED vars
  BY <1>2 DEF vars, history, NatsOK
<1>3. ASSUME NEW t \in Threads, NEW o \in Objects,
             alloc(t, o) \/ retain(t, o) \/ release(t, o) \/ autorelease(t, o)
      PROVE  NatsOK' /\ objects' \subseteq Objects
  <2>1. CASE alloc(t, o) \/ retain(t, o)
    BY <1>1, <2>1 DEF alloc, retain, NatsOK
  <2>2. CASE release(t, o)
    <3>1. owned' \in [Objects -> Nat]
      BY <2>2 DEF release, Owns, NatsOK
    <3> QED BY <1>1, <2>2, <3>1 DEF release, Release, NatsOK
  <2>3. CASE autorelease(t, o)
    <3>1. owned' \in [Objects -> Nat]
      BY <2>3 DEF autorelease, Owns, NatsOK
    <3>2. leaked' = leaked \/ leaked' = [leaked EXCEPT ![o] = @ + 1]
      BY <2>3 DEF autorelease
    <3>3. leaked' \in [Objects -> Nat]
      BY <3>2 DEF NatsOK
    <3>4. UNCHANGED <<objects, refcount>>
      BY <2>3 DEF autorelease
    <3> QED BY <3>1, <3>3, <3>4 DEF NatsOK
  <2> QED BY <1>3, <2>1, <2>2, <2>3
<1>4. ASSUME NEW t \in Threads, NEW o \in Objects, NEW v \in Objects \cup {Nil}, setValue(t, o, v)
      PROVE  NatsOK' /\ objects' \subseteq Objects
  <2> DEFINE rc == IF v = Nil THEN refcount ELSE Incremented(refcount, v)
  <2>1. rc \in [Objects -> Nat]
    BY <1>1 DEF NatsOK
  <2>2. refcount' = rc \/ refcount' = Decremented(rc, kvc[o])
    BY <1>4 DEF setValue, Release
  <2> HIDE DEF rc
  <2> QED BY <1>1, <1>4, <2>1, <2>2 DEF setValue, history, NatsOK
<1>5. ASSUME NEW t \in Threads,
             \/ \E p \in Pools : new_pool(t, p)
             \/ \E u \in Threads, i \in 1..Cardinality(Pools) : drain(t, u, i)
             \/ SuperDealloc(t) \/ HostDealloc(t)
             \/ DrainNext(t) \/ DrainEnds(t) \/ dealloc_object(t)
      PROVE  NatsOK' /\ objects' \subseteq Objects
  BY <1>5 DEF new_pool, drain, SuperDealloc, HostDealloc, DrainNext, DrainEnds,
              dealloc_object, history, NatsOK
<1>6. ASSUME NEW t \in Threads, ReleaseNext(t)
      PROVE  NatsOK' /\ objects' \subseteq Objects
  BY <1>1, <1>6 DEF ReleaseNext, Release, history, NatsOK
<1>7. ASSUME NEW t \in Threads, WeakCalls(t)
      PROVE  NatsOK' /\ objects' \subseteq Objects
  <2>1. /\ UNCHANGED <<objects, leaked>>
        /\ refcount' = refcount \/ \E o : refcount' = Incremented(refcount, o)
        /\ owned' = owned \/ \E o : owned' = [owned EXCEPT ![o] = @ + 1]
    BY <1>7 DEF WeakCalls, objc_initWeak, objc_storeWeak, objc_loadWeakRetained,
                objc_destroyWeak, objc_copyWeak, objc_moveWeak, weakUnchanged
  <2> QED BY <1>1, <2>1 DEF NatsOK
<1> QED BY <1>2, <1>3, <1>4, <1>5, <1>6, <1>7 DEF Next, GuestCalls, HostSteps

(* The references, weak variables, pools and frames stay well-formed, also *)
(* with loads of dying objects: in particular the release of an object that*)
(* is being deallocated takes no count below zero (decrement_refcount).    *)
THEOREM LifetimeTyped == Spec => []TypeOK
<1> DEFINE Inv == FramesOK /\ SlotsOK /\ NatsOK /\ objects \subseteq Objects
<1>1. Init => Inv
  BY LifetimeAssumption DEF Init, FramesOK, SlotsOK, SideTableExact, NatsOK
<1>2. Inv /\ [Next]_vars => Inv'
  BY WeakStep, NatStep
<1>3. Inv => TypeOK
  BY DEF FramesOK, SlotsOK, NatsOK, TypeOK
<1> QED BY <1>1, <1>2, <1>3, PTL DEF Spec
=============================================================================
