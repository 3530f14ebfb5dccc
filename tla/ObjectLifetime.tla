--------------------------- MODULE ObjectLifetime ---------------------------
(***************************************************************************)
(* The life of Objective-C objects: the reference counts of objc/objects.rs*)
(* with the messages of NSObject that use them, the zeroing weak references*)
(* of objc/weak.rs, the autorelease pools of ns_autorelease_pool.rs and the*)
(* dynamic properties that NSObject keeps for objects without a setter.    *)
(*                                                                         *)
(* An object is its address, so a new object may get the address, and what *)
(* is left in the tables, of a deallocated one. A release can deallocate,  *)
(* deallocation sends more releases, and the guest's own dealloc methods   *)
(* run in between: each thread has a stack of such frames. Guest code can  *)
(* be interrupted by the other threads' guest code, host code cannot.      *)
(***************************************************************************)
EXTENDS Naturals, Sequences, FiniteSets

SX == INSTANCE SequencesExt

CONSTANTS Threads,
          Objects,     (* addresses an ordinary object can have            *)
          Pools,       (* addresses an NSAutoreleasePool can have          *)
          Slots,       (* locations the guest keeps weak references in     *)
          Nil,
          Raw,         (* stands for bytes that are no weak variable       *)
          MaxOwned,    (* bound on what the guest owns of one object       *)
          MaxPooled,   (* bound on the contents of one pool                *)
          MaxLeaked,   (* bound on what is autoreleased without a pool     *)
          LoadsDying   (* whether the guest loads a weak reference to an   *)
                       (* object while it is being deallocated             *)

ASSUME LifetimeAssumption ==
  /\ Nil \notin Objects
  /\ Raw \notin Objects \cup {Nil}
  /\ MaxOwned \in Nat /\ MaxPooled \in Nat /\ MaxLeaked \in Nat
  /\ LoadsDying \in BOOLEAN

VARIABLES objects,      (* keys of ObjC.objects, without the pools         *)
          refcount,     (* HostObjectEntry.refcount, 0 for None            *)
          weak_refs,    (* ObjC.weak_refs                                  *)
          slot,         (* what the weak variables hold                    *)
          kvc,          (* DYNAMIC_KVC_STORAGE, one key per object         *)
          pool_stacks,  (* State.pool_stacks                               *)
          pooled,       (* NSAutoreleasePoolHostObject.objects             *)
          frames,       (* the host frames on each thread's stack, the     *)
                        (* innermost first                                 *)
          owned,        (* history: references the guest is to release     *)
          leaked        (* history: autoreleased without a pool            *)

weakVars == <<weak_refs, slot>>
poolVars == <<pool_stacks, pooled>>
history == <<owned, leaked>>
vars == <<objects, refcount, weakVars, kvc, poolVars, frames, history>>

-----------------------------------------------------------------------------
(* A dealloc is in the guest's method first, then in the host's. Both it   *)
(* and the draining of pools have releases to send, todo.                  *)
Frames == [kind : {"dealloc"}, of : Objects, guest : BOOLEAN,
           pools : {<< >>}, todo : Seq(Objects)]
            \cup
          [kind : {"drain"}, of : {Nil}, guest : {FALSE},
           pools : Seq(Pools), todo : Seq(Objects)]

Dealloc(o) ==
  [kind |-> "dealloc", of |-> o, guest |-> TRUE, pools |-> << >>, todo |-> << >>]

Draining(ps) ==
  [kind |-> "drain", of |-> Nil, guest |-> FALSE, pools |-> ps, todo |-> << >>]

(* The references, weak variables, pools and frames are well-formed. In    *)
(* particular no reference count goes below zero.                          *)
TypeOK ==
  /\ objects \in SUBSET Objects
  /\ refcount \in [Objects -> Nat]
  /\ weak_refs \in [Objects -> SUBSET Slots]
  /\ slot \in [Slots -> Objects \cup {Nil, Raw}]
  /\ kvc \in [Objects -> Objects \cup {Nil}]
  /\ pool_stacks \in [Threads -> Seq(Pools)]
  /\ pooled \in [Pools -> Seq(Objects)]
  /\ frames \in [Threads -> Seq(Frames)]
  /\ owned \in [Objects -> Nat]
  /\ leaked \in [Objects -> Nat]

Init ==
  /\ objects = {}
  /\ refcount = [o \in Objects |-> 0]
  /\ weak_refs = [o \in Objects |-> {}]
  /\ slot = [l \in Slots |-> Raw]
  /\ kvc = [o \in Objects |-> Nil]
  /\ pool_stacks = [t \in Threads |-> << >>]
  /\ pooled = [p \in Pools |-> << >>]
  /\ frames = [t \in Threads |-> << >>]
  /\ owned = [o \in Objects |-> 0]
  /\ leaked = [o \in Objects |-> 0]

-----------------------------------------------------------------------------
InGuestCode(t) == frames[t] # << >> => Head(frames[t]).guest

(* Thread t runs guest code, having been switched to if need be.           *)
Guest(t) == \A u \in Threads : InGuestCode(u)

(* Thread t is in host code, at its innermost frame.                       *)
InHost(t, kind) == ~InGuestCode(t) /\ Head(frames[t]).kind = kind

(* What the guest may use: the objects it owns, and an object whose        *)
(* dealloc method is running.                                              *)
Usable(t, o) ==
  \/ owned[o] > 0
  \/ frames[t] # << >> /\ Head(frames[t]).of = o

Owns(o) == owned[o] > 0

(* Retaining an object that is being deallocated changes nothing, in       *)
(* increment_refcount, given the counts rc.                                *)
Incremented(rc, o) ==
  [rc EXCEPT ![o] = IF o \in objects /\ @ > 0 THEN @ + 1 ELSE @]

(* Mutant: the count of an object being deallocated stays at one.          *)
MutDecremented(rc, o) ==
  [rc EXCEPT ![o] = IF o \in objects /\ @ > 1 THEN @ - 1 ELSE @]

(* decrement_refcount, which says whether this was the last reference.     *)
Decremented(rc, o) ==
  [rc EXCEPT ![o] = IF o \in objects /\ @ > 0 THEN @ - 1 ELSE @]

IsLast(rc, o) == o \in objects /\ rc[o] = 1

(* -release of o, sent by thread t with the frames below on its stack.     *)
Release(rc, t, o, below) ==
  /\ refcount' = Decremented(rc, o)
  /\ frames' = [frames EXCEPT ![t] =
                  IF IsLast(rc, o) THEN <<Dealloc(o)>> \o below ELSE below]

-----------------------------------------------------------------------------
(* Reference counts.                                                       *)
alloc(t, o) ==
  /\ Guest(t)
  /\ o \notin objects
  /\ MaxOwned > 0
  /\ objects' = objects \cup {o}
  /\ refcount' = [refcount EXCEPT ![o] = 1]
  /\ owned' = [owned EXCEPT ![o] = @ + 1]
  /\ UNCHANGED <<weakVars, kvc, poolVars, frames, leaked>>

retain(t, o) ==
  /\ Guest(t)
  /\ Owns(o) /\ owned[o] < MaxOwned
  /\ refcount' = Incremented(refcount, o)
  /\ owned' = [owned EXCEPT ![o] = @ + 1]
  /\ UNCHANGED <<objects, weakVars, kvc, poolVars, frames, leaked>>

release(t, o) ==
  /\ Guest(t)
  /\ Owns(o)
  /\ owned' = [owned EXCEPT ![o] = @ - 1]
  /\ Release(refcount, t, o, frames[t])
  /\ UNCHANGED <<objects, weakVars, kvc, poolVars, leaked>>

-----------------------------------------------------------------------------
(* Autorelease pools.                                                      *)
LivePools ==
  UNION {SX!ToSet(pool_stacks[t]) : t \in Threads} \cup
  UNION {UNION {SX!ToSet(f.pools) : f \in SX!ToSet(frames[t])} : t \in Threads}

(* +addObject: gives the object to the innermost pool of the thread.       *)
autorelease(t, o) ==
  /\ Guest(t)
  /\ Owns(o)
  /\ owned' = [owned EXCEPT ![o] = @ - 1]
  /\ IF pool_stacks[t] = << >>
       THEN /\ leaked[o] < MaxLeaked
            /\ leaked' = [leaked EXCEPT ![o] = @ + 1]
            /\ UNCHANGED pooled
       ELSE LET p == SX!Last(pool_stacks[t]) IN
            /\ Len(pooled[p]) < MaxPooled
            /\ pooled' = [pooled EXCEPT ![p] = Append(@, o)]
            /\ UNCHANGED leaked
  /\ UNCHANGED <<objects, refcount, weakVars, kvc, pool_stacks, frames>>

new_pool(t, p) ==
  /\ Guest(t)
  /\ p \notin LivePools
  /\ pool_stacks' = [pool_stacks EXCEPT ![t] = Append(@, p)]
  /\ UNCHANGED <<objects, refcount, weakVars, kvc, pooled, frames, history>>

(* The last release of a pool, which need not be the innermost one nor a   *)
(* pool of the caller's thread: its dealloc takes it and those above it    *)
(* off the stack.                                                          *)
drain(t, u, i) ==
  /\ Guest(t)
  /\ i \in 1..Len(pool_stacks[u])
  /\ pool_stacks' = [pool_stacks EXCEPT ![u] = SubSeq(@, 1, i - 1)]
  /\ frames' = [frames EXCEPT ![t] =
                  <<Draining(SubSeq(pool_stacks[u], i, Len(pool_stacks[u])))>> \o @]
  /\ UNCHANGED <<objects, refcount, weakVars, kvc, pooled, history>>

(* The pools taken off are deallocated from the innermost on, and what was *)
(* in each of them is released.                                            *)
DrainNext(t) ==
  LET f == Head(frames[t])
      p == SX!Last(f.pools) IN
  /\ InHost(t, "drain") /\ f.todo = << >> /\ f.pools # << >>
  /\ frames' = [frames EXCEPT ![t] =
       <<[f EXCEPT !.pools = SX!Front(@), !.todo = pooled[p]]>> \o Tail(@)]
  /\ pooled' = [pooled EXCEPT ![p] = << >>]
  /\ UNCHANGED <<objects, refcount, weakVars, kvc, pool_stacks, history>>

DrainEnds(t) ==
  /\ InHost(t, "drain")
  /\ Head(frames[t]).todo = << >> /\ Head(frames[t]).pools = << >>
  /\ frames' = [frames EXCEPT ![t] = Tail(@)]
  /\ UNCHANGED <<objects, refcount, weakVars, kvc, poolVars, history>>

(* The next release that a frame in host code has to send.                 *)
ReleaseNext(t) ==
  LET f == Head(frames[t]) IN
  /\ ~InGuestCode(t)
  /\ f.todo # << >>
  /\ Release(refcount, t, Head(f.todo),
             <<[f EXCEPT !.todo = Tail(@)]>> \o Tail(frames[t]))
  /\ UNCHANGED <<objects, weakVars, kvc, poolVars, history>>

-----------------------------------------------------------------------------
(* Deallocation. The dealloc method ends with [super dealloc]: in NSObject *)
(* that takes the object's dynamic properties out of the storage, to be    *)
(* released; many host classes go straight to dealloc_object.              *)
Properties(o) == IF kvc[o] = Nil THEN << >> ELSE <<kvc[o]>>

(* Mutant: the properties are released, and stay in the storage.           *)
MutSuperDealloc(t) ==
  LET f == Head(frames[t]) IN
  /\ Guest(t)
  /\ frames[t] # << >>
  /\ frames' = [frames EXCEPT ![t] =
       <<[f EXCEPT !.guest = FALSE, !.todo = Properties(f.of)]>> \o Tail(@)]
  /\ UNCHANGED <<objects, refcount, weakVars, kvc, poolVars, history>>

SuperDealloc(t) ==
  LET f == Head(frames[t]) IN
  /\ Guest(t)
  /\ frames[t] # << >>
  /\ frames' = [frames EXCEPT ![t] =
       <<[f EXCEPT !.guest = FALSE, !.todo = Properties(f.of)]>> \o Tail(@)]
  /\ kvc' = [kvc EXCEPT ![f.of] = Nil]
  /\ UNCHANGED <<objects, refcount, weakVars, poolVars, history>>

HostDealloc(t) ==
  LET f == Head(frames[t]) IN
  /\ Guest(t)
  /\ frames[t] # << >>
  /\ frames' = [frames EXCEPT ![t] = <<[f EXCEPT !.guest = FALSE]>> \o Tail(@)]
  /\ UNCHANGED <<objects, refcount, weakVars, kvc, poolVars, history>>

(* zero_weak_references_for.                                               *)
ZeroWeakReferences(o) ==
  /\ slot' = [l \in Slots |->
               IF slot[l] = o /\ l \in weak_refs[o] THEN Nil ELSE slot[l]]
  /\ weak_refs' = [weak_refs EXCEPT ![o] = {}]

dealloc_object(t) ==
  LET o == Head(frames[t]).of IN
  /\ InHost(t, "dealloc")
  /\ Head(frames[t]).todo = << >>
  /\ ZeroWeakReferences(o)
  /\ objects' = objects \ {o}
  /\ frames' = [frames EXCEPT ![t] = Tail(@)]
  /\ UNCHANGED <<refcount, kvc, poolVars, history>>

-----------------------------------------------------------------------------
(* Weak references. The lists of the side table are sets here: all copies  *)
(* of a slot are removed at once, and zeroing one twice changes nothing.   *)
Registered(refs, o, l) ==
  IF o = Nil THEN refs ELSE [refs EXCEPT ![o] = @ \cup {l}]

Unregistered(refs, o, l) ==
  IF o = Nil THEN refs ELSE [refs EXCEPT ![o] = @ \ {l}]

weakUnchanged == <<objects, kvc, poolVars, frames, leaked>>

objc_initWeak(t, l, o) ==
  /\ Guest(t)
  /\ slot[l] = Raw
  /\ o # Nil => Usable(t, o)
  /\ slot' = [slot EXCEPT ![l] = o]
  /\ weak_refs' = Registered(weak_refs, o, l)
  /\ UNCHANGED <<weakUnchanged, refcount, owned>>

(* Mutant: the old referent keeps its registration.                        *)
MutStoreWeak(t, l, o) ==
  /\ Guest(t)
  /\ slot[l] # Raw
  /\ o # Nil => Usable(t, o)
  /\ slot' = [slot EXCEPT ![l] = o]
  /\ weak_refs' = Registered(weak_refs, o, l)
  /\ UNCHANGED <<weakUnchanged, refcount, owned>>

objc_storeWeak(t, l, o) ==
  /\ Guest(t)
  /\ slot[l] # Raw
  /\ o # Nil => Usable(t, o)
  /\ slot' = [slot EXCEPT ![l] = o]
  /\ weak_refs' = Registered(Unregistered(weak_refs, slot[l], l), o, l)
  /\ UNCHANGED <<weakUnchanged, refcount, owned>>

(* The guest owns what it loads; the retain of an object that is being     *)
(* deallocated has no effect.                                              *)
objc_loadWeakRetained(t, l) ==
  LET o == slot[l] IN
  /\ Guest(t)
  /\ o \in Objects
  /\ refcount[o] > 0 \/ LoadsDying
  /\ owned[o] < MaxOwned
  /\ refcount' = Incremented(refcount, o)
  /\ owned' = [owned EXCEPT ![o] = @ + 1]
  /\ UNCHANGED <<weakUnchanged, weakVars>>

objc_destroyWeak(t, l) ==
  /\ Guest(t)
  /\ slot[l] # Raw
  /\ slot' = [slot EXCEPT ![l] = Raw]
  /\ weak_refs' = Unregistered(weak_refs, slot[l], l)
  /\ UNCHANGED <<weakUnchanged, refcount, owned>>

objc_copyWeak(t, to, from) ==
  /\ Guest(t)
  /\ slot[to] = Raw /\ slot[from] # Raw
  /\ slot' = [slot EXCEPT ![to] = slot[from]]
  /\ weak_refs' = Registered(weak_refs, slot[from], to)
  /\ UNCHANGED <<weakUnchanged, refcount, owned>>

(* Mutant: the side table still names the old slot.                        *)
MutMoveWeak(t, to, from) ==
  /\ Guest(t)
  /\ slot[to] = Raw /\ slot[from] # Raw
  /\ slot' = [slot EXCEPT ![to] = slot[from], ![from] = Raw]
  /\ UNCHANGED <<weakUnchanged, weak_refs, refcount, owned>>

objc_moveWeak(t, to, from) ==
  /\ Guest(t)
  /\ slot[to] = Raw /\ slot[from] # Raw
  /\ slot' = [slot EXCEPT ![to] = slot[from], ![from] = Raw]
  /\ weak_refs' = Registered(Unregistered(weak_refs, slot[from], from),
                             slot[from], to)
  /\ UNCHANGED <<weakUnchanged, refcount, owned>>

-----------------------------------------------------------------------------
(* -setValue:forUndefinedKey: retains the new value, stores it, and then   *)
(* releases the old one.                                                   *)
setValue(t, o, v) ==
  LET retained == IF v = Nil THEN refcount ELSE Incremented(refcount, v) IN
  /\ Guest(t)
  /\ Usable(t, o)
  /\ v # Nil => Owns(v)
  /\ kvc' = [kvc EXCEPT ![o] = v]
  /\ IF kvc[o] = Nil
       THEN refcount' = retained /\ UNCHANGED frames
       ELSE Release(retained, t, kvc[o], frames[t])
  /\ UNCHANGED <<objects, weakVars, poolVars, history>>

-----------------------------------------------------------------------------
GuestCalls(t) ==
  \/ \E o \in Objects : alloc(t, o) \/ retain(t, o) \/ release(t, o)
                          \/ autorelease(t, o)
  \/ \E o \in Objects, v \in Objects \cup {Nil} : setValue(t, o, v)
  \/ \E p \in Pools : new_pool(t, p)
  \/ \E u \in Threads, i \in 1..Cardinality(Pools) : drain(t, u, i)
  \/ SuperDealloc(t)
  \/ HostDealloc(t)

WeakCalls(t) ==
  \/ \E l \in Slots, o \in Objects \cup {Nil} :
       objc_initWeak(t, l, o) \/ objc_storeWeak(t, l, o)
  \/ \E l \in Slots : objc_loadWeakRetained(t, l) \/ objc_destroyWeak(t, l)
  \/ \E to, from \in Slots : objc_copyWeak(t, to, from) \/ objc_moveWeak(t, to, from)

HostSteps(t) ==
  DrainNext(t) \/ DrainEnds(t) \/ ReleaseNext(t) \/ dealloc_object(t)

Next == \E t \in Threads : GuestCalls(t) \/ WeakCalls(t) \/ HostSteps(t)

Spec == Init /\ [][Next]_vars

-----------------------------------------------------------------------------
(***************************************************************************)
(* Safety.                                                                 *)
(***************************************************************************)
(* The frames below and the releases behind keep their places as others    *)
(* come and go.                                                            *)
FromEnd(s, i) == s[Len(s) + 1 - i]

Holders(o) == {k \in Objects : kvc[k] = o}

PooledAt(o) ==
  UNION {{<<p, i>> : i \in {j \in DOMAIN pooled[p] : pooled[p][j] = o}} : p \in Pools}

Places(f, o) == {i \in DOMAIN f.todo : FromEnd(f.todo, i) = o}

ToRelease(fs, o) ==
  UNION {UNION {{<<t, d, i>> : i \in Places(FromEnd(fs[t], d), o)}
                : d \in DOMAIN fs[t]} : t \in Threads}

(* The references to o: what the guest owns, what it has leaked for want of*)
(* a pool, what dynamic properties hold, what is in the pools, and the     *)
(* releases that frames have yet to send.                                  *)
References(o) ==
  owned[o] + leaked[o] + Cardinality(Holders(o)) + Cardinality(PooledAt(o))
    + Cardinality(ToRelease(frames, o))

(* The count of an object is the number of references there are to it; one *)
(* that is deallocated, or about to be, has none: no message goes to a dead*)
(* object, through nested drains and deallocs of several threads.          *)
RefcountExact ==
  \A o \in Objects :
    References(o) = IF o \in objects THEN refcount[o] ELSE 0

(* Nobody is handed an object that is then deallocated: what the guest owns*)
(* stays an object ("or nil if the referent has already been deallocated", *)
(* objc/weak.rs).                                                          *)
OwnedAlive == \A o \in Objects : owned[o] > 0 => o \in objects

Deallocs(fs, o) ==
  UNION {{<<t, d>> : d \in {i \in DOMAIN fs[t] : FromEnd(fs[t], i).of = o}}
         : t \in Threads}

(* An object is deallocated by one frame of one thread, from the moment its*)
(* last reference goes until its memory does.                              *)
DeallocOnce ==
  \A o \in objects :
    Cardinality(Deallocs(frames, o)) = IF refcount[o] = 0 THEN 1 ELSE 0

(* A weak variable never holds a deallocated object, nor the object that   *)
(* has since got its address.                                              *)
WeakNeverDangles == \A l \in Slots : slot[l] \in objects \cup {Nil, Raw}

(* The side table names a slot under the object that it refers to and under*)
(* no other, and never bytes that are no weak variable any more.           *)
SideTableExact ==
  \A o \in Objects : weak_refs[o] = {l \in Slots : slot[l] = o}

=============================================================================
