--------------------------- MODULE RunLoopsProofs ---------------------------
(***************************************************************************)
(* Theorems about RunLoops.                                                *)
(***************************************************************************)
EXTENDS RunLoops, FiniteSetTheorems, SequenceTheorems, WellFoundedInduction, TLAPS

-----------------------------------------------------------------------------
(* What the calls do to one timer. A heap is a value of the variables      *)
(* timer, refcount and list.                                               *)

Heaps ==
  [timer : [Timers -> HostObjects], refcount : [Timers -> Nat],
   list : [Threads -> Lists]]

InLoop(h, t) == IF h.timer[t].run_loop = Nil THEN 0 ELSE 1

(* The references that are not the loop's.                                 *)
Own(h, t) == h.refcount[t] - InLoop(h, t)

(* A timer is in the loop it names, once, which has a reference to it; and *)
(* there is no timer without a reference.                                  *)
TimerOK(h, t) ==
  /\ \A l \in Threads : h.list[l][t] = IF h.timer[t].run_loop = l THEN 1 ELSE 0
  /\ h.refcount[t] = 0 => h.timer[t] = Gone
  /\ Own(h, t) \in Nat

Same(h, g, t) ==
  /\ g.timer[t] = h.timer[t]
  /\ g.refcount[t] = h.refcount[t]
  /\ \A l \in Threads : g.list[l][t] = h.list[l][t]

(* g is h but for t, which is new and has n references besides the loop's. *)
Moves(h, g, t, n, new) ==
  /\ g \in Heaps
  /\ \A u \in Timers \ {t} : Same(h, g, u)
  /\ TimerOK(g, t)
  /\ Own(g, t) = n
  /\ g.timer[t] = new

(* What is not touched is as well as it was.                               *)
LEMMA SameOK ==
  ASSUME NEW h, NEW g, NEW t, Same(h, g, t)
  PROVE  /\ TimerOK(h, t) <=> TimerOK(g, t)
         /\ Own(g, t) = Own(h, t)
         /\ g.timer[t] = h.timer[t]
BY DEF Same, TimerOK, Own, InLoop

(* The fields of a timer's object.                                         *)
LEMMA HostObjectIs ==
  ASSUME NEW h \in Heaps, NEW t \in Timers
  PROVE  /\ h.timer[t] \in HostObjects
         /\ h.refcount[t] \in Nat
         /\ InLoop(h, t) \in {0, 1}
         /\ \A l \in Threads : h.list[l] \in Lists /\ h.list[l][t] \in Nat
         /\ h.timer[t].run_loop \in Threads \cup {Nil}
BY DEF Heaps, HostObjects, InLoop, Lists

(* No timer is at the address.                                             *)
LEMMA GoneIs ==
  /\ Gone \in HostObjects
  /\ Gone.run_loop = Nil /\ Gone.due_by = "none" /\ Gone.target = Nil
  /\ ~ Gone.running /\ ~ Gone.repeats
BY DEF Gone, HostObjects

(* -invalidate takes the timer out of its loop, and frees it if the loop   *)
(* had the last reference.                                                 *)
LEMMA InvalidateIs ==
  ASSUME NEW h \in Heaps, NEW t \in Timers, TimerOK(h, t)
  PROVE  Moves(h, invalidate(h, t), t, Own(h, t),
               IF Own(h, t) = 0 THEN Gone
               ELSE [h.timer[t] EXCEPT !.due_by = "none", !.run_loop = Nil])
<1> DEFINE new == [h.timer[t] EXCEPT !.due_by = "none", !.run_loop = Nil]
           k == [h EXCEPT !.timer[t].due_by = "none", !.timer[t].run_loop = Nil]
           l == h.timer[t].run_loop
           g == [k EXCEPT !.list[l][t] = 0]
<1>1. /\ h.timer[t] \in HostObjects
      /\ h.refcount[t] \in Nat
      /\ InLoop(h, t) \in {0, 1}
      /\ \A r \in Threads : h.list[r] \in Lists /\ h.list[r][t] \in Nat
      /\ l \in Threads \cup {Nil}
  BY HostObjectIs
<1>2. new \in HostObjects /\ new.run_loop = Nil
  BY <1>1 DEF HostObjects
<1>3. k = [h EXCEPT !.timer[t] = new]
  BY DEF Heaps
<1>4. /\ k \in Heaps /\ k.list = h.list /\ k.refcount = h.refcount
      /\ k.timer[t] = new
      /\ \A u \in Timers \ {t} : k.timer[u] = h.timer[u]
  BY <1>2, <1>3 DEF Heaps
<1>5. CASE l = Nil
  <2>1. invalidate(h, t) = k
    BY <1>5 DEF invalidate
  <2>2. InLoop(h, t) = 0 /\ InLoop(k, t) = 0
    BY <1>2, <1>4, <1>5 DEF InLoop
  <2>3. Own(k, t) = Own(h, t) /\ Own(h, t) = h.refcount[t]
    BY <1>1, <1>4, <2>2 DEF Own
  <2>4. h.refcount[t] = 0 => new = Gone
    BY GoneIs DEF TimerOK, Gone
  <2>5. TimerOK(k, t)
    <3> HIDE DEF new, k
    <3>1. \A r \in Threads : k.list[r][t] = 0 /\ k.timer[t].run_loop # r
      BY <1>2, <1>4, <1>5, RunLoopsAssumption DEF TimerOK
    <3>2. k.refcount[t] = 0 => k.timer[t] = Gone
      BY <1>4, <2>4
    <3>3. Own(k, t) \in Nat
      BY <2>3 DEF TimerOK
    <3>4. QED
      BY <3>1, <3>2, <3>3 DEF TimerOK
  <2>6. \A u \in Timers \ {t} : Same(h, k, u)
    BY <1>4 DEF Same
  <2>7. k.timer[t] = IF Own(h, t) = 0 THEN Gone ELSE new
    BY <1>4, <2>3, <2>4
  <2> HIDE DEF k, new
  <2>8. Moves(h, k, t, Own(h, t), IF Own(h, t) = 0 THEN Gone ELSE new)
    BY <1>4, <2>3, <2>5, <2>6, <2>7 DEF Moves
  <2>9. QED
    BY <2>1, <2>8 DEF new
<1>6. CASE l # Nil
  <2>1. /\ l \in Threads /\ h.list[l][t] = 1 /\ InLoop(h, t) = 1
        /\ \A r \in Threads \ {l} : h.list[r][t] = 0
    BY <1>1, <1>6 DEF TimerOK, InLoop
  <2>2. Own(h, t) = h.refcount[t] - 1 /\ Own(h, t) \in Nat /\ h.refcount[t] > 0
    BY <1>1, <2>1 DEF Own, TimerOK
  <2>3. /\ g \in Heaps /\ g.timer = k.timer /\ g.refcount = k.refcount
        /\ \A r \in Threads : g.list[r][t] = 0
        /\ \A r \in Threads, u \in Timers \ {t} : g.list[r][u] = h.list[r][u]
    <3> DEFINE nl == [h.list EXCEPT ![l][t] = 0]
    <3>1. h.list \in [Threads -> [Timers -> Nat]]
      BY DEF Heaps, Lists
    <3>2. /\ nl \in [Threads -> [Timers -> Nat]]
          /\ \A r \in Threads : nl[r][t] = 0
          /\ \A r \in Threads, u \in Timers \ {t} : nl[r][u] = h.list[r][u]
      BY <2>1, <3>1
    <3>3. g = [k EXCEPT !.list = nl]
      BY <1>4 DEF Heaps
    <3> HIDE DEF nl, g, k
    <3>4. QED
      BY <1>4, <3>2, <3>3 DEF Heaps, Lists
  <2>4. k.refcount[t] = h.refcount[t] /\ k.list[l][t] = 1
    BY <1>4, <2>1
  <2>5. invalidate(h, t) = IF h.refcount[t] > 1
                           THEN [g EXCEPT !.refcount[t] = g.refcount[t] - 1]
                           ELSE Deallocated(g, t)
    <3>1. invalidate(h, t) = remove_timer(k, l, t)
      BY <1>6 DEF invalidate
    <3>2. remove_timer(k, l, t) = IF k.refcount[t] > k.list[l][t]
                                  THEN [g EXCEPT !.refcount[t] = g.refcount[t] - k.list[l][t]]
                                  ELSE Deallocated(g, t)
      BY DEF remove_timer
    <3> HIDE DEF k, l, g
    <3>3. QED
      BY <2>4, <3>1, <3>2
  <2> HIDE DEF k, l, g
  <2>6. CASE h.refcount[t] > 1
    <3> DEFINE f == [g EXCEPT !.refcount[t] = g.refcount[t] - 1]
    <3>1. /\ f \in Heaps /\ f.timer = g.timer /\ f.list = g.list
          /\ f.refcount[t] = h.refcount[t] - 1
          /\ \A u \in Timers \ {t} : f.refcount[u] = h.refcount[u]
      BY <1>1, <1>4, <2>3, <2>6 DEF Heaps
    <3> HIDE DEF f, new
    <3>2. Own(f, t) = Own(h, t) /\ Own(h, t) # 0
      BY <1>1, <1>2, <1>4, <2>1, <2>2, <2>3, <2>6, <3>1 DEF Own, InLoop
    <3>3. TimerOK(f, t)
      BY <1>2, <1>4, <2>2, <2>3, <2>6, <3>1, <3>2, RunLoopsAssumption DEF TimerOK
    <3>4. \A u \in Timers \ {t} : Same(h, f, u)
      BY <1>4, <2>3, <3>1 DEF Same
    <3>5. Moves(h, f, t, Own(h, t), IF Own(h, t) = 0 THEN Gone ELSE new)
      BY <1>4, <2>3, <3>1, <3>2, <3>3, <3>4 DEF Moves
    <3>6. QED
      BY <2>5, <2>6, <3>5 DEF f, new
  <2>7. CASE ~ (h.refcount[t] > 1)
    <3> DEFINE f == [g EXCEPT !.refcount[t] = 0, !.timer[t] = Gone]
    <3>1. /\ f \in Heaps
          /\ \A u \in Timers \ {t} : Same(g, f, u)
          /\ f.timer[t] = Gone /\ f.refcount[t] = 0 /\ f.list = g.list
      <4>1. g \in Heaps /\ Gone \in HostObjects /\ 0 \in Nat
        BY <2>3, GoneIs
      <4> HIDE DEF new
      <4>2. QED
        BY <4>1 DEF Heaps, Same
    <3> HIDE DEF f
    <3>2. Own(h, t) = 0 /\ Own(f, t) = 0
      BY <1>1, <2>2, <2>7, <3>1, GoneIs DEF Own, InLoop
    <3>3. TimerOK(f, t)
      BY <2>3, <3>1, <3>2, GoneIs, RunLoopsAssumption DEF TimerOK
    <3>4. \A u \in Timers \ {t} : Same(h, f, u)
      BY <1>4, <2>3, <3>1 DEF Same
    <3>5. Moves(h, f, t, Own(h, t), IF Own(h, t) = 0 THEN Gone ELSE new)
      BY <3>1, <3>2, <3>3, <3>4 DEF Moves
    <3>6. invalidate(h, t) = f
      BY <2>5, <2>7 DEF Deallocated, f
    <3>7. QED
      BY <3>5, <3>6
  <2>8. QED
    BY <2>6, <2>7
<1>7. QED
  BY <1>5, <1>6

(* One change of a timer after the other.                                  *)
LEMMA MovesTwice ==
  ASSUME NEW h, NEW g, NEW f, NEW t \in Timers, NEW n, NEW m, NEW new, NEW newer,
         Moves(h, g, t, n, new), Moves(g, f, t, m, newer)
  PROVE  Moves(h, f, t, m, newer)
<1>1. ASSUME NEW u \in Timers \ {t}
      PROVE  Same(h, f, u)
  <2>1. Same(h, g, u) /\ Same(g, f, u)
    BY DEF Moves
  <2>2. QED
    BY <2>1 DEF Same
<1>2. QED
  BY <1>1 DEF Moves

(* The object of a timer that exists gets another value; its loop stays.   *)
LEMMA ObjectIs ==
  ASSUME NEW h \in Heaps, NEW t \in Timers, TimerOK(h, t), NEW new \in HostObjects,
         h.refcount[t] > 0, new.run_loop = h.timer[t].run_loop
  PROVE  Moves(h, [h EXCEPT !.timer[t] = new], t, Own(h, t), new)
<1> DEFINE g == [h EXCEPT !.timer[t] = new]
<1>1. /\ g \in Heaps /\ g.timer[t] = new
      /\ \A u \in Timers \ {t} : Same(h, g, u)
      /\ g.refcount[t] = h.refcount[t] /\ g.list = h.list
  BY DEF Heaps, Same
<1> HIDE DEF g
<1>2. Own(g, t) = Own(h, t)
  BY <1>1 DEF Own, InLoop
<1>3. TimerOK(g, t)
  BY <1>1, <1>2, HostObjectIs DEF TimerOK
<1>4. Moves(h, g, t, Own(h, t), new)
  BY <1>1, <1>2, <1>3 DEF Moves
<1>5. QED
  BY <1>4 DEF g

(* Another reference to a timer that exists.                               *)
LEMMA RetainIs ==
  ASSUME NEW h \in Heaps, NEW t \in Timers, TimerOK(h, t), h.refcount[t] > 0
  PROVE  Moves(h, retain(h, t), t, Own(h, t) + 1, h.timer[t])
<1> DEFINE g == retain(h, t)
<1>1. g = [h EXCEPT !.refcount[t] = h.refcount[t] + 1]
  BY DEF retain
<1>2. /\ h.refcount[t] \in Nat
      /\ InLoop(h, t) \in {0, 1}
  BY HostObjectIs
<1>3. /\ g \in Heaps /\ g.timer = h.timer /\ g.list = h.list
      /\ \A u \in Timers \ {t} : Same(h, g, u)
      /\ g.refcount[t] = h.refcount[t] + 1
  BY <1>1 DEF Heaps, Same
<1> HIDE DEF g
<1>4. InLoop(g, t) = InLoop(h, t)
  BY <1>3 DEF InLoop
<1>5. Own(g, t) = Own(h, t) + 1
  BY <1>2, <1>3, <1>4 DEF Own
<1>6. TimerOK(g, t)
  BY <1>2, <1>3, <1>5 DEF TimerOK
<1>7. Moves(h, g, t, Own(h, t) + 1, h.timer[t])
  BY <1>3, <1>5, <1>6 DEF Moves
<1>8. QED
  BY <1>7 DEF g

(* A reference that is not the loop's goes; the last one frees the timer.  *)
LEMMA ReleaseIs ==
  ASSUME NEW h \in Heaps, NEW t \in Timers, TimerOK(h, t), Own(h, t) > 0
  PROVE  Moves(h, release(h, t), t, Own(h, t) - 1,
               IF h.refcount[t] > 1 THEN h.timer[t] ELSE Gone)
<1>1. /\ h.refcount[t] \in Nat
      /\ InLoop(h, t) \in {0, 1}
      /\ Own(h, t) \in Nat
      /\ h.refcount[t] = Own(h, t) + InLoop(h, t)
  BY HostObjectIs DEF Own, TimerOK
<1>2. CASE h.refcount[t] > 1
  <2> DEFINE g == [h EXCEPT !.refcount[t] = h.refcount[t] - 1]
  <2>1. /\ g \in Heaps /\ g.timer = h.timer /\ g.list = h.list
        /\ \A u \in Timers \ {t} : Same(h, g, u)
        /\ g.refcount[t] = h.refcount[t] - 1
    BY <1>1, <1>2 DEF Heaps, Same
  <2> HIDE DEF g
  <2>2. InLoop(g, t) = InLoop(h, t)
    BY <2>1 DEF InLoop
  <2>3. Own(g, t) = Own(h, t) - 1
    BY <1>1, <2>1, <2>2 DEF Own
  <2>4. TimerOK(g, t)
    BY <1>1, <1>2, <2>1, <2>3 DEF TimerOK
  <2>5. Moves(h, g, t, Own(h, t) - 1, h.timer[t])
    BY <2>1, <2>3, <2>4 DEF Moves
  <2>6. release(h, t) = g
    BY <1>2 DEF release, g
  <2>7. QED
    BY <1>2, <2>5, <2>6
<1>3. CASE ~ (h.refcount[t] > 1)
  <2> DEFINE k == invalidate(h, t)
             f == [k EXCEPT !.refcount[t] = 0, !.timer[t] = Gone]
  <2>1. Own(h, t) = 1 /\ InLoop(h, t) = 0
    BY <1>1, <1>3
  <2>2. PICK n, new : Moves(h, k, t, n, new) /\ n = 1 /\ new.run_loop = Nil
    <3> DEFINE new == [h.timer[t] EXCEPT !.due_by = "none", !.run_loop = Nil]
    <3>1. new.run_loop = Nil
      BY HostObjectIs DEF HostObjects
    <3>2. Moves(h, k, t, Own(h, t), IF Own(h, t) = 0 THEN Gone ELSE new)
      BY InvalidateIs
    <3> HIDE DEF new, k
    <3>3. QED
      BY <2>1, <3>1, <3>2
  <2> HIDE DEF k
  <2>3. /\ k \in Heaps
        /\ \A u \in Timers \ {t} : Same(h, k, u)
        /\ k.timer[t].run_loop = Nil
        /\ \A l \in Threads : k.list[l][t] = 0
    BY <2>2, RunLoopsAssumption DEF Moves, TimerOK
  <2>4. /\ f \in Heaps
        /\ \A u \in Timers \ {t} : Same(k, f, u)
        /\ f.timer[t] = Gone /\ f.refcount[t] = 0 /\ f.list = k.list
    BY <2>3, GoneIs DEF Heaps, Same
  <2> HIDE DEF f
  <2>5. Own(f, t) = 0
    BY <2>4, GoneIs DEF Own, InLoop
  <2>6. TimerOK(f, t)
    BY <2>3, <2>4, <2>5, GoneIs, RunLoopsAssumption DEF TimerOK
  <2>7. \A u \in Timers \ {t} : Same(h, f, u)
    BY <2>3, <2>4 DEF Same
  <2>8. Moves(h, f, t, Own(h, t) - 1, Gone)
    BY <2>1, <2>4, <2>5, <2>6, <2>7 DEF Moves
  <2>9. release(h, t) = f
    BY <1>3 DEF release, Deallocated, f, k
  <2>10. QED
    BY <1>3, <2>8, <2>9
<1>4. QED
  BY <1>2, <1>3

(* A timer that is in no other loop is put into one.                       *)
LEMMA AddTimerIs ==
  ASSUME NEW h \in Heaps, NEW t \in Timers, NEW l \in Threads, TimerOK(h, t),
         h.refcount[t] > 0, h.timer[t].run_loop \in {Nil, l}
  PROVE  Moves(h, addTimer(h, l, t), t, Own(h, t), [h.timer[t] EXCEPT !.run_loop = l])
<1> DEFINE new == [h.timer[t] EXCEPT !.run_loop = l]
<1>1. /\ h.timer[t] \in HostObjects
      /\ h.refcount[t] \in Nat
      /\ Own(h, t) \in Nat
      /\ \A r \in Threads : h.list[r] \in Lists /\ h.list[r][t] \in Nat
  BY HostObjectIs DEF TimerOK
<1>2. CASE h.list[l][t] > 0
  <2>1. h.timer[t].run_loop = l
    BY <1>2 DEF TimerOK
  <2>2. new = h.timer[t]
    BY <1>1, <2>1 DEF HostObjects
  <2>3. Moves(h, h, t, Own(h, t), h.timer[t])
    BY DEF Moves, Same
  <2>4. addTimer(h, l, t) = h
    BY <1>2 DEF addTimer
  <2>5. QED
    BY <2>2, <2>3, <2>4
<1>3. CASE ~ (h.list[l][t] > 0)
  <2>1. h.timer[t].run_loop = Nil
    BY <1>3, RunLoopsAssumption DEF TimerOK
  <2>2. new \in HostObjects /\ new.run_loop = l
    BY <1>1 DEF HostObjects
  <2> DEFINE k == [h EXCEPT !.refcount[t] = h.refcount[t] + 1]
             nl == [h.list EXCEPT ![l][t] = 1]
             nt == [h.timer EXCEPT ![t] = new]
             g == [k EXCEPT !.list = nl, !.timer = nt]
  <2>3. addTimer(h, l, t) = g
    <3>1. addTimer(h, l, t) = [k EXCEPT !.list[l][t] = k.list[l][t] + 1, !.timer[t].run_loop = l]
      BY <1>3 DEF addTimer, retain
    <3>2. k.timer = h.timer /\ k.list = h.list
      BY DEF Heaps
    <3>3. h.list[l][t] + 1 = 1
      BY <1>1, <1>3
    <3> HIDE DEF k
    <3>4. QED
      BY <3>1, <3>2, <3>3
  <2>4. /\ k \in Heaps /\ k.timer = h.timer /\ k.list = h.list
        /\ k.refcount[t] = h.refcount[t] + 1
        /\ \A u \in Timers \ {t} : k.refcount[u] = h.refcount[u]
    BY <1>1 DEF Heaps
  <2>5. /\ nl \in [Threads -> Lists]
        /\ nl[l][t] = 1
        /\ \A r \in Threads \ {l} : nl[r] = h.list[r]
        /\ \A u \in Timers \ {t} : nl[l][u] = h.list[l][u]
    BY DEF Heaps, Lists
  <2>6. /\ nt \in [Timers -> HostObjects]
        /\ nt[t] = new
        /\ \A u \in Timers \ {t} : nt[u] = h.timer[u]
    BY <2>2 DEF Heaps
  <2> HIDE DEF k, nl, nt, new
  <2>7. g \in Heaps /\ g.list = nl /\ g.timer = nt /\ g.refcount = k.refcount
    BY <2>4, <2>5, <2>6 DEF Heaps
  <2> HIDE DEF g
  <2>8. \A u \in Timers \ {t} : Same(h, g, u)
    BY <2>4, <2>5, <2>6, <2>7 DEF Same
  <2>9. Own(g, t) = Own(h, t)
    BY <1>1, <2>1, <2>2, <2>4, <2>6, <2>7, RunLoopsAssumption DEF Own, InLoop
  <2>10. TimerOK(g, t)
    <3>1. \A r \in Threads : g.list[r][t] = IF g.timer[t].run_loop = r THEN 1 ELSE 0
      BY <2>1, <2>2, <2>5, <2>6, <2>7, RunLoopsAssumption DEF TimerOK
    <3>2. g.refcount[t] # 0
      BY <1>1, <2>4, <2>7
    <3>3. QED
      BY <1>1, <2>9, <3>1, <3>2 DEF TimerOK
  <2>11. Moves(h, g, t, Own(h, t), new)
    BY <2>6, <2>7, <2>8, <2>9, <2>10 DEF Moves
  <2>12. QED
    BY <2>3, <2>11 DEF new
<1>4. QED
  BY <1>2, <1>3

(* A new timer, at an address without one.                                 *)
LEMMA InitializedIs ==
  ASSUME NEW h \in Heaps, NEW t \in Timers, TimerOK(h, t), h.refcount[t] = 0,
         NEW new \in HostObjects, new.run_loop = Nil
  PROVE  Moves(h, Initialized(h, t, new), t, 1, new)
<1> DEFINE g == Initialized(h, t, new)
<1>1. /\ g \in Heaps /\ g.timer[t] = new /\ g.refcount[t] = 1 /\ g.list = h.list
      /\ \A u \in Timers \ {t} : Same(h, g, u)
  BY DEF Heaps, Same, Initialized
<1> HIDE DEF g
<1>2. \A l \in Threads : h.list[l][t] = 0
  BY GoneIs, RunLoopsAssumption DEF TimerOK
<1>3. Own(g, t) = 1
  BY <1>1 DEF Own, InLoop
<1>4. TimerOK(g, t)
  BY <1>1, <1>2, <1>3, RunLoopsAssumption DEF TimerOK
<1>5. Moves(h, g, t, 1, new)
  BY <1>1, <1>3, <1>4 DEF Moves
<1>6. QED
  BY <1>5 DEF g

(* The copy of a list has a reference to each of its timers.               *)
LEMMA RetainAllIs ==
  ASSUME NEW h \in Heaps, \A t \in Timers : TimerOK(h, t), NEW l \in Threads
  PROVE  /\ RetainAll(h, h.list[l]) \in Heaps
         /\ RetainAll(h, h.list[l]).timer = h.timer
         /\ \A t \in Timers : /\ TimerOK(RetainAll(h, h.list[l]), t)
                              /\ Own(RetainAll(h, h.list[l]), t) = Own(h, t) + h.list[l][t]
                              /\ h.refcount[t] = 0 => h.list[l][t] = 0
<1> DEFINE g == RetainAll(h, h.list[l])
<1>1. /\ g \in Heaps /\ g.timer = h.timer /\ g.list = h.list
      /\ \A t \in Timers : g.refcount[t] = h.refcount[t] + h.list[l][t]
  BY DEF Heaps, Lists, RetainAll
<1> HIDE DEF g
<1>2. ASSUME NEW t \in Timers
      PROVE  /\ TimerOK(g, t)
             /\ Own(g, t) = Own(h, t) + h.list[l][t]
             /\ h.refcount[t] = 0 => h.list[l][t] = 0
  <2>1. TimerOK(h, t) /\ h.refcount[t] \in Nat /\ h.list[l][t] \in Nat /\ InLoop(h, t) \in {0, 1}
    BY HostObjectIs
  <2>2. h.refcount[t] = 0 => h.list[l][t] = 0
    BY <2>1, GoneIs, RunLoopsAssumption DEF TimerOK
  <2>3. Own(g, t) = Own(h, t) + h.list[l][t]
    BY <1>1, <2>1 DEF Own, InLoop
  <2>4. TimerOK(g, t)
    BY <1>1, <2>1, <2>3 DEF TimerOK
  <2>5. QED
    BY <2>2, <2>3, <2>4
<1>3. QED
  BY <1>1, <1>2 DEF g

(* Each of several timers is invalidated.                                  *)
LEMMA AllInvalidatedIs ==
  ASSUME NEW h \in Heaps, \A t \in Timers : TimerOK(h, t), NEW ts \in SUBSET Timers
  PROVE  /\ AllInvalidated(h, ts) \in Heaps
         /\ \A t \in Timers :
              /\ TimerOK(AllInvalidated(h, ts), t)
              /\ Own(AllInvalidated(h, ts), t) = Own(h, t)
              /\ t \in ts => AllInvalidated(h, ts).timer[t] =
                               IF Own(h, t) = 0 THEN Gone
                               ELSE [h.timer[t] EXCEPT !.due_by = "none", !.run_loop = Nil]
              /\ t \notin ts => AllInvalidated(h, ts).timer[t] = h.timer[t]
<1> DEFINE k(t) == IF t \in ts THEN invalidate(h, t) ELSE h
           g == AllInvalidated(h, ts)
<1>1. ASSUME NEW t \in Timers
      PROVE  Moves(h, k(t), t, Own(h, t),
                   IF t \in ts
                   THEN IF Own(h, t) = 0 THEN Gone
                        ELSE [h.timer[t] EXCEPT !.due_by = "none", !.run_loop = Nil]
                   ELSE h.timer[t])
  <2>1. TimerOK(h, t)
    OBVIOUS
  <2>2. CASE t \in ts
    BY <2>1, <2>2, InvalidateIs
  <2>3. CASE t \notin ts
    <3>1. Moves(h, h, t, Own(h, t), h.timer[t])
      BY <2>1 DEF Moves, Same
    <3>2. QED
      BY <2>3, <3>1
  <2>4. QED
    BY <2>2, <2>3
<1>2. /\ g.timer = [t \in Timers |-> k(t).timer[t]]
      /\ g.refcount = [t \in Timers |-> k(t).refcount[t]]
      /\ g.list = [l \in Threads |-> [t \in Timers |-> k(t).list[l][t]]]
      /\ g = [timer |-> g.timer, refcount |-> g.refcount, list |-> g.list]
  BY DEF AllInvalidated
<1> HIDE DEF k, g
<1>3. ASSUME NEW t \in Timers
      PROVE  Same(k(t), g, t) /\ k(t) \in Heaps
  <2>1. k(t) \in Heaps
    BY <1>1 DEF Moves
  <2>2. /\ g.timer[t] = k(t).timer[t]
        /\ g.refcount[t] = k(t).refcount[t]
        /\ \A l \in Threads : g.list[l][t] = k(t).list[l][t]
    BY <1>2
  <2>3. QED
    BY <2>1, <2>2 DEF Same
<1>4. g \in Heaps
  <2>1. ASSUME NEW t \in Timers
        PROVE  /\ k(t).timer[t] \in HostObjects
               /\ k(t).refcount[t] \in Nat
               /\ \A l \in Threads : k(t).list[l][t] \in Nat
    BY <1>3, HostObjectIs
  <2>2. /\ g.timer \in [Timers -> HostObjects]
        /\ g.refcount \in [Timers -> Nat]
        /\ g.list \in [Threads -> Lists]
    BY <1>2, <2>1 DEF Lists
  <2>3. QED
    BY <1>2, <2>2 DEF Heaps
<1>5. ASSUME NEW t \in Timers
      PROVE  /\ TimerOK(g, t)
             /\ Own(g, t) = Own(h, t)
             /\ g.timer[t] = IF t \in ts
                             THEN IF Own(h, t) = 0 THEN Gone
                                  ELSE [h.timer[t] EXCEPT !.due_by = "none", !.run_loop = Nil]
                             ELSE h.timer[t]
  <2>1. Same(k(t), g, t)
    BY <1>3
  <2>2. /\ TimerOK(k(t), t) <=> TimerOK(g, t)
        /\ Own(g, t) = Own(k(t), t)
        /\ g.timer[t] = k(t).timer[t]
    BY <2>1, SameOK
  <2>3. QED
    BY <1>1, <2>2 DEF Moves
<1>6. QED
  BY <1>4, <1>5 DEF g

-----------------------------------------------------------------------------
(* Frames: the loops that have yet to handle a timer and the callbacks of  *)
(* one, counted.                                                           *)

Stacks == [Threads -> Seq(Frames)]

Refers(f, t) == IF f.kind = "loop" THEN f.rest[t] = 1 ELSE f.timer = t

Counts(f, kind, t) == f.kind = kind /\ Refers(f, t)

Sites(fs, kind, t) ==
  {c \in Threads \X Nat : c[2] \in DOMAIN fs[c[1]] /\ Counts(fs[c[1]][c[2]], kind, t)}

Tally(fs, kind, t) == Cardinality(Sites(fs, kind, t))

Finite(fs) == \A kind \in {"loop", "callback"}, t \in Timers : IsFiniteSet(Sites(fs, kind, t))

In(f, kind, t) == IF Counts(f, kind, t) THEN 1 ELSE 0

Flag(o) == IF o.running THEN 1 ELSE 0

(* fs with another frame on a thread's stack, without its last frame, and  *)
(* with another frame in the place of the one at i.                        *)
Pushed(fs, gs, th, f) ==
  /\ gs \in Stacks
  /\ Len(gs[th]) = Len(fs[th]) + 1
  /\ gs[th][Len(fs[th]) + 1] = f
  /\ \A i \in 1 .. Len(fs[th]) : gs[th][i] = fs[th][i]
  /\ \A o \in Threads \ {th} : gs[o] = fs[o]

Popped(fs, gs, th) ==
  /\ gs \in Stacks
  /\ Len(fs[th]) > 0
  /\ Len(gs[th]) = Len(fs[th]) - 1
  /\ \A i \in 1 .. Len(gs[th]) : gs[th][i] = fs[th][i]
  /\ \A o \in Threads \ {th} : gs[o] = fs[o]

Replaced(fs, gs, th, n, f) ==
  /\ gs \in Stacks
  /\ n \in 1 .. Len(fs[th])
  /\ Len(gs[th]) = Len(fs[th])
  /\ gs[th][n] = f
  /\ \A i \in 1 .. Len(fs[th]) : i # n => gs[th][i] = fs[th][i]
  /\ \A o \in Threads \ {th} : gs[o] = fs[o]

(* The three kinds of frames are told apart by their kind.                 *)
LEMMA FrameIs ==
  ASSUME NEW f \in Frames
  PROVE  /\ f.kind \in {"loop", "callback", "fire"}
         /\ f.kind = "loop" <=> f \in LoopFrames
         /\ f.kind = "callback" <=> f \in CallbackFrames
         /\ f.kind = "fire" <=> f \in FireFrames
BY DEF Frames, LoopFrames, CallbackFrames, FireFrames

(* A frame of a stack.                                                     *)
LEMMA StackIs ==
  ASSUME NEW fs \in Stacks, NEW th \in Threads
  PROVE  /\ fs[th] \in Seq(Frames) /\ Len(fs[th]) \in Nat
         /\ DOMAIN fs[th] = 1 .. Len(fs[th])
         /\ \A i \in 1 .. Len(fs[th]) : fs[th][i] \in Frames
BY DEF Stacks

(* Append, Front and EXCEPT do what their names say.                       *)
LEMMA AppendPushes ==
  ASSUME NEW fs \in Stacks, NEW th \in Threads, NEW f \in Frames
  PROVE  Pushed(fs, [fs EXCEPT ![th] = Append(@, f)], th, f)
<1> DEFINE s == Append(fs[th], f)
           gs == [fs EXCEPT ![th] = s]
<1>1. /\ fs[th] \in Seq(Frames) /\ Len(fs[th]) \in Nat
  BY StackIs
<1>2. /\ s \in Seq(Frames) /\ Len(s) = Len(fs[th]) + 1
      /\ s[Len(fs[th]) + 1] = f
      /\ \A i \in 1 .. Len(fs[th]) : s[i] = fs[th][i]
  BY <1>1
<1> HIDE DEF s
<1>3. gs \in Stacks /\ gs[th] = s /\ \A o \in Threads \ {th} : gs[o] = fs[o]
  BY <1>2 DEF Stacks
<1> HIDE DEF gs
<1>4. Pushed(fs, gs, th, f)
  BY <1>2, <1>3 DEF Pushed
<1>5. QED
  BY <1>4 DEF gs, s

(* Taking off the last frame.                                              *)
LEMMA FrontPops ==
  ASSUME NEW fs \in Stacks, NEW th \in Threads, fs[th] # << >>
  PROVE  /\ Popped(fs, [fs EXCEPT ![th] = SX!Front(@)], th)
         /\ SX!Front(fs[th]) = [fs EXCEPT ![th] = SX!Front(@)][th]
         /\ SX!Last(fs[th]) = fs[th][Len(fs[th])]
<1> DEFINE s == SX!Front(fs[th])
           n == Len(fs[th])
           gs == [fs EXCEPT ![th] = s]
<1>1. fs[th] \in Seq(Frames) /\ n \in Nat /\ n > 0
  BY StackIs
<1>2. /\ s \in Seq(Frames) /\ Len(s) = n - 1
      /\ \A i \in 1 .. n - 1 : s[i] = fs[th][i]
  <2>1. s = SubSeq(fs[th], 1, n - 1)
    BY DEF SX!Front
  <2>2. QED
    BY <1>1, <2>1
<1> HIDE DEF s
<1>3. gs \in Stacks /\ gs[th] = s /\ \A o \in Threads \ {th} : gs[o] = fs[o]
  BY <1>2 DEF Stacks
<1> HIDE DEF gs
<1>4. Popped(fs, gs, th)
  BY <1>1, <1>2, <1>3 DEF Popped
<1>5. QED
  BY <1>3, <1>4 DEF gs, s, SX!Last

(* Changing one frame.                                                     *)
LEMMA ExceptReplaces ==
  ASSUME NEW fs \in Stacks, NEW th \in Threads, NEW n \in 1 .. Len(fs[th]), NEW f \in Frames,
         NEW gs, gs = [fs EXCEPT ![th] = [fs[th] EXCEPT ![n] = f]]
  PROVE  Replaced(fs, gs, th, n, f)
<1> DEFINE s == [fs[th] EXCEPT ![n] = f]
<1>1. /\ fs[th] \in Seq(Frames) /\ Len(fs[th]) \in Nat
  BY StackIs
<1>2. /\ s \in Seq(Frames) /\ Len(s) = Len(fs[th]) /\ s[n] = f
      /\ \A i \in 1 .. Len(fs[th]) : i # n => s[i] = fs[th][i]
  BY <1>1
<1> HIDE DEF s
<1>3. gs \in Stacks /\ gs[th] = s /\ \A o \in Threads \ {th} : gs[o] = fs[o]
  BY <1>2 DEF Stacks, s
<1>4. QED
  BY <1>2, <1>3 DEF Replaced

(* A set with one more item, and with one less.                            *)
LEMMA OneMore ==
  ASSUME NEW S, IsFiniteSet(S), NEW c, c \notin S
  PROVE  IsFiniteSet(S \cup {c}) /\ Cardinality(S \cup {c}) = Cardinality(S) + 1
BY FS_AddElement

(* The converse.                                                           *)
LEMMA OneLess ==
  ASSUME NEW S, IsFiniteSet(S), NEW c \in S
  PROVE  IsFiniteSet(S \ {c}) /\ Cardinality(S \ {c}) = Cardinality(S) - 1
BY FS_RemoveElement

(* What is at a place of a stack.                                          *)
LEMMA SiteIs ==
  ASSUME NEW fs \in Stacks, NEW kind, NEW t, NEW th \in Threads, NEW i \in Nat
  PROVE  <<th, i>> \in Sites(fs, kind, t) <=>
           i \in 1 .. Len(fs[th]) /\ Counts(fs[th][i], kind, t)
<1>1. DOMAIN fs[th] = 1 .. Len(fs[th])
  BY StackIs
<1>2. QED
  BY <1>1 DEF Sites

(* Two sets of places are the same if they have the same pairs.            *)
LEMMA PlacesEqual ==
  ASSUME NEW S \in SUBSET (Threads \X Nat), NEW T \in SUBSET (Threads \X Nat),
         \A th \in Threads, i \in Nat : <<th, i>> \in S <=> <<th, i>> \in T
  PROVE  S = T
OBVIOUS

(* How a count changes when a frame is put on a stack.                     *)
LEMMA PushTally ==
  ASSUME NEW fs \in Stacks, NEW gs, NEW th \in Threads, NEW f \in Frames,
         Pushed(fs, gs, th, f), NEW kind, NEW t, IsFiniteSet(Sites(fs, kind, t))
  PROVE  /\ IsFiniteSet(Sites(gs, kind, t))
         /\ Tally(gs, kind, t) = Tally(fs, kind, t) + In(f, kind, t)
<1> DEFINE S == Sites(fs, kind, t)
           n == Len(fs[th]) + 1
           c == <<th, n>>
<1>1. n \in Nat /\ c \in Threads \X Nat /\ gs \in Stacks
  BY StackIs DEF Pushed
<1>2. c \notin S
  BY <1>1, SiteIs, StackIs
<1>3. ASSUME NEW o \in Threads, NEW i \in Nat
      PROVE  <<o, i>> \in Sites(gs, kind, t) <=>
               \/ <<o, i>> \in S
               \/ <<o, i>> = c /\ Counts(f, kind, t)
  <2>1. /\ <<o, i>> \in S <=> i \in 1 .. Len(fs[o]) /\ Counts(fs[o][i], kind, t)
        /\ <<o, i>> \in Sites(gs, kind, t) <=> i \in 1 .. Len(gs[o]) /\ Counts(gs[o][i], kind, t)
    BY <1>1, SiteIs
  <2>2. <<o, i>> = c <=> o = th /\ i = n
    OBVIOUS
  <2>3. CASE o # th
    BY <2>1, <2>2, <2>3 DEF Pushed
  <2>4. CASE o = th
    <3>1. Len(fs[th]) \in Nat
      BY StackIs
    <3>2. QED
      BY <2>1, <2>2, <2>4, <3>1 DEF Pushed
  <2>5. QED
    BY <2>3, <2>4
<1>4. S \in SUBSET (Threads \X Nat) /\ Sites(gs, kind, t) \in SUBSET (Threads \X Nat)
  BY DEF Sites
<1> HIDE DEF S, c
<1>5. Sites(gs, kind, t) = IF Counts(f, kind, t) THEN S \cup {c} ELSE S
  <2>1. CASE Counts(f, kind, t)
    <3>1. S \cup {c} \in SUBSET (Threads \X Nat)
      BY <1>1, <1>4 DEF c
    <3>2. \A o \in Threads, i \in Nat :
            <<o, i>> \in Sites(gs, kind, t) <=> <<o, i>> \in S \cup {c}
      BY <1>3, <2>1
    <3>3. Sites(gs, kind, t) = S \cup {c}
      BY <1>4, <3>1, <3>2, PlacesEqual
    <3>4. QED
      BY <2>1, <3>3
  <2>2. CASE ~ Counts(f, kind, t)
    <3>1. \A o \in Threads, i \in Nat : <<o, i>> \in Sites(gs, kind, t) <=> <<o, i>> \in S
      BY <1>3, <2>2
    <3>2. Sites(gs, kind, t) = S
      BY <1>4, <3>1, PlacesEqual
    <3>3. QED
      BY <2>2, <3>2
  <2>3. QED
    BY <2>1, <2>2
<1>6. IsFiniteSet(S) /\ Cardinality(S) \in Nat /\ Tally(fs, kind, t) = Cardinality(S)
  BY FS_CardinalityType DEF S, Tally
<1>7. IsFiniteSet(S \cup {c}) /\ Cardinality(S \cup {c}) = Cardinality(S) + 1
  BY <1>2, <1>6, OneMore DEF S
<1>8. QED
  BY <1>5, <1>6, <1>7 DEF Tally, In

(* How a count changes when a frame is replaced.                           *)
LEMMA ReplaceTally ==
  ASSUME NEW fs \in Stacks, NEW gs, NEW th \in Threads, NEW n \in Nat, NEW f \in Frames,
         Replaced(fs, gs, th, n, f), NEW kind, NEW t, IsFiniteSet(Sites(fs, kind, t))
  PROVE  /\ IsFiniteSet(Sites(gs, kind, t))
         /\ Tally(gs, kind, t) = (Tally(fs, kind, t) - In(fs[th][n], kind, t))
                                   + In(f, kind, t)
<1> DEFINE S == Sites(fs, kind, t)
           c == <<th, n>>
           R == S \ {c}
<1>1. n \in 1 .. Len(fs[th]) /\ n \in Nat /\ c \in Threads \X Nat /\ gs \in Stacks
  BY StackIs DEF Replaced
<1>2. c \in S <=> Counts(fs[th][n], kind, t)
  BY <1>1, SiteIs
<1>3. ASSUME NEW o \in Threads, NEW i \in Nat
      PROVE  <<o, i>> \in Sites(gs, kind, t) <=>
               \/ <<o, i>> \in R
               \/ <<o, i>> = c /\ Counts(f, kind, t)
  <2>1. /\ <<o, i>> \in S <=> i \in 1 .. Len(fs[o]) /\ Counts(fs[o][i], kind, t)
        /\ <<o, i>> \in Sites(gs, kind, t) <=> i \in 1 .. Len(gs[o]) /\ Counts(gs[o][i], kind, t)
    BY <1>1, SiteIs
  <2>2. <<o, i>> = c <=> o = th /\ i = n
    OBVIOUS
  <2>3. CASE o # th
    BY <2>1, <2>2, <2>3 DEF Replaced
  <2>4. CASE o = th
    <3>1. Len(fs[th]) \in Nat
      BY StackIs
    <3>2. QED
      BY <1>1, <2>1, <2>2, <2>4, <3>1 DEF Replaced
  <2>5. QED
    BY <2>3, <2>4
<1>4. S \in SUBSET (Threads \X Nat) /\ Sites(gs, kind, t) \in SUBSET (Threads \X Nat)
  BY DEF Sites
<1>5. IsFiniteSet(S) /\ Cardinality(S) \in Nat /\ Tally(fs, kind, t) = Cardinality(S)
  BY FS_CardinalityType DEF Tally
<1> HIDE DEF S
<1>6. /\ IsFiniteSet(R) /\ Cardinality(R) \in Nat
      /\ Cardinality(R) = Cardinality(S) - In(fs[th][n], kind, t)
      /\ R \in SUBSET (Threads \X Nat) /\ c \notin R
  <2>1. CASE c \in S
    <3>1. IsFiniteSet(R) /\ Cardinality(R) = Cardinality(S) - 1
      BY <1>5, <2>1, OneLess
    <3>2. Cardinality(R) \in Nat
      BY <3>1, FS_CardinalityType
    <3> HIDE DEF c
    <3>3. QED
      BY <1>2, <1>4, <2>1, <3>1, <3>2 DEF In
  <2>2. CASE c \notin S
    <3> HIDE DEF c
    <3>1. R = S
      BY <2>2
    <3> HIDE DEF R
    <3>2. In(fs[th][n], kind, t) = 0
      BY <1>2, <2>2 DEF In
    <3>3. QED
      BY <1>4, <1>5, <2>2, <3>1, <3>2
  <2>3. QED
    BY <2>1, <2>2
<1> HIDE DEF c, R
<1>7. Sites(gs, kind, t) = IF Counts(f, kind, t) THEN R \cup {c} ELSE R
  <2>1. CASE Counts(f, kind, t)
    <3>1. R \cup {c} \in SUBSET (Threads \X Nat)
      BY <1>1, <1>6 DEF c
    <3>2. \A o \in Threads, i \in Nat :
            <<o, i>> \in Sites(gs, kind, t) <=> <<o, i>> \in R \cup {c}
      BY <1>3, <2>1
    <3>3. Sites(gs, kind, t) = R \cup {c}
      BY <1>4, <3>1, <3>2, PlacesEqual
    <3>4. QED
      BY <2>1, <3>3
  <2>2. CASE ~ Counts(f, kind, t)
    <3>1. \A o \in Threads, i \in Nat : <<o, i>> \in Sites(gs, kind, t) <=> <<o, i>> \in R
      BY <1>3, <2>2
    <3>2. Sites(gs, kind, t) = R
      BY <1>4, <1>6, <3>1, PlacesEqual
    <3>3. QED
      BY <2>2, <3>2
  <2>3. QED
    BY <2>1, <2>2
<1>8. IsFiniteSet(R \cup {c}) /\ Cardinality(R \cup {c}) = Cardinality(R) + 1
  BY <1>6, OneMore
<1>9. QED
  BY <1>5, <1>6, <1>7, <1>8 DEF Tally, In

(* How a count changes when a frame is taken off: the stack it leaves is   *)
(* one on which it is put.                                                 *)
LEMMA PopTally ==
  ASSUME NEW fs \in Stacks, NEW gs, NEW th \in Threads,
         Popped(fs, gs, th), NEW kind, NEW t, IsFiniteSet(Sites(fs, kind, t))
  PROVE  /\ IsFiniteSet(Sites(gs, kind, t))
         /\ Tally(gs, kind, t) =
              Tally(fs, kind, t) - In(fs[th][Len(fs[th])], kind, t)
<1> DEFINE f == fs[th][Len(fs[th])]
<1>1. gs \in Stacks /\ Len(fs[th]) \in Nat /\ Len(fs[th]) > 0
      /\ Len(gs[th]) = Len(fs[th]) - 1
  BY StackIs DEF Popped
<1>2. f \in Frames
  BY <1>1, StackIs
<1>3. Pushed(gs, fs, th, f)
  BY <1>1 DEF Popped, Pushed
<1>4. Sites(gs, kind, t) \subseteq Sites(fs, kind, t)
  <2>1. ASSUME NEW o \in Threads, NEW i \in Nat, <<o, i>> \in Sites(gs, kind, t)
        PROVE  <<o, i>> \in Sites(fs, kind, t)
    <3>1. i \in 1 .. Len(gs[o]) /\ Counts(gs[o][i], kind, t)
      BY <1>1, <2>1, SiteIs
    <3>2. i \in 1 .. Len(fs[o]) /\ fs[o][i] = gs[o][i]
      <4>1. CASE o = th
        BY <1>1, <3>1, <4>1 DEF Popped
      <4>2. CASE o # th
        BY <3>1, <4>2 DEF Popped
      <4>3. QED
        BY <4>1, <4>2
    <3>3. QED
      BY <3>1, <3>2, SiteIs
  <2>2. ASSUME NEW c \in Sites(gs, kind, t)
        PROVE  c \in Sites(fs, kind, t)
    <3>1. c \in Threads \X Nat
      BY DEF Sites
    <3>2. PICK o \in Threads, i \in Nat : c = <<o, i>>
      BY <3>1
    <3>3. QED
      BY <2>1, <3>2
  <2>3. QED
    BY <2>2
<1>5. IsFiniteSet(Sites(gs, kind, t))
  BY <1>4, FS_Subset
<1> HIDE DEF f
<1>6. Tally(fs, kind, t) = Tally(gs, kind, t) + In(f, kind, t)
  BY <1>1, <1>2, <1>3, <1>5, PushTally
<1>7. Tally(gs, kind, t) \in Nat
  BY <1>5, FS_CardinalityType DEF Tally
<1>8. In(f, kind, t) \in {0, 1}
  BY DEF In
<1>9. QED
  BY <1>5, <1>6, <1>7, <1>8 DEF f

-----------------------------------------------------------------------------
(* The inductive invariant.                                                *)

(* An iteration has a timer once, and what is below a callback is the loop *)
(* that has still to drop its reference to the timer.                      *)
FrameOK(fs, th, i) ==
  /\ fs[th][i].kind = "loop" => \A t \in Timers : fs[th][i].rest[t] \in {0, 1}
  /\ fs[th][i].kind = "callback" =>
       /\ i > 1
       /\ fs[th][i - 1].kind = "loop"
       /\ fs[th][i - 1].rest[fs[th][i].timer] = 1

StacksOK(fs) == fs \in Stacks /\ \A th \in Threads : \A i \in 1 .. Len(fs[th]) : FrameOK(fs, th, i)

(* The references that are not the loop's are the guest's, those of the    *)
(* iterations and those of the callbacks, of which a timer has at most one.*)
CountsOK(h, fs, ow) ==
  /\ Finite(fs)
  /\ ow \in [Timers -> Nat]
  /\ \A t \in Timers :
       /\ Own(h, t) = ow[t] + Tally(fs, "loop", t) + Tally(fs, "callback", t)
       /\ Tally(fs, "callback", t) = Flag(h.timer[t])

(* Who has called -fire has a reference to a timer of the guest.           *)
FiresOwned(h, fs, ow) ==
  \A th \in Threads : \A i \in 1 .. Len(fs[th]) :
    fs[th][i].kind = "fire" =>
      h.timer[fs[th][i].timer].target = Nil /\ ow[fs[th][i].timer] > 0

(* A one-shot timer that has been fired does not become due again.         *)
Settled(o) == o.running \/ o.due_by = "none"

FiredOK(h, fi) ==
  /\ fi \subseteq Timers
  /\ \A t \in fi : h.refcount[t] > 0 /\ ~ h.timer[t].repeats /\ Settled(h.timer[t])

HeapOK(h) ==
  /\ h \in Heaps
  /\ \A t \in Timers : TimerOK(h, t)
  /\ \A t \in Timers : h.timer[t].target # Nil => ~ h.timer[t].repeats

OtherTypes ==
  /\ stopped \in [Threads -> BOOLEAN]
  /\ sync \in Seq([timer : Timers, waiter : Threads])
  /\ waiting \subseteq Threads
  /\ cancelled \in [Targets -> {"no", "once", "always"}]
  /\ revoked \subseteq Timers
  /\ asker \in [Timers -> Threads \cup {Nil}]

LoopInv ==
  /\ OtherTypes
  /\ HeapOK(heap)
  /\ StacksOK(frames)
  /\ CountsOK(heap, frames, owned)
  /\ FiresOwned(heap, frames, owned)
  /\ FiredOK(heap, fired)

(* While a timer exists it keeps its target and its kind, and a one-shot   *)
(* timer that is settled stays so. A new one is in order.                  *)
Kept(h, g, t) ==
  /\ h.refcount[t] > 0 /\ g.refcount[t] > 0 =>
       /\ g.timer[t].target = h.timer[t].target
       /\ g.timer[t].repeats = h.timer[t].repeats
       /\ ~ h.timer[t].repeats /\ Settled(h.timer[t]) => Settled(g.timer[t])
  /\ h.refcount[t] = 0 /\ g.refcount[t] > 0 /\ g.timer[t].target # Nil => ~ g.timer[t].repeats

(* A timer that is not touched is kept.                                    *)
LEMMA SameKept ==
  ASSUME NEW h \in Heaps, NEW g, NEW t \in Timers, Same(h, g, t)
  PROVE  Kept(h, g, t)
<1>1. h.refcount[t] \in Nat
  BY HostObjectIs
<1>2. QED
  BY <1>1 DEF Same, Kept

(* A step from h that keeps all timers leads to a heap in order.           *)
LEMMA KeptOK ==
  ASSUME NEW h, NEW g \in Heaps, HeapOK(h),
         \A t \in Timers : TimerOK(g, t) /\ Kept(h, g, t)
  PROVE  HeapOK(g)
<1>1. ASSUME NEW t \in Timers, g.timer[t].target # Nil
      PROVE  ~ g.timer[t].repeats
  <2>1. h \in Heaps /\ h.refcount[t] \in Nat /\ g.refcount[t] \in Nat
    BY HostObjectIs DEF HeapOK
  <2>2. CASE g.refcount[t] = 0
    BY <1>1, <2>2, GoneIs DEF TimerOK
  <2>3. CASE g.refcount[t] > 0 /\ h.refcount[t] > 0
    BY <1>1, <2>3 DEF Kept, HeapOK
  <2>4. CASE g.refcount[t] > 0 /\ h.refcount[t] = 0
    BY <1>1, <2>4 DEF Kept
  <2>5. QED
    BY <2>1, <2>2, <2>3, <2>4
<1>2. QED
  BY <1>1 DEF HeapOK

(* The whole heap after a change of one timer.                             *)
LEMMA MovesOK ==
  ASSUME NEW h, NEW g, NEW t \in Timers, NEW n, NEW new, HeapOK(h), Moves(h, g, t, n, new),
         Kept(h, g, t)
  PROVE  /\ HeapOK(g)
         /\ \A u \in Timers : Kept(h, g, u)
         /\ Own(g, t) = n /\ g.timer[t] = new
         /\ \A u \in Timers \ {t} : Own(g, u) = Own(h, u) /\ g.timer[u] = h.timer[u]
<1>1. g \in Heaps /\ h \in Heaps
  BY DEF Moves, HeapOK
<1>2. ASSUME NEW u \in Timers
      PROVE  /\ TimerOK(g, u) /\ Kept(h, g, u)
             /\ u # t => Own(g, u) = Own(h, u) /\ g.timer[u] = h.timer[u]
  <2>1. CASE u = t
    BY <2>1 DEF Moves
  <2>2. CASE u # t
    <3>1. Same(h, g, u)
      BY <2>2 DEF Moves
    <3>2. TimerOK(h, u)
      BY DEF HeapOK
    <3>3. QED
      BY <1>1, <3>1, <3>2, SameOK, SameKept
  <2>3. QED
    BY <2>1, <2>2
<1>3. HeapOK(g)
  BY <1>1, <1>2, KeptOK
<1>4. QED
  BY <1>2, <1>3 DEF Moves

(* References of the guest are references.                                 *)
LEMMA CountsAre ==
  ASSUME NEW h, NEW fs, NEW ow, CountsOK(h, fs, ow), NEW t \in Timers
  PROVE  /\ ow[t] \in Nat
         /\ Tally(fs, "loop", t) \in Nat
         /\ Tally(fs, "callback", t) \in Nat
         /\ Own(h, t) = ow[t] + Tally(fs, "loop", t) + Tally(fs, "callback", t)
         /\ Tally(fs, "callback", t) = Flag(h.timer[t])
         /\ IsFiniteSet(Sites(fs, "loop", t)) /\ IsFiniteSet(Sites(fs, "callback", t))
<1>1. IsFiniteSet(Sites(fs, "loop", t)) /\ IsFiniteSet(Sites(fs, "callback", t))
  BY DEF CountsOK, Finite
<1>2. QED
  BY <1>1, FS_CardinalityType DEF CountsOK, Tally

(* What refers to a timer is counted: it exists, and the frame is there.   *)
LEMMA CountedRefers ==
  ASSUME NEW h, NEW fs \in Stacks, NEW ow, CountsOK(h, fs, ow), NEW t \in Timers,
         NEW th \in Threads, NEW i \in 1 .. Len(fs[th])
  PROVE  /\ Counts(fs[th][i], "loop", t) => Tally(fs, "loop", t) > 0
         /\ Counts(fs[th][i], "callback", t) => Tally(fs, "callback", t) > 0
<1>1. ASSUME NEW kind, Counts(fs[th][i], kind, t), IsFiniteSet(Sites(fs, kind, t)),
             Tally(fs, kind, t) \in Nat
      PROVE  Tally(fs, kind, t) > 0
  <2>1. i \in Nat
    BY StackIs
  <2>2. <<th, i>> \in Sites(fs, kind, t)
    BY <1>1, <2>1, SiteIs
  <2>3. Sites(fs, kind, t) # {}
    BY <2>2
  <2>4. Cardinality(Sites(fs, kind, t)) # 0
    BY <1>1, <2>3, FS_EmptySet
  <2>5. QED
    BY <1>1, <2>4 DEF Tally
<1>2. QED
  BY <1>1, CountsAre

(* The flag of the callback stays, or the timer goes.                      *)
SameFlag(h, g, t) ==
  \/ Flag(g.timer[t]) = Flag(h.timer[t])
  \/ Own(g, t) = 0 /\ ~ g.timer[t].running

(* A step from h to g in which the guest's references become ov, a frame is*)
(* put on a stack, or one takes the place of e.                            *)
Holds(h, g, ow, ov, t) ==
  /\ Own(g, t) = (Own(h, t) - ow[t]) + ov[t]
  /\ SameFlag(h, g, t)

Adds(h, g, f, t) ==
  /\ Own(g, t) = Own(h, t) + In(f, "loop", t) + In(f, "callback", t)
  /\ Flag(g.timer[t]) = Flag(h.timer[t]) + In(f, "callback", t)

Swaps(h, g, e, f, t) ==
  /\ Own(g, t) = (Own(h, t) - In(e, "loop", t)) + In(f, "loop", t)
  /\ SameFlag(h, g, t)

(* The counts after a step that leaves the frames alone.                   *)
LEMMA CountsKept ==
  ASSUME NEW h, NEW g, NEW fs, NEW ow, NEW ov \in [Timers -> Nat], CountsOK(h, fs, ow),
         \A t \in Timers : Holds(h, g, ow, ov, t)
  PROVE  CountsOK(g, fs, ov)
<1>1. ASSUME NEW t \in Timers
      PROVE  /\ Own(g, t) = ov[t] + Tally(fs, "loop", t) + Tally(fs, "callback", t)
             /\ Tally(fs, "callback", t) = Flag(g.timer[t])
  <2>1. /\ ow[t] \in Nat
        /\ Tally(fs, "loop", t) \in Nat
        /\ Tally(fs, "callback", t) \in Nat
        /\ Own(h, t) = ow[t] + Tally(fs, "loop", t) + Tally(fs, "callback", t)
        /\ Tally(fs, "callback", t) = Flag(h.timer[t])
    BY CountsAre
  <2>2. Own(g, t) = ov[t] + Tally(fs, "loop", t) + Tally(fs, "callback", t)
    <3>1. Own(g, t) = (Own(h, t) - ow[t]) + ov[t] /\ ov[t] \in Nat
      BY DEF Holds
    <3>2. QED
      BY <2>1, <3>1
  <2>3. CASE Flag(g.timer[t]) = Flag(h.timer[t])
    BY <2>1, <2>2, <2>3
  <2>4. CASE Own(g, t) = 0 /\ ~ g.timer[t].running
    <3>1. ov[t] \in Nat
      OBVIOUS
    <3>2. Tally(fs, "callback", t) = 0
      BY <2>1, <2>2, <2>4, <3>1
    <3>3. QED
      BY <2>2, <2>4, <3>2 DEF Flag
  <2>5. QED
    BY <2>3, <2>4 DEF SameFlag, Holds
<1>2. QED
  BY <1>1 DEF CountsOK

(* The counts after a frame is put on a stack.                             *)
LEMMA CountsPushed ==
  ASSUME NEW h, NEW g, NEW fs \in Stacks, NEW gs, NEW th \in Threads, NEW f \in Frames, NEW ow,
         CountsOK(h, fs, ow), Pushed(fs, gs, th, f),
         \A t \in Timers : Adds(h, g, f, t)
  PROVE  CountsOK(g, gs, ow)
<1>1. ASSUME NEW t \in Timers
      PROVE  /\ IsFiniteSet(Sites(gs, "loop", t)) /\ IsFiniteSet(Sites(gs, "callback", t))
             /\ Own(g, t) = ow[t] + Tally(gs, "loop", t) + Tally(gs, "callback", t)
             /\ Tally(gs, "callback", t) = Flag(g.timer[t])
  <2>0. IsFiniteSet(Sites(fs, "loop", t)) /\ IsFiniteSet(Sites(fs, "callback", t))
    BY CountsAre
  <2>1. /\ ow[t] \in Nat
        /\ Tally(fs, "loop", t) \in Nat
        /\ Tally(fs, "callback", t) \in Nat
        /\ Own(h, t) = ow[t] + Tally(fs, "loop", t) + Tally(fs, "callback", t)
        /\ Tally(fs, "callback", t) = Flag(h.timer[t])
    BY CountsAre
  <2>2. /\ IsFiniteSet(Sites(gs, "loop", t))
        /\ Tally(gs, "loop", t) = Tally(fs, "loop", t) + In(f, "loop", t)
    BY <2>0, PushTally
  <2>3. /\ IsFiniteSet(Sites(gs, "callback", t))
        /\ Tally(gs, "callback", t) = Tally(fs, "callback", t) + In(f, "callback", t)
    BY <2>0, PushTally
  <2>4. In(f, "loop", t) \in Nat /\ In(f, "callback", t) \in Nat
    BY DEF In
  <2>5. QED
    BY <2>1, <2>2, <2>3, <2>4 DEF Adds
<1>2. QED
  BY <1>1 DEF CountsOK, Finite

(* Two terms less on either side.                                          *)
LEMMA Lessened ==
  ASSUME NEW a \in Nat, NEW b \in Nat, NEW m \in Nat, NEW k \in Nat, NEW x \in Nat, NEW y \in Nat,
         a + x + y = b + m + k
  PROVE  a = b + (m - x) + (k - y)
OBVIOUS

(* The counts after the last frame is taken off.                           *)
LEMMA CountsPopped ==
  ASSUME NEW h, NEW g, NEW fs \in Stacks, NEW gs, NEW th \in Threads, NEW f, NEW ow,
         CountsOK(h, fs, ow), Popped(fs, gs, th), f = fs[th][Len(fs[th])],
         \A t \in Timers : Adds(g, h, f, t) /\ TimerOK(g, t)
  PROVE  CountsOK(g, gs, ow)
<1>1. ASSUME NEW t \in Timers
      PROVE  /\ IsFiniteSet(Sites(gs, "loop", t)) /\ IsFiniteSet(Sites(gs, "callback", t))
             /\ Own(g, t) = ow[t] + Tally(gs, "loop", t) + Tally(gs, "callback", t)
             /\ Tally(gs, "callback", t) = Flag(g.timer[t])
  <2>0. IsFiniteSet(Sites(fs, "loop", t)) /\ IsFiniteSet(Sites(fs, "callback", t))
    BY CountsAre
  <2>1. /\ ow[t] \in Nat
        /\ Tally(fs, "loop", t) \in Nat
        /\ Tally(fs, "callback", t) \in Nat
        /\ Own(h, t) = ow[t] + Tally(fs, "loop", t) + Tally(fs, "callback", t)
        /\ Tally(fs, "callback", t) = Flag(h.timer[t])
    BY CountsAre
  <2>2. /\ IsFiniteSet(Sites(gs, "loop", t))
        /\ Tally(gs, "loop", t) = Tally(fs, "loop", t) - In(f, "loop", t)
    BY <2>0, PopTally
  <2>3. /\ IsFiniteSet(Sites(gs, "callback", t))
        /\ Tally(gs, "callback", t) = Tally(fs, "callback", t) - In(f, "callback", t)
    BY <2>0, PopTally
  <2>4. In(f, "loop", t) \in Nat /\ In(f, "callback", t) \in Nat
        /\ Flag(g.timer[t]) \in Nat
    BY DEF In, Flag
  <2>5. /\ Own(h, t) = Own(g, t) + In(f, "loop", t) + In(f, "callback", t)
        /\ Own(g, t) \in Nat
        /\ Flag(h.timer[t]) = Flag(g.timer[t]) + In(f, "callback", t)
    BY DEF Adds, TimerOK
  <2> DEFINE x == In(f, "loop", t)
             y == In(f, "callback", t)
             r == Flag(g.timer[t])
             q == Flag(h.timer[t])
  <2>6. /\ Tally(gs, "loop", t) = Tally(fs, "loop", t) - x
        /\ Tally(gs, "callback", t) = Tally(fs, "callback", t) - y
        /\ Tally(fs, "callback", t) = q /\ q = r + y
        /\ Own(h, t) = Own(g, t) + x + y
        /\ x \in Nat /\ y \in Nat /\ r \in Nat
    BY <2>1, <2>2, <2>3, <2>4, <2>5
  <2> HIDE DEF x, y, r, q
  <2>7. Tally(gs, "callback", t) = r
    <3>1. Tally(gs, "callback", t) = q - y
      BY <2>6
    <3>2. q - y = r
      BY <2>6
    <3>3. QED
      BY <3>1, <3>2
  <2>8. Own(g, t) = ow[t] + Tally(gs, "loop", t) + Tally(gs, "callback", t)
    <3> DEFINE m == Tally(fs, "loop", t)
               k == Tally(fs, "callback", t)
    <3>1. ow[t] \in Nat /\ m \in Nat /\ k \in Nat /\ Own(g, t) \in Nat
      BY <2>1, <2>5
    <3>2. Own(g, t) + x + y = ow[t] + m + k
      BY <2>1, <2>6
    <3> HIDE DEF m, k
    <3>3. x \in Nat /\ y \in Nat
      BY <2>6
    <3>4. Own(g, t) = ow[t] + (m - x) + (k - y)
      BY <3>1, <3>2, <3>3, Lessened
    <3>5. Tally(gs, "loop", t) = m - x /\ Tally(gs, "callback", t) = k - y
      BY <2>6 DEF m, k
    <3>6. QED
      BY <3>4, <3>5
  <2>9. QED
    BY <2>2, <2>3, <2>7, <2>8 DEF r
<1>2. QED
  BY <1>1 DEF CountsOK, Finite

(* The counts after a loop goes on to its next timer or iteration.         *)
LEMMA CountsReplaced ==
  ASSUME NEW h, NEW g, NEW fs \in Stacks, NEW gs, NEW th \in Threads, NEW n \in Nat, NEW f \in Frames, NEW ow,
         CountsOK(h, fs, ow), Replaced(fs, gs, th, n, f),
         f.kind = "loop", fs[th][n].kind = "loop",
         \A t \in Timers : Swaps(h, g, fs[th][n], f, t)
  PROVE  CountsOK(g, gs, ow)
<1>1. ASSUME NEW t \in Timers
      PROVE  /\ IsFiniteSet(Sites(gs, "loop", t)) /\ IsFiniteSet(Sites(gs, "callback", t))
             /\ Own(g, t) = ow[t] + Tally(gs, "loop", t) + Tally(gs, "callback", t)
             /\ Tally(gs, "callback", t) = Flag(g.timer[t])
  <2>0. IsFiniteSet(Sites(fs, "loop", t)) /\ IsFiniteSet(Sites(fs, "callback", t))
    BY CountsAre
  <2>1. /\ ow[t] \in Nat
        /\ Tally(fs, "loop", t) \in Nat
        /\ Tally(fs, "callback", t) \in Nat
        /\ Own(h, t) = ow[t] + Tally(fs, "loop", t) + Tally(fs, "callback", t)
        /\ Tally(fs, "callback", t) = Flag(h.timer[t])
    BY CountsAre
  <2>2. /\ IsFiniteSet(Sites(gs, "loop", t))
        /\ Tally(gs, "loop", t) = (Tally(fs, "loop", t) - In(fs[th][n], "loop", t))
                                    + In(f, "loop", t)
    BY <2>0, ReplaceTally
  <2>3. /\ IsFiniteSet(Sites(gs, "callback", t))
        /\ Tally(gs, "callback", t) = (Tally(fs, "callback", t) - In(fs[th][n], "callback", t))
                                        + In(f, "callback", t)
    BY <2>0, ReplaceTally
  <2>4. In(fs[th][n], "callback", t) = 0 /\ In(f, "callback", t) = 0
    BY DEF In, Counts
  <2>5. In(f, "loop", t) \in Nat /\ In(fs[th][n], "loop", t) \in Nat
    BY DEF In
  <2>6. Tally(gs, "callback", t) = Tally(fs, "callback", t)
    BY <2>1, <2>3, <2>4
  <2>7. Own(g, t) = ow[t] + Tally(gs, "loop", t) + Tally(gs, "callback", t)
    BY <2>1, <2>2, <2>5, <2>6 DEF Swaps
  <2>8. Tally(gs, "loop", t) \in Nat
    BY <2>2, FS_CardinalityType DEF Tally
  <2>9. Tally(gs, "callback", t) = Flag(g.timer[t])
    <3>1. CASE Flag(g.timer[t]) = Flag(h.timer[t])
      BY <2>1, <2>6, <3>1
    <3>2. CASE Own(g, t) = 0 /\ ~ g.timer[t].running
      <4>1. Tally(gs, "callback", t) = 0
        BY <2>1, <2>6, <2>7, <2>8, <3>2
      <4>2. QED
        BY <3>2, <4>1 DEF Flag
    <3>3. QED
      BY <3>1, <3>2 DEF SameFlag, Swaps
  <2>10. QED
    BY <2>2, <2>3, <2>7, <2>9
<1>2. QED
  BY <1>1 DEF CountsOK, Finite

(* The stacks after each of the changes.                                   *)
LEMMA StacksPushed ==
  ASSUME NEW fs, NEW gs, NEW th \in Threads, NEW f \in Frames, StacksOK(fs), Pushed(fs, gs, th, f),
         f.kind = "loop" => \A t \in Timers : f.rest[t] \in {0, 1},
         f.kind = "callback" => /\ Len(fs[th]) > 0
                                /\ fs[th][Len(fs[th])].kind = "loop"
                                /\ fs[th][Len(fs[th])].rest[f.timer] = 1
  PROVE  StacksOK(gs)
<1>1. fs \in Stacks /\ gs \in Stacks /\ Len(fs[th]) \in Nat
  BY StackIs DEF StacksOK, Pushed
<1>2. ASSUME NEW o \in Threads, NEW i \in 1 .. Len(gs[o])
      PROVE  FrameOK(gs, o, i)
  <2>1. CASE o # th
    BY <2>1 DEF StacksOK, FrameOK, Pushed
  <2>2. CASE o = th /\ i # Len(fs[th]) + 1
    <3>1. i \in 1 .. Len(fs[th]) /\ gs[th][i] = fs[th][i] /\ FrameOK(fs, th, i)
      BY <1>1, <2>2 DEF Pushed, StacksOK
    <3>2. i > 1 => i - 1 \in 1 .. Len(fs[th]) /\ gs[th][i - 1] = fs[th][i - 1]
      BY <1>1, <3>1 DEF Pushed
    <3>3. QED
      BY <2>2, <3>1, <3>2 DEF FrameOK
  <2>3. CASE o = th /\ i = Len(fs[th]) + 1
    <3>1. gs[th][i] = f
      BY <2>3 DEF Pushed
    <3>2. Len(fs[th]) > 0 => i > 1 /\ i - 1 = Len(fs[th]) /\ gs[th][i - 1] = fs[th][Len(fs[th])]
      BY <1>1, <2>3 DEF Pushed
    <3>3. QED
      BY <2>3, <3>1, <3>2 DEF FrameOK
  <2>4. QED
    BY <2>1, <2>2, <2>3
<1>3. QED
  BY <1>1, <1>2 DEF StacksOK

(* Without the last frame.                                                 *)
LEMMA StacksPopped ==
  ASSUME NEW fs, NEW gs, NEW th \in Threads, StacksOK(fs), Popped(fs, gs, th)
  PROVE  StacksOK(gs)
<1>1. fs \in Stacks /\ gs \in Stacks /\ Len(fs[th]) \in Nat /\ Len(gs[th]) = Len(fs[th]) - 1
  BY StackIs DEF StacksOK, Popped
<1>2. ASSUME NEW o \in Threads, NEW i \in 1 .. Len(gs[o])
      PROVE  FrameOK(gs, o, i)
  <2>1. CASE o # th
    BY <2>1 DEF StacksOK, FrameOK, Popped
  <2>2. CASE o = th
    <3>1. i \in 1 .. Len(fs[th]) /\ gs[th][i] = fs[th][i] /\ FrameOK(fs, th, i)
      BY <1>1, <2>2 DEF Popped, StacksOK
    <3>2. i > 1 => i - 1 \in 1 .. Len(gs[th]) /\ gs[th][i - 1] = fs[th][i - 1]
      BY <1>1, <2>2 DEF Popped
    <3>3. QED
      BY <2>2, <3>1, <3>2 DEF FrameOK
  <2>3. QED
    BY <2>1, <2>2
<1>3. QED
  BY <1>1, <1>2 DEF StacksOK

(* With another loop for the last frame.                                   *)
LEMMA StacksReplaced ==
  ASSUME NEW fs, NEW gs, NEW th \in Threads, NEW f \in Frames, StacksOK(fs),
         Replaced(fs, gs, th, Len(fs[th]), f),
         f.kind = "loop", \A t \in Timers : f.rest[t] \in {0, 1}
  PROVE  StacksOK(gs)
<1>1. fs \in Stacks /\ gs \in Stacks /\ Len(fs[th]) \in Nat /\ Len(gs[th]) = Len(fs[th])
  BY StackIs DEF StacksOK, Replaced
<1>2. ASSUME NEW o \in Threads, NEW i \in 1 .. Len(gs[o])
      PROVE  FrameOK(gs, o, i)
  <2>1. CASE o # th
    BY <2>1 DEF StacksOK, FrameOK, Replaced
  <2>2. CASE o = th /\ i # Len(fs[th])
    <3>1. i \in 1 .. Len(fs[th]) /\ gs[th][i] = fs[th][i] /\ FrameOK(fs, th, i)
      BY <1>1, <2>2 DEF Replaced, StacksOK
    <3>2. i > 1 => i - 1 \in 1 .. Len(fs[th]) /\ gs[th][i - 1] = fs[th][i - 1]
      BY <1>1, <2>2 DEF Replaced
    <3>3. QED
      BY <2>2, <3>1, <3>2 DEF FrameOK
  <2>3. CASE o = th /\ i = Len(fs[th])
    <3>1. gs[th][i] = f
      BY <2>3 DEF Replaced
    <3>2. QED
      BY <2>3, <3>1 DEF FrameOK
  <2>4. QED
    BY <2>1, <2>2, <2>3
<1>3. QED
  BY <1>1, <1>2 DEF StacksOK

(* A frame of -fire is an old one, or one for a timer the guest has.       *)
LEMMA FiresStep ==
  ASSUME NEW h, NEW g, NEW fs \in Stacks, NEW gs \in Stacks, NEW ow, NEW ov, HeapOK(h), HeapOK(g),
         FiresOwned(h, fs, ow), CountsOK(h, fs, ow), CountsOK(g, gs, ov),
         \A t \in Timers : Kept(h, g, t),
         \A th \in Threads : \A i \in 1 .. Len(gs[th]) :
           gs[th][i].kind = "fire" =>
             /\ ov[gs[th][i].timer] > 0
             /\ \/ i \in 1 .. Len(fs[th]) /\ fs[th][i] = gs[th][i]
                \/ h.timer[gs[th][i].timer].target = Nil /\ ow[gs[th][i].timer] > 0
  PROVE  FiresOwned(g, gs, ov)
<1>1. ASSUME NEW th \in Threads, NEW i \in 1 .. Len(gs[th]), gs[th][i].kind = "fire"
      PROVE  g.timer[gs[th][i].timer].target = Nil /\ ov[gs[th][i].timer] > 0
  <2> DEFINE t == gs[th][i].timer
  <2>1. t \in Timers
    <3>1. gs[th][i] \in FireFrames
      BY <1>1, FrameIs, StackIs
    <3>2. QED
      BY <3>1 DEF FireFrames
  <2>2. ov[t] > 0 /\ h.timer[t].target = Nil /\ ow[t] > 0
    BY <1>1 DEF FiresOwned
  <2> HIDE DEF t
  <2>3. Own(h, t) > 0 /\ Own(g, t) > 0
    <3>1. /\ ow[t] \in Nat /\ Tally(fs, "loop", t) \in Nat /\ Tally(fs, "callback", t) \in Nat
          /\ Own(h, t) = ow[t] + Tally(fs, "loop", t) + Tally(fs, "callback", t)
      BY <2>1, CountsAre
    <3>2. /\ ov[t] \in Nat /\ Tally(gs, "loop", t) \in Nat /\ Tally(gs, "callback", t) \in Nat
          /\ Own(g, t) = ov[t] + Tally(gs, "loop", t) + Tally(gs, "callback", t)
      BY <2>1, CountsAre
    <3>3. QED
      BY <2>2, <3>1, <3>2
  <2>4. h.refcount[t] > 0 /\ g.refcount[t] > 0
    <3>1. h \in Heaps /\ g \in Heaps
      BY DEF HeapOK
    <3>2. /\ h.refcount[t] \in Nat /\ InLoop(h, t) \in {0, 1}
          /\ g.refcount[t] \in Nat /\ InLoop(g, t) \in {0, 1}
      BY <2>1, <3>1, HostObjectIs
    <3>3. QED
      BY <2>3, <3>2 DEF Own
  <2>5. g.timer[t].target = Nil
    BY <2>1, <2>2, <2>4 DEF Kept
  <2>6. QED
    BY <2>2, <2>5 DEF t
<1>2. QED
  BY <1>1 DEF FiresOwned

(* What has been fired and exists still is settled, and so must be what is *)
(* fired now.                                                              *)
LEMMA FiredStep ==
  ASSUME NEW h, NEW g, NEW fi, NEW fj \in SUBSET Timers, FiredOK(h, fi),
         \A t \in Timers : Kept(h, g, t),
         \A t \in fj : /\ g.refcount[t] > 0
                       /\ \/ t \in fi
                          \/ ~ g.timer[t].repeats /\ Settled(g.timer[t])
  PROVE  FiredOK(g, fj)
BY DEF FiredOK, Kept

-----------------------------------------------------------------------------
(* Steps.                                                                  *)

(* The variables after a call.                                             *)
LEMMA BecomesIs ==
  ASSUME NEW h \in Heaps, Becomes(h)
  PROVE  heap' = h
<1>1. h = [timer |-> h.timer, refcount |-> h.refcount, list |-> h.list]
  BY DEF Heaps
<1>2. QED
  BY <1>1 DEF Becomes, heap

(* And without one.                                                        *)
LEMMA HeapIs ==
  /\ heap.timer = timer /\ heap.refcount = refcount /\ heap.list = list
  /\ UNCHANGED objectVars => heap' = heap
BY DEF heap, objectVars

(* What is still fired was fired before or is settled now.                 *)
StillFired(h, fi, fj) ==
  /\ fj \subseteq Timers
  /\ \A t \in fj : /\ h.refcount[t] > 0
                   /\ \/ t \in fi
                      \/ ~ h.timer[t].repeats /\ Settled(h.timer[t])

(* The frames of a kind are some of those there were.                      *)
Old(kind, fs, gs) ==
  \A th \in Threads : \A i \in 1 .. Len(gs[th]) :
    gs[th][i].kind = kind => i \in 1 .. Len(fs[th]) /\ fs[th][i] = gs[th][i]

(* A step of guest code that leaves the frames alone.                      *)
LEMMA QuietStep ==
  ASSUME LoopInv, HeapOK(heap'), \A t \in Timers : Kept(heap, heap', t),
         owned' \in [Timers -> Nat],
         \A t \in Timers : Holds(heap, heap', owned, owned', t),
         \A th \in Threads : \A i \in 1 .. Len(frames[th]) :
           frames[th][i].kind = "fire" => owned'[frames[th][i].timer] > 0,
         frames' = frames, StillFired(heap', fired, fired'), OtherTypes'
  PROVE  LoopInv'
<1>1. frames \in Stacks /\ StacksOK(frames)
  BY DEF LoopInv, StacksOK
<1>2. CountsOK(heap, frames, owned)
  BY DEF LoopInv
<1>3. CountsOK(heap', frames, owned')
  BY <1>2, CountsKept
<1>4. FiresOwned(heap, frames, owned) /\ HeapOK(heap)
  BY DEF LoopInv
<1>5. FiresOwned(heap', frames, owned')
  BY <1>1, <1>2, <1>3, <1>4, FiresStep
<1>6. FiredOK(heap', fired')
  BY FiredStep DEF LoopInv, StillFired
<1>7. QED
  BY <1>1, <1>3, <1>5, <1>6 DEF LoopInv

(* One of a single timer.                                                  *)
LEMMA OneTimerStep ==
  ASSUME LoopInv, NEW t \in Timers, NEW n, NEW new,
         Moves(heap, heap', t, n, new), Kept(heap, heap', t),
         owned' \in [Timers -> Nat], \A u \in Timers \ {t} : owned'[u] = owned[u],
         n = (Own(heap, t) - owned[t]) + owned'[t],
         SameFlag(heap, heap', t),
         \/ owned'[t] > 0
         \/ owned'[t] = owned[t]
         \/ \A th \in Threads : \A i \in 1 .. Len(frames[th]) :
              frames[th][i].kind = "fire" => frames[th][i].timer # t,
         frames' = frames,
         \/ fired' = {u \in fired : heap'.refcount[u] > 0}
         \/ fired' = fired /\ heap'.refcount[t] > 0,
         OtherTypes'
  PROVE  LoopInv'
<1>1. HeapOK(heap)
  BY DEF LoopInv
<1>2. /\ HeapOK(heap')
      /\ \A u \in Timers : Kept(heap, heap', u)
      /\ Own(heap', t) = n /\ heap'.timer[t] = new
      /\ \A u \in Timers \ {t} : Own(heap', u) = Own(heap, u) /\ heap'.timer[u] = heap.timer[u]
  BY <1>1, MovesOK
<1>3. ASSUME NEW u \in Timers
      PROVE  Holds(heap, heap', owned, owned', u)
  <2>1. CASE u = t
    BY <1>2, <2>1 DEF Holds
  <2>2. CASE u # t
    <3>1. Own(heap, u) \in Nat /\ owned[u] \in Nat
      BY <1>1 DEF HeapOK, TimerOK, LoopInv, CountsOK
    <3>2. Own(heap', u) = Own(heap, u) /\ owned'[u] = owned[u]
          /\ heap'.timer[u] = heap.timer[u]
      BY <1>2, <2>2
    <3>3. Own(heap', u) = (Own(heap, u) - owned[u]) + owned'[u]
      BY <3>1, <3>2
    <3>4. QED
      BY <3>2, <3>3 DEF Holds, SameFlag
  <2>3. QED
    BY <2>1, <2>2
<1>4. ASSUME NEW th \in Threads, NEW i \in 1 .. Len(frames[th]), frames[th][i].kind = "fire"
      PROVE  owned'[frames[th][i].timer] > 0
  <2>1. frames[th][i].timer \in Timers
    <3>1. frames \in Stacks
      BY DEF LoopInv, StacksOK
    <3>2. frames[th][i] \in FireFrames
      BY <1>4, <3>1, FrameIs, StackIs
    <3>3. QED
      BY <3>2 DEF FireFrames
  <2>2. owned[frames[th][i].timer] > 0
    BY <1>4 DEF LoopInv, FiresOwned
  <2>3. QED
    BY <1>4, <2>1, <2>2
<1>5. StillFired(heap', fired, fired')
  <2>1. fired \subseteq Timers /\ \A u \in fired : heap.refcount[u] > 0
    BY DEF LoopInv, FiredOK
  <2>2. \A u \in Timers \ {t} : heap'.refcount[u] = heap.refcount[u]
    BY DEF Moves, Same
  <2>3. fired' \subseteq fired
    OBVIOUS
  <2>4. ASSUME NEW u \in fired'
        PROVE  heap'.refcount[u] > 0
    <3>1. CASE fired' = {w \in fired : heap'.refcount[w] > 0}
      BY <2>4, <3>1
    <3>2. CASE fired' = fired /\ heap'.refcount[t] > 0
      <4>1. CASE u = t
        BY <3>2, <4>1
      <4>2. CASE u # t
        BY <2>1, <2>2, <2>3, <4>2
      <4>3. QED
        BY <4>1, <4>2
    <3>3. QED
      BY <3>1, <3>2
  <2>5. fired' \subseteq Timers
    BY <2>1, <2>3
  <2>6. \A u \in fired' : heap'.refcount[u] > 0 /\ u \in fired
    BY <2>3, <2>4
  <2>7. QED
    BY <2>5, <2>6, Zenon DEF StillFired
<1>6. QED
  BY <1>2, <1>3, <1>4, <1>5, QuietStep

(* One that changes the frames.                                            *)
LEMMA FrameStep ==
  ASSUME LoopInv, HeapOK(heap'), \A t \in Timers : Kept(heap, heap', t),
         owned' = owned, StacksOK(frames'), CountsOK(heap', frames', owned),
         Old("fire", frames, frames'), StillFired(heap', fired, fired'), OtherTypes'
  PROVE  LoopInv'
<1>1. /\ frames \in Stacks /\ frames' \in Stacks
      /\ CountsOK(heap, frames, owned) /\ HeapOK(heap) /\ FiresOwned(heap, frames, owned)
  BY DEF LoopInv, StacksOK
<1>2. ASSUME NEW th \in Threads, NEW i \in 1 .. Len(frames'[th]), frames'[th][i].kind = "fire"
      PROVE  /\ owned[frames'[th][i].timer] > 0
             /\ i \in 1 .. Len(frames[th]) /\ frames[th][i] = frames'[th][i]
  BY <1>1, <1>2 DEF Old, FiresOwned
<1>3. FiresOwned(heap', frames', owned)
  <2>1. \A th \in Threads : \A i \in 1 .. Len(frames'[th]) :
          frames'[th][i].kind = "fire" =>
            /\ owned[frames'[th][i].timer] > 0
            /\ \/ i \in 1 .. Len(frames[th]) /\ frames[th][i] = frames'[th][i]
               \/ /\ heap.timer[frames'[th][i].timer].target = Nil
                  /\ owned[frames'[th][i].timer] > 0
    BY <1>2
  <2>2. QED
    BY <1>1, <2>1, FiresStep
<1>4. FiredOK(heap', fired')
  BY FiredStep DEF LoopInv, StillFired
<1>5. QED
  BY <1>3, <1>4 DEF LoopInv

(* A frame is new if it is put on a stack or takes the place of another.   *)
LEMMA OldIs ==
  ASSUME NEW fs \in Stacks, NEW gs, NEW th \in Threads, NEW f, NEW kind,
         \/ Pushed(fs, gs, th, f) /\ f.kind # kind
         \/ Popped(fs, gs, th)
         \/ Replaced(fs, gs, th, Len(fs[th]), f) /\ f.kind # kind
  PROVE  Old(kind, fs, gs)
<1>1. Len(fs[th]) \in Nat
  BY StackIs
<1>2. ASSUME NEW o \in Threads, NEW i \in 1 .. Len(gs[o]), gs[o][i].kind = kind
      PROVE  i \in 1 .. Len(fs[o]) /\ fs[o][i] = gs[o][i]
  <2>1. CASE o # th
    BY <1>2, <2>1 DEF Pushed, Popped, Replaced
  <2>2. CASE o = th
    BY <1>1, <1>2, <2>2 DEF Pushed, Popped, Replaced
  <2>3. QED
    BY <2>1, <2>2
<1>3. QED
  BY <1>2 DEF Old

(* No timers, no frames.                                                   *)
LEMMA InitLoop == Init => LoopInv
<1> SUFFICES ASSUME Init
             PROVE  LoopInv
  OBVIOUS
<1>1. OtherTypes
  BY RunLoopsAssumption DEF Init, OtherTypes
<1>2. heap \in Heaps
  BY GoneIs DEF Init, heap, Heaps, Lists, EmptyList
<1>3. ASSUME NEW t \in Timers
      PROVE  TimerOK(heap, t) /\ Own(heap, t) = 0 /\ heap.timer[t] = Gone
  <2>1. /\ heap.timer[t] = Gone /\ heap.refcount[t] = 0
        /\ \A l \in Threads : heap.list[l][t] = 0
    BY DEF Init, heap, EmptyList
  <2>2. Own(heap, t) = 0
    BY <2>1, GoneIs DEF Own, InLoop
  <2>3. QED
    BY <2>1, <2>2, GoneIs, RunLoopsAssumption DEF TimerOK
<1>4. HeapOK(heap)
  BY <1>2, <1>3, GoneIs DEF HeapOK
<1>5. frames \in Stacks /\ \A th \in Threads : frames[th] = << >> /\ Len(frames[th]) = 0
  <2>1. << >> \in Seq(Frames) /\ Len(<< >>) = 0
    OBVIOUS
  <2>2. QED
    BY <2>1 DEF Init, Stacks
<1>6. StacksOK(frames)
  BY <1>5 DEF StacksOK
<1>7. ASSUME NEW kind, NEW t
      PROVE  Sites(frames, kind, t) = {}
  <2>1. ASSUME NEW th \in Threads, NEW i \in Nat
        PROVE  <<th, i>> \notin Sites(frames, kind, t)
    <3>1. i \notin 1 .. Len(frames[th])
      BY <1>5
    <3>2. QED
      BY <1>5, <3>1, SiteIs
  <2>2. Sites(frames, kind, t) \in SUBSET (Threads \X Nat)
    BY DEF Sites
  <2>3. QED
    BY <2>1, <2>2
<1>8. CountsOK(heap, frames, owned)
  <2>1. ASSUME NEW t \in Timers
        PROVE  /\ owned[t] = 0
               /\ Tally(frames, "loop", t) = 0 /\ Tally(frames, "callback", t) = 0
               /\ Flag(heap.timer[t]) = 0 /\ Own(heap, t) = 0
    BY <1>3, <1>7, GoneIs, FS_EmptySet DEF Init, Tally, Flag
  <2>2. Finite(frames)
    BY <1>7, FS_EmptySet DEF Finite
  <2>3. owned \in [Timers -> Nat]
    BY DEF Init
  <2>4. QED
    BY <2>1, <2>2, <2>3 DEF CountsOK
<1>9. FiresOwned(heap, frames, owned)
  BY <1>5 DEF FiresOwned
<1>10. FiredOK(heap, fired)
  BY DEF Init, FiredOK
<1>11. QED
  BY <1>1, <1>4, <1>6, <1>8, <1>9, <1>10 DEF LoopInv

-----------------------------------------------------------------------------
(* The steps that leave the frames alone.                                  *)

(* A timer has the references of its loop and its own ones.                *)
LEMMA RefcountIs ==
  ASSUME NEW h \in Heaps, NEW t \in Timers, TimerOK(h, t)
  PROVE  /\ h.refcount[t] \in Nat /\ Own(h, t) \in Nat /\ InLoop(h, t) \in {0, 1}
         /\ h.refcount[t] = Own(h, t) + InLoop(h, t)
         /\ h.refcount[t] = 0 => Own(h, t) = 0 /\ h.timer[t] = Gone
         /\ Own(h, t) > 0 => h.refcount[t] > 0
         /\ Own(h, t) = 0 /\ h.timer[t] = Gone => h.refcount[t] = 0
<1>1. h.refcount[t] \in Nat /\ Own(h, t) \in Nat /\ InLoop(h, t) \in {0, 1}
  BY HostObjectIs DEF TimerOK
<1>2. h.refcount[t] = Own(h, t) + InLoop(h, t)
  BY <1>1 DEF Own
<1>3. h.timer[t] = Gone => InLoop(h, t) = 0
  BY GoneIs DEF InLoop
<1>4. QED
  BY <1>1, <1>2, <1>3 DEF TimerOK

(* A timer that the guest makes or asks for.                               *)
LEMMA NewTimerIs ==
  ASSUME NEW b \in BOOLEAN, NEW target \in Targets \cup {Nil}
  PROVE  /\ NewTimer(b, target) \in HostObjects
         /\ NewTimer(b, target).run_loop = Nil
         /\ NewTimer(b, target).target = target
         /\ NewTimer(b, target).repeats = b
         /\ ~ NewTimer(b, target).running
BY DEF NewTimer, Gone, HostObjects

(* An invalidated timer keeps what matters, or is gone.                    *)
LEMMA InvalidatedKept ==
  ASSUME NEW h \in Heaps, NEW g \in Heaps, NEW t \in Timers, TimerOK(h, t), TimerOK(g, t),
         Own(g, t) = Own(h, t),
         g.timer[t] = IF Own(h, t) = 0 THEN Gone
                      ELSE [h.timer[t] EXCEPT !.due_by = "none", !.run_loop = Nil]
  PROVE  Kept(h, g, t) /\ SameFlag(h, g, t)
<1>1. CASE Own(h, t) = 0
  <2>1. g.timer[t] = Gone /\ g.refcount[t] = 0
    BY <1>1, RefcountIs
  <2>2. QED
    BY <1>1, <2>1, GoneIs DEF Kept, SameFlag, Flag
<1>2. CASE Own(h, t) # 0
  <2>1. h.refcount[t] > 0
    BY <1>2, RefcountIs
  <2>2. /\ g.timer[t].target = h.timer[t].target
        /\ g.timer[t].repeats = h.timer[t].repeats
        /\ g.timer[t].running = h.timer[t].running
        /\ g.timer[t].due_by = "none"
    BY <1>2, HostObjectIs DEF HostObjects
  <2>3. QED
    BY <2>1, <2>2 DEF Kept, SameFlag, Flag, Settled
<1>3. QED
  BY <1>1, <1>2

(* -invalidate is such a step.                                             *)
LEMMA InvalidateKept ==
  ASSUME NEW h \in Heaps, NEW t \in Timers, TimerOK(h, t)
  PROVE  /\ invalidate(h, t) \in Heaps
         /\ \E new : Moves(h, invalidate(h, t), t, Own(h, t), new)
         /\ Kept(h, invalidate(h, t), t) /\ SameFlag(h, invalidate(h, t), t)
<1> DEFINE g == invalidate(h, t)
           new == IF Own(h, t) = 0 THEN Gone
                  ELSE [h.timer[t] EXCEPT !.due_by = "none", !.run_loop = Nil]
<1>1. Moves(h, g, t, Own(h, t), new)
  BY InvalidateIs
<1>2. /\ g \in Heaps /\ TimerOK(g, t) /\ Own(g, t) = Own(h, t)
      /\ g.timer[t] = new
  BY <1>1 DEF Moves
<1> HIDE DEF g
<1>3. Kept(h, g, t) /\ SameFlag(h, g, t)
  BY <1>2, InvalidatedKept
<1> HIDE DEF new
<1>4. QED
  BY <1>1, <1>2, <1>3 DEF g

(* So is a release.                                                        *)
LEMMA ReleaseKept ==
  ASSUME NEW h \in Heaps, NEW t \in Timers, TimerOK(h, t), Own(h, t) > 0
  PROVE  /\ release(h, t) \in Heaps
         /\ \E new : Moves(h, release(h, t), t, Own(h, t) - 1, new)
         /\ Kept(h, release(h, t), t) /\ SameFlag(h, release(h, t), t)
<1> DEFINE g == release(h, t)
           new == IF h.refcount[t] > 1 THEN h.timer[t] ELSE Gone
<1>1. Moves(h, g, t, Own(h, t) - 1, new)
  BY ReleaseIs
<1>2. /\ g \in Heaps /\ TimerOK(g, t) /\ Own(g, t) = Own(h, t) - 1
      /\ g.timer[t] = new
  BY <1>1 DEF Moves
<1> HIDE DEF g
<1>3. /\ h.refcount[t] \in Nat /\ Own(h, t) \in Nat /\ InLoop(h, t) \in {0, 1}
      /\ h.refcount[t] = Own(h, t) + InLoop(h, t)
  BY RefcountIs
<1>4. Kept(h, g, t) /\ SameFlag(h, g, t)
  <2>1. CASE h.refcount[t] > 1
    BY <1>2, <2>1 DEF Kept, SameFlag, Flag
  <2>2. CASE ~ (h.refcount[t] > 1)
    <3>1. Own(g, t) = 0 /\ g.timer[t] = Gone
      BY <1>2, <1>3, <2>2
    <3>2. g.refcount[t] = 0
      BY <1>2, <3>1, RefcountIs
    <3>3. h.refcount[t] > 0
      BY <1>3
    <3>4. QED
      BY <3>1, <3>2, <3>3, GoneIs DEF Kept, SameFlag, Flag
  <2>3. QED
    BY <2>1, <2>2
<1> HIDE DEF new
<1>5. QED
  BY <1>1, <1>2, <1>4 DEF g

(* What the invariant says of a timer.                                     *)
LEMMA InvTimer ==
  ASSUME LoopInv, NEW t \in Timers
  PROVE  /\ heap \in Heaps /\ TimerOK(heap, t) /\ owned \in [Timers -> Nat]
         /\ heap.refcount[t] \in Nat /\ Own(heap, t) \in Nat
         /\ Own(heap, t) >= owned[t]
<1>1. /\ heap \in Heaps /\ TimerOK(heap, t)
      /\ CountsOK(heap, frames, owned) /\ owned \in [Timers -> Nat]
  BY DEF LoopInv, HeapOK, CountsOK
<1>2. heap.refcount[t] \in Nat /\ Own(heap, t) \in Nat
  BY <1>1, RefcountIs
<1>3. /\ owned[t] \in Nat /\ Tally(frames, "loop", t) \in Nat
      /\ Tally(frames, "callback", t) \in Nat
      /\ Own(heap, t) = owned[t] + Tally(frames, "loop", t) + Tally(frames, "callback", t)
  BY <1>1, CountsAre
<1>4. Own(heap, t) >= owned[t]
  BY <1>3
<1>5. QED
  BY <1>1, <1>2, <1>4

(* The types of the variables that a call of the guest leaves alone.       *)
LEMMA ForgetTypes ==
  ASSUME OtherTypes, NEW h, Forget(h), UNCHANGED <<stopped, sync, waiting, cancelled>>
  PROVE  OtherTypes'
BY DEF OtherTypes, Forget

(* What the steps do that start and end no callback: none begins to run,   *)
(* and what is asked for stays in its loop.                                *)
Stays(h, g, t) ==
  /\ h.timer[t].run_loop # Nil => g.timer[t].run_loop # Nil
  /\ h.timer[t].running => g.timer[t].running

Calm(h, g, t) ==
  /\ Kept(h, g, t)
  /\ g.timer[t].running => h.timer[t].running
  /\ h.timer[t].target # Nil => Stays(h, g, t)

Calms == \A t \in Timers : Calm(heap, heap', t)

(* The flag falls, if it changes.                                          *)
LEMMA FlagFalls ==
  ASSUME NEW h, NEW g, NEW t, SameFlag(h, g, t)
  PROVE  g.timer[t].running => h.timer[t].running
BY DEF SameFlag, Flag

(* A change of a single timer.                                             *)
LEMMA CalmOne ==
  ASSUME LoopInv, NEW t \in Timers, NEW n, NEW new, Moves(heap, heap', t, n, new),
         Kept(heap, heap', t), SameFlag(heap, heap', t),
         heap.timer[t].target # Nil => Stays(heap, heap', t)
  PROVE  Calms
<1>1. ASSUME NEW u \in Timers
      PROVE  Calm(heap, heap', u)
  <2>1. CASE u = t
    BY <2>1, FlagFalls DEF Calm
  <2>2. CASE u # t
    <3>1. Same(heap, heap', u) /\ heap \in Heaps
      BY <2>2 DEF Moves, LoopInv, HeapOK
    <3>2. Kept(heap, heap', u)
      BY <3>1, SameKept
    <3>3. heap'.timer[u] = heap.timer[u]
      BY <3>1 DEF Same
    <3>4. QED
      BY <3>2, <3>3 DEF Calm, Stays
  <2>3. QED
    BY <2>1, <2>2
<1>2. QED
  BY <1>1 DEF Calms

(* Of none.                                                                *)
LEMMA CalmNone ==
  ASSUME LoopInv, heap'.timer = heap.timer, \A t \in Timers : Kept(heap, heap', t)
  PROVE  Calms
BY DEF Calms, Calm, Stays

(* A release, unless it is the last thing a callback has.                  *)
LEMMA ReleaseStays ==
  ASSUME NEW h \in Heaps, NEW t \in Timers, TimerOK(h, t), Own(h, t) > 0,
         h.timer[t].running => Own(h, t) > 1
  PROVE  Stays(h, release(h, t), t)
<1> DEFINE g == release(h, t)
<1>1. Moves(h, g, t, Own(h, t) - 1, IF h.refcount[t] > 1 THEN h.timer[t] ELSE Gone)
  BY ReleaseIs
<1>2. g.timer[t] = IF h.refcount[t] > 1 THEN h.timer[t] ELSE Gone
  BY <1>1 DEF Moves
<1> HIDE DEF g
<1>3. /\ h.refcount[t] \in Nat /\ Own(h, t) \in Nat
      /\ h.refcount[t] = Own(h, t) + InLoop(h, t)
  BY RefcountIs
<1>4. CASE h.refcount[t] > 1
  BY <1>2, <1>4 DEF Stays, g
<1>5. CASE ~ (h.refcount[t] > 1)
  <2>1. ~ h.timer[t].running
    <3>1. InLoop(h, t) \in {0, 1}
      BY HostObjectIs
    <3>2. QED
      BY <1>3, <1>5, <3>1
  <2>2. h.timer[t].run_loop = Nil
    BY <1>3, <1>5 DEF InLoop
  <2>3. QED
    BY <2>1, <2>2 DEF Stays
<1>6. QED
  BY <1>4, <1>5

(* A timer of the guest.                                                   *)
LEMMA CreateStep ==
  ASSUME LoopInv, NEW th \in Threads, NEW t \in Timers, NEW b \in BOOLEAN, Create(th, t, b)
  PROVE  LoopInv' /\ Calms
<1> DEFINE new == NewTimer(b, Nil)
           g == Initialized(heap, t, new)
<1>1. /\ heap \in Heaps /\ TimerOK(heap, t) /\ owned \in [Timers -> Nat]
      /\ heap.refcount[t] \in Nat /\ Own(heap, t) \in Nat /\ Own(heap, t) >= owned[t]
  BY InvTimer
<1>2. heap.refcount[t] = 0
  BY <1>1, HeapIs DEF Create, Exists
<1>3. Own(heap, t) = 0 /\ heap.timer[t] = Gone /\ owned[t] = 0
  BY <1>1, <1>2, RefcountIs
<1>4. new \in HostObjects /\ new.run_loop = Nil /\ new.target = Nil /\ ~ new.running
  BY NewTimerIs
<1> HIDE DEF new
<1>5. Moves(heap, g, t, 1, new)
  BY <1>1, <1>2, <1>4, InitializedIs
<1>6. g \in Heaps
  BY <1>5 DEF Moves
<1>7. heap' = g
  BY <1>6, BecomesIs DEF Create, new
<1> HIDE DEF g
<1>8. Moves(heap, heap', t, 1, new)
  BY <1>5, <1>7
<1>9. heap'.refcount[t] > 0 /\ heap'.timer[t] = new
  <2>1. /\ heap' \in Heaps /\ TimerOK(heap', t) /\ Own(heap', t) = 1 /\ heap'.timer[t] = new
    BY <1>8 DEF Moves
  <2>2. QED
    BY <2>1, RefcountIs
<1>10. Kept(heap, heap', t) /\ SameFlag(heap, heap', t)
  BY <1>2, <1>3, <1>4, <1>9, GoneIs DEF Kept, SameFlag, Flag
<1>11. /\ owned' \in [Timers -> Nat] /\ owned'[t] = 1
       /\ \A u \in Timers \ {t} : owned'[u] = owned[u]
  BY <1>1 DEF Create
<1>12. frames' = frames /\ fired' = fired /\ OtherTypes'
  BY DEF Create, LoopInv, OtherTypes, performVars
<1>13. 1 = (Own(heap, t) - owned[t]) + owned'[t]
  BY <1>3, <1>11
<1>14. Calms
  BY <1>3, <1>8, <1>10, CalmOne, GoneIs
<1>15. QED
  BY <1>8, <1>9, <1>10, <1>11, <1>12, <1>13, <1>14, OneTimerStep

(* One for a request, in the loop that is to perform it.                   *)
LEMMA PerformStep ==
  ASSUME LoopInv, NEW th \in Threads, NEW l \in Threads, NEW target \in Targets, NEW t \in Timers,
         NEW wait \in BOOLEAN, Perform(th, l, target, t, wait)
  PROVE  /\ LoopInv' /\ Calms
         /\ heap'.timer[t].target = target /\ heap'.timer[t].run_loop = l
<1> DEFINE new == NewTimer(FALSE, target)
           k == Initialized(heap, t, new)
           newer == [new EXCEPT !.run_loop = l]
           g == addTimer(k, l, t)
<1>1. /\ heap \in Heaps /\ TimerOK(heap, t) /\ owned \in [Timers -> Nat]
      /\ heap.refcount[t] \in Nat /\ Own(heap, t) \in Nat /\ Own(heap, t) >= owned[t]
  BY InvTimer
<1>2. heap.refcount[t] = 0
  BY <1>1, HeapIs DEF Perform, WaitsFor, Exists
<1>3. Own(heap, t) = 0 /\ heap.timer[t] = Gone /\ owned[t] = 0
  BY <1>1, <1>2, RefcountIs
<1>4. /\ new \in HostObjects /\ new.run_loop = Nil /\ new.target = target /\ ~ new.running
      /\ ~ new.repeats
  BY NewTimerIs
<1> HIDE DEF new
<1>5. Moves(heap, k, t, 1, new)
  BY <1>1, <1>2, <1>4, InitializedIs
<1>6. k \in Heaps /\ TimerOK(k, t) /\ Own(k, t) = 1 /\ k.timer[t] = new
  BY <1>5 DEF Moves
<1> HIDE DEF k
<1>7. k.refcount[t] > 0
  BY <1>6, RefcountIs
<1>8. Moves(k, g, t, 1, newer)
  <2>1. Moves(k, addTimer(k, l, t), t, Own(k, t), [k.timer[t] EXCEPT !.run_loop = l])
    BY <1>4, <1>6, <1>7, AddTimerIs
  <2>2. QED
    BY <1>6, <2>1
<1> HIDE DEF g
<1>9. g \in Heaps
  BY <1>8 DEF Moves
<1>10. heap' = g
  BY <1>9, BecomesIs DEF Perform, WaitsFor, new, k, g
<1>11. ~ newer.running /\ ~ newer.repeats /\ newer.target = target /\ newer.run_loop = l
  BY <1>4 DEF HostObjects
<1> HIDE DEF newer
<1>12. Moves(heap, heap', t, 1, newer)
  BY <1>5, <1>8, <1>10, MovesTwice
<1>13. heap'.refcount[t] > 0 /\ heap'.timer[t] = newer
  <2>1. /\ heap' \in Heaps /\ TimerOK(heap', t) /\ Own(heap', t) = 1 /\ heap'.timer[t] = newer
    BY <1>12 DEF Moves
  <2>2. QED
    BY <2>1, RefcountIs
<1>14. Kept(heap, heap', t) /\ SameFlag(heap, heap', t)
  BY <1>2, <1>3, <1>11, <1>13, GoneIs DEF Kept, SameFlag, Flag
<1>15. /\ owned' \in [Timers -> Nat] /\ owned'[t] = 1
       /\ \A u \in Timers \ {t} : owned'[u] = owned[u]
  BY <1>1 DEF Perform, WaitsFor
<1>16. frames' = frames /\ fired' = fired /\ OtherTypes'
  <2>1. /\ sync' \in Seq([timer : Timers, waiter : Threads])
        /\ waiting' \subseteq Threads
        /\ asker' \in [Timers -> Threads \cup {Nil}]
    <3>1. /\ sync \in Seq([timer : Timers, waiter : Threads])
          /\ waiting \subseteq Threads
          /\ asker \in [Timers -> Threads \cup {Nil}]
      BY DEF LoopInv, OtherTypes
    <3>2. CASE wait
      <4>1. [timer |-> t, waiter |-> th] \in [timer : Timers, waiter : Threads]
        OBVIOUS
      <4>2. /\ sync' = Append(sync, [timer |-> t, waiter |-> th])
            /\ waiting' = waiting \cup {th}
            /\ asker' = [asker EXCEPT ![t] = th]
        BY <3>2 DEF Perform, WaitsFor
      <4>3. QED
        BY <3>1, <4>1, <4>2
    <3>3. CASE ~ wait
      BY <3>1, <3>3 DEF Perform, WaitsFor
    <3>4. QED
      BY <3>2, <3>3
  <2>2. QED
    BY <2>1 DEF Perform, WaitsFor, LoopInv, OtherTypes
<1>17. 1 = (Own(heap, t) - owned[t]) + owned'[t]
  BY <1>3, <1>15
<1>18. Calms
  BY <1>3, <1>12, <1>14, CalmOne, GoneIs
<1>19. LoopInv'
  BY <1>12, <1>13, <1>14, <1>15, <1>16, <1>17, <1>18, OneTimerStep
<1>20. QED
  BY <1>11, <1>13, <1>18, <1>19

(* The guest or a pool drops a reference, of a timer that is not in a call *)
(* of -fire.                                                               *)
LEMMA DropStep ==
  ASSUME LoopInv, NEW th \in Threads, NEW t \in Timers, Drop(th, t)
  PROVE  LoopInv' /\ Calms
<1> DEFINE g == release(heap, t)
<1>1. /\ heap \in Heaps /\ TimerOK(heap, t) /\ owned \in [Timers -> Nat]
      /\ Own(heap, t) \in Nat /\ Own(heap, t) >= owned[t]
  BY InvTimer
<1>2. owned[t] > 0 /\ owned[t] \in Nat
  BY <1>1 DEF Drop
<1>3. Own(heap, t) > 0
  BY <1>1, <1>2
<1>4. /\ g \in Heaps
      /\ \E new : Moves(heap, g, t, Own(heap, t) - 1, new)
      /\ Kept(heap, g, t) /\ SameFlag(heap, g, t)
  BY <1>1, <1>3, ReleaseKept
<1>5. heap' = g /\ Forget(g)
  BY <1>4, BecomesIs DEF Drop
<1> HIDE DEF g
<1>6. PICK new : Moves(heap, heap', t, Own(heap, t) - 1, new)
  BY <1>4, <1>5
<1>7. /\ owned' \in [Timers -> Nat] /\ owned'[t] = owned[t] - 1
      /\ \A u \in Timers \ {t} : owned'[u] = owned[u]
  BY <1>1, <1>2 DEF Drop
<1>8. Own(heap, t) - 1 = (Own(heap, t) - owned[t]) + owned'[t]
  BY <1>1, <1>2, <1>7
<1>9. ASSUME NEW o \in Threads, NEW i \in 1 .. Len(frames[o]), frames[o][i].kind = "fire"
      PROVE  frames[o][i].timer # t
  <2>1. DOMAIN frames[o] = 1 .. Len(frames[o])
    BY StackIs DEF LoopInv, StacksOK
  <2>2. <<o, i>> \in FrameSet("fire")
    BY <1>9, <2>1 DEF FrameSet
  <2>3. \A c \in FrameSet("fire") : frames[c[1]][c[2]].timer # t
    BY DEF Drop
  <2>4. QED
    BY <2>2, <2>3
<1>10. frames' = frames /\ fired' = {u \in fired : heap'.refcount[u] > 0} /\ OtherTypes'
  <2>1. UNCHANGED <<stopped, sync, waiting, cancelled>> /\ frames' = frames
    BY DEF Drop, performVars
  <2>2. OtherTypes'
    BY <1>5, <2>1, ForgetTypes DEF LoopInv
  <2>3. QED
    BY <1>5, <2>1, <2>2 DEF Forget
<1>11. Stays(heap, heap', t)
  <2>1. CountsOK(heap, frames, owned)
    BY DEF LoopInv
  <2>2. /\ Tally(frames, "loop", t) \in Nat /\ Tally(frames, "callback", t) \in Nat
        /\ Own(heap, t) = owned[t] + Tally(frames, "loop", t) + Tally(frames, "callback", t)
        /\ Tally(frames, "callback", t) = Flag(heap.timer[t])
    BY <2>1, CountsAre
  <2>3. heap.timer[t].running => Own(heap, t) > 1
    BY <1>2, <2>2 DEF Flag
  <2>4. heap' = release(heap, t)
    BY <1>5 DEF g
  <2>5. QED
    BY <1>1, <1>3, <2>3, <2>4, ReleaseStays
<1>12. Calms
  BY <1>4, <1>5, <1>6, <1>11, CalmOne
<1>13. QED
  BY <1>4, <1>5, <1>6, <1>7, <1>8, <1>9, <1>10, <1>12, OneTimerStep

(* Into a loop.                                                            *)
LEMMA AddTimerStep ==
  ASSUME LoopInv, NEW th \in Threads, NEW l \in Threads, NEW t \in Timers, AddTimer(th, l, t)
  PROVE  LoopInv' /\ Calms
<1> DEFINE g == addTimer(heap, l, t)
           new == [heap.timer[t] EXCEPT !.run_loop = l]
<1>1. /\ heap \in Heaps /\ TimerOK(heap, t) /\ owned \in [Timers -> Nat]
      /\ Own(heap, t) \in Nat /\ owned[t] \in Nat
  BY InvTimer
<1>2. heap.refcount[t] > 0 /\ heap.timer[t].run_loop \in {Nil, l}
  BY HeapIs DEF AddTimer, Knows, Exists
<1>3. Moves(heap, g, t, Own(heap, t), new)
  BY <1>1, <1>2, AddTimerIs
<1>4. g \in Heaps
  BY <1>3 DEF Moves
<1>5. heap' = g
  BY <1>4, BecomesIs DEF AddTimer
<1> HIDE DEF g
<1>6. /\ new.target = heap.timer[t].target /\ new.repeats = heap.timer[t].repeats
      /\ new.running = heap.timer[t].running /\ new.due_by = heap.timer[t].due_by
      /\ new.run_loop = l
  BY <1>1, HostObjectIs DEF HostObjects
<1> HIDE DEF new
<1>7. Moves(heap, heap', t, Own(heap, t), new)
  BY <1>3, <1>5
<1>8. heap'.timer[t] = new /\ heap'.refcount[t] > 0
  <2>1. heap' \in Heaps /\ TimerOK(heap', t) /\ heap'.timer[t] = new
    BY <1>7 DEF Moves
  <2>2. InLoop(heap', t) = 1
    BY <1>6, <2>1, RunLoopsAssumption DEF InLoop
  <2>3. /\ heap'.refcount[t] \in Nat /\ Own(heap', t) \in Nat
        /\ heap'.refcount[t] = Own(heap', t) + InLoop(heap', t)
    BY <2>1, RefcountIs
  <2>4. QED
    BY <2>1, <2>2, <2>3
<1>9. Kept(heap, heap', t) /\ SameFlag(heap, heap', t)
  BY <1>2, <1>6, <1>8 DEF Kept, SameFlag, Flag, Settled
<1>10. owned' = owned /\ frames' = frames /\ fired' = fired /\ OtherTypes'
  BY DEF AddTimer, history, performVars, LoopInv, OtherTypes
<1>11. Own(heap, t) = (Own(heap, t) - owned[t]) + owned'[t]
  BY <1>1, <1>10
<1>12. Stays(heap, heap', t)
  BY <1>6, <1>8, RunLoopsAssumption DEF Stays
<1>13. Calms
  BY <1>7, <1>9, <1>12, CalmOne
<1>14. QED
  BY <1>1, <1>7, <1>8, <1>9, <1>10, <1>11, <1>13, OneTimerStep

(* Invalid.                                                                *)
LEMMA InvalidateStep ==
  ASSUME LoopInv, NEW th \in Threads, NEW t \in Timers, Invalidate(th, t)
  PROVE  LoopInv' /\ Calms
<1> DEFINE g == invalidate(heap, t)
<1>1. /\ heap \in Heaps /\ TimerOK(heap, t) /\ owned \in [Timers -> Nat]
      /\ Own(heap, t) \in Nat /\ owned[t] \in Nat
  BY InvTimer
<1>2. /\ g \in Heaps
      /\ \E new : Moves(heap, g, t, Own(heap, t), new)
      /\ Kept(heap, g, t) /\ SameFlag(heap, g, t)
  BY <1>1, InvalidateKept
<1>3. heap' = g /\ Forget(g)
  BY <1>2, BecomesIs DEF Invalidate
<1> HIDE DEF g
<1>4. PICK new : Moves(heap, heap', t, Own(heap, t), new)
  BY <1>2, <1>3
<1>5. owned' = owned /\ frames' = frames /\ UNCHANGED <<stopped, sync, waiting, cancelled>>
  BY DEF Invalidate, performVars
<1>6. fired' = {u \in fired : heap'.refcount[u] > 0} /\ OtherTypes'
  <2>1. OtherTypes'
    BY <1>3, <1>5, ForgetTypes DEF LoopInv
  <2>2. QED
    BY <1>3, <2>1 DEF Forget
<1>7. Own(heap, t) = (Own(heap, t) - owned[t]) + owned'[t]
  BY <1>1, <1>5
<1>8. heap.timer[t].target = Nil
  BY HeapIs DEF Invalidate, Knows
<1>9. Calms
  BY <1>2, <1>3, <1>4, <1>8, CalmOne
<1>10. QED
  BY <1>1, <1>2, <1>3, <1>4, <1>5, <1>6, <1>7, <1>9, OneTimerStep

(* Another date, for a timer that has one: by the guest, or because it has *)
(* come.                                                                   *)
LEMMA DateStep ==
  ASSUME LoopInv, NEW t \in Timers, NEW date \in {"later", "now"}, timer[t].due_by # "none",
         timer' = [timer EXCEPT ![t].due_by = date],
         UNCHANGED <<refcount, list, stopped, frames, performVars, history>>
  PROVE  LoopInv' /\ Calms
<1> DEFINE new == [heap.timer[t] EXCEPT !.due_by = date]
           g == [heap EXCEPT !.timer[t] = new]
<1>1. /\ heap \in Heaps /\ TimerOK(heap, t) /\ owned \in [Timers -> Nat]
      /\ Own(heap, t) \in Nat /\ owned[t] \in Nat /\ heap.refcount[t] \in Nat
  BY InvTimer
<1>2. heap.refcount[t] > 0
  BY <1>1, HeapIs, GoneIs DEF TimerOK
<1>3. /\ new \in HostObjects /\ new.run_loop = heap.timer[t].run_loop
      /\ new.target = heap.timer[t].target /\ new.repeats = heap.timer[t].repeats
      /\ new.running = heap.timer[t].running
  BY <1>1, HostObjectIs DEF HostObjects
<1>4. heap' = g
  BY DEF heap
<1>5. heap.timer[t].due_by # "none" /\ heap'.refcount = heap.refcount
  BY HeapIs DEF heap
<1> HIDE DEF new
<1>6. Moves(heap, g, t, Own(heap, t), new)
  BY <1>1, <1>2, <1>3, ObjectIs
<1> HIDE DEF g
<1>7. Moves(heap, heap', t, Own(heap, t), new) /\ heap'.timer[t] = new
  BY <1>4, <1>6 DEF Moves
<1>8. Kept(heap, heap', t) /\ SameFlag(heap, heap', t)
  BY <1>2, <1>3, <1>5, <1>7 DEF Kept, SameFlag, Flag, Settled
<1>9. owned' = owned /\ frames' = frames /\ fired' = fired /\ OtherTypes'
  BY DEF history, performVars, LoopInv, OtherTypes
<1>10. Own(heap, t) = (Own(heap, t) - owned[t]) + owned'[t]
  BY <1>1, <1>9
<1>11. heap'.refcount[t] > 0
  BY <1>2, <1>5
<1>12. Stays(heap, heap', t)
  BY <1>3, <1>7 DEF Stays
<1>13. Calms
  BY <1>7, <1>8, <1>12, CalmOne
<1>14. QED
  BY <1>1, <1>7, <1>8, <1>9, <1>10, <1>11, <1>13, OneTimerStep

(* The clock and -setFireDate:.                                            *)
LEMMA DateSteps ==
  ASSUME LoopInv, NEW t \in Timers,
         \/ Tick(t)
         \/ \E th \in Threads, date \in {"later", "now"} : SetFireDate(th, t, date)
  PROVE  LoopInv' /\ Calms
<1>1. CASE Tick(t)
  BY <1>1, DateStep DEF Tick
<1>2. CASE \E th \in Threads, date \in {"later", "now"} : SetFireDate(th, t, date)
  <2>1. PICK th \in Threads, date \in {"later", "now"} : SetFireDate(th, t, date)
    BY <1>2
  <2>2. QED
    BY <2>1, DateStep DEF SetFireDate
<1>3. QED
  BY <1>1, <1>2

(* The requests of a target in a loop are dropped.                         *)
LEMMA CancelPerformsStep ==
  ASSUME LoopInv, NEW th \in Threads, NEW l \in Threads, NEW target \in Targets,
         CancelPerforms(th, l, target)
  PROVE  /\ LoopInv'
         /\ \A t \in Timers :
              /\ Kept(heap, heap', t)
              /\ heap'.timer[t].running => heap.timer[t].running
              /\ ~ CancelsWaited /\ asker[t] # Nil => Stays(heap, heap', t)
<1> DEFINE dropped == {t \in Timers : timer[t].target = target /\ list[l][t] > 0}
           g == AllInvalidated(heap, dropped)
<1>1. heap \in Heaps /\ (\A t \in Timers : TimerOK(heap, t)) /\ owned \in [Timers -> Nat]
  BY DEF LoopInv, HeapOK, CountsOK
<1>2. Becomes(g) /\ Forget(g)
  BY DEF CancelPerforms
<1>3. dropped \in SUBSET Timers
  OBVIOUS
<1> HIDE DEF dropped
<1>4. /\ g \in Heaps
      /\ \A t \in Timers :
           /\ TimerOK(g, t)
           /\ Own(g, t) = Own(heap, t)
           /\ t \in dropped => g.timer[t] =
                IF Own(heap, t) = 0 THEN Gone
                ELSE [heap.timer[t] EXCEPT !.due_by = "none", !.run_loop = Nil]
           /\ t \notin dropped => g.timer[t] = heap.timer[t]
  BY <1>1, <1>3, AllInvalidatedIs
<1>5. heap' = g
  BY <1>2, <1>4, BecomesIs
<1> HIDE DEF g
<1>6. ASSUME NEW t \in Timers
      PROVE  Kept(heap, g, t) /\ SameFlag(heap, g, t)
  <2>1. CASE t \in dropped
    BY <1>1, <1>4, <2>1, InvalidatedKept
  <2>2. CASE t \notin dropped
    <3>1. g.timer[t] = heap.timer[t]
      BY <1>4, <2>2
    <3>2. heap.refcount[t] = 0 => g.timer[t].target = Nil
      BY <1>1, <3>1, GoneIs DEF TimerOK
    <3>3. QED
      BY <3>1, <3>2 DEF Kept, SameFlag
  <2>3. QED
    BY <2>1, <2>2
<1>7. HeapOK(heap') /\ \A t \in Timers : Kept(heap, heap', t)
  <2>1. HeapOK(heap)
    BY DEF LoopInv
  <2>2. HeapOK(g)
    BY <1>4, <1>6, <2>1, KeptOK
  <2>3. QED
    BY <1>5, <1>6, <2>2
<1>8. owned' = owned /\ frames' = frames /\ UNCHANGED <<stopped, sync, waiting, cancelled>>
  BY DEF CancelPerforms, performVars
<1>9. ASSUME NEW t \in Timers
      PROVE  Holds(heap, heap', owned, owned', t)
  <2>1. Own(g, t) = Own(heap, t) /\ Own(heap, t) \in Nat /\ owned[t] \in Nat
    BY <1>1, <1>4 DEF TimerOK
  <2>2. Own(g, t) = (Own(heap, t) - owned[t]) + owned[t]
    BY <2>1
  <2>3. QED
    BY <1>5, <1>6, <1>8, <2>2 DEF Holds
<1>10. \A o \in Threads : \A i \in 1 .. Len(frames[o]) :
         frames[o][i].kind = "fire" => owned'[frames[o][i].timer] > 0
  BY <1>8 DEF LoopInv, FiresOwned
<1>11. StillFired(heap', fired, fired')
  BY <1>2, <1>5 DEF Forget, StillFired, LoopInv, FiredOK
<1>12. OtherTypes'
  BY <1>2, <1>8, ForgetTypes DEF LoopInv
<1>13. ASSUME NEW t \in Timers
       PROVE  /\ heap'.timer[t].running => heap.timer[t].running
              /\ ~ CancelsWaited /\ asker[t] # Nil => Stays(heap, heap', t)
  <2>1. heap'.timer[t].running => heap.timer[t].running
    BY <1>5, <1>6, FlagFalls
  <2>2. ~ CancelsWaited /\ asker[t] # Nil => t \notin dropped
    BY DEF CancelPerforms, dropped
  <2>3. QED
    BY <1>4, <1>5, <2>1, <2>2 DEF Stays
<1>14. QED
  BY <1>1, <1>7, <1>8, <1>9, <1>10, <1>11, <1>12, <1>13, QuietStep

(* Calls that change no timer.                                             *)
LEMMA OtherCalls ==
  ASSUME LoopInv, NEW th \in Threads,
         \/ \E l \in Threads : CFRunLoopStop(th, l)
         \/ \E target \in Targets, all \in BOOLEAN : CancelPrevious(th, target, all)
  PROVE  LoopInv' /\ Calms
<1>1. heap' = heap /\ frames' = frames /\ owned' = owned /\ fired' = fired
  BY HeapIs DEF CFRunLoopStop, CancelPrevious, history
<1>2. OtherTypes'
  <2>1. CASE \E l \in Threads : CFRunLoopStop(th, l)
    BY <2>1 DEF CFRunLoopStop, LoopInv, OtherTypes, performVars, history
  <2>2. CASE \E target \in Targets, all \in BOOLEAN : CancelPrevious(th, target, all)
    BY <2>2 DEF CancelPrevious, LoopInv, OtherTypes
  <2>3. QED
    BY <2>1, <2>2
<1>3. Calms
  BY <1>1, CalmNone, SameKept DEF Same, LoopInv, HeapOK
<1>4. QED
  BY <1>1, <1>2, <1>3 DEF LoopInv

-----------------------------------------------------------------------------
(* The steps that change the frames.                                       *)

(* The frame that runs.                                                    *)
LEMMA TopIs ==
  ASSUME LoopInv, NEW th \in Threads, frames[th] # << >>
  PROVE  /\ frames \in Stacks /\ Len(frames[th]) \in Nat /\ Len(frames[th]) > 0
         /\ Len(frames[th]) \in 1 .. Len(frames[th])
         /\ Top(th) = frames[th][Len(frames[th])]
         /\ Top(th) \in Frames
         /\ FrameOK(frames, th, Len(frames[th]))
<1>1. frames \in Stacks
  BY DEF LoopInv, StacksOK
<1>2. Len(frames[th]) \in Nat /\ Len(frames[th]) > 0 /\ Len(frames[th]) \in 1 .. Len(frames[th])
  <2>1. frames[th] \in Seq(Frames)
    BY <1>1 DEF Stacks
  <2>2. QED
    BY <2>1
<1>3. Top(th) = frames[th][Len(frames[th])]
  BY <1>1, FrontPops DEF Top
<1>4. Top(th) \in Frames
  BY <1>1, <1>2, <1>3, StackIs
<1>5. FrameOK(frames, th, Len(frames[th]))
  BY <1>2 DEF LoopInv, StacksOK
<1>6. QED
  BY <1>1, <1>2, <1>3, <1>4, <1>5

(* A timer that an iteration has yet to handle.                            *)
LEMMA LoopHolds ==
  ASSUME LoopInv, NEW th \in Threads, NEW i \in 1 .. Len(frames[th]), NEW t \in Timers,
         frames[th][i].kind = "loop", frames[th][i].rest[t] > 0
  PROVE  /\ frames[th][i].rest[t] = 1
         /\ Tally(frames, "loop", t) > 0
         /\ Own(heap, t) > 0 /\ heap.refcount[t] > 0
<1>1. frames \in Stacks /\ CountsOK(heap, frames, owned)
  BY DEF LoopInv, StacksOK
<1>2. frames[th][i].rest[t] = 1
  BY DEF LoopInv, StacksOK, FrameOK
<1>3. Tally(frames, "loop", t) > 0
  <2>1. Counts(frames[th][i], "loop", t)
    BY <1>2 DEF Counts, Refers
  <2>2. QED
    BY <1>1, <2>1, CountedRefers
<1>4. /\ owned[t] \in Nat /\ Tally(frames, "loop", t) \in Nat
      /\ Tally(frames, "callback", t) \in Nat
      /\ Own(heap, t) = owned[t] + Tally(frames, "loop", t) + Tally(frames, "callback", t)
  BY <1>1, CountsAre
<1>5. Own(heap, t) > 0
  BY <1>3, <1>4
<1>6. heap.refcount[t] > 0
  BY <1>5, InvTimer, RefcountIs
<1>7. QED
  BY <1>2, <1>3, <1>5, <1>6

(* What has been fired is settled still, after a call that may free.       *)
LEMMA ForgetFired ==
  ASSUME LoopInv, NEW h, Forget(h)
  PROVE  StillFired(h, fired, fired')
BY DEF Forget, StillFired, LoopInv, FiredOK

(* -fire calls the target.                                                 *)
LEMMA FireStep ==
  ASSUME LoopInv, NEW th \in Threads, NEW t \in Timers, Fire(th, t)
  PROVE  LoopInv' /\ Calms /\ Old("callback", frames, frames')
<1> DEFINE f == [kind |-> "fire", timer |-> t, repeats |-> timer[t].repeats]
<1>1. heap' = heap /\ owned' = owned /\ fired' = fired
  BY HeapIs DEF Fire, history
<1>2. OtherTypes'
  BY DEF Fire, LoopInv, OtherTypes, performVars, history
<1>3. /\ frames \in Stacks /\ StacksOK(frames) /\ HeapOK(heap)
      /\ CountsOK(heap, frames, owned) /\ FiresOwned(heap, frames, owned)
  BY DEF LoopInv, StacksOK
<1>4. f \in Frames /\ f.kind = "fire" /\ f.timer = t
  <2>1. timer[t].repeats \in BOOLEAN
    BY <1>3, HostObjectIs, HeapIs DEF HeapOK, HostObjects
  <2>2. f \in FireFrames
    BY <2>1 DEF FireFrames
  <2>3. QED
    BY <2>2 DEF Frames
<1>5. frames' = [frames EXCEPT ![th] = Append(@, f)]
  BY DEF Fire
<1> HIDE DEF f
<1>6. Pushed(frames, frames', th, f)
  BY <1>3, <1>4, <1>5, AppendPushes
<1>7. StacksOK(frames')
  BY <1>3, <1>4, <1>6, StacksPushed
<1>8. ASSUME NEW u \in Timers
      PROVE  Adds(heap, heap', f, u)
  <2>1. Own(heap, u) \in Nat
    BY InvTimer
  <2>2. In(f, "loop", u) = 0 /\ In(f, "callback", u) = 0 /\ Flag(heap.timer[u]) \in Nat
    BY <1>4 DEF In, Counts, Flag
  <2>3. QED
    BY <1>1, <2>1, <2>2 DEF Adds
<1>9. CountsOK(heap', frames', owned)
  BY <1>3, <1>4, <1>6, <1>8, CountsPushed
<1>10. \A u \in Timers : Kept(heap, heap', u)
  BY <1>1, <1>3, SameKept DEF Same, HeapOK
<1>11. FiresOwned(heap', frames', owned')
  <2>1. heap.timer[t].target = Nil /\ owned[t] > 0
    BY HeapIs DEF Fire, Knows
  <2>2. ASSUME NEW o \in Threads, NEW i \in 1 .. Len(frames'[o]), frames'[o][i].kind = "fire"
        PROVE  /\ owned[frames'[o][i].timer] > 0
               /\ \/ i \in 1 .. Len(frames[o]) /\ frames[o][i] = frames'[o][i]
                  \/ /\ heap.timer[frames'[o][i].timer].target = Nil
                     /\ owned[frames'[o][i].timer] > 0
    <3>1. CASE i \in 1 .. Len(frames[o]) /\ frames[o][i] = frames'[o][i]
      BY <1>3, <2>2, <3>1 DEF FiresOwned
    <3>2. CASE frames'[o][i] = f
      BY <1>4, <2>1, <3>2
    <3>3. QED
      <4>1. Len(frames[th]) \in Nat
        BY <1>3, StackIs
      <4>2. QED
        BY <1>6, <3>1, <3>2, <4>1 DEF Pushed
  <2>3. frames' \in Stacks /\ HeapOK(heap')
    BY <1>1, <1>3, <1>7 DEF StacksOK
  <2>4. FiresOwned(heap', frames', owned)
    BY <1>3, <1>9, <1>10, <2>2, <2>3, FiresStep
  <2>5. QED
    BY <1>1, <2>4
<1>12. Calms /\ Old("callback", frames, frames')
  <2>1. Calms
    BY <1>1, <1>10, CalmNone
  <2>2. f.kind # "callback"
    BY <1>4
  <2>3. QED
    BY <1>3, <1>6, <2>1, <2>2, OldIs
<1>13. QED
  BY <1>1, <1>2, <1>3, <1>7, <1>9, <1>11, <1>12 DEF LoopInv

(* The target returns to -fire, which invalidates a one-shot timer.        *)
LEMMA FireReturnsStep ==
  ASSUME LoopInv, NEW th \in Threads, FireReturns(th)
  PROVE  LoopInv' /\ Calms /\ Old("callback", frames, frames')
<1> DEFINE n == Len(frames[th])
           f == frames[th][n]
           t == f.timer
           g == IF f.repeats THEN heap ELSE invalidate(heap, t)
<1>1. /\ frames \in Stacks /\ n \in Nat /\ n > 0 /\ n \in 1 .. n
      /\ Top(th) = f /\ f \in Frames /\ f.kind = "fire" /\ frames[th] # << >>
  BY TopIs DEF FireReturns, IsTop
<1>2. t \in Timers
  BY <1>1, FrameIs DEF FireFrames
<1>3. /\ Becomes(g) /\ Forget(g)
      /\ frames' = [frames EXCEPT ![th] = SX!Front(@)]
      /\ owned' = owned /\ UNCHANGED <<stopped, sync, waiting, cancelled>>
  BY <1>1 DEF FireReturns, performVars
<1>4. /\ HeapOK(heap) /\ heap \in Heaps /\ TimerOK(heap, t) /\ StacksOK(frames)
      /\ CountsOK(heap, frames, owned) /\ Own(heap, t) \in Nat /\ Own(heap, t) > 0
  <2>1. owned[t] > 0
    BY <1>1 DEF LoopInv, FiresOwned
  <2>2. Own(heap, t) >= owned[t] /\ owned[t] \in Nat /\ Own(heap, t) \in Nat
        /\ heap \in Heaps /\ TimerOK(heap, t)
    BY <1>2, InvTimer
  <2> HIDE DEF t
  <2>3. Own(heap, t) > 0
    BY <2>1, <2>2
  <2>4. QED
    BY <2>2, <2>3 DEF LoopInv
<1>5. Popped(frames, frames', th)
  BY <1>1, <1>3, FrontPops
<1> HIDE DEF t
<1>6. /\ g \in Heaps
      /\ \E new : Moves(heap, g, t, Own(heap, t), new)
      /\ Kept(heap, g, t) /\ SameFlag(heap, g, t)
  <2>1. CASE f.repeats
    <3>1. g = heap
      BY <2>1
    <3>2. Same(heap, heap, t) /\ \A u \in Timers : Same(heap, heap, u)
      BY DEF Same
    <3>3. Moves(heap, heap, t, Own(heap, t), heap.timer[t])
      BY <1>4, <3>2 DEF Moves
    <3>4. Kept(heap, heap, t)
      BY <1>2, <1>4, <3>2, SameKept
    <3>5. QED
      BY <1>4, <3>1, <3>3, <3>4 DEF SameFlag
  <2>2. CASE ~ f.repeats
    <3>1. g = invalidate(heap, t)
      BY <2>2
    <3>2. QED
      BY <1>2, <1>4, <3>1, InvalidateKept
  <2>3. QED
    BY <2>1, <2>2
<1> HIDE DEF g
<1>7. heap' = g
  BY <1>3, <1>6, BecomesIs
<1>8. PICK new : Moves(heap, g, t, Own(heap, t), new)
  BY <1>6
<1>9. /\ HeapOK(g)
      /\ \A u \in Timers : Kept(heap, g, u)
      /\ Own(g, t) = Own(heap, t)
      /\ \A u \in Timers \ {t} : Own(g, u) = Own(heap, u) /\ g.timer[u] = heap.timer[u]
  BY <1>2, <1>4, <1>6, <1>8, MovesOK
<1>10. ASSUME NEW u \in Timers
       PROVE  Adds(g, heap, f, u) /\ TimerOK(g, u)
  <2>1. Own(g, u) \in Nat /\ TimerOK(g, u)
    BY <1>9 DEF HeapOK, TimerOK
  <2>2. Own(g, u) = Own(heap, u) /\ Flag(g.timer[u]) = Flag(heap.timer[u])
    <3>1. CASE u = t
      <4>1. Own(g, t) # 0 /\ Own(g, t) = Own(heap, t)
        BY <1>4, <1>9
      <4>2. QED
        BY <1>6, <3>1, <4>1 DEF SameFlag
    <3>2. CASE u # t
      BY <1>9, <3>2
    <3>3. QED
      BY <3>1, <3>2
  <2>3. In(f, "loop", u) = 0 /\ In(f, "callback", u) = 0 /\ Flag(g.timer[u]) \in Nat
    BY <1>1 DEF In, Counts, Flag
  <2> HIDE DEF f
  <2>4. QED
    BY <2>1, <2>2, <2>3 DEF Adds
<1>11. CountsOK(g, frames', owned)
  BY <1>1, <1>4, <1>5, <1>10, CountsPopped
<1>12. StacksOK(frames') /\ Old("fire", frames, frames') /\ Old("callback", frames, frames')
  BY <1>1, <1>4, <1>5, StacksPopped, OldIs
<1>13. StillFired(g, fired, fired') /\ OtherTypes'
  BY <1>3, ForgetFired, ForgetTypes DEF LoopInv
<1>14. Calms
  <2>1. heap.timer[t].target = Nil
    BY <1>1 DEF LoopInv, FiresOwned, t
  <2>2. QED
    BY <1>2, <1>6, <1>7, <1>8, <2>1, CalmOne
<1>15. QED
  BY <1>3, <1>7, <1>9, <1>11, <1>12, <1>13, <1>14, FrameStep

(* The copy of a loop's list, with the references it holds.                *)
LEMMA CopyIs ==
  ASSUME LoopInv, NEW th \in Threads, Becomes(RetainAll(heap, list[th]))
  PROVE  /\ HeapOK(heap')
         /\ list[th] \in Lists
         /\ \A t \in Timers : /\ Kept(heap, heap', t)
                              /\ list[th][t] \in {0, 1}
                              /\ Own(heap', t) = Own(heap, t) + list[th][t]
                              /\ heap'.timer[t] = heap.timer[t]
                              /\ heap.refcount[t] > 0 => heap'.refcount[t] > 0
<1> DEFINE g == RetainAll(heap, heap.list[th])
<1>1. heap \in Heaps /\ HeapOK(heap) /\ \A t \in Timers : TimerOK(heap, t)
  BY DEF LoopInv, HeapOK
<1>2. /\ g \in Heaps
      /\ g.timer = heap.timer
      /\ \A t \in Timers : /\ TimerOK(g, t)
                           /\ Own(g, t) = Own(heap, t) + heap.list[th][t]
                           /\ heap.refcount[t] = 0 => heap.list[th][t] = 0
  BY <1>1, RetainAllIs
<1>3. heap.list = list
  BY HeapIs
<1>4. heap' = g
  BY <1>2, <1>3, BecomesIs
<1> HIDE DEF g
<1>5. list[th] \in Lists
  BY <1>1, <1>3 DEF Heaps
<1>6. ASSUME NEW t \in Timers
      PROVE  /\ Kept(heap, g, t)
             /\ list[th][t] \in {0, 1}
             /\ Own(g, t) = Own(heap, t) + list[th][t]
             /\ g.timer[t] = heap.timer[t]
             /\ heap.refcount[t] > 0 => g.refcount[t] > 0
  <2>1. list[th][t] \in {0, 1}
    BY <1>1, <1>3 DEF TimerOK
  <2>2. heap.refcount[t] = 0 => g.timer[t].target = Nil
    BY <1>1, <1>2, GoneIs DEF TimerOK
  <2>3. Kept(heap, g, t)
    BY <1>2, <2>2 DEF Kept
  <2>4. InLoop(g, t) = InLoop(heap, t)
    BY <1>2 DEF InLoop
  <2>5. /\ g.refcount[t] \in Nat /\ heap.refcount[t] \in Nat
        /\ InLoop(heap, t) \in {0, 1} /\ Own(heap, t) \in Nat
        /\ g.refcount[t] = Own(g, t) + InLoop(g, t)
        /\ heap.refcount[t] = Own(heap, t) + InLoop(heap, t)
    BY <1>1, <1>2, RefcountIs
  <2>6. Own(g, t) = Own(heap, t) + list[th][t]
    BY <1>2, <1>3
  <2>7. heap.refcount[t] > 0 => g.refcount[t] > 0
    BY <2>1, <2>4, <2>5, <2>6
  <2>8. QED
    BY <1>2, <2>1, <2>3, <2>6, <2>7
<1>7. HeapOK(g)
  BY <1>1, <1>2, <1>6, KeptOK
<1>8. QED
  BY <1>4, <1>5, <1>6, <1>7

(* A run of the loop begins with such a copy.                              *)
LEMMA RunLoopStep ==
  ASSUME LoopInv, NEW th \in Threads, NEW single \in BOOLEAN, Run(th, single)
  PROVE  LoopInv' /\ Calms /\ Old("callback", frames, frames')
<1> DEFINE f == [kind |-> "loop", single |-> single, rest |-> list[th]]
<1>1. /\ Becomes(RetainAll(heap, list[th])) /\ owned' = owned /\ fired' = fired
      /\ frames' = [frames EXCEPT ![th] = Append(@, f)]
  BY DEF Run, history
<1>2. OtherTypes'
  BY DEF Run, LoopInv, OtherTypes, performVars, history
<1>3. /\ frames \in Stacks /\ StacksOK(frames) /\ CountsOK(heap, frames, owned)
  BY DEF LoopInv, StacksOK
<1>4. /\ HeapOK(heap')
      /\ list[th] \in Lists
      /\ \A t \in Timers : /\ Kept(heap, heap', t)
                           /\ list[th][t] \in {0, 1}
                           /\ Own(heap', t) = Own(heap, t) + list[th][t]
                           /\ heap'.timer[t] = heap.timer[t]
                           /\ heap.refcount[t] > 0 => heap'.refcount[t] > 0
  BY <1>1, CopyIs
<1>5. f \in Frames /\ f.kind = "loop" /\ f.rest = list[th]
  BY <1>4 DEF Frames, LoopFrames
<1> HIDE DEF f
<1>6. Pushed(frames, frames', th, f)
  BY <1>1, <1>3, <1>5, AppendPushes
<1>7. StacksOK(frames')
  <2>1. f.kind = "loop" => \A t \in Timers : f.rest[t] \in {0, 1}
    BY <1>4, <1>5
  <2>2. f.kind = "callback" => /\ Len(frames[th]) > 0
                               /\ frames[th][Len(frames[th])].kind = "loop"
                               /\ frames[th][Len(frames[th])].rest[f.timer] = 1
    BY <1>5
  <2>3. QED
    BY <1>3, <1>5, <1>6, <2>1, <2>2, StacksPushed
<1>8. Old("fire", frames, frames') /\ Old("callback", frames, frames')
  BY <1>3, <1>5, <1>6, OldIs
<1>9. ASSUME NEW t \in Timers
      PROVE  Adds(heap, heap', f, t)
  <2>1. In(f, "loop", t) = list[th][t] /\ In(f, "callback", t) = 0
    BY <1>4, <1>5 DEF In, Counts, Refers
  <2>2. Own(heap, t) \in Nat /\ Flag(heap.timer[t]) \in Nat /\ list[th][t] \in {0, 1}
    BY <1>4, InvTimer DEF Flag
  <2>3. Own(heap', t) = Own(heap, t) + list[th][t] /\ heap'.timer[t] = heap.timer[t]
    BY <1>4
  <2>4. QED
    BY <2>1, <2>2, <2>3 DEF Adds
<1>10. CountsOK(heap', frames', owned)
  BY <1>3, <1>5, <1>6, <1>9, CountsPushed
<1>11. StillFired(heap', fired, fired')
  BY <1>1, <1>4 DEF StillFired, LoopInv, FiredOK
<1>12. Calms
  <2>1. heap'.timer = heap.timer
    <3>1. heap \in Heaps /\ heap' \in Heaps
      BY <1>4 DEF LoopInv, HeapOK
    <3>2. QED
      BY <1>4, <3>1 DEF Heaps
  <2>2. QED
    BY <1>4, <2>1, CalmNone
<1>13. QED
  BY <1>1, <1>2, <1>4, <1>7, <1>8, <1>10, <1>11, <1>12, FrameStep

(* So does each iteration; after the last one the loop returns.            *)
LEMMA WakeStep ==
  ASSUME LoopInv, NEW th \in Threads, Wake(th)
  PROVE  LoopInv' /\ Calms /\ Old("callback", frames, frames')
<1> DEFINE n == Len(frames[th])
           e == frames[th][n]
<1>1. /\ frames \in Stacks /\ n \in Nat /\ n > 0 /\ n \in 1 .. n
      /\ Top(th) = e /\ e \in Frames /\ e.kind = "loop" /\ frames[th] # << >>
      /\ e.rest = EmptyList
  BY TopIs DEF Wake, IsTop
<1>2. /\ HeapOK(heap) /\ StacksOK(frames) /\ CountsOK(heap, frames, owned)
  BY DEF LoopInv
<1>3. owned' = owned /\ fired' = fired /\ stopped' \in [Threads -> BOOLEAN]
      /\ UNCHANGED <<sync, waiting, cancelled, revoked, asker>>
  BY DEF Wake, performVars, history, LoopInv, OtherTypes
<1>4. OtherTypes'
  BY <1>3 DEF LoopInv, OtherTypes
<1>5. \A t \in Timers : In(e, "loop", t) = 0 /\ In(e, "callback", t) = 0
  BY <1>1 DEF In, Counts, Refers, EmptyList
<1>6. CASE frames' = [frames EXCEPT ![th] = SX!Front(@)] /\ UNCHANGED objectVars
  <2>1. heap' = heap
    BY <1>6, HeapIs
  <2>2. Popped(frames, frames', th)
    BY <1>1, <1>6, FrontPops
  <2>3. \A t \in Timers : Kept(heap, heap', t)
    BY <1>2, <2>1, SameKept DEF Same, HeapOK
  <2>4. ASSUME NEW t \in Timers
        PROVE  Adds(heap', heap, e, t) /\ TimerOK(heap', t)
    <3>1. Own(heap, t) \in Nat /\ Flag(heap.timer[t]) \in Nat /\ TimerOK(heap, t)
      BY InvTimer DEF Flag
    <3>2. In(e, "loop", t) = 0 /\ In(e, "callback", t) = 0
      BY <1>5
    <3> HIDE DEF e
    <3>3. QED
      BY <2>1, <3>1, <3>2 DEF Adds
  <2>5. CountsOK(heap', frames', owned)
    BY <1>1, <1>2, <2>2, <2>4, CountsPopped
  <2>6. StacksOK(frames') /\ Old("fire", frames, frames') /\ Old("callback", frames, frames')
    BY <1>1, <1>2, <2>2, StacksPopped, OldIs
  <2>7. StillFired(heap', fired, fired') /\ HeapOK(heap')
    BY <1>2, <1>3, <2>1 DEF StillFired, LoopInv, FiredOK
  <2>8. Calms
    BY <2>1, <2>3, CalmNone
  <2>9. QED
    BY <1>3, <1>4, <2>3, <2>5, <2>6, <2>7, <2>8, FrameStep
<1>7. CASE /\ frames' = [frames EXCEPT ![th][Len(frames[th])].rest = list[th]]
           /\ Becomes(RetainAll(heap, list[th]))
  <2> DEFINE f == [e EXCEPT !.rest = list[th]]
  <2>1. /\ HeapOK(heap')
        /\ list[th] \in Lists
        /\ \A t \in Timers : /\ Kept(heap, heap', t)
                             /\ list[th][t] \in {0, 1}
                             /\ Own(heap', t) = Own(heap, t) + list[th][t]
                             /\ heap'.timer[t] = heap.timer[t]
                             /\ heap.refcount[t] > 0 => heap'.refcount[t] > 0
    BY <1>7, CopyIs
  <2>2. f \in Frames /\ f.kind = "loop" /\ f.rest = list[th]
    <3>1. e \in LoopFrames
      BY <1>1, FrameIs
    <3> HIDE DEF e
    <3>2. f \in LoopFrames /\ f.kind = "loop" /\ f.rest = list[th]
      BY <2>1, <3>1 DEF LoopFrames
    <3>3. QED
      BY <3>2 DEF Frames
  <2>3. frames' = [frames EXCEPT ![th] = [frames[th] EXCEPT ![n] = f]]
    BY <1>7
  <2> HIDE DEF f
  <2>4. Replaced(frames, frames', th, n, f)
    BY <1>1, <2>2, <2>3, ExceptReplaces
  <2>5. StacksOK(frames')
    <3>1. \A t \in Timers : f.rest[t] \in {0, 1}
      BY <2>1, <2>2
    <3>2. Replaced(frames, frames', th, Len(frames[th]), f)
      BY <2>4
    <3>3. QED
      BY <1>2, <2>2, <3>1, <3>2, StacksReplaced
  <2>6. Old("fire", frames, frames') /\ Old("callback", frames, frames')
    BY <1>1, <2>2, <2>4, OldIs
  <2>7. ASSUME NEW t \in Timers
        PROVE  Swaps(heap, heap', e, f, t)
    <3>1. In(f, "loop", t) = list[th][t] /\ In(e, "loop", t) = 0
      BY <1>5, <2>1, <2>2 DEF In, Counts, Refers
    <3>2. Own(heap, t) \in Nat /\ list[th][t] \in {0, 1}
      BY <2>1, InvTimer
    <3>3. Own(heap', t) = Own(heap, t) + list[th][t] /\ heap'.timer[t] = heap.timer[t]
      BY <2>1
    <3>4. QED
      BY <3>1, <3>2, <3>3 DEF Swaps, SameFlag
  <2>8. CountsOK(heap', frames', owned)
    BY <1>1, <1>2, <2>2, <2>4, <2>7, CountsReplaced
  <2>9. StillFired(heap', fired, fired')
    BY <1>3, <2>1 DEF StillFired, LoopInv, FiredOK
  <2>10. Calms
    <3>1. heap \in Heaps /\ heap' \in Heaps
      BY <2>1 DEF LoopInv, HeapOK
    <3>2. heap'.timer = heap.timer
      BY <2>1, <3>1 DEF Heaps
    <3>3. QED
      BY <2>1, <3>2, CalmNone
  <2>11. QED
    BY <1>3, <1>4, <2>1, <2>5, <2>6, <2>8, <2>9, <2>10, FrameStep
<1>8. QED
  BY <1>6, <1>7 DEF Wake

(* A loop without one of the timers it has yet to handle.                  *)
Less(e, t) == [e EXCEPT !.rest[t] = @ - 1]

(* It has a reference to one timer less.                                   *)
LEMMA LessIs ==
  ASSUME NEW e \in LoopFrames, NEW t \in Timers, \A u \in Timers : e.rest[u] \in {0, 1},
         e.rest[t] > 0
  PROVE  /\ Less(e, t) \in Frames /\ Less(e, t).kind = "loop"
         /\ \A u \in Timers : Less(e, t).rest[u] \in {0, 1}
         /\ In(e, "loop", t) = 1 /\ In(Less(e, t), "loop", t) = 0
         /\ \A u \in Timers \ {t} : In(Less(e, t), "loop", u) = In(e, "loop", u)
<1> DEFINE f == Less(e, t)
<1>1. e.rest \in [Timers -> Nat] /\ e.kind = "loop"
  BY DEF LoopFrames, Lists
<1>2. e.rest[t] = 1 /\ e.rest[t] - 1 = 0
  OBVIOUS
<1>3. f = [e EXCEPT !.rest = [e.rest EXCEPT ![t] = 0]]
  BY <1>2 DEF Less
<1> HIDE DEF f
<1>4. /\ [e.rest EXCEPT ![t] = 0] \in [Timers -> Nat]
      /\ [e.rest EXCEPT ![t] = 0][t] = 0
      /\ \A u \in Timers \ {t} : [e.rest EXCEPT ![t] = 0][u] = e.rest[u]
  BY <1>1
<1> DEFINE r == [e.rest EXCEPT ![t] = 0]
<1>5. f = [e EXCEPT !.rest = r]
  BY <1>3
<1> HIDE DEF r
<1>6. f \in LoopFrames /\ f.kind = "loop" /\ f.rest = r
  BY <1>4, <1>5 DEF LoopFrames, Lists, r
<1>7. r[t] = 0 /\ \A u \in Timers \ {t} : r[u] = e.rest[u]
  BY <1>4 DEF r
<1>8. f \in Frames
  BY <1>6 DEF Frames
<1>9. QED
  BY <1>1, <1>2, <1>6, <1>7, <1>8 DEF In, Counts, Refers, f

(* The loop on the top of a stack is done with a timer.                    *)
Without(fs, th, t) ==
  [fs EXCEPT ![th] = [fs[th] EXCEPT ![Len(fs[th])] = Less(fs[th][Len(fs[th])], t)]]

(* It drops the reference, and the counts agree again.                     *)
LEMMA HandledIs ==
  ASSUME NEW h, NEW fs, NEW ow, HeapOK(h), StacksOK(fs), CountsOK(h, fs, ow), NEW th \in Threads,
         NEW n, n = Len(fs[th]), n > 0, fs[th][n].kind = "loop",
         NEW t \in Timers, fs[th][n].rest[t] > 0,
         NEW gs, gs = Without(fs, th, t)
  PROVE  /\ HeapOK(release(h, t)) /\ \A u \in Timers : Kept(h, release(h, t), u)
         /\ \E new : Moves(h, release(h, t), t, Own(h, t) - 1, new)
         /\ CountsOK(release(h, t), gs, ow)
         /\ StacksOK(gs) /\ Old("fire", fs, gs) /\ Old("callback", fs, gs)
<1> DEFINE g == release(h, t)
           e == fs[th][n]
           f == Less(e, t)
<1>1. fs \in Stacks /\ n \in Nat /\ n \in 1 .. n /\ n \in 1 .. Len(fs[th])
  BY StackIs DEF StacksOK
<1>2. e \in LoopFrames /\ \A u \in Timers : e.rest[u] \in {0, 1}
  BY <1>1, StackIs, FrameIs DEF StacksOK, FrameOK
<1>3. e.rest[t] > 0 /\ gs = [fs EXCEPT ![th] = [fs[th] EXCEPT ![n] = f]]
  BY DEF Without
<1> HIDE DEF e
<1>4. /\ f \in Frames /\ f.kind = "loop"
      /\ \A u \in Timers : f.rest[u] \in {0, 1}
      /\ In(e, "loop", t) = 1 /\ In(f, "loop", t) = 0
      /\ \A u \in Timers \ {t} : In(f, "loop", u) = In(e, "loop", u)
  BY <1>2, <1>3, LessIs
<1> HIDE DEF f
<1>5. Replaced(fs, gs, th, n, f)
  BY <1>1, <1>3, <1>4, ExceptReplaces
<1>6. StacksOK(gs)
  <2>1. Replaced(fs, gs, th, Len(fs[th]), f)
    BY <1>5
  <2>2. QED
    BY <1>4, <2>1, StacksReplaced
<1>7. Old("fire", fs, gs) /\ Old("callback", fs, gs)
  <2>1. Replaced(fs, gs, th, Len(fs[th]), f) /\ f.kind # "fire"
    BY <1>4, <1>5
  <2>2. f.kind # "callback"
    BY <1>4
  <2>3. QED
    BY <1>1, <2>1, <2>2, OldIs
<1>8. h \in Heaps /\ TimerOK(h, t) /\ Own(h, t) > 0
  <2>1. Counts(fs[th][n], "loop", t)
    BY <1>2 DEF Counts, Refers, e
  <2>2. Tally(fs, "loop", t) > 0
    BY <1>1, <2>1, CountedRefers
  <2>3. /\ ow[t] \in Nat /\ Tally(fs, "loop", t) \in Nat /\ Tally(fs, "callback", t) \in Nat
        /\ Own(h, t) = ow[t] + Tally(fs, "loop", t) + Tally(fs, "callback", t)
    BY CountsAre
  <2>4. Own(h, t) > 0
    BY <2>2, <2>3
  <2>5. QED
    BY <2>4 DEF HeapOK
<1>9. /\ g \in Heaps
      /\ \E new : Moves(h, g, t, Own(h, t) - 1, new)
      /\ Kept(h, g, t) /\ SameFlag(h, g, t)
  BY <1>8, ReleaseKept
<1> HIDE DEF g
<1>10. PICK new : Moves(h, g, t, Own(h, t) - 1, new)
  BY <1>9
<1>11. /\ HeapOK(g)
       /\ \A u \in Timers : Kept(h, g, u)
       /\ Own(g, t) = Own(h, t) - 1
       /\ \A u \in Timers \ {t} : Own(g, u) = Own(h, u) /\ g.timer[u] = h.timer[u]
  BY <1>9, <1>10, MovesOK
<1>12. ASSUME NEW u \in Timers
       PROVE  Swaps(h, g, e, f, u)
  <2>1. Own(h, u) \in Nat
    BY DEF HeapOK, TimerOK
  <2>2. CASE u = t
    BY <1>4, <1>9, <1>11, <2>1, <2>2 DEF Swaps
  <2>3. CASE u # t
    <3>1. In(e, "loop", u) \in Nat /\ In(f, "loop", u) = In(e, "loop", u)
      BY <1>4, <2>3 DEF In
    <3>2. Own(g, u) = Own(h, u) /\ g.timer[u] = h.timer[u]
      BY <1>11, <2>3
    <3>3. QED
      BY <2>1, <3>1, <3>2 DEF Swaps, SameFlag
  <2>4. QED
    BY <2>2, <2>3
<1>13. CountsOK(g, gs, ow)
  <2>1. fs[th][n].kind = "loop" /\ \A u \in Timers : Swaps(h, g, fs[th][n], f, u)
    BY <1>12 DEF e
  <2>2. QED
    BY <1>1, <1>4, <1>5, <2>1, CountsReplaced
<1>14. QED
  BY <1>6, <1>7, <1>9, <1>11, <1>13 DEF g

(* The loop passes over a timer.                                           *)
LEMMA SkipStep ==
  ASSUME LoopInv, NEW th \in Threads, Skip(th)
  PROVE  LoopInv' /\ Calms /\ Old("callback", frames, frames')
<1> DEFINE n == Len(frames[th])
<1>1. /\ frames \in Stacks /\ n \in Nat /\ n > 0 /\ frames[th] # << >>
      /\ Top(th) = frames[th][n] /\ frames[th][n].kind = "loop"
  BY TopIs DEF Skip, Handling, IsTop
<1>2. PICK t \in Timers : Top(th).rest[t] > 0 /\ Handled(th, heap, t, frames[th])
  BY DEF Skip
<1> DEFINE g == release(heap, t)
<1>3. Becomes(g) /\ Forget(g) /\ frames' = Without(frames, th, t)
  BY <1>2 DEF Handled, Less, Without
<1>4. HeapOK(heap) /\ StacksOK(frames) /\ CountsOK(heap, frames, owned)
  BY DEF LoopInv
<1>5. frames[th][n].rest[t] > 0
  BY <1>1, <1>2
<1> HIDE DEF n
<1>6. /\ HeapOK(g) /\ \A u \in Timers : Kept(heap, g, u)
      /\ \E new : Moves(heap, g, t, Own(heap, t) - 1, new)
      /\ CountsOK(g, frames', owned)
      /\ StacksOK(frames') /\ Old("fire", frames, frames') /\ Old("callback", frames, frames')
  <2>1. n = Len(frames[th])
    BY DEF n
  <2>2. QED
    BY <1>1, <1>3, <1>4, <1>5, <2>1, HandledIs
<1> HIDE DEF g
<1>7. heap' = g
  BY <1>3, <1>6, BecomesIs DEF HeapOK
<1>8. owned' = owned /\ UNCHANGED <<stopped, sync, waiting, cancelled>>
  BY DEF Skip, performVars
<1>9. StillFired(g, fired, fired') /\ OtherTypes'
  BY <1>3, <1>8, ForgetFired, ForgetTypes DEF LoopInv
<1>10. Calms
  <2>1. heap \in Heaps /\ TimerOK(heap, t)
    BY <1>4 DEF HeapOK
  <2>2. /\ Own(heap, t) > 0 /\ Tally(frames, "loop", t) > 0
    BY <1>1, <1>5, LoopHolds DEF n
  <2>3. /\ owned[t] \in Nat /\ Tally(frames, "loop", t) \in Nat
        /\ Own(heap, t) = owned[t] + Tally(frames, "loop", t) + Tally(frames, "callback", t)
        /\ Tally(frames, "callback", t) = Flag(heap.timer[t])
    BY <1>4, CountsAre
  <2>4. heap.timer[t].running => Own(heap, t) > 1
    BY <2>2, <2>3 DEF Flag
  <2>5. Stays(heap, heap', t)
    BY <1>7, <2>1, <2>2, <2>4, ReleaseStays DEF g
  <2>6. SameFlag(heap, heap', t)
    BY <1>7, <2>1, <2>2, ReleaseKept DEF g
  <2>7. QED
    BY <1>6, <1>7, <2>5, <2>6, CalmOne
<1>11. QED
  BY <1>6, <1>7, <1>8, <1>9, <1>10, FrameStep

(* The natural numbers are well ordered.                                   *)
LEMMA FirstOf ==
  ASSUME NEW S \in SUBSET Nat, S # {}
  PROVE  \E i \in S : \A j \in S : i <= j
<1> DEFINE R == OpToRel(<, Nat)
<1>1. IsWellFoundedOn(R, Nat)
  BY NatLessThanWellFounded
<1>2. R = {ss \in Nat \X Nat : ss[1] < ss[2]}
  BY DEF OpToRel
<1> HIDE DEF R
<1>3. \E x \in S : \A y \in S : ~ (<<y, x>> \in R)
  BY <1>1, WFMin
<1>4. \A x \in Nat, y \in Nat : <<y, x>> \in R <=> y < x
  BY <1>2
<1>5. PICK x \in S : \A y \in S : ~ (<<y, x>> \in R)
  BY <1>3
<1>6. ASSUME NEW y \in S
      PROVE  x <= y
  <2>1. ~ (y < x)
    BY <1>4, <1>5
  <2>2. QED
    BY <2>1
<1>7. QED
  BY <1>6

(* What the first lines of the callback do to the requests.                *)
LEMMA TakenTypes ==
  ASSUME OtherTypes, NEW t \in Timers
  PROVE  /\ SyncTaken(t) \in Seq([timer : Timers, waiter : Threads])
         /\ CancelTaken(t) \in [Targets -> {"no", "once", "always"}]
         /\ Posts(t) \in Threads \cup {Nil}
<1>1. sync \in Seq([timer : Timers, waiter : Threads])
  BY DEF OtherTypes
<1>2. ASSUME Semaphores(t) # {}
      PROVE  /\ FirstSemaphore(t) \in DOMAIN sync
             /\ sync[FirstSemaphore(t)] \in [timer : Timers, waiter : Threads]
  <2>1. DOMAIN sync = 1 .. Len(sync) /\ Len(sync) \in Nat
    BY <1>1
  <2>2. Semaphores(t) \in SUBSET Nat /\ Semaphores(t) \subseteq DOMAIN sync
    BY <2>1 DEF Semaphores
  <2>3. \E i \in Semaphores(t) : \A j \in Semaphores(t) : i <= j
    BY <1>2, <2>2, FirstOf
  <2>4. FirstSemaphore(t) \in DOMAIN sync
    BY <2>2, <2>3 DEF FirstSemaphore
  <2>5. QED
    <3> DEFINE i == FirstSemaphore(t)
    <3>1. i \in 1 .. Len(sync)
      BY <2>1, <2>4
    <3> HIDE DEF i
    <3>2. sync[i] \in [timer : Timers, waiter : Threads]
      BY <1>1, <3>1, ElementOfSeq
    <3>3. QED
      BY <2>4, <3>2 DEF i
<1>3. SyncTaken(t) \in Seq([timer : Timers, waiter : Threads])
  <2>1. CASE timer[t].target = Nil \/ Semaphores(t) = {}
    BY <1>1, <2>1 DEF SyncTaken
  <2>2. CASE ~ (timer[t].target = Nil \/ Semaphores(t) = {})
    <3> DEFINE i == FirstSemaphore(t)
    <3>1. i \in 1 .. Len(sync) /\ Len(sync) \in Nat
      BY <1>1, <1>2, <2>2
    <3> HIDE DEF i
    <3>2. SX!RemoveAt(sync, i) = SubSeq(sync, 1, i - 1) \o SubSeq(sync, i + 1, Len(sync))
      BY DEF SX!RemoveAt
    <3>3. /\ SubSeq(sync, 1, i - 1) \in Seq([timer : Timers, waiter : Threads])
          /\ SubSeq(sync, i + 1, Len(sync)) \in Seq([timer : Timers, waiter : Threads])
      <4>1. i \in Int /\ 1 \in Int /\ i - 1 \in Int /\ i + 1 \in Int /\ Len(sync) \in Int
        BY <3>1
      <4>2. /\ \A j \in 1 .. i - 1 : sync[j] \in [timer : Timers, waiter : Threads]
            /\ \A j \in i + 1 .. Len(sync) : sync[j] \in [timer : Timers, waiter : Threads]
        <5>1. \A j \in 1 .. Len(sync) : sync[j] \in [timer : Timers, waiter : Threads]
          BY <1>1, ElementOfSeq
        <5>2. (\A j \in 1 .. i - 1 : j \in 1 .. Len(sync)) /\ \A j \in i + 1 .. Len(sync) : j \in 1 .. Len(sync)
          BY <3>1
        <5>3. QED
          BY <5>1, <5>2
      <4>3. QED
        BY <4>1, <4>2, SubSeqProperties
    <3>4. QED
      BY <2>2, <3>2, <3>3 DEF SyncTaken, i
  <2>3. QED
    BY <2>1, <2>2
<1>4. CancelTaken(t) \in [Targets -> {"no", "once", "always"}]
  BY DEF OtherTypes, CancelTaken
<1>5. Posts(t) \in Threads \cup {Nil}
  <2>1. Semaphores(t) # {} => sync[FirstSemaphore(t)].waiter \in Threads
    BY <1>2
  <2>2. QED
    BY <2>1 DEF Posts
<1>6. QED
  BY <1>3, <1>4, <1>5

(* What an iteration does to call a timer's target.                        *)
LEMMA StartStep ==
  ASSUME LoopInv, NEW th \in Threads, Start(th)
  PROVE  /\ LoopInv'
         /\ \E t \in Timers :
              /\ IsDue(t) /\ Stays(heap, heap', t) /\ Kept(heap, heap', t)
              /\ \A u \in Timers \ {t} : heap'.timer[u] = heap.timer[u]
              /\ heap'.timer[t].target = heap.timer[t].target
              /\ heap'.timer[t].run_loop = heap.timer[t].run_loop
              /\ heap'.timer[t].repeats = heap.timer[t].repeats
              /\ sync' = SyncTaken(t)
              /\ fired' = IF timer[t].repeats THEN fired ELSE fired \cup {t}
              /\ \E f \in Frames : /\ Pushed(frames, frames', th, f)
                                  /\ f.timer = t /\ f.posts = Posts(t)
<1> DEFINE n == Len(frames[th])
<1>1. /\ frames \in Stacks /\ n \in Nat /\ n > 0 /\ n \in 1 .. n /\ frames[th] # << >>
      /\ Top(th) = frames[th][n] /\ frames[th][n].kind = "loop"
  BY TopIs DEF Start, Handling, IsTop
<1>2. PICK t \in Timers :
        /\ Top(th).rest[t] > 0 /\ IsDue(t)
        /\ \E date \in NextDates(t) :
             Becomes([retain(heap, t) EXCEPT !.timer[t].due_by = date,
                                             !.timer[t].running = TRUE])
        /\ frames' = [frames EXCEPT ![th] =
                        Append(@, [kind |-> "callback", timer |-> t,
                                   posts |-> Posts(t), skipped |-> IsCancelled(t)])]
        /\ sync' = SyncTaken(t)
        /\ cancelled' = CancelTaken(t)
        /\ fired' = IF timer[t].repeats THEN fired ELSE fired \cup {t}
  BY DEF Start
<1>3. PICK date \in NextDates(t) :
        Becomes([retain(heap, t) EXCEPT !.timer[t].due_by = date,
                                        !.timer[t].running = TRUE])
  BY <1>2
<1>4. /\ HeapOK(heap) /\ StacksOK(frames) /\ CountsOK(heap, frames, owned)
      /\ heap \in Heaps /\ TimerOK(heap, t) /\ OtherTypes
  BY DEF LoopInv, HeapOK
<1>5. frames[th][n].rest[t] = 1 /\ heap.refcount[t] > 0
  BY <1>1, <1>2, LoopHolds
<1> DEFINE k == retain(heap, t)
           old == heap.timer[t]
           new == [old EXCEPT !.due_by = date, !.running = TRUE]
           g == [k EXCEPT !.timer[t] = new]
<1>6. Moves(heap, k, t, Own(heap, t) + 1, old)
  BY <1>4, <1>5, RetainIs
<1>7. k \in Heaps /\ TimerOK(k, t) /\ Own(k, t) = Own(heap, t) + 1 /\ k.timer[t] = old
  BY <1>6 DEF Moves
<1>8. k.refcount[t] > 0
  <2>1. Own(heap, t) \in Nat
    BY <1>4 DEF TimerOK
  <2> HIDE DEF k
  <2>2. QED
    BY <1>7, <2>1, RefcountIs
<1>9. old \in HostObjects /\ date \in {"later", "now"} /\ old = timer[t]
  BY <1>4, HostObjectIs, HeapIs DEF NextDates
<1>10. ~ old.running /\ Flag(old) = 0
  BY <1>2, <1>9 DEF IsDue, Flag
<1> HIDE DEF old
<1>11. /\ new \in HostObjects /\ new.run_loop = old.run_loop /\ new.running
       /\ new.target = old.target /\ new.repeats = old.repeats
  BY <1>9 DEF HostObjects
<1>12. Becomes(g)
  <2>1. k.timer = heap.timer
    BY <1>4 DEF retain, Heaps
  <2>2. [k EXCEPT !.timer[t].due_by = date, !.timer[t].running = TRUE] = g
    <3> HIDE DEF k
    <3>1. k.timer[t] = old
      BY <1>7
    <3>2. k.timer \in [Timers -> HostObjects] /\ k \in Heaps
      BY <1>7 DEF Heaps
    <3>3. QED
      BY <3>1, <3>2 DEF Heaps, HostObjects
  <2>3. QED
    BY <1>3, <2>2
<1> HIDE DEF new
<1>13. Moves(k, g, t, Own(k, t), new)
  <2> HIDE DEF k
  <2>1. QED
    BY <1>7, <1>8, <1>11, ObjectIs
<1> HIDE DEF k, g
<1>14. Moves(heap, g, t, Own(heap, t) + 1, new)
  BY <1>6, <1>7, <1>13, MovesTwice
<1>15. g \in Heaps /\ TimerOK(g, t) /\ Own(g, t) = Own(heap, t) + 1 /\ g.timer[t] = new
  BY <1>14 DEF Moves
<1>16. heap' = g
  BY <1>12, <1>15, BecomesIs
<1>17. Kept(heap, g, t) /\ g.refcount[t] > 0
  <2>1. g.refcount[t] > 0
    <3>1. Own(heap, t) \in Nat
      BY <1>4 DEF TimerOK
    <3>2. QED
      BY <1>15, <3>1, RefcountIs
  <2>2. QED
    BY <1>5, <1>11, <1>15, <2>1 DEF Kept, Settled, old
<1>18. /\ HeapOK(g)
       /\ \A u \in Timers : Kept(heap, g, u)
       /\ \A u \in Timers \ {t} : Own(g, u) = Own(heap, u) /\ g.timer[u] = heap.timer[u]
  BY <1>4, <1>14, <1>17, MovesOK
<1> DEFINE f == [kind |-> "callback", timer |-> t, posts |-> Posts(t), skipped |-> IsCancelled(t)]
<1>19. /\ SyncTaken(t) \in Seq([timer : Timers, waiter : Threads])
       /\ CancelTaken(t) \in [Targets -> {"no", "once", "always"}]
       /\ Posts(t) \in Threads \cup {Nil}
  BY <1>4, TakenTypes
<1>20. f \in Frames /\ f.kind = "callback" /\ f.timer = t
  <2>1. IsCancelled(t) \in BOOLEAN
    BY DEF IsCancelled
  <2>2. f \in CallbackFrames
    BY <1>19, <2>1 DEF CallbackFrames
  <2>3. QED
    BY <2>2 DEF Frames
<1>21. frames' = [frames EXCEPT ![th] = Append(@, f)]
  BY <1>2
<1> HIDE DEF f
<1>22. Pushed(frames, frames', th, f)
  BY <1>1, <1>20, <1>21, AppendPushes
<1>23. StacksOK(frames')
  <2>1. f.kind = "loop" => \A u \in Timers : f.rest[u] \in {0, 1}
    BY <1>20
  <2>2. f.kind = "callback" => /\ Len(frames[th]) > 0
                               /\ frames[th][Len(frames[th])].kind = "loop"
                               /\ frames[th][Len(frames[th])].rest[f.timer] = 1
    BY <1>1, <1>5, <1>20
  <2>3. QED
    BY <1>4, <1>20, <1>22, <2>1, <2>2, StacksPushed
<1>24. Old("fire", frames, frames')
  BY <1>1, <1>20, <1>22, OldIs
<1>25. ASSUME NEW u \in Timers
       PROVE  Adds(heap, g, f, u)
  <2>1. Own(heap, u) \in Nat
    BY <1>4 DEF HeapOK, TimerOK
  <2>2. In(f, "loop", u) = 0
    BY <1>20 DEF In, Counts
  <2>3. CASE u = t
    <3>1. In(f, "callback", u) = 1 /\ Flag(g.timer[u]) = 1 /\ Flag(heap.timer[u]) = 0
      BY <1>10, <1>11, <1>15, <1>20, <2>3 DEF In, Counts, Refers, Flag, old
    <3>2. Own(g, u) = Own(heap, u) + 1
      BY <1>15, <2>3
    <3>3. QED
      BY <2>1, <2>2, <3>1, <3>2 DEF Adds
  <2>4. CASE u # t
    <3>1. In(f, "callback", u) = 0 /\ Flag(heap.timer[u]) \in Nat
      BY <1>20, <2>4 DEF In, Counts, Refers, Flag
    <3>2. Own(g, u) = Own(heap, u) /\ g.timer[u] = heap.timer[u]
      BY <1>18, <2>4
    <3>3. QED
      BY <2>1, <2>2, <3>1, <3>2 DEF Adds
  <2>5. QED
    BY <2>3, <2>4
<1>26. CountsOK(g, frames', owned)
  BY <1>1, <1>4, <1>20, <1>22, <1>25, CountsPushed
<1>27. StillFired(g, fired, fired')
  <2>1. ASSUME NEW u \in fired
        PROVE  u \in Timers /\ g.refcount[u] > 0
    <3>1. u \in Timers /\ heap.refcount[u] > 0
      BY DEF LoopInv, FiredOK
    <3>2. CASE u = t
      BY <1>17, <3>1, <3>2
    <3>3. CASE u # t
      BY <1>14, <3>1, <3>3 DEF Moves, Same
    <3>4. QED
      BY <3>1, <3>2, <3>3
  <2>2. CASE timer[t].repeats
    BY <1>2, <2>1, <2>2 DEF StillFired
  <2>3. CASE ~ timer[t].repeats
    <3>1. ~ g.timer[t].repeats /\ Settled(g.timer[t])
      BY <1>9, <1>11, <1>15, <2>3 DEF Settled
    <3>2. fired' = fired \cup {t}
      BY <1>2, <2>3
    <3>3. QED
      BY <1>17, <2>1, <3>1, <3>2 DEF StillFired
  <2>4. QED
    BY <2>2, <2>3
<1>28. owned' = owned /\ UNCHANGED <<stopped, waiting, asker, revoked>>
  BY DEF Start
<1>29. OtherTypes'
  BY <1>2, <1>19, <1>28 DEF LoopInv, OtherTypes
<1>30. LoopInv'
  BY <1>16, <1>18, <1>23, <1>24, <1>26, <1>27, <1>28, <1>29, FrameStep
<1>31. Stays(heap, heap', t)
  BY <1>11, <1>15, <1>16 DEF Stays, old
<1>32. /\ heap'.timer[t].target = heap.timer[t].target
       /\ heap'.timer[t].run_loop = heap.timer[t].run_loop
       /\ heap'.timer[t].repeats = heap.timer[t].repeats
       /\ \A u \in Timers \ {t} : heap'.timer[u] = heap.timer[u]
       /\ Kept(heap, heap', t)
  BY <1>11, <1>15, <1>16, <1>17, <1>18 DEF old
<1>33. f.posts = Posts(t)
  BY DEF f
<1>34. QED
  BY <1>2, <1>20, <1>22, <1>30, <1>31, <1>32, <1>33

(* The end of a callback: the timer is not running, and a one-shot timer is*)
(* invalid.                                                                *)
LEMMA FinishedIs ==
  ASSUME LoopInv, NEW t \in Timers, Own(heap, t) > 0
  PROVE  \E new \in HostObjects :
           /\ Moves(heap, Finished(heap, t), t, Own(heap, t), new)
           /\ ~ new.running
           /\ new.target = heap.timer[t].target
           /\ new.repeats = heap.timer[t].repeats
           /\ ~ heap.timer[t].repeats => new.due_by = "none"
<1> DEFINE old == heap.timer[t]
           new == [old EXCEPT !.running = FALSE]
           g == [heap EXCEPT !.timer[t] = new]
           newer == [new EXCEPT !.due_by = "none", !.run_loop = Nil]
<1>1. heap \in Heaps /\ TimerOK(heap, t) /\ Own(heap, t) \in Nat /\ old = timer[t]
  BY InvTimer, HeapIs
<1>2. heap.refcount[t] > 0 /\ old \in HostObjects
  BY <1>1, RefcountIs, HostObjectIs
<1> HIDE DEF old
<1>3. /\ new \in HostObjects /\ new.run_loop = old.run_loop /\ ~ new.running
      /\ new.target = old.target /\ new.repeats = old.repeats
  BY <1>2 DEF HostObjects
<1>4. Finished(heap, t) = IF old.repeats THEN g ELSE invalidate(g, t)
  BY <1>1 DEF Finished, old, Heaps
<1> HIDE DEF new
<1>5. Moves(heap, g, t, Own(heap, t), new)
  BY <1>1, <1>2, <1>3, ObjectIs DEF old
<1> HIDE DEF g
<1>6. g \in Heaps /\ TimerOK(g, t) /\ Own(g, t) = Own(heap, t) /\ g.timer[t] = new
  BY <1>5 DEF Moves
<1>7. CASE old.repeats
  BY <1>3, <1>4, <1>5, <1>7 DEF old
<1>8. CASE ~ old.repeats
  <2>1. Moves(g, invalidate(g, t), t, Own(g, t),
              IF Own(g, t) = 0 THEN Gone
              ELSE [g.timer[t] EXCEPT !.due_by = "none", !.run_loop = Nil])
    BY <1>6, InvalidateIs
  <2>2. Moves(g, invalidate(g, t), t, Own(heap, t), newer)
    BY <1>6, <2>1
  <2>3. /\ newer \in HostObjects /\ ~ newer.running /\ newer.due_by = "none"
        /\ newer.target = old.target /\ newer.repeats = old.repeats
    BY <1>3 DEF HostObjects
  <2> HIDE DEF newer
  <2>4. Moves(heap, invalidate(g, t), t, Own(heap, t), newer)
    BY <1>5, <2>2, MovesTwice
  <2>5. QED
    BY <1>4, <1>8, <2>3, <2>4 DEF old
<1>9. QED
  BY <1>7, <1>8

(* One change of the frames after the other.                               *)
LEMMA OldTwice ==
  ASSUME NEW fs, NEW gs, NEW es, NEW kind, Old(kind, fs, gs), Old(kind, gs, es)
  PROVE  Old(kind, fs, es)
<1>1. ASSUME NEW th \in Threads, NEW i \in 1 .. Len(es[th]), es[th][i].kind = kind
      PROVE  i \in 1 .. Len(fs[th]) /\ fs[th][i] = es[th][i]
  <2>1. i \in 1 .. Len(gs[th]) /\ gs[th][i] = es[th][i]
    BY <1>1 DEF Old
  <2>2. QED
    BY <1>1, <2>1 DEF Old
<1>2. QED
  BY <1>1 DEF Old

(* The target returns to the loop.                                         *)
LEMMA CallbackReturnsStep ==
  ASSUME LoopInv, NEW th \in Threads, CallbackReturns(th)
  PROVE  /\ LoopInv' /\ Old("callback", frames, frames')
         /\ Top(th).timer \in Timers
         /\ ~ heap'.timer[Top(th).timer].running
         /\ \A t \in Timers : /\ Kept(heap, heap', t)
                              /\ t # Top(th).timer => Same(heap, heap', t)
<1> DEFINE n == Len(frames[th])
           f == frames[th][n]
           t == f.timer
           h == release(Finished(heap, t), t)
           g == release(h, t)
           mid == [frames EXCEPT ![th] = SX!Front(@)]
<1>1. /\ frames \in Stacks /\ n \in Nat /\ n > 0 /\ n \in 1 .. n
      /\ Top(th) = f /\ f \in Frames /\ f.kind = "callback" /\ frames[th] # << >>
  BY TopIs DEF CallbackReturns, IsTop
<1>2. t \in Timers
  BY <1>1, FrameIs DEF CallbackFrames
<1>3. n > 1 /\ frames[th][n - 1].kind = "loop" /\ frames[th][n - 1].rest[t] = 1
  BY <1>1, TopIs DEF FrameOK
<1>4. HeapOK(heap) /\ StacksOK(frames) /\ CountsOK(heap, frames, owned)
  BY DEF LoopInv
<1>5. Popped(frames, mid, th) /\ SX!Front(frames[th]) = mid[th]
  BY <1>1, FrontPops
<1>6. /\ Becomes(g) /\ Forget(g) /\ frames' = Without(mid, th, t)
  <2>1. /\ Handled(th, h, t, SX!Front(frames[th]))
    BY <1>1 DEF CallbackReturns
  <2>2. Becomes(g) /\ Forget(g)
    BY <2>1 DEF Handled
  <2>3. frames' = [frames EXCEPT ![th] =
                     [SX!Front(frames[th]) EXCEPT ![Len(SX!Front(frames[th]))].rest[t] = @ - 1]]
    BY <2>1 DEF Handled
  <2> DEFINE s == SX!Front(frames[th])
             r == [s EXCEPT ![Len(s)] = Less(s[Len(s)], t)]
  <2>4. frames' = [frames EXCEPT ![th] = r]
    BY <2>3 DEF Less
  <2>5. Without(mid, th, t) = [mid EXCEPT ![th] = r]
    <3>1. mid[th] = s
      BY <1>5
    <3> HIDE DEF mid, s
    <3>2. QED
      BY <3>1 DEF Without
  <2>6. [mid EXCEPT ![th] = r] = [frames EXCEPT ![th] = r]
    <3> HIDE DEF r, s
    <3>1. mid = [frames EXCEPT ![th] = s]
      BY DEF s
    <3>2. QED
      BY <1>1, <3>1 DEF Stacks
  <2>7. QED
    BY <2>2, <2>4, <2>5, <2>6
<1>7. owned' = owned /\ waiting' = waiting \ {Top(th).posts}
      /\ UNCHANGED <<stopped, sync, cancelled>>
  BY DEF CallbackReturns
<1> HIDE DEF mid, t
<1>8. /\ Tally(frames, "callback", t) > 0 /\ Tally(frames, "loop", t) > 0
      /\ Own(heap, t) \in Nat /\ Own(heap, t) > 1 /\ Flag(heap.timer[t]) = 1
  <2>1. Counts(f, "callback", t) /\ Counts(frames[th][n - 1], "loop", t)
    BY <1>1, <1>3 DEF Counts, Refers, t
  <2>2. n - 1 \in 1 .. Len(frames[th])
    BY <1>1, <1>3
  <2>3. Tally(frames, "callback", t) > 0 /\ Tally(frames, "loop", t) > 0
    BY <1>1, <1>2, <1>4, <2>1, <2>2, CountedRefers
  <2>4. /\ owned[t] \in Nat /\ Tally(frames, "loop", t) \in Nat
        /\ Tally(frames, "callback", t) \in Nat
        /\ Own(heap, t) = owned[t] + Tally(frames, "loop", t) + Tally(frames, "callback", t)
        /\ Tally(frames, "callback", t) = Flag(heap.timer[t])
    BY <1>2, <1>4, CountsAre
  <2>5. Flag(heap.timer[t]) \in {0, 1}
    BY DEF Flag
  <2>6. QED
    BY <2>3, <2>4, <2>5
<1>9. PICK new \in HostObjects :
        /\ Moves(heap, Finished(heap, t), t, Own(heap, t), new)
        /\ ~ new.running
        /\ new.target = heap.timer[t].target
        /\ new.repeats = heap.timer[t].repeats
        /\ ~ heap.timer[t].repeats => new.due_by = "none"
  <2>1. Own(heap, t) > 0
    BY <1>8
  <2>2. QED
    BY <1>2, <2>1, FinishedIs
<1> DEFINE k == Finished(heap, t)
<1>10. k \in Heaps /\ TimerOK(k, t) /\ Own(k, t) = Own(heap, t) /\ k.timer[t] = new
  BY <1>9 DEF Moves
<1>11. Moves(k, h, t, Own(heap, t) - 1, new)
  <2> HIDE DEF k
  <2>1. Own(k, t) > 0
    BY <1>8, <1>10
  <2>2. k.refcount[t] > 1
    <3>1. /\ k.refcount[t] \in Nat /\ InLoop(k, t) \in {0, 1}
          /\ k.refcount[t] = Own(k, t) + InLoop(k, t)
      BY <1>2, <1>10, RefcountIs
    <3>2. QED
      BY <1>8, <1>10, <3>1
  <2>3. Moves(k, release(k, t), t, Own(k, t) - 1,
              IF k.refcount[t] > 1 THEN k.timer[t] ELSE Gone)
    BY <1>2, <1>10, <2>1, ReleaseIs
  <2>4. h = release(k, t)
    BY DEF k
  <2> HIDE DEF h
  <2>5. QED
    BY <1>10, <2>2, <2>3, <2>4
<1> HIDE DEF h, k, g
<1>12. Moves(heap, h, t, Own(heap, t) - 1, new)
  BY <1>2, <1>9, <1>11, MovesTwice DEF k
<1>13. h \in Heaps /\ TimerOK(h, t) /\ Own(h, t) = Own(heap, t) - 1 /\ h.timer[t] = new
  BY <1>12 DEF Moves
<1>14. heap.refcount[t] > 0 /\ h.refcount[t] > 0
  <2>1. heap \in Heaps /\ TimerOK(heap, t)
    BY <1>2, <1>4 DEF HeapOK
  <2>2. Own(heap, t) > 0 /\ Own(h, t) > 0
    BY <1>8, <1>13
  <2>3. QED
    BY <1>2, <1>13, <2>1, <2>2, RefcountIs
<1>15. Kept(heap, h, t)
  BY <1>9, <1>13, <1>14 DEF Kept, Settled
<1>16. /\ HeapOK(h)
       /\ \A u \in Timers : Kept(heap, h, u)
       /\ \A u \in Timers \ {t} : Own(h, u) = Own(heap, u) /\ h.timer[u] = heap.timer[u]
  BY <1>2, <1>4, <1>12, <1>15, MovesOK
<1>17. ASSUME NEW u \in Timers
       PROVE  Adds(h, heap, f, u) /\ TimerOK(h, u)
  <2>1. Own(h, u) \in Nat /\ TimerOK(h, u)
    BY <1>16 DEF HeapOK, TimerOK
  <2>2. In(f, "loop", u) = 0
    BY <1>1 DEF In, Counts
  <2>3. CASE u = t
    <3>1. In(f, "callback", u) = 1 /\ Flag(h.timer[u]) = 0 /\ Flag(heap.timer[u]) = 1
      BY <1>1, <1>8, <1>9, <1>13, <2>3 DEF In, Counts, Refers, Flag, t
    <3>2. Own(heap, u) = Own(h, u) + 1
      BY <1>8, <1>13, <2>3
    <3>3. QED
      BY <2>1, <2>2, <3>1, <3>2 DEF Adds
  <2>4. CASE u # t
    <3>1. In(f, "callback", u) = 0 /\ Flag(heap.timer[u]) \in Nat
      BY <1>1, <2>4 DEF In, Counts, Refers, Flag, t
    <3>2. Own(h, u) = Own(heap, u) /\ h.timer[u] = heap.timer[u]
      BY <1>16, <2>4
    <3>3. QED
      BY <2>1, <2>2, <3>1, <3>2 DEF Adds
  <2>5. QED
    BY <2>3, <2>4
<1>18. CountsOK(h, mid, owned)
  BY <1>1, <1>4, <1>5, <1>17, CountsPopped
<1>19. StacksOK(mid) /\ Old("fire", frames, mid) /\ Old("callback", frames, mid)
  BY <1>1, <1>4, <1>5, StacksPopped, OldIs
<1> DEFINE m == Len(mid[th])
<1>20. m > 0 /\ mid[th][m].kind = "loop" /\ mid[th][m].rest[t] > 0
  <2>1. m = n - 1 /\ m \in 1 .. m
    BY <1>1, <1>3, <1>5 DEF Popped
  <2>2. mid[th][m] = frames[th][n - 1]
    BY <1>5, <2>1 DEF Popped
  <2>3. QED
    BY <1>3, <2>1, <2>2
<1>21. /\ HeapOK(g) /\ \A u \in Timers : Kept(h, g, u)
       /\ \E newer : Moves(h, g, t, Own(h, t) - 1, newer)
       /\ CountsOK(g, frames', owned)
       /\ StacksOK(frames') /\ Old("fire", mid, frames') /\ Old("callback", mid, frames')
  <2>1. g = release(h, t) /\ m = Len(mid[th])
    BY DEF g
  <2> HIDE DEF m
  <2>2. QED
    BY <1>2, <1>6, <1>16, <1>18, <1>19, <1>20, <2>1, HandledIs
<1>22. ASSUME NEW u \in Timers
       PROVE  Kept(heap, g, u)
  <2>1. CASE u = t
    BY <1>14, <1>15, <1>21, <2>1 DEF Kept
  <2>2. CASE u # t
    <3>1. Same(heap, h, u) /\ Same(h, g, u)
      BY <1>12, <1>21, <2>2 DEF Moves
    <3>2. Same(heap, g, u)
      BY <3>1 DEF Same
    <3>3. QED
      BY <1>4, <3>2, SameKept DEF HeapOK
  <2>3. QED
    BY <2>1, <2>2
<1>23. Old("fire", frames, frames') /\ Old("callback", frames, frames')
  BY <1>19, <1>21, OldTwice
<1>24. heap' = g
  BY <1>6, <1>21, BecomesIs DEF HeapOK
<1>25. StillFired(g, fired, fired')
  BY <1>6, ForgetFired
<1>26. OtherTypes'
  BY <1>6, <1>7 DEF LoopInv, OtherTypes, Forget
<1>27. LoopInv'
  BY <1>7, <1>21, <1>22, <1>23, <1>24, <1>25, <1>26, FrameStep
<1>28. ASSUME NEW u \in Timers, u # t
       PROVE  Same(heap, heap', u)
  <2>1. Same(heap, h, u) /\ Same(h, g, u)
    BY <1>12, <1>21, <1>28 DEF Moves
  <2>2. QED
    BY <1>24, <2>1 DEF Same
<1>29. ~ heap'.timer[t].running
  <2>1. TimerOK(h, t) /\ h \in Heaps /\ Own(h, t) > 0
    BY <1>8, <1>13
  <2>2. g = release(h, t)
    BY DEF g
  <2>3. SameFlag(h, g, t)
    BY <1>2, <2>1, <2>2, ReleaseKept
  <2>4. QED
    BY <1>9, <1>13, <1>24, <2>3, FlagFalls
<1>30. t = Top(th).timer
  BY <1>1 DEF t
<1>31. QED
  BY <1>2, <1>22, <1>23, <1>24, <1>27, <1>28, <1>29, <1>30

-----------------------------------------------------------------------------
(* Theorems.                                                               *)

(* The references, the frames and the flags stay in order: that is         *)
(* inductive.                                                              *)
LEMMA NextLoop == LoopInv /\ [Next]_vars => LoopInv'
<1> SUFFICES ASSUME LoopInv, [Next]_vars
             PROVE  LoopInv'
  OBVIOUS
<1>1. ASSUME NEW th \in Threads, GuestCall(th)
      PROVE  LoopInv'
  <2>1. CASE \E t \in Timers : MakesTimers /\ \E b \in BOOLEAN : Create(th, t, b)
    BY <2>1, CreateStep
  <2>2. CASE \E t \in Timers : Drop(th, t)
    BY <2>2, DropStep
  <2>3. CASE \E t \in Timers, l \in Threads : AddTimer(th, l, t)
    BY <2>3, AddTimerStep
  <2>4. CASE \E t \in Timers : Invalidate(th, t)
    BY <2>4, InvalidateStep
  <2>5. CASE \E t \in Timers, date \in {"later", "now"} : SetFireDate(th, t, date)
    BY <2>5, DateSteps
  <2>6. CASE \E t \in Timers : Fire(th, t)
    BY <2>6, FireStep
  <2>7. CASE \E t \in Timers, l \in Threads, g \in Targets, wait \in BOOLEAN :
               Perform(th, l, g, t, wait)
    BY <2>7, PerformStep
  <2>8. CASE \/ \E l \in Stops : CFRunLoopStop(th, l)
             \/ \E g \in Targets, all \in CancelKinds : CancelPrevious(th, g, all)
    BY <2>8, OtherCalls, RunLoopsAssumption
  <2>9. CASE \E l \in Threads, g \in Targets : CancelPerforms(th, l, g)
    BY <2>9, CancelPerformsStep
  <2>10. CASE \E single \in BOOLEAN : Run(th, single)
    BY <2>10, RunLoopStep
  <2>11. QED
    BY <1>1, <2>1, <2>2, <2>3, <2>4, <2>5, <2>6, <2>7, <2>8, <2>9, <2>10 DEF GuestCall
<1>2. ASSUME NEW th \in Threads, RunStep(th)
      PROVE  LoopInv'
  BY <1>2, WakeStep, SkipStep, StartStep, CallbackReturnsStep, FireReturnsStep DEF RunStep
<1>3. CASE \E t \in Timers : Tick(t)
  BY <1>3, DateSteps
<1>4. CASE UNCHANGED vars
  <2>1. heap' = heap /\ UNCHANGED <<stopped, frames, performVars, history>>
    BY <1>4, HeapIs DEF vars
  <2>2. QED
    BY <2>1 DEF LoopInv, OtherTypes, performVars, history
<1>5. QED
  BY <1>1, <1>2, <1>3, <1>4 DEF Next

(* The frames of a kind, by their places.                                  *)
LEMMA FrameSetIs ==
  ASSUME frames \in Stacks, NEW kind
  PROVE  /\ FrameSet(kind) \in SUBSET (Threads \X Nat)
         /\ \A th \in Threads, i \in Nat :
              <<th, i>> \in FrameSet(kind) <=>
                i \in 1 .. Len(frames[th]) /\ frames[th][i].kind = kind
<1>1. \A th \in Threads : DOMAIN frames[th] = 1 .. Len(frames[th]) /\ Len(frames[th]) \in Nat
  BY StackIs
<1>2. ASSUME NEW c \in FrameSet(kind)
      PROVE  c \in Threads \X Nat
  <2>1. PICK th \in Threads : c \in {<<th, i>> : i \in {j \in DOMAIN frames[th] : frames[th][j].kind = kind}}
    BY DEF FrameSet
  <2>2. PICK i \in DOMAIN frames[th] : c = <<th, i>>
    BY <2>1
  <2>3. i \in Nat
    BY <1>1, <2>2
  <2>4. QED
    BY <2>2, <2>3
<1>3. ASSUME NEW th \in Threads, NEW i \in Nat
      PROVE  <<th, i>> \in FrameSet(kind) <=>
               i \in 1 .. Len(frames[th]) /\ frames[th][i].kind = kind
  <2>1. ASSUME <<th, i>> \in FrameSet(kind)
        PROVE  i \in 1 .. Len(frames[th]) /\ frames[th][i].kind = kind
    <3>1. PICK o \in Threads : <<th, i>> \in {<<o, k>> : k \in {j \in DOMAIN frames[o] : frames[o][j].kind = kind}}
      BY <2>1 DEF FrameSet
    <3>2. PICK k \in DOMAIN frames[o] : <<th, i>> = <<o, k>> /\ frames[o][k].kind = kind
      BY <3>1
    <3>3. th = o /\ i = k
      BY <3>2
    <3>4. QED
      BY <1>1, <3>2, <3>3
  <2>2. ASSUME i \in 1 .. Len(frames[th]), frames[th][i].kind = kind
        PROVE  <<th, i>> \in FrameSet(kind)
    <3>1. i \in {j \in DOMAIN frames[th] : frames[th][j].kind = kind}
      BY <1>1, <2>2
    <3>2. <<th, i>> \in {<<th, k>> : k \in {j \in DOMAIN frames[th] : frames[th][j].kind = kind}}
      BY <3>1
    <3>3. QED
      BY <3>2 DEF FrameSet
  <2>3. QED
    BY <2>1, <2>2
<1>4. QED
  BY <1>2, <1>3

(* What the properties count is what the invariant counts.                 *)
LEMMA CountedIs ==
  ASSUME LoopInv, NEW t \in Timers
  PROVE  /\ Copies(t) = Sites(frames, "loop", t)
         /\ Callbacks(t) = Sites(frames, "callback", t)
         /\ Cardinality({l \in Threads : list[l][t] = 1}) = InLoop(heap, t)
<1>1. frames \in Stacks
  BY DEF LoopInv, StacksOK
<1>2. \A kind : Sites(frames, kind, t) \in SUBSET (Threads \X Nat)
  BY DEF Sites
<1>3. Copies(t) = Sites(frames, "loop", t)
  <2>1. Copies(t) \in SUBSET (Threads \X Nat)
    BY <1>1, FrameSetIs DEF Copies
  <2>2. ASSUME NEW th \in Threads, NEW i \in Nat
        PROVE  <<th, i>> \in Copies(t) <=> <<th, i>> \in Sites(frames, "loop", t)
    <3>1. <<th, i>> \in Copies(t) <=> <<th, i>> \in FrameSet("loop") /\ frames[th][i].rest[t] = 1
      BY DEF Copies
    <3>2. <<th, i>> \in FrameSet("loop") <=>
            i \in 1 .. Len(frames[th]) /\ frames[th][i].kind = "loop"
      BY <1>1, FrameSetIs
    <3>3. <<th, i>> \in Sites(frames, "loop", t) <=>
            i \in 1 .. Len(frames[th]) /\ Counts(frames[th][i], "loop", t)
      BY <1>1, SiteIs
    <3>4. QED
      BY <3>1, <3>2, <3>3 DEF Counts, Refers
  <2>3. QED
    BY <1>2, <2>1, <2>2, PlacesEqual
<1>4. Callbacks(t) = Sites(frames, "callback", t)
  <2>1. Callbacks(t) \in SUBSET (Threads \X Nat)
    BY <1>1, FrameSetIs DEF Callbacks
  <2>2. ASSUME NEW th \in Threads, NEW i \in Nat
        PROVE  <<th, i>> \in Callbacks(t) <=> <<th, i>> \in Sites(frames, "callback", t)
    <3>1. <<th, i>> \in Callbacks(t) <=>
            <<th, i>> \in FrameSet("callback") /\ frames[th][i].timer = t
      BY DEF Callbacks
    <3>2. <<th, i>> \in FrameSet("callback") <=>
            i \in 1 .. Len(frames[th]) /\ frames[th][i].kind = "callback"
      BY <1>1, FrameSetIs
    <3>3. <<th, i>> \in Sites(frames, "callback", t) <=>
            i \in 1 .. Len(frames[th]) /\ Counts(frames[th][i], "callback", t)
      BY <1>1, SiteIs
    <3>4. QED
      BY <3>1, <3>2, <3>3 DEF Counts, Refers
  <2>3. QED
    BY <1>2, <2>1, <2>2, PlacesEqual
<1>5. Cardinality({l \in Threads : list[l][t] = 1}) = InLoop(heap, t)
  <2> DEFINE S == {l \in Threads : list[l][t] = 1}
             r == heap.timer[t].run_loop
  <2>1. heap \in Heaps /\ \A l \in Threads : list[l][t] = IF r = l THEN 1 ELSE 0
    BY HeapIs DEF LoopInv, HeapOK, TimerOK
  <2>2. r \in Threads \cup {Nil}
    BY <2>1, HostObjectIs
  <2> HIDE DEF r
  <2>3. S = IF r = Nil THEN {} ELSE {r}
    BY <2>1, <2>2, RunLoopsAssumption
  <2>4. Cardinality(S) = IF r = Nil THEN 0 ELSE 1
    BY <2>3, FS_EmptySet, FS_Singleton
  <2>5. QED
    BY <2>4 DEF InLoop, r
<1>6. QED
  BY <1>3, <1>4, <1>5

(* The references of each timer are counted, it is in its loop once, its   *)
(* callback runs at most once, and what has been fired is settled: whatever*)
(* guest code does, with any number of threads, timers and nested loops.   *)
THEOREM LoopsInvariance == Spec => []LoopInv
<1>1. LoopInv /\ [Next]_vars => LoopInv'
  BY NextLoop
<1>2. QED
  BY <1>1, InitLoop, PTL DEF Spec

(* Every variable of the loops keeps its type.                             *)
THEOREM LoopTypes == Spec => []TypeOK
<1>1. LoopInv => TypeOK
  <2> SUFFICES ASSUME LoopInv
               PROVE  TypeOK
    OBVIOUS
  <2>1. /\ timer \in [Timers -> HostObjects] /\ refcount \in [Timers -> Nat]
        /\ list \in [Threads -> Lists]
    BY HeapIs DEF LoopInv, HeapOK, Heaps
  <2>2. frames \in [Threads -> Seq(Frames)] /\ owned \in [Timers -> Nat] /\ fired \subseteq Timers
    BY DEF LoopInv, StacksOK, Stacks, CountsOK, FiredOK
  <2>3. QED
    BY <2>1, <2>2 DEF LoopInv, OtherTypes, TypeOK
<1>2. QED
  BY <1>1, LoopsInvariance, PTL

(* A timer is freed when the guest, its loop, the iterations that have yet *)
(* to handle it and its callback are all done with it, and not before:     *)
(* retain and release of ns_timer.rs and ns_run_loop.rs balance.           *)
THEOREM TimersCounted == Spec => []TimerRefsExact
<1>1. LoopInv => TimerRefsExact
  <2> SUFFICES ASSUME LoopInv, NEW t \in Timers
               PROVE  refcount[t] = owned[t] + Cardinality({l \in Threads : list[l][t] = 1})
                                      + Cardinality(Copies(t)) + Cardinality(Callbacks(t))
    BY DEF TimerRefsExact
  <2>1. heap \in Heaps /\ TimerOK(heap, t) /\ CountsOK(heap, frames, owned)
    BY DEF LoopInv, HeapOK
  <2>2. /\ heap.refcount[t] = Own(heap, t) + InLoop(heap, t)
        /\ InLoop(heap, t) \in {0, 1} /\ heap.refcount[t] = refcount[t]
    BY <2>1, RefcountIs, HeapIs
  <2>3. /\ owned[t] \in Nat /\ Tally(frames, "loop", t) \in Nat
        /\ Tally(frames, "callback", t) \in Nat
        /\ Own(heap, t) = owned[t] + Tally(frames, "loop", t) + Tally(frames, "callback", t)
    BY <2>1, CountsAre
  <2>4. /\ Cardinality(Copies(t)) = Tally(frames, "loop", t)
        /\ Cardinality(Callbacks(t)) = Tally(frames, "callback", t)
        /\ Cardinality({l \in Threads : list[l][t] = 1}) = InLoop(heap, t)
    BY CountedIs DEF Tally
  <2>5. QED
    BY <2>2, <2>3, <2>4
<1>2. QED
  BY <1>1, LoopsInvariance, PTL

(* add_timer and remove_timer keep the list of a loop and the run_loop of  *)
(* its timers in agreement, without duplicates.                            *)
THEOREM TimersListed == Spec => []ListedExact
<1>1. LoopInv => ListedExact
  BY HeapIs DEF LoopInv, HeapOK, TimerOK, ListedExact
<1>2. QED
  BY <1>1, LoopsInvariance, PTL

(* handle_timer of a timer whose callback runs, in a loop inside it or on  *)
(* another thread, does not enter the callback again.                      *)
THEOREM CallbacksNotReentered == Spec => []NotReentered
<1>1. LoopInv => NotReentered
  <2> SUFFICES ASSUME LoopInv, NEW t \in Timers
               PROVE  Cardinality(Callbacks(t)) = IF timer[t].running THEN 1 ELSE 0
    BY DEF NotReentered
  <2>1. CountsOK(heap, frames, owned)
    BY DEF LoopInv
  <2>2. Tally(frames, "callback", t) = Flag(heap.timer[t])
    BY <2>1, CountsAre
  <2>3. Callbacks(t) = Sites(frames, "callback", t)
    BY CountedIs
  <2>4. QED
    BY <2>2, <2>3, HeapIs DEF Tally, Flag
<1>2. QED
  BY <1>1, LoopsInvariance, PTL

(* A one-shot timer that a loop has fired is running or invalid as long as *)
(* it exists, whatever its callback and the other threads do with it.      *)
THEOREM OneShotsFireOnce == Spec => []FiredOnce
<1>1. LoopInv => FiredOnce
  BY HeapIs DEF LoopInv, FiredOK, Settled, FiredOnce
<1>2. QED
  BY <1>1, LoopsInvariance, PTL

-----------------------------------------------------------------------------
(* The requests that someone waits for, where no loop drops them: a second *)
(* invariant, on top of the first.                                         *)

(* Each entry of SYNC_PERFORM_SEMAPHORES is the only one for its timer,    *)
(* which is in a loop and has yet to be fired.                             *)
EntriesOK ==
  /\ \A i, j \in DOMAIN sync : sync[i].timer = sync[j].timer => i = j
  /\ \A i \in DOMAIN sync :
       /\ asker[sync[i].timer] = sync[i].waiter
       /\ timer[sync[i].timer].target # Nil
       /\ timer[sync[i].timer].run_loop # Nil
       /\ sync[i].timer \notin fired

HasEntry(s, t) == \E i \in DOMAIN s : s[i].timer = t

(* A request someone has waited for has an entry until it is fired.        *)
AskersOK ==
  \A t \in Timers :
    asker[t] # Nil => timer[t].target # Nil /\ (t \in fired \/ HasEntry(sync, t))

RunningFired == \A t \in Timers : timer[t].running /\ ~ timer[t].repeats => t \in fired

(* RightWaiterWoken, by the places of the frames.                          *)
Woken(fs, as) ==
  \A th \in Threads : \A i \in 1 .. Len(fs[th]) :
    fs[th][i].kind = "callback" => fs[th][i].posts = as[fs[th][i].timer]

RequestInv ==
  /\ EntriesOK
  /\ AskersOK
  /\ RunningFired
  /\ Woken(frames, asker)
  /\ WaiterHasRequest

(* Nobody waits and nothing runs.                                          *)
LEMMA InitRequests == Init => RequestInv
<1> SUFFICES ASSUME Init
             PROVE  RequestInv
  OBVIOUS
<1>1. sync = << >> /\ waiting = {} /\ \A t \in Timers : asker[t] = Nil
  BY DEF Init
<1>2. DOMAIN sync = {}
  BY <1>1
<1>3. EntriesOK /\ AskersOK /\ WaiterHasRequest
  BY <1>1, <1>2 DEF EntriesOK, AskersOK, WaiterHasRequest
<1>4. RunningFired
  BY GoneIs DEF Init, RunningFired
<1>5. Woken(frames, asker)
  <2>1. \A th \in Threads : Len(frames[th]) = 0
    BY DEF Init
  <2>2. \A th \in Threads : 1 .. Len(frames[th]) = {}
    BY <2>1
  <2>3. QED
    BY <2>2 DEF Woken
<1>6. QED
  BY <1>3, <1>4, <1>5 DEF RequestInv

(* An entry, its timer and its waiter.                                     *)
LEMMA EntryIs ==
  ASSUME LoopInv, EntriesOK, NEW i \in DOMAIN sync
  PROVE  /\ sync[i].timer \in Timers /\ sync[i].waiter \in Threads
         /\ asker[sync[i].timer] # Nil /\ heap.refcount[sync[i].timer] > 0
<1>1. sync \in Seq([timer : Timers, waiter : Threads])
  BY DEF LoopInv, OtherTypes
<1>2. i \in 1 .. Len(sync)
  BY <1>1
<1>3. sync[i] \in [timer : Timers, waiter : Threads]
  BY <1>1, <1>2, ElementOfSeq
<1> DEFINE t == sync[i].timer
<1>4. t \in Timers /\ sync[i].waiter \in Threads
  BY <1>3
<1>5. asker[t] # Nil /\ heap.timer[t].run_loop # Nil
  BY <1>4, HeapIs, RunLoopsAssumption DEF EntriesOK
<1> HIDE DEF t
<1>6. heap.refcount[t] > 0
  <2>1. heap \in Heaps /\ TimerOK(heap, t) /\ heap.refcount[t] \in Nat
    BY <1>4, InvTimer
  <2>2. heap.refcount[t] # 0
    BY <1>5, <2>1, GoneIs DEF TimerOK
  <2>3. QED
    BY <2>1, <2>2
<1>7. QED
  BY <1>4, <1>5, <1>6 DEF t

(* A timer that is asked for, in a loop or running exists.                 *)
LEMMA InUse ==
  ASSUME LoopInv, NEW t \in Timers,
         heap.timer[t].target # Nil \/ heap.timer[t].run_loop # Nil \/ heap.timer[t].running
  PROVE  heap.refcount[t] > 0
<1>1. heap \in Heaps /\ TimerOK(heap, t) /\ heap.refcount[t] \in Nat
  BY InvTimer
<1>2. heap.refcount[t] # 0
  BY <1>1, GoneIs DEF TimerOK
<1>3. QED
  BY <1>1, <1>2

(* The same after a step.                                                  *)
LEMMA InUseAfter ==
  ASSUME LoopInv', NEW t \in Timers,
         heap'.timer[t].target # Nil \/ heap'.timer[t].run_loop # Nil \/ heap'.timer[t].running
  PROVE  heap'.refcount[t] > 0
<1>1. heap' \in Heaps /\ TimerOK(heap', t)
  BY DEF LoopInv, HeapOK
<1>2. heap'.refcount[t] \in Nat
  BY <1>1 DEF Heaps
<1>3. heap'.refcount[t] # 0
  BY <1>1, GoneIs DEF TimerOK
<1>4. QED
  BY <1>2, <1>3

(* The timer of a callback.                                                *)
LEMMA CallbackUses ==
  ASSUME NEW h, NEW fs, NEW ow, HeapOK(h), StacksOK(fs), CountsOK(h, fs, ow),
         NEW th \in Threads, NEW i \in 1 .. Len(fs[th]), fs[th][i].kind = "callback"
  PROVE  /\ fs[th][i].timer \in Timers
         /\ h.timer[fs[th][i].timer].running
         /\ h.refcount[fs[th][i].timer] > 0
<1>1. fs \in Stacks /\ h \in Heaps
  BY DEF StacksOK, HeapOK
<1>2. fs[th][i] \in Frames
  BY <1>1, StackIs
<1>3. fs[th][i].timer \in Timers
  <2>1. fs[th][i] \in CallbackFrames
    BY <1>2, FrameIs
  <2>2. QED
    BY <2>1 DEF CallbackFrames
<1> DEFINE t == fs[th][i].timer
<1>4. Counts(fs[th][i], "callback", t)
  BY DEF Counts, Refers
<1>5. t \in Timers
  BY <1>3
<1> HIDE DEF t
<1>6. Tally(fs, "callback", t) > 0
  BY <1>1, <1>4, <1>5, CountedRefers
<1>7. Tally(fs, "callback", t) = Flag(h.timer[t])
  BY <1>5, CountsAre
<1>8. h.timer[t].running
  BY <1>6, <1>7 DEF Flag
<1>9. h.refcount[t] > 0
  <2>1. TimerOK(h, t) /\ h.refcount[t] \in Nat
    BY <1>1, <1>5 DEF HeapOK, Heaps
  <2>2. h.refcount[t] # 0
    BY <1>8, <2>1, GoneIs DEF TimerOK
  <2>3. QED
    BY <2>1, <2>2
<1>10. QED
  BY <1>5, <1>8, <1>9 DEF t

(* A step is quiet for a timer: what was asked for stays, or nobody waits  *)
(* for it any more.                                                        *)
QuietFor(t) ==
  /\ Kept(heap, heap', t)
  /\ heap'.timer[t].running => heap.timer[t].running
  /\ asker[t] # Nil =>
       Stays(heap, heap', t) \/ (asker[t] \notin waiting' /\ ~ HasEntry(sync, t))
  /\ heap'.refcount[t] > 0 => asker'[t] = asker[t] /\ (t \in fired' <=> t \in fired)
  /\ asker'[t] # Nil => heap'.refcount[t] > 0

(* Steps that make no request and fire nothing.                            *)
LEMMA QuietRequests ==
  ASSUME LoopInv, LoopInv', RequestInv, sync' = sync, waiting' \subseteq waiting,
         Old("callback", frames, frames'), \A t \in Timers : QuietFor(t)
  PROVE  RequestInv'
<1>1. EntriesOK /\ AskersOK /\ RunningFired /\ Woken(frames, asker) /\ WaiterHasRequest
  BY DEF RequestInv
<1>2. heap.timer = timer /\ heap'.timer = timer'
  BY DEF heap
<1>3. ASSUME NEW t \in Timers, asker[t] # Nil, heap'.refcount[t] > 0
      PROVE  timer[t].target # Nil /\ timer'[t].target = timer[t].target
  <2>1. timer[t].target # Nil
    BY <1>1, <1>3 DEF AskersOK
  <2>2. heap.refcount[t] > 0
    BY <1>2, <2>1, InUse
  <2>3. Kept(heap, heap', t)
    BY DEF QuietFor
  <2>4. QED
    BY <1>2, <1>3, <2>1, <2>2, <2>3 DEF Kept
<1>4. EntriesOK'
  <2>1. ASSUME NEW i \in DOMAIN sync
        PROVE  /\ asker'[sync[i].timer] = sync[i].waiter
               /\ timer'[sync[i].timer].target # Nil
               /\ timer'[sync[i].timer].run_loop # Nil
               /\ sync[i].timer \notin fired'
    <3> DEFINE t == sync[i].timer
    <3>1. t \in Timers /\ asker[t] # Nil
      BY <1>1, EntryIs
    <3>2. /\ asker[t] = sync[i].waiter /\ timer[t].run_loop # Nil /\ t \notin fired
          /\ HasEntry(sync, t)
      BY <1>1 DEF EntriesOK, HasEntry
    <3> HIDE DEF t
    <3>3. QuietFor(t)
      BY <3>1
    <3>4. timer'[t].run_loop # Nil
      BY <1>2, <3>1, <3>2, <3>3 DEF QuietFor, Stays
    <3>5. heap'.refcount[t] > 0
      BY <1>2, <3>1, <3>4, InUseAfter
    <3>6. asker'[t] = asker[t] /\ t \notin fired'
      BY <3>2, <3>3, <3>5 DEF QuietFor
    <3>7. timer'[t].target # Nil
      BY <1>3, <3>1, <3>5
    <3>8. QED
      BY <3>2, <3>4, <3>6, <3>7 DEF t
  <2>2. \A i, j \in DOMAIN sync : sync[i].timer = sync[j].timer => i = j
    BY <1>1 DEF EntriesOK
  <2>3. QED
    BY <2>1, <2>2 DEF EntriesOK
<1>5. AskersOK'
  <2>1. ASSUME NEW t \in Timers, asker'[t] # Nil
        PROVE  timer'[t].target # Nil /\ (t \in fired' \/ HasEntry(sync, t))
    <3>1. heap'.refcount[t] > 0 /\ asker'[t] = asker[t] /\ (t \in fired' <=> t \in fired)
      BY <2>1 DEF QuietFor
    <3>2. t \in fired \/ HasEntry(sync, t)
      BY <1>1, <2>1, <3>1 DEF AskersOK
    <3>3. timer'[t].target # Nil
      BY <1>3, <2>1, <3>1
    <3>4. QED
      BY <3>1, <3>2, <3>3
  <2>2. QED
    BY <2>1 DEF AskersOK
<1>6. RunningFired'
  <2>1. ASSUME NEW t \in Timers, timer'[t].running, ~ timer'[t].repeats
        PROVE  t \in fired'
    <3>1. heap'.refcount[t] > 0
      BY <1>2, <2>1, InUseAfter
    <3>2. QuietFor(t)
      OBVIOUS
    <3>3. timer[t].running
      BY <1>2, <2>1, <3>2 DEF QuietFor
    <3>4. heap.refcount[t] > 0
      BY <1>2, <3>3, InUse
    <3>5. timer'[t].repeats = timer[t].repeats
      BY <1>2, <3>1, <3>2, <3>4 DEF QuietFor, Kept
    <3>6. t \in fired
      BY <1>1, <2>1, <3>3, <3>5 DEF RunningFired
    <3>7. QED
      BY <3>1, <3>2, <3>6 DEF QuietFor
  <2>2. QED
    BY <2>1 DEF RunningFired
<1>7. Woken(frames', asker')
  <2>1. ASSUME NEW th \in Threads, NEW i \in 1 .. Len(frames'[th]), frames'[th][i].kind = "callback"
        PROVE  frames'[th][i].posts = asker'[frames'[th][i].timer]
    <3> DEFINE t == frames'[th][i].timer
    <3>1. i \in 1 .. Len(frames[th]) /\ frames[th][i] = frames'[th][i]
      BY <2>1 DEF Old
    <3>2. frames'[th][i].posts = asker[t]
      BY <1>1, <2>1, <3>1 DEF Woken
    <3>3. t \in Timers /\ heap'.refcount[t] > 0
      <4>1. HeapOK(heap') /\ StacksOK(frames') /\ CountsOK(heap', frames', owned')
        BY DEF LoopInv
      <4>2. QED
        BY <2>1, <4>1, CallbackUses
    <3> HIDE DEF t
    <3>4. asker'[t] = asker[t]
      BY <3>3 DEF QuietFor
    <3>5. QED
      BY <3>2, <3>4 DEF t
  <2>2. QED
    BY <2>1 DEF Woken
<1>8. WaiterHasRequest'
  <2>1. ASSUME NEW th \in waiting'
        PROVE  \E t \in Timers : asker'[t] = th /\ (timer'[t].running \/ timer'[t].run_loop # Nil)
    <3>1. th \in waiting /\ th \in Threads
      BY DEF LoopInv, OtherTypes
    <3>2. PICK t \in Timers : asker[t] = th /\ (timer[t].running \/ timer[t].run_loop # Nil)
      BY <1>1, <3>1 DEF WaiterHasRequest
    <3>3. QuietFor(t) /\ asker[t] # Nil
      BY <3>1, <3>2, RunLoopsAssumption
    <3>4. Stays(heap, heap', t)
      BY <2>1, <3>2, <3>3 DEF QuietFor
    <3>5. timer'[t].running \/ timer'[t].run_loop # Nil
      BY <1>2, <3>2, <3>4 DEF Stays
    <3>6. heap'.refcount[t] > 0
      BY <1>2, <3>5, InUseAfter
    <3>7. asker'[t] = th
      BY <3>2, <3>3, <3>6 DEF QuietFor
    <3>8. QED
      BY <3>5, <3>7
  <2>2. QED
    BY <2>1 DEF WaiterHasRequest
<1>9. QED
  BY <1>4, <1>5, <1>6, <1>7, <1>8 DEF RequestInv

(* What is kept of an address when the timer goes.                         *)
LEMMA ForgetIs ==
  ASSUME LoopInv, Forget(heap'), NEW t \in Timers
  PROVE  /\ heap'.refcount[t] > 0 => asker'[t] = asker[t] /\ (t \in fired' <=> t \in fired)
         /\ asker'[t] # Nil => heap'.refcount[t] > 0
BY DEF Forget

(* The calm steps are quiet.                                               *)
LEMMA CalmRequests ==
  ASSUME LoopInv, LoopInv', RequestInv, Calms, UNCHANGED <<sync, waiting>>,
         Old("callback", frames, frames'),
         Forget(heap') \/ UNCHANGED <<asker, fired>>
  PROVE  RequestInv'
<1>1. EntriesOK /\ AskersOK
  BY DEF RequestInv
<1>2. heap.timer = timer
  BY HeapIs
<1>3. ASSUME NEW t \in Timers
      PROVE  QuietFor(t)
  <2>1. Calm(heap, heap', t)
    BY DEF Calms
  <2>2. ASSUME asker[t] # Nil
        PROVE  Stays(heap, heap', t)
    BY <1>1, <1>2, <2>1, <2>2 DEF AskersOK, Calm
  <2>3. /\ heap'.refcount[t] > 0 => asker'[t] = asker[t] /\ (t \in fired' <=> t \in fired)
        /\ asker'[t] # Nil => heap'.refcount[t] > 0
    <3>1. CASE Forget(heap')
      BY <3>1, ForgetIs
    <3>2. CASE UNCHANGED <<asker, fired>>
      <4>1. ASSUME asker[t] # Nil
            PROVE  heap'.refcount[t] > 0
        <5>1. CASE t \in fired
          BY <3>2, <5>1 DEF LoopInv, FiredOK
        <5>2. CASE HasEntry(sync, t)
          <6>1. heap.timer[t].run_loop # Nil
            BY <1>1, <1>2, <5>2 DEF HasEntry, EntriesOK
          <6>2. heap'.timer[t].run_loop # Nil
            BY <2>2, <4>1, <6>1 DEF Stays
          <6>3. QED
            BY <6>2, InUseAfter
        <5>3. QED
          BY <1>1, <4>1, <5>1, <5>2 DEF AskersOK
      <4>2. QED
        BY <3>2, <4>1
    <3>3. QED
      BY <3>1, <3>2
  <2>4. QED
    BY <2>1, <2>2, <2>3 DEF QuietFor, Calm
<1>4. QED
  BY <1>3, QuietRequests

(* A request that is dropped is none that someone waits for.               *)
LEMMA CancelPerformsRequests ==
  ASSUME ~ CancelsWaited, LoopInv, RequestInv, NEW th \in Threads, NEW l \in Threads,
         NEW target \in Targets, CancelPerforms(th, l, target)
  PROVE  RequestInv'
<1>1. /\ LoopInv'
      /\ \A t \in Timers :
           /\ Kept(heap, heap', t)
           /\ heap'.timer[t].running => heap.timer[t].running
           /\ ~ CancelsWaited /\ asker[t] # Nil => Stays(heap, heap', t)
  BY CancelPerformsStep
<1>2. UNCHANGED <<sync, waiting, frames>>
  BY DEF CancelPerforms, performVars
<1>3. Forget(heap')
  <2>1. PICK h : Becomes(h) /\ Forget(h)
    BY DEF CancelPerforms
  <2>2. heap'.refcount = h.refcount
    BY <2>1 DEF Becomes, heap
  <2>3. QED
    BY <2>1, <2>2 DEF Forget
<1>4. ASSUME NEW t \in Timers
      PROVE  QuietFor(t)
  <2>1. /\ heap'.refcount[t] > 0 => asker'[t] = asker[t] /\ (t \in fired' <=> t \in fired)
        /\ asker'[t] # Nil => heap'.refcount[t] > 0
    BY <1>3, ForgetIs
  <2>2. QED
    BY <1>1, <2>1 DEF QuietFor
<1>5. Old("callback", frames, frames')
  BY <1>2 DEF Old
<1>6. QED
  BY <1>1, <1>2, <1>4, <1>5, QuietRequests

(* The thread that waits for a request is woken when the request is done.  *)
LEMMA CallbackReturnsRequests ==
  ASSUME LoopInv, RequestInv, NEW th \in Threads, CallbackReturns(th)
  PROVE  RequestInv'
<1> DEFINE t == Top(th).timer
<1>1. /\ LoopInv' /\ Old("callback", frames, frames')
      /\ t \in Timers
      /\ ~ heap'.timer[t].running
      /\ \A u \in Timers : Kept(heap, heap', u) /\ (u # t => Same(heap, heap', u))
  BY CallbackReturnsStep
<1>2. sync' = sync /\ waiting' = waiting \ {Top(th).posts}
  BY DEF CallbackReturns
<1>3. Forget(heap')
  <2>1. PICK h : Becomes(h) /\ Forget(h)
    BY DEF CallbackReturns, Handled
  <2>2. heap'.refcount = h.refcount
    BY <2>1 DEF Becomes, heap
  <2>3. QED
    BY <2>1, <2>2 DEF Forget
<1>4. /\ Len(frames[th]) \in 1 .. Len(frames[th])
      /\ Top(th) = frames[th][Len(frames[th])]
      /\ Top(th).kind = "callback"
  BY TopIs DEF CallbackReturns, IsTop
<1>5. EntriesOK /\ RunningFired /\ Woken(frames, asker)
  BY DEF RequestInv
<1>6. Top(th).posts = asker[t]
  BY <1>4, <1>5 DEF Woken
<1>7. timer[t].running
  <2>1. HeapOK(heap) /\ StacksOK(frames) /\ CountsOK(heap, frames, owned)
    BY DEF LoopInv
  <2>2. heap.timer[frames[th][Len(frames[th])].timer].running
    BY <1>4, <2>1, CallbackUses
  <2>3. QED
    BY <1>4, <2>2, HeapIs
<1>8. ~ HasEntry(sync, t)
  <2>1. SUFFICES ASSUME NEW i \in DOMAIN sync, sync[i].timer = t
                 PROVE  FALSE
    BY DEF HasEntry
  <2>2. timer[t].target # Nil /\ t \notin fired
    BY <1>5, <2>1 DEF EntriesOK
  <2>3. ~ timer[t].repeats
    BY <1>1, <2>2, HeapIs DEF LoopInv, HeapOK
  <2>4. QED
    BY <1>1, <1>5, <1>7, <2>2, <2>3 DEF RunningFired
<1> HIDE DEF t
<1>9. ASSUME NEW u \in Timers
      PROVE  QuietFor(u)
  <2>1. /\ heap'.refcount[u] > 0 => asker'[u] = asker[u] /\ (u \in fired' <=> u \in fired)
        /\ asker'[u] # Nil => heap'.refcount[u] > 0
    BY <1>3, ForgetIs
  <2>2. CASE u = t
    BY <1>1, <1>2, <1>6, <1>8, <2>1, <2>2 DEF QuietFor
  <2>3. CASE u # t
    <3>1. Kept(heap, heap', u) /\ heap'.timer[u] = heap.timer[u]
      BY <1>1, <2>3 DEF Same
    <3>2. Stays(heap, heap', u)
      BY <3>1 DEF Stays
    <3>3. QED
      BY <2>1, <3>1, <3>2 DEF QuietFor
  <2>4. QED
    BY <2>2, <2>3
<1>10. QED
  BY <1>1, <1>2, <1>9, QuietRequests

(* A request that a thread waits for gets an entry.                        *)
LEMMA WaitRequests ==
  ASSUME LoopInv, RequestInv, NEW th \in Threads, NEW l \in Threads, NEW target \in Targets,
         NEW t \in Timers, Perform(th, l, target, t, TRUE), LoopInv', Calms,
         heap'.timer[t].target = target, heap'.timer[t].run_loop = l
  PROVE  RequestInv'
<1>1. /\ LoopInv' /\ Calms
      /\ heap'.timer[t].target = target /\ heap'.timer[t].run_loop = l
  OBVIOUS
<1>2. EntriesOK /\ AskersOK /\ RunningFired /\ Woken(frames, asker) /\ WaiterHasRequest
  BY DEF RequestInv
<1>3. heap.timer = timer /\ heap'.timer = timer' /\ heap.refcount = refcount
  BY DEF heap
<1> DEFINE e == [timer |-> t, waiter |-> th]
           n == Len(sync)
<1>4. /\ sync' = Append(sync, e) /\ waiting' = waiting \cup {th}
      /\ asker' = [asker EXCEPT ![t] = th] /\ frames' = frames /\ fired' = fired
  BY DEF Perform, WaitsFor
<1>5. /\ DOMAIN sync = 1 .. n /\ n \in Nat
      /\ DOMAIN sync' = 1 .. n + 1
      /\ \A i \in 1 .. n : sync'[i] = sync[i]
      /\ sync'[n + 1] = e
  BY <1>4 DEF LoopInv, OtherTypes
<1>6. /\ asker'[t] = th /\ \A u \in Timers : u # t => asker'[u] = asker[u]
      /\ e.timer = t /\ e.waiter = th
  BY <1>4 DEF LoopInv, OtherTypes
<1> HIDE DEF n, e
<1>7. heap.refcount[t] = 0 /\ ~ (heap.refcount[t] > 0)
  BY <1>3, InvTimer DEF Perform, WaitsFor, Exists
<1>8. t \notin fired
  BY <1>7 DEF LoopInv, FiredOK
<1>9. l # Nil /\ target # Nil
  BY RunLoopsAssumption
<1>10. ASSUME NEW u \in Timers, asker[u] # Nil
       PROVE  /\ u # t /\ timer'[u].target # Nil
              /\ timer[u].run_loop # Nil => timer'[u].run_loop # Nil
              /\ timer[u].running => timer'[u].running
  <2>1. timer[u].target # Nil
    BY <1>2, <1>10 DEF AskersOK
  <2>2. heap.refcount[u] > 0
    BY <1>3, <2>1, InUse
  <2>3. u # t
    BY <1>7, <2>2
  <2>4. Stays(heap, heap', u) /\ Kept(heap, heap', u)
    BY <1>1, <1>3, <2>1 DEF Calms, Calm
  <2>5. timer'[u].target # Nil
    <3>1. u \in fired \/ HasEntry(sync, u)
      BY <1>2, <1>10 DEF AskersOK
    <3>2. CASE u \in fired
      <4>1. heap'.refcount[u] > 0
        BY <1>1, <1>4, <3>2 DEF LoopInv, FiredOK
      <4>2. QED
        BY <1>3, <2>1, <2>2, <2>4, <4>1 DEF Kept
    <3>3. CASE HasEntry(sync, u)
      <4>1. timer[u].run_loop # Nil
        BY <1>2, <3>3 DEF HasEntry, EntriesOK
      <4>2. heap'.refcount[u] > 0
        BY <1>1, <1>3, <2>4, <4>1, InUseAfter DEF Stays
      <4>3. QED
        BY <1>3, <2>1, <2>2, <2>4, <4>2 DEF Kept
    <3>4. QED
      BY <3>1, <3>2, <3>3
  <2>6. QED
    BY <1>3, <2>3, <2>4, <2>5 DEF Stays
<1>11. ASSUME NEW i \in 1 .. n
       PROVE  /\ sync'[i].timer \in Timers /\ sync'[i].timer # t
              /\ asker'[sync'[i].timer] = sync'[i].waiter
              /\ timer'[sync'[i].timer].target # Nil
              /\ timer'[sync'[i].timer].run_loop # Nil
              /\ sync'[i].timer \notin fired'
  <2> DEFINE u == sync[i].timer
  <2>1. i \in DOMAIN sync /\ sync'[i] = sync[i]
    BY <1>5
  <2>2. u \in Timers /\ asker[u] # Nil
    BY <1>2, <2>1, EntryIs
  <2>3. asker[u] = sync[i].waiter /\ timer[u].run_loop # Nil /\ u \notin fired
    BY <1>2, <2>1 DEF EntriesOK
  <2> HIDE DEF u
  <2>4. /\ u # t /\ timer'[u].target # Nil /\ timer'[u].run_loop # Nil
    BY <1>10, <2>2, <2>3
  <2>5. asker'[u] = sync[i].waiter /\ u \notin fired'
    BY <1>4, <1>6, <2>2, <2>3, <2>4
  <2>6. QED
    BY <2>1, <2>2, <2>4, <2>5 DEF u
<1>12. ASSUME NEW i \in 1 .. n + 1
       PROVE  i \in 1 .. n \/ i = n + 1
  BY <1>5
<1>13. EntriesOK'
  <2>1. ASSUME NEW i \in DOMAIN sync', NEW j \in DOMAIN sync', sync'[i].timer = sync'[j].timer
        PROVE  i = j
    <3>1. CASE i = n + 1
      BY <1>5, <1>6, <1>11, <1>12, <2>1, <3>1
    <3>2. CASE j = n + 1
      BY <1>5, <1>6, <1>11, <1>12, <2>1, <3>2
    <3>3. CASE i \in 1 .. n /\ j \in 1 .. n
      BY <1>2, <1>5, <2>1, <3>3 DEF EntriesOK
    <3>4. QED
      BY <1>5, <1>12, <3>1, <3>2, <3>3
  <2>2. ASSUME NEW i \in DOMAIN sync'
        PROVE  /\ asker'[sync'[i].timer] = sync'[i].waiter
               /\ timer'[sync'[i].timer].target # Nil
               /\ timer'[sync'[i].timer].run_loop # Nil
               /\ sync'[i].timer \notin fired'
    <3>1. CASE i = n + 1
      BY <1>1, <1>3, <1>4, <1>5, <1>6, <1>8, <1>9, <3>1
    <3>2. CASE i \in 1 .. n
      BY <1>11, <3>2
    <3>3. QED
      BY <1>5, <1>12, <3>1, <3>2
  <2>3. QED
    BY <2>1, <2>2 DEF EntriesOK
<1>14. HasEntry(sync', t) /\ \A u \in Timers : HasEntry(sync, u) => HasEntry(sync', u)
  <2>1. n + 1 \in DOMAIN sync' /\ \A i \in DOMAIN sync : i \in DOMAIN sync' /\ sync'[i] = sync[i]
    BY <1>5
  <2>2. QED
    BY <1>5, <1>6, <2>1 DEF HasEntry
<1>15. AskersOK'
  <2>1. ASSUME NEW u \in Timers, asker'[u] # Nil
        PROVE  timer'[u].target # Nil /\ (u \in fired' \/ HasEntry(sync', u))
    <3>1. CASE u = t
      BY <1>1, <1>3, <1>9, <1>14, <3>1
    <3>2. CASE u # t
      <4>1. asker[u] # Nil
        BY <1>6, <2>1, <3>2
      <4>2. u \in fired \/ HasEntry(sync, u)
        BY <1>2, <4>1 DEF AskersOK
      <4>3. timer'[u].target # Nil
        BY <1>10, <4>1
      <4>4. QED
        BY <1>4, <1>14, <4>2, <4>3
    <3>3. QED
      BY <3>1, <3>2
  <2>2. QED
    BY <2>1 DEF AskersOK
<1>16. RunningFired'
  <2>1. ASSUME NEW u \in Timers, timer'[u].running, ~ timer'[u].repeats
        PROVE  u \in fired'
    <3>1. Calm(heap, heap', u)
      BY <1>1 DEF Calms
    <3>2. timer[u].running
      BY <1>3, <2>1, <3>1 DEF Calm
    <3>3. heap.refcount[u] > 0 /\ heap'.refcount[u] > 0
      BY <1>1, <1>3, <2>1, <3>2, InUse, InUseAfter
    <3>4. timer'[u].repeats = timer[u].repeats
      BY <1>3, <3>1, <3>3 DEF Calm, Kept
    <3>5. QED
      BY <1>2, <1>4, <2>1, <3>2, <3>4 DEF RunningFired
  <2>2. QED
    BY <2>1 DEF RunningFired
<1>17. Woken(frames', asker')
  <2>1. ASSUME NEW o \in Threads, NEW i \in 1 .. Len(frames[o]), frames[o][i].kind = "callback"
        PROVE  frames[o][i].posts = asker'[frames[o][i].timer]
    <3> DEFINE u == frames[o][i].timer
    <3>1. u \in Timers /\ heap.refcount[u] > 0
      <4>1. HeapOK(heap) /\ StacksOK(frames) /\ CountsOK(heap, frames, owned)
        BY DEF LoopInv
      <4>2. QED
        BY <2>1, <4>1, CallbackUses
    <3>2. frames[o][i].posts = asker[u]
      BY <1>2, <2>1 DEF Woken
    <3> HIDE DEF u
    <3>3. u # t
      BY <1>7, <3>1
    <3>4. asker'[u] = asker[u]
      BY <1>6, <3>1, <3>3
    <3>5. QED
      BY <3>2, <3>4 DEF u
  <2>2. QED
    BY <1>4, <2>1 DEF Woken
<1>18. WaiterHasRequest'
  <2>1. ASSUME NEW o \in waiting'
        PROVE  \E u \in Timers : asker'[u] = o /\ (timer'[u].running \/ timer'[u].run_loop # Nil)
    <3>1. CASE o = th
      BY <1>1, <1>3, <1>6, <1>9, <3>1
    <3>2. CASE o \in waiting
      <4>1. PICK u \in Timers : asker[u] = o /\ (timer[u].running \/ timer[u].run_loop # Nil)
        BY <1>2, <3>2 DEF WaiterHasRequest
      <4>2. asker[u] # Nil
        <5>1. o \in Threads
          BY <3>2 DEF LoopInv, OtherTypes
        <5>2. QED
          BY <4>1, <5>1, RunLoopsAssumption
      <4>3. u # t /\ (timer'[u].running \/ timer'[u].run_loop # Nil)
        BY <1>10, <4>1, <4>2
      <4>4. asker'[u] = o
        BY <1>6, <4>1, <4>3
      <4>5. QED
        BY <4>3, <4>4
    <3>3. QED
      BY <1>4, <3>1, <3>2
  <2>2. QED
    BY <2>1 DEF WaiterHasRequest
<1>19. QED
  BY <1>13, <1>15, <1>16, <1>17, <1>18 DEF RequestInv

(* One that nobody waits for changes nothing of the others.                *)
LEMMA PerformRequests ==
  ASSUME LoopInv, RequestInv, NEW th \in Threads, NEW l \in Threads, NEW target \in Targets,
         NEW t \in Timers, NEW wait \in BOOLEAN, Perform(th, l, target, t, wait)
  PROVE  RequestInv'
<1>1. /\ LoopInv' /\ Calms
      /\ heap'.timer[t].target = target /\ heap'.timer[t].run_loop = l
  BY PerformStep
<1>2. CASE wait
  <2>1. Perform(th, l, target, t, TRUE)
    BY <1>2 DEF Perform, WaitsFor
  <2>2. QED
    BY <1>1, <2>1, WaitRequests
<1>3. CASE ~ wait
  <2>1. UNCHANGED <<sync, waiting, asker, fired, frames>>
    BY <1>3 DEF Perform, WaitsFor
  <2>2. Old("callback", frames, frames')
    BY <2>1 DEF Old
  <2>3. QED
    BY <1>1, <2>1, <2>2, CalmRequests
<1>4. QED
  BY <1>2, <1>3

(* A sequence without one of its elements.                                 *)
LEMMA RemovedIs ==
  ASSUME NEW S, NEW s \in Seq(S), NEW k \in 1 .. Len(s)
  PROVE  /\ Len(s) \in Nat /\ DOMAIN SX!RemoveAt(s, k) = 1 .. Len(s) - 1
         /\ \A i \in 1 .. Len(s) - 1 :
              SX!RemoveAt(s, k)[i] = IF i < k THEN s[i] ELSE s[i + 1]
<1> DEFINE n == Len(s)
           a == SubSeq(s, 1, k - 1)
           b == SubSeq(s, k + 1, n)
<1>1. n \in Nat /\ k \in Nat /\ 1 <= k /\ k <= n
  OBVIOUS
<1>2. Len(a) = k - 1 /\ \A i \in 1 .. k - 1 : a[i] = s[i]
  BY <1>1
<1>3. Len(b) = n - k /\ \A i \in 1 .. n - k : b[i] = s[k + i]
  BY <1>1
<1>4. a \in Seq(S) /\ b \in Seq(S)
  <2>1. \A i \in 1 .. n : s[i] \in S
    BY ElementOfSeq
  <2>2. (\A i \in 1 .. k - 1 : i \in 1 .. n) /\ \A i \in k + 1 .. n : i \in 1 .. n
    BY <1>1
  <2>3. (\A i \in 1 .. k - 1 : s[i] \in S) /\ \A i \in k + 1 .. n : s[i] \in S
    BY <2>1, <2>2
  <2>4. 1 \in Int /\ k - 1 \in Int /\ k + 1 \in Int /\ n \in Int
    BY <1>1
  <2>5. QED
    BY <2>3, <2>4, SubSeqProperties
<1>5. SX!RemoveAt(s, k) = a \o b
  BY DEF SX!RemoveAt
<1> HIDE DEF a, b, n
<1>6. /\ DOMAIN (a \o b) = 1 .. Len(a) + Len(b)
      /\ \A i \in 1 .. Len(a) + Len(b) : (a \o b)[i] = IF i <= Len(a) THEN a[i] ELSE b[i - Len(a)]
  BY <1>4
<1>7. Len(a) + Len(b) = n - 1
  BY <1>1, <1>2, <1>3
<1>8. ASSUME NEW i \in 1 .. n - 1
      PROVE  (a \o b)[i] = IF i < k THEN s[i] ELSE s[i + 1]
  <2>1. CASE i < k
    BY <1>1, <1>2, <1>6, <1>7, <2>1
  <2>2. CASE ~ (i < k)
    <3>1. i - Len(a) \in 1 .. n - k /\ k + (i - Len(a)) = i + 1 /\ ~ (i <= Len(a))
      BY <1>1, <1>2, <2>2
    <3>2. (a \o b)[i] = b[i - Len(a)]
      BY <1>6, <1>7, <3>1
    <3>3. b[i - Len(a)] = s[k + (i - Len(a))]
      BY <1>3, <3>1
    <3>4. QED
      BY <2>2, <3>1, <3>2, <3>3
  <2>3. QED
    BY <2>1, <2>2
<1>9. QED
  BY <1>1, <1>5, <1>6, <1>7, <1>8 DEF n

(* The entry of a timer that fires is taken, no other one, and the callback*)
(* has its waiter.                                                         *)
LEMMA TakenIs ==
  ASSUME LoopInv, EntriesOK, NEW t \in Timers
  PROVE  /\ \A i \in DOMAIN SyncTaken(t) :
              \E k \in DOMAIN sync : SyncTaken(t)[i] = sync[k] /\ sync[k].timer # t
         /\ \A i, j \in DOMAIN SyncTaken(t) :
              SyncTaken(t)[i].timer = SyncTaken(t)[j].timer => i = j
         /\ \A u \in Timers : u # t /\ HasEntry(sync, u) => HasEntry(SyncTaken(t), u)
         /\ Posts(t) = IF HasEntry(sync, t) THEN asker[t] ELSE Nil
<1>1. sync \in Seq([timer : Timers, waiter : Threads])
  BY DEF LoopInv, OtherTypes
<1>2. DOMAIN sync = 1 .. Len(sync) /\ Len(sync) \in Nat
  BY <1>1
<1>3. CASE ~ HasEntry(sync, t)
  <2>1. Semaphores(t) = {} /\ \A k \in DOMAIN sync : sync[k].timer # t
    BY <1>3 DEF HasEntry, Semaphores
  <2>2. SyncTaken(t) = sync /\ Posts(t) = Nil
    BY <2>1 DEF SyncTaken, Posts
  <2>3. QED
    BY <1>3, <2>1, <2>2 DEF EntriesOK
<1>4. CASE HasEntry(sync, t)
  <2>1. PICK k \in DOMAIN sync : sync[k].timer = t
    BY <1>4 DEF HasEntry
  <2>2. Semaphores(t) = {k}
    BY <2>1 DEF EntriesOK, Semaphores
  <2>3. FirstSemaphore(t) = k
    <3>1. \A i \in {k} : (\A j \in {k} : i <= j) => i = k
      OBVIOUS
    <3>2. k <= k
      BY <1>2
    <3>3. QED
      BY <2>2, <3>1, <3>2 DEF FirstSemaphore
  <2>4. timer[t].target # Nil /\ asker[t] = sync[k].waiter
    BY <2>1 DEF EntriesOK
  <2>5. SyncTaken(t) = SX!RemoveAt(sync, k) /\ Posts(t) = asker[t]
    <3>1. Semaphores(t) # {}
      BY <2>2
    <3>2. QED
      BY <2>3, <2>4, <3>1 DEF SyncTaken, Posts
  <2> DEFINE s == SyncTaken(t)
             n == Len(sync)
             At(i) == IF i < k THEN i ELSE i + 1
  <2>6. /\ DOMAIN s = 1 .. n - 1
        /\ \A i \in 1 .. n - 1 : s[i] = IF i < k THEN sync[i] ELSE sync[i + 1]
    <3>1. k \in 1 .. Len(sync)
      BY <1>2
    <3> HIDE DEF s
    <3>2. /\ DOMAIN SX!RemoveAt(sync, k) = 1 .. Len(sync) - 1
          /\ \A i \in 1 .. Len(sync) - 1 :
               SX!RemoveAt(sync, k)[i] = IF i < k THEN sync[i] ELSE sync[i + 1]
      BY <1>1, <3>1, RemovedIs
    <3>3. QED
      BY <2>5, <3>2 DEF s
  <2> HIDE DEF s
  <2>7. k \in 1 .. n /\ n \in Nat
    BY <1>2
  <2>8. ASSUME NEW i \in DOMAIN s
        PROVE  At(i) \in DOMAIN sync /\ At(i) # k /\ s[i] = sync[At(i)]
    BY <1>2, <2>6, <2>7
  <2>9. ASSUME NEW i \in DOMAIN s, NEW j \in DOMAIN s, At(i) = At(j)
        PROVE  i = j
    BY <2>6, <2>7, <2>9
  <2>10. ASSUME NEW j \in DOMAIN sync, j # k
         PROVE  \E i \in DOMAIN s : s[i] = sync[j]
    <3>1. CASE j < k
      <4>1. j \in 1 .. n - 1
        BY <1>2, <2>7, <3>1
      <4>2. QED
        BY <2>6, <3>1, <4>1
    <3>2. CASE ~ (j < k)
      <4>1. j - 1 \in 1 .. n - 1 /\ ~ (j - 1 < k) /\ (j - 1) + 1 = j
        BY <1>2, <2>7, <2>10, <3>2
      <4>2. s[j - 1] = sync[j]
        BY <2>6, <4>1
      <4>3. QED
        BY <2>6, <4>1, <4>2
    <3>3. QED
      BY <3>1, <3>2
  <2> HIDE DEF At, n
  <2>11. \A i \in DOMAIN s : \E j \in DOMAIN sync : s[i] = sync[j] /\ sync[j].timer # t
    BY <2>1, <2>8 DEF EntriesOK
  <2>12. \A i, j \in DOMAIN s : s[i].timer = s[j].timer => i = j
    <3>1. SUFFICES ASSUME NEW i \in DOMAIN s, NEW j \in DOMAIN s, s[i].timer = s[j].timer
                   PROVE  i = j
      OBVIOUS
    <3>2. sync[At(i)].timer = sync[At(j)].timer
      BY <2>8, <3>1
    <3>3. At(i) = At(j)
      BY <2>8, <3>2 DEF EntriesOK
    <3>4. QED
      BY <2>9, <3>3
  <2>13. ASSUME NEW u \in Timers, u # t, HasEntry(sync, u)
         PROVE  HasEntry(s, u)
    <3>1. PICK j \in DOMAIN sync : sync[j].timer = u
      BY <2>13 DEF HasEntry
    <3>2. j # k
      BY <2>1, <2>13, <3>1
    <3>3. QED
      BY <2>10, <3>1, <3>2 DEF HasEntry
  <2>14. QED
    BY <1>4, <2>5, <2>11, <2>12, <2>13 DEF s
<1>5. QED
  BY <1>3, <1>4

(* The loop fires a timer: a request's callback will wake who waits for it.*)
LEMMA StartRequests ==
  ASSUME LoopInv, RequestInv, NEW th \in Threads, Start(th)
  PROVE  RequestInv'
<1>1. LoopInv'
  BY StartStep
<1>2. PICK t \in Timers :
        /\ IsDue(t) /\ Stays(heap, heap', t) /\ Kept(heap, heap', t)
        /\ \A u \in Timers \ {t} : heap'.timer[u] = heap.timer[u]
        /\ heap'.timer[t].target = heap.timer[t].target
        /\ heap'.timer[t].run_loop = heap.timer[t].run_loop
        /\ heap'.timer[t].repeats = heap.timer[t].repeats
        /\ sync' = SyncTaken(t)
        /\ fired' = IF timer[t].repeats THEN fired ELSE fired \cup {t}
        /\ \E f \in Frames : /\ Pushed(frames, frames', th, f)
                            /\ f.timer = t /\ f.posts = Posts(t)
  BY StartStep
<1>3. UNCHANGED <<asker, waiting>>
  BY DEF Start
<1>4. EntriesOK /\ AskersOK /\ RunningFired /\ Woken(frames, asker) /\ WaiterHasRequest
  BY DEF RequestInv
<1>5. heap.timer = timer /\ heap'.timer = timer'
  BY DEF heap
<1>6. ASSUME NEW u \in Timers
      PROVE  /\ timer'[u].target = timer[u].target
             /\ timer'[u].run_loop = timer[u].run_loop
             /\ timer'[u].repeats = timer[u].repeats
             /\ timer[u].running => timer'[u].running
             /\ u # t => timer'[u].running = timer[u].running
  <2>1. CASE u = t
    BY <1>2, <1>5, <2>1 DEF Stays
  <2>2. CASE u # t
    BY <1>2, <1>5, <2>2
  <2>3. QED
    BY <2>1, <2>2
<1>7. timer[t].target # Nil => ~ timer[t].repeats
  BY <1>5 DEF LoopInv, HeapOK
<1>8. /\ \A i \in DOMAIN sync' : \E k \in DOMAIN sync : sync'[i] = sync[k] /\ sync[k].timer # t
      /\ \A i, j \in DOMAIN sync' : sync'[i].timer = sync'[j].timer => i = j
      /\ \A u \in Timers : u # t /\ HasEntry(sync, u) => HasEntry(sync', u)
      /\ Posts(t) = IF HasEntry(sync, t) THEN asker[t] ELSE Nil
  <2>1. /\ \A i \in DOMAIN SyncTaken(t) :
             \E k \in DOMAIN sync : SyncTaken(t)[i] = sync[k] /\ sync[k].timer # t
        /\ \A i, j \in DOMAIN SyncTaken(t) :
             SyncTaken(t)[i].timer = SyncTaken(t)[j].timer => i = j
        /\ \A u \in Timers : u # t /\ HasEntry(sync, u) => HasEntry(SyncTaken(t), u)
        /\ Posts(t) = IF HasEntry(sync, t) THEN asker[t] ELSE Nil
    BY <1>4, TakenIs
  <2>2. sync' = SyncTaken(t)
    BY <1>2
  <2>3. QED
    BY <2>1, <2>2
<1>9. Posts(t) = asker[t]
  <2>1. SUFFICES ASSUME ~ HasEntry(sync, t), asker[t] # Nil
                 PROVE  FALSE
    BY <1>8
  <2>2. t \in fired
    BY <1>4, <2>1 DEF AskersOK
  <2>3. Settled(timer[t])
    BY <1>5, <2>2 DEF LoopInv, FiredOK
  <2>4. QED
    BY <1>2, <2>3 DEF IsDue, Settled
<1>10. EntriesOK'
  <2>1. ASSUME NEW i \in DOMAIN sync'
        PROVE  /\ asker[sync'[i].timer] = sync'[i].waiter
               /\ timer'[sync'[i].timer].target # Nil
               /\ timer'[sync'[i].timer].run_loop # Nil
               /\ sync'[i].timer \notin fired'
    <3>1. PICK k \in DOMAIN sync : sync'[i] = sync[k] /\ sync[k].timer # t
      BY <1>8
    <3>2. sync[k].timer \in Timers
      BY <1>4, EntryIs
    <3>3. /\ asker[sync[k].timer] = sync[k].waiter
          /\ timer[sync[k].timer].target # Nil
          /\ timer[sync[k].timer].run_loop # Nil
          /\ sync[k].timer \notin fired
      BY <1>4 DEF EntriesOK
    <3>4. sync[k].timer \notin fired'
      BY <1>2, <3>1, <3>3
    <3>5. QED
      BY <1>6, <3>1, <3>2, <3>3, <3>4
  <2>2. QED
    BY <1>3, <1>8, <2>1 DEF EntriesOK
<1>11. AskersOK'
  <2>1. ASSUME NEW u \in Timers, asker[u] # Nil
        PROVE  timer'[u].target # Nil /\ (u \in fired' \/ HasEntry(sync', u))
    <3>1. timer[u].target # Nil /\ (u \in fired \/ HasEntry(sync, u))
      BY <1>4, <2>1 DEF AskersOK
    <3>2. CASE u = t
      BY <1>2, <1>6, <1>7, <3>1, <3>2
    <3>3. CASE u # t
      BY <1>2, <1>6, <1>8, <3>1, <3>3
    <3>4. QED
      BY <3>2, <3>3
  <2>2. QED
    BY <1>3, <2>1 DEF AskersOK
<1>12. RunningFired'
  <2>1. ASSUME NEW u \in Timers, timer'[u].running, ~ timer'[u].repeats
        PROVE  u \in fired'
    <3>1. CASE u = t
      BY <1>2, <1>6, <2>1, <3>1
    <3>2. CASE u # t
      <4>1. u \in fired
        BY <1>4, <1>6, <2>1, <3>2 DEF RunningFired
      <4>2. QED
        BY <1>2, <4>1
    <3>3. QED
      BY <3>1, <3>2
  <2>2. QED
    BY <2>1 DEF RunningFired
<1>13. Woken(frames', asker)
  <2>1. PICK f \in Frames : /\ Pushed(frames, frames', th, f)
                           /\ f.timer = t /\ f.posts = Posts(t)
    BY <1>2
  <2>2. frames \in Stacks
    BY DEF LoopInv, StacksOK
  <2>3. ASSUME NEW o \in Threads, NEW i \in 1 .. Len(frames'[o]), frames'[o][i].kind = "callback"
        PROVE  frames'[o][i].posts = asker[frames'[o][i].timer]
    <3>1. CASE o = th /\ i = Len(frames[th]) + 1
      BY <1>9, <2>1, <3>1 DEF Pushed
    <3>2. CASE ~ (o = th /\ i = Len(frames[th]) + 1)
      <4>1. i \in 1 .. Len(frames[o]) /\ frames'[o][i] = frames[o][i]
        <5>1. Len(frames[o]) \in Nat /\ Len(frames[th]) \in Nat
          BY <2>2, StackIs
        <5>2. CASE o = th
          BY <2>1, <3>2, <5>1, <5>2 DEF Pushed
        <5>3. CASE o # th
          BY <2>1, <5>3 DEF Pushed
        <5>4. QED
          BY <5>2, <5>3
      <4>2. QED
        BY <1>4, <2>3, <4>1 DEF Woken
    <3>3. QED
      BY <3>1, <3>2
  <2>4. QED
    BY <2>3 DEF Woken
<1>14. WaiterHasRequest'
  <2>1. ASSUME NEW o \in waiting
        PROVE  \E u \in Timers : asker[u] = o /\ (timer'[u].running \/ timer'[u].run_loop # Nil)
    <3>1. PICK u \in Timers : asker[u] = o /\ (timer[u].running \/ timer[u].run_loop # Nil)
      BY <1>4 DEF WaiterHasRequest
    <3>2. timer'[u].running \/ timer'[u].run_loop # Nil
      BY <1>6, <3>1
    <3>3. QED
      BY <3>1, <3>2
  <2>2. QED
    BY <1>3, <2>1 DEF WaiterHasRequest
<1>15. QED
  BY <1>3, <1>10, <1>11, <1>12, <1>13, <1>14 DEF RequestInv

(* Every step keeps the requests in order, if no loop drops one that a     *)
(* thread waits for.                                                       *)
LEMMA NextRequests ==
  ASSUME ~ CancelsWaited, LoopInv, LoopInv', RequestInv, [Next]_vars
  PROVE  RequestInv'
<1> DEFINE Undisturbed ==
             /\ Calms /\ UNCHANGED <<sync, waiting>> /\ Old("callback", frames, frames')
             /\ Forget(heap') \/ UNCHANGED <<asker, fired>>
<1>1. ASSUME Undisturbed
      PROVE  RequestInv'
  BY <1>1, CalmRequests
<1>2. frames' = frames => Old("callback", frames, frames')
  BY DEF Old
<1>3. ASSUME NEW h, Becomes(h), Forget(h)
      PROVE  Forget(heap')
  <2>1. heap'.refcount = h.refcount
    BY <1>3 DEF Becomes, heap
  <2>2. QED
    BY <1>3, <2>1 DEF Forget
<1>4. ASSUME NEW th \in Threads, GuestCall(th)
      PROVE  RequestInv'
  <2>1. CASE \E t \in Timers : MakesTimers /\ \E b \in BOOLEAN : Create(th, t, b)
    <3>1. PICK t \in Timers, b \in BOOLEAN : Create(th, t, b)
      BY <2>1
    <3>2. Calms
      BY <3>1, CreateStep
    <3>3. UNCHANGED <<sync, waiting, asker, fired, frames>>
      BY <3>1 DEF Create, performVars
    <3>4. QED
      BY <1>1, <1>2, <3>2, <3>3
  <2>2. CASE \E t \in Timers : Drop(th, t)
    <3>1. PICK t \in Timers : Drop(th, t)
      BY <2>2
    <3>2. Calms
      BY <3>1, DropStep
    <3>3. UNCHANGED <<sync, waiting, frames>>
      BY <3>1 DEF Drop, performVars
    <3>4. Forget(heap')
      BY <1>3, <3>1 DEF Drop
    <3>5. QED
      BY <1>1, <1>2, <3>2, <3>3, <3>4
  <2>3. CASE \E t \in Timers, l \in Threads : AddTimer(th, l, t)
    <3>1. PICK t \in Timers, l \in Threads : AddTimer(th, l, t)
      BY <2>3
    <3>2. Calms
      BY <3>1, AddTimerStep
    <3>3. UNCHANGED <<sync, waiting, asker, fired, frames>>
      BY <3>1 DEF AddTimer, performVars, history
    <3>4. QED
      BY <1>1, <1>2, <3>2, <3>3
  <2>4. CASE \E t \in Timers : Invalidate(th, t)
    <3>1. PICK t \in Timers : Invalidate(th, t)
      BY <2>4
    <3>2. Calms
      BY <3>1, InvalidateStep
    <3>3. UNCHANGED <<sync, waiting, frames>>
      BY <3>1 DEF Invalidate, performVars
    <3>4. Forget(heap')
      BY <1>3, <3>1 DEF Invalidate
    <3>5. QED
      BY <1>1, <1>2, <3>2, <3>3, <3>4
  <2>5. CASE \E t \in Timers, date \in {"later", "now"} : SetFireDate(th, t, date)
    <3>1. PICK t \in Timers, date \in {"later", "now"} : SetFireDate(th, t, date)
      BY <2>5
    <3>2. Calms
      BY <3>1, DateSteps
    <3>3. UNCHANGED <<sync, waiting, asker, fired, frames>>
      BY <3>1 DEF SetFireDate, performVars, history
    <3>4. QED
      BY <1>1, <1>2, <3>2, <3>3
  <2>6. CASE \E t \in Timers : Fire(th, t)
    <3>1. PICK t \in Timers : Fire(th, t)
      BY <2>6
    <3>2. Calms /\ Old("callback", frames, frames')
      BY <3>1, FireStep
    <3>3. UNCHANGED <<sync, waiting, asker, fired>>
      BY <3>1 DEF Fire, performVars, history
    <3>4. QED
      BY <1>1, <3>2, <3>3
  <2>7. CASE \E t \in Timers, l \in Threads, g \in Targets, wait \in BOOLEAN :
               Perform(th, l, g, t, wait)
    BY <2>7, PerformRequests
  <2>8. CASE \/ \E l \in Stops : CFRunLoopStop(th, l)
             \/ \E g \in Targets, all \in CancelKinds : CancelPrevious(th, g, all)
    <3>1. Calms
      BY <2>8, OtherCalls, RunLoopsAssumption
    <3>2. UNCHANGED <<sync, waiting, asker, fired, frames>>
      BY <2>8 DEF CFRunLoopStop, CancelPrevious, performVars, history
    <3>3. QED
      BY <1>1, <1>2, <3>1, <3>2
  <2>9. CASE \E l \in Threads, g \in Targets : CancelPerforms(th, l, g)
    BY <2>9, CancelPerformsRequests
  <2>10. CASE \E single \in BOOLEAN : Run(th, single)
    <3>1. PICK single \in BOOLEAN : Run(th, single)
      BY <2>10
    <3>2. Calms /\ Old("callback", frames, frames')
      BY <3>1, RunLoopStep
    <3>3. UNCHANGED <<sync, waiting, asker, fired>>
      BY <3>1 DEF Run, performVars, history
    <3>4. QED
      BY <1>1, <3>2, <3>3
  <2>11. QED
    BY <1>4, <2>1, <2>2, <2>3, <2>4, <2>5, <2>6, <2>7, <2>8, <2>9, <2>10 DEF GuestCall
<1>5. ASSUME NEW th \in Threads, RunStep(th)
      PROVE  RequestInv'
  <2>1. CASE Wake(th)
    <3>1. Calms /\ Old("callback", frames, frames')
      BY <2>1, WakeStep
    <3>2. UNCHANGED <<sync, waiting, asker, fired>>
      BY <2>1 DEF Wake, performVars, history
    <3>3. QED
      BY <1>1, <3>1, <3>2
  <2>2. CASE Skip(th)
    <3>1. Calms /\ Old("callback", frames, frames')
      BY <2>2, SkipStep
    <3>2. UNCHANGED <<sync, waiting>>
      BY <2>2 DEF Skip, performVars
    <3>3. Forget(heap')
      BY <1>3, <2>2 DEF Skip, Handled
    <3>4. QED
      BY <1>1, <3>1, <3>2, <3>3
  <2>3. CASE Start(th)
    BY <2>3, StartRequests
  <2>4. CASE CallbackReturns(th)
    BY <2>4, CallbackReturnsRequests
  <2>5. CASE FireReturns(th)
    <3>1. Calms /\ Old("callback", frames, frames')
      BY <2>5, FireReturnsStep
    <3>2. UNCHANGED <<sync, waiting>>
      BY <2>5 DEF FireReturns, performVars
    <3>3. Forget(heap')
      BY <1>3, <2>5 DEF FireReturns
    <3>4. QED
      BY <1>1, <3>1, <3>2, <3>3
  <2>6. QED
    BY <1>5, <2>1, <2>2, <2>3, <2>4, <2>5 DEF RunStep
<1>6. CASE \E t \in Timers : Tick(t)
  <2>1. PICK t \in Timers : Tick(t)
    BY <1>6
  <2>2. Calms
    BY <2>1, DateSteps
  <2>3. UNCHANGED <<sync, waiting, asker, fired, frames>>
    BY <2>1 DEF Tick, performVars, history
  <2>4. QED
    BY <1>1, <1>2, <2>2, <2>3
<1>7. CASE UNCHANGED vars
  <2>1. UNCHANGED <<timer, sync, waiting, asker, fired, frames>>
    BY <1>7 DEF vars, objectVars, performVars, history
  <2>2. QED
    BY <2>1 DEF RequestInv, EntriesOK, AskersOK, RunningFired, WaiterHasRequest
<1>8. QED
  BY <1>4, <1>5, <1>6, <1>7 DEF Next

(* Who waits for a request has one, and each request knows who waits for   *)
(* it, from the call to the end of the callback.                           *)
THEOREM RequestsInvariance ==
  ASSUME ~ CancelsWaited
  PROVE  Spec => []RequestInv
<1>1. LoopInv /\ LoopInv' /\ RequestInv /\ [Next]_vars => RequestInv'
  BY NextRequests
<1>2. QED
  BY <1>1, InitRequests, LoopsInvariance, PTL DEF Spec

(* _touchHLE_timerFireMethod: posts the semaphore of the thread that waits *)
(* for this very request, also at a timer's address that is used again.    *)
THEOREM WaitersWokenRight ==
  ASSUME ~ CancelsWaited
  PROVE  Spec => []RightWaiterWoken
<1>1. LoopInv /\ RequestInv => RightWaiterWoken
  <2> SUFFICES ASSUME LoopInv, RequestInv, NEW c \in FrameSet("callback")
               PROVE  frames[c[1]][c[2]].posts = asker[frames[c[1]][c[2]].timer]
    BY DEF RightWaiterWoken
  <2>1. frames \in Stacks
    BY DEF LoopInv, StacksOK
  <2>2. c \in Threads \X Nat
    BY <2>1, FrameSetIs
  <2>3. PICK th \in Threads, i \in Nat : c = <<th, i>>
    BY <2>2
  <2>4. i \in 1 .. Len(frames[th]) /\ frames[th][i].kind = "callback"
    BY <2>1, <2>3, FrameSetIs
  <2>5. QED
    BY <2>3, <2>4 DEF RequestInv, Woken
<1>2. QED
  BY <1>1, LoopsInvariance, RequestsInvariance, PTL

(* A thread in performSelector:..waitUntilDone:YES waits for a timer that  *)
(* is in a loop or whose callback runs: the wake-up is not lost, unless a  *)
(* loop drops the request with -cancelPerformSelectorsWithTarget:.         *)
THEOREM WaitersHaveRequests ==
  ASSUME ~ CancelsWaited
  PROVE  Spec => []WaiterHasRequest
<1>1. RequestInv => WaiterHasRequest
  BY DEF RequestInv
<1>2. QED
  BY <1>1, RequestsInvariance, PTL

=============================================================================
