------------------------------ MODULE RunLoops ------------------------------
(***************************************************************************)
(* The run loops of foundation/ns_run_loop.rs and cf_run_loop.rs, the      *)
(* timers of ns_timer.rs, and the requests of ns_object.rs to perform a    *)
(* selector later or on another thread, which are one-shot timers.         *)
(*                                                                         *)
(* A run loop is named by its thread. Guest code that a timer calls can do *)
(* everything: stop, add and invalidate timers, also the one that fires,   *)
(* and run the loop again from inside, so each thread has a stack of       *)
(* frames. The threads take turns while a loop sleeps and in guest code.   *)
(* A deadline is in the future or due; timers are their addresses, which   *)
(* are used again.                                                         *)
(***************************************************************************)
EXTENDS Naturals, Sequences, FiniteSets

SX == INSTANCE SequencesExt

CONSTANTS Threads,
          Timers,       (* addresses a timer can have                      *)
          Targets,      (* objects asked to perform a selector             *)
          Nil,
          MakesTimers,  (* whether the guest makes timers of its own       *)
          Stops,        (* the loops it stops                              *)
          MaxDepth,     (* bound on the frames of each thread              *)
          CancelKinds,  (* whether all requests of a target are cancelled, *)
                        (* or those of a selector                          *)
          CancelsWaited (* whether the guest has a loop drop requests      *)
                        (* another thread is waiting for                   *)

ASSUME RunLoopsAssumption ==
  /\ Nil \notin Threads \cup Targets
  /\ MakesTimers \in BOOLEAN
  /\ Stops \subseteq Threads
  /\ MaxDepth \in [Threads -> Nat]
  /\ CancelKinds \subseteq BOOLEAN
  /\ CancelsWaited \in BOOLEAN

VARIABLES timer,     (* NSTimerHostObject of each timer                    *)
          refcount,  (* its reference count, 0 for none                    *)
          list,      (* how often NSRunLoopHostObject.timers of each loop  *)
                     (* has each timer                                     *)
          stopped,   (* NSRunLoopHostObject.stopped of each loop           *)
          frames,    (* what runs on each thread, the innermost last       *)
          sync,      (* SYNC_PERFORM_SEMAPHORES: timer and waiting thread  *)
          waiting,   (* threads in performSelector..waitUntilDone:YES      *)
          cancelled, (* CANCELLED_PERFORMS, one selector per target        *)
          owned,     (* history: references the guest or a pool has        *)
          fired,     (* history: one-shot timers that a loop has fired     *)
          asker,     (* history: the thread that waits for a request       *)
          revoked    (* history: requests cancelled while they were pending*)

objectVars == <<timer, refcount, list>>
performVars == <<sync, waiting, cancelled>>
history == <<owned, fired, asker, revoked>>
vars == <<objectVars, stopped, frames, performVars, history>>

-----------------------------------------------------------------------------
(* No timer is at the address. A timer for a perform request has the       *)
(* target of the request, other timers have Nil.                           *)
Gone == [repeats |-> FALSE, target |-> Nil, due_by |-> "none",
         running |-> FALSE, run_loop |-> Nil]

NewTimer(repeats, target) ==
  [Gone EXCEPT !.repeats = repeats, !.target = target, !.due_by = "later"]

HostObjects ==
  [repeats : BOOLEAN, target : Targets \cup {Nil},
   due_by : {"none", "later", "now"}, running : BOOLEAN,
   run_loop : Threads \cup {Nil}]

(* The lists of timers are in no particular order, because remove_timer    *)
(* moves the last one to the place of the one it takes out.                *)
Lists == [Timers -> Nat]

EmptyList == [t \in Timers |-> 0]

(* run_run_loop with the timers it has yet to handle in this iteration; it *)
(* sleeps when there are none.                                             *)
LoopFrames == [kind : {"loop"}, single : BOOLEAN, rest : Lists]

(* handle_timer while the timer's callback runs: posts is the thread that  *)
(* _touchHLE_timerFireMethod: has to wake, skipped tells that it does not  *)
(* send the selector.                                                      *)
CallbackFrames ==
  [kind : {"callback"}, timer : Timers, posts : Threads \cup {Nil},
   skipped : BOOLEAN]

(* -[NSTimer fire]                                                         *)
FireFrames == [kind : {"fire"}, timer : Timers, repeats : BOOLEAN]

Frames == LoopFrames \cup CallbackFrames \cup FireFrames

Top(th) == SX!Last(frames[th])
IsTop(th, kind) == frames[th] # << >> /\ Top(th).kind = kind
Handling(th) == IsTop(th, "loop") /\ Top(th).rest # EmptyList
Skipping(th) == IsTop(th, "callback") /\ Top(th).skipped

FrameSet(kind) ==
  UNION {{<<th, i>> : i \in {j \in DOMAIN frames[th] : frames[th][j].kind = kind}} :
            th \in Threads}

(* A thread may go on when no other one is between two steps of the loop   *)
(* that do not yield.                                                      *)
HasTurn(th) == \A o \in Threads \ {th} : ~ Handling(o) /\ ~ Skipping(o)

InGuest(th) ==
  /\ HasTurn(th)
  /\ th \notin waiting
  /\ ~ IsTop(th, "loop")
  /\ ~ Skipping(th)

Exists(t) == refcount[t] > 0

(* The guest knows the timers it made, not those of perform requests.      *)
Knows(t) == Exists(t) /\ timer[t].target = Nil

-----------------------------------------------------------------------------
(* The calls that change timers, on the record of the variables above.     *)
heap == [timer |-> timer, refcount |-> refcount, list |-> list]

Becomes(h) ==
  /\ timer' = h.timer
  /\ refcount' = h.refcount
  /\ list' = h.list

retain(h, t) == [h EXCEPT !.refcount[t] = @ + 1]

(* -dealloc. The release of its target, and the guest code which that may  *)
(* run in the middle of an iteration, are not modelled.                    *)
Deallocated(h, t) == [h EXCEPT !.refcount[t] = 0, !.timer[t] = Gone]

remove_timer(h, l, t) ==
  LET release_count == h.list[l][t]
      g == [h EXCEPT !.list[l][t] = 0]
  IN  IF h.refcount[t] > release_count
      THEN [g EXCEPT !.refcount[t] = @ - release_count]
      ELSE Deallocated(g, t)

invalidate(h, t) ==
  LET run_loop == h.timer[t].run_loop
      g == [h EXCEPT !.timer[t].due_by = "none", !.timer[t].run_loop = Nil]
  IN  IF run_loop = Nil THEN g ELSE remove_timer(g, run_loop, t)

(* Several timers: to invalidate one changes nothing of another.           *)
AllInvalidated(h, ts) ==
  LET g(t) == IF t \in ts THEN invalidate(h, t) ELSE h
  IN  [timer |-> [t \in Timers |-> g(t).timer[t]],
       refcount |-> [t \in Timers |-> g(t).refcount[t]],
       list |-> [l \in Threads |-> [t \in Timers |-> g(t).list[l][t]]]]

release(h, t) ==
  IF h.refcount[t] > 1
  THEN [h EXCEPT !.refcount[t] = @ - 1]
  ELSE Deallocated(invalidate(h, t), t)

(* Mutant: a timer may be added twice.                                     *)
MutAddTimer(h, l, t) ==
  [retain(h, t) EXCEPT !.list[l][t] = @ + 1, !.timer[t].run_loop = l]

addTimer(h, l, t) ==
  IF h.list[l][t] > 0
  THEN h
  ELSE [retain(h, t) EXCEPT !.list[l][t] = @ + 1, !.timer[t].run_loop = l]

Initialized(h, t, new) == [h EXCEPT !.refcount[t] = 1, !.timer[t] = new]

(* Mutant: the copy of the list does not hold its timers.                  *)
MutRetainAll(h, ts) == h

RetainAll(h, ts) == [h EXCEPT !.refcount = [t \in Timers |-> h.refcount[t] + ts[t]]]

(* What the histories keep of a timer ends with it.                        *)
Forget(h) ==
  /\ fired' = {t \in fired : h.refcount[t] > 0}
  /\ revoked' = {t \in revoked : h.refcount[t] > 0}
  /\ asker' = [t \in Timers |-> IF h.refcount[t] > 0 THEN asker[t] ELSE Nil]

-----------------------------------------------------------------------------
Init ==
  /\ timer = [t \in Timers |-> Gone]
  /\ refcount = [t \in Timers |-> 0]
  /\ list = [l \in Threads |-> EmptyList]
  /\ stopped = [l \in Threads |-> FALSE]
  /\ frames = [th \in Threads |-> << >>]
  /\ sync = << >>
  /\ waiting = {}
  /\ cancelled = [g \in Targets |-> "no"]
  /\ owned = [t \in Timers |-> 0]
  /\ fired = {}
  /\ asker = [t \in Timers |-> Nil]
  /\ revoked = {}

(* +timerWithTimeInterval:...: the new timer is in an autorelease pool.    *)
Create(th, t, repeats) ==
  /\ InGuest(th) /\ ~ Exists(t)
  /\ Becomes(Initialized(heap, t, NewTimer(repeats, Nil)))
  /\ owned' = [owned EXCEPT ![t] = 1]
  /\ UNCHANGED <<stopped, frames, performVars, fired, asker, revoked>>

(* The pool is drained, or the guest releases the timer. The caller of     *)
(* -fire keeps its reference until that returns.                           *)
Drop(th, t) ==
  /\ InGuest(th) /\ owned[t] > 0
  /\ \A c \in FrameSet("fire") : frames[c[1]][c[2]].timer # t
  /\ LET h == release(heap, t)
     IN  Becomes(h) /\ Forget(h)
  /\ owned' = [owned EXCEPT ![t] = @ - 1]
  /\ UNCHANGED <<stopped, frames, performVars>>

(* -addTimer:forMode:, of a timer that is in no other loop.                *)
AddTimer(th, l, t) ==
  /\ InGuest(th) /\ Knows(t) /\ timer[t].run_loop \in {Nil, l}
  /\ Becomes(addTimer(heap, l, t))
  /\ UNCHANGED <<stopped, frames, performVars, history>>

(* -invalidate                                                             *)
Invalidate(th, t) ==
  /\ InGuest(th) /\ Knows(t)
  /\ LET h == invalidate(heap, t)
     IN  Becomes(h) /\ Forget(h)
  /\ UNCHANGED <<stopped, frames, performVars, owned>>

(* -setFireDate:                                                           *)
SetFireDate(th, t, date) ==
  /\ InGuest(th) /\ Knows(t) /\ timer[t].due_by # "none"
  /\ timer' = [timer EXCEPT ![t].due_by = date]
  /\ UNCHANGED <<refcount, list, stopped, frames, performVars, history>>

(* -fire calls the target, of an invalid or running timer as well.         *)
Fire(th, t) ==
  /\ InGuest(th) /\ Knows(t) /\ owned[t] > 0
  /\ Len(frames[th]) < MaxDepth[th]
  /\ frames' = [frames EXCEPT ![th] =
                  Append(@, [kind |-> "fire", timer |-> t,
                             repeats |-> timer[t].repeats])]
  /\ UNCHANGED <<objectVars, stopped, performVars, history>>

FireReturns(th) ==
  /\ InGuest(th) /\ IsTop(th, "fire")
  /\ LET t == Top(th).timer
         h == IF Top(th).repeats THEN heap ELSE invalidate(heap, t)
     IN  Becomes(h) /\ Forget(h)
  /\ frames' = [frames EXCEPT ![th] = SX!Front(@)]
  /\ UNCHANGED <<stopped, performVars, owned>>

(* CFRunLoopStop                                                           *)
CFRunLoopStop(th, l) ==
  /\ InGuest(th)
  /\ stopped' = [stopped EXCEPT ![l] = TRUE]
  /\ UNCHANGED <<objectVars, frames, performVars, history>>

-----------------------------------------------------------------------------
(* waitUntilDone: the caller waits for a semaphore, listed under the timer,*)
(* that the timer's callback posts.                                        *)
WaitsFor(th, t) ==
  /\ sync' = Append(sync, [timer |-> t, waiter |-> th])
  /\ waiting' = waiting \cup {th}
  /\ asker' = [asker EXCEPT ![t] = th]

(* performSelector:..afterDelay:, ..OnMainThread: and ..onThread: make a   *)
(* timer and put it into the loop of a thread. A caller that would wait for*)
(* its own thread has sent the selector at once instead.                   *)
Perform(th, l, g, t, wait) ==
  /\ InGuest(th) /\ ~ Exists(t)
  /\ wait => th # l
  /\ Becomes(addTimer(Initialized(heap, t, NewTimer(FALSE, g)), l, t))
  /\ owned' = [owned EXCEPT ![t] = 1]
  /\ IF wait
     THEN WaitsFor(th, t)
     ELSE UNCHANGED <<sync, waiting, asker>>
  /\ UNCHANGED <<stopped, frames, cancelled, fired, revoked>>

(* +cancelPreviousPerformRequestsWithTarget: and, for one selector, with   *)
(* selector:object:. Each of the latter adds an entry that cancels a single*)
(* request; at most one of a target is pending here.                       *)
CancelPrevious(th, g, all) ==
  /\ InGuest(th)
  /\ all \/ cancelled[g] # "once"
  /\ cancelled' = [cancelled EXCEPT ![g] =
                     IF all \/ @ = "always" THEN "always" ELSE "once"]
  /\ revoked' = revoked \cup {t \in Timers : Exists(t) /\ timer[t].target = g}
  /\ UNCHANGED <<objectVars, stopped, frames, sync, waiting, owned, fired, asker>>

(* -cancelPerformSelectorsWithTarget: invalidates what is in the loop for  *)
(* the target. Timers that the guest made for it go as well, which is as if*)
(* the guest invalidated each of them next.                                *)
CancelPerforms(th, l, g) ==
  /\ InGuest(th)
  /\ LET dropped == {t \in Timers : timer[t].target = g /\ list[l][t] > 0}
         h == AllInvalidated(heap, dropped)
     IN  /\ dropped # {}
         /\ CancelsWaited \/ \A t \in dropped : asker[t] = Nil
         /\ Becomes(h) /\ Forget(h)
  /\ UNCHANGED <<stopped, frames, performVars, owned>>

-----------------------------------------------------------------------------
(* The next iteration goes through a copy of the list and holds a reference*)
(* to each of its timers.                                                  *)

(* run_run_loop for a single iteration, or for runUntilDate:, whose limit  *)
(* may be the distant future: that is -run.                                *)
Run(th, single) ==
  /\ InGuest(th)
  /\ Len(frames[th]) + 1 < MaxDepth[th]
  /\ frames' = [frames EXCEPT ![th] =
                  Append(@, [kind |-> "loop", single |-> single, rest |-> list[th]])]
  /\ Becomes(RetainAll(heap, list[th]))
  /\ UNCHANGED <<stopped, performVars, history>>

(* The loop comes back from env.sleep, at the latest after the refresh     *)
(* interval; a stop goes before the time limit.                            *)
Wake(th) ==
  /\ HasTurn(th) /\ IsTop(th, "loop") /\ Top(th).rest = EmptyList
  /\ \/ /\ Top(th).single \/ ~ stopped[th]
        /\ frames' = [frames EXCEPT ![th] = SX!Front(@)]
        /\ UNCHANGED <<objectVars, stopped>>
     \/ /\ ~ Top(th).single /\ stopped[th]
        /\ frames' = [frames EXCEPT ![th] = SX!Front(@)]
        /\ stopped' = [stopped EXCEPT ![th] = FALSE]
        /\ UNCHANGED objectVars
     \/ /\ ~ Top(th).single /\ ~ stopped[th]
        /\ frames' = [frames EXCEPT ![th][Len(frames[th])].rest = list[th]]
        /\ Becomes(RetainAll(heap, list[th]))
        /\ UNCHANGED stopped
  /\ UNCHANGED <<performVars, history>>

(* What the loop does with a timer is over: it drops its reference. The    *)
(* loop is the last of the frames that are left.                           *)
Handled(th, h, t, below) ==
  LET g == release(h, t)
  IN  /\ Becomes(g) /\ Forget(g)
      /\ frames' = [frames EXCEPT ![th] =
                      [below EXCEPT ![Len(below)].rest[t] = @ - 1]]

(* Mutant: running is not looked at.                                       *)
MutIsDue(t) == timer[t].due_by = "now"

(* Mutant: one flag for all timers.                                        *)
MutIsDueOneFlag(t) == timer[t].due_by = "now" /\ \A u \in Timers : ~ timer[u].running

IsDue(t) == ~ timer[t].running /\ timer[t].due_by = "now"

(* handle_timer of a timer that is not to fire.                            *)
Skip(th) ==
  /\ Handling(th) /\ HasTurn(th)
  /\ \E t \in Timers :
       /\ Top(th).rest[t] > 0 /\ ~ IsDue(t)
       /\ Handled(th, heap, t, frames[th])
  /\ UNCHANGED <<stopped, performVars, owned>>

(* A repeating timer is moved on by as many intervals as it is late, which *)
(* may be to this very moment.                                             *)
NextDates(t) == IF timer[t].repeats THEN {"later", "now"} ELSE {"now"}

(* The first lines of _touchHLE_timerFireMethod: take the semaphore of     *)
(* this timer, if there is one, and look the request up among the          *)
(* cancelled ones.                                                         *)
IsCancelled(t) == timer[t].target # Nil /\ cancelled[timer[t].target] # "no"

Semaphores(t) == {i \in DOMAIN sync : sync[i].timer = t}

FirstSemaphore(t) ==
  CHOOSE i \in Semaphores(t) : \A j \in Semaphores(t) : i <= j

(* Mutant: the return for a cancelled request comes before its semaphore.  *)
MutPosts(t) ==
  IF timer[t].target = Nil \/ Semaphores(t) = {} \/ IsCancelled(t) THEN Nil
  ELSE sync[FirstSemaphore(t)].waiter

Posts(t) ==
  IF timer[t].target = Nil \/ Semaphores(t) = {} THEN Nil
  ELSE sync[FirstSemaphore(t)].waiter

(* Mutant: the semaphore stays in the list.                                *)
MutSyncTaken(t) == sync

SyncTaken(t) ==
  IF timer[t].target = Nil \/ Semaphores(t) = {} THEN sync
  ELSE SX!RemoveAt(sync, FirstSemaphore(t))

CancelTaken(t) ==
  IF IsCancelled(t) /\ cancelled[timer[t].target] = "once"
  THEN [cancelled EXCEPT ![timer[t].target] = "no"]
  ELSE cancelled

(* handle_timer calls the target.                                          *)
Start(th) ==
  /\ Handling(th) /\ HasTurn(th)
  /\ \E t \in Timers :
       /\ Top(th).rest[t] > 0 /\ IsDue(t)
       /\ \E date \in NextDates(t) :
            Becomes([retain(heap, t) EXCEPT !.timer[t].due_by = date,
                                            !.timer[t].running = TRUE])
       /\ frames' = [frames EXCEPT ![th] =
                       Append(@, [kind |-> "callback", timer |-> t,
                                  posts |-> Posts(t), skipped |-> IsCancelled(t)])]
       /\ sync' = SyncTaken(t)
       /\ cancelled' = CancelTaken(t)
       /\ fired' = IF timer[t].repeats THEN fired ELSE fired \cup {t}
  /\ UNCHANGED <<stopped, waiting, owned, asker, revoked>>

(* Mutant: a one-shot timer stays valid.                                   *)
MutFinished(h, t) == [h EXCEPT !.timer[t].running = FALSE]

Finished(h, t) ==
  LET g == [h EXCEPT !.timer[t].running = FALSE]
  IN  IF timer[t].repeats THEN g ELSE invalidate(g, t)

(* The target returns: the waiting thread is woken, a one-shot timer is    *)
(* invalidated.                                                            *)
CallbackReturns(th) ==
  /\ HasTurn(th) /\ th \notin waiting /\ IsTop(th, "callback")
  /\ LET t == Top(th).timer
     IN  Handled(th, release(Finished(heap, t), t), t, SX!Front(frames[th]))
  /\ waiting' = waiting \ {Top(th).posts}
  /\ UNCHANGED <<stopped, sync, cancelled, owned>>

(* Time passes.                                                            *)
Tick(t) ==
  /\ timer[t].due_by = "later"
  /\ timer' = [timer EXCEPT ![t].due_by = "now"]
  /\ UNCHANGED <<refcount, list, stopped, frames, performVars, history>>

-----------------------------------------------------------------------------
GuestCall(th) ==
  \/ \E t \in Timers :
       \/ MakesTimers /\ \E b \in BOOLEAN : Create(th, t, b)
       \/ Drop(th, t)
       \/ \E l \in Threads : AddTimer(th, l, t)
       \/ Invalidate(th, t)
       \/ \E date \in {"later", "now"} : SetFireDate(th, t, date)
       \/ Fire(th, t)
       \/ \E l \in Threads, g \in Targets, wait \in BOOLEAN : Perform(th, l, g, t, wait)
  \/ \E l \in Stops : CFRunLoopStop(th, l)
  \/ \E g \in Targets, all \in CancelKinds : CancelPrevious(th, g, all)
  \/ \E l \in Threads, g \in Targets : CancelPerforms(th, l, g)
  \/ \E single \in BOOLEAN : Run(th, single)

RunStep(th) ==
  \/ Wake(th)
  \/ Skip(th)
  \/ Start(th)
  \/ CallbackReturns(th)
  \/ FireReturns(th)

Next ==
  \/ \E th \in Threads : GuestCall(th) \/ RunStep(th)
  \/ \E t \in Timers : Tick(t)

Spec == Init /\ [][Next]_vars

(* The scheduler gives every thread its turns, a loop's sleep ends, and    *)
(* guest code that has nothing else to do returns. Time passes.            *)
Fairness ==
  /\ \A th \in Threads : SF_vars(RunStep(th))
  /\ \A t \in Timers : WF_vars(Tick(t))

FairSpec == Spec /\ Fairness

-----------------------------------------------------------------------------
TypeOK ==
  /\ timer \in [Timers -> HostObjects]
  /\ refcount \in [Timers -> Nat]
  /\ list \in [Threads -> Lists]
  /\ stopped \in [Threads -> BOOLEAN]
  /\ frames \in [Threads -> Seq(Frames)]
  /\ sync \in Seq([timer : Timers, waiter : Threads])
  /\ waiting \subseteq Threads
  /\ cancelled \in [Targets -> {"no", "once", "always"}]
  /\ owned \in [Timers -> Nat]
  /\ fired \subseteq Timers /\ revoked \subseteq Timers
  /\ asker \in [Timers -> Threads \cup {Nil}]

Copies(t) == {c \in FrameSet("loop") : frames[c[1]][c[2]].rest[t] = 1}
Callbacks(t) == {c \in FrameSet("callback") : frames[c[1]][c[2]].timer = t}

(* The references to a timer are those of the guest, of the loop it is in, *)
(* of each iteration that has yet to handle it (the one whose callback     *)
(* runs included) and of handle_timer: it is freed when all are gone, in   *)
(* the middle of an iteration too, and not before.                         *)
TimerRefsExact ==
  \A t \in Timers :
    refcount[t] = owned[t] + Cardinality({l \in Threads : list[l][t] = 1})
                    + Cardinality(Copies(t)) + Cardinality(Callbacks(t))

(* A loop has exactly the timers that name it as their run_loop, once: "The*)
(* timer must remove itself when invalidated".                             *)
ListedExact ==
  \A l \in Threads, t \in Timers :
    list[l][t] = IF timer[t].run_loop = l THEN 1 ELSE 0

(* A timer's callback is never entered by a loop that runs inside it, or by*)
(* another thread's; the flag is set for just as long.                     *)
NotReentered ==
  \A t \in Timers :
    Cardinality(Callbacks(t)) = IF timer[t].running THEN 1 ELSE 0

(* The loops fire a one-shot timer once: it stays due during its callback, *)
(* where a loop may run and its date may be set again, and is invalid after*)
FiredOnce == \A t \in fired : timer[t].running \/ timer[t].due_by = "none"

(* A request wakes the thread that waits for it, and no other one, also    *)
(* when its timer has the address of an earlier request's.                 *)
RightWaiterWoken ==
  \A c \in FrameSet("callback") :
    LET f == frames[c[1]][c[2]] IN f.posts = asker[f.timer]

(* Who waits for a request has one that is still to come or running, even  *)
(* if it is cancelled: nobody waits for an answer that was given or lost.  *)
WaiterHasRequest ==
  \A th \in waiting :
    \E t \in Timers : asker[t] = th /\ (timer[t].running \/ timer[t].run_loop # Nil)

(* "Cancel previous": a request that is skipped was pending when its target*)
(* cancelled its requests.                                                 *)
OnlyPreviousCancelled ==
  \A c \in FrameSet("callback") :
    LET f == frames[c[1]][c[2]] IN f.skipped => f.timer \in revoked

(* "Set by CFRunLoopStop; cleared at the start of the next run."           *)
StopClearedAtStart ==
  [][\A th \in Threads : Run(th, FALSE) => ~ stopped'[th]]_vars

(* A timer that is due in the loop of a thread is fired, or invalidated or *)
(* put off by someone, as long as the thread runs its loop, however deep,  *)
(* and does not wait for another thread's.                                 *)
Looping(th) == th \notin waiting /\ \E c \in FrameSet("loop") : c[1] = th

Overdue(t) ==
  /\ timer[t].due_by = "now" /\ ~ timer[t].running
  /\ \E th \in Threads : timer[t].run_loop = th /\ Looping(th)

DueTimerFires == \A t \in Timers : []<> ~ Overdue(t)

=============================================================================
