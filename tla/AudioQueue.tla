----------------------------- MODULE AudioQueue -----------------------------
(***************************************************************************)
(* The output queues of audio_toolbox/audio_queue.rs, the OpenAL sources   *)
(* they play on, and the guest that owns their buffers.                    *)
(*                                                                         *)
(* A run loop looks after its queues: it takes the buffers that have been  *)
(* played off the source, gives each back by calling the guest, and queues *)
(* more. The guest can do everything in these callbacks, run the loop from *)
(* inside as well, so a thread has a stack of frames; between two steps    *)
(* every thread is in guest code. Queues, buffers and sources are their    *)
(* addresses or names, which are used again. The queues have formats that  *)
(* can be played and no listeners; OpenAL fails only when it has no more   *)
(* sources, and goes on playing between the calls.                         *)
(***************************************************************************)
EXTENDS Naturals, Sequences, FiniteSets

SX == INSTANCE SequencesExt

CONSTANTS Queues,      (* addresses a queue can have                       *)
          Buffers,     (* addresses a buffer can have                      *)
          Sources,     (* what the finite pool of OpenAL has               *)
          Threads,     (* threads with guest code                          *)
          Loops,       (* those with a run loop that has queues            *)
          Nil,
          Target,      (* AUDIO_QUEUE_TARGET_UNPROCESSED_BUFFERS           *)
          MaxDepth,    (* bound on the frames of each thread               *)
          FeedsStopping(* whether the guest enqueues buffers while a queue *)
                       (* is being stopped                                 *)

ASSUME AudioQueueAssumption ==
  /\ Nil \notin Sources \cup Queues
  /\ Loops \subseteq Threads
  /\ Target \in Nat \ {0}
  /\ MaxDepth \in [Threads -> Nat]
  /\ FeedsStopping \in BOOLEAN

VARIABLES queue,         (* AudioQueueHostObject at each address           *)
          active_output, (* the queue to be used again, or Nil             *)
          source,        (* the sources of OpenAL                          *)
          frames         (* what runs on each thread, the innermost first  *)

vars == <<queue, active_output, source, frames>>

-----------------------------------------------------------------------------
NoQueue == [live |-> FALSE, run_loop |-> Nil, buffers |-> << >>,
            buffer_queue |-> << >>, is_running |-> "Stopped",
            al_source |-> Nil, is_running_handler |-> FALSE]

NewQueue(l) == [NoQueue EXCEPT !.live = TRUE, !.run_loop = l]

(* A source that is not allocated. played is what AL_BUFFERS_PROCESSED     *)
(* says of a source that has not stopped.                                  *)
NoSource == [state |-> "none", queued |-> << >>, played |-> 0]

Allocated == UNION {SX!ToSet(queue[q].buffers) : q \in Queues}

(* The calls, on the record of queue and source.                           *)
audio == [queue |-> queue, source |-> source]

Min2(m, n) == IF m < n THEN m ELSE n

Dropped(s, n) == SubSeq(s, Min2(n, Len(s)) + 1, Len(s))
Taken(s, n) == SubSeq(s, 1, Min2(n, Len(s)))

-----------------------------------------------------------------------------
(* OpenAL: a source that has never been played does not stop or pause, and *)
(* has no processed buffers; all buffers of a stopped one are processed.   *)
Processed(al) == IF al.state = "stopped" THEN Len(al.queued) ELSE al.played

SourcePlay(al) ==
  CASE al.state = "paused"  -> [al EXCEPT !.state = "playing"]
    [] al.queued = << >>    -> [al EXCEPT !.state = "stopped", !.played = 0]
    [] OTHER                -> [al EXCEPT !.state = "playing", !.played = 0]

SourceStop(al) ==
  IF al.state \in {"playing", "paused"}
  THEN [al EXCEPT !.state = "stopped", !.played = 0]
  ELSE al

SourcePause(al) == IF al.state = "playing" THEN [al EXCEPT !.state = "paused"] ELSE al

UnqueueProcessed(al) ==
  [al EXCEPT !.queued = Dropped(@, Processed(al)), !.played = 0]

(* The mixer is through with one more buffer of a source.                  *)
Mixed(al) ==
  IF al.played + 1 = Len(al.queued)
  THEN [al EXCEPT !.state = "stopped", !.played = 0]
  ELSE [al EXCEPT !.played = @ + 1]

Mix(s) ==
  /\ source[s].state = "playing"
  /\ source' = [source EXCEPT ![s] = Mixed(@)]
  /\ UNCHANGED <<queue, active_output, frames>>

-----------------------------------------------------------------------------
(* prime_audio_queue: a source for the queue, if there is one; the buffers *)
(* that come next, also if the queue is not running; and a restart of a    *)
(* source that has run dry.                                                *)
WithSource(h, q) ==
  LET free == {s \in Sources : h.source[s].state = "none"}
  IN  IF h.queue[q].al_source # Nil \/ free = {} THEN {h}
      ELSE {[h EXCEPT !.queue[q].al_source = s, !.source[s].state = "initial"] : s \in free}

(* What is queued on a stopped source counts as processed at once.         *)
Refilled(al, buffer_queue) ==
  LET room == IF al.state = "stopped" THEN Len(buffer_queue)
              ELSE Target - Min2(Target, Len(al.queued) - al.played)
  IN  [al EXCEPT !.queued = @ \o Taken(Dropped(buffer_queue, Len(@)), room)]

(* Mutant: a source that has run dry is not restarted.                     *)
MutRestarted(al, is_running) == al

Restarted(al, is_running) ==
  IF is_running = "Running" /\ al.queued # << >> /\ al.state # "playing"
  THEN SourcePlay(al)
  ELSE al

Fed(h, q) ==
  LET Q == h.queue[q]
  IN  IF Q.al_source = Nil THEN h
      ELSE [h EXCEPT !.source[Q.al_source] =
              Restarted(Refilled(@, Q.buffer_queue), Q.is_running)]

Primed(h, q) == IF h.queue[q].live THEN {Fed(g, q) : g \in WithSource(h, q)} ELSE {h}

(* AudioQueueReset: a source that was never played keeps its buffers.      *)
Emptied(al) ==
  IF al.state = "initial" THEN al ELSE UnqueueProcessed(SourceStop(al))

Reset(h, q) ==
  LET s == h.queue[q].al_source
      g == [h EXCEPT !.queue[q].buffer_queue = << >>]
  IN  IF s = Nil THEN g ELSE [g EXCEPT !.source[s] = Emptied(@)]

Stopped(h, q) == [Reset(h, q) EXCEPT !.queue[q].is_running = "Stopped"]

(* The same of several queues, which have sources of their own.            *)
AllStopped(h, qs) ==
  [queue |-> [q \in Queues |-> IF q \in qs THEN Stopped(h, q).queue[q] ELSE h.queue[q]],
   source |-> [s \in Sources |-> IF \E q \in qs : h.queue[q].al_source = s
                                  THEN Emptied(h.source[s]) ELSE h.source[s]]]

-----------------------------------------------------------------------------
(* The frames: handle_audio_queue with the buffers it has yet to give      *)
(* back, its copy of is_running and of the source; ensure_output_buffers   *)
(* with the buffers it has yet to offer to the guest, and its caller. The  *)
(* guest has been called for the first of the buffers.                     *)
HandleFrame(q, bs, was, s) ==
  [kind |-> "handle", queue |-> q, buffers |-> bs, was |-> was, al_source |-> s]

EnsureFrame(q, bs, caller) ==
  [kind |-> "ensure", queue |-> q, buffers |-> bs, caller |-> caller]

(* What a call leaves when it returns, or calls the guest.                 *)
Returned(hs) == {[audio |-> h, frame |-> << >>] : h \in hs}
Called(h, f) == {[audio |-> h, frame |-> << f >>]}

From(bs, wanted) ==
  LET first == {i \in DOMAIN bs : bs[i] \in wanted
                                   /\ \A j \in 1 .. i - 1 : bs[j] \notin wanted}
  IN  IF first = {} THEN << >> ELSE SubSeq(bs, CHOOSE i \in first : TRUE, Len(bs))

(* Mutant: the end of an asynchronous stop is not noticed.                 *)
MutFinished(al, was) == FALSE

Finished(al, was) == was = "Stopping" /\ al.state = "stopped"

(* The end of handle_audio_queue: a source that has run dry is restarted,  *)
(* or its queue is stopped, by what is_running was before the callbacks.   *)
(* Nothing is mixed between the state being read and the source played.    *)
Completed(h, q, was, s) ==
  LET al == IF was # "Stopped" /\ h.source[s].state = "stopped"
            THEN SourcePlay(h.source[s])
            ELSE h.source[s]
      g == [h EXCEPT !.source[s] = al, !.queue[q].is_running_handler = FALSE]
  IN  IF Finished(al, was) THEN Stopped(g, q) ELSE g

HandlerEnds(h, q, was, s) ==
  IF h.queue[q].live THEN {Completed(g, q, was, s) : g \in Primed(h, q)} ELSE {h}

(* The guest is called for the buffers in turn, but for those it has freed.*)
GiveBack(h, q, bs, was, s) ==
  LET allocated == UNION {SX!ToSet(h.queue[r].buffers) : r \in Queues}
      rest == From(bs, allocated)
  IN  IF rest = << >> THEN Returned(HandlerEnds(h, q, was, s))
      ELSE Called(h, HandleFrame(q, rest, was, s))

(* Mutant: one buffer is popped for all that were played.                  *)
MutPopped(buffer_queue, n) == Dropped(buffer_queue, Min2(n, 1))

Popped(buffer_queue, n) == Dropped(buffer_queue, n)

Unqueued(h, q, s) ==
  [h EXCEPT !.queue[q].is_running_handler = TRUE,
            !.queue[q].buffer_queue = Popped(@, Processed(h.source[s])),
            !.source[s] = UnqueueProcessed(@)]

(* The buffers that were played come off both queues.                      *)
Handler(h, q) ==
  LET Q == h.queue[q]
      s == Q.al_source
  IN  IF ~ Q.live \/ s = Nil \/ Q.is_running_handler THEN Returned({h})
      ELSE UNION {GiveBack(g, q, Taken(Q.buffer_queue, Processed(h.source[s])),
                           Q.is_running, s) : g \in {Unqueued(h, q, s)}}

(* The end of AudioQueueStart, which plays what there is.                  *)
Started(h, q) ==
  LET s == h.queue[q].al_source
  IN  IF s = Nil THEN [h EXCEPT !.queue[q].is_running = "Stopped"]
      ELSE IF h.source[s].queued = << >> THEN h
      ELSE [h EXCEPT !.source[s] = SourcePlay(@)]

StartEnds(h, q) ==
  IF h.queue[q].live THEN {Started(g, q) : g \in Primed(h, q)} ELSE {h}

(* ensure_output_buffers: the guest is offered the buffers that it has not *)
(* enqueued.                                                               *)
IsOut(h, q, b) ==
  /\ SX!Contains(h.queue[q].buffers, b)
  /\ ~ SX!Contains(h.queue[q].buffer_queue, b)

Offer(h, q, bs, caller) ==
  LET rest == From(bs, {b \in Buffers : IsOut(h, q, b)})
  IN  IF h.queue[q].live /\ rest # << >> THEN Called(h, EnsureFrame(q, rest, caller))
      ELSE IF caller = "start" THEN Returned(StartEnds(h, q))
      ELSE Handler(h, q)

Enqueued(h, q, b) == [h EXCEPT !.queue[q].buffer_queue = Append(@, b)]

(* The guest may have enqueued the buffer; otherwise it is enqueued for it *)
(* if there is audio in it.                                                *)
Offered(h, q, b) == IF IsOut(h, q, b) THEN {h, Enqueued(h, q, b)} ELSE {h}

-----------------------------------------------------------------------------
Init ==
  /\ queue = [q \in Queues |-> NoQueue]
  /\ active_output = Nil
  /\ source = [s \in Sources |-> NoSource]
  /\ frames = [th \in Threads |-> << >>]

Becomes(h) ==
  /\ queue' = h.queue
  /\ source' = h.source

(* A call by thread th that calls the guest back, or returns.              *)
Calls(th, outcomes, below) ==
  \E outcome \in outcomes :
    /\ Becomes(outcome.audio)
    /\ frames' = [frames EXCEPT ![th] = outcome.frame \o below]

(* AudioQueueNewOutput: a queue of its own, or, if the formats are alike,  *)
(* the active one after a reset and without its buffers.                   *)
NewOutput(q, l) ==
  /\ ~ queue[q].live
  /\ queue' = [queue EXCEPT ![q] = NewQueue(l)]
  /\ active_output' = q
  /\ UNCHANGED <<source, frames>>

NewOutputReused(l) ==
  /\ active_output # Nil
  /\ LET h == Stopped(audio, active_output)
     IN  Becomes([h EXCEPT !.queue[active_output].buffers = << >>,
                           !.queue[active_output].run_loop = l])
  /\ UNCHANGED <<active_output, frames>>

AllocateBuffer(q, b) ==
  /\ queue[q].live /\ b \notin Allocated
  /\ queue' = [queue EXCEPT ![q].buffers = Append(@, b)]
  /\ UNCHANGED <<active_output, source, frames>>

EnqueueBuffer(q, b) ==
  /\ IsOut(audio, q, b)
  /\ FeedsStopping \/ queue[q].is_running # "Stopping"
  /\ LET h == Enqueued(audio, q, b)
     IN  \E g \in IF queue[q].is_running = "Running" THEN Primed(h, q) ELSE {h} : Becomes(g)
  /\ UNCHANGED <<active_output, frames>>

AudioQueuePrime(q) ==
  /\ queue[q].live
  /\ \E h \in Primed(audio, q) : Becomes(h)
  /\ UNCHANGED <<active_output, frames>>

(* AudioQueueStart stops the other queues at once.                         *)
Start(th, q) ==
  /\ Len(frames[th]) < MaxDepth[th]
  /\ queue[q].live /\ queue[q].is_running # "Running"
  /\ LET others == {r \in Queues \ {q} : queue[r].is_running # "Stopped"}
         g == [AllStopped(audio, others) EXCEPT !.queue[q].is_running = "Running"]
     IN  Calls(th, Offer(g, q, queue[q].buffers, "start"), frames[th])
  /\ UNCHANGED <<active_output>>

Pause(q) ==
  /\ queue[q].live
  /\ LET h == [audio EXCEPT !.queue[q].is_running = "Stopped"]
         s == queue[q].al_source
     IN  Becomes(IF s = Nil THEN h ELSE [h EXCEPT !.source[s] = SourcePause(@)])
  /\ UNCHANGED <<active_output, frames>>

(* AudioQueueStop, immediate                                               *)
Stop(q) ==
  /\ queue[q].live
  /\ Becomes(Stopped(audio, q))
  /\ UNCHANGED <<active_output, frames>>

(* AudioQueueStop, once everything has been played                         *)
StopLater(q) ==
  /\ queue[q].live /\ queue[q].is_running # "Stopped"
  /\ queue' = [queue EXCEPT ![q].is_running = "Stopping"]
  /\ UNCHANGED <<active_output, source, frames>>

(* AudioQueueReset and AudioQueueFlush                                     *)
Flush(q) ==
  /\ queue[q].live
  /\ Becomes(Reset(audio, q))
  /\ UNCHANGED <<active_output, frames>>

(* Mutant: a buffer may be freed while it is enqueued.                     *)
MutCanFree(q, b) == SX!Contains(queue[q].buffers, b)

CanFree(q, b) == IsOut(audio, q, b)

FreeBuffer(q, b) ==
  /\ CanFree(q, b)
  /\ \E i \in DOMAIN queue[q].buffers :
       /\ queue[q].buffers[i] = b
       /\ queue' = [queue EXCEPT ![q].buffers = SX!RemoveAt(@, i)]
  /\ UNCHANGED <<active_output, source, frames>>

(* Mutant: the source is not given back.                                   *)
MutDeleted(h, s) == h

Deleted(h, s) == IF s = Nil THEN h ELSE [h EXCEPT !.source[s] = NoSource]

Dispose(q) ==
  /\ queue[q].live
  /\ Becomes([Deleted(audio, queue[q].al_source) EXCEPT !.queue[q] = NoQueue])
  /\ active_output' = IF active_output = q THEN Nil ELSE active_output
  /\ UNCHANGED frames

-----------------------------------------------------------------------------
(* handle_audio_queue, from the run loop of th, which may be one that the  *)
(* guest runs inside a callback. A loop goes through a copy of its list, so*)
(* that q may by now be another loop's, or be created again; how old the   *)
(* copy is, is left open.                                                  *)
Handle(th, q) ==
  /\ Len(frames[th]) < MaxDepth[th]
  /\ th \in Loops /\ queue[q].live
  /\ \E h \in IF queue[q].is_running = "Running" /\ queue[q].al_source = Nil
              THEN Primed(audio, q)
              ELSE {audio} :
       Calls(th, IF queue[q].is_running = "Running" /\ queue[q].buffer_queue = << >>
                 THEN Offer(h, q, queue[q].buffers, "handle")
                 ELSE Handler(h, q), frames[th])
  /\ UNCHANGED <<active_output>>

(* The guest's callback returns to handle_audio_queue, or to               *)
(* ensure_output_buffers.                                                  *)
CallbackReturns(th) ==
  /\ frames[th] # << >>
  /\ LET f == Head(frames[th])
         b == Head(f.buffers)
         rest == Tail(f.buffers)
     IN  IF f.kind = "handle"
         THEN Calls(th, GiveBack(audio, f.queue, rest, f.was, f.al_source), Tail(frames[th]))
         ELSE \E h \in Offered(audio, f.queue, b) :
                Calls(th, Offer(h, f.queue, rest, f.caller), Tail(frames[th]))
  /\ UNCHANGED <<active_output>>

GuestCall ==
  \/ \E q \in Queues :
       \/ \E l \in Loops : NewOutput(q, l)
       \/ \E b \in Buffers :
            \/ AllocateBuffer(q, b)
            \/ EnqueueBuffer(q, b)
            \/ FreeBuffer(q, b)
       \/ AudioQueuePrime(q)
       \/ \E th \in Threads : Start(th, q)
       \/ Pause(q)
       \/ Stop(q)
       \/ StopLater(q)
       \/ Flush(q)
       \/ Dispose(q)
  \/ \E l \in Loops : NewOutputReused(l)

Next ==
  \/ GuestCall
  \/ \E th \in Threads : CallbackReturns(th) \/ \E q \in Queues : Handle(th, q)
  \/ \E s \in Sources : Mix(s)

Spec == Init /\ [][Next]_vars

(* Sources play, run loops come round to each of their queues, and         *)
(* callbacks return.                                                       *)
Fairness ==
  /\ \A s \in Sources : WF_vars(Mix(s))
  /\ \A th \in Threads :
       /\ WF_vars(CallbackReturns(th))
       /\ \A q \in Queues : SF_vars(queue[q].run_loop = th /\ Handle(th, q))

FairSpec == Spec /\ Fairness

-----------------------------------------------------------------------------
(* A buffer is in at most one queue, at most once, and it is one of those  *)
(* the queue has allocated: none is freed while the source may still be    *)
(* fed from it.                                                            *)
QueuedOnce ==
  \A q \in Queues :
    LET Q == queue[q]
    IN  /\ SX!IsInjective(Q.buffer_queue)
        /\ SX!ToSet(Q.buffer_queue) \subseteq SX!ToSet(Q.buffers)

(* Every source that is taken from the pool belongs to one queue that      *)
(* exists: disposing of queues, also while they are being handled, never   *)
(* leaks one.                                                              *)
SourcesOwned ==
  \A s \in Sources :
    Cardinality({q \in Queues : queue[q].al_source = s})
      = IF source[s].state = "none" THEN 0 ELSE 1

(* "the nth item in this queue must also be the nth item in the OpenAL     *)
(* queue, though the OpenAL queue may be shorter"                          *)
InSync(q) ==
  queue[q].al_source # Nil =>
    SX!IsPrefix(source[queue[q].al_source].queued, queue[q].buffer_queue)

(* A step takes the two queues apart only where it leaves a source that    *)
(* has buffers and was never played: such a source is not reset.           *)
NeverPlayed(q) ==
  /\ queue[q].al_source # Nil
  /\ source[queue[q].al_source].state = "initial"
  /\ source[queue[q].al_source].queued # << >>

SyncKept == [][\A q \in Queues : InSync(q) => InSync(q)' \/ NeverPlayed(q)']_vars

(* What the guest has enqueued comes back while the queue is running, or   *)
(* the queue stops running: the source always gets more data and is always *)
(* restarted when it has run dry.                                          *)
Waits(q, b) == queue[q].is_running = "Running" /\ SX!Contains(queue[q].buffer_queue, b)

EnqueuedComesBack == \A q \in Queues, b \in Buffers : []<> ~ Waits(q, b)

(* A queue that is being stopped is stopped in the end, if it has ever     *)
(* played and gets no more buffers.                                        *)
IsStopping(q) ==
  /\ queue[q].is_running = "Stopping" /\ queue[q].al_source # Nil
  /\ source[queue[q].al_source].state # "initial"

StopCompletes == \A q \in Queues : []<> ~ IsStopping(q)
=============================================================================
