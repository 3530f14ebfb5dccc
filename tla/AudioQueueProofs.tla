-------------------------- MODULE AudioQueueProofs --------------------------
(***************************************************************************)
(* Theorems about AudioQueue.                                              *)
(***************************************************************************)
EXTENDS AudioQueue, FiniteSetTheorems, TLAPS

-----------------------------------------------------------------------------
(* Sequences: what is dropped, taken, appended and removed.                *)

(* The first sequence is a prefix if it agrees with the second wherever it *)
(* is defined.                                                             *)
LEMMA PrefixIs ==
  ASSUME NEW S, NEW s \in Seq(S), NEW t \in Seq(S)
  PROVE  SX!IsPrefix(s, t) <=> /\ Len(s) <= Len(t)
                               /\ \A i \in 1 .. Len(s) : s[i] = t[i]
<1>1. ASSUME Len(s) <= Len(t)
      PROVE  /\ SubSeq(t, 1, Len(s)) \in Seq(S)
             /\ Len(SubSeq(t, 1, Len(s))) = Len(s)
             /\ \A i \in 1 .. Len(s) : SubSeq(t, 1, Len(s))[i] = t[i]
  BY <1>1
<1>2. SubSeq(s, 1, Len(s)) = s
  OBVIOUS
<1>3. QED
  BY <1>1, <1>2 DEF SX!IsPrefix

(* Dropping: the items that are left are those n further on.               *)
LEMMA DroppedIs ==
  ASSUME NEW S, NEW s \in Seq(S), NEW n \in Nat
  PROVE  /\ Dropped(s, n) \in Seq(S)
         /\ n <= Len(s) => Len(Dropped(s, n)) = Len(s) - n
         /\ n > Len(s) => Len(Dropped(s, n)) = 0
         /\ \A i \in 1 .. Len(Dropped(s, n)) : n + i \in 1 .. Len(s) /\ Dropped(s, n)[i] = s[n + i]
<1>1. CASE n <= Len(s)
  <2> DEFINE l == Len(s)
  <2>1. Dropped(s, n) = SubSeq(s, n + 1, Len(s))
    <3>1. l \in Nat /\ n <= l
      BY <1>1
    <3> HIDE DEF l
    <3>2. Min2(n, l) = n
      BY <3>1 DEF Min2
    <3>3. QED
      BY <3>2 DEF Dropped, l
  <2>2. SubSeq(s, n + 1, Len(s)) \in Seq(S)
    BY <1>1
  <2>3. Len(SubSeq(s, n + 1, Len(s))) = Len(s) - n
    BY <1>1
  <2>4. ASSUME NEW i \in 1 .. Len(s) - n
        PROVE  n + i \in 1 .. Len(s) /\ SubSeq(s, n + 1, Len(s))[i] = s[n + i]
    <3>1. SubSeq(s, n + 1, Len(s))[i] = s[(n + 1) + i - 1]
      BY <1>1
    <3>2. (n + 1) + i - 1 = n + i /\ n + i \in 1 .. Len(s)
      BY <1>1
    <3>3. QED
      BY <3>1, <3>2
  <2>5. QED
    BY <1>1, <2>1, <2>2, <2>3, <2>4
<1>2. CASE n > Len(s)
  <2> DEFINE l == Len(s)
  <2>1. Dropped(s, n) = SubSeq(s, Len(s) + 1, Len(s))
    <3>1. l \in Nat /\ n > l
      BY <1>2
    <3> HIDE DEF l
    <3>2. Min2(n, l) = l
      BY <3>1 DEF Min2
    <3>3. QED
      BY <3>2 DEF Dropped, l
  <2>2. /\ SubSeq(s, Len(s) + 1, Len(s)) \in Seq(S)
        /\ Len(SubSeq(s, Len(s) + 1, Len(s))) = 0
    OBVIOUS
  <2>3. QED
    BY <1>2, <2>1, <2>2
<1>3. QED
  BY <1>1, <1>2

(* Taking: an initial part, however many are asked for.                    *)
LEMMA TakenIs ==
  ASSUME NEW S, NEW s \in Seq(S), NEW n \in Int
  PROVE  /\ Taken(s, n) \in Seq(S)
         /\ Len(Taken(s, n)) <= Len(s)
         /\ \A i \in 1 .. Len(Taken(s, n)) : Taken(s, n)[i] = s[i]
<1>1. CASE n <= Len(s)
  <2>1. Taken(s, n) = SubSeq(s, 1, n)
    BY <1>1 DEF Taken, Min2
  <2>2. QED
    BY <1>1, <2>1
<1>2. CASE n > Len(s)
  BY <1>2 DEF Taken, Min2
<1>3. QED
  BY <1>1, <1>2

(* The nth items of two sequences stay the same if as many are dropped     *)
(* from both.                                                              *)
LEMMA DroppedPrefix ==
  ASSUME NEW S, NEW s \in Seq(S), NEW t \in Seq(S), NEW n \in Nat, SX!IsPrefix(s, t)
  PROVE  SX!IsPrefix(Dropped(s, n), Dropped(t, n))
<1> DEFINE ds == Dropped(s, n)
           dt == Dropped(t, n)
<1>1. /\ Len(s) <= Len(t)
      /\ \A i \in 1 .. Len(s) : s[i] = t[i]
  BY PrefixIs
<1>2. /\ ds \in Seq(S)
      /\ n <= Len(s) => Len(ds) = Len(s) - n
      /\ n > Len(s) => Len(ds) = 0
      /\ \A i \in 1 .. Len(ds) : n + i \in 1 .. Len(s) /\ ds[i] = s[n + i]
  BY DroppedIs
<1>3. /\ dt \in Seq(S)
      /\ n <= Len(t) => Len(dt) = Len(t) - n
      /\ n > Len(t) => Len(dt) = 0
      /\ \A i \in 1 .. Len(dt) : n + i \in 1 .. Len(t) /\ dt[i] = t[n + i]
  BY DroppedIs
<1> HIDE DEF ds, dt
<1>4. Len(ds) <= Len(dt)
  BY <1>1, <1>2, <1>3
<1>5. \A i \in 1 .. Len(ds) : ds[i] = dt[i]
  BY <1>1, <1>2, <1>3, <1>4
<1>6. SX!IsPrefix(ds, dt)
  BY <1>2, <1>3, <1>4, <1>5, PrefixIs
<1>7. QED
  BY <1>6 DEF ds, dt

(* A prefix stays one if more of the second sequence is appended to it.    *)
LEMMA ExtendedPrefix ==
  ASSUME NEW S, NEW s \in Seq(S), NEW t \in Seq(S), NEW n \in Int, SX!IsPrefix(s, t)
  PROVE  SX!IsPrefix(s \o Taken(Dropped(t, Len(s)), n), t)
<1> DEFINE d == Dropped(t, Len(s))
           k == Taken(d, n)
<1>1. /\ Len(s) <= Len(t)
      /\ \A i \in 1 .. Len(s) : s[i] = t[i]
  BY PrefixIs
<1>2. /\ d \in Seq(S)
      /\ Len(s) <= Len(t) => Len(d) = Len(t) - Len(s)
      /\ \A i \in 1 .. Len(d) : Len(s) + i \in 1 .. Len(t) /\ d[i] = t[Len(s) + i]
  BY DroppedIs
<1> HIDE DEF d
<1>3. /\ k \in Seq(S)
      /\ Len(k) <= Len(d)
      /\ \A i \in 1 .. Len(k) : k[i] = d[i]
  BY <1>2, TakenIs
<1> HIDE DEF k
<1>4. /\ s \o k \in Seq(S)
      /\ Len(s \o k) = Len(s) + Len(k)
      /\ \A i \in 1 .. Len(s) + Len(k) :
           (s \o k)[i] = IF i <= Len(s) THEN s[i] ELSE k[i - Len(s)]
  BY <1>3
<1>5. ASSUME NEW i \in 1 .. Len(s) + Len(k)
      PROVE  (s \o k)[i] = t[i]
  <2>1. CASE i <= Len(s)
    BY <1>1, <1>4, <2>1
  <2>2. CASE i > Len(s)
    <3>1. i - Len(s) \in 1 .. Len(k) /\ i - Len(s) \in 1 .. Len(d)
      BY <1>2, <1>3, <2>2
    <3>2. (s \o k)[i] = d[i - Len(s)]
      BY <1>3, <1>4, <2>2, <3>1
    <3>3. d[i - Len(s)] = t[Len(s) + (i - Len(s))]
      BY <1>2, <3>1
    <3>4. QED
      BY <3>2, <3>3
  <2>3. QED
    BY <2>1, <2>2
<1>6. Len(s) + Len(k) <= Len(t)
  BY <1>1, <1>2, <1>3
<1>7. SX!IsPrefix(s \o k, t)
  BY <1>4, <1>5, <1>6, PrefixIs
<1>8. QED
  BY <1>7 DEF k, d

(* A prefix stays one when the second sequence gets another item.          *)
LEMMA AppendedPrefix ==
  ASSUME NEW S, NEW s \in Seq(S), NEW t \in Seq(S), NEW b \in S, SX!IsPrefix(s, t)
  PROVE  SX!IsPrefix(s, Append(t, b))
<1>1. /\ Len(s) <= Len(t)
      /\ \A i \in 1 .. Len(s) : s[i] = t[i]
  BY PrefixIs
<1>2. /\ Append(t, b) \in Seq(S)
      /\ Len(Append(t, b)) = Len(t) + 1
      /\ \A i \in 1 .. Len(t) : Append(t, b)[i] = t[i]
  OBVIOUS
<1>3. /\ Len(s) <= Len(Append(t, b))
      /\ \A i \in 1 .. Len(s) : s[i] = Append(t, b)[i]
  BY <1>1, <1>2
<1>4. QED
  BY <1>2, <1>3, PrefixIs

(* The empty sequence is a prefix.                                         *)
LEMMA EmptyPrefix ==
  ASSUME NEW S, NEW t \in Seq(S)
  PROVE  SX!IsPrefix(<< >>, t)
<1>1. /\ << >> \in Seq(S)
      /\ Len(<< >>) = 0
  OBVIOUS
<1>2. Len(<< >>) <= Len(t) /\ \A i \in 1 .. Len(<< >>) : << >>[i] = t[i]
  BY <1>1
<1>3. QED
  BY <1>1, <1>2, PrefixIs

-----------------------------------------------------------------------------
(* OpenAL's sources.                                                       *)

SourceType == [state : {"none", "initial", "playing", "paused", "stopped"},
               queued : Seq(Buffers), played : Nat]

(* A step of a source that is allocated leaves it allocated.               *)
Remains(al, new) ==
  /\ new \in SourceType
  /\ new.state # "none"

(* What OpenAL does with a source: it never frees it, plays, stops and     *)
(* pauses it with the same buffers, and unqueues the first ones.           *)
LEMMA SourceSteps ==
  ASSUME NEW al \in SourceType, al.state # "none"
  PROVE  /\ Processed(al) \in Nat
         /\ Remains(al, SourcePlay(al)) /\ SourcePlay(al).queued = al.queued
         /\ Remains(al, SourceStop(al)) /\ SourceStop(al).queued = al.queued
         /\ Remains(al, SourcePause(al)) /\ SourcePause(al).queued = al.queued
         /\ Remains(al, UnqueueProcessed(al))
         /\ UnqueueProcessed(al).queued = Dropped(al.queued, Processed(al))
<1>1. Processed(al) \in Nat
  BY DEF SourceType, Processed
<1>2. Dropped(al.queued, Processed(al)) \in Seq(Buffers)
  BY <1>1, DroppedIs DEF SourceType
<1>3. Remains(al, SourcePlay(al)) /\ SourcePlay(al).queued = al.queued
  BY DEF SourceType, Remains, SourcePlay
<1>4. Remains(al, SourceStop(al)) /\ SourceStop(al).queued = al.queued
  BY DEF SourceType, Remains, SourceStop
<1>5. Remains(al, SourcePause(al)) /\ SourcePause(al).queued = al.queued
  BY DEF SourceType, Remains, SourcePause
<1>6. /\ Remains(al, UnqueueProcessed(al))
      /\ UnqueueProcessed(al).queued = Dropped(al.queued, Processed(al))
  BY <1>2 DEF SourceType, Remains, UnqueueProcessed
<1>7. QED
  BY <1>1, <1>3, <1>4, <1>5, <1>6

(* The mixer takes no buffers off.                                         *)
LEMMA MixedIs ==
  ASSUME NEW al \in SourceType, al.state = "playing"
  PROVE  Remains(al, Mixed(al)) /\ Mixed(al).queued = al.queued
<1>1. CASE al.played + 1 = Len(al.queued)
  BY <1>1 DEF Mixed, Remains, SourceType
<1>2. CASE al.played + 1 # Len(al.queued)
  <2>1. Mixed(al) = [al EXCEPT !.played = al.played + 1]
    BY <1>2 DEF Mixed
  <2>2. al.played + 1 \in Nat
    BY DEF SourceType
  <2>3. QED
    BY <2>1, <2>2 DEF Remains, SourceType
<1>3. QED
  BY <1>1, <1>2

(* A source that has been played is empty after a reset.                   *)
LEMMA EmptiedIs ==
  ASSUME NEW al \in SourceType, al.state # "none"
  PROVE  /\ Remains(al, Emptied(al))
         /\ al.state # "initial" => Emptied(al).queued = << >>
         /\ al.state = "initial" => Emptied(al) = al
<1> DEFINE st == SourceStop(al)
<1>1. /\ st \in SourceType /\ st.state # "none"
      /\ al.state # "initial" => st.state = "stopped"
  BY SourceSteps DEF Remains, SourceStop, SourceType
<1>2. CASE al.state # "initial"
  <2>1. Emptied(al) = UnqueueProcessed(st)
    BY <1>2 DEF Emptied
  <2>2. Processed(st) = Len(st.queued)
    BY <1>1, <1>2 DEF Processed
  <2> HIDE DEF st
  <2>3. /\ Remains(st, UnqueueProcessed(st))
        /\ UnqueueProcessed(st).queued = Dropped(st.queued, Len(st.queued))
    BY <1>1, <2>2, SourceSteps
  <2>4. st.queued \in Seq(Buffers)
    BY <1>1 DEF SourceType
  <2>5. Len(Dropped(st.queued, Len(st.queued))) = 0 /\ Dropped(st.queued, Len(st.queued)) \in Seq(Buffers)
    BY <2>4, DroppedIs
  <2>6. Dropped(st.queued, Len(st.queued)) = << >>
    BY <2>5
  <2>7. QED
    BY <1>2, <2>1, <2>3, <2>6 DEF Remains
<1>3. CASE al.state = "initial"
  BY <1>3 DEF Emptied, Remains
<1>4. QED
  BY <1>2, <1>3

(* What is fed to a source are the next buffers of its queue.              *)
LEMMA RefilledIs ==
  ASSUME NEW al \in SourceType, al.state # "none", NEW bs \in Seq(Buffers)
  PROVE  /\ Remains(al, Refilled(al, bs))
         /\ SX!IsPrefix(al.queued, bs) => SX!IsPrefix(Refilled(al, bs).queued, bs)
<1> DEFINE room == IF al.state = "stopped" THEN Len(bs)
                   ELSE Target - Min2(Target, Len(al.queued) - al.played)
           more == Taken(Dropped(bs, Len(al.queued)), room)
<1>1. /\ al.queued \in Seq(Buffers)
      /\ Len(al.queued) \in Nat /\ al.played \in Nat /\ Target \in Nat /\ Len(bs) \in Nat
  BY AudioQueueAssumption DEF SourceType
<1>2. room \in Int
  <2> DEFINE n == Len(al.queued)
             p == al.played
             m == Min2(Target, n - p)
  <2>1. n \in Nat /\ p \in Nat
    BY <1>1
  <2> HIDE DEF n, p
  <2>2. m \in Int
    BY <1>1, <2>1 DEF Min2
  <2> HIDE DEF m
  <2>3. Target - m \in Int
    BY <1>1, <2>2
  <2>4. QED
    BY <1>1, <2>3 DEF m, n, p
<1>3. Refilled(al, bs) = [al EXCEPT !.queued = al.queued \o more]
  BY DEF Refilled
<1> HIDE DEF room
<1>4. Dropped(bs, Len(al.queued)) \in Seq(Buffers)
  BY <1>1, DroppedIs
<1>5. more \in Seq(Buffers)
  BY <1>2, <1>4, TakenIs
<1>6. SX!IsPrefix(al.queued, bs) => SX!IsPrefix(al.queued \o more, bs)
  BY <1>1, <1>2, ExtendedPrefix
<1> HIDE DEF more
<1>7. al.queued \o more \in Seq(Buffers)
  BY <1>1, <1>5
<1>8. QED
  BY <1>3, <1>6, <1>7 DEF SourceType, Remains

(* A restart leaves the buffers as they are.                               *)
LEMMA RestartedIs ==
  ASSUME NEW al \in SourceType, al.state # "none", NEW mode
  PROVE  Remains(al, Restarted(al, mode)) /\ Restarted(al, mode).queued = al.queued
BY SourceSteps DEF Restarted, Remains

-----------------------------------------------------------------------------
(* The queues and their sources.                                           *)

QueueType == [live : BOOLEAN, run_loop : Loops \cup {Nil},
              buffers : Seq(Buffers), buffer_queue : Seq(Buffers),
              is_running : {"Running", "Stopping", "Stopped"},
              al_source : Sources \cup {Nil}, is_running_handler : BOOLEAN]

AudioType == [queue : [Queues -> QueueType], source : [Sources -> SourceType]]

(* QueuedOnce, of one queue                                                *)
Once(Q) ==
  /\ SX!IsInjective(Q.buffer_queue)
  /\ SX!ToSet(Q.buffer_queue) \subseteq SX!ToSet(Q.buffers)

(* A source that is allocated belongs to one queue, which exists; the      *)
(* others are empty.                                                       *)
Owned(h) ==
  /\ \A q, r \in Queues :
       h.queue[q].al_source = h.queue[r].al_source /\ h.queue[q].al_source # Nil => q = r
  /\ \A q \in Queues :
       h.queue[q].al_source # Nil =>
         h.queue[q].live /\ h.source[h.queue[q].al_source].state # "none"
  /\ \A s \in Sources : h.source[s].state # "none" => \E q \in Queues : h.queue[q].al_source = s
  /\ \A s \in Sources : h.source[s].state = "none" => h.source[s].queued = << >>

AudioOK(h) ==
  /\ h \in AudioType
  /\ \A q \in Queues : Once(h.queue[q])
  /\ Owned(h)

(* InSync and NeverPlayed, of a record of queue and source                 *)
Synced(h, q) ==
  h.queue[q].al_source # Nil =>
    SX!IsPrefix(h.source[h.queue[q].al_source].queued, h.queue[q].buffer_queue)

Unplayed(h, q) ==
  /\ h.queue[q].al_source # Nil
  /\ h.source[h.queue[q].al_source].state = "initial"
  /\ h.source[h.queue[q].al_source].queued # << >>

(* What is done to q does not concern another queue, nor its source.       *)
Untouched(h, g, q) ==
  \A r \in Queues \ {q} :
    /\ g.queue[r] = h.queue[r]
    /\ h.queue[r].al_source # Nil =>
         g.source[h.queue[r].al_source] = h.source[h.queue[r].al_source]

(* What happens to q keeps it in step with its source, or leaves a source  *)
(* that has buffers and was never played.                                  *)
Sure(h, g, q) ==
  AudioOK(g) /\ Untouched(h, g, q) /\ (Synced(h, q) => Synced(g, q))

Loose(h, g, q) ==
  AudioOK(g) /\ Untouched(h, g, q) /\ (Synced(h, q) => Synced(g, q) \/ Unplayed(g, q))

AllSure(h, g) == AudioOK(g) /\ \A q \in Queues : Synced(h, q) => Synced(g, q)

AllLoose(h, g) ==
  AudioOK(g) /\ \A q \in Queues : Synced(h, q) => Synced(g, q) \/ Unplayed(g, q)

(* What is untouched is as much in step as before.                         *)
LEMMA UntouchedSame ==
  ASSUME NEW h, NEW g, NEW q \in Queues, Untouched(h, g, q), NEW r \in Queues, r # q
  PROVE  (Synced(h, r) <=> Synced(g, r)) /\ (Unplayed(h, r) <=> Unplayed(g, r))
BY DEF Untouched, Synced, Unplayed

(* What concerns one queue, as a step of all.                              *)
LEMMA SureIsAllSure ==
  ASSUME NEW h, NEW g, NEW q \in Queues, Sure(h, g, q)
  PROVE  AllSure(h, g)
BY UntouchedSame DEF Sure, AllSure

(* A loose step of one queue is a loose step of all.                       *)
LEMMA LooseIsAllLoose ==
  ASSUME NEW h, NEW g, NEW q \in Queues, Loose(h, g, q)
  PROVE  AllLoose(h, g)
BY UntouchedSame DEF Loose, AllLoose

(* What keeps all queues in step is a loose step.                          *)
LEMMA AllSureIsAllLoose ==
  ASSUME NEW h, NEW g, AllSure(h, g)
  PROVE  AllLoose(h, g)
BY DEF AllSure, AllLoose

(* One after the other.                                                    *)
LEMMA UntouchedOn ==
  ASSUME NEW h, NEW g, NEW k, NEW q \in Queues, Untouched(h, g, q), Untouched(g, k, q)
  PROVE  Untouched(h, k, q)
BY DEF Untouched

(* Two sure steps of the same queue make one.                              *)
LEMMA SureOn ==
  ASSUME NEW h, NEW g, NEW k, NEW q \in Queues, Sure(h, g, q), Sure(g, k, q)
  PROVE  Sure(h, k, q)
BY UntouchedOn DEF Sure

(* A loose step after one that keeps all queues in step.                   *)
LEMMA AllSureOn ==
  ASSUME NEW h, NEW g, NEW k, AllSure(h, g), AllLoose(g, k)
  PROVE  AllLoose(h, k)
BY DEF AllSure, AllLoose

(* Nothing that happens is sure.                                           *)
LEMMA SureSame ==
  ASSUME NEW h, AudioOK(h), NEW q \in Queues
  PROVE  Sure(h, h, q)
BY DEF Sure, Untouched

(* A change of a queue that leaves it its source.                          *)
LEMMA QueueChange ==
  ASSUME NEW h, AudioOK(h), NEW q \in Queues,
         NEW Q \in QueueType, Once(Q),
         Q.al_source = h.queue[q].al_source, h.queue[q].live => Q.live
  PROVE  LET g == [h EXCEPT !.queue[q] = Q]
         IN  /\ AudioOK(g) /\ Untouched(h, g, q)
             /\ g.source = h.source /\ g.queue[q] = Q
<1> DEFINE g == [h EXCEPT !.queue[q] = Q]
<1>1. h \in AudioType /\ Owned(h) /\ \A r \in Queues : Once(h.queue[r])
  BY DEF AudioOK
<1>2. /\ g.source = h.source /\ g.queue = [h.queue EXCEPT ![q] = Q]
      /\ g \in AudioType
  BY <1>1 DEF AudioType
<1>3. \A r \in Queues : g.queue[r] = IF r = q THEN Q ELSE h.queue[r]
  BY <1>1, <1>2 DEF AudioType
<1> HIDE DEF g
<1>4. \A r \in Queues : /\ Once(g.queue[r])
                        /\ g.queue[r].al_source = h.queue[r].al_source
                        /\ h.queue[r].live => g.queue[r].live
  BY <1>1, <1>3
<1>5. Owned(g)
  BY <1>1, <1>2, <1>4 DEF Owned
<1>6. Untouched(h, g, q)
  BY <1>2, <1>3 DEF Untouched
<1>7. g.queue[q] = Q
  BY <1>3
<1>8. AudioOK(g)
  BY <1>2, <1>4, <1>5 DEF AudioOK
<1>9. QED
  BY <1>2, <1>6, <1>7, <1>8 DEF g

(* A change of an allocated source.                                        *)
LEMMA SourceChange ==
  ASSUME NEW h, AudioOK(h), NEW s \in Sources, h.source[s].state # "none",
         NEW al, Remains(h.source[s], al)
  PROVE  LET g == [h EXCEPT !.source[s] = al]
         IN  /\ AudioOK(g)
             /\ g.queue = h.queue /\ g.source[s] = al
             /\ \A r \in Sources \ {s} : g.source[r] = h.source[r]
             /\ \A q \in Queues : h.queue[q].al_source = s => Untouched(h, g, q)
<1> DEFINE g == [h EXCEPT !.source[s] = al]
<1>1. h \in AudioType /\ Owned(h) /\ \A r \in Queues : Once(h.queue[r])
  BY DEF AudioOK
<1>2. al \in SourceType /\ al.state # "none"
  BY DEF Remains
<1>3. /\ g.queue = h.queue /\ g.source = [h.source EXCEPT ![s] = al]
      /\ g \in AudioType
  BY <1>1, <1>2 DEF AudioType
<1>4. \A r \in Sources : g.source[r] = IF r = s THEN al ELSE h.source[r]
  BY <1>1, <1>3 DEF AudioType
<1> HIDE DEF g
<1>5. \A r \in Sources : /\ g.source[r].state = "none" <=> h.source[r].state = "none"
                         /\ h.source[r].state = "none" => g.source[r] = h.source[r]
  BY <1>2, <1>4
<1>6. \A q \in Queues : h.queue[q].al_source \in Sources \cup {Nil}
  BY <1>1 DEF AudioType, QueueType
<1>7. Owned(g)
  BY <1>1, <1>3, <1>5, <1>6 DEF Owned
<1>8. AudioOK(g)
  BY <1>1, <1>3, <1>7 DEF AudioOK
<1>9. ASSUME NEW q \in Queues, h.queue[q].al_source = s
      PROVE  Untouched(h, g, q)
  <2>1. s # Nil
    BY AudioQueueAssumption
  <2>2. \A r \in Queues \ {q} : h.queue[r].al_source # Nil => h.queue[r].al_source # s
    BY <1>1, <1>9, <2>1 DEF Owned
  <2>3. QED
    BY <1>3, <1>4, <1>6, <2>2 DEF Untouched
<1>10. QED
  BY <1>3, <1>4, <1>8, <1>9 DEF g

-----------------------------------------------------------------------------
(* The operations on one queue.                                            *)

(* A queue, its source and its lists have their types.                     *)
LEMMA QueueIs ==
  ASSUME NEW h, AudioOK(h), NEW q \in Queues
  PROVE  /\ h.queue[q] \in QueueType /\ Once(h.queue[q])
         /\ h.queue[q].al_source # Nil =>
              /\ h.queue[q].live
              /\ h.queue[q].al_source \in Sources
              /\ h.source[h.queue[q].al_source] \in SourceType
              /\ h.source[h.queue[q].al_source].state # "none"
BY DEF AudioOK, AudioType, QueueType, Owned

(* A buffer that is not enqueued may be, once.                             *)
LEMMA AppendOnce ==
  ASSUME NEW Q \in QueueType, Once(Q), NEW b,
         SX!Contains(Q.buffers, b), ~ SX!Contains(Q.buffer_queue, b)
  PROVE  /\ b \in Buffers
         /\ [Q EXCEPT !.buffer_queue = Append(Q.buffer_queue, b)] \in QueueType
         /\ Once([Q EXCEPT !.buffer_queue = Append(Q.buffer_queue, b)])
<1> DEFINE s == Q.buffer_queue
           a == Append(s, b)
           P == [Q EXCEPT !.buffer_queue = a]
<1>1. /\ s \in Seq(Buffers) /\ Q.buffers \in Seq(Buffers)
      /\ \A i, j \in DOMAIN s : s[i] = s[j] => i = j
      /\ \A i \in DOMAIN s : s[i] \in SX!ToSet(Q.buffers)
  BY DEF QueueType, Once, SX!IsInjective, SX!ToSet
<1>2. b \in Buffers /\ b \in SX!ToSet(Q.buffers) /\ \A i \in DOMAIN s : s[i] # b
  BY <1>1 DEF SX!Contains, SX!ToSet
<1>3. P \in QueueType /\ P.buffer_queue = a /\ P.buffers = Q.buffers
  BY <1>1, <1>2 DEF QueueType
<1> HIDE DEF P
<1>4. /\ DOMAIN a = 1 .. Len(s) + 1 /\ DOMAIN s = 1 .. Len(s) /\ Len(s) \in Nat
      /\ \A i \in 1 .. Len(s) : a[i] = s[i]
      /\ a[Len(s) + 1] = b
  BY <1>1, <1>2
<1> HIDE DEF a, s
<1>5. \A i, j \in DOMAIN a : a[i] = a[j] => i = j
  BY <1>1, <1>2, <1>4
<1>6. \A i \in DOMAIN a : a[i] \in SX!ToSet(Q.buffers)
  BY <1>1, <1>2, <1>4
<1>7. Once(P)
  BY <1>3, <1>5, <1>6 DEF Once, SX!IsInjective, SX!ToSet
<1>8. QED
  BY <1>2, <1>3, <1>7 DEF P, a, s

(* Nor do buffers that are played come twice.                              *)
LEMMA DroppedOnce ==
  ASSUME NEW Q \in QueueType, Once(Q), NEW n \in Nat
  PROVE  /\ [Q EXCEPT !.buffer_queue = Dropped(Q.buffer_queue, n)] \in QueueType
         /\ Once([Q EXCEPT !.buffer_queue = Dropped(Q.buffer_queue, n)])
<1> DEFINE s == Q.buffer_queue
           d == Dropped(s, n)
           P == [Q EXCEPT !.buffer_queue = d]
<1>0. s \in Seq(Buffers)
  BY DEF QueueType
<1>1. /\ s \in Seq(Buffers)
      /\ \A i, j \in DOMAIN s : s[i] = s[j] => i = j
      /\ \A i \in DOMAIN s : s[i] \in SX!ToSet(Q.buffers)
      /\ DOMAIN s = 1 .. Len(s)
  <2>1. /\ \A i, j \in DOMAIN s : s[i] = s[j] => i = j
        /\ \A i \in DOMAIN s : s[i] \in SX!ToSet(Q.buffers)
    BY DEF Once, SX!IsInjective, SX!ToSet
  <2>2. QED
    BY <1>0, <2>1
<1>2. /\ d \in Seq(Buffers)
      /\ \A i \in 1 .. Len(d) : n + i \in 1 .. Len(s) /\ d[i] = s[n + i]
  BY <1>1, DroppedIs
<1> HIDE DEF d
<1>3. P \in QueueType /\ P.buffer_queue = d /\ P.buffers = Q.buffers
  BY <1>2 DEF QueueType
<1> HIDE DEF P
<1>4. DOMAIN d = 1 .. Len(d) /\ Len(d) \in Nat
  BY <1>2
<1> HIDE DEF s
<1>5. \A i, j \in DOMAIN d : d[i] = d[j] => i = j
  BY <1>1, <1>2, <1>4
<1>6. \A i \in DOMAIN d : d[i] \in SX!ToSet(Q.buffers)
  BY <1>1, <1>2, <1>4
<1>7. Once(P)
  BY <1>3, <1>5, <1>6 DEF Once, SX!IsInjective, SX!ToSet
<1>8. QED
  BY <1>3, <1>7 DEF P, d, s

(* Nor do they in an empty queue.                                          *)
LEMMA EmptyOnce ==
  ASSUME NEW Q, Q.buffer_queue = << >>
  PROVE  Once(Q)
BY DEF Once, SX!IsInjective, SX!ToSet

(* What only concerns the flags of a queue keeps all.                      *)
LEMMA FlagsChange ==
  ASSUME NEW h, AudioOK(h), NEW q \in Queues, NEW Q \in QueueType,
         Q.buffers = h.queue[q].buffers, Q.buffer_queue = h.queue[q].buffer_queue,
         Q.al_source = h.queue[q].al_source, h.queue[q].live => Q.live
  PROVE  /\ Sure(h, [h EXCEPT !.queue[q] = Q], q)
         /\ Unplayed(h, q) => Unplayed([h EXCEPT !.queue[q] = Q], q)
<1> DEFINE g == [h EXCEPT !.queue[q] = Q]
<1>1. Once(Q)
  BY QueueIs DEF Once
<1>2. /\ AudioOK(g) /\ Untouched(h, g, q)
      /\ g.source = h.source /\ g.queue[q] = Q
  BY <1>1, QueueChange
<1>3. Synced(h, q) => Synced(g, q)
  BY <1>2 DEF Synced
<1>4. Unplayed(h, q) => Unplayed(g, q)
  BY <1>2 DEF Unplayed
<1>5. QED
  BY <1>2, <1>3, <1>4 DEF Sure

(* AudioQueueEnqueueBuffer                                                 *)
LEMMA EnqueuedSure ==
  ASSUME NEW h, AudioOK(h), NEW q \in Queues, NEW b, IsOut(h, q, b)
  PROVE  Sure(h, Enqueued(h, q, b), q)
<1> DEFINE H == h.queue[q]
           Q == [H EXCEPT !.buffer_queue = Append(H.buffer_queue, b)]
           g == [h EXCEPT !.queue[q] = Q]
<1>1. H \in QueueType /\ Once(H)
  BY QueueIs
<1>2. b \in Buffers /\ Q \in QueueType /\ Once(Q)
  BY <1>1, AppendOnce DEF IsOut
<1>3. /\ Q.al_source = H.al_source /\ Q.live = H.live
      /\ Q.buffer_queue = Append(H.buffer_queue, b)
      /\ H.buffer_queue \in Seq(Buffers)
  BY <1>1 DEF QueueType
<1>4. Enqueued(h, q, b) = g
  BY DEF Enqueued
<1> HIDE DEF Q
<1>5. /\ AudioOK(g) /\ Untouched(h, g, q)
      /\ g.source = h.source /\ g.queue[q] = Q
  BY <1>2, <1>3, QueueChange
<1> HIDE DEF g
<1>6. ASSUME Synced(h, q), Q.al_source # Nil
      PROVE  SX!IsPrefix(g.source[Q.al_source].queued, Q.buffer_queue)
  <2> DEFINE s == h.source[H.al_source].queued
  <2>1. s \in Seq(Buffers)
    BY <1>3, <1>6, QueueIs DEF SourceType
  <2>2. SX!IsPrefix(s, H.buffer_queue)
    BY <1>3, <1>6 DEF Synced
  <2> HIDE DEF s, H
  <2>3. SX!IsPrefix(s, Append(H.buffer_queue, b))
    BY <1>2, <1>3, <2>1, <2>2, AppendedPrefix
  <2>4. QED
    BY <1>3, <1>5, <2>3 DEF s
<1>7. Synced(h, q) => Synced(g, q)
  BY <1>5, <1>6 DEF Synced
<1>8. QED
  BY <1>4, <1>5, <1>7 DEF Sure

(* A source from the pool has no buffers.                                  *)
LEMMA WithSourceSure ==
  ASSUME NEW h, AudioOK(h), NEW q \in Queues, h.queue[q].live, NEW g \in WithSource(h, q)
  PROVE  Sure(h, g, q)
<1>1. CASE g = h
  BY <1>1, SureSame
<1>2. ASSUME h.queue[q].al_source = Nil, NEW s \in Sources, h.source[s].state = "none",
             g = [h EXCEPT !.queue[q].al_source = s, !.source[s].state = "initial"]
      PROVE  Sure(h, g, q)
  <2> DEFINE Q == [h.queue[q] EXCEPT !.al_source = s]
             al == [h.source[s] EXCEPT !.state = "initial"]
  <2>1. h \in AudioType /\ Owned(h) /\ \A r \in Queues : Once(h.queue[r])
    BY DEF AudioOK
  <2>2. /\ Q \in QueueType /\ Q.al_source = s /\ Q.live
        /\ Q.buffers = h.queue[q].buffers /\ Q.buffer_queue = h.queue[q].buffer_queue
    BY <2>1 DEF AudioType, QueueType
  <2>3. /\ al \in SourceType /\ al.state = "initial" /\ al.queued = << >>
    <3>1. h.source[s] \in SourceType /\ h.source[s].queued = << >>
      BY <1>2, <2>1 DEF AudioType, Owned
    <3>2. QED
      BY <3>1 DEF SourceType
  <2>4. g.queue = [h.queue EXCEPT ![q] = Q] /\ g.source = [h.source EXCEPT ![s] = al]
    BY <1>2, <2>1 DEF AudioType
  <2>5. g = [queue |-> g.queue, source |-> g.source]
    BY <1>2, <2>1 DEF AudioType
  <2> HIDE DEF Q, al
  <2>6. /\ g \in AudioType
        /\ \A r \in Queues : g.queue[r] = IF r = q THEN Q ELSE h.queue[r]
        /\ \A r \in Sources : g.source[r] = IF r = s THEN al ELSE h.source[r]
    BY <2>1, <2>2, <2>3, <2>4, <2>5 DEF AudioType
  <2>7. \A r \in Queues : h.queue[r].al_source \in Sources \cup {Nil}
    BY <2>1 DEF AudioType, QueueType
  <2>8. \A r \in Queues : h.queue[r].al_source # s
    BY <1>2, <2>1, AudioQueueAssumption DEF Owned
  <2>9. Owned(g)
    <3>1. \A p, r \in Queues :
            g.queue[p].al_source = g.queue[r].al_source /\ g.queue[p].al_source # Nil => p = r
      BY <2>1, <2>2, <2>6, <2>8 DEF Owned
    <3>2. \A r \in Queues :
            g.queue[r].al_source # Nil =>
              g.queue[r].live /\ g.source[g.queue[r].al_source].state # "none"
      BY <2>1, <2>2, <2>3, <2>6, <2>7, <2>8 DEF Owned
    <3>3. \A r \in Sources : g.source[r].state # "none" => \E p \in Queues : g.queue[p].al_source = r
      <4> SUFFICES ASSUME NEW r \in Sources, g.source[r].state # "none"
                   PROVE  \E p \in Queues : g.queue[p].al_source = r
        OBVIOUS
      <4>1. CASE r = s
        BY <2>2, <2>6, <4>1
      <4>2. CASE r # s
        <5>1. PICK p \in Queues : h.queue[p].al_source = r
          BY <2>1, <2>6, <4>2 DEF Owned
        <5>2. p # q
          BY <1>2, <5>1, AudioQueueAssumption
        <5>3. QED
          BY <2>6, <5>1, <5>2
      <4>3. QED
        BY <4>1, <4>2
    <3>4. \A r \in Sources : g.source[r].state = "none" => g.source[r].queued = << >>
      BY <2>1, <2>3, <2>6 DEF Owned
    <3>5. QED
      BY <3>1, <3>2, <3>3, <3>4 DEF Owned
  <2>10. \A r \in Queues : Once(g.queue[r])
    BY <2>1, <2>2, <2>6 DEF Once
  <2>11. Untouched(h, g, q)
    BY <2>6, <2>7, <2>8 DEF Untouched
  <2>12. Synced(g, q)
    <3>1. h.queue[q].buffer_queue \in Seq(Buffers)
      BY <2>1 DEF AudioType, QueueType
    <3>2. SX!IsPrefix(<< >>, h.queue[q].buffer_queue)
      BY <3>1, EmptyPrefix
    <3>3. QED
      BY <2>2, <2>3, <2>6, <3>2 DEF Synced
  <2>13. QED
    BY <2>6, <2>9, <2>10, <2>11, <2>12 DEF Sure, AudioOK
<1>3. QED
  BY <1>1, <1>2 DEF WithSource

(* The next buffers go to the source.                                      *)
LEMMA FedSure ==
  ASSUME NEW h, AudioOK(h), NEW q \in Queues
  PROVE  Sure(h, Fed(h, q), q)
<1> DEFINE Q == h.queue[q]
           s == Q.al_source
           al == Refilled(h.source[s], Q.buffer_queue)
           new == Restarted(al, Q.is_running)
           g == [h EXCEPT !.source[s] = new]
<1>1. CASE s = Nil
  BY <1>1, SureSame DEF Fed
<1>2. CASE s # Nil
  <2>1. /\ s \in Sources /\ h.source[s] \in SourceType /\ h.source[s].state # "none"
        /\ Q.buffer_queue \in Seq(Buffers)
    BY <1>2, QueueIs DEF QueueType
  <2>2. Fed(h, q) = g
    BY <1>2 DEF Fed
  <2>3. /\ al \in SourceType /\ al.state # "none"
        /\ SX!IsPrefix(h.source[s].queued, Q.buffer_queue) => SX!IsPrefix(al.queued, Q.buffer_queue)
    BY <2>1, RefilledIs DEF Remains
  <2> HIDE DEF al
  <2>4. Remains(al, new) /\ new.queued = al.queued
    BY <2>3, RestartedIs
  <2>5. Remains(h.source[s], new)
    BY <2>4 DEF Remains
  <2> HIDE DEF new
  <2> HIDE DEF s
  <2>6. /\ AudioOK(g)
        /\ g.queue = h.queue /\ g.source[s] = new
        /\ \A r \in Sources \ {s} : g.source[r] = h.source[r]
        /\ \A r \in Queues : h.queue[r].al_source = s => Untouched(h, g, r)
    BY <2>1, <2>5, SourceChange
  <2> USE DEF s
  <2> HIDE DEF g
  <2>7. Synced(h, q) => Synced(g, q)
    BY <2>3, <2>4, <2>6 DEF Synced
  <2>8. QED
    BY <2>2, <2>6, <2>7 DEF Sure
<1>3. QED
  BY <1>1, <1>2

(* prime_audio_queue                                                       *)
LEMMA PrimedSure ==
  ASSUME NEW h, AudioOK(h), NEW q \in Queues, NEW g \in Primed(h, q)
  PROVE  Sure(h, g, q)
<1>1. CASE h.queue[q].live
  <2>1. PICK k \in WithSource(h, q) : g = Fed(k, q)
    BY <1>1 DEF Primed
  <2>2. Sure(h, k, q)
    BY <1>1, WithSourceSure
  <2>3. Sure(k, g, q)
    BY <2>1, <2>2, FedSure DEF Sure
  <2>4. QED
    BY <2>2, <2>3, SureOn
<1>2. CASE ~ h.queue[q].live
  BY <1>2, SureSame DEF Primed
<1>3. QED
  BY <1>1, <1>2

(* AudioQueueReset: the queue is empty, its source too if it was played.   *)
LEMMA ResetLoose ==
  ASSUME NEW h, AudioOK(h), NEW q \in Queues
  PROVE  /\ Loose(h, Reset(h, q), q)
         /\ Reset(h, q).queue[q] = [h.queue[q] EXCEPT !.buffer_queue = << >>]
<1> DEFINE H == h.queue[q]
           s == H.al_source
           Q == [H EXCEPT !.buffer_queue = << >>]
           g == [h EXCEPT !.queue[q] = Q]
           al == Emptied(h.source[s])
           k == [g EXCEPT !.source[s] = al]
<1>1. Q \in QueueType /\ Q.al_source = s /\ Q.live = H.live /\ Q.buffer_queue = << >>
  <2>1. H \in QueueType /\ << >> \in Seq(Buffers)
    BY QueueIs
  <2>2. QED
    BY <2>1 DEF QueueType
<1>2. Once(Q)
  BY <1>1, EmptyOnce
<1>3. Reset(h, q) = IF s = Nil THEN g ELSE [g EXCEPT !.source[s] = Emptied(g.source[s])]
  BY DEF Reset
<1> HIDE DEF Q
<1>4. /\ AudioOK(g) /\ Untouched(h, g, q)
      /\ g.source = h.source /\ g.queue[q] = Q
  BY <1>1, <1>2, QueueChange
<1> HIDE DEF g
<1>5. CASE s = Nil
  BY <1>1, <1>3, <1>4, <1>5 DEF Loose, Synced, Q
<1>6. CASE s # Nil
  <2>1. /\ s \in Sources /\ h.source[s] \in SourceType /\ h.source[s].state # "none"
    BY <1>6, QueueIs
  <2>2. /\ Remains(h.source[s], al)
        /\ h.source[s].state # "initial" => al.queued = << >>
        /\ h.source[s].state = "initial" => al = h.source[s]
    BY <2>1, EmptiedIs
  <2>3. Reset(h, q) = k
    BY <1>3, <1>4, <1>6
  <2> HIDE DEF al
  <2>4. g.source[s].state # "none" /\ Remains(g.source[s], al)
    BY <1>4, <2>1, <2>2
  <2> HIDE DEF s
  <2>5. /\ AudioOK(k)
        /\ k.queue = g.queue /\ k.source[s] = al
        /\ \A r \in Sources \ {s} : k.source[r] = g.source[r]
        /\ \A r \in Queues : g.queue[r].al_source = s => Untouched(g, k, r)
    BY <1>4, <2>1, <2>4, SourceChange
  <2> HIDE DEF k
  <2>6. Untouched(h, k, q)
    BY <1>1, <1>4, <2>5, UntouchedOn
  <2>7. Synced(k, q) \/ Unplayed(k, q)
    <3>1. k.queue[q].al_source = s /\ k.queue[q].buffer_queue = << >>
      BY <1>1, <1>4, <2>5
    <3>2. CASE al.queued = << >>
      <4>0. << >> \in Seq(Buffers)
        OBVIOUS
      <4>1. SX!IsPrefix(<< >>, << >>)
        BY <4>0, EmptyPrefix
      <4>2. QED
        BY <2>5, <3>1, <3>2, <4>1 DEF Synced
    <3>3. CASE al.queued # << >>
      BY <1>6, <2>2, <2>5, <3>1, <3>3 DEF Unplayed
    <3>4. QED
      BY <3>2, <3>3
  <2>8. QED
    BY <1>4, <2>3, <2>5, <2>6, <2>7 DEF Loose, Q
<1>7. QED
  BY <1>5, <1>6

(* finish_stopping_audio_queue                                             *)
LEMMA StoppedLoose ==
  ASSUME NEW h, AudioOK(h), NEW q \in Queues
  PROVE  /\ Loose(h, Stopped(h, q), q)
         /\ Stopped(h, q).queue[q]
              = [h.queue[q] EXCEPT !.buffer_queue = << >>, !.is_running = "Stopped"]
<1> DEFINE g == Reset(h, q)
           Q == [g.queue[q] EXCEPT !.is_running = "Stopped"]
           k == [g EXCEPT !.queue[q] = Q]
<1>1. Loose(h, g, q) /\ g.queue[q] = [h.queue[q] EXCEPT !.buffer_queue = << >>]
  BY ResetLoose
<1>2. Stopped(h, q) = k
  BY DEF Stopped
<1>3. g \in AudioType /\ g.queue[q] \in QueueType
  BY <1>1, QueueIs DEF Loose, AudioOK
<1> HIDE DEF g
<1>4. /\ Q \in QueueType
      /\ Q.buffers = g.queue[q].buffers /\ Q.buffer_queue = g.queue[q].buffer_queue
      /\ Q.al_source = g.queue[q].al_source /\ (g.queue[q].live => Q.live)
  BY <1>3 DEF QueueType
<1>5. k.queue[q] = Q
  BY <1>3 DEF AudioType
<1> HIDE DEF Q
<1>6. /\ Sure(g, k, q)
      /\ Unplayed(g, q) => Unplayed(k, q)
  BY <1>1, <1>4, FlagsChange DEF Loose
<1> HIDE DEF k
<1>7. Loose(h, k, q)
  BY <1>1, <1>6, UntouchedOn DEF Loose, Sure
<1>8. Q = [h.queue[q] EXCEPT !.buffer_queue = << >>, !.is_running = "Stopped"]
  BY <1>1 DEF Q
<1>9. QED
  BY <1>2, <1>5, <1>7, <1>8

(* The end of AudioQueueStart plays what there is.                         *)
LEMMA StartedSure ==
  ASSUME NEW h, AudioOK(h), NEW q \in Queues
  PROVE  Sure(h, Started(h, q), q)
<1> DEFINE H == h.queue[q]
           s == H.al_source
           Q == [H EXCEPT !.is_running = "Stopped"]
           al == SourcePlay(h.source[s])
           g == [h EXCEPT !.source[s] = al]
<1>1. CASE s = Nil
  <2>1. /\ Q \in QueueType
        /\ Q.buffers = H.buffers /\ Q.buffer_queue = H.buffer_queue
        /\ Q.al_source = H.al_source /\ (H.live => Q.live)
    BY QueueIs DEF QueueType
  <2>2. Started(h, q) = [h EXCEPT !.queue[q] = Q]
    BY <1>1 DEF Started
  <2> HIDE DEF Q
  <2>3. /\ Sure(h, [h EXCEPT !.queue[q] = Q], q)
        /\ Unplayed(h, q) => Unplayed([h EXCEPT !.queue[q] = Q], q)
    BY <2>1, FlagsChange
  <2>4. QED
    BY <2>2, <2>3
<1>2. CASE s # Nil
  <2>1. /\ s \in Sources /\ h.source[s] \in SourceType /\ h.source[s].state # "none"
    BY <1>2, QueueIs
  <2>2. Remains(h.source[s], al) /\ al.queued = h.source[s].queued
    BY <2>1, SourceSteps
  <2>3. Started(h, q) = h \/ Started(h, q) = g
    BY <1>2 DEF Started
  <2> HIDE DEF al, s
  <2>4. /\ AudioOK(g)
        /\ g.queue = h.queue /\ g.source[s] = al
        /\ \A r \in Sources \ {s} : g.source[r] = h.source[r]
        /\ \A r \in Queues : h.queue[r].al_source = s => Untouched(h, g, r)
    BY <2>1, <2>2, SourceChange
  <2> HIDE DEF g
  <2> USE DEF s
  <2>5. Sure(h, g, q)
    BY <2>2, <2>4 DEF Sure, Synced
  <2>6. QED
    BY <2>3, <2>5, SureSame
<1>3. QED
  BY <1>1, <1>2

(* The end of AudioQueueStart, if the queue is still there.                *)
LEMMA StartEndsSure ==
  ASSUME NEW h, AudioOK(h), NEW q \in Queues, NEW g \in StartEnds(h, q)
  PROVE  Sure(h, g, q)
<1>1. CASE h.queue[q].live
  <2>1. PICK k \in Primed(h, q) : g = Started(k, q)
    BY <1>1 DEF StartEnds
  <2>2. Sure(h, k, q)
    BY PrimedSure
  <2>3. Sure(k, g, q)
    BY <2>1, <2>2, StartedSure DEF Sure
  <2>4. QED
    BY <2>2, <2>3, SureOn
<1>2. CASE ~ h.queue[q].live
  BY <1>2, SureSame DEF StartEnds
<1>3. QED
  BY <1>1, <1>2

(* The buffers that were played come off both queues.                      *)
LEMMA UnqueuedSure ==
  ASSUME NEW h, AudioOK(h), NEW q \in Queues, h.queue[q].al_source # Nil
  PROVE  Sure(h, Unqueued(h, q, h.queue[q].al_source), q)
<1> DEFINE H == h.queue[q]
           s == H.al_source
           n == Processed(h.source[s])
           P == [H EXCEPT !.buffer_queue = Dropped(H.buffer_queue, n)]
           Q == [P EXCEPT !.is_running_handler = TRUE]
           g == [h EXCEPT !.queue[q] = Q]
           al == UnqueueProcessed(h.source[s])
           k == [g EXCEPT !.source[s] = al]
<1>1. /\ s \in Sources /\ h.source[s] \in SourceType /\ h.source[s].state # "none"
      /\ H \in QueueType /\ Once(H) /\ s # Nil
  BY QueueIs
<1>2. /\ n \in Nat /\ Remains(h.source[s], al)
      /\ al.queued = Dropped(h.source[s].queued, n)
  BY <1>1, SourceSteps
<1>3. P \in QueueType /\ Once(P) /\ P.buffer_queue = Dropped(H.buffer_queue, n)
  <2> HIDE DEF n
  <2>1. P \in QueueType /\ Once(P)
    BY <1>1, <1>2, DroppedOnce
  <2>2. QED
    BY <1>1, <2>1 DEF QueueType
<1>4. P.al_source = s /\ P.live = H.live
  BY <1>1 DEF QueueType
<1>5. Unqueued(h, q, s) = k
  <2>1. h \in AudioType
    BY DEF AudioOK
  <2>2. /\ g.source = h.source /\ g.queue = [h.queue EXCEPT ![q] = Q]
    BY <2>1 DEF AudioType
  <2>3. [H EXCEPT !.is_running_handler = TRUE, !.buffer_queue = Popped(H.buffer_queue, n)] = Q
    BY <1>1 DEF QueueType, Popped
  <2>4. Unqueued(h, q, s) = [h EXCEPT !.queue = [h.queue EXCEPT ![q] =
           [H EXCEPT !.is_running_handler = TRUE, !.buffer_queue = Popped(H.buffer_queue, n)]],
                                      !.source = [h.source EXCEPT ![s] = al]]
    BY <2>1 DEF Unqueued, AudioType
  <2>5. k = [h EXCEPT !.queue = [h.queue EXCEPT ![q] = Q], !.source = [h.source EXCEPT ![s] = al]]
    <3> HIDE DEF Q, al, s
    <3>1. QED
      BY <2>1 DEF AudioType
  <2>6. QED
    BY <2>3, <2>4, <2>5
<1> HIDE DEF P
<1>6. /\ Q \in QueueType /\ Q.al_source = s /\ Q.live = H.live
      /\ Q.buffer_queue = P.buffer_queue /\ Q.buffers = P.buffers
  BY <1>3, <1>4 DEF QueueType
<1>7. Once(Q)
  BY <1>3, <1>6 DEF Once
<1> HIDE DEF Q
<1>8. /\ AudioOK(g) /\ Untouched(h, g, q)
      /\ g.source = h.source /\ g.queue[q] = Q
  BY <1>6, <1>7, QueueChange
<1> HIDE DEF g, al
<1>9. g.source[s].state # "none" /\ Remains(g.source[s], al)
  BY <1>1, <1>2, <1>8
<1> HIDE DEF s, n
<1>10. /\ AudioOK(k)
       /\ k.queue = g.queue /\ k.source[s] = al
       /\ \A r \in Sources \ {s} : k.source[r] = g.source[r]
       /\ \A r \in Queues : g.queue[r].al_source = s => Untouched(g, k, r)
  BY <1>1, <1>8, <1>9, SourceChange
<1> HIDE DEF k
<1>11. Untouched(h, k, q)
  BY <1>6, <1>8, <1>10, UntouchedOn
<1>12. Synced(h, q) => Synced(k, q)
  <2>1. ASSUME Synced(h, q)
        PROVE  SX!IsPrefix(al.queued, Q.buffer_queue)
    <3>1. h.source[s].queued \in Seq(Buffers) /\ H.buffer_queue \in Seq(Buffers)
      BY <1>1 DEF SourceType, QueueType
    <3>2. SX!IsPrefix(h.source[s].queued, H.buffer_queue)
      BY <1>1, <2>1 DEF Synced, s
    <3>3. SX!IsPrefix(Dropped(h.source[s].queued, n), Dropped(H.buffer_queue, n))
      BY <1>2, <3>1, <3>2, DroppedPrefix
    <3>4. QED
      BY <1>2, <1>3, <1>6, <3>3
  <2>2. QED
    BY <1>6, <1>8, <1>10, <2>1 DEF Synced
<1>13. QED
  BY <1>5, <1>10, <1>11, <1>12 DEF Sure, s

-----------------------------------------------------------------------------
(* The operations that call the guest.                                     *)

FrameType ==
  [kind : {"handle"}, queue : Queues, buffers : Seq(Buffers) \ {<< >>},
   was : {"Running", "Stopping", "Stopped"}, al_source : Sources]
  \cup [kind : {"ensure"}, queue : Queues, buffers : Seq(Buffers) \ {<< >>},
        caller : {"start", "handle"}]

(* The outcomes of a call: each is a loose step, and may leave a frame.    *)
Loosely(h, outcomes) ==
  \A outcome \in outcomes :
    AllLoose(h, outcome.audio) /\ outcome.frame \in Seq(FrameType)

(* What is left to be given back is a part of the list.                    *)
LEMMA FromIs ==
  ASSUME NEW bs \in Seq(Buffers), NEW wanted
  PROVE  From(bs, wanted) \in Seq(Buffers)
<1> DEFINE first == {i \in DOMAIN bs : bs[i] \in wanted
                                        /\ \A j \in 1 .. i - 1 : bs[j] \notin wanted}
           i == CHOOSE i \in first : TRUE
<1>1. CASE first = {}
  BY <1>1 DEF From
<1>2. CASE first # {}
  <2>1. i \in DOMAIN bs
    BY <1>2
  <2>2. From(bs, wanted) = SubSeq(bs, i, Len(bs))
    BY <1>2 DEF From
  <2> HIDE DEF i
  <2>3. i \in 1 .. Len(bs)
    BY <2>1
  <2>4. QED
    BY <2>2, <2>3
<1>3. QED
  BY <1>1, <1>2

(* What a call returns with, or calls the guest with.                      *)
LEMMA ReturnedIs ==
  ASSUME NEW hs, NEW outcome \in Returned(hs)
  PROVE  outcome.audio \in hs /\ outcome.frame \in Seq(FrameType)
<1>1. PICK g \in hs : outcome = [audio |-> g, frame |-> << >>]
  BY DEF Returned
<1>2. outcome.audio = g /\ outcome.frame = << >>
  BY <1>1
<1>3. << >> \in Seq(FrameType)
  OBVIOUS
<1>4. QED
  BY <1>2, <1>3

(* A call that calls the guest has changed nothing yet.                    *)
LEMMA CalledIs ==
  ASSUME NEW h, NEW f \in FrameType, NEW outcome \in Called(h, f)
  PROVE  outcome.audio = h /\ outcome.frame \in Seq(FrameType)
<1>1. outcome = [audio |-> h, frame |-> << f >>]
  BY DEF Called
<1>2. << f >> \in Seq(FrameType)
  OBVIOUS
<1>3. outcome.audio = h /\ outcome.frame = << f >>
  BY <1>1
<1>4. QED
  BY <1>2, <1>3

(* The end of handle_audio_queue. The source may be one that the queue no  *)
(* longer has: then it is only played.                                     *)
LEMMA CompletedLoose ==
  ASSUME NEW h, AudioOK(h), NEW q \in Queues, NEW s \in Sources, NEW was
  PROVE  AllLoose(h, Completed(h, q, was, s))
<1> DEFINE al == IF was # "Stopped" /\ h.source[s].state = "stopped"
                 THEN SourcePlay(h.source[s]) ELSE h.source[s]
           k == [h EXCEPT !.source[s] = al]
           Q == [k.queue[q] EXCEPT !.is_running_handler = FALSE]
           g == [k EXCEPT !.queue[q] = Q]
<1>1. h \in AudioType /\ h.source[s] \in SourceType
  BY DEF AudioOK, AudioType
<1>2. /\ AudioOK(k)
      /\ \A r \in Queues : Synced(h, r) => Synced(k, r)
  <2>1. CASE al = h.source[s]
    <3>1. k = h
      BY <1>1, <2>1 DEF AudioType
    <3>2. QED
      BY <3>1
  <2>2. CASE al = SourcePlay(h.source[s]) /\ h.source[s].state = "stopped"
    <3>1. Remains(h.source[s], al) /\ al.queued = h.source[s].queued
      BY <1>1, <2>2, SourceSteps
    <3>2. h.source[s].state # "none"
      BY <2>2
    <3> HIDE DEF al
    <3>3. /\ AudioOK(k)
          /\ k.queue = h.queue /\ k.source[s] = al
          /\ \A r \in Sources \ {s} : k.source[r] = h.source[r]
          /\ \A r \in Queues : h.queue[r].al_source = s => Untouched(h, k, r)
      BY <3>1, <3>2, SourceChange
    <3> HIDE DEF k
    <3>4. \A r \in Queues : h.queue[r].al_source \in Sources \cup {Nil}
      BY <1>1 DEF AudioType, QueueType
    <3>5. \A r \in Sources : k.source[r].queued = h.source[r].queued
      BY <3>1, <3>3
    <3>6. QED
      BY <3>3, <3>4, <3>5 DEF Synced
  <2>3. QED
    BY <2>1, <2>2
<1>3. Completed(h, q, was, s) = IF Finished(al, was) THEN Stopped(g, q) ELSE g
  BY DEF Completed
<1> HIDE DEF al, k
<1>4. /\ Q \in QueueType
      /\ Q.buffers = k.queue[q].buffers /\ Q.buffer_queue = k.queue[q].buffer_queue
      /\ Q.al_source = k.queue[q].al_source /\ (k.queue[q].live => Q.live)
  BY <1>2, QueueIs DEF QueueType
<1> HIDE DEF Q
<1>5. /\ Sure(k, g, q)
      /\ Unplayed(k, q) => Unplayed(g, q)
  BY <1>2, <1>4, FlagsChange
<1> HIDE DEF g
<1>6. AllSure(k, g)
  BY <1>5, SureIsAllSure
<1>7. AllSure(h, g)
  BY <1>2, <1>6 DEF AllSure
<1>8. AllLoose(g, Stopped(g, q))
  BY <1>7, StoppedLoose, LooseIsAllLoose DEF AllSure
<1>9. AllLoose(h, Stopped(g, q)) /\ AllLoose(h, g)
  BY <1>7, <1>8, AllSureOn, AllSureIsAllLoose
<1>10. QED
  BY <1>3, <1>9

(* The end of the handler, if the queue is still there.                    *)
LEMMA HandlerEndsLoose ==
  ASSUME NEW h, AudioOK(h), NEW q \in Queues, NEW s \in Sources, NEW was,
         NEW g \in HandlerEnds(h, q, was, s)
  PROVE  AllLoose(h, g)
<1>1. CASE h.queue[q].live
  <2>1. PICK k \in Primed(h, q) : g = Completed(k, q, was, s)
    BY <1>1 DEF HandlerEnds
  <2>2. AllSure(h, k)
    BY PrimedSure, SureIsAllSure
  <2>3. AllLoose(k, g)
    BY <2>1, <2>2, CompletedLoose DEF AllSure
  <2>4. QED
    BY <2>2, <2>3, AllSureOn
<1>2. CASE ~ h.queue[q].live
  <2>1. g = h
    BY <1>2 DEF HandlerEnds
  <2>2. QED
    BY <2>1, SureSame, SureIsAllSure, AllSureIsAllLoose
<1>3. QED
  BY <1>1, <1>2

(* The buffers go back to the guest, one after the other.                  *)
LEMMA GiveBackLoose ==
  ASSUME NEW h, AudioOK(h), NEW q \in Queues, NEW bs \in Seq(Buffers),
         NEW was \in {"Running", "Stopping", "Stopped"}, NEW s \in Sources
  PROVE  Loosely(h, GiveBack(h, q, bs, was, s))
<1> DEFINE rest == From(bs, UNION {SX!ToSet(h.queue[r].buffers) : r \in Queues})
           f == HandleFrame(q, rest, was, s)
<1>1. rest \in Seq(Buffers)
  BY FromIs
<1>2. GiveBack(h, q, bs, was, s) = IF rest = << >> THEN Returned(HandlerEnds(h, q, was, s))
                                   ELSE Called(h, f)
  BY DEF GiveBack
<1> HIDE DEF rest
<1>3. Loosely(h, Returned(HandlerEnds(h, q, was, s)))
  BY HandlerEndsLoose, ReturnedIs DEF Loosely
<1>4. rest # << >> => f \in FrameType
  BY <1>1 DEF FrameType, HandleFrame
<1> HIDE DEF f
<1>5. AllLoose(h, h)
  BY SureSame, SureIsAllSure, AllSureIsAllLoose
<1>6. rest # << >> => Loosely(h, Called(h, f))
  BY <1>4, <1>5, CalledIs DEF Loosely
<1>7. QED
  BY <1>2, <1>3, <1>6

(* A sure step, and then a call.                                           *)
LEMMA SureThenLoosely ==
  ASSUME NEW h, NEW g, AllSure(h, g), NEW outcomes, Loosely(g, outcomes)
  PROVE  Loosely(h, outcomes)
BY AllSureOn DEF Loosely

(* handle_audio_queue, up to the first callback                            *)
LEMMA HandlerLoose ==
  ASSUME NEW h, AudioOK(h), NEW q \in Queues
  PROVE  Loosely(h, Handler(h, q))
<1> DEFINE Q == h.queue[q]
           s == Q.al_source
           g == Unqueued(h, q, s)
           bs == Taken(Q.buffer_queue, Processed(h.source[s]))
<1>1. CASE ~ Q.live \/ s = Nil \/ Q.is_running_handler
  <2>1. Handler(h, q) = Returned({h})
    BY <1>1 DEF Handler
  <2>2. AllLoose(h, h)
    BY SureSame, SureIsAllSure, AllSureIsAllLoose
  <2>3. QED
    BY <2>1, <2>2, ReturnedIs DEF Loosely
<1>2. CASE ~ (~ Q.live \/ s = Nil \/ Q.is_running_handler)
  <2>1. Handler(h, q) = GiveBack(g, q, bs, Q.is_running, s)
    <3>1. Handler(h, q) = UNION {GiveBack(k, q, bs, Q.is_running, s) : k \in {g}}
      BY <1>2 DEF Handler
    <3> HIDE DEF g, bs, s, Q
    <3>2. QED
      BY <3>1
  <2>2. /\ s \in Sources /\ h.source[s] \in SourceType /\ h.source[s].state # "none"
        /\ Q.is_running \in {"Running", "Stopping", "Stopped"}
        /\ Q.buffer_queue \in Seq(Buffers)
    BY <1>2, QueueIs DEF QueueType
  <2>3. Processed(h.source[s]) \in Nat
    BY <2>2, SourceSteps
  <2>4. bs \in Seq(Buffers)
    BY <2>2, <2>3, TakenIs
  <2>5. Sure(h, g, q)
    BY <1>2, UnqueuedSure
  <2> HIDE DEF g, bs
  <2>6. AudioOK(g) /\ AllSure(h, g)
    BY <2>5, SureIsAllSure DEF Sure
  <2>7. Loosely(g, GiveBack(g, q, bs, Q.is_running, s))
    BY <2>2, <2>4, <2>6, GiveBackLoose
  <2>8. QED
    BY <2>1, <2>6, <2>7, SureThenLoosely
<1>3. QED
  BY <1>1, <1>2

(* ensure_output_buffers, on behalf of the handler                         *)
LEMMA OfferLoose ==
  ASSUME NEW h, AudioOK(h), NEW q \in Queues, NEW bs \in Seq(Buffers),
         NEW caller \in {"start", "handle"}
  PROVE  Loosely(h, Offer(h, q, bs, caller))
<1> DEFINE rest == From(bs, {b \in Buffers : IsOut(h, q, b)})
           f == EnsureFrame(q, rest, caller)
<1>1. rest \in Seq(Buffers)
  BY FromIs
<1>2. Offer(h, q, bs, caller)
        = IF h.queue[q].live /\ rest # << >> THEN Called(h, f)
          ELSE IF caller = "start" THEN Returned(StartEnds(h, q)) ELSE Handler(h, q)
  BY DEF Offer
<1> HIDE DEF rest
<1>3. rest # << >> => f \in FrameType
  BY <1>1 DEF FrameType, EnsureFrame
<1> HIDE DEF f
<1>4. AllLoose(h, h)
  BY SureSame, SureIsAllSure, AllSureIsAllLoose
<1>5. rest # << >> => Loosely(h, Called(h, f))
  BY <1>3, <1>4, CalledIs DEF Loosely
<1>6. Loosely(h, Returned(StartEnds(h, q)))
  BY StartEndsSure, SureIsAllSure, AllSureIsAllLoose, ReturnedIs DEF Loosely
<1>7. QED
  BY <1>2, <1>5, <1>6, HandlerLoose

(* The same of AudioQueueStart, which only touches its own queue.          *)
LEMMA OfferSure ==
  ASSUME NEW h, AudioOK(h), NEW q \in Queues, NEW bs \in Seq(Buffers),
         NEW outcome \in Offer(h, q, bs, "start")
  PROVE  Sure(h, outcome.audio, q) /\ outcome.frame \in Seq(FrameType)
<1> DEFINE rest == From(bs, {b \in Buffers : IsOut(h, q, b)})
           f == EnsureFrame(q, rest, "start")
<1>1. rest \in Seq(Buffers)
  BY FromIs
<1>2. (rest # << >> /\ outcome \in Called(h, f)) \/ outcome \in Returned(StartEnds(h, q))
  BY DEF Offer
<1> HIDE DEF rest
<1>3. rest # << >> => f \in FrameType
  BY <1>1 DEF FrameType, EnsureFrame
<1> HIDE DEF f
<1>4. CASE rest # << >> /\ outcome \in Called(h, f)
  BY <1>3, <1>4, SureSame, CalledIs
<1>5. CASE outcome \in Returned(StartEnds(h, q))
  BY <1>5, StartEndsSure, ReturnedIs
<1>6. QED
  BY <1>2, <1>4, <1>5

(* AudioQueueStart stops other queues: each of them and its source are     *)
(* reset, and the rest is untouched.                                       *)
LEMMA AllStoppedLoose ==
  ASSUME NEW h, AudioOK(h), NEW qs \in SUBSET Queues
  PROVE  /\ AllLoose(h, AllStopped(h, qs))
         /\ \A q \in Queues \ qs : Synced(h, q) => Synced(AllStopped(h, qs), q)
<1> DEFINE g == AllStopped(h, qs)
           Q(r) == [h.queue[r] EXCEPT !.buffer_queue = << >>, !.is_running = "Stopped"]
           stops(s) == \E r \in qs : h.queue[r].al_source = s
<1>1. h \in AudioType /\ Owned(h) /\ \A r \in Queues : Once(h.queue[r])
  BY DEF AudioOK
<1>2. \A r \in Queues : Stopped(h, r).queue[r] = Q(r)
  BY StoppedLoose
<1>3. /\ g.queue = [r \in Queues |-> IF r \in qs THEN Q(r) ELSE h.queue[r]]
      /\ g.source = [s \in Sources |-> IF stops(s) THEN Emptied(h.source[s]) ELSE h.source[s]]
      /\ g = [queue |-> g.queue, source |-> g.source]
  BY <1>2 DEF AllStopped
<1> HIDE DEF g
<1>4. ASSUME NEW r \in Queues
      PROVE  /\ Q(r) \in QueueType /\ Once(Q(r)) /\ Q(r).buffer_queue = << >>
             /\ Q(r).al_source = h.queue[r].al_source /\ Q(r).live = h.queue[r].live
  <2>1. h.queue[r] \in QueueType /\ << >> \in Seq(Buffers)
    BY QueueIs
  <2>2. /\ Q(r) \in QueueType /\ Q(r).buffer_queue = << >>
        /\ Q(r).al_source = h.queue[r].al_source /\ Q(r).live = h.queue[r].live
    BY <2>1 DEF QueueType
  <2>3. QED
    BY <2>2, EmptyOnce
<1>5. ASSUME NEW s \in Sources, stops(s)
      PROVE  /\ Remains(h.source[s], Emptied(h.source[s])) /\ h.source[s].state # "none"
             /\ h.source[s].state # "initial" => Emptied(h.source[s]).queued = << >>
             /\ h.source[s].state = "initial" => Emptied(h.source[s]) = h.source[s]
  <2>1. s # Nil
    BY AudioQueueAssumption
  <2>2. h.source[s] \in SourceType /\ h.source[s].state # "none"
    BY <1>5, <2>1, QueueIs
  <2>3. QED
    BY <2>2, EmptiedIs
<1> HIDE DEF Q
<1>6. ASSUME NEW r \in Queues
      PROVE  /\ g.queue[r] = IF r \in qs THEN Q(r) ELSE h.queue[r]
             /\ g.queue[r] \in QueueType /\ Once(g.queue[r])
             /\ g.queue[r].al_source = h.queue[r].al_source
             /\ g.queue[r].live = h.queue[r].live
             /\ h.queue[r].al_source \in Sources \cup {Nil}
  <2>1. h.queue[r] \in QueueType /\ Once(h.queue[r])
    BY QueueIs
  <2>2. h.queue[r].al_source \in Sources \cup {Nil}
    BY <2>1 DEF QueueType
  <2>3. QED
    BY <1>3, <1>4, <2>1, <2>2
<1>7. ASSUME NEW s \in Sources
      PROVE  /\ g.source[s] = IF stops(s) THEN Emptied(h.source[s]) ELSE h.source[s]
             /\ g.source[s] \in SourceType
             /\ g.source[s].state = "none" <=> h.source[s].state = "none"
             /\ h.source[s].state = "none" => g.source[s] = h.source[s]
  <2>1. g.source[s] = IF stops(s) THEN Emptied(h.source[s]) ELSE h.source[s]
    BY <1>3
  <2>2. h.source[s] \in SourceType
    BY <1>1 DEF AudioType
  <2>3. CASE stops(s)
    BY <1>5, <2>1, <2>3 DEF Remains
  <2>4. CASE ~ stops(s)
    BY <2>1, <2>2, <2>4
  <2>5. QED
    BY <2>1, <2>3, <2>4
<1>8. g \in AudioType
  <2>1. g.queue \in [Queues -> QueueType] /\ g.source \in [Sources -> SourceType]
    BY <1>3, <1>6, <1>7
  <2>2. QED
    BY <1>3, <2>1 DEF AudioType
<1>9. Owned(g)
  BY <1>1, <1>6, <1>7 DEF Owned
<1>10. AudioOK(g)
  BY <1>6, <1>8, <1>9 DEF AudioOK
<1>11. ASSUME NEW q \in Queues \ qs, Synced(h, q)
       PROVE  Synced(g, q)
  <2> SUFFICES ASSUME h.queue[q].al_source # Nil
               PROVE  SX!IsPrefix(g.source[h.queue[q].al_source].queued, h.queue[q].buffer_queue)
    BY <1>6 DEF Synced
  <2>1. \A r \in qs : h.queue[r].al_source # h.queue[q].al_source
    BY <1>1 DEF Owned
  <2>2. h.queue[q].al_source \in Sources /\ ~ stops(h.queue[q].al_source)
    BY <1>6, <2>1
  <2>3. g.source[h.queue[q].al_source] = h.source[h.queue[q].al_source]
    BY <1>7, <2>2
  <2>4. QED
    BY <1>11, <2>3 DEF Synced
<1>12. ASSUME NEW q \in qs
       PROVE  Synced(g, q) \/ Unplayed(g, q)
  <2> DEFINE s == h.queue[q].al_source
  <2>1. g.queue[q].al_source = s /\ g.queue[q].buffer_queue = << >> /\ s \in Sources \cup {Nil}
    BY <1>4, <1>6
  <2>2. CASE s = Nil
    BY <2>1, <2>2 DEF Synced
  <2>3. CASE s # Nil
    <3>1. s \in Sources /\ stops(s)
      BY <2>1, <2>3
    <3>2. g.source[s] = Emptied(h.source[s])
      BY <1>7, <3>1
    <3>3. CASE h.source[s].state # "initial" \/ h.source[s].queued = << >>
      <4>1. g.source[s].queued = << >>
        BY <1>5, <3>1, <3>2, <3>3
      <4>2. << >> \in Seq(Buffers)
        OBVIOUS
      <4>3. SX!IsPrefix(<< >>, << >>)
        BY <4>2, EmptyPrefix
      <4>4. QED
        BY <2>1, <4>1, <4>3 DEF Synced
    <3>4. CASE h.source[s].state = "initial" /\ h.source[s].queued # << >>
      BY <1>5, <2>1, <2>3, <3>1, <3>2, <3>4 DEF Unplayed
    <3>5. QED
      BY <3>3, <3>4
  <2>4. QED
    BY <2>2, <2>3
<1>13. QED
  BY <1>10, <1>11, <1>12 DEF AllLoose, g

(* What happens to one queue after the others were stopped.                *)
LEMMA LooseThenSure ==
  ASSUME NEW h, NEW g, NEW k, NEW q \in Queues,
         AllLoose(h, g), Synced(h, q) => Synced(g, q), Sure(g, k, q)
  PROVE  AllLoose(h, k)
<1>1. \A r \in Queues \ {q} : (Synced(g, r) <=> Synced(k, r)) /\ (Unplayed(g, r) <=> Unplayed(k, r))
  BY UntouchedSame DEF Sure
<1>2. QED
  BY <1>1 DEF AllLoose, Sure

(* Other buffers for a queue, which still include those enqueued.          *)
LEMMA BuffersChange ==
  ASSUME NEW h, AudioOK(h), NEW q \in Queues, NEW bs \in Seq(Buffers),
         SX!ToSet(h.queue[q].buffer_queue) \subseteq SX!ToSet(bs)
  PROVE  Sure(h, [h EXCEPT !.queue[q].buffers = bs], q)
<1> DEFINE H == h.queue[q]
           Q == [H EXCEPT !.buffers = bs]
           g == [h EXCEPT !.queue[q] = Q]
<1>1. H \in QueueType /\ Once(H)
  BY QueueIs
<1>2. /\ Q \in QueueType /\ Q.buffers = bs /\ Q.buffer_queue = H.buffer_queue
      /\ Q.al_source = H.al_source /\ Q.live = H.live
  BY <1>1 DEF QueueType
<1> HIDE DEF Q
<1>3. Once(Q)
  BY <1>1, <1>2 DEF Once
<1>4. /\ AudioOK(g) /\ Untouched(h, g, q)
      /\ g.source = h.source /\ g.queue[q] = Q
  BY <1>2, <1>3, QueueChange
<1>5. Synced(h, q) => Synced(g, q)
  BY <1>2, <1>4 DEF Synced
<1>6. QED
  BY <1>4, <1>5 DEF Sure, Q

(* A source goes back to the pool with its queue.                          *)
LEMMA DisposedSure ==
  ASSUME NEW h, AudioOK(h), NEW q \in Queues
  PROVE  Sure(h, [Deleted(h, h.queue[q].al_source) EXCEPT !.queue[q] = NoQueue], q)
<1> DEFINE s == h.queue[q].al_source
           g == [Deleted(h, s) EXCEPT !.queue[q] = NoQueue]
<1>1. h \in AudioType /\ Owned(h) /\ \A r \in Queues : Once(h.queue[r])
  BY DEF AudioOK
<1>2. \A r \in Queues : h.queue[r].al_source \in Sources \cup {Nil}
  BY <1>1 DEF AudioType, QueueType
<1>3. NoQueue \in QueueType /\ NoQueue.al_source = Nil /\ Once(NoQueue)
  <2>1. << >> \in Seq(Buffers) /\ NoQueue.buffer_queue = << >>
    BY DEF NoQueue
  <2>2. NoQueue \in QueueType /\ NoQueue.al_source = Nil
    BY <2>1 DEF NoQueue, QueueType
  <2>3. QED
    BY <2>1, <2>2, EmptyOnce
<1>4. NoSource \in SourceType /\ NoSource.state = "none" /\ NoSource.queued = << >>
  <2>1. << >> \in Seq(Buffers)
    OBVIOUS
  <2>2. QED
    BY <2>1 DEF NoSource, SourceType
<1>5. /\ g.queue = [h.queue EXCEPT ![q] = NoQueue]
      /\ g.source = IF s = Nil THEN h.source ELSE [h.source EXCEPT ![s] = NoSource]
      /\ g = [queue |-> g.queue, source |-> g.source]
  <2> HIDE DEF s
  <2>1. QED
    BY <1>1 DEF AudioType, Deleted
<1> HIDE DEF g
<1>6. /\ \A r \in Queues : g.queue[r] = IF r = q THEN NoQueue ELSE h.queue[r]
      /\ \A r \in Sources : g.source[r] = IF r = s THEN NoSource ELSE h.source[r]
  BY <1>1, <1>2, <1>5, AudioQueueAssumption DEF AudioType
<1>7. g \in AudioType
  BY <1>1, <1>3, <1>4, <1>5 DEF AudioType
<1>8. \A r \in Queues \ {q} : h.queue[r].al_source # Nil => h.queue[r].al_source # s
  BY <1>1 DEF Owned
<1>9. Owned(g)
  <2>1. \A p, r \in Queues :
          g.queue[p].al_source = g.queue[r].al_source /\ g.queue[p].al_source # Nil => p = r
    BY <1>1, <1>3, <1>6 DEF Owned
  <2>2. \A r \in Queues :
          g.queue[r].al_source # Nil =>
            g.queue[r].live /\ g.source[g.queue[r].al_source].state # "none"
    BY <1>1, <1>2, <1>3, <1>6, <1>8 DEF Owned
  <2>3. \A r \in Sources : g.source[r].state # "none" => \E p \in Queues : g.queue[p].al_source = r
    <3> SUFFICES ASSUME NEW r \in Sources, g.source[r].state # "none"
                 PROVE  \E p \in Queues : g.queue[p].al_source = r
      OBVIOUS
    <3>1. r # s /\ h.source[r].state # "none"
      BY <1>4, <1>6
    <3>2. PICK p \in Queues : h.queue[p].al_source = r
      BY <1>1, <3>1 DEF Owned
    <3>3. p # q
      BY <3>1, <3>2
    <3>4. QED
      BY <1>6, <3>2, <3>3
  <2>4. \A r \in Sources : g.source[r].state = "none" => g.source[r].queued = << >>
    BY <1>1, <1>4, <1>6 DEF Owned
  <2>5. QED
    BY <2>1, <2>2, <2>3, <2>4 DEF Owned
<1>10. \A r \in Queues : Once(g.queue[r])
  BY <1>1, <1>3, <1>6
<1>11. Untouched(h, g, q)
  BY <1>2, <1>6, <1>8 DEF Untouched
<1>12. Synced(g, q)
  BY <1>3, <1>6 DEF Synced
<1>13. QED
  BY <1>7, <1>9, <1>10, <1>11, <1>12 DEF Sure, AudioOK, g

-----------------------------------------------------------------------------
(* The actions.                                                            *)

Frames == [Threads -> Seq(FrameType)]

AudioInv ==
  /\ AudioOK(audio)
  /\ frames \in Frames
  /\ active_output \in Queues \cup {Nil}

(* What every step does.                                                   *)
LooseStep ==
  /\ AllLoose(audio, audio')
  /\ frames' \in Frames
  /\ active_output' \in Queues \cup {Nil}

(* What is enqueued in each queue, and the source it has, are its own.     *)
LEMMA AudioIs ==
  /\ audio.queue = queue /\ audio.source = source
  /\ audio'.queue = queue' /\ audio'.source = source'
BY DEF audio

(* The state becomes that of the record that a call has computed.          *)
LEMMA BecomesIs ==
  ASSUME NEW h, h \in AudioType, Becomes(h)
  PROVE  audio' = h
BY DEF Becomes, audio, AudioType

(* A call that returns at once, whose result is a loose step.              *)
LEMMA BecomesLoose ==
  ASSUME NEW h, AllLoose(audio, h), Becomes(h),
         AudioInv, UNCHANGED <<active_output, frames>>
  PROVE  LooseStep
<1>1. audio' = h
  BY BecomesIs DEF AllLoose, AudioOK
<1>2. QED
  BY <1>1 DEF LooseStep, AudioInv

(* A call whose outcomes are loose is a loose step.                        *)
LEMMA CallsLoose ==
  ASSUME AudioInv, NEW th \in Threads, NEW outcomes, Loosely(audio, outcomes),
         NEW below \in Seq(FrameType), Calls(th, outcomes, below),
         UNCHANGED active_output
  PROVE  LooseStep
<1>1. PICK o \in outcomes : /\ Becomes(o.audio)
                            /\ frames' = [frames EXCEPT ![th] = o.frame \o below]
  BY DEF Calls
<1>2. AllLoose(audio, o.audio) /\ o.frame \in Seq(FrameType)
  BY DEF Loosely
<1>3. audio' = o.audio
  BY <1>1, <1>2, BecomesIs DEF AllLoose, AudioOK
<1>4. o.frame \o below \in Seq(FrameType)
  BY <1>2
<1>5. frames' \in Frames
  BY <1>1, <1>4 DEF AudioInv, Frames
<1>6. QED
  BY <1>2, <1>3, <1>5 DEF LooseStep, AudioInv

(* AudioQueueNewOutput at an address that is free.                         *)
LEMMA NewOutputStep ==
  ASSUME AudioInv, NEW q \in Queues, NEW l \in Loops, NewOutput(q, l)
  PROVE  LooseStep
<1> DEFINE h == audio
           Q == NewQueue(l)
           g == [h EXCEPT !.queue[q] = Q]
<1>1. AudioOK(h) /\ h.queue = queue /\ h.source = source
  BY AudioIs DEF AudioInv
<1>2. /\ Q \in QueueType /\ Q.live /\ Q.al_source = Nil /\ Q.buffer_queue = << >>
  <2>1. << >> \in Seq(Buffers)
    OBVIOUS
  <2>2. QED
    BY <2>1 DEF NewQueue, NoQueue, QueueType
<1>3. h.queue[q].al_source = Nil
  BY <1>1, QueueIs DEF NewOutput
<1>4. Becomes(g)
  <2>1. h \in AudioType
    BY <1>1 DEF AudioOK
  <2>2. g.queue = [queue EXCEPT ![q] = Q] /\ g.source = source
    BY <1>1, <2>1 DEF AudioType
  <2>3. QED
    BY <2>2 DEF Becomes, NewOutput
<1> HIDE DEF h, Q
<1>5. Once(Q)
  BY <1>2, EmptyOnce
<1>6. /\ AudioOK(g) /\ Untouched(h, g, q)
      /\ g.source = h.source /\ g.queue[q] = Q
  BY <1>1, <1>2, <1>3, <1>5, QueueChange
<1> HIDE DEF g
<1>7. Sure(h, g, q)
  BY <1>2, <1>6 DEF Sure, Synced
<1>8. AllLoose(audio, g)
  BY <1>7, SureIsAllSure, AllSureIsAllLoose DEF h
<1>9. audio' = g
  BY <1>4, <1>6, BecomesIs DEF AudioOK
<1>10. QED
  BY <1>8, <1>9 DEF LooseStep, AudioInv, NewOutput

(* The active queue is used again, after a reset and without its buffers.  *)
LEMMA NewOutputReusedStep ==
  ASSUME AudioInv, NEW l \in Loops, NewOutputReused(l)
  PROVE  LooseStep
<1> DEFINE q == active_output
           h == Stopped(audio, q)
           P == [h.queue[q] EXCEPT !.buffers = << >>]
           Q == [P EXCEPT !.run_loop = l]
           g == [h EXCEPT !.queue[q] = Q]
<1>1. q \in Queues /\ AudioOK(audio)
  BY DEF NewOutputReused, AudioInv
<1>2. /\ Loose(audio, h, q)
      /\ h.queue[q] = [audio.queue[q] EXCEPT !.buffer_queue = << >>, !.is_running = "Stopped"]
  BY <1>1, StoppedLoose
<1>3. Becomes([h EXCEPT !.queue[q].buffers = << >>, !.queue[q].run_loop = l])
  BY DEF NewOutputReused
<1>4. h \in AudioType /\ AudioOK(h) /\ h.queue[q] \in QueueType
  BY <1>1, <1>2, QueueIs DEF Loose, AudioOK
<1>5. h.queue[q].buffer_queue = << >>
  <2>1. audio.queue[q] \in QueueType
    BY <1>1, QueueIs
  <2>2. QED
    BY <1>2, <2>1 DEF QueueType
<1> HIDE DEF h
<1>6. [h EXCEPT !.queue[q].buffers = << >>, !.queue[q].run_loop = l] = g
  BY <1>1, <1>4 DEF AudioType, QueueType
<1>7. /\ Q \in QueueType /\ Q.buffer_queue = << >>
      /\ Q.al_source = h.queue[q].al_source /\ Q.live = h.queue[q].live
  <2>1. << >> \in Seq(Buffers)
    OBVIOUS
  <2>2. QED
    BY <1>4, <1>5, <2>1 DEF QueueType
<1> HIDE DEF Q
<1>8. Once(Q)
  BY <1>7, EmptyOnce
<1>9. /\ AudioOK(g) /\ Untouched(h, g, q)
      /\ g.source = h.source /\ g.queue[q] = Q
  BY <1>1, <1>4, <1>7, <1>8, QueueChange
<1> HIDE DEF g
<1>10. /\ Synced(h, q) => Synced(g, q)
       /\ Unplayed(h, q) => Unplayed(g, q)
  BY <1>5, <1>7, <1>9 DEF Synced, Unplayed
<1>11. Loose(audio, g, q)
  BY <1>1, <1>2, <1>9, <1>10, UntouchedOn DEF Loose
<1>12. AllLoose(audio, g)
  BY <1>1, <1>11, LooseIsAllLoose
<1>13. QED
  BY <1>3, <1>6, <1>12, BecomesLoose DEF NewOutputReused

(* AudioQueueAllocateBuffer                                                *)
LEMMA AllocateBufferStep ==
  ASSUME AudioInv, NEW q \in Queues, NEW b \in Buffers, AllocateBuffer(q, b)
  PROVE  LooseStep
<1> DEFINE H == audio.queue[q]
           bs == Append(H.buffers, b)
           g == [audio EXCEPT !.queue[q].buffers = bs]
<1>1. AudioOK(audio) /\ audio.queue = queue /\ audio.source = source
  BY AudioIs DEF AudioInv
<1>2. /\ H.buffers \in Seq(Buffers) /\ H.buffer_queue \in Seq(Buffers)
      /\ SX!ToSet(H.buffer_queue) \subseteq SX!ToSet(H.buffers)
  BY <1>1, QueueIs DEF QueueType, Once
<1>3. bs \in Seq(Buffers) /\ \A i \in DOMAIN H.buffers : i \in DOMAIN bs /\ bs[i] = H.buffers[i]
  BY <1>2
<1>4. Becomes(g)
  BY <1>1 DEF Becomes, AllocateBuffer, AudioOK, AudioType
<1> HIDE DEF bs, H
<1>5. SX!ToSet(H.buffer_queue) \subseteq SX!ToSet(bs)
  BY <1>2, <1>3 DEF SX!ToSet
<1>6. Sure(audio, g, q)
  BY <1>1, <1>3, <1>5, BuffersChange DEF H
<1>7. AllLoose(audio, g)
  BY <1>6, SureIsAllSure, AllSureIsAllLoose
<1> HIDE DEF g
<1>8. QED
  BY <1>4, <1>7, BecomesLoose DEF AllocateBuffer

(* AudioQueueFreeBuffer: the buffer is not enqueued, so that those which   *)
(* are remain.                                                             *)
LEMMA FreeBufferStep ==
  ASSUME AudioInv, NEW q \in Queues, NEW b \in Buffers, FreeBuffer(q, b)
  PROVE  LooseStep
<1>1. AudioOK(audio) /\ audio.queue = queue /\ audio.source = source
  BY AudioIs DEF AudioInv
<1>2. PICK i \in DOMAIN queue[q].buffers :
        /\ queue[q].buffers[i] = b
        /\ queue' = [queue EXCEPT ![q].buffers = SX!RemoveAt(queue[q].buffers, i)]
  BY DEF FreeBuffer
<1> DEFINE H == audio.queue[q]
           old == H.buffers
           bs == SX!RemoveAt(old, i)
           g == [audio EXCEPT !.queue[q].buffers = bs]
<1>3. /\ old \in Seq(Buffers) /\ H.buffer_queue \in Seq(Buffers)
      /\ SX!ToSet(H.buffer_queue) \subseteq SX!ToSet(old)
  BY <1>1, QueueIs DEF QueueType, Once
<1>4. i \in 1 .. Len(old) /\ old[i] = b
  BY <1>1, <1>2, <1>3
<1>5. Becomes(g)
  BY <1>1, <1>2 DEF Becomes, FreeBuffer, AudioOK, AudioType
<1>6. b \notin SX!ToSet(H.buffer_queue)
  BY <1>3 DEF FreeBuffer, CanFree, IsOut, SX!Contains, SX!ToSet
<1> HIDE DEF H
<1>7. bs \in Seq(Buffers) /\ \A c \in SX!ToSet(old) \ {b} : c \in SX!ToSet(bs)
  <2> DEFINE pre == SubSeq(old, 1, i - 1)
             post == SubSeq(old, i + 1, Len(old))
  <2>1. /\ pre \in Seq(Buffers) /\ Len(pre) = i - 1
        /\ \A j \in 1 .. i - 1 : pre[j] = old[j]
    BY <1>3, <1>4
  <2>2. /\ post \in Seq(Buffers) /\ Len(post) = Len(old) - i
        /\ \A j \in 1 .. Len(old) - i : post[j] = old[i + j]
    <3>1. post \in Seq(Buffers) /\ Len(post) = Len(old) - i
      BY <1>3, <1>4
    <3>2. ASSUME NEW j \in 1 .. Len(old) - i
          PROVE  post[j] = old[i + j]
      <4>1. post[j] = old[(i + 1) + j - 1]
        BY <1>3, <1>4
      <4>2. (i + 1) + j - 1 = i + j
        BY <1>4
      <4>3. QED
        BY <4>1, <4>2
    <3>3. QED
      BY <3>1, <3>2
  <2>3. bs = pre \o post
    BY DEF SX!RemoveAt
  <2> HIDE DEF pre, post, old, bs
  <2>4. /\ bs \in Seq(Buffers) /\ DOMAIN bs = 1 .. Len(pre) + Len(post)
        /\ \A j \in 1 .. Len(pre) + Len(post) :
             bs[j] = IF j <= Len(pre) THEN pre[j] ELSE post[j - Len(pre)]
    <3>1. /\ bs \in Seq(Buffers) /\ Len(bs) = Len(pre) + Len(post)
          /\ \A j \in 1 .. Len(pre) + Len(post) :
               bs[j] = IF j <= Len(pre) THEN pre[j] ELSE post[j - Len(pre)]
      <4>1. pre \in Seq(Buffers) /\ post \in Seq(Buffers)
        BY <2>1, <2>2
      <4>2. /\ pre \o post \in Seq(Buffers) /\ Len(pre \o post) = Len(pre) + Len(post)
            /\ \A j \in 1 .. Len(pre) + Len(post) :
                 (pre \o post)[j] = IF j <= Len(pre) THEN pre[j] ELSE post[j - Len(pre)]
        BY <4>1
      <4>3. QED
        BY <2>3, <4>2
    <3>2. DOMAIN bs = 1 .. Len(bs)
      BY <3>1
    <3>3. QED
      BY <3>1, <3>2
  <2> DEFINE l == Len(old)
             n == Len(pre)
             m == Len(post)
  <2>a. l \in Nat /\ i \in 1 .. l /\ n = i - 1 /\ m = l - i
    BY <1>3, <1>4, <2>1, <2>2
  <2> HIDE DEF l, n, m
  <2>5. ASSUME NEW j \in 1 .. Len(old), j # i
        PROVE  \E k \in DOMAIN bs : bs[k] = old[j]
    <3>1. CASE j < i
      <4>0. j \in 1 .. l
        BY DEF l
      <4>1. j \in 1 .. n + m /\ j <= n /\ j \in 1 .. i - 1
        BY <2>a, <3>1, <4>0
      <4>2. j \in DOMAIN bs /\ bs[j] = pre[j]
        BY <2>4, <4>1 DEF n, m
      <4>3. QED
        BY <2>1, <4>1, <4>2
    <3>2. CASE j > i
      <4>0. j \in 1 .. l
        BY DEF l
      <4>1. j - 1 \in 1 .. n + m /\ ~ (j - 1 <= n)
        BY <2>a, <3>2, <4>0
      <4>2. j - 1 \in DOMAIN bs /\ bs[j - 1] = post[(j - 1) - n]
        BY <2>4, <4>1 DEF n, m
      <4>3. (j - 1) - n = j - i /\ j - i \in 1 .. l - i /\ i + (j - i) = j
        BY <2>a, <3>2, <4>0
      <4>4. post[j - i] = old[i + (j - i)]
        BY <2>2, <4>3 DEF l
      <4>5. QED
        BY <4>2, <4>3, <4>4
    <3>3. QED
      BY <1>4, <2>5, <3>1, <3>2
  <2>6. \A c \in SX!ToSet(old) \ {b} : \E j \in 1 .. Len(old) : j # i /\ old[j] = c
    BY <1>3, <1>4 DEF SX!ToSet
  <2>7. QED
    BY <2>4, <2>5, <2>6 DEF SX!ToSet
<1> HIDE DEF bs, old
<1>8. SX!ToSet(H.buffer_queue) \subseteq SX!ToSet(bs)
  BY <1>3, <1>6, <1>7
<1>9. Sure(audio, g, q)
  BY <1>1, <1>7, <1>8, BuffersChange DEF H
<1>10. AllLoose(audio, g)
  BY <1>9, SureIsAllSure, AllSureIsAllLoose
<1> HIDE DEF g
<1>11. QED
  BY <1>5, <1>10, BecomesLoose DEF FreeBuffer

(* AudioQueueEnqueueBuffer, which primes a running queue.                  *)
LEMMA EnqueueBufferStep ==
  ASSUME AudioInv, NEW q \in Queues, NEW b \in Buffers, EnqueueBuffer(q, b)
  PROVE  LooseStep
<1> DEFINE h == Enqueued(audio, q, b)
<1>1. AudioOK(audio) /\ IsOut(audio, q, b)
  BY DEF AudioInv, EnqueueBuffer
<1>2. PICK g \in IF queue[q].is_running = "Running" THEN Primed(h, q) ELSE {h} : Becomes(g)
  BY DEF EnqueueBuffer
<1>3. Sure(audio, h, q)
  BY <1>1, EnqueuedSure
<1> HIDE DEF h
<1>4. Sure(h, g, q)
  <2>1. AudioOK(h)
    BY <1>3 DEF Sure
  <2>2. CASE g \in Primed(h, q)
    BY <2>1, <2>2, PrimedSure
  <2>3. CASE g = h
    BY <2>1, <2>3, SureSame
  <2>4. QED
    BY <1>2, <2>2, <2>3
<1>5. AllLoose(audio, g)
  BY <1>3, <1>4, SureOn, SureIsAllSure, AllSureIsAllLoose
<1>6. QED
  BY <1>2, <1>5, BecomesLoose DEF EnqueueBuffer

(* AudioQueuePrime                                                         *)
LEMMA AudioQueuePrimeStep ==
  ASSUME AudioInv, NEW q \in Queues, AudioQueuePrime(q)
  PROVE  LooseStep
<1>1. PICK g \in Primed(audio, q) : Becomes(g)
  BY DEF AudioQueuePrime
<1>2. AllLoose(audio, g)
  BY PrimedSure, SureIsAllSure, AllSureIsAllLoose DEF AudioInv
<1>3. QED
  BY <1>1, <1>2, BecomesLoose DEF AudioQueuePrime

(* AudioQueueStart                                                         *)
LEMMA StartStep ==
  ASSUME AudioInv, NEW th \in Threads, NEW q \in Queues, Start(th, q)
  PROVE  LooseStep
<1> DEFINE others == {r \in Queues \ {q} : queue[r].is_running # "Stopped"}
           h == AllStopped(audio, others)
           Q == [h.queue[q] EXCEPT !.is_running = "Running"]
           g == [h EXCEPT !.queue[q] = Q]
           bs == queue[q].buffers
<1>1. AudioOK(audio) /\ audio.queue = queue /\ frames[th] \in Seq(FrameType)
  BY AudioIs DEF AudioInv, Frames
<1>2. Calls(th, Offer(g, q, bs, "start"), frames[th])
  BY DEF Start
<1>3. bs \in Seq(Buffers)
  BY <1>1, QueueIs DEF QueueType
<1>4. /\ AllLoose(audio, h)
      /\ Synced(audio, q) => Synced(h, q)
  <2>1. others \in SUBSET Queues /\ q \in Queues \ others
    OBVIOUS
  <2> HIDE DEF others
  <2>2. /\ AllLoose(audio, h)
        /\ \A r \in Queues \ others : Synced(audio, r) => Synced(h, r)
    BY <1>1, <2>1, AllStoppedLoose
  <2>3. QED
    BY <2>1, <2>2
<1> HIDE DEF h, bs
<1>5. AudioOK(h)
  BY <1>4 DEF AllLoose
<1>6. /\ Q \in QueueType
      /\ Q.buffers = h.queue[q].buffers /\ Q.buffer_queue = h.queue[q].buffer_queue
      /\ Q.al_source = h.queue[q].al_source /\ (h.queue[q].live => Q.live)
  BY <1>5, QueueIs DEF QueueType
<1> HIDE DEF Q
<1>7. /\ Sure(h, g, q)
      /\ Unplayed(h, q) => Unplayed(g, q)
  BY <1>5, <1>6, FlagsChange
<1> HIDE DEF g
<1>8. AudioOK(g)
  BY <1>7 DEF Sure
<1>9. Loosely(audio, Offer(g, q, bs, "start"))
  <2> SUFFICES ASSUME NEW o \in Offer(g, q, bs, "start")
               PROVE  AllLoose(audio, o.audio) /\ o.frame \in Seq(FrameType)
    BY DEF Loosely
  <2>1. Sure(g, o.audio, q) /\ o.frame \in Seq(FrameType)
    BY <1>3, <1>8, OfferSure
  <2>2. Sure(h, o.audio, q)
    BY <1>7, <2>1, SureOn
  <2>3. QED
    BY <1>4, <2>1, <2>2, LooseThenSure
<1>10. UNCHANGED active_output
  BY DEF Start
<1>11. QED
  BY <1>1, <1>2, <1>9, <1>10, CallsLoose

(* AudioQueuePause                                                         *)
LEMMA PauseStep ==
  ASSUME AudioInv, NEW q \in Queues, Pause(q)
  PROVE  LooseStep
<1> DEFINE Q == [audio.queue[q] EXCEPT !.is_running = "Stopped"]
           h == [audio EXCEPT !.queue[q] = Q]
           s == audio.queue[q].al_source
           al == SourcePause(h.source[s])
           g == [h EXCEPT !.source[s] = al]
<1>1. AudioOK(audio) /\ audio.queue = queue
  BY AudioIs DEF AudioInv
<1>2. Becomes(IF s = Nil THEN h ELSE g)
  <2>1. Becomes(LET k == [audio EXCEPT !.queue[q].is_running = "Stopped"]
                IN  IF s = Nil THEN k ELSE [k EXCEPT !.source[s] = SourcePause(@)])
    BY <1>1 DEF Pause
  <2>2. QED
    BY <2>1
<1>3. /\ Q \in QueueType
      /\ Q.buffers = audio.queue[q].buffers /\ Q.buffer_queue = audio.queue[q].buffer_queue
      /\ Q.al_source = audio.queue[q].al_source /\ (audio.queue[q].live => Q.live)
  BY <1>1, QueueIs DEF QueueType
<1>4. h.queue[q] = Q
  BY <1>1 DEF AudioOK, AudioType
<1> HIDE DEF Q
<1>5. /\ Sure(audio, h, q)
      /\ Unplayed(audio, q) => Unplayed(h, q)
  BY <1>1, <1>3, FlagsChange
<1> HIDE DEF h
<1>6. AudioOK(h) /\ h.queue[q].al_source = s
  BY <1>3, <1>4, <1>5 DEF Sure
<1>7. CASE s = Nil
  <2>1. AllLoose(audio, h)
    BY <1>5, SureIsAllSure, AllSureIsAllLoose
  <2>2. QED
    BY <1>2, <1>7, <2>1, BecomesLoose DEF Pause
<1>8. CASE s # Nil
  <2>1. /\ s \in Sources /\ h.source[s] \in SourceType /\ h.source[s].state # "none"
    BY <1>6, <1>8, QueueIs
  <2>2. Remains(h.source[s], al) /\ al.queued = h.source[s].queued
    BY <2>1, SourceSteps
  <2> HIDE DEF al, s
  <2>3. /\ AudioOK(g)
        /\ g.queue = h.queue /\ g.source[s] = al
        /\ \A r \in Sources \ {s} : g.source[r] = h.source[r]
        /\ \A r \in Queues : h.queue[r].al_source = s => Untouched(h, g, r)
    BY <1>6, <2>1, <2>2, SourceChange
  <2> HIDE DEF g
  <2>4. Sure(h, g, q)
    BY <1>6, <2>2, <2>3 DEF Sure, Synced
  <2>5. AllLoose(audio, g)
    BY <1>5, <2>4, SureOn, SureIsAllSure, AllSureIsAllLoose
  <2>6. QED
    BY <1>2, <1>8, <2>5, BecomesLoose DEF Pause
<1>9. QED
  BY <1>7, <1>8

(* AudioQueueStop                                                          *)
LEMMA StopStep ==
  ASSUME AudioInv, NEW q \in Queues, Stop(q)
  PROVE  LooseStep
<1>1. AllLoose(audio, Stopped(audio, q))
  BY StoppedLoose, LooseIsAllLoose DEF AudioInv
<1>2. QED
  BY <1>1, BecomesLoose DEF Stop

(* AudioQueueStop, once everything has been played.                        *)
LEMMA StopLaterStep ==
  ASSUME AudioInv, NEW q \in Queues, StopLater(q)
  PROVE  LooseStep
<1> DEFINE Q == [audio.queue[q] EXCEPT !.is_running = "Stopping"]
           g == [audio EXCEPT !.queue[q] = Q]
<1>1. AudioOK(audio) /\ audio.queue = queue /\ audio.source = source
  BY AudioIs DEF AudioInv
<1>2. Becomes(g)
  BY <1>1 DEF StopLater, Becomes, AudioOK, AudioType
<1>3. /\ Q \in QueueType
      /\ Q.buffers = audio.queue[q].buffers /\ Q.buffer_queue = audio.queue[q].buffer_queue
      /\ Q.al_source = audio.queue[q].al_source /\ (audio.queue[q].live => Q.live)
  BY <1>1, QueueIs DEF QueueType
<1> HIDE DEF Q
<1>4. /\ Sure(audio, g, q)
      /\ Unplayed(audio, q) => Unplayed(g, q)
  BY <1>1, <1>3, FlagsChange
<1>5. AllLoose(audio, g)
  BY <1>4, SureIsAllSure, AllSureIsAllLoose
<1> HIDE DEF g
<1>6. QED
  BY <1>2, <1>5, BecomesLoose DEF StopLater

(* AudioQueueReset and AudioQueueFlush                                     *)
LEMMA FlushStep ==
  ASSUME AudioInv, NEW q \in Queues, Flush(q)
  PROVE  LooseStep
<1>1. AllLoose(audio, Reset(audio, q))
  BY ResetLoose, LooseIsAllLoose DEF AudioInv
<1>2. QED
  BY <1>1, BecomesLoose DEF Flush

(* AudioQueueDispose                                                       *)
LEMMA DisposeStep ==
  ASSUME AudioInv, NEW q \in Queues, Dispose(q)
  PROVE  LooseStep
<1> DEFINE g == [Deleted(audio, audio.queue[q].al_source) EXCEPT !.queue[q] = NoQueue]
<1>1. AudioOK(audio) /\ audio.queue = queue
  BY AudioIs DEF AudioInv
<1>2. Becomes(g)
  BY <1>1 DEF Dispose
<1>3. Sure(audio, g, q)
  BY <1>1, DisposedSure
<1> HIDE DEF g
<1>4. AllLoose(audio, g)
  BY <1>3, SureIsAllSure, AllSureIsAllLoose
<1>5. audio' = g
  BY <1>2, <1>4, BecomesIs DEF AllLoose, AudioOK
<1>6. active_output' \in Queues \cup {Nil} /\ frames' \in Frames
  BY DEF Dispose, AudioInv
<1>7. QED
  BY <1>4, <1>5, <1>6 DEF LooseStep

(* The mixer.                                                              *)
LEMMA MixStep ==
  ASSUME AudioInv, NEW s \in Sources, Mix(s)
  PROVE  LooseStep
<1> DEFINE al == Mixed(source[s])
           h == audio
           g == [h EXCEPT !.source[s] = al]
<1>1. AudioOK(h) /\ h.queue = queue /\ h.source = source
  BY AudioIs DEF AudioInv
<1>2. source[s] \in SourceType /\ source[s].state = "playing"
  BY <1>1 DEF Mix, AudioOK, AudioType
<1>3. Remains(source[s], al) /\ al.queued = source[s].queued
  BY <1>2, MixedIs
<1>4. source' = [source EXCEPT ![s] = al] /\ queue' = queue
  BY DEF Mix
<1> HIDE DEF al
<1>5. Becomes(g)
  BY <1>1, <1>4 DEF Becomes, AudioOK, AudioType
<1>6. h.source[s].state # "none" /\ Remains(h.source[s], al)
  BY <1>1, <1>2, <1>3
<1> HIDE DEF h
<1>7. /\ AudioOK(g)
      /\ g.queue = h.queue /\ g.source[s] = al
      /\ \A r \in Sources \ {s} : g.source[r] = h.source[r]
      /\ \A q \in Queues : h.queue[q].al_source = s => Untouched(h, g, q)
  BY <1>1, <1>6, SourceChange
<1> HIDE DEF g
<1>8. \A r \in Sources : g.source[r].queued = h.source[r].queued
  BY <1>1, <1>3, <1>7
<1>9. \A q \in Queues : h.queue[q].al_source \in Sources \cup {Nil}
  BY <1>1 DEF AudioOK, AudioType, QueueType
<1>10. AllSure(h, g)
  BY <1>7, <1>8, <1>9 DEF AllSure, Synced
<1>11. AllLoose(audio, g)
  BY <1>10, AllSureIsAllLoose DEF h
<1>12. QED
  BY <1>5, <1>11, BecomesLoose DEF Mix

(* handle_audio_queue                                                      *)
LEMMA HandleStep ==
  ASSUME AudioInv, NEW th \in Threads, NEW q \in Queues, Handle(th, q)
  PROVE  LooseStep
<1>1. AudioOK(audio) /\ audio.queue = queue /\ frames[th] \in Seq(FrameType)
  BY AudioIs DEF AudioInv, Frames
<1>2. queue[q].buffers \in Seq(Buffers)
  BY <1>1, QueueIs DEF QueueType
<1>3. PICK h \in IF queue[q].is_running = "Running" /\ queue[q].al_source = Nil
                 THEN Primed(audio, q) ELSE {audio} :
        Calls(th, IF queue[q].is_running = "Running" /\ queue[q].buffer_queue = << >>
                  THEN Offer(h, q, queue[q].buffers, "handle")
                  ELSE Handler(h, q), frames[th])
  BY DEF Handle
<1>4. Sure(audio, h, q)
  <2>1. CASE h \in Primed(audio, q)
    BY <1>1, <2>1, PrimedSure
  <2>2. CASE h = audio
    BY <1>1, <2>2, SureSame
  <2>3. QED
    BY <1>3, <2>1, <2>2
<1>5. AllSure(audio, h) /\ AudioOK(h)
  BY <1>4, SureIsAllSure DEF Sure
<1>6. /\ Loosely(h, Offer(h, q, queue[q].buffers, "handle"))
      /\ Loosely(h, Handler(h, q))
  BY <1>2, <1>5, OfferLoose, HandlerLoose
<1>7. /\ Loosely(audio, Offer(h, q, queue[q].buffers, "handle"))
      /\ Loosely(audio, Handler(h, q))
  BY <1>5, <1>6, SureThenLoosely
<1>8. UNCHANGED active_output
  BY DEF Handle
<1>9. CASE queue[q].is_running = "Running" /\ queue[q].buffer_queue = << >>
  <2>1. Calls(th, Offer(h, q, queue[q].buffers, "handle"), frames[th])
    BY <1>3, <1>9
  <2>2. QED
    BY <1>1, <1>7, <1>8, <2>1, CallsLoose
<1>10. CASE ~ (queue[q].is_running = "Running" /\ queue[q].buffer_queue = << >>)
  <2>1. Calls(th, Handler(h, q), frames[th])
    BY <1>3, <1>10
  <2>2. QED
    BY <1>1, <1>7, <1>8, <2>1, CallsLoose
<1>11. QED
  BY <1>9, <1>10

(* The guest returns: what the frame has kept may be out of date.          *)
LEMMA CallbackReturnsStep ==
  ASSUME AudioInv, NEW th \in Threads, CallbackReturns(th)
  PROVE  LooseStep
<1> DEFINE f == Head(frames[th])
           q == f.queue
           b == Head(f.buffers)
           rest == Tail(f.buffers)
           below == Tail(frames[th])
<1>1. AudioOK(audio) /\ frames[th] \in Seq(FrameType) /\ frames[th] # << >>
  BY DEF AudioInv, Frames, CallbackReturns
<1>2. f \in FrameType /\ below \in Seq(FrameType)
  BY <1>1
<1>3. UNCHANGED active_output
  BY DEF CallbackReturns
<1>4. IF f.kind = "handle"
      THEN Calls(th, GiveBack(audio, q, rest, f.was, f.al_source), below)
      ELSE \E h \in Offered(audio, q, b) : Calls(th, Offer(h, q, rest, f.caller), below)
  BY DEF CallbackReturns
<1> HIDE DEF f, below
<1>5. q \in Queues /\ f.buffers \in Seq(Buffers) /\ f.buffers # << >>
  BY <1>2 DEF FrameType
<1>7. CASE f.kind = "handle" /\ rest \in Seq(Buffers)
  <2>1. f.was \in {"Running", "Stopping", "Stopped"} /\ f.al_source \in Sources
    BY <1>2, <1>7 DEF FrameType
  <2> HIDE DEF rest, q
  <2>2. Loosely(audio, GiveBack(audio, q, rest, f.was, f.al_source))
    BY <1>1, <1>5, <1>7, <2>1, GiveBackLoose
  <2>3. Calls(th, GiveBack(audio, q, rest, f.was, f.al_source), below)
    BY <1>4, <1>7
  <2>4. QED
    BY <1>2, <1>3, <2>2, <2>3, CallsLoose
<1>8. CASE f.kind # "handle" /\ rest \in Seq(Buffers)
  <2>1. f.caller \in {"start", "handle"}
    BY <1>2, <1>8 DEF FrameType
  <2> HIDE DEF rest, q, b
  <2>2. PICK h \in Offered(audio, q, b) : Calls(th, Offer(h, q, rest, f.caller), below)
    BY <1>4, <1>8
  <2>3. Sure(audio, h, q)
    <3>1. CASE h = audio
      BY <1>1, <1>5, <3>1, SureSame
    <3>2. CASE IsOut(audio, q, b) /\ h = Enqueued(audio, q, b)
      BY <1>1, <1>5, <3>2, EnqueuedSure
    <3>3. QED
      BY <2>2, <3>1, <3>2 DEF Offered
  <2>4. AllSure(audio, h) /\ AudioOK(h)
    BY <1>5, <2>3, SureIsAllSure DEF Sure
  <2>5. Loosely(h, Offer(h, q, rest, f.caller))
    BY <1>5, <1>8, <2>1, <2>4, OfferLoose
  <2>6. Loosely(audio, Offer(h, q, rest, f.caller))
    BY <2>4, <2>5, SureThenLoosely
  <2>7. QED
    BY <1>2, <1>3, <2>2, <2>6, CallsLoose
<1>9. rest \in Seq(Buffers)
  BY <1>5
<1>10. QED
  BY <1>7, <1>8, <1>9

-----------------------------------------------------------------------------
(* The theorems.                                                           *)

(* At first there are no queues, and all sources are free.                 *)
LEMMA InitAudio == Init => AudioInv
<1> SUFFICES ASSUME Init PROVE AudioInv
  OBVIOUS
<1> DEFINE h == audio
<1>1. /\ h = [queue |-> queue, source |-> source]
      /\ h.queue = queue /\ h.source = source
  BY DEF audio
<1>2. /\ NoQueue \in QueueType /\ NoQueue.al_source = Nil /\ NoQueue.buffer_queue = << >>
  <2>1. << >> \in Seq(Buffers)
    OBVIOUS
  <2>2. QED
    BY <2>1 DEF NoQueue, QueueType
<1>3. /\ NoSource \in SourceType /\ NoSource.state = "none" /\ NoSource.queued = << >>
  <2>1. << >> \in Seq(Buffers)
    OBVIOUS
  <2>2. QED
    BY <2>1 DEF NoSource, SourceType
<1>4. /\ \A q \in Queues : h.queue[q] = NoQueue
      /\ \A s \in Sources : h.source[s] = NoSource
  BY <1>1 DEF Init
<1>5. h \in AudioType
  BY <1>1, <1>2, <1>3 DEF Init, AudioType
<1> HIDE DEF h
<1>6. Once(NoQueue)
  BY <1>2, EmptyOnce
<1>7. Owned(h)
  BY <1>2, <1>3, <1>4 DEF Owned
<1>8. AudioOK(h)
  BY <1>4, <1>5, <1>6, <1>7 DEF AudioOK
<1>9. frames \in Frames
  <2>1. << >> \in Seq(FrameType)
    OBVIOUS
  <2>2. QED
    BY <2>1 DEF Init, Frames
<1>10. active_output \in Queues \cup {Nil}
  BY DEF Init
<1>11. QED
  BY <1>8, <1>9, <1>10 DEF AudioInv, h

(* Each action is a loose step.                                            *)
LEMMA NextStep ==
  ASSUME AudioInv, Next
  PROVE  LooseStep
<1>1. ASSUME NEW q \in Queues, NEW l \in Loops, NewOutput(q, l) PROVE LooseStep
  BY <1>1, NewOutputStep
<1>2. ASSUME NEW l \in Loops, NewOutputReused(l) PROVE LooseStep
  BY <1>2, NewOutputReusedStep
<1>3. ASSUME NEW q \in Queues, NEW b \in Buffers, AllocateBuffer(q, b) PROVE LooseStep
  BY <1>3, AllocateBufferStep
<1>4. ASSUME NEW q \in Queues, NEW b \in Buffers, EnqueueBuffer(q, b) PROVE LooseStep
  BY <1>4, EnqueueBufferStep
<1>5. ASSUME NEW q \in Queues, NEW b \in Buffers, FreeBuffer(q, b) PROVE LooseStep
  BY <1>5, FreeBufferStep
<1>6. ASSUME NEW q \in Queues, AudioQueuePrime(q) PROVE LooseStep
  BY <1>6, AudioQueuePrimeStep
<1>7. ASSUME NEW q \in Queues, NEW th \in Threads, Start(th, q) PROVE LooseStep
  BY <1>7, StartStep
<1>8. ASSUME NEW q \in Queues, Pause(q) PROVE LooseStep
  BY <1>8, PauseStep
<1>9. ASSUME NEW q \in Queues, Stop(q) PROVE LooseStep
  BY <1>9, StopStep
<1>10. ASSUME NEW q \in Queues, StopLater(q) PROVE LooseStep
  BY <1>10, StopLaterStep
<1>11. ASSUME NEW q \in Queues, Flush(q) PROVE LooseStep
  BY <1>11, FlushStep
<1>12. ASSUME NEW q \in Queues, Dispose(q) PROVE LooseStep
  BY <1>12, DisposeStep
<1>13. ASSUME NEW th \in Threads, CallbackReturns(th) PROVE LooseStep
  BY <1>13, CallbackReturnsStep
<1>14. ASSUME NEW th \in Threads, NEW q \in Queues, Handle(th, q) PROVE LooseStep
  BY <1>14, HandleStep
<1>15. ASSUME NEW s \in Sources, Mix(s) PROVE LooseStep
  BY <1>15, MixStep
<1>16. QED
  BY <1>1, <1>2, <1>3, <1>4, <1>5, <1>6, <1>7, <1>8, <1>9, <1>10, <1>11, <1>12,
     <1>13, <1>14, <1>15 DEF Next, GuestCall

(* Each step, or none, is a loose step.                                    *)
LEMMA AudioStep ==
  ASSUME AudioInv, [Next]_vars
  PROVE  LooseStep
<1>1. CASE Next
  BY <1>1, NextStep
<1>2. CASE UNCHANGED vars
  <2>1. audio' = audio
    BY <1>2 DEF vars, audio
  <2>2. AllLoose(audio, audio)
    BY DEF AudioInv, AllLoose
  <2>3. QED
    BY <1>2, <2>1, <2>2 DEF vars, LooseStep, AudioInv
<1>3. QED
  BY <1>1, <1>2

(* In every state, whatever the guest does in its callbacks, on however    *)
(* many threads, the queues, sources and frames have their types, each     *)
(* allocated source has one owner, which exists, and no queue holds a      *)
(* buffer twice, or one that is not its own.                               *)
THEOREM AudioInvariance == Spec => []AudioInv
<1>1. AudioInv /\ [Next]_vars => AudioInv'
  BY AudioStep DEF AudioInv, LooseStep, AllLoose
<1>2. QED
  BY InitAudio, <1>1, PTL DEF Spec

(* A buffer is enqueued once, and is not freed while it is.                *)
THEOREM BuffersQueuedOnce == Spec => []QueuedOnce
<1>1. AudioInv => QueuedOnce
  BY AudioIs DEF AudioInv, AudioOK, Once, QueuedOnce
<1>2. QED
  BY AudioInvariance, <1>1, PTL

(* OpenAL's sources are those of the queues: none leaks, none is shared.   *)
THEOREM NoSourceLeaks == Spec => []SourcesOwned
<1>1. AudioInv => SourcesOwned
  <2> SUFFICES ASSUME AudioInv, NEW s \in Sources
               PROVE  Cardinality({q \in Queues : queue[q].al_source = s})
                        = IF source[s].state = "none" THEN 0 ELSE 1
    BY DEF SourcesOwned
  <2> DEFINE owners == {q \in Queues : queue[q].al_source = s}
  <2>1. Owned(audio) /\ audio.queue = queue /\ audio.source = source
    BY AudioIs DEF AudioInv, AudioOK
  <2>2. s # Nil
    BY AudioQueueAssumption
  <2>3. CASE source[s].state = "none"
    <3>1. owners = {}
      BY <2>1, <2>2, <2>3 DEF Owned
    <3>2. QED
      BY <2>3, <3>1, FS_EmptySet
  <2>4. CASE source[s].state # "none"
    <3>1. PICK q \in Queues : queue[q].al_source = s
      BY <2>1, <2>4 DEF Owned
    <3>2. owners = {q}
      BY <2>1, <2>2, <3>1 DEF Owned
    <3>3. Cardinality({q}) = 1
      BY FS_Singleton
    <3>4. QED
      BY <2>4, <3>2, <3>3
  <2>5. QED
    BY <2>3, <2>4
<1>2. QED
  BY AudioInvariance, <1>1, PTL

(* "the nth item in this queue must also be the nth item in the OpenAL     *)
(* queue": a step that ends this leaves a source that has buffers but was  *)
(* never played.                                                           *)
THEOREM QueuesStayInSync == Spec => SyncKept
<1>1. AudioInv /\ [Next]_vars => [\A q \in Queues : InSync(q) => InSync(q)' \/ NeverPlayed(q)']_vars
  <2> SUFFICES ASSUME AudioInv, [Next]_vars, NEW q \in Queues, InSync(q)
               PROVE  InSync(q)' \/ NeverPlayed(q)'
    OBVIOUS
  <2>1. AllLoose(audio, audio')
    BY AudioStep DEF LooseStep
  <2>2. InSync(q) <=> Synced(audio, q)
    BY AudioIs DEF InSync, Synced
  <2>3. InSync(q)' <=> Synced(audio', q)
    BY AudioIs DEF InSync, Synced
  <2>4. NeverPlayed(q)' <=> Unplayed(audio', q)
    BY AudioIs DEF NeverPlayed, Unplayed
  <2>5. QED
    BY <2>1, <2>2, <2>3, <2>4 DEF AllLoose
<1>2. QED
  BY AudioInvariance, <1>1, PTL DEF Spec, SyncKept
=============================================================================
