---------------------------- MODULE WriteQueueProofs ----------------------------
(***************************************************************************)
(* Proofs about WriteQueue, for any number of threads and requests.        *)
(***************************************************************************)
EXTENDS WriteQueue, SequenceTheorems, TLAPS

\* One handler runs at a time.
OneHandler == \A t, u \in Threads : pc[t] # "idle" /\ pc[u] # "idle" => t = u

\* A write under way is the only one, of the front of the queue, and nobody starts another
\* before it was popped; unless the connection broke, what is queued is going to be written.
WriteSound ==
    /\ ~mixed /\ done \in {0, 1}
    /\ \A r \in Requests : flight[r] > 0 =>
          flight[r] = 1 /\ queue # <<>> /\ Head(queue) = r /\ done = 0
    /\ \A t \in Threads : pc[t] \in {"first", "pop", "start"} =>
          done = 0 /\ \A r \in Requests : flight[r] = 0
    /\ \A t \in Threads : /\ pc[t] = "first" => queue = <<>>
                          /\ pc[t] \in {"behind", "pop"} => queue # <<>>
    /\ done = 1 => queue # <<>>
    /\ ~broken => ~Mute

\* Whether the front of the queue is written already, and whether a request left posts and
\* is not in the queue yet.
Written == IF done = 1 \/ \E t \in Threads : pc[t] = "pop" THEN 1 ELSE 0
InHand == IF \E t \in Threads : pc[t] \in {"first", "behind"} THEN 1 ELSE 0

\* s is the part of p behind the first k elements.
Segment(p, s, k) ==
    /\ k \in Nat /\ k + Len(s) <= Len(p)
    /\ \A i \in 1 .. Len(s) : s[i] = p[k + i]

\* How many requests were in the queue and are not any more, and how many were at all.
Popped == Len(wire) - Written
Taken == Popped + Len(queue)

\* What was posted is what is on the wire, in the queue, in hand and in posts, in this order.
OrderSound ==
    /\ Segment(posted, wire, 0)
    /\ Segment(posted, queue, Popped)
    /\ Segment(posted, posts, Taken + InHand)
    /\ Taken + InHand + Len(posts) = Len(posted)
    /\ \A t \in Threads : pc[t] \in {"first", "behind"} => req[t] = posted[Taken + 1]

QueueInv ==
    /\ TypeOK
    /\ ~overlapped => OneHandler /\ WriteSound /\ OrderSound

-----------------------------------------------------------------------------
(* Parts of a sequence.                                                    *)

LEMMA SegmentGrows ==
    ASSUME NEW S, NEW p \in Seq(S), NEW s \in Seq(S), NEW k, Segment(p, s, k),
           NEW x \in S, k + Len(s) < Len(p), x = p[k + Len(s) + 1]
    PROVE  Segment(p, Append(s, x), k) /\ Len(Append(s, x)) = Len(s) + 1
<1>1. /\ Len(s) \in Nat /\ Len(p) \in Nat /\ Len(Append(s, x)) = Len(s) + 1
      /\ \A i \in 1 .. Len(s) : Append(s, x)[i] = s[i]
      /\ Append(s, x)[Len(s) + 1] = x
  BY AppendProperties
<1>2. QED
  BY <1>1 DEF Segment

LEMMA SegmentShrinks ==
    ASSUME NEW S, NEW p \in Seq(S), NEW s \in Seq(S), NEW k, Segment(p, s, k), s # <<>>
    PROVE  /\ Segment(p, Tail(s), k + 1) /\ Len(Tail(s)) = Len(s) - 1
           /\ Head(s) = p[k + 1] /\ k + 1 <= Len(p) /\ Head(s) \in S
<1>1. /\ Len(s) \in Nat /\ Len(s) >= 1 /\ Len(p) \in Nat /\ Len(Tail(s)) = Len(s) - 1
      /\ \A i \in 1 .. Len(Tail(s)) : Tail(s)[i] = s[i + 1]
      /\ Head(s) = s[1] /\ Head(s) \in S
  BY HeadTailProperties, EmptySeq
<1>2. QED
  BY <1>1 DEF Segment

LEMMA SegmentOfMore ==
    ASSUME NEW S, NEW p \in Seq(S), NEW s \in Seq(S), NEW k, Segment(p, s, k), NEW x \in S
    PROVE  Segment(Append(p, x), s, k)
<1>1. /\ Len(s) \in Nat /\ Len(p) \in Nat /\ Len(Append(p, x)) = Len(p) + 1
      /\ \A i \in 1 .. Len(p) : Append(p, x)[i] = p[i]
  BY AppendProperties
<1>2. QED
  BY <1>1 DEF Segment

\* The sequences, as sequences over one set.
LEMMA LinesTyped ==
    TypeOK => /\ {posted, wire, queue, posts} \subseteq Seq(Requests \cup {Garbage})
              /\ Len(posted) \in Nat /\ Len(wire) \in Nat
              /\ Len(queue) \in Nat /\ Len(posts) \in Nat
              /\ Written \in {0, 1} /\ InHand \in {0, 1}
BY SeqMonotonic DEF TypeOK, Written, InHand

-----------------------------------------------------------------------------
(* The types.                                                              *)

LEMMA ChangeTyped ==
    ASSUME TypeOK, NEW t \in Threads, NEW q \in Seq(Requests), NEW p \in Places,
           p \in {"first", "behind"} => req[t] \in Requests,
           Change(t, q, p)
    PROVE  /\ queue' \in Seq(Requests) /\ pc' \in [Threads -> Places]
           /\ alive' \in BOOLEAN /\ races' \in 0 .. MaxRaces
           /\ \A u \in Threads : pc'[u] \in {"first", "behind"} => req[u] \in Requests
<1>1. CASE queue' = q /\ Goto(t, p) /\ UNCHANGED <<alive, races>>
  BY <1>1 DEF TypeOK, Goto
<1>2. CASE Races(t) /\ races < MaxRaces /\ races' = races + 1 /\ Goto(t, p)
           /\ UNCHANGED <<queue, alive>>
  BY <1>2, QueueAssumption DEF TypeOK, Goto
<1>3. CASE Races(t) /\ alive' = FALSE /\ UNCHANGED <<queue, pc, races>>
  BY <1>3 DEF TypeOK
<1>4. QED
  BY <1>1, <1>2, <1>3 DEF Change

LEMMA TypePreserved == TypeOK /\ [Next]_vars => TypeOK'
<1> SUFFICES ASSUME TypeOK, [Next]_vars PROVE TypeOK'
  OBVIOUS
<1>1. ASSUME NEW r \in Requests, Post(r) PROVE TypeOK'
  BY <1>1 DEF Post, TypeOK, io
<1>2. ASSUME NEW t \in Threads, Take(t) PROVE TypeOK'
  <2>1. Head(posts) \in Requests /\ Tail(posts) \in Seq(Requests)
    BY <1>2, HeadTailProperties DEF Take, TypeOK
  <2>2. QED
    BY <1>2, <2>1 DEF Take, Begin, Goto, TypeOK, Places, io
<1>3. ASSUME NEW t \in Threads, Push(t) PROVE TypeOK'
  <2>1. Append(queue, req[t]) \in Seq(Requests)
    BY <1>3 DEF Push, TypeOK
  <2>2. QED
    BY <1>3, <2>1, ChangeTyped DEF Push, TypeOK, Places, io
<1>4. ASSUME NEW t \in Threads, Start(t) PROVE TypeOK'
  <2>1. pc' \in [Threads -> Places] /\ \A u \in Threads : pc'[u] \in {pc[u], "idle"}
    BY <1>4 DEF Start, Goto, TypeOK, Places
  <2>2. CASE queue = <<>>
    BY <1>4, <2>1, <2>2 DEF Start, TypeOK
  <2>3. CASE queue # <<>>
    <3>1. /\ flight' = [flight EXCEPT ![Head(queue)] = @ + 1]
          /\ mixed' = \E r \in Requests : flight[r] > 0
      BY <1>4, <2>3 DEF Start
    <3>2. flight' \in [Requests -> Nat]
      <4>1. Head(queue) \in Requests /\ flight \in [Requests -> Nat]
        BY <2>3, HeadTailProperties DEF TypeOK
      <4>2. QED
        BY <3>1, <4>1
    <3>3. mixed' \in BOOLEAN
      BY <3>1, Zenon
    <3>4. QED
      BY <1>4, <2>1, <3>2, <3>3 DEF Start, TypeOK
  <2>4. QED
    BY <2>2, <2>3
<1>5. ASSUME NEW t \in Threads, TakeDone(t) PROVE TypeOK'
  BY <1>5 DEF TakeDone, Begin, Goto, TypeOK, Places
<1>6. ASSUME NEW t \in Threads, Pop(t) PROVE TypeOK'
  <2>1. CASE queue # <<>>
    <3>1. Tail(queue) \in Seq(Requests)
      BY <2>1 DEF TypeOK
    <3>2. QED
      BY <1>6, <2>1, <3>1, ChangeTyped DEF Pop, TypeOK, Places, io
  <2>2. CASE queue = <<>>
    BY <1>6, <2>2 DEF Pop, TypeOK, io
  <2>3. QED
    BY <2>1, <2>2
<1>7. ASSUME NEW r \in Requests, Complete(r) PROVE TypeOK'
  BY <1>7 DEF Complete, TypeOK
<1>8. ASSUME NEW r \in Requests, Fail(r) PROVE TypeOK'
  BY <1>8 DEF Fail, TypeOK
<1>9. CASE Break
  BY <1>9 DEF Break, TypeOK
<1>10. CASE UNCHANGED vars
  BY <1>10 DEF vars, io, TypeOK
<1>11. QED
  BY <1>1, <1>2, <1>3, <1>4, <1>5, <1>6, <1>7, <1>8, <1>9, <1>10
     DEF Next, ThreadStep, WriteStep

-----------------------------------------------------------------------------
(* The steps, as long as handlers do not overlap.                          *)

Sound == OneHandler /\ WriteSound /\ OrderSound

\* A thread that is about to change the queue is the only one.
LEMMA NoRace ==
    ASSUME OneHandler, NEW t \in Threads, pc[t] # "idle", NEW q, NEW p, Change(t, q, p)
    PROVE  queue' = q /\ Goto(t, p) /\ UNCHANGED <<alive, races>>
BY DEF OneHandler, Change, Races

LEMMA PostKeeps ==
    ASSUME TypeOK, Sound, NEW r \in Requests, Post(r)
    PROVE  Sound'
<1>0. /\ posted' = Append(posted, r) /\ posts' = Append(posts, r)
      /\ UNCHANGED <<queue, pc, req, flight, mixed, done, wire, broken>>
  BY DEF Post, io
<1>1. OneHandler' /\ WriteSound'
  BY <1>0 DEF Sound, OneHandler, WriteSound, Mute
<1>2. Written' = Written /\ InHand' = InHand /\ Written \in {0, 1} /\ InHand \in {0, 1}
  BY <1>0 DEF Written, InHand
<1>3. OrderSound'
  <2>0. /\ Segment(posted, wire, 0) /\ Segment(posted, queue, Popped)
        /\ Segment(posted, posts, Taken + InHand) /\ Taken + InHand + Len(posts) = Len(posted)
        /\ Popped' = Popped /\ Taken' = Taken
    BY <1>0, <1>2 DEF Sound, OrderSound, Popped, Taken
  <2>1. /\ Segment(posted', wire, 0) /\ Segment(posted', queue, Popped)
        /\ Segment(posted', posts, Taken + InHand)
    BY <1>0, <2>0, LinesTyped, SegmentOfMore
  <2>2. Len(posted') = Len(posted) + 1 /\ posted'[Len(posted) + 1] = r
        /\ \A i \in 1 .. Len(posted) : posted'[i] = posted[i]
    BY <1>0, AppendProperties DEF TypeOK
  <2>3. posted' \in Seq(Requests \cup {Garbage})
    BY <1>0, LinesTyped, AppendProperties
  <2>4. Segment(posted', posts', Taken + InHand) /\ Len(posts') = Len(posts) + 1
    <3>1. /\ posts \in Seq(Requests \cup {Garbage}) /\ r \in Requests \cup {Garbage}
          /\ Taken + InHand + Len(posts) < Len(posted')
          /\ r = posted'[Taken + InHand + Len(posts) + 1]
      BY <2>0, <2>2, LinesTyped
    <3>2. QED
      BY <1>0, <2>1, <2>3, <3>1, SegmentGrows
  <2>5. ASSUME NEW t \in Threads, pc[t] \in {"first", "behind"}
        PROVE  req[t] = posted'[Taken + 1]
    <3>1. InHand = 1 /\ req[t] = posted[Taken + 1]
      BY <2>5 DEF Sound, OrderSound, InHand
    <3>2. Taken + 1 \in 1 .. Len(posted)
      BY <2>0, <3>1, LinesTyped DEF Taken, Popped, Segment
    <3>3. QED
      BY <2>2, <3>1, <3>2
  <2>6. Taken + InHand + Len(posts') = Len(posted')
    <3>1. Taken + InHand \in Int /\ Len(posts) \in Nat
      BY LinesTyped DEF Taken, Popped
    <3>2. QED
      BY <2>0, <2>2, <2>4, <3>1
  <2>7. QED
    BY <1>0, <1>2, <2>0, <2>1, <2>4, <2>5, <2>6 DEF OrderSound
<1>4. QED
  BY <1>1, <1>3 DEF Sound

\* A handler that begins alone.
LEMMA BeginsAlone ==
    ASSUME NEW t \in Threads, NEW p, Begin(t, p), ~overlapped'
    PROVE  ~overlapped /\ Goto(t, p) /\ \A u \in Threads : pc[u] = "idle"
BY Zenon DEF Begin

LEMMA TakeKeeps ==
    ASSUME TypeOK, Sound, NEW t \in Threads, Take(t), ~overlapped'
    PROVE  Sound'
<1> DEFINE p == IF queue = <<>> THEN "first" ELSE "behind"
<1>0. /\ \A u \in Threads : pc[u] = "idle"
      /\ posts # <<>> /\ pc' = [pc EXCEPT ![t] = p]
      /\ req' = [req EXCEPT ![t] = Head(posts)] /\ posts' = Tail(posts)
      /\ UNCHANGED <<posted, queue, flight, mixed, done, wire, broken>>
      /\ pc \in [Threads -> Places] /\ req \in [Threads -> Requests \cup {NoRequest}]
  BY BeginsAlone DEF Take, Goto, io, TypeOK
<1>1. \A u \in Threads : pc'[u] = (IF u = t THEN p ELSE "idle")
  BY <1>0
<1>2. OneHandler'
  BY <1>1 DEF OneHandler
<1>3. WriteSound'
  BY <1>0, <1>1 DEF Sound, WriteSound, Mute, TypeOK
<1>4. Written' = Written /\ InHand = 0 /\ InHand' = 1
  BY <1>0, <1>1 DEF Written, InHand
<1>5. OrderSound'
  <2>0. /\ Segment(posted, wire, 0) /\ Segment(posted, queue, Popped)
        /\ Segment(posted, posts, Taken) /\ Taken + Len(posts) = Len(posted)
        /\ Popped' = Popped /\ Taken' = Taken /\ Taken \in Int
    BY <1>0, <1>4, LinesTyped DEF Sound, OrderSound, Popped, Taken
  <2>1. /\ Segment(posted, posts', Taken + 1) /\ Len(posts') = Len(posts) - 1
        /\ Head(posts) = posted[Taken + 1]
    BY <1>0, <2>0, LinesTyped, SegmentShrinks
  <2>2. \A u \in Threads : pc'[u] \in {"first", "behind"} => req'[u] = posted[Taken + 1]
    BY <1>0, <1>1, <2>1
  <2>3. Taken + 1 + Len(posts') = Len(posted)
    <3>1. Len(posts) \in Nat
      BY LinesTyped
    <3>2. QED
      BY <2>0, <2>1, <3>1
  <2>4. QED
    BY <1>0, <1>4, <2>0, <2>1, <2>2, <2>3 DEF OrderSound
<1>6. QED
  BY <1>2, <1>3, <1>5 DEF Sound

LEMMA PushKeeps ==
    ASSUME TypeOK, Sound, NEW t \in Threads, Push(t)
    PROVE  Sound'
<1> DEFINE p == IF pc[t] = "first" THEN "start" ELSE "idle"
<1>0. /\ pc[t] \in {"first", "behind"}
      /\ queue' = Append(queue, req[t]) /\ pc' = [pc EXCEPT ![t] = p]
      /\ req[t] \in Requests
      /\ UNCHANGED <<posted, posts, req, flight, mixed, done, wire, broken>>
      /\ pc \in [Threads -> Places]
  BY NoRace DEF Push, Sound, Goto, io, TypeOK
<1>1. \A u \in Threads : pc'[u] = (IF u = t THEN p ELSE "idle")
                         /\ (u # t => pc[u] = "idle")
  BY <1>0 DEF Sound, OneHandler
<1>2. OneHandler'
  BY <1>1 DEF OneHandler
<1>3. WriteSound'
  BY <1>0, <1>1 DEF Sound, WriteSound, Mute, TypeOK
<1>4. Written' = Written /\ InHand = 1 /\ InHand' = 0
  BY <1>0, <1>1 DEF Written, InHand
<1>5. OrderSound'
  <2>0. /\ Segment(posted, wire, 0) /\ Segment(posted, queue, Popped)
        /\ Segment(posted, posts, Taken + 1) /\ Taken + 1 + Len(posts) = Len(posted)
        /\ req[t] = posted[Taken + 1] /\ Taken = Popped + Len(queue) /\ Popped \in Int
        /\ Popped' = Popped /\ Taken' = Popped + Len(queue')
    BY <1>0, <1>4, LinesTyped DEF Sound, OrderSound, Popped, Taken
  <2>1. /\ req[t] \in Requests \cup {Garbage} /\ Popped + Len(queue) < Len(posted)
        /\ req[t] = posted[Popped + Len(queue) + 1]
    BY <1>0, <2>0, LinesTyped
  <2>2. Segment(posted, queue', Popped) /\ Len(queue') = Len(queue) + 1
    BY <1>0, <2>0, <2>1, LinesTyped, SegmentGrows
  <2>3. Taken' = Taken + 1 /\ Taken' \in Int
    <3>1. Len(queue) \in Nat
      BY LinesTyped
    <3>2. QED
      BY <2>0, <2>2, <3>1
  <2>4. /\ Segment(posted, posts, Taken' + 0) /\ Taken' + 0 + Len(posts) = Len(posted)
    BY <2>0, <2>3, LinesTyped
  <2>5. \A u \in Threads : pc'[u] \notin {"first", "behind"}
    BY <1>1
  <2>6. QED
    BY <1>0, <1>4, <2>0, <2>2, <2>4, <2>5 DEF OrderSound
<1>6. QED
  BY <1>2, <1>3, <1>5 DEF Sound

LEMMA StartKeeps ==
    ASSUME TypeOK, Sound, NEW t \in Threads, Start(t)
    PROVE  Sound'
<1>0. /\ pc[t] = "start" /\ pc' = [pc EXCEPT ![t] = "idle"]
      /\ UNCHANGED <<posted, posts, queue, req, done, wire, broken>>
      /\ pc \in [Threads -> Places]
      /\ done = 0 /\ \A r \in Requests : flight[r] = 0
  BY DEF Start, Sound, Goto, WriteSound, TypeOK
<1>1. \A u \in Threads : pc'[u] = "idle" /\ (u # t => pc[u] = "idle")
  BY <1>0 DEF Sound, OneHandler
<1>2. OneHandler'
  BY <1>1 DEF OneHandler
<1>3. WriteSound'
  <2>1. CASE queue = <<>>
    BY <1>0, <1>1, <2>1 DEF Start, Sound, WriteSound, Mute, TypeOK
  <2>2. CASE queue # <<>>
    <3>1. /\ Head(queue) \in Requests
          /\ flight' = [flight EXCEPT ![Head(queue)] = @ + 1]
          /\ mixed' = FALSE
      <4>1. Head(queue) \in Requests
        BY <2>2, HeadTailProperties DEF TypeOK
      <4>2. /\ flight' = [flight EXCEPT ![Head(queue)] = @ + 1]
            /\ mixed' = \E r \in Requests : flight[r] > 0
        BY <2>2 DEF Start
      <4>3. ~ \E r \in Requests : flight[r] > 0
        BY <1>0
      <4>4. QED
        BY <4>1, <4>2, <4>3, Zenon
    <3>2. \A r \in Requests : flight'[r] = IF r = Head(queue) THEN 1 ELSE 0
      BY <1>0, <3>1 DEF TypeOK
    <3>3. QED
      BY <1>0, <1>1, <2>2, <3>1, <3>2 DEF WriteSound, Mute
  <2>3. QED
    BY <2>1, <2>2
<1>4. Written' = 0 /\ Written = 0 /\ InHand = 0 /\ InHand' = 0
  BY <1>0, <1>1 DEF Written, InHand
<1>5. OrderSound'
  BY <1>0, <1>1, <1>4 DEF Sound, OrderSound, Popped, Taken
<1>6. QED
  BY <1>2, <1>3, <1>5 DEF Sound

LEMMA TakeDoneKeeps ==
    ASSUME TypeOK, Sound, NEW t \in Threads, TakeDone(t), ~overlapped'
    PROVE  Sound'
<1>0. /\ \A u \in Threads : pc[u] = "idle"
      /\ done = 1 /\ done' = 0 /\ pc' = [pc EXCEPT ![t] = "pop"]
      /\ UNCHANGED <<posted, posts, queue, req, flight, mixed, wire, broken>>
      /\ pc \in [Threads -> Places]
  <2>1. done = 1
    BY DEF TakeDone, TypeOK, Sound, WriteSound
  <2>2. QED
    BY <2>1, BeginsAlone DEF TakeDone, Goto, TypeOK
<1>1. \A u \in Threads : pc'[u] = (IF u = t THEN "pop" ELSE "idle")
  BY <1>0
<1>2. OneHandler'
  BY <1>1 DEF OneHandler
<1>3. \A r \in Requests : flight[r] = 0
  BY <1>0 DEF Sound, WriteSound, TypeOK
<1>4. WriteSound'
  BY <1>0, <1>1, <1>3 DEF Sound, WriteSound, Mute, TypeOK
<1>5. Written = 1 /\ Written' = 1 /\ InHand = 0 /\ InHand' = 0
  BY <1>0, <1>1 DEF Written, InHand
<1>6. OrderSound'
  BY <1>0, <1>1, <1>5 DEF Sound, OrderSound, Popped, Taken
<1>7. QED
  BY <1>2, <1>4, <1>6 DEF Sound

LEMMA PopKeeps ==
    ASSUME TypeOK, Sound, NEW t \in Threads, Pop(t)
    PROVE  Sound'
<1>0. /\ pc[t] = "pop" /\ queue # <<>>
      /\ queue' = Tail(queue) /\ pc' = [pc EXCEPT ![t] = "start"]
      /\ UNCHANGED <<posted, posts, req, flight, mixed, done, wire, broken>>
      /\ pc \in [Threads -> Places]
      /\ done = 0 /\ \A r \in Requests : flight[r] = 0
  BY NoRace DEF Pop, Sound, Goto, io, TypeOK, WriteSound
<1>1. \A u \in Threads : pc'[u] = (IF u = t THEN "start" ELSE "idle")
                         /\ (u # t => pc[u] = "idle")
  BY <1>0 DEF Sound, OneHandler
<1>2. OneHandler'
  BY <1>1 DEF OneHandler
<1>3. WriteSound'
  BY <1>0, <1>1 DEF Sound, WriteSound, Mute, TypeOK
<1>4. Written = 1 /\ Written' = 0 /\ InHand = 0 /\ InHand' = 0
  BY <1>0, <1>1 DEF Written, InHand
<1>5. OrderSound'
  <2>0. /\ Segment(posted, wire, 0) /\ Segment(posted, queue, Popped)
        /\ Segment(posted, posts, Taken + 0) /\ Taken + 0 + Len(posts) = Len(posted)
        /\ Popped = Len(wire) - 1 /\ Popped' = Len(wire)
        /\ Taken = Popped + Len(queue) /\ Taken' = Popped' + Len(queue')
    BY <1>0, <1>4 DEF Sound, OrderSound, Popped, Taken
  <2>1. Segment(posted, queue', Popped + 1) /\ Len(queue') = Len(queue) - 1
    BY <1>0, <2>0, LinesTyped, SegmentShrinks
  <2>2. Popped' = Popped + 1 /\ Taken' = Taken
    BY <2>0, <2>1, LinesTyped
  <2>3. \A u \in Threads : pc'[u] \notin {"first", "behind"}
    BY <1>1
  <2>4. QED
    BY <1>0, <1>4, <2>0, <2>1, <2>2, <2>3 DEF OrderSound
<1>6. QED
  BY <1>2, <1>3, <1>5 DEF Sound

LEMMA CompleteKeeps ==
    ASSUME TypeOK, Sound, NEW r \in Requests, Complete(r)
    PROVE  Sound'
<1>0. /\ flight[r] = 1 /\ flight' = [flight EXCEPT ![r] = 0]
      /\ ~mixed /\ queue # <<>> /\ Head(queue) = r /\ done = 0 /\ done' = 1
      /\ wire' = Append(wire, r)
      /\ UNCHANGED <<posted, posts, queue, pc, req, mixed, broken>>
  <2>1. /\ flight[r] = 1 /\ ~mixed /\ queue # <<>> /\ Head(queue) = r /\ done = 0
    BY DEF Complete, Sound, WriteSound, TypeOK
  <2>2. QED
    BY <2>1 DEF Complete
<1>1. \A t \in Threads : pc[t] \in {"idle", "behind"}
  <2>1. \A t \in Threads : pc[t] \notin {"first", "pop", "start"}
    BY <1>0 DEF Sound, WriteSound
  <2>2. QED
    BY <2>1 DEF TypeOK, Places
<1>2. OneHandler'
  BY <1>0 DEF Sound, OneHandler
<1>3. \A s \in Requests : flight'[s] = 0
  BY <1>0 DEF Sound, WriteSound, TypeOK
<1>4. WriteSound'
  BY <1>0, <1>1, <1>3 DEF Sound, WriteSound, Mute, TypeOK
<1>5. Written = 0 /\ Written' = 1 /\ InHand' = InHand /\ InHand \in {0, 1}
  BY <1>0, <1>1 DEF Written, InHand
<1>6. OrderSound'
  <2>0. /\ Segment(posted, wire, 0) /\ Segment(posted, queue, Popped)
        /\ Segment(posted, posts, Taken + InHand) /\ Taken + InHand + Len(posts) = Len(posted)
        /\ Popped = Len(wire) /\ Taken = Popped + Len(queue)
        /\ Popped' = Len(wire') - 1 /\ Taken' = Popped' + Len(queue)
        /\ \A t \in Threads : pc[t] \in {"first", "behind"} => req[t] = posted[Taken + 1]
    BY <1>0, <1>5, LinesTyped DEF Sound, OrderSound, Popped, Taken
  <2>1. r = posted[0 + Len(wire) + 1] /\ 0 + Len(wire) < Len(posted)
    BY <1>0, <2>0, LinesTyped, SegmentShrinks
  <2>2. Segment(posted, wire', 0) /\ Len(wire') = Len(wire) + 1
    <3>1. r \in Requests \cup {Garbage} /\ wire \in Seq(Requests \cup {Garbage})
          /\ posted \in Seq(Requests \cup {Garbage})
      BY LinesTyped
    <3>2. QED
      BY <1>0, <2>0, <2>1, <3>1, SegmentGrows
  <2>3. Popped' = Popped /\ Taken' = Taken
    BY <2>0, <2>2, LinesTyped
  <2>4. QED
    BY <1>0, <1>5, <2>0, <2>2, <2>3 DEF OrderSound
<1>7. QED
  BY <1>2, <1>4, <1>6 DEF Sound

LEMMA BreakKeeps ==
    ASSUME TypeOK, Sound, Break \/ \E r \in Requests : Fail(r)
    PROVE  Sound'
<1>0. /\ broken'
      /\ UNCHANGED <<posted, posts, queue, pc, req, mixed, done, wire>>
      /\ \A s \in Requests : flight'[s] \in Nat /\ flight'[s] <= flight[s]
  <2>1. CASE Break
    BY <2>1 DEF Break, TypeOK
  <2>2. ASSUME NEW r \in Requests, Fail(r)
        PROVE  /\ broken'
               /\ UNCHANGED <<posted, posts, queue, pc, req, mixed, done, wire>>
               /\ \A s \in Requests : flight'[s] \in Nat /\ flight'[s] <= flight[s]
    BY <2>2 DEF Fail, TypeOK
  <2>3. QED
    BY <2>1, <2>2
<1>1. OneHandler'
  BY <1>0 DEF Sound, OneHandler
<1>2. WriteSound'
  BY <1>0 DEF Sound, WriteSound, TypeOK
<1>3. Written' = Written /\ InHand' = InHand
  BY <1>0 DEF Written, InHand
<1>4. OrderSound'
  BY <1>0, <1>3 DEF Sound, OrderSound, Popped, Taken
<1>5. QED
  BY <1>1, <1>2, <1>4 DEF Sound

-----------------------------------------------------------------------------
LEMMA InvPreserved == QueueInv /\ [Next]_vars => QueueInv'
<1> SUFFICES ASSUME QueueInv, [Next]_vars PROVE QueueInv'
  OBVIOUS
<1>1. TypeOK /\ TypeOK'
  BY TypePreserved DEF QueueInv
<1>2. SUFFICES ASSUME ~overlapped' PROVE Sound'
  BY <1>1 DEF QueueInv, Sound
<1>3. CASE UNCHANGED vars
  BY <1>2, <1>3
     DEF QueueInv, Sound, vars, io, OneHandler, WriteSound, Mute, OrderSound, Popped, Taken,
         Written, InHand
<1>4. CASE Next
  <2>1. ~overlapped
    BY <1>1, <1>2, <1>4 DEF Next, ThreadStep, WriteStep, Take, Begin, Push, Start, TakeDone,
       Pop, Complete, Fail, Break, Post
  <2>2. Sound
    BY <2>1 DEF QueueInv, Sound
  <2>3. QED
    BY <1>1, <1>2, <1>4, <2>2, PostKeeps, TakeKeeps, PushKeeps, StartKeeps, TakeDoneKeeps,
       PopKeeps, CompleteKeeps, BreakKeeps DEF Next, ThreadStep, WriteStep
<1>5. QED
  BY <1>3, <1>4

\* The invariant of the write queue.
THEOREM QueueInvariant == Spec => []QueueInv
<1>1. Init => QueueInv
  <2> SUFFICES ASSUME Init PROVE QueueInv
    OBVIOUS
  <2>1. TypeOK
    <3>1. /\ pc \in [Threads -> Places] /\ req \in [Threads -> Requests \cup {NoRequest}]
          /\ \A t \in Threads : pc[t] \notin {"first", "behind"}
      BY DEF Init, Places
    <3>2. races \in 0 .. MaxRaces /\ done \in Nat /\ flight \in [Requests -> Nat]
      BY QueueAssumption DEF Init
    <3>3. /\ posted \in Seq(Requests) /\ posts \in Seq(Requests)
          /\ queue \in Seq(Requests) /\ wire \in Seq(Requests \cup {Garbage})
      BY EmptySeq DEF Init
    <3>4. QED
      BY <3>1, <3>2, <3>3 DEF Init, TypeOK
  <2>2. OneHandler /\ WriteSound
    BY DEF Init, OneHandler, WriteSound, Mute
  <2>3. Written = 0 /\ InHand = 0 /\ Popped = 0 /\ Taken = 0
    BY DEF Init, Written, InHand, Popped, Taken
  <2>4. OrderSound
    BY <2>3 DEF Init, OrderSound, Segment
  <2>5. QED
    BY <2>1, <2>2, <2>4 DEF QueueInv
<1>2. QED
  BY <1>1, InvPreserved, PTL DEF Spec

\* Whatever the threads of the io_service do to _write_queue, every variable has its type.
THEOREM QueueTypeCorrect == Spec => []TypeOK
BY QueueInvariant, PTL DEF QueueInv

\* As long as no two handlers overlapped, async_write has written a beginning of what was
\* posted, in that order, whole and once.
THEOREM WrittenAlwaysInOrder == Spec => []WrittenInOrder
<1>1. QueueInv => WrittenInOrder
  <2> SUFFICES ASSUME QueueInv, ~overlapped
               PROVE  Len(wire) <= Len(posted) /\ wire = SubSeq(posted, 1, Len(wire))
    BY DEF WrittenInOrder
  <2>1. /\ wire \in Seq(Requests \cup {Garbage}) /\ posted \in Seq(Requests \cup {Garbage})
        /\ Len(wire) \in Nat /\ Len(posted) \in Nat /\ Segment(posted, wire, 0)
    BY LinesTyped DEF QueueInv, OrderSound
  <2>2. Len(wire) <= Len(posted) /\ \A i \in 1 .. Len(wire) : wire[i] = posted[i]
    BY <2>1 DEF Segment
  <2>3. /\ SubSeq(posted, 1, Len(wire)) \in Seq(Requests \cup {Garbage})
        /\ Len(SubSeq(posted, 1, Len(wire))) = Len(wire)
        /\ \A i \in 1 .. Len(wire) : SubSeq(posted, 1, Len(wire))[i] = posted[i]
    BY <2>1, <2>2
  <2>4. QED
    BY <2>1, <2>2, <2>3, SeqEqual
<1>2. QED
  BY <1>1, QueueInvariant, PTL

\* The string boost::asio::buffer refers to stays in front of _write_queue for the time of
\* the write, unless two handlers overlapped.
THEOREM BufferAlwaysStays == Spec => []BufferStays
<1>1. QueueInv => BufferStays
  BY DEF QueueInv, WriteSound, BufferStays
<1>2. QED
  BY <1>1, QueueInvariant, PTL

\* Without a failure and an overlap, what async_write queued is always about to be written.
THEOREM AlwaysKeepsWriting == Spec => []KeepsWriting
<1>1. QueueInv => KeepsWriting
  BY DEF QueueInv, WriteSound, KeepsWriting
<1>2. QED
  BY <1>1, QueueInvariant, PTL

\* Once nobody is going to write what is queued, async_write never writes anything again.
THEOREM MuteForever == Spec => MuteStaysMute
<1>1. TypeOK /\ [Next]_vars => [Mute => Mute' /\ wire' = wire]_vars
  <2> SUFFICES ASSUME TypeOK, Next, Mute PROVE Mute' /\ wire' = wire
    OBVIOUS
  <2>0. /\ queue # <<>> /\ done = 0 /\ \A r \in Requests : flight[r] = 0
        /\ \A t \in Threads : pc[t] \in {"idle", "behind"}
    BY DEF Mute
  <2>1. ASSUME NEW r \in Requests, Post(r) PROVE Mute' /\ wire' = wire
    BY <2>0, <2>1 DEF Post, io, Mute
  <2>2. ASSUME NEW t \in Threads, Take(t) PROVE Mute' /\ wire' = wire
    BY <2>0, <2>2 DEF Take, Begin, Goto, io, Mute, TypeOK
  <2>3. ASSUME NEW t \in Threads, Push(t) PROVE Mute' /\ wire' = wire
    <3>1. pc[t] = "behind" /\ Append(queue, req[t]) # <<>>
      BY <2>0, <2>3 DEF Push, TypeOK
    <3>2. QED
      BY <2>0, <2>3, <3>1 DEF Push, Change, Goto, io, Mute, TypeOK
  <2>4. CASE Break
    BY <2>0, <2>4 DEF Break, Mute
  <2>5. /\ \A t \in Threads : ~Start(t) /\ ~TakeDone(t) /\ ~Pop(t)
        /\ \A r \in Requests : ~Complete(r) /\ ~Fail(r)
    <3>1. \A t \in Threads : ~Start(t) /\ ~Pop(t)
      BY <2>0 DEF Start, Pop
    <3>2. \A t \in Threads : ~TakeDone(t)
      BY <2>0 DEF TakeDone
    <3>3. \A r \in Requests : ~Complete(r) /\ ~Fail(r)
      BY <2>0 DEF Complete, Fail
    <3>4. QED
      BY <3>1, <3>2, <3>3
  <2>6. QED
    BY <2>1, <2>2, <2>3, <2>4, <2>5 DEF Next, ThreadStep, WriteStep
<1>2. QED
  BY <1>1, QueueTypeCorrect, PTL DEF Spec, MuteStaysMute

\* With one thread in the io_service (hardware_concurrency() is 1) handlers do not overlap,
\* and the client becomes mute only by a failed write.
THEOREM OneThreadNeverMute == ASSUME NEW t, Threads = {t} PROVE Spec => []NeverMute
<1>1. Init => ~overlapped
  BY DEF Init
<1>2. ~overlapped /\ [Next]_vars => ~overlapped'
  BY DEF Next, ThreadStep, WriteStep, Take, Begin, Push, Start, TakeDone, Pop, Complete,
     Fail, Break, Post, vars
<1>3. KeepsWriting /\ ~overlapped => NeverMute
  BY DEF KeepsWriting, NeverMute
<1>4. QED
  BY <1>1, <1>2, <1>3, AlwaysKeepsWriting, PTL DEF Spec
=============================================================================
