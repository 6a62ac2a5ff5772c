------------------------ MODULE EventDispatchProofs ------------------------
(***************************************************************************)
(* Proofs about EventDispatch, for any subscriptions and goroutines, any   *)
(* capacity of the queues and any number of events.                        *)
(*                                                                         *)
(* StoppedIsDrained needs that a subscription whose worker has ended gets  *)
(* no further event, so that nobody is about to send to a closed one, and  *)
(* that nothing is lost between what was accepted and what was handled.    *)
(* HandledInOrder needs that what a goroutine has still to send is newer   *)
(* than all it has sent to the subscriptions it has yet to visit.          *)
(***************************************************************************)
EXTENDS EventDispatch, SequenceTheorems, TLAPS

\* The types of the variables, without the capacity of the queues.
Typed ==
    /\ pc \in [Threads -> Pcs]
    /\ cur \in [Threads -> SUBSET Subs]
    /\ at \in [Threads -> SUBSET Subs]
    /\ count \in [PubThreads -> 0..MaxEvents]
    /\ members \in SUBSET Subs
    /\ closed \in SUBSET Subs
    /\ worker \in [Subs -> {"none", "idle", "busy", "ended"}]

QueuesTyped ==
    /\ queue \in [Subs -> Seq(Events)]
    /\ accepted \in [Subs -> Seq(Events)]
    /\ handled \in [Subs -> Seq(Events)]

\* What the place of a goroutine says of the subscription it is at and of the
\* events it has published.
Controlled ==
    \A t \in Threads :
        /\ pc[t] \in {"send", "sublock", "drain"} => \E s \in Subs : at[t] = {s}
        /\ pc[t] = "send" => t \in PubThreads /\ at[t] \subseteq cur[t]
        /\ t \in PubThreads => /\ pc[t] \in {"idle", "rlock", "each", "send"}
                               /\ pc[t] = "rlock" => count[t] < MaxEvents
                               /\ pc[t] \in {"each", "send"} => count[t] > 0

\* No event is lost between orderCh and the handler.
NothingLost == \A s \in Subs : accepted[s] = handled[s] \o queue[s]

\* A worker ends with its queue empty and closed, and nobody sends to a closed one.
Drained ==
    \A s \in Subs :
        /\ worker[s] = "busy" => queue[s] # <<>>
        /\ worker[s] = "ended" => queue[s] = <<>> /\ s \in closed
        /\ Gone(s) => worker[s] = "ended"
        /\ \A t \in Threads : pc[t] = "send" /\ at[t] = {s} => s \notin closed

\* The events of t that s has accepted are the earlier ones.
Sent(t, s) ==
    \A n \in 1..Len(accepted[s]) :
        accepted[s][n][1] = t =>
            /\ accepted[s][n][2] <= count[t]
            /\ pc[t] \in {"each", "send"} /\ s \in cur[t] => accepted[s][n][2] < count[t]

InOrder(s) ==
    \A m, n \in 1..Len(accepted[s]) :
        m < n /\ accepted[s][m][1] = accepted[s][n][1] => accepted[s][m][2] < accepted[s][n][2]

Ordered == \A s \in Subs : InOrder(s) /\ \A t \in PubThreads : Sent(t, s)

IndInv == Typed /\ QueuesTyped /\ Controlled /\ NothingLost /\ Drained /\ Ordered

-----------------------------------------------------------------------------
(* Types and control states *)

\* Who is what.
LEMMA ThreadKinds ==
    /\ PubThreads \subseteq Threads /\ Subs \subseteq Threads /\ Stopper \in Threads
    /\ Stopper \notin PubThreads
    /\ \A u \in DOMAIN Unsubscribers : u \in Threads /\ u \notin PubThreads /\ Unsubscribers[u] \in Subs
    /\ \A u \in DOMAIN Subscribers : u \in Threads /\ u \notin PubThreads /\ Subscribers[u] \in Subs
  BY ThreadsAssumption, SubsAssumption DEF Threads, PubThreads, Republishers

LEMMA InitTyped == Init => Typed /\ QueuesTyped /\ Controlled
  <1> SUFFICES ASSUME Init PROVE Typed /\ QueuesTyped /\ Controlled
    OBVIOUS
  <1>1. Typed
    BY BoundsAssumption, SubsAssumption DEF Init, Typed, Pcs
  <1>2. QueuesTyped
    BY DEF Init, QueuesTyped
  <1>3. Controlled
    BY ThreadKinds DEF Init, Controlled
  <1> QED  BY <1>1, <1>2, <1>3

\* Steps of one goroutine.
LEMMA NextTyped ==
    ASSUME Typed, Controlled, [Next]_vars
    PROVE  Typed' /\ Controlled'
  <1> USE ThreadKinds, BoundsAssumption
  <1> DEFINE Goal == Typed' /\ Controlled'
  <1>1. ASSUME NEW t \in Threads, Publish(t)
        PROVE  Goal
    <2>1. Typed'
      BY <1>1 DEF Publish, MayPublish, Typed, Pcs
    <2>2. Controlled'
      BY <1>1 DEF Publish, MayPublish, Typed, Controlled
    <2> QED  BY <2>1, <2>2
  <1>2. ASSUME NEW t \in Threads, PublishLocked(t)
        PROVE  Goal
    <2>1. Typed'
      BY <1>2 DEF PublishLocked, Typed, Controlled, Pcs
    <2>2. Controlled'
      BY <1>2 DEF PublishLocked, Typed, Controlled
    <2> QED  BY <2>1, <2>2
  <1>3. ASSUME NEW t \in Threads, PublishNext(t)
        PROVE  Goal
    <2>1. CASE PublishReturns(t)
      BY <1>3, <2>1 DEF PublishNext, PublishReturns, Typed, Controlled, Pcs
    <2>2. CASE ~PublishReturns(t)
      <3>1. PICK s \in cur[t] : /\ pc' = [pc EXCEPT ![t] = "send"]
                                /\ at' = [at EXCEPT ![t] = {s}]
                                /\ UNCHANGED <<cur, count, members, closed, worker>>
        BY <1>3, <2>2 DEF PublishNext
      <3>2. s \in Subs /\ t \in PubThreads /\ count[t] > 0
        BY <1>3 DEF PublishNext, Typed, Controlled
      <3>3. Typed'
        BY <3>1, <3>2 DEF Typed, Pcs
      <3>4. Controlled'
        BY <3>1, <3>2 DEF Typed, Controlled
      <3> QED  BY <3>3, <3>4
    <2> QED  BY <2>1, <2>2
  <1>4. ASSUME NEW t \in Threads, PublishSent(t)
        PROVE  Goal
    <2>1. Typed'
      BY <1>4 DEF PublishSent, Typed, Pcs
    <2>2. Controlled'
      BY <1>4 DEF PublishSent, Typed, Controlled
    <2> QED  BY <2>1, <2>2
  <1>5. ASSUME NEW t \in Threads, StopStep(t)
        PROVE  Goal
    <2>1. t \notin PubThreads
      BY <1>5 DEF StopStep, StopLocked, StopDrained, Controlled
    <2>2. Typed'
      BY <1>5 DEF StopStep, StopLocked, StopDrained, Typed, Pcs
    <2>3. CASE StopLocked(t)
      BY <2>1, <2>2, <2>3 DEF StopLocked, Typed, Controlled
    <2>4. CASE StopDrained(t)
      BY <2>1, <2>2, <2>4 DEF StopDrained, Typed, Controlled
    <2> QED  BY <1>5, <2>2, <2>3, <2>4 DEF StopStep
  <1>6. ASSUME NEW t \in Threads, ListenStep(t)
        PROVE  Goal
    <2>1. t \notin PubThreads
      BY <1>6 DEF ListenStep, Unsubscribe, UnsubscribeLocked, UnsubscribeDeleted, Subscribe,
                  SubscribeAdded, AskLock, Controlled
    <2>2. CASE Unsubscribe(t) \/ AskLock(t)
      BY <2>1, <2>2 DEF Unsubscribe, AskLock, Typed, Controlled, Pcs
    <2>3. CASE UnsubscribeLocked(t)
      BY <2>1, <2>3 DEF UnsubscribeLocked, Typed, Controlled, Pcs
    <2>4. CASE UnsubscribeDeleted(t)
      BY <2>1, <2>4 DEF UnsubscribeDeleted, Typed, Controlled, Pcs
    <2>5. CASE Subscribe(t)
      BY <2>1, <2>5 DEF Subscribe, Typed, Controlled, Pcs
    <2>6. CASE SubscribeAdded(t)
      BY <2>1, <2>6 DEF SubscribeAdded, Typed, Controlled, Pcs
    <2> QED  BY <1>6, <2>2, <2>3, <2>4, <2>5, <2>6 DEF ListenStep
  <1>7. ASSUME NEW s \in Subs, WorkerStep(s)
        PROVE  Goal
    <2>1. UNCHANGED <<pc, cur, at, count, members, closed>>
      BY <1>7 DEF WorkerStep, Handle, HandlerReturns, WorkerEnds
    <2>2. Controlled'
      BY <2>1 DEF Controlled
    <2>3. Typed'
      BY <1>7, <2>1 DEF WorkerStep, Handle, HandlerReturns, WorkerEnds, Typed
    <2> QED  BY <2>2, <2>3
  <1>8. ASSUME ServiceStop
        PROVE  Goal
    <2>1. CASE StopService
      BY <2>1 DEF StopService, Typed, Controlled, Pcs
    <2>2. CASE StopServiceLocked
      BY <2>2 DEF StopServiceLocked, Typed, Controlled, Pcs
    <2>3. CASE StopServiceNext
      <3>1. Typed'
        BY <2>3 DEF StopServiceNext, Typed, Pcs
      <3>2. Controlled'
        BY <2>3 DEF StopServiceNext, Typed, Controlled
      <3> QED  BY <3>1, <3>2
    <2> QED  BY <1>8, <2>1, <2>2, <2>3 DEF ServiceStop
  <1>9. CASE UNCHANGED vars
    BY <1>9 DEF vars, Typed, Controlled
  <1> QED  BY <1>1, <1>2, <1>3, <1>4, <1>5, <1>6, <1>7, <1>8, <1>9 DEF Next, PublishStep

-----------------------------------------------------------------------------
(* Nothing is lost *)

\* Moving the head of one sequence to the end of another one.
LEMMA HeadMoves ==
    ASSUME NEW S, NEW h \in Seq(S), NEW q \in Seq(S), q # <<>>
    PROVE  /\ Append(h, Head(q)) \in Seq(S) /\ Tail(q) \in Seq(S)
           /\ Append(h, Head(q)) \o Tail(q) = h \o q
  <1>1. Head(q) \in S /\ Tail(q) \in Seq(S) /\ Len(q) \in Nat \ {0}
    BY HeadTailProperties, EmptySeq
  <1>2. Append(h, Head(q)) \in Seq(S)
    BY <1>1
  <1>3. Append(h, Head(q)) \o Tail(q) \in Seq(S) /\ h \o q \in Seq(S)
    BY <1>1, <1>2, ConcatProperties
  <1> DEFINE a == Append(h, Head(q)) \o Tail(q)
             b == h \o q
  <1>4. Len(a) = Len(b)
    BY <1>1
  <1>5. \A i \in 1..Len(a) : a[i] = b[i]
    BY <1>1
  <1>6. a = b
    <2> HIDE DEF a, b
    <2>1. a \in Seq(S) /\ b \in Seq(S)
      BY <1>3 DEF a, b
    <2> QED  BY <1>4, <1>5, <2>1, SeqEqual
  <1> QED  BY <1>1, <1>2, <1>6

LEMMA AppendMoves ==
    \A h, q \in Seq(Events), e \in Events : Append(h \o q, e) = h \o Append(q, e)
  <1> TAKE h, q \in Seq(Events), e \in Events
  <1> DEFINE a == Append(h \o q, e)
             b == h \o Append(q, e)
  <1>1. a \in Seq(Events) /\ b \in Seq(Events)
    OBVIOUS
  <1>2. Len(a) = Len(b)
    OBVIOUS
  <1>3. \A i \in 1..Len(a) : a[i] = b[i]
    OBVIOUS
  <1>4. a = b
    <2> HIDE DEF a, b
    <2> QED  BY <1>1, <1>2, <1>3, SeqEqual
  <1> QED  BY <1>4

\* What a send adds is an event of the publisher, its latest one.
LEMMA SentIsEvent ==
    ASSUME Typed, Controlled, NEW t \in Threads, PublishSent(t)
    PROVE  t \in PubThreads /\ <<t, count[t]>> \in Events
  BY BoundsAssumption DEF PublishSent, Typed, Controlled, Events

\* Only a send and the return of a handler change the queues.
LEMMA QueueSteps ==
    ASSUME [Next]_vars
    PROVE  \/ UNCHANGED <<queue, accepted, handled>>
           \/ \E t \in Threads : PublishSent(t)
           \/ \E s \in Subs : HandlerReturns(s)
  BY DEF Next, vars, PublishStep, Publish, PublishLocked, PublishNext, StopStep, StopLocked, StopDrained,
         ListenStep, Unsubscribe, UnsubscribeLocked, UnsubscribeDeleted, Subscribe, SubscribeAdded, AskLock,
         WorkerStep, Handle, WorkerEnds, ServiceStop, StopService, StopServiceLocked, StopServiceNext

LEMMA NextNothingLost ==
    ASSUME Typed, Controlled, QueuesTyped, Drained, NothingLost, [Next]_vars
    PROVE  QueuesTyped' /\ NothingLost'
  <1>1. CASE UNCHANGED <<queue, accepted, handled>>
    BY <1>1 DEF QueuesTyped, NothingLost
  <1>2. ASSUME NEW t \in Threads, PublishSent(t)
        PROVE  QueuesTyped' /\ NothingLost'
    <2> DEFINE e == <<t, count[t]>>
    <2>1. PICK s \in Subs : /\ queue' = [queue EXCEPT ![s] = Append(@, e)]
                            /\ accepted' = [accepted EXCEPT ![s] = Append(@, e)]
                            /\ UNCHANGED handled
      BY <1>2 DEF PublishSent, Typed
    <2>2. e \in Events
      BY <1>2, SentIsEvent
    <2> HIDE DEF e
    <2>3. Append(handled[s] \o queue[s], e) = handled[s] \o Append(queue[s], e)
      <3>1. handled[s] \in Seq(Events) /\ queue[s] \in Seq(Events)
        BY DEF QueuesTyped
      <3> QED  BY <2>2, <3>1, AppendMoves, Zenon
    <2>4. QueuesTyped'
      BY <2>1, <2>2 DEF QueuesTyped
    <2> QED  BY <2>1, <2>3, <2>4 DEF QueuesTyped, NothingLost
  <1>3. ASSUME NEW s \in Subs, HandlerReturns(s)
        PROVE  QueuesTyped' /\ NothingLost'
    <2> DEFINE h == Append(handled[s], Head(queue[s]))
               q == Tail(queue[s])
    <2>1. /\ handled' = [handled EXCEPT ![s] = h]
          /\ queue' = [queue EXCEPT ![s] = q]
          /\ UNCHANGED accepted
      BY <1>3 DEF HandlerReturns
    <2>2. queue[s] # <<>>
      BY <1>3 DEF HandlerReturns, Drained
    <2>3. h \in Seq(Events) /\ q \in Seq(Events) /\ h \o q = handled[s] \o queue[s]
      BY <2>2, HeadMoves DEF QueuesTyped
    <2> HIDE DEF h, q
    <2> QED  BY <2>1, <2>3 DEF QueuesTyped, NothingLost
  <1> QED  BY <1>1, <1>2, <1>3, QueueSteps

-----------------------------------------------------------------------------
(* What is gone is drained *)

\* A step that leaves the queues alone, closes nothing that somebody sends to,
\* and ends no worker but an idle one of a closed and empty queue.
LEMMA NextDrained ==
    ASSUME Typed, Controlled, QueuesTyped, Drained, [Next]_vars
    PROVE  Drained'
  <1> USE ThreadKinds
  <1>1. ASSUME NEW t \in Threads, Publish(t) \/ PublishLocked(t)
        PROVE  Drained'
    <2>1. UNCHANGED <<at, queue, closed, worker>>
      BY <1>1 DEF Publish, PublishLocked
    <2>2. /\ pc[t] \notin {"drain", "send"} /\ pc'[t] \notin {"drain", "send"}
          /\ \A u \in Threads : u # t => pc'[u] = pc[u]
      BY <1>1 DEF Publish, PublishLocked, MayPublish, Typed
    <2>3. \A s \in Subs : Gone(s)' => Gone(s)
      BY <2>1, <2>2 DEF Gone
    <2> QED  BY <2>1, <2>2, <2>3 DEF Drained
  <1>2. ASSUME NEW t \in Threads, PublishNext(t)
        PROVE  Drained'
    <2>1. UNCHANGED <<queue, closed, worker>>
      BY <1>2 DEF PublishNext
    <2>2. \A u \in Threads : u # t => pc'[u] = pc[u] /\ at'[u] = at[u]
      BY <1>2 DEF PublishNext, PublishReturns, Typed
    <2>3. pc[t] # "drain" /\ pc'[t] # "drain"
      BY <1>2 DEF PublishNext, PublishReturns, Typed
    <2>4. \A s \in Subs : Gone(s)' => Gone(s)
      BY <2>1, <2>2, <2>3 DEF Gone
    <2>5. \A s \in Subs : pc'[t] = "send" /\ at'[t] = {s} => s \notin closed
      <3>1. CASE PublishReturns(t)
        BY <3>1 DEF PublishReturns, Typed
      <3>2. CASE ~PublishReturns(t)
        <4>1. PICK s \in cur[t] : s \notin closed /\ at' = [at EXCEPT ![t] = {s}]
          BY <1>2, <3>2 DEF PublishNext
        <4>2. at'[t] = {s}
          BY <4>1 DEF Typed
        <4> QED  BY <4>1, <4>2
      <3> QED  BY <3>1, <3>2
    <2> QED  BY <2>1, <2>2, <2>4, <2>5 DEF Drained
  <1>3. ASSUME NEW t \in Threads, PublishSent(t)
        PROVE  Drained'
    <2>1. PICK s \in Subs : /\ queue' = [queue EXCEPT ![s] = Append(@, <<t, count[t]>>)]
                            /\ at[t] = {s}
      <3>1. PICK s \in at[t] : queue' = [queue EXCEPT ![s] = Append(@, <<t, count[t]>>)]
        BY <1>3 DEF PublishSent
      <3>2. PICK r \in Subs : at[t] = {r}
        BY <1>3 DEF PublishSent, Controlled
      <3>3. s \in Subs /\ at[t] = {s}
        BY <3>2
      <3> QED  BY <3>1, <3>3
    <2>2. s \notin closed /\ worker[s] # "ended"
      BY <1>3, <2>1 DEF PublishSent, Drained
    <2>3. \A r \in Subs : queue'[r] = IF r = s THEN Append(queue[s], <<t, count[t]>>) ELSE queue[r]
      BY <2>1 DEF QueuesTyped
    <2>4. Append(queue[s], <<t, count[t]>>) # <<>>
      <3> DEFINE e == <<t, count[t]>>
      <3>1. queue[s] \in Seq(Events) /\ e \in Events
        BY <1>3, SentIsEvent DEF QueuesTyped
      <3> HIDE DEF e
      <3>2. Len(Append(queue[s], e)) = Len(queue[s]) + 1 /\ Len(queue[s]) \in Nat
        BY <3>1
      <3> QED  BY <3>2 DEF e
    <2>5. UNCHANGED <<closed, worker>>
      BY <1>3 DEF PublishSent
    <2>6. \A u \in Threads : pc'[u] \in {"drain", "send"} => pc'[u] = pc[u] /\ at'[u] = at[u]
      BY <1>3 DEF PublishSent, Typed
    <2>7. \A r \in Subs : Gone(r)' => Gone(r)
      BY <1>3, <2>5 DEF PublishSent, Typed, Gone
    <2> QED  BY <2>2, <2>3, <2>4, <2>5, <2>6, <2>7 DEF Drained
  <1>4. ASSUME NEW t \in Threads, StopLocked(t)
        PROVE  Drained'
    <2>1. PICK s \in Subs : /\ at[t] = {s} /\ CanLockSub(s)
                            /\ closed' = closed \cup {s}
      BY <1>4 DEF StopLocked, Controlled
    <2>2. UNCHANGED <<at, queue, worker>>
      BY <1>4 DEF StopLocked
    <2>3. pc'[t] = "drain" /\ \A u \in Threads : u # t => pc'[u] = pc[u]
      BY <1>4 DEF StopLocked, Typed
    <2>4. \A u \in Threads : ~(pc'[u] = "send" /\ at[u] = {s})
      BY <2>1, <2>3 DEF CanLockSub, SubReaders
    <2>5. ~Gone(s)' /\ \A r \in Subs : r # s /\ Gone(r)' => Gone(r)
      BY <1>4, <2>1, <2>2, <2>3 DEF Gone, StopLocked
    <2> QED  BY <2>1, <2>2, <2>3, <2>4, <2>5 DEF Drained
  <1>5. ASSUME NEW t \in Threads, StopDrained(t)
        PROVE  Drained'
    <2>1. PICK s \in Subs : at[t] = {s} /\ worker[s] = "ended"
      BY <1>5 DEF StopDrained, Controlled
    <2>2. UNCHANGED <<queue, closed, worker>>
      BY <1>5 DEF StopDrained
    <2>3. pc'[t] \notin {"drain", "send"} /\ \A u \in Threads : u # t => pc'[u] = pc[u] /\ at'[u] = at[u]
      BY <1>5 DEF StopDrained, Typed
    <2>4. \A r \in Subs : r # s /\ Gone(r)' => Gone(r)
      BY <2>1, <2>2, <2>3 DEF Gone
    <2> QED  BY <2>1, <2>2, <2>3, <2>4 DEF Drained
  <1>6. ASSUME NEW t \in Threads,
               Unsubscribe(t) \/ UnsubscribeLocked(t) \/ UnsubscribeDeleted(t) \/ Subscribe(t) \/ AskLock(t)
        PROVE  Drained'
    <2>1. UNCHANGED <<queue, closed, worker>>
      BY <1>6 DEF Unsubscribe, UnsubscribeLocked, UnsubscribeDeleted, Subscribe, AskLock
    <2>2. /\ pc[t] \notin {"drain", "send"} /\ pc'[t] \notin {"drain", "send"}
          /\ \A u \in Threads : u # t => pc'[u] = pc[u] /\ at'[u] = at[u]
      BY <1>6 DEF Unsubscribe, UnsubscribeLocked, UnsubscribeDeleted, Subscribe, AskLock, Typed
    <2>3. \A s \in Subs : Gone(s)' => Gone(s)
      BY <2>1, <2>2 DEF Gone
    <2> QED  BY <2>1, <2>2, <2>3 DEF Drained
  <1>7. ASSUME NEW t \in Threads, SubscribeAdded(t)
        PROVE  Drained'
    <2>1. /\ UNCHANGED <<queue, at>>
          /\ pc[t] \notin {"drain", "send"} /\ pc'[t] \notin {"drain", "send"}
          /\ \A u \in Threads : u # t => pc'[u] = pc[u]
      BY <1>7 DEF SubscribeAdded, Typed
    <2>2. CASE UNCHANGED <<closed, worker>>
      BY <2>1, <2>2 DEF Drained, Gone
    <2>3. ASSUME NEW s \in Subs, closed' = closed \ {s}, worker' = [worker EXCEPT ![s] = "idle"]
          PROVE  Drained'
      <3>1. \A r \in Subs : worker'[r] = IF r = s THEN "idle" ELSE worker[r]
        BY <2>3 DEF Typed
      <3>2. \A r \in Subs : Gone(r)' => r # s /\ Gone(r)
        BY <2>1, <2>3 DEF Gone
      <3> QED  BY <2>1, <2>3, <3>1, <3>2 DEF Drained
    <2> QED  BY <1>7, <2>2, <2>3 DEF SubscribeAdded
  <1>8. ASSUME NEW s \in Subs, WorkerStep(s)
        PROVE  Drained'
    <2>1. UNCHANGED <<pc, at, closed>>
      BY <1>8 DEF WorkerStep, Handle, HandlerReturns, WorkerEnds
    <2>2. \A r \in Subs : Gone(r)' = Gone(r)
      BY <2>1 DEF Gone
    <2>3. CASE Handle(s) \/ WorkerEnds(s)
      BY <2>1, <2>2, <2>3 DEF Handle, WorkerEnds, Typed, Drained
    <2>4. CASE HandlerReturns(s)
      BY <2>1, <2>2, <2>4 DEF HandlerReturns, Typed, QueuesTyped, Drained
    <2> QED  BY <1>8, <2>3, <2>4 DEF WorkerStep
  <1>9. ASSUME ServiceStop
        PROVE  Drained'
    <2>1. UNCHANGED <<queue, closed, worker>>
      BY <1>9 DEF ServiceStop, StopService, StopServiceLocked, StopServiceNext
    <2>2. /\ pc[Stopper] \notin {"drain", "send"} /\ pc'[Stopper] \notin {"drain", "send"}
          /\ \A u \in Threads : u # Stopper => pc'[u] = pc[u] /\ at'[u] = at[u]
      BY <1>9 DEF ServiceStop, StopService, StopServiceLocked, StopServiceNext, Typed
    <2>3. \A s \in Subs : Gone(s)' => Gone(s)
      BY <2>1, <2>2 DEF Gone
    <2> QED  BY <2>1, <2>2, <2>3 DEF Drained
  <1>10. CASE UNCHANGED vars
    BY <1>10 DEF vars, Drained, Gone
  <1> QED  BY <1>1, <1>2, <1>3, <1>4, <1>5, <1>6, <1>7, <1>8, <1>9, <1>10
           DEF Next, PublishStep, StopStep, ListenStep

-----------------------------------------------------------------------------
(* Events of one goroutine stay in order *)

\* A step that sends nothing, lets no count shrink, and makes nobody visit a
\* subscription again without a new event.
LEMMA OrderKept ==
    ASSUME Ordered, Typed, QueuesTyped, UNCHANGED accepted,
           \A t \in PubThreads : /\ count'[t] \in Nat
                                 /\ \/ count'[t] > count[t]
                                    \/ /\ count'[t] = count[t]
                                       /\ pc'[t] \in {"each", "send"} =>
                                             pc[t] \in {"each", "send"} /\ cur'[t] \subseteq cur[t]
    PROVE  Ordered'
  <1>1. \A s \in Subs : InOrder(s)'
    BY DEF Ordered, InOrder
  <1>2. ASSUME NEW s \in Subs, NEW t \in PubThreads
        PROVE  Sent(t, s)'
    <2>1. count[t] \in Nat /\ Sent(t, s)
      BY DEF Typed, Ordered
    <2>2. \A n \in 1..Len(accepted[s]) : accepted[s][n][2] \in Nat
      BY ElementOfSeq DEF QueuesTyped, Events
    <2> QED  BY <2>1, <2>2 DEF Sent
  <1> QED  BY <1>1, <1>2 DEF Ordered

LEMMA NextOrdered ==
    ASSUME Typed, QueuesTyped, Controlled, Ordered, [Next]_vars
    PROVE  Ordered'
  <1> USE ThreadKinds
  <1> DEFINE Keeps ==
        /\ UNCHANGED accepted
        /\ \A t \in PubThreads : /\ count'[t] \in Nat
                                 /\ \/ count'[t] > count[t]
                                    \/ /\ count'[t] = count[t]
                                       /\ pc'[t] \in {"each", "send"} =>
                                             pc[t] \in {"each", "send"} /\ cur'[t] \subseteq cur[t]
  <1>1. ASSUME NEW t \in Threads, Publish(t) \/ PublishLocked(t)
        PROVE  Keeps
    BY <1>1 DEF Publish, PublishLocked, MayPublish, Typed
  <1>2. ASSUME NEW t \in Threads, PublishNext(t)
        PROVE  Keeps
    BY <1>2 DEF PublishNext, PublishReturns, Typed
  <1>3. ASSUME NEW t \in Threads, PublishSent(t)
        PROVE  Ordered'
    <2> DEFINE e == <<t, count[t]>>
    <2>1. PICK s \in at[t] : /\ accepted' = [accepted EXCEPT ![s] = Append(@, e)]
                             /\ cur' = [cur EXCEPT ![t] = @ \ {s}]
      BY <1>3 DEF PublishSent
    <2>2. s \in Subs /\ s \in cur[t] /\ pc[t] = "send"
      BY <1>3 DEF PublishSent, Typed, Controlled
    <2>3. t \in PubThreads /\ e \in Events /\ e[1] = t /\ e[2] = count[t]
      BY <1>3, SentIsEvent
    <2> HIDE DEF e
    <2>4. /\ Len(accepted'[s]) = Len(accepted[s]) + 1 /\ Len(accepted[s]) \in Nat
          /\ \A n \in 1..Len(accepted[s]) : accepted'[s][n] = accepted[s][n]
          /\ accepted'[s][Len(accepted[s]) + 1] = e
      BY <2>1, <2>2, <2>3 DEF QueuesTyped
    <2>5. \A r \in Subs : r # s => accepted'[r] = accepted[r]
      BY <2>1 DEF QueuesTyped
    <2>6. \A n \in 1..Len(accepted[s]) : accepted[s][n][1] = t => accepted[s][n][2] < count[t]
      BY <2>2, <2>3 DEF Ordered, Sent
    <2>7. ASSUME NEW r \in Subs
          PROVE  InOrder(r)'
      <3>1. CASE r # s
        BY <2>5, <3>1 DEF Ordered, InOrder
      <3>2. CASE r = s
        <4> DEFINE a == accepted[s]
                   b == accepted'[s]
        <4>1. /\ Len(b) = Len(a) + 1 /\ Len(a) \in Nat
              /\ \A n \in 1..Len(a) : b[n] = a[n]
              /\ b[Len(a) + 1] = e
          BY <2>4
        <4>2. \A n \in 1..Len(a) : a[n][1] = e[1] => a[n][2] < e[2]
          BY <2>3, <2>6
        <4>3. \A m, n \in 1..Len(a) : m < n /\ a[m][1] = a[n][1] => a[m][2] < a[n][2]
          BY <2>2 DEF Ordered, InOrder
        <4> HIDE DEF a, b
        <4>4. \A m, n \in 1..Len(b) : m < n /\ b[m][1] = b[n][1] => b[m][2] < b[n][2]
          <5> SUFFICES ASSUME NEW m \in 1..Len(b), NEW n \in 1..Len(b), m < n, b[m][1] = b[n][1]
                       PROVE  b[m][2] < b[n][2]
            OBVIOUS
          <5>1. m \in 1..Len(a) /\ b[m] = a[m]
            BY <4>1
          <5>2. n \in 1..Len(a) \/ n = Len(a) + 1
            BY <4>1
          <5> QED  BY <4>1, <4>2, <4>3, <5>1, <5>2
        <4> QED  BY <3>2, <4>4 DEF InOrder, b
      <3> QED  BY <3>1, <3>2
    <2>8. ASSUME NEW r \in Subs, NEW u \in PubThreads
          PROVE  Sent(u, r)'
      <3>1. count' = count /\ Sent(u, r)
        BY <1>3 DEF PublishSent, Ordered
      <3>2. pc'[u] \in {"each", "send"} /\ r \in cur'[u] =>
              pc[u] \in {"each", "send"} /\ r \in cur[u] /\ (u = t => r # s)
        BY <1>3, <2>1, <2>2 DEF PublishSent, Typed
      <3>3. CASE r # s
        BY <2>5, <3>1, <3>2, <3>3 DEF Sent
      <3>4. CASE r = s
        <4> SUFFICES ASSUME NEW n \in 1..Len(accepted'[s]), accepted'[s][n][1] = u
                     PROVE  /\ accepted'[s][n][2] <= count[u]
                            /\ pc'[u] \in {"each", "send"} /\ s \in cur'[u] => accepted'[s][n][2] < count[u]
          BY <3>1, <3>4 DEF Sent
        <4>1. CASE n \in 1..Len(accepted[s])
          <5>1. accepted'[s][n] = accepted[s][n]
            BY <2>4, <4>1
          <5> QED  BY <3>1, <3>2, <3>4, <4>1, <5>1 DEF Sent
        <4>2. CASE n = Len(accepted[s]) + 1
          <5>1. u = t /\ accepted'[s][n][2] = count[t] /\ count[t] \in Nat
            BY <2>3, <2>4, <4>2 DEF Typed
          <5> QED  BY <3>2, <3>4, <5>1
        <4> QED  BY <2>4, <4>1, <4>2
      <3> QED  BY <3>3, <3>4
    <2> QED  BY <2>7, <2>8 DEF Ordered
  <1>4. ASSUME NEW t \in Threads, StopStep(t)
        PROVE  Keeps
    BY <1>4 DEF StopStep, StopLocked, StopDrained, Typed, Controlled
  <1>5. ASSUME NEW t \in Threads, ListenStep(t)
        PROVE  Keeps
    <2>1. t \notin PubThreads
      BY <1>5 DEF ListenStep, Unsubscribe, UnsubscribeLocked, UnsubscribeDeleted, Subscribe,
                  SubscribeAdded, AskLock, Controlled
    <2> QED  BY <1>5, <2>1 DEF ListenStep, Unsubscribe, UnsubscribeLocked, UnsubscribeDeleted, Subscribe,
                               SubscribeAdded, AskLock, Typed
  <1>6. ASSUME NEW s \in Subs, WorkerStep(s)
        PROVE  Keeps
    BY <1>6 DEF WorkerStep, Handle, HandlerReturns, WorkerEnds, Typed
  <1>7. ASSUME ServiceStop
        PROVE  Keeps
    BY <1>7 DEF ServiceStop, StopService, StopServiceLocked, StopServiceNext, Typed
  <1>8. ASSUME UNCHANGED vars
        PROVE  Keeps
    <2>1. UNCHANGED <<accepted, count, pc, cur>>
      BY <1>8 DEF vars
    <2>2. \A t \in PubThreads : count[t] \in Nat
      BY DEF Typed
    <2> QED  BY <2>1, <2>2
  <1>9. ASSUME Keeps PROVE Ordered'
    BY <1>9, OrderKept
  <1> HIDE DEF Keeps
  <1> QED  BY <1>1, <1>2, <1>3, <1>4, <1>5, <1>6, <1>7, <1>8, <1>9 DEF Next, PublishStep

-----------------------------------------------------------------------------
(* The theorems *)

LEMMA InitIndInv == Init => IndInv
  <1> SUFFICES ASSUME Init PROVE IndInv
    OBVIOUS
  <1>1. Typed /\ QueuesTyped /\ Controlled
    BY InitTyped
  <1>2. NothingLost
    BY DEF Init, NothingLost
  <1>3. Drained
    BY ThreadKinds DEF Init, Drained, Gone
  <1>4. Ordered
    BY DEF Init, Ordered, InOrder, Sent
  <1> QED  BY <1>1, <1>2, <1>3, <1>4 DEF IndInv

LEMMA NextIndInv == IndInv /\ [Next]_vars => IndInv'
  BY NextTyped, NextNothingLost, NextDrained, NextOrdered DEF IndInv

LEMMA IndInvHolds == Spec => []IndInv
  BY InitIndInv, NextIndInv, PTL DEF Spec

\* subscription.Stop: once a subscription is gone, every event it has accepted was handled
\* and its handler does not run, for any goroutines, subscriptions and queue capacity.
THEOREM StopDrains == Spec => []StoppedIsDrained
  <1>1. IndInv => StoppedIsDrained
    <2> SUFFICES ASSUME IndInv, NEW s \in Subs, Gone(s)
                 PROVE  handled[s] = accepted[s] /\ worker[s] = "ended"
      BY DEF StoppedIsDrained
    <2>1. worker[s] = "ended" /\ queue[s] = <<>>
      BY DEF IndInv, Drained
    <2>2. accepted[s] = handled[s] \o <<>> /\ handled[s] \in Seq(Events)
      BY <2>1 DEF IndInv, NothingLost, QueuesTyped
    <2>3. handled[s] \o <<>> = handled[s]
      BY <2>2, ConcatEmptySeq
    <2> QED  BY <2>1, <2>2, <2>3
  <1> QED  BY IndInvHolds, <1>1, PTL

\* subscription.Publish and its worker: what was handled is a prefix of what was accepted, and
\* the events of one goroutine are accepted in the order it published them.
THEOREM OrderIsKept == Spec => []HandledInOrder
  <1>1. IndInv => HandledInOrder
    <2> SUFFICES ASSUME IndInv, NEW s \in Subs
                 PROVE  /\ Len(handled[s]) <= Len(accepted[s])
                        /\ \A n \in 1..Len(handled[s]) : handled[s][n] = accepted[s][n]
                        /\ InOrder(s)
      BY DEF HandledInOrder, InOrder
    <2> DEFINE h == handled[s]
               q == queue[s]
    <2>1. h \in Seq(Events) /\ q \in Seq(Events) /\ accepted[s] = h \o q
      BY DEF IndInv, NothingLost, QueuesTyped
    <2> HIDE DEF h, q
    <2>2. h \in Seq(Events) /\ q \in Seq(Events)
      BY <2>1
    <2>3. Len(h) \in Nat /\ Len(q) \in Nat /\ Len(h \o q) = Len(h) + Len(q)
      BY <2>2
    <2>4. \A n \in 1..Len(h) : (h \o q)[n] = h[n]
      BY <2>2
    <2>5. /\ Len(accepted[s]) = Len(h) + Len(q)
          /\ \A n \in 1..Len(h) : h[n] = accepted[s][n]
      BY <2>1, <2>3, <2>4, Zenon
    <2>6. InOrder(s)
      BY DEF IndInv, Ordered
    <2>7. Len(h) <= Len(accepted[s])
      BY <2>3, <2>5
    <2> QED  BY <2>5, <2>6, <2>7 DEF h
  <1> QED  BY IndInvHolds, <1>1, PTL
=============================================================================
