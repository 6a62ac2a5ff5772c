--------------------------- MODULE EventDispatch ---------------------------
(***************************************************************************)
(* internal/event.DispatchService: goroutines publish events, subscribe,   *)
(* unsubscribe and stop the service, and every subscription has a worker   *)
(* that handles its events in the order of its queue.  A handler may       *)
(* publish in its turn, as ConnectionManager.handleConnectionEvent does.   *)
(*                                                                         *)
(* subscriptionsMu and the mutex of a subscription are Go RWMutexes: a     *)
(* writer that waits keeps new readers out.  Who holds or awaits them      *)
(* follows from where the goroutines are (pc), so they are operators.      *)
(***************************************************************************)
EXTENDS Integers, Sequences, FiniteSets

CONSTANTS
    Subs,          \* subscriptions
    InitialSubs,   \* those that exist from the start
    NameOf,        \* the event name of a subscription
    Publishers,    \* goroutines that publish
    PublishTo,     \* the name of the events a publisher, or a handler, publishes
    Unsubscribers, \* a goroutine that calls Unsubscribe |-> the subscription
    Subscribers,   \* a goroutine that calls Subscribe |-> the subscription
    Stopper,       \* the goroutine that calls Stop
    QueueCap,      \* capacity of subscription.orderCh (1024 in the code)
    MaxEvents      \* bound on the events of one publisher

Republishers == Subs \cap DOMAIN PublishTo
Threads == Publishers \cup DOMAIN Unsubscribers \cup DOMAIN Subscribers
             \cup {Stopper} \cup Subs
PubThreads == Publishers \cup Republishers
Events == PubThreads \X (1..MaxEvents)

ASSUME SubsAssumption ==
    /\ InitialSubs \subseteq Subs
    /\ \A u \in DOMAIN Unsubscribers : Unsubscribers[u] \in Subs
    /\ \A u \in DOMAIN Subscribers : Subscribers[u] \in Subs
ASSUME PublishAssumption == PubThreads \subseteq DOMAIN PublishTo
\* A goroutine does one thing.
ASSUME ThreadsAssumption ==
    /\ PubThreads \cap (DOMAIN Unsubscribers \cup DOMAIN Subscribers \cup {Stopper}) = {}
    /\ Publishers \cap Subs = {}
    /\ DOMAIN Unsubscribers \cap (DOMAIN Subscribers \cup {Stopper} \cup Subs) = {}
    /\ DOMAIN Subscribers \cap ({Stopper} \cup Subs) = {}
    /\ Stopper \notin Subs
ASSUME BoundsAssumption == QueueCap \in Nat \ {0} /\ MaxEvents \in Nat \ {0}

VARIABLES
    pc,       \* where a goroutine is
    cur,      \* the subscriptions a goroutine has still to visit
    at,       \* the subscription it is at
    count,    \* events a goroutine has published
    stopped,  \* DispatchService.state
    members,  \* the subscriptions in DispatchService.subscriptions
    queue,    \* subscription.orderCh, after the event that is being handled
    closed,   \* subscriptions whose orderCh is closed
    worker,   \* "idle", "busy" (in the handler) or "ended", and "none"
    accepted, \* history: events a subscription accepted, in order
    handled   \* history: events whose handler has returned, in order

vars == <<pc, cur, at, count, stopped, members, queue, closed, worker,
          accepted, handled>>

Pcs == {"idle", "rlock", "each", "send", "sublock", "drain",
        "tolock", "wlock", "done"}

\* The events in the channel: the one being handled has left it.
Buffered(s) == Len(queue[s]) - (IF worker[s] = "busy" THEN 1 ELSE 0)

\* The types of the variables; a channel holds no more than its capacity.
TypeOK ==
    /\ pc \in [Threads -> Pcs]
    /\ cur \in [Threads -> SUBSET Subs]
    /\ at \in [Threads -> SUBSET Subs]
    /\ count \in [PubThreads -> 0..MaxEvents]
    /\ stopped \in BOOLEAN
    /\ members \in SUBSET Subs
    /\ queue \in [Subs -> Seq(Events)]
    /\ \A s \in Subs : Buffered(s) \in 0..QueueCap
    /\ closed \in SUBSET Subs
    /\ worker \in [Subs -> {"none", "idle", "busy", "ended"}]
    /\ accepted \in [Subs -> Seq(Events)]
    /\ handled \in [Subs -> Seq(Events)]

Init ==
    /\ pc = [t \in Threads |-> "idle"]
    /\ cur = [t \in Threads |-> {}]
    /\ at = [t \in Threads |-> {}]
    /\ count = [t \in PubThreads |-> 0]
    /\ stopped = FALSE
    /\ members = InitialSubs
    /\ queue = [s \in Subs |-> <<>>]
    /\ closed = {}
    /\ worker = [s \in Subs |-> IF s \in InitialSubs THEN "idle" ELSE "none"]
    /\ accepted = [s \in Subs |-> <<>>]
    /\ handled = [s \in Subs |-> <<>>]

-----------------------------------------------------------------------------
(* The mutexes *)

\* Goroutines that hold subscriptionsMu for reading, and that wait to write.
Readers == {t \in Threads : pc[t] \in {"each", "send", "sublock", "drain"}}
Writers == {t \in Threads : pc[t] = "wlock"}
CanRLock == Writers = {}
CanLock  == Readers = {}

\* Goroutines that hold the mutex of s for reading; s is free for a reader when
\* nobody waits to stop it or is stopping it.
SubReaders(s)  == {t \in Threads : pc[t] = "send" /\ at[t] = {s}}
CanRLockSub(s) == \A t \in Threads : ~(pc[t] \in {"sublock", "drain"} /\ at[t] = {s})
CanLockSub(s)  == /\ SubReaders(s) = {}
                  /\ \A t \in Threads : ~(pc[t] = "drain" /\ at[t] = {s})

-----------------------------------------------------------------------------
(* DispatchService.Publish and subscription.Publish *)

\* The goroutine t may call Publish: a publisher between two events, or the
\* worker of a subscription inside its handler, once per handled event.
MayPublish(t) ==
    /\ t \in PubThreads /\ pc[t] = "idle"
    /\ count[t] < MaxEvents
    /\ t \in Republishers => worker[t] = "busy" /\ count[t] = Len(handled[t])

Publish(t) ==
    /\ MayPublish(t)
    /\ IF stopped
       THEN count' = [count EXCEPT ![t] = @ + 1] /\ UNCHANGED pc
       ELSE pc' = [pc EXCEPT ![t] = "rlock"] /\ UNCHANGED count
    /\ UNCHANGED <<cur, at, stopped, members, queue, closed, worker, accepted, handled>>

\* Publish takes subscriptionsMu and starts to visit the subscriptions.
PublishLocked(t) ==
    /\ t \in PubThreads /\ pc[t] = "rlock"
    /\ CanRLock
    /\ count' = [count EXCEPT ![t] = @ + 1]
    /\ cur' = [cur EXCEPT ![t] = {s \in members : NameOf[s] = PublishTo[t]}]
    /\ pc' = [pc EXCEPT ![t] = "each"]
    /\ UNCHANGED <<at, stopped, members, queue, closed, worker, accepted, handled>>

PublishReturns(t) ==
    /\ pc' = [pc EXCEPT ![t] = "idle"]
    /\ cur' = [cur EXCEPT ![t] = {}]
    /\ at' = [at EXCEPT ![t] = {}]

\* The next subscription in the order of the map: a closed one ends the loop.
PublishNext(t) ==
    /\ t \in PubThreads /\ pc[t] = "each"
    /\ \/ /\ cur[t] = {}
          /\ PublishReturns(t)
       \/ \E s \in cur[t] :
            /\ CanRLockSub(s)
            /\ IF s \in closed
               THEN PublishReturns(t)
               ELSE /\ pc' = [pc EXCEPT ![t] = "send"]
                    /\ at' = [at EXCEPT ![t] = {s}]
                    /\ UNCHANGED cur
    /\ UNCHANGED <<count, stopped, members, queue, closed, worker, accepted, handled>>

\* orderCh <- event, which waits while the queue is full.
PublishSent(t) ==
    /\ t \in PubThreads /\ pc[t] = "send"
    /\ \E s \in at[t] :
         /\ Buffered(s) < QueueCap
         /\ queue' = [queue EXCEPT ![s] = Append(@, <<t, count[t]>>)]
         /\ accepted' = [accepted EXCEPT ![s] = Append(@, <<t, count[t]>>)]
         /\ cur' = [cur EXCEPT ![t] = @ \ {s}]
    /\ pc' = [pc EXCEPT ![t] = "each"]
    /\ at' = [at EXCEPT ![t] = {}]
    /\ UNCHANGED <<count, stopped, members, closed, worker, handled>>

-----------------------------------------------------------------------------
(* The worker of a subscription, made by NewSubscription *)

Handle(s) ==
    /\ worker[s] = "idle"
    /\ queue[s] # <<>>
    /\ worker' = [worker EXCEPT ![s] = "busy"]
    /\ UNCHANGED <<pc, cur, at, count, stopped, members, queue, closed,
                   accepted, handled>>

\* Mutant: the latest event is handled first.
HandlerReturnsLatest(s) ==
    /\ worker[s] = "busy"
    /\ s \in Republishers =>
         pc[s] = "idle" /\ (count[s] > Len(handled[s]) \/ count[s] = MaxEvents)
    /\ handled' = [handled EXCEPT ![s] = Append(@, queue[s][Len(queue[s])])]
    /\ queue' = [queue EXCEPT ![s] = SubSeq(@, 1, Len(@) - 1)]
    /\ worker' = [worker EXCEPT ![s] = "idle"]
    /\ UNCHANGED <<pc, cur, at, count, stopped, members, closed, accepted>>

\* The handler returns; one that publishes has done so by then.
HandlerReturns(s) ==
    /\ worker[s] = "busy"
    /\ s \in Republishers =>
         pc[s] = "idle" /\ (count[s] > Len(handled[s]) \/ count[s] = MaxEvents)
    /\ handled' = [handled EXCEPT ![s] = Append(@, Head(queue[s]))]
    /\ queue' = [queue EXCEPT ![s] = Tail(@)]
    /\ worker' = [worker EXCEPT ![s] = "idle"]
    /\ UNCHANGED <<pc, cur, at, count, stopped, members, closed, accepted>>

\* The channel is closed and empty: closedWg.Done.
WorkerEnds(s) ==
    /\ worker[s] = "idle"
    /\ s \in closed /\ queue[s] = <<>>
    /\ worker' = [worker EXCEPT ![s] = "ended"]
    /\ UNCHANGED <<pc, cur, at, count, stopped, members, queue, closed,
                   accepted, handled>>

-----------------------------------------------------------------------------
(* subscription.Stop, called by Unsubscribe and DispatchService.Stop *)

\* Mutant: orderCh is not closed.
StopLockedOpen(t) ==
    /\ pc[t] = "sublock"
    /\ \E s \in at[t] : CanLockSub(s)
    /\ pc' = [pc EXCEPT ![t] = "drain"]
    /\ UNCHANGED <<cur, at, count, stopped, members, queue, closed,
                   worker, accepted, handled>>

\* The goroutine has subscriptionsMu and waits for the mutex of s.
StopLocked(t) ==
    /\ pc[t] = "sublock"
    /\ \E s \in at[t] :
         /\ CanLockSub(s)
         /\ closed' = closed \cup {s}
    /\ pc' = [pc EXCEPT ![t] = "drain"]
    /\ UNCHANGED <<cur, at, count, stopped, members, queue, worker,
                   accepted, handled>>

\* Mutant: Stop does not wait for the worker.
StopDrainedEarly(t) ==
    /\ pc[t] = "drain"
    /\ pc' = [pc EXCEPT ![t] = IF t = Stopper THEN "each" ELSE "tolock"]
    /\ at' = [at EXCEPT ![t] = {}]
    /\ UNCHANGED <<cur, count, stopped, members, queue, closed, worker,
                   accepted, handled>>

\* closedWg.Wait is over, or the subscription was closed before.
StopDrained(t) ==
    /\ pc[t] = "drain"
    /\ \A s \in at[t] : worker[s] = "ended"
    /\ pc' = [pc EXCEPT ![t] = IF t = Stopper THEN "each" ELSE "tolock"]
    /\ at' = [at EXCEPT ![t] = {}]
    /\ UNCHANGED <<cur, count, stopped, members, queue, closed, worker,
                   accepted, handled>>

-----------------------------------------------------------------------------
(* Unsubscribe, Subscribe and Stop *)

\* Unsubscribe on a stopped service does nothing.
Unsubscribe(u) ==
    /\ u \in DOMAIN Unsubscribers /\ pc[u] = "idle"
    /\ pc' = [pc EXCEPT ![u] = IF stopped THEN "done" ELSE "rlock"]
    /\ UNCHANGED <<cur, at, count, stopped, members, queue, closed,
                   worker, accepted, handled>>

UnsubscribeLocked(u) ==
    /\ u \in DOMAIN Unsubscribers /\ pc[u] = "rlock"
    /\ CanRLock
    /\ IF Unsubscribers[u] \in members
       THEN /\ at' = [at EXCEPT ![u] = {Unsubscribers[u]}]
            /\ pc' = [pc EXCEPT ![u] = "sublock"]
       ELSE /\ pc' = [pc EXCEPT ![u] = "tolock"]
            /\ UNCHANGED at
    /\ UNCHANGED <<cur, count, stopped, members, queue, closed, worker,
                   accepted, handled>>

\* subscriptionsMu.Lock is called: from here on it keeps new readers out.
AskLock(u) ==
    /\ pc[u] = "tolock"
    /\ pc' = [pc EXCEPT ![u] = "wlock"]
    /\ UNCHANGED <<cur, at, count, stopped, members, queue, closed,
                   worker, accepted, handled>>

UnsubscribeDeleted(u) ==
    /\ u \in DOMAIN Unsubscribers /\ pc[u] = "wlock"
    /\ CanLock
    /\ members' = members \ {Unsubscribers[u]}
    /\ pc' = [pc EXCEPT ![u] = "done"]
    /\ UNCHANGED <<cur, at, count, stopped, queue, closed, worker,
                   accepted, handled>>

Subscribe(u) ==
    /\ u \in DOMAIN Subscribers /\ pc[u] = "idle"
    /\ pc' = [pc EXCEPT ![u] = IF stopped THEN "done" ELSE "tolock"]
    /\ UNCHANGED <<cur, at, count, stopped, members, queue, closed,
                   worker, accepted, handled>>

\* A new subscription is added and its worker started; an ID in use is refused.
\* One that was unsubscribed may be added again: what it was is garbage by then.
SubscribeAdded(u) ==
    /\ u \in DOMAIN Subscribers /\ pc[u] = "wlock"
    /\ CanLock
    /\ LET s == Subscribers[u] IN
         IF s \in members
         THEN UNCHANGED <<members, closed, worker>>
         ELSE /\ members' = members \cup {s}
              /\ closed' = closed \ {s}
              /\ worker' = [worker EXCEPT ![s] = "idle"]
    /\ pc' = [pc EXCEPT ![u] = "done"]
    /\ UNCHANGED <<cur, at, count, stopped, queue, accepted, handled>>

StopService ==
    /\ pc[Stopper] = "idle"
    /\ stopped' = TRUE
    /\ pc' = [pc EXCEPT ![Stopper] = "rlock"]
    /\ UNCHANGED <<cur, at, count, members, queue, closed, worker,
                   accepted, handled>>

StopServiceLocked ==
    /\ pc[Stopper] = "rlock"
    /\ CanRLock
    /\ cur' = [cur EXCEPT ![Stopper] = members]
    /\ pc' = [pc EXCEPT ![Stopper] = "each"]
    /\ UNCHANGED <<at, count, stopped, members, queue, closed, worker,
                   accepted, handled>>

StopServiceNext ==
    /\ pc[Stopper] = "each"
    /\ \/ /\ cur[Stopper] = {}
          /\ pc' = [pc EXCEPT ![Stopper] = "done"]
          /\ UNCHANGED <<cur, at>>
       \/ \E s \in cur[Stopper] :
            /\ cur' = [cur EXCEPT ![Stopper] = @ \ {s}]
            /\ at' = [at EXCEPT ![Stopper] = {s}]
            /\ pc' = [pc EXCEPT ![Stopper] = "sublock"]
    /\ UNCHANGED <<count, stopped, members, queue, closed, worker,
                   accepted, handled>>

-----------------------------------------------------------------------------
PublishStep(t) == Publish(t) \/ PublishLocked(t) \/ PublishNext(t) \/ PublishSent(t)
WorkerStep(s)  == Handle(s) \/ HandlerReturns(s) \/ WorkerEnds(s)
StopStep(t)    == StopLocked(t) \/ StopDrained(t)
ListenStep(u)  == \/ Unsubscribe(u) \/ UnsubscribeLocked(u) \/ UnsubscribeDeleted(u)
                  \/ Subscribe(u) \/ SubscribeAdded(u) \/ AskLock(u)
ServiceStop    == StopService \/ StopServiceLocked \/ StopServiceNext

Next ==
    \/ \E t \in Threads : PublishStep(t) \/ StopStep(t) \/ ListenStep(t)
    \/ \E s \in Subs : WorkerStep(s)
    \/ ServiceStop

Spec == Init /\ [][Next]_vars

\* What a goroutine does inside a call that it has begun.
InCall(t) == \/ PublishLocked(t) \/ PublishNext(t) \/ PublishSent(t) \/ StopStep(t)
             \/ UnsubscribeLocked(t) \/ UnsubscribeDeleted(t) \/ SubscribeAdded(t)
             \/ AskLock(t)
InStop == StopStep(Stopper) \/ StopServiceLocked \/ StopServiceNext

\* A goroutine inside a call runs when it can, the mutexes and the channels
\* starve nobody and handlers return; nobody has to begin a call.
FairSpec ==
    /\ Spec
    /\ \A t \in Threads \ {Stopper} : SF_vars(InCall(t))
    /\ SF_vars(InStop)
    /\ \A s \in Republishers : WF_vars(Publish(s))
    /\ \A s \in Subs : WF_vars(WorkerStep(s))

-----------------------------------------------------------------------------
(* Properties *)

\* The subscription s was stopped and the goroutine that stopped it went on.
Gone(s) == s \in closed /\ \A t \in Threads : ~(pc[t] = "drain" /\ at[t] = {s})

\* "Stop ... makes sure that ... all successful publishes will end before
\* returning": when a subscription is gone, each event it accepted was handled,
\* and its handler does not run.
StoppedIsDrained ==
    \A s \in Subs : Gone(s) => handled[s] = accepted[s] /\ worker[s] = "ended"

\* "Events fired from the same thread for the same subscription will be handled
\* in the same order", each once: what was handled is a prefix of what was
\* accepted, and the events of one goroutine were accepted in their order.
HandledInOrder ==
    \A s \in Subs :
        /\ Len(handled[s]) <= Len(accepted[s])
        /\ \A n \in 1..Len(handled[s]) : handled[s][n] = accepted[s][n]
        /\ \A m, n \in 1..Len(accepted[s]) :
             m < n /\ accepted[s][m][1] = accepted[s][n][1]
                 => accepted[s][m][2] < accepted[s][n][2]

\* The circle of dispatch_service.go:136: Unsubscribe or Stop keeps subscriptionsMu
\* for reading while it waits for a handler, a writer that waits keeps new readers out,
\* and the handler publishes.  Nobody in it, and no later Publish, goes on.
Circle ==
    /\ Writers # {}
    /\ \E s \in Republishers : /\ pc[s] = "rlock"
                               /\ \E t \in Threads : pc[t] = "drain" /\ at[t] = {s}

\* Every Publish, Subscribe, Unsubscribe and Stop that was begun returns, whatever the
\* queues and the other calls, except when the circle above closes: it is the only way
\* in which the mutexes of the service and of its subscriptions block one another.
EveryCallReturns ==
    \A t \in Threads : pc[t] \notin {"idle", "done"} ~> pc[t] \in {"idle", "done"} \/ Circle
=============================================================================
