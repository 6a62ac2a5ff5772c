------------------------- MODULE InvocationService -------------------------
(***************************************************************************)
(* The request path of the client: the callers of internal/client/invoker, *)
(* the single loop of internal/invocation.Service that owns the table of   *)
(* outstanding invocations, the write and read loops of every              *)
(* cluster.Connection, and the GroupLost notification that fails what was  *)
(* outstanding on a connection that closes.                                *)
(*                                                                         *)
(* A call is one request of the user.  Each try of the circuit breaker     *)
(* makes one invocation for it with a fresh correlation ID, so an          *)
(* invocation (and its correlation ID) is a pair <<call, attempt>>.        *)
(*                                                                         *)
(* Channels without a buffer are rendezvous: the sender waits in its own   *)
(* control state and the step of the receiver completes the exchange.  The *)
(* pending channel of a connection is buffered; its order is not kept,     *)
(* because invocations are told apart by correlation ID only.              *)
(***************************************************************************)
EXTENDS Integers, FiniteSets

CONSTANTS
    Calls,        \* requests of the user
    Conns,        \* connections the client makes during its life
    InitialConns, \* those that are open when the first request is made
    NoConn,       \* invocation.Impl.group before SetGroup
    Partition,    \* calls made with InvokeOnPartition: one shared message
    BoundTo,      \* calls made with InvokeOnConnection |-> their connection
    Urgent,       \* calls made with SendUrgentRequest
    Redo,         \* calls whose request is Retryable, or made with RedoOperation
    Expirable,    \* calls whose invocation deadline may pass
    Cancellable,  \* calls whose context may be cancelled
    MayStop,      \* whether the client may be shut down
    PendingCap,   \* capacity of Connection.pending (1024 in the code)
    MaxAttempts   \* bound on the tries of one call (math.MaxInt32 in the code)

Bound == DOMAIN BoundTo

ASSUME ConnsAssumption ==
    /\ InitialConns \subseteq Conns
    /\ NoConn \notin Conns
ASSUME CallsAssumption ==
    /\ Partition \subseteq Calls /\ Urgent \subseteq Calls /\ Redo \subseteq Calls
    /\ Expirable \subseteq Calls /\ Cancellable \subseteq Calls
    /\ Bound \subseteq Calls /\ Bound \cap Partition = {}
    /\ \A c \in Bound : BoundTo[c] \in Conns
ASSUME BoundsAssumption ==
    /\ MayStop \in BOOLEAN
    /\ PendingCap \in Nat \ {0}
    /\ MaxAttempts \in Nat \ {0}

Invs == Calls \X (1..MaxAttempts)
NoInv == <<>>

\* What an invocation is completed with.  "fatal" is any error that was
\* wrapped with cb.WrapNonRetryableError because the deadline has passed.
Errors    == {"io", "disconnected", "rejected", "fatal"}
Responses == Errors \cup {"none", "ok"}

VARIABLES
    \* callers
    pc,        \* where the goroutine of the call is
    attempt,   \* number of invocations made for the call
    expired,   \* calls whose invocation deadline has passed
    outcome,   \* what the call returned to the user
    \* invocation.Impl
    group,     \* connection the invocation was sent to
    resp,      \* what the response channel was completed with
    closedCh,  \* invocations whose response channel was closed
    \* invocation.Service
    registry,  \* Service.invocations
    svcAt, svcInv, svcConn,  \* where processIncoming is
    mu,        \* stateMu: "free", "stop" (held by Stop) or "leaked" (by Pause)
    running, done, paused,
    \* cluster.Connection
    status,    \* "new", "open" or "closed" (doneCh is closed)
    pending,   \* Connection.pending
    writer,    \* correlation ID whose write error waits in WriteResponse
    lost,      \* connections whose GroupLost was published and not received
    \* cluster.ConnectionManager
    connMap, pausing, resuming,
    \* the network and the member
    wire,      \* requests written to the socket and not yet handled
    out,       \* answers not yet read by the client
    exec,      \* how often a member executed the operation of an invocation
    late       \* history: invocations queued on a connection already closed

callerVars == <<pc, attempt, expired, outcome>>
invVars    == <<group, resp, closedCh>>
loopVars   == <<svcAt, svcInv, svcConn>>
stateVars  == <<mu, running, done, paused>>
connVars   == <<status, pending, writer, lost>>
cmVars     == <<connMap, pausing, resuming>>
netVars    == <<wire, out, exec>>
vars == <<callerVars, invVars, registry, loopVars, stateVars, connVars, cmVars,
          netVars, late>>

TypeOK ==
    /\ pc \in [Calls -> {"ready", "sending", "offering", "waiting", "done"}]
    /\ attempt \in [Calls -> 0..MaxAttempts]
    /\ expired \in SUBSET Calls
    /\ outcome \in [Calls -> {"none", "ok", "error", "cancelled", "notactive", "closed"}]
    /\ group \in [Invs -> Conns \cup {NoConn}]
    /\ resp \in [Invs -> Responses]
    /\ closedCh \in SUBSET Invs
    /\ registry \in SUBSET Invs
    /\ svcAt \in {"idle", "sending", "lost", "exited"}
    /\ svcInv \in Invs \cup {NoInv}
    /\ svcConn \in Conns \cup {NoConn}
    /\ mu \in {"free", "stop", "leaked"}
    /\ running \in BOOLEAN /\ done \in BOOLEAN /\ paused \in BOOLEAN
    /\ status \in [Conns -> {"new", "open", "closed"}]
    /\ pending \in [Conns -> SUBSET Invs]
    /\ writer \in [Conns -> Invs \cup {NoInv}]
    /\ lost \in SUBSET Conns
    /\ connMap \in SUBSET Conns
    /\ pausing \in BOOLEAN /\ resuming \in BOOLEAN
    /\ wire \in [Conns -> SUBSET Invs]
    /\ out \in [Conns -> SUBSET (Invs \X {"ok", "rejected"})]
    /\ exec \in [Invs -> Nat]
    /\ late \in SUBSET Invs

Init ==
    /\ pc = [c \in Calls |-> "ready"]
    /\ attempt = [c \in Calls |-> 0]
    /\ expired = {}
    /\ outcome = [c \in Calls |-> "none"]
    /\ group = [i \in Invs |-> NoConn]
    /\ resp = [i \in Invs |-> "none"]
    /\ closedCh = {}
    /\ registry = {}
    /\ svcAt = "idle" /\ svcInv = NoInv /\ svcConn = NoConn
    /\ mu = "free" /\ running = TRUE /\ done = FALSE /\ paused = FALSE
    /\ status = [k \in Conns |-> IF k \in InitialConns THEN "open" ELSE "new"]
    /\ pending = [k \in Conns |-> {}]
    /\ writer = [k \in Conns |-> NoInv]
    /\ lost = {}
    /\ connMap = InitialConns
    /\ pausing = FALSE /\ resuming = FALSE
    /\ wire = [k \in Conns |-> {}]
    /\ out = [k \in Conns |-> {}]
    /\ exec = [i \in Invs |-> 0]
    /\ late = {}

-----------------------------------------------------------------------------
(* invocation.Impl *)

Current(c) == <<c, attempt[c]>>

\* The correlation ID the message of an invocation carries when it is written.
\* InvokeOnPartition makes every attempt with the same message object, so an
\* attempt that still waits in a queue carries the ID of the newest attempt;
\* the other Invoke functions copy the message first.
WireID(i) == IF i[1] \in Partition THEN Current(i[1]) ELSE i

\* Mutant: the loss of the connection is always a reason to retry.
CanRetryLost(c, e) == e \in {"io", "rejected", "disconnected"}

\* Impl.MaybeCanRetry.  ConnectionBoundInvocation overrides CanRetry, but
\* Impl.unwrapResponse calls the method of Impl.
CanRetry(c, e) ==
    \/ e \in {"io", "rejected"}
    \/ e = "disconnected" /\ c \in Redo

\* Impl.Complete: only the first completion reaches the channel.
Complete(i, r) ==
    resp' = IF resp[i] = "none" THEN [resp EXCEPT ![i] = r] ELSE resp

\* Service.handleError wraps the error when the deadline has passed.
ErrorFor(i, e) == IF i[1] \in expired THEN "fatal" ELSE e

\* Service.unregisterInvocation and handleError for one correlation ID.
HandleError(i, e) ==
    IF i \in registry
    THEN registry' = registry \ {i} /\ Complete(i, ErrorFor(i, e))
    ELSE UNCHANGED <<registry, resp>>

-----------------------------------------------------------------------------
(* The callers: Invoker, CircuitBreaker.try, Service.SendRequest *)

\* The call ends and its result is returned to the user.
Return(c, r) ==
    /\ pc' = [pc EXCEPT ![c] = "done"]
    /\ outcome' = [outcome EXCEPT ![c] = r]

\* One more round of CircuitBreaker.try: a new invocation with a new
\* correlation ID, written into the shared message of a partition call.
NewInvocation(c) ==
    /\ pc[c] = "ready"
    /\ attempt[c] < MaxAttempts
    /\ c \in Bound => status[BoundTo[c]] # "new"
    /\ attempt' = [attempt EXCEPT ![c] = @ + 1]
    /\ pc' = [pc EXCEPT ![c] = "sending"]
    /\ UNCHANGED <<expired, outcome, invVars, registry, loopVars, stateVars,
                   connVars, cmVars, netVars, late>>

\* Service.SendRequest looks at paused once, before it waits for the loop.
CheckPaused(c) ==
    /\ pc[c] = "sending"
    /\ IF paused /\ c \notin Urgent
       THEN IF c \in expired
            THEN Return(c, "error")
            ELSE pc' = [pc EXCEPT ![c] = "ready"] /\ UNCHANGED outcome
       ELSE pc' = [pc EXCEPT ![c] = "offering"] /\ UNCHANGED outcome
    /\ UNCHANGED <<attempt, expired, invVars, registry, loopVars, stateVars,
                   connVars, cmVars, netVars, late>>

\* Mutant: a caller whose request was taken by the loop is told the same.
SendAfterStopAnywhere(c) ==
    /\ pc[c] \in {"offering", "waiting"}
    /\ done
    /\ Return(c, "notactive")
    /\ UNCHANGED <<attempt, expired, invVars, registry, loopVars, stateVars,
                   connVars, cmVars, netVars, late>>

\* The other cases of the select in SendRequest and SendUrgentRequest.
SendAfterStop(c) ==
    /\ pc[c] = "offering"
    /\ done
    /\ Return(c, "notactive")
    /\ UNCHANGED <<attempt, expired, invVars, registry, loopVars, stateVars,
                   connVars, cmVars, netVars, late>>

\* The context is cancelled while the call waits, in try, SendRequest or
\* GetWithContext: the invocation stays registered.
CancelCall(c) ==
    /\ c \in Cancellable
    /\ pc[c] \in {"ready", "offering", "waiting"}
    /\ Return(c, "cancelled")
    /\ UNCHANGED <<attempt, expired, invVars, registry, loopVars, stateVars,
                   connVars, cmVars, netVars, late>>

\* Impl.GetWithContext, unwrapResponse and the decision of CircuitBreaker.try.
GetResponse(c) ==
    /\ pc[c] = "waiting"
    /\ LET r == resp[Current(c)] IN
         \/ /\ r = "ok"
            /\ Return(c, "ok")
         \/ /\ r \in Errors /\ CanRetry(c, r)
            /\ pc' = [pc EXCEPT ![c] = "ready"]
            /\ UNCHANGED outcome
         \/ /\ r \in Errors /\ ~CanRetry(c, r)
            /\ Return(c, "error")
         \/ /\ r = "none" /\ Current(c) \in closedCh
            /\ Return(c, "closed")
    /\ UNCHANGED <<attempt, expired, invVars, registry, loopVars, stateVars,
                   connVars, cmVars, netVars, late>>

\* The clock passes the deadline of the call (start + InvocationTimeout).
DeadlinePasses(c) ==
    /\ c \in Expirable \ expired
    /\ pc[c] # "done"
    /\ expired' = expired \cup {c}
    /\ UNCHANGED <<pc, attempt, outcome, invVars, registry, loopVars, stateVars,
                   connVars, cmVars, netVars, late>>

-----------------------------------------------------------------------------
(* Service.processIncoming *)

\* The connections the handler may choose for a call: the bound one, or a
\* connection of the map (GetConnectionForPartition, RandomConnection).
Routes(c) == IF c \in Bound THEN {BoundTo[c]} ELSE connMap

\* The loop receives the invocation, registers it and picks a connection.
AcceptRequest(c) ==
    /\ svcAt = "idle"
    /\ pc[c] = "offering"
    /\ pc' = [pc EXCEPT ![c] = "waiting"]
    /\ \/ /\ Routes(c) = {}
          /\ Complete(Current(c), ErrorFor(Current(c), "io"))
          /\ UNCHANGED <<registry, loopVars>>
       \/ \E k \in Routes(c) :
            /\ registry' = registry \cup {Current(c)}
            /\ svcAt' = "sending" /\ svcInv' = Current(c) /\ svcConn' = k
            /\ UNCHANGED resp
    /\ UNCHANGED <<attempt, expired, outcome, group, closedCh, stateVars,
                   connVars, cmVars, netVars, late>>

LoopIdle == svcAt' = "idle" /\ svcInv' = NoInv /\ svcConn' = NoConn

\* Connection.send: the queue has room.  The select may take this case even
\* when doneCh is closed.  SetGroup follows.
SendQueued ==
    /\ svcAt = "sending"
    /\ Cardinality(pending[svcConn]) < PendingCap
    /\ pending' = [pending EXCEPT ![svcConn] = @ \cup {svcInv}]
    /\ group' = [group EXCEPT ![svcInv] = svcConn]
    /\ late' = IF status[svcConn] = "closed" THEN late \cup {svcInv} ELSE late
    /\ LoopIdle
    /\ UNCHANGED <<callerVars, resp, closedCh, registry, stateVars, status,
                   writer, lost, cmVars, netVars>>

\* Connection.send returns false: the connection is closed.
SendRefused ==
    /\ svcAt = "sending"
    /\ status[svcConn] = "closed"
    /\ HandleError(svcInv, "io")
    /\ LoopIdle
    /\ UNCHANGED <<callerVars, group, closedCh, stateVars, connVars, cmVars,
                   netVars, late>>

\* Mutant: the error of the message is not looked at.
HandleResponseUnchecked(k) ==
    /\ svcAt = "idle"
    /\ \E m \in out[k] :
         /\ out' = [out EXCEPT ![k] = @ \ {m}]
         /\ IF m[1] \in registry
            THEN registry' = registry \ {m[1]} /\ Complete(m[1], "ok")
            ELSE UNCHANGED <<registry, resp>>
    /\ UNCHANGED <<callerVars, group, closedCh, loopVars, stateVars, connVars,
                   cmVars, wire, exec, late>>

\* Service.handleClientMessage with an answer of the member.
HandleResponse(k) ==
    /\ svcAt = "idle"
    /\ \E m \in out[k] :
         /\ out' = [out EXCEPT ![k] = @ \ {m}]
         /\ IF m[2] = "rejected"
            THEN HandleError(m[1], "rejected")
            ELSE IF m[1] \in registry
                 THEN registry' = registry \ {m[1]} /\ Complete(m[1], "ok")
                 ELSE UNCHANGED <<registry, resp>>
    /\ UNCHANGED <<callerVars, group, closedCh, loopVars, stateVars, connVars,
                   cmVars, wire, exec, late>>

\* The loop receives a GroupLost event; handleGroupLost first takes stateMu.
ReceiveGroupLost(k) ==
    /\ svcAt = "idle"
    /\ k \in lost
    /\ lost' = lost \ {k}
    /\ svcAt' = "lost" /\ svcConn' = k /\ UNCHANGED svcInv
    /\ UNCHANGED <<callerVars, invVars, registry, stateVars, status, pending,
                   writer, cmVars, netVars, late>>

\* The goroutine that carries the event gives up once doneCh is closed.
DropGroupLost(k) ==
    /\ done
    /\ k \in lost
    /\ lost' = lost \ {k}
    /\ UNCHANGED <<callerVars, invVars, registry, loopVars, stateVars, status,
                   pending, writer, cmVars, netVars, late>>

\* The rest of handleGroupLost: every invocation of the group fails.
HandleGroupLost ==
    /\ svcAt = "lost"
    /\ mu = "free"
    /\ LET victims == IF running
                      THEN {i \in registry : group[i] = svcConn}
                      ELSE {} IN
         /\ registry' = registry \ victims
         /\ resp' = [i \in Invs |->
                       IF i \in victims /\ resp[i] = "none"
                       THEN ErrorFor(i, "disconnected") ELSE resp[i]]
    /\ LoopIdle
    /\ UNCHANGED <<callerVars, group, closedCh, stateVars, connVars, cmVars,
                   netVars, late>>

\* Mutant: the outstanding invocations are forgotten, not closed.
ExitLoopForgetting ==
    /\ svcAt = "idle"
    /\ done
    /\ registry' = {}
    /\ svcAt' = "exited" /\ UNCHANGED <<svcInv, svcConn>>
    /\ UNCHANGED <<callerVars, invVars, stateVars, connVars, cmVars, netVars, late>>

\* doneCh is closed: processIncoming closes what is registered and returns.
ExitLoop ==
    /\ svcAt = "idle"
    /\ done
    /\ closedCh' = closedCh \cup registry
    /\ registry' = {}
    /\ svcAt' = "exited" /\ UNCHANGED <<svcInv, svcConn>>
    /\ UNCHANGED <<callerVars, group, resp, stateVars, connVars, cmVars,
                   netVars, late>>

-----------------------------------------------------------------------------
(* Service.Stop and Service.Pause *)

\* Stop holds stateMu while it waits for the workers of the executor.
Stop ==
    /\ MayStop
    /\ mu = "free" /\ running
    /\ mu' = "stop" /\ running' = FALSE
    /\ UNCHANGED <<callerVars, invVars, registry, loopVars, done, paused,
                   connVars, cmVars, netVars, late>>

StopDone ==
    /\ mu = "stop"
    /\ done' = TRUE /\ mu' = "free"
    /\ UNCHANGED <<callerVars, invVars, registry, loopVars, running, paused,
                   connVars, cmVars, netVars, late>>

\* Pause(p): on a service that does not run it returns with stateMu locked.
Pause(p) ==
    /\ mu = "free"
    /\ IF running THEN paused' = p /\ UNCHANGED mu
                  ELSE mu' = "leaked" /\ UNCHANGED paused
    /\ UNCHANGED <<running, done>>

\* ConnectionManager.removeConnection, after the last connection is removed.
PauseInvocations ==
    /\ pausing
    /\ Pause(TRUE)
    /\ pausing' = FALSE
    /\ UNCHANGED <<callerVars, invVars, registry, loopVars, connVars, connMap,
                   resuming, netVars, late>>

\* The end of ConnectionManager.start, after a reconnection.
ResumeInvocations ==
    /\ resuming
    /\ Pause(FALSE)
    /\ resuming' = FALSE
    /\ UNCHANGED <<callerVars, invVars, registry, loopVars, connVars, connMap,
                   pausing, netVars, late>>

-----------------------------------------------------------------------------
(* cluster.Connection and cluster.ConnectionManager *)

\* A connection is made and added to the map; making one when there is none
\* is a reconnection, which ends with Pause(false).
Connect(k) ==
    /\ status[k] = "new"
    /\ status' = [status EXCEPT ![k] = "open"]
    /\ connMap' = connMap \cup {k}
    /\ resuming' = (resuming \/ (connMap = {} /\ ~pausing))
    /\ UNCHANGED <<callerVars, invVars, registry, loopVars, stateVars, pending,
                   writer, lost, pausing, netVars, late>>

\* Mutant: the connection is closed without publishing GroupLost.
CloseSilently(k) ==
    /\ status[k] = "open"
    /\ status' = [status EXCEPT ![k] = "closed"]
    /\ UNCHANGED <<callerVars, invVars, registry, loopVars, stateVars, pending,
                   writer, lost, cmVars, netVars, late>>

\* Connection.close, by the read loop, the heartbeat or ConnectionManager.Stop.
Close(k) ==
    /\ status[k] = "open"
    /\ status' = [status EXCEPT ![k] = "closed"]
    /\ lost' = lost \cup {k}
    /\ UNCHANGED <<callerVars, invVars, registry, loopVars, stateVars, pending,
                   writer, cmVars, netVars, late>>

\* ConnectionManager.handleConnectionEvent for a closed connection.
RemoveConnection(k) ==
    /\ status[k] = "closed"
    /\ k \in connMap
    /\ connMap' = connMap \ {k}
    /\ pausing' = (pausing \/ connMap' = {})
    /\ UNCHANGED <<callerVars, invVars, registry, loopVars, stateVars, connVars,
                   resuming, netVars, late>>

\* socketWriteLoop takes a request and writes it.
WriteRequest(k) ==
    /\ writer[k] = NoInv
    /\ status[k] = "open"
    /\ \E i \in pending[k] :
         /\ pending' = [pending EXCEPT ![k] = @ \ {i}]
         /\ wire' = [wire EXCEPT ![k] = @ \cup {WireID(i)}]
    /\ UNCHANGED <<callerVars, invVars, registry, loopVars, stateVars, status,
                   writer, lost, cmVars, out, exec, late>>

\* The write fails, or ends in a buffer that is never flushed because the
\* connection is closed.
WriteFails(k) ==
    /\ writer[k] = NoInv
    /\ status[k] # "new"
    /\ \E i \in pending[k] :
         /\ pending' = [pending EXCEPT ![k] = @ \ {i}]
         /\ \/ writer' = [writer EXCEPT ![k] = WireID(i)]
            \/ status[k] = "closed" /\ UNCHANGED writer
    /\ UNCHANGED <<callerVars, invVars, registry, loopVars, stateVars, status,
                   lost, cmVars, netVars, late>>

\* The error of a write is handed to the loop, then the connection closes.
ReportWriteError(k) ==
    /\ writer[k] # NoInv
    /\ \/ svcAt = "idle" /\ HandleError(writer[k], "io")
       \/ done /\ UNCHANGED <<registry, resp>>
    /\ writer' = [writer EXCEPT ![k] = NoInv]
    /\ status' = [status EXCEPT ![k] = "closed"]
    /\ lost' = IF status[k] = "open" THEN lost \cup {k} ELSE lost
    /\ UNCHANGED <<callerVars, group, closedCh, loopVars, stateVars, pending,
                   cmVars, netVars, late>>

-----------------------------------------------------------------------------
(* The member, seen from the client *)

\* The member executes a request and answers.
Execute(k) ==
    \E i \in wire[k] :
      /\ wire' = [wire EXCEPT ![k] = @ \ {i}]
      /\ exec' = [exec EXCEPT ![i] = @ + 1]
      /\ out' = [out EXCEPT ![k] = @ \cup {<<i, "ok">>}]
      /\ UNCHANGED <<callerVars, invVars, registry, loopVars, stateVars,
                     connVars, cmVars, late>>

\* The member refuses a request with a retryable error, without executing it.
Reject(k) ==
    \E i \in wire[k] :
      /\ wire' = [wire EXCEPT ![k] = @ \ {i}]
      /\ out' = [out EXCEPT ![k] = @ \cup {<<i, "rejected">>}]
      /\ UNCHANGED <<callerVars, invVars, registry, loopVars, stateVars,
                     connVars, cmVars, exec, late>>

-----------------------------------------------------------------------------
Caller(c) ==
    \/ NewInvocation(c) \/ CheckPaused(c) \/ SendAfterStop(c)
    \/ CancelCall(c) \/ GetResponse(c) \/ DeadlinePasses(c)

Loop ==
    \/ \E c \in Calls : AcceptRequest(c)
    \/ SendQueued \/ SendRefused
    \/ \E k \in Conns : HandleResponse(k) \/ ReceiveGroupLost(k) \/ DropGroupLost(k)
    \/ HandleGroupLost \/ ExitLoop

Connection(k) ==
    \/ Connect(k) \/ Close(k) \/ RemoveConnection(k)
    \/ WriteRequest(k) \/ WriteFails(k) \/ ReportWriteError(k)

Next ==
    \/ \E c \in Calls : Caller(c)
    \/ Loop
    \/ Stop \/ StopDone \/ PauseInvocations \/ ResumeInvocations
    \/ \E k \in Conns : Connection(k) \/ Execute(k) \/ Reject(k)

Spec == Init /\ [][Next]_vars

\* The loop, the write loops and the callers are goroutines that run whenever
\* they can.  A Go select chooses at random among the cases that are ready, so
\* a case that is ready again and again is taken: strong fairness.  A member
\* answers on a connection that stays open; a socket whose write failed is
\* noticed by the read loop or by the heartbeat; ConnectionManager.Stop, which
\* follows Service.Stop in Client.Shutdown, closes every connection.
Fairness ==
    /\ \A c \in Calls :
         /\ WF_vars(NewInvocation(c)) /\ WF_vars(CheckPaused(c))
         /\ WF_vars(SendAfterStop(c)) /\ WF_vars(GetResponse(c))
         /\ SF_vars(AcceptRequest(c))
    /\ WF_vars(SendQueued) /\ WF_vars(SendRefused) /\ WF_vars(HandleGroupLost)
    /\ SF_vars(ExitLoop)
    /\ WF_vars(StopDone) /\ WF_vars(PauseInvocations) /\ WF_vars(ResumeInvocations)
    /\ \A k \in Conns :
         /\ SF_vars(HandleResponse(k)) /\ SF_vars(ReceiveGroupLost(k))
         /\ SF_vars(ReportWriteError(k))
         /\ WF_vars(WriteRequest(k)) /\ WF_vars(RemoveConnection(k))
         /\ WF_vars(status[k] = "open" /\ (Execute(k) \/ Reject(k)))
         /\ WF_vars(Close(k) /\ (done \/ writer[k] # NoInv))

FairSpec == Spec /\ Fairness

-----------------------------------------------------------------------------
(* Properties *)

\* A request that is not Retryable and was not made with RedoOperation is
\* executed at most once by the members, however often its sending is retried:
\* Impl.MaybeCanRetry retries it only after errors that mean it was not executed.
AtMostOnceUnlessRedo ==
    \A i, j \in Invs :
        i[1] = j[1] /\ i[1] \notin Redo =>
            /\ exec[i] <= 1
            /\ i # j => exec[i] = 0 \/ exec[j] = 0

\* A call returns successfully only if a member executed its last attempt: no
\* answer is matched with an invocation it does not belong to.
OkMeansExecuted ==
    \A c \in Calls : outcome[c] = "ok" => exec[Current(c)] > 0

\* An I/O error ("packet not sent", "writing message") is reported for an
\* invocation only if its request never left the client.  A partition call that
\* may be redone is excluded: its attempts share one message, and the write
\* error of an old attempt is reported under the ID of the newest one.
OnSocket(i) == \E k \in Conns : i \in wire[k] \/ \E r \in {"ok", "rejected"} : <<i, r>> \in out[k]
IoMeansNotSent ==
    \A i \in Invs :
        resp[i] = "io" /\ i[1] \notin (Partition \cap Redo) => exec[i] = 0 /\ ~OnSocket(i)

\* Connection.close fails everything that was outstanding on the connection
\* through GroupLost.  Whatever is still registered for a closed connection after
\* that was queued when the connection was closed already (Connection.send).
OrphansAreLateSends ==
    \A i \in registry :
        (running /\ i # svcInv) =>
            /\ group[i] \in Conns
            /\ status[group[i]] = "closed" =>
                 \/ group[i] \in lost
                 \/ svcAt = "lost" /\ svcConn = group[i]
                 \/ i \in late

\* The request path implements RemoteCall: the rounds of CircuitBreaker.try, the
\* loop, the queues and the write loops together look to the user like one call
\* that is told one result, and a request that must not be redone has no effect,
\* then or later, once SendRequest has said that the client is not active.
Promise == INSTANCE RemoteCall WITH
    begun <- {c \in Calls : attempt[c] > 0}, told <- outcome,
    executions <- exec, Tries <- 1..MaxAttempts
ImplementsRemoteCall == Promise!Spec

\* GetWithContext ends for every invocation the loop has taken: by an answer, a
\* write error, GroupLost or the end of the loop.  The exceptions are the late
\* sends above, and a loop that waits for the mutex Pause left locked.
WaitEnds ==
    \A c \in Calls :
        pc[c] = "waiting" ~> pc[c] # "waiting" \/ Current(c) \in late \/ mu = "leaked"
=============================================================================
