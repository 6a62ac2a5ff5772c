---------------------- MODULE InvocationServiceProofs ----------------------
(***************************************************************************)
(* Proofs about InvocationService, for any number of calls, connections    *)
(* and attempts and any capacity of the queues.                            *)
(*                                                                         *)
(* AtMostOnceUnlessRedo is not inductive.  The argument behind it is that  *)
(* an invocation of a call that must not be redone is in at most one place *)
(* at a time (the loop, one queue, one write error, one socket, or         *)
(* executed), and that the errors after which the call is retried are      *)
(* reported only for an invocation that is in none of them.                *)
(***************************************************************************)
EXTENDS InvocationService, TLAPS

\* The invocations the proof is about.
Once == {i \in Invs : i[1] \notin Redo}

\* The request of the invocation is somewhere from where it may be executed.
InPlay(i) ==
    \/ svcInv = i
    \/ \E k \in Conns : i \in pending[k] \/ writer[k] = i \/ i \in wire[k]
Dead(i) == ~InPlay(i) /\ exec[i] = 0

\* The invocation was refused, or failed before it was written.
Spent(i) ==
    \/ resp[i] \in {"io", "rejected"}
    \/ \E k \in Conns : <<i, "rejected">> \in out[k]

\* The loop has not received the invocation yet.
Fresh(i) ==
    \/ i[2] > attempt[i[1]]
    \/ i[2] = attempt[i[1]] /\ pc[i[1]] \in {"sending", "offering"}

\* What the control states say of the variables that go with them.
Started ==
    /\ \A c \in Calls : pc[c] \in {"sending", "offering", "waiting"} => attempt[c] >= 1
    /\ \A k \in Conns : \A i \in pending[k] : attempt[i[1]] >= 1
    /\ svcAt = "sending" =>
         svcInv \in Invs /\ svcConn \in Conns /\ attempt[svcInv[1]] >= 1
    /\ svcAt # "sending" => svcInv = NoInv
    /\ svcAt = "lost" => svcConn \in Conns

\* The request is in one place at most, and not executed while it is in one.
InOnePlace(i) ==
    /\ exec[i] <= 1
    /\ InPlay(i) => exec[i] = 0
    /\ svcInv = i => \A k \in Conns : i \notin pending[k] /\ writer[k] # i /\ i \notin wire[k]
    /\ \A k, l \in Conns :
         /\ i \in pending[k] => writer[l] # i /\ i \notin wire[l]
         /\ writer[k] = i => i \notin wire[l]
         /\ k # l => /\ ~(i \in pending[k] /\ i \in pending[l])
                     /\ ~(writer[k] = i /\ writer[l] = i)
                     /\ ~(i \in wire[k] /\ i \in wire[l])

\* Only the attempt the caller waits for, or gave up waiting for, is in play.
PlayedByCaller(i) ==
    \/ Dead(i)
    \/ i[2] = attempt[i[1]] /\ pc[i[1]] \in {"waiting", "done"}

Accounted(i) ==
    /\ InOnePlace(i)
    /\ Spent(i) => Dead(i)
    /\ PlayedByCaller(i)
    /\ Fresh(i) => ~Spent(i)

IndInv == TypeOK /\ Started /\ \A i \in Once : Accounted(i)

\* The invocations whose message is their own, or stays theirs because no new
\* attempt is made while it is in play.
Own == {i \in Invs : i[1] \notin (Partition \cap Redo)}

\* An answer to the invocation that the client has not read.
Answered(i) == \E k \in Conns, r \in {"ok", "rejected"} : <<i, r>> \in out[k]

\* An invocation is answered once its request has left every place, and one that
\* the loop has not received, or that failed with an I/O error, has left no trace.
Traced(i) ==
    /\ InOnePlace(i)
    /\ Answered(i) => ~InPlay(i)
    /\ Fresh(i) => Dead(i) /\ ~Answered(i) /\ resp[i] # "io"
    /\ resp[i] = "io" => Dead(i) /\ ~Answered(i)

\* Success is what a member said.
Truthful ==
    /\ \A k \in Conns, i \in Invs : <<i, "ok">> \in out[k] => exec[i] > 0
    /\ \A i \in Invs : resp[i] = "ok" => exec[i] > 0
    /\ \A c \in Calls : outcome[c] = "ok" => pc[c] = "done" /\ attempt[c] >= 1
    /\ OkMeansExecuted

\* What the connections and the shutdown leave to OrphansAreLateSends.
Notified ==
    /\ done \/ mu = "stop" => ~running
    /\ \A k \in Conns : writer[k] # NoInv => status[k] # "new"
    /\ OrphansAreLateSends

-----------------------------------------------------------------------------
(* Type correctness *)

LEMMA InitTyped == Init => TypeOK /\ Started
  <1> SUFFICES ASSUME Init PROVE TypeOK /\ Started
    OBVIOUS
  <1>1. TypeOK
    <2>1. attempt \in [Calls -> 0..MaxAttempts]
      BY BoundsAssumption DEF Init
    <2>2. status \in [Conns -> {"new", "open", "closed"}]
      BY DEF Init
    <2>3. resp \in [Invs -> Responses] /\ exec \in [Invs -> Nat]
      BY DEF Init, Responses
    <2> QED
      BY <2>1, <2>2, <2>3, ConnsAssumption DEF Init, TypeOK
  <1>2. Started
    BY DEF Init, Started
  <1> QED  BY <1>1, <1>2

\* The invocation of the current attempt, once there was one, is an invocation.
LEMMA CurrentTyped ==
    ASSUME TypeOK, NEW c \in Calls, attempt[c] >= 1
    PROVE  Current(c) \in Invs /\ Current(c)[1] = c /\ Current(c)[2] = attempt[c]
  BY BoundsAssumption DEF TypeOK, Current, Invs

\* The correlation ID written for a queued invocation belongs to the same call.
LEMMA WireIDTyped ==
    ASSUME TypeOK, Started, NEW k \in Conns, NEW i \in pending[k]
    PROVE  i \in Invs /\ WireID(i) \in Invs /\ WireID(i)[1] = i[1]
  <1>1. i \in Invs /\ i[1] \in Calls /\ attempt[i[1]] >= 1
    BY DEF TypeOK, Started, Invs
  <1>2. Current(i[1]) \in Invs /\ Current(i[1])[1] = i[1]
    BY <1>1, CurrentTyped
  <1> QED  BY <1>1, <1>2 DEF WireID

LEMMA NoInvIsNone == NoInv \notin Invs
  BY DEF NoInv, Invs

LEMMA ErrorForTyped ==
    ASSUME NEW i, NEW e \in Errors
    PROVE  ErrorFor(i, e) \in Errors
  BY DEF ErrorFor, Errors

LEMMA CompleteTyped ==
    ASSUME TypeOK, NEW i \in Invs, NEW r \in Responses, Complete(i, r)
    PROVE  resp' \in [Invs -> Responses]
  BY DEF Complete, TypeOK

LEMMA HandleErrorTyped ==
    ASSUME TypeOK, NEW i, NEW e \in Errors, HandleError(i, e)
    PROVE  registry' \in SUBSET Invs /\ resp' \in [Invs -> Responses]
  BY ErrorForTyped, CompleteTyped DEF HandleError, TypeOK, Responses

\* Every step keeps the types.
LEMMA StepTyped == TypeOK /\ Started /\ [Next]_vars => TypeOK' /\ Started'
  <1> SUFFICES ASSUME TypeOK, Started, [Next]_vars PROVE TypeOK' /\ Started'
    OBVIOUS
  <1> USE DEF callerVars, invVars, loopVars, stateVars, connVars, cmVars, netVars
  <1>1. ASSUME NEW c \in Calls, NewInvocation(c) PROVE TypeOK' /\ Started'
    <2>1. \A k \in Conns : \A i \in pending[k] : i[1] \in Calls
      BY DEF TypeOK, Invs
    <2> QED
      BY <1>1, <2>1, BoundsAssumption DEF NewInvocation, TypeOK, Started, Invs
  <1>2. ASSUME NEW c \in Calls, CheckPaused(c) PROVE TypeOK' /\ Started'
    BY <1>2 DEF CheckPaused, TypeOK, Started, Return
  <1>3. ASSUME NEW c \in Calls, SendAfterStop(c) PROVE TypeOK' /\ Started'
    BY <1>3 DEF SendAfterStop, TypeOK, Started, Return
  <1>4. ASSUME NEW c \in Calls, CancelCall(c) PROVE TypeOK' /\ Started'
    BY <1>4 DEF CancelCall, TypeOK, Started, Return
  <1>5. ASSUME NEW c \in Calls, GetResponse(c) PROVE TypeOK' /\ Started'
    BY <1>5 DEF GetResponse, TypeOK, Started, Return
  <1>6. ASSUME NEW c \in Calls, DeadlinePasses(c) PROVE TypeOK' /\ Started'
    BY <1>6 DEF DeadlinePasses, TypeOK, Started, Return
  <1>7. ASSUME NEW c \in Calls, AcceptRequest(c) PROVE TypeOK' /\ Started'
    <2>1. Current(c) \in Invs /\ Current(c)[1] = c /\ attempt[c] >= 1
      BY <1>7, CurrentTyped DEF AcceptRequest, Started
    <2>2. Routes(c) \subseteq Conns
      BY CallsAssumption DEF Routes, TypeOK
    <2>3. ErrorFor(Current(c), "io") \in Responses
      BY DEF ErrorFor, Responses, Errors
    <2>4. resp' \in [Invs -> Responses]
      BY <1>7, <2>1, <2>3 DEF AcceptRequest, Complete, TypeOK
    <2> QED
      BY <1>7, <2>1, <2>2, <2>4, NoInvIsNone DEF AcceptRequest, TypeOK, Started
  <1>8. CASE SendQueued
    BY <1>8 DEF SendQueued, TypeOK, Started, LoopIdle, Pause
  <1>9. CASE SendRefused
    <2>1. registry' \in SUBSET Invs /\ resp' \in [Invs -> Responses]
      BY <1>9, HandleErrorTyped DEF SendRefused, Errors
    <2> QED
      BY <1>9, <2>1 DEF SendRefused, TypeOK, Started, LoopIdle
  <1>10. CASE HandleGroupLost
    <2>1. \A i \in Invs : ErrorFor(i, "disconnected") \in Responses
      BY DEF ErrorFor, Responses, Errors
    <2>2. registry' \in SUBSET Invs /\ resp' \in [Invs -> Responses]
      BY <1>10, <2>1 DEF HandleGroupLost, TypeOK
    <2> QED
      BY <1>10, <2>2 DEF HandleGroupLost, TypeOK, Started, LoopIdle
  <1>11. CASE ExitLoop
    BY <1>11 DEF ExitLoop, TypeOK, Started, LoopIdle, Pause
  <1>12. CASE Stop
    BY <1>12 DEF Stop, TypeOK, Started, LoopIdle, Pause
  <1>13. CASE StopDone
    BY <1>13 DEF StopDone, TypeOK, Started, LoopIdle, Pause
  <1>14. CASE PauseInvocations
    BY <1>14 DEF PauseInvocations, TypeOK, Started, LoopIdle, Pause
  <1>15. CASE ResumeInvocations
    BY <1>15 DEF ResumeInvocations, TypeOK, Started, LoopIdle, Pause
  <1>16. ASSUME NEW k \in Conns, HandleResponse(k) PROVE TypeOK' /\ Started'
    <2>1. PICK m \in out[k] :
             /\ out' = [out EXCEPT ![k] = @ \ {m}]
             /\ \/ HandleError(m[1], "rejected")
                \/ /\ m[1] \in registry
                   /\ registry' = registry \ {m[1]}
                   /\ Complete(m[1], "ok")
                \/ UNCHANGED <<registry, resp>>
      BY <1>16 DEF HandleResponse
    <2>2. registry' \in SUBSET Invs /\ resp' \in [Invs -> Responses]
      BY <2>1, HandleErrorTyped, CompleteTyped DEF TypeOK, Responses, Errors
    <2>3. out' \in [Conns -> SUBSET (Invs \X {"ok", "rejected"})]
      BY <2>1 DEF TypeOK
    <2> QED
      BY <1>16, <2>2, <2>3 DEF HandleResponse, TypeOK, Started
  <1>17. ASSUME NEW k \in Conns, ReceiveGroupLost(k) PROVE TypeOK' /\ Started'
    BY <1>17 DEF ReceiveGroupLost, TypeOK, Started
  <1>18. ASSUME NEW k \in Conns, DropGroupLost(k) PROVE TypeOK' /\ Started'
    BY <1>18 DEF DropGroupLost, TypeOK, Started
  <1>19. ASSUME NEW k \in Conns, Connect(k) PROVE TypeOK' /\ Started'
    BY <1>19 DEF Connect, TypeOK, Started
  <1>20. ASSUME NEW k \in Conns, Close(k) PROVE TypeOK' /\ Started'
    BY <1>20 DEF Close, TypeOK, Started
  <1>21. ASSUME NEW k \in Conns, RemoveConnection(k) PROVE TypeOK' /\ Started'
    BY <1>21 DEF RemoveConnection, TypeOK, Started
  <1>22. ASSUME NEW k \in Conns, WriteRequest(k) PROVE TypeOK' /\ Started'
    <2>1. PICK i \in pending[k] :
             /\ pending' = [pending EXCEPT ![k] = @ \ {i}]
             /\ wire' = [wire EXCEPT ![k] = @ \cup {WireID(i)}]
      BY <1>22 DEF WriteRequest
    <2>2. WireID(i) \in Invs
      BY WireIDTyped
    <2> QED
      BY <1>22, <2>1, <2>2 DEF WriteRequest, TypeOK, Started
  <1>23. ASSUME NEW k \in Conns, WriteFails(k) PROVE TypeOK' /\ Started'
    <2>1. PICK i \in pending[k] :
             /\ pending' = [pending EXCEPT ![k] = @ \ {i}]
             /\ writer' = [writer EXCEPT ![k] = WireID(i)] \/ writer' = writer
      BY <1>23 DEF WriteFails
    <2>2. WireID(i) \in Invs
      BY WireIDTyped
    <2> QED
      BY <1>23, <2>1, <2>2 DEF WriteFails, TypeOK, Started
  <1>24. ASSUME NEW k \in Conns, ReportWriteError(k) PROVE TypeOK' /\ Started'
    <2>1. registry' \in SUBSET Invs /\ resp' \in [Invs -> Responses]
      BY <1>24, HandleErrorTyped DEF ReportWriteError, Errors, TypeOK
    <2> QED
      BY <1>24, <2>1 DEF ReportWriteError, TypeOK, Started
  <1>25. ASSUME NEW k \in Conns, Execute(k) PROVE TypeOK' /\ Started'
    BY <1>25 DEF Execute, TypeOK, Started
  <1>26. ASSUME NEW k \in Conns, Reject(k) PROVE TypeOK' /\ Started'
    BY <1>26 DEF Reject, TypeOK, Started
  <1>27. CASE UNCHANGED vars
    BY <1>27 DEF vars, TypeOK, Started
  <1> QED
    BY <1>1, <1>2, <1>3, <1>4, <1>5, <1>6, <1>7, <1>8, <1>9, <1>10, <1>11, <1>12, <1>13, <1>14, <1>15, <1>16, <1>17, <1>18, <1>19, <1>20, <1>21, <1>22, <1>23, <1>24, <1>25, <1>26, <1>27 DEF Next, Caller, Loop, Connection

-----------------------------------------------------------------------------
(* At most once *)

LEMMA OnceTyped ==
    ASSUME NEW i \in Once
    PROVE  i \in Invs /\ i[1] \in Calls /\ i[1] \notin Redo /\ i[2] \in 1..MaxAttempts
           /\ i = <<i[1], i[2]>>
  BY DEF Once, Invs

\* A queued invocation that must not be redone is written under its own ID.
LEMMA OnceWireID ==
    ASSUME IndInv, NEW k \in Conns, NEW j \in pending[k], NEW i \in Once, WireID(j) = i
    PROVE  j = i
  <1>1. j \in Invs /\ j[1] = i[1]
    BY WireIDTyped DEF IndInv
  <1>2. j \in Once
    BY <1>1, OnceTyped DEF Once
  <1>3. j[2] = attempt[j[1]]
    BY <1>2 DEF IndInv, Accounted, PlayedByCaller, Dead, InPlay
  <1>4. WireID(j) = j
    BY <1>2, <1>3, OnceTyped DEF WireID, Current
  <1> QED  BY <1>4

\* What is in play was received by the loop.
LEMMA PlayedIsNotFresh ==
    ASSUME TypeOK, NEW i \in Once, Accounted(i), InPlay(i)
    PROVE  ~Fresh(i)
  <1>1. i[2] = attempt[i[1]] /\ pc[i[1]] \in {"waiting", "done"}
    BY DEF Accounted, PlayedByCaller, Dead
  <1>2. i[2] \in Int
    BY OnceTyped, BoundsAssumption
  <1> QED  BY <1>1, <1>2 DEF Fresh

LEMMA InitAccounted == Init => \A i \in Once : Accounted(i)
  <1> SUFFICES ASSUME Init, NEW i \in Once PROVE Accounted(i)
    OBVIOUS
  <1>1. i \in Invs /\ i # NoInv
    BY OnceTyped, NoInvIsNone
  <1>2. Dead(i) /\ ~Spent(i)
    BY <1>1 DEF Init, Dead, InPlay, Spent
  <1>3. InOnePlace(i)
    BY <1>1 DEF Init, InOnePlace, InPlay
  <1> QED  BY <1>2, <1>3 DEF Accounted, PlayedByCaller

\* The predicates above read only a few of the variables.
LEMMA SamePlace ==
    ASSUME NEW i, UNCHANGED <<svcInv, pending, writer, wire, exec>>
    PROVE  (InOnePlace(i)' <=> InOnePlace(i)) /\ (Dead(i)' <=> Dead(i))
  BY DEF InOnePlace, InPlay, Dead

LEMMA SameFate ==
    ASSUME NEW i, UNCHANGED <<resp, out>>
    PROVE  Spent(i)' <=> Spent(i)
  BY DEF Spent

\* A completion writes one response channel.
LEMMA CompleteEffect ==
    ASSUME TypeOK, NEW i \in Invs, NEW j, NEW r, Complete(j, r)
    PROVE  resp'[i] = resp[i] \/ (i = j /\ resp'[i] = r)
  BY DEF Complete, TypeOK

LEMMA HandleErrorEffect ==
    ASSUME TypeOK, NEW i \in Invs, NEW j, NEW e, HandleError(j, e)
    PROVE  resp'[i] = resp[i] \/ (i = j /\ resp'[i] \in {e, "fatal"})
  BY CompleteEffect DEF HandleError, ErrorFor

\* Every step keeps an invocation that must not be redone accounted for.
LEMMA StepAccounted ==
    ASSUME IndInv, [Next]_vars, TypeOK', NEW i \in Once
    PROVE  Accounted(i)'
  <1> USE DEF callerVars, invVars, loopVars, stateVars, connVars, cmVars, netVars
  <1>0. TypeOK /\ Started /\ Accounted(i) /\ i # NoInv
    BY OnceTyped, NoInvIsNone DEF IndInv
  <1>t. i \in Invs /\ i[1] \in Calls /\ i[1] \notin Redo /\ i[2] \in 1..MaxAttempts
        /\ i = <<i[1], i[2]>>
    BY OnceTyped
  <1>1. ASSUME NEW c \in Calls, NewInvocation(c) PROVE Accounted(i)'
    BY <1>0, <1>t, <1>1 DEF NewInvocation, TypeOK, Return,
       Accounted, InOnePlace, PlayedByCaller, InPlay, Dead, Spent, Fresh
  <1>2. ASSUME NEW c \in Calls, CheckPaused(c) PROVE Accounted(i)'
    <2>1. (InOnePlace(i)' <=> InOnePlace(i)) /\ (Dead(i)' <=> Dead(i))
      BY <1>2, SamePlace DEF CheckPaused
    <2>2. Spent(i)' <=> Spent(i)
      BY <1>2, SameFate DEF CheckPaused
    <2> QED
      BY <1>0, <1>t, <1>2, <2>1, <2>2 DEF CheckPaused, TypeOK, Return, Accounted, PlayedByCaller, Fresh
  <1>3. ASSUME NEW c \in Calls, SendAfterStop(c) PROVE Accounted(i)'
    <2>1. (InOnePlace(i)' <=> InOnePlace(i)) /\ (Dead(i)' <=> Dead(i))
      BY <1>3, SamePlace DEF SendAfterStop
    <2>2. Spent(i)' <=> Spent(i)
      BY <1>3, SameFate DEF SendAfterStop
    <2> QED
      BY <1>0, <1>t, <1>3, <2>1, <2>2 DEF SendAfterStop, TypeOK, Return, Accounted, PlayedByCaller, Fresh
  <1>4. ASSUME NEW c \in Calls, CancelCall(c) PROVE Accounted(i)'
    <2>1. (InOnePlace(i)' <=> InOnePlace(i)) /\ (Dead(i)' <=> Dead(i))
      BY <1>4, SamePlace DEF CancelCall
    <2>2. Spent(i)' <=> Spent(i)
      BY <1>4, SameFate DEF CancelCall
    <2> QED
      BY <1>0, <1>t, <1>4, <2>1, <2>2 DEF CancelCall, TypeOK, Return, Accounted, PlayedByCaller, Fresh
  <1>5. ASSUME NEW c \in Calls, GetResponse(c) PROVE Accounted(i)'
    <2>1. (InOnePlace(i)' <=> InOnePlace(i)) /\ (Dead(i)' <=> Dead(i))
      BY <1>5, SamePlace DEF GetResponse
    <2>2. Spent(i)' <=> Spent(i)
      BY <1>5, SameFate DEF GetResponse
    <2>3. CASE UNCHANGED pc
      BY <1>0, <1>5, <2>1, <2>2, <2>3 DEF GetResponse, Accounted, PlayedByCaller, Fresh
    <2>4. CASE pc' = [pc EXCEPT ![c] = "done"]
      BY <1>0, <1>t, <1>5, <2>1, <2>2, <2>4 DEF GetResponse, TypeOK, Accounted, PlayedByCaller, Fresh
    <2>5. CASE pc' = [pc EXCEPT ![c] = "ready"] /\ CanRetry(c, resp[Current(c)])
      <3>1. i = Current(c) => Dead(i)
        BY <1>0, <1>t, <2>5 DEF CanRetry, Current, Accounted, Spent
      <3>2. i[1] = c => Dead(i)
        BY <1>0, <1>t, <3>1 DEF Current, Accounted, PlayedByCaller
      <3> QED
        BY <1>0, <1>t, <1>5, <2>1, <2>2, <2>5, <3>2
           DEF GetResponse, TypeOK, Accounted, PlayedByCaller, Fresh
    <2> QED  BY <1>5, <2>3, <2>4, <2>5 DEF GetResponse, Return
  <1>6. ASSUME NEW c \in Calls, DeadlinePasses(c) PROVE Accounted(i)'
    BY <1>0, <1>t, <1>6 DEF DeadlinePasses, TypeOK, Return,
       Accounted, InOnePlace, PlayedByCaller, InPlay, Dead, Spent, Fresh
  <1>7. ASSUME NEW c \in Calls, AcceptRequest(c) PROVE Accounted(i)'
    <2>1. pc[c] = "offering" /\ pc' = [pc EXCEPT ![c] = "waiting"] /\ attempt' = attempt
      BY <1>7 DEF AcceptRequest
    <2>2. UNCHANGED <<pending, writer, wire, exec, out>> /\ svcInv = NoInv
      BY <1>0, <1>7 DEF AcceptRequest, Started
    <2>3. i = Current(c) => Dead(i) /\ ~Spent(i)
      BY <1>0, <1>t, <2>1 DEF Accounted, PlayedByCaller, Fresh, Current
    <2>4. i[1] = c /\ i # Current(c) => Dead(i)
      BY <1>0, <1>t DEF Accounted, PlayedByCaller, Current
    <2>5. CASE svcInv' = svcInv
      <3>1. (InOnePlace(i)' <=> InOnePlace(i)) /\ (Dead(i)' <=> Dead(i))
        BY <2>2, <2>5, SamePlace
      <3>2. i # Current(c) => (Spent(i)' <=> Spent(i))
        <4>1. i # Current(c) => resp'[i] = resp[i]
          BY <1>0, <1>t, <1>7, CompleteEffect DEF AcceptRequest
        <4> QED  BY <2>2, <4>1 DEF Spent
      <3>3. i = Current(c) => ~Fresh(i)'
        BY <1>0, <1>t, <2>1 DEF Fresh, Current, TypeOK
      <3> QED
        BY <1>0, <1>t, <2>1, <2>3, <2>4, <3>1, <3>2, <3>3
           DEF TypeOK, Accounted, PlayedByCaller, Fresh
    <2>6. CASE svcInv' = Current(c) /\ resp' = resp
      <3>1. Spent(i)' <=> Spent(i)
        BY <2>2, <2>6, SameFate
      <3>2. CASE i # Current(c)
        <4>1. (InOnePlace(i)' <=> InOnePlace(i)) /\ (Dead(i)' <=> Dead(i))
          BY <1>0, <2>2, <2>6, <3>2 DEF InOnePlace, Dead, InPlay
        <4> QED
          BY <1>0, <1>t, <2>1, <2>4, <3>1, <3>2, <4>1
             DEF TypeOK, Accounted, PlayedByCaller, Fresh
      <3>3. CASE i = Current(c)
        <4>1. InOnePlace(i)'
          BY <2>2, <2>3, <2>6, <3>3 DEF InOnePlace, Dead, InPlay
        <4>2. ~Spent(i)' /\ i[1] = c /\ i[2] = attempt[c]
          BY <1>t, <2>3, <3>1, <3>3 DEF Current
        <4> QED
          BY <2>1, <4>1, <4>2 DEF TypeOK, Accounted, PlayedByCaller, Spent
      <3> QED  BY <3>2, <3>3
    <2> QED  BY <1>7, <2>5, <2>6 DEF AcceptRequest
  <1>8. CASE SendQueued
    <2>1. svcConn \in Conns
      BY <1>0, <1>8 DEF SendQueued, Started
    <2>2. /\ UNCHANGED <<writer, wire, exec, resp, out, attempt, pc>>
          /\ pending' = [pending EXCEPT ![svcConn] = @ \cup {svcInv}]
          /\ svcInv' = NoInv
      BY <1>8 DEF SendQueued, LoopIdle
    <2>3. InOnePlace(i)' /\ (Dead(i)' <=> Dead(i))
      BY <1>0, <2>1, <2>2 DEF TypeOK, Accounted, InOnePlace, InPlay, Dead
    <2>4. Spent(i)' <=> Spent(i)
      BY <2>2, SameFate
    <2> QED
      BY <1>0, <2>2, <2>3, <2>4 DEF Accounted, PlayedByCaller, Fresh
  <1>9. CASE SendRefused
    <2>1. UNCHANGED <<pending, writer, wire, exec, out, attempt, pc>> /\ svcInv' = NoInv
      BY <1>9 DEF SendRefused, LoopIdle
    <2>2. resp'[i] = resp[i] \/ (i = svcInv /\ resp'[i] \in {"io", "fatal"})
      BY <1>0, <1>t, <1>9, HandleErrorEffect DEF SendRefused
    <2>3. /\ InOnePlace(i)' /\ (Dead(i) => Dead(i)') /\ (i = svcInv => Dead(i)')
          /\ i = svcInv => ~Fresh(i)
      <3>1. InOnePlace(i)' /\ (Dead(i) => Dead(i)') /\ (i = svcInv => Dead(i)')
        BY <1>0, <2>1 DEF TypeOK, Accounted, InOnePlace, InPlay, Dead
      <3>2. i = svcInv => ~Fresh(i)
        BY <1>0, PlayedIsNotFresh DEF InPlay
      <3> QED  BY <3>1, <3>2
    <2>4. Spent(i)' => Spent(i) \/ i = svcInv
      BY <2>1, <2>2 DEF Spent
    <2> QED
      BY <1>0, <2>1, <2>3, <2>4 DEF Accounted, PlayedByCaller, Fresh
  <1>10. CASE HandleGroupLost
    <2>1. svcInv = NoInv
      BY <1>0, <1>10 DEF HandleGroupLost, Started
    <2>2. UNCHANGED <<svcInv, pending, writer, wire, exec, out, attempt, pc>>
      BY <1>10, <2>1 DEF HandleGroupLost, LoopIdle
    <2>3. (InOnePlace(i)' <=> InOnePlace(i)) /\ (Dead(i)' <=> Dead(i))
      BY <2>2, SamePlace
    <2>4. resp'[i] = resp[i] \/ resp'[i] \in {"disconnected", "fatal"}
      BY <1>t, <1>10 DEF HandleGroupLost, ErrorFor
    <2>5. Spent(i)' => Spent(i)
      BY <2>2, <2>4 DEF Spent
    <2> QED
      BY <1>0, <2>2, <2>3, <2>5 DEF Accounted, PlayedByCaller, Fresh
  <1>11. CASE ExitLoop
    BY <1>0, <1>t, <1>11 DEF ExitLoop, TypeOK, Started, LoopIdle, Pause,
       Accounted, InOnePlace, PlayedByCaller, InPlay, Dead, Spent, Fresh
  <1>12. CASE Stop
    BY <1>0, <1>t, <1>12 DEF Stop, TypeOK, Started, LoopIdle, Pause,
       Accounted, InOnePlace, PlayedByCaller, InPlay, Dead, Spent, Fresh
  <1>13. CASE StopDone
    BY <1>0, <1>t, <1>13 DEF StopDone, TypeOK, Started, LoopIdle, Pause,
       Accounted, InOnePlace, PlayedByCaller, InPlay, Dead, Spent, Fresh
  <1>14. CASE PauseInvocations
    BY <1>0, <1>t, <1>14 DEF PauseInvocations, TypeOK, Started, LoopIdle, Pause,
       Accounted, InOnePlace, PlayedByCaller, InPlay, Dead, Spent, Fresh
  <1>15. CASE ResumeInvocations
    BY <1>0, <1>t, <1>15 DEF ResumeInvocations, TypeOK, Started, LoopIdle, Pause,
       Accounted, InOnePlace, PlayedByCaller, InPlay, Dead, Spent, Fresh
  <1>16. ASSUME NEW k \in Conns, HandleResponse(k) PROVE Accounted(i)'
    <2>1. PICK m \in out[k] :
             /\ out' = [out EXCEPT ![k] = @ \ {m}]
             /\ \/ m[2] = "rejected" /\ HandleError(m[1], "rejected")
                \/ Complete(m[1], "ok")
                \/ UNCHANGED resp
      BY <1>16 DEF HandleResponse
    <2>2. UNCHANGED <<svcInv, pending, writer, wire, exec, attempt, pc>>
      BY <1>16 DEF HandleResponse
    <2>3. (InOnePlace(i)' <=> InOnePlace(i)) /\ (Dead(i)' <=> Dead(i))
      BY <2>2, SamePlace
    <2>4. m = <<m[1], m[2]>>
      BY <1>0 DEF TypeOK
    <2>5. \/ resp'[i] = resp[i] \/ resp'[i] \in {"ok", "fatal"}
          \/ <<i, "rejected">> \in out[k]
      BY <1>0, <1>t, <2>1, <2>4, CompleteEffect, HandleErrorEffect
    <2>6. Spent(i)' => Spent(i)
      BY <1>0, <2>1, <2>5 DEF Spent, TypeOK
    <2> QED
      BY <1>0, <2>2, <2>3, <2>6 DEF Accounted, PlayedByCaller, Fresh
  <1>17. ASSUME NEW k \in Conns, ReceiveGroupLost(k) PROVE Accounted(i)'
    BY <1>0, <1>t, <1>17 DEF ReceiveGroupLost, TypeOK,
       Accounted, InOnePlace, PlayedByCaller, InPlay, Dead, Spent, Fresh
  <1>18. ASSUME NEW k \in Conns, DropGroupLost(k) PROVE Accounted(i)'
    BY <1>0, <1>t, <1>18 DEF DropGroupLost, TypeOK,
       Accounted, InOnePlace, PlayedByCaller, InPlay, Dead, Spent, Fresh
  <1>19. ASSUME NEW k \in Conns, Connect(k) PROVE Accounted(i)'
    BY <1>0, <1>t, <1>19 DEF Connect, TypeOK,
       Accounted, InOnePlace, PlayedByCaller, InPlay, Dead, Spent, Fresh
  <1>20. ASSUME NEW k \in Conns, Close(k) PROVE Accounted(i)'
    BY <1>0, <1>t, <1>20 DEF Close, TypeOK,
       Accounted, InOnePlace, PlayedByCaller, InPlay, Dead, Spent, Fresh
  <1>21. ASSUME NEW k \in Conns, RemoveConnection(k) PROVE Accounted(i)'
    BY <1>0, <1>t, <1>21 DEF RemoveConnection, TypeOK,
       Accounted, InOnePlace, PlayedByCaller, InPlay, Dead, Spent, Fresh
  <1>22. ASSUME NEW k \in Conns, WriteRequest(k) PROVE Accounted(i)'
    <2>1. PICK j \in pending[k] :
             /\ pending' = [pending EXCEPT ![k] = @ \ {j}]
             /\ wire' = [wire EXCEPT ![k] = @ \cup {WireID(j)}]
      BY <1>22 DEF WriteRequest
    <2>2. UNCHANGED <<svcInv, writer, exec, resp, out, attempt, pc>>
      BY <1>22 DEF WriteRequest
    <2>3. WireID(j) = i => j = i
      BY OnceWireID
    <2>4. j = i => WireID(j) = i
      <3> HAVE j = i
      <3>1. i[2] = attempt[i[1]]
        BY <1>0 DEF Accounted, PlayedByCaller, Dead, InPlay
      <3> QED  BY <1>t, <3>1 DEF WireID, Current
    <2>5. InOnePlace(i)' /\ (Dead(i)' <=> Dead(i))
      BY <1>0, <2>1, <2>2, <2>3, <2>4 DEF TypeOK, Accounted, InOnePlace, InPlay, Dead
    <2>6. Spent(i)' <=> Spent(i)
      BY <2>2, SameFate
    <2> QED
      BY <1>0, <2>2, <2>5, <2>6 DEF Accounted, PlayedByCaller, Fresh
  <1>23. ASSUME NEW k \in Conns, WriteFails(k) PROVE Accounted(i)'
    <2>1. PICK j \in pending[k] :
             /\ pending' = [pending EXCEPT ![k] = @ \ {j}]
             /\ writer' = [writer EXCEPT ![k] = WireID(j)] \/ writer' = writer
      BY <1>23 DEF WriteFails
    <2>2. UNCHANGED <<svcInv, wire, exec, resp, out, attempt, pc>> /\ writer[k] = NoInv
      BY <1>23 DEF WriteFails
    <2>3. WireID(j) = i => j = i
      BY OnceWireID
    <2>4. InOnePlace(i)' /\ (Dead(i) => Dead(i)')
      BY <1>0, <2>1, <2>2, <2>3 DEF TypeOK, Accounted, InOnePlace, InPlay, Dead
    <2>5. Spent(i)' <=> Spent(i)
      BY <2>2, SameFate
    <2> QED
      BY <1>0, <2>2, <2>4, <2>5 DEF Accounted, PlayedByCaller, Fresh
  <1>24. ASSUME NEW k \in Conns, ReportWriteError(k) PROVE Accounted(i)'
    <2>1. /\ UNCHANGED <<svcInv, pending, wire, exec, out, attempt, pc>>
          /\ writer' = [writer EXCEPT ![k] = NoInv]
      BY <1>24 DEF ReportWriteError
    <2>2. resp'[i] = resp[i] \/ (i = writer[k] /\ resp'[i] \in {"io", "fatal"})
      BY <1>0, <1>t, <1>24, HandleErrorEffect DEF ReportWriteError
    <2>3. /\ InOnePlace(i)' /\ (Dead(i) => Dead(i)') /\ (i = writer[k] => Dead(i)')
          /\ i = writer[k] => ~Fresh(i)
      <3>1. InOnePlace(i)' /\ (Dead(i) => Dead(i)') /\ (i = writer[k] => Dead(i)')
        BY <1>0, <2>1 DEF TypeOK, Accounted, InOnePlace, InPlay, Dead
      <3>2. i = writer[k] => ~Fresh(i)
        BY <1>0, PlayedIsNotFresh DEF InPlay
      <3> QED  BY <3>1, <3>2
    <2>4. Spent(i)' => Spent(i) \/ i = writer[k]
      BY <2>1, <2>2 DEF Spent
    <2> QED
      BY <1>0, <2>1, <2>3, <2>4 DEF Accounted, PlayedByCaller, Fresh
  <1>25. ASSUME NEW k \in Conns, Execute(k) PROVE Accounted(i)'
    <2>1. PICK j \in wire[k] :
             /\ wire' = [wire EXCEPT ![k] = @ \ {j}]
             /\ exec' = [exec EXCEPT ![j] = @ + 1]
             /\ out' = [out EXCEPT ![k] = @ \cup {<<j, "ok">>}]
      BY <1>25 DEF Execute
    <2>2. UNCHANGED <<svcInv, pending, writer, resp, attempt, pc>>
      BY <1>25 DEF Execute
    <2>3. InOnePlace(i)' /\ (Dead(i) => Dead(i)')
      BY <1>0, <1>t, <2>1, <2>2 DEF TypeOK, Accounted, InOnePlace, InPlay, Dead
    <2>4. Spent(i)' => Spent(i)
      BY <1>0, <2>1, <2>2 DEF TypeOK, Spent
    <2> QED
      BY <1>0, <2>2, <2>3, <2>4 DEF Accounted, PlayedByCaller, Fresh
  <1>26. ASSUME NEW k \in Conns, Reject(k) PROVE Accounted(i)'
    <2>1. PICK j \in wire[k] :
             /\ wire' = [wire EXCEPT ![k] = @ \ {j}]
             /\ out' = [out EXCEPT ![k] = @ \cup {<<j, "rejected">>}]
      BY <1>26 DEF Reject
    <2>2. UNCHANGED <<svcInv, pending, writer, exec, resp, attempt, pc>>
      BY <1>26 DEF Reject
    <2>3. InOnePlace(i)' /\ (Dead(i) => Dead(i)') /\ (i = j => Dead(i)' /\ ~Fresh(i))
      BY <1>0, <1>t, <2>1, <2>2
         DEF TypeOK, Accounted, InOnePlace, PlayedByCaller, InPlay, Dead, Fresh
    <2>4. Spent(i)' => Spent(i) \/ i = j
      BY <1>0, <2>1, <2>2 DEF TypeOK, Spent
    <2> QED
      BY <1>0, <2>2, <2>3, <2>4 DEF Accounted, PlayedByCaller, Fresh
  <1>27. CASE UNCHANGED vars
    BY <1>0, <1>27 DEF vars, Accounted, InOnePlace, PlayedByCaller, InPlay, Dead, Spent, Fresh
  <1> QED
    BY <1>1, <1>2, <1>3, <1>4, <1>5, <1>6, <1>7, <1>8, <1>9, <1>10, <1>11, <1>12, <1>13, <1>14, <1>15, <1>16, <1>17, <1>18, <1>19, <1>20, <1>21, <1>22, <1>23, <1>24, <1>25, <1>26, <1>27 DEF Next, Caller, Loop, Connection

-----------------------------------------------------------------------------
(* I/O errors *)

LEMMA OwnTyped ==
    ASSUME NEW i \in Own
    PROVE  i \in Invs /\ i[1] \in Calls /\ i[2] \in 1..MaxAttempts /\ i = <<i[1], i[2]>> /\ i # NoInv
  BY NoInvIsNone DEF Own, Invs

\* The message of a queued invocation is written under its own ID.
LEMMA OwnWireID ==
    ASSUME IndInv, NEW k \in Conns, NEW j \in pending[k], NEW i \in Own
    PROVE  WireID(j) = i <=> j = i
  <1>1. j \in Invs /\ WireID(j)[1] = j[1]
    BY WireIDTyped DEF IndInv
  <1>2. CASE i[1] \notin Partition
    BY <1>1, <1>2 DEF WireID
  <1>3. CASE i[1] \in Partition
    <2>1. i \in Once
      BY <1>3 DEF Own, Once
    <2>2. WireID(j) = i => j = i
      BY <2>1, OnceWireID
    <2>3. j = i => WireID(j) = i
      <3> HAVE j = i
      <3>1. i[2] = attempt[i[1]]
        BY <2>1 DEF IndInv, Accounted, PlayedByCaller, Dead, InPlay
      <3> QED  BY <2>1, <3>1, OnceTyped DEF WireID, Current
    <2> QED  BY <2>2, <2>3
  <1> QED  BY <1>2, <1>3

LEMMA SameAnswers ==
    ASSUME NEW i, out' = out
    PROVE  Answered(i)' <=> Answered(i)
  BY DEF Answered

\* Only a new try makes an attempt known, and the loop then receives it.
LEMMA FreshShrinks ==
    ASSUME TypeOK, [Next]_vars, NEW i \in Own
    PROVE  Fresh(i)' => Fresh(i)
  <1> USE DEF callerVars, invVars, loopVars, stateVars, connVars, cmVars, netVars
  <1>0. i[1] \in Calls /\ i[2] \in Int /\ \A c \in Calls : attempt[c] \in Int
    BY OwnTyped, BoundsAssumption DEF TypeOK
  <1>1. ASSUME NEW c \in Calls, NewInvocation(c) PROVE Fresh(i)' => Fresh(i)
    BY <1>0, <1>1 DEF NewInvocation, Fresh, TypeOK
  <1>2. ASSUME NEW c \in Calls, CheckPaused(c) \/ SendAfterStop(c) \/ CancelCall(c) \/ GetResponse(c) \/ AcceptRequest(c)
        PROVE  Fresh(i)' => Fresh(i)
    <2>1. /\ attempt' = attempt
          /\ \/ pc[c] = "sending" /\ (\E p \in {"ready", "offering", "done"} : pc' = [pc EXCEPT ![c] = p])
             \/ \E p \in {"ready", "waiting", "done"} : pc' = [pc EXCEPT ![c] = p]
      BY <1>2 DEF CheckPaused, SendAfterStop, CancelCall, GetResponse, AcceptRequest, Return
    <2>2. \A d \in Calls : pc'[d] \in {"sending", "offering"} => pc[d] \in {"sending", "offering"}
      BY <2>1 DEF TypeOK
    <2> QED  BY <1>0, <2>1, <2>2 DEF Fresh
  <1>3. ASSUME UNCHANGED <<attempt, pc>> PROVE Fresh(i)' => Fresh(i)
    BY <1>3 DEF Fresh
  <1>4. ASSUME NEW c \in Calls, DeadlinePasses(c) PROVE UNCHANGED <<attempt, pc>>
    BY <1>4 DEF DeadlinePasses
  <1>5. ASSUME SendQueued \/ SendRefused \/ HandleGroupLost \/ ExitLoop PROVE UNCHANGED <<attempt, pc>>
    BY <1>5 DEF SendQueued, SendRefused, HandleGroupLost, ExitLoop
  <1>6. ASSUME Stop \/ StopDone \/ PauseInvocations \/ ResumeInvocations PROVE UNCHANGED <<attempt, pc>>
    BY <1>6 DEF Stop, StopDone, PauseInvocations, ResumeInvocations
  <1>7. ASSUME NEW k \in Conns, HandleResponse(k) \/ ReceiveGroupLost(k) \/ DropGroupLost(k)
        PROVE  UNCHANGED <<attempt, pc>>
    BY <1>7 DEF HandleResponse, ReceiveGroupLost, DropGroupLost
  <1>8. ASSUME NEW k \in Conns, Connection(k) PROVE UNCHANGED <<attempt, pc>>
    BY <1>8 DEF Connection, Connect, Close, RemoveConnection, WriteRequest, WriteFails, ReportWriteError
  <1>9. ASSUME NEW k \in Conns, Execute(k) \/ Reject(k) PROVE UNCHANGED <<attempt, pc>>
    BY <1>9 DEF Execute, Reject
  <1>10. CASE UNCHANGED vars
    BY <1>3, <1>10 DEF vars
  <1> QED  BY <1>1, <1>2, <1>3, <1>4, <1>5, <1>6, <1>7, <1>8, <1>9, <1>10 DEF Next, Caller, Loop

\* Every step keeps track of an invocation.
LEMMA StepTraced ==
    ASSUME IndInv, [Next]_vars, NEW i \in Own, Traced(i)
    PROVE  Traced(i)'
  <1> USE DEF callerVars, invVars, loopVars, stateVars, connVars, cmVars, netVars
  <1>0. TypeOK /\ Started /\ i \in Invs /\ i # NoInv /\ (Fresh(i)' => Fresh(i)) /\ (InPlay(i) => ~Dead(i))
    BY OwnTyped, FreshShrinks DEF IndInv, Dead
  <1>1. ASSUME UNCHANGED <<svcInv, pending, writer, wire, exec, out>>, resp'[i] = resp[i] \/ resp'[i] # "io"
        PROVE  Traced(i)'
    <2>1. (InOnePlace(i)' <=> InOnePlace(i)) /\ (Dead(i)' <=> Dead(i)) /\ (InPlay(i)' <=> InPlay(i))
      BY <1>1, SamePlace DEF InPlay
    <2>2. Answered(i)' <=> Answered(i)
      BY <1>1, SameAnswers
    <2> QED  BY <1>0, <1>1, <2>1, <2>2 DEF Traced
  <1>2. ASSUME NEW c \in Calls, Caller(c) PROVE Traced(i)'
    <2>1. UNCHANGED <<svcInv, pending, writer, wire, exec, out, resp>>
      BY <1>2 DEF Caller, NewInvocation, CheckPaused, SendAfterStop, CancelCall, GetResponse, DeadlinePasses
    <2> QED  BY <1>1, <2>1
  <1>3. ASSUME NEW c \in Calls, AcceptRequest(c) PROVE Traced(i)'
    <2>1. /\ UNCHANGED <<pending, writer, wire, exec, out, attempt>> /\ svcInv = NoInv
          /\ pc[c] = "offering" /\ pc' = [pc EXCEPT ![c] = "waiting"]
      BY <1>0, <1>3 DEF AcceptRequest, Started
    <2>2. i = Current(c) => Dead(i) /\ ~Answered(i) /\ resp[i] # "io" /\ ~Fresh(i)'
      <3> HAVE i = Current(c)
      <3>1. i[1] = c /\ i[2] = attempt[c]
        BY DEF Current
      <3>2. Fresh(i) /\ ~Fresh(i)'
        BY <1>0, <2>1, <3>1 DEF Fresh, TypeOK
      <3> QED  BY <3>2 DEF Traced
    <2>3. Answered(i)' <=> Answered(i)
      BY <2>1, SameAnswers
    <2>4. CASE svcInv' = svcInv
      <3>1. (InOnePlace(i)' <=> InOnePlace(i)) /\ (Dead(i)' <=> Dead(i)) /\ (InPlay(i)' <=> InPlay(i))
        BY <2>1, <2>4, SamePlace DEF InPlay
      <3>2. i # Current(c) => resp'[i] = resp[i]
        BY <1>0, <1>3, CompleteEffect DEF AcceptRequest
      <3> QED  BY <1>0, <2>2, <2>3, <3>1, <3>2 DEF Traced
    <2>5. CASE svcInv' = Current(c) /\ resp' = resp
      <3>1. CASE i # Current(c)
        <4>1. (InOnePlace(i)' <=> InOnePlace(i)) /\ (Dead(i)' <=> Dead(i)) /\ (InPlay(i)' <=> InPlay(i))
          BY <1>0, <2>1, <2>5, <3>1 DEF InOnePlace, Dead, InPlay
        <4> QED  BY <1>0, <2>3, <2>5, <4>1 DEF Traced
      <3>2. CASE i = Current(c)
        <4>1. InOnePlace(i)'
          BY <2>1, <2>2, <2>5, <3>2 DEF InOnePlace, Dead, InPlay
        <4>2. ~Answered(i)' /\ resp'[i] # "io"
          BY <2>2, <2>3, <2>5, <3>2
        <4> QED  BY <2>2, <3>2, <4>1, <4>2 DEF Traced
      <3> QED  BY <3>1, <3>2
    <2> QED  BY <1>3, <2>4, <2>5 DEF AcceptRequest
  <1>4. CASE SendQueued
    <2>1. /\ UNCHANGED <<writer, wire, exec, resp, out>> /\ svcConn \in Conns /\ svcInv' = NoInv
          /\ pending' = [pending EXCEPT ![svcConn] = @ \cup {svcInv}]
      BY <1>0, <1>4 DEF SendQueued, LoopIdle, Started
    <2>2. InOnePlace(i)' /\ (Dead(i)' <=> Dead(i)) /\ (InPlay(i)' <=> InPlay(i))
      BY <1>0, <2>1 DEF TypeOK, Traced, InOnePlace, InPlay, Dead
    <2>3. Answered(i)' <=> Answered(i)
      BY <2>1, SameAnswers
    <2> QED  BY <1>0, <2>1, <2>2, <2>3 DEF Traced
  <1>5. CASE SendRefused
    <2>1. UNCHANGED <<pending, writer, wire, exec, out>> /\ svcInv' = NoInv
      BY <1>5 DEF SendRefused, LoopIdle
    <2>2. resp'[i] = resp[i] \/ i = svcInv
      BY <1>0, <1>5, HandleErrorEffect DEF SendRefused
    <2>3. /\ InOnePlace(i)' /\ (Dead(i) => Dead(i)') /\ (InPlay(i)' => InPlay(i)) /\ (i = svcInv => Dead(i)' /\ InPlay(i))
      BY <1>0, <2>1 DEF TypeOK, Traced, InOnePlace, InPlay, Dead
    <2>4. Answered(i)' <=> Answered(i)
      BY <2>1, SameAnswers
    <2> QED  BY <1>0, <2>1, <2>2, <2>3, <2>4 DEF Traced
  <1>6. CASE HandleGroupLost
    <2>1. UNCHANGED <<svcInv, pending, writer, wire, exec, out>>
      BY <1>0, <1>6 DEF HandleGroupLost, LoopIdle, Started
    <2>2. resp'[i] = resp[i] \/ resp'[i] # "io"
      BY <1>0, <1>6 DEF HandleGroupLost, ErrorFor
    <2> QED  BY <1>1, <2>1, <2>2
  <1>7. ASSUME NEW k \in Conns, HandleResponse(k) PROVE Traced(i)'
    <2>1. PICK m \in out[k] :
             /\ out' = [out EXCEPT ![k] = @ \ {m}]
             /\ \/ HandleError(m[1], "rejected")
                \/ Complete(m[1], "ok")
                \/ UNCHANGED resp
      BY <1>7 DEF HandleResponse
    <2>2. UNCHANGED <<svcInv, pending, writer, wire, exec>>
      BY <1>7 DEF HandleResponse
    <2>3. (InOnePlace(i)' <=> InOnePlace(i)) /\ (Dead(i)' <=> Dead(i)) /\ (InPlay(i)' <=> InPlay(i))
      BY <2>2, SamePlace DEF InPlay
    <2>4. resp'[i] = resp[i] \/ resp'[i] # "io"
      BY <1>0, <2>1, CompleteEffect, HandleErrorEffect
    <2>5. Answered(i)' => Answered(i)
      BY <1>0, <2>1 DEF Answered, TypeOK
    <2> QED  BY <1>0, <2>3, <2>4, <2>5 DEF Traced
  <1>8. ASSUME NEW k \in Conns, WriteRequest(k) PROVE Traced(i)'
    <2>1. PICK j \in pending[k] :
             /\ pending' = [pending EXCEPT ![k] = @ \ {j}]
             /\ wire' = [wire EXCEPT ![k] = @ \cup {WireID(j)}]
      BY <1>8 DEF WriteRequest
    <2>2. UNCHANGED <<svcInv, writer, exec, resp, out>>
      BY <1>8 DEF WriteRequest
    <2>3. WireID(j) = i <=> j = i
      BY OwnWireID
    <2>4. InOnePlace(i)' /\ (Dead(i)' <=> Dead(i)) /\ (InPlay(i)' <=> InPlay(i))
      BY <1>0, <2>1, <2>2, <2>3 DEF TypeOK, Traced, InOnePlace, InPlay, Dead
    <2>5. Answered(i)' <=> Answered(i)
      BY <2>2, SameAnswers
    <2> QED  BY <1>0, <2>2, <2>4, <2>5 DEF Traced
  <1>9. ASSUME NEW k \in Conns, WriteFails(k) PROVE Traced(i)'
    <2>1. PICK j \in pending[k] :
             /\ pending' = [pending EXCEPT ![k] = @ \ {j}]
             /\ writer' = [writer EXCEPT ![k] = WireID(j)] \/ writer' = writer
      BY <1>9 DEF WriteFails
    <2>2. UNCHANGED <<svcInv, wire, exec, resp, out>> /\ writer[k] = NoInv
      BY <1>9 DEF WriteFails
    <2>3. WireID(j) = i <=> j = i
      BY OwnWireID
    <2>4. InOnePlace(i)' /\ (Dead(i) => Dead(i)') /\ (InPlay(i)' => InPlay(i))
      BY <1>0, <2>1, <2>2, <2>3 DEF TypeOK, Traced, InOnePlace, InPlay, Dead
    <2>5. Answered(i)' <=> Answered(i)
      BY <2>2, SameAnswers
    <2> QED  BY <1>0, <2>2, <2>4, <2>5 DEF Traced
  <1>10. ASSUME NEW k \in Conns, ReportWriteError(k) PROVE Traced(i)'
    <2>1. /\ UNCHANGED <<svcInv, pending, wire, exec, out>>
          /\ writer' = [writer EXCEPT ![k] = NoInv]
      BY <1>10 DEF ReportWriteError
    <2>2. resp'[i] = resp[i] \/ i = writer[k]
      BY <1>0, <1>10, HandleErrorEffect DEF ReportWriteError
    <2>3. /\ InOnePlace(i)' /\ (Dead(i) => Dead(i)') /\ (InPlay(i)' => InPlay(i))
          /\ i = writer[k] => Dead(i)' /\ InPlay(i)
      BY <1>0, <2>1 DEF TypeOK, Traced, InOnePlace, InPlay, Dead
    <2>4. Answered(i)' <=> Answered(i)
      BY <2>1, SameAnswers
    <2> QED  BY <1>0, <2>1, <2>2, <2>3, <2>4 DEF Traced
  <1>11. ASSUME NEW k \in Conns, NEW j \in wire[k], NEW r \in {"ok", "rejected"},
                UNCHANGED <<svcInv, pending, writer, resp>>, wire' = [wire EXCEPT ![k] = @ \ {j}],
                exec' = exec \/ exec' = [exec EXCEPT ![j] = @ + 1],
                out' = [out EXCEPT ![k] = @ \cup {<<j, r>>}]
         PROVE  Traced(i)'
    <2>1. /\ InOnePlace(i)' /\ (Dead(i) => Dead(i)') /\ (InPlay(i)' => InPlay(i))
          /\ i = j => InPlay(i) /\ ~InPlay(i)'
      <3>1. i # j => exec'[i] = exec[i]
        BY <1>0, <1>11 DEF TypeOK
      <3>2. exec[i] = 0 => exec'[i] <= 1
        BY <1>0, <1>11 DEF TypeOK
      <3>3. \A l \in Conns : wire'[l] = IF l = k THEN wire[l] \ {j} ELSE wire[l]
        BY <1>0, <1>11 DEF TypeOK
      <3>4. InOnePlace(i) /\ exec[i] \in Nat /\ j \in Invs
        BY <1>0 DEF Traced, TypeOK
      <3>5. i = j => InPlay(i) /\ ~InPlay(i)' /\ exec[i] = 0
        <4> HAVE i = j
        <4>1. i \in wire[k] /\ InPlay(i)
          BY <1>11 DEF InPlay
        <4>2. exec[i] = 0 /\ svcInv # i /\ \A l \in Conns : i \notin pending[l] /\ writer[l] # i
          BY <3>4, <4>1 DEF InOnePlace
        <4>3. \A l \in Conns : l # k => i \notin wire[l]
          BY <3>4, <4>1 DEF InOnePlace
        <4>4. \A l \in Conns : i \notin wire'[l]
          BY <3>3, <4>3
        <4>5. ~InPlay(i)'
          BY <1>11, <4>2, <4>4 DEF InPlay
        <4> QED  BY <4>1, <4>2, <4>5
      <3>6. InPlay(i)' => InPlay(i)
        BY <1>11, <3>3 DEF InPlay
      <3>7. Dead(i) => Dead(i)'
        BY <3>1, <3>5, <3>6 DEF Dead
      <3>8. InOnePlace(i)'
        BY <1>11, <3>1, <3>2, <3>3, <3>4, <3>5, <3>6 DEF InOnePlace
      <3> QED  BY <3>5, <3>6, <3>7, <3>8
    <2>2. Answered(i)' => Answered(i) \/ i = j
      BY <1>0, <1>11 DEF Answered, TypeOK
    <2> QED  BY <1>0, <1>11, <2>1, <2>2 DEF Traced
  <1>12. ASSUME NEW k \in Conns, Execute(k) PROVE Traced(i)'
    <2>1. PICK j \in wire[k] :
             /\ wire' = [wire EXCEPT ![k] = @ \ {j}]
             /\ exec' = [exec EXCEPT ![j] = @ + 1]
             /\ out' = [out EXCEPT ![k] = @ \cup {<<j, "ok">>}]
             /\ UNCHANGED <<svcInv, pending, writer, resp>>
      BY <1>12 DEF Execute
    <2> QED  BY <1>11, <2>1
  <1>13. ASSUME NEW k \in Conns, Reject(k) PROVE Traced(i)'
    <2>1. PICK j \in wire[k] :
             /\ wire' = [wire EXCEPT ![k] = @ \ {j}]
             /\ out' = [out EXCEPT ![k] = @ \cup {<<j, "rejected">>}]
             /\ UNCHANGED <<svcInv, pending, writer, resp, exec>>
      BY <1>13 DEF Reject
    <2> QED  BY <1>11, <2>1
  <1>14. ASSUME ExitLoop \/ Stop \/ StopDone \/ PauseInvocations \/ ResumeInvocations \/ UNCHANGED vars
         PROVE  Traced(i)'
    <2>1. UNCHANGED <<svcInv, pending, writer, wire, exec, out, resp>>
      BY <1>14 DEF ExitLoop, Stop, StopDone, PauseInvocations, ResumeInvocations, vars
    <2> QED  BY <1>1, <2>1
  <1>15. ASSUME NEW k \in Conns, ReceiveGroupLost(k) \/ DropGroupLost(k) \/ Connect(k) \/ Close(k) \/ RemoveConnection(k)
         PROVE  Traced(i)'
    <2>1. UNCHANGED <<svcInv, pending, writer, wire, exec, out, resp>>
      BY <1>15 DEF ReceiveGroupLost, DropGroupLost, Connect, Close, RemoveConnection
    <2> QED  BY <1>1, <2>1
  <1> QED
    BY <1>2, <1>3, <1>4, <1>5, <1>6, <1>7, <1>8, <1>9, <1>10, <1>12, <1>13, <1>14, <1>15 DEF Next, Loop, Connection

-----------------------------------------------------------------------------
(* Successes *)

\* What a member executed stays executed.
LEMMA ExecGrows ==
    ASSUME TypeOK, [Next]_vars
    PROVE  \A i \in Invs : exec[i] > 0 => exec'[i] > 0
  <1> USE DEF callerVars, invVars, loopVars, stateVars, connVars, cmVars, netVars
  <1>1. ASSUME NEW k \in Conns, Execute(k) PROVE \A i \in Invs : exec[i] > 0 => exec'[i] > 0
    BY <1>1 DEF Execute, TypeOK
  <1>2. ASSUME NEW c \in Calls, Caller(c) \/ AcceptRequest(c) PROVE exec' = exec
    BY <1>2 DEF Caller, NewInvocation, CheckPaused, SendAfterStop, CancelCall, GetResponse, DeadlinePasses, AcceptRequest
  <1>3. ASSUME SendQueued \/ SendRefused \/ HandleGroupLost \/ ExitLoop PROVE exec' = exec
    BY <1>3 DEF SendQueued, SendRefused, HandleGroupLost, ExitLoop
  <1>4. ASSUME Stop \/ StopDone \/ PauseInvocations \/ ResumeInvocations \/ UNCHANGED vars PROVE exec' = exec
    BY <1>4 DEF Stop, StopDone, PauseInvocations, ResumeInvocations, vars
  <1>5. ASSUME NEW k \in Conns, HandleResponse(k) \/ ReceiveGroupLost(k) \/ DropGroupLost(k) \/ Reject(k) PROVE exec' = exec
    BY <1>5 DEF HandleResponse, ReceiveGroupLost, DropGroupLost, Reject
  <1>6. ASSUME NEW k \in Conns, Connection(k) PROVE exec' = exec
    BY <1>6 DEF Connection, Connect, Close, RemoveConnection, WriteRequest, WriteFails, ReportWriteError
  <1> QED  BY <1>1, <1>2, <1>3, <1>4, <1>5, <1>6 DEF Next, Loop

LEMMA StepTruthful ==
    ASSUME TypeOK, Started, Truthful, [Next]_vars
    PROVE  Truthful'
  <1> USE DEF callerVars, invVars, loopVars, stateVars, connVars, cmVars, netVars
  <1> DEFINE Oks == \A k \in Conns, i \in Invs : <<i, "ok">> \in out[k] => exec[i] > 0
             Resps == \A i \in Invs : resp[i] = "ok" => exec[i] > 0
             Returned(c) == outcome[c] = "ok" => pc[c] = "done" /\ attempt[c] >= 1 /\ exec[Current(c)] > 0
  <1>0. /\ \A i \in Invs : exec[i] > 0 => exec'[i] > 0
        /\ \A c \in Calls : attempt[c] >= 1 => Current(c) \in Invs
    BY ExecGrows, CurrentTyped
  <1>a. Truthful <=> Oks /\ Resps /\ \A c \in Calls : Returned(c)
    BY DEF Truthful, OkMeansExecuted
  <1>b. ASSUME Oks', Resps', \A c \in Calls : Returned(c)' PROVE Truthful'
    BY <1>b DEF Truthful, OkMeansExecuted
  <1>c. ASSUME out' = out PROVE Oks'
    BY <1>0, <1>a, <1>c
  <1>d. ASSUME \A i \in Invs : resp'[i] = resp[i] \/ resp'[i] # "ok" PROVE Resps'
    BY <1>0, <1>a, <1>d
  <1>e. ASSUME UNCHANGED <<outcome, pc, attempt>> PROVE \A c \in Calls : Returned(c)'
    BY <1>0, <1>a, <1>e DEF Current
  <1> HIDE DEF Oks, Resps
  <1>1. ASSUME NEW c \in Calls, Caller(c) PROVE Truthful'
    <2>1. UNCHANGED <<out, resp, exec>>
      BY <1>1 DEF Caller, NewInvocation, CheckPaused, SendAfterStop, CancelCall, GetResponse, DeadlinePasses
    <2>2. ASSUME NEW d \in Calls PROVE Returned(d)'
      <3>1. CASE NewInvocation(c)
        <4>1. /\ outcome' = outcome /\ pc[c] = "ready"
              /\ (d # c => pc'[d] = pc[d] /\ attempt'[d] = attempt[d])
          BY <3>1 DEF NewInvocation, TypeOK
        <4> QED  BY <1>0, <1>a, <2>1, <4>1 DEF Current
      <3>2. CASE GetResponse(c)
        <4>1. /\ attempt' = attempt /\ pc[c] = "waiting"
              /\ d # c => pc'[d] = pc[d] /\ outcome'[d] = outcome[d]
          BY <3>2 DEF GetResponse, Return, TypeOK
        <4>2. CASE resp[Current(c)] = "ok" /\ Return(c, "ok")
          <5>1. attempt[c] >= 1 /\ exec[Current(c)] > 0
            BY <1>a, <4>1, <4>2, CurrentTyped DEF Started, Resps
          <5>2. pc'[c] = "done"
            BY <4>2 DEF Return, TypeOK
          <5> QED  BY <1>a, <2>1, <4>1, <5>1, <5>2 DEF Current
        <4>3. CASE \/ pc' = [pc EXCEPT ![c] = "ready"] /\ UNCHANGED outcome
                   \/ \E r \in {"error", "closed"} : Return(c, r)
          <5>1. outcome'[c] # "ok"
            BY <1>a, <4>1, <4>3 DEF Return, TypeOK
          <5> QED  BY <1>a, <2>1, <4>1, <5>1 DEF Current
        <4> QED  BY <3>2, <4>2, <4>3 DEF GetResponse
      <3>3. CASE CheckPaused(c) \/ SendAfterStop(c) \/ CancelCall(c)
        <4>1. /\ attempt' = attempt /\ pc[c] # "done"
              /\ d # c => pc'[d] = pc[d] /\ outcome'[d] = outcome[d]
              /\ outcome'[c] = outcome[c] \/ outcome'[c] # "ok"
          BY <3>3 DEF CheckPaused, SendAfterStop, CancelCall, Return, TypeOK
        <4> QED  BY <1>a, <2>1, <4>1 DEF Current
      <3>4. CASE DeadlinePasses(c)
        BY <1>e, <3>4 DEF DeadlinePasses
      <3> QED  BY <1>1, <3>1, <3>2, <3>3, <3>4 DEF Caller
    <2> QED  BY <1>b, <1>c, <1>d, <2>1, <2>2
  <1>2. ASSUME NEW c \in Calls, AcceptRequest(c) PROVE Truthful'
    <2>1. /\ UNCHANGED <<out, outcome, attempt, exec>>
          /\ pc[c] # "done" /\ \A d \in Calls \ {c} : pc'[d] = pc[d]
      BY <1>2 DEF AcceptRequest, TypeOK
    <2>2. \A i \in Invs : resp'[i] = resp[i] \/ resp'[i] # "ok"
      BY <1>2, CompleteEffect DEF AcceptRequest, ErrorFor
    <2>3. \A d \in Calls : Returned(d)'
      BY <1>a, <2>1 DEF Current
    <2> QED  BY <1>b, <1>c, <1>d, <2>1, <2>2, <2>3
  <1>3. ASSUME SendQueued \/ ExitLoop \/ Stop \/ StopDone \/ PauseInvocations \/ ResumeInvocations \/ UNCHANGED vars
        PROVE  Truthful'
    <2>1. UNCHANGED <<out, resp, outcome, pc, attempt>>
      BY <1>3 DEF SendQueued, ExitLoop, Stop, StopDone, PauseInvocations, ResumeInvocations, vars
    <2> QED  BY <1>b, <1>c, <1>d, <1>e, <2>1
  <1>4. ASSUME SendRefused PROVE Truthful'
    <2>1. UNCHANGED <<out, outcome, pc, attempt>>
      BY <1>4 DEF SendRefused
    <2>2. \A i \in Invs : resp'[i] = resp[i] \/ resp'[i] # "ok"
      BY <1>4, HandleErrorEffect DEF SendRefused
    <2> QED  BY <1>b, <1>c, <1>d, <1>e, <2>1, <2>2
  <1>5. ASSUME HandleGroupLost PROVE Truthful'
    <2>1. UNCHANGED <<out, outcome, pc, attempt>>
      BY <1>5 DEF HandleGroupLost
    <2>2. \A i \in Invs : resp'[i] = resp[i] \/ resp'[i] # "ok"
      BY <1>5 DEF HandleGroupLost, ErrorFor
    <2> QED  BY <1>b, <1>c, <1>d, <1>e, <2>1, <2>2
  <1>6. ASSUME NEW k \in Conns, HandleResponse(k) PROVE Truthful'
    <2>1. PICK m \in out[k] :
             /\ out' = [out EXCEPT ![k] = @ \ {m}]
             /\ \/ HandleError(m[1], "rejected")
                \/ m[2] # "rejected" /\ Complete(m[1], "ok")
                \/ UNCHANGED resp
      BY <1>6 DEF HandleResponse
    <2>2. UNCHANGED <<outcome, pc, attempt, exec>>
      BY <1>6 DEF HandleResponse
    <2>3. m = <<m[1], m[2]>> /\ m[1] \in Invs /\ m[2] \in {"ok", "rejected"}
      BY DEF TypeOK
    <2>4. m[2] # "rejected" => exec[m[1]] > 0
      BY <1>a, <2>3 DEF Oks
    <2>5. Oks'
      BY <1>a, <2>1, <2>2 DEF Oks, TypeOK
    <2>6. \A i \in Invs : resp'[i] = resp[i] \/ resp'[i] # "ok" \/ exec[i] > 0
      BY <2>1, <2>4, CompleteEffect, HandleErrorEffect
    <2>7. Resps'
      BY <1>a, <2>2, <2>6 DEF Resps
    <2> QED  BY <1>b, <1>e, <2>2, <2>5, <2>7
  <1>7. ASSUME NEW k \in Conns, ReportWriteError(k) PROVE Truthful'
    <2>1. UNCHANGED <<out, outcome, pc, attempt>>
      BY <1>7 DEF ReportWriteError
    <2>2. \A i \in Invs : resp'[i] = resp[i] \/ resp'[i] # "ok"
      BY <1>7, HandleErrorEffect DEF ReportWriteError
    <2> QED  BY <1>b, <1>c, <1>d, <1>e, <2>1, <2>2
  <1>8. ASSUME NEW k \in Conns, \/ ReceiveGroupLost(k) \/ DropGroupLost(k) \/ Connect(k) \/ Close(k)
                                \/ RemoveConnection(k) \/ WriteRequest(k) \/ WriteFails(k)
        PROVE  Truthful'
    <2>1. UNCHANGED <<out, resp, outcome, pc, attempt>>
      BY <1>8 DEF ReceiveGroupLost, DropGroupLost, Connect, Close, RemoveConnection, WriteRequest, WriteFails
    <2> QED  BY <1>b, <1>c, <1>d, <1>e, <2>1
  <1>9. ASSUME NEW k \in Conns, Execute(k) PROVE Truthful'
    <2>1. PICK j \in wire[k] :
             /\ exec' = [exec EXCEPT ![j] = @ + 1]
             /\ out' = [out EXCEPT ![k] = @ \cup {<<j, "ok">>}]
      BY <1>9 DEF Execute
    <2>2. UNCHANGED <<resp, outcome, pc, attempt>>
      BY <1>9 DEF Execute
    <2>3. j \in Invs /\ exec'[j] > 0
      BY <2>1 DEF TypeOK
    <2>4. Oks'
      BY <1>0, <1>a, <2>1, <2>3 DEF Oks, TypeOK
    <2> QED  BY <1>b, <1>d, <1>e, <2>2, <2>4
  <1>10. ASSUME NEW k \in Conns, Reject(k) PROVE Truthful'
    <2>1. PICK j \in wire[k] : out' = [out EXCEPT ![k] = @ \cup {<<j, "rejected">>}]
      BY <1>10 DEF Reject
    <2>2. UNCHANGED <<resp, outcome, pc, attempt, exec>>
      BY <1>10 DEF Reject
    <2>3. Oks'
      BY <1>a, <2>1, <2>2 DEF Oks, TypeOK
    <2> QED  BY <1>b, <1>d, <1>e, <2>2, <2>3
  <1> QED  BY <1>1, <1>2, <1>3, <1>4, <1>5, <1>6, <1>7, <1>8, <1>9, <1>10 DEF Next, Loop, Connection

-----------------------------------------------------------------------------
(* GroupLost *)

LEMMA HandleErrorShrinks ==
    ASSUME NEW j, NEW e, HandleError(j, e)
    PROVE  registry' \subseteq registry /\ j \notin registry'
  BY DEF HandleError

LEMMA StepNotified ==
    ASSUME TypeOK, Started, Notified, [Next]_vars
    PROVE  Notified'
  <1> USE DEF callerVars, invVars, loopVars, stateVars, connVars, cmVars, netVars
  <1> DEFINE Stopping == done \/ mu = "stop" => ~running
             Writers == \A k \in Conns : writer[k] # NoInv => status[k] # "new"
             Told(k) == k \in lost \/ (svcAt = "lost" /\ svcConn = k)
             Cared(i) == /\ group[i] \in Conns
                         /\ status[group[i]] = "closed" => Told(group[i]) \/ i \in late
             Cares == \A i \in registry : (running /\ i # svcInv) => Cared(i)
  <1>a. Notified <=> Stopping /\ Writers /\ Cares
    BY DEF Notified, OrphansAreLateSends
  <1>b. ASSUME Stopping', Writers', Cares' PROVE Notified'
    BY <1>b DEF Notified, OrphansAreLateSends
  <1>c. ASSUME UNCHANGED <<done, mu, running>> PROVE Stopping'
    BY <1>a, <1>c
  <1>d. ASSUME UNCHANGED <<writer, status>> PROVE Writers'
    BY <1>a, <1>d
  <1>e. ASSUME registry' \subseteq registry, running' => running, svcInv' = svcInv, group' = group, late' = late,
               \A k \in Conns : (status'[k] = "closed" /\ running') => (status[k] = "closed" /\ (Told(k) => Told(k)')) \/ Told(k)'
        PROVE  Cares'
    BY <1>a, <1>e
  <1> HIDE DEF Stopping, Writers, Cares
  <1>1. ASSUME NEW c \in Calls, Caller(c) PROVE Notified'
    <2>1. UNCHANGED <<registry, invVars, loopVars, stateVars, connVars, late>>
      BY <1>1 DEF Caller, NewInvocation, CheckPaused, SendAfterStop, CancelCall, GetResponse, DeadlinePasses
    <2> QED  BY <1>b, <1>c, <1>d, <1>e, <2>1
  <1>2. ASSUME NEW c \in Calls, AcceptRequest(c) PROVE Notified'
    <2>1. UNCHANGED <<group, stateVars, connVars, late>> /\ svcAt = "idle" /\ svcInv = NoInv
      BY <1>2 DEF AcceptRequest, Started
    <2>2. CASE UNCHANGED <<registry, loopVars>>
      BY <1>b, <1>c, <1>d, <1>e, <2>1, <2>2
    <2>3. CASE svcInv' = Current(c) /\ registry' = registry \cup {Current(c)}
      <3>1. NoInv \notin registry
        BY NoInvIsNone DEF TypeOK
      <3>2. Cares'
        BY <1>a, <2>1, <2>3, <3>1 DEF Cares
      <3> QED  BY <1>b, <1>c, <1>d, <2>1, <3>2
    <2> QED  BY <1>2, <2>2, <2>3 DEF AcceptRequest
  <1>3. ASSUME SendQueued PROVE Notified'
    <2>1. /\ UNCHANGED <<registry, stateVars, status, writer, lost>> /\ svcAt = "sending" /\ svcConn \in Conns
          /\ group' = [group EXCEPT ![svcInv] = svcConn] /\ svcInv' = NoInv /\ svcInv \in Invs
          /\ late' = IF status[svcConn] = "closed" THEN late \cup {svcInv} ELSE late
      BY <1>3 DEF SendQueued, LoopIdle, Started
    <2>2. group'[svcInv] = svcConn /\ \A i \in Invs \ {svcInv} : group'[i] = group[i]
      BY <2>1 DEF TypeOK
    <2>3. ASSUME NEW i \in registry', running'
          PROVE  Cared(i)'
      <3>1. i \in registry /\ i \in Invs /\ running
        BY <2>1, <2>3 DEF TypeOK
      <3>2. CASE i = svcInv
        BY <2>1, <2>2, <3>2
      <3>3. CASE i # svcInv
        <4>1. Cared(i)
          BY <1>a, <3>1, <3>3 DEF Cares
        <4>2. status[group[i]] = "closed" => group[i] \in lost \/ i \in late
          BY <2>1, <4>1
        <4> QED  BY <2>1, <2>2, <3>1, <3>3, <4>1, <4>2
      <3> QED  BY <3>2, <3>3
    <2>4. Cares'
      BY <2>3 DEF Cares
    <2> QED  BY <1>b, <1>c, <1>d, <2>1, <2>4
  <1>4. ASSUME SendRefused PROVE Notified'
    <2>1. UNCHANGED <<group, stateVars, connVars, late>> /\ svcAt = "sending" /\ svcInv' = NoInv
      BY <1>4 DEF SendRefused, LoopIdle
    <2>2. registry' \subseteq registry /\ svcInv \notin registry'
      BY <1>4, HandleErrorShrinks DEF SendRefused
    <2>3. Cares'
      BY <1>a, <2>1, <2>2 DEF Cares
    <2> QED  BY <1>b, <1>c, <1>d, <2>1, <2>3
  <1>5. ASSUME NEW k \in Conns, HandleResponse(k) PROVE Notified'
    <2>1. UNCHANGED <<group, loopVars, stateVars, connVars, late>>
      BY <1>5 DEF HandleResponse
    <2>2. registry' \subseteq registry
      BY <1>5, HandleErrorShrinks DEF HandleResponse
    <2> QED  BY <1>b, <1>c, <1>d, <1>e, <2>1, <2>2
  <1>6. ASSUME NEW k \in Conns, ReceiveGroupLost(k) PROVE Notified'
    <2>1. /\ UNCHANGED <<group, registry, stateVars, status, writer, late, svcInv>> /\ svcAt = "idle"
          /\ lost' = lost \ {k} /\ svcAt' = "lost" /\ svcConn' = k
      BY <1>6 DEF ReceiveGroupLost
    <2> QED  BY <1>b, <1>c, <1>d, <1>e, <2>1
  <1>7. ASSUME NEW k \in Conns, DropGroupLost(k) PROVE Notified'
    <2>1. UNCHANGED <<group, registry, loopVars, stateVars, status, writer, late>> /\ done
      BY <1>7 DEF DropGroupLost
    <2>2. ~running'
      BY <1>a, <2>1 DEF Stopping
    <2> QED  BY <1>b, <1>c, <1>d, <1>e, <2>1, <2>2
  <1>8. ASSUME HandleGroupLost PROVE Notified'
    <2>1. UNCHANGED <<group, stateVars, connVars, late>> /\ svcAt = "lost" /\ svcInv = NoInv /\ svcInv' = NoInv
      BY <1>8 DEF HandleGroupLost, LoopIdle, Started
    <2>2. running => registry' = {i \in registry : group[i] # svcConn}
      BY <1>8 DEF HandleGroupLost
    <2>3. Cares'
      <3> SUFFICES ASSUME NEW i \in registry', running', i # svcInv' PROVE Cared(i)'
        BY DEF Cares
      <3>1. i \in registry /\ group[i] # svcConn /\ Cared(i)
        BY <1>a, <2>1, <2>2 DEF Cares
      <3> QED  BY <2>1, <3>1
    <2> QED  BY <1>b, <1>c, <1>d, <2>1, <2>3
  <1>9. ASSUME ExitLoop PROVE Notified'
    <2>1. UNCHANGED <<stateVars, connVars>> /\ registry' = {}
      BY <1>9 DEF ExitLoop
    <2>2. Cares'
      BY <2>1 DEF Cares
    <2> QED  BY <1>b, <1>c, <1>d, <2>1, <2>2
  <1>10. ASSUME Stop \/ StopDone PROVE Notified'
    <2>1. UNCHANGED <<registry, invVars, loopVars, connVars, late>> /\ ~running'
      BY <1>10, <1>a DEF Stop, StopDone, Stopping
    <2>2. Stopping'
      BY <2>1 DEF Stopping
    <2> QED  BY <1>b, <1>d, <1>e, <2>1, <2>2
  <1>11. ASSUME PauseInvocations \/ ResumeInvocations PROVE Notified'
    <2>1. UNCHANGED <<registry, invVars, loopVars, connVars, late, running, done>> /\ (mu' = mu \/ mu' = "leaked")
      BY <1>11 DEF PauseInvocations, ResumeInvocations, Pause
    <2>2. Stopping'
      BY <1>a, <2>1 DEF Stopping
    <2> QED  BY <1>b, <1>d, <1>e, <2>1, <2>2
  <1>12. ASSUME NEW k \in Conns, Connect(k) PROVE Notified'
    <2>1. UNCHANGED <<registry, invVars, loopVars, stateVars, writer, lost, late>>
      BY <1>12 DEF Connect
    <2>2. status'[k] = "open" /\ \A l \in Conns \ {k} : status'[l] = status[l]
      BY <1>12 DEF Connect, TypeOK
    <2>3. Writers'
      BY <1>a, <2>1, <2>2 DEF Writers
    <2>4. Cares'
      BY <1>e, <2>1, <2>2
    <2> QED  BY <1>b, <1>c, <2>1, <2>3, <2>4
  <1>13. ASSUME NEW k \in Conns, Close(k) PROVE Notified'
    <2>1. UNCHANGED <<registry, invVars, loopVars, stateVars, writer, late>> /\ lost' = lost \cup {k}
      BY <1>13 DEF Close
    <2>2. status'[k] = "closed" /\ \A l \in Conns \ {k} : status'[l] = status[l]
      BY <1>13 DEF Close, TypeOK
    <2>3. Writers'
      BY <1>a, <2>1, <2>2 DEF Writers
    <2>4. Cares'
      BY <1>e, <2>1, <2>2
    <2> QED  BY <1>b, <1>c, <2>1, <2>3, <2>4
  <1>14. ASSUME NEW k \in Conns, WriteFails(k) PROVE Notified'
    <2>1. UNCHANGED <<registry, invVars, loopVars, stateVars, status, lost, late>> /\ status[k] # "new"
      BY <1>14 DEF WriteFails
    <2>2. \A l \in Conns \ {k} : writer'[l] = writer[l]
      BY <1>14 DEF WriteFails, TypeOK
    <2>3. Writers'
      BY <1>a, <2>1, <2>2 DEF Writers
    <2> QED  BY <1>b, <1>c, <1>e, <2>1, <2>3
  <1>15. ASSUME NEW k \in Conns, ReportWriteError(k) PROVE Notified'
    <2>1. /\ UNCHANGED <<group, loopVars, stateVars, late>> /\ writer[k] # NoInv
          /\ lost' = IF status[k] = "open" THEN lost \cup {k} ELSE lost
      BY <1>15 DEF ReportWriteError
    <2>2. /\ status'[k] = "closed" /\ \A l \in Conns \ {k} : status'[l] = status[l]
          /\ writer'[k] = NoInv /\ \A l \in Conns \ {k} : writer'[l] = writer[l]
      BY <1>15 DEF ReportWriteError, TypeOK
    <2>3. status[k] = "open" \/ status[k] = "closed"
      BY <1>a, <2>1 DEF Writers, TypeOK
    <2>4. registry' \subseteq registry
      BY <1>15, HandleErrorShrinks DEF ReportWriteError
    <2>5. Writers'
      BY <1>a, <2>2 DEF Writers
    <2>6. Cares'
      BY <1>e, <2>1, <2>2, <2>3, <2>4
    <2> QED  BY <1>b, <1>c, <2>1, <2>5, <2>6
  <1>16. ASSUME NEW k \in Conns, RemoveConnection(k) \/ WriteRequest(k) \/ Execute(k) \/ Reject(k) PROVE Notified'
    <2>1. UNCHANGED <<registry, invVars, loopVars, stateVars, status, writer, lost, late>>
      BY <1>16 DEF RemoveConnection, WriteRequest, Execute, Reject
    <2> QED  BY <1>b, <1>c, <1>d, <1>e, <2>1
  <1>17. ASSUME UNCHANGED vars PROVE Notified'
    BY <1>b, <1>c, <1>d, <1>e, <1>17 DEF vars
  <1> QED  BY <1>1, <1>2, <1>3, <1>4, <1>5, <1>6, <1>7, <1>8, <1>9, <1>10, <1>11, <1>12, <1>13, <1>14, <1>15,
              <1>16, <1>17 DEF Next, Loop, Connection

-----------------------------------------------------------------------------
(* The promise to the user: RemoteCall *)

\* What one step of any goroutine or member looks like to the user.
Begins(c) == NewInvocation(c)
Returns(c, r) ==
    /\ pc[c] # "done" /\ Return(c, r)
    /\ UNCHANGED <<attempt, exec, svcInv, pending, writer, wire>>
    /\ r = "ok" => pc[c] = "waiting" /\ resp[Current(c)] = "ok"
    /\ r = "notactive" => pc[c] = "offering"
Runs(i) ==
    /\ \E k \in Conns : i \in wire[k]
    /\ exec' = [exec EXCEPT ![i] = @ + 1]
    /\ UNCHANGED <<pc, attempt, outcome>>
Hidden ==
    /\ UNCHANGED <<attempt, outcome, exec>>
    /\ \A c \in Calls : pc'[c] = "done" <=> pc[c] = "done"

LEMMA StepSeen ==
    ASSUME TypeOK, [Next]_vars
    PROVE  \/ \E c \in Calls : Begins(c)
           \/ \E c \in Calls, r \in Promise!Results : Returns(c, r)
           \/ \E i \in Invs : Runs(i)
           \/ Hidden
  <1> USE DEF callerVars, invVars, loopVars, stateVars, connVars, cmVars, netVars
  <1> DEFINE Seen == \/ \E c \in Calls : Begins(c)
                     \/ \E c \in Calls, r \in Promise!Results : Returns(c, r)
                     \/ \E i \in Invs : Runs(i)
                     \/ Hidden
  <1>a. ASSUME NEW c \in Calls, NEW r \in Promise!Results, Returns(c, r) PROVE Seen
    BY <1>a
  <1>b. ASSUME UNCHANGED <<pc, attempt, outcome, exec>> PROVE Seen
    BY <1>b DEF Hidden
  <1>c. ASSUME NEW c \in Calls, pc[c] # "done", NEW p, p # "done", pc' = [pc EXCEPT ![c] = p],
               UNCHANGED <<attempt, outcome, exec>>
        PROVE  Seen
    BY <1>c DEF Hidden, TypeOK
  <1> HIDE DEF Seen
  <1>1. ASSUME NEW c \in Calls, CheckPaused(c) PROVE Seen
    <2>1. CASE Return(c, "error")
      BY <1>1, <2>1, <1>a DEF CheckPaused, Returns, Promise!Results
    <2>2. CASE pc' = [pc EXCEPT ![c] = "ready"] /\ UNCHANGED outcome
      BY <1>1, <2>2, <1>c DEF CheckPaused
    <2>3. CASE pc' = [pc EXCEPT ![c] = "offering"] /\ UNCHANGED outcome
      BY <1>1, <2>3, <1>c DEF CheckPaused
    <2> QED  BY <1>1, <2>1, <2>2, <2>3 DEF CheckPaused
  <1>2. ASSUME NEW c \in Calls, SendAfterStop(c) PROVE Seen
    BY <1>2, <1>a DEF SendAfterStop, Returns, Promise!Results
  <1>3. ASSUME NEW c \in Calls, CancelCall(c) PROVE Seen
    BY <1>3, <1>a DEF CancelCall, Returns, Promise!Results
  <1>4. ASSUME NEW c \in Calls, GetResponse(c) PROVE Seen
    <2>1. pc[c] = "waiting" /\ UNCHANGED <<attempt, exec, svcInv, pending, writer, wire>>
      BY <1>4 DEF GetResponse
    <2>2. CASE resp[Current(c)] = "ok" /\ Return(c, "ok")
      BY <2>1, <2>2, <1>a DEF Returns, Promise!Results
    <2>3. CASE pc' = [pc EXCEPT ![c] = "ready"] /\ UNCHANGED outcome
      BY <2>1, <2>3, <1>c
    <2>4. ASSUME NEW r \in {"error", "closed"}, Return(c, r) PROVE Seen
      BY <2>1, <2>4, <1>a DEF Returns, Promise!Results
    <2> QED  BY <1>4, <2>2, <2>3, <2>4 DEF GetResponse
  <1>5. ASSUME NEW c \in Calls, DeadlinePasses(c) PROVE Seen
    BY <1>5, <1>b DEF DeadlinePasses
  <1>6. ASSUME NEW c \in Calls, AcceptRequest(c) PROVE Seen
    BY <1>6, <1>c DEF AcceptRequest
  <1>7. ASSUME SendQueued \/ SendRefused \/ HandleGroupLost \/ ExitLoop PROVE Seen
    BY <1>7, <1>b DEF SendQueued, SendRefused, HandleGroupLost, ExitLoop
  <1>8. ASSUME Stop \/ StopDone \/ PauseInvocations \/ ResumeInvocations \/ UNCHANGED vars PROVE Seen
    BY <1>8, <1>b DEF Stop, StopDone, PauseInvocations, ResumeInvocations, vars
  <1>9. ASSUME NEW k \in Conns, HandleResponse(k) \/ ReceiveGroupLost(k) \/ DropGroupLost(k) \/ Reject(k)
        PROVE  Seen
    BY <1>9, <1>b DEF HandleResponse, ReceiveGroupLost, DropGroupLost, Reject
  <1>10. ASSUME NEW k \in Conns, Connection(k) PROVE Seen
    BY <1>10, <1>b DEF Connection, Connect, Close, RemoveConnection, WriteRequest, WriteFails, ReportWriteError
  <1>11. ASSUME NEW k \in Conns, Execute(k) PROVE Seen
    <2>1. PICK i \in wire[k] : exec' = [exec EXCEPT ![i] = @ + 1]
      BY <1>11 DEF Execute
    <2>2. i \in Invs /\ UNCHANGED <<pc, attempt, outcome>>
      BY <1>11 DEF Execute, TypeOK
    <2>3. Runs(i)
      BY <2>1, <2>2 DEF Runs
    <2> QED  BY <2>2, <2>3 DEF Seen
  <1>12. ASSUME NEW c \in Calls, NewInvocation(c) PROVE Seen
    BY <1>12 DEF Seen, Begins
  <1>13. Seen
    BY <1>1, <1>2, <1>3, <1>4, <1>5, <1>6, <1>7, <1>8, <1>9, <1>10, <1>11, <1>12 DEF Next, Loop, Caller
  <1> QED  BY <1>13 DEF Seen

\* A request that is nowhere, of a caller that has returned, stays nowhere.
LEMMA DeadStaysDead ==
    ASSUME IndInv, [Next]_vars, NEW i \in Once, Dead(i), pc[i[1]] = "done"
    PROVE  Dead(i)'
  <1> USE DEF callerVars, invVars, loopVars, stateVars, connVars, cmVars, netVars
  <1>0. /\ TypeOK /\ i \in Invs /\ i[1] \in Calls /\ i # NoInv /\ exec[i] = 0 /\ svcInv # i
        /\ \A k \in Conns : i \notin pending[k] /\ writer[k] # i /\ i \notin wire[k]
    BY OnceTyped, NoInvIsNone DEF IndInv, Dead, InPlay
  <1>a. ASSUME UNCHANGED <<svcInv, pending, writer, wire, exec>> PROVE Dead(i)'
    BY <1>a, SamePlace
  <1>b. ASSUME exec'[i] = 0, svcInv' # i,
               \A k \in Conns : i \notin pending'[k] /\ writer'[k] # i /\ i \notin wire'[k]
        PROVE  Dead(i)'
    BY <1>b DEF Dead, InPlay
  <1>1. ASSUME NEW c \in Calls, Caller(c) PROVE Dead(i)'
    BY <1>1, <1>a DEF Caller, NewInvocation, CheckPaused, SendAfterStop, CancelCall, GetResponse, DeadlinePasses
  <1>2. ASSUME NEW c \in Calls, AcceptRequest(c) PROVE Dead(i)'
    <2>1. c # i[1] /\ (svcInv' = svcInv \/ svcInv' = Current(c)) /\ UNCHANGED <<pending, writer, wire, exec>>
      BY <1>2 DEF AcceptRequest
    <2>2. Current(c) # i
      BY <2>1 DEF Current
    <2> QED  BY <1>0, <1>b, <2>1, <2>2
  <1>3. ASSUME SendQueued PROVE Dead(i)'
    <2>1. /\ svcInv' = NoInv /\ UNCHANGED <<writer, wire, exec>>
          /\ \A k \in Conns : i \notin pending'[k]
      BY <1>0, <1>3 DEF SendQueued, LoopIdle, TypeOK
    <2> QED  BY <1>0, <1>b, <2>1
  <1>4. ASSUME SendRefused \/ HandleGroupLost PROVE Dead(i)'
    <2>1. svcInv' = NoInv /\ UNCHANGED <<pending, writer, wire, exec>>
      BY <1>4 DEF SendRefused, HandleGroupLost, LoopIdle
    <2> QED  BY <1>0, <1>b, <2>1
  <1>5. ASSUME ExitLoop \/ Stop \/ StopDone \/ PauseInvocations \/ ResumeInvocations \/ UNCHANGED vars
        PROVE  Dead(i)'
    BY <1>5, <1>a DEF ExitLoop, Stop, StopDone, PauseInvocations, ResumeInvocations, vars
  <1>6. ASSUME NEW k \in Conns, \/ HandleResponse(k) \/ ReceiveGroupLost(k) \/ DropGroupLost(k)
                                \/ Connect(k) \/ Close(k) \/ RemoveConnection(k)
        PROVE  Dead(i)'
    BY <1>6, <1>a DEF HandleResponse, ReceiveGroupLost, DropGroupLost, Connect, Close, RemoveConnection
  <1>7. ASSUME NEW k \in Conns, WriteRequest(k) PROVE Dead(i)'
    <2>1. PICK j \in pending[k] :
             /\ pending' = [pending EXCEPT ![k] = @ \ {j}]
             /\ wire' = [wire EXCEPT ![k] = @ \cup {WireID(j)}]
      BY <1>7 DEF WriteRequest
    <2>2. WireID(j) # i
      BY <1>0, OnceWireID
    <2>3. UNCHANGED <<svcInv, writer, exec>>
      BY <1>7 DEF WriteRequest
    <2>4. \A l \in Conns : i \notin pending'[l] /\ i \notin wire'[l]
      BY <1>0, <2>1, <2>2 DEF TypeOK
    <2> QED  BY <1>0, <1>b, <2>3, <2>4
  <1>8. ASSUME NEW k \in Conns, WriteFails(k) PROVE Dead(i)'
    <2>1. PICK j \in pending[k] :
             /\ pending' = [pending EXCEPT ![k] = @ \ {j}]
             /\ writer' = [writer EXCEPT ![k] = WireID(j)] \/ writer' = writer
      BY <1>8 DEF WriteFails
    <2>2. WireID(j) # i
      BY <1>0, OnceWireID
    <2>3. UNCHANGED <<svcInv, wire, exec>>
      BY <1>8 DEF WriteFails
    <2>4. \A l \in Conns : i \notin pending'[l] /\ writer'[l] # i
      BY <1>0, <2>1, <2>2 DEF TypeOK
    <2> QED  BY <1>0, <1>b, <2>3, <2>4
  <1>9. ASSUME NEW k \in Conns, ReportWriteError(k) PROVE Dead(i)'
    <2>1. UNCHANGED <<svcInv, pending, wire, exec>> /\ writer' = [writer EXCEPT ![k] = NoInv]
      BY <1>9 DEF ReportWriteError
    <2>2. \A l \in Conns : writer'[l] # i
      BY <1>0, <2>1 DEF TypeOK
    <2> QED  BY <1>0, <1>b, <2>1, <2>2
  <1>10. ASSUME NEW k \in Conns, Execute(k) PROVE Dead(i)'
    <2>1. PICK j \in wire[k] :
             wire' = [wire EXCEPT ![k] = @ \ {j}] /\ exec' = [exec EXCEPT ![j] = @ + 1]
      BY <1>10 DEF Execute
    <2>2. UNCHANGED <<svcInv, pending, writer>>
      BY <1>10 DEF Execute
    <2>3. j # i /\ \A l \in Conns : i \notin wire'[l]
      BY <1>0, <2>1 DEF TypeOK
    <2>4. exec'[i] = 0
      BY <1>0, <2>1, <2>3 DEF TypeOK
    <2> QED  BY <1>0, <1>b, <2>2, <2>3, <2>4
  <1>11. ASSUME NEW k \in Conns, Reject(k) PROVE Dead(i)'
    <2>1. UNCHANGED <<svcInv, pending, writer, exec>> /\ \A l \in Conns : i \notin wire'[l]
      BY <1>0, <1>11 DEF Reject, TypeOK
    <2> QED  BY <1>0, <1>b, <2>1
  <1> QED
    BY <1>1, <1>2, <1>3, <1>4, <1>5, <1>6, <1>7, <1>8, <1>9, <1>10, <1>11 DEF Next, Loop, Connection

-----------------------------------------------------------------------------
(* The theorems *)

\* Every reachable state of the request path is well typed.
THEOREM TypeCorrect == Spec => []TypeOK
  <1>1. TypeOK /\ Started /\ [Next]_vars => (TypeOK /\ Started)'
    BY StepTyped
  <1> QED  BY InitTyped, <1>1, PTL DEF Spec

LEMMA IndInvStep == IndInv /\ [Next]_vars => IndInv'
  <1> SUFFICES ASSUME IndInv, [Next]_vars PROVE IndInv'
    OBVIOUS
  <1>1. TypeOK' /\ Started'
    BY StepTyped DEF IndInv
  <1>2. Once' = Once
    BY DEF Once, Invs
  <1>3. \A i \in Once : Accounted(i)'
    BY <1>1, StepAccounted
  <1> QED  BY <1>1, <1>2, <1>3 DEF IndInv

\* Every request that must not be redone is accounted for in every reachable state.
THEOREM IndInvHolds == Spec => []IndInv
  <1>1. Init => IndInv
    BY InitTyped, InitAccounted DEF IndInv
  <1> QED  BY <1>1, IndInvStep, PTL DEF Spec

\* A request that is neither Retryable nor made with RedoOperation is executed
\* at most once by the members, for any number of connections, calls and tries:
\* the retries of CircuitBreaker.try never repeat what a member may have done.
THEOREM AtMostOnce == Spec => []AtMostOnceUnlessRedo
  <1>1. IndInv => AtMostOnceUnlessRedo
    <2> SUFFICES ASSUME IndInv, NEW i \in Invs, NEW j \in Invs, i[1] = j[1], i[1] \notin Redo
                 PROVE  exec[i] <= 1 /\ (i # j => exec[i] = 0 \/ exec[j] = 0)
      BY DEF AtMostOnceUnlessRedo
    <2>1. i \in Once /\ j \in Once
      BY DEF Once
    <2>2. Accounted(i) /\ Accounted(j)
      BY <2>1 DEF IndInv
    <2>3. exec[i] = 0 \/ i[2] = attempt[i[1]]
      BY <2>2 DEF Accounted, PlayedByCaller, Dead
    <2>4. exec[j] = 0 \/ j[2] = attempt[j[1]]
      BY <2>2 DEF Accounted, PlayedByCaller, Dead
    <2>5. i # j => i[2] # j[2]
      BY <2>1, OnceTyped
    <2> QED  BY <2>2, <2>3, <2>4, <2>5 DEF Accounted, InOnePlace
  <1> QED  BY IndInvHolds, <1>1, PTL

\* No answer is matched with an invocation it does not belong to: for any number
\* of calls and attempts, a call that returns successfully was executed by a
\* member under the correlation ID of its last attempt.
THEOREM OkIsExecuted == Spec => []OkMeansExecuted
  <1>1. Init => TypeOK /\ Started /\ Truthful
    BY InitTyped DEF Init, Truthful, OkMeansExecuted
  <1>2. TypeOK /\ Started /\ Truthful /\ [Next]_vars => (TypeOK /\ Started /\ Truthful)'
    BY StepTyped, StepTruthful
  <1>3. Truthful => OkMeansExecuted
    BY DEF Truthful
  <1> QED  BY <1>1, <1>2, <1>3, PTL DEF Spec

\* An I/O error is the truth: the request of an invocation that is completed
\* with one was never written to a socket, so that it can be sent again.
THEOREM IoIsUnsent == Spec => []IoMeansNotSent
  <1> DEFINE Inv == IndInv /\ \A i \in Own : Traced(i)
  <1>1. Init => Inv
    <2> SUFFICES ASSUME Init PROVE Inv
      OBVIOUS
    <2>1. IndInv
      BY InitTyped, InitAccounted DEF IndInv
    <2>2. ASSUME NEW i \in Own PROVE Traced(i)
      <3>1. i \in Invs /\ i # NoInv
        BY OwnTyped
      <3>2. Dead(i) /\ ~InPlay(i) /\ ~Answered(i) /\ resp[i] = "none"
        BY <3>1 DEF Init, Dead, InPlay, Answered
      <3>3. InOnePlace(i)
        BY <3>1 DEF Init, InOnePlace, InPlay
      <3> QED  BY <3>2, <3>3 DEF Traced
    <2> QED  BY <2>1, <2>2
  <1>2. Inv /\ [Next]_vars => Inv'
    <2> SUFFICES ASSUME Inv, [Next]_vars PROVE Inv'
      OBVIOUS
    <2>1. IndInv'
      BY IndInvStep
    <2>2. \A i \in Own : Traced(i)'
      BY StepTraced
    <2>3. Own' = Own
      BY DEF Own, Invs
    <2> QED  BY <2>1, <2>2, <2>3
  <1>3. Inv => IoMeansNotSent
    <2> SUFFICES ASSUME Inv, NEW i \in Invs, resp[i] = "io", i[1] \notin (Partition \cap Redo)
                 PROVE  exec[i] = 0 /\ ~OnSocket(i)
      BY DEF IoMeansNotSent
    <2>1. i \in Own
      BY DEF Own
    <2>2. Dead(i) /\ ~Answered(i)
      BY <2>1 DEF Traced
    <2> QED  BY <2>2 DEF Dead, InPlay, Answered, OnSocket
  <1> QED  BY <1>1, <1>2, <1>3, PTL DEF Spec

\* Connection.close and GroupLost leave nobody behind: while the service runs,
\* an invocation that is still registered for a closed connection whose loss was
\* dealt with was queued after the connection had been closed.
THEOREM OnlyLateSendsAreOrphans == Spec => []OrphansAreLateSends
  <1>1. Init => TypeOK /\ Started /\ Notified
    BY InitTyped DEF Init, Notified, OrphansAreLateSends
  <1>2. TypeOK /\ Started /\ Notified /\ [Next]_vars => (TypeOK /\ Started /\ Notified)'
    BY StepTyped, StepNotified
  <1>3. Notified => OrphansAreLateSends
    BY DEF Notified
  <1> QED  BY <1>1, <1>2, <1>3, PTL DEF Spec

\* What the promise needs beside IndInv and Truthful: a caller has its result
\* when it is done, only a request that was begun is on a socket, and a request
\* whose caller was told "not active" is nowhere.
Kept ==
    /\ \A c \in Calls : outcome[c] # "none" <=> pc[c] = "done"
    /\ \A k \in Conns : \A i \in wire[k] : attempt[i[1]] >= 1
    /\ \A i \in Once : outcome[i[1]] = "notactive" => Dead(i)

PromiseInv == IndInv /\ Truthful /\ Kept

\* Only a write loop puts a request on a socket.
LEMMA WiredByWriter ==
    ASSUME TypeOK, [Next]_vars, NEW k \in Conns, NEW i \in wire'[k]
    PROVE  i \in wire[k] \/ \E l \in Conns : WriteRequest(l)
  <1> USE DEF callerVars, invVars, loopVars, stateVars, connVars, cmVars, netVars
  <1>1. ASSUME NEW c \in Calls, Caller(c) \/ AcceptRequest(c) PROVE wire' = wire
    BY <1>1 DEF Caller, NewInvocation, CheckPaused, SendAfterStop, CancelCall, GetResponse, DeadlinePasses, AcceptRequest
  <1>2. ASSUME SendQueued \/ SendRefused \/ HandleGroupLost \/ ExitLoop PROVE wire' = wire
    BY <1>2 DEF SendQueued, SendRefused, HandleGroupLost, ExitLoop
  <1>3. ASSUME Stop \/ StopDone \/ PauseInvocations \/ ResumeInvocations \/ UNCHANGED vars PROVE wire' = wire
    BY <1>3 DEF Stop, StopDone, PauseInvocations, ResumeInvocations, vars
  <1>4. ASSUME NEW l \in Conns, HandleResponse(l) \/ ReceiveGroupLost(l) \/ DropGroupLost(l) PROVE wire' = wire
    BY <1>4 DEF HandleResponse, ReceiveGroupLost, DropGroupLost
  <1>5. ASSUME NEW l \in Conns, Connect(l) \/ Close(l) \/ RemoveConnection(l) \/ WriteFails(l) \/ ReportWriteError(l)
        PROVE  wire' = wire
    BY <1>5 DEF Connect, Close, RemoveConnection, WriteFails, ReportWriteError
  <1>6. ASSUME NEW l \in Conns, Execute(l) \/ Reject(l) PROVE i \in wire[k]
    BY <1>6 DEF Execute, Reject, TypeOK
  <1> QED  BY <1>1, <1>2, <1>3, <1>4, <1>5, <1>6 DEF Next, Loop, Connection

LEMMA StepKept ==
    ASSUME IndInv, Kept, [Next]_vars
    PROVE  Kept'
  <1> DEFINE Told == \A c \in Calls : outcome[c] # "none" <=> pc[c] = "done"
             Asked == \A k \in Conns : \A i \in wire[k] : attempt[i[1]] >= 1
             Withdrawn == \A i \in Once : outcome[i[1]] = "notactive" => Dead(i)
  <1>0. TypeOK /\ Started /\ TypeOK' /\ Told /\ Asked /\ Withdrawn
    BY StepTyped DEF IndInv, Kept
  <1> DEFINE Effect ==
        /\ \A c \in Calls : attempt[c] >= 1 => attempt'[c] >= 1
        /\ \A c \in Calls : outcome'[c] = outcome[c] \/ (pc[c] # "done" /\ pc'[c] = "done" /\ outcome'[c] # "none")
        /\ \A c \in Calls : outcome'[c] = outcome[c] => (pc'[c] = "done" <=> pc[c] = "done")
        /\ \A c \in Calls : outcome'[c] = "notactive" =>
             outcome[c] = "notactive" \/ (pc[c] = "offering" /\ UNCHANGED <<svcInv, pending, writer, wire, exec>>)
  <1>1. Effect
    <2>1. ASSUME NEW c \in Calls, Begins(c) PROVE Effect
      BY <1>0, <2>1, BoundsAssumption DEF Begins, NewInvocation, TypeOK
    <2>2. ASSUME NEW c \in Calls, NEW r \in Promise!Results, Returns(c, r) PROVE Effect
      BY <1>0, <2>2 DEF Returns, Return, TypeOK, Promise!Results
    <2>3. ASSUME NEW i \in Invs, Runs(i) PROVE Effect
      BY <1>0, <2>3 DEF Runs, TypeOK
    <2>4. ASSUME Hidden PROVE Effect
      BY <1>0, <2>4 DEF Hidden, TypeOK
    <2> QED  BY <1>0, <2>1, <2>2, <2>3, <2>4, StepSeen
  <1>2. Told'
    BY <1>0, <1>1
  <1>3. Withdrawn'
    <2> SUFFICES ASSUME NEW i \in Once', outcome'[i[1]] = "notactive" PROVE Dead(i)'
      OBVIOUS
    <2>1. i \in Once /\ i[1] \in Calls
      BY OnceTyped DEF Once, Invs
    <2>2. CASE outcome[i[1]] = "notactive"
      BY <1>0, <2>1, <2>2, DeadStaysDead
    <2>3. CASE outcome[i[1]] # "notactive"
      <3>1. pc[i[1]] = "offering" /\ UNCHANGED <<svcInv, pending, writer, wire, exec>>
        BY <1>1, <2>1, <2>3
      <3>2. Dead(i)
        BY <2>1, <3>1 DEF IndInv, Accounted, PlayedByCaller
      <3> QED  BY <3>1, <3>2, SamePlace
    <2> QED  BY <2>2, <2>3
  <1>4. Asked'
    <2> SUFFICES ASSUME NEW k \in Conns, NEW i \in wire'[k] PROVE attempt'[i[1]] >= 1
      OBVIOUS
    <2>1. i[1] \in Calls
      BY <1>0 DEF TypeOK, Invs
    <2>2. i \in wire[k] \/ \E l \in Conns : WriteRequest(l)
      BY <1>0, WiredByWriter
    <2>3. CASE i \in wire[k]
      BY <1>0, <1>1, <2>1, <2>3
    <2>4. ASSUME NEW l \in Conns, WriteRequest(l), i \notin wire[k] PROVE attempt[i[1]] >= 1
      <3>1. PICK j \in pending[l] : wire' = [wire EXCEPT ![l] = @ \cup {WireID(j)}]
        BY <2>4 DEF WriteRequest
      <3>2. i = WireID(j)
        BY <1>0, <2>4, <3>1 DEF TypeOK
      <3>3. i[1] = j[1]
        BY <1>0, <3>2, WireIDTyped
      <3> QED  BY <1>0, <3>3 DEF Started
    <2> QED  BY <1>1, <2>1, <2>2, <2>3, <2>4
  <1> QED  BY <1>2, <1>3, <1>4 DEF Kept

\* Every step begins a request, executes one, tells a caller its result, or is
\* hidden from the user.
LEMMA StepPromised ==
    ASSUME PromiseInv, [Next]_vars
    PROVE  Promise!Next \/ UNCHANGED Promise!remoteVars
  <1>0. TypeOK /\ Started /\ Truthful /\ Kept
    BY DEF PromiseInv, IndInv
  <1>1. ASSUME NEW c \in Calls, Begins(c) PROVE Promise!Next \/ UNCHANGED Promise!remoteVars
    <2> DEFINE begun == {d \in Calls : attempt[d] > 0}
    <2>1. /\ pc[c] = "ready" /\ attempt' = [attempt EXCEPT ![c] = @ + 1]
          /\ UNCHANGED <<outcome, exec>>
      BY <1>1 DEF Begins, NewInvocation, netVars
    <2>2. begun' = begun \cup {c}
      BY <1>0, <2>1, BoundsAssumption DEF TypeOK
    <2>3. CASE c \in begun
      BY <2>1, <2>2, <2>3 DEF Promise!remoteVars
    <2>4. CASE c \notin begun
      <3>1. outcome[c] = "none"
        BY <1>0, <2>1 DEF Kept
      <3>2. Promise!Begin(c)
        BY <2>1, <2>2, <2>4, <3>1 DEF Promise!Begin
      <3> QED  BY <3>2 DEF Promise!Next
    <2> QED  BY <2>3, <2>4
  <1>2. ASSUME NEW c \in Calls, NEW r \in Promise!Results, Returns(c, r) PROVE Promise!Next
    <2>1. outcome[c] = "none" /\ outcome' = [outcome EXCEPT ![c] = r] /\ UNCHANGED <<attempt, exec>>
      BY <1>0, <1>2 DEF Returns, Return, Kept
    <2>2. r = "ok" => Promise!Executed(c)
      <3> SUFFICES ASSUME r = "ok" PROVE Promise!Executed(c)
        OBVIOUS
      <3>1. attempt[c] >= 1 /\ resp[Current(c)] = "ok"
        BY <1>0, <1>2 DEF Returns, Started
      <3>2. Current(c) \in Invs /\ attempt[c] \in 1..MaxAttempts
        BY <1>0, <3>1, CurrentTyped, BoundsAssumption DEF TypeOK
      <3>3. exec[<<c, attempt[c]>>] > 0
        BY <1>0, <3>1, <3>2 DEF Truthful, Current
      <3> QED  BY <3>2, <3>3 DEF Promise!Executed
    <2>3. r = "notactive" /\ c \notin Redo => ~Promise!Executed(c)
      <3> SUFFICES ASSUME r = "notactive", c \notin Redo, NEW n \in 1..MaxAttempts
                   PROVE  ~(exec[<<c, n>>] > 0)
        BY DEF Promise!Executed
      <3>1. <<c, n>> \in Once /\ pc[c] = "offering"
        BY <1>2 DEF Once, Invs, Returns
      <3>2. Dead(<<c, n>>)
        BY <3>1 DEF PromiseInv, IndInv, Accounted, PlayedByCaller
      <3> QED  BY <3>2 DEF Dead
    <2>4. Promise!Tell(c, r)
      BY <2>1, <2>2, <2>3 DEF Promise!Tell
    <2> QED  BY <2>4 DEF Promise!Next
  <1>3. ASSUME NEW i \in Invs, Runs(i) PROVE Promise!Next
    <2>1. PICK c \in Calls, n \in 1..MaxAttempts : i = <<c, n>>
      BY DEF Invs
    <2>2. attempt[c] > 0 /\ exec' = [exec EXCEPT ![<<c, n>>] = @ + 1] /\ UNCHANGED <<attempt, outcome>>
      <3>1. attempt[c] >= 1 /\ attempt[c] \in Int
        BY <1>0, <1>3, <2>1 DEF Runs, Kept, TypeOK
      <3> QED  BY <1>3, <2>1, <3>1 DEF Runs
    <2>3. ASSUME c \notin Redo PROVE ~Promise!Executed(c) /\ outcome[c] # "notactive"
      <3>1. i \in Once /\ InPlay(i)
        BY <1>3, <2>1, <2>3 DEF Once, Runs, InPlay
      <3>2. ~Dead(i) /\ exec[i] = 0
        BY <3>1 DEF PromiseInv, IndInv, Accounted, InOnePlace, Dead
      <3>3. outcome[c] # "notactive"
        BY <1>0, <2>1, <3>1, <3>2 DEF Kept
      <3>4. ASSUME NEW m \in 1..MaxAttempts PROVE ~(exec[<<c, m>>] > 0)
        <4>1. <<c, m>> \in Once
          BY <2>3 DEF Once, Invs
        <4>2. Accounted(i) /\ Accounted(<<c, m>>)
          BY <3>1, <4>1 DEF PromiseInv, IndInv
        <4>3. n = attempt[c]
          BY <2>1, <3>2, <4>2 DEF Accounted, PlayedByCaller
        <4>4. Dead(<<c, m>>) \/ m = attempt[c]
          BY <4>2 DEF Accounted, PlayedByCaller
        <4> QED  BY <2>1, <3>2, <4>3, <4>4 DEF Dead
      <3> QED  BY <3>3, <3>4 DEF Promise!Executed
    <2>4. Promise!Execute(c, n)
      BY <2>2, <2>3 DEF Promise!Execute
    <2> QED  BY <2>1, <2>4 DEF Promise!Next
  <1>4. ASSUME Hidden PROVE UNCHANGED Promise!remoteVars
    BY <1>4 DEF Hidden, Promise!remoteVars
  <1> QED  BY <1>0, <1>1, <1>2, <1>3, <1>4, StepSeen

\* The request path implements RemoteCall for any number of calls, connections
\* and tries: whatever CircuitBreaker.try, Service and the connections do, the
\* user is told one result per call, success only for what was executed, and
\* "not active" for a request that must not be redone only if no member has
\* executed it or ever will.
THEOREM CallRefines == Spec => ImplementsRemoteCall
  <1>1. Init => PromiseInv
    <2> SUFFICES ASSUME Init PROVE PromiseInv
      OBVIOUS
    <2>1. IndInv
      BY InitTyped, InitAccounted DEF IndInv
    <2>2. Truthful
      BY DEF Init, Truthful, OkMeansExecuted
    <2>3. Kept
      BY OnceTyped DEF Init, Kept
    <2> QED  BY <2>1, <2>2, <2>3 DEF PromiseInv
  <1>2. PromiseInv /\ [Next]_vars => PromiseInv'
    <2> SUFFICES ASSUME PromiseInv, [Next]_vars PROVE PromiseInv'
      OBVIOUS
    <2>1. IndInv /\ Truthful /\ Kept
      BY DEF PromiseInv
    <2>2. TypeOK /\ Started
      BY <2>1 DEF IndInv
    <2> QED  BY <2>1, <2>2, IndInvStep, StepTruthful, StepKept DEF PromiseInv
  <1>3. Init => Promise!Init
    <2> SUFFICES ASSUME Init PROVE Promise!Init
      OBVIOUS
    <2>1. {c \in Calls : attempt[c] > 0} = {}
      BY DEF Init
    <2> QED  BY <2>1 DEF Init, Promise!Init, Invs
  <1>4. PromiseInv /\ [Next]_vars => [Promise!Next]_(Promise!remoteVars)
    BY StepPromised
  <1> QED  BY <1>1, <1>2, <1>3, <1>4, PTL DEF Spec, ImplementsRemoteCall, Promise!Spec
=============================================================================
