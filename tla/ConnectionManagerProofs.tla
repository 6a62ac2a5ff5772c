---------------------- MODULE ConnectionManagerProofs ----------------------
(***************************************************************************)
(* Proofs about ConnectionManager, for any members, addresses, clusters    *)
(* and connections; members may share an address.                          *)
(*                                                                         *)
(* The properties speak of the maps and of the queues.  To be inductive    *)
(* they need what the goroutines hold (Held), what the control state of    *)
(* the start and the stop says of subscriptions, states and queues         *)
(* (Booting, Lifecycle), and that the two maps of connectionMap agree      *)
(* (MapsAgree).                                                            *)
(***************************************************************************)
EXTENDS ConnectionManager, TLAPS

\* A connection has been made once it has a peer, and keeps its peer and its
\* cluster; whatever refers to a connection refers to one that has been made.
IsMade(k) == k \in Conns /\ peer[k] \in Members /\ cid[k] \in Clusters

Held ==
    /\ \A k \in Conns : peer[k] # None => IsMade(k)
    /\ \A k \in Conns : status[k] = "open" => peer[k] # None
    /\ \A t \in Connectors :
         /\ IF pc[t] \in ConnectPcs THEN IsMade(mine[t]) ELSE mine[t] = None
         /\ pc[t] = "cand" => target[t] \in Members
    /\ \A k \in closing \cup connQueue : IsMade(k) /\ status[k] = "closed"

\* A connection is mapped under the UUID of its peer; the address map is a part of
\* the UUID map, and what it lacks was displaced.
MapsAgree ==
    /\ \A m \in Members : uuidToConn[m] # None =>
         /\ IsMade(uuidToConn[m]) /\ peer[uuidToConn[m]] = m
         /\ addrToConn[AddrOf[m]] = uuidToConn[m] \/ uuidToConn[m] \in excused
    /\ \A a \in Addrs : addrToConn[a] # None =>
         /\ IsMade(addrToConn[a])
         /\ AddrOf[peer[addrToConn[a]]] = a
         /\ uuidToConn[peer[addrToConn[a]]] = addrToConn[a]

\* What Stop and reset have done when the boot goroutine is at its next step.
Booting ==
    /\ pc.boot \in {"drain", "unlist", "reset", "resetMap", "sub"} => ~connSub
    /\ pc.boot \in {"unlist", "reset", "resetMap", "sub"} =>
         connQueue = {} /\ pc.worker = "idle" /\ ~listSub
    /\ pc.boot \in {"reset", "resetMap", "sub"} => pc.lister = "idle"
    /\ pc.boot \in ConnectPcs \cup {"try", "wait", "finish"} => mstate = "starting"

\* The states of Client and the invocation service.
Lifecycle ==
    /\ pc.closer = "idle" <=> cstate \in {"starting", "ready"}
    /\ pc.boot = "ready" => cstate = "starting"
    /\ pc.boot = "run" => cstate # "starting"
    /\ cstate \in {"starting", "ready"} /\ pc.boot # "failed" => running

\* All connections in use, and those about to be added, are to one cluster.
SameCluster ==
    ~torn /\ pc.boot # "resetMap" =>
        /\ \A m \in Members : uuidToConn[m] # None => cid[uuidToConn[m]] = clusterID
        /\ \A t \in Connectors : pc[t] = "add" => cid[mine[t]] = clusterID

Dead ==
    \A m \in Members : uuidToConn[m] # None /\ status[uuidToConn[m]] = "closed" =>
        \/ uuidToConn[m] \in closing \cup connQueue \cup excused
        \/ mstate = "stopped" /\ pc.boot # "sub"

Owned ==
    \A k \in Conns : status[k] = "open" =>
        \/ uuidToConn[peer[k]] = k
        \/ k \in excused
        \/ \E t \in Connectors : mine[t] = k

\* A pause, or the loss of the last connection, in a client that is up or about to be.
Announced ==
    cstate \in {"starting", "ready"} =>
        /\ paused /\ pc.boot \in {"ready", "run"} => Noticed \/ unheard
        /\ (\A m \in Members : uuidToConn[m] = None)
           /\ pc.boot \in {"wait", "finish", "ready", "run"} => Noticed \/ unheard

IndInv ==
    /\ TypeOK /\ Held /\ MapsAgree /\ Booting /\ Lifecycle
    /\ SameCluster /\ Dead /\ Owned /\ Announced

-----------------------------------------------------------------------------
(* Type correctness *)

PcTypes ==
    [boot   |-> BootPcs \cup StopPcs \cup ConnectPcs,
     lister |-> MemberPcs \cup {"idle"},
     sync   |-> MemberPcs \cup {"off"},
     worker |-> {"idle", "pause", "publish"},
     closer |-> StopPcs \cup {"idle", "invocations", "last", "done"}]

\* A goroutine goes on, and the others stay where they are.
LEMMA GotoTyped ==
    ASSUME TypeOK, NEW t \in Procs, NEW l \in PcTypes[t], Goto(t, l)
    PROVE  /\ pc' \in [boot   : BootPcs \cup StopPcs \cup ConnectPcs,
                       lister : MemberPcs \cup {"idle"},
                       sync   : MemberPcs \cup {"off"},
                       worker : {"idle", "pause", "publish"},
                       closer : StopPcs \cup {"idle", "invocations", "last", "done"}]
           /\ pc'[t] = l
           /\ \A u \in Procs \ {t} : pc'[u] = pc[u]
  BY DEF TypeOK, Procs, Connectors, Goto, PcTypes

\* Closing connections, and publishing that they are closed.
LEMMA PublishEffect ==
    ASSUME TypeOK, NEW K \in SUBSET Conns, PublishClosed(K)
    PROVE  /\ connQueue' \in SUBSET Conns /\ excused' \in SUBSET Conns
           /\ connQueue \subseteq connQueue' /\ excused \subseteq excused'
           /\ K \subseteq connQueue' \cup excused'
           /\ connQueue' \subseteq connQueue \cup K
           /\ ~connSub => connQueue' = connQueue
  BY DEF TypeOK, PublishClosed

LEMMA CloseEffect ==
    ASSUME TypeOK, NEW K \in SUBSET Conns, Close(K)
    PROVE  /\ status' \in [Conns -> {"open", "closed"}]
           /\ \A k \in Conns : status'[k] = IF k \in K THEN "closed" ELSE status[k]
           /\ connQueue' \in SUBSET Conns /\ excused' \in SUBSET Conns
           /\ connQueue \subseteq connQueue' /\ excused \subseteq excused'
           /\ \A k \in Conns : k \in K /\ status[k] = "open" => k \in connQueue' \cup excused'
           /\ \A k \in connQueue' \ connQueue : status[k] = "open" /\ status'[k] = "closed"
           /\ ~connSub => connQueue' = connQueue
           /\ peer' = peer /\ cid' = cid /\ closing' = closing
  <1>1. PublishClosed(Opened(K)) /\ Opened(K) \in SUBSET Conns
    BY DEF Close, Opened
  <1>2. status' \in [Conns -> {"open", "closed"}]
        /\ \A k \in Conns : status'[k] = IF k \in K THEN "closed" ELSE status[k]
    BY DEF Close, TypeOK
  <1> QED  BY <1>1, <1>2, PublishEffect DEF Close, Opened

\* A new connection.
LEMMA DialEffect ==
    ASSUME TypeOK, NEW t \in Connectors, NEW a, Dial(t, a)
    PROVE  \E k \in Conns, m \in Members, c \in Clusters :
             /\ peer[k] = None
             /\ status' = [status EXCEPT ![k] = "open"]
             /\ peer' = [peer EXCEPT ![k] = m]
             /\ cid' = [cid EXCEPT ![k] = c]
             /\ mine' = [mine EXCEPT ![t] = k]
             /\ closing' = closing
             /\ pc' = [pc EXCEPT ![t] = "auth"]
  BY DEF Dial, Goto

LEMMA InitTyped == Init => TypeOK
  <1> SUFFICES ASSUME Init PROVE TypeOK
    OBVIOUS
  <1>1. /\ pc.boot = "sub" /\ pc.lister = "idle" /\ pc.sync = "off"
        /\ pc.worker = "idle" /\ pc.closer = "idle"
    BY DEF Init
  <1>2. pc \in [boot   : BootPcs \cup StopPcs \cup ConnectPcs,
                lister : MemberPcs \cup {"idle"},
                sync   : MemberPcs \cup {"off"},
                worker : {"idle", "pause", "publish"},
                closer : StopPcs \cup {"idle", "invocations", "last", "done"}]
    BY <1>1 DEF Init, BootPcs
  <1>3. clusterQueue \in 0..MaxDisconnects
    BY SeedsAssumption DEF Init
  <1> QED  BY <1>2, <1>3 DEF Init, TypeOK

LEMMA NextTyped ==
    ASSUME TypeOK, Held, [Next]_vars
    PROVE  TypeOK'
  <1> DEFINE PcOK == pc \in [boot   : BootPcs \cup StopPcs \cup ConnectPcs,
                             lister : MemberPcs \cup {"idle"},
                             sync   : MemberPcs \cup {"off"},
                             worker : {"idle", "pause", "publish"},
                             closer : StopPcs \cup {"idle", "invocations", "last", "done"}]
  <1>a. ASSUME NEW t \in Procs, NEW l, Goto(t, l), l \in PcTypes[t]
        PROVE  PcOK'
    BY <1>a, GotoTyped
  <1>b. \A t \in Connectors : t \in Procs /\ "auth" \in PcTypes[t] /\ "add" \in PcTypes[t]
    BY DEF Connectors, Procs, PcTypes, MemberPcs, ConnectPcs
  <1>c. \A t \in Connectors : pc[t] \in {"auth", "add"} => mine[t] \in Conns
    BY DEF Held, IsMade, ConnectPcs
  <1>1. ASSUME NEW k \in Conns, ConnectionFails(k)
        PROVE  TypeOK'
    BY <1>1 DEF ConnectionFails, TypeOK, mapVars, mgrVars, eventVars, otherEvents, clientVars,
                procVars, history
  <1>2. ASSUME NEW k \in Conns, FailurePublished(k)
        PROVE  TypeOK'
    <2>1. connQueue' \in SUBSET Conns /\ excused' \in SUBSET Conns
      BY <1>2, PublishEffect DEF FailurePublished
    <2> QED
      BY <1>2, <2>1 DEF FailurePublished, TypeOK, mapVars, mgrVars, otherEvents, clientVars,
         procVars
  <1>3. ASSUME NEW k \in Conns, MemberListArrives(k)
        PROVE  TypeOK'
    <2>1. PcOK'
      <3>1. CASE Goto("lister", "next")
        BY <3>1, <1>a DEF PcTypes, Procs, Connectors, MemberPcs
      <3>2. CASE UNCHANGED pc
        BY <3>2 DEF TypeOK
      <3> QED  BY <1>3, <3>1, <3>2 DEF MemberListArrives
    <2> QED
      BY <1>3, <2>1 DEF MemberListArrives, TypeOK, connVars, mapVars, eventVars, otherEvents,
         clientVars, history
  <1>4. ASSUME NEW t \in Connectors, NEW ok \in BOOLEAN, Attempted(t, ok)
        PROVE  /\ PcOK' /\ mine' \in [Connectors -> Conns \cup {None}]
               /\ target' \in [Connectors -> Members \cup {None}]
    <2>1. (IF t # "boot" THEN "next" ELSE IF ok THEN "wait" ELSE "try") \in PcTypes[t]
      BY DEF PcTypes, Connectors, MemberPcs, BootPcs
    <2>2. PcOK'
      BY <1>4, <2>1, <1>a, <1>b DEF Attempted
    <2> QED  BY <1>4, <2>2 DEF Attempted, TypeOK
  <1>5. ASSUME NEW t \in Connectors, NotAuthenticated(t)
        PROVE  TypeOK'
    <2> DEFINE K == {mine[t]}
    <2>1. K \in SUBSET Conns /\ Close(K)
      BY <1>5, <1>c DEF NotAuthenticated
    <2> HIDE DEF K
    <2>2. /\ status' \in [Conns -> {"open", "closed"}]
          /\ connQueue' \in SUBSET Conns /\ excused' \in SUBSET Conns
          /\ peer' = peer /\ cid' = cid /\ closing' = closing
      BY <2>1, CloseEffect
    <2>3. /\ PcOK' /\ mine' \in [Connectors -> Conns \cup {None}]
          /\ target' \in [Connectors -> Members \cup {None}]
      BY <1>4, <1>5 DEF NotAuthenticated
    <2> QED
      BY <1>5, <2>2, <2>3 DEF NotAuthenticated, TypeOK, mgrVars, otherEvents, clientVars
  <1>6. ASSUME NEW t \in Connectors, CheckCluster(t)
        PROVE  TypeOK'
    <2>1. CASE clusterID \notin {None, cid[mine[t]]}
      <3> DEFINE K == {mine[t]}
      <3>1. K \in SUBSET Conns /\ Close(K)
        BY <1>6, <1>c, <2>1 DEF CheckCluster
      <3> HIDE DEF K
      <3>2. /\ status' \in [Conns -> {"open", "closed"}]
            /\ connQueue' \in SUBSET Conns /\ excused' \in SUBSET Conns
            /\ peer' = peer /\ cid' = cid /\ closing' = closing
        BY <3>1, CloseEffect
      <3>3. /\ PcOK' /\ mine' \in [Connectors -> Conns \cup {None}]
            /\ target' \in [Connectors -> Members \cup {None}]
        BY <1>4, <1>6, <2>1 DEF CheckCluster
      <3> QED
        BY <1>6, <2>1, <3>2, <3>3 DEF CheckCluster, TypeOK, otherEvents, clientVars
    <2>2. CASE clusterID \in {None, cid[mine[t]]}
      <3>1. PcOK'
        BY <1>6, <2>2, <1>a, <1>b DEF CheckCluster
      <3>2. clusterID' \in Clusters \cup {None}
        BY <1>6, <2>2, <1>c DEF CheckCluster, TypeOK
      <3> QED
        BY <1>6, <2>2, <3>1, <3>2 DEF CheckCluster, TypeOK, connVars, otherEvents, clientVars
    <2> QED  BY <2>1, <2>2
  <1>7. ASSUME NEW t \in Connectors, AddConnection(t)
        PROVE  TypeOK'
    <2>0. mine[t] \in Conns /\ peer[mine[t]] \in Members
      BY <1>7 DEF AddConnection, Held, IsMade, ConnectPcs
    <2>3. /\ PcOK' /\ mine' \in [Connectors -> Conns \cup {None}]
          /\ target' \in [Connectors -> Members \cup {None}]
      BY <1>4, <1>7 DEF AddConnection
    <2>1. CASE uuidToConn[peer[mine[t]]] # None
      <3> DEFINE K == {mine[t]}
      <3>1. K \in SUBSET Conns /\ Close(K)
        BY <1>7, <2>0, <2>1 DEF AddConnection
      <3> HIDE DEF K
      <3>2. /\ status' \in [Conns -> {"open", "closed"}]
            /\ connQueue' \in SUBSET Conns /\ excused' \in SUBSET Conns
            /\ peer' = peer /\ cid' = cid /\ closing' = closing
        BY <3>1, CloseEffect
      <3> QED
        BY <1>7, <2>1, <2>3, <3>2 DEF AddConnection, TypeOK, mgrVars, otherEvents, clientVars
    <2>2. CASE uuidToConn[peer[mine[t]]] = None
      <3>1. Unnoticed(mine[t]) \in SUBSET Conns
        BY <2>0, MembersAssumption DEF Unnoticed, TypeOK
      <3>2. excused' \in SUBSET Conns
        BY <1>7, <2>2, <3>1 DEF AddConnection, TypeOK
      <3>3. uuidToConn' \in [Members -> Conns \cup {None}] /\ addrToConn' \in [Addrs -> Conns \cup {None}]
        BY <1>7, <2>0, <2>2, MembersAssumption DEF AddConnection, TypeOK
      <3> QED
        BY <1>7, <2>2, <2>3, <3>2, <3>3 DEF AddConnection, TypeOK, connVars, mgrVars,
           otherEvents, clientVars
    <2> QED  BY <2>1, <2>2
  <1>8. ASSUME NEW t \in {"lister", "sync"}, ConnectMembers(t)
        PROVE  TypeOK'
    <2>0. t \in Connectors /\ "cand" \in PcTypes[t]
      BY DEF Connectors, PcTypes, MemberPcs
    <2>1. CASE TryConnectMember(t)
      <3>1. PcOK'
        BY <2>0, <2>1, <1>a, <1>b DEF TryConnectMember
      <3> QED
        BY <2>0, <2>1, <3>1 DEF TryConnectMember, TypeOK, connVars, mapVars, mgrVars,
           eventVars, otherEvents, clientVars, history
    <2>2. CASE ConnectMember(t)
      <3>1. Dial(t, AddrOf[target[t]])
        BY <2>2 DEF ConnectMember
      <3>2. PcOK'
        BY <2>0, <3>1, <1>a, <1>b DEF Dial
      <3>3. /\ status' \in [Conns -> {"open", "closed"}]
            /\ peer' \in [Conns -> Members \cup {None}] /\ cid' \in [Conns -> Clusters \cup {None}]
            /\ closing' = closing /\ mine' \in [Connectors -> Conns \cup {None}]
        BY <2>0, <3>1, DialEffect DEF TypeOK
      <3>4. target[t] \in Members
        BY <2>0, <2>2 DEF ConnectMember, Held
      <3> QED
        BY <2>2, <3>2, <3>3, <3>4 DEF ConnectMember, TypeOK, mgrVars, eventVars, otherEvents,
           clientVars, history
    <2>3. CASE MemberSkipped(t)
      <3>1. /\ PcOK' /\ mine' \in [Connectors -> Conns \cup {None}]
            /\ target' \in [Connectors -> Members \cup {None}]
        BY <2>0, <2>3, <1>4 DEF MemberSkipped
      <3> QED
        BY <2>3, <3>1 DEF MemberSkipped, TypeOK, connVars, mapVars, mgrVars, eventVars,
           otherEvents, clientVars, history
    <2> QED  BY <1>8, <2>1, <2>2, <2>3 DEF ConnectMembers
  <1>9. CASE ListHandled
    <2>1. PcOK'
      BY <1>9, <1>a DEF ListHandled, PcTypes, Procs, Connectors
    <2> QED  BY <1>9, <2>1 DEF ListHandled, TypeOK, connVars, mapVars, mgrVars, clientVars,
                history
  <1>10. CASE SyncEnds
    <2>1. PcOK'
      BY <1>10, <1>a DEF SyncEnds, PcTypes, Procs, Connectors
    <2> QED
      BY <1>10, <2>1 DEF SyncEnds, TypeOK, connVars, mapVars, mgrVars, eventVars, otherEvents,
         clientVars, history
  <1>11. CASE RemoveConnection
    <2>1. PICK k \in connQueue :
            /\ connQueue' = connQueue \ {k}
            /\ IF mstate = "stopped"
               THEN UNCHANGED <<uuidToConn, addrToConn, pc>>
               ELSE LET A == {a \in Addrs : addrToConn[a] = k} IN
                      /\ addrToConn' = [a \in Addrs |-> IF a \in A THEN None ELSE addrToConn[a]]
                      /\ uuidToConn' = IF A = {} THEN uuidToConn
                                                 ELSE [uuidToConn EXCEPT ![peer[k]] = None]
                      /\ Goto("worker", IF \A m \in Members : uuidToConn'[m] = None
                                        THEN "pause" ELSE "idle")
      BY <1>11 DEF RemoveConnection
    <2>2. PcOK'
      <3>1. CASE mstate = "stopped"
        BY <2>1, <3>1 DEF TypeOK
      <3>2. CASE mstate # "stopped"
        BY <2>1, <3>2, <1>a DEF PcTypes, Procs, Connectors
      <3> QED  BY <3>1, <3>2
    <2>3. connQueue' \in SUBSET Conns
      BY <2>1 DEF TypeOK
    <2>4. uuidToConn' \in [Members -> Conns \cup {None}] /\ addrToConn' \in [Addrs -> Conns \cup {None}]
      BY <2>1 DEF TypeOK
    <2> QED
      BY <1>11, <2>2, <2>3, <2>4 DEF RemoveConnection, TypeOK, connVars, mgrVars, otherEvents,
         clientVars, history
  <1>12. CASE PauseInvocations
    <2>1. PcOK'
      BY <1>12, <1>a DEF PauseInvocations, PcTypes, Procs, Connectors
    <2>2. paused' \in BOOLEAN /\ leaked' \in BOOLEAN
      BY <1>12 DEF PauseInvocations, Pause, TypeOK
    <2> QED
      BY <1>12, <2>1, <2>2 DEF PauseInvocations, TypeOK, connVars, mapVars, mgrVars,
         eventVars, otherEvents, history
  <1>13. CASE PublishDisconnected
    <2>1. PcOK'
      BY <1>13, <1>a DEF PublishDisconnected, PcTypes, Procs, Connectors
    <2>2. clusterQueue' \in 0..MaxDisconnects
      BY <1>13, SeedsAssumption DEF PublishDisconnected, TypeOK
    <2> QED
      BY <1>13, <2>1, <2>2 DEF PublishDisconnected, TypeOK, connVars, mapVars, mgrVars,
         clientVars
  <1>14. CASE Reset \/ Subscribe
    <2>1. PcOK'
      BY <1>14, <1>a DEF Reset, Subscribe, PcTypes, Procs, Connectors, BootPcs
    <2> QED
      BY <1>14, <2>1 DEF Reset, Subscribe, TypeOK, connVars, mapVars, eventVars, otherEvents,
         clientVars, history
  <1>15. CASE ResetMap
    <2>1. PcOK'
      BY <1>15, <1>a DEF ResetMap, PcTypes, Procs, Connectors, BootPcs
    <2>2. excused' \in SUBSET Conns
      BY <1>15 DEF ResetMap, Opened, Mapped, TypeOK
    <2>3. /\ uuidToConn' \in [Members -> Conns \cup {None}] /\ addrToConn' \in [Addrs -> Conns \cup {None}]
          /\ candidates' \in SUBSET Members /\ torn' \in BOOLEAN
      BY <1>15 DEF ResetMap
    <2> QED
      BY <1>15, <2>1, <2>2, <2>3 DEF ResetMap, TypeOK, connVars, mgrVars, eventVars,
         otherEvents, clientVars
  <1>16. CASE DialSeed
    <2>0. "boot" \in Connectors
      BY DEF Connectors
    <2>1. PICK a \in Seeds : Dial("boot", a)
      BY <1>16 DEF DialSeed
    <2>2. PcOK'
      BY <2>0, <2>1, <1>a, <1>b DEF Dial
    <2>3. /\ status' \in [Conns -> {"open", "closed"}]
          /\ peer' \in [Conns -> Members \cup {None}] /\ cid' \in [Conns -> Clusters \cup {None}]
          /\ closing' = closing /\ mine' \in [Connectors -> Conns \cup {None}]
      BY <2>0, <2>1, DialEffect DEF TypeOK
    <2> QED
      BY <1>16, <2>2, <2>3 DEF DialSeed, TypeOK, mapVars, mgrVars, eventVars, otherEvents,
         clientVars, history
  <1>17. CASE StartFails \/ Started \/ ClientReady
    <2>1. PcOK'
      BY <1>17, <1>a DEF StartFails, Started, ClientReady, PcTypes, Procs, Connectors,
         BootPcs, StopPcs
    <2> QED
      BY <1>17, <2>1 DEF StartFails, Started, ClientReady, Pause, TypeOK, connVars, mapVars,
         mgrVars, eventVars, otherEvents, history
  <1>18. CASE ListReceived
    <2>1. PcOK'
      BY <1>18 DEF ListReceived, TypeOK, BootPcs, MemberPcs
    <2> QED
      BY <1>18, <2>1 DEF ListReceived, TypeOK, connVars, mapVars, mgrVars, eventVars,
         otherEvents, clientVars, history
  <1>19. CASE HandleDisconnected
    <2>1. PcOK'
      BY <1>19, <1>a DEF HandleDisconnected, PcTypes, Procs, Connectors, BootPcs, StopPcs
    <2>2. clusterQueue' \in 0..MaxDisconnects
      BY <1>19, SeedsAssumption DEF HandleDisconnected, TypeOK
    <2> QED
      BY <1>19, <2>1, <2>2 DEF HandleDisconnected, TypeOK, connVars, mapVars, mgrVars,
         clientVars, history
  <1>20. ASSUME NEW t \in {"boot", "closer"}, Unsubscribe(t) \/ UnsubscribeMembers(t)
         PROVE  TypeOK'
    <2>1. PcOK'
      BY <1>20, <1>a DEF Unsubscribe, UnsubscribeMembers, PcTypes, Procs, Connectors, StopPcs
    <2> QED
      BY <1>20, <2>1 DEF Unsubscribe, UnsubscribeMembers, TypeOK, connVars, mapVars, mgrVars,
         clientVars, history
  <1>21. ASSUME NEW t \in {"boot", "closer"}, CloseAll(t)
         PROVE  TypeOK'
    <2>1. PcOK'
      BY <1>21, <1>a DEF CloseAll, PcTypes, Procs, Connectors, BootPcs
    <2>2. /\ status' \in [Conns -> {"open", "closed"}]
          /\ connQueue' \in SUBSET Conns /\ excused' \in SUBSET Conns
          /\ peer' = peer /\ cid' = cid /\ closing' = closing
      <3>1. CASE Close(Mapped)
        <4>1. Mapped \in SUBSET Conns
          BY DEF Mapped, TypeOK
        <4> QED  BY <3>1, <4>1, CloseEffect
      <3>2. CASE UNCHANGED <<connVars, connQueue, excused>>
        BY <3>2 DEF connVars, TypeOK
      <3> QED  BY <1>21, <3>1, <3>2 DEF CloseAll
    <2>3. mstate' \in {"starting", "ready", "stopped"} /\ doneCh' \in BOOLEAN
      BY <1>21 DEF CloseAll, TypeOK
    <2> QED
      BY <1>21, <2>1, <2>2, <2>3 DEF CloseAll, TypeOK, mapVars, otherEvents, clientVars
  <1>22. CASE Shutdown \/ StopInvocations
    <2>1. PcOK'
      BY <1>22, <1>a DEF Shutdown, StopInvocations, PcTypes, Procs, Connectors, StopPcs
    <2>2. cstate' \in {"starting", "ready", "stopping", "stopped"} /\ running' \in BOOLEAN
      BY <1>22 DEF Shutdown, StopInvocations, TypeOK
    <2> QED
      BY <1>22, <2>1, <2>2 DEF Shutdown, StopInvocations, TypeOK, connVars, mapVars, mgrVars,
         eventVars, otherEvents, history
  <1>23. CASE ShutDown
    <2>1. PcOK'
      <3>1. CASE UNCHANGED procVars
        BY <3>1 DEF procVars, TypeOK
      <3>2. CASE Goto("closer", "done")
        BY <3>2, <1>a DEF PcTypes, Procs, Connectors
      <3> QED  BY <1>23, <3>1, <3>2 DEF ShutDown
    <2> QED
      BY <1>23, <2>1 DEF ShutDown, TypeOK, connVars, mapVars, mgrVars, eventVars, otherEvents,
         clientVars, procVars, history
  <1>24. CASE UNCHANGED vars
    BY <1>24 DEF vars, TypeOK, connVars, mapVars, mgrVars, eventVars, otherEvents, clientVars,
       procVars, history
  <1> QED
    BY <1>1, <1>2, <1>3, <1>5, <1>6, <1>7, <1>8, <1>9, <1>10, <1>11, <1>12, <1>13, <1>14,
       <1>15, <1>16,
       <1>17, <1>18, <1>19, <1>20, <1>21, <1>22, <1>23, <1>24
    DEF Next, Connect, Boot

-----------------------------------------------------------------------------
(* What the goroutines hold *)

LEMMA GotoEffect ==
    ASSUME TypeOK, NEW t \in Procs, NEW l, Goto(t, l)
    PROVE  pc'[t] = l /\ \A u \in Procs \ {t} : pc'[u] = pc[u]
  BY DEF TypeOK, Procs, Connectors, Goto

LEMMA AttemptedEffect ==
    ASSUME TypeOK, NEW t \in Connectors, NEW ok \in BOOLEAN, Attempted(t, ok)
    PROVE  /\ mine'[t] = None /\ \A u \in Connectors \ {t} : mine'[u] = mine[u]
           /\ \A u \in Connectors \ {t} : target'[u] = target[u]
           /\ pc'[t] = IF t # "boot" THEN "next" ELSE IF ok THEN "wait" ELSE "try"
           /\ \A u \in Procs \ {t} : pc'[u] = pc[u]
  <1>1. t \in Procs
    BY DEF Procs
  <1>2. /\ pc'[t] = IF t # "boot" THEN "next" ELSE IF ok THEN "wait" ELSE "try"
        /\ \A u \in Procs \ {t} : pc'[u] = pc[u]
    BY <1>1, GotoEffect DEF Attempted
  <1>3. /\ mine'[t] = None /\ \A u \in Connectors \ {t} : mine'[u] = mine[u]
        /\ \A u \in Connectors \ {t} : target'[u] = target[u]
    BY DEF Attempted, TypeOK
  <1> QED  BY <1>2, <1>3

\* The goroutines make no new connection.
LEMMA HeldKept ==
    ASSUME Held, peer' = peer, cid' = cid,
           \A k \in Conns : status'[k] = "open" => status[k] = "open",
           \A t \in Connectors :
             \/ /\ mine'[t] = mine[t]
                /\ pc'[t] \in ConnectPcs <=> pc[t] \in ConnectPcs
                /\ pc'[t] = "cand" => target'[t] \in Members
             \/ mine'[t] = None /\ pc'[t] \in {"next", "wait", "try"},
           \A k \in closing' \cup connQueue' :
             \/ k \in closing \cup connQueue /\ status'[k] = status[k]
             \/ IsMade(k) /\ status'[k] = "closed"
    PROVE  Held'
  <1>1. \A k : IsMade(k)' <=> IsMade(k)
    BY DEF IsMade
  <1>2. (\A k \in Conns : peer[k] # None => IsMade(k))'
    BY <1>1 DEF Held
  <1>3. (\A k \in Conns : status[k] = "open" => peer[k] # None)'
    BY DEF Held
  <1>4. (\A t \in Connectors :
          /\ IF pc[t] \in ConnectPcs THEN IsMade(mine[t]) ELSE mine[t] = None
          /\ pc[t] = "cand" => target[t] \in Members)'
    BY <1>1 DEF Held, ConnectPcs
  <1>5. (\A k \in closing \cup connQueue : IsMade(k) /\ status[k] = "closed")'
    BY <1>1 DEF Held
  <1> QED  BY <1>2, <1>3, <1>4, <1>5 DEF Held

LEMMA DialHeld ==
    ASSUME TypeOK, Held, NEW t \in Connectors, NEW a, Dial(t, a),
           connQueue' = connQueue, target' = target
    PROVE  Held'
  <1>1. PICK k \in Conns, m \in Members, c \in Clusters :
             /\ peer[k] = None
             /\ status' = [status EXCEPT ![k] = "open"]
             /\ peer' = [peer EXCEPT ![k] = m]
             /\ cid' = [cid EXCEPT ![k] = c]
             /\ mine' = [mine EXCEPT ![t] = k]
             /\ closing' = closing
             /\ Goto(t, "auth")
    BY DEF Dial
  <1>2. pc'[t] = "auth" /\ \A u \in Procs \ {t} : pc'[u] = pc[u]
    <2>1. t \in Procs
      BY DEF Procs
    <2> QED  BY <1>1, <2>1, GotoEffect
  <1>3. \A j : IsMade(j) => j # k /\ IsMade(j)'
    BY <1>1, MembersAssumption DEF IsMade, TypeOK
  <1>4. IsMade(k)'
    BY <1>1 DEF IsMade, TypeOK
  <1>5. \A j \in Conns \ {k} : peer'[j] = peer[j] /\ status'[j] = status[j]
    BY <1>1 DEF TypeOK
  <1>6. mine'[t] = k /\ \A u \in Connectors \ {t} : mine'[u] = mine[u] /\ pc'[u] = pc[u]
    BY <1>1, <1>2 DEF TypeOK, Procs
  <1>7. (\A j \in Conns : peer[j] # None => IsMade(j))'
    BY <1>3, <1>4, <1>5 DEF Held
  <1>8. (\A j \in Conns : status[j] = "open" => peer[j] # None)'
    BY <1>4, <1>5, MembersAssumption DEF Held, IsMade
  <1>9. (\A u \in Connectors :
          /\ IF pc[u] \in ConnectPcs THEN IsMade(mine[u]) ELSE mine[u] = None
          /\ pc[u] = "cand" => target[u] \in Members)'
    BY <1>2, <1>3, <1>4, <1>6 DEF Held, ConnectPcs
  <1>10. (\A j \in closing \cup connQueue : IsMade(j) /\ status[j] = "closed")'
    BY <1>1, <1>3, <1>5 DEF Held, IsMade
  <1> QED  BY <1>7, <1>8, <1>9, <1>10 DEF Held

-----------------------------------------------------------------------------
(* Most steps make no connection, leave the maps and the cluster alone, and *)
(* close connections only with an event.                                    *)

Reported == closing \cup connQueue \cup excused

Steady ==
    /\ UNCHANGED <<peer, cid, uuidToConn, addrToConn, clusterID, torn>>
    /\ \A k \in Conns : status'[k] = status[k] \/ (status'[k] = "closed" /\ k \in Reported')
    /\ Reported \subseteq Reported' /\ excused \subseteq excused'
    /\ \A k \in closing' \cup connQueue' :
         k \in closing \cup connQueue \/ (IsMade(k) /\ status'[k] = "closed")
    /\ \A t \in Connectors :
         \/ /\ mine'[t] = mine[t]
            /\ pc'[t] = pc[t] \/ ({pc'[t], pc[t]} \cap ConnectPcs = {})
            /\ pc'[t] = "cand" => target'[t] \in Members
         \/ /\ mine'[t] = None /\ pc'[t] \in {"next", "wait", "try"}
            /\ mine[t] \in Conns => status'[mine[t]] = "closed"
    /\ pc.boot = "resetMap" <=> pc'.boot = "resetMap"
    /\ mstate = "stopped" /\ pc.boot # "sub" => mstate' = "stopped" /\ pc'.boot # "sub"

ConnInv == Held /\ MapsAgree /\ SameCluster /\ Dead /\ Owned

LEMMA SteadyKeeps ==
    ASSUME TypeOK, TypeOK', ConnInv, Steady
    PROVE  ConnInv'
  <1> USE DEF ConnInv
  <1>1. Held'
    <2>1. /\ peer' = peer /\ cid' = cid
          /\ \A k \in Conns : status'[k] = "open" => status[k] = "open"
      BY DEF Steady
    <2>2. \A t \in Connectors :
             \/ /\ mine'[t] = mine[t]
                /\ pc'[t] \in ConnectPcs <=> pc[t] \in ConnectPcs
                /\ pc'[t] = "cand" => target'[t] \in Members
             \/ mine'[t] = None /\ pc'[t] \in {"next", "wait", "try"}
      BY DEF Steady
    <2>3. \A k \in closing \cup connQueue : k \in Conns /\ status[k] = "closed" /\ IsMade(k)
      BY DEF Held, IsMade
    <2>4. \A k \in closing' \cup connQueue' :
             \/ k \in closing \cup connQueue /\ status'[k] = status[k]
             \/ IsMade(k) /\ status'[k] = "closed"
      BY <2>3 DEF Steady
    <2> QED  BY <2>1, <2>2, <2>4, HeldKept
  <1>2. MapsAgree'
    BY DEF Steady, MapsAgree, IsMade
  <1>3. SameCluster'
    BY DEF Steady, SameCluster, ConnectPcs
  <1>4. Dead'
    <2> SUFFICES ASSUME NEW m \in Members, uuidToConn'[m] # None, status'[uuidToConn'[m]] = "closed"
                 PROVE  uuidToConn'[m] \in Reported' \/ (mstate' = "stopped" /\ pc'.boot # "sub")
      BY DEF Dead, Reported
    <2> DEFINE k == uuidToConn[m]
    <2>1. k \in Conns /\ k # None /\ uuidToConn'[m] = k
      BY DEF Steady, TypeOK
    <2>2. CASE status[k] = "closed"
      BY <2>1, <2>2 DEF Dead, Steady, Reported
    <2>3. CASE status[k] # "closed"
      BY <2>1, <2>3 DEF Steady
    <2> QED  BY <2>2, <2>3
  <1>5. Owned'
    <2> SUFFICES ASSUME NEW k \in Conns, status'[k] = "open"
                 PROVE  \/ uuidToConn'[peer'[k]] = k
                        \/ k \in excused'
                        \/ \E t \in Connectors : mine'[t] = k
      BY DEF Owned
    <2>1. status[k] = "open"
      BY DEF Steady
    <2>2. CASE uuidToConn[peer[k]] = k \/ k \in excused
      BY <2>2 DEF Steady
    <2>3. ASSUME NEW t \in Connectors, mine[t] = k
          PROVE  mine'[t] = k
      BY <2>3 DEF Steady
    <2> QED  BY <2>1, <2>2, <2>3 DEF Owned
  <1> QED  BY <1>1, <1>2, <1>3, <1>4, <1>5

LEMMA SteadySteps ==
    ASSUME TypeOK, Held, MapsAgree, Booting,
           \/ \E k \in Conns : ConnectionFails(k) \/ FailurePublished(k) \/ MemberListArrives(k)
           \/ \E t \in Connectors : NotAuthenticated(t)
           \/ \E t \in {"lister", "sync"} : TryConnectMember(t) \/ MemberSkipped(t)
           \/ ListHandled \/ SyncEnds
           \/ PauseInvocations \/ PublishDisconnected
           \/ Subscribe \/ StartFails \/ ListReceived \/ Started \/ ClientReady \/ HandleDisconnected
           \/ \E t \in {"boot", "closer"} : Unsubscribe(t) \/ UnsubscribeMembers(t) \/ CloseAll(t)
           \/ Shutdown \/ StopInvocations \/ ShutDown
           \/ UNCHANGED vars
    PROVE  Steady
  <1> USE DEF connVars, mapVars, mgrVars, eventVars, otherEvents, clientVars, procVars, history
  <1>p. \A t \in Connectors : t \in Procs /\ t # "worker" /\ t # "closer"
    BY DEF Procs, Connectors
  <1>q. {"boot", "lister", "sync", "worker", "closer"} \subseteq Procs /\ {"boot", "lister", "sync"} \subseteq Connectors
    BY DEF Procs, Connectors
  <1>a. ASSUME UNCHANGED <<connVars, uuidToConn, addrToConn, clusterID, torn, excused, connQueue>>,
               NEW t \in Procs, NEW l, Goto(t, l),
               mine' = mine, target' = target, mstate' = mstate,
               t \in Connectors => pc[t] \notin ConnectPcs /\ l \notin ConnectPcs \cup {"cand", "resetMap", "sub"} /\ pc[t] # "resetMap"
        PROVE  Steady
    <2>1. pc'[t] = l /\ \A u \in Procs \ {t} : pc'[u] = pc[u]
      BY <1>a, GotoEffect
    <2>2. /\ \A k \in Conns : status'[k] = status[k]
          /\ Reported' = Reported /\ excused' = excused
          /\ closing' = closing /\ connQueue' = connQueue
      BY <1>a DEF Reported
    <2>3. \A u \in Connectors :
            /\ mine'[u] = mine[u]
            /\ pc'[u] = pc[u] \/ ({pc'[u], pc[u]} \cap ConnectPcs = {})
            /\ pc'[u] = "cand" => target'[u] \in Members
      BY <1>a, <1>p, <2>1 DEF Held
    <2>4. pc.boot = "resetMap" <=> pc'.boot = "resetMap"
      BY <1>a, <1>q, <2>1
    <2>5. pc.boot # "sub" => pc'.boot # "sub"
      BY <1>a, <1>q, <2>1
    <2> QED  BY <1>a, <2>2, <2>3, <2>4, <2>5 DEF Steady
  <1>b. ASSUME NEW t \in Connectors, NEW ok \in BOOLEAN, Attempted(t, ok),
               NEW K \in SUBSET Conns, Close(K),
               \A k \in K : IsMade(k), mine[t] \in Conns => mine[t] \in K,
               pc[t] \in ConnectPcs \cup {"cand"},
               UNCHANGED <<uuidToConn, addrToConn, clusterID, torn, mstate>>
        PROVE  Steady
    <2>1. /\ mine'[t] = None /\ \A u \in Connectors \ {t} : mine'[u] = mine[u]
          /\ \A u \in Connectors \ {t} : target'[u] = target[u]
          /\ pc'[t] = IF t # "boot" THEN "next" ELSE IF ok THEN "wait" ELSE "try"
          /\ \A u \in Procs \ {t} : pc'[u] = pc[u]
      BY <1>b, AttemptedEffect
    <2>2. /\ \A k \in Conns : status'[k] = status[k] \/ (status'[k] = "closed" /\ k \in Reported')
          /\ Reported \subseteq Reported' /\ excused \subseteq excused'
          /\ peer' = peer /\ cid' = cid
          /\ mine[t] \in Conns => status'[mine[t]] = "closed"
      BY <1>b, CloseEffect DEF Reported, TypeOK
    <2>3. \A k \in closing' \cup connQueue' :
            k \in closing \cup connQueue \/ (IsMade(k) /\ status'[k] = "closed")
      <3> SUFFICES ASSUME NEW k \in connQueue' \ connQueue
                   PROVE  IsMade(k) /\ status'[k] = "closed"
        BY <1>b, CloseEffect
      <3>1. /\ status[k] = "open" /\ status'[k] = "closed" /\ k \in Conns
        BY <1>b, CloseEffect
      <3>2. k \in K
        BY <1>b, <3>1, CloseEffect
      <3> QED  BY <1>b, <3>1, <3>2
    <2>4. \A u \in Connectors :
         \/ /\ mine'[u] = mine[u]
            /\ pc'[u] = pc[u] \/ ({pc'[u], pc[u]} \cap ConnectPcs = {})
            /\ pc'[u] = "cand" => target'[u] \in Members
         \/ /\ mine'[u] = None /\ pc'[u] \in {"next", "wait", "try"}
            /\ mine[u] \in Conns => status'[mine[u]] = "closed"
      BY <1>p, <2>1, <2>2 DEF Held
    <2>5. pc.boot = "resetMap" <=> pc'.boot = "resetMap"
      BY <1>b, <1>q, <2>1 DEF ConnectPcs
    <2>6. pc.boot # "sub" => pc'.boot # "sub"
      BY <1>q, <2>1
    <2> QED  BY <1>b, <2>2, <2>3, <2>4, <2>5, <2>6 DEF Steady
  <1>1. ASSUME NEW k \in Conns, ConnectionFails(k)
        PROVE  Steady
    <2>1. IsMade(k)
      BY <1>1 DEF ConnectionFails, Held
    <2>2. status'[k] = "closed" /\ \A j \in Conns \ {k} : status'[j] = status[j]
      BY <1>1 DEF ConnectionFails, TypeOK
    <2> QED  BY <1>1, <2>1, <2>2 DEF ConnectionFails, Steady, Reported, Held
  <1>2. ASSUME NEW k \in Conns, FailurePublished(k)
        PROVE  Steady
    <2>1. /\ connQueue \subseteq connQueue' /\ excused \subseteq excused'
          /\ k \in connQueue' \cup excused' /\ connQueue' \subseteq connQueue \cup {k}
      BY <1>2, PublishEffect DEF FailurePublished
    <2>2. Reported \subseteq Reported'
      BY <1>2, <2>1 DEF FailurePublished, Reported
    <2> QED  BY <1>2, <2>1, <2>2 DEF FailurePublished, Steady, Held
  <1>3. ASSUME NEW k \in Conns, MemberListArrives(k)
        PROVE  Steady
    <2>1. CASE pc.lister = "idle" /\ Goto("lister", "next")
      BY <1>3, <1>a, <1>q, <2>1 DEF MemberListArrives, ConnectPcs
    <2>2. CASE UNCHANGED pc
      BY <1>3, <2>2 DEF MemberListArrives, Steady, Reported, Held
    <2> QED  BY <1>3, <2>1, <2>2 DEF MemberListArrives
  <1>4. ASSUME NEW t \in Connectors, NotAuthenticated(t)
        PROVE  Steady
    <2>1. {mine[t]} \in SUBSET Conns /\ IsMade(mine[t])
      BY <1>4 DEF NotAuthenticated, Held, IsMade, ConnectPcs
    <2> QED  BY <1>4, <1>b, <2>1 DEF NotAuthenticated, ConnectPcs
  <1>5. ASSUME NEW t \in {"lister", "sync"}, TryConnectMember(t)
        PROVE  Steady
    <2>1. pc'[t] = "cand" /\ \A u \in Procs \ {t} : pc'[u] = pc[u]
      BY <1>5, <1>q, GotoEffect DEF TryConnectMember
    <2>2. target'[t] \in Members /\ \A u \in Connectors \ {t} : target'[u] = target[u]
      BY <1>5, <1>q DEF TryConnectMember, TypeOK
    <2>3. \A u \in Connectors :
            /\ mine'[u] = mine[u]
            /\ pc'[u] = pc[u] \/ ({pc'[u], pc[u]} \cap ConnectPcs = {})
            /\ pc'[u] = "cand" => target'[u] \in Members
      BY <1>5, <1>p, <2>1, <2>2 DEF Held, TryConnectMember, ConnectPcs
    <2>4. pc'.boot = pc.boot
      BY <1>q, <2>1
    <2> QED  BY <1>5, <2>3, <2>4 DEF TryConnectMember, Steady, Reported
  <1>6. ASSUME NEW t \in {"lister", "sync"}, MemberSkipped(t)
        PROVE  Steady
    <2>1. /\ mine'[t] = None /\ \A u \in Connectors \ {t} : mine'[u] = mine[u]
          /\ \A u \in Connectors \ {t} : target'[u] = target[u]
          /\ pc'[t] = "next"
          /\ \A u \in Procs \ {t} : pc'[u] = pc[u]
      BY <1>6, <1>q, AttemptedEffect DEF MemberSkipped
    <2>2. mine[t] = None
      BY <1>6, <1>q DEF MemberSkipped, Held, ConnectPcs
    <2>3. \A u \in Connectors :
            /\ mine'[u] = mine[u]
            /\ pc'[u] = pc[u] \/ ({pc'[u], pc[u]} \cap ConnectPcs = {})
            /\ pc'[u] = "cand" => target'[u] \in Members
      BY <1>6, <1>p, <2>1, <2>2 DEF Held, MemberSkipped, ConnectPcs
    <2>4. pc'.boot = pc.boot
      BY <1>q, <2>1
    <2> QED  BY <1>6, <2>3, <2>4 DEF MemberSkipped, Steady, Reported
  <1>7. CASE ListHandled \/ SyncEnds
    BY <1>7, <1>a, <1>q DEF ListHandled, SyncEnds, ConnectPcs
  <1>8. CASE PauseInvocations \/ PublishDisconnected
    BY <1>8, <1>a, <1>p, <1>q DEF PauseInvocations, PublishDisconnected
  <1>9. CASE Subscribe \/ Started
    <2>1. pc.boot \in {"sub", "finish"} /\ \A u \in Procs \ {"boot"} : pc'[u] = pc[u]
      BY <1>9, <1>q, GotoEffect DEF Subscribe, Started
    <2>2. pc'.boot \in {"try", "ready", "run"}
      BY <1>9, <1>q, GotoEffect DEF Subscribe, Started
    <2>3. \A u \in Connectors :
            /\ mine'[u] = mine[u]
            /\ pc'[u] = pc[u] \/ ({pc'[u], pc[u]} \cap ConnectPcs = {})
            /\ pc'[u] = "cand" => target'[u] \in Members
      BY <1>9, <1>p, <2>1, <2>2 DEF Held, Subscribe, Started, ConnectPcs
    <2>4. mstate = "stopped" => pc.boot = "sub"
      BY <1>9 DEF Booting, Subscribe, Started
    <2> QED  BY <1>9, <2>1, <2>2, <2>3, <2>4 DEF Subscribe, Started, Steady, Reported
  <1>10. CASE StartFails \/ ClientReady \/ HandleDisconnected
    BY <1>10, <1>a, <1>q DEF StartFails, ClientReady, HandleDisconnected, ConnectPcs
  <1>11. CASE ListReceived
    <2>1. /\ pc.boot = "wait" /\ pc'.boot = "finish"
          /\ pc'.sync = pc.sync \/ (pc.sync = "off" /\ pc'.sync = "next")
          /\ \A u \in Procs \ {"boot", "sync"} : pc'[u] = pc[u]
      BY <1>11 DEF ListReceived, TypeOK, Procs, Connectors
    <2>2. \A u \in Connectors :
            /\ mine'[u] = mine[u]
            /\ pc'[u] = pc[u] \/ ({pc'[u], pc[u]} \cap ConnectPcs = {})
            /\ pc'[u] = "cand" => target'[u] \in Members
      BY <1>11, <1>p, <2>1 DEF Held, ListReceived, ConnectPcs
    <2> QED  BY <1>11, <2>1, <2>2 DEF ListReceived, Steady, Reported
  <1>12. ASSUME NEW t \in {"boot", "closer"}, Unsubscribe(t) \/ UnsubscribeMembers(t)
         PROVE  Steady
    BY <1>12, <1>a, <1>p, <1>q DEF Unsubscribe, UnsubscribeMembers, ConnectPcs
  <1>13. ASSUME NEW t \in {"boot", "closer"}, CloseAll(t)
         PROVE  Steady
    <2>1. pc[t] = "unlist" /\ pc'[t] \in {"reset", "last"} /\ \A u \in Procs \ {t} : pc'[u] = pc[u]
      BY <1>13, <1>q, GotoEffect DEF CloseAll
    <2>2. Mapped \in SUBSET Conns /\ \A k \in Mapped : IsMade(k)
      BY DEF Mapped, TypeOK, MapsAgree
    <2>3. \A u \in Connectors :
            /\ mine'[u] = mine[u]
            /\ pc'[u] = pc[u] \/ ({pc'[u], pc[u]} \cap ConnectPcs = {})
            /\ pc'[u] = "cand" => target'[u] \in Members
      BY <1>13, <1>p, <2>1 DEF Held, CloseAll, ConnectPcs
    <2>4. /\ \A k \in Conns : status'[k] = status[k] \/ (status'[k] = "closed" /\ k \in Reported')
          /\ Reported \subseteq Reported' /\ excused \subseteq excused'
          /\ peer' = peer /\ cid' = cid
          /\ \A k \in closing' \cup connQueue' :
               k \in closing \cup connQueue \/ (IsMade(k) /\ status'[k] = "closed")
      <3>1. CASE Close(Mapped)
        <4>1. /\ \A k \in Conns : status'[k] = status[k] \/ (status'[k] = "closed" /\ k \in Reported')
              /\ Reported \subseteq Reported' /\ excused \subseteq excused'
              /\ peer' = peer /\ cid' = cid /\ closing' = closing
          BY <2>2, <3>1, CloseEffect DEF Reported, TypeOK
        <4>2. \A k \in connQueue' \ connQueue : k \in Mapped /\ status'[k] = "closed"
          BY <2>2, <3>1, CloseEffect
        <4> QED  BY <2>2, <4>1, <4>2
      <3>2. CASE UNCHANGED <<connVars, connQueue, excused>>
        BY <3>2 DEF Reported
      <3> QED  BY <1>13, <3>1, <3>2 DEF CloseAll
    <2>5. /\ pc.boot = "resetMap" <=> pc'.boot = "resetMap"
          /\ pc.boot # "sub" => pc'.boot # "sub"
      BY <1>q, <2>1
    <2>6. mstate = "stopped" => mstate' = "stopped"
      BY <1>13 DEF CloseAll
    <2> QED  BY <1>13, <2>3, <2>4, <2>5, <2>6 DEF CloseAll, Steady
  <1>14. CASE Shutdown \/ StopInvocations
    BY <1>14, <1>a, <1>p, <1>q DEF Shutdown, StopInvocations
  <1>15. CASE ShutDown
    <2>1. CASE pc' = pc
      BY <1>15, <2>1 DEF ShutDown, Steady, Reported, Held
    <2>2. CASE Goto("closer", "done")
      BY <1>15, <1>a, <1>p, <1>q, <2>2 DEF ShutDown
    <2> QED  BY <1>15, <2>1, <2>2 DEF ShutDown
  <1>16. CASE UNCHANGED vars
    BY <1>16 DEF vars, Steady, Reported, Held
  <1> QED
    BY <1>1, <1>2, <1>3, <1>4, <1>5, <1>6, <1>7, <1>8, <1>9, <1>10, <1>11, <1>12, <1>13,
       <1>14, <1>15, <1>16

-----------------------------------------------------------------------------
(* The steps that make, add, remove and drop connections *)

LEMMA DialKeeps ==
    ASSUME TypeOK, ConnInv, NEW t \in Connectors, NEW a, Dial(t, a),
           pc[t] \in {"try", "cand"}, target' = target,
           UNCHANGED <<uuidToConn, addrToConn, clusterID, mstate, eventVars, history>>
    PROVE  ConnInv'
  <1> USE DEF ConnInv
  <1>1. Held'
    BY DialHeld DEF eventVars
  <1>2. PICK k \in Conns, m \in Members, c \in Clusters :
             /\ peer[k] = None
             /\ status' = [status EXCEPT ![k] = "open"]
             /\ peer' = [peer EXCEPT ![k] = m]
             /\ cid' = [cid EXCEPT ![k] = c]
             /\ mine' = [mine EXCEPT ![t] = k]
             /\ closing' = closing
             /\ Goto(t, "auth")
    BY DEF Dial
  <1>3. t \in Procs /\ pc'[t] = "auth" /\ \A u \in Procs \ {t} : pc'[u] = pc[u]
    <2>1. t \in Procs
      BY DEF Procs
    <2> QED  BY <1>2, <2>1, GotoEffect
  <1>4. mine'[t] = k /\ mine[t] = None
        /\ \A u \in Connectors \ {t} : mine'[u] = mine[u] /\ pc'[u] = pc[u]
    BY <1>2, <1>3 DEF TypeOK, Procs, Held, ConnectPcs
  <1>5. \A j \in Conns \ {k} : peer'[j] = peer[j] /\ status'[j] = status[j] /\ cid'[j] = cid[j]
    BY <1>2 DEF TypeOK
  <1>6. \A j : IsMade(j) => j \in Conns /\ j # k /\ IsMade(j)'
    BY <1>2, <1>5, MembersAssumption DEF IsMade
  <1>7. \A n \in Members : uuidToConn[n] # None => uuidToConn[n] # k /\ uuidToConn[n] \in Conns
    BY <1>6 DEF MapsAgree
  <1>8. MapsAgree'
    <2>1. \A n \in Members : uuidToConn[n] # None =>
             IsMade(uuidToConn[n])' /\ peer'[uuidToConn[n]] = peer[uuidToConn[n]]
      BY <1>5, <1>6 DEF MapsAgree
    <2>2. \A b \in Addrs : addrToConn[b] # None =>
             IsMade(addrToConn[b])' /\ peer'[addrToConn[b]] = peer[addrToConn[b]]
      BY <1>5, <1>6 DEF MapsAgree
    <2> QED  BY <2>1, <2>2 DEF MapsAgree, history
  <1>9. SameCluster'
    <2>1. pc'.boot = "resetMap" <=> pc.boot = "resetMap"
      BY <1>3 DEF Procs, Connectors
    <2>2. \A u \in Connectors : pc'[u] = "add" => pc[u] = "add" /\ cid'[mine'[u]] = cid[mine[u]]
      BY <1>3, <1>4, <1>5, <1>6 DEF Held, ConnectPcs
    <2> QED  BY <1>5, <1>7, <2>1, <2>2 DEF SameCluster, history
  <1>10. Dead'
    <2>1. pc.boot # "sub" => pc'.boot # "sub"
      BY <1>3 DEF Procs, Connectors
    <2> QED  BY <1>2, <1>5, <1>7, <2>1 DEF Dead, eventVars, history
  <1>11. Owned'
    <2> SUFFICES ASSUME NEW j \in Conns, status'[j] = "open", j # k
                 PROVE  \/ uuidToConn'[peer'[j]] = j
                        \/ j \in excused'
                        \/ \E u \in Connectors : mine'[u] = j
      BY <1>4 DEF Owned
    <2>1. \A u \in Connectors : mine[u] = j => mine'[u] = j
      BY <1>4, MembersAssumption
    <2> QED  BY <1>5, <2>1 DEF Owned, history
  <1> QED  BY <1>1, <1>8, <1>9, <1>10, <1>11

LEMMA CheckClusterKeeps ==
    ASSUME TypeOK, TypeOK', ConnInv, Booting, NEW t \in Connectors, CheckCluster(t)
    PROVE  ConnInv'
  <1> USE DEF ConnInv
  <1>0. mine[t] \in Conns /\ IsMade(mine[t]) /\ pc[t] = "auth"
    BY DEF CheckCluster, Held, IsMade, ConnectPcs
  <1>1. CASE clusterID \notin {None, cid[mine[t]]}
    <2>1. NotAuthenticated(t)
      BY <1>1 DEF CheckCluster, NotAuthenticated, mgrVars
    <2> QED  BY <2>1, SteadySteps, SteadyKeeps
  <1>2. CASE clusterID \in {None, cid[mine[t]]}
    <2> DEFINE id == cid[mine[t]]
    <2>1. /\ UNCHANGED <<connVars, uuidToConn, addrToConn, candidates, mine, target, connQueue,
                         excused, mstate, otherEvents, clientVars, unheard, torn>>
          /\ clusterID' = IF Mapped = {} THEN id ELSE clusterID
          /\ Goto(t, "add")
      BY <1>2 DEF CheckCluster
    <2>2. t \in Procs /\ pc'[t] = "add" /\ \A u \in Procs \ {t} : pc'[u] = pc[u]
      <3>1. t \in Procs
        BY DEF Procs
      <3> QED  BY <2>1, <3>1, GotoEffect
    <2>3. /\ pc'.boot = "resetMap" <=> pc.boot = "resetMap"
          /\ pc'.boot = "sub" <=> pc.boot = "sub"
      BY <1>0, <2>2 DEF Procs, Connectors
    <2>4. \A u \in Connectors \ {t} : pc'[u] = pc[u]
      BY <2>2 DEF Procs
    <2>5. Held' 
      BY <1>0, <2>1, <2>2, <2>4, HeldKept DEF connVars, ConnectPcs, Held
    <2>6. MapsAgree' /\ Dead' /\ Owned'
      BY <2>1, <2>3 DEF connVars, MapsAgree, Dead, Owned, IsMade
    <2>7. SameCluster'
      <3> SUFFICES ASSUME ~torn, pc.boot # "resetMap"
                   PROVE  /\ \A m \in Members : uuidToConn[m] # None => cid[uuidToConn[m]] = clusterID'
                          /\ \A u \in Connectors : pc'[u] = "add" => cid[mine[u]] = clusterID'
        BY <2>1, <2>3 DEF SameCluster, connVars
      <3>1. /\ \A m \in Members : uuidToConn[m] # None => cid[uuidToConn[m]] = clusterID
            /\ \A u \in Connectors : pc[u] = "add" => cid[mine[u]] = clusterID
        BY DEF SameCluster
      <3>2. CASE \E m \in Members : uuidToConn[m] # None
        <4>1. Mapped # {}
          BY <3>2 DEF Mapped
        <4>2. clusterID # None
          BY <3>1, <3>2, MembersAssumption DEF MapsAgree, IsMade
        <4> QED  BY <1>2, <2>1, <2>2, <2>4, <3>1, <4>1, <4>2
      <3>3. CASE \A m \in Members : uuidToConn[m] = None
        <4>1. Mapped = {}
          BY <3>3 DEF Mapped
        <4>2. \A u \in Connectors : pc[u] = "add" => clusterID # None
          BY <3>1, MembersAssumption DEF Held, IsMade, ConnectPcs
        <4> QED  BY <1>2, <2>1, <2>2, <2>4, <3>1, <3>3, <4>1, <4>2
      <3> QED  BY <3>2, <3>3
    <2> QED  BY <2>5, <2>6, <2>7
  <1> QED  BY <1>1, <1>2

LEMMA AddKeeps ==
    ASSUME TypeOK, TypeOK', ConnInv, Booting, NEW t \in Connectors, AddConnection(t)
    PROVE  ConnInv'
  <1> USE DEF ConnInv
  <1> DEFINE k == mine[t]
             m == peer[k]
  <1>0. k \in Conns /\ IsMade(k) /\ pc[t] = "add" /\ m \in Members /\ k # None
        /\ AddrOf[m] \in Addrs
    BY MembersAssumption DEF AddConnection, Held, IsMade, ConnectPcs
  <1>a. /\ mine'[t] = None /\ \A u \in Connectors \ {t} : mine'[u] = mine[u]
        /\ \A u \in Connectors \ {t} : target'[u] = target[u]
        /\ pc'[t] = IF t # "boot" THEN "next" ELSE "wait"
        /\ \A u \in Procs \ {t} : pc'[u] = pc[u]
    BY AttemptedEffect DEF AddConnection
  <1>b. /\ pc'.boot = "resetMap" <=> pc.boot = "resetMap"
        /\ pc.boot # "sub" => pc'.boot # "sub"
    BY <1>0, <1>a DEF Procs, Connectors
  <1>c. \A u \in Connectors \ {t} : pc'[u] = pc[u]
    BY <1>a DEF Procs
  <1>1. CASE uuidToConn[m] # None
    <2> DEFINE K == {k}
    <2>0. K \in SUBSET Conns /\ Close(K) /\ \A j \in K : j = k
      BY <1>0, <1>1 DEF AddConnection
    <2> HIDE DEF K
    <2>1. /\ \A j \in Conns : status'[j] = status[j] \/ (status'[j] = "closed" /\ j \in Reported')
          /\ Reported \subseteq Reported' /\ excused \subseteq excused'
          /\ peer' = peer /\ cid' = cid /\ closing' = closing
      BY <2>0, CloseEffect DEF Reported, TypeOK
    <2>2. \A j \in connQueue' \ connQueue : j = k /\ status'[j] = "closed"
      BY <2>0, CloseEffect
    <2>3. status'[k] = "closed"
      BY <1>0, <2>0, CloseEffect DEF K
    <2>4. \A u \in Connectors :
         \/ /\ mine'[u] = mine[u]
            /\ pc'[u] = pc[u] \/ ({pc'[u], pc[u]} \cap ConnectPcs = {})
            /\ pc'[u] = "cand" => target'[u] \in Members
         \/ /\ mine'[u] = None /\ pc'[u] \in {"next", "wait", "try"}
            /\ mine[u] \in Conns => status'[mine[u]] = "closed"
      BY <1>a, <1>c, <2>3 DEF Held
    <2>5. UNCHANGED <<uuidToConn, addrToConn, clusterID, torn, mstate>>
      BY <1>1 DEF AddConnection, mgrVars
    <2>6. Steady
      BY <1>0, <1>b, <2>1, <2>2, <2>4, <2>5 DEF Steady
    <2> QED  BY <2>6, SteadyKeeps
  <1>2. CASE uuidToConn[m] = None
    <2>1. /\ uuidToConn' = [uuidToConn EXCEPT ![m] = k]
          /\ addrToConn' = [addrToConn EXCEPT ![AddrOf[m]] = k]
          /\ excused' = excused \cup Unnoticed(k)
          /\ UNCHANGED <<connVars, connQueue, clusterID, torn, mstate>>
      BY <1>2 DEF AddConnection, mgrVars
    <2>2. uuidToConn'[m] = k /\ \A n \in Members \ {m} : uuidToConn'[n] = uuidToConn[n]
      BY <1>0, <2>1 DEF TypeOK
    <2>3. addrToConn'[AddrOf[m]] = k /\ \A b \in Addrs \ {AddrOf[m]} : addrToConn'[b] = addrToConn[b]
      BY <1>0, <2>1 DEF TypeOK
    <2>4. /\ status[k] = "closed" => k \in excused'
          /\ addrToConn[AddrOf[m]] # None => addrToConn[AddrOf[m]] \in excused'
          /\ excused \subseteq excused'
      BY <1>0, <2>1 DEF Unnoticed
    <2>5. Held'
      <3>1. \A u \in Connectors :
             \/ /\ mine'[u] = mine[u]
                /\ pc'[u] \in ConnectPcs <=> pc[u] \in ConnectPcs
                /\ pc'[u] = "cand" => target'[u] \in Members
             \/ mine'[u] = None /\ pc'[u] \in {"next", "wait", "try"}
        BY <1>a, <1>c DEF Held
      <3> QED  BY <2>1, <3>1, HeldKept DEF connVars
    <2>6. MapsAgree'
      <3>1. \A n \in Members : uuidToConn'[n] # None =>
              /\ IsMade(uuidToConn'[n]) /\ peer[uuidToConn'[n]] = n
              /\ addrToConn'[AddrOf[n]] = uuidToConn'[n] \/ uuidToConn'[n] \in excused'
        <4> SUFFICES ASSUME NEW n \in Members \ {m}, uuidToConn[n] # None
                     PROVE  /\ IsMade(uuidToConn[n]) /\ peer[uuidToConn[n]] = n
                            /\ addrToConn'[AddrOf[n]] = uuidToConn[n] \/ uuidToConn[n] \in excused'
          BY <1>0, <2>2, <2>3
        <4>1. AddrOf[n] \in Addrs
          BY MembersAssumption
        <4> QED  BY <2>3, <2>4, <4>1 DEF MapsAgree
      <3>2. \A b \in Addrs : addrToConn'[b] # None =>
              /\ IsMade(addrToConn'[b])
              /\ AddrOf[peer[addrToConn'[b]]] = b
              /\ uuidToConn'[peer[addrToConn'[b]]] = addrToConn'[b]
        <4> SUFFICES ASSUME NEW b \in Addrs \ {AddrOf[m]}, addrToConn[b] # None
                     PROVE  /\ IsMade(addrToConn[b])
                            /\ AddrOf[peer[addrToConn[b]]] = b
                            /\ uuidToConn'[peer[addrToConn[b]]] = addrToConn[b]
          BY <1>0, <2>2, <2>3
        <4>1. /\ IsMade(addrToConn[b]) /\ AddrOf[peer[addrToConn[b]]] = b
              /\ uuidToConn[peer[addrToConn[b]]] = addrToConn[b]
          BY DEF MapsAgree
        <4> QED  BY <2>2, <4>1 DEF IsMade
      <3> QED  BY <2>1, <3>1, <3>2 DEF MapsAgree, connVars, IsMade
    <2>7. SameCluster'
      <3>1. \A u \in Connectors : pc'[u] = "add" => pc[u] = "add" /\ mine'[u] = mine[u]
        BY <1>a, <1>c
      <3> QED  BY <1>0, <1>b, <2>1, <2>2, <3>1 DEF SameCluster, connVars
    <2>8. Dead'
      BY <1>0, <1>b, <2>1, <2>2, <2>4 DEF Dead, connVars
    <2>9. Owned'
      <3> SUFFICES ASSUME NEW j \in Conns, status[j] = "open", j # k
                   PROVE  \/ uuidToConn'[peer[j]] = j
                          \/ j \in excused'
                          \/ \E u \in Connectors : mine'[u] = j
        BY <2>1, <2>2 DEF Owned, connVars
      <3>1. peer[j] \in Members
        BY DEF Held, IsMade
      <3>2. uuidToConn[peer[j]] = j => uuidToConn'[peer[j]] = j
        BY <1>2, <2>2, <3>1, MembersAssumption
      <3>3. \A u \in Connectors : mine[u] = j => mine'[u] = j
        BY <1>a
      <3> QED  BY <2>4, <3>2, <3>3 DEF Owned
    <2> QED  BY <2>5, <2>6, <2>7, <2>8, <2>9
  <1> QED  BY <1>1, <1>2

\* What RemoveConnection does to the maps, and to the worker.
LEMMA RemoveEffect ==
    ASSUME TypeOK, MapsAgree, Held, RemoveConnection
    PROVE  \E k \in connQueue :
             /\ IsMade(k) /\ status[k] = "closed" /\ connQueue' = connQueue \ {k}
             /\ pc.worker = "idle" /\ \A u \in Procs \ {"worker"} : pc'[u] = pc[u]
             /\ mstate = "stopped" => UNCHANGED <<uuidToConn, addrToConn, pc>>
             /\ mstate # "stopped" =>
                  /\ pc'.worker = IF \A m \in Members : uuidToConn'[m] = None
                                  THEN "pause" ELSE "idle"
                  /\ uuidToConn'[peer[k]] # k \/ k \in excused
             /\ \A b \in Addrs : addrToConn'[b] = addrToConn[b]
                                 \/ (addrToConn'[b] = None /\ addrToConn[b] = k)
             /\ \A n \in Members : uuidToConn'[n] = uuidToConn[n]
                                   \/ (uuidToConn'[n] = None /\ uuidToConn[n] = k)
             /\ \A b \in Addrs : addrToConn[b] = k /\ addrToConn'[b] = None =>
                                   uuidToConn'[peer[k]] = None
             /\ uuidToConn' # uuidToConn => \A b \in Addrs : addrToConn'[b] # k
  <1>1. PICK k \in connQueue :
            /\ connQueue' = connQueue \ {k}
            /\ IF mstate = "stopped"
               THEN UNCHANGED <<uuidToConn, addrToConn, pc>>
               ELSE LET A == {a \in Addrs : addrToConn[a] = k} IN
                      /\ addrToConn' = [a \in Addrs |-> IF a \in A THEN None ELSE addrToConn[a]]
                      /\ uuidToConn' = IF A = {} THEN uuidToConn
                                                 ELSE [uuidToConn EXCEPT ![peer[k]] = None]
                      /\ Goto("worker", IF \A m \in Members : uuidToConn'[m] = None
                                        THEN "pause" ELSE "idle")
    BY DEF RemoveConnection
  <1>2. IsMade(k) /\ status[k] = "closed" /\ pc.worker = "idle" /\ k # None
        /\ k \in Conns /\ peer[k] \in Members
    BY MembersAssumption DEF RemoveConnection, Held, IsMade
  <1>3. CASE mstate = "stopped"
    BY <1>1, <1>2, <1>3
  <1>4. CASE mstate # "stopped"
    <2> DEFINE A == {a \in Addrs : addrToConn[a] = k}
    <2>1. /\ addrToConn' = [a \in Addrs |-> IF a \in A THEN None ELSE addrToConn[a]]
          /\ uuidToConn' = IF A = {} THEN uuidToConn ELSE [uuidToConn EXCEPT ![peer[k]] = None]
          /\ Goto("worker", IF \A m \in Members : uuidToConn'[m] = None THEN "pause" ELSE "idle")
      BY <1>1, <1>4
    <2>2. /\ \A u \in Procs \ {"worker"} : pc'[u] = pc[u]
          /\ pc'.worker = IF \A m \in Members : uuidToConn'[m] = None THEN "pause" ELSE "idle"
      <3>1. "worker" \in Procs
        BY DEF Procs
      <3> QED  BY <2>1, <3>1, GotoEffect
    <2>3. CASE A = {}
      <3>1. \A b \in Addrs : addrToConn'[b] = addrToConn[b] /\ addrToConn[b] # k
        BY <2>1, <2>3
      <3>2. uuidToConn' = uuidToConn
        BY <2>1, <2>3
      <3>3. uuidToConn[peer[k]] # k \/ k \in excused
        BY <1>2, <3>1, MembersAssumption DEF MapsAgree
      <3> QED  BY <1>1, <1>2, <1>4, <2>2, <3>1, <3>2, <3>3
    <2>4. CASE A # {}
      <3>1. uuidToConn[peer[k]] = k
        BY <1>2, <2>4 DEF MapsAgree
      <3>2. uuidToConn'[peer[k]] = None /\ \A n \in Members \ {peer[k]} : uuidToConn'[n] = uuidToConn[n]
        BY <1>2, <2>1, <2>4 DEF TypeOK
      <3>3. \A b \in Addrs : addrToConn'[b] = IF addrToConn[b] = k THEN None ELSE addrToConn[b]
        BY <2>1
      <3> QED  BY <1>1, <1>2, <1>4, <2>2, <3>1, <3>2, <3>3
    <2> QED  BY <2>3, <2>4
  <1> QED  BY <1>3, <1>4

LEMMA RemoveKeeps ==
    ASSUME TypeOK, TypeOK', ConnInv, Booting, RemoveConnection
    PROVE  ConnInv'
  <1> USE DEF ConnInv
  <1>1. PICK k \in connQueue :
             /\ IsMade(k) /\ status[k] = "closed" /\ connQueue' = connQueue \ {k}
             /\ pc.worker = "idle" /\ \A u \in Procs \ {"worker"} : pc'[u] = pc[u]
             /\ mstate = "stopped" => UNCHANGED <<uuidToConn, addrToConn, pc>>
             /\ mstate # "stopped" =>
                  /\ pc'.worker = IF \A m \in Members : uuidToConn'[m] = None
                                  THEN "pause" ELSE "idle"
                  /\ uuidToConn'[peer[k]] # k \/ k \in excused
             /\ \A b \in Addrs : addrToConn'[b] = addrToConn[b]
                                 \/ (addrToConn'[b] = None /\ addrToConn[b] = k)
             /\ \A n \in Members : uuidToConn'[n] = uuidToConn[n]
                                   \/ (uuidToConn'[n] = None /\ uuidToConn[n] = k)
             /\ \A b \in Addrs : addrToConn[b] = k /\ addrToConn'[b] = None =>
                                   uuidToConn'[peer[k]] = None
             /\ uuidToConn' # uuidToConn => \A b \in Addrs : addrToConn'[b] # k
    BY RemoveEffect
  <1>2. /\ UNCHANGED <<connVars, mgrVars, mine, target, history>>
        /\ pc'.boot = pc.boot /\ \A u \in Connectors : pc'[u] = pc[u]
    BY <1>1 DEF RemoveConnection, Procs, Connectors
  <1> USE <1>2 DEF connVars, mgrVars, history
  <1>3. Held'
    BY <1>1, HeldKept DEF Held
  <1>4. MapsAgree'
    <2>1. \A n \in Members : uuidToConn'[n] # None =>
            /\ IsMade(uuidToConn'[n]) /\ peer[uuidToConn'[n]] = n
            /\ addrToConn'[AddrOf[n]] = uuidToConn'[n] \/ uuidToConn'[n] \in excused
      <3> SUFFICES ASSUME NEW n \in Members, uuidToConn'[n] # None
                   PROVE  /\ IsMade(uuidToConn'[n]) /\ peer[uuidToConn'[n]] = n
                          /\ addrToConn'[AddrOf[n]] = uuidToConn'[n] \/ uuidToConn'[n] \in excused
        OBVIOUS
      <3>1. uuidToConn'[n] = uuidToConn[n] /\ AddrOf[n] \in Addrs
        BY <1>1, MembersAssumption
      <3>2. CASE addrToConn'[AddrOf[n]] = addrToConn[AddrOf[n]]
        BY <3>1, <3>2 DEF MapsAgree
      <3>3. CASE addrToConn'[AddrOf[n]] = None /\ addrToConn[AddrOf[n]] = k
        BY <1>1, <3>1, <3>3 DEF MapsAgree
      <3> QED  BY <1>1, <3>1, <3>2, <3>3
    <2>2. \A b \in Addrs : addrToConn'[b] # None =>
            /\ IsMade(addrToConn'[b])
            /\ AddrOf[peer[addrToConn'[b]]] = b
            /\ uuidToConn'[peer[addrToConn'[b]]] = addrToConn'[b]
      <3> SUFFICES ASSUME NEW b \in Addrs, addrToConn'[b] # None
                   PROVE  /\ IsMade(addrToConn'[b])
                          /\ AddrOf[peer[addrToConn'[b]]] = b
                          /\ uuidToConn'[peer[addrToConn'[b]]] = addrToConn'[b]
        OBVIOUS
      <3> DEFINE j == addrToConn[b]
      <3>1. /\ addrToConn'[b] = j /\ IsMade(j) /\ AddrOf[peer[j]] = b /\ uuidToConn[peer[j]] = j
        BY <1>1 DEF MapsAgree
      <3>2. peer[j] \in Members
        BY <3>1 DEF IsMade
      <3>3. uuidToConn'[peer[j]] = j
        BY <1>1, <3>1, <3>2
      <3> QED  BY <3>1, <3>3
    <2> QED  BY <2>1, <2>2 DEF MapsAgree, IsMade
  <1>5. SameCluster'
    BY <1>1 DEF SameCluster
  <1>6. Dead'
    <2> SUFFICES ASSUME NEW m \in Members, uuidToConn'[m] # None, status[uuidToConn'[m]] = "closed"
                 PROVE  \/ uuidToConn'[m] \in closing \cup connQueue' \cup excused
                        \/ mstate = "stopped" /\ pc.boot # "sub"
      BY DEF Dead
    <2>1. uuidToConn'[m] = uuidToConn[m]
      BY <1>1
    <2>2. CASE uuidToConn[m] # k
      BY <1>1, <2>1, <2>2 DEF Dead
    <2>3. CASE uuidToConn[m] = k
      <3>1. peer[k] = m
        BY <2>1, <2>3 DEF MapsAgree
      <3>2. pc.boot # "sub"
        BY DEF Booting
      <3> QED  BY <1>1, <2>1, <2>3, <3>1, <3>2
    <2> QED  BY <2>2, <2>3
  <1>7. Owned'
    <2> SUFFICES ASSUME NEW j \in Conns, status[j] = "open"
                 PROVE  \/ uuidToConn'[peer[j]] = j
                        \/ j \in excused
                        \/ \E u \in Connectors : mine[u] = j
      BY DEF Owned
    <2>1. peer[j] \in Members /\ j # k
      BY <1>1 DEF Held, IsMade
    <2> QED  BY <1>1, <2>1 DEF Owned
  <1> QED  BY <1>3, <1>4, <1>5, <1>6, <1>7

LEMMA ResetKeeps ==
    ASSUME TypeOK, ConnInv, Booting, Reset \/ ResetMap
    PROVE  ConnInv'
  <1> USE DEF ConnInv
  <1>1. "boot" \in Procs /\ \A u \in Connectors : u \in Procs
    BY DEF Procs, Connectors
  <1>2. /\ UNCHANGED <<connVars, connQueue, mine, target, mstate>> /\ excused \subseteq excused'
        /\ pc.boot \in {"reset", "resetMap"} /\ pc'.boot \in {"resetMap", "sub"}
        /\ \A u \in Procs \ {"boot"} : pc'[u] = pc[u]
    BY <1>1, GotoEffect DEF Reset, ResetMap, mgrVars, eventVars
  <1> USE <1>2 DEF connVars
  <1>3. Held'
    BY <1>1, HeldKept DEF Held, ConnectPcs
  <1>4. CASE Reset
    <2>1. UNCHANGED <<uuidToConn, addrToConn, excused>> /\ pc'.boot = "resetMap"
      BY <1>1, <1>4, GotoEffect DEF Reset, mapVars
    <2> QED  BY <1>3, <2>1 DEF MapsAgree, SameCluster, Dead, Owned, IsMade
  <1>5. CASE ResetMap
    <2>1. /\ \A m \in Members : uuidToConn'[m] = None
          /\ \A a \in Addrs : addrToConn'[a] = None
          /\ excused' = excused \cup Opened(Mapped) /\ torn' = (pc.sync = "add")
      BY <1>5 DEF ResetMap
    <2>2. MapsAgree' /\ Dead'
      BY <2>1 DEF MapsAgree, Dead
    <2>3. SameCluster'
      <3>1. torn' \/ \A u \in Connectors : pc'[u] # "add"
        BY <1>1, <2>1 DEF Booting, Connectors
      <3> QED  BY <2>1, <3>1 DEF SameCluster
    <2>4. Owned'
      <3> SUFFICES ASSUME NEW k \in Conns, status[k] = "open", uuidToConn[peer[k]] = k
                   PROVE  k \in excused'
        BY DEF Owned
      <3>1. peer[k] \in Members /\ k # None
        BY MembersAssumption DEF Held, IsMade
      <3>2. k \in Mapped
        BY <3>1 DEF Mapped
      <3> QED  BY <2>1, <3>2 DEF Opened
    <2> QED  BY <1>3, <2>2, <2>3, <2>4
  <1> QED  BY <1>4, <1>5

LEMMA NextConnInv ==
    ASSUME TypeOK, ConnInv, Booting, [Next]_vars
    PROVE  ConnInv'
  <1>1. TypeOK'
    BY NextTyped DEF ConnInv
  <1>2. ASSUME NEW t \in {"lister", "sync"}, ConnectMember(t)
        PROVE  ConnInv'
    <2>1. t \in Connectors
      BY DEF Connectors
    <2> QED  BY <1>2, <2>1, DialKeeps DEF ConnectMember, mgrVars
  <1>3. CASE DialSeed
    <2>1. "boot" \in Connectors
      BY DEF Connectors
    <2> QED  BY <1>3, <2>1, DialKeeps DEF DialSeed, mapVars, mgrVars
  <1>4. ASSUME Steady PROVE ConnInv'
    BY <1>1, <1>4, SteadyKeeps
  <1> QED
    BY <1>1, <1>2, <1>3, <1>4, CheckClusterKeeps, AddKeeps, RemoveKeeps, ResetKeeps, SteadySteps
    DEF Next, Connect, ConnectMembers, Boot, ConnInv

-----------------------------------------------------------------------------
(* Start, stop and reboot *)

LEMMA NextBooting ==
    ASSUME TypeOK, Held, MapsAgree, Booting, [Next]_vars
    PROVE  Booting'
  <1> USE DEF connVars, mapVars, mgrVars, eventVars, otherEvents, clientVars, procVars, history
  <1>q. /\ {"boot", "lister", "sync", "worker", "closer"} \subseteq Procs
        /\ {"boot", "lister", "sync"} \subseteq Connectors /\ \A t \in Connectors : t \in Procs
    BY DEF Procs, Connectors
  <1>a. ASSUME UNCHANGED <<connSub, listSub, mstate>>, ~connSub => connQueue' = connQueue,
               pc'.boot = pc.boot, pc'.worker = pc.worker, pc.lister = "idle" => pc'.lister = "idle"
        PROVE  Booting'
    BY <1>a DEF Booting
  <1>b. ASSUME pc'.boot \in ConnectPcs \cup {"try", "wait", "finish"}, mstate' = "starting"
        PROVE  Booting'
    BY <1>b DEF Booting, ConnectPcs
  <1>c. ASSUME pc'.boot \in {"run", "ready", "stop", "failed"}
        PROVE  Booting'
    BY <1>c DEF Booting, ConnectPcs
  <1>1. ASSUME NEW k \in Conns, ConnectionFails(k)
        PROVE  Booting'
    BY <1>1, <1>a DEF ConnectionFails
  <1>2. ASSUME NEW k \in Conns, FailurePublished(k)
        PROVE  Booting'
    BY <1>2, <1>a DEF FailurePublished, PublishClosed
  <1>3. ASSUME NEW k \in Conns, MemberListArrives(k)
        PROVE  Booting'
    <2>1. CASE listSub /\ Goto("lister", "next")
      <3>1. pc'.boot = pc.boot /\ pc'.worker = pc.worker
        BY <1>q, <2>1, GotoEffect
      <3> QED  BY <1>3, <2>1, <3>1 DEF MemberListArrives, Booting
    <2>2. CASE UNCHANGED pc
      BY <1>3, <2>2, <1>a DEF MemberListArrives
    <2> QED  BY <1>3, <2>1, <2>2 DEF MemberListArrives
  <1>4. ASSUME NEW t \in Connectors, Connect(t)
        PROVE  Booting'
    <2>1. pc[t] \in ConnectPcs /\ UNCHANGED <<connSub, listSub, mstate>>
      BY <1>4 DEF Connect, NotAuthenticated, CheckCluster, AddConnection, ConnectPcs
    <2>2. \E l \in {"next", "wait", "try", "add"} : Goto(t, l) /\ (t = "boot" => l # "next")
      BY <1>4 DEF Connect, NotAuthenticated, CheckCluster, AddConnection, Attempted
    <2>3. /\ pc'[t] \in {"next", "wait", "try", "add"} /\ (t = "boot" => pc'[t] # "next")
          /\ \A u \in Procs \ {t} : pc'[u] = pc[u]
      BY <1>q, <2>2, GotoEffect
    <2>4. ~connSub => connQueue' = connQueue
      BY <1>4 DEF Connect, NotAuthenticated, CheckCluster, AddConnection, Close, PublishClosed
    <2>5. CASE t = "boot"
      BY <1>b, <2>1, <2>3, <2>5 DEF Booting, ConnectPcs
    <2>6. CASE t # "boot"
      <3>1. pc'.boot = pc.boot /\ pc'.worker = pc.worker /\ (pc.lister = "idle" => pc'.lister = "idle")
        BY <1>q, <2>1, <2>3, <2>6 DEF Connectors, ConnectPcs
      <3> QED  BY <1>a, <2>1, <2>4, <3>1
    <2> QED  BY <2>5, <2>6
  <1>5. ASSUME NEW t \in {"lister", "sync"}, ConnectMembers(t)
        PROVE  Booting'
    <2>1. pc[t] \in {"next", "cand"} /\ UNCHANGED <<connSub, connQueue, listSub, mstate>>
      BY <1>5 DEF ConnectMembers, TryConnectMember, ConnectMember, MemberSkipped
    <2>2. \E l : Goto(t, l)
      BY <1>5 DEF ConnectMembers, TryConnectMember, ConnectMember, MemberSkipped, Attempted,
         Dial
    <2>3. \A u \in Procs \ {t} : pc'[u] = pc[u]
      BY <1>q, <2>2, GotoEffect
    <2>4. pc'.boot = pc.boot /\ pc'.worker = pc.worker /\ (pc.lister = "idle" => pc'.lister = "idle")
      BY <1>q, <2>1, <2>3
    <2> QED  BY <1>a, <2>1, <2>4
  <1>6. CASE ListHandled \/ SyncEnds
    <2>1. pc'.boot = pc.boot /\ pc'.worker = pc.worker /\ (pc.lister = "idle" => pc'.lister = "idle")
      BY <1>6, <1>q, GotoEffect DEF ListHandled, SyncEnds
    <2> QED  BY <1>6, <1>a, <2>1 DEF ListHandled, SyncEnds
  <1>7. CASE RemoveConnection
    <2>1. /\ UNCHANGED <<connSub, listSub, mstate>> /\ connQueue # {}
          /\ pc'.boot = pc.boot /\ pc'.lister = pc.lister
      BY <1>7, <1>q, RemoveEffect DEF RemoveConnection
    <2> QED  BY <2>1 DEF Booting
  <1>8. CASE PauseInvocations \/ PublishDisconnected
    <2>1. /\ UNCHANGED <<connSub, connQueue, listSub, mstate>> /\ pc.worker # "idle"
          /\ pc'.boot = pc.boot /\ pc'.lister = pc.lister
      BY <1>8, <1>q, GotoEffect DEF PauseInvocations, PublishDisconnected
    <2> QED  BY <2>1 DEF Booting
  <1>9. CASE Reset \/ ResetMap
    <2>1. /\ UNCHANGED <<connSub, connQueue, listSub, mstate>>
          /\ pc.boot \in {"reset", "resetMap"} /\ pc'.boot \in {"resetMap", "sub"}
          /\ pc'.lister = pc.lister /\ pc'.worker = pc.worker
      BY <1>9, <1>q, GotoEffect DEF Reset, ResetMap
    <2> QED  BY <2>1 DEF Booting, ConnectPcs
  <1>10. CASE Subscribe \/ DialSeed
    <2>1. pc'.boot \in {"try", "auth"}
      BY <1>10, <1>q, GotoEffect DEF Subscribe, DialSeed, Dial
    <2>2. mstate' = "starting"
      BY <1>10 DEF Subscribe, DialSeed, Booting
    <2> QED  BY <1>b, <2>1, <2>2 DEF ConnectPcs
  <1>11. CASE StartFails \/ Started \/ ClientReady \/ HandleDisconnected
    <2>1. pc'.boot \in {"run", "ready", "stop", "failed"}
      BY <1>11, <1>q, GotoEffect DEF StartFails, Started, ClientReady, HandleDisconnected
    <2> QED  BY <1>c, <2>1
  <1>12. CASE ListReceived
    <2>1. pc'.boot = "finish"
      BY <1>12 DEF ListReceived, TypeOK
    <2> QED  BY <1>12, <1>b, <2>1 DEF ListReceived, Booting
  <1>13. ASSUME NEW t \in {"boot", "closer"}, Unsubscribe(t) \/ UnsubscribeMembers(t)
         PROVE  Booting'
    <2>1. /\ pc[t] = "stop" /\ pc'[t] = "drain" /\ ~connSub' /\ UNCHANGED <<connQueue, listSub, mstate>>
          \/ /\ pc[t] = "drain" /\ pc'[t] = "unlist" /\ UNCHANGED <<connSub, connQueue, mstate>>
             /\ connQueue = {} /\ pc.worker = "idle" /\ ~listSub'
      BY <1>13, <1>q, GotoEffect DEF Unsubscribe, UnsubscribeMembers
    <2>2. \A u \in Procs \ {t} : pc'[u] = pc[u]
      BY <1>13, <1>q, GotoEffect DEF Unsubscribe, UnsubscribeMembers
    <2>3. pc'.worker = pc.worker /\ pc'.lister = pc.lister /\ (t = "closer" => pc'.boot = pc.boot)
      BY <1>q, <2>2
    <2>4. CASE t = "boot"
      BY <2>1, <2>3, <2>4 DEF Booting, ConnectPcs
    <2>5. CASE t = "closer"
      BY <2>1, <2>3, <2>5 DEF Booting
    <2> QED  BY <2>4, <2>5
  <1>14. ASSUME NEW t \in {"boot", "closer"}, CloseAll(t)
         PROVE  Booting'
    <2>1. /\ pc[t] = "unlist" /\ pc'[t] = (IF t = "boot" THEN "reset" ELSE "last")
          /\ \A u \in Procs \ {t} : pc'[u] = pc[u]
      BY <1>14, <1>q, GotoEffect DEF CloseAll
    <2>2. pc'.worker = pc.worker /\ pc'.lister = pc.lister /\ (t = "closer" => pc'.boot = pc.boot)
      BY <1>q, <2>1
    <2>3. UNCHANGED <<connSub, listSub>> /\ (~connSub => connQueue' = connQueue) /\ pc.lister = "idle"
      BY <1>14 DEF CloseAll, Close, PublishClosed
    <2>4. mstate = "starting" => mstate' = mstate
      BY <1>14 DEF CloseAll
    <2>5. CASE t = "boot"
      BY <2>1, <2>2, <2>3, <2>5 DEF Booting, ConnectPcs
    <2>6. CASE t = "closer"
      BY <2>2, <2>3, <2>4, <2>6 DEF Booting
    <2> QED  BY <2>5, <2>6
  <1>15. CASE Shutdown \/ StopInvocations \/ ShutDown
    <2>1. /\ pc'.boot = pc.boot /\ pc'.worker = pc.worker /\ pc'.lister = pc.lister
      BY <1>15, <1>q, GotoEffect DEF Shutdown, StopInvocations, ShutDown
    <2> QED  BY <1>15, <1>a, <2>1 DEF Shutdown, StopInvocations, ShutDown
  <1>16. CASE UNCHANGED vars
    BY <1>16, <1>a DEF vars
  <1> QED
    BY <1>1, <1>2, <1>3, <1>4, <1>5, <1>6, <1>7, <1>8, <1>9, <1>10, <1>11, <1>12, <1>13,
       <1>14, <1>15, <1>16
    DEF Next, Boot

LEMMA NextLifecycle ==
    ASSUME TypeOK, Lifecycle, [Next]_vars
    PROVE  Lifecycle'
  <1> USE DEF connVars, mapVars, mgrVars, eventVars, otherEvents, clientVars, procVars, history
  <1>q. /\ {"boot", "lister", "sync", "worker", "closer"} \subseteq Procs
        /\ \A t \in Connectors : t \in Procs /\ t # "closer"
    BY DEF Procs, Connectors
  <1>a. ASSUME UNCHANGED <<cstate, running>>, pc'.closer = pc.closer,
               pc'.boot = pc.boot \/ (pc'.boot \notin {"ready", "run"} /\ pc.boot # "failed")
        PROVE  Lifecycle'
    BY <1>a DEF Lifecycle
  <1>b. ASSUME UNCHANGED <<cstate, running>>, NEW t \in Procs \ {"closer"}, NEW l,
               Goto(t, l), l \notin {"ready", "run"}, t = "boot" => pc.boot # "failed"
        PROVE  Lifecycle'
    BY <1>a, <1>b, <1>q, GotoEffect
  <1>1. ASSUME NEW k \in Conns, ConnectionFails(k) \/ FailurePublished(k) \/ MemberListArrives(k)
        PROVE  Lifecycle'
    <2>1. CASE pc' = pc
      BY <1>1, <1>a, <2>1 DEF ConnectionFails, FailurePublished, MemberListArrives
    <2>2. CASE Goto("lister", "next") /\ MemberListArrives(k)
      BY <1>b, <1>q, <2>2 DEF MemberListArrives
    <2> QED  BY <1>1, <2>1, <2>2 DEF ConnectionFails, FailurePublished, MemberListArrives
  <1>2. ASSUME NEW t \in Connectors, Connect(t)
        PROVE  Lifecycle'
    <2>1. pc[t] \in {"auth", "add"} /\ UNCHANGED <<cstate, running>>
      BY <1>2 DEF Connect, NotAuthenticated, CheckCluster, AddConnection
    <2>2. \E l \in {"next", "wait", "try", "add"} : Goto(t, l)
      BY <1>2 DEF Connect, NotAuthenticated, CheckCluster, AddConnection, Attempted
    <2> QED  BY <1>b, <1>q, <2>1, <2>2
  <1>3. ASSUME NEW t \in {"lister", "sync"}, ConnectMembers(t)
        PROVE  Lifecycle'
    <2>1. UNCHANGED <<cstate, running>>
      BY <1>3 DEF ConnectMembers, TryConnectMember, ConnectMember, MemberSkipped
    <2>2. \E l \in {"next", "wait", "try", "cand", "auth"} : Goto(t, l)
      BY <1>3 DEF ConnectMembers, TryConnectMember, ConnectMember, MemberSkipped, Attempted,
         Dial
    <2> QED  BY <1>b, <1>q, <2>1, <2>2
  <1>4. CASE ListHandled \/ SyncEnds \/ PauseInvocations \/ PublishDisconnected
    <2>1. UNCHANGED <<cstate, running>>
      BY <1>4 DEF ListHandled, SyncEnds, PauseInvocations, PublishDisconnected
    <2>2. \E t \in {"lister", "sync", "worker"}, l \in {"idle", "off", "publish"} : Goto(t, l)
      BY <1>4 DEF ListHandled, SyncEnds, PauseInvocations, PublishDisconnected
    <2> QED  BY <1>b, <1>q, <2>1, <2>2
  <1>5. CASE RemoveConnection
    <2>1. pc' = pc \/ \E l \in {"pause", "idle"} : Goto("worker", l)
      BY <1>5 DEF RemoveConnection
    <2> QED  BY <1>5, <1>a, <1>b, <1>q, <2>1 DEF RemoveConnection
  <1>6. CASE Reset \/ ResetMap \/ Subscribe \/ DialSeed
    <2>1. UNCHANGED <<cstate, running>> /\ pc.boot # "failed"
      BY <1>6 DEF Reset, ResetMap, Subscribe, DialSeed
    <2>2. \E l \in {"resetMap", "sub", "try", "auth"} : Goto("boot", l)
      BY <1>6 DEF Reset, ResetMap, Subscribe, DialSeed, Dial
    <2> QED  BY <1>b, <1>q, <2>1, <2>2
  <1>7. CASE StartFails \/ Started \/ ClientReady
    <2>1. \A u \in Procs \ {"boot"} : pc'[u] = pc[u]
      BY <1>7, <1>q, GotoEffect DEF StartFails, Started, ClientReady
    <2>2. CASE StartFails
      <3>1. pc'.boot \in {"failed", "stop", "run"} /\ cstate' = cstate
            /\ (cstate = "starting" => pc'.boot = "failed")
            /\ (running' = running \/ pc'.boot = "failed") /\ pc.boot # "failed"
        BY <2>2, <1>q, GotoEffect DEF StartFails
      <3> QED  BY <1>q, <2>1, <3>1 DEF Lifecycle
    <2>3. CASE Started
      <3>1. pc'.boot = (IF cstate = "starting" THEN "ready" ELSE "run") /\ UNCHANGED <<cstate, running>>
            /\ pc.boot # "failed"
        BY <2>3, <1>q, GotoEffect DEF Started
      <3> QED  BY <1>q, <2>1, <3>1 DEF Lifecycle
    <2>4. CASE ClientReady
      <3>1. pc'.boot = "run" /\ cstate' = "ready" /\ running' = running /\ pc.boot = "ready"
        BY <2>4, <1>q, GotoEffect DEF ClientReady
      <3> QED  BY <1>q, <2>1, <3>1 DEF Lifecycle
    <2> QED  BY <1>7, <2>2, <2>3, <2>4
  <1>8. CASE ListReceived
    <2>1. pc'.boot = "finish" /\ pc'.closer = pc.closer /\ pc.boot = "wait"
      BY <1>8 DEF ListReceived, TypeOK
    <2> QED  BY <1>8, <1>a, <2>1 DEF ListReceived
  <1>9. CASE HandleDisconnected
    <2>1. pc.boot = "run" /\ pc'.boot \in {"run", "stop"} /\ pc'.closer = pc.closer
      BY <1>9, <1>q, GotoEffect DEF HandleDisconnected
    <2> QED  BY <1>9, <1>a, <2>1 DEF HandleDisconnected
  <1>10. ASSUME NEW t \in {"boot", "closer"}, Unsubscribe(t) \/ UnsubscribeMembers(t) \/ CloseAll(t)
         PROVE  Lifecycle'
    <2>1. UNCHANGED <<cstate, running>> /\ pc[t] \in {"stop", "drain", "unlist"}
      BY <1>10 DEF Unsubscribe, UnsubscribeMembers, CloseAll
    <2>2. \E l \in {"drain", "unlist", "reset", "last"} : Goto(t, l)
      BY <1>10 DEF Unsubscribe, UnsubscribeMembers, CloseAll
    <2>3. CASE t = "boot"
      BY <1>b, <1>q, <2>1, <2>2, <2>3
    <2>4. CASE t = "closer"
      <3>1. pc'.boot = pc.boot /\ pc'.closer # "idle" /\ pc.closer # "idle"
        BY <1>q, <2>1, <2>2, <2>4, GotoEffect
      <3> QED  BY <2>1, <3>1 DEF Lifecycle
    <2> QED  BY <2>3, <2>4
  <1>11. CASE Shutdown \/ StopInvocations
    <2>1. pc'.boot = pc.boot /\ pc'.closer # "idle"
      BY <1>11, <1>q, GotoEffect DEF Shutdown, StopInvocations
    <2>2. cstate' \notin {"starting", "ready"} /\ pc.boot # "ready"
      BY <1>11 DEF Shutdown, StopInvocations, Lifecycle, TypeOK
    <2> QED  BY <2>1, <2>2 DEF Lifecycle
  <1>12. CASE ShutDown
    BY <1>12, <1>q, GotoEffect DEF ShutDown, Lifecycle
  <1>13. CASE UNCHANGED vars
    BY <1>13, <1>a DEF vars
  <1> QED
    BY <1>1, <1>2, <1>3, <1>4, <1>5, <1>6, <1>7, <1>8, <1>9, <1>10, <1>11, <1>12, <1>13
    DEF Next, Boot

\* The loss of the last connection, and a pause, are announced to the handler
\* that reboots.
LEMMA NextAnnounced ==
    ASSUME TypeOK, Held, MapsAgree, Lifecycle, Announced, [Next]_vars
    PROVE  Announced'
  <1> USE DEF connVars, mapVars, mgrVars, eventVars, otherEvents, clientVars, procVars, history
  <1>q. /\ {"boot", "lister", "sync", "worker", "closer"} \subseteq Procs
        /\ \A t \in Connectors : t \in Procs
    BY DEF Procs, Connectors
  <1>a. ASSUME UNCHANGED <<cstate, paused, clusterQueue, unheard>>,
               (\A m \in Members : uuidToConn'[m] = None) => (\A m \in Members : uuidToConn[m] = None),
               pc'.boot \in {"wait", "finish", "ready", "run"} =>
                 /\ pc.boot \in {"wait", "finish", "ready", "run"}
                 /\ pc'.boot \in {"ready", "run"} => pc.boot \in {"ready", "run"},
               pc'.worker = pc.worker
        PROVE  Announced'
    BY <1>a DEF Announced, Noticed
  <1>b. ASSUME NEW t \in {"lister", "sync", "closer"}, NEW l, Goto(t, l)
        PROVE  pc'.boot = pc.boot /\ pc'.worker = pc.worker
    BY <1>b, <1>q, GotoEffect
  <1>c. ASSUME NEW l, Goto("boot", l)
        PROVE  pc'.boot = l /\ pc'.worker = pc.worker
    BY <1>c, <1>q, GotoEffect
  <1>d. ASSUME cstate' \notin {"starting", "ready"}
        PROVE  Announced'
    BY <1>d DEF Announced
  <1>e. ASSUME pc'.boot \notin {"wait", "finish", "ready", "run"}
        PROVE  Announced'
    BY <1>e DEF Announced
  <1>1. ASSUME NEW k \in Conns, ConnectionFails(k) \/ FailurePublished(k) \/ MemberListArrives(k)
        PROVE  Announced'
    <2>1. pc'.boot = pc.boot /\ pc'.worker = pc.worker
      BY <1>1, <1>b DEF ConnectionFails, FailurePublished, MemberListArrives
    <2> QED  BY <1>1, <1>a, <2>1 DEF ConnectionFails, FailurePublished, MemberListArrives
  <1>2. ASSUME NEW t \in Connectors, NotAuthenticated(t) \/ CheckCluster(t)
        PROVE  Announced'
    <2>1. UNCHANGED <<cstate, paused, clusterQueue, unheard, uuidToConn>>
      BY <1>2 DEF NotAuthenticated, CheckCluster
    <2>2. \E l \in {"next", "try", "add"} : Goto(t, l)
      BY <1>2 DEF NotAuthenticated, CheckCluster, Attempted
    <2>3. /\ pc'.worker = pc.worker /\ (pc'.boot = pc.boot \/ pc'.boot \in {"next", "try", "add"})
      BY <1>q, <2>2, GotoEffect DEF Connectors
    <2> QED  BY <1>a, <2>1, <2>3
  <1>3. ASSUME NEW t \in Connectors, AddConnection(t)
        PROVE  Announced'
    <2>1. UNCHANGED <<cstate, paused, clusterQueue, unheard>> /\ pc[t] = "add"
      BY <1>3 DEF AddConnection
    <2>2. /\ pc'[t] = IF t # "boot" THEN "next" ELSE "wait"
          /\ \A u \in Procs \ {t} : pc'[u] = pc[u]
      BY <1>3, AttemptedEffect DEF AddConnection
    <2>3. peer[mine[t]] \in Members /\ mine[t] # None
      BY <1>3, <2>1, MembersAssumption DEF Held, IsMade, ConnectPcs
    <2>4. uuidToConn'[peer[mine[t]]] # None
      BY <1>3, <2>3 DEF AddConnection, TypeOK
    <2>5. pc'.worker = pc.worker /\ (pc'.boot \in {"ready", "run"} => pc.boot \in {"ready", "run"})
      BY <1>q, <2>2 DEF Connectors
    <2> QED  BY <2>1, <2>3, <2>4, <2>5 DEF Announced, Noticed
  <1>4. ASSUME NEW t \in {"lister", "sync"}, ConnectMembers(t)
        PROVE  Announced'
    <2>1. UNCHANGED <<cstate, paused, clusterQueue, unheard, uuidToConn>>
      BY <1>4 DEF ConnectMembers, TryConnectMember, ConnectMember, MemberSkipped
    <2>2. \E l : Goto(t, l)
      BY <1>4 DEF ConnectMembers, TryConnectMember, ConnectMember, MemberSkipped, Attempted,
         Dial
    <2> QED  BY <1>a, <1>b, <2>1, <2>2
  <1>5. CASE ListHandled \/ SyncEnds
    BY <1>5, <1>a, <1>b DEF ListHandled, SyncEnds
  <1>6. CASE RemoveConnection
    <2>1. /\ UNCHANGED <<cstate, paused, clusterQueue, unheard>>
          /\ pc.worker = "idle" /\ pc'.boot = pc.boot
          /\ mstate = "stopped" => UNCHANGED <<uuidToConn, pc>>
          /\ mstate # "stopped" =>
               pc'.worker = IF \A m \in Members : uuidToConn'[m] = None THEN "pause" ELSE "idle"
      BY <1>6, <1>q, RemoveEffect DEF RemoveConnection
    <2>2. CASE mstate = "stopped"
      BY <1>a, <2>1, <2>2
    <2>3. CASE mstate # "stopped"
      BY <2>1, <2>3 DEF Announced, Noticed
    <2> QED  BY <2>2, <2>3
  <1>7. CASE PauseInvocations \/ PublishDisconnected
    <2>1. /\ UNCHANGED <<cstate, uuidToConn>>
          /\ pc.worker \in {"pause", "publish"} /\ pc'.boot = pc.boot
      BY <1>7, <1>q, GotoEffect DEF PauseInvocations, PublishDisconnected
    <2>2. pc'.worker = "publish" \/ clusterQueue' > 0 \/ unheard'
      <3>1. CASE PauseInvocations
        BY <3>1, <1>q, GotoEffect DEF PauseInvocations
      <3>2. CASE PublishDisconnected /\ ~clusterSub
        BY <3>2 DEF PublishDisconnected
      <3>3. CASE PublishDisconnected /\ clusterSub
        BY <3>3, SeedsAssumption DEF PublishDisconnected, TypeOK
      <3> QED  BY <1>7, <3>1, <3>2, <3>3
    <2> QED  BY <2>2 DEF Announced, Noticed
  <1>8. CASE Reset \/ ResetMap \/ Subscribe \/ DialSeed
    <2>1. pc'.boot \in {"resetMap", "sub", "try", "auth"}
      BY <1>8, <1>c DEF Reset, ResetMap, Subscribe, DialSeed, Dial
    <2> QED  BY <1>e, <2>1
  <1>9. CASE StartFails
    <2>1. \/ pc'.boot \in {"failed", "stop"}
          \/ cstate' \notin {"starting", "ready"}
      BY <1>9, <1>c DEF StartFails
    <2> QED  BY <1>d, <1>e, <2>1
  <1>10. CASE ListReceived
    <2>1. pc.boot = "wait" /\ pc'.boot = "finish" /\ pc'.worker = pc.worker
      BY <1>10 DEF ListReceived, TypeOK
    <2> QED  BY <1>10, <1>a, <2>1 DEF ListReceived
  <1>11. CASE Started
    <2>1. /\ pc.boot = "finish" /\ pc'.worker = pc.worker
          /\ UNCHANGED <<cstate, clusterQueue, unheard, uuidToConn>>
          /\ paused' = IF running THEN FALSE ELSE paused
      BY <1>11, <1>c DEF Started, Pause
    <2>2. cstate \in {"starting", "ready"} => ~paused'
      BY <2>1 DEF Lifecycle
    <2> QED  BY <2>1, <2>2 DEF Announced, Noticed
  <1>12. CASE ClientReady
    <2>1. /\ pc.boot = "ready" /\ pc'.boot = "run" /\ pc'.worker = pc.worker
          /\ UNCHANGED <<clusterQueue, unheard, uuidToConn, paused>> /\ cstate = "starting"
      BY <1>12, <1>c DEF ClientReady, Lifecycle
    <2> QED  BY <2>1 DEF Announced, Noticed
  <1>13. CASE HandleDisconnected
    <2>1. pc'.boot = "stop" \/ cstate' # "ready"
      BY <1>13, <1>c DEF HandleDisconnected
    <2>2. cstate' # "starting"
      BY <1>13 DEF HandleDisconnected, TypeOK, Lifecycle
    <2> QED  BY <1>d, <1>e, <2>1, <2>2
  <1>14. ASSUME NEW t \in {"boot", "closer"}, Unsubscribe(t) \/ UnsubscribeMembers(t) \/ CloseAll(t)
         PROVE  Announced'
    <2>1. UNCHANGED <<cstate, paused, clusterQueue, unheard, uuidToConn>>
      BY <1>14 DEF Unsubscribe, UnsubscribeMembers, CloseAll
    <2>2. \E l \in {"drain", "unlist", "reset", "last"} : Goto(t, l)
      BY <1>14 DEF Unsubscribe, UnsubscribeMembers, CloseAll
    <2>3. pc'.worker = pc.worker /\ (pc'.boot = pc.boot \/ pc'.boot \in {"drain", "unlist", "reset", "last"})
      BY <1>b, <1>c, <2>2
    <2> QED  BY <1>a, <2>1, <2>3
  <1>15. CASE Shutdown \/ StopInvocations \/ ShutDown
    <2>1. cstate' \notin {"starting", "ready"}
      BY <1>15 DEF Shutdown, StopInvocations, ShutDown, Lifecycle
    <2> QED  BY <1>d, <2>1
  <1>16. CASE UNCHANGED vars
    BY <1>16, <1>a DEF vars
  <1> QED
    BY <1>1, <1>2, <1>3, <1>4, <1>5, <1>6, <1>7, <1>8, <1>9, <1>10, <1>11, <1>12, <1>13,
       <1>14, <1>15, <1>16
    DEF Next, Connect, Boot

-----------------------------------------------------------------------------
LEMMA IndInvHolds == Spec => []IndInv
  <1>1. Init => IndInv
    <2> SUFFICES ASSUME Init PROVE IndInv
      OBVIOUS
    <2>1. \A t \in Connectors : pc[t] \in {"sub", "idle", "off"}
      BY DEF Init, Connectors
    <2>2. Held
      BY <2>1 DEF Init, Held, ConnectPcs
    <2>3. Booting /\ Lifecycle /\ Announced
      BY DEF Init, Booting, Lifecycle, Announced, ConnectPcs
    <2>4. MapsAgree /\ SameCluster /\ Dead /\ Owned
      BY <2>1 DEF Init, MapsAgree, SameCluster, Dead, Owned
    <2> QED  BY <2>2, <2>3, <2>4, InitTyped DEF IndInv
  <1>2. IndInv /\ [Next]_vars => IndInv'
    BY NextTyped, NextConnInv, NextBooting, NextLifecycle, NextAnnounced DEF IndInv, ConnInv
  <1> QED  BY <1>1, <1>2, PTL DEF Spec

\* The variables keep their types.
THEOREM TypeCorrect == Spec => []TypeOK
  BY IndInvHolds, PTL DEF IndInv

\* While the client is up, its invocations are paused only with a disconnection
\* on its way to the handler that reboots it and ends the pause, or with one that
\* came before Client.Start had subscribed.
THEOREM PausesAreNoticed == Spec => []PausedIsNoticed
  <1>1. IndInv => PausedIsNoticed
    BY DEF IndInv, Announced, PausedIsNoticed, Up
  <1> QED  BY <1>1, IndInvHolds, PTL

\* A client that is up and has lost all its connections is about to reboot.
THEOREM LossesAreNoticed == Spec => []EmptyIsNoticed
  <1>1. IndInv => EmptyIsNoticed
    <2> SUFFICES ASSUME IndInv, Mapped = {}, Up
                 PROVE  Noticed \/ unheard
      BY DEF EmptyIsNoticed
    <2>1. \A m \in Members : uuidToConn[m] = None
      BY DEF Mapped
    <2> QED  BY <2>1 DEF IndInv, Announced, Up
  <1> QED  BY <1>1, IndInvHolds, PTL

\* The connections in use are to one cluster, the one whose ID the client has,
\* whatever a reboot, a failover and the sync goroutine do at the same time,
\* unless reset comes between the check of the ID and GetOrAddConnection.
THEOREM ClusterIsOne == Spec => []OneCluster
  <1>1. IndInv => OneCluster
    BY DEF IndInv, SameCluster, OneCluster, Mapped
  <1> QED  BY <1>1, IndInvHolds, PTL

\* A connection that is closed leaves the map: its event is on its way, or it is
\* one of the named exceptions.
THEOREM DeadAreNoticed == Spec => []DeadIsNoticed
  <1>1. IndInv => DeadIsNoticed
    BY DEF IndInv, Dead, DeadIsNoticed, Mapped
  <1> QED  BY <1>1, IndInvHolds, PTL

\* Every open connection is in the map, in the hands of the goroutine that makes
\* it, or was dropped by a reset or displaced at its address.
THEOREM OpenAreOwned == Spec => []OpenIsOwned
  <1>1. IndInv => OpenIsOwned
    <2> SUFFICES ASSUME IndInv, NEW k \in Conns, status[k] = "open"
                 PROVE  k \in Mapped \cup excused \/ \E t \in Connectors : mine[t] = k
      BY DEF OpenIsOwned
    <2>1. peer[k] \in Members /\ k # None
      BY MembersAssumption DEF IndInv, Held, IsMade
    <2>2. uuidToConn[peer[k]] = k => k \in Mapped
      BY <2>1 DEF Mapped
    <2> QED  BY <2>2 DEF IndInv, Owned
  <1> QED  BY <1>1, IndInvHolds, PTL
=============================================================================
