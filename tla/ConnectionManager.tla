------------------------- MODULE ConnectionManager -------------------------
(***************************************************************************)
(* How the client connects, loses its connections and connects again:      *)
(* internal/cluster.ConnectionManager with its connectionMap, the start,   *)
(* reboot and shutdown of internal/client.Client, and the failover         *)
(* service, for a client with smart routing.                               *)
(*                                                                         *)
(* The goroutines are "boot" (Client.Start, later the handler of cluster   *)
(* events, which reboots), "lister" (the handler of the first member       *)
(* list), "sync" (syncConnections), "worker" (the handler of connection    *)
(* events) and "closer" (Client.Shutdown).  The first three make           *)
(* connections.                                                            *)
(*                                                                         *)
(* A member is its UUID: a member that restarts is another member at the   *)
(* same address, or comes back with its UUID (hot restart) and possibly    *)
(* the ID of another cluster.  ReconnectModeOff calls only Shutdown, which *)
(* may happen here at any time.                                            *)
(***************************************************************************)
EXTENDS Integers, FiniteSets

CONSTANTS
    Members,        \* members, that is their UUIDs, over the life of the client
    Addrs,          \* addresses
    AddrOf,         \* the address of a member
    Clusters,       \* the IDs of clusters
    Conns,          \* the connections: as many bound the attempts to connect
    MaxShutdown,    \* bound on the connections of a client that is shut down
    None,
    Seeds,          \* the addresses of all candidate clusters of the failover service
    MaxDisconnects  \* bound on the disconnections that wait for the reboot handler

ASSUME MembersAssumption ==
    /\ AddrOf \in [Members -> Addrs]
    /\ None \notin Members \cup Conns \cup Clusters
ASSUME SeedsAssumption ==
    /\ Seeds \subseteq Addrs
    /\ MaxShutdown \in Nat /\ MaxDisconnects \in Nat \ {0}

Connectors == {"boot", "lister", "sync"}
Procs      == Connectors \cup {"worker", "closer"}

VARIABLES
    \* cluster.Connection
    status,      \* "closed" or "open"; a connection that is being made is "open"
    peer, cid,   \* the member at the other end, and the ID of its cluster
    closing,     \* closed by their own goroutines, with ConnectionClosed to be published
    \* connectionMap
    uuidToConn, addrToConn, candidates,
    \* ConnectionManager, FailoverService and the ordered members of Service
    mstate, clusterID, doneCh, members,
    \* subscriptions and queues of the event dispatcher
    connSub, connQueue,    \* handleConnectionEvent: closed connections, in any order
    listSub, listed,       \* the handler of the first member list, and its channel
    clusterSub, clusterQueue,  \* Client.handleClusterEvent: disconnections that wait
    \* Client and invocation.Service
    cstate, running, paused,
    leaked,      \* nobody will unlock stateMu of invocation.Service
    \* the goroutines
    pc, mine, target,
    \* history
    unheard,     \* a disconnection was published before anybody subscribed
    torn,        \* a reset met a connection that was being added
    excused      \* connections dropped by a reset, or added or closed unnoticed

connVars  == <<status, peer, cid, closing>>
mapVars   == <<uuidToConn, addrToConn, candidates>>
mgrVars   == <<mstate, clusterID, doneCh, members>>
otherEvents == <<connSub, listSub, listed, clusterSub, clusterQueue>>
eventVars == <<connQueue, otherEvents>>
clientVars == <<cstate, running, paused, leaked>>
procVars  == <<pc, mine, target>>
history   == <<unheard, torn, excused>>
vars == <<connVars, mapVars, mgrVars, eventVars, clientVars, procVars, history>>

ConnectPcs == {"auth", "add"}
MemberPcs  == ConnectPcs \cup {"next", "cand"}
StopPcs    == {"stop", "drain", "unlist"}
BootPcs    == {"reset", "resetMap", "sub", "try", "wait", "finish", "ready", "run", "failed"}

TypeOK ==
    /\ status \in [Conns -> {"open", "closed"}]
    /\ peer \in [Conns -> Members \cup {None}] /\ cid \in [Conns -> Clusters \cup {None}]
    /\ closing \in SUBSET Conns
    /\ uuidToConn \in [Members -> Conns \cup {None}]
    /\ addrToConn \in [Addrs -> Conns \cup {None}]
    /\ candidates \in SUBSET Members
    /\ mstate \in {"starting", "ready", "stopped"}
    /\ clusterID \in Clusters \cup {None}
    /\ doneCh \in BOOLEAN /\ members \in SUBSET Members
    /\ connSub \in BOOLEAN /\ connQueue \in SUBSET Conns
    /\ listSub \in BOOLEAN /\ listed \in BOOLEAN
    /\ clusterSub \in BOOLEAN /\ clusterQueue \in 0..MaxDisconnects
    /\ cstate \in {"starting", "ready", "stopping", "stopped"}
    /\ running \in BOOLEAN /\ paused \in BOOLEAN /\ leaked \in BOOLEAN
    /\ pc \in [boot   : BootPcs \cup StopPcs \cup ConnectPcs,
               lister : MemberPcs \cup {"idle"},
               sync   : MemberPcs \cup {"off"},
               worker : {"idle", "pause", "publish"},
               closer : StopPcs \cup {"idle", "invocations", "last", "done"}]
    /\ mine \in [Connectors -> Conns \cup {None}]
    /\ target \in [Connectors -> Members \cup {None}]
    /\ unheard \in BOOLEAN /\ torn \in BOOLEAN /\ excused \in SUBSET Conns

\* Client.Start was called.
Init ==
    /\ status = [k \in Conns |-> "closed"]
    /\ cid = [k \in Conns |-> None]
    /\ peer = [k \in Conns |-> None]
    /\ closing = {}
    /\ uuidToConn = [m \in Members |-> None]
    /\ addrToConn = [a \in Addrs |-> None]
    /\ candidates = {}
    /\ mstate = "starting" /\ clusterID = None /\ doneCh = FALSE /\ members = {}
    /\ connSub = FALSE /\ connQueue = {} /\ listSub = FALSE /\ listed = FALSE
    /\ clusterSub = FALSE /\ clusterQueue = 0
    /\ cstate = "starting" /\ running = TRUE /\ paused = FALSE /\ leaked = FALSE
    /\ pc = [boot |-> "sub", lister |-> "idle", sync |-> "off", worker |-> "idle",
             closer |-> "idle"]
    /\ mine = [t \in Connectors |-> None]
    /\ target = [t \in Connectors |-> None]
    /\ unheard = FALSE /\ torn = FALSE /\ excused = {}

Goto(t, l) == pc' = [pc EXCEPT ![t] = l]

Mapped == {uuidToConn[m] : m \in Members} \ {None}

-----------------------------------------------------------------------------
(* Connection.close *)

Opened(K) == {k \in K : status[k] = "open"}

\* Publish(ConnectionClosed): without a subscription, nobody hears of it.
PublishClosed(K) ==
    /\ connQueue' = IF connSub THEN connQueue \cup K ELSE connQueue
    /\ excused' = IF connSub THEN excused ELSE excused \cup K

\* Those of K that are open are closed by the goroutine that goes on afterwards.
Close(K) ==
    /\ status' = [k \in Conns |-> IF k \in K THEN "closed" ELSE status[k]]
    /\ PublishClosed(Opened(K))
    /\ UNCHANGED <<peer, cid, closing>>

\* The read loop or the write loop fails, or the heartbeat times out: in their
\* goroutines the event is published some time after the status has changed.
ConnectionFails(k) ==
    /\ status[k] = "open"
    /\ status' = [status EXCEPT ![k] = "closed"]
    /\ closing' = closing \cup {k}
    /\ UNCHANGED <<peer, cid, mapVars, mgrVars, eventVars, clientVars, procVars, history>>

FailurePublished(k) ==
    /\ k \in closing
    /\ closing' = closing \ {k}
    /\ PublishClosed({k})
    /\ UNCHANGED <<status, peer, cid, mapVars, mgrVars, otherEvents, clientVars,
                   procVars, unheard, torn>>

-----------------------------------------------------------------------------
(* ensureConnection and authenticate *)

\* The connections made so far; bounded by MaxShutdown once the client is shut down.
Made == Cardinality({k \in Conns : peer[k] # None})

\* A new connection, with a socket to a member at the address.
Dial(t, a) ==
    /\ pc.closer # "idle" => Made < MaxShutdown
    /\ \E k \in Conns, m \in Members, c \in Clusters :
         /\ peer[k] = None /\ AddrOf[m] = a
         /\ status' = [status EXCEPT ![k] = "open"]
         /\ peer' = [peer EXCEPT ![k] = m]
         /\ cid' = [cid EXCEPT ![k] = c]
         /\ mine' = [mine EXCEPT ![t] = k]
    /\ Goto(t, "auth")
    /\ UNCHANGED closing

\* The attempt is over: RemoveCandidate, and on with the caller.
Attempted(t, ok) ==
    /\ mine' = [mine EXCEPT ![t] = None]
    /\ target' = [target EXCEPT ![t] = None]
    /\ Goto(t, IF t # "boot" THEN "next" ELSE IF ok THEN "wait" ELSE "try")

\* The member does not answer, or that the client is not authenticated.
NotAuthenticated(t) ==
    /\ pc[t] = "auth"
    /\ Close({mine[t]})
    /\ candidates' = candidates \ {target[t]}
    /\ Attempted(t, FALSE)
    /\ UNCHANGED <<uuidToConn, addrToConn, mgrVars, otherEvents, clientVars, unheard, torn>>

\* Mutant: the ID of the cluster is not compared.
CheckClusterUnchecked(t) ==
    /\ pc[t] = "auth"
    /\ clusterID' = IF Mapped = {} THEN cid[mine[t]] ELSE clusterID
    /\ Goto(t, "add")
    /\ UNCHANGED <<connVars, mapVars, mstate, doneCh, members, eventVars, clientVars,
                   mine, target, history>>

\* processAuthenticationResult, under clusterIDMu.  The answer may have come any time
\* ago: the connection may be closed and the service stopped by now.
CheckCluster(t) ==
    /\ pc[t] = "auth"
    /\ LET id == cid[mine[t]] IN
         IF clusterID \notin {None, id}
         THEN /\ Close({mine[t]})
              /\ candidates' = candidates \ {target[t]}
              /\ Attempted(t, FALSE)
              /\ UNCHANGED clusterID
         ELSE /\ clusterID' = IF Mapped = {} THEN id ELSE clusterID
              /\ Goto(t, "add")
              /\ UNCHANGED <<connVars, candidates, mine, target, connQueue, excused>>
    /\ UNCHANGED <<uuidToConn, addrToConn, mstate, doneCh, members,
                   otherEvents, clientVars, unheard, torn>>

\* No event will remove k if it is closed already, nor the one whose address it takes.
Unnoticed(k) ==
    ({addrToConn[AddrOf[peer[k]]]} \cup {j \in {k} : status[j] = "closed"}) \ {None}

\* Mutant: the second connection to a member is not closed.
AddConnectionTwice(t) ==
    /\ pc[t] = "add"
    /\ LET k == mine[t]
           m == peer[k] IN
         IF uuidToConn[m] # None
         THEN UNCHANGED <<connVars, uuidToConn, addrToConn, connQueue, excused>>
         ELSE /\ uuidToConn' = [uuidToConn EXCEPT ![m] = k]
              /\ addrToConn' = [addrToConn EXCEPT ![AddrOf[m]] = k]
              /\ excused' = excused \cup Unnoticed(k)
              /\ UNCHANGED <<connVars, connQueue>>
    /\ candidates' = candidates \ {target[t]}
    /\ Attempted(t, TRUE)
    /\ UNCHANGED <<mgrVars, otherEvents, clientVars, unheard, torn>>

\* GetOrAddConnection; a second connection to the same member is closed.
AddConnection(t) ==
    /\ pc[t] = "add"
    /\ LET k == mine[t]
           m == peer[k] IN
         IF uuidToConn[m] # None
         THEN Close({k}) /\ UNCHANGED <<uuidToConn, addrToConn>>
         ELSE /\ uuidToConn' = [uuidToConn EXCEPT ![m] = k]
              /\ addrToConn' = [addrToConn EXCEPT ![AddrOf[m]] = k]
              /\ excused' = excused \cup Unnoticed(k)
              /\ UNCHANGED <<connVars, connQueue>>
    /\ candidates' = candidates \ {target[t]}
    /\ Attempted(t, TRUE)
    /\ UNCHANGED <<mgrVars, otherEvents, clientVars, unheard, torn>>

-----------------------------------------------------------------------------
(* connectAllMembers, by the handler of the member list and syncConnections. *)
(* It goes over the ordered members; here over any of them, any number of    *)
(* times.                                                                    *)

\* tryConnectMember: a member that has a connection is skipped, ...
TryConnectMember(t) ==
    /\ pc[t] = "next"
    /\ \E m \in members :
         /\ uuidToConn[m] = None
         /\ target' = [target EXCEPT ![t] = m]
    /\ Goto(t, "cand")
    /\ UNCHANGED <<connVars, mapVars, mgrVars, eventVars, clientVars, mine, history>>

\* ... and so is one that somebody else is connecting to.
ConnectMember(t) ==
    /\ pc[t] = "cand" /\ target[t] \notin candidates
    /\ candidates' = candidates \cup {target[t]}
    /\ Dial(t, AddrOf[target[t]])
    /\ UNCHANGED <<uuidToConn, addrToConn, mgrVars, eventVars, clientVars, target,
                   history>>

\* Nobody answers at the address; or the candidate is somebody else's.
MemberSkipped(t) ==
    /\ pc[t] = "cand"
    /\ Attempted(t, FALSE)
    /\ UNCHANGED <<connVars, mapVars, mgrVars, eventVars, clientVars, history>>

\* A member list comes over one of the connections.  The first one after a start
\* makes the client connect to all of them.
MemberListArrives(k) ==
    /\ k \in Mapped /\ status[k] = "open" /\ running
    /\ \E M \in SUBSET Members :
         peer[k] \in M /\ members' = M
    /\ IF listSub /\ ~listed /\ pc.lister = "idle"
       THEN Goto("lister", "next") ELSE UNCHANGED pc
    /\ UNCHANGED <<connVars, mapVars, mstate, clusterID, doneCh,
                   eventVars, clientVars, mine, target, history>>

\* close(ch)
ListHandled ==
    /\ pc.lister = "next"
    /\ listed' = TRUE
    /\ Goto("lister", "idle")
    /\ UNCHANGED <<connVars, mapVars, mgrVars, connSub, connQueue, listSub,
                   clusterSub, clusterQueue, clientVars, mine, target, history>>

\* syncConnections ends at a tick after doneCh was closed; until then it goes round.
SyncEnds ==
    /\ pc.sync = "next" /\ doneCh
    /\ Goto("sync", "off")
    /\ UNCHANGED <<connVars, mapVars, mgrVars, eventVars, clientVars, mine,
                   target, history>>

-----------------------------------------------------------------------------
(* handleConnectionEvent and removeConnection *)

\* Mutant: only a manager that is ready handles the events.
RemoveConnectionReady ==
    /\ pc.worker = "idle"
    /\ \E k \in connQueue :
         /\ connQueue' = connQueue \ {k}
         /\ IF mstate # "ready"
            THEN UNCHANGED <<uuidToConn, addrToConn, pc>>
            ELSE LET A == {a \in Addrs : addrToConn[a] = k} IN
                   /\ addrToConn' = [a \in Addrs |-> IF a \in A THEN None ELSE addrToConn[a]]
                   /\ uuidToConn' = IF A = {} THEN uuidToConn
                                              ELSE [uuidToConn EXCEPT ![peer[k]] = None]
                   /\ Goto("worker", IF \A m \in Members : uuidToConn'[m] = None
                                     THEN "pause" ELSE "idle")
    /\ UNCHANGED <<connVars, candidates, mgrVars, otherEvents, clientVars, mine,
                   target, history>>

\* RemoveConnection looks for the connection among the addresses.
RemoveConnection ==
    /\ pc.worker = "idle"
    /\ \E k \in connQueue :
         /\ connQueue' = connQueue \ {k}
         /\ IF mstate = "stopped"
            THEN UNCHANGED <<uuidToConn, addrToConn, pc>>
            ELSE LET A == {a \in Addrs : addrToConn[a] = k} IN
                   /\ addrToConn' = [a \in Addrs |-> IF a \in A THEN None ELSE addrToConn[a]]
                   /\ uuidToConn' = IF A = {} THEN uuidToConn
                                              ELSE [uuidToConn EXCEPT ![peer[k]] = None]
                   /\ Goto("worker", IF \A m \in Members : uuidToConn'[m] = None
                                     THEN "pause" ELSE "idle")
    /\ UNCHANGED <<connVars, candidates, mgrVars, otherEvents, clientVars, mine,
                   target, history>>

\* invocation.Service.Pause; on a service that does not run it never frees the mutex.
Pause(p) ==
    /\ ~leaked
    /\ paused' = IF running THEN p ELSE paused
    /\ leaked' = ~running

PauseInvocations ==
    /\ pc.worker = "pause"
    /\ Pause(TRUE)
    /\ Goto("worker", "publish")
    /\ UNCHANGED <<connVars, mapVars, mgrVars, eventVars, cstate, running,
                   mine, target, history>>

\* Publish of the disconnection.  More than MaxDisconnects of them are alike.
PublishDisconnected ==
    /\ pc.worker = "publish"
    /\ clusterQueue' = IF clusterSub /\ clusterQueue < MaxDisconnects
                       THEN clusterQueue + 1 ELSE clusterQueue
    /\ unheard' = (unheard \/ ~clusterSub)
    /\ Goto("worker", "idle")
    /\ UNCHANGED <<connVars, mapVars, mgrVars, connSub, connQueue, listSub,
                   listed, clusterSub, clientVars, mine, target, torn, excused>>

-----------------------------------------------------------------------------
(* ConnectionManager.Start *)

\* reset makes a new doneCh and forgets the ID of the cluster, ...
Reset ==
    /\ pc.boot = "reset"
    /\ doneCh' = FALSE
    /\ clusterID' = None
    /\ Goto("boot", "resetMap")
    /\ unheard' = FALSE
    /\ UNCHANGED <<connVars, mapVars, mstate, members, eventVars,
                   clientVars, mine, target, torn, excused>>

\* ... then the connections.
ResetMap ==
    /\ pc.boot = "resetMap"
    /\ uuidToConn' = [m \in Members |-> None]
    /\ addrToConn' = [a \in Addrs |-> None]
    /\ candidates' = {}
    /\ torn' = (pc.sync = "add")
    /\ excused' = excused \cup Opened(Mapped)
    /\ Goto("boot", "sub")
    /\ UNCHANGED <<connVars, mgrVars, eventVars, clientVars, mine, target, unheard>>

\* start
Subscribe ==
    /\ pc.boot = "sub"
    /\ mstate' = "starting"
    /\ connSub' = TRUE /\ listSub' = TRUE /\ listed' = FALSE
    /\ Goto("boot", "try")
    /\ UNCHANGED <<connVars, mapVars, clusterID, doneCh, members,
                   connQueue, clusterSub, clusterQueue, clientVars, mine, target, history>>

\* tryConnectCluster: an address of one of the candidates, ...
DialSeed ==
    /\ pc.boot = "try" /\ cstate # "stopped"
    /\ \E a \in Seeds : Dial("boot", a)
    /\ UNCHANGED <<mapVars, mgrVars, eventVars, clientVars, target,
                   history>>

\* Mutant: a reboot that fails is not tried again.
StartFailsForGood ==
    /\ pc.boot \in {"try", "wait", "finish"}
    /\ IF cstate = "starting"
       THEN running' = FALSE /\ Goto("boot", "failed")
       ELSE Goto("boot", "run") /\ UNCHANGED running
    /\ UNCHANGED <<connVars, mapVars, mgrVars, eventVars, cstate, paused, leaked,
                   mine, target, history>>

\* ... or all have been tried, or the client is shut down, or the member list does not
\* come: Client.Start gives up, handleClusterEvent goes round once more.
StartFails ==
    /\ pc.boot \in {"try", "wait", "finish"}
    /\ IF cstate = "starting"
       THEN running' = FALSE /\ Goto("boot", "failed")
       ELSE Goto("boot", IF cstate = "ready" THEN "stop" ELSE "run") /\ UNCHANGED running
    /\ UNCHANGED <<connVars, mapVars, mgrVars, eventVars, cstate, paused, leaked,
                   mine, target, history>>

\* The member list was handled: the sync goroutine starts.  One that is still there
\* reads the new doneCh and lives on; it stands for both.
ListReceived ==
    /\ pc.boot = "wait" /\ listed
    /\ pc' = [pc EXCEPT !.boot = "finish", !.sync = IF @ = "off" THEN "next" ELSE @]
    /\ UNCHANGED <<connVars, mapVars, mgrVars, eventVars, clientVars, mine,
                   target, history>>

\* Mutant: the invocations stay paused.
StartedPaused ==
    /\ pc.boot = "finish"
    /\ mstate' = "ready"
    /\ Goto("boot", IF cstate = "starting" THEN "ready" ELSE "run")
    /\ UNCHANGED <<connVars, mapVars, clusterID, doneCh, members,
                   eventVars, clientVars, mine, target, history>>

\* The end of start.
Started ==
    /\ pc.boot = "finish"
    /\ Pause(FALSE)
    /\ mstate' = "ready"
    /\ Goto("boot", IF cstate = "starting" THEN "ready" ELSE "run")
    /\ UNCHANGED <<connVars, mapVars, clusterID, doneCh, members,
                   eventVars, cstate, running, mine, target, history>>

\* The end of Client.Start.
ClientReady ==
    /\ pc.boot = "ready"
    /\ clusterSub' = TRUE
    /\ cstate' = "ready"
    /\ Goto("boot", "run")
    /\ UNCHANGED <<connVars, mapVars, mgrVars, connSub, connQueue, listSub,
                   listed, clusterQueue, running, paused, leaked, mine, target, history>>

-----------------------------------------------------------------------------
(* handleClusterEvent, ConnectionManager.Stop and Client.Shutdown *)

\* Mutant: an event that is not there is handled.
HandleNothing ==
    /\ pc.boot = "run"
    /\ clusterQueue' = clusterQueue - 1
    /\ Goto("boot", IF cstate = "ready" THEN "stop" ELSE "run")
    /\ UNCHANGED <<connVars, mapVars, mgrVars, connSub, connQueue, listSub,
                   listed, clusterSub, clientVars, mine, target, history>>

HandleDisconnected ==
    /\ pc.boot = "run" /\ clusterQueue > 0
    /\ clusterQueue' = clusterQueue - 1
    /\ Goto("boot", IF cstate = "ready" THEN "stop" ELSE "run")
    /\ UNCHANGED <<connVars, mapVars, mgrVars, connSub, connQueue, listSub,
                   listed, clusterSub, clientVars, mine, target, history>>

\* Stop unsubscribes from connection events, which waits for the handler, ...
Unsubscribe(t) ==
    /\ pc[t] = "stop"
    /\ connSub' = FALSE
    /\ Goto(t, "drain")
    /\ UNCHANGED <<connVars, mapVars, mgrVars, connQueue, listSub, listed, clusterSub,
                   clusterQueue, clientVars, mine, target, history>>

\* ... then from member lists, ...
UnsubscribeMembers(t) ==
    /\ pc[t] = "drain"
    /\ connQueue = {} /\ pc.worker = "idle"
    /\ listSub' = FALSE
    /\ Goto(t, "unlist")
    /\ UNCHANGED <<connVars, mapVars, mgrVars, connSub, connQueue, listed, clusterSub,
                   clusterQueue, clientVars, mine, target, history>>

\* ... and closes the connections of a manager that is ready.
CloseAll(t) ==
    /\ pc[t] = "unlist" /\ pc.lister = "idle"
    /\ IF mstate = "ready"
       THEN mstate' = "stopped" /\ doneCh' = TRUE /\ Close(Mapped)
       ELSE UNCHANGED <<mstate, doneCh, connVars, connQueue, excused>>
    /\ Goto(t, IF t = "boot" THEN "reset" ELSE "last")
    /\ UNCHANGED <<mapVars, clusterID, members, otherEvents, clientVars,
                   mine, target, unheard, torn>>

Shutdown ==
    /\ pc.closer = "idle" /\ Made <= MaxShutdown
    /\ cstate = "ready"
    /\ cstate' = "stopping"
    /\ Goto("closer", "invocations")
    /\ UNCHANGED <<connVars, mapVars, mgrVars, eventVars, running, paused, leaked,
                   mine, target, history>>

\* invocation.Service.Stop
StopInvocations ==
    /\ pc.closer = "invocations"
    /\ running' = FALSE
    /\ Goto("closer", "stop")
    /\ UNCHANGED <<connVars, mapVars, mgrVars, eventVars, cstate, paused, leaked,
                   mine, target, history>>

\* DispatchService.Stop waits for the handlers that run.
ShutDown ==
    \/ /\ pc.closer = "last" /\ cstate = "stopping"
       /\ cstate' = "stopped"
       /\ UNCHANGED <<connVars, mapVars, mgrVars, eventVars, running, paused, leaked,
                      procVars, history>>
    \/ /\ pc.closer = "last" /\ cstate = "stopped"
       /\ pc.boot = "run" /\ clusterQueue = 0 /\ pc.worker = "idle"
       /\ Goto("closer", "done")
       /\ UNCHANGED <<connVars, mapVars, mgrVars, eventVars, clientVars, mine,
                      target, history>>

-----------------------------------------------------------------------------
Connect(t) ==
    NotAuthenticated(t) \/ CheckCluster(t) \/ AddConnection(t)

ConnectMembers(t) ==
    TryConnectMember(t) \/ ConnectMember(t) \/ MemberSkipped(t)

Boot ==
    \/ Reset \/ ResetMap \/ Subscribe \/ DialSeed \/ StartFails
    \/ ListReceived \/ Started \/ ClientReady \/ HandleDisconnected

Next ==
    \/ \E k \in Conns : ConnectionFails(k) \/ FailurePublished(k) \/ MemberListArrives(k)
    \/ \E t \in Connectors : Connect(t)
    \/ \E t \in {"lister", "sync"} : ConnectMembers(t)
    \/ ListHandled \/ SyncEnds
    \/ RemoveConnection \/ PauseInvocations \/ PublishDisconnected
    \/ Boot
    \/ \E t \in {"boot", "closer"} : Unsubscribe(t) \/ UnsubscribeMembers(t) \/ CloseAll(t)
    \/ Shutdown \/ StopInvocations \/ ShutDown

Spec == Init /\ [][Next]_vars

-----------------------------------------------------------------------------
(* Properties *)

\* A disconnection is on its way to the handler that reboots the client.
Noticed == clusterQueue > 0 \/ pc.worker \in {"pause", "publish"}

\* The client is ready and does not reboot.
Up == cstate = "ready" /\ pc.boot = "run"

\* A client that is up has its invocations paused only while a disconnection waits
\* to be handled, which reboots it and ends the pause: removeConnection, start and
\* handleClusterEvent never leave it paused for good.  Only a disconnection published
\* before Client.Start has subscribed is not heard.
PausedIsNoticed == paused /\ Up => Noticed \/ unheard

\* A client that is up and has no connection left is about to reboot, whichever way
\* it lost the last one: while it started, while it rebooted, or afterwards.
EmptyIsNoticed == Mapped = {} /\ Up => Noticed \/ unheard

\* All connections in use are to the cluster whose ID the client has, unless reset
\* met syncConnections between its check of the ID and GetOrAddConnection.
OneCluster ==
    ~torn /\ pc.boot # "resetMap" =>
        \A k \in Mapped : cid[k] = clusterID

\* A closed connection stays in the map only until its event is handled, or the
\* manager stops, except one that was closed before it was added, that another one
\* displaced at its address, or whose event nobody was subscribed to.
DeadIsNoticed ==
    \A k \in Mapped : status[k] = "closed" =>
        k \in closing \cup connQueue \cup excused \/ mstate = "stopped"

\* An open connection is in the map or is being made: no socket leaks, except those
\* that reset drops without closing them.
OpenIsOwned ==
    \A k \in Conns : status[k] = "open" =>
        k \in Mapped \cup excused \/ \E t \in Connectors : mine[t] = k
=============================================================================
