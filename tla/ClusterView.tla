----------------------------- MODULE ClusterView -----------------------------
(***************************************************************************)
(* How the client follows its cluster: the view listener                   *)
(* (view_listener_service.go) is registered on one connection at a time,   *)
(* the events it brings update the member list (cluster_service.go) and    *)
(* the partition table (partition_service.go).  View events have no        *)
(* partition, so the stripe executor runs them on random workers: two of   *)
(* them, of one connection or of two, run in any order.                    *)
(*                                                                         *)
(* Every UUID has its address, version and kind; a partition table is      *)
(* represented by the owner of one partition.                              *)
(***************************************************************************)
EXTENDS Integers, Sequences, FiniteSets, SequencesExt

CONSTANTS
    Uuids,        \* members
    NoUuid,       \* no owner
    AddrOf,       \* address of a member
    Translate,    \* the public address of an address
    VersionOf,    \* major and minor version of a member, as one number
    LiteMembers,  \* members without data
    Routes,       \* sequences of clusters, one per connection that is ever tried
    Lists,        \* cluster -> the member lists it goes through
    Owners,       \* cluster -> the partition tables it goes through
    Counts        \* cluster -> partition count

Clusters == DOMAIN Lists
Conns    == UNION {DOMAIN r : r \in Routes}

\* A member has a version; the members of one list run at different addresses.
ASSUME ViewAssumption ==
    /\ NoUuid \notin Uuids /\ VersionOf \in [Uuids -> Nat \ {0}]
    /\ Routes \subseteq Seq(Clusters)
    /\ \A k \in Clusters :
        /\ Lists[k] \in Seq(Seq(Uuids)) \ {<<>>} /\ Owners[k] \in Seq(Uuids) \ {<<>>}
        /\ \A v \in DOMAIN Lists[k] : IsInjective([i \in DOMAIN Lists[k][v] |-> Translate[AddrOf[Lists[k][v][i]]]])

VARIABLES
    clusterOf,                  \* cluster of each connection, in the order they are tried
    listVersion, ownerVersion,  \* of each cluster: how far it got
    status,                     \* of a connection
    inbox,                      \* of the view listener: events of connections
    viewConn,                   \* its connID
    registering,                \* the connection it waits for, or 0
    watching,                   \* connections on which members send views
    tasks,                      \* view events in the stripes
    version, members, addrToMemberUUID, orderedMembers, majorityMajorMinor,
    partitions, partitionStateVersion, connectionID, partitionCount,
    publishing,                 \* what handlers have yet to publish, in order
    heard,                      \* what a membership listener takes for the members
    anomalies                   \* what has happened that the code does not guard against

clusterVars   == <<clusterOf, listVersion, ownerVersion>>
connVars      == <<status, inbox, partitionCount>>
listenerVars  == <<viewConn, registering, watching>>
memberVars    == <<version, members, addrToMemberUUID, orderedMembers, majorityMajorMinor>>
partitionVars == <<partitions, partitionStateVersion, connectionID>>
eventVars     == <<publishing, heard>>
viewsVars     == <<clusterVars, connVars, listenerVars, tasks, memberVars, partitionVars, eventVars, anomalies>>

ListEvent(c, v)  == [kind |-> "members", conn |-> c, version |-> v]
OwnerEvent(c, v) == [kind |-> "partitions", conn |-> c, version |-> v]

ListAt(c, v)  == Lists[clusterOf[c]][v]
OwnerAt(c, v) == Owners[clusterOf[c]][v]

ViewTypeOK ==
    /\ clusterOf \in Routes /\ listVersion \in [Clusters -> Nat] /\ ownerVersion \in [Clusters -> Nat]
    /\ status \in [Conns -> {"new", "open", "closed"}]
    /\ inbox \in Seq([state : {"opened", "closed"}, conn : Conns])
    /\ viewConn \in Conns \union {0} /\ registering \in Conns \union {0}
    /\ watching \subseteq Conns
    /\ tasks \subseteq [kind : {"members", "partitions"}, conn : Conns, version : Nat]
    /\ version \in Nat \union {-1} /\ members \subseteq Uuids
    /\ \A a \in DOMAIN addrToMemberUUID : addrToMemberUUID[a] \in Uuids
    /\ orderedMembers \in Seq(Uuids)
    /\ partitions \in Uuids \union {NoUuid} /\ connectionID \in Conns \union {0}
    /\ heard \subseteq Uuids

ViewInit ==
    /\ clusterOf \in Routes
    /\ listVersion = [k \in Clusters |-> 1] /\ ownerVersion = [k \in Clusters |-> 1]
    /\ status = [c \in Conns |-> "new"]
    /\ inbox = <<>>
    /\ viewConn = 0 /\ registering = 0 /\ watching = {}
    /\ tasks = {}
    /\ version = -1 /\ members = {} /\ addrToMemberUUID = <<>> /\ orderedMembers = <<>>
    /\ majorityMajorMinor = 0
    /\ partitions = NoUuid /\ partitionStateVersion = -1 /\ connectionID = 0 /\ partitionCount = 0
    /\ publishing = <<>> /\ heard = {} /\ anomalies = {}

---------------------------------------------------------------------------
(***************************************************************************)
(* The clusters (external): their members and their partitions change, and *)
(* every connection that watches is told.                                  *)
(***************************************************************************)
MembersChange(k) ==
    /\ listVersion[k] < Len(Lists[k])
    /\ listVersion' = [listVersion EXCEPT ![k] = @ + 1]
    /\ tasks' = tasks \union {ListEvent(c, listVersion[k] + 1) : c \in {d \in watching : clusterOf[d] = k}}
    /\ UNCHANGED <<clusterOf, ownerVersion, connVars, listenerVars, memberVars, partitionVars, eventVars, anomalies>>

PartitionsChange(k) ==
    /\ ownerVersion[k] < Len(Owners[k])
    /\ ownerVersion' = [ownerVersion EXCEPT ![k] = @ + 1]
    /\ tasks' = tasks \union {OwnerEvent(c, ownerVersion[k] + 1) : c \in {d \in watching : clusterOf[d] = k}}
    /\ UNCHANGED <<clusterOf, listVersion, connVars, listenerVars, memberVars, partitionVars, eventVars, anomalies>>

---------------------------------------------------------------------------
(***************************************************************************)
(* Connections.  The client looks for a cluster when it has no connection: *)
(* the member list is emptied, nothing else.                               *)
(***************************************************************************)
RandomConnections == {c \in Conns : status[c] = "open"}

IsNext(c) == c \in DOMAIN clusterOf /\ status[c] = "new" /\ \A d \in 1..(c - 1) : status[d] # "new"

RefreshedSeedAddrs ==
    /\ RandomConnections = {} /\ \E c \in DOMAIN clusterOf : status[c] = "new"
    /\ version # -1
    /\ version' = -1 /\ members' = {} /\ addrToMemberUUID' = <<>>
    /\ anomalies' = anomalies \union (IF heard = {} /\ publishing = <<>> THEN {} ELSE {"silent"})
    /\ UNCHANGED <<clusterVars, connVars, listenerVars, tasks, orderedMembers, majorityMajorMinor,
                   partitionVars, eventVars>>

checkAndSetPartitionCount(c) ==
    /\ partitionCount \in {0, Counts[clusterOf[c]]}
    /\ partitionCount' = Counts[clusterOf[c]]

\* Connections of one time belong to one cluster.
Connect(c) ==
    /\ IsNext(c) /\ (RandomConnections = {} => version = -1)
    /\ \A d \in RandomConnections : clusterOf[d] = clusterOf[c]
    /\ checkAndSetPartitionCount(c)
    /\ status' = [status EXCEPT ![c] = "open"]
    /\ inbox' = Append(inbox, [state |-> "opened", conn |-> c])
    /\ UNCHANGED <<clusterVars, listenerVars, tasks, memberVars, partitionVars, eventVars, anomalies>>

\* Another partition count: the connection is refused.
Refuse(c) ==
    /\ IsNext(c) /\ partitionCount \notin {0, Counts[clusterOf[c]]}
    /\ status' = [status EXCEPT ![c] = "closed"]
    /\ UNCHANGED <<clusterVars, inbox, partitionCount, listenerVars, tasks, memberVars, partitionVars, eventVars,
                   anomalies>>

\* Events that were dispatched to a stripe are handled nevertheless.
Disconnect(c) ==
    /\ status[c] = "open"
    /\ status' = [status EXCEPT ![c] = "closed"]
    /\ inbox' = Append(inbox, [state |-> "closed", conn |-> c])
    /\ watching' = watching \ {c}
    /\ UNCHANGED <<clusterVars, partitionCount, viewConn, registering, tasks, memberVars, partitionVars, eventVars,
                   anomalies>>

---------------------------------------------------------------------------
(***************************************************************************)
(* The view listener service                                               *)
(***************************************************************************)
tryRegister(c) ==
    IF viewConn = 0 THEN viewConn' = c /\ registering' = c ELSE UNCHANGED <<viewConn, registering>>

\* a mutant that waits for the next opened connection
tryReregisterToNoConnection(old) ==
    IF viewConn # old THEN UNCHANGED <<viewConn, registering>> ELSE viewConn' = 0 /\ registering' = 0

tryReregisterToRandomConnection(old) ==
    CASE viewConn # old         -> UNCHANGED <<viewConn, registering>>
      [] viewConn = old /\ RandomConnections = {} -> viewConn' = 0 /\ registering' = 0
      [] OTHER -> \E c \in RandomConnections : viewConn' = c /\ registering' = c

handleConnectionEvent ==
    /\ registering = 0 /\ inbox # <<>>
    /\ LET e == Head(inbox)
       IN  IF e.state = "opened" THEN tryRegister(e.conn) ELSE tryReregisterToRandomConnection(e.conn)
    /\ inbox' = Tail(inbox)
    /\ UNCHANGED <<clusterVars, status, partitionCount, watching, tasks, memberVars, partitionVars, eventVars,
                   anomalies>>

\* sendMemberListViewRequest is answered; the member sends what it has.
RegistrationSucceeds ==
    /\ registering # 0 /\ status[registering] = "open"
    /\ watching' = watching \union {registering}
    /\ LET k == clusterOf[registering]
       IN  tasks' = tasks \union {ListEvent(registering, listVersion[k]), OwnerEvent(registering, ownerVersion[k])}
    /\ registering' = 0
    /\ UNCHANGED <<clusterVars, connVars, viewConn, memberVars, partitionVars, eventVars, anomalies>>

RegistrationFails ==
    /\ registering # 0 /\ status[registering] = "closed"
    /\ tryReregisterToRandomConnection(registering)
    /\ UNCHANGED <<clusterVars, connVars, watching, tasks, memberVars, partitionVars, eventVars, anomalies>>

---------------------------------------------------------------------------
(***************************************************************************)
(* The member list                                                         *)
(***************************************************************************)
TranslateMember(u) == Translate[AddrOf[u]]

\* addMember: the member at the same address is replaced
addMember(mm, u) ==
    LET addr == TranslateMember(u)
        old  == IF addr \in DOMAIN mm.addrs THEN {mm.addrs[addr]} ELSE {}
    IN  IF u \in mm.members THEN mm
        ELSE [members |-> (mm.members \ old) \union {u},
              addrs   |-> [a \in DOMAIN mm.addrs \union {addr} |-> IF a = addr THEN u ELSE mm.addrs[a]],
              added   |-> mm.added \union {u}]

\* removeMember: by the address that was not translated
removeMember(mm, gone) ==
    [members |-> mm.members \ gone,
     addrs   |-> [a \in DOMAIN mm.addrs \ {AddrOf[u] : u \in gone} |-> mm.addrs[a]],
     added   |-> mm.added]

\* LargerGroupMajorMinorVersion: the loop over the members
CountVersion(acc, u) ==
    LET v == VersionOf[u]
    IN  CASE u \in LiteMembers        -> acc
          [] u \notin LiteMembers /\ v \in DOMAIN acc.count -> [acc EXCEPT !.count[v] = @ + 1]
          [] u \notin LiteMembers /\ v \notin DOMAIN acc.count /\ Cardinality(DOMAIN acc.count) < 2 ->
                [acc EXCEPT !.count = [w \in DOMAIN @ \union {v} |-> IF w = v THEN 1 ELSE @[w]]]
          [] OTHER -> [acc EXCEPT !.failed = TRUE]

\* a mutant that prefers the older version
LargerGroupOlder(list) ==
    LET acc == FoldLeft(CountVersion, [count |-> <<>>, failed |-> FALSE], list)
        Better(v, w) == acc.count[v] > acc.count[w] \/ (acc.count[v] = acc.count[w] /\ v <= w)
    IN  IF acc.failed \/ DOMAIN acc.count = {} THEN 0
        ELSE CHOOSE v \in DOMAIN acc.count : \A w \in DOMAIN acc.count : Better(v, w)

LargerGroupMajorMinorVersion(list) ==
    LET acc == FoldLeft(CountVersion, [count |-> <<>>, failed |-> FALSE], list)
        Better(v, w) == acc.count[v] > acc.count[w] \/ (acc.count[v] = acc.count[w] /\ v >= w)
    IN  IF acc.failed \/ DOMAIN acc.count = {} THEN 0
        ELSE CHOOSE v \in DOMAIN acc.count : \A w \in DOMAIN acc.count : Better(v, w)

\* a mutant that lets an older list in
isNewerOrOld(v) == v >= version - 1

isNewer(v) == v > version

\* handleMembersUpdated: under the lock
Update(e) ==
    /\ e \in tasks /\ e.kind = "members"
    /\ tasks' = tasks \ {e}
    /\ LET list    == ListAt(e.conn, e.version)
           before  == [members |-> members, addrs |-> addrToMemberUUID, added |-> {}]
           mm      == FoldLeft(addMember, before, list)
           removed == mm.members \ ToSet(list)
           after   == removeMember(mm, removed)
       IN  IF isNewer(e.version)
           THEN /\ version' = e.version
                /\ orderedMembers' = list
                /\ members' = after.members /\ addrToMemberUUID' = after.addrs
                /\ majorityMajorMinor' = IF mm.added # {} \/ removed # {}
                                         THEN LargerGroupMajorMinorVersion(list) ELSE majorityMajorMinor
                /\ publishing' = Append(publishing, [added |-> mm.added, removed |-> removed])
                /\ anomalies' = anomalies
                     \union (IF members \ mm.members = {} THEN {} ELSE {"silent"})
                     \union (IF status[e.conn] = "closed" THEN {"late"} ELSE {})
           ELSE UNCHANGED <<memberVars, publishing, anomalies>>
    /\ UNCHANGED <<clusterVars, connVars, listenerVars, partitionVars, heard>>

\* ... and after it: MembersAdded, then MembersRemoved.  Handlers of two
\* events may publish in either order.
PublishChange(k) ==
    /\ k \in DOMAIN publishing
    /\ heard' = (heard \union publishing[k].added) \ publishing[k].removed
    /\ publishing' = RemoveAt(publishing, k)
    /\ anomalies' = IF k = 1 THEN anomalies ELSE anomalies \union {"reordered"}
    /\ UNCHANGED <<clusterVars, connVars, listenerVars, tasks, memberVars, partitionVars>>

SQLMembers == {u \in members \ LiteMembers : majorityMajorMinor # 0 /\ VersionOf[u] = majorityMajorMinor}

---------------------------------------------------------------------------
(***************************************************************************)
(* The partition table                                                     *)
(***************************************************************************)
\* a mutant that does not compare versions
cantApplyNever(e) == FALSE

cantApply(e) == connectionID = e.conn /\ e.version <= partitionStateVersion

UpdatePartitions(e) ==
    /\ e \in tasks /\ e.kind = "partitions"
    /\ tasks' = tasks \ {e}
    /\ LET owner == OwnerAt(e.conn, e.version)
       IN  IF cantApply(e) THEN UNCHANGED <<partitionVars, anomalies>>
           ELSE IF partitions = owner
           THEN /\ anomalies' = anomalies \union {"unrecorded"}
                /\ UNCHANGED partitionVars
           ELSE /\ partitions' = owner
                /\ partitionStateVersion' = e.version
                /\ connectionID' = e.conn
                /\ anomalies' = anomalies \union (IF e.conn # viewConn THEN {"late"} ELSE {})
    /\ UNCHANGED <<clusterVars, connVars, listenerVars, memberVars, eventVars>>

---------------------------------------------------------------------------
ViewNext ==
    \/ \E k \in ToSet(clusterOf) : MembersChange(k) \/ PartitionsChange(k)
    \/ RefreshedSeedAddrs
    \/ \E c \in Conns : Connect(c) \/ Refuse(c) \/ Disconnect(c)
    \/ handleConnectionEvent \/ RegistrationSucceeds \/ RegistrationFails
    \/ \E e \in tasks : Update(e) \/ UpdatePartitions(e)
    \/ \E k \in DOMAIN publishing : PublishChange(k)

ViewSpec == ViewInit /\ [][ViewNext]_viewsVars

---------------------------------------------------------------------------
(***************************************************************************)
(* The member list implements MemberView: whatever addMember and           *)
(* removeMember do to the two maps, the result is the list of the event as *)
(* a whole, and a list is only replaced by a later one.                    *)
(***************************************************************************)
Published == UNION {{[version |-> v, members |-> ToSet(Lists[k][v])] : v \in 1..listVersion[k]}
                       : k \in Clusters}

View == INSTANCE MemberView WITH published <- Published
ImplementsMemberView == View!Spec

(***************************************************************************)
(* Whenever the listener has nothing to do and a connection is open, views *)
(* are sent on a connection that is open: no order of openings, closings   *)
(* and failing registrations leaves the client blind.                      *)
(***************************************************************************)
SomeoneWatches ==
    (inbox = <<>> /\ registering = 0 /\ RandomConnections # {}) =>
        viewConn \in watching /\ status[viewConn] = "open"

Quiet == inbox = <<>> /\ registering = 0 /\ tasks = {} /\ publishing = <<>>

(***************************************************************************)
(* When everything is handled, a connected client knows the members and    *)
(* the owners its cluster has, and its membership listeners know the       *)
(* members.  The exceptions are named: an event of a connection that is    *)
(* gone, handled late (the members of another cluster may then hide the    *)
(* new ones, and the partition table goes back); a table that returned to  *)
(* an earlier value without its version being kept, before an event that   *)
(* was overtaken; members that are dropped without an event; publications  *)
(* that overtook each other.                                               *)
(***************************************************************************)
CaughtUp ==
    (Quiet /\ viewConn # 0 /\ status[viewConn] = "open") =>
        LET k == clusterOf[viewConn]
        IN  /\ "late" \notin anomalies => members = ToSet(Lists[k][listVersion[k]])
            /\ {"late", "unrecorded"} \intersect anomalies = {} => partitions = Owners[k][ownerVersion[k]]
            /\ {"silent", "reordered"} \intersect anomalies = {} => heard = members

(***************************************************************************)
(* SQL statements go to a data member of the larger group of versions, the *)
(* newer one when both are as large, and to no particular member when      *)
(* there are more than two versions or no data member, also after members  *)
(* were replaced or the list was emptied.                                  *)
(***************************************************************************)
SQLMemberIsOfLargerGroup ==
    LET data == members \ LiteMembers
        Group(v) == {u \in data : VersionOf[u] = v}
        versions == {VersionOf[u] : u \in data}
        Larger(v) == \A w \in versions : \/ Cardinality(Group(w)) < Cardinality(Group(v))
                                         \/ Cardinality(Group(w)) = Cardinality(Group(v)) /\ w <= v
    IN  SQLMembers = IF Cardinality(versions) > 2 THEN {} ELSE UNION {Group(v) : v \in {w \in versions : Larger(w)}}
=============================================================================
