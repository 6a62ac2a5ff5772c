--------------------------- MODULE ListenerBinder ----------------------------
(***************************************************************************)
(* internal/cluster/connection_listener_binder.go: every listener of the   *)
(* user is registered on every connection.  The binder reacts to the       *)
(* opening and closing of connections through its own subscription of the  *)
(* event dispatcher, while users add and remove listeners; regsMu is held  *)
(* from the beginning to the end of every operation, the waiting for the   *)
(* members included.                                                       *)
(*                                                                         *)
(* What a user sees of a registration is its handler in the invocation     *)
(* service: as long as it lives and its connection is open, the events of  *)
(* the member reach the user.  correlationIDs tells how many of them the   *)
(* binder can find again.                                                  *)
(***************************************************************************)
EXTENDS Integers, Sequences, FiniteSets

CONSTANTS
    Ids,       \* listeners, one UUID per call of Add
    Members,   \* UUIDs of members
    MemberOf,  \* the member of each connection that is ever opened, in order
    MaxFaults  \* how often a connection or a request fails

ASSUME BinderAssumption == MemberOf \in Seq(Members) /\ MaxFaults \in Nat

Conns == 1..Len(MemberOf)
member == MemberOf
Opened(c) == [state |-> "opened", conn |-> c]
Closed(c) == [state |-> "closed", conn |-> c]
Events == [state : {"opened", "closed"}, conn : Conns]

VARIABLES
    smart,          \* the mode of the client
    status,         \* of a connection: "new", "open", "closed"
    uuidToConn,     \* the connection map: a member's connection, or 0
    toRemove,       \* closed connections the connection manager has yet to remove
    closing,        \* closed connections whose event is not in the inbox yet
    pubs,           \* events a connecting goroutine has yet to publish
    inbox,          \* the binder's subscription
    connectionCount,
    regs, subscriptionToMembers, memberSubscriptions,
    correlationIDs, \* how many of a listener's are known, by connection
    handlers,       \* how many of a listener's are alive, by connection
    holder,         \* who holds regsMu
    call,           \* what the user knows of a listener
    failed,         \* listeners whose Add failed
    skipped,        \* <<listener, connection>> the binder did not register, by its own rules
    faults,         \* failures so far
    forgotten       \* <<listener, connection>> whose subscription was forgotten while it lived

connVars    == <<status, uuidToConn, toRemove, closing, pubs>>
tableVars   == <<regs, subscriptionToMembers, memberSubscriptions>>
handlerVars == <<correlationIDs, handlers>>
userVars    == <<call, failed>>
historyVars == <<skipped, forgotten, faults>>
binderVars  == <<smart, connVars, inbox, connectionCount, tableVars, handlerVars, holder, userVars, historyVars>>

Free == [op |-> "none", id |-> {}, conns |-> {}, sent |-> {}, answered |-> {}]

BinderTypeOK ==
    /\ smart \in BOOLEAN
    /\ status \in [Conns -> {"new", "open", "closed"}]
    /\ uuidToConn \in [Members -> Conns \union {0}]
    /\ toRemove \subseteq Conns /\ closing \subseteq Conns
    /\ pubs \in [Conns -> Seq(Events)]
    /\ inbox \in Seq(Events)
    /\ connectionCount \in Int
    /\ regs \subseteq Ids
    /\ subscriptionToMembers \in [Ids -> SUBSET Members]
    /\ memberSubscriptions \in [Members -> SUBSET Ids]
    /\ correlationIDs \in [Ids -> [Conns -> Nat]]
    /\ handlers \in [Ids -> [Conns -> Nat]]
    /\ failed \subseteq Ids
    /\ holder \in [op : {"none", "add", "remove", "opened"}, id : SUBSET Ids, conns : SUBSET Conns,
                   sent : SUBSET Conns, answered : SUBSET Conns]
    /\ call \in [Ids -> {"new", "adding", "added", "failed", "removing", "removed"}]
    /\ skipped \subseteq Ids \X Conns /\ forgotten \subseteq Ids \X Conns /\ faults \in 0..MaxFaults

BinderInit ==
    /\ smart \in BOOLEAN
    /\ status = [c \in Conns |-> "new"]
    /\ uuidToConn = [m \in Members |-> 0]
    /\ toRemove = {} /\ closing = {}
    /\ pubs = [c \in Conns |-> <<>>]
    /\ inbox = <<>>
    /\ connectionCount = 0
    /\ regs = {}
    /\ subscriptionToMembers = [id \in Ids |-> {}]
    /\ memberSubscriptions = [m \in Members |-> {}]
    /\ correlationIDs = [id \in Ids |-> [c \in Conns |-> 0]]
    /\ handlers = [id \in Ids |-> [c \in Conns |-> 0]]
    /\ failed = {}
    /\ holder = Free
    /\ call = [id \in Ids |-> "new"]
    /\ skipped = {} /\ forgotten = {} /\ faults = 0

Fault == faults < MaxFaults /\ faults' = faults + 1

---------------------------------------------------------------------------
(***************************************************************************)
(* Connections.  A connecting goroutine enters its connection into the     *)
(* map, or closes it as a duplicate and goes on with the old one, and then *)
(* publishes that it is open.  Connections are numbered in the order they  *)
(* are opened.                                                             *)
(***************************************************************************)
GetOrAddConnection(c) ==
    /\ status[c] = "new" /\ \A d \in 1..(c - 1) : status[d] # "new"
    /\ LET old == uuidToConn[member[c]]
       IN  IF old = 0
           THEN /\ status' = [status EXCEPT ![c] = "open"]
                /\ uuidToConn' = [uuidToConn EXCEPT ![member[c]] = c]
                /\ pubs' = [pubs EXCEPT ![c] = <<Opened(c)>>]
           ELSE /\ status' = [status EXCEPT ![c] = "closed"]
                /\ pubs' = [pubs EXCEPT ![c] = <<Closed(c), Opened(old)>>]
                /\ UNCHANGED uuidToConn
    /\ UNCHANGED <<smart, toRemove, closing, inbox, connectionCount, tableVars, handlerVars, holder, userVars,
                   historyVars>>

\* (*DispatchService).Publish, as far as the binder's subscription goes
Publish(c) ==
    /\ pubs[c] # <<>>
    /\ inbox' = Append(inbox, Head(pubs[c]))
    /\ pubs' = [pubs EXCEPT ![c] = Tail(@)]
    /\ UNCHANGED <<smart, status, uuidToConn, toRemove, closing, connectionCount, tableVars, handlerVars, holder,
                   userVars, historyVars>>

\* The connection closes: its invocations, handlers included, are dropped.
Close(c) ==
    /\ status[c] = "open" /\ Fault
    /\ status' = [status EXCEPT ![c] = "closed"]
    /\ toRemove' = toRemove \union {c} /\ closing' = closing \union {c}
    /\ handlers' = [id \in Ids |-> [handlers[id] EXCEPT ![c] = 0]]
    /\ UNCHANGED <<smart, uuidToConn, pubs, inbox, connectionCount, tableVars, correlationIDs, holder, userVars,
                   skipped, forgotten>>

\* Publish visits the subscriptions one after the other, in no fixed order.
PublishClosed(c) ==
    /\ c \in closing
    /\ closing' = closing \ {c} /\ inbox' = Append(inbox, Closed(c))
    /\ UNCHANGED <<smart, status, uuidToConn, toRemove, pubs, connectionCount, tableVars, handlerVars, holder,
                   userVars, historyVars>>

RemoveConnection(c) ==
    /\ c \in toRemove
    /\ toRemove' = toRemove \ {c}
    /\ uuidToConn' = [m \in Members |-> IF uuidToConn[m] = c THEN 0 ELSE uuidToConn[m]]
    /\ UNCHANGED <<smart, status, closing, pubs, inbox, connectionCount, tableVars, handlerVars, holder, userVars,
                   historyVars>>

ActiveConnections == {c \in Conns : status[c] = "open" /\ \E m \in Members : uuidToConn[m] = c}

---------------------------------------------------------------------------
(***************************************************************************)
(* The tables                                                              *)
(***************************************************************************)
\* a mutant
connExistsNever(c, id) == FALSE

connExists(c, id) == member[c] \in subscriptionToMembers[id]

\* a mutant that takes every member for subscribed
addSubscriptionToAllMembers(id, ms) ==
    /\ subscriptionToMembers' = [subscriptionToMembers EXCEPT ![id] = Members]
    /\ memberSubscriptions' = [m \in Members |-> memberSubscriptions[m] \union {id}]

\* addSubscriptionToMember for each member of ms
addSubscriptionToMembers(id, ms) ==
    /\ subscriptionToMembers' = [subscriptionToMembers EXCEPT ![id] = @ \union ms]
    /\ memberSubscriptions' = [m \in Members |-> memberSubscriptions[m] \union IF m \in ms THEN {id} ELSE {}]

\* a mutant that forgets the members' side only
removeOnlyMembersSide(ms) ==
    /\ memberSubscriptions' = [m \in Members |-> IF m \in ms THEN {} ELSE memberSubscriptions[m]]
    /\ UNCHANGED <<subscriptionToMembers, forgotten>>

\* removeMemberSubscriptions for each member of ms: the whole set of every
\* subscription of the member is forgotten
removeMemberSubscriptions(ms) ==
    LET subs == UNION {memberSubscriptions[m] : m \in ms}
    IN  /\ subscriptionToMembers' =
              [id \in Ids |-> IF id \in subs THEN {} ELSE subscriptionToMembers[id]]
        /\ memberSubscriptions' = [m \in Members |-> IF m \in ms THEN {} ELSE memberSubscriptions[m]]
        /\ forgotten' = forgotten \union
              {p \in subs \X Conns : status[p[2]] = "open" /\ member[p[2]] \in subscriptionToMembers[p[1]]}

\* a mutant that forgets the correlation IDs of the other connections
updateCorrelationIDsOverwriting(id, cs) ==
    correlationIDs' = [correlationIDs EXCEPT ![id] = [c \in Conns |-> IF c \in cs THEN 1 ELSE 0]]

\* The correlation IDs of the requests sent to cs.
updateCorrelationIDs(id, cs) ==
    correlationIDs' = [correlationIDs EXCEPT ![id] = [c \in Conns |-> @[c] + IF c \in cs THEN 1 ELSE 0]]

\* The invocation service drops their handlers, as far as they still live.
removeCorrelationIDs(id) ==
    /\ handlers' = [handlers EXCEPT ![id] = [c \in Conns |->
                       IF status[c] = "open" THEN @[c] - correlationIDs[id][c] ELSE 0]]
    /\ correlationIDs' = [correlationIDs EXCEPT ![id] = [c \in Conns |-> 0]]

\* A request that is sent has its handler in the invocation service.
SendAddRequest(id, c) == handlers' = [handlers EXCEPT ![id][c] = @ + 1]

---------------------------------------------------------------------------
(***************************************************************************)
(* Add                                                                     *)
(***************************************************************************)
Add(id) ==
    /\ holder = Free /\ call[id] = "new"
    /\ regs' = regs \union {id}
    /\ holder' = [Free EXCEPT !.op = "add", !.id = {id},
                              !.conns = {c \in ActiveConnections : ~connExists(c, id)}]
    /\ call' = [call EXCEPT ![id] = "adding"]
    /\ UNCHANGED <<smart, connVars, inbox, connectionCount, subscriptionToMembers, memberSubscriptions, handlerVars,
                   failed, historyVars>>

\* sendAddListenerRequests: a request to every connection ...
AddSends(id, c) ==
    /\ holder.op = "add" /\ holder.id = {id}
    /\ c \in holder.conns \ holder.sent /\ status[c] = "open"
    /\ SendAddRequest(id, c)
    /\ holder' = [holder EXCEPT !.sent = @ \union {c}]
    /\ UNCHANGED <<smart, connVars, inbox, connectionCount, tableVars, correlationIDs, userVars, historyVars>>

\* ... and then the answers
AddIsAnswered(id, c) ==
    /\ holder.op = "add" /\ holder.id = {id}
    /\ holder.sent = holder.conns /\ c \in holder.sent \ holder.answered /\ status[c] = "open"
    /\ holder' = [holder EXCEPT !.answered = @ \union {c}]
    /\ UNCHANGED <<smart, connVars, inbox, connectionCount, tableVars, handlerVars, userVars, historyVars>>

AddReturns(id) ==
    /\ holder.op = "add" /\ holder.id = {id} /\ holder.answered = holder.conns
    /\ updateCorrelationIDs(id, holder.conns)
    /\ addSubscriptionToMembers(id, {member[c] : c \in holder.conns})
    /\ holder' = Free
    /\ call' = [call EXCEPT ![id] = "added"]
    /\ UNCHANGED <<smart, connVars, inbox, connectionCount, regs, handlers, failed, historyVars>>

\* A connection that is closed, an error a member answers with (the request
\* to it leaves no handler) or the end of the context: the correlation IDs of
\* the requests that were sent are lost, the registration stays in regs.
AddFails(id, refused) ==
    /\ holder.op = "add" /\ holder.id = {id} /\ holder.answered # holder.conns
    /\ \/ (\E c \in holder.conns : status[c] = "closed") /\ refused = {} /\ UNCHANGED faults
       \/ Fault
    /\ refused \subseteq holder.sent \ holder.answered /\ Cardinality(refused) <= 1
    /\ handlers' = [handlers EXCEPT ![id] = [c \in Conns |->
                       @[c] - IF c \in refused /\ status[c] = "open" THEN 1 ELSE 0]]
    /\ failed' = failed \union {id}
    /\ holder' = Free
    /\ call' = [call EXCEPT ![id] = "failed"]
    /\ UNCHANGED <<smart, connVars, inbox, connectionCount, tableVars, correlationIDs, skipped, forgotten>>

---------------------------------------------------------------------------
(***************************************************************************)
(* Remove: the tables, then the requests, whose result is the user's only. *)
(***************************************************************************)
Remove(id) ==
    /\ holder = Free /\ call[id] \in {"added", "failed"}
    /\ regs' = regs \ {id}
    /\ removeCorrelationIDs(id)
    /\ removeMemberSubscriptions({member[c] : c \in ActiveConnections})
    /\ holder' = [Free EXCEPT !.op = "remove", !.id = {id}]
    /\ call' = [call EXCEPT ![id] = "removing"]
    /\ UNCHANGED <<smart, connVars, inbox, connectionCount, failed, skipped, faults>>

RemoveReturns(id) ==
    /\ holder.op = "remove" /\ holder.id = {id}
    /\ holder' = Free
    /\ call' = [call EXCEPT ![id] = "removed"]
    /\ UNCHANGED <<smart, connVars, inbox, connectionCount, tableVars, handlerVars, failed, historyVars>>

---------------------------------------------------------------------------
(***************************************************************************)
(* The handler of connection events                                        *)
(***************************************************************************)
HeadIs(state) == inbox # <<>> /\ Head(inbox).state = state

\* A client that is not smart drops the event.
OpenedIsDropped ==
    /\ HeadIs("opened") /\ holder.op # "opened"
    /\ ~smart /\ connectionCount + 1 > 0
    /\ connectionCount' = connectionCount + 1
    /\ inbox' = Tail(inbox)
    /\ skipped' = skipped \union {<<id, Head(inbox).conn>> : id \in Ids}
    /\ UNCHANGED <<smart, connVars, tableVars, handlerVars, holder, userVars, forgotten, faults>>

\* Another connection of the member of c has not been reported closed yet.
Replaces(c) ==
    \E d \in Conns \ {c} :
        /\ member[d] = member[c]
        /\ status[d] = "open" \/ d \in closing \/ \E k \in DOMAIN inbox : inbox[k] = Closed(d)

\* The loop over regs begins: holder.id are the listeners it has to register.
handleConnectionOpened ==
    /\ HeadIs("opened") /\ holder = Free
    /\ smart \/ connectionCount + 1 <= 0
    /\ connectionCount' = connectionCount + 1
    /\ LET c    == Head(inbox).conn
           todo == {id \in regs : ~connExists(c, id)}
       IN  /\ holder' = [Free EXCEPT !.op = "opened", !.id = todo, !.conns = {c}]
           /\ skipped' = skipped \union {<<id, c>> : id \in {i \in regs \ todo : Replaces(c)}}
    /\ inbox' = Tail(inbox)
    /\ UNCHANGED <<smart, connVars, tableVars, handlerVars, userVars, forgotten, faults>>

OpenedRegisters(id) ==
    /\ holder.op = "opened" /\ id \in holder.id
    /\ LET c == CHOOSE c \in holder.conns : TRUE
       IN  /\ status[c] = "open"
           /\ SendAddRequest(id, c)
           /\ updateCorrelationIDs(id, {c})
           /\ addSubscriptionToMembers(id, {member[c]})
    /\ holder' = [holder EXCEPT !.id = @ \ {id}]
    /\ UNCHANGED <<smart, connVars, inbox, connectionCount, regs, userVars, historyVars>>

\* The first failure ends the loop.
OpenedFails ==
    /\ holder.op = "opened" /\ holder.id # {}
    /\ IF \E c \in holder.conns : status[c] = "closed" THEN UNCHANGED faults ELSE Fault
    /\ holder' = Free
    /\ skipped' = skipped \union (holder.id \X holder.conns)
    /\ UNCHANGED <<smart, connVars, inbox, connectionCount, tableVars, handlerVars, userVars, forgotten>>

OpenedReturns ==
    /\ holder.op = "opened" /\ holder.id = {}
    /\ holder' = Free
    /\ UNCHANGED <<smart, connVars, inbox, connectionCount, tableVars, handlerVars, userVars, historyVars>>

handleConnectionClosed ==
    /\ HeadIs("closed") /\ holder = Free
    /\ connectionCount' = connectionCount - 1
    /\ removeMemberSubscriptions({member[Head(inbox).conn]})
    /\ inbox' = Tail(inbox)
    /\ UNCHANGED <<smart, connVars, regs, handlerVars, holder, userVars, skipped, faults>>

---------------------------------------------------------------------------
AddStep(id) ==
    \/ \E c \in Conns : AddSends(id, c) \/ AddIsAnswered(id, c)
    \/ AddReturns(id)
    \/ \E refused \in SUBSET Conns : AddFails(id, refused)

HandlerStep ==
    \/ OpenedIsDropped \/ handleConnectionOpened \/ handleConnectionClosed
    \/ (\E id \in Ids : OpenedRegisters(id)) \/ OpenedFails \/ OpenedReturns

BinderNext ==
    \/ \E c \in Conns : GetOrAddConnection(c) \/ Publish(c) \/ Close(c) \/ PublishClosed(c) \/ RemoveConnection(c)
    \/ \E id \in Ids : Add(id) \/ AddStep(id) \/ Remove(id) \/ RemoveReturns(id)
    \/ HandlerStep

BinderSpec == BinderInit /\ [][BinderNext]_binderVars

---------------------------------------------------------------------------
AtRest == holder = Free /\ inbox = <<>> /\ toRemove = {} /\ closing = {} /\ \A c \in Conns : pubs[c] = <<>>

(***************************************************************************)
(* When the binder has caught up, every listener whose Add succeeded has a *)
(* living handler on every connection of the map, however Add and Remove,  *)
(* openings and closings were interleaved.  The exceptions are the ones    *)
(* the code makes by itself: the loop of handleConnectionOpened that ends  *)
(* with the first failure, a client that is not smart, and a connection    *)
(* that was opened while another one of its member was still subscribed.   *)
(***************************************************************************)
EveryConnectionListens ==
    AtRest => \A id \in regs, c \in ActiveConnections :
                 call[id] = "added" => handlers[id][c] > 0 \/ <<id, c>> \in skipped

(***************************************************************************)
(* A listener is registered twice on a connection, so that its user gets   *)
(* every event of the member twice, only after its subscription was        *)
(* forgotten while the connection was open: by a duplicate connection, by  *)
(* another member's closing or by the removal of another listener.         *)
(***************************************************************************)
TwiceOnlyIfForgotten ==
    \A id \in Ids \ failed, c \in Conns : handlers[id][c] > 1 => <<id, c>> \in forgotten

(***************************************************************************)
(* Once Remove has emptied the tables no event reaches the handler: the    *)
(* correlation IDs of all connections, of the ones opened later too, are   *)
(* known.  Only a listener whose Add failed may go on, through requests    *)
(* that were sent before the failure.                                      *)
(***************************************************************************)
RemovedIsSilent ==
    \A id \in Ids, c \in Conns :
        call[id] \in {"removing", "removed"} => handlers[id][c] <= IF id \in failed THEN 1 ELSE 0

(***************************************************************************)
(* What connExists tells is known to the closing of the connection: the    *)
(* members of a subscription all lead back to it, so the Closed event of a *)
(* member always lets the next connection of that member be registered.    *)
(***************************************************************************)
TablesAgree ==
    \A id \in Ids, m \in Members : m \in subscriptionToMembers[id] => id \in memberSubscriptions[m]
=============================================================================
