------------------------ MODULE ListenerBinderProofs ------------------------
(***************************************************************************)
(* Proofs about ListenerBinder, for any listeners, members, connections    *)
(* and failures.                                                           *)
(*                                                                         *)
(* The handlers a listener has on an open connection are accounted for:    *)
(* the binder knows their correlation IDs, except the one of a request     *)
(* that Add is still waiting for, or has given up.  What the tables say of *)
(* a member comes from a connection of it that is open or whose closing    *)
(* the binder has yet to hear of; and a connection that the binder has not *)
(* dealt with has its event still to come.                                 *)
(***************************************************************************)
EXTENDS ListenerBinder, SequenceTheorems, TLAPS

In(e, s) == \E k \in DOMAIN s : s[k] = e

\* Somebody will report that c is open, or has, and the binder has yet to hear of it.
WillOpen(c) == In(Opened(c), inbox) \/ \E d \in Conns : In(Opened(c), pubs[d])
\* The binder has yet to hear that c is closed.
WillClose(c) == c \in closing \/ In(Closed(c), inbox)

\* An open connection is in the map, under its member, and nobody knows of one that is yet to come.
OpenIsMapped ==
    /\ \A c \in Conns : status[c] = "open" => uuidToConn[member[c]] = c
    /\ \A c \in toRemove : status[c] = "closed"
Fresh ==
    \A c \in Conns : status[c] = "new" =>
        pubs[c] = <<>> /\ c \notin holder.sent /\ \A id \in Ids : correlationIDs[id][c] = 0

\* regsMu: what its holder works with, and what users and tables know of a listener.
Locked ==
    /\ holder.op = "none" => holder = Free
    /\ holder.op = "add" => \E id \in Ids : holder.id = {id}
    /\ holder.op = "opened" => holder.id \subseteq regs /\ \E c \in Conns : holder.conns = {c}
    /\ holder.sent \subseteq holder.conns /\ holder.answered \subseteq holder.sent
    /\ \A id \in Ids :
         /\ call[id] = "adding" <=> holder.op = "add" /\ id \in holder.id
         /\ call[id] = "removing" <=> holder.op = "remove" /\ id \in holder.id
         /\ id \in regs <=> call[id] \in {"adding", "added", "failed"}
         /\ id \in failed => call[id] \in {"failed", "removing", "removed"}
         /\ call[id] = "failed" => id \in failed
         /\ call[id] = "new" => subscriptionToMembers[id] = {}

\* A request of Add whose answer is awaited.
Awaited(id, c) == holder.op = "add" /\ id \in holder.id /\ c \in holder.sent

\* The handlers of a listener on a connection.
Accounted ==
    \A id \in Ids, c \in Conns :
        /\ status[c] # "open" => handlers[id][c] = 0
        /\ status[c] = "open" =>
             /\ handlers[id][c] >= correlationIDs[id][c]
             /\ handlers[id][c] <= correlationIDs[id][c] + (IF Awaited(id, c) \/ id \in failed THEN 1 ELSE 0)
             /\ Awaited(id, c) => handlers[id][c] = correlationIDs[id][c] + 1
        /\ call[id] \in {"new", "adding", "removing", "removed"} => correlationIDs[id][c] = 0

\* A listener that is registered on a connection is subscribed to its member, or
\* this was forgotten; the loop of handleConnectionOpened is over those that are not.
Subscribed ==
    \A id \in Ids, c \in Conns :
        /\ status[c] = "open" /\ correlationIDs[id][c] > 0 =>
             <<id, c>> \in forgotten \/ member[c] \in subscriptionToMembers[id]
        /\ holder.op = "opened" /\ id \in holder.id /\ c \in holder.conns =>
             member[c] \notin subscriptionToMembers[id]

\* A subscription is that of a connection whose closing is not dealt with.
Backed ==
    /\ \A id \in regs : \A m \in subscriptionToMembers[id] :
          \E d \in Conns : /\ member[d] = m /\ correlationIDs[id][d] > 0
                           /\ status[d] = "open" \/ WillClose(d)
    /\ holder.op = "add" => \A c \in holder.conns : status[c] = "open" \/ WillClose(c)

\* An open connection has the listeners, or the binder will come to it.
Listening ==
    \A id \in regs, c \in Conns :
        status[c] = "open" =>
          /\ call[id] = "added" => \/ handlers[id][c] > 0 \/ <<id, c>> \in skipped
                                   \/ WillOpen(c)
                                   \/ holder.op = "opened" /\ id \in holder.id /\ c \in holder.conns
          /\ call[id] = "adding" => \/ c \in holder.conns \/ <<id, c>> \in skipped
                                    \/ WillOpen(c)

IndInv ==
    /\ BinderTypeOK /\ OpenIsMapped /\ Fresh /\ Locked /\ Accounted
    /\ TablesAgree /\ TwiceOnlyIfForgotten /\ Subscribed /\ Backed /\ Listening

-----------------------------------------------------------------------------
(* What the operations do, listener by listener and connection by connection *)

Counts == [Ids -> [Conns -> Nat]]

LEMMA MemberTyped == \A c \in Conns : member[c] \in Members /\ c # 0
  <1>1. MemberOf \in Seq(Members)
    BY BinderAssumption
  <1> QED  BY <1>1, ElementOfSeq DEF member, Conns

LEMMA SendEffect ==
    ASSUME handlers \in Counts, NEW id \in Ids, NEW c \in Conns, SendAddRequest(id, c)
    PROVE  /\ handlers' \in Counts
           /\ \A i \in Ids, d \in Conns :
                handlers'[i][d] = handlers[i][d] + (IF i = id /\ d = c THEN 1 ELSE 0)
  BY DEF SendAddRequest, Counts

LEMMA CorrelationEffect ==
    ASSUME correlationIDs \in Counts, NEW id \in Ids, NEW cs \in SUBSET Conns,
           updateCorrelationIDs(id, cs)
    PROVE  /\ correlationIDs' \in Counts
           /\ \A i \in Ids, d \in Conns :
                correlationIDs'[i][d] = correlationIDs[i][d] + (IF i = id /\ d \in cs THEN 1 ELSE 0)
  BY DEF updateCorrelationIDs, Counts

LEMMA RemoveEffect ==
    ASSUME handlers \in Counts, correlationIDs \in Counts, NEW id \in Ids, removeCorrelationIDs(id),
           \A c \in Conns : status[c] = "open" => handlers[id][c] >= correlationIDs[id][c]
    PROVE  /\ handlers' \in Counts /\ correlationIDs' \in Counts
           /\ \A i \in Ids, d \in Conns :
                /\ correlationIDs'[i][d] = IF i = id THEN 0 ELSE correlationIDs[i][d]
                /\ handlers'[i][d] = IF i # id THEN handlers[i][d]
                                     ELSE IF status[d] = "open" THEN handlers[i][d] - correlationIDs[i][d] ELSE 0
  BY DEF removeCorrelationIDs, Counts

LEMMA CloseEffect ==
    ASSUME handlers \in Counts, NEW c \in Conns, Close(c)
    PROVE  /\ handlers' \in Counts
           /\ \A i \in Ids, d \in Conns : handlers'[i][d] = IF d = c THEN 0 ELSE handlers[i][d]
  BY DEF Close, Counts

LEMMA RefusedEffect ==
    ASSUME handlers \in Counts, NEW id \in Ids, NEW refused \in SUBSET Conns, AddFails(id, refused),
           \A c \in refused : status[c] = "open" => handlers[id][c] > 0
    PROVE  /\ handlers' \in Counts
           /\ \A i \in Ids, d \in Conns :
                handlers'[i][d] = handlers[i][d] - (IF i = id /\ d \in refused /\ status[d] = "open" THEN 1 ELSE 0)
  BY DEF AddFails, Counts

LEMMA SubscribeEffect ==
    ASSUME BinderTypeOK, NEW id \in Ids, NEW ms \in SUBSET Members, addSubscriptionToMembers(id, ms)
    PROVE  /\ subscriptionToMembers' \in [Ids -> SUBSET Members]
           /\ memberSubscriptions' \in [Members -> SUBSET Ids]
           /\ \A i \in Ids, m \in Members :
                /\ m \in subscriptionToMembers'[i] <=> m \in subscriptionToMembers[i] \/ (i = id /\ m \in ms)
                /\ i \in memberSubscriptions'[m] <=> i \in memberSubscriptions[m] \/ (i = id /\ m \in ms)
  BY DEF addSubscriptionToMembers, BinderTypeOK

LEMMA UnsubscribeEffect ==
    ASSUME BinderTypeOK, NEW ms \in SUBSET Members, removeMemberSubscriptions(ms)
    PROVE  /\ subscriptionToMembers' \in [Ids -> SUBSET Members]
           /\ memberSubscriptions' \in [Members -> SUBSET Ids]
           /\ forgotten' \subseteq Ids \X Conns
           /\ forgotten \subseteq forgotten'
           /\ \A i \in Ids :
                \/ subscriptionToMembers'[i] = subscriptionToMembers[i]
                   /\ \A m \in ms : i \notin memberSubscriptions[m]
                \/ subscriptionToMembers'[i] = {}
                   /\ \A c \in Conns : status[c] = "open" /\ member[c] \in subscriptionToMembers[i] =>
                        <<i, c>> \in forgotten'
           /\ \A m \in Members : memberSubscriptions'[m] = IF m \in ms THEN {} ELSE memberSubscriptions[m]
  <1> DEFINE subs == UNION {memberSubscriptions[m] : m \in ms}
  <1>1. subs \subseteq Ids /\ \A i : i \in subs <=> \E m \in ms : i \in memberSubscriptions[m]
    BY DEF BinderTypeOK
  <1>2. /\ subscriptionToMembers' = [id \in Ids |-> IF id \in subs THEN {} ELSE subscriptionToMembers[id]]
        /\ memberSubscriptions' = [m \in Members |-> IF m \in ms THEN {} ELSE memberSubscriptions[m]]
        /\ forgotten' = forgotten \union
              {p \in subs \X Conns : status[p[2]] = "open" /\ member[p[2]] \in subscriptionToMembers[p[1]]}
    BY DEF removeMemberSubscriptions
  <1> HIDE DEF subs
  <1>3. ASSUME NEW i \in subs, NEW c \in Conns, status[c] = "open", member[c] \in subscriptionToMembers[i]
        PROVE  <<i, c>> \in forgotten'
    BY <1>2, <1>3
  <1>4. forgotten' \subseteq Ids \X Conns /\ forgotten \subseteq forgotten'
    BY <1>1, <1>2 DEF BinderTypeOK
  <1>5. /\ subscriptionToMembers' \in [Ids -> SUBSET Members]
        /\ memberSubscriptions' \in [Members -> SUBSET Ids]
        /\ \A m \in Members : memberSubscriptions'[m] = IF m \in ms THEN {} ELSE memberSubscriptions[m]
    BY <1>2 DEF BinderTypeOK
  <1>6. \A i \in Ids : subscriptionToMembers'[i] = IF i \in subs THEN {} ELSE subscriptionToMembers[i]
    BY <1>2
  <1> QED  BY <1>1, <1>3, <1>4, <1>5, <1>6

\* The listener that handleConnectionOpened registers, and where.
LEMMA RegistersEffect ==
    ASSUME BinderTypeOK, Locked, NEW id \in Ids, OpenedRegisters(id)
    PROVE  \E c \in Conns : /\ holder.conns = {c} /\ status[c] = "open"
                            /\ SendAddRequest(id, c) /\ updateCorrelationIDs(id, {c})
                            /\ addSubscriptionToMembers(id, {member[c]})
  <1>1. PICK c \in Conns : holder.conns = {c}
    BY DEF OpenedRegisters, Locked
  <1>2. (CHOOSE d \in holder.conns : TRUE) = c
    BY <1>1
  <1> QED  BY <1>1, <1>2 DEF OpenedRegisters

-----------------------------------------------------------------------------
(* Types *)

LEMMA InitTyped == BinderInit => BinderTypeOK
  BY BinderAssumption DEF BinderInit, BinderTypeOK, Free, Events

LEMMA AwaitedIsThere ==
    ASSUME BinderTypeOK, Locked, Accounted, NEW id \in Ids, NEW refused \in SUBSET Conns, AddFails(id, refused)
    PROVE  \A c \in refused : /\ Awaited(id, c)
                              /\ status[c] = "open" => handlers[id][c] > 0
  <1> SUFFICES ASSUME NEW c \in refused
               PROVE  Awaited(id, c) /\ (status[c] = "open" => handlers[id][c] > 0)
    OBVIOUS
  <1>1. Awaited(id, c)
    BY DEF AddFails, Awaited
  <1>2. correlationIDs[id][c] \in Nat
    BY DEF BinderTypeOK
  <1> QED  BY <1>1, <1>2 DEF Accounted

\* The event at the head of the inbox.
LEMMA HeadTyped ==
    ASSUME BinderTypeOK, inbox # <<>>
    PROVE  /\ Head(inbox) \in Events /\ Head(inbox).conn \in Conns /\ Tail(inbox) \in Seq(Events)
           /\ Head(inbox).state = "opened" => Head(inbox) = Opened(Head(inbox).conn)
           /\ Head(inbox).state = "closed" => Head(inbox) = Closed(Head(inbox).conn)
  <1>1. Head(inbox) \in Events /\ Tail(inbox) \in Seq(Events)
    BY HeadTailProperties DEF BinderTypeOK
  <1> QED  BY <1>1 DEF Events, Opened, Closed

HolderType == [op : {"none", "add", "remove", "opened"}, id : SUBSET Ids, conns : SUBSET Conns,
               sent : SUBSET Conns, answered : SUBSET Conns]
CallStates == {"new", "adding", "added", "failed", "removing", "removed"}

LEMMA FreeTyped == Free \in HolderType
  BY DEF Free, HolderType

LEMMA NextTyped ==
    ASSUME BinderTypeOK, Locked, Accounted, [BinderNext]_binderVars
    PROVE  BinderTypeOK'
  <1> USE MemberTyped, BinderAssumption
  <1>0. handlers \in Counts /\ correlationIDs \in Counts
    BY DEF BinderTypeOK, Counts
  <1>1. ASSUME NEW c \in Conns, GetOrAddConnection(c)
        PROVE  BinderTypeOK'
    <2> DEFINE old == uuidToConn[member[c]]
    <2>1. old \in Conns \cup {0}
      BY DEF BinderTypeOK
    <2>2. Opened(c) \in Events /\ Closed(c) \in Events /\ (old # 0 => Opened(old) \in Events)
      BY <2>1 DEF Opened, Closed, Events
    <2>3. <<Opened(c)>> \in Seq(Events) /\ (old # 0 => <<Closed(c), Opened(old)>> \in Seq(Events))
      BY <2>2
    <2>4. status' \in [Conns -> {"new", "open", "closed"}]
      BY <1>1 DEF GetOrAddConnection, BinderTypeOK
    <2>5. uuidToConn' = [uuidToConn EXCEPT ![member[c]] = c] \/ uuidToConn' = uuidToConn
      BY <1>1 DEF GetOrAddConnection
    <2>6. uuidToConn' \in [Members -> Conns \union {0}]
      BY <2>5 DEF BinderTypeOK
    <2>7. \/ old = 0 /\ pubs' = [pubs EXCEPT ![c] = <<Opened(c)>>]
          \/ old # 0 /\ pubs' = [pubs EXCEPT ![c] = <<Closed(c), Opened(old)>>]
      BY <1>1 DEF GetOrAddConnection
    <2>8. \E s \in Seq(Events) : pubs' = [pubs EXCEPT ![c] = s]
      BY <2>3, <2>7, Zenon
    <2>9. pubs' \in [Conns -> Seq(Events)]
      BY <2>8 DEF BinderTypeOK
    <2> QED  BY <1>1, <2>4, <2>6, <2>9 DEF GetOrAddConnection, BinderTypeOK, tableVars, handlerVars, userVars, historyVars
  <1>2. ASSUME NEW c \in Conns, Publish(c)
        PROVE  BinderTypeOK'
    <2>1. pubs[c] \in Seq(Events) /\ pubs[c] # <<>>
      BY <1>2 DEF Publish, BinderTypeOK
    <2>2. Head(pubs[c]) \in Events /\ Tail(pubs[c]) \in Seq(Events)
      BY <2>1, HeadTailProperties
    <2>3. Append(inbox, Head(pubs[c])) \in Seq(Events)
      BY <2>2 DEF BinderTypeOK
    <2> QED  BY <1>2, <2>2, <2>3 DEF Publish, BinderTypeOK, tableVars, handlerVars, userVars, historyVars
  <1>3. ASSUME NEW c \in Conns, Close(c)
        PROVE  BinderTypeOK'
    <2>1. handlers' \in Counts
      BY <1>0, <1>3, CloseEffect
    <2> QED  BY <1>3, <2>1 DEF Close, Fault, BinderTypeOK, Counts, tableVars, userVars
  <1>4. ASSUME NEW c \in Conns, PublishClosed(c)
        PROVE  BinderTypeOK'
    <2>1. Append(inbox, Closed(c)) \in Seq(Events)
      BY DEF BinderTypeOK, Closed, Events
    <2> QED  BY <1>4, <2>1 DEF PublishClosed, BinderTypeOK, tableVars, handlerVars, userVars, historyVars
  <1>5. ASSUME NEW c \in Conns, RemoveConnection(c)
        PROVE  BinderTypeOK'
    BY <1>5 DEF RemoveConnection, BinderTypeOK, tableVars, handlerVars, userVars, historyVars
  <1>6. ASSUME NEW id \in Ids, Add(id)
        PROVE  BinderTypeOK'
    BY <1>6 DEF Add, BinderTypeOK, Free, ActiveConnections, connVars, handlerVars, historyVars
  <1>7. ASSUME NEW id \in Ids, NEW c \in Conns, AddSends(id, c)
        PROVE  BinderTypeOK'
    <2>1. handlers' \in Counts
      BY <1>0, <1>7, SendEffect DEF AddSends
    <2> QED  BY <1>7, <2>1 DEF AddSends, BinderTypeOK, Counts, connVars, tableVars, userVars, historyVars
  <1>8. ASSUME NEW id \in Ids, NEW c \in Conns, AddIsAnswered(id, c)
        PROVE  BinderTypeOK'
    BY <1>8 DEF AddIsAnswered, BinderTypeOK, connVars, tableVars, handlerVars, userVars, historyVars
  <1>9. ASSUME NEW id \in Ids, AddReturns(id)
        PROVE  BinderTypeOK'
    <2>1. holder.conns \in SUBSET Conns /\ {member[c] : c \in holder.conns} \in SUBSET Members
      BY DEF BinderTypeOK
    <2>2. correlationIDs' \in Counts
      BY <1>0, <1>9, <2>1, CorrelationEffect DEF AddReturns
    <2>3. subscriptionToMembers' \in [Ids -> SUBSET Members] /\ memberSubscriptions' \in [Members -> SUBSET Ids]
      BY <1>9, <2>1, SubscribeEffect DEF AddReturns
    <2> QED  BY <1>9, <2>2, <2>3 DEF AddReturns, BinderTypeOK, Counts, Free, connVars, historyVars
  <1>10. ASSUME NEW id \in Ids, NEW refused \in SUBSET Conns, AddFails(id, refused)
         PROVE  BinderTypeOK'
    <2>1. handlers' \in Counts
      BY <1>0, <1>10, RefusedEffect, AwaitedIsThere
    <2>2. faults' \in 0..MaxFaults
      BY <1>10 DEF AddFails, Fault, BinderTypeOK
    <2>3. holder' \in HolderType
      BY <1>10, FreeTyped DEF AddFails
    <2>4. failed' \subseteq Ids /\ call' \in [Ids -> CallStates]
      BY <1>10 DEF AddFails, BinderTypeOK, CallStates
    <2> QED  BY <1>10, <2>1, <2>2, <2>3, <2>4
             DEF AddFails, BinderTypeOK, Counts, HolderType, CallStates, connVars, tableVars
  <1>11. ASSUME NEW id \in Ids, Remove(id)
         PROVE  BinderTypeOK'
    <2>1. handlers' \in Counts /\ correlationIDs' \in Counts
      BY <1>0, <1>11, RemoveEffect DEF Remove, Accounted
    <2>2. {member[c] : c \in ActiveConnections} \in SUBSET Members
      BY DEF ActiveConnections
    <2>3. /\ subscriptionToMembers' \in [Ids -> SUBSET Members] /\ memberSubscriptions' \in [Members -> SUBSET Ids]
          /\ forgotten' \subseteq Ids \X Conns
      BY <1>11, <2>2, UnsubscribeEffect DEF Remove
    <2> QED  BY <1>11, <2>1, <2>3 DEF Remove, BinderTypeOK, Counts, Free, connVars
  <1>12. ASSUME NEW id \in Ids, RemoveReturns(id)
         PROVE  BinderTypeOK'
    BY <1>12 DEF RemoveReturns, BinderTypeOK, Free, connVars, tableVars, handlerVars, historyVars
  <1>13. ASSUME OpenedIsDropped
         PROVE  BinderTypeOK'
    <2>1. Head(inbox).conn \in Conns /\ Tail(inbox) \in Seq(Events)
      BY <1>13, HeadTyped DEF OpenedIsDropped, HeadIs
    <2>2. skipped' \subseteq Ids \X Conns
      BY <1>13, <2>1 DEF OpenedIsDropped, BinderTypeOK
    <2> QED  BY <1>13, <2>1, <2>2 DEF OpenedIsDropped, BinderTypeOK, connVars, tableVars, handlerVars, userVars
  <1>14. ASSUME handleConnectionOpened
         PROVE  BinderTypeOK'
    <2>1. Head(inbox).conn \in Conns /\ Tail(inbox) \in Seq(Events)
      BY <1>14, HeadTyped DEF handleConnectionOpened, HeadIs
    <2> DEFINE c == Head(inbox).conn
    <2>2. /\ skipped' \subseteq skipped \cup (regs \X {c})
          /\ holder' = [Free EXCEPT !.op = "opened", !.id = {id \in regs : ~connExists(c, id)}, !.conns = {c}]
      BY <1>14 DEF handleConnectionOpened
    <2> HIDE DEF c
    <2>3. c \in Conns
      BY <2>1 DEF c
    <2>4. skipped' \subseteq Ids \X Conns /\ holder' \in HolderType
      BY <2>2, <2>3 DEF BinderTypeOK, HolderType, Free
    <2>5. inbox' \in Seq(Events) /\ connectionCount' \in Int
      BY <1>14, <2>1 DEF handleConnectionOpened, BinderTypeOK
    <2>6. UNCHANGED <<smart, connVars, tableVars, handlerVars, userVars, forgotten, faults>>
      BY <1>14 DEF handleConnectionOpened
    <2> QED  BY <2>4, <2>5, <2>6 DEF BinderTypeOK, HolderType, connVars, tableVars, handlerVars, userVars
  <1>15. ASSUME handleConnectionClosed
         PROVE  BinderTypeOK'
    <2>1. Head(inbox).conn \in Conns /\ Tail(inbox) \in Seq(Events)
      BY <1>15, HeadTyped DEF handleConnectionClosed, HeadIs
    <2>2. /\ subscriptionToMembers' \in [Ids -> SUBSET Members] /\ memberSubscriptions' \in [Members -> SUBSET Ids]
          /\ forgotten' \subseteq Ids \X Conns
      BY <1>15, <2>1, UnsubscribeEffect, {member[Head(inbox).conn]} \in SUBSET Members DEF handleConnectionClosed
    <2>3. inbox' \in Seq(Events) /\ connectionCount' \in Int
      BY <1>15, <2>1 DEF handleConnectionClosed, BinderTypeOK
    <2>4. UNCHANGED <<smart, connVars, regs, handlerVars, holder, userVars, skipped, faults>>
      BY <1>15 DEF handleConnectionClosed
    <2> QED  BY <2>2, <2>3, <2>4 DEF BinderTypeOK, connVars, handlerVars, userVars
  <1>16. ASSUME NEW id \in Ids, OpenedRegisters(id)
         PROVE  BinderTypeOK'
    <2>1. PICK c \in Conns : /\ SendAddRequest(id, c) /\ updateCorrelationIDs(id, {c})
                             /\ addSubscriptionToMembers(id, {member[c]})
      BY <1>16, RegistersEffect
    <2>2. handlers' \in Counts /\ correlationIDs' \in Counts
      BY <1>0, <2>1, SendEffect, CorrelationEffect
    <2>3. subscriptionToMembers' \in [Ids -> SUBSET Members] /\ memberSubscriptions' \in [Members -> SUBSET Ids]
      BY <2>1, SubscribeEffect
    <2> QED  BY <1>16, <2>2, <2>3 DEF OpenedRegisters, BinderTypeOK, Counts, connVars, userVars, historyVars
  <1>17. ASSUME OpenedFails \/ OpenedReturns
         PROVE  BinderTypeOK'
    <2>1. faults' \in 0..MaxFaults
      BY <1>17 DEF OpenedFails, OpenedReturns, Fault, BinderTypeOK, historyVars
    <2>2. holder' \in HolderType
      BY <1>17, FreeTyped DEF OpenedFails, OpenedReturns
    <2>3. skipped' \subseteq Ids \X Conns /\ forgotten' = forgotten
      <3>1. holder.id \X holder.conns \subseteq Ids \X Conns
        BY DEF BinderTypeOK
      <3> QED  BY <1>17, <3>1 DEF OpenedFails, OpenedReturns, BinderTypeOK, historyVars
    <2> QED  BY <1>17, <2>1, <2>2, <2>3 DEF OpenedFails, OpenedReturns, BinderTypeOK, HolderType, connVars, tableVars,
                                            handlerVars, userVars
  <1>18. CASE UNCHANGED binderVars
    BY <1>18 DEF binderVars, BinderTypeOK, connVars, tableVars, handlerVars, userVars, historyVars
  <1> QED  BY <1>1, <1>2, <1>3, <1>4, <1>5, <1>6, <1>7, <1>8, <1>9, <1>10, <1>11, <1>12, <1>13, <1>14, <1>15,
              <1>16, <1>17, <1>18 DEF BinderNext, AddStep, HandlerStep

-----------------------------------------------------------------------------
(* What the binder has yet to hear of *)

LEMMA InAppend ==
    ASSUME NEW s \in Seq(Events), NEW x \in Events
    PROVE  \A e \in Events : In(e, Append(s, x)) <=> In(e, s) \/ e = x
  <1> SUFFICES ASSUME NEW e \in Events
               PROVE  In(e, Append(s, x)) <=> In(e, s) \/ e = x
    OBVIOUS
  <1>1. /\ Len(Append(s, x)) = Len(s) + 1 /\ Append(s, x)[Len(s) + 1] = x /\ Len(s) \in Nat
        /\ \A i \in 1..Len(s) : Append(s, x)[i] = s[i]
        /\ DOMAIN Append(s, x) = 1..(Len(s) + 1) /\ DOMAIN s = 1..Len(s)
    BY AppendProperties
  <1> HIDE DEF Events
  <1> QED  BY <1>1 DEF In

LEMMA InTail ==
    ASSUME NEW s \in Seq(Events), s # <<>>
    PROVE  \A e \in Events : In(e, s) <=> e = Head(s) \/ In(e, Tail(s))
  <1> SUFFICES ASSUME NEW e \in Events
               PROVE  In(e, s) <=> e = Head(s) \/ In(e, Tail(s))
    OBVIOUS
  <1>1. /\ Len(Tail(s)) = Len(s) - 1 /\ \A i \in 1..(Len(s) - 1) : Tail(s)[i] = s[i + 1]
        /\ DOMAIN Tail(s) = 1..(Len(s) - 1) /\ DOMAIN s = 1..Len(s)
        /\ Len(s) \in Nat /\ Len(s) >= 1 /\ Head(s) = s[1]
    BY HeadTailProperties, EmptySeq, LenProperties
  <1>2. ASSUME In(e, s), e # Head(s)
        PROVE  In(e, Tail(s))
    <2>1. PICK k \in 1..Len(s) : s[k] = e
      BY <1>1, <1>2 DEF In
    <2>2. k - 1 \in 1..(Len(s) - 1)
      BY <1>1, <1>2, <2>1
    <2>3. Tail(s)[k - 1] = e
      BY <1>1, <2>1, <2>2
    <2> QED  BY <1>1, <2>2, <2>3 DEF In
  <1>3. ASSUME In(e, Tail(s))
        PROVE  In(e, s)
    <2>1. PICK k \in 1..(Len(s) - 1) : Tail(s)[k] = e
      BY <1>1, <1>3 DEF In
    <2>2. k + 1 \in 1..Len(s) /\ s[k + 1] = e
      BY <1>1, <2>1
    <2> QED  BY <1>1, <2>2 DEF In
  <1>4. In(Head(s), s)
    <2>1. 1 \in DOMAIN s
      BY <1>1
    <2> QED  BY <1>1, <2>1 DEF In
  <1> QED  BY <1>2, <1>3, <1>4

LEMMA EventTyped ==
    \A c, d \in Conns : /\ Opened(c) \in Events /\ Closed(c) \in Events
                        /\ Opened(c) # Closed(d) /\ (Opened(c) = Opened(d) => c = d) /\ (Closed(c) = Closed(d) => c = d)
                        /\ Opened(c).conn = c /\ Closed(c).conn = c
  BY DEF Opened, Closed, Events

\* Only the handler of the binder takes an event away.
LEMMA EventsKept ==
    ASSUME BinderTypeOK, Fresh, [BinderNext]_binderVars, NEW c \in Conns
    PROVE  /\ WillOpen(c) => \/ WillOpen(c)'
                             \/ (handleConnectionOpened \/ OpenedIsDropped) /\ Head(inbox) = Opened(c)
           /\ WillClose(c) => WillClose(c)' \/ (handleConnectionClosed /\ Head(inbox) = Closed(c))
  <1> DEFINE Keeps == /\ WillOpen(c) => WillOpen(c)'
                      /\ WillClose(c) => WillClose(c)'
  <1> USE EventTyped
  <1>0. inbox \in Seq(Events) /\ \A d \in Conns : pubs[d] \in Seq(Events)
    BY DEF BinderTypeOK
  <1>1. ASSUME NEW d \in Conns, GetOrAddConnection(d)
        PROVE  Keeps
    <2>1. pubs[d] = <<>> /\ ~In(Opened(c), pubs[d])
      BY <1>1 DEF GetOrAddConnection, Fresh, In
    <2>2. \A e \in Conns \ {d} : pubs'[e] = pubs[e]
      BY <1>1 DEF GetOrAddConnection, BinderTypeOK
    <2>3. inbox' = inbox /\ closing' = closing
      BY <1>1 DEF GetOrAddConnection
    <2>4. WillOpen(c) => WillOpen(c)'
      BY <2>1, <2>2, <2>3 DEF WillOpen
    <2> QED  BY <2>3, <2>4 DEF WillClose
  <1>2. ASSUME NEW d \in Conns, Publish(d)
        PROVE  Keeps
    <2> DEFINE x == Head(pubs[d])
    <2>1. pubs[d] # <<>> /\ x \in Events
      BY <1>0, <1>2, HeadTailProperties DEF Publish
    <2>2. /\ inbox' = Append(inbox, x) /\ closing' = closing /\ pubs'[d] = Tail(pubs[d])
          /\ \A e \in Conns \ {d} : pubs'[e] = pubs[e]
      BY <1>2 DEF Publish, BinderTypeOK
    <2> HIDE DEF x
    <2>3. \A e \in Events : In(e, inbox') <=> In(e, inbox) \/ e = x
      BY <1>0, <2>1, <2>2, InAppend
    <2>4. \A e \in Events : In(e, pubs[d]) <=> e = x \/ In(e, pubs'[d])
      BY <1>0, <2>1, <2>2, InTail DEF x
    <2> QED  BY <2>2, <2>3, <2>4 DEF WillOpen, WillClose
  <1>3. ASSUME NEW d \in Conns, Close(d)
        PROVE  Keeps
    BY <1>3 DEF Close, WillOpen, WillClose
  <1>4. ASSUME NEW d \in Conns, PublishClosed(d)
        PROVE  Keeps
    <2>1. \A e \in Events : In(e, inbox') <=> In(e, inbox) \/ e = Closed(d)
      BY <1>0, <1>4, InAppend DEF PublishClosed
    <2>2. closing' = closing \ {d} /\ pubs' = pubs
      BY <1>4 DEF PublishClosed
    <2> QED  BY <2>1, <2>2 DEF WillOpen, WillClose
  <1>5. ASSUME HeadIs("opened") \/ HeadIs("closed"), inbox' = Tail(inbox), closing' = closing, pubs' = pubs
        PROVE  /\ Head(inbox) # Opened(c) /\ WillOpen(c) => WillOpen(c)'
               /\ Head(inbox) # Closed(c) /\ WillClose(c) => WillClose(c)'
    <2>1. \A e \in Events : In(e, inbox) <=> e = Head(inbox) \/ In(e, inbox')
      BY <1>0, <1>5, InTail DEF HeadIs
    <2> QED  BY <1>5, <2>1 DEF WillOpen, WillClose
  <1>6. ASSUME OpenedIsDropped \/ handleConnectionOpened
        PROVE  /\ Head(inbox) # Opened(c) /\ WillOpen(c) => WillOpen(c)'
               /\ WillClose(c) => WillClose(c)'
    <2>1. HeadIs("opened") /\ inbox' = Tail(inbox) /\ closing' = closing /\ pubs' = pubs
      BY <1>6 DEF OpenedIsDropped, handleConnectionOpened, connVars
    <2>2. Head(inbox) # Closed(c)
      BY <2>1 DEF HeadIs, Closed
    <2> QED  BY <1>5, <2>1, <2>2
  <1>7. ASSUME handleConnectionClosed
        PROVE  /\ WillOpen(c) => WillOpen(c)'
               /\ Head(inbox) # Closed(c) /\ WillClose(c) => WillClose(c)'
    <2>1. HeadIs("closed") /\ inbox' = Tail(inbox) /\ closing' = closing /\ pubs' = pubs
      BY <1>7 DEF handleConnectionClosed, connVars
    <2>2. Head(inbox) # Opened(c)
      BY <2>1 DEF HeadIs, Opened
    <2> QED  BY <1>5, <2>1, <2>2
  <1>8. ASSUME UNCHANGED <<inbox, closing, pubs>>
        PROVE  Keeps
    BY <1>8 DEF WillOpen, WillClose
  <1>9. ASSUME NEW d \in Conns, RemoveConnection(d)
        PROVE  Keeps
    BY <1>8, <1>9 DEF RemoveConnection
  <1>10. ASSUME NEW id \in Ids, Add(id) \/ AddStep(id) \/ Remove(id) \/ RemoveReturns(id)
         PROVE  Keeps
    <2>1. UNCHANGED <<inbox, closing, pubs>>
      BY <1>10 DEF Add, AddStep, AddSends, AddIsAnswered, AddReturns, AddFails, Remove, RemoveReturns, connVars
    <2> QED  BY <1>8, <2>1
  <1>11. ASSUME (\E id \in Ids : OpenedRegisters(id)) \/ OpenedFails \/ OpenedReturns \/ UNCHANGED binderVars
         PROVE  Keeps
    <2>1. UNCHANGED <<inbox, closing, pubs>>
      BY <1>11 DEF OpenedRegisters, OpenedFails, OpenedReturns, connVars, binderVars
    <2> QED  BY <1>8, <2>1
  <1> HIDE DEF Keeps
  <1>12. Keeps \/ OpenedIsDropped \/ handleConnectionOpened \/ handleConnectionClosed
    BY <1>1, <1>2, <1>3, <1>4, <1>9, <1>10, <1>11 DEF BinderNext, HandlerStep
  <1> QED  BY <1>6, <1>7, <1>12 DEF Keeps

-----------------------------------------------------------------------------
(* Connections *)

LEMMA NextMapped ==
    ASSUME BinderTypeOK, OpenIsMapped, [BinderNext]_binderVars
    PROVE  OpenIsMapped'
  <1> USE MemberTyped
  <1>1. ASSUME NEW c \in Conns, GetOrAddConnection(c)
        PROVE  OpenIsMapped'
    <2>1. \A d \in Conns : status[d] = "open" => member[d] # member[c] \/ uuidToConn[member[c]] # 0
      BY DEF OpenIsMapped
    <2>2. status[c] = "new" /\ toRemove' = toRemove
      BY <1>1 DEF GetOrAddConnection
    <2>3. CASE uuidToConn[member[c]] = 0
      <3>1. /\ status' = [status EXCEPT ![c] = "open"]
            /\ uuidToConn' = [uuidToConn EXCEPT ![member[c]] = c]
        BY <1>1, <2>3 DEF GetOrAddConnection
      <3> QED  BY <2>1, <2>2, <2>3, <3>1 DEF OpenIsMapped, BinderTypeOK
    <2>4. CASE uuidToConn[member[c]] # 0
      <3>1. status' = [status EXCEPT ![c] = "closed"] /\ uuidToConn' = uuidToConn
        BY <1>1, <2>4 DEF GetOrAddConnection
      <3> QED  BY <2>2, <3>1 DEF OpenIsMapped, BinderTypeOK
    <2> QED  BY <2>3, <2>4
  <1>2. ASSUME NEW c \in Conns, Close(c)
        PROVE  OpenIsMapped'
    BY <1>2 DEF Close, OpenIsMapped, BinderTypeOK
  <1>3. ASSUME NEW c \in Conns, RemoveConnection(c)
        PROVE  OpenIsMapped'
    <2>1. /\ c \in toRemove /\ toRemove' = toRemove \ {c} /\ status' = status
          /\ \A m \in Members : uuidToConn'[m] = IF uuidToConn[m] = c THEN 0 ELSE uuidToConn[m]
      BY <1>3 DEF RemoveConnection
    <2>2. \A d \in Conns : status[d] = "open" => uuidToConn'[member[d]] = d
      BY <2>1 DEF OpenIsMapped
    <2> QED  BY <2>1, <2>2 DEF OpenIsMapped
  <1>4. ASSUME UNCHANGED <<status, uuidToConn, toRemove>>
        PROVE  OpenIsMapped'
    BY <1>4 DEF OpenIsMapped
  <1>5. ASSUME NEW c \in Conns, Publish(c) \/ PublishClosed(c)
        PROVE  UNCHANGED <<status, uuidToConn, toRemove>>
    BY <1>5 DEF Publish, PublishClosed
  <1>6. ASSUME NEW id \in Ids, Add(id) \/ AddStep(id) \/ Remove(id) \/ RemoveReturns(id)
        PROVE  UNCHANGED <<status, uuidToConn, toRemove>>
    BY <1>6 DEF Add, AddStep, AddSends, AddIsAnswered, AddReturns, AddFails, Remove, RemoveReturns, connVars
  <1>7. ASSUME HandlerStep \/ UNCHANGED binderVars
        PROVE  UNCHANGED <<status, uuidToConn, toRemove>>
    BY <1>7 DEF HandlerStep, OpenedIsDropped, handleConnectionOpened, handleConnectionClosed, OpenedRegisters,
                OpenedFails, OpenedReturns, connVars, binderVars
  <1> QED  BY <1>1, <1>2, <1>3, <1>4, <1>5, <1>6, <1>7 DEF BinderNext

-----------------------------------------------------------------------------
(* regsMu *)

LEMMA NextLocked ==
    ASSUME BinderTypeOK, Locked, [BinderNext]_binderVars
    PROVE  Locked'
  <1>1. ASSUME NEW id \in Ids, Add(id)
        PROVE  Locked'
    BY <1>1 DEF Add, Locked, Free, BinderTypeOK
  <1>2. ASSUME NEW id \in Ids, NEW c \in Conns, AddSends(id, c)
        PROVE  Locked'
    BY <1>2 DEF AddSends, Locked, BinderTypeOK, tableVars, userVars
  <1>3. ASSUME NEW id \in Ids, NEW c \in Conns, AddIsAnswered(id, c)
        PROVE  Locked'
    BY <1>3 DEF AddIsAnswered, Locked, BinderTypeOK, tableVars, userVars
  <1>4. ASSUME NEW id \in Ids, AddReturns(id)
        PROVE  Locked'
    <2> DEFINE ms == {member[c] : c \in holder.conns}
    <2>1. ms \in SUBSET Members /\ addSubscriptionToMembers(id, ms)
      BY <1>4, MemberTyped DEF BinderTypeOK, AddReturns
    <2> HIDE DEF ms
    <2>2. \A i \in Ids \ {id} : subscriptionToMembers'[i] = subscriptionToMembers[i]
      BY <2>1 DEF addSubscriptionToMembers, BinderTypeOK
    <2>3. /\ holder.op = "add" /\ holder.id = {id} /\ holder' = Free
          /\ call' = [call EXCEPT ![id] = "added"] /\ regs' = regs /\ failed' = failed
      BY <1>4 DEF AddReturns
    <2> QED  BY <2>2, <2>3 DEF Locked, Free, BinderTypeOK
  <1>5. ASSUME NEW id \in Ids, NEW refused \in SUBSET Conns, AddFails(id, refused)
        PROVE  Locked'
    <2>1. /\ holder.op = "add" /\ holder.id = {id} /\ holder' = Free
          /\ call' = [call EXCEPT ![id] = "failed"] /\ regs' = regs /\ failed' = failed \cup {id}
          /\ subscriptionToMembers' = subscriptionToMembers
      BY <1>5 DEF AddFails, tableVars
    <2> QED  BY <2>1 DEF Locked, Free, BinderTypeOK
  <1>6. ASSUME NEW id \in Ids, Remove(id)
        PROVE  Locked'
    <2>1. {member[c] : c \in ActiveConnections} \in SUBSET Members
      BY MemberTyped DEF ActiveConnections
    <2>2. \A i \in Ids : subscriptionToMembers'[i] \subseteq subscriptionToMembers[i]
      BY <1>6, <2>1, UnsubscribeEffect DEF Remove
    <2>3. /\ holder = Free /\ call[id] \in {"added", "failed"} /\ failed' = failed /\ regs' = regs \ {id}
          /\ holder' = [Free EXCEPT !.op = "remove", !.id = {id}]
          /\ call' = [call EXCEPT ![id] = "removing"]
      BY <1>6 DEF Remove
    <2> QED  BY <2>2, <2>3 DEF Locked, Free, BinderTypeOK
  <1>7. ASSUME NEW id \in Ids, RemoveReturns(id)
        PROVE  Locked'
    BY <1>7 DEF RemoveReturns, Locked, Free, BinderTypeOK, tableVars
  <1>8. ASSUME OpenedIsDropped
        PROVE  Locked'
    BY <1>8 DEF OpenedIsDropped, Locked, tableVars, userVars
  <1>9. ASSUME handleConnectionOpened
        PROVE  Locked'
    <2> DEFINE c == Head(inbox).conn
    <2>1. /\ holder = Free /\ UNCHANGED <<tableVars, userVars>>
          /\ holder' = [Free EXCEPT !.op = "opened", !.id = {id \in regs : ~connExists(c, id)}, !.conns = {c}]
      BY <1>9 DEF handleConnectionOpened
    <2>2. c \in Conns
      BY <1>9, HeadTyped DEF handleConnectionOpened, HeadIs
    <2> HIDE DEF c
    <2> QED  BY <2>1, <2>2 DEF Locked, Free, tableVars, userVars
  <1>10. ASSUME handleConnectionClosed
         PROVE  Locked'
    <2>1. {member[Head(inbox).conn]} \in SUBSET Members
      BY <1>10, HeadTyped, MemberTyped DEF handleConnectionClosed, HeadIs
    <2>2. \A i \in Ids : subscriptionToMembers'[i] \subseteq subscriptionToMembers[i]
      BY <1>10, <2>1, UnsubscribeEffect DEF handleConnectionClosed
    <2>3. UNCHANGED <<holder, regs, userVars>>
      BY <1>10 DEF handleConnectionClosed
    <2> QED  BY <2>2, <2>3 DEF Locked, userVars
  <1>11. ASSUME NEW id \in Ids, OpenedRegisters(id)
         PROVE  Locked'
    <2>1. \E ms \in SUBSET Members : addSubscriptionToMembers(id, ms)
      BY <1>11, RegistersEffect, MemberTyped
    <2>2. \A i \in Ids \ {id} : subscriptionToMembers'[i] = subscriptionToMembers[i]
      BY <2>1 DEF addSubscriptionToMembers, BinderTypeOK
    <2>3. /\ holder.op = "opened" /\ id \in holder.id /\ holder' = [holder EXCEPT !.id = @ \ {id}]
          /\ UNCHANGED <<regs, call, failed>>
      BY <1>11 DEF OpenedRegisters, userVars
    <2> QED  BY <2>2, <2>3 DEF Locked, BinderTypeOK
  <1>12. ASSUME OpenedFails \/ OpenedReturns
         PROVE  Locked'
    <2>1. holder.op = "opened" /\ holder' = Free /\ UNCHANGED <<tableVars, userVars>>
      BY <1>12 DEF OpenedFails, OpenedReturns
    <2> QED  BY <2>1 DEF Locked, Free, tableVars, userVars
  <1>13. ASSUME NEW c \in Conns,
                GetOrAddConnection(c) \/ Publish(c) \/ Close(c) \/ PublishClosed(c) \/ RemoveConnection(c)
         PROVE  Locked'
    <2>1. UNCHANGED <<holder, tableVars, userVars>>
      BY <1>13 DEF GetOrAddConnection, Publish, Close, PublishClosed, RemoveConnection
    <2> QED  BY <2>1 DEF Locked, tableVars, userVars
  <1>14. CASE UNCHANGED binderVars
    BY <1>14 DEF Locked, binderVars, tableVars, userVars
  <1> QED  BY <1>1, <1>2, <1>3, <1>4, <1>5, <1>6, <1>7, <1>8, <1>9, <1>10, <1>11, <1>12, <1>13, <1>14
           DEF BinderNext, AddStep, HandlerStep

-----------------------------------------------------------------------------
(* The tables *)

\* The steps that leave tables and handlers alone.
Quiet == UNCHANGED <<tableVars, handlerVars, holder, userVars, skipped, forgotten>>

LEMMA QuietSteps ==
    /\ \A c \in Conns : GetOrAddConnection(c) \/ Publish(c) \/ PublishClosed(c) \/ RemoveConnection(c) => Quiet
    /\ UNCHANGED binderVars => Quiet /\ status' = status
    /\ \A c \in Conns : Publish(c) \/ PublishClosed(c) \/ RemoveConnection(c) => status' = status
  BY DEF GetOrAddConnection, Publish, PublishClosed, RemoveConnection, Quiet, binderVars, historyVars, connVars

\* The steps that enter a listener into the tables, and what they enter.
LEMMA Subscribing ==
    ASSUME BinderTypeOK, Locked, NEW id \in Ids, AddReturns(id) \/ OpenedRegisters(id)
    PROVE  \E cs \in SUBSET Conns :
             /\ cs = holder.conns
             /\ updateCorrelationIDs(id, cs)
             /\ AddReturns(id) => cs = holder.answered /\ cs = holder.sent
             /\ \A i \in Ids, m \in Members :
                  /\ m \in subscriptionToMembers'[i] <=>
                       m \in subscriptionToMembers[i] \/ (i = id /\ \E c \in cs : m = member[c])
                  /\ i \in memberSubscriptions'[m] <=>
                       i \in memberSubscriptions[m] \/ (i = id /\ \E c \in cs : m = member[c])
  <1> DEFINE ms == {member[c] : c \in holder.conns}
  <1>1. ms \in SUBSET Members /\ holder.conns \in SUBSET Conns
    BY MemberTyped DEF BinderTypeOK
  <1>2. addSubscriptionToMembers(id, ms) /\ updateCorrelationIDs(id, holder.conns)
    <2>1. ASSUME OpenedRegisters(id) PROVE addSubscriptionToMembers(id, ms) /\ updateCorrelationIDs(id, holder.conns)
      <3>1. PICK c \in Conns : holder.conns = {c} /\ updateCorrelationIDs(id, {c}) /\ addSubscriptionToMembers(id, {member[c]})
        BY <2>1, RegistersEffect
      <3>2. ms = {member[c]}
        BY <3>1
      <3> QED  BY <3>1, <3>2
    <2> QED  BY <2>1 DEF AddReturns
  <1>3. \A m : m \in ms <=> \E c \in holder.conns : m = member[c]
    OBVIOUS
  <1>4. AddReturns(id) => holder.conns = holder.answered /\ holder.conns = holder.sent
    BY DEF AddReturns, Locked
  <1> HIDE DEF ms
  <1>5. \A i \in Ids, m \in Members :
          /\ m \in subscriptionToMembers'[i] <=> m \in subscriptionToMembers[i] \/ (i = id /\ m \in ms)
          /\ i \in memberSubscriptions'[m] <=> i \in memberSubscriptions[m] \/ (i = id /\ m \in ms)
    BY <1>1, <1>2, SubscribeEffect
  <1> QED  BY <1>1, <1>2, <1>3, <1>4, <1>5

\* The steps that make the binder forget members, and what they leave.
LEMMA Unsubscribing ==
    ASSUME BinderTypeOK, handleConnectionClosed \/ \E id \in Ids : Remove(id)
    PROVE  \E ms \in SUBSET Members :
             /\ removeMemberSubscriptions(ms)
             /\ handleConnectionClosed => ms = {member[Head(inbox).conn]}
  <1>1. CASE handleConnectionClosed
    <2> DEFINE ms == {member[Head(inbox).conn]}
    <2>1. ms \in SUBSET Members /\ removeMemberSubscriptions(ms)
      BY <1>1, HeadTyped, MemberTyped DEF handleConnectionClosed, HeadIs
    <2> QED  BY <2>1
  <1>2. CASE ~handleConnectionClosed
    <2> DEFINE ms == {member[c] : c \in ActiveConnections}
    <2>1. ms \in SUBSET Members
      BY MemberTyped DEF ActiveConnections
    <2>2. removeMemberSubscriptions(ms)
      BY <1>2 DEF Remove
    <2> QED  BY <1>2, <2>1, <2>2
  <1> QED  BY <1>1, <1>2

\* The steps that leave the tables alone.
LEMMA TablesKept ==
    ASSUME [BinderNext]_binderVars
    PROVE  \/ UNCHANGED <<subscriptionToMembers, memberSubscriptions, forgotten>>
           \/ \E id \in Ids : AddReturns(id) \/ OpenedRegisters(id)
           \/ handleConnectionClosed \/ \E id \in Ids : Remove(id)
  BY QuietSteps DEF BinderNext, AddStep, HandlerStep, Quiet, Close, Add, AddSends, AddIsAnswered, AddFails, RemoveReturns,
     OpenedIsDropped, handleConnectionOpened, OpenedFails, OpenedReturns, tableVars, historyVars

LEMMA NextTables ==
    ASSUME BinderTypeOK, Locked, TablesAgree, [BinderNext]_binderVars
    PROVE  TablesAgree'
  <1>1. ASSUME NEW id \in Ids, AddReturns(id) \/ OpenedRegisters(id)
        PROVE  TablesAgree'
    BY <1>1, Subscribing DEF TablesAgree
  <1>2. ASSUME handleConnectionClosed \/ \E id \in Ids : Remove(id)
        PROVE  TablesAgree'
    <2>1. PICK ms \in SUBSET Members : removeMemberSubscriptions(ms)
      BY <1>2, Unsubscribing
    <2>2. /\ \A i \in Ids : \/ /\ subscriptionToMembers'[i] = subscriptionToMembers[i]
                              /\ \A m \in ms : i \notin memberSubscriptions[m]
                           \/ subscriptionToMembers'[i] = {}
          /\ \A m \in Members : memberSubscriptions'[m] = IF m \in ms THEN {} ELSE memberSubscriptions[m]
      BY <2>1, UnsubscribeEffect
    <2> QED  BY <2>2 DEF TablesAgree
  <1>3. ASSUME UNCHANGED <<subscriptionToMembers, memberSubscriptions>>
        PROVE  TablesAgree'
    BY <1>3 DEF TablesAgree
  <1> QED  BY <1>1, <1>2, <1>3, TablesKept

-----------------------------------------------------------------------------
(* Handlers and correlation IDs *)

\* What the steps make of the requests that were sent.
LEMMA HolderSteps ==
    ASSUME BinderTypeOK
    PROVE  /\ \A id \in Ids : AddReturns(id) \/ RemoveReturns(id) \/ Add(id) => holder'.sent = {}
           /\ \A id \in Ids, refused \in SUBSET Conns : AddFails(id, refused) => holder'.sent = {}
           /\ \A id \in Ids : OpenedRegisters(id) => holder'.sent = holder.sent
           /\ \A id \in Ids, c \in Conns : AddIsAnswered(id, c) => holder'.sent = holder.sent
           /\ OpenedIsDropped \/ handleConnectionClosed => holder'.sent = holder.sent
           /\ OpenedFails \/ OpenedReturns \/ handleConnectionOpened => holder'.sent = {}
  <1>0. Free.sent = {}
    BY DEF Free
  <1>1. \A id \in Ids : AddReturns(id) \/ RemoveReturns(id) => holder'.sent = {}
    BY <1>0 DEF AddReturns, RemoveReturns
  <1>2. \A id \in Ids, refused \in SUBSET Conns : AddFails(id, refused) => holder'.sent = {}
    BY <1>0 DEF AddFails
  <1>3. \A id \in Ids : OpenedRegisters(id) => holder'.sent = holder.sent
    BY DEF OpenedRegisters, BinderTypeOK
  <1>4. \A id \in Ids, c \in Conns : AddIsAnswered(id, c) => holder'.sent = holder.sent
    BY DEF AddIsAnswered, BinderTypeOK
  <1>5. \A id \in Ids : Add(id) => holder'.sent = {}
    BY DEF Add, Free
  <1>6. handleConnectionOpened => holder'.sent = {}
    BY DEF handleConnectionOpened, Free
  <1>7. OpenedIsDropped \/ handleConnectionClosed => holder'.sent = holder.sent
    BY DEF OpenedIsDropped, handleConnectionClosed
  <1>8. OpenedFails \/ OpenedReturns => holder'.sent = {}
    BY <1>0 DEF OpenedFails, OpenedReturns
  <1> QED  BY <1>1, <1>2, <1>3, <1>4, <1>5, <1>6, <1>7, <1>8

\* Who holds regsMu after them, if not the loop of handleConnectionOpened.
LEMMA HolderOps ==
    ASSUME BinderTypeOK
    PROVE  /\ \A id \in Ids : Add(id) \/ Remove(id) \/ RemoveReturns(id) => holder'.op # "opened"
           /\ \A id \in Ids, c \in Conns : AddSends(id, c) \/ AddIsAnswered(id, c) => holder'.op # "opened"
           /\ \A id \in Ids, refused \in SUBSET Conns : AddFails(id, refused) => holder'.op # "opened"
           /\ handleConnectionClosed => holder'.op # "opened"
  <1>1. \A id \in Ids : Add(id) => holder'.op # "opened"
    BY DEF Add, Free
  <1>2. \A id \in Ids : Remove(id) => holder'.op # "opened"
    BY DEF Remove, Free
  <1>3. \A id \in Ids : RemoveReturns(id) => holder'.op # "opened"
    BY DEF RemoveReturns, Free
  <1>4. \A id \in Ids, c \in Conns : AddSends(id, c) => holder'.op # "opened"
    BY DEF AddSends, BinderTypeOK
  <1>5. \A id \in Ids, c \in Conns : AddIsAnswered(id, c) => holder'.op # "opened"
    BY DEF AddIsAnswered, BinderTypeOK
  <1>6. \A id \in Ids, refused \in SUBSET Conns : AddFails(id, refused) => holder'.op # "opened"
    BY DEF AddFails, Free
  <1>7. handleConnectionClosed => holder'.op # "opened"
    BY DEF handleConnectionClosed, Free
  <1> QED  BY <1>1, <1>2, <1>3, <1>4, <1>5, <1>6, <1>7

LEMMA CountsTyped == BinderTypeOK => handlers \in Counts /\ correlationIDs \in Counts
  BY DEF BinderTypeOK, Counts

LEMMA NextFresh ==
    ASSUME BinderTypeOK, Locked, Accounted, Fresh, [BinderNext]_binderVars
    PROVE  Fresh'
  <1> USE CountsTyped
  <1>1. ASSUME NEW c \in Conns, GetOrAddConnection(c)
        PROVE  Fresh'
    <2>1. /\ UNCHANGED <<correlationIDs, holder>>
          /\ status'[c] # "new"
          /\ \A d \in Conns \ {c} : pubs'[d] = pubs[d] /\ status'[d] = status[d]
      BY <1>1 DEF GetOrAddConnection, BinderTypeOK, handlerVars
    <2> QED  BY <2>1 DEF Fresh
  <1>2. ASSUME NEW c \in Conns, Publish(c)
        PROVE  Fresh'
    <2>1. /\ UNCHANGED <<correlationIDs, holder, status>> /\ pubs[c] # <<>>
          /\ \A d \in Conns \ {c} : pubs'[d] = pubs[d]
      BY <1>2 DEF Publish, BinderTypeOK, handlerVars
    <2> QED  BY <2>1 DEF Fresh
  <1>3. ASSUME NEW c \in Conns, Close(c)
        PROVE  Fresh'
    BY <1>3 DEF Close, Fresh, BinderTypeOK
  <1>4. ASSUME NEW id \in Ids, NEW c \in Conns, AddSends(id, c)
        PROVE  Fresh'
    <2>1. /\ UNCHANGED <<correlationIDs, status, pubs>> /\ status[c] = "open"
          /\ holder' = [holder EXCEPT !.sent = @ \union {c}]
      BY <1>4 DEF AddSends, connVars
    <2>2. holder'.sent = holder.sent \cup {c}
      BY <2>1 DEF BinderTypeOK
    <2> QED  BY <2>1, <2>2 DEF Fresh
  <1>5. ASSUME NEW id \in Ids, AddReturns(id) \/ OpenedRegisters(id)
        PROVE  Fresh'
    <2>1. PICK cs \in SUBSET Conns : /\ updateCorrelationIDs(id, cs) /\ cs = holder.conns
                                     /\ AddReturns(id) => cs = holder.sent
      BY <1>5, Subscribing
    <2>2. UNCHANGED <<status, pubs>> /\ (holder'.sent = holder.sent \/ holder'.sent = {})
      BY <1>5, HolderSteps DEF AddReturns, OpenedRegisters, connVars
    <2>3. \A c \in cs : status[c] # "new"
      <3>1. CASE AddReturns(id)
        BY <2>1, <3>1 DEF Fresh
      <3>2. CASE OpenedRegisters(id)
        BY <2>1, <3>2, RegistersEffect
      <3> QED  BY <1>5, <3>1, <3>2
    <2>4. \A i \in Ids, d \in Conns \ cs : correlationIDs'[i][d] = correlationIDs[i][d]
      BY <2>1, CorrelationEffect DEF Counts
    <2> QED  BY <2>2, <2>3, <2>4 DEF Fresh
  <1>6. ASSUME NEW id \in Ids, Remove(id)
        PROVE  Fresh'
    <2>1. \A i \in Ids, d \in Conns : correlationIDs[i][d] = 0 => correlationIDs'[i][d] = 0
      BY <1>6 DEF Remove, removeCorrelationIDs, BinderTypeOK
    <2>2. UNCHANGED <<status, pubs>> /\ holder'.sent = {}
      BY <1>6 DEF Remove, Free, connVars
    <2> QED  BY <2>1, <2>2 DEF Fresh
  <1>7. ASSUME UNCHANGED <<status, pubs, correlationIDs>>, holder'.sent = holder.sent \/ holder'.sent = {}
        PROVE  Fresh'
    BY <1>7 DEF Fresh
  <1>8. ASSUME NEW id \in Ids,
               Add(id) \/ RemoveReturns(id) \/ (\E c \in Conns : AddIsAnswered(id, c)) \/ (\E refused \in SUBSET Conns : AddFails(id, refused))
        PROVE  Fresh'
    <2>1. UNCHANGED <<status, pubs, correlationIDs>>
      BY <1>8 DEF Add, RemoveReturns, AddIsAnswered, AddFails, connVars, handlerVars
    <2>2. holder'.sent = holder.sent \/ holder'.sent = {}
      BY <1>8, HolderSteps
    <2> QED  BY <1>7, <2>1, <2>2
  <1>9. ASSUME OpenedIsDropped \/ handleConnectionOpened \/ handleConnectionClosed \/ OpenedFails \/ OpenedReturns
        PROVE  Fresh'
    <2>1. UNCHANGED <<status, pubs, correlationIDs>>
      BY <1>9 DEF OpenedIsDropped, handleConnectionOpened, handleConnectionClosed, OpenedFails, OpenedReturns,
                  connVars, handlerVars
    <2>2. holder'.sent = holder.sent \/ holder'.sent = {}
      BY <1>9, HolderSteps
    <2> QED  BY <1>7, <2>1, <2>2
  <1>10. ASSUME NEW c \in Conns, PublishClosed(c) \/ RemoveConnection(c)
         PROVE  Fresh'
    BY <1>7, <1>10 DEF PublishClosed, RemoveConnection, handlerVars
  <1>11. CASE UNCHANGED binderVars
    BY <1>7, <1>11 DEF binderVars, connVars, handlerVars
  <1> QED  BY <1>1, <1>2, <1>3, <1>4, <1>5, <1>6, <1>8, <1>9, <1>10, <1>11 DEF BinderNext, AddStep, HandlerStep

LEMMA NextAccounted ==
    ASSUME BinderTypeOK, Locked, Fresh, Accounted, [BinderNext]_binderVars
    PROVE  Accounted'
  <1> DEFINE Unknown(i) == call[i] \in {"new", "adding", "removing", "removed"}
  <1>0. /\ handlers \in Counts /\ correlationIDs \in Counts
        /\ \A i \in Ids, d \in Conns : handlers[i][d] \in Nat /\ correlationIDs[i][d] \in Nat
    BY CountsTyped DEF Counts
  <1>1. ASSUME UNCHANGED <<status, handlers, correlationIDs, failed>>,
               \A i \in Ids, d \in Conns : Awaited(i, d)' <=> Awaited(i, d),
               \A i \in Ids : Unknown(i)' => Unknown(i)
        PROVE  Accounted'
    BY <1>1 DEF Accounted
  <1>2. holder = Free => \A i \in Ids, d \in Conns : ~Awaited(i, d)
    BY DEF Awaited, Free
  <1>3. holder' = Free => \A i \in Ids, d \in Conns : ~Awaited(i, d)'
    BY DEF Awaited, Free
  <1>4. ASSUME NEW c \in Conns, GetOrAddConnection(c)
        PROVE  Accounted'
    <2>1. /\ UNCHANGED <<handlers, correlationIDs, failed, call, holder>> /\ status[c] = "new"
          /\ \A d \in Conns \ {c} : status'[d] = status[d]
      BY <1>4 DEF GetOrAddConnection, handlerVars, userVars, BinderTypeOK
    <2>2. \A i \in Ids : handlers[i][c] = 0 /\ correlationIDs[i][c] = 0 /\ ~Awaited(i, c)
      BY <2>1 DEF Accounted, Fresh, Awaited
    <2>3. \A i \in Ids, d \in Conns : Awaited(i, d)' <=> Awaited(i, d)
      BY <2>1 DEF Awaited
    <2> QED  BY <2>1, <2>2, <2>3 DEF Accounted
  <1>5. ASSUME NEW c \in Conns, Close(c)
        PROVE  Accounted'
    <2>1. /\ UNCHANGED <<correlationIDs, failed, call, holder>> /\ status'[c] = "closed"
          /\ \A d \in Conns \ {c} : status'[d] = status[d]
      BY <1>5 DEF Close, userVars, BinderTypeOK
    <2>2. \A i \in Ids, d \in Conns : handlers'[i][d] = IF d = c THEN 0 ELSE handlers[i][d]
      BY <1>0, <1>5, CloseEffect
    <2>3. \A i \in Ids, d \in Conns : Awaited(i, d)' <=> Awaited(i, d)
      BY <2>1 DEF Awaited
    <2> QED  BY <2>1, <2>2, <2>3 DEF Accounted
  <1>6. ASSUME NEW c \in Conns, Publish(c) \/ PublishClosed(c) \/ RemoveConnection(c)
        PROVE  Accounted'
    <2>1. UNCHANGED <<status, handlers, correlationIDs, failed, call, holder>>
      BY <1>6, QuietSteps DEF Quiet, handlerVars, userVars
    <2> QED  BY <1>1, <2>1 DEF Awaited
  <1>7. ASSUME NEW id \in Ids, Add(id)
        PROVE  Accounted'
    <2>1. /\ UNCHANGED <<status, handlers, correlationIDs, failed>> /\ holder = Free
          /\ call[id] = "new" /\ \A i \in Ids \ {id} : call'[i] = call[i]
      BY <1>7 DEF Add, connVars, handlerVars, BinderTypeOK
    <2>2. \A i \in Ids, d \in Conns : ~Awaited(i, d)'
      BY <1>7, HolderSteps DEF Awaited
    <2> QED  BY <1>1, <1>2, <2>1, <2>2
  <1>8. ASSUME NEW id \in Ids, NEW c \in Conns, AddSends(id, c)
        PROVE  Accounted'
    <2>1. /\ UNCHANGED <<status, correlationIDs, failed, call>> /\ SendAddRequest(id, c) /\ status[c] = "open"
          /\ holder.op = "add" /\ holder.id = {id} /\ c \notin holder.sent
          /\ holder' = [holder EXCEPT !.sent = @ \union {c}]
      BY <1>8 DEF AddSends, connVars, userVars
    <2>2. \A i \in Ids, d \in Conns : Awaited(i, d)' <=> Awaited(i, d) \/ (i = id /\ d = c)
      BY <2>1 DEF Awaited, BinderTypeOK
    <2>3. \A i \in Ids, d \in Conns : handlers'[i][d] = handlers[i][d] + (IF i = id /\ d = c THEN 1 ELSE 0)
      BY <1>0, <2>1, SendEffect
    <2>4. id \notin failed /\ ~Awaited(id, c)
      BY <2>1 DEF Locked, Awaited
    <2> QED  BY <1>0, <2>1, <2>2, <2>3, <2>4 DEF Accounted
  <1>9. ASSUME NEW id \in Ids, NEW c \in Conns, AddIsAnswered(id, c)
        PROVE  Accounted'
    <2>1. UNCHANGED <<status, handlers, correlationIDs, failed, call>> /\ holder' = [holder EXCEPT !.answered = @ \union {c}]
      BY <1>9 DEF AddIsAnswered, connVars, handlerVars, userVars
    <2>2. holder'.op = holder.op /\ holder'.id = holder.id /\ holder'.sent = holder.sent
      BY <2>1 DEF BinderTypeOK
    <2> QED  BY <1>1, <2>1, <2>2 DEF Awaited
  <1>10. ASSUME NEW id \in Ids, AddReturns(id)
         PROVE  Accounted'
    <2>1. PICK cs \in SUBSET Conns : updateCorrelationIDs(id, cs) /\ cs = holder.sent
      BY <1>10, Subscribing
    <2>2. /\ UNCHANGED <<status, handlers, failed>> /\ holder' = Free /\ holder.op = "add" /\ holder.id = {id}
          /\ call'[id] = "added" /\ \A i \in Ids \ {id} : call'[i] = call[i]
      BY <1>10 DEF AddReturns, connVars, BinderTypeOK
    <2>3. \A i \in Ids, d \in Conns : Awaited(i, d) <=> i = id /\ d \in cs
      BY <2>1, <2>2 DEF Awaited
    <2>4. \A i \in Ids, d \in Conns :
            correlationIDs'[i][d] = correlationIDs[i][d] + (IF i = id /\ d \in cs THEN 1 ELSE 0)
      BY <1>0, <2>1, CorrelationEffect
    <2> QED  BY <1>0, <1>3, <2>2, <2>3, <2>4 DEF Accounted
  <1>11. ASSUME NEW id \in Ids, NEW refused \in SUBSET Conns, AddFails(id, refused)
         PROVE  Accounted'
    <2>1. /\ UNCHANGED <<status, correlationIDs>> /\ failed' = failed \cup {id}
          /\ holder' = Free /\ holder.op = "add" /\ holder.id = {id}
          /\ call'[id] = "failed" /\ \A i \in Ids \ {id} : call'[i] = call[i]
      BY <1>11 DEF AddFails, connVars, BinderTypeOK
    <2>2. \A c \in refused : Awaited(id, c)
      BY <1>11, AwaitedIsThere
    <2>3. \A i \in Ids, d \in Conns :
            handlers'[i][d] = handlers[i][d] - (IF i = id /\ d \in refused /\ status[d] = "open" THEN 1 ELSE 0)
      BY <1>0, <1>11, AwaitedIsThere, RefusedEffect
    <2>4. id \notin failed
      BY <2>1 DEF Locked
    <2>5. \A i \in Ids \ {id}, d \in Conns : ~Awaited(i, d)
      BY <2>1 DEF Awaited
    <2>6. \A d \in Conns : ~Awaited(id, d) => d \notin refused
      BY <2>2
    <2> QED  BY <1>0, <1>3, <2>1, <2>3, <2>4, <2>5, <2>6 DEF Accounted
  <1>12. ASSUME NEW id \in Ids, Remove(id)
         PROVE  Accounted'
    <2>1. /\ UNCHANGED <<status, failed>> /\ holder = Free /\ removeCorrelationIDs(id)
          /\ \A i \in Ids \ {id} : call'[i] = call[i]
      BY <1>12 DEF Remove, connVars, BinderTypeOK
    <2>2. \A i \in Ids, d \in Conns : ~Awaited(i, d)'
      BY <1>12 DEF Remove, Free, Awaited
    <2>3. \A i \in Ids, d \in Conns :
                /\ correlationIDs'[i][d] = IF i = id THEN 0 ELSE correlationIDs[i][d]
                /\ handlers'[i][d] = IF i # id THEN handlers[i][d]
                                     ELSE IF status[d] = "open" THEN handlers[i][d] - correlationIDs[i][d] ELSE 0
      BY <1>0, <2>1, RemoveEffect DEF Accounted
    <2> QED  BY <1>0, <1>2, <2>1, <2>2, <2>3 DEF Accounted
  <1>13. ASSUME NEW id \in Ids, RemoveReturns(id)
         PROVE  Accounted'
    <2>1. /\ UNCHANGED <<status, handlers, correlationIDs, failed>> /\ holder' = Free /\ holder.op = "remove" /\ holder.id = {id}
          /\ \A i \in Ids \ {id} : call'[i] = call[i]
      BY <1>13 DEF RemoveReturns, connVars, handlerVars, BinderTypeOK
    <2>2. call[id] = "removing" /\ \A i \in Ids, d \in Conns : ~Awaited(i, d)
      BY <2>1 DEF Locked, Awaited
    <2> QED  BY <1>1, <1>3, <2>1, <2>2
  <1>14. ASSUME NEW id \in Ids, OpenedRegisters(id)
         PROVE  Accounted'
    <2>1. PICK c \in Conns : status[c] = "open" /\ SendAddRequest(id, c) /\ updateCorrelationIDs(id, {c})
      BY <1>14, RegistersEffect
    <2>2. /\ UNCHANGED <<status, failed, call>> /\ holder.op = "opened" /\ id \in holder.id
          /\ holder' = [holder EXCEPT !.id = @ \ {id}]
      BY <1>14 DEF OpenedRegisters, connVars, userVars
    <2>3. holder'.op = "opened"
      BY <2>2 DEF BinderTypeOK
    <2>4. \A i \in Ids, d \in Conns :
            /\ handlers'[i][d] = handlers[i][d] + (IF i = id /\ d = c THEN 1 ELSE 0)
            /\ correlationIDs'[i][d] = correlationIDs[i][d] + (IF i = id /\ d = c THEN 1 ELSE 0)
      BY <1>0, <2>1, SendEffect, CorrelationEffect
    <2>5. \A i \in Ids, d \in Conns : ~Awaited(i, d) /\ ~Awaited(i, d)'
      BY <2>2, <2>3 DEF Awaited
    <2>6. call[id] \notin {"new", "adding", "removing", "removed"}
      BY <2>2 DEF Locked
    <2> QED  BY <1>0, <2>1, <2>2, <2>4, <2>5, <2>6 DEF Accounted
  <1>15. ASSUME handleConnectionOpened
         PROVE  Accounted'
    <2>1. UNCHANGED <<status, handlers, correlationIDs, failed, call>> /\ holder = Free
      BY <1>15 DEF handleConnectionOpened, connVars, handlerVars, userVars
    <2>2. \A i \in Ids, d \in Conns : ~Awaited(i, d)'
      BY <1>15, HolderSteps DEF Awaited
    <2> QED  BY <1>1, <1>2, <2>1, <2>2
  <1>16. ASSUME OpenedFails \/ OpenedReturns
         PROVE  Accounted'
    <2>1. UNCHANGED <<status, handlers, correlationIDs, failed, call>> /\ holder' = Free /\ holder.op = "opened"
      BY <1>16 DEF OpenedFails, OpenedReturns, connVars, handlerVars, userVars
    <2>2. \A i \in Ids, d \in Conns : ~Awaited(i, d)
      BY <2>1 DEF Awaited
    <2> QED  BY <1>1, <1>3, <2>1, <2>2
  <1>17. ASSUME OpenedIsDropped \/ handleConnectionClosed \/ UNCHANGED binderVars
         PROVE  Accounted'
    <2>1. UNCHANGED <<status, handlers, correlationIDs, failed, call, holder>>
      BY <1>17 DEF OpenedIsDropped, handleConnectionClosed, binderVars, connVars, handlerVars, userVars
    <2> QED  BY <1>1, <2>1 DEF Awaited
  <1> QED  BY <1>4, <1>5, <1>6, <1>7, <1>8, <1>9, <1>10, <1>11, <1>12, <1>13, <1>14, <1>15, <1>16, <1>17
           DEF BinderNext, AddStep, HandlerStep

\* A handler is added where there was none, unless the subscription was forgotten.
LEMMA NextTwice ==
    ASSUME BinderTypeOK, Locked, Accounted, Subscribed, TwiceOnlyIfForgotten, [BinderNext]_binderVars
    PROVE  TwiceOnlyIfForgotten'
  <1>0. /\ handlers \in Counts /\ correlationIDs \in Counts
        /\ \A i \in Ids, d \in Conns : handlers[i][d] \in Nat /\ correlationIDs[i][d] \in Nat
    BY CountsTyped DEF Counts
  <1>1. ASSUME failed \subseteq failed', forgotten \subseteq forgotten',
               \A i \in Ids, d \in Conns : handlers'[i][d] \in Nat /\ handlers'[i][d] <= handlers[i][d]
        PROVE  TwiceOnlyIfForgotten'
    BY <1>0, <1>1 DEF TwiceOnlyIfForgotten
  <1>2. ASSUME NEW id \in Ids, NEW c \in Conns, AddSends(id, c)
        PROVE  TwiceOnlyIfForgotten'
    <2>1. /\ UNCHANGED <<failed, forgotten>> /\ SendAddRequest(id, c) /\ status[c] = "open"
          /\ holder.op = "add" /\ holder.id = {id} /\ c \notin holder.sent
      BY <1>2 DEF AddSends, userVars, historyVars
    <2>2. \A i \in Ids, d \in Conns : handlers'[i][d] = handlers[i][d] + (IF i = id /\ d = c THEN 1 ELSE 0)
      BY <1>0, <2>1, SendEffect
    <2>3. call[id] = "adding" /\ id \notin failed /\ ~Awaited(id, c)
      BY <2>1 DEF Locked, Awaited
    <2>4. handlers[id][c] = 0
      BY <1>0, <2>1, <2>3 DEF Accounted
    <2> QED  BY <1>0, <2>1, <2>2, <2>4 DEF TwiceOnlyIfForgotten
  <1>3. ASSUME NEW id \in Ids, OpenedRegisters(id)
        PROVE  TwiceOnlyIfForgotten'
    <2>1. PICK c \in Conns : holder.conns = {c} /\ status[c] = "open" /\ SendAddRequest(id, c)
      BY <1>3, RegistersEffect
    <2>2. UNCHANGED <<failed, forgotten>> /\ holder.op = "opened" /\ id \in holder.id
      BY <1>3 DEF OpenedRegisters, userVars, historyVars
    <2>3. \A i \in Ids, d \in Conns : handlers'[i][d] = handlers[i][d] + (IF i = id /\ d = c THEN 1 ELSE 0)
      BY <1>0, <2>1, SendEffect
    <2>4. <<id, c>> \in forgotten \/ correlationIDs[id][c] = 0
      BY <1>0, <2>1, <2>2 DEF Subscribed
    <2>5. id \in failed \/ <<id, c>> \in forgotten \/ handlers[id][c] = 0
      BY <1>0, <2>1, <2>2, <2>4 DEF Accounted, Awaited
    <2> QED  BY <1>0, <2>2, <2>3, <2>5 DEF TwiceOnlyIfForgotten
  <1>4. ASSUME NEW id \in Ids, Remove(id)
        PROVE  TwiceOnlyIfForgotten'
    <2>1. failed' = failed /\ removeCorrelationIDs(id)
      BY <1>4 DEF Remove
    <2>2. \A i \in Ids, d \in Conns :
            handlers'[i][d] = IF i # id THEN handlers[i][d]
                              ELSE IF status[d] = "open" THEN handlers[i][d] - correlationIDs[i][d] ELSE 0
      BY <1>0, <2>1, RemoveEffect DEF Accounted
    <2>3. \A d \in Conns : status[d] = "open" => handlers[id][d] >= correlationIDs[id][d]
      BY DEF Accounted
    <2>4. forgotten \subseteq forgotten'
      BY <1>4, Unsubscribing, UnsubscribeEffect
    <2> QED  BY <1>0, <1>1, <2>1, <2>2, <2>3, <2>4
  <1>5. ASSUME NEW id \in Ids, NEW refused \in SUBSET Conns, AddFails(id, refused)
        PROVE  TwiceOnlyIfForgotten'
    <2>1. failed' = failed \cup {id} /\ forgotten' = forgotten
      BY <1>5 DEF AddFails
    <2>2. /\ handlers' \in Counts
          /\ \A i \in Ids, d \in Conns :
               handlers'[i][d] = handlers[i][d] - (IF i = id /\ d \in refused /\ status[d] = "open" THEN 1 ELSE 0)
      BY <1>0, <1>5, AwaitedIsThere, RefusedEffect
    <2>3. \A i \in Ids, d \in Conns : handlers'[i][d] \in Nat /\ handlers'[i][d] <= handlers[i][d]
      BY <1>0, <2>2 DEF Counts
    <2> QED  BY <1>1, <2>1, <2>3
  <1>6. ASSUME NEW c \in Conns, Close(c)
        PROVE  TwiceOnlyIfForgotten'
    <2>1. UNCHANGED <<failed, forgotten>>
      BY <1>6 DEF Close, userVars
    <2>2. \A i \in Ids, d \in Conns : handlers'[i][d] = IF d = c THEN 0 ELSE handlers[i][d]
      BY <1>0, <1>6, CloseEffect
    <2> QED  BY <1>0, <1>1, <2>1, <2>2
  <1>7. ASSUME handlers' = handlers, failed' = failed, forgotten \subseteq forgotten'
        PROVE  TwiceOnlyIfForgotten'
    BY <1>0, <1>1, <1>7
  <1>8. ASSUME NEW c \in Conns, GetOrAddConnection(c) \/ Publish(c) \/ PublishClosed(c) \/ RemoveConnection(c)
        PROVE  TwiceOnlyIfForgotten'
    BY <1>7, <1>8, QuietSteps DEF Quiet, handlerVars, userVars
  <1>9. ASSUME NEW id \in Ids, Add(id) \/ AddReturns(id) \/ RemoveReturns(id) \/ (\E c \in Conns : AddIsAnswered(id, c))
        PROVE  TwiceOnlyIfForgotten'
    BY <1>7, <1>9 DEF Add, AddReturns, RemoveReturns, AddIsAnswered, handlerVars, userVars, historyVars
  <1>10. ASSUME OpenedIsDropped \/ handleConnectionOpened \/ OpenedFails \/ OpenedReturns \/ UNCHANGED binderVars
         PROVE  TwiceOnlyIfForgotten'
    BY <1>7, <1>10 DEF OpenedIsDropped, handleConnectionOpened, OpenedFails, OpenedReturns, binderVars, handlerVars,
                       userVars, historyVars
  <1>11. ASSUME handleConnectionClosed
         PROVE  TwiceOnlyIfForgotten'
    <2>1. forgotten \subseteq forgotten'
      BY <1>11, Unsubscribing, UnsubscribeEffect
    <2> QED  BY <1>7, <1>11, <2>1 DEF handleConnectionClosed, handlerVars, userVars
  <1> QED  BY <1>2, <1>3, <1>4, <1>5, <1>6, <1>8, <1>9, <1>10, <1>11 DEF BinderNext, AddStep, HandlerStep

LEMMA NextSubscribed ==
    ASSUME BinderTypeOK, Locked, Fresh, Accounted, Subscribed, [BinderNext]_binderVars
    PROVE  Subscribed'
  <1> USE MemberTyped
  <1> DEFINE Todo(i, d) == holder.op = "opened" /\ i \in holder.id /\ d \in holder.conns
  <1>0. /\ handlers \in Counts /\ correlationIDs \in Counts
        /\ \A i \in Ids, d \in Conns : correlationIDs[i][d] \in Nat
    BY CountsTyped DEF Counts
  <1>1. ASSUME UNCHANGED <<subscriptionToMembers, forgotten, correlationIDs>>,
               \A i \in Ids, d \in Conns : (status'[d] = "open" /\ correlationIDs[i][d] > 0) => status[d] = "open",
               \A i \in Ids, d \in Conns : Todo(i, d)' => Todo(i, d) \/ member[d] \notin subscriptionToMembers[i]
        PROVE  Subscribed'
    BY <1>0, <1>1 DEF Subscribed
  <1>2. ASSUME NEW c \in Conns, GetOrAddConnection(c)
        PROVE  Subscribed'
    <2>1. UNCHANGED <<subscriptionToMembers, forgotten, correlationIDs, holder>>
      BY <1>2, QuietSteps DEF Quiet, tableVars, handlerVars
    <2>2. \A i \in Ids, d \in Conns : (status'[d] = "open" /\ correlationIDs[i][d] > 0) => status[d] = "open"
      BY <1>2 DEF GetOrAddConnection, Fresh, BinderTypeOK
    <2> QED  BY <1>1, <2>1, <2>2
  <1>3. ASSUME NEW c \in Conns, Close(c)
        PROVE  Subscribed'
    <2>1. UNCHANGED <<subscriptionToMembers, forgotten, correlationIDs, holder>>
      BY <1>3 DEF Close, tableVars
    <2>2. \A d \in Conns : status'[d] = "open" => status[d] = "open"
      BY <1>3 DEF Close, BinderTypeOK
    <2> QED  BY <1>1, <2>1, <2>2
  <1>4. ASSUME NEW c \in Conns, Publish(c) \/ PublishClosed(c) \/ RemoveConnection(c)
        PROVE  Subscribed'
    <2>1. UNCHANGED <<subscriptionToMembers, forgotten, correlationIDs, holder, status>>
      BY <1>4, QuietSteps DEF Quiet, tableVars, handlerVars
    <2> QED  BY <1>1, <2>1
  <1>5. ASSUME NEW id \in Ids, Add(id) \/ RemoveReturns(id) \/ (\E c \in Conns : AddSends(id, c) \/ AddIsAnswered(id, c))
                                \/ (\E refused \in SUBSET Conns : AddFails(id, refused))
        PROVE  Subscribed'
    <2>1. UNCHANGED <<subscriptionToMembers, forgotten, correlationIDs, status>>
      BY <1>5 DEF Add, RemoveReturns, AddSends, AddIsAnswered, AddFails, tableVars, handlerVars, connVars, historyVars
    <2>2. holder'.op # "opened"
      BY <1>5, HolderOps
    <2> QED  BY <1>1, <2>1, <2>2
  <1>6. ASSUME OpenedIsDropped \/ OpenedFails \/ OpenedReturns \/ UNCHANGED binderVars
        PROVE  Subscribed'
    <2>1. UNCHANGED <<subscriptionToMembers, forgotten, correlationIDs, status>>
      BY <1>6 DEF OpenedIsDropped, OpenedFails, OpenedReturns, binderVars, tableVars, handlerVars, connVars, historyVars
    <2>2. holder' = holder \/ holder'.op # "opened"
      BY <1>6 DEF OpenedIsDropped, OpenedFails, OpenedReturns, binderVars, Free
    <2> QED  BY <1>1, <2>1, <2>2
  <1>7. ASSUME handleConnectionOpened
        PROVE  Subscribed'
    <2> DEFINE c == Head(inbox).conn
    <2>1. /\ UNCHANGED <<subscriptionToMembers, forgotten, correlationIDs, status>>
          /\ holder' = [Free EXCEPT !.op = "opened", !.id = {id \in regs : ~connExists(c, id)}, !.conns = {c}]
      BY <1>7 DEF handleConnectionOpened, tableVars, handlerVars, connVars
    <2> HIDE DEF c
    <2>2. \A i \in Ids, d \in Conns : Todo(i, d)' => member[d] \notin subscriptionToMembers[i]
      BY <2>1 DEF Free, connExists
    <2> QED  BY <1>1, <2>1, <2>2
  <1>8. ASSUME NEW id \in Ids, AddReturns(id) \/ OpenedRegisters(id)
        PROVE  Subscribed'
    <2>1. PICK cs \in SUBSET Conns :
             /\ cs = holder.conns
             /\ updateCorrelationIDs(id, cs)
             /\ \A i \in Ids, m \in Members :
                  m \in subscriptionToMembers'[i] <=>
                       m \in subscriptionToMembers[i] \/ (i = id /\ \E c \in cs : m = member[c])
      BY <1>8, Subscribing
    <2>2. \A i \in Ids, d \in Conns :
            correlationIDs'[i][d] = correlationIDs[i][d] + (IF i = id /\ d \in cs THEN 1 ELSE 0)
      BY <1>0, <2>1, CorrelationEffect
    <2>3. UNCHANGED <<status, forgotten>>
      BY <1>8 DEF AddReturns, OpenedRegisters, connVars, historyVars
    <2>4. \A i \in Ids, d \in Conns : Todo(i, d)' => Todo(i, d) /\ i # id
      <3>1. CASE AddReturns(id)
        BY <3>1 DEF AddReturns, Free
      <3>2. CASE OpenedRegisters(id)
        BY <3>2 DEF OpenedRegisters, BinderTypeOK
      <3> QED  BY <1>8, <3>1, <3>2
    <2>5. ASSUME NEW i \in Ids, NEW d \in Conns, status[d] = "open", correlationIDs'[i][d] > 0
          PROVE  <<i, d>> \in forgotten \/ member[d] \in subscriptionToMembers'[i]
      <3>1. CASE i = id /\ d \in cs
        BY <2>1, <3>1
      <3>2. CASE ~(i = id /\ d \in cs)
        <4>1. correlationIDs[i][d] > 0
          BY <1>0, <2>2, <2>5, <3>2
        <4> QED  BY <2>1, <2>5, <4>1 DEF Subscribed
      <3> QED  BY <3>1, <3>2
    <2>6. ASSUME NEW i \in Ids, NEW d \in Conns, Todo(i, d)'
          PROVE  member[d] \notin subscriptionToMembers'[i]
      BY <2>1, <2>4, <2>6 DEF Subscribed
    <2> QED  BY <2>3, <2>5, <2>6 DEF Subscribed
  <1>9. ASSUME handleConnectionClosed \/ \E id \in Ids : Remove(id)
        PROVE  Subscribed'
    <2>1. PICK ms \in SUBSET Members : removeMemberSubscriptions(ms)
      BY <1>9, Unsubscribing
    <2>2. /\ forgotten \subseteq forgotten'
          /\ \A i \in Ids :
                \/ subscriptionToMembers'[i] = subscriptionToMembers[i]
                \/ /\ subscriptionToMembers'[i] = {}
                   /\ \A c \in Conns : status[c] = "open" /\ member[c] \in subscriptionToMembers[i] =>
                        <<i, c>> \in forgotten'
      BY <2>1, UnsubscribeEffect
    <2>3. \A i \in Ids, d \in Conns : correlationIDs'[i][d] > 0 => correlationIDs[i][d] > 0
      <3>1. CASE handleConnectionClosed
        BY <3>1 DEF handleConnectionClosed, handlerVars
      <3>2. ASSUME NEW id \in Ids, Remove(id)
            PROVE  \A i \in Ids, d \in Conns : correlationIDs'[i][d] > 0 => correlationIDs[i][d] > 0
        <4>1. removeCorrelationIDs(id)
          BY <3>2 DEF Remove
        <4>2. \A i \in Ids, d \in Conns : correlationIDs'[i][d] = IF i = id THEN 0 ELSE correlationIDs[i][d]
          BY <1>0, <4>1, RemoveEffect DEF Accounted
        <4> QED  BY <1>0, <4>2
      <3> QED  BY <1>9, <3>1, <3>2
    <2>4. status' = status /\ holder'.op # "opened"
      BY <1>9, HolderOps DEF handleConnectionClosed, Remove, connVars
    <2> QED  BY <2>2, <2>3, <2>4 DEF Subscribed
  <1> QED  BY <1>2, <1>3, <1>4, <1>5, <1>6, <1>7, <1>8, <1>9 DEF BinderNext, AddStep, HandlerStep

-----------------------------------------------------------------------------
(* What the tables say comes from a connection *)

LEMMA NextBacked ==
    ASSUME BinderTypeOK, OpenIsMapped, Fresh, Locked, Accounted, TablesAgree, Backed, [BinderNext]_binderVars
    PROVE  Backed'
  <1> USE MemberTyped
  <1> DEFINE Alive(d) == status[d] = "open" \/ WillClose(d)
             Behind(i, m) == \E d \in Conns : member[d] = m /\ correlationIDs[i][d] > 0 /\ Alive(d)
  <1>0. /\ handlers \in Counts /\ correlationIDs \in Counts
        /\ \A i \in Ids, d \in Conns : correlationIDs[i][d] \in Nat
    BY CountsTyped DEF Counts
  <1>a. /\ \A id \in regs : \A m \in subscriptionToMembers[id] : Behind(id, m)
        /\ holder.op = "add" => \A c \in holder.conns : Alive(c)
    BY DEF Backed
  <1>b. ASSUME \A id \in regs' : \A m \in subscriptionToMembers'[id] : Behind(id, m)',
               holder'.op = "add" => \A c \in holder'.conns : Alive(c)'
        PROVE  Backed'
    BY <1>b DEF Backed
  <1>c. ASSUME connectionCount' = connectionCount \/ connectionCount' = connectionCount + 1
        PROVE  \A d \in Conns : Alive(d) => Alive(d)'
    <2> SUFFICES ASSUME NEW d \in Conns, Alive(d)
                 PROVE  Alive(d)'
      OBVIOUS
    <2>1. WillClose(d) => WillClose(d)'
      <3>1. ~handleConnectionClosed
        BY <1>c DEF handleConnectionClosed, BinderTypeOK
      <3> QED  BY <3>1, EventsKept
    <2>2. ASSUME status[d] = "open", status'[d] # "open"
          PROVE  WillClose(d)'
      <3>1. ASSUME NEW c \in Conns, Close(c)
            PROVE  c = d /\ WillClose(d)'
        <4>1. \A e \in Conns \ {c} : status'[e] = status[e]
          BY <3>1 DEF Close, BinderTypeOK
        <4>2. c = d
          BY <2>2, <4>1
        <4> QED  BY <3>1, <4>2 DEF Close, WillClose
      <3>2. ASSUME NEW c \in Conns, GetOrAddConnection(c)
            PROVE  FALSE
        <4>1. status[c] = "new" /\ \A e \in Conns \ {c} : status'[e] = status[e]
          BY <3>2 DEF GetOrAddConnection, BinderTypeOK
        <4> QED  BY <2>2, <4>1
      <3>3. ASSUME NEW c \in Conns, Publish(c) \/ PublishClosed(c) \/ RemoveConnection(c)
            PROVE  FALSE
        BY <2>2, <3>3, QuietSteps
      <3>4. ASSUME NEW id \in Ids, Add(id) \/ AddStep(id) \/ Remove(id) \/ RemoveReturns(id)
            PROVE  FALSE
        BY <2>2, <3>4 DEF Add, AddStep, AddSends, AddIsAnswered, AddReturns, AddFails, Remove, RemoveReturns, connVars
      <3>5. ASSUME HandlerStep \/ UNCHANGED binderVars
            PROVE  FALSE
        BY <2>2, <3>5 DEF HandlerStep, OpenedIsDropped, handleConnectionOpened, handleConnectionClosed, OpenedRegisters,
                    OpenedFails, OpenedReturns, connVars, binderVars
      <3> QED  BY <3>1, <3>2, <3>3, <3>4, <3>5 DEF BinderNext
    <2> QED  BY <2>1, <2>2
  <1> HIDE DEF Alive
  <1>d. ASSUME \A d \in Conns : Alive(d) => Alive(d)',
               regs' \subseteq regs, UNCHANGED <<subscriptionToMembers, correlationIDs>>,
               (holder'.op = "add") => (holder.op = "add" /\ holder'.conns = holder.conns)
        PROVE  Backed'
    <2>1. \A id \in regs' : \A m \in subscriptionToMembers'[id] : Behind(id, m)'
      BY <1>a, <1>d
    <2>2. holder'.op = "add" => \A c \in holder'.conns : Alive(c)'
      BY <1>a, <1>d DEF BinderTypeOK
    <2> HIDE DEF Behind
    <2> QED  BY <1>b, <2>1, <2>2
  <1>1. ASSUME NEW c \in Conns, GetOrAddConnection(c) \/ Publish(c) \/ PublishClosed(c) \/ RemoveConnection(c) \/ Close(c)
        PROVE  Backed'
    <2>1. UNCHANGED <<subscriptionToMembers, correlationIDs, regs, holder>>
      BY <1>1, QuietSteps DEF Quiet, tableVars, handlerVars, Close
    <2>2. connectionCount' = connectionCount
      BY <1>1 DEF GetOrAddConnection, Publish, PublishClosed, RemoveConnection, Close
    <2> QED  BY <1>c, <1>d, <2>1, <2>2
  <1>2. ASSUME NEW id \in Ids, Add(id)
        PROVE  Backed'
    <2>1. /\ UNCHANGED <<subscriptionToMembers, correlationIDs, connectionCount, status>>
          /\ regs' = regs \cup {id} /\ call[id] = "new"
          /\ holder' = [Free EXCEPT !.op = "add", !.id = {id}, !.conns = {c \in ActiveConnections : ~connExists(c, id)}]
      BY <1>2 DEF Add, handlerVars, connVars
    <2>2. subscriptionToMembers[id] = {} /\ \A d \in Conns : Alive(d) => Alive(d)'
      BY <1>c, <2>1 DEF Locked
    <2>3. \A c \in holder'.conns : c \in Conns /\ status[c] = "open"
      BY <2>1 DEF Free, ActiveConnections
    <2>4. \A c \in holder'.conns : Alive(c)'
      BY <2>1, <2>3 DEF Alive
    <2>5. \A i \in regs' : \A m \in subscriptionToMembers'[i] : Behind(i, m)'
      BY <1>a, <2>1, <2>2
    <2> HIDE DEF Behind
    <2> QED  BY <1>b, <2>4, <2>5
  <1>3. ASSUME NEW id \in Ids, NEW c \in Conns, AddSends(id, c) \/ AddIsAnswered(id, c)
        PROVE  Backed'
    <2>1. UNCHANGED <<subscriptionToMembers, correlationIDs, connectionCount, regs>>
      BY <1>3 DEF AddSends, AddIsAnswered, tableVars, handlerVars
    <2>2. holder'.op = holder.op /\ holder'.conns = holder.conns
      BY <1>3 DEF AddSends, AddIsAnswered, BinderTypeOK
    <2> QED  BY <1>c, <1>d, <2>1, <2>2
  <1>4. ASSUME NEW id \in Ids, AddReturns(id) \/ OpenedRegisters(id)
        PROVE  Backed'
    <2>1. PICK cs \in SUBSET Conns :
             /\ cs = holder.conns
             /\ updateCorrelationIDs(id, cs)
             /\ \A i \in Ids, m \in Members :
                  m \in subscriptionToMembers'[i] <=>
                       m \in subscriptionToMembers[i] \/ (i = id /\ \E c \in cs : m = member[c])
      BY <1>4, Subscribing
    <2>2. \A i \in Ids, d \in Conns :
            correlationIDs'[i][d] = correlationIDs[i][d] + (IF i = id /\ d \in cs THEN 1 ELSE 0)
      BY <1>0, <2>1, CorrelationEffect
    <2>3. regs' = regs /\ connectionCount' = connectionCount
      BY <1>4 DEF AddReturns, OpenedRegisters
    <2>4. holder'.op # "add"
      <3>1. CASE AddReturns(id)
        BY <3>1 DEF AddReturns, Free
      <3>2. CASE OpenedRegisters(id)
        BY <3>2 DEF OpenedRegisters, BinderTypeOK
      <3> QED  BY <1>4, <3>1, <3>2
    <2>5. \A d \in Conns : Alive(d) => Alive(d)'
      BY <1>c, <2>3
    <2>6. \A c \in cs : Alive(c)
      <3>1. CASE AddReturns(id)
        BY <1>a, <2>1, <3>1 DEF AddReturns
      <3>2. CASE OpenedRegisters(id)
        BY <2>1, <3>2, RegistersEffect DEF Alive
      <3> QED  BY <1>4, <3>1, <3>2
    <2>7. ASSUME NEW i \in regs', NEW m \in subscriptionToMembers'[i]
          PROVE  Behind(i, m)'
      <3>1. i \in regs /\ i \in Ids /\ m \in Members
        BY <2>3, NextTyped DEF BinderTypeOK
      <3>2. CASE m \in subscriptionToMembers[i]
        <4>1. PICK d \in Conns : member[d] = m /\ correlationIDs[i][d] > 0 /\ Alive(d)
          BY <1>a, <3>1, <3>2
        <4>2. correlationIDs'[i][d] > 0 /\ Alive(d)'
          BY <1>0, <2>2, <2>5, <3>1, <4>1
        <4> QED  BY <4>1, <4>2
      <3>3. CASE m \notin subscriptionToMembers[i]
        <4>1. i = id /\ \E c \in cs : m = member[c]
          BY <2>1, <3>1, <3>3
        <4>2. PICK c \in cs : m = member[c]
          BY <4>1
        <4>3. correlationIDs'[i][c] > 0 /\ Alive(c)'
          BY <1>0, <2>2, <2>5, <2>6, <4>1, <4>2
        <4> QED  BY <4>2, <4>3
      <3> QED  BY <3>2, <3>3
    <2> HIDE DEF Behind
    <2> QED  BY <1>b, <2>4, <2>7
  <1>5. ASSUME NEW id \in Ids, RemoveReturns(id) \/ \E refused \in SUBSET Conns : AddFails(id, refused)
        PROVE  Backed'
    <2>1. UNCHANGED <<subscriptionToMembers, correlationIDs, connectionCount, regs>> /\ holder' = Free
      BY <1>5 DEF RemoveReturns, AddFails, tableVars, handlerVars
    <2>2. holder'.op # "add"
      BY <2>1 DEF Free
    <2> QED  BY <1>c, <1>d, <2>1, <2>2
  <1>6. ASSUME OpenedIsDropped \/ OpenedFails \/ OpenedReturns \/ UNCHANGED binderVars
        PROVE  Backed'
    <2>1. /\ UNCHANGED <<subscriptionToMembers, correlationIDs, regs>> /\ (holder' = Free \/ holder' = holder)
          /\ connectionCount' = connectionCount \/ connectionCount' = connectionCount + 1
      BY <1>6 DEF OpenedIsDropped, OpenedFails, OpenedReturns, binderVars, tableVars, handlerVars
    <2>2. Free.op # "add"
      BY DEF Free
    <2> QED  BY <1>c, <1>d, <2>1, <2>2
  <1>7. ASSUME handleConnectionOpened
        PROVE  Backed'
    <2>1. /\ UNCHANGED <<subscriptionToMembers, correlationIDs, regs>> /\ connectionCount' = connectionCount + 1
      BY <1>7 DEF handleConnectionOpened, tableVars, handlerVars
    <2>2. holder'.op # "add"
      BY <1>7 DEF handleConnectionOpened, Free
    <2> QED  BY <1>c, <1>d, <2>1, <2>2
  <1>8. ASSUME NEW id \in Ids, Remove(id)
        PROVE  Backed'
    <2>1. /\ UNCHANGED connectionCount /\ regs' = regs \ {id} /\ removeCorrelationIDs(id)
          /\ holder' = [Free EXCEPT !.op = "remove", !.id = {id}]
      BY <1>8 DEF Remove
    <2>2. \A i \in Ids, d \in Conns : correlationIDs'[i][d] = IF i = id THEN 0 ELSE correlationIDs[i][d]
      BY <1>0, <2>1, RemoveEffect DEF Accounted
    <2>3. \A i \in Ids : subscriptionToMembers'[i] \subseteq subscriptionToMembers[i]
      <3>1. PICK ms \in SUBSET Members : removeMemberSubscriptions(ms)
        BY <1>8, Unsubscribing
      <3> QED  BY <3>1, UnsubscribeEffect
    <2>4. holder'.op # "add"
      BY <2>1 DEF Free
    <2>5. regs' \subseteq Ids /\ regs' \subseteq regs /\ id \notin regs' /\ \A d \in Conns : Alive(d) => Alive(d)'
      BY <1>c, <2>1 DEF BinderTypeOK
    <2>6. \A i \in regs' : \A m \in subscriptionToMembers'[i] : Behind(i, m)'
      BY <1>a, <2>2, <2>3, <2>5
    <2> HIDE DEF Behind
    <2> QED  BY <1>b, <2>4, <2>6
  <1>9. ASSUME handleConnectionClosed
        PROVE  Backed'
    <2> DEFINE x == Head(inbox).conn
    <2>1. /\ UNCHANGED <<correlationIDs, regs, status, holder>> /\ holder = Free /\ HeadIs("closed")
      BY <1>9 DEF handleConnectionClosed, handlerVars, connVars
    <2>2. x \in Conns /\ Head(inbox) = Closed(x)
      BY <2>1, HeadTyped DEF HeadIs
    <2>3. PICK ms \in SUBSET Members : removeMemberSubscriptions(ms) /\ ms = {member[x]}
      BY <1>9, Unsubscribing
    <2>4. \A i \in Ids : \/ /\ subscriptionToMembers'[i] = subscriptionToMembers[i]
                            /\ \A m \in ms : i \notin memberSubscriptions[m]
                         \/ subscriptionToMembers'[i] = {}
      BY <2>3, UnsubscribeEffect
    <2> HIDE DEF x
    <2>5. \A d \in Conns : (Alive(d) /\ d # x) => Alive(d)'
      <3> SUFFICES ASSUME NEW d \in Conns, Alive(d), d # x
                   PROVE  Alive(d)'
        OBVIOUS
      <3>1. Head(inbox) # Closed(d)
        BY <2>2, EventTyped
      <3>2. WillClose(d) => WillClose(d)'
        BY <3>1, EventsKept
      <3> QED  BY <2>1, <3>2 DEF Alive
    <2>6. ASSUME NEW i \in regs', NEW m \in subscriptionToMembers'[i]
          PROVE  Behind(i, m)'
      <3>1. i \in regs /\ i \in Ids
        BY <2>1 DEF BinderTypeOK
      <3>2. subscriptionToMembers'[i] = subscriptionToMembers[i] /\ i \notin memberSubscriptions[member[x]]
        BY <2>3, <2>4, <2>6, <3>1
      <3>3. m # member[x]
        BY <2>2, <2>6, <3>1, <3>2 DEF TablesAgree
      <3>4. PICK d \in Conns : member[d] = m /\ correlationIDs[i][d] > 0 /\ Alive(d)
        BY <1>a, <2>6, <3>1, <3>2
      <3>5. correlationIDs'[i][d] > 0 /\ Alive(d)'
        BY <2>1, <2>5, <3>3, <3>4
      <3> QED  BY <3>4, <3>5
    <2>7. holder'.op # "add"
      BY <2>1 DEF Free
    <2> HIDE DEF Behind
    <2> QED  BY <1>b, <2>6, <2>7
  <1> QED  BY <1>1, <1>2, <1>3, <1>4, <1>5, <1>6, <1>7, <1>8, <1>9 DEF BinderNext, AddStep, HandlerStep

-----------------------------------------------------------------------------
(* Every open connection has the listeners, or will be dealt with *)

LEMMA NextListening ==
    ASSUME BinderTypeOK, OpenIsMapped, Fresh, Locked, Accounted, Backed, Listening, [BinderNext]_binderVars
    PROVE  Listening'
  <1> USE MemberTyped
  <1> DEFINE Todo(i, d) == holder.op = "opened" /\ i \in holder.id /\ d \in holder.conns
             Has(i, d) == call[i] = "added" => \/ handlers[i][d] > 0 \/ <<i, d>> \in skipped
                                               \/ WillOpen(d) \/ Todo(i, d)
             Gets(i, d) == call[i] = "adding" => d \in holder.conns \/ <<i, d>> \in skipped \/ WillOpen(d)
  <1>0. /\ handlers \in Counts /\ correlationIDs \in Counts /\ regs \subseteq Ids
        /\ \A i \in Ids, d \in Conns : handlers[i][d] \in Nat /\ correlationIDs[i][d] \in Nat
    BY CountsTyped DEF Counts, BinderTypeOK
  <1>a. \A i \in regs, d \in Conns : status[d] = "open" => Has(i, d) /\ Gets(i, d)
    BY DEF Listening
  <1>b. ASSUME \A i \in regs', d \in Conns : status'[d] = "open" => Has(i, d)' /\ Gets(i, d)'
        PROVE  Listening'
    BY <1>b DEF Listening
  <1>c. ASSUME ~handleConnectionOpened, ~OpenedIsDropped
        PROVE  \A d \in Conns : WillOpen(d) => WillOpen(d)'
    BY <1>c, EventsKept
  <1>d. \A d \in Conns : WillOpen(d) => WillOpen(d)' \/ ((handleConnectionOpened \/ OpenedIsDropped) /\ Head(inbox) = Opened(d))
    BY EventsKept
  <1>e. connectionCount \in Int /\ ((handleConnectionOpened \/ OpenedIsDropped) => connectionCount' = connectionCount + 1)
    BY DEF handleConnectionOpened, OpenedIsDropped, BinderTypeOK
  <1>f. ASSUME connectionCount' = connectionCount
        PROVE  \A d \in Conns : WillOpen(d) => WillOpen(d)'
    BY <1>c, <1>e, <1>f
  <1>1. ASSUME \A d \in Conns : WillOpen(d) => WillOpen(d)',
               \A d \in Conns : status'[d] = "open" => status[d] = "open" \/ WillOpen(d)',
               \A i \in regs' : i \in regs /\ (call'[i] = "added" => call[i] = "added")
                                             /\ (call'[i] = "adding" => call[i] = "adding"),
               \A i \in Ids, d \in Conns :
                 (i \in regs' /\ status'[d] = "open" /\ call'[i] = "added" /\ handlers[i][d] > 0) => handlers'[i][d] > 0,
               \A i \in Ids, d \in Conns : (i \in regs' /\ Todo(i, d)) =>
                 Todo(i, d)' \/ <<i, d>> \in skipped' \/ handlers'[i][d] > 0,
               \A i \in regs' : call'[i] = "adding" => holder.conns \subseteq holder'.conns,
               skipped \subseteq skipped'
        PROVE  Listening'
    <2> SUFFICES ASSUME NEW i \in regs', NEW d \in Conns, status'[d] = "open"
                 PROVE  Has(i, d)' /\ Gets(i, d)'
      BY <1>b
    <2>1. i \in regs /\ i \in Ids
      BY <1>0, <1>1
    <2>2. CASE status[d] = "open"
      <3>1. Has(i, d) /\ Gets(i, d)
        BY <1>a, <2>1, <2>2
      <3>2. Has(i, d)'
        BY <1>1, <2>1, <3>1
      <3>3. Gets(i, d)'
        BY <1>1, <2>1, <3>1
      <3> QED  BY <3>2, <3>3
    <2>3. CASE status[d] # "open"
      BY <1>1, <2>3
    <2> QED  BY <2>2, <2>3
  <1>2. ASSUME NEW c \in Conns, GetOrAddConnection(c)
        PROVE  Listening'
    <2>1. UNCHANGED <<regs, call, holder, handlers, skipped, connectionCount>>
      BY <1>2, QuietSteps DEF Quiet, tableVars, handlerVars, userVars, GetOrAddConnection
    <2>2. \A d \in Conns \ {c} : status'[d] = status[d]
      BY <1>2 DEF GetOrAddConnection, BinderTypeOK
    <2>3. status'[c] = "open" => WillOpen(c)'
      <3>1. CASE uuidToConn[member[c]] = 0
        <4>1. pubs'[c] = <<Opened(c)>>
          BY <1>2, <3>1 DEF GetOrAddConnection, BinderTypeOK
        <4>2. In(Opened(c), pubs'[c])
          BY <4>1 DEF In
        <4> QED  BY <4>2 DEF WillOpen
      <3>2. CASE uuidToConn[member[c]] # 0
        <4>1. status'[c] = "closed"
          BY <1>2, <3>2 DEF GetOrAddConnection, BinderTypeOK
        <4> QED  BY <4>1
      <3> QED  BY <3>1, <3>2
    <2>4. \A d \in Conns : WillOpen(d) => WillOpen(d)'
      BY <1>f, <2>1
    <2> QED  BY <1>1, <2>1, <2>2, <2>3, <2>4
  <1>3. ASSUME NEW c \in Conns, Close(c)
        PROVE  Listening'
    <2>1. UNCHANGED <<regs, call, holder, skipped, connectionCount>>
      BY <1>3 DEF Close, tableVars, userVars
    <2>2. \A d \in Conns : status'[d] = IF d = c THEN "closed" ELSE status[d]
      BY <1>3 DEF Close, BinderTypeOK
    <2>3. \A i \in Ids, d \in Conns : handlers'[i][d] = IF d = c THEN 0 ELSE handlers[i][d]
      BY <1>0, <1>3, CloseEffect
    <2>4. \A d \in Conns : WillOpen(d) => WillOpen(d)'
      BY <1>f, <2>1
    <2> QED  BY <1>1, <2>1, <2>2, <2>3, <2>4
  <1>4. ASSUME NEW c \in Conns, Publish(c) \/ PublishClosed(c) \/ RemoveConnection(c)
        PROVE  Listening'
    <2>1. UNCHANGED <<regs, call, holder, handlers, skipped, status, connectionCount>>
      BY <1>4, QuietSteps DEF Quiet, tableVars, handlerVars, userVars, Publish, PublishClosed, RemoveConnection
    <2>2. \A d \in Conns : WillOpen(d) => WillOpen(d)'
      BY <1>f, <2>1
    <2> QED  BY <1>1, <2>1, <2>2
  <1>5. ASSUME NEW id \in Ids, Add(id)
        PROVE  Listening'
    <2>1. /\ UNCHANGED <<status, uuidToConn, handlers, skipped, connectionCount>> /\ holder = Free
          /\ regs' = regs \cup {id} /\ call[id] = "new" /\ call' = [call EXCEPT ![id] = "adding"]
          /\ holder' = [Free EXCEPT !.op = "add", !.id = {id}, !.conns = {c \in ActiveConnections : ~connExists(c, id)}]
      BY <1>5 DEF Add, connVars, handlerVars, historyVars
    <2>2. \A d \in Conns : WillOpen(d) => WillOpen(d)'
      BY <1>f, <2>1
    <2>3. subscriptionToMembers[id] = {}
      BY <2>1 DEF Locked
    <2>4. \A d \in Conns : status[d] = "open" => d \in ActiveConnections /\ ~connExists(d, id)
      BY <2>3 DEF OpenIsMapped, ActiveConnections, connExists
    <2>5. \A d \in Conns : status[d] = "open" => d \in holder'.conns
      BY <2>1, <2>4 DEF Free
    <2>6. \A i \in regs : call[i] # "adding" /\ \A d \in Conns : ~Todo(i, d)
      BY <1>0, <2>1 DEF Locked, Free
    <2>7. call'[id] = "adding" /\ \A i \in Ids \ {id} : call'[i] = call[i]
      BY <2>1 DEF BinderTypeOK
    <2> SUFFICES ASSUME NEW i \in regs', NEW d \in Conns, status'[d] = "open"
                 PROVE  Has(i, d)' /\ Gets(i, d)'
      BY <1>b
    <2>8. Gets(i, d)'
      BY <2>1, <2>5
    <2>9. CASE i = id
      BY <2>7, <2>8, <2>9
    <2>10. CASE i # id
      <3>1. i \in regs /\ i \in Ids /\ Has(i, d)
        BY <1>0, <1>a, <2>1, <2>10
      <3>2. Has(i, d)'
        BY <2>1, <2>2, <2>6, <2>7, <2>10, <3>1
      <3> QED  BY <2>8, <3>2
    <2> QED  BY <2>9, <2>10
  <1>6. ASSUME NEW id \in Ids, NEW c \in Conns, AddSends(id, c)
        PROVE  Listening'
    <2>1. /\ UNCHANGED <<status, regs, call, skipped, connectionCount>> /\ SendAddRequest(id, c)
          /\ holder.op = "add"
      BY <1>6 DEF AddSends, connVars, tableVars, userVars, historyVars
    <2>2. holder'.conns = holder.conns
      BY <1>6 DEF AddSends, BinderTypeOK
    <2>3. \A i \in Ids, d \in Conns : handlers'[i][d] = handlers[i][d] + (IF i = id /\ d = c THEN 1 ELSE 0)
      BY <1>0, <2>1, SendEffect
    <2>4. \A d \in Conns : WillOpen(d) => WillOpen(d)'
      BY <1>f, <2>1
    <2> QED  BY <1>0, <1>1, <2>1, <2>2, <2>3, <2>4
  <1>7. ASSUME NEW id \in Ids, NEW c \in Conns, AddIsAnswered(id, c)
        PROVE  Listening'
    <2>1. UNCHANGED <<status, regs, call, handlers, skipped, connectionCount>> /\ holder.op = "add"
      BY <1>7 DEF AddIsAnswered, connVars, tableVars, handlerVars, userVars, historyVars
    <2>2. holder'.conns = holder.conns
      BY <1>7 DEF AddIsAnswered, BinderTypeOK
    <2>3. \A d \in Conns : WillOpen(d) => WillOpen(d)'
      BY <1>f, <2>1
    <2> QED  BY <1>1, <2>1, <2>2, <2>3
  <1>8. ASSUME NEW id \in Ids, AddReturns(id)
        PROVE  Listening'
    <2>1. /\ UNCHANGED <<status, regs, handlers, skipped, connectionCount>> /\ holder.op = "add" /\ holder.id = {id}
          /\ call' = [call EXCEPT ![id] = "added"] /\ holder' = Free
      BY <1>8 DEF AddReturns, connVars, historyVars
    <2>2. PICK cs \in SUBSET Conns : cs = holder.conns /\ cs = holder.sent
      BY <1>8, Subscribing
    <2>3. \A d \in cs : status[d] = "open" => handlers[id][d] > 0
      <3>1. \A d \in cs : Awaited(id, d)
        BY <2>1, <2>2 DEF Awaited
      <3> QED  BY <1>0, <3>1 DEF Accounted
    <2>4. \A d \in Conns : WillOpen(d) => WillOpen(d)'
      BY <1>f, <2>1
    <2>5. call[id] = "adding" /\ \A i \in Ids \ {id} : call[i] # "adding" /\ call'[i] = call[i]
      BY <2>1 DEF Locked, BinderTypeOK
    <2> SUFFICES ASSUME NEW i \in regs', NEW d \in Conns, status'[d] = "open"
                 PROVE  Has(i, d)' /\ Gets(i, d)'
      BY <1>b
    <2>6. i \in regs /\ i \in Ids /\ status[d] = "open" /\ Has(i, d) /\ Gets(i, d) /\ ~Todo(i, d)
      BY <1>0, <1>a, <2>1
    <2>7. call'[i] # "adding"
      BY <2>1, <2>5, <2>6 DEF BinderTypeOK
    <2>8. CASE i = id
      BY <2>1, <2>2, <2>3, <2>4, <2>5, <2>6, <2>7, <2>8
    <2>9. CASE i # id
      BY <2>1, <2>4, <2>5, <2>6, <2>7, <2>9
    <2> QED  BY <2>8, <2>9
  <1>9. ASSUME NEW id \in Ids, NEW refused \in SUBSET Conns, AddFails(id, refused)
        PROVE  Listening'
    <2>1. /\ UNCHANGED <<status, regs, skipped, connectionCount>> /\ holder.op = "add" /\ holder.id = {id}
          /\ call' = [call EXCEPT ![id] = "failed"]
      BY <1>9 DEF AddFails, connVars, tableVars
    <2>2. \A i \in Ids \ {id} : call[i] # "adding" /\ call'[i] = call[i]
      BY <2>1 DEF Locked, BinderTypeOK
    <2>3. call'[id] = "failed"
      BY <2>1 DEF BinderTypeOK
    <2>4. \A i \in Ids \ {id}, d \in Conns : handlers'[i][d] = handlers[i][d]
      BY <1>9 DEF AddFails, BinderTypeOK
    <2>5. \A d \in Conns : WillOpen(d) => WillOpen(d)'
      BY <1>f, <2>1
    <2> QED  BY <1>0, <1>1, <2>1, <2>2, <2>3, <2>4, <2>5
  <1>10. ASSUME NEW id \in Ids, Remove(id)
         PROVE  Listening'
    <2>1. /\ UNCHANGED <<status, skipped, connectionCount>> /\ holder = Free /\ regs' = regs \ {id}
          /\ removeCorrelationIDs(id) /\ call' = [call EXCEPT ![id] = "removing"]
      BY <1>10 DEF Remove, connVars
    <2>2. \A i \in Ids \ {id}, d \in Conns : handlers'[i][d] = handlers[i][d]
      BY <2>1 DEF removeCorrelationIDs, BinderTypeOK
    <2>3. \A i \in Ids \ {id} : call'[i] = call[i]
      BY <2>1 DEF BinderTypeOK
    <2>4. \A i \in Ids : call[i] # "adding" /\ \A d \in Conns : ~Todo(i, d)
      BY <2>1 DEF Locked, Free
    <2>5. \A d \in Conns : WillOpen(d) => WillOpen(d)'
      BY <1>f, <2>1
    <2> QED  BY <1>0, <1>1, <2>1, <2>2, <2>3, <2>4, <2>5
  <1>11. ASSUME NEW id \in Ids, RemoveReturns(id)
         PROVE  Listening'
    <2>1. /\ UNCHANGED <<status, skipped, regs, handlers, connectionCount>> /\ holder.op = "remove"
          /\ call' = [call EXCEPT ![id] = "removed"]
      BY <1>11 DEF RemoveReturns, connVars, tableVars, handlerVars, historyVars
    <2>2. \A i \in Ids : call[i] # "adding" /\ (call'[i] = call[i] \/ call'[i] = "removed")
      BY <2>1 DEF Locked, BinderTypeOK
    <2>3. \A d \in Conns : WillOpen(d) => WillOpen(d)'
      BY <1>f, <2>1
    <2> QED  BY <1>0, <1>1, <2>1, <2>2, <2>3
  <1>12. ASSUME OpenedIsDropped
         PROVE  Listening'
    <2> DEFINE x == Head(inbox).conn
    <2>1. /\ UNCHANGED <<status, regs, handlers, call, holder>> /\ HeadIs("opened")
          /\ skipped' = skipped \union {<<id, x>> : id \in Ids}
      BY <1>12 DEF OpenedIsDropped, connVars, tableVars, handlerVars, userVars
    <2>2. x \in Conns /\ Head(inbox) = Opened(x)
      BY <2>1, HeadTyped DEF HeadIs
    <2> HIDE DEF x
    <2>3. \A d \in Conns : WillOpen(d) => WillOpen(d)' \/ d = x
      BY <1>d, <2>2, EventTyped
    <2>4. \A i \in Ids, d \in Conns : <<i, d>> \in skipped \/ d = x => <<i, d>> \in skipped'
      BY <2>1
    <2> SUFFICES ASSUME NEW i \in regs', NEW d \in Conns, status'[d] = "open"
                 PROVE  Has(i, d)' /\ Gets(i, d)'
      BY <1>b
    <2>5. i \in Ids /\ Has(i, d) /\ Gets(i, d)
      BY <1>0, <1>a, <2>1
    <2>6. Has(i, d)'
      BY <2>1, <2>3, <2>4, <2>5
    <2>7. Gets(i, d)'
      BY <2>1, <2>3, <2>4, <2>5
    <2> QED  BY <2>6, <2>7
  <1>13. ASSUME handleConnectionOpened
         PROVE  Listening'
    <2> DEFINE x == Head(inbox).conn
               todo == {id \in regs : ~connExists(x, id)}
    <2>1. /\ UNCHANGED <<status, regs, handlers, call>> /\ HeadIs("opened") /\ holder = Free
          /\ skipped' = skipped \union {<<id, x>> : id \in {i \in regs \ todo : Replaces(x)}}
          /\ holder' = [Free EXCEPT !.op = "opened", !.id = todo, !.conns = {x}]
      BY <1>13 DEF handleConnectionOpened, connVars, tableVars, handlerVars, userVars
    <2>2. x \in Conns /\ Head(inbox) = Opened(x)
      BY <2>1, HeadTyped DEF HeadIs
    <2> HIDE DEF x
    <2>3. \A d \in Conns : WillOpen(d) => WillOpen(d)' \/ d = x
      BY <1>d, <2>2, EventTyped
    <2>4. skipped \subseteq skipped' /\ \A i \in regs \ todo : Replaces(x) => <<i, x>> \in skipped'
      BY <2>1
    <2>5. holder'.op = "opened" /\ holder'.id = todo /\ holder'.conns = {x}
      <3> HIDE DEF todo
      <3> QED  BY <2>1 DEF Free
    <2>6. ASSUME NEW i \in regs, i \notin todo, status[x] = "open", ~Replaces(x)
          PROVE  handlers[i][x] > 0
      <3>1. i \in Ids /\ member[x] \in subscriptionToMembers[i]
        BY <1>0, <2>6 DEF connExists
      <3>2. PICK d \in Conns : /\ member[d] = member[x] /\ correlationIDs[i][d] > 0
                               /\ status[d] = "open" \/ WillClose(d)
        BY <2>6, <3>1 DEF Backed
      <3>3. d = x
        BY <2>6, <3>2 DEF Replaces, WillClose, In
      <3> QED  BY <1>0, <2>2, <2>6, <3>1, <3>2, <3>3 DEF Accounted
    <2>7. \A i \in Ids : call[i] # "adding"
      BY <2>1 DEF Locked, Free
    <2>8. \A i \in regs, d \in Conns : ~Todo(i, d)
      BY <2>1 DEF Free
    <2> SUFFICES ASSUME NEW i \in regs', NEW d \in Conns, status'[d] = "open"
                 PROVE  Has(i, d)' /\ Gets(i, d)'
      BY <1>b
    <2>9. i \in regs /\ i \in Ids /\ status[d] = "open" /\ Has(i, d) /\ ~Todo(i, d)
      BY <1>0, <1>a, <2>1, <2>8
    <2>10. Gets(i, d)'
      BY <2>1, <2>7, <2>9
    <2> HIDE DEF todo
    <2>11. CASE d = x /\ i \in todo
      <3>1. Todo(i, d)'
        BY <2>5, <2>11
      <3> QED  BY <2>10, <3>1
    <2>12. CASE d = x /\ i \notin todo
      <3>1. handlers[i][d] > 0 \/ <<i, d>> \in skipped'
        BY <2>4, <2>6, <2>9, <2>12
      <3> QED  BY <2>1, <2>10, <3>1
    <2>13. CASE d # x
      <3>1. call[i] = "added" => handlers[i][d] > 0 \/ <<i, d>> \in skipped \/ WillOpen(d)
        BY <2>9
      <3>2. call[i] = "added" => handlers[i][d] > 0 \/ <<i, d>> \in skipped' \/ WillOpen(d)'
        BY <2>3, <2>4, <2>13, <3>1
      <3> QED  BY <2>1, <2>10, <3>2
    <2> QED  BY <2>11, <2>12, <2>13
  <1>14. ASSUME NEW id \in Ids, OpenedRegisters(id)
         PROVE  Listening'
    <2>1. PICK c \in Conns : holder.conns = {c} /\ SendAddRequest(id, c)
      BY <1>14, RegistersEffect
    <2>2. /\ UNCHANGED <<status, regs, call, skipped, connectionCount>> /\ holder.op = "opened"
          /\ holder' = [holder EXCEPT !.id = @ \ {id}]
      BY <1>14 DEF OpenedRegisters, connVars, userVars, historyVars
    <2>3. \A i \in Ids, d \in Conns : handlers'[i][d] = handlers[i][d] + (IF i = id /\ d = c THEN 1 ELSE 0)
      BY <1>0, <2>1, SendEffect
    <2>4. holder'.op = "opened" /\ holder'.id = holder.id \ {id} /\ holder'.conns = holder.conns
      BY <2>2 DEF BinderTypeOK
    <2>5. \A i \in Ids, d \in Conns : Todo(i, d) => Todo(i, d)' \/ handlers'[i][d] > 0
      BY <1>0, <2>1, <2>3, <2>4
    <2>6. \A d \in Conns : WillOpen(d) => WillOpen(d)'
      BY <1>f, <2>2
    <2>7. \A i \in Ids, d \in Conns : handlers[i][d] > 0 => handlers'[i][d] > 0
      BY <1>0, <2>3
    <2> QED  BY <1>0, <1>1, <2>2, <2>4, <2>5, <2>6, <2>7
  <1>15. ASSUME OpenedFails \/ OpenedReturns
         PROVE  Listening'
    <2>1. /\ UNCHANGED <<status, regs, call, handlers, connectionCount>> /\ holder.op = "opened"
          /\ skipped \subseteq skipped' /\ holder.id \X holder.conns \subseteq skipped'
      BY <1>15 DEF OpenedFails, OpenedReturns, connVars, tableVars, handlerVars, userVars, historyVars
    <2>2. \A i \in Ids, d \in Conns : Todo(i, d) => <<i, d>> \in skipped'
      BY <2>1
    <2>3. \A i \in Ids : call[i] # "adding"
      BY <2>1 DEF Locked
    <2>4. \A d \in Conns : WillOpen(d) => WillOpen(d)'
      BY <1>f, <2>1
    <2> QED  BY <1>0, <1>1, <2>1, <2>2, <2>3, <2>4
  <1>16. ASSUME handleConnectionClosed \/ UNCHANGED binderVars
         PROVE  Listening'
    <2>1. UNCHANGED <<status, regs, call, handlers, holder, skipped>>
      BY <1>16 DEF handleConnectionClosed, binderVars, connVars, tableVars, handlerVars, userVars, historyVars
    <2>2. connectionCount' # connectionCount + 1
      BY <1>16, <1>e DEF handleConnectionClosed, binderVars
    <2>3. \A d \in Conns : WillOpen(d) => WillOpen(d)'
      BY <1>c, <1>e, <2>2
    <2> QED  BY <1>1, <2>1, <2>3
  <1> QED  BY <1>2, <1>3, <1>4, <1>5, <1>6, <1>7, <1>8, <1>9, <1>10, <1>11, <1>12, <1>13, <1>14, <1>15, <1>16
           DEF BinderNext, AddStep, HandlerStep

-----------------------------------------------------------------------------
LEMMA InitIndInv == BinderInit => IndInv
  <1> SUFFICES ASSUME BinderInit
               PROVE  IndInv
    OBVIOUS
  <1>1. BinderTypeOK
    BY InitTyped
  <1>2. OpenIsMapped /\ Fresh /\ Locked
    BY DEF BinderInit, OpenIsMapped, Fresh, Locked, Free
  <1>3. Accounted /\ TwiceOnlyIfForgotten
    BY DEF BinderInit, Accounted, TwiceOnlyIfForgotten, Awaited, Free
  <1>4. TablesAgree /\ Subscribed /\ Backed /\ Listening
    BY DEF BinderInit, TablesAgree, Subscribed, Backed, Listening, Free
  <1> QED  BY <1>1, <1>2, <1>3, <1>4 DEF IndInv

LEMMA IndInvHolds == BinderSpec => []IndInv
  <1>1. IndInv /\ [BinderNext]_binderVars => IndInv'
    <2> SUFFICES ASSUME IndInv, [BinderNext]_binderVars
                 PROVE  IndInv'
      OBVIOUS
    <2> USE DEF IndInv
    <2>1. BinderTypeOK'
      BY NextTyped
    <2>2. OpenIsMapped'
      BY NextMapped
    <2>3. Fresh'
      BY NextFresh
    <2>4. Locked'
      BY NextLocked
    <2>5. Accounted'
      BY NextAccounted
    <2>6. TablesAgree'
      BY NextTables
    <2>7. TwiceOnlyIfForgotten'
      BY NextTwice
    <2>8. Subscribed'
      BY NextSubscribed
    <2>9. Backed'
      BY NextBacked
    <2>10. Listening'
      BY NextListening
    <2> QED  BY <2>1, <2>2, <2>3, <2>4, <2>5, <2>6, <2>7, <2>8, <2>9, <2>10
  <1> QED  BY InitIndInv, <1>1, PTL DEF BinderSpec

(***************************************************************************)
(* For any number of listeners, members and connections: once the binder   *)
(* has caught up with the connection events, a listener that Add returned  *)
(* without an error is registered on every connection of the map, except   *)
(* where handleConnectionOpened skips it by its own rules.                 *)
(***************************************************************************)
THEOREM EveryConnectionIsServed == BinderSpec => []EveryConnectionListens
  <1>1. IndInv => EveryConnectionListens
    <2> SUFFICES ASSUME IndInv, AtRest, NEW id \in regs, NEW c \in ActiveConnections, call[id] = "added"
                 PROVE  handlers[id][c] > 0 \/ <<id, c>> \in skipped
      BY DEF EveryConnectionListens
    <2>1. c \in Conns /\ status[c] = "open"
      BY DEF ActiveConnections
    <2>2. ~WillOpen(c)
      BY DEF AtRest, WillOpen, In
    <2>3. holder.op # "opened"
      BY DEF AtRest, Free
    <2> QED  BY <2>1, <2>2, <2>3 DEF IndInv, Listening
  <1> QED  BY <1>1, IndInvHolds, PTL

(***************************************************************************)
(* removeCorrelationIDs silences the listener that Remove is called for,   *)
(* on every connection: only a listener whose Add failed keeps a handler,  *)
(* and at most one on a connection.                                        *)
(***************************************************************************)
THEOREM RemovalSilences == BinderSpec => []RemovedIsSilent
  <1>1. IndInv => RemovedIsSilent
    <2> SUFFICES ASSUME IndInv, NEW id \in Ids, NEW c \in Conns, call[id] \in {"removing", "removed"}
                 PROVE  handlers[id][c] <= IF id \in failed THEN 1 ELSE 0
      BY DEF RemovedIsSilent
    <2>1. ~Awaited(id, c)
      BY DEF IndInv, Locked, Awaited
    <2>2. handlers[id][c] \in Nat /\ correlationIDs[id][c] \in Nat
      BY DEF IndInv, BinderTypeOK
    <2> QED  BY <2>1, <2>2 DEF IndInv, Accounted
  <1> QED  BY <1>1, IndInvHolds, PTL

(***************************************************************************)
(* The two tables of subscriptions agree at all times, whatever connExists *)
(* answers and removeMemberSubscriptions forgets.                          *)
(***************************************************************************)
THEOREM TablesAlwaysAgree == BinderSpec => []TablesAgree
  BY IndInvHolds, PTL DEF IndInv

(***************************************************************************)
(* A listener gets the events of a connection twice only when the binder   *)
(* forgot its subscription while the connection was open.                  *)
(***************************************************************************)
THEOREM TwiceIsForgotten == BinderSpec => []TwiceOnlyIfForgotten
  BY IndInvHolds, PTL DEF IndInv

=============================================================================
