------------------------- MODULE ClusterViewProofs -------------------------
(***************************************************************************)
(* Proofs about ClusterView, for any routes of connections through any     *)
(* clusters, whatever lists and tables these publish.                      *)
(*                                                                         *)
(* SomeoneWatches speaks of a listener that has nothing to do.  While it   *)
(* has something to do, what keeps the client from going blind is an event *)
(* in its inbox: one that opens every open connection while the listener   *)
(* has none (Offered), one that closes the connection it has (Told).       *)
(*                                                                         *)
(* CaughtUp speaks of a client that has handled everything.  Before, the   *)
(* latest view of the watched connection is on its way (LastListComes,     *)
(* LastTableComes), and the membership listeners will hear of the members  *)
(* once everything is published (Heard).                                   *)
(*                                                                         *)
(* The loops of Update and LargerGroupMajorMinorVersion are folds: what    *)
(* they compute is shown by induction over the list, with the sets of      *)
(* numbers for which the claim holds (SetInduction).                       *)
(***************************************************************************)
EXTENDS ClusterView, FiniteSetTheorems, WellFoundedInduction, TLAPS

\* Events in the inbox of the listener.
Events == [state : {"opened", "closed"}, conn : Conns]

\* Types of the listener; it registers on the connection it has chosen.
ListenerTyped ==
    /\ status \in [Conns -> {"new", "open", "closed"}]
    /\ inbox \in Seq(Events)
    /\ viewConn \in Conns \cup {0} /\ registering \in {0, viewConn}
    /\ watching \subseteq Conns

\* An event of c waits for the listener.
IsQueued(state, c) == \E i \in DOMAIN inbox : inbox[i].state = state /\ inbox[i].conn = c

\* The listener only hears of connections that were made.
Made ==
    /\ \A i \in DOMAIN inbox : status[inbox[i].conn] # "new"
    /\ viewConn # 0 => status[viewConn] # "new"

\* Without a connection, the listener will hear of every open one.
Offered == viewConn = 0 => \A c \in Conns : status[c] = "open" => IsQueued("opened", c)

\* The connection that the listener has is watched, or its end is reported.
Told == viewConn # 0 /\ registering = 0 =>
    /\ status[viewConn] = "open" => viewConn \in watching
    /\ status[viewConn] = "closed" => IsQueued("closed", viewConn)

\* The inductive invariant behind SomeoneWatches.
WatchInv == ListenerTyped /\ Made /\ Offered /\ Told

\* The variables that WatchInv is about.
watchVars == <<status, inbox, listenerVars>>

-----------------------------------------------------------------------------
\* 0 stands for no connection.
LEMMA NoConnIsZero == 0 \notin Conns
<1>1. ASSUME NEW r \in Routes PROVE 0 \notin DOMAIN r
  <2>1. r \in Seq(Clusters)
    BY ViewAssumption
  <2> QED
    BY <2>1
<1> QED
  BY <1>1 DEF Conns

\* A listener without connections.
LEMMA InitWatch == ViewInit => WatchInv
<1> SUFFICES ASSUME ViewInit PROVE WatchInv
  OBVIOUS
<1>1. /\ status = [c \in Conns |-> "new"] /\ inbox = <<>>
      /\ viewConn = 0 /\ registering = 0 /\ watching = {}
  BY DEF ViewInit
<1> QED
  BY <1>1 DEF WatchInv, ListenerTyped, Made, Offered, Told

\* An event is queued behind the others.
LEMMA AppendEffect ==
  ASSUME inbox \in Seq(Events), NEW e \in Events, inbox' = Append(inbox, e)
  PROVE  /\ inbox' \in Seq(Events)
         /\ \A i \in DOMAIN inbox' : inbox'[i] = e \/ \E j \in DOMAIN inbox : inbox'[i] = inbox[j]
         /\ \A s, c : IsQueued(s, c) => IsQueued(s, c)'
         /\ IsQueued(e.state, e.conn)'
<1>1. /\ inbox' \in Seq(Events) /\ Len(inbox) + 1 \in DOMAIN inbox' /\ inbox'[Len(inbox) + 1] = e
      /\ \A i \in DOMAIN inbox : i \in DOMAIN inbox' /\ inbox'[i] = inbox[i]
      /\ \A i \in DOMAIN inbox' : i \in DOMAIN inbox \/ i = Len(inbox) + 1
  OBVIOUS
<1> QED
  BY <1>1 DEF IsQueued

\* The first event is taken out of the queue.
LEMMA TailEffect ==
  ASSUME inbox \in Seq(Events), inbox # <<>>, inbox' = Tail(inbox)
  PROVE  /\ inbox' \in Seq(Events) /\ Head(inbox) \in Events
         /\ \E i \in DOMAIN inbox : Head(inbox) = inbox[i]
         /\ \A i \in DOMAIN inbox' : \E j \in DOMAIN inbox : inbox'[i] = inbox[j]
         /\ \A s, c : IsQueued(s, c) => IsQueued(s, c)' \/ (Head(inbox).state = s /\ Head(inbox).conn = c)
<1>1. /\ inbox' \in Seq(Events) /\ Head(inbox) \in Events
      /\ 1 \in DOMAIN inbox /\ Head(inbox) = inbox[1]
      /\ \A i \in DOMAIN inbox' : i + 1 \in DOMAIN inbox /\ inbox'[i] = inbox[i + 1]
      /\ \A i \in DOMAIN inbox : i = 1 \/ (i - 1 \in DOMAIN inbox' /\ inbox'[i - 1] = inbox[i])
  OBVIOUS
<1>2. ASSUME NEW s, NEW c, IsQueued(s, c), ~(Head(inbox).state = s /\ Head(inbox).conn = c)
      PROVE  IsQueued(s, c)'
  BY <1>1, <1>2 DEF IsQueued
<1> QED
  BY <1>1, <1>2

\* Every event of the queue names a connection that was made.
LEMMA EventsAreOfConns ==
  ASSUME WatchInv, NEW i \in DOMAIN inbox
  PROVE  inbox[i].conn \in Conns /\ status[inbox[i].conn] # "new"
<1>1. inbox[i] \in Events
  BY DEF WatchInv, ListenerTyped
<1>2. inbox[i].conn \in Conns
  BY <1>1 DEF Events
<1> QED
  BY <1>2 DEF WatchInv, Made

\* The listener turns to an open connection, or to none when none is open.
LEMMA Reregister ==
  ASSUME NEW old, tryReregisterToRandomConnection(old)
  PROVE  \/ viewConn # old /\ viewConn' = viewConn /\ registering' = registering
         \/ /\ viewConn = old /\ viewConn' = 0 /\ registering' = 0
            /\ \A c \in Conns : status[c] # "open"
         \/ /\ viewConn = old /\ viewConn' \in Conns /\ registering' = viewConn'
            /\ status[viewConn'] = "open"
  BY DEF tryReregisterToRandomConnection, RandomConnections

\* Steps of others leave the listener alone.
LEMMA WatchStays == WatchInv /\ UNCHANGED watchVars => WatchInv'
  BY DEF watchVars, listenerVars, WatchInv, ListenerTyped, Made, Offered, Told, IsQueued

\* Every step of the client and the clusters preserves WatchInv.
LEMMA StepWatch == WatchInv /\ [ViewNext]_viewsVars => WatchInv'
<1> SUFFICES ASSUME WatchInv, [ViewNext]_viewsVars PROVE WatchInv'
  OBVIOUS
<1> USE NoConnIsZero
<1>0. /\ status \in [Conns -> {"new", "open", "closed"}] /\ inbox \in Seq(Events)
      /\ viewConn \in Conns \cup {0} /\ registering \in {0, viewConn} /\ watching \subseteq Conns
  BY DEF WatchInv, ListenerTyped
<1>1. CASE UNCHANGED viewsVars
  BY <1>1, WatchStays DEF viewsVars, connVars, watchVars
<1>2. ASSUME NEW k, MembersChange(k) \/ PartitionsChange(k) PROVE WatchInv'
  BY <1>2, WatchStays DEF MembersChange, PartitionsChange, connVars, watchVars
<1>3. CASE RefreshedSeedAddrs
  BY <1>3, WatchStays DEF RefreshedSeedAddrs, connVars, watchVars
<1>4. ASSUME NEW e, Update(e) \/ UpdatePartitions(e) PROVE WatchInv'
  BY <1>4, WatchStays DEF Update, UpdatePartitions, connVars, watchVars
<1>5. ASSUME NEW k, PublishChange(k) PROVE WatchInv'
  BY <1>5, WatchStays DEF PublishChange, connVars, watchVars
<1>6. ASSUME NEW c \in Conns, Connect(c) PROVE WatchInv'
  <2>1. PICK e \in Events : e.state = "opened" /\ e.conn = c /\ inbox' = Append(inbox, e)
    BY <1>6 DEF Connect, Events
  <2>2. /\ status[c] = "new" /\ status' = [status EXCEPT ![c] = "open"]
        /\ UNCHANGED <<viewConn, registering, watching>>
    BY <1>6 DEF Connect, IsNext, listenerVars
  <2>3. /\ inbox' \in Seq(Events)
        /\ \A i \in DOMAIN inbox' : inbox'[i] = e \/ \E j \in DOMAIN inbox : inbox'[i] = inbox[j]
        /\ \A s, d : IsQueued(s, d) => IsQueued(s, d)'
        /\ IsQueued("opened", c)'
    BY <1>0, <2>1, AppendEffect
  <2>4. viewConn # c
    BY <2>2 DEF WatchInv, Made
  <2>5. ListenerTyped'
    BY <1>0, <2>2, <2>3 DEF ListenerTyped
  <2>6. Made'
    <3>1. ASSUME NEW i \in DOMAIN inbox' PROVE inbox'[i].conn \in Conns /\ status'[inbox'[i].conn] # "new"
      <4>1. CASE inbox'[i] = e
        BY <1>0, <2>1, <2>2, <4>1
      <4>2. ASSUME NEW j \in DOMAIN inbox, inbox'[i] = inbox[j]
            PROVE  inbox'[i].conn \in Conns /\ status'[inbox'[i].conn] # "new"
        <5>1. inbox[j].conn \in Conns /\ status[inbox[j].conn] # "new"
          BY EventsAreOfConns
        <5> QED
          BY <1>0, <2>2, <4>2, <5>1
      <4> QED
        BY <2>3, <4>1, <4>2
    <3> QED
      BY <1>0, <2>2, <2>4, <3>1 DEF WatchInv, Made
  <2>7. Offered'
    BY <1>0, <2>2, <2>3 DEF WatchInv, Offered
  <2>8. Told'
    BY <1>0, <2>2, <2>3, <2>4 DEF WatchInv, Told
  <2> QED
    BY <2>5, <2>6, <2>7, <2>8 DEF WatchInv
<1>7. ASSUME NEW c \in Conns, Refuse(c) PROVE WatchInv'
  <2>1. /\ status[c] = "new" /\ status' = [status EXCEPT ![c] = "closed"]
        /\ UNCHANGED <<inbox, viewConn, registering, watching>>
    BY <1>7 DEF Refuse, IsNext, listenerVars
  <2>2. \A s, d : IsQueued(s, d) => IsQueued(s, d)'
    BY <2>1 DEF IsQueued
  <2>3. ASSUME NEW i \in DOMAIN inbox PROVE inbox[i].conn \in Conns /\ status'[inbox[i].conn] # "new"
    <3>1. inbox[i].conn \in Conns /\ status[inbox[i].conn] # "new"
      BY EventsAreOfConns
    <3> QED
      BY <1>0, <2>1, <3>1
  <2>4. viewConn # c
    BY <2>1 DEF WatchInv, Made
  <2> QED
    BY <1>0, <2>1, <2>2, <2>3, <2>4 DEF WatchInv, ListenerTyped, Made, Offered, Told
<1>8. ASSUME NEW c \in Conns, Disconnect(c) PROVE WatchInv'
  <2>1. PICK e \in Events : e.state = "closed" /\ e.conn = c /\ inbox' = Append(inbox, e)
    BY <1>8 DEF Disconnect, Events
  <2>2. /\ status[c] = "open" /\ status' = [status EXCEPT ![c] = "closed"]
        /\ watching' = watching \ {c} /\ UNCHANGED <<viewConn, registering>>
    BY <1>8 DEF Disconnect
  <2>3. /\ inbox' \in Seq(Events)
        /\ \A i \in DOMAIN inbox' : inbox'[i] = e \/ \E j \in DOMAIN inbox : inbox'[i] = inbox[j]
        /\ \A s, d : IsQueued(s, d) => IsQueued(s, d)'
        /\ IsQueued("closed", c)'
    BY <1>0, <2>1, AppendEffect
  <2>4. ListenerTyped'
    BY <1>0, <2>2, <2>3 DEF ListenerTyped
  <2>5. Made'
    <3>1. ASSUME NEW i \in DOMAIN inbox' PROVE inbox'[i].conn \in Conns /\ status'[inbox'[i].conn] # "new"
      <4>1. CASE inbox'[i] = e
        BY <1>0, <2>1, <2>2, <4>1
      <4>2. ASSUME NEW j \in DOMAIN inbox, inbox'[i] = inbox[j]
            PROVE  inbox'[i].conn \in Conns /\ status'[inbox'[i].conn] # "new"
        <5>1. inbox[j].conn \in Conns /\ status[inbox[j].conn] # "new"
          BY EventsAreOfConns
        <5> QED
          BY <1>0, <2>2, <4>2, <5>1
      <4> QED
        BY <2>3, <4>1, <4>2
    <3> QED
      BY <1>0, <2>2, <3>1 DEF WatchInv, Made
  <2>6. Offered'
    BY <1>0, <2>2, <2>3 DEF WatchInv, Offered
  <2>7. Told'
    BY <1>0, <2>2, <2>3 DEF WatchInv, Told
  <2> QED
    BY <2>4, <2>5, <2>6, <2>7 DEF WatchInv
<1>9. CASE handleConnectionEvent
  <2>1. /\ registering = 0 /\ inbox # <<>> /\ inbox' = Tail(inbox) /\ UNCHANGED <<status, watching>>
    BY <1>9 DEF handleConnectionEvent
  <2>2. PICK e \in Events : e = Head(inbox)
    BY <1>0, <2>1, TailEffect
  <2>3. /\ inbox' \in Seq(Events)
        /\ \E i \in DOMAIN inbox : e = inbox[i]
        /\ \A i \in DOMAIN inbox' : \E j \in DOMAIN inbox : inbox'[i] = inbox[j]
        /\ \A s, d : IsQueued(s, d) => IsQueued(s, d)' \/ (e.state = s /\ e.conn = d)
    BY <1>0, <2>1, <2>2, TailEffect
  <2>4. e.conn \in Conns /\ status[e.conn] # "new" /\ e.state \in {"opened", "closed"}
    BY <2>3 DEF WatchInv, Made, Events
  <2>5. \A i \in DOMAIN inbox' : status'[inbox'[i].conn] # "new"
    BY <2>1, <2>3 DEF WatchInv, Made
  <2>6. CASE e.state = "opened" /\ viewConn = 0
    <3>1. viewConn' = e.conn /\ registering' = e.conn
      BY <1>9, <2>2, <2>6 DEF handleConnectionEvent, tryRegister
    <3> QED
      BY <1>0, <2>1, <2>3, <2>4, <2>5, <3>1 DEF WatchInv, ListenerTyped, Made, Offered, Told
  <2>7. CASE e.state = "opened" /\ viewConn # 0
    <3>1. viewConn' = viewConn /\ registering' = registering
      BY <1>9, <2>2, <2>7 DEF handleConnectionEvent, tryRegister
    <3> QED
      BY <1>0, <2>1, <2>3, <2>5, <2>7, <3>1 DEF WatchInv, ListenerTyped, Made, Offered, Told
  <2>8. CASE e.state = "closed"
    <3>1. tryReregisterToRandomConnection(e.conn)
      BY <1>9, <2>2, <2>8 DEF handleConnectionEvent
    <3>2. CASE viewConn # e.conn /\ viewConn' = viewConn /\ registering' = registering
      BY <1>0, <2>1, <2>3, <2>5, <2>8, <3>2 DEF WatchInv, ListenerTyped, Made, Offered, Told
    <3>3. CASE viewConn' = 0 /\ registering' = 0 /\ \A c \in Conns : status[c] # "open"
      BY <1>0, <2>1, <2>3, <2>5, <3>3 DEF WatchInv, ListenerTyped, Made, Offered, Told
    <3>4. CASE viewConn' \in Conns /\ registering' = viewConn' /\ status[viewConn'] = "open"
      BY <1>0, <2>1, <2>3, <2>5, <3>4 DEF WatchInv, ListenerTyped, Made, Offered, Told
    <3> QED
      BY <3>1, <3>2, <3>3, <3>4, Reregister
  <2> QED
    BY <2>4, <2>6, <2>7, <2>8
<1>10. CASE RegistrationSucceeds
  <2>1. /\ registering # 0 /\ status[registering] = "open" /\ watching' = watching \cup {registering}
        /\ registering' = 0 /\ UNCHANGED <<status, inbox, viewConn>>
    BY <1>10 DEF RegistrationSucceeds, connVars
  <2> QED
    BY <1>0, <2>1 DEF WatchInv, ListenerTyped, Made, Offered, Told, IsQueued
<1>11. CASE RegistrationFails
  <2>1. /\ registering # 0 /\ UNCHANGED <<status, inbox, watching>>
        /\ tryReregisterToRandomConnection(registering)
    BY <1>11 DEF RegistrationFails, connVars
  <2>2. CASE viewConn' = 0 /\ registering' = 0 /\ \A c \in Conns : status[c] # "open"
    BY <1>0, <2>1, <2>2 DEF WatchInv, ListenerTyped, Made, Offered, Told
  <2>3. CASE viewConn' \in Conns /\ registering' = viewConn' /\ status[viewConn'] = "open"
    BY <1>0, <2>1, <2>3 DEF WatchInv, ListenerTyped, Made, Offered, Told
  <2> QED
    BY <1>0, <2>1, <2>2, <2>3, Reregister
<1> QED
  BY <1>1, <1>2, <1>3, <1>4, <1>5, <1>6, <1>7, <1>8, <1>9, <1>10, <1>11 DEF ViewNext

(***************************************************************************)
(* However connections open, close and refuse the registration, a listener *)
(* that has nothing to do while a connection is open is registered on an   *)
(* open one, for any number of connections: ViewListenerService never      *)
(* leaves a connected client without views.                                *)
(***************************************************************************)
THEOREM NeverBlind == ViewSpec => []SomeoneWatches
<1>1. WatchInv => SomeoneWatches
  <2> SUFFICES ASSUME WatchInv, inbox = <<>>, registering = 0, NEW c \in Conns, status[c] = "open"
               PROVE  viewConn \in watching /\ status[viewConn] = "open"
    BY DEF SomeoneWatches, RandomConnections
  <2>1. \A s, d : ~IsQueued(s, d)
    BY DEF IsQueued
  <2>2. viewConn \in Conns /\ viewConn # 0
    BY <2>1, NoConnIsZero DEF WatchInv, ListenerTyped, Offered
  <2> QED
    BY <2>1, <2>2 DEF WatchInv, ListenerTyped, Made, Told
<1> QED
  BY <1>1, InitWatch, StepWatch, PTL DEF ViewSpec

-----------------------------------------------------------------------------
\* Induction over the natural numbers, with a set.
LEMMA SetInduction ==
  ASSUME NEW S, 0 \in S, \A n \in Nat : n \in S => n + 1 \in S
  PROVE  Nat \subseteq S
<1> DEFINE T == Nat \ S
<1>1. SUFFICES ASSUME T # {} PROVE FALSE
  OBVIOUS
<1>2. PICK x \in T : \A y \in T : ~ (<<y, x>> \in OpToRel(<, Nat))
  <2> HIDE DEF T
  <2>1. T \subseteq Nat
    BY DEF T
  <2> QED
    BY <2>1, <1>1, WFMin, NatLessThanWellFounded
<1>3. x \in Nat /\ x # 0 /\ x - 1 \in Nat /\ x - 1 < x
  OBVIOUS
<1>4. x - 1 \notin T
  <2>1. <<x - 1, x>> \in OpToRel(<, Nat)
    BY <1>3 DEF OpToRel
  <2> QED
    BY <1>2, <2>1
<1>5. x - 1 \in S
  BY <1>3, <1>4
<1> QED
  BY <1>3, <1>5

\* FoldLeft takes the last index as the largest of a set.
LEMMA MaxIsLast == ASSUME NEW n \in Nat, NEW s \in SUBSET (1..n), n \in s PROVE Max(s) = n
<1>1. \A y \in s : n >= y
  OBVIOUS
<1>2. \A x \in s : (\A y \in s : x >= y) => x = n
  OBVIOUS
<1> QED
  BY <1>1, <1>2 DEF Max

\* The bodies of the two loops over a list of members.
LoopBody(loop, acc, u) == IF loop = "addMember" THEN addMember(acc, u) ELSE CountVersion(acc, u)

\* The function by which FoldLeft is defined.
Folding(loop, g, base, list, D) ==
    g = [s \in SUBSET D |-> IF s = {} THEN base ELSE LoopBody(loop, g[s \ {Max(s)}], list[Max(s)])]

\* There is such a function for every list.
LEMMA FoldExists ==
  ASSUME NEW loop, NEW base, NEW list, NEW m \in Nat
  PROVE  \E g : Folding(loop, g, base, list, 1..m)
<1> DEFINE S == {n \in Nat : \E g : Folding(loop, g, base, list, 1..n)}
<1>1. 0 \in S
  <2> DEFINE g == [s \in SUBSET (1..0) |-> base]
  <2>1. \A s \in SUBSET (1..0) : s = {}
    OBVIOUS
  <2>2. Folding(loop, g, base, list, 1..0)
    BY <2>1 DEF Folding
  <2> QED
    BY <2>2
<1>2. ASSUME NEW n \in Nat, n \in S PROVE n + 1 \in S
  <2>1. PICK g : Folding(loop, g, base, list, 1..n)
    BY <1>2
  <2> DEFINE h == [s \in SUBSET (1..(n + 1)) |->
                     IF n + 1 \in s THEN LoopBody(loop, g[s \ {n + 1}], list[n + 1]) ELSE g[s]]
  <2>2. ASSUME NEW s \in SUBSET (1..(n + 1)), n + 1 \in s
        PROVE  h[s] = LoopBody(loop, h[s \ {Max(s)}], list[Max(s)])
    <3>1. Max(s) = n + 1
      BY <2>2, MaxIsLast
    <3>2. s \ {n + 1} \in SUBSET (1..(n + 1)) /\ n + 1 \notin s \ {n + 1}
      OBVIOUS
    <3>3. h[s \ {n + 1}] = g[s \ {n + 1}]
      BY <3>2
    <3> QED
      BY <2>2, <3>1, <3>3
  <2>3. ASSUME NEW s \in SUBSET (1..(n + 1)), n + 1 \notin s, s # {}
        PROVE  h[s] = LoopBody(loop, h[s \ {Max(s)}], list[Max(s)])
    <3>1. s \in SUBSET (1..n) /\ s \ {Max(s)} \in SUBSET (1..(n + 1)) /\ n + 1 \notin s \ {Max(s)}
      <4>1. \A i \in s : i \in 1..n
        BY <2>3
      <4> QED
        BY <2>3, <4>1
    <3>2. h[s] = g[s] /\ h[s \ {Max(s)}] = g[s \ {Max(s)}]
      BY <2>3, <3>1
    <3>3. g[s] = LoopBody(loop, g[s \ {Max(s)}], list[Max(s)])
      BY <2>1, <2>3, <3>1 DEF Folding
    <3> QED
      BY <3>2, <3>3
  <2>4. h[{}] = base
    <3>1. {} \in SUBSET (1..n) /\ {} \in SUBSET (1..(n + 1)) /\ h[{}] = g[{}]
      OBVIOUS
    <3> QED
      BY <3>1, <2>1 DEF Folding
  <2>5. Folding(loop, h, base, list, 1..(n + 1))
    <3>1. \A s \in SUBSET (1..(n + 1)) : h[s] = IF s = {} THEN base ELSE LoopBody(loop, h[s \ {Max(s)}], list[Max(s)])
      BY <2>2, <2>3, <2>4
    <3>2. h = [s \in SUBSET (1..(n + 1)) |-> h[s]]
      OBVIOUS
    <3> HIDE DEF h
    <3> QED
      BY <3>1, <3>2 DEF Folding
  <2> QED
    BY <2>5
<1> QED
  <2> HIDE DEF S
  <2>1. Nat \subseteq S
    BY <1>1, <1>2, SetInduction
  <2> QED
    BY <2>1 DEF S

\* One after the other, the values that a loop goes through.
Passes(loop, acc, base, list, m, result) ==
    /\ acc[0] = base /\ acc[m] = result
    /\ \A n \in 1..m : acc[n] = LoopBody(loop, acc[n - 1], list[n])

\* The fold is what the passes through the loop lead to.
LEMMA FoldSteps ==
  ASSUME NEW loop, NEW base, NEW list, NEW m \in Nat, NEW iter, Folding(loop, iter, base, list, 1..m)
  PROVE  \E acc : Passes(loop, acc, base, list, m, iter[1..m])
<1> DEFINE acc == [n \in 0..m |-> iter[1..n]]
<1>1. acc[0] = base
  BY DEF Folding
<1>2. ASSUME NEW n \in 1..m PROVE acc[n] = LoopBody(loop, acc[n - 1], list[n])
  <2>1. n \in Nat /\ n \in 0..m /\ n - 1 \in 0..m /\ n \in 1..n
    OBVIOUS
  <2>2. (1..n) \in SUBSET (1..m) /\ (1..n) # {}
    <3>1. \A i \in 1..n : i \in 1..m
      BY <2>1
    <3> QED
      BY <2>1, <3>1
  <2>3. (1..n) \ {n} = 1..(n - 1)
    <3>1. \A i : i \in (1..n) \ {n} <=> i \in 1..(n - 1)
      OBVIOUS
    <3> QED
      BY <3>1
  <2>4. Max(1..n) = n
    BY <2>1, MaxIsLast
  <2>5. iter[1..n] = LoopBody(loop, iter[(1..n) \ {n}], list[n])
    BY <2>2, <2>4 DEF Folding
  <2>6. acc[n] = iter[1..n] /\ acc[n - 1] = iter[1..(n - 1)]
    BY <2>1
  <2> QED
    BY <2>3, <2>5, <2>6
<1>3. acc[m] = iter[1..m]
  OBVIOUS
<1> HIDE DEF acc
<1> QED
  BY <1>1, <1>2, <1>3 DEF Passes

\* The loop of Update over the list of an event, and the one that counts versions.
AddAll(base, list)   == FoldLeft(addMember, base, list)
CountAll(base, list) == FoldLeft(CountVersion, base, list)

\* FoldLeft(addMember, ...) is the result of the passes of addMember ...
LEMMA AddSteps ==
  ASSUME NEW base, NEW list, NEW m \in Nat, DOMAIN list = 1..m
  PROVE  \E acc : /\ acc[0] = base /\ acc[m] = AddAll(base, list)
                  /\ \A n \in 1..m : acc[n] = addMember(acc[n - 1], list[n])
<1> DEFINE Is(g) == g = [s \in SUBSET (DOMAIN list) |->
                           IF s = {} THEN base ELSE addMember(g[s \ {Max(s)}], list[Max(s)])]
           iter  == CHOOSE g : Is(g)
<1>1. \A g : Is(g) <=> Folding("addMember", g, base, list, 1..m)
  BY DEF Folding, LoopBody
<1>2. AddAll(base, list) = iter[1..m]
  BY DEF AddAll, FoldLeft, MapThenFoldSet
<1>3. \E g : Is(g)
  BY <1>1, FoldExists
<1>4. Is(iter)
  BY <1>3
<1> HIDE DEF iter, Is
<1> DEFINE loop == "addMember"
<1>5. Folding(loop, iter, base, list, 1..m)
  BY <1>1, <1>4
<1> HIDE DEF loop
<1>6. PICK acc : Passes(loop, acc, base, list, m, iter[1..m])
  BY <1>5, FoldSteps
<1>7. \A n \in 1..m : acc[n] = addMember(acc[n - 1], list[n])
  BY <1>6 DEF Passes, LoopBody, loop
<1> QED
  BY <1>2, <1>6, <1>7 DEF Passes

\* ... and FoldLeft(CountVersion, ...) of those of CountVersion.
LEMMA CountSteps ==
  ASSUME NEW base, NEW list, NEW m \in Nat, DOMAIN list = 1..m
  PROVE  \E acc : /\ acc[0] = base /\ acc[m] = CountAll(base, list)
                  /\ \A n \in 1..m : acc[n] = CountVersion(acc[n - 1], list[n])
<1> DEFINE Is(g) == g = [s \in SUBSET (DOMAIN list) |->
                           IF s = {} THEN base ELSE CountVersion(g[s \ {Max(s)}], list[Max(s)])]
           iter  == CHOOSE g : Is(g)
<1>1. \A g : Is(g) <=> Folding("CountVersion", g, base, list, 1..m)
  BY DEF Folding, LoopBody
<1>2. CountAll(base, list) = iter[1..m]
  BY DEF CountAll, FoldLeft, MapThenFoldSet
<1>3. \E g : Is(g)
  BY <1>1, FoldExists
<1>4. Is(iter)
  BY <1>3
<1> HIDE DEF iter, Is
<1> DEFINE loop == "CountVersion"
<1>5. Folding(loop, iter, base, list, 1..m)
  BY <1>1, <1>4
<1> HIDE DEF loop
<1>6. PICK acc : Passes(loop, acc, base, list, m, iter[1..m])
  BY <1>5, FoldSteps
<1>7. \A n \in 1..m : acc[n] = CountVersion(acc[n - 1], list[n])
  BY <1>6 DEF Passes, LoopBody, loop
<1> QED
  BY <1>2, <1>6, <1>7 DEF Passes

\* Members are found under their public addresses.
Keyed(addrs) == \A a \in DOMAIN addrs : TranslateMember(addrs[a]) = a

\* What the loop has done after n members of the list.
Added(mm, before, list, n) ==
    /\ \A i \in 1..n : list[i] \in mm.members
    /\ mm.members \subseteq before \cup mm.added
    /\ \A u \in mm.added : \E i \in 1..n : u = list[i]
    /\ mm.added = {} => mm.members = before
    /\ Keyed(mm.addrs)

\* One pass through the loop: addMember keeps what was added, as no other member
\* of the list has its address.
LEMMA AddStep ==
  ASSUME NEW before, NEW list, NEW mm, NEW n \in Nat, NEW D, n + 1 \in D, \A i \in 1..n : i \in D,
         \A i, j \in D : TranslateMember(list[i]) = TranslateMember(list[j]) => i = j,
         Added(mm, before, list, n)
  PROVE  Added(addMember(mm, list[n + 1]), before, list, n + 1)
<1> DEFINE u    == list[n + 1]
           addr == TranslateMember(u)
           mm2  == addMember(mm, u)
<1>1. CASE u \in mm.members
  <2>1. mm2 = mm
    BY <1>1 DEF addMember
  <2>2. \A i \in 1..(n + 1) : i \in 1..n \/ i = n + 1
    OBVIOUS
  <2>3. \A i \in 1..n : i \in 1..(n + 1)
    OBVIOUS
  <2> HIDE DEF mm2
  <2> QED
    BY <1>1, <2>1, <2>2, <2>3 DEF Added, mm2
<1>2. CASE u \notin mm.members
  <2> DEFINE old == IF addr \in DOMAIN mm.addrs THEN {mm.addrs[addr]} ELSE {}
  <2>1. /\ mm2.members = (mm.members \ old) \cup {u}
        /\ mm2.addrs = [a \in DOMAIN mm.addrs \cup {addr} |-> IF a = addr THEN u ELSE mm.addrs[a]]
        /\ mm2.added = mm.added \cup {u}
    BY <1>2 DEF addMember
  <2>2. \A o \in old : TranslateMember(o) = addr
    BY DEF Added, Keyed
  <2>3. \A i \in 1..(n + 1) : i \in 1..n \/ i = n + 1
    OBVIOUS
  <2>4. \A i \in 1..n : i \in 1..(n + 1) /\ i # n + 1
    OBVIOUS
  <2>5. ASSUME NEW i \in 1..n PROVE list[i] \in mm2.members
    <3>1. TranslateMember(list[i]) # addr
      BY <2>4
    <3> QED
      BY <2>1, <2>2, <3>1 DEF Added
  <2>6. u \in mm2.members /\ mm2.members \subseteq before \cup mm2.added /\ mm2.added # {}
    BY <2>1 DEF Added
  <2>7. ASSUME NEW w \in mm2.added PROVE \E i \in 1..(n + 1) : w = list[i]
    <3>1. n + 1 \in 1..(n + 1)
      OBVIOUS
    <3> QED
      BY <2>1, <2>4, <2>7, <3>1 DEF Added
  <2>8. Keyed(mm2.addrs)
    BY <2>1 DEF Added, Keyed
  <2> HIDE DEF mm2
  <2>9. \A i \in 1..(n + 1) : list[i] \in mm2.members
    BY <2>3, <2>5, <2>6
  <2> QED
    BY <2>6, <2>7, <2>8, <2>9 DEF Added, mm2
<1> QED
  BY <1>1, <1>2

\* The whole loop.
LEMMA AddMembers ==
  ASSUME NEW base, base.added = {}, Keyed(base.addrs), NEW list, NEW m \in Nat, DOMAIN list = 1..m,
         \A i, j \in DOMAIN list : TranslateMember(list[i]) = TranslateMember(list[j]) => i = j
  PROVE  Added(AddAll(base, list), base.members, list, m)
<1>1. PICK acc : /\ acc[0] = base /\ acc[m] = AddAll(base, list)
                 /\ \A n \in 1..m : acc[n] = addMember(acc[n - 1], list[n])
  BY AddSteps
<1> DEFINE S == {n \in Nat : n <= m => Added(acc[n], base.members, list, n)}
<1>2. 0 \in S
  <2>1. \A i \in 1..0 : FALSE
    OBVIOUS
  <2>2. Added(base, base.members, list, 0)
    BY <2>1 DEF Added
  <2> QED
    BY <1>1, <2>2
<1>3. ASSUME NEW n \in Nat, n \in S PROVE n + 1 \in S
  <2> SUFFICES ASSUME n + 1 <= m PROVE Added(acc[n + 1], base.members, list, n + 1)
    OBVIOUS
  <2>1. n <= m /\ n + 1 \in 1..m /\ (n + 1) - 1 = n /\ \A i \in 1..n : i \in 1..m
    OBVIOUS
  <2>2. Added(acc[n], base.members, list, n)
    BY <1>3, <2>1
  <2>3. acc[n + 1] = addMember(acc[n], list[n + 1])
    BY <1>1, <2>1
  <2>4. Added(addMember(acc[n], list[n + 1]), base.members, list, n + 1)
    <3> HIDE DEF S
    <3> DEFINE D == 1..m
    <3>1. n + 1 \in D /\ \A i \in 1..n : i \in D
      BY <2>1
    <3>2. \A i, j \in D : TranslateMember(list[i]) = TranslateMember(list[j]) => i = j
      OBVIOUS
    <3> HIDE DEF D
    <3> QED
      BY <2>2, <3>1, <3>2, AddStep
  <2> QED
    BY <2>3, <2>4
<1> HIDE DEF S
<1>4. Nat \subseteq S
  BY <1>2, <1>3, SetInduction
<1> QED
  BY <1>1, <1>4 DEF S

-----------------------------------------------------------------------------
\* A task is a view that a member has sent on a connection that was made.
Sent(e) == \E c \in Conns :
    /\ c \in DOMAIN clusterOf /\ status[c] # "new"
    /\ \/ \E v \in 1..listVersion[clusterOf[c]] : e = ListEvent(c, v)
       \/ \E v \in 1..ownerVersion[clusterOf[c]] : e = OwnerEvent(c, v)

\* What is sent and handled are views of clusters; open connections are of one
\* cluster.
Tracked ==
    /\ clusterOf \in Routes
    /\ listVersion \in [Clusters -> Nat] /\ ownerVersion \in [Clusters -> Nat]
    /\ \A k \in Clusters : listVersion[k] \in DOMAIN Lists[k] /\ ownerVersion[k] \in DOMAIN Owners[k]
    /\ \A c \in Conns : status[c] # "new" => c \in DOMAIN clusterOf
    /\ \A e \in tasks : Sent(e)
    /\ \A c, d \in RandomConnections : clusterOf[c] = clusterOf[d]

\* At most one connection is watched, the one of the listener.
OneWatched ==
    /\ watching \subseteq RandomConnections \cap {viewConn}
    /\ registering # 0 => watching = {}
    /\ \A i \in DOMAIN inbox : inbox[i].state = "closed" => status[inbox[i].conn] = "closed"

\* Types of the member list; before the first list it is empty.
MembersTyped ==
    /\ version \in Nat \cup {-1} /\ members \subseteq Uuids /\ Keyed(addrToMemberUUID)
    /\ version = -1 => members = {}

\* Unless an event came after its connection was lost, the members are those of
\* a list of the cluster that the client is connected to.
ListIsOfCluster ==
    version # -1 /\ "late" \notin anomalies =>
        \E k \in Clusters : /\ version \in 1..listVersion[k] /\ members = ToSet(Lists[k][version])
                            /\ \A c \in RandomConnections : clusterOf[c] = k

\* The latest list of the watched cluster is known or on its way.
LastListComes ==
    \A c \in watching : \/ ListEvent(c, listVersion[clusterOf[c]]) \in tasks
                        \/ version >= listVersion[clusterOf[c]]

\* The member list.
Listed == MembersTyped /\ ListIsOfCluster /\ LastListComes

\* The partition table is one that its connection brought.
TableIsOfConn ==
    connectionID # 0 =>
        /\ connectionID \in Conns /\ status[connectionID] # "new"
        /\ partitionStateVersion \in 1..ownerVersion[clusterOf[connectionID]]
        /\ partitions = Owners[clusterOf[connectionID]][partitionStateVersion]

\* The latest table of the watched cluster is known or on its way.
LastTableComes ==
    {"late", "unrecorded"} \cap anomalies = {} =>
        \A c \in watching : \/ OwnerEvent(c, ownerVersion[clusterOf[c]]) \in tasks
                            \/ connectionID = c /\ partitionStateVersion >= ownerVersion[clusterOf[c]]

\* The partition table.
Placed == TableIsOfConn /\ LastTableComes

\* The listeners take u for a member once everything is published in order.
WillHear(u) ==
    \/ u \in heard /\ \A j \in DOMAIN publishing : u \notin publishing[j].removed
    \/ \E i \in DOMAIN publishing :
         /\ u \in publishing[i].added
         /\ \A j \in DOMAIN publishing : j >= i => u \notin publishing[j].removed

\* What the listeners will have heard is the member list.
Heard ==
    /\ publishing \in Seq([added : SUBSET Uuids, removed : SUBSET Uuids])
    /\ {"silent", "reordered"} \cap anomalies = {} => \A u \in Uuids : u \in members <=> WillHear(u)
    /\ heard \subseteq Uuids

\* The inductive invariant behind CaughtUp and the refinement.
ViewsInv == WatchInv /\ Tracked /\ OneWatched /\ Listed /\ Placed /\ Heard

\* A client that has seen nothing.
LEMMA InitViews == ViewInit => ViewsInv
<1> SUFFICES ASSUME ViewInit PROVE ViewsInv
  OBVIOUS
<1>1. WatchInv
  BY InitWatch
<1>2. /\ RandomConnections = {} /\ \A c \in Conns : status[c] = "new"
      /\ watching = {} /\ inbox = <<>> /\ tasks = {} /\ publishing = <<>> /\ heard = {} /\ anomalies = {}
      /\ version = -1 /\ members = {} /\ addrToMemberUUID = <<>> /\ connectionID = 0 /\ clusterOf \in Routes
  BY DEF ViewInit, RandomConnections
<1>3. Tracked
  <2>1. ASSUME NEW k \in Clusters PROVE 1 \in DOMAIN Lists[k] /\ 1 \in DOMAIN Owners[k]
    BY ViewAssumption
  <2>2. /\ listVersion = [k \in Clusters |-> 1] /\ ownerVersion = [k \in Clusters |-> 1]
    BY DEF ViewInit
  <2> QED
    BY <1>2, <2>1, <2>2 DEF Tracked
<1>4. OneWatched
  BY <1>2 DEF OneWatched, ViewInit
<1>5. Listed
  <2>1. DOMAIN addrToMemberUUID = {}
    BY <1>2
  <2> QED
    BY <1>2, <2>1 DEF Listed, MembersTyped, ListIsOfCluster, LastListComes, Keyed
<1>6. Placed
  BY <1>2 DEF Placed, TableIsOfConn, LastTableComes
<1>7. Heard
  <2>1. publishing \in Seq([added : SUBSET Uuids, removed : SUBSET Uuids]) /\ DOMAIN publishing = {}
    BY <1>2
  <2> QED
    BY <1>2, <2>1 DEF Heard, WillHear
<1> QED
  BY <1>1, <1>3, <1>4, <1>5, <1>6, <1>7 DEF ViewsInv

\* Every event of the queue that closes a connection names a closed one.
LEMMA StepOneWatched == ViewsInv /\ [ViewNext]_viewsVars => OneWatched'
<1> SUFFICES ASSUME ViewsInv, [ViewNext]_viewsVars PROVE OneWatched'
  OBVIOUS
<1> USE NoConnIsZero
<1>0. /\ status \in [Conns -> {"new", "open", "closed"}] /\ inbox \in Seq(Events)
      /\ viewConn \in Conns \cup {0} /\ registering \in {0, viewConn} /\ watching \subseteq Conns
      /\ watching \subseteq RandomConnections \cap {viewConn} /\ (registering # 0 => watching = {})
      /\ \A i \in DOMAIN inbox : inbox[i].state = "closed" => status[inbox[i].conn] = "closed"
      /\ \A i \in DOMAIN inbox : inbox[i].conn \in Conns
  BY EventsAreOfConns DEF ViewsInv, WatchInv, ListenerTyped, OneWatched
<1>1. CASE UNCHANGED watchVars
  BY <1>0, <1>1 DEF OneWatched, watchVars, listenerVars, RandomConnections
<1>2. ASSUME NEW c \in Conns, Connect(c) PROVE OneWatched'
  <2>1. PICK e \in Events : e.state = "opened" /\ e.conn = c /\ inbox' = Append(inbox, e)
    BY <1>2 DEF Connect, Events
  <2>2. /\ status[c] = "new" /\ status' = [status EXCEPT ![c] = "open"]
        /\ UNCHANGED <<viewConn, registering, watching>>
    BY <1>2 DEF Connect, IsNext, listenerVars
  <2>3. \A i \in DOMAIN inbox' : inbox'[i] = e \/ \E j \in DOMAIN inbox : inbox'[i] = inbox[j]
    BY <1>0, <2>1, AppendEffect
  <2>4. ASSUME NEW i \in DOMAIN inbox', inbox'[i].state = "closed" PROVE status'[inbox'[i].conn] = "closed"
    <3>1. PICK j \in DOMAIN inbox : inbox'[i] = inbox[j]
      BY <2>1, <2>3, <2>4
    <3>2. inbox[j].conn \in Conns /\ status[inbox[j].conn] = "closed"
      BY <1>0, <2>4, <3>1
    <3> QED
      BY <1>0, <2>2, <3>1, <3>2
  <2> QED
    BY <1>0, <2>2, <2>4 DEF OneWatched, RandomConnections
<1>3. ASSUME NEW c \in Conns, Refuse(c) PROVE OneWatched'
  <2>1. /\ status[c] = "new" /\ status' = [status EXCEPT ![c] = "closed"]
        /\ UNCHANGED <<inbox, viewConn, registering, watching>>
    BY <1>3 DEF Refuse, IsNext, listenerVars
  <2> QED
    BY <1>0, <2>1 DEF OneWatched, RandomConnections
<1>4. ASSUME NEW c \in Conns, Disconnect(c) PROVE OneWatched'
  <2>1. PICK e \in Events : e.state = "closed" /\ e.conn = c /\ inbox' = Append(inbox, e)
    BY <1>4 DEF Disconnect, Events
  <2>2. /\ status[c] = "open" /\ status' = [status EXCEPT ![c] = "closed"]
        /\ watching' = watching \ {c} /\ UNCHANGED <<viewConn, registering>>
    BY <1>4 DEF Disconnect
  <2>3. \A i \in DOMAIN inbox' : inbox'[i] = e \/ \E j \in DOMAIN inbox : inbox'[i] = inbox[j]
    BY <1>0, <2>1, AppendEffect
  <2>4. ASSUME NEW i \in DOMAIN inbox', inbox'[i].state = "closed" PROVE status'[inbox'[i].conn] = "closed"
    <3>1. CASE inbox'[i] = e
      BY <1>0, <2>1, <2>2, <3>1
    <3>2. ASSUME NEW j \in DOMAIN inbox, inbox'[i] = inbox[j] PROVE status'[inbox'[i].conn] = "closed"
      <4>1. inbox[j].conn \in Conns /\ status[inbox[j].conn] = "closed"
        BY <1>0, <2>4, <3>2
      <4> QED
        BY <1>0, <2>2, <3>2, <4>1
    <3> QED
      BY <2>3, <3>1, <3>2
  <2> QED
    BY <1>0, <2>2, <2>4 DEF OneWatched, RandomConnections
<1>5. CASE handleConnectionEvent
  <2>1. /\ registering = 0 /\ inbox # <<>> /\ inbox' = Tail(inbox) /\ UNCHANGED <<status, watching>>
    BY <1>5 DEF handleConnectionEvent
  <2>2. PICK j \in DOMAIN inbox : Head(inbox) = inbox[j]
    BY <1>0, <2>1, TailEffect
  <2>3. \A i \in DOMAIN inbox' : \E l \in DOMAIN inbox : inbox'[i] = inbox[l]
    BY <1>0, <2>1, TailEffect
  <2>4. \A i \in DOMAIN inbox' : inbox'[i].state = "closed" => status'[inbox'[i].conn] = "closed"
    BY <1>0, <2>1, <2>3
  <2>5. CASE viewConn' = viewConn /\ registering' = registering
    BY <1>0, <2>1, <2>4, <2>5 DEF OneWatched, RandomConnections
  <2>6. CASE viewConn = 0
    BY <1>0, <2>1, <2>4, <2>6 DEF OneWatched, RandomConnections
  <2>7. CASE viewConn = inbox[j].conn /\ inbox[j].state = "closed"
    BY <1>0, <2>1, <2>4, <2>7 DEF OneWatched, RandomConnections
  <2>8. CASE inbox[j].state = "opened"
    BY <1>5, <2>2, <2>5, <2>6, <2>8 DEF handleConnectionEvent, tryRegister
  <2>9. CASE inbox[j].state # "opened"
    <3>1. inbox[j].state = "closed"
      <4>1. inbox[j] \in Events
        BY <1>0
      <4> QED
        BY <2>9, <4>1 DEF Events
    <3>2. tryReregisterToRandomConnection(inbox[j].conn)
      BY <1>5, <2>2, <2>9 DEF handleConnectionEvent
    <3> QED
      BY <2>5, <2>7, <3>1, <3>2, Reregister
  <2> QED
    BY <2>8, <2>9
<1>6. CASE RegistrationSucceeds
  <2>1. /\ registering # 0 /\ status[registering] = "open" /\ watching' = watching \cup {registering}
        /\ registering' = 0 /\ UNCHANGED <<status, inbox, viewConn>>
    BY <1>6 DEF RegistrationSucceeds, connVars
  <2> QED
    BY <1>0, <2>1 DEF OneWatched, RandomConnections
<1>7. CASE RegistrationFails
  <2>1. /\ registering # 0 /\ UNCHANGED <<status, inbox, watching>>
    BY <1>7 DEF RegistrationFails, connVars
  <2> QED
    BY <1>0, <2>1 DEF OneWatched, RandomConnections
<1>8. CASE UNCHANGED viewsVars
  BY <1>1, <1>8 DEF viewsVars, connVars, watchVars
<1>9. ASSUME NEW k, MembersChange(k) \/ PartitionsChange(k) PROVE OneWatched'
  BY <1>1, <1>9 DEF MembersChange, PartitionsChange, connVars, watchVars
<1>10. CASE RefreshedSeedAddrs
  BY <1>1, <1>10 DEF RefreshedSeedAddrs, connVars, watchVars
<1>11. ASSUME NEW e, Update(e) \/ UpdatePartitions(e) PROVE OneWatched'
  BY <1>1, <1>11 DEF Update, UpdatePartitions, connVars, watchVars
<1>12. ASSUME NEW k, PublishChange(k) PROVE OneWatched'
  BY <1>1, <1>12 DEF PublishChange, connVars, watchVars
<1> QED
  BY <1>2, <1>3, <1>4, <1>5, <1>6, <1>7, <1>8, <1>9, <1>10, <1>11, <1>12 DEF ViewNext

\* Clusters only advance, and connections that were made stay so.
LEMMA Advances ==
  ASSUME ViewsInv, [ViewNext]_viewsVars
  PROVE  /\ clusterOf' = clusterOf
         /\ listVersion' \in [Clusters -> Nat] /\ ownerVersion' \in [Clusters -> Nat]
         /\ \A k \in Clusters : /\ listVersion'[k] \in DOMAIN Lists[k] /\ listVersion'[k] >= listVersion[k]
                                /\ ownerVersion'[k] \in DOMAIN Owners[k] /\ ownerVersion'[k] >= ownerVersion[k]
         /\ \A c \in Conns : status[c] # "new" => status'[c] # "new"
<1>0. /\ clusterOf \in Routes /\ clusterOf \in Seq(Clusters) /\ ToSet(clusterOf) \subseteq Clusters
      /\ listVersion \in [Clusters -> Nat] /\ ownerVersion \in [Clusters -> Nat]
      /\ \A k \in Clusters : listVersion[k] \in DOMAIN Lists[k] /\ ownerVersion[k] \in DOMAIN Owners[k]
      /\ status \in [Conns -> {"new", "open", "closed"}]
  <2>1. clusterOf \in Routes /\ clusterOf \in Seq(Clusters)
    BY ViewAssumption DEF ViewsInv, Tracked
  <2>2. ToSet(clusterOf) \subseteq Clusters
    BY <2>1 DEF ToSet
  <2> QED
    BY <2>1, <2>2 DEF ViewsInv, Tracked, WatchInv, ListenerTyped
<1>1. CASE UNCHANGED <<clusterVars, status>>
  BY <1>0, <1>1 DEF clusterVars
<1>2. ASSUME NEW k \in ToSet(clusterOf), MembersChange(k) PROVE UNCHANGED <<clusterOf, ownerVersion, status>> /\
          /\ listVersion' \in [Clusters -> Nat]
          /\ \A j \in Clusters : listVersion'[j] \in DOMAIN Lists[j] /\ listVersion'[j] >= listVersion[j]
  <2>1. /\ k \in Clusters /\ listVersion[k] < Len(Lists[k]) /\ listVersion' = [listVersion EXCEPT ![k] = @ + 1]
        /\ UNCHANGED <<clusterOf, ownerVersion, status>>
    BY <1>0, <1>2 DEF MembersChange, connVars
  <2>2. Lists[k] \in Seq(Seq(Uuids)) /\ listVersion[k] \in Nat
    BY <1>0, <2>1, ViewAssumption
  <2>3. listVersion[k] + 1 \in DOMAIN Lists[k]
    BY <2>1, <2>2
  <2> QED
    BY <1>0, <2>1, <2>3
<1>3. ASSUME NEW k \in ToSet(clusterOf), PartitionsChange(k) PROVE UNCHANGED <<clusterOf, listVersion, status>> /\
          /\ ownerVersion' \in [Clusters -> Nat]
          /\ \A j \in Clusters : ownerVersion'[j] \in DOMAIN Owners[j] /\ ownerVersion'[j] >= ownerVersion[j]
  <2>1. /\ k \in Clusters /\ ownerVersion[k] < Len(Owners[k]) /\ ownerVersion' = [ownerVersion EXCEPT ![k] = @ + 1]
        /\ UNCHANGED <<clusterOf, listVersion, status>>
    BY <1>0, <1>3 DEF PartitionsChange, connVars
  <2>2. Owners[k] \in Seq(Uuids) /\ ownerVersion[k] \in Nat
    BY <1>0, <2>1, ViewAssumption
  <2>3. ownerVersion[k] + 1 \in DOMAIN Owners[k]
    BY <2>1, <2>2
  <2> QED
    BY <1>0, <2>1, <2>3
<1>4. ASSUME NEW c \in Conns, Connect(c) \/ Refuse(c) \/ Disconnect(c)
      PROVE  UNCHANGED clusterVars /\ \A d \in Conns : status[d] # "new" => status'[d] # "new"
  BY <1>0, <1>4 DEF Connect, Refuse, Disconnect
<1>5. CASE UNCHANGED viewsVars
  BY <1>1, <1>5 DEF viewsVars, connVars
<1>6. CASE RefreshedSeedAddrs
  BY <1>1, <1>6 DEF RefreshedSeedAddrs, connVars
<1>7. ASSUME NEW e, Update(e) \/ UpdatePartitions(e) PROVE UNCHANGED <<clusterVars, status>>
  BY <1>7 DEF Update, UpdatePartitions, connVars
<1>8. ASSUME NEW k, PublishChange(k) PROVE UNCHANGED <<clusterVars, status>>
  BY <1>8 DEF PublishChange, connVars
<1>9. CASE handleConnectionEvent \/ RegistrationSucceeds \/ RegistrationFails
  BY <1>1, <1>9 DEF handleConnectionEvent, RegistrationSucceeds, RegistrationFails, connVars
<1>10. CASE \E k \in ToSet(clusterOf) : MembersChange(k) \/ PartitionsChange(k)
  BY <1>0, <1>2, <1>3, <1>10
<1>11. CASE \E c \in Conns : Connect(c) \/ Refuse(c) \/ Disconnect(c)
  BY <1>0, <1>4, <1>11 DEF clusterVars
<1> QED
  BY <1>1, <1>5, <1>6, <1>7, <1>8, <1>9, <1>10, <1>11 DEF ViewNext

\* What a member has sent stays sent.
LEMMA SentStays ==
  ASSUME ViewsInv, [ViewNext]_viewsVars, NEW e, Sent(e)
  PROVE  Sent(e)'
<1>1. PICK c \in Conns : /\ c \in DOMAIN clusterOf /\ status[c] # "new"
                         /\ \/ \E v \in 1..listVersion[clusterOf[c]] : e = ListEvent(c, v)
                            \/ \E v \in 1..ownerVersion[clusterOf[c]] : e = OwnerEvent(c, v)
  BY DEF Sent
<1>2. clusterOf[c] \in Clusters
  BY <1>1, ViewAssumption DEF ViewsInv, Tracked
<1>3. /\ clusterOf' = clusterOf /\ status'[c] # "new"
      /\ listVersion'[clusterOf[c]] >= listVersion[clusterOf[c]]
      /\ ownerVersion'[clusterOf[c]] >= ownerVersion[clusterOf[c]]
      /\ listVersion[clusterOf[c]] \in Nat /\ ownerVersion[clusterOf[c]] \in Nat
      /\ listVersion'[clusterOf[c]] \in Nat /\ ownerVersion'[clusterOf[c]] \in Nat
  BY <1>1, <1>2, Advances DEF ViewsInv, Tracked
<1>4. /\ \A v \in 1..listVersion[clusterOf[c]] : v \in 1..listVersion'[clusterOf'[c]]
      /\ \A v \in 1..ownerVersion[clusterOf[c]] : v \in 1..ownerVersion'[clusterOf'[c]]
  BY <1>3
<1> QED
  BY <1>1, <1>3, <1>4 DEF Sent, ListEvent, OwnerEvent

\* A connection that was made leads to a cluster.
LEMMA MadeLeads ==
  ASSUME ViewsInv, NEW c \in Conns, status[c] # "new"
  PROVE  /\ c \in DOMAIN clusterOf /\ clusterOf[c] \in Clusters
         /\ listVersion[clusterOf[c]] \in Nat /\ listVersion[clusterOf[c]] >= 1
         /\ ownerVersion[clusterOf[c]] \in Nat /\ ownerVersion[clusterOf[c]] >= 1
<1>1. c \in DOMAIN clusterOf /\ clusterOf[c] \in Clusters
  BY ViewAssumption DEF ViewsInv, Tracked
<1>2. Lists[clusterOf[c]] \in Seq(Seq(Uuids)) /\ Owners[clusterOf[c]] \in Seq(Uuids)
  BY <1>1, ViewAssumption
<1>3. listVersion[clusterOf[c]] \in DOMAIN Lists[clusterOf[c]] /\ ownerVersion[clusterOf[c]] \in DOMAIN Owners[clusterOf[c]]
  BY <1>1 DEF ViewsInv, Tracked
<1> QED
  BY <1>1, <1>2, <1>3

\* A new task is a view of the version a cluster has by then.
LEMMA NewTasks ==
  ASSUME ViewsInv, [ViewNext]_viewsVars, NEW e \in tasks', e \notin tasks
  PROVE  \E c \in Conns : /\ status[c] = "open" /\ status' = status
                          /\ \/ e = ListEvent(c, listVersion'[clusterOf[c]])
                             \/ e = OwnerEvent(c, ownerVersion'[clusterOf[c]])
<1>0. /\ watching \subseteq Conns /\ \A c \in watching : status[c] = "open"
      /\ registering \in Conns \cup {0}
      /\ listVersion \in [Clusters -> Nat] /\ ownerVersion \in [Clusters -> Nat]
  BY DEF ViewsInv, OneWatched, WatchInv, ListenerTyped, RandomConnections, Tracked
<1>1. ASSUME NEW k \in ToSet(clusterOf), MembersChange(k) PROVE \E c \in Conns : status[c] = "open" /\ status' = status /\ e = ListEvent(c, listVersion'[clusterOf[c]])
  <2>1. PICK c \in watching : clusterOf[c] = k /\ e = ListEvent(c, listVersion[k] + 1)
    BY <1>1 DEF MembersChange
  <2>2. k \in Clusters
    BY <1>0, <2>1, MadeLeads
  <2>3. listVersion'[clusterOf[c]] = listVersion[k] + 1 /\ status' = status
    BY <1>0, <1>1, <2>1, <2>2 DEF MembersChange, connVars
  <2> QED
    BY <1>0, <2>1, <2>3
<1>2. ASSUME NEW k \in ToSet(clusterOf), PartitionsChange(k) PROVE \E c \in Conns : status[c] = "open" /\ status' = status /\ e = OwnerEvent(c, ownerVersion'[clusterOf[c]])
  <2>1. PICK c \in watching : clusterOf[c] = k /\ e = OwnerEvent(c, ownerVersion[k] + 1)
    BY <1>2 DEF PartitionsChange
  <2>2. k \in Clusters
    BY <1>0, <2>1, MadeLeads
  <2>3. ownerVersion'[clusterOf[c]] = ownerVersion[k] + 1 /\ status' = status
    BY <1>0, <1>2, <2>1, <2>2 DEF PartitionsChange, connVars
  <2> QED
    BY <1>0, <2>1, <2>3
<1>3. CASE RegistrationSucceeds
  <2>1. /\ registering \in Conns /\ status[registering] = "open" /\ UNCHANGED <<status, clusterVars>>
        /\ \/ e = ListEvent(registering, listVersion[clusterOf[registering]])
           \/ e = OwnerEvent(registering, ownerVersion[clusterOf[registering]])
    BY <1>0, <1>3 DEF RegistrationSucceeds, connVars
  <2> QED
    BY <2>1 DEF clusterVars
<1>4. CASE UNCHANGED viewsVars
  BY <1>4 DEF viewsVars
<1>5. CASE RefreshedSeedAddrs \/ handleConnectionEvent \/ RegistrationFails
  BY <1>5 DEF RefreshedSeedAddrs, handleConnectionEvent, RegistrationFails
<1>6. ASSUME NEW t, Update(t) \/ UpdatePartitions(t) PROVE FALSE
  BY <1>6 DEF Update, UpdatePartitions
<1>7. ASSUME NEW k, PublishChange(k) PROVE FALSE
  BY <1>7 DEF PublishChange
<1>8. ASSUME NEW c \in Conns, Connect(c) \/ Refuse(c) \/ Disconnect(c) PROVE FALSE
  BY <1>8 DEF Connect, Refuse, Disconnect
<1> QED
  BY <1>1, <1>2, <1>3, <1>4, <1>5, <1>6, <1>7, <1>8 DEF ViewNext

\* Every step preserves Tracked.
LEMMA StepTracked == ViewsInv /\ [ViewNext]_viewsVars => Tracked'
<1> SUFFICES ASSUME ViewsInv, [ViewNext]_viewsVars PROVE Tracked'
  OBVIOUS
<1>0. /\ clusterOf \in Routes /\ status \in [Conns -> {"new", "open", "closed"}]
      /\ \A c, d \in RandomConnections : clusterOf[c] = clusterOf[d]
      /\ \A c \in Conns : status[c] # "new" => c \in DOMAIN clusterOf
      /\ \A e \in tasks : Sent(e)
  BY DEF ViewsInv, Tracked, WatchInv, ListenerTyped
<1>1. /\ clusterOf' = clusterOf /\ \A c \in Conns : status[c] # "new" => status'[c] # "new"
      /\ listVersion' \in [Clusters -> Nat] /\ ownerVersion' \in [Clusters -> Nat]
      /\ \A k \in Clusters : listVersion'[k] \in DOMAIN Lists[k] /\ ownerVersion'[k] \in DOMAIN Owners[k]
  BY Advances
<1>2. ASSUME NEW e \in tasks' PROVE Sent(e)'
  <2>1. CASE e \in tasks
    BY <1>0, <2>1, SentStays
  <2>2. CASE e \notin tasks
    <3>1. PICK c \in Conns : /\ status[c] = "open" /\ status' = status
                             /\ \/ e = ListEvent(c, listVersion'[clusterOf[c]])
                                \/ e = OwnerEvent(c, ownerVersion'[clusterOf[c]])
      BY <2>2, NewTasks
    <3>2. /\ c \in DOMAIN clusterOf' /\ status'[c] # "new" /\ clusterOf[c] \in Clusters
      BY <1>1, <3>1, MadeLeads
    <3>3. /\ listVersion'[clusterOf'[c]] \in 1..listVersion'[clusterOf'[c]]
          /\ ownerVersion'[clusterOf'[c]] \in 1..ownerVersion'[clusterOf'[c]]
      <4>1. /\ listVersion'[clusterOf[c]] \in Nat /\ listVersion'[clusterOf[c]] >= listVersion[clusterOf[c]]
            /\ ownerVersion'[clusterOf[c]] \in Nat /\ ownerVersion'[clusterOf[c]] >= ownerVersion[clusterOf[c]]
        BY <3>2, Advances
      <4>2. /\ listVersion[clusterOf[c]] \in Nat /\ listVersion[clusterOf[c]] >= 1
            /\ ownerVersion[clusterOf[c]] \in Nat /\ ownerVersion[clusterOf[c]] >= 1
        BY <3>1, MadeLeads
      <4> QED
        BY <1>1, <4>1, <4>2
    <3> QED
      BY <1>1, <3>1, <3>2, <3>3 DEF Sent, ListEvent, OwnerEvent
  <2> QED
    BY <2>1, <2>2
<1>3. /\ \A c, d \in RandomConnections' : clusterOf'[c] = clusterOf'[d]
      /\ \A c \in Conns : status'[c] # "new" => c \in DOMAIN clusterOf'
  <2>1. ASSUME NEW c \in Conns, Connect(c)
        PROVE  /\ c \in DOMAIN clusterOf /\ status' = [status EXCEPT ![c] = "open"]
               /\ \A d \in RandomConnections : clusterOf[d] = clusterOf[c]
    BY <2>1 DEF Connect, IsNext
  <2>2. ASSUME NEW c \in Conns, Refuse(c) \/ Disconnect(c)
        PROVE  c \in DOMAIN clusterOf /\ status' = [status EXCEPT ![c] = "closed"]
    BY <1>0, <2>2 DEF Refuse, Disconnect, IsNext
  <2>3. CASE status' = status
    BY <1>0, <1>1, <2>3 DEF RandomConnections
  <2>4. CASE \E c \in Conns : Connect(c) \/ Refuse(c) \/ Disconnect(c)
    BY <1>0, <1>1, <2>1, <2>2, <2>4 DEF RandomConnections
  <2>5. CASE UNCHANGED viewsVars
    BY <2>3, <2>5 DEF viewsVars, connVars
  <2>6. ASSUME NEW k, MembersChange(k) \/ PartitionsChange(k) PROVE status' = status
    BY <2>6 DEF MembersChange, PartitionsChange, connVars
  <2>7. CASE RefreshedSeedAddrs \/ handleConnectionEvent \/ RegistrationSucceeds \/ RegistrationFails
    BY <2>3, <2>7 DEF RefreshedSeedAddrs, handleConnectionEvent, RegistrationSucceeds, RegistrationFails, connVars
  <2>8. ASSUME NEW e, Update(e) \/ UpdatePartitions(e) PROVE status' = status
    BY <2>8 DEF Update, UpdatePartitions, connVars
  <2>9. ASSUME NEW k, PublishChange(k) PROVE status' = status
    BY <2>9 DEF PublishChange, connVars
  <2> QED
    BY <2>3, <2>4, <2>5, <2>6, <2>7, <2>8, <2>9 DEF ViewNext
<1> QED
  BY <1>0, <1>1, <1>2, <1>3 DEF Tracked

\* A list that a cluster has published has its members at different addresses.
LEMMA ListOf ==
  ASSUME NEW k \in Clusters, NEW v \in DOMAIN Lists[k]
  PROVE  /\ Lists[k][v] \in Seq(Uuids)
         /\ \A i, j \in DOMAIN Lists[k][v] : TranslateMember(Lists[k][v][i]) = TranslateMember(Lists[k][v][j]) => i = j
<1>1. Lists[k][v] \in Seq(Uuids)
  BY ViewAssumption
<1>2. IsInjective([i \in DOMAIN Lists[k][v] |-> Translate[AddrOf[Lists[k][v][i]]]])
  BY ViewAssumption
<1> QED
  BY <1>1, <1>2 DEF IsInjective, TranslateMember

\* What a handled list leaves behind: its members as a whole, and the changes
\* to be published, which lead from the old members to the new ones unless an
\* address was taken over.
Installed(k, v, added, removed) ==
    /\ v > version /\ version' = v
    /\ members' = ToSet(Lists[k][v]) /\ members' \subseteq Uuids /\ orderedMembers' = Lists[k][v]
    /\ added \subseteq Uuids /\ removed \subseteq Uuids
    /\ Keyed(addrToMemberUUID')
    /\ publishing' = Append(publishing, [added |-> added, removed |-> removed])
    /\ "silent" \in anomalies' \/ members' = (members \cup added) \ removed
    /\ added = {} /\ removed = {} => members' = members
    /\ majorityMajorMinor' = IF added # {} \/ removed # {}
                             THEN LargerGroupMajorMinorVersion(Lists[k][v]) ELSE majorityMajorMinor

\* An event of the member list is old and leaves everything alone, or its list is
\* installed.
LEMMA UpdateEffect ==
  ASSUME ViewsInv, NEW e \in tasks, Update(e)
  PROVE  /\ e.conn \in Conns /\ status[e.conn] # "new" /\ clusterOf[e.conn] \in Clusters
         /\ e.version \in 1..listVersion[clusterOf[e.conn]] /\ e = ListEvent(e.conn, e.version)
         /\ \/ version >= e.version /\ UNCHANGED <<memberVars, publishing, anomalies>>
            \/ /\ \E added, removed : Installed(clusterOf[e.conn], e.version, added, removed)
               /\ anomalies \subseteq anomalies'
               /\ status[e.conn] = "closed" => "late" \in anomalies'
<1>1. PICK c, v : /\ c \in Conns /\ status[c] # "new"
                  /\ v \in 1..listVersion[clusterOf[c]] /\ e = ListEvent(c, v)
  <2>1. e.kind = "members" /\ Sent(e)
    BY DEF Update, ViewsInv, Tracked
  <2> QED
    BY <2>1 DEF Sent, ListEvent, OwnerEvent
<1>2. e.conn = c /\ e.version = v
  BY <1>1 DEF ListEvent
<1> DEFINE k == clusterOf[c]
           list == Lists[k][v]
<1>3. k \in Clusters /\ listVersion[k] \in Nat
  BY <1>1, MadeLeads
<1>4. v \in DOMAIN Lists[k] /\ v \in Nat
  <2>1. Lists[k] \in Seq(Seq(Uuids)) /\ listVersion[k] \in DOMAIN Lists[k]
    BY <1>3, ViewAssumption DEF ViewsInv, Tracked
  <2>2. v \in 1..listVersion[k]
    BY <1>1
  <2> QED
    BY <1>3, <2>1, <2>2
<1>5. /\ list \in Seq(Uuids)
      /\ \A i, j \in DOMAIN list : TranslateMember(list[i]) = TranslateMember(list[j]) => i = j
  BY <1>3, <1>4, ListOf
<1>6. version \in Nat \cup {-1} /\ members \subseteq Uuids /\ Keyed(addrToMemberUUID)
  BY DEF ViewsInv, Listed, MembersTyped
<1>7. CASE ~isNewer(v)
  <2>1. UNCHANGED <<memberVars, publishing, anomalies>>
    BY <1>2, <1>7 DEF Update
  <2>2. version >= v
    BY <1>4, <1>6, <1>7 DEF isNewer
  <2> QED
    BY <1>1, <1>2, <1>3, <2>1, <2>2
<1>8. CASE isNewer(v)
  <2> DEFINE before  == [members |-> members, addrs |-> addrToMemberUUID, added |-> {}]
             mm      == AddAll(before, list)
             removed == mm.members \ ToSet(list)
             after   == removeMember(mm, removed)
  <2>1. /\ version' = v /\ orderedMembers' = list
        /\ members' = after.members /\ addrToMemberUUID' = after.addrs
        /\ majorityMajorMinor' = IF mm.added # {} \/ removed # {}
                                 THEN LargerGroupMajorMinorVersion(list) ELSE majorityMajorMinor
        /\ publishing' = Append(publishing, [added |-> mm.added, removed |-> removed])
        /\ anomalies' = anomalies
             \cup (IF members \ mm.members = {} THEN {} ELSE {"silent"})
             \cup (IF status[c] = "closed" THEN {"late"} ELSE {})
    BY <1>2, <1>8 DEF Update, ListAt, AddAll
  <2>2. Added(mm, members, list, Len(list))
    <3>1. before.added = {} /\ before.members = members /\ before.addrs = addrToMemberUUID
      OBVIOUS
    <3>2. Len(list) \in Nat /\ DOMAIN list = 1..Len(list)
      BY <1>5
    <3> HIDE DEF before, list
    <3> QED
      BY <1>5, <1>6, <3>1, <3>2, AddMembers
  <2> HIDE DEF mm
  <2>3. /\ after.members = mm.members \ removed
        /\ after.addrs = [a \in DOMAIN mm.addrs \ {AddrOf[u] : u \in removed} |-> mm.addrs[a]]
    BY DEF removeMember
  <2>4. ToSet(list) \subseteq mm.members /\ mm.added \subseteq ToSet(list) /\ mm.members \subseteq members \cup mm.added
    BY <1>5, <2>2 DEF Added, ToSet
  <2>5. ToSet(list) \subseteq Uuids
    BY <1>5 DEF ToSet
  <2>6. members' = ToSet(list)
    BY <2>1, <2>3, <2>4
  <2>7. Keyed(addrToMemberUUID')
    BY <2>1, <2>2, <2>3 DEF Added, Keyed
  <2>8. "silent" \in anomalies' \/ members' = (members \cup mm.added) \ removed
    BY <2>1, <2>4, <2>6
  <2>9. mm.added = {} /\ removed = {} => members' = members
    BY <2>2, <2>4, <2>6 DEF Added
  <2>10. v > version
    BY <1>8 DEF isNewer
  <2>11. Installed(k, v, mm.added, removed)
    BY <1>6, <2>1, <2>4, <2>5, <2>6, <2>7, <2>8, <2>9, <2>10 DEF Installed
  <2>12. anomalies \subseteq anomalies' /\ (status[c] = "closed" => "late" \in anomalies')
    BY <2>1
  <2> QED
    BY <1>1, <1>2, <1>3, <2>11, <2>12
<1> QED
  BY <1>7, <1>8

-----------------------------------------------------------------------------
\* What may change the list of members.
LEMMA MemberSteps ==
  ASSUME [ViewNext]_viewsVars
  PROVE  \/ UNCHANGED <<memberVars, publishing, heard>> /\ anomalies \subseteq anomalies'
         \/ RefreshedSeedAddrs
         \/ \E e \in tasks : Update(e)
         \/ \E k \in DOMAIN publishing : PublishChange(k)
<1>1. CASE UNCHANGED viewsVars
  BY <1>1 DEF viewsVars, eventVars
<1>2. ASSUME NEW k, MembersChange(k) \/ PartitionsChange(k)
      PROVE  UNCHANGED <<memberVars, publishing, heard>> /\ anomalies' = anomalies
  BY <1>2 DEF MembersChange, PartitionsChange, eventVars
<1>3. CASE handleConnectionEvent \/ RegistrationSucceeds \/ RegistrationFails
  BY <1>3 DEF handleConnectionEvent, RegistrationSucceeds, RegistrationFails, eventVars
<1>4. ASSUME NEW e, UpdatePartitions(e)
      PROVE  UNCHANGED <<memberVars, publishing, heard>> /\ anomalies \subseteq anomalies'
  BY <1>4 DEF UpdatePartitions, eventVars
<1>5. ASSUME NEW c \in Conns, Connect(c) \/ Refuse(c) \/ Disconnect(c)
      PROVE  UNCHANGED <<memberVars, publishing, heard>> /\ anomalies' = anomalies
  BY <1>5 DEF Connect, Refuse, Disconnect, eventVars
<1> QED
  BY <1>1, <1>2, <1>3, <1>4, <1>5 DEF ViewNext

\* Every step preserves MembersTyped.
LEMMA StepMembersTyped == ViewsInv /\ [ViewNext]_viewsVars => MembersTyped'
<1> SUFFICES ASSUME ViewsInv, [ViewNext]_viewsVars PROVE MembersTyped'
  OBVIOUS
<1>0. MembersTyped
  BY DEF ViewsInv, Listed
<1>1. CASE UNCHANGED memberVars
  BY <1>0, <1>1 DEF MembersTyped, memberVars, Keyed, TranslateMember
<1>2. CASE RefreshedSeedAddrs
  <2>1. version' = -1 /\ members' = {} /\ addrToMemberUUID' = <<>>
    BY <1>2 DEF RefreshedSeedAddrs
  <2>2. DOMAIN addrToMemberUUID' = {}
    BY <2>1
  <2> QED
    BY <2>1, <2>2 DEF MembersTyped, Keyed
<1>3. ASSUME NEW e \in tasks, Update(e) PROVE MembersTyped'
  <2>1. CASE UNCHANGED memberVars
    BY <1>1, <2>1
  <2>2. ASSUME NEW added, NEW removed, Installed(clusterOf[e.conn], e.version, added, removed) PROVE MembersTyped'
    <3>1. clusterOf[e.conn] \in Clusters /\ e.version \in 1..listVersion[clusterOf[e.conn]] /\ listVersion[clusterOf[e.conn]] \in Nat
      BY <1>3, UpdateEffect, MadeLeads
    <3>2. e.version \in Nat /\ e.version >= 1
      BY <3>1
    <3> QED
      BY <2>2, <3>2 DEF Installed, MembersTyped
  <2> QED
    BY <1>3, <2>1, <2>2, UpdateEffect
<1>4. ASSUME NEW k \in DOMAIN publishing, PublishChange(k) PROVE MembersTyped'
  BY <1>1, <1>4 DEF PublishChange
<1> QED
  BY <1>1, <1>2, <1>3, <1>4, MemberSteps

\* What may change the open connections.
LEMMA StatusSteps ==
  ASSUME [ViewNext]_viewsVars
  PROVE  status' = status \/ \E c \in Conns : Connect(c) \/ Refuse(c) \/ Disconnect(c)
<1>1. CASE UNCHANGED viewsVars
  BY <1>1 DEF viewsVars, connVars
<1>2. ASSUME NEW k, MembersChange(k) \/ PartitionsChange(k) PROVE status' = status
  BY <1>2 DEF MembersChange, PartitionsChange, connVars
<1>3. CASE RefreshedSeedAddrs \/ handleConnectionEvent \/ RegistrationSucceeds \/ RegistrationFails
  BY <1>3 DEF RefreshedSeedAddrs, handleConnectionEvent, RegistrationSucceeds, RegistrationFails, connVars
<1>4. ASSUME NEW e, Update(e) \/ UpdatePartitions(e) PROVE status' = status
  BY <1>4 DEF Update, UpdatePartitions, connVars
<1>5. ASSUME NEW k, PublishChange(k) PROVE status' = status
  BY <1>5 DEF PublishChange, connVars
<1> QED
  BY <1>1, <1>2, <1>3, <1>4, <1>5 DEF ViewNext

\* While the client has a list, a connection is opened to the cluster of another open one.
LEMMA OpenSteps ==
  ASSUME ViewsInv, [ViewNext]_viewsVars, version # -1, NEW c \in RandomConnections'
  PROVE  c \in RandomConnections \/ \E d \in RandomConnections : clusterOf[d] = clusterOf[c]
<1>0. status \in [Conns -> {"new", "open", "closed"}]
  BY DEF ViewsInv, WatchInv, ListenerTyped
<1>1. CASE status' = status
  BY <1>1 DEF RandomConnections
<1>2. ASSUME NEW d \in Conns, Connect(d)
      PROVE  c \in RandomConnections \/ \E b \in RandomConnections : clusterOf[b] = clusterOf[c]
  <2>1. /\ status' = [status EXCEPT ![d] = "open"] /\ RandomConnections # {}
        /\ \A b \in RandomConnections : clusterOf[b] = clusterOf[d]
    BY <1>2 DEF Connect
  <2>2. c \in RandomConnections \/ c = d
    BY <1>0, <2>1 DEF RandomConnections
  <2> QED
    BY <2>1, <2>2
<1>3. ASSUME NEW d \in Conns, Refuse(d) \/ Disconnect(d) PROVE c \in RandomConnections
  <2>1. status' = [status EXCEPT ![d] = "closed"]
    BY <1>3 DEF Refuse, Disconnect
  <2> QED
    BY <1>0, <2>1 DEF RandomConnections
<1> QED
  BY <1>1, <1>2, <1>3, StatusSteps

\* Every step preserves ListIsOfCluster.
LEMMA StepListIsOfCluster == ViewsInv /\ [ViewNext]_viewsVars => ListIsOfCluster'
<1> SUFFICES ASSUME ViewsInv, [ViewNext]_viewsVars, version' # -1, "late" \notin anomalies'
             PROVE  \E k \in Clusters : /\ version' \in 1..listVersion'[k] /\ members' = ToSet(Lists[k][version'])
                                        /\ \A c \in RandomConnections' : clusterOf'[c] = k
  BY DEF ListIsOfCluster
<1>0. clusterOf' = clusterOf
  BY Advances
<1>1. ASSUME NEW k \in Clusters, NEW v, v \in 1..listVersion[k] PROVE v \in 1..listVersion'[k]
  BY <1>1, Advances DEF ViewsInv, Tracked
<1>2. ASSUME UNCHANGED <<version, members>>, "late" \notin anomalies
      PROVE  \E k \in Clusters : /\ version' \in 1..listVersion'[k] /\ members' = ToSet(Lists[k][version'])
                                 /\ \A c \in RandomConnections' : clusterOf'[c] = k
  <2>1. PICK k \in Clusters : /\ version \in 1..listVersion[k] /\ members = ToSet(Lists[k][version])
                              /\ \A c \in RandomConnections : clusterOf[c] = k
    BY <1>2 DEF ViewsInv, Listed, ListIsOfCluster
  <2>2. \A c \in RandomConnections' : clusterOf'[c] = k
    BY <1>0, <1>2, <2>1, OpenSteps
  <2> QED
    BY <1>1, <1>2, <2>1, <2>2
<1>3. CASE UNCHANGED memberVars /\ anomalies \subseteq anomalies'
  BY <1>2, <1>3 DEF memberVars
<1>4. CASE RefreshedSeedAddrs
  BY <1>4 DEF RefreshedSeedAddrs
<1>5. ASSUME NEW e \in tasks, Update(e)
      PROVE  \E k \in Clusters : /\ version' \in 1..listVersion'[k] /\ members' = ToSet(Lists[k][version'])
                                 /\ \A c \in RandomConnections' : clusterOf'[c] = k
  <2>1. CASE UNCHANGED <<memberVars, publishing, anomalies>>
    BY <1>3, <2>1
  <2>2. ASSUME NEW added, NEW removed, Installed(clusterOf[e.conn], e.version, added, removed),
               status[e.conn] = "closed" => "late" \in anomalies'
        PROVE  \E k \in Clusters : /\ version' \in 1..listVersion'[k] /\ members' = ToSet(Lists[k][version'])
                                   /\ \A c \in RandomConnections' : clusterOf'[c] = k
    <3>1. e.conn \in Conns /\ status[e.conn] # "new" /\ clusterOf[e.conn] \in Clusters
          /\ e.version \in 1..listVersion[clusterOf[e.conn]]
      BY <1>5, UpdateEffect
    <3>2. status' = status
      BY <1>5 DEF Update, connVars
    <3>3. e.conn \in RandomConnections
      BY <2>2, <3>1 DEF RandomConnections, ViewsInv, WatchInv, ListenerTyped
    <3>4. \A c \in RandomConnections' : clusterOf'[c] = clusterOf[e.conn]
      BY <1>0, <3>2, <3>3 DEF RandomConnections, ViewsInv, Tracked
    <3> QED
      BY <1>1, <2>2, <3>1, <3>4 DEF Installed
  <2> QED
    BY <1>5, <2>1, <2>2, UpdateEffect
<1>6. ASSUME NEW k \in DOMAIN publishing, PublishChange(k) PROVE UNCHANGED memberVars /\ anomalies \subseteq anomalies'
  BY <1>6 DEF PublishChange
<1> QED
  BY <1>3, <1>4, <1>5, <1>6, MemberSteps

\* What may make a view necessary, or take one from the tasks.
LEMMA ViewSteps ==
  ASSUME ViewsInv, [ViewNext]_viewsVars
  PROVE  /\ \A c \in watching' : c \in watching \/ (RegistrationSucceeds /\ c = registering)
         /\ \A t \in tasks : t \in tasks' \/ (t.kind = "members" /\ Update(t)) \/ (t.kind = "partitions" /\ UpdatePartitions(t))
         /\ \A k \in Clusters : listVersion'[k] = listVersion[k] \/ MembersChange(k)
         /\ \A k \in Clusters : ownerVersion'[k] = ownerVersion[k] \/ PartitionsChange(k)
<1>0. listVersion \in [Clusters -> Nat] /\ ownerVersion \in [Clusters -> Nat]
  BY DEF ViewsInv, Tracked
<1>1. CASE UNCHANGED <<clusterVars, watching, tasks>>
  BY <1>1 DEF clusterVars
<1>2. ASSUME NEW k, MembersChange(k)
      PROVE  UNCHANGED <<watching, ownerVersion>> /\ tasks \subseteq tasks' /\ \A j \in Clusters : j # k => listVersion'[j] = listVersion[j]
  BY <1>0, <1>2 DEF MembersChange, listenerVars
<1>3. ASSUME NEW k, PartitionsChange(k)
      PROVE  UNCHANGED <<watching, listVersion>> /\ tasks \subseteq tasks' /\ \A j \in Clusters : j # k => ownerVersion'[j] = ownerVersion[j]
  BY <1>0, <1>3 DEF PartitionsChange, listenerVars
<1>4. CASE RegistrationSucceeds
  BY <1>4 DEF RegistrationSucceeds, clusterVars
<1>5. ASSUME NEW e, Update(e) \/ UpdatePartitions(e)
      PROVE  UNCHANGED <<clusterVars, watching>> /\ tasks' = tasks \ {e} /\ (e.kind = "members" => Update(e)) /\ (e.kind = "partitions" => UpdatePartitions(e))
             /\ e.kind \in {"members", "partitions"}
  BY <1>5 DEF Update, UpdatePartitions, listenerVars
<1>6. ASSUME NEW c \in Conns, Connect(c) \/ Refuse(c) \/ Disconnect(c)
      PROVE  UNCHANGED <<clusterVars, tasks>> /\ watching' \subseteq watching
  BY <1>6 DEF Connect, Refuse, Disconnect, listenerVars
<1>7. CASE UNCHANGED viewsVars
  BY <1>1, <1>7 DEF viewsVars, listenerVars
<1>8. CASE RefreshedSeedAddrs \/ handleConnectionEvent \/ RegistrationFails
  BY <1>1, <1>8 DEF RefreshedSeedAddrs, handleConnectionEvent, RegistrationFails, listenerVars
<1>9. ASSUME NEW k, PublishChange(k) PROVE UNCHANGED <<clusterVars, watching, tasks>>
  BY <1>9 DEF PublishChange, listenerVars
<1>10. CASE \E k \in ToSet(clusterOf) : MembersChange(k) \/ PartitionsChange(k)
  BY <1>2, <1>3, <1>10
<1>11. CASE \E e \in tasks : Update(e) \/ UpdatePartitions(e)
  BY <1>5, <1>11 DEF clusterVars
<1>12. CASE \E c \in Conns : Connect(c) \/ Refuse(c) \/ Disconnect(c)
  BY <1>6, <1>12 DEF clusterVars
<1> QED
  BY <1>1, <1>4, <1>7, <1>8, <1>9, <1>10, <1>11, <1>12 DEF ViewNext

\* Until the client looks for a cluster again, its list only advances.
LEMMA VersionAdvances ==
  ASSUME ViewsInv, [ViewNext]_viewsVars, RandomConnections # {}
  PROVE  version' >= version
<1>0. version \in Nat \cup {-1} /\ version' \in Nat \cup {-1}
  BY StepMembersTyped DEF ViewsInv, Listed, MembersTyped
<1>1. CASE version' = version
  BY <1>0, <1>1
<1>2. CASE RefreshedSeedAddrs
  BY <1>2 DEF RefreshedSeedAddrs
<1>3. ASSUME NEW e \in tasks, Update(e) PROVE version' >= version
  <2>1. version' = version \/ (e.version > version /\ version' = e.version)
    BY <1>3, UpdateEffect DEF Installed, memberVars
  <2> QED
    BY <1>0, <2>1
<1>4. ASSUME NEW k \in DOMAIN publishing, PublishChange(k) PROVE version' = version
  BY <1>4 DEF PublishChange, memberVars
<1> QED
  BY <1>1, <1>2, <1>3, <1>4, MemberSteps DEF memberVars

\* Every step preserves LastListComes.
LEMMA StepLastListComes == ViewsInv /\ [ViewNext]_viewsVars => LastListComes'
<1> SUFFICES ASSUME ViewsInv, [ViewNext]_viewsVars, NEW c \in watching'
             PROVE  ListEvent(c, listVersion'[clusterOf[c]]) \in tasks' \/ version' >= listVersion'[clusterOf[c]]
  BY Advances DEF LastListComes, ListEvent
<1>1. CASE RegistrationSucceeds /\ c = registering
  BY <1>1 DEF RegistrationSucceeds, clusterVars
<1>2. CASE c \in watching
  <2> DEFINE k == clusterOf[c]
  <2>1. c \in Conns /\ status[c] = "open" /\ c \in RandomConnections
    BY <1>2 DEF ViewsInv, OneWatched, RandomConnections
  <2>2. k \in Clusters /\ listVersion[k] \in Nat
    BY <2>1, MadeLeads
  <2>3. CASE MembersChange(k)
    BY <1>2, <2>2, <2>3 DEF MembersChange, ViewsInv, Tracked
  <2>4. CASE listVersion'[k] = listVersion[k]
    <3>1. version' >= version /\ version \in Nat \cup {-1} /\ version' \in Nat \cup {-1}
      BY <2>1, VersionAdvances, StepMembersTyped DEF ViewsInv, Listed, MembersTyped
    <3>2. CASE version >= listVersion[k]
      BY <2>2, <2>4, <3>1, <3>2
    <3>3. CASE ListEvent(c, listVersion[k]) \in tasks
      <4> DEFINE t == ListEvent(c, listVersion[k])
      <4>1. t.version = listVersion[k] /\ t.kind # "partitions"
        BY DEF ListEvent
      <4>2. CASE t \in tasks'
        BY <2>4, <4>2
      <4>3. CASE Update(t)
        <5>1. version' = listVersion[k] \/ (version' = version /\ version >= listVersion[k])
          BY <3>3, <4>1, <4>3, UpdateEffect DEF Installed, memberVars
        <5> QED
          BY <2>2, <2>4, <3>1, <5>1
      <4> QED
        BY <3>3, <4>1, <4>2, <4>3, ViewSteps
    <3> QED
      BY <1>2, <3>2, <3>3 DEF ViewsInv, Listed, LastListComes
  <2> QED
    BY <2>2, <2>3, <2>4, ViewSteps
<1> QED
  BY <1>1, <1>2, ViewSteps

\* The partition table of an event replaces the one of the client unless it is not
\* newer than the last one of its connection, or the same.
LEMMA UpdatePartitionsEffect ==
  ASSUME ViewsInv, NEW e \in tasks, UpdatePartitions(e)
  PROVE  /\ e.conn \in Conns /\ status[e.conn] # "new"
         /\ e.version \in 1..ownerVersion[clusterOf[e.conn]]
         /\ anomalies \subseteq anomalies'
         /\ \/ connectionID = e.conn /\ e.version <= partitionStateVersion /\ UNCHANGED partitionVars
            \/ "unrecorded" \in anomalies' /\ UNCHANGED partitionVars
            \/ /\ ~(connectionID = e.conn /\ e.version <= partitionStateVersion)
               /\ partitions' = Owners[clusterOf[e.conn]][e.version]
               /\ partitionStateVersion' = e.version /\ connectionID' = e.conn
               /\ e.conn # viewConn => "late" \in anomalies'
<1>1. e.kind = "partitions" /\ Sent(e)
  BY DEF UpdatePartitions, ViewsInv, Tracked
<1>2. PICK c \in Conns : status[c] # "new" /\ \E v \in 1..ownerVersion[clusterOf[c]] : e = OwnerEvent(c, v)
  BY <1>1 DEF Sent, ListEvent
<1>3. e.conn = c /\ e.version \in 1..ownerVersion[clusterOf[c]]
  BY <1>2 DEF OwnerEvent
<1>4. \/ connectionID = e.conn /\ e.version <= partitionStateVersion /\ UNCHANGED <<partitionVars, anomalies>>
      \/ anomalies' = anomalies \cup {"unrecorded"} /\ UNCHANGED partitionVars
      \/ /\ ~(connectionID = e.conn /\ e.version <= partitionStateVersion)
         /\ partitions' = Owners[clusterOf[e.conn]][e.version]
         /\ partitionStateVersion' = e.version /\ connectionID' = e.conn
         /\ anomalies' = anomalies \cup (IF e.conn # viewConn THEN {"late"} ELSE {})
  BY DEF UpdatePartitions, cantApply, OwnerAt
<1> QED
  BY <1>2, <1>3, <1>4

\* What may change the partition table.
LEMMA PartitionSteps ==
  ASSUME [ViewNext]_viewsVars
  PROVE  UNCHANGED partitionVars \/ \E e \in tasks : UpdatePartitions(e)
<1>1. CASE UNCHANGED viewsVars
  BY <1>1 DEF viewsVars
<1>2. ASSUME NEW k, MembersChange(k) \/ PartitionsChange(k) PROVE UNCHANGED partitionVars
  BY <1>2 DEF MembersChange, PartitionsChange
<1>3. CASE RefreshedSeedAddrs \/ handleConnectionEvent \/ RegistrationSucceeds \/ RegistrationFails
  BY <1>3 DEF RefreshedSeedAddrs, handleConnectionEvent, RegistrationSucceeds, RegistrationFails
<1>4. ASSUME NEW e, Update(e) PROVE UNCHANGED partitionVars
  BY <1>4 DEF Update
<1>5. ASSUME NEW k, PublishChange(k) PROVE UNCHANGED partitionVars
  BY <1>5 DEF PublishChange
<1>6. ASSUME NEW c \in Conns, Connect(c) \/ Refuse(c) \/ Disconnect(c) PROVE UNCHANGED partitionVars
  BY <1>6 DEF Connect, Refuse, Disconnect
<1> QED
  BY <1>1, <1>2, <1>3, <1>4, <1>5, <1>6 DEF ViewNext

\* What has happened has happened.
LEMMA AnomaliesStay ==
  ASSUME ViewsInv, [ViewNext]_viewsVars
  PROVE  anomalies \subseteq anomalies'
<1>1. CASE RefreshedSeedAddrs
  BY <1>1 DEF RefreshedSeedAddrs
<1>2. ASSUME NEW k, PublishChange(k) PROVE anomalies \subseteq anomalies'
  BY <1>2 DEF PublishChange
<1>3. ASSUME NEW e \in tasks, Update(e) PROVE anomalies \subseteq anomalies'
  BY <1>3, UpdateEffect
<1> QED
  BY <1>1, <1>2, <1>3, MemberSteps

\* Every step preserves TableIsOfConn.
LEMMA StepTableIsOfConn == ViewsInv /\ [ViewNext]_viewsVars => TableIsOfConn'
<1> SUFFICES ASSUME ViewsInv, [ViewNext]_viewsVars, connectionID' # 0 PROVE TableIsOfConn'
  BY DEF TableIsOfConn
<1>1. ASSUME NEW c \in Conns, status[c] # "new", NEW v, v \in 1..ownerVersion[clusterOf[c]],
             connectionID' = c, partitionStateVersion' = v, partitions' = Owners[clusterOf[c]][v]
      PROVE  TableIsOfConn'
  <2>1. clusterOf[c] \in Clusters /\ ownerVersion[clusterOf[c]] \in Nat
    BY <1>1, MadeLeads
  <2>2. /\ clusterOf' = clusterOf /\ status'[c] # "new" /\ ownerVersion'[clusterOf[c]] \in Nat
        /\ ownerVersion'[clusterOf[c]] >= ownerVersion[clusterOf[c]]
    BY <1>1, <2>1, Advances
  <2>3. v \in 1..ownerVersion'[clusterOf[c]]
    BY <1>1, <2>1, <2>2
  <2> QED
    BY <1>1, <2>2, <2>3 DEF TableIsOfConn
<1>2. CASE UNCHANGED partitionVars
  BY <1>1, <1>2 DEF ViewsInv, Placed, TableIsOfConn, partitionVars
<1>3. ASSUME NEW e \in tasks, UpdatePartitions(e) PROVE TableIsOfConn'
  BY <1>1, <1>2, <1>3, UpdatePartitionsEffect
<1> QED
  BY <1>2, <1>3, PartitionSteps

\* Every step preserves LastTableComes.
LEMMA StepLastTableComes == ViewsInv /\ [ViewNext]_viewsVars => LastTableComes'
<1> SUFFICES ASSUME ViewsInv, [ViewNext]_viewsVars, {"late", "unrecorded"} \cap anomalies' = {}, NEW c \in watching'
             PROVE  \/ OwnerEvent(c, ownerVersion'[clusterOf[c]]) \in tasks'
                    \/ connectionID' = c /\ partitionStateVersion' >= ownerVersion'[clusterOf[c]]
  BY Advances DEF LastTableComes, OwnerEvent
<1>1. CASE RegistrationSucceeds /\ c = registering
  BY <1>1 DEF RegistrationSucceeds, clusterVars
<1>2. CASE c \in watching
  <2> DEFINE k == clusterOf[c]
             v == ownerVersion[k]
  <2>1. c \in Conns /\ status[c] = "open" /\ c = viewConn /\ c # 0
    BY <1>2, NoConnIsZero DEF ViewsInv, OneWatched, RandomConnections
  <2>2. k \in Clusters /\ v \in Nat
    BY <2>1, MadeLeads
  <2>3. CASE PartitionsChange(k)
    BY <1>2, <2>2, <2>3 DEF PartitionsChange, ViewsInv, Tracked
  <2>4. CASE ownerVersion'[k] = v
    <3>1. CASE connectionID = c /\ partitionStateVersion >= v
      <4>1. partitionStateVersion \in Nat
        BY <2>1, <2>2, <3>1 DEF ViewsInv, Placed, TableIsOfConn
      <4>2. ASSUME NEW e \in tasks, UpdatePartitions(e) PROVE connectionID' = c /\ partitionStateVersion' >= v
        <5>1. CASE UNCHANGED partitionVars
          BY <3>1, <5>1 DEF partitionVars
        <5>2. CASE /\ ~(connectionID = e.conn /\ e.version <= partitionStateVersion)
                   /\ partitionStateVersion' = e.version /\ connectionID' = e.conn
                   /\ e.conn # viewConn => "late" \in anomalies'
          <6>1. e.conn = c
            BY <2>1, <5>2
          <6>2. e.version \in Nat
            BY <2>2, <4>2, <6>1, UpdatePartitionsEffect
          <6> QED
            BY <2>2, <3>1, <4>1, <5>2, <6>1, <6>2
        <5> QED
          BY <4>2, <5>1, <5>2, UpdatePartitionsEffect
      <4> QED
        BY <2>4, <3>1, <4>2, PartitionSteps DEF partitionVars
    <3>2. CASE OwnerEvent(c, v) \in tasks
      <4> DEFINE t == OwnerEvent(c, v)
      <4>1. t.version = v /\ t.conn = c /\ t.kind # "members"
        BY DEF OwnerEvent
      <4>2. CASE t \in tasks'
        BY <2>4, <4>2
      <4>3. CASE UpdatePartitions(t)
        <5>1. connectionID' = c /\ (partitionStateVersion' = v \/ (v <= partitionStateVersion /\ connectionID = c /\ partitionStateVersion' = partitionStateVersion))
          BY <3>2, <4>1, <4>3, UpdatePartitionsEffect DEF partitionVars
        <5>2. connectionID = c => partitionStateVersion \in Nat
          BY <2>1, <2>2 DEF ViewsInv, Placed, TableIsOfConn
        <5> QED
          BY <2>2, <2>4, <5>1, <5>2
      <4> QED
        BY <3>2, <4>1, <4>2, <4>3, ViewSteps
    <3>3. {"late", "unrecorded"} \cap anomalies = {}
      BY AnomaliesStay
    <3> QED
      BY <1>2, <3>1, <3>2, <3>3 DEF ViewsInv, Placed, LastTableComes
  <2> QED
    BY <2>2, <2>3, <2>4, ViewSteps
<1> QED
  BY <1>1, <1>2, ViewSteps

\* What a handler publishes.
Changes == [added : SUBSET Uuids, removed : SUBSET Uuids]

\* A change that is published behind the others is heard last.
LEMMA HearAppended ==
  ASSUME publishing \in Seq(Changes), NEW x \in Changes, publishing' = Append(publishing, x), heard' = heard, NEW u
  PROVE  WillHear(u)' <=> (WillHear(u) \/ u \in x.added) /\ u \notin x.removed
<1> DEFINE n == Len(publishing)
<1>1. /\ n \in Nat /\ DOMAIN publishing = 1..n /\ DOMAIN publishing' = 1..(n + 1)
      /\ \A i \in 1..n : publishing'[i] = publishing[i]
      /\ publishing'[n + 1] = x
  OBVIOUS
<1> HIDE DEF n
<1>2. ASSUME WillHear(u)' PROVE (WillHear(u) \/ u \in x.added) /\ u \notin x.removed
  <2>1. n + 1 \in 1..(n + 1) /\ \A i \in 1..n : i \in 1..(n + 1) /\ n + 1 >= i
    BY <1>1
  <2>2. \A i \in 1..(n + 1) : n + 1 >= i /\ (i \in 1..n \/ i = n + 1)
    BY <1>1
  <2> QED
    BY <1>1, <1>2, <2>1, <2>2 DEF WillHear
<1>3. ASSUME WillHear(u), u \notin x.removed PROVE WillHear(u)'
  <2>1. \A i \in 1..n : i \in 1..(n + 1)
    BY <1>1
  <2>2. \A i \in 1..(n + 1) : i \in 1..n \/ i = n + 1
    BY <1>1
  <2> QED
    BY <1>1, <1>3, <2>1, <2>2 DEF WillHear
<1>4. ASSUME u \in x.added, u \notin x.removed PROVE WillHear(u)'
  <2>1. n + 1 \in 1..(n + 1) /\ \A i \in 1..(n + 1) : i >= n + 1 => i = n + 1
    BY <1>1
  <2> QED
    BY <1>1, <1>4, <2>1 DEF WillHear
<1> QED
  BY <1>2, <1>3, <1>4

\* Publishing the first change leaves what will be heard in the end.
LEMMA HearFirst ==
  ASSUME publishing \in Seq(Changes), 1 \in DOMAIN publishing, publishing' = RemoveAt(publishing, 1),
         heard' = (heard \cup publishing[1].added) \ publishing[1].removed, NEW u
  PROVE  WillHear(u)' <=> WillHear(u)
<1> DEFINE n == Len(publishing)
<1>1. /\ n \in Nat /\ DOMAIN publishing = 1..n /\ n >= 1
      /\ DOMAIN publishing' = 1..(n - 1) /\ \A i \in 1..(n - 1) : publishing'[i] = publishing[i + 1]
  BY DEF RemoveAt
<1> HIDE DEF n
<1>2. /\ \A i \in 1..(n - 1) : i + 1 \in 1..n /\ i + 1 # 1
      /\ \A i \in 1..n : i = 1 \/ (i - 1 \in 1..(n - 1) /\ (i - 1) + 1 = i)
  BY <1>1
<1>3. \A i \in 1..n : i = 1 \/ publishing[i] = publishing'[i - 1]
  BY <1>1, <1>2
<1>4. ASSUME WillHear(u)' PROVE WillHear(u)
  <2>1. CASE u \in heard' /\ \A j \in DOMAIN publishing' : u \notin publishing'[j].removed
    <3>1. \A j \in 1..n : u \notin publishing[j].removed
      BY <1>1, <1>2, <1>3, <2>1
    <3>2. \A j \in 1..n : j >= 1
      BY <1>1
    <3> QED
      BY <1>1, <2>1, <3>1, <3>2 DEF WillHear
  <2>2. ASSUME NEW i \in DOMAIN publishing', u \in publishing'[i].added,
               \A j \in DOMAIN publishing' : j >= i => u \notin publishing'[j].removed
        PROVE  WillHear(u)
    <3>1. i + 1 \in 1..n /\ u \in publishing[i + 1].added
      BY <1>1, <1>2, <2>2
    <3>2. ASSUME NEW j \in 1..n, j >= i + 1 PROVE u \notin publishing[j].removed
      <4>1. j # 1 /\ j - 1 \in 1..(n - 1) /\ j - 1 >= i
        BY <1>1, <1>2, <2>2, <3>2
      <4> QED
        BY <1>1, <1>3, <2>2, <4>1
    <3> QED
      BY <1>1, <3>1, <3>2 DEF WillHear
  <2> QED
    BY <1>4, <2>1, <2>2 DEF WillHear
<1>5. ASSUME WillHear(u) PROVE WillHear(u)'
  <2>1. CASE u \in heard' /\ \A j \in 1..n : j = 1 \/ u \notin publishing[j].removed
    BY <1>1, <1>2, <2>1 DEF WillHear
  <2>2. CASE u \in heard /\ \A j \in 1..n : u \notin publishing[j].removed
    BY <1>1, <2>1, <2>2
  <2>3. ASSUME NEW i \in 1..n, u \in publishing[i].added,
               \A j \in 1..n : j >= i => u \notin publishing[j].removed
        PROVE  WillHear(u)'
    <3>1. CASE i = 1
      <4>1. \A j \in 1..n : j >= 1
        BY <1>1
      <4> QED
        BY <1>1, <2>1, <2>3, <3>1, <4>1
    <3>2. CASE i # 1
      <4>1. i - 1 \in 1..(n - 1) /\ u \in publishing'[i - 1].added
        BY <1>1, <1>2, <1>3, <2>3, <3>2
      <4>2. ASSUME NEW j \in 1..(n - 1), j >= i - 1 PROVE u \notin publishing'[j].removed
        <5>1. j + 1 \in 1..n /\ j + 1 >= i
          BY <1>1, <4>2
        <5> QED
          BY <1>1, <2>3, <5>1
      <4> QED
        BY <1>1, <4>1, <4>2 DEF WillHear
    <3> QED
      BY <3>1, <3>2
  <2> QED
    BY <1>1, <1>5, <2>2, <2>3 DEF WillHear
<1> QED
  BY <1>4, <1>5

\* Every step preserves Heard.
LEMMA StepHeard == ViewsInv /\ [ViewNext]_viewsVars => Heard'
<1> SUFFICES ASSUME ViewsInv, [ViewNext]_viewsVars PROVE Heard'
  OBVIOUS
<1>0. /\ publishing \in Seq(Changes) /\ heard \subseteq Uuids
      /\ {"silent", "reordered"} \cap anomalies = {} => \A u \in Uuids : u \in members <=> WillHear(u)
  BY DEF ViewsInv, Heard, Changes
<1>1. CASE UNCHANGED <<members, publishing, heard>> /\ anomalies \subseteq anomalies'
  <2>1. \A u : WillHear(u)' <=> WillHear(u)
    BY <1>1 DEF WillHear
  <2> QED
    BY <1>0, <1>1, <2>1 DEF Heard, Changes
<1>2. CASE RefreshedSeedAddrs
  <2>1. /\ UNCHANGED <<publishing, heard>> /\ members' = {}
        /\ anomalies' = anomalies \cup (IF heard = {} /\ publishing = <<>> THEN {} ELSE {"silent"})
    BY <1>2 DEF RefreshedSeedAddrs, eventVars
  <2>2. CASE heard = {} /\ publishing = <<>>
    <3>1. \A u : ~WillHear(u)'
      BY <2>1, <2>2 DEF WillHear
    <3> QED
      BY <1>0, <2>1, <3>1 DEF Heard, Changes
  <2>3. CASE "silent" \in anomalies'
    BY <1>0, <2>1, <2>3 DEF Heard, Changes
  <2> QED
    BY <2>1, <2>2, <2>3
<1>3. ASSUME NEW e \in tasks, Update(e) PROVE Heard'
  <2>0. heard' = heard
    BY <1>3 DEF Update
  <2>1. CASE UNCHANGED <<memberVars, publishing, anomalies>>
    BY <1>1, <2>0, <2>1 DEF memberVars
  <2>2. ASSUME NEW added, NEW removed, Installed(clusterOf[e.conn], e.version, added, removed),
               anomalies \subseteq anomalies'
        PROVE  Heard'
    <3> DEFINE x == [added |-> added, removed |-> removed]
    <3>1. x \in Changes /\ x.added = added /\ x.removed = removed /\ publishing' = Append(publishing, x)
      BY <2>2 DEF Installed, Changes
    <3> HIDE DEF x
    <3>2. publishing' \in Seq(Changes)
      BY <1>0, <3>1
    <3>3. \A u : WillHear(u)' <=> (WillHear(u) \/ u \in added) /\ u \notin removed
      BY <1>0, <2>0, <3>1, HearAppended
    <3>4. "silent" \in anomalies' \/ members' = (members \cup added) \ removed
      BY <2>2 DEF Installed
    <3> QED
      BY <1>0, <2>0, <2>2, <3>2, <3>3, <3>4 DEF Heard, Changes
  <2> QED
    BY <1>3, <2>1, <2>2, UpdateEffect
<1>4. ASSUME NEW k \in DOMAIN publishing, PublishChange(k) PROVE Heard'
  <2>1. /\ heard' = (heard \cup publishing[k].added) \ publishing[k].removed
        /\ publishing' = RemoveAt(publishing, k) /\ members' = members
        /\ anomalies' = IF k = 1 THEN anomalies ELSE anomalies \cup {"reordered"}
    BY <1>4 DEF PublishChange, memberVars
  <2>2. publishing' \in Seq(Changes)
    BY <1>0, <2>1 DEF RemoveAt
  <2>3. heard' \subseteq Uuids
    <3>1. publishing[k] \in Changes
      BY <1>0
    <3> QED
      BY <1>0, <2>1, <3>1 DEF Changes
  <2>4. CASE k = 1
    <3>1. \A u : WillHear(u)' <=> WillHear(u)
      BY <1>0, <1>4, <2>1, <2>4, HearFirst
    <3> QED
      BY <1>0, <2>1, <2>2, <2>3, <2>4, <3>1 DEF Heard, Changes
  <2>5. CASE k # 1
    BY <2>1, <2>2, <2>3, <2>5 DEF Heard, Changes
  <2> QED
    BY <2>4, <2>5
<1> QED
  BY <1>1, <1>2, <1>3, <1>4, MemberSteps DEF memberVars

\* Every step preserves the invariant ...
LEMMA StepViews == ViewsInv /\ [ViewNext]_viewsVars => ViewsInv'
  BY StepWatch, StepTracked, StepOneWatched, StepMembersTyped, StepListIsOfCluster, StepLastListComes,
     StepTableIsOfConn, StepLastTableComes, StepHeard DEF ViewsInv, Listed, Placed

\* ... which therefore holds always.
LEMMA ViewsHold == ViewSpec => []ViewsInv
  BY InitViews, StepViews, PTL DEF ViewSpec

(***************************************************************************)
(* Once everything is handled, a connected client has the members and the  *)
(* owners of its cluster, and so have its membership listeners, except     *)
(* after the anomalies that CaughtUp names: handleMembersUpdated,          *)
(* PartitionService.Update and the view listener lose nothing, however     *)
(* their events are reordered and for any clusters and lists.              *)
(***************************************************************************)
THEOREM ViewsCatchUp == ViewSpec => []CaughtUp
<1>1. ViewsInv => CaughtUp
  <2> SUFFICES ASSUME ViewsInv, Quiet, viewConn # 0, status[viewConn] = "open"
               PROVE  LET k == clusterOf[viewConn]
                      IN  /\ "late" \notin anomalies => members = ToSet(Lists[k][listVersion[k]])
                          /\ {"late", "unrecorded"} \intersect anomalies = {} => partitions = Owners[k][ownerVersion[k]]
                          /\ {"silent", "reordered"} \intersect anomalies = {} => heard = members
    BY DEF CaughtUp
  <2> DEFINE k == clusterOf[viewConn]
  <2>1. inbox = <<>> /\ registering = 0 /\ tasks = {} /\ publishing = <<>>
    BY DEF Quiet
  <2>2. viewConn \in Conns /\ viewConn \in watching /\ viewConn \in RandomConnections
    BY <2>1 DEF ViewsInv, WatchInv, ListenerTyped, Told, RandomConnections
  <2>3. k \in Clusters /\ listVersion[k] \in Nat /\ listVersion[k] >= 1 /\ ownerVersion[k] \in Nat
    BY <2>2, MadeLeads
  <2>4. ASSUME "late" \notin anomalies PROVE members = ToSet(Lists[k][listVersion[k]])
    <3>1. version >= listVersion[k] /\ version \in Nat \cup {-1}
      BY <2>1, <2>2 DEF ViewsInv, Listed, LastListComes, MembersTyped
    <3>2. version \in 1..listVersion[k] /\ members = ToSet(Lists[k][version])
      <4>1. version # -1
        BY <2>3, <3>1
      <4> QED
        BY <2>2, <2>4, <4>1 DEF ViewsInv, Listed, ListIsOfCluster
    <3>3. version = listVersion[k]
      BY <2>3, <3>1, <3>2
    <3> QED
      BY <3>2, <3>3
  <2>5. ASSUME {"late", "unrecorded"} \intersect anomalies = {} PROVE partitions = Owners[k][ownerVersion[k]]
    <3>1. connectionID = viewConn /\ partitionStateVersion >= ownerVersion[k]
      BY <2>1, <2>2, <2>5 DEF ViewsInv, Placed, LastTableComes
    <3>2. partitionStateVersion \in 1..ownerVersion[k] /\ partitions = Owners[k][partitionStateVersion]
      BY <3>1 DEF ViewsInv, Placed, TableIsOfConn
    <3>3. partitionStateVersion = ownerVersion[k]
      BY <2>3, <3>1, <3>2
    <3> QED
      BY <3>2, <3>3
  <2>6. ASSUME {"silent", "reordered"} \intersect anomalies = {} PROVE heard = members
    <3>1. DOMAIN publishing = {}
      BY <2>1
    <3>2. \A u \in Uuids : u \in members <=> u \in heard
      BY <2>6, <3>1 DEF ViewsInv, Heard, WillHear
    <3> QED
      BY <3>2 DEF ViewsInv, Heard, Listed, MembersTyped
  <2> QED
    BY <2>4, <2>5, <2>6
<1> QED
  BY <1>1, ViewsHold, PTL

(***************************************************************************)
(* The cluster service implements MemberView: whatever addMember and       *)
(* removeMember do to the two maps of the list, and in whatever order the  *)
(* stripes run the events, the client holds a published list as a whole    *)
(* and replaces it only by a later one, until it looks for a cluster again.*)
(***************************************************************************)
THEOREM MemberListRefines == ViewSpec => ImplementsMemberView
<1>1. ViewInit => View!Init
  BY DEF ViewInit, View!Init
<1>2. ViewsInv /\ [ViewNext]_viewsVars => [View!Next]_(View!viewVars)
  <2> SUFFICES ASSUME ViewsInv, [ViewNext]_viewsVars PROVE View!Next \/ UNCHANGED View!viewVars
    OBVIOUS
  <2>1. ASSUME UNCHANGED clusterVars PROVE Published' = Published
    BY <2>1 DEF Published, clusterVars
  <2>2. Published \subseteq Published'
    <3>1. ASSUME NEW k \in Clusters PROVE 1..listVersion[k] \subseteq 1..listVersion'[k]
      BY Advances DEF ViewsInv, Tracked
    <3> QED
      BY <3>1 DEF Published
  <2>3. CASE UNCHANGED <<version, members>>
    BY <2>2, <2>3 DEF View!Next, View!Publish
  <2>4. CASE RefreshedSeedAddrs
    BY <2>1, <2>4 DEF RefreshedSeedAddrs, View!Next, View!Reset
  <2>5. ASSUME NEW e \in tasks, Update(e) PROVE View!Next
    <3>1. Published' = Published
      BY <2>1, <2>5 DEF Update
    <3>2. CASE UNCHANGED memberVars
      BY <2>2, <3>2 DEF memberVars, View!Next, View!Publish
    <3>3. ASSUME NEW added, NEW removed, Installed(clusterOf[e.conn], e.version, added, removed) PROVE View!Install
      <4> DEFINE k == clusterOf[e.conn]
                 list == [version |-> e.version, members |-> ToSet(Lists[k][e.version])]
      <4>1. k \in Clusters /\ e.version \in 1..listVersion[k]
        BY <2>5, UpdateEffect
      <4>2. list \in Published
        BY <4>1 DEF Published
      <4>3. list.version > version /\ version' = list.version /\ members' = list.members
        BY <3>3 DEF Installed
      <4> HIDE DEF list
      <4> QED
        BY <3>1, <4>2, <4>3 DEF View!Install
    <3> QED
      BY <2>5, <3>2, <3>3, UpdateEffect DEF View!Next
  <2>6. ASSUME NEW k \in DOMAIN publishing, PublishChange(k) PROVE UNCHANGED <<version, members>>
    BY <2>6 DEF PublishChange, memberVars
  <2> QED
    BY <2>3, <2>4, <2>5, <2>6, MemberSteps DEF memberVars
<1> QED
  BY <1>1, <1>2, ViewsHold, PTL DEF ViewSpec, ImplementsMemberView, View!Spec

-----------------------------------------------------------------------------
(* The version that serves SQL: what the loop over the members counts. *)
GroupOf(M, v) == {u \in M \ LiteMembers : VersionOf[u] = v}
VersionsOf(M) == {VersionOf[u] : u \in M \ LiteMembers}

\* v is the version of the largest group of M, the newer one of two.
Leads(M, v) ==
    \A w \in VersionsOf(M) : \/ Cardinality(GroupOf(M, w)) < Cardinality(GroupOf(M, v))
                             \/ Cardinality(GroupOf(M, w)) = Cardinality(GroupOf(M, v)) /\ w <= v

\* x is the version to which SQL statements of a client with the members M go.
Elected(M, x) ==
    IF Cardinality(VersionsOf(M)) > 2 THEN x = 0
    ELSE /\ VersionsOf(M) # {} => x \in VersionsOf(M) /\ Leads(M, x)
         /\ \A v \in VersionsOf(M) : Cardinality(GroupOf(M, v)) \in Nat

\* What was counted of the members M.
Counted(acc, M) ==
    /\ acc = [count |-> acc.count, failed |-> acc.failed] /\ acc.failed \in BOOLEAN
    /\ IsFiniteSet(VersionsOf(M)) /\ \A v : IsFiniteSet(GroupOf(M, v))
    /\ IF acc.failed THEN Cardinality(VersionsOf(M)) > 2
       ELSE /\ Cardinality(VersionsOf(M)) <= 2
            /\ acc.count = [v \in VersionsOf(M) |-> Cardinality(GroupOf(M, v))]

\* A new element makes a set larger by one.
LEMMA CardinalityGrows ==
  ASSUME NEW S, NEW x, NEW T, IsFiniteSet(S), T = S \cup {x}
  PROVE  /\ IsFiniteSet(T) /\ Cardinality(S) \in Nat /\ Cardinality(T) \in Nat
         /\ Cardinality(T) = IF x \in S THEN Cardinality(S) ELSE Cardinality(S) + 1
<1>1. IsFiniteSet(T) /\ Cardinality(T) = IF x \in S THEN Cardinality(S) ELSE Cardinality(S) + 1
  BY FS_AddElement
<1> QED
  BY <1>1, FS_CardinalityType

\* One pass through the loop: CountVersion counts a member that was not counted.
LEMMA CountStep ==
  ASSUME NEW M, NEW acc, Counted(acc, M), NEW u, u \notin M
  PROVE  Counted(CountVersion(acc, u), M \cup {u})
<1> DEFINE v   == VersionOf[u]
           M2  == M \cup {u}
           acc2 == CountVersion(acc, u)
<1>1. CASE u \in LiteMembers
  <2>1. VersionsOf(M2) = VersionsOf(M) /\ \A w : GroupOf(M2, w) = GroupOf(M, w)
    BY <1>1 DEF VersionsOf, GroupOf
  <2>2. acc2 = acc
    BY <1>1 DEF CountVersion
  <2> HIDE DEF M2, acc2
  <2>3. [w \in VersionsOf(M2) |-> Cardinality(GroupOf(M2, w))] = [w \in VersionsOf(M) |-> Cardinality(GroupOf(M, w))]
    BY <2>1
  <2> QED
    BY <2>1, <2>2, <2>3 DEF Counted, M2, acc2
<1>2. CASE u \notin LiteMembers
  <2>1. /\ VersionsOf(M2) = VersionsOf(M) \cup {v} /\ GroupOf(M2, v) = GroupOf(M, v) \cup {u} /\ u \notin GroupOf(M, v)
        /\ \A w : w # v => GroupOf(M2, w) = GroupOf(M, w)
    BY <1>2 DEF VersionsOf, GroupOf
  <2>2. /\ IsFiniteSet(VersionsOf(M)) /\ \A w : IsFiniteSet(GroupOf(M, w))
        /\ acc = [count |-> acc.count, failed |-> acc.failed] /\ acc.failed \in BOOLEAN
    BY DEF Counted
  <2>3. /\ IsFiniteSet(VersionsOf(M2)) /\ Cardinality(VersionsOf(M)) \in Nat /\ Cardinality(VersionsOf(M2)) \in Nat
        /\ Cardinality(VersionsOf(M2)) = IF v \in VersionsOf(M) THEN Cardinality(VersionsOf(M)) ELSE Cardinality(VersionsOf(M)) + 1
    BY <2>1, <2>2, CardinalityGrows
  <2>4. /\ IsFiniteSet(GroupOf(M2, v)) /\ Cardinality(GroupOf(M, v)) \in Nat
        /\ Cardinality(GroupOf(M2, v)) = Cardinality(GroupOf(M, v)) + 1
    <3> DEFINE S == GroupOf(M, v)
               T == GroupOf(M2, v)
    <3>1. IsFiniteSet(S) /\ T = S \cup {u} /\ u \notin S
      BY <2>1, <2>2
    <3> HIDE DEF S, T
    <3>2. IsFiniteSet(T) /\ Cardinality(S) \in Nat /\ Cardinality(T) = Cardinality(S) + 1
      BY <3>1, CardinalityGrows
    <3> QED
      BY <3>2 DEF S, T
  <2>5. \A w : IsFiniteSet(GroupOf(M2, w))
    BY <2>1, <2>2, <2>4
  <2>6. v \notin VersionsOf(M) => Cardinality(GroupOf(M, v)) = 0
    <3>1. v \notin VersionsOf(M) => GroupOf(M, v) = {}
      BY DEF VersionsOf, GroupOf
    <3> QED
      BY <3>1, FS_EmptySet
  <2>7. CASE acc.failed
    <3>1. acc2 = [count |-> acc2.count, failed |-> acc2.failed] /\ acc2.failed = TRUE
      BY <1>2, <2>2, <2>7 DEF CountVersion
    <3>2. Cardinality(VersionsOf(M2)) > 2
      BY <2>3, <2>7 DEF Counted
    <3> HIDE DEF acc2, M2
    <3> QED
      BY <2>3, <2>5, <3>1, <3>2 DEF Counted, acc2, M2
  <2>8. CASE ~acc.failed
    <3>1. /\ Cardinality(VersionsOf(M)) <= 2 /\ acc.failed = FALSE
          /\ acc.count = [w \in VersionsOf(M) |-> Cardinality(GroupOf(M, w))] /\ DOMAIN acc.count = VersionsOf(M)
      BY <2>2, <2>8 DEF Counted
    <3>2. CASE v \in VersionsOf(M)
      <4>1. acc2 = [count |-> [acc.count EXCEPT ![v] = @ + 1], failed |-> FALSE]
        BY <1>2, <2>2, <3>1, <3>2 DEF CountVersion
      <4>2. [acc.count EXCEPT ![v] = @ + 1] = [w \in VersionsOf(M2) |-> Cardinality(GroupOf(M2, w))]
        <5>1. VersionsOf(M2) = VersionsOf(M)
          BY <2>1, <3>2
        <5>2. \A w \in VersionsOf(M) : [acc.count EXCEPT ![v] = @ + 1][w] = Cardinality(GroupOf(M2, w))
          BY <2>1, <2>4, <3>1
        <5> QED
          BY <3>1, <5>1, <5>2
      <4>3. Cardinality(VersionsOf(M2)) <= 2
        BY <2>3, <3>1, <3>2
      <4>4. acc2.count = [w \in VersionsOf(M2) |-> Cardinality(GroupOf(M2, w))] /\ acc2.failed = FALSE
            /\ acc2 = [count |-> acc2.count, failed |-> acc2.failed]
        BY <4>1, <4>2
      <4> HIDE DEF acc2, M2
      <4> QED
        BY <2>3, <2>5, <4>3, <4>4 DEF Counted, acc2, M2
    <3>3. CASE v \notin VersionsOf(M) /\ Cardinality(VersionsOf(M)) < 2
      <4>1. /\ acc2.count = [w \in VersionsOf(M) \cup {v} |-> IF w = v THEN 1 ELSE acc.count[w]]
            /\ acc2.failed = FALSE /\ acc2 = [count |-> acc2.count, failed |-> acc2.failed]
        BY <1>2, <2>2, <3>1, <3>3 DEF CountVersion
      <4>2. acc2.count = [w \in VersionsOf(M2) |-> Cardinality(GroupOf(M2, w))]
        <5>1. \A w \in VersionsOf(M2) : acc2.count[w] = Cardinality(GroupOf(M2, w))
          BY <2>1, <2>4, <2>6, <3>1, <3>3, <4>1
        <5> HIDE DEF acc2, M2
        <5> QED
          BY <2>1, <4>1, <5>1 DEF M2
      <4>3. Cardinality(VersionsOf(M2)) <= 2
        BY <2>3, <3>3
      <4> HIDE DEF acc2, M2
      <4> QED
        BY <2>3, <2>5, <4>1, <4>2, <4>3 DEF Counted, acc2, M2
    <3>4. CASE v \notin VersionsOf(M) /\ ~(Cardinality(VersionsOf(M)) < 2)
      <4>1. acc2.failed = TRUE /\ acc2 = [count |-> acc2.count, failed |-> acc2.failed]
        BY <1>2, <2>2, <3>1, <3>4 DEF CountVersion
      <4>2. Cardinality(VersionsOf(M2)) > 2
        BY <2>3, <3>4
      <4> HIDE DEF acc2, M2
      <4> QED
        BY <2>3, <2>5, <4>1, <4>2 DEF Counted, acc2, M2
    <3> QED
      BY <3>2, <3>3, <3>4
  <2> QED
    BY <2>7, <2>8
<1> QED
  BY <1>1, <1>2

\* The whole loop, over a list in which nobody is named twice.
LEMMA CountMembers ==
  ASSUME NEW list, NEW m \in Nat, DOMAIN list = 1..m, \A i, j \in DOMAIN list : list[i] = list[j] => i = j
  PROVE  Counted(CountAll([count |-> <<>>, failed |-> FALSE], list), ToSet(list))
<1> DEFINE base == [count |-> <<>>, failed |-> FALSE]
<1>1. PICK acc : /\ acc[0] = base /\ acc[m] = CountAll(base, list)
                 /\ \A n \in 1..m : acc[n] = CountVersion(acc[n - 1], list[n])
  BY CountSteps
<1> DEFINE Prefix(n) == {list[i] : i \in 1..n}
           S == {n \in Nat : n <= m => Counted(acc[n], Prefix(n))}
<1>2. 0 \in S
  <2>1. Prefix(0) = {}
    OBVIOUS
  <2>2. VersionsOf({}) = {} /\ \A v : GroupOf({}, v) = {}
    BY DEF VersionsOf, GroupOf
  <2>3. base.count = [v \in {} |-> Cardinality(GroupOf({}, v))]
    OBVIOUS
  <2>4. IsFiniteSet({}) /\ Cardinality({}) = 0
    BY FS_EmptySet
  <2>5. base = [count |-> base.count, failed |-> base.failed] /\ base.failed = FALSE
    OBVIOUS
  <2> HIDE DEF base
  <2>6. Counted(base, {})
    <3>1. base.count = [v \in VersionsOf({}) |-> Cardinality(GroupOf({}, v))]
      BY <2>2, <2>3
    <3>2. IsFiniteSet(VersionsOf({})) /\ Cardinality(VersionsOf({})) <= 2
      BY <2>2, <2>4
    <3>3. \A v : IsFiniteSet(GroupOf({}, v))
      BY <2>2, <2>4
    <3> QED
      BY <2>5, <3>1, <3>2, <3>3 DEF Counted
  <2> QED
    BY <1>1, <2>1, <2>6
<1>3. ASSUME NEW n \in Nat, n \in S PROVE n + 1 \in S
  <2> SUFFICES ASSUME n + 1 <= m PROVE Counted(acc[n + 1], Prefix(n + 1))
    OBVIOUS
  <2>1. n <= m /\ n + 1 \in 1..m /\ (n + 1) - 1 = n /\ \A i \in 1..n : i \in 1..m /\ i # n + 1
    OBVIOUS
  <2>2. Counted(acc[n], Prefix(n))
    BY <1>3, <2>1
  <2>3. acc[n + 1] = CountVersion(acc[n], list[n + 1])
    BY <1>1, <2>1
  <2>4. Prefix(n + 1) = Prefix(n) \cup {list[n + 1]}
    <3>1. \A i : i \in 1..(n + 1) <=> i \in 1..n \/ i = n + 1
      OBVIOUS
    <3> QED
      BY <3>1
  <2>5. list[n + 1] \notin Prefix(n)
    BY <2>1
  <2> HIDE DEF Prefix, S
  <2> QED
    BY <2>2, <2>3, <2>4, <2>5, CountStep
<1>4. Prefix(m) = ToSet(list)
  BY DEF ToSet
<1> HIDE DEF S, Prefix, base
<1>5. Nat \subseteq S
  BY <1>2, <1>3, SetInduction
<1>6. Counted(acc[m], Prefix(m))
  BY <1>5 DEF S
<1> QED
  BY <1>1, <1>4, <1>6 DEF base

\* A set of at most two elements.
LEMMA AtMostTwo ==
  ASSUME NEW S, IsFiniteSet(S), S # {}, Cardinality(S) <= 2
  PROVE  \E a, b : S = {a, b}
<1>1. PICK a : a \in S
  OBVIOUS
<1> DEFINE T == S \ {a}
<1>2. IsFiniteSet(T) /\ Cardinality(T) = Cardinality(S) - 1
  BY <1>1, FS_RemoveElement
<1>3. Cardinality(S) \in Nat /\ Cardinality(T) \in Nat
  BY <1>2, FS_CardinalityType
<1>4. Cardinality(T) = 0 \/ Cardinality(T) = 1
  BY <1>2, <1>3
<1>5. T = {} \/ \E b : T = {b}
  <2> HIDE DEF T
  <2> QED
    BY <1>2, <1>4, FS_EmptySet, FS_Singleton
<1>6. CASE T = {}
  <2>1. S = {a, a}
    BY <1>1, <1>6
  <2> QED
    BY <2>1
<1>7. CASE \E b : T = {b}
  <2>1. PICK b : T = {b}
    BY <1>7
  <2>2. S = {a, b}
    BY <1>1, <2>1
  <2> QED
    BY <2>2
<1> QED
  BY <1>5, <1>6, <1>7

\* The function elects a version for the members it is given.
LEMMA LargerGroupElects ==
  ASSUME NEW list \in Seq(Uuids), \A i, j \in DOMAIN list : list[i] = list[j] => i = j
  PROVE  Elected(ToSet(list), LargerGroupMajorMinorVersion(list))
<1> DEFINE M   == ToSet(list)
           acc == CountAll([count |-> <<>>, failed |-> FALSE], list)
           x   == LargerGroupMajorMinorVersion(list)
           Better(v, w) == acc.count[v] > acc.count[w] \/ (acc.count[v] = acc.count[w] /\ v >= w)
<1>1. Counted(acc, M)
  <2>1. Len(list) \in Nat /\ DOMAIN list = 1..Len(list)
    OBVIOUS
  <2> QED
    BY <2>1, CountMembers
<1>2. x = IF acc.failed \/ DOMAIN acc.count = {} THEN 0
          ELSE CHOOSE v \in DOMAIN acc.count : \A w \in DOMAIN acc.count : Better(v, w)
  BY DEF LargerGroupMajorMinorVersion, CountAll
<1>3. VersionsOf(M) \subseteq Nat
  BY ViewAssumption DEF VersionsOf, ToSet
<1>4. /\ IsFiniteSet(VersionsOf(M)) /\ Cardinality(VersionsOf(M)) \in Nat
      /\ \A v : IsFiniteSet(GroupOf(M, v)) /\ Cardinality(GroupOf(M, v)) \in Nat
  BY <1>1, FS_CardinalityType DEF Counted
<1> HIDE DEF acc, M, x
<1>5. CASE acc.failed
  <2>1. Cardinality(VersionsOf(M)) > 2
    BY <1>1, <1>5 DEF Counted
  <2> QED
    BY <1>2, <1>5, <2>1 DEF Elected, M, x
<1>6. CASE ~acc.failed
  <2>1. /\ Cardinality(VersionsOf(M)) <= 2 /\ acc.count = [v \in VersionsOf(M) |-> Cardinality(GroupOf(M, v))]
    BY <1>1, <1>6 DEF Counted
  <2>2. ASSUME VersionsOf(M) # {} PROVE x \in VersionsOf(M) /\ Leads(M, x)
    <3>1. PICK a, b : VersionsOf(M) = {a, b}
      BY <1>4, <2>1, <2>2, AtMostTwo
    <3>2. a \in Nat /\ b \in Nat /\ acc.count[a] \in Nat /\ acc.count[b] \in Nat
      BY <1>3, <1>4, <2>1, <3>1
    <3>3. \E v \in VersionsOf(M) : \A w \in VersionsOf(M) : Better(v, w)
      <4>1. Better(a, b) \/ Better(b, a)
        BY <3>2
      <4>2. Better(a, a) /\ Better(b, b)
        BY <3>2
      <4> HIDE DEF Better
      <4> QED
        BY <3>1, <4>1, <4>2
    <3>4. x = CHOOSE v \in VersionsOf(M) : \A w \in VersionsOf(M) : Better(v, w)
      BY <1>2, <1>6, <2>1, <2>2
    <3>5. x \in VersionsOf(M) /\ \A w \in VersionsOf(M) : Better(x, w)
      <4> HIDE DEF Better
      <4> QED
        BY <3>3, <3>4
    <3>6. ASSUME NEW w \in VersionsOf(M)
          PROVE  \/ Cardinality(GroupOf(M, w)) < Cardinality(GroupOf(M, x))
                 \/ Cardinality(GroupOf(M, w)) = Cardinality(GroupOf(M, x)) /\ w <= x
      <4>1. acc.count[w] = Cardinality(GroupOf(M, w)) /\ acc.count[x] = Cardinality(GroupOf(M, x)) /\ w \in Nat /\ x \in Nat
        BY <1>3, <2>1, <3>5
      <4>2. Better(x, w)
        BY <3>5
      <4> QED
        BY <1>4, <4>1, <4>2
    <3> QED
      BY <3>5, <3>6 DEF Leads
  <2>3. ~(Cardinality(VersionsOf(M)) > 2)
    BY <1>4, <2>1
  <2> QED
    BY <1>4, <2>2, <2>3 DEF Elected, M, x
<1> QED
  BY <1>5, <1>6

\* The version that the cluster service keeps is elected by its members.
Grouped == Elected(members, majorityMajorMinor)

\* An empty list allows any version: there is nobody to send a statement to.
LEMMA NobodyElects == ASSUME NEW x PROVE Elected({}, x)
<1>1. VersionsOf({}) = {}
  BY DEF VersionsOf
<1>2. ~(Cardinality({}) > 2)
  BY FS_EmptySet
<1> QED
  BY <1>1, <1>2 DEF Elected

\* Every step preserves Grouped: the version is computed whenever the members
\* change, and only the emptied list keeps one that is not its own.
LEMMA StepGrouped == ViewsInv /\ Grouped /\ [ViewNext]_viewsVars => Grouped'
<1> SUFFICES ASSUME ViewsInv, Grouped, [ViewNext]_viewsVars PROVE Grouped'
  OBVIOUS
<1>1. CASE UNCHANGED memberVars
  BY <1>1 DEF Grouped, memberVars
<1>2. CASE RefreshedSeedAddrs
  <2>1. members' = {}
    BY <1>2 DEF RefreshedSeedAddrs
  <2> QED
    BY <2>1, NobodyElects DEF Grouped
<1>3. ASSUME NEW k, PublishChange(k) PROVE UNCHANGED memberVars
  BY <1>3 DEF PublishChange
<1>4. ASSUME NEW e \in tasks, Update(e), ~UNCHANGED memberVars PROVE Grouped'
  <2> DEFINE k == clusterOf[e.conn]
             list == Lists[k][e.version]
  <2>1. PICK added, removed : Installed(k, e.version, added, removed)
    BY <1>4, UpdateEffect
  <2>2. k \in Clusters /\ e.version \in 1..listVersion[k]
    BY <1>4, UpdateEffect
  <2>3. CASE added = {} /\ removed = {}
    BY <2>1, <2>3 DEF Installed, Grouped
  <2>4. CASE ~(added = {} /\ removed = {})
    <3>1. members' = ToSet(list) /\ majorityMajorMinor' = LargerGroupMajorMinorVersion(list)
      BY <2>1, <2>4 DEF Installed
    <3>2. e.version \in DOMAIN Lists[k]
      <4>1. Lists[k] \in Seq(Seq(Uuids)) /\ listVersion[k] \in DOMAIN Lists[k]
        BY <2>2, ViewAssumption DEF ViewsInv, Tracked
      <4> QED
        BY <2>2, <4>1
    <3>3. /\ list \in Seq(Uuids)
          /\ \A i, j \in DOMAIN list : TranslateMember(list[i]) = TranslateMember(list[j]) => i = j
      BY <2>2, <3>2, ListOf
    <3>4. Elected(ToSet(list), LargerGroupMajorMinorVersion(list))
      <4>1. \A i, j \in DOMAIN list : list[i] = list[j] => i = j
        BY <3>3
      <4> HIDE DEF list
      <4> QED
        BY <3>3, <4>1, LargerGroupElects
    <3> QED
      BY <3>1, <3>4 DEF Grouped
  <2> QED
    BY <2>3, <2>4
<1> QED
  BY <1>1, <1>2, <1>3, <1>4, MemberSteps

\* The elected version is the only one that leads: its members are asked.
LEMMA ElectedIsAsked == ViewsInv /\ Grouped => SQLMemberIsOfLargerGroup
<1> SUFFICES ASSUME ViewsInv, Grouped PROVE SQLMemberIsOfLargerGroup
  OBVIOUS
<1> DEFINE x == majorityMajorMinor
           Leading == {w \in VersionsOf(members) : Leads(members, w)}
           Asked == IF Cardinality(VersionsOf(members)) > 2 THEN {} ELSE UNION {GroupOf(members, v) : v \in Leading}
<1>1. SQLMemberIsOfLargerGroup <=> SQLMembers = Asked
  BY DEF SQLMemberIsOfLargerGroup, VersionsOf, GroupOf, Leads
<1>2. members \subseteq Uuids
  BY DEF ViewsInv, Listed, MembersTyped
<1>3. VersionsOf(members) \subseteq Nat \ {0}
  BY <1>2, ViewAssumption DEF VersionsOf
<1>4. SQLMembers = IF x = 0 THEN {} ELSE GroupOf(members, x)
  BY DEF SQLMembers, GroupOf
<1>5. CASE Cardinality(VersionsOf(members)) > 2
  BY <1>1, <1>4, <1>5 DEF Grouped, Elected
<1>6. CASE ~(Cardinality(VersionsOf(members)) > 2) /\ VersionsOf(members) = {}
  <2>1. Asked = {}
    BY <1>6
  <2>2. SQLMembers = {}
    BY <1>6 DEF SQLMembers, VersionsOf
  <2> QED
    BY <1>1, <2>1, <2>2
<1>7. CASE ~(Cardinality(VersionsOf(members)) > 2) /\ VersionsOf(members) # {}
  <2>1. /\ x \in VersionsOf(members) /\ Leads(members, x)
        /\ \A v \in VersionsOf(members) : Cardinality(GroupOf(members, v)) \in Nat
    BY <1>7 DEF Grouped, Elected
  <2>2. ASSUME NEW w \in Leading PROVE w = x
    <3>1. \/ Cardinality(GroupOf(members, w)) < Cardinality(GroupOf(members, x))
          \/ Cardinality(GroupOf(members, w)) = Cardinality(GroupOf(members, x)) /\ w <= x
      BY <2>1, <2>2 DEF Leads
    <3>2. \/ Cardinality(GroupOf(members, x)) < Cardinality(GroupOf(members, w))
          \/ Cardinality(GroupOf(members, x)) = Cardinality(GroupOf(members, w)) /\ x <= w
      BY <2>1, <2>2 DEF Leads
    <3>3. w \in Nat /\ x \in Nat /\ Cardinality(GroupOf(members, w)) \in Nat
          /\ Cardinality(GroupOf(members, x)) \in Nat
      BY <1>3, <2>1, <2>2
    <3> QED
      BY <3>1, <3>2, <3>3
  <2>3. Leading = {x}
    BY <2>1, <2>2
  <2>4. Asked = GroupOf(members, x)
    <3> HIDE DEF Leading, x
    <3> QED
      BY <1>7, <2>3
  <2>5. x # 0
    BY <1>3, <2>1
  <2> QED
    BY <1>1, <1>4, <2>4, <2>5
<1> QED
  BY <1>5, <1>6, <1>7

(***************************************************************************)
(* Whatever lists the clusters publish, in whatever order the client       *)
(* handles them, and whenever it empties its list, a SQL statement goes to *)
(* a data member of the larger group of versions of the members that the   *)
(* client knows (memberListSnapshot.LargerGroupMajorMinorVersion,          *)
(* SQLMember), or to none when no version can be chosen.                   *)
(***************************************************************************)
THEOREM SqlGoesToLargerGroup == ViewSpec => []SQLMemberIsOfLargerGroup
<1>1. ViewInit => Grouped
  BY NobodyElects DEF ViewInit, Grouped
<1>2. ViewsInv /\ Grouped /\ [ViewNext]_viewsVars => Grouped'
  BY StepGrouped
<1>3. ViewsInv /\ Grouped => SQLMemberIsOfLargerGroup
  BY ElectedIsAsked
<1> QED
  BY <1>1, <1>2, <1>3, ViewsHold, PTL DEF ViewSpec
=============================================================================
