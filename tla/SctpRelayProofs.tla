---------------------------- MODULE SctpRelayProofs ----------------------------
(***************************************************************************)
(* Proofs about SctpRelay: for any relays, connections, dialers and limits *)
(* the map lists living connections only, never more open ones than the    *)
(* cap, and every step is one that RelayView allows.                       *)
(***************************************************************************)
EXTENDS SctpRelay, FiniteSetTheorems, TLAPS

\* A connection that connectToRelay has not listed yet has been touched by nobody.
Untouched ==
    \A c \in Conns : setup[c] \in {"none", "insert"} =>
        /\ state[c] = "connecting" /\ c \notin stopped /\ doomed[c] = 0
        /\ peer[c] = "none" /\ callback[c] = "none" /\ c \notin closes
        /\ timer[c] = "off" /\ c \notin keepalive
        /\ \A e \in Endpoints : connections[e] # c

\* A dial has an endpoint.
Dialled == \A c \in Conns : setup[c] # "none" => endpoint[c] \in Endpoints

Inv == TypeOK /\ Untouched /\ Dialled /\ ListedIsAlive

-----------------------------------------------------------------------------
(* Type correctness *)

\* The manager of a call without relays is well typed.
LEMMA TypeInit == Init => TypeOK
  <1> SUFFICES ASSUME Init PROVE TypeOK
    OBVIOUS
  <1>1. doomed \in [Conns -> Nat] /\ dialed \in [Dialers -> Nat]
    BY DEF Init
  <1>2. crashed \in BOOLEAN
    BY DEF Init
  <1> QED
    BY <1>1, <1>2 DEF Init, TypeOK

\* Every step keeps the variables in their types.
LEMMA TypeStep == TypeOK /\ [Next]_vars => TypeOK'
  <1> SUFFICES ASSUME TypeOK, [Next]_vars PROVE TypeOK'
    OBVIOUS
  <1> USE DEF TypeOK, conn, library, goroutines, dialers, FailConnection, CloseConnection
  <1>1. ASSUME Cleanup PROVE TypeOK'
    BY <1>1 DEF Cleanup
  <1>2. ASSUME NEW d \in Dialers, NEW relays \in SUBSET Endpoints, ConfigureRelays(d, relays)
        PROVE TypeOK'
    <2>1. Cardinality(Listed) \in Nat
      BY SizesAssumption, FS_Subset, FS_CardinalityType DEF Listed
    <2> QED BY <1>2, <2>1 DEF ConfigureRelays
  <1>3. ASSUME NEW d \in Dialers, NEW e \in Endpoints, SkipRelay(d, e) PROVE TypeOK'
    BY <1>3 DEF SkipRelay, NextRelay
  <1>4. ASSUME NEW d \in Dialers, NEW e \in Endpoints, NEW c \in Conns, DialRelay(d, e, c)
        PROVE TypeOK'
    BY <1>4 DEF DialRelay, NextRelay
  <1>5. ASSUME NEW d \in Dialers, Configured(d) PROVE TypeOK'
    BY <1>5 DEF Configured
  <1>6. ASSUME NEW c \in Conns, SetupStep(c) PROVE TypeOK'
    BY <1>6 DEF SetupStep, Insert, Create, Connect, SetupFails
  <1>7. ASSUME NEW c \in Conns, TimerStep(c) PROVE TypeOK'
    BY <1>7 DEF TimerStep, TimerFires, TimerFails, TimerStopped
  <1>8. ASSUME NEW c \in Conns, OpenStep(c) PROVE TypeOK'
    BY <1>8 DEF OpenStep, OnOpen, CloseExcess, OnConnected
  <1>9. ASSUME NEW c \in Conns, ChannelOpens(c) \/ ChannelCloses(c) \/ IceFails(c)
        PROVE TypeOK'
    BY <1>9 DEF ChannelOpens, ChannelCloses, IceFails
  <1>10. ASSUME NEW c \in Conns, OnClose(c) \/ KeepaliveTick(c) \/ KeepaliveStopped(c)
         PROVE TypeOK'
    BY <1>10 DEF OnClose, KeepaliveTick, KeepaliveStopped
  <1>11. ASSUME NEW c \in Conns, Teardown(c) PROVE TypeOK'
    BY <1>11 DEF Teardown
  <1>12. ASSUME NEW c \in Conns, DoubleClose(c) PROVE TypeOK'
    <2>1. crashed' \in BOOLEAN
      BY <1>12 DEF DoubleClose
    <2> QED BY <1>12, <2>1 DEF DoubleClose
  <1>13. ASSUME UNCHANGED vars PROVE TypeOK'
    BY <1>13 DEF vars
  <1> QED
    BY <1>1, <1>2, <1>3, <1>4, <1>5, <1>6, <1>7, <1>8, <1>9, <1>10, <1>11, <1>12, <1>13
    DEF Next, Dialing

\* The relay manager keeps its types.
THEOREM TypeCorrect == Spec => []TypeOK
  BY TypeInit, TypeStep, PTL DEF Spec

-----------------------------------------------------------------------------
(* The inductive invariant *)

\* Nothing is dialled before the first ConfigureRelays.
LEMMA InvInit == Init => Inv
  <1> SUFFICES ASSUME Init PROVE Inv
    OBVIOUS
  <1>1. Untouched /\ Dialled
    BY NamesAssumption DEF Init, Untouched, Dialled
  <1>2. ListedIsAlive
    BY DEF Init, ListedIsAlive, Listed
  <1> QED BY <1>1, <1>2, TypeInit DEF Inv

\* A failed connection takes what is listed under its id off the map, and itself.
LEMMA FailKeepsListed ==
    ASSUME TypeOK, ListedIsAlive, NEW c \in Conns, endpoint[c] \in Endpoints,
           FailConnection(c), UNCHANGED <<endpoint, stopped>>
    PROVE  ListedIsAlive'
  <1> SUFFICES ASSUME NEW e \in Endpoints, connections'[e] # NoConn
               PROVE  LET k == connections'[e] IN
                        /\ endpoint'[k] = e /\ state'[k] \in {"connecting", "open"}
                        /\ k \notin stopped' /\ doomed'[k] = 0
    BY DEF ListedIsAlive, Listed
  <1>1. connections'[e] = connections[e] /\ connections[e] \in Conns
    BY DEF FailConnection, TypeOK
  <1>2. endpoint[connections[e]] = e
    BY <1>1 DEF ListedIsAlive, Listed
  <1>3. state[c] # "failed" => connections[e] # c
    BY <1>1, <1>2, NamesAssumption DEF FailConnection, TypeOK
  <1> QED BY <1>1, <1>2, <1>3 DEF FailConnection, ListedIsAlive, Listed, TypeOK

\* A closed connection is the one that is listed, and it leaves the map.
LEMMA CloseKeepsListed ==
    ASSUME TypeOK, ListedIsAlive, NEW f \in Endpoints, CloseConnection(f),
           UNCHANGED <<endpoint, stopped>>
    PROVE  ListedIsAlive'
  <1> SUFFICES ASSUME NEW e \in Endpoints, connections'[e] # NoConn
               PROVE  LET k == connections'[e] IN
                        /\ endpoint'[k] = e /\ state'[k] \in {"connecting", "open"}
                        /\ k \notin stopped' /\ doomed'[k] = 0
    BY DEF ListedIsAlive, Listed
  <1>1. connections'[e] = connections[e] /\ connections[e] \in Conns
    BY DEF CloseConnection, TypeOK
  <1>2. endpoint[connections[e]] = e
    BY <1>1 DEF ListedIsAlive, Listed
  <1>3. connections[f] # NoConn => connections[e] # connections[f]
    BY <1>1, <1>2 DEF CloseConnection, TypeOK, ListedIsAlive, Listed
  <1> QED BY <1>1, <1>2, <1>3 DEF CloseConnection, ListedIsAlive, Listed, TypeOK

\* A step that leaves the map alone, and the state of what is listed, keeps it alive.
LEMMA SameKeepsListed ==
    ASSUME TypeOK, ListedIsAlive, UNCHANGED <<connections, endpoint, state, stopped, doomed>>
    PROVE  ListedIsAlive'
  BY DEF ListedIsAlive, Listed

\* No step touches a connection that is not listed yet.
LEMMA UntouchedStep == Inv /\ Next => Untouched' /\ Dialled'
  <1> SUFFICES ASSUME Inv, Next PROVE Untouched' /\ Dialled'
    OBVIOUS
  <1> USE NamesAssumption
      DEF Inv, TypeOK, Untouched, Dialled, conn, library, goroutines, dialers
  <1>1. ASSUME Cleanup PROVE Untouched' /\ Dialled'
    BY <1>1 DEF Cleanup, InMap
  <1>2. ASSUME NEW d \in Dialers, NEW relays \in SUBSET Endpoints, ConfigureRelays(d, relays)
        PROVE Untouched' /\ Dialled'
    BY <1>2 DEF ConfigureRelays
  <1>3. ASSUME NEW d \in Dialers, NEW e \in Endpoints, SkipRelay(d, e)
        PROVE Untouched' /\ Dialled'
    BY <1>3 DEF SkipRelay, NextRelay
  <1>4. ASSUME NEW d \in Dialers, NEW e \in Endpoints, NEW c \in Conns, DialRelay(d, e, c)
        PROVE Untouched' /\ Dialled'
    BY <1>4 DEF DialRelay, NextRelay
  <1>5. ASSUME NEW d \in Dialers, Configured(d) PROVE Untouched' /\ Dialled'
    BY <1>5 DEF Configured
  <1>6. ASSUME NEW c \in Conns, Insert(c) PROVE Untouched' /\ Dialled'
    BY <1>6 DEF Insert
  <1>7. ASSUME NEW c \in Conns, Create(c) \/ Connect(c) PROVE Untouched' /\ Dialled'
    BY <1>7 DEF Create, Connect
  <1>8. ASSUME NEW c \in Conns, SetupFails(c) PROVE Untouched' /\ Dialled'
    BY <1>8 DEF SetupFails, FailConnection
  <1>9. ASSUME NEW c \in Conns, TimerStep(c) PROVE Untouched' /\ Dialled'
    BY <1>9 DEF TimerStep, TimerFires, TimerFails, TimerStopped, FailConnection
  <1>10. ASSUME NEW c \in Conns, OnOpen(c) \/ OnConnected(c) PROVE Untouched' /\ Dialled'
    BY <1>10 DEF OnOpen, OnConnected
  <1>11. ASSUME NEW c \in Conns, CloseExcess(c) \/ OnClose(c) PROVE Untouched' /\ Dialled'
    BY <1>11 DEF CloseExcess, OnClose, CloseConnection
  <1>12. ASSUME NEW c \in Conns, ChannelOpens(c) \/ ChannelCloses(c) \/ IceFails(c)
         PROVE Untouched' /\ Dialled'
    BY <1>12 DEF ChannelOpens, ChannelCloses, IceFails, FailConnection
  <1>13. ASSUME NEW c \in Conns, KeepaliveTick(c) \/ KeepaliveStopped(c)
         PROVE Untouched' /\ Dialled'
    BY <1>13 DEF KeepaliveTick, KeepaliveStopped
  <1>14. ASSUME NEW c \in Conns, Teardown(c) \/ DoubleClose(c) PROVE Untouched' /\ Dialled'
    BY <1>14 DEF Teardown, DoubleClose
  <1> QED
    BY <1>1, <1>2, <1>3, <1>4, <1>5, <1>6, <1>7, <1>8, <1>9, <1>10, <1>11, <1>12, <1>13, <1>14
    DEF Next, Dialing, SetupStep, OpenStep

\* No step leaves or puts a dead connection on the map.
LEMMA ListedStep == Inv /\ Next => ListedIsAlive'
  <1> SUFFICES ASSUME Inv, Next PROVE ListedIsAlive'
    OBVIOUS
  <1> USE NamesAssumption DEF Inv, conn, library, goroutines, dialers
  <1>1. ASSUME Cleanup PROVE ListedIsAlive'
    BY <1>1 DEF Cleanup, ListedIsAlive, Listed
  <1>2. ASSUME NEW d \in Dialers, Dialing(d) PROVE ListedIsAlive'
    <2>1. ASSUME NEW relays \in SUBSET Endpoints, ConfigureRelays(d, relays)
          PROVE ListedIsAlive'
      BY <2>1, SameKeepsListed DEF ConfigureRelays
    <2>2. ASSUME NEW e \in Endpoints, SkipRelay(d, e) PROVE ListedIsAlive'
      BY <2>2, SameKeepsListed DEF SkipRelay
    <2>3. ASSUME NEW e \in Endpoints, NEW c \in Conns, DialRelay(d, e, c)
          PROVE ListedIsAlive'
      BY <2>3 DEF DialRelay, ListedIsAlive, Listed, Untouched, TypeOK
    <2>4. ASSUME Configured(d) PROVE ListedIsAlive'
      BY <2>4, SameKeepsListed DEF Configured
    <2> QED BY <1>2, <2>1, <2>2, <2>3, <2>4 DEF Dialing
  <1>3. ASSUME NEW c \in Conns, Insert(c) PROVE ListedIsAlive'
    BY <1>3 DEF Insert, ListedIsAlive, Listed, Untouched, Dialled, TypeOK
  <1>4. ASSUME NEW c \in Conns, Create(c) \/ Connect(c) PROVE ListedIsAlive'
    BY <1>4, SameKeepsListed DEF Create, Connect
  <1>5. ASSUME NEW c \in Conns, SetupFails(c) \/ TimerFails(c) \/ IceFails(c)
        PROVE ListedIsAlive'
    <2>1. endpoint[c] \in Endpoints
      BY <1>5 DEF SetupFails, TimerFails, IceFails, Dialled, Untouched, TypeOK
    <2>2. FailConnection(c) /\ UNCHANGED <<endpoint, stopped>>
      BY <1>5 DEF SetupFails, TimerFails, IceFails
    <2> QED BY <2>1, <2>2, FailKeepsListed
  <1>6. ASSUME NEW c \in Conns, TimerFires(c) \/ TimerStopped(c) PROVE ListedIsAlive'
    BY <1>6, SameKeepsListed DEF TimerFires, TimerStopped
  <1>7. ASSUME NEW c \in Conns, CloseExcess(c) \/ OnClose(c) PROVE ListedIsAlive'
    <2>1. endpoint[c] \in Endpoints
      BY <1>7 DEF CloseExcess, OnClose, Dialled, Untouched, TypeOK
    <2>2. CloseConnection(endpoint[c]) /\ UNCHANGED <<endpoint, stopped>>
      BY <1>7 DEF CloseExcess, OnClose
    <2> QED BY <2>1, <2>2, CloseKeepsListed
  <1>8. ASSUME NEW c \in Conns, OnOpen(c) PROVE ListedIsAlive'
    BY <1>8 DEF OnOpen, ListedIsAlive, Listed, TypeOK
  <1>9. ASSUME NEW c \in Conns,
               OnConnected(c) \/ ChannelOpens(c) \/ ChannelCloses(c)
               \/ KeepaliveTick(c) \/ KeepaliveStopped(c) \/ DoubleClose(c)
        PROVE ListedIsAlive'
    BY <1>9, SameKeepsListed
    DEF OnConnected, ChannelOpens, ChannelCloses, KeepaliveTick, KeepaliveStopped, DoubleClose
  <1>10. ASSUME NEW c \in Conns, Teardown(c) PROVE ListedIsAlive'
    BY <1>10 DEF Teardown, ListedIsAlive, Listed, TypeOK
  <1> QED
    BY <1>1, <1>2, <1>3, <1>4, <1>5, <1>6, <1>7, <1>8, <1>9, <1>10
    DEF Next, SetupStep, TimerStep, OpenStep

\* The invariant is inductive.
LEMMA InvStep == Inv /\ [Next]_vars => Inv'
  <1> SUFFICES ASSUME Inv, [Next]_vars PROVE Inv'
    OBVIOUS
  <1>1. TypeOK'
    BY TypeStep DEF Inv
  <1>2. CASE Next
    BY <1>1, <1>2, UntouchedStep, ListedStep DEF Inv
  <1>3. CASE UNCHANGED vars
    BY <1>3 DEF Inv, vars, conn, library, goroutines, dialers, TypeOK, Untouched, Dialled,
                ListedIsAlive, Listed
  <1> QED BY <1>2, <1>3

\* What is listed is alive, whoever dials, closes, fails and cleans up at once.
THEOREM ListedConnectionsAreAlive == Spec => []ListedIsAlive
  <1>1. Inv => ListedIsAlive
    BY DEF Inv
  <1> QED BY <1>1, InvInit, InvStep, PTL DEF Spec

-----------------------------------------------------------------------------
(* The cap on open relays *)

\* The sets that are counted are finite.
LEMMA OpenFinite == IsFiniteSet(OpenEndpoints) /\ IsFiniteSet(OpenEndpoints')
  BY SizesAssumption, FS_Subset DEF OpenEndpoints, Listed

\* With no relay that was not open before, the cap still holds.
LEMMA FewerOpen ==
    ASSUME OpenWithinCap, OpenEndpoints' \subseteq OpenEndpoints
    PROVE  OpenWithinCap'
  <1>1. Cardinality(OpenEndpoints') <= Cardinality(OpenEndpoints)
    BY OpenFinite, FS_Subset
  <1>2. Cardinality(OpenEndpoints') \in Nat /\ Cardinality(OpenEndpoints) \in Nat
    BY OpenFinite, FS_CardinalityType
  <1> QED BY <1>1, <1>2, SizesAssumption DEF OpenWithinCap

\* Two of the steps that change the map or a state: a removal opens nothing ...
LEMMA RemovalOpensNothing ==
    ASSUME TypeOK, ListedIsAlive, NEW c \in Conns,
           \/ FailConnection(c)
           \/ \E f \in Endpoints : CloseConnection(f)
    PROVE  OpenEndpoints' \subseteq OpenEndpoints
  BY NamesAssumption
  DEF FailConnection, CloseConnection, OpenEndpoints, Listed, TypeOK

\* ... and a connection that OnOpen opens is listed at its endpoint, if at all.
LEMMA OnOpenKeepsCap ==
    ASSUME Inv, OpenWithinCap, NEW c \in Conns, OnOpen(c)
    PROVE  OpenWithinCap'
  <1>1. CASE Cardinality(OpenEndpoints) >= MaxOpen
    <2>1. OpenEndpoints' = OpenEndpoints
      BY <1>1 DEF OnOpen, OpenEndpoints, Listed
    <2> QED BY <2>1, FewerOpen
  <1>2. CASE ~(Cardinality(OpenEndpoints) >= MaxOpen)
    <2>1. OpenEndpoints' \subseteq OpenEndpoints \cup {endpoint[c]}
      BY <1>2 DEF OnOpen, OpenEndpoints, Listed, Inv, TypeOK, ListedIsAlive
    <2>2. /\ IsFiniteSet(OpenEndpoints \cup {endpoint[c]})
          /\ Cardinality(OpenEndpoints \cup {endpoint[c]}) <= Cardinality(OpenEndpoints) + 1
      <3>1. Cardinality(OpenEndpoints) \in Nat
        BY OpenFinite, FS_CardinalityType
      <3>2. /\ IsFiniteSet(OpenEndpoints \cup {endpoint[c]})
            /\ \/ Cardinality(OpenEndpoints \cup {endpoint[c]}) = Cardinality(OpenEndpoints)
               \/ Cardinality(OpenEndpoints \cup {endpoint[c]}) = Cardinality(OpenEndpoints) + 1
        BY OpenFinite, FS_AddElement, Zenon
      <3> QED BY <3>1, <3>2
    <2>3. Cardinality(OpenEndpoints') <= Cardinality(OpenEndpoints \cup {endpoint[c]})
      BY <2>1, <2>2, FS_Subset
    <2>4. /\ Cardinality(OpenEndpoints) \in Nat /\ Cardinality(OpenEndpoints') \in Nat
          /\ Cardinality(OpenEndpoints \cup {endpoint[c]}) \in Nat
      BY <2>2, OpenFinite, FS_CardinalityType
    <2> QED BY <1>2, <2>2, <2>3, <2>4, SizesAssumption DEF OpenWithinCap
  <1> QED BY <1>1, <1>2

\* No step opens a relay above the cap.
LEMMA CapStep == Inv /\ OpenWithinCap /\ [Next]_vars => OpenWithinCap'
  <1> SUFFICES ASSUME Inv, OpenWithinCap, [Next]_vars PROVE OpenWithinCap'
    OBVIOUS
  <1> USE DEF conn, library, goroutines, dialers
  <1>1. ASSUME UNCHANGED <<connections, state>> PROVE OpenWithinCap'
    <2>1. OpenEndpoints' = OpenEndpoints
      BY <1>1 DEF OpenEndpoints, Listed
    <2> QED BY <2>1, FewerOpen
  <1>2. ASSUME Cleanup PROVE OpenWithinCap'
    <2>1. OpenEndpoints' = {}
      BY <1>2, NamesAssumption DEF Cleanup, OpenEndpoints, Listed
    <2> QED BY <2>1, FewerOpen
  <1>3. ASSUME NEW d \in Dialers, Dialing(d) PROVE OpenWithinCap'
    BY <1>1, <1>3 DEF Dialing, ConfigureRelays, SkipRelay, DialRelay, NextRelay, Configured
  <1>4. ASSUME NEW c \in Conns, Insert(c) PROVE OpenWithinCap'
    <2>1. OpenEndpoints' \subseteq OpenEndpoints
      BY <1>4 DEF Insert, OpenEndpoints, Listed, Inv, TypeOK, Untouched
    <2> QED BY <2>1, FewerOpen
  <1>5. ASSUME NEW c \in Conns, SetupFails(c) \/ TimerFails(c) \/ IceFails(c)
        PROVE OpenWithinCap'
    <2>1. FailConnection(c)
      BY <1>5 DEF SetupFails, TimerFails, IceFails
    <2> QED BY <2>1, RemovalOpensNothing, FewerOpen DEF Inv
  <1>6. ASSUME NEW c \in Conns, CloseExcess(c) \/ OnClose(c) PROVE OpenWithinCap'
    <2>1. CloseConnection(endpoint[c]) /\ endpoint[c] \in Endpoints
      BY <1>6 DEF CloseExcess, OnClose, Inv, Dialled, Untouched, TypeOK
    <2> QED BY <2>1, RemovalOpensNothing, FewerOpen DEF Inv
  <1>7. ASSUME NEW c \in Conns, OnOpen(c) PROVE OpenWithinCap'
    BY <1>7, OnOpenKeepsCap
  <1>8. ASSUME NEW c \in Conns,
               \/ Create(c) \/ Connect(c) \/ TimerFires(c) \/ TimerStopped(c)
               \/ ChannelOpens(c) \/ ChannelCloses(c) \/ OnConnected(c)
               \/ KeepaliveTick(c) \/ KeepaliveStopped(c) \/ Teardown(c) \/ DoubleClose(c)
        PROVE OpenWithinCap'
    BY <1>1, <1>8
    DEF Create, Connect, TimerFires, TimerStopped, ChannelOpens, ChannelCloses, OnConnected,
        KeepaliveTick, KeepaliveStopped, Teardown, DoubleClose
  <1>9. ASSUME UNCHANGED vars PROVE OpenWithinCap'
    BY <1>1, <1>9 DEF vars
  <1> QED
    BY <1>2, <1>3, <1>4, <1>5, <1>6, <1>7, <1>8, <1>9
    DEF Next, SetupStep, TimerStep, OpenStep

\* At most MaxOpen of the listed relays are open, for any number of relays and dials.
THEOREM OpenRelaysAreCapped == Spec => []OpenWithinCap
  <1>1. Init => OpenWithinCap
    <2> SUFFICES ASSUME Init PROVE OpenWithinCap
      OBVIOUS
    <2>1. OpenEndpoints = {}
      BY NamesAssumption DEF Init, OpenEndpoints, Listed
    <2> QED BY <2>1, FS_EmptySet, SizesAssumption DEF OpenWithinCap
  <1> QED BY <1>1, InvInit, InvStep, CapStep, PTL DEF Spec

-----------------------------------------------------------------------------
(* SctpRelay implements RelayView *)

\* The channel of a connection is created, dialled and opened in this order, and its
\* callback marks it open once.
Opened ==
    \A c \in Conns :
        /\ setup[c] \in {"none", "insert", "create"} => peer[c] = "none"
        /\ callback[c] # "none" => peer[c] \in {"open", "closed"}
        /\ state[c] = "open" => peer[c] \in {"open", "closed"} /\ callback[c] # "waiting"

\* At the start no channel exists.
LEMMA OpenedInit == Init => Opened
  BY DEF Init, Opened

\* Every step keeps the order.
LEMMA OpenedStep == Inv /\ Opened /\ [Next]_vars => Opened'
  <1> SUFFICES ASSUME Inv, Opened, [Next]_vars PROVE Opened'
    OBVIOUS
  <1> USE DEF Inv, TypeOK, Opened, conn, library, goroutines, dialers
  <1>1. ASSUME UNCHANGED <<setup, peer, callback, state>> PROVE Opened'
    BY <1>1
  <1>2. ASSUME Cleanup PROVE Opened'
    BY <1>2 DEF Cleanup
  <1>3. ASSUME NEW d \in Dialers, Dialing(d) PROVE Opened'
    BY <1>3 DEF Dialing, ConfigureRelays, SkipRelay, DialRelay, NextRelay, Configured
  <1>4. ASSUME NEW c \in Conns, Insert(c) \/ Create(c) \/ Connect(c) PROVE Opened'
    BY <1>4 DEF Insert, Create, Connect
  <1>5. ASSUME NEW c \in Conns, SetupFails(c) PROVE Opened'
    BY <1>5 DEF SetupFails, FailConnection
  <1>6. ASSUME NEW c \in Conns, TimerStep(c) \/ IceFails(c) PROVE Opened'
    BY <1>6 DEF TimerStep, TimerFires, TimerFails, TimerStopped, IceFails, FailConnection
  <1>7. ASSUME NEW c \in Conns, OnOpen(c) \/ OnConnected(c) PROVE Opened'
    BY <1>7 DEF OnOpen, OnConnected
  <1>8. ASSUME NEW c \in Conns, CloseExcess(c) \/ OnClose(c) PROVE Opened'
    BY <1>8 DEF CloseExcess, OnClose, CloseConnection
  <1>9. ASSUME NEW c \in Conns, ChannelOpens(c) \/ ChannelCloses(c) PROVE Opened'
    BY <1>9, Z3 DEF ChannelOpens, ChannelCloses, Untouched
  <1>10. ASSUME NEW c \in Conns, Teardown(c) PROVE Opened'
    BY <1>10 DEF Teardown
  <1>11. ASSUME NEW c \in Conns,
                KeepaliveTick(c) \/ KeepaliveStopped(c) \/ DoubleClose(c)
         PROVE Opened'
    BY <1>1, <1>11 DEF KeepaliveTick, KeepaliveStopped, DoubleClose
  <1>12. ASSUME UNCHANGED vars PROVE Opened'
    BY <1>1, <1>12 DEF vars
  <1> QED
    BY <1>2, <1>3, <1>4, <1>5, <1>6, <1>7, <1>8, <1>9, <1>10, <1>11, <1>12
    DEF Next, SetupStep, OpenStep

\* The connections whose OnOpen has yet to tell the call manager.
Reporting == {c \in Conns : callback[c] = "opening"}

\* They can be counted.
LEMMA ReportingFinite ==
    /\ IsFiniteSet(Reporting) /\ Reports = Cardinality(Reporting) /\ Reports \in Nat
    /\ IsFiniteSet(Reporting') /\ Reports' = Cardinality(Reporting')
  BY SizesAssumption, FS_Subset, FS_CardinalityType DEF Reporting, Reports

\* The relays that the view has as open are those the cap counts.
LEMMA ViewCounts == {e \in Endpoints : View[e] = "open"} = OpenEndpoints
  BY DEF View, OpenEndpoints, Listed

\* A listed connection is seen as connecting or open.
LEMMA ViewType == Inv => \A e \in Endpoints : View[e] \in {"none", "connecting", "open"}
  BY DEF Inv, ListedIsAlive, Listed, View

\* What leaves the map and the callbacks alone, and the state of what is listed, is not seen.
LEMMA Unseen ==
    ASSUME UNCHANGED <<connections, state, callback, crashed>>
    PROVE  UNCHANGED RV!vars
  BY DEF RV!vars, View, Reports

\* A removal by failConnection loses what was listed at the endpoint, if anything was.
LEMMA FailIsLose ==
    ASSUME Inv, NEW c \in Conns, endpoint[c] \in Endpoints, FailConnection(c),
           UNCHANGED <<callback, crashed>>
    PROVE  RV!Lose(endpoint[c]) \/ UNCHANGED RV!vars
  <1>1. UNCHANGED <<Reports, crashed>>
    BY DEF Reports
  <1>2. CASE state[c] = "failed"
    BY <1>2, Unseen DEF FailConnection
  <1>3. CASE state[c] # "failed"
    <2>1. View' = [View EXCEPT ![endpoint[c]] = "none"]
      <3> SUFFICES ASSUME NEW e \in Endpoints
                   PROVE  View'[e] = IF e = endpoint[c] THEN "none" ELSE View[e]
        BY DEF View
      <3>1. CASE e = endpoint[c]
        BY <1>3, <3>1 DEF FailConnection, View, Inv, TypeOK
      <3>2. CASE e # endpoint[c]
        BY <1>3, <3>2 DEF FailConnection, View, Inv, TypeOK, ListedIsAlive, Listed
      <3> QED BY <3>1, <3>2
    <2>2. CASE View[endpoint[c]] = "none"
      <3>1. View' = View
        BY <2>1, <2>2 DEF View
      <3> QED BY <1>1, <3>1 DEF RV!vars
    <2>3. CASE View[endpoint[c]] # "none"
      BY <1>1, <2>1, <2>3 DEF RV!Lose
    <2> QED BY <2>2, <2>3
  <1> QED BY <1>2, <1>3

\* So does one by closeConnection.
LEMMA CloseIsLose ==
    ASSUME Inv, NEW f \in Endpoints, CloseConnection(f),
           UNCHANGED <<Reports, crashed>>
    PROVE  RV!Lose(f) \/ UNCHANGED RV!vars
  <1>1. CASE connections[f] = NoConn
    <2>1. View' = View
      BY <1>1 DEF CloseConnection, View
    <2> QED BY <2>1 DEF RV!vars
  <1>2. CASE connections[f] # NoConn
    <2>1. View' = [View EXCEPT ![f] = "none"]
      <3> SUFFICES ASSUME NEW e \in Endpoints
                   PROVE  View'[e] = IF e = f THEN "none" ELSE View[e]
        BY DEF View
      <3>1. CASE e = f
        BY <1>2, <3>1 DEF CloseConnection, View, Inv, TypeOK
      <3>2. CASE e # f
        BY <1>2, <3>2 DEF CloseConnection, View, Inv, TypeOK, ListedIsAlive, Listed
      <3> QED BY <3>1, <3>2
    <2>2. View[f] # "none"
      BY <1>2 DEF View, Inv, ListedIsAlive, Listed
    <2> QED BY <2>1, <2>2 DEF RV!Lose
  <1> QED BY <1>1, <1>2

\* OnOpen opens what is listed, or something unlisted, while there is room.
LEMMA OnOpenIsOpen ==
    ASSUME Inv, Opened, NEW c \in Conns, OnOpen(c)
    PROVE  \/ RV!Open(endpoint[c]) \/ RV!OpenUnlisted
           \/ UNCHANGED RV!vars
  <1>1. endpoint[c] \in Endpoints
    BY DEF OnOpen, Inv, TypeOK, Untouched, Dialled
  <1>2. CASE Cardinality(OpenEndpoints) >= MaxOpen
    <2>1. Reporting' = Reporting
      BY <1>2 DEF OnOpen, Reporting, Inv, TypeOK
    <2>2. View' = View
      BY <1>2 DEF OnOpen, View
    <2> QED BY <2>1, <2>2, ReportingFinite DEF RV!vars, OnOpen, dialers
  <1>3. CASE ~(Cardinality(OpenEndpoints) >= MaxOpen)
    <2>1. Reports' = Reports + 1
      <3>1. Reporting' = Reporting \cup {c} /\ c \notin Reporting
        BY <1>3 DEF OnOpen, Reporting, Inv, TypeOK
      <3>2. Cardinality(Reporting \cup {c}) = Cardinality(Reporting) + 1
        BY <3>1, ReportingFinite, FS_AddElement, Zenon
      <3> QED BY <3>1, <3>2, ReportingFinite
    <2>2. RV!HasRoom
      <3>1. Cardinality(OpenEndpoints) \in Nat
        BY OpenFinite, FS_CardinalityType
      <3>2. Cardinality(OpenEndpoints) < MaxOpen
        BY <1>3, <3>1, SizesAssumption
      <3>3. Cardinality({e \in Endpoints : View[e] = "open"}) < MaxOpen
        BY <3>2, ViewCounts, Zenon
      <3> QED BY <3>3, Zenon DEF RV!HasRoom, RV!Cardinality, Cardinality
    <2>3. crashed' = crashed
      BY DEF OnOpen
    <2>4. CASE connections[endpoint[c]] = c
      <3>1. View[endpoint[c]] = "connecting"
        BY <1>1, <2>4, NamesAssumption
        DEF OnOpen, View, Opened, Inv, TypeOK, ListedIsAlive, Listed
      <3>2. View' = [View EXCEPT ![endpoint[c]] = "open"]
        <4> SUFFICES ASSUME NEW e \in Endpoints
                     PROVE  View'[e] = IF e = endpoint[c] THEN "open" ELSE View[e]
          BY DEF View
        <4>1. CASE e = endpoint[c]
          BY <1>3, <2>4, <4>1, NamesAssumption DEF OnOpen, View, Inv, TypeOK
        <4>2. CASE e # endpoint[c]
          BY <1>3, <4>2, NamesAssumption
          DEF OnOpen, View, Inv, TypeOK, ListedIsAlive, Listed
        <4> QED BY <4>1, <4>2
      <3> QED BY <2>1, <2>2, <2>3, <3>1, <3>2 DEF RV!Open
    <2>5. CASE connections[endpoint[c]] # c
      <3>1. View' = View
        BY <1>3, <2>5, NamesAssumption
        DEF OnOpen, View, Inv, TypeOK, ListedIsAlive, Listed
      <3> QED BY <2>1, <2>2, <2>3, <3>1 DEF RV!OpenUnlisted
    <2> QED BY <2>4, <2>5
  <1> QED BY <1>2, <1>3

\* The rest of OnOpen is a report.
LEMMA OnConnectedIsReport ==
    ASSUME Inv, ~crashed, NEW c \in Conns, OnConnected(c)
    PROVE  RV!Report
  <1>1. Reporting' = Reporting \ {c} /\ c \in Reporting
    BY DEF OnConnected, Reporting, Inv, TypeOK
  <1>2. Cardinality(Reporting \ {c}) = Cardinality(Reporting) - 1
    BY <1>1, ReportingFinite, FS_RemoveElement, Zenon
  <1>3. Reporting # {}
    BY <1>1
  <1>4. Cardinality(Reporting) # 0
    BY <1>3, ReportingFinite, FS_EmptySet, Zenon
  <1>5. Reports > 0 /\ Reports' = Reports - 1
    BY <1>1, <1>2, <1>4, ReportingFinite
  <1>6. UNCHANGED <<View, crashed>>
    BY DEF OnConnected, View, conn
  <1> QED BY <1>5, <1>6 DEF RV!Report

\* An insertion is a dial, unless the endpoint is connecting already.
LEMMA InsertIsDial ==
    ASSUME Inv, NEW c \in Conns, Insert(c)
    PROVE  RV!Dial(endpoint[c]) \/ UNCHANGED RV!vars
  <1>1. endpoint[c] \in Endpoints /\ state[c] = "connecting"
    BY DEF Insert, Inv, TypeOK, Dialled, Untouched
  <1>2. View' = [View EXCEPT ![endpoint[c]] = "connecting"]
    BY <1>1, NamesAssumption DEF Insert, View, Inv, TypeOK, conn
  <1>3. UNCHANGED <<Reports, crashed>>
    BY DEF Insert, Reports, library
  <1>4. CASE View[endpoint[c]] = "connecting"
    <2>1. View' = View
      BY <1>2, <1>4 DEF View
    <2> QED BY <1>3, <2>1 DEF RV!vars
  <1>5. CASE View[endpoint[c]] # "connecting"
    BY <1>1, <1>2, <1>3, <1>5, ViewType DEF RV!Dial
  <1> QED BY <1>4, <1>5

\* Every step of the relay manager is a step of the view, or is not seen.
LEMMA ViewStep == Inv /\ Opened /\ [Next]_vars => [RV!Next]_(RV!vars)
  <1> SUFFICES ASSUME Inv, Opened, [Next]_vars PROVE [RV!Next]_(RV!vars)
    OBVIOUS
  <1> USE DEF conn, library, goroutines, dialers
  <1>1. ASSUME Cleanup PROVE RV!Next
    <2>1. View' = [e \in Endpoints |-> "none"]
      BY <1>1, NamesAssumption DEF Cleanup, View
    <2>2. UNCHANGED <<Reports, crashed>>
      BY <1>1 DEF Cleanup, Reports
    <2> QED BY <2>1, <2>2 DEF RV!Cleanup, RV!Next
  <1>2. ASSUME NEW d \in Dialers, Dialing(d) PROVE UNCHANGED RV!vars
    BY <1>2, Unseen
    DEF Dialing, ConfigureRelays, SkipRelay, DialRelay, NextRelay, Configured
  <1>3. ASSUME NEW c \in Conns, Insert(c) PROVE [RV!Next]_(RV!vars)
    <2>1. endpoint[c] \in Endpoints
      BY <1>3 DEF Insert, Inv, TypeOK, Dialled
    <2> QED BY <1>3, <2>1, InsertIsDial DEF RV!Next
  <1>4. ASSUME NEW c \in Conns, SetupFails(c) \/ TimerFails(c) \/ IceFails(c)
        PROVE [RV!Next]_(RV!vars)
    <2>1. endpoint[c] \in Endpoints
      BY <1>4 DEF SetupFails, TimerFails, IceFails, Inv, Dialled, Untouched, TypeOK
    <2>2. FailConnection(c) /\ UNCHANGED <<callback, crashed>>
      BY <1>4 DEF SetupFails, TimerFails, IceFails
    <2> QED BY <2>1, <2>2, FailIsLose DEF RV!Next
  <1>5. ASSUME NEW c \in Conns, CloseExcess(c) \/ OnClose(c) PROVE [RV!Next]_(RV!vars)
    <2>1. CloseConnection(endpoint[c]) /\ endpoint[c] \in Endpoints /\ crashed' = crashed
      BY <1>5 DEF CloseExcess, OnClose, Inv, Dialled, Untouched, TypeOK
    <2>2. Reporting' = Reporting
      BY <1>5 DEF CloseExcess, OnClose, Reporting, Inv, TypeOK
    <2>3. Reports' = Reports
      BY <2>2, ReportingFinite
    <2> QED BY <2>1, <2>3, CloseIsLose DEF RV!Next
  <1>6. ASSUME NEW c \in Conns, OnOpen(c) PROVE [RV!Next]_(RV!vars)
    <2>1. endpoint[c] \in Endpoints
      BY <1>6 DEF OnOpen, Inv, Dialled, Untouched, TypeOK
    <2> QED BY <1>6, <2>1, OnOpenIsOpen DEF RV!Next
  <1>7. ASSUME ~crashed, NEW c \in Conns, OnConnected(c) PROVE RV!Next
    BY <1>7, OnConnectedIsReport DEF RV!Next
  <1>8. ASSUME NEW c \in Conns, ChannelOpens(c) PROVE UNCHANGED RV!vars
    <2>1. Reporting' = Reporting
      BY <1>8 DEF ChannelOpens, Reporting, Opened, Inv, TypeOK
    <2>2. View' = View /\ crashed' = crashed
      BY <1>8 DEF ChannelOpens, View
    <2> QED BY <2>1, <2>2, ReportingFinite DEF RV!vars
  <1>9. ASSUME NEW c \in Conns, DoubleClose(c) PROVE RV!Next
    <2>1. View' = View /\ Reports' = Reports
      BY <1>9 DEF DoubleClose, View, Reports
    <2> QED BY <1>9, <2>1 DEF RV!Panic, RV!Next, DoubleClose
  <1>10. ASSUME NEW c \in Conns,
                \/ Create(c) \/ Connect(c) \/ TimerFires(c) \/ TimerStopped(c)
                \/ ChannelCloses(c) \/ KeepaliveTick(c) \/ KeepaliveStopped(c) \/ Teardown(c)
         PROVE UNCHANGED RV!vars
    BY <1>10, Unseen
    DEF Create, Connect, TimerFires, TimerStopped, ChannelCloses, KeepaliveTick,
        KeepaliveStopped, Teardown
  <1>11. ASSUME UNCHANGED vars PROVE UNCHANGED RV!vars
    BY <1>11, Unseen DEF vars
  <1> QED
    BY <1>1, <1>2, <1>3, <1>4, <1>5, <1>6, <1>7, <1>8, <1>9, <1>10, <1>11
    DEF Next, SetupStep, TimerStep, OpenStep

\* The call manager may rely on RelayView's steps: the relay manager takes no others,
\* for any number of relays, connections and overlapping dials.
THEOREM ImplementsViewSteps == Spec => RV!Init /\ [][RV!Next]_(RV!vars)
  <1>1. Init => RV!Init
    <2> SUFFICES ASSUME Init PROVE RV!Init
      OBVIOUS
    <2>1. View = [e \in Endpoints |-> "none"]
      BY DEF Init, View
    <2>2. Reporting = {}
      BY DEF Init, Reporting
    <2>3. Reports = 0
      BY <2>2, ReportingFinite, FS_EmptySet
    <2> QED BY <2>1, <2>3 DEF Init, RV!Init
  <1> QED BY <1>1, InvInit, InvStep, OpenedInit, OpenedStep, ViewStep, PTL DEF Spec

=============================================================================
