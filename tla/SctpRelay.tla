------------------------------- MODULE SctpRelay -------------------------------
(***************************************************************************)
(* The relay manager of a call (internal/voip/transport/sctprelay.go):     *)
(* the map of connections, the goroutines that dial them, their timeouts   *)
(* and keepalives, the callbacks of the WebRTC library, and Cleanup.       *)
(*                                                                         *)
(* A connection is an object of its own; the map holds one per endpoint    *)
(* and several may have been dialled for one endpoint.  mu protects the    *)
(* map and no more: what is decided under it and done after it are two     *)
(* steps here, and so are the two halves of teardown's select and close.   *)
(* The relay and the network (peer) answer, close and fail as they like.   *)
(***************************************************************************)
EXTENDS Integers, FiniteSets

CONSTANTS Endpoints,   \* relay endpoints, by connID
          NoEndpoint,
          Conns,       \* relayConnection objects; a bound on the dials of a call
          NoConn,
          Dialers,     \* goroutines that call ConfigureRelays
          MaxDial,     \* maxDialRelays
          MaxOpen,     \* maxOpenRelays
          Events       \* a bound: what the network and the call may do to a
                       \* connection, a subset of {"cleanup", "ice"}

ASSUME NamesAssumption == NoEndpoint \notin Endpoints /\ NoConn \notin Conns
ASSUME SizesAssumption ==
    /\ IsFiniteSet(Endpoints) /\ IsFiniteSet(Conns)
    /\ MaxDial \in Nat /\ MaxOpen \in Nat

VARIABLES
    connections,   \* SctpRelayManager.connections
    endpoint,      \* relayConnection.id
    state,         \* relayConnection.state
    stopped,       \* connections whose stopCh is closed
    setup,         \* where connectToRelay is
    peer,          \* the PeerConnection and its data channel
    callback,      \* where the OnOpen callback is
    closes,        \* connections whose OnClose callback has to run
    timer,         \* the goroutine of the 20 s timeout
    keepalive,     \* connections whose keepalive goroutine runs
    doomed,        \* the teardowns of each connection that are due
    at,            \* where each ConfigureRelays is
    todo,          \* its relays that it has not looked at
    dialed,        \* its local count
    spawned,       \* the dials it waits for
    crashed        \* a close of a closed channel has panicked

conn == <<endpoint, state, stopped>>
library == <<peer, callback, closes>>
goroutines == <<setup, timer, keepalive>>
dialers == <<at, todo, dialed, spawned>>
vars == <<connections, conn, library, goroutines, doomed, dialers, crashed>>

TypeOK ==
    /\ connections \in [Endpoints -> Conns \cup {NoConn}]
    /\ endpoint \in [Conns -> Endpoints \cup {NoEndpoint}]
    /\ state \in [Conns -> {"connecting", "open", "closed", "failed"}]
    /\ stopped \in SUBSET Conns
    /\ setup \in [Conns -> {"none", "insert", "create", "connect", "done"}]
    /\ peer \in [Conns -> {"none", "new", "dialing", "open", "closed"}]
    /\ callback \in [Conns -> {"none", "waiting", "excess", "opening"}]
    /\ closes \in SUBSET Conns
    /\ timer \in [Conns -> {"off", "on", "fired"}]
    /\ keepalive \in SUBSET Conns
    /\ doomed \in [Conns -> Nat]
    /\ at \in [Dialers -> {"idle", "loop"}]
    /\ todo \in [Dialers -> SUBSET Endpoints]
    /\ dialed \in [Dialers -> Nat]
    /\ spawned \in [Dialers -> SUBSET Conns]
    /\ crashed \in BOOLEAN

Init ==
    /\ connections = [e \in Endpoints |-> NoConn]
    /\ endpoint = [c \in Conns |-> NoEndpoint]
    /\ state = [c \in Conns |-> "connecting"]
    /\ stopped = {}
    /\ setup = [c \in Conns |-> "none"]
    /\ peer = [c \in Conns |-> "none"]
    /\ callback = [c \in Conns |-> "none"]
    /\ closes = {}
    /\ timer = [c \in Conns |-> "off"]
    /\ keepalive = {}
    /\ doomed = [c \in Conns |-> 0]
    /\ at = [d \in Dialers |-> "idle"]
    /\ todo = [d \in Dialers |-> {}]
    /\ dialed = [d \in Dialers |-> 0]
    /\ spawned = [d \in Dialers |-> {}]
    /\ crashed = FALSE

Listed == {e \in Endpoints : connections[e] # NoConn}
OpenEndpoints == {e \in Listed : state[connections[e]] = "open"}
InMap(c) == \E e \in Endpoints : connections[e] = c

-----------------------------------------------------------------------------
(* Removal and teardown *)

\* A faulty failConnection: the entry stays in the map.
FailConnectionKeepsEntry(c) ==
    /\ state[c] # "failed"
    /\ state' = [state EXCEPT ![c] = "failed"]
    /\ doomed' = [doomed EXCEPT ![c] = @ + 1]
    /\ UNCHANGED connections

\* failConnection removes whatever is listed under the id of the connection.
FailConnection(c) ==
    IF state[c] = "failed" THEN UNCHANGED <<state, connections, doomed>>
    ELSE /\ state' = [state EXCEPT ![c] = "failed"]
         /\ connections' = [connections EXCEPT ![endpoint[c]] = NoConn]
         /\ doomed' = [doomed EXCEPT ![c] = @ + 1]

\* closeConnection goes by the id: it closes the connection that is listed now.
CloseConnection(e) ==
    IF connections[e] = NoConn THEN UNCHANGED <<state, connections, doomed>>
    ELSE /\ state' = [state EXCEPT ![connections[e]] = "closed"]
         /\ connections' = [connections EXCEPT ![e] = NoConn]
         /\ doomed' = [doomed EXCEPT ![connections[e]] = @ + 1]

\* A faulty teardown: one that nobody asked for.
TeardownUnasked(c) ==
    /\ setup[c] = "done"
    /\ doomed' = [doomed EXCEPT ![c] = @ - 1]
    /\ stopped' = stopped \cup {c}
    /\ UNCHANGED <<connections, endpoint, state, library, goroutines, dialers, crashed>>

\* teardown closes stopCh unless it is closed, then the channel and the pc, when they
\* have been created.
Teardown(c) ==
    /\ doomed[c] > 0
    /\ doomed' = [doomed EXCEPT ![c] = @ - 1]
    /\ stopped' = stopped \cup {c}
    /\ peer' = [peer EXCEPT ![c] = IF @ = "none" THEN @ ELSE "closed"]
    /\ closes' = IF peer[c] = "open" THEN closes \cup {c} ELSE closes
    /\ UNCHANGED <<connections, endpoint, state, callback, goroutines, dialers, crashed>>

\* Its select and its close are not one step: two teardowns that both find stopCh open
\* both close it, and the second close panics.
DoubleClose(c) ==
    /\ doomed[c] >= 2 /\ c \notin stopped
    /\ crashed' = TRUE
    /\ UNCHANGED <<connections, conn, library, goroutines, doomed, dialers>>

\* Cleanup empties the map and tears down what was in it; the states stay.
Cleanup ==
    /\ "cleanup" \in Events
    /\ connections' = [e \in Endpoints |-> NoConn]
    /\ doomed' = [c \in Conns |-> IF InMap(c) THEN doomed[c] + 1 ELSE doomed[c]]
    /\ UNCHANGED <<conn, library, goroutines, dialers, crashed>>

-----------------------------------------------------------------------------
(* ConfigureRelays and connectToRelay *)

\* The endpoints are those of an ack, of an offer or of a transport stanza.  Bound: it
\* is called while there are connection objects left.
ConfigureRelays(d, relays) ==
    /\ at[d] = "idle" /\ relays # {}
    /\ \E c \in Conns : setup[c] = "none"
    /\ at' = [at EXCEPT ![d] = "loop"]
    /\ todo' = [todo EXCEPT ![d] = relays]
    /\ dialed' = [dialed EXCEPT ![d] = Cardinality(Listed)]
    /\ UNCHANGED <<connections, conn, library, goroutines, doomed, spawned, crashed>>

NextRelay(d, e) ==
    /\ at[d] = "loop" /\ e \in todo[d] /\ dialed[d] < MaxDial
    /\ todo' = [todo EXCEPT ![d] = @ \ {e}]

SkipRelay(d, e) ==
    /\ NextRelay(d, e)
    /\ connections[e] # NoConn
    /\ UNCHANGED <<connections, conn, library, goroutines, doomed, at, dialed, spawned,
                   crashed>>

DialRelay(d, e, c) ==
    /\ NextRelay(d, e)
    /\ connections[e] = NoConn
    /\ setup[c] = "none"
    /\ setup' = [setup EXCEPT ![c] = "insert"]
    /\ endpoint' = [endpoint EXCEPT ![c] = e]
    /\ dialed' = [dialed EXCEPT ![d] = @ + 1]
    /\ spawned' = [spawned EXCEPT ![d] = @ \cup {c}]
    /\ UNCHANGED <<connections, state, stopped, library, timer, keepalive, doomed, at,
                   crashed>>

\* The list is through or the limit reached, and wg.Wait returns.
Configured(d) ==
    /\ at[d] = "loop"
    /\ todo[d] = {} \/ dialed[d] >= MaxDial
    /\ \A c \in spawned[d] : setup[c] = "done"
    /\ at' = [at EXCEPT ![d] = "idle"]
    /\ todo' = [todo EXCEPT ![d] = {}]
    /\ dialed' = [dialed EXCEPT ![d] = 0]
    /\ spawned' = [spawned EXCEPT ![d] = {}]
    /\ UNCHANGED <<connections, conn, library, goroutines, doomed, crashed>>

\* connectToRelay lists the connection, over one that was listed meanwhile ...
Insert(c) ==
    /\ setup[c] = "insert"
    /\ setup' = [setup EXCEPT ![c] = "create"]
    /\ connections' = [connections EXCEPT ![endpoint[c]] = c]
    /\ UNCHANGED <<conn, library, timer, keepalive, doomed, dialers, crashed>>

\* ... creates the pc and the channel with their callbacks ...
Create(c) ==
    /\ setup[c] = "create"
    /\ setup' = [setup EXCEPT ![c] = "connect"]
    /\ peer' = [peer EXCEPT ![c] = "new"]
    /\ UNCHANGED <<connections, conn, callback, closes, timer, keepalive, doomed,
                   dialers, crashed>>

\* A faulty Connect: no timeout is set.
ConnectUntimed(c) ==
    /\ setup[c] = "connect" /\ peer[c] = "new"
    /\ setup' = [setup EXCEPT ![c] = "done"]
    /\ peer' = [peer EXCEPT ![c] = "dialing"]
    /\ UNCHANGED <<connections, conn, callback, closes, timer, keepalive, doomed,
                   dialers, crashed>>

\* ... sets the descriptions, unless the pc was closed, and starts the timeout;
Connect(c) ==
    /\ setup[c] = "connect" /\ peer[c] = "new"
    /\ setup' = [setup EXCEPT ![c] = "done"]
    /\ peer' = [peer EXCEPT ![c] = "dialing"]
    /\ timer' = [timer EXCEPT ![c] = "on"]
    /\ UNCHANGED <<connections, conn, callback, closes, keepalive, doomed, dialers,
                   crashed>>

\* each of these calls may fail.  (ConfigureRelays waits for the teardown that follows,
\* too; here it may return before.)
SetupFails(c) ==
    /\ setup[c] \in {"create", "connect"}
    /\ setup' = [setup EXCEPT ![c] = "done"]
    /\ FailConnection(c)
    /\ \/ UNCHANGED peer
       \/ setup[c] = "create" /\ peer' = [peer EXCEPT ![c] = "new"]   \* a channel failed
    /\ UNCHANGED <<endpoint, stopped, callback, closes, timer, keepalive,
                   dialers, crashed>>

\* The timeout reads the state without the lock ...
TimerFires(c) ==
    /\ timer[c] = "on"
    /\ timer' = [timer EXCEPT ![c] = IF state[c] = "connecting" THEN "fired" ELSE "off"]
    /\ UNCHANGED <<connections, conn, library, setup, keepalive, doomed, dialers, crashed>>

\* ... and may fail a connection that has opened since.
TimerFails(c) ==
    /\ timer[c] = "fired"
    /\ timer' = [timer EXCEPT ![c] = "off"]
    /\ FailConnection(c)
    /\ UNCHANGED <<endpoint, stopped, library, setup, keepalive, dialers,
                   crashed>>

TimerStopped(c) ==
    /\ timer[c] = "on" /\ c \in stopped
    /\ timer' = [timer EXCEPT ![c] = "off"]
    /\ UNCHANGED <<connections, conn, library, setup, keepalive, doomed, dialers, crashed>>

-----------------------------------------------------------------------------
(* The WebRTC library and the callbacks it runs *)

ChannelOpens(c) ==
    /\ peer[c] = "dialing"
    /\ peer' = [peer EXCEPT ![c] = "open"]
    /\ callback' = [callback EXCEPT ![c] = "waiting"]
    /\ UNCHANGED <<connections, conn, closes, goroutines, doomed, dialers, crashed>>

ChannelCloses(c) ==
    /\ peer[c] = "open"
    /\ peer' = [peer EXCEPT ![c] = "closed"]
    /\ closes' = closes \cup {c}
    /\ UNCHANGED <<connections, conn, callback, goroutines, doomed, dialers, crashed>>

\* ICE is disconnected or has failed.
IceFails(c) ==
    /\ "ice" \in Events
    /\ peer[c] \in {"dialing", "open"} /\ state[c] # "failed"
    /\ FailConnection(c)
    /\ UNCHANGED <<endpoint, stopped, library, goroutines, dialers,
                   crashed>>

\* A faulty OnOpen: the number of open relays is not looked at.
OnOpenUncapped(c) ==
    /\ callback[c] = "waiting"
    /\ callback' = [callback EXCEPT ![c] = "opening"]
    /\ state' = [state EXCEPT ![c] = "open"]
    /\ UNCHANGED <<connections, endpoint, stopped, peer, closes, goroutines, doomed,
                   dialers, crashed>>

\* OnOpen, under the lock: too many are open, or this one is open from here on,
\* whatever has become of it.
OnOpen(c) ==
    /\ callback[c] = "waiting"
    /\ IF Cardinality(OpenEndpoints) >= MaxOpen
       THEN callback' = [callback EXCEPT ![c] = "excess"] /\ UNCHANGED state
       ELSE /\ callback' = [callback EXCEPT ![c] = "opening"]
            /\ state' = [state EXCEPT ![c] = "open"]
    /\ UNCHANGED <<connections, endpoint, stopped, peer, closes, goroutines, doomed,
                   dialers, crashed>>

\* go closeConnection(id)
CloseExcess(c) ==
    /\ callback[c] = "excess"
    /\ callback' = [callback EXCEPT ![c] = "none"]
    /\ CloseConnection(endpoint[c])
    /\ UNCHANGED <<endpoint, stopped, peer, closes, goroutines, dialers,
                   crashed>>

\* The rest of OnOpen, without the lock: the keepalive starts, and the call manager is told.
OnConnected(c) ==
    /\ callback[c] = "opening"
    /\ callback' = [callback EXCEPT ![c] = "none"]
    /\ keepalive' = keepalive \cup {c}
    /\ UNCHANGED <<connections, conn, peer, closes, setup, timer, doomed, dialers, crashed>>

\* A faulty OnClose: the entry of a closed channel stays.
OnCloseIgnored(c) ==
    /\ c \in closes
    /\ closes' = closes \ {c}
    /\ UNCHANGED <<connections, conn, peer, callback, goroutines, doomed, dialers, crashed>>

OnClose(c) ==
    /\ c \in closes
    /\ closes' = closes \ {c}
    /\ CloseConnection(endpoint[c])
    /\ UNCHANGED <<endpoint, stopped, peer, callback, goroutines, dialers,
                   crashed>>

\* The keepalive goroutine ends at a tick that finds the connection not open ...
KeepaliveTick(c) ==
    /\ c \in keepalive /\ state[c] # "open"
    /\ keepalive' = keepalive \ {c}
    /\ UNCHANGED <<connections, conn, library, setup, timer, doomed, dialers, crashed>>

\* A faulty end of the keepalive: only the state is looked at.
KeepaliveStoppedByState(c) ==
    /\ c \in keepalive /\ c \in stopped /\ state[c] # "open"
    /\ keepalive' = keepalive \ {c}
    /\ UNCHANGED <<connections, conn, library, setup, timer, doomed, dialers, crashed>>

\* ... and when stopCh is closed, whatever the state says.
KeepaliveStopped(c) ==
    /\ c \in keepalive /\ c \in stopped
    /\ keepalive' = keepalive \ {c}
    /\ UNCHANGED <<connections, conn, library, setup, timer, doomed, dialers, crashed>>

-----------------------------------------------------------------------------
Dialing(d) ==
    \/ \E relays \in SUBSET Endpoints : ConfigureRelays(d, relays)
    \/ \E e \in Endpoints : SkipRelay(d, e) \/ \E c \in Conns : DialRelay(d, e, c)
    \/ Configured(d)

SetupStep(c) == Insert(c) \/ Create(c) \/ Connect(c) \/ SetupFails(c)
TimerStep(c) == TimerFires(c) \/ TimerFails(c) \/ TimerStopped(c)
OpenStep(c) == OnOpen(c) \/ CloseExcess(c) \/ OnConnected(c)

Next ==
    /\ ~crashed
    /\ \/ Cleanup
       \/ \E d \in Dialers : Dialing(d)
       \/ \E c \in Conns :
            \/ SetupStep(c) \/ TimerStep(c)
            \/ ChannelOpens(c) \/ ChannelCloses(c) \/ IceFails(c)
            \/ OpenStep(c) \/ OnClose(c)
            \/ KeepaliveTick(c) \/ KeepaliveStopped(c)
            \/ Teardown(c) \/ DoubleClose(c)

Spec == Init /\ [][Next]_vars

\* Goroutines that run go on, callbacks that are due are run and timeouts expire;
\* nothing is assumed of the callers, of the relays or of the keepalive's ticker.
Fairness ==
    \A c \in Conns :
        /\ WF_vars(~crashed /\ SetupStep(c))
        /\ WF_vars(~crashed /\ TimerStep(c))
        /\ WF_vars(~crashed /\ OpenStep(c))
        /\ WF_vars(~crashed /\ OnClose(c))
        /\ WF_vars(~crashed /\ KeepaliveStopped(c))
        /\ WF_vars(~crashed /\ Teardown(c))

FairSpec == Spec /\ Fairness

-----------------------------------------------------------------------------
(* Safety *)

\* The relays that Broadcast sends on never exceed the cap, however many of their
\* OnOpen callbacks run at once (sctprelay.go:199).
OpenWithinCap == Cardinality(OpenEndpoints) <= MaxOpen

\* What is listed is alive: no listed connection has been closed, failed or given to
\* a teardown, although three ways of removal compete for it and two of them go by
\* the endpoint and not by the connection (sctprelay.go:459, 472, 500).
ListedIsAlive ==
    \A e \in Listed : LET c == connections[e] IN
        /\ endpoint[c] = e
        /\ state[c] \in {"connecting", "open"}
        /\ c \notin stopped /\ doomed[c] = 0

(* What a comment of the code says and a run refutes *)

\* "maxOpenRelays limita quantos relays ficam abertos ao mesmo tempo por chamada":
\* at most MaxOpen channels that the manager has accepted are open.
ChannelsWithinCap ==
    Cardinality({c \in Conns : state[c] = "open" /\ peer[c] = "open"}) <= MaxOpen

-----------------------------------------------------------------------------
(* Liveness *)

\* A dial does not stay connecting for ever: it opens, fails, is closed or stopped,
\* also when another dial of its endpoint has taken its place in the map.
HandshakeSettles ==
    \A c \in Conns :
        (setup[c] # "none" /\ state[c] = "connecting")
            ~> (state[c] # "connecting" \/ c \in stopped \/ crashed)

\* A connection whose channel has closed leaves the map, so HasConnection does not go
\* on counting it.
ClosedChannelLeaves ==
    \A c \in Conns : (InMap(c) /\ peer[c] = "closed") ~> (~InMap(c) \/ crashed)

\* The keepalive of a connection that was torn down ends for good, also when OnOpen
\* starts it after the teardown.
KeepaliveEnds ==
    \A c \in Conns : (c \in stopped) ~> ([](c \notin keepalive) \/ crashed)

-----------------------------------------------------------------------------
(* Refinement *)

View == [e \in Endpoints |-> IF connections[e] = NoConn THEN "none"
                                                       ELSE state[connections[e]]]
Reports == Cardinality({c \in Conns : callback[c] = "opening"})

RV == INSTANCE RelayView WITH view <- View, reports <- Reports

\* The call manager sees relays that are listed, open up to the cap, get lost, and
\* whose openings are all reported to it.
ImplementsView == RV!Spec
=============================================================================
