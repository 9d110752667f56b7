------------------------------ MODULE CallDesk ------------------------------
(***************************************************************************)
(* The desk of the operators: the calls of one session as the broker lists *)
(* them (cmd/server/broker.go), the registry of its call managers          *)
(* (callregistry.go), the callbacks that keep the list (Session.wireCall)  *)
(* and the handlers by which browsers start, answer, hold, transfer, pick  *)
(* up and end calls (httpapi.go).                                          *)
(*                                                                         *)
(* Each broadcast is two steps, for the broker's read lock is held while   *)
(* the channels are written, and so is the call list's snapshot a step of  *)
(* its own.  A call manager's lock is held while it emits its state.       *)
(* One request of a browser is handled by one thread.                      *)
(***************************************************************************)
EXTENDS Integers, Sequences, FiniteSets, CallState

CONSTANTS Clients,     \* browsers, each with one request at a time
          Panels,      \* open event streams
          Tasks,       \* goroutines of a broadcast, which call a number each
          Calls,
          Scenarios,   \* the offers that come, the requests of each client, the panels opened
          MaxCalls,    \* -max-calls-per-session
          Nobody, Free

Loop == "loop"         \* the event loop of the session
Relay == "relay"       \* the callback of a relay that opens
Callers == Clients \cup Tasks
Threads == Callers \cup Panels \cup {Loop, Relay}
Ops == {"start", "accept", "reject", "end", "hold", "resume", "transfer", "pickup", "broadcast"}

ASSUME DeskAssumption ==
    /\ MaxCalls \in Nat \ {0} /\ Calls # {}
    /\ Nobody \notin Clients /\ Free \notin Threads
    /\ Clients \cap Panels = {} /\ Tasks \cap (Clients \cup Panels) = {}
    /\ {Loop, Relay} \cap (Callers \cup Panels) = {}
    /\ Scenarios \subseteq [offers : SUBSET Calls, open : SUBSET Panels,
                            requests : [Clients -> Seq([op : Ops, call : Calls])]]
\* The id of a call is random, whoever makes it: no two starts are of one call, nor one of a
\* call that is offered.
ASSUME FreshAssumption ==
    \A s \in Scenarios, c \in Clients : \A i \in DOMAIN s.requests[c] :
        s.requests[c][i].op = "start" =>
            /\ s.requests[c][i].call \notin s.offers
            /\ \A d \in Clients : \A j \in DOMAIN s.requests[d] :
                   s.requests[d][j] = s.requests[c][i] => d = c /\ j = i

VARIABLES
    offers,     \* offers that have not come yet
    requests,   \* requests each client has yet to make
    state,      \* of the call of each manager
    held,       \* which thread has its lock
    reg,        \* the registry
    list,       \* Broker.calls
    rows,       \* how often a call is in Broker.history
    subs,       \* Broker.subs
    closed,     \* channels that are closed
    pc, on,     \* where each thread is, and with which call
    out,        \* events it has yet to broadcast
    reading,    \* the subscribers it is sending to, under the read lock
    seen,       \* what getCall told it
    then,       \* what it does once it has emitted the state
    known,      \* history: calls each panel has heard of, if it has lost no event
    lossy,      \* history: panels whose channel was full
    claims,     \* history: clients whose claim of an incoming call succeeded
    answered    \* history: clients whose accept took it

calls == <<state, held, reg>>
broker == <<list, rows, subs, closed>>
threads == <<pc, on, out, reading, seen, then>>
history == <<known, lossy, claims, answered>>
vars == <<offers, requests, calls, broker, threads, history>>

Unlisted == [owner |-> Nobody, status |-> "none", onHold |-> FALSE]
OwnedBy(r, c) == [owner |-> c, status |-> r.status, onHold |-> r.onHold]
Events == {"list", "listed", "status", "incoming", "claimed", "offer", "ended"}
Quiet == {Free}          \* not broadcasting

TypeOK ==
    /\ offers \subseteq Calls
    /\ state \in [Calls -> CallStates \cup {"none"}]
    /\ held \in [Calls -> Threads \cup {Free}]
    /\ reg \subseteq Calls
    /\ list \in [Calls -> [owner : Clients \cup {Nobody}, onHold : BOOLEAN,
                           status : {"none", "starting", "ringing", "connected"}]]
    /\ rows \in [Calls -> Nat]
    /\ subs \subseteq Panels /\ closed \subseteq Panels
    /\ on \in [Threads -> Calls]
    /\ \A t \in Threads : \A i \in DOMAIN out[t] :
           /\ out[t][i].type \in Events /\ out[t][i].of \subseteq Calls
    /\ reading \in [Threads -> (SUBSET Panels) \cup {Quiet}]
    /\ seen \in [Threads -> Clients \cup {Nobody}]
    /\ known \in [Panels -> SUBSET Calls] /\ lossy \subseteq Panels
    /\ claims \in [Calls -> SUBSET Clients] /\ answered \in [Calls -> SUBSET Clients]

Init ==
    /\ \E s \in Scenarios :
          /\ offers = s.offers /\ requests = s.requests
          /\ pc = [t \in Threads |-> IF t \notin Panels THEN "idle"
                                    ELSE IF t \in s.open THEN "off" ELSE "left"]
    /\ state = [k \in Calls |-> "none"] /\ held = [k \in Calls |-> Free] /\ reg = {}
    /\ list = [k \in Calls |-> Unlisted] /\ rows = [k \in Calls |-> 0]
    /\ subs = {} /\ closed = {}
    /\ on = [t \in Threads |-> CHOOSE k \in Calls : TRUE]
    /\ out = [t \in Threads |-> <<>>] /\ reading = [t \in Threads |-> Quiet]
    /\ seen = [t \in Threads |-> Nobody] /\ then = [t \in Threads |-> "idle"]
    /\ known = [p \in Panels |-> {}] /\ lossy = {}
    /\ claims = [k \in Calls |-> {}] /\ answered = [k \in Calls |-> {}]

\* Nobody holds the broker's read lock, so that its write lock may be taken.
Writable == \A t \in Threads : reading[t] = Quiet

\* A broadcast goes on when the call it hung up has ended, a request clears the list.
Ended(t) == IF t \in Clients THEN "remove" ELSE IF t \in Tasks THEN "closing" ELSE "idle"

\* A thread goes on once it has broadcast what it had to.
At(t, here) == pc[t] = here /\ out[t] = <<>> /\ reading[t] = Quiet
Goto(t, there) == pc' = [pc EXCEPT ![t] = there]
Ev(type, k) == [type |-> type, of |-> {k}]
Say(t, events) == out' = [out EXCEPT ![t] = events]

-----------------------------------------------------------------------------
(* The broker *)

\* broadcastCallList takes the list under the lock and lets go of it ...
TakeList(t) ==
    /\ out[t] # <<>> /\ Head(out[t]).type = "list" /\ reading[t] = Quiet
    /\ LET listed == {k \in Calls : list[k] # Unlisted} IN
       out' = [out EXCEPT ![t] = <<[type |-> "listed", of |-> listed]>> \o Tail(@)]
    /\ UNCHANGED <<offers, requests, calls, broker, pc, on, reading, seen, then, history>>

\* ... and broadcast, as for every event, takes it again.
Broadcast(t) ==
    /\ out[t] # <<>> /\ Head(out[t]).type # "list" /\ reading[t] = Quiet
    /\ reading' = [reading EXCEPT ![t] = subs]
    /\ UNCHANGED <<offers, requests, calls, broker, pc, on, out, seen, then, history>>

\* A channel that is full loses the event (select with a default).
Send(t) ==
    /\ reading[t] # Quiet
    /\ \E full \in SUBSET reading[t] :
          /\ lossy' = lossy \cup full
          /\ known' = [p \in Panels |->
                           IF p \in lossy' THEN {}
                           ELSE IF p \in reading[t] THEN known[p] \cup Head(out[t]).of
                           ELSE known[p]]
    /\ reading' = [reading EXCEPT ![t] = Quiet]
    /\ out' = [out EXCEPT ![t] = Tail(@)]
    /\ UNCHANGED <<offers, requests, calls, broker, pc, on, seen, then, claims, answered>>

\* serveSSE subscribes, sends the snapshot of the sessions and the call list.
\* A faulty SubscribeFirst: the list is sent before.
ListFirst(p) ==
    \/ At(p, "off") /\ Goto(p, "snapshot") /\ Say(p, <<Ev("list", on[p])>>) /\ UNCHANGED subs
    \/ At(p, "snapshot") /\ Goto(p, "on") /\ Writable /\ subs' = subs \cup {p} /\ UNCHANGED out

SubscribeFirst(p) ==
    \/ At(p, "off") /\ Goto(p, "snapshot") /\ Writable /\ subs' = subs \cup {p} /\ UNCHANGED out
    \/ At(p, "snapshot") /\ Goto(p, "on") /\ Say(p, <<Ev("list", on[p])>>) /\ UNCHANGED subs

Subscribe(p) ==
    /\ SubscribeFirst(p)
    /\ UNCHANGED <<offers, requests, calls, list, rows, closed, on, reading, seen, then, history>>

\* A faulty Leave: the channel is closed first.
LeaveClosing(p) == closed' = closed \cup {p} /\ UNCHANGED subs
Leave(p) == Writable /\ subs' = subs \ {p} /\ UNCHANGED closed

Unsubscribe(p) ==
    /\ \/ At(p, "on") /\ Goto(p, "leaving") /\ Leave(p)
       \/ At(p, "leaving") /\ Goto(p, "left") /\ closed' = closed \cup {p} /\ subs' = subs \ {p}
    /\ UNCHANGED <<offers, requests, calls, list, rows, on, out, reading, seen, then, history>>

\* upsertCall, and what it broadcasts.
Upsert(t, k, r, more) ==
    /\ Writable
    /\ list' = [list EXCEPT ![k] = r]
    /\ Say(t, <<Ev("list", k), Ev("status", k)>> \o more)

\* endCall.  A faulty one looks for the call in the registry, as the handlers do.
UnlistRegistered(t, k) ==
    /\ Writable
    /\ IF list[k] = Unlisted \/ k \notin reg
       THEN UNCHANGED <<list, rows, out>>
       ELSE /\ list' = [list EXCEPT ![k] = Unlisted]
            /\ rows' = [rows EXCEPT ![k] = @ + 1]
            /\ Say(t, <<Ev("ended", k), Ev("list", k)>>)

Unlist(t, k) ==
    /\ Writable
    /\ IF list[k] = Unlisted
       THEN UNCHANGED <<list, rows, out>>
       ELSE /\ list' = [list EXCEPT ![k] = Unlisted]
            /\ rows' = [rows EXCEPT ![k] = @ + 1]
            /\ Say(t, <<Ev("ended", k), Ev("list", k)>>)

\* reassignOwner
Reassign(t, k, owner, more) ==
    /\ Writable
    /\ IF list[k] = Unlisted THEN UNCHANGED <<list, out>>
       ELSE /\ list' = [list EXCEPT ![k] = OwnedBy(@, owner)]
            /\ Say(t, <<Ev("list", k), Ev("status", k)>> \o more)

-----------------------------------------------------------------------------
(* A call manager and the callbacks of Session.wireCall *)

\* OnStateChange upserts a call, or ends it.  A faulty one upserts ended calls too.
EmissionUpserts(s) == IF s \in CallStates THEN "emit_read" ELSE "emit_end"
Emission(s) == IF s = "ended" THEN "emit_end" ELSE "emit_read"

\* A handler that takes the manager's lock, applies a transition and emits.
Apply(t, k, transition, next) ==
    /\ held[k] = Free
    /\ held' = [held EXCEPT ![k] = t]
    /\ state' = [state EXCEPT ![k] = ApplyTransition(@, transition)]
    /\ Goto(t, Emission(state'[k]))
    /\ then' = [then EXCEPT ![t] = next]

\* OnStateChange reads the owner ...
EmitRead(t) ==
    /\ At(t, "emit_read") /\ Goto(t, "emit_write")
    /\ seen' = [seen EXCEPT ![t] = list[on[t]].owner]
    /\ UNCHANGED <<offers, requests, calls, broker, on, out, reading, then, history>>

\* ... and writes the whole record.
EmitWrite(t) ==
    /\ At(t, "emit_write") /\ Goto(t, "unlock")
    /\ LET s == state[on[t]] IN
       Upsert(t, on[t], [owner |-> seen[t], status |-> MapStatus(s), onHold |-> s = "on_hold"], <<>>)
    /\ seen' = [seen EXCEPT ![t] = Nobody]
    /\ UNCHANGED <<offers, requests, calls, rows, subs, closed, on, reading, then, history>>

\* A call that has ended leaves the registry and the list (OnStateChange; OnEnded
\* and the handlers of reject and end do so once more, without the lock).
EmitEnd(t) ==
    /\ \/ At(t, "emit_end") /\ Goto(t, "emit_unlist")
       \/ At(t, "remove") /\ Goto(t, "unlist")
       \/ At(t, "on_ended") /\ Goto(t, "on_ended_unlist")
    /\ reg' = reg \ {on[t]}
    /\ UNCHANGED <<offers, requests, state, held, broker, on, out, reading, seen, then, history>>

EmitUnlist(t) ==
    /\ \/ At(t, "emit_unlist") /\ Goto(t, "unlock")
       \/ At(t, "unlist") /\ Goto(t, "idle")
       \/ At(t, "on_ended_unlist") /\ Goto(t, Ended(t))
    /\ Unlist(t, on[t])
    /\ UNCHANGED <<offers, requests, calls, subs, closed, on, reading, seen, then, history>>

Unlock(t) ==
    /\ At(t, "unlock") /\ Goto(t, then[t])
    /\ held' = [held EXCEPT ![on[t]] = Free]
    /\ then' = [then EXCEPT ![t] = "idle"]
    /\ UNCHANGED <<offers, requests, state, reg, broker, on, out, reading, seen, history>>

-----------------------------------------------------------------------------
(* Starting calls *)

\* The cap is looked at before the call is created, and not then: calls that are
\* started at the same time exceed it.
UnderCap == Cardinality(reg) < MaxCalls

\* createCall, some time after the count: doStartCall has read the request and
\* onIncomingOffer has found the call's id.
CreateCall(t) ==
    /\ At(t, "create") /\ Goto(t, "begin")
    /\ reg' = reg \cup {on[t]}
    /\ UNCHANGED <<offers, requests, state, held, broker, on, out, reading, seen, then, history>>

\* StartCall's first critical section.
BeginCall(c) ==
    /\ c \in Callers /\ At(c, "begin") /\ Goto(c, "offer")
    /\ state' = [state EXCEPT ![on[c]] = "initiating"]
    /\ UNCHANGED <<offers, requests, held, reg, broker, on, out, reading, seen, then, history>>

\* The second one; when the offer cannot be built, startOutgoing removes the call.
OfferSent(c) ==
    /\ At(c, "offer")
    /\ \/ Apply(c, on[c], "offer_sent", IF c \in Tasks THEN "dialled" ELSE "listing") /\ UNCHANGED reg
       \/ /\ reg' = reg \ {on[c]} /\ Goto(c, IF c \in Tasks THEN "failed" ELSE "idle")
          /\ UNCHANGED <<state, held, then>>
    /\ UNCHANGED <<offers, requests, broker, on, out, reading, seen, history>>

\* doStartCall lists the call as ringing, whatever has become of it.
ListStarted(c) ==
    /\ At(c, "listing") /\ Goto(c, "idle")
    /\ Upsert(c, on[c], [owner |-> c, status |-> "ringing", onHold |-> FALSE], <<>>)
    /\ UNCHANGED <<offers, requests, calls, rows, subs, closed, on, reading, seen, then, history>>

\* An offer: it is turned away at the cap (rejectOffer).
OnIncomingOffer(k) ==
    /\ At(Loop, "idle") /\ k \in offers
    /\ offers' = offers \ {k}
    /\ on' = [on EXCEPT ![Loop] = k]
    /\ IF UnderCap THEN Goto(Loop, "create") ELSE UNCHANGED pc
    /\ UNCHANGED <<requests, calls, broker, out, reading, seen, then, history>>

\* HandleCallOffer lists the call and then tells the panels.
HandleCallOffer ==
    /\ At(Loop, "begin") /\ Goto(Loop, "tell")
    /\ state' = [state EXCEPT ![on[Loop]] = "incoming_ringing"]
    /\ UNCHANGED <<offers, requests, held, reg, broker, on, out, reading, seen, then, history>>

OnIncoming ==
    /\ At(Loop, "tell") /\ Goto(Loop, "told")
    /\ Upsert(Loop, on[Loop], [owner |-> Nobody, status |-> "ringing", onHold |-> FALSE],
              <<Ev("incoming", on[Loop])>>)
    /\ UNCHANGED <<offers, requests, calls, rows, subs, closed, on, reading, seen, then, history>>

\* It emits the state once more; no transition has happened since its own.
OfferEmit ==
    /\ At(Loop, "told")
    /\ Apply(Loop, on[Loop], "offer_received", "idle")
    /\ UNCHANGED <<offers, requests, reg, broker, on, out, reading, seen, history>>

\* The far side answers or ends a call (HandleCallAccept, HandleCallTerminate).
RemoteAccept(k) ==
    /\ At(Loop, "idle") /\ k \in reg /\ state[k] = "ringing"
    /\ on' = [on EXCEPT ![Loop] = k]
    /\ Apply(Loop, k, "remote_accepted", "idle")
    /\ UNCHANGED <<offers, requests, reg, broker, out, reading, seen, history>>

RemoteTerminate(k) ==
    /\ At(Loop, "idle") /\ k \in reg /\ state[k] \notin {"none", "initiating", "ended"}
    /\ on' = [on EXCEPT ![Loop] = k]
    /\ Apply(Loop, k, "terminated", "on_ended")
    /\ UNCHANGED <<offers, requests, reg, broker, out, reading, seen, history>>

\* onRelayConnected
Connected(k) ==
    /\ At(Relay, "idle") /\ state[k] = "connecting"
    /\ on' = [on EXCEPT ![Relay] = k]
    /\ Apply(Relay, k, "media_connected", "idle")
    /\ UNCHANGED <<offers, requests, reg, broker, out, reading, seen, history>>

-----------------------------------------------------------------------------
(* Requests *)

\* Every handler but those of start, reject and end answers 404 to a call that is
\* not in the registry; end and reject only clear the list then.
FirstStep(op, k) ==
    IF op = "start" THEN IF UnderCap THEN "create" ELSE "idle"
    ELSE IF k \in reg THEN op
    ELSE IF op \in {"end", "reject"} THEN "remove" ELSE "idle"

Request(c) ==
    /\ At(c, "idle") /\ requests[c] # <<>>
    /\ LET r == Head(requests[c]) IN
       /\ r.op # "broadcast"
       /\ r.op = "start" \/ state[r.call] \notin {"none", "initiating"}
       /\ on' = [on EXCEPT ![c] = r.call]
       /\ Goto(c, FirstStep(r.op, r.call))
    /\ requests' = [requests EXCEPT ![c] = Tail(@)]
    /\ UNCHANGED <<offers, calls, broker, out, reading, seen, then, history>>

\* doAccept claims the call (setOwner) ...
Claim(c) ==
    /\ At(c, "accept") /\ Writable
    /\ LET k == on[c] IN
       IF list[k] # Unlisted /\ list[k].owner \in {Nobody, c}
       THEN /\ list' = [list EXCEPT ![k] = OwnedBy(@, c)]
            /\ claims' = [claims EXCEPT ![k] = @ \cup {c}]
            /\ Goto(c, "answer") /\ Say(c, <<Ev("claimed", k)>>)
       ELSE Goto(c, "idle") /\ UNCHANGED <<list, claims, out>>
    /\ UNCHANGED <<offers, requests, calls, rows, subs, closed, on, reading, seen, then,
                   known, lossy, answered>>

\* Faulty CanAccept: the state is not looked at.
CanAcceptAny(k) == k \in Calls
CanAccept(k) == state[k] = "incoming_ringing"

\* ... and AcceptCall answers it.
Answer(c) ==
    /\ At(c, "answer")
    /\ LET k == on[c] IN
       IF CanAccept(k)
       THEN Apply(c, k, "local_accepted", "idle") /\ answered' = [answered EXCEPT ![k] = @ \cup {c}]
       ELSE /\ held[k] = Free /\ Goto(c, "idle") /\ UNCHANGED <<state, held, then, answered>>
    /\ UNCHANGED <<offers, requests, reg, broker, on, out, reading, seen, known, lossy, claims>>

\* RejectCall emits whether the transition was one or not; then the lists are cleared.
Reject(c) ==
    /\ At(c, "reject")
    /\ Apply(c, on[c], "local_rejected", "remove")
    /\ UNCHANGED <<offers, requests, reg, broker, on, out, reading, seen, history>>

EndCall(c) ==
    /\ At(c, "end")
    /\ IF state[on[c]] = "ended"
       THEN held[on[c]] = Free /\ Goto(c, Ended(c)) /\ UNCHANGED <<state, held, then>>
       ELSE Apply(c, on[c], "terminated", "on_ended")
    /\ UNCHANGED <<offers, requests, reg, broker, on, out, reading, seen, history>>

\* Hold and Resume return an error, and emit nothing, when the state does not allow them.
HoldOrResume(c) ==
    /\ pc[c] \in {"hold", "resume", "transfer"} /\ At(c, pc[c])
    /\ LET t == IF pc[c] = "resume" THEN "resume" ELSE "hold"
           next == IF pc[c] = "transfer" THEN "release" ELSE "idle" IN
       IF Allowed(state[on[c]], t)
       THEN Apply(c, on[c], t, next)
       ELSE held[on[c]] = Free /\ Goto(c, next) /\ UNCHANGED <<state, held, then>>
    /\ UNCHANGED <<offers, requests, reg, broker, on, out, reading, seen, history>>

\* handleTransfer frees the owner, then offers the call; handlePickup takes it.
Release(c) ==
    /\ At(c, "release") /\ Goto(c, "offering")
    /\ Reassign(c, on[c], Nobody, <<>>)
    /\ UNCHANGED <<offers, requests, calls, rows, subs, closed, on, reading, seen, then, history>>

OfferTransfer(c) ==
    /\ At(c, "offering") /\ Goto(c, "idle") /\ Say(c, <<Ev("offer", on[c])>>)
    /\ UNCHANGED <<offers, requests, calls, broker, on, reading, seen, then, history>>

Pickup(c) ==
    /\ At(c, "pickup") /\ Goto(c, "idle")
    /\ Reassign(c, on[c], c, <<Ev("claimed", on[c])>>)
    /\ UNCHANGED <<offers, requests, calls, rows, subs, closed, on, reading, seen, then, history>>

-----------------------------------------------------------------------------

Next ==
    \/ \E t \in Threads : \/ TakeList(t) \/ Broadcast(t) \/ Send(t)
                          \/ EmitRead(t) \/ EmitWrite(t) \/ EmitEnd(t) \/ EmitUnlist(t)
                          \/ Unlock(t) \/ CreateCall(t)
    \/ \E p \in Panels : Subscribe(p) \/ Unsubscribe(p)
    \/ \E k \in Calls : OnIncomingOffer(k) \/ RemoteAccept(k) \/ RemoteTerminate(k) \/ Connected(k)
    \/ HandleCallOffer \/ OnIncoming \/ OfferEmit
    \/ \E c \in Callers : BeginCall(c) \/ OfferSent(c) \/ EndCall(c)
    \/ \E c \in Clients : \/ Request(c) \/ ListStarted(c) \/ Claim(c) \/ Answer(c) \/ Reject(c)
                          \/ HoldOrResume(c) \/ Release(c) \/ OfferTransfer(c) \/ Pickup(c)

Spec == Init /\ [][Next]_vars

-----------------------------------------------------------------------------
(* Properties *)

\* A send on a closed channel would bring the server down: a panel that is being
\* sent to is not closed before the send is over (unsubscribe against broadcast).
NoSendOnClosed == \A t \in Threads : reading[t] \cap closed = {}

\* A panel that joins in the middle of anything hears of every call that is listed,
\* from the list it is sent or from a later broadcast, unless its channel was full.
KnowsEveryCall ==
    \A p \in Panels \ lossy, k \in Calls :
        (/\ At(p, "on") /\ list[k] # Unlisted
         /\ \A t \in Threads : out[t] = <<>>) => k \in known[p]

\* A call that was offered or listed and has ended is in the history, once nobody is
\* working on it, whichever of its ends was the first.
EndedIsRecorded ==
    \A k \in Calls :
        (state[k] = "ended" /\ \A t \in Threads : on[t] = k => At(t, "idle") \/ t \in Panels)
            => rows[k] > 0

\* However the claims went, one client answers.
AnsweredByOne == \A k \in Calls : Cardinality(answered[k]) <= 1

\* "evita dois clientes pegarem a mesma chamada" (httpapi.go): two clients never both
\* get through the claim of an incoming call.
ClaimedByOne == \A k \in Calls : Cardinality(claims[k]) <= 1
=============================================================================
