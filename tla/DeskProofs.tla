----------------------------- MODULE DeskProofs -----------------------------
(***************************************************************************)
(* Theorems about CallDesk and Broadcast, with any browsers, panels, tasks *)
(* and calls.                                                              *)
(*                                                                         *)
(*   Locked      nobody writes to the channel of a panel that has left;    *)
(*   Told        with it: what a panel that joins is yet to hear;          *)
(*   DeskInv     who may be at work on a call and how far it is, why the   *)
(*               history has each call that ended, what the broadcast has  *)
(*               yet to do;                                                *)
(*   Unrejected  the broadcast's calls leave the registry when they end.   *)
(*                                                                         *)
(* Each rests on those before it.                                          *)
(***************************************************************************)
EXTENDS Broadcast, FiniteSetTheorems, TLAPS

deskVars == <<vars, campaign>>

PanelSteps == {"off", "snapshot", "on", "leaving", "left"}

\* Whoever writes to channels holds the lock that a panel needs to join and to leave, and
\* a panel closes its channel when it has left.
Locked ==
    /\ pc = [t \in Threads |-> pc[t]] /\ \A p \in Panels : pc[p] \in PanelSteps
    /\ subs \subseteq Panels /\ closed \subseteq Panels
    /\ reading \in [Threads -> {Quiet, subs}]
    /\ \A p \in subs : pc[p] \in {"snapshot", "on"}
    /\ \A p \in closed : pc[p] = "left"

\* What a step of a thread that is no panel leaves to them.
Elsewhere ==
    /\ pc' = [t \in Threads |-> pc'[t]] /\ \A p \in Panels : pc'[p] = pc[p]
    /\ UNCHANGED <<subs, closed, reading>>

LEMMA PanelsApart ==
    /\ \A c \in Callers : c \in Threads /\ c \notin Panels
    /\ Loop \in Threads \ Panels /\ Relay \in Threads \ Panels
    /\ Panels \subseteq Threads
    /\ Clients \subseteq Callers /\ Tasks \subseteq Callers
    /\ ~ (Quiet \subseteq Panels)
  BY DeskAssumption DEF Callers, Threads, Quiet

LEMMA GotoElsewhere ==
    ASSUME Locked, NEW t \in Threads, t \notin Panels, NEW there, Goto(t, there),
           UNCHANGED <<subs, closed, reading>>
    PROVE  Elsewhere
  BY DEF Locked, Goto, Elsewhere

LEMMA StayElsewhere ==
    ASSUME Locked, UNCHANGED <<pc, subs, closed, reading>>
    PROVE  Elsewhere
  BY DEF Locked, Elsewhere

LEMMA ElsewhereKeeps == Locked /\ Elsewhere => Locked'
  BY PanelsApart DEF Locked, Elsewhere

-----------------------------------------------------------------------------
(* Writing to the channels, joining and leaving *)

LEMMA BroadcastKeeps == ASSUME Locked, NEW t \in Threads, Broadcast(t) PROVE Locked'
  BY DEF Broadcast, Locked, broker

LEMMA SendKeeps == ASSUME Locked, NEW t \in Threads, Send(t) PROVE Locked'
  BY DEF Send, Locked, broker

LEMMA SubscribeKeeps == ASSUME Locked, NEW p \in Panels, Subscribe(p) PROVE Locked'
  <1>1. p \in Threads /\ closed' = closed /\ reading' = reading
    BY PanelsApart DEF Subscribe
  <1>2. CASE pc[p] = "off" /\ pc' = [pc EXCEPT ![p] = "snapshot"] /\ Writable /\ subs' = subs \cup {p}
    <2>1. reading' \in [Threads -> {Quiet}]
      BY <1>1, <1>2 DEF Writable, Locked
    <2> QED
      BY <1>1, <1>2, <2>1 DEF Locked, PanelSteps
  <1>3. CASE pc[p] = "snapshot" /\ pc' = [pc EXCEPT ![p] = "on"] /\ subs' = subs
    BY <1>1, <1>3 DEF Locked, PanelSteps
  <1> QED
    BY <1>2, <1>3 DEF Subscribe, SubscribeFirst, At, Goto

LEMMA UnsubscribeKeeps == ASSUME Locked, NEW p \in Panels, Unsubscribe(p) PROVE Locked'
  <1>1. p \in Threads /\ reading' = reading
    BY PanelsApart DEF Unsubscribe
  <1>2. CASE pc[p] = "on" /\ pc' = [pc EXCEPT ![p] = "leaving"] /\ Leave(p)
    <2>1. reading' \in [Threads -> {Quiet}] /\ subs' = subs \ {p} /\ closed' = closed
      BY <1>1, <1>2 DEF Leave, Writable, Locked
    <2> QED
      BY <1>1, <1>2, <2>1 DEF Locked, PanelSteps
  <1>3. CASE /\ pc[p] = "leaving" /\ pc' = [pc EXCEPT ![p] = "left"]
             /\ closed' = closed \cup {p} /\ subs' = subs \ {p}
    <2>1. subs' = subs
      BY <1>3 DEF Locked
    <2> QED
      BY <1>1, <1>3, <2>1 DEF Locked, PanelSteps
  <1> QED
    BY <1>2, <1>3 DEF Unsubscribe, At, Goto

-----------------------------------------------------------------------------
(* The steps of the other threads *)

LEMMA EmissionsElsewhere ==
    ASSUME Locked, NEW t \in Threads,
           \/ TakeList(t) \/ EmitRead(t) \/ EmitWrite(t) \/ EmitEnd(t) \/ EmitUnlist(t)
           \/ Unlock(t) \/ CreateCall(t)
    PROVE  Elsewhere
  <1>1. CASE TakeList(t)
    BY <1>1, StayElsewhere DEF TakeList, broker
  <1>2. ASSUME ~ TakeList(t) PROVE t \notin Panels
    BY <1>2 DEF EmitRead, EmitWrite, EmitEnd, EmitUnlist, Unlock, CreateCall, At, Locked, PanelSteps
  <1>3. CASE EmitRead(t)
    BY <1>2, <1>1, <1>3, GotoElsewhere DEF EmitRead, broker
  <1>4. CASE EmitWrite(t)
    BY <1>2, <1>1, <1>4, GotoElsewhere DEF EmitWrite, broker
  <1>5. CASE EmitEnd(t)
    BY <1>2, <1>1, <1>5, GotoElsewhere DEF EmitEnd, broker
  <1>6. CASE EmitUnlist(t)
    BY <1>2, <1>1, <1>6, GotoElsewhere DEF EmitUnlist, broker
  <1>7. CASE Unlock(t)
    BY <1>2, <1>1, <1>7, GotoElsewhere DEF Unlock, broker
  <1>8. CASE CreateCall(t)
    BY <1>2, <1>1, <1>8, GotoElsewhere DEF CreateCall, broker
  <1> QED
    BY <1>1, <1>3, <1>4, <1>5, <1>6, <1>7, <1>8

LEMMA ApplyElsewhere ==
    ASSUME Locked, NEW t \in Threads, t \notin Panels, NEW k, NEW transition, NEW next,
           Apply(t, k, transition, next), UNCHANGED <<subs, closed, reading>>
    PROVE  Elsewhere
  BY GotoElsewhere DEF Apply

LEMMA CallsElsewhere ==
    ASSUME Locked,
           \/ \E k \in Calls : OnIncomingOffer(k) \/ RemoteAccept(k) \/ RemoteTerminate(k) \/ Connected(k)
           \/ HandleCallOffer \/ OnIncoming \/ OfferEmit
    PROVE  Elsewhere
  <1>1. ASSUME NEW k \in Calls, OnIncomingOffer(k) PROVE Elsewhere
    BY <1>1, GotoElsewhere, StayElsewhere, PanelsApart DEF OnIncomingOffer, broker
  <1>2. ASSUME NEW k \in Calls, RemoteAccept(k) PROVE Elsewhere
    BY <1>2, ApplyElsewhere, PanelsApart DEF RemoteAccept, broker
  <1>3. ASSUME NEW k \in Calls, RemoteTerminate(k) PROVE Elsewhere
    BY <1>3, ApplyElsewhere, PanelsApart DEF RemoteTerminate, broker
  <1>4. ASSUME NEW k \in Calls, Connected(k) PROVE Elsewhere
    BY <1>4, ApplyElsewhere, PanelsApart DEF Connected, broker
  <1>5. CASE HandleCallOffer
    BY <1>5, GotoElsewhere, PanelsApart DEF HandleCallOffer, broker
  <1>6. CASE OnIncoming
    BY <1>6, GotoElsewhere, PanelsApart DEF OnIncoming, broker
  <1>7. CASE OfferEmit
    BY <1>7, ApplyElsewhere, PanelsApart DEF OfferEmit, broker
  <1> QED
    BY <1>1, <1>2, <1>3, <1>4, <1>5, <1>6, <1>7

LEMMA CallersElsewhere ==
    ASSUME Locked, NEW c \in Callers, BeginCall(c) \/ OfferSent(c) \/ EndCall(c)
    PROVE  Elsewhere
  <1>1. CASE BeginCall(c)
    BY <1>1, GotoElsewhere, PanelsApart DEF BeginCall, broker
  <1>2. CASE OfferSent(c)
    BY <1>2, GotoElsewhere, ApplyElsewhere, PanelsApart DEF OfferSent, broker
  <1>3. CASE EndCall(c)
    BY <1>3, GotoElsewhere, ApplyElsewhere, PanelsApart DEF EndCall, broker
  <1> QED
    BY <1>1, <1>2, <1>3

LEMMA RequestsElsewhere ==
    ASSUME Locked, NEW c \in Clients,
           \/ Request(c) \/ ListStarted(c) \/ Claim(c) \/ Answer(c) \/ Reject(c)
           \/ HoldOrResume(c) \/ Release(c) \/ OfferTransfer(c) \/ Pickup(c)
    PROVE  Elsewhere
  <1>0. c \in Threads /\ c \notin Panels
    BY PanelsApart
  <1>1. CASE Request(c)
    BY <1>0, <1>1, GotoElsewhere DEF Request, broker
  <1>2. CASE ListStarted(c)
    BY <1>0, <1>2, GotoElsewhere DEF ListStarted, broker
  <1>3. CASE Claim(c)
    BY <1>0, <1>3, GotoElsewhere DEF Claim
  <1>4. CASE Answer(c)
    BY <1>0, <1>4, GotoElsewhere, ApplyElsewhere DEF Answer, broker
  <1>5. CASE Reject(c)
    BY <1>0, <1>5, ApplyElsewhere DEF Reject, broker
  <1>6. CASE HoldOrResume(c)
    BY <1>0, <1>6, GotoElsewhere, ApplyElsewhere DEF HoldOrResume, broker
  <1>7. CASE Release(c)
    BY <1>0, <1>7, GotoElsewhere DEF Release, broker
  <1>8. CASE OfferTransfer(c)
    BY <1>0, <1>8, GotoElsewhere DEF OfferTransfer, broker
  <1>9. CASE Pickup(c)
    BY <1>0, <1>9, GotoElsewhere DEF Pickup, broker
  <1> QED
    BY <1>1, <1>2, <1>3, <1>4, <1>5, <1>6, <1>7, <1>8, <1>9

LEMMA BulkElsewhere ==
    ASSUME Locked,
           \/ \E c \in Clients : HandleBroadcast(c)
           \/ \E t \in Tasks : \/ CallNext(t) \/ Dialled(t) \/ Answered(t) \/ NoAnswer(t)
                               \/ PumpAudio(t) \/ Close(t)
    PROVE  Elsewhere
  <1>1. ASSUME NEW c \in Clients, HandleBroadcast(c) PROVE Elsewhere
    BY <1>1, StayElsewhere DEF HandleBroadcast, broker, threads
  <1>2. ASSUME NEW t \in Tasks, CallNext(t) PROVE Elsewhere
    BY <1>2, GotoElsewhere, PanelsApart DEF CallNext, broker
  <1>3. ASSUME NEW t \in Tasks, Dialled(t) \/ Answered(t) \/ NoAnswer(t) \/ PumpAudio(t) \/ Close(t)
        PROVE Elsewhere
    <2>1. t \in Threads /\ t \notin Panels /\ UNCHANGED <<subs, closed, reading>>
      BY <1>3, PanelsApart DEF Dialled, Answered, NoAnswer, PumpAudio, Close, DeskUntouched, broker
    <2>2. PICK there : Goto(t, there)
      BY <1>3 DEF Dialled, Answered, NoAnswer, RingsOut, PumpAudio, Close
    <2> QED
      BY <2>1, <2>2, GotoElsewhere
  <1> QED
    BY <1>1, <1>2, <1>3

-----------------------------------------------------------------------------

LEMMA LockedInit == BroadcastInit => Locked
  BY PanelsApart DEF BroadcastInit, Init, Locked, PanelSteps

LEMMA LockedStep == Locked /\ [BroadcastNext]_deskVars => Locked'
  <1> SUFFICES ASSUME Locked, [BroadcastNext]_deskVars PROVE Locked'
    OBVIOUS
  <1>1. CASE UNCHANGED deskVars
    BY <1>1, StayElsewhere, ElsewhereKeeps DEF deskVars, vars, broker, threads
  <1>2. CASE Next
    <2>1. ASSUME NEW t \in Threads, Broadcast(t) \/ Send(t) PROVE Locked'
      BY <2>1, BroadcastKeeps, SendKeeps
    <2>2. ASSUME NEW p \in Panels, Subscribe(p) \/ Unsubscribe(p) PROVE Locked'
      BY <2>2, SubscribeKeeps, UnsubscribeKeeps
    <2>3. ASSUME NEW t \in Threads,
                 \/ TakeList(t) \/ EmitRead(t) \/ EmitWrite(t) \/ EmitEnd(t) \/ EmitUnlist(t)
                 \/ Unlock(t) \/ CreateCall(t)
          PROVE  Locked'
      BY <2>3, EmissionsElsewhere, ElsewhereKeeps
    <2>4. CASE \/ \E k \in Calls : OnIncomingOffer(k) \/ RemoteAccept(k) \/ RemoteTerminate(k) \/ Connected(k)
               \/ HandleCallOffer \/ OnIncoming \/ OfferEmit
      BY <2>4, CallsElsewhere, ElsewhereKeeps
    <2>5. ASSUME NEW c \in Callers, BeginCall(c) \/ OfferSent(c) \/ EndCall(c) PROVE Locked'
      BY <2>5, CallersElsewhere, ElsewhereKeeps
    <2>6. ASSUME NEW c \in Clients,
                 \/ Request(c) \/ ListStarted(c) \/ Claim(c) \/ Answer(c) \/ Reject(c)
                 \/ HoldOrResume(c) \/ Release(c) \/ OfferTransfer(c) \/ Pickup(c)
          PROVE  Locked'
      BY <2>6, RequestsElsewhere, ElsewhereKeeps
    <2> QED
      BY <1>2, <2>1, <2>2, <2>3, <2>4, <2>5, <2>6 DEF Next
  <1>3. CASE \/ \E c \in Clients : HandleBroadcast(c)
             \/ \E t \in Tasks : \/ CallNext(t) \/ Dialled(t) \/ Answered(t) \/ NoAnswer(t)
                                 \/ PumpAudio(t) \/ Close(t)
    BY <1>3, BulkElsewhere, ElsewhereKeeps
  <1> QED
    BY <1>1, <1>2, <1>3 DEF BroadcastNext

LEMMA LockedImplies == Locked => NoSendOnClosed
  <1> SUFFICES ASSUME Locked, NEW t \in Threads PROVE reading[t] \cap closed = {}
    BY DEF NoSendOnClosed
  <1>1. Quiet \cap closed = {}
    BY DeskAssumption, PanelsApart DEF Locked, Quiet
  <1>2. subs \cap closed = {}
    BY DEF Locked
  <1>3. reading[t] = Quiet \/ reading[t] = subs
    BY DEF Locked
  <1> QED
    BY <1>1, <1>2, <1>3

\* The server does not write to a channel that is closed, however panels come and go while
\* calls and broadcasts are under way (Broker.broadcast, Broker.unsubscribe).
THEOREM ChannelsAreOpen == BroadcastSpec => []NoSendOnClosed
  BY LockedInit, LockedStep, LockedImplies, PTL DEF BroadcastSpec, deskVars

-----------------------------------------------------------------------------
(* What the panels hear *)

Event == [type : Events, of : SUBSET Calls]
Asked == [op : Ops, call : Calls]

\* The calls that are offered, asked for, worked at, listed and yet to be called.
OnTypes ==
    /\ offers \subseteq Calls /\ requests \in [Clients -> Seq(Asked)]
    /\ on \in [Threads -> Calls] /\ left \in Seq(Calls)
    /\ list = [k \in Calls |-> list[k]]

PanelTypes ==
    /\ out \in [Threads -> Seq(Event)]
    /\ known \in [Panels -> SUBSET Calls] /\ lossy \subseteq Panels
    /\ \A t \in Threads : reading[t] # Quiet => out[t] # <<>> /\ Head(out[t]).type # "list"

\* A panel that has joined is told of every call that is listed: it knows it, will ask
\* for the list, or an event that tells of it is under way to it.
Tells(e, k) == e.type = "list" \/ k \in e.of
Hears(p, k) ==
    \/ k \in known[p] \/ pc[p] = "snapshot"
    \/ \E t \in Threads : \E i \in DOMAIN out[t] :
          Tells(out[t][i], k) /\ (i = 1 => reading[t] = Quiet \/ p \in reading[t])

Joined ==
    /\ \A p \in Panels : pc[p] \in {"snapshot", "on"} => p \in subs
    /\ \A p \in Panels \ lossy, k \in Calls :
          pc[p] \in {"snapshot", "on"} /\ list[k] # Unlisted => Hears(p, k)

Told == Locked /\ OnTypes /\ PanelTypes /\ Joined

LEMMA EventTypes ==
    /\ \A type \in Events, k \in Calls : Ev(type, k) \in Event /\ Ev(type, k).type = type
    /\ \A listed \in SUBSET Calls : [type |-> "listed", of |-> listed] \in Event
    /\ \A e \in Event : e.of \subseteq Calls
  BY DEF Ev, Event, Events

\* The lists of events that a step of the desk broadcasts: of no call, of a call that is no
\* longer listed or has changed hands, and of one that is listed.
LEMMA Speeches ==
    ASSUME NEW k \in Calls
    PROVE  /\ \A type \in Events : <<Ev(type, k)>> \in Seq(Event)
           /\ \A type \in Events : <<Ev(type, k)>> # <<>>
           /\ <<Ev("ended", k), Ev("list", k)>> \in Seq(Event)
           /\ \A more \in Seq(Event) :
                 LET s == <<Ev("list", k), Ev("status", k)>> \o more IN
                 s \in Seq(Event) /\ 1 \in DOMAIN s /\ s[1].type = "list"
  <1>1. \A type \in Events : Ev(type, k) \in Event
    BY EventTypes
  <1>2. Ev("list", k).type = "list"
    BY DEF Ev
  <1>3. Ev("list", k) \in Event /\ Ev("status", k) \in Event /\ Ev("ended", k) \in Event
    BY <1>1 DEF Events
  <1> QED
    BY <1>1, <1>2, <1>3

\* A step of t that says something, or not, and lists no call without saying so.
Speaks(t) ==
    /\ UNCHANGED <<known, lossy, reading, subs>>
    /\ \A p \in Panels : pc'[p] = pc[p]
    /\ \/ out' = out /\ \A k \in Calls : list'[k] # Unlisted => list[k] # Unlisted
       \/ \E s \in Seq(Event) :
             /\ out[t] = <<>> /\ reading[t] = Quiet /\ out' = [out EXCEPT ![t] = s]
             /\ \/ \A k \in Calls : list'[k] # Unlisted => list[k] # Unlisted
                \/ 1 \in DOMAIN s /\ s[1].type = "list"

LEMMA SpeakingKeeps ==
    ASSUME PanelTypes, Joined, NEW t \in Threads, Speaks(t)
    PROVE  PanelTypes' /\ Joined'
  <1>1. CASE out' = out /\ \A k \in Calls : list'[k] # Unlisted => list[k] # Unlisted
    <2>1. PanelTypes'
      BY <1>1 DEF PanelTypes, Speaks
    <2>2. \A p \in Panels, k \in Calls : Hears(p, k) => Hears(p, k)'
      BY <1>1 DEF Hears, Speaks
    <2> QED
      BY <1>1, <2>1, <2>2 DEF Joined, Speaks
  <1>2. ASSUME NEW s \in Seq(Event), out[t] = <<>>, reading[t] = Quiet, out' = [out EXCEPT ![t] = s],
               \/ \A k \in Calls : list'[k] # Unlisted => list[k] # Unlisted
               \/ 1 \in DOMAIN s /\ s[1].type = "list"
        PROVE  PanelTypes' /\ Joined'
    <2>0. out'[t] = s /\ \A u \in Threads : u # t => out'[u] = out[u]
      BY <1>2 DEF PanelTypes
    <2>1. PanelTypes'
      BY <1>2 DEF PanelTypes, Speaks
    <2>2. ASSUME NEW p \in Panels, NEW k \in Calls, Hears(p, k) PROVE Hears(p, k)'
      <3>1. CASE k \in known[p] \/ pc[p] = "snapshot"
        BY <3>1 DEF Hears, Speaks
      <3>2. ASSUME NEW u \in Threads, NEW i \in DOMAIN out[u], Tells(out[u][i], k),
                   i = 1 => reading[u] = Quiet \/ p \in reading[u]
            PROVE  Hears(p, k)'
        <4>1. u # t
          BY <1>2, <3>2
        <4>2. out'[u] = out[u] /\ reading' = reading
          BY <2>0, <4>1 DEF Speaks
        <4> QED
          BY <3>2, <4>2 DEF Hears
      <3> QED
        BY <2>2, <3>1, <3>2 DEF Hears
    <2>3. ASSUME 1 \in DOMAIN s, s[1].type = "list" PROVE \A p \in Panels, k \in Calls : Hears(p, k)'
      <3>1. \A k \in Calls : Tells(out'[t][1], k)
        BY <2>0, <2>3 DEF Tells
      <3>2. 1 \in DOMAIN out'[t] /\ reading'[t] = Quiet
        BY <2>0, <2>3, <1>2 DEF Speaks
      <3> QED
        BY <3>1, <3>2 DEF Hears
    <2> QED
      BY <1>2, <2>1, <2>2, <2>3 DEF Joined, Speaks
  <1> QED
    BY <1>1, <1>2 DEF Speaks

LEMMA TakeListKeeps == ASSUME Told, NEW t \in Threads, TakeList(t) PROVE PanelTypes' /\ Joined'
  <1> DEFINE listed == {k \in Calls : list[k] # Unlisted}
             first == [type |-> "listed", of |-> listed]
             s == <<first>> \o Tail(out[t])
  <1>1. /\ out[t] # <<>> /\ Head(out[t]).type = "list" /\ reading[t] = Quiet
        /\ out' = [out EXCEPT ![t] = s]
        /\ UNCHANGED <<list, subs, reading, pc, known, lossy>>
    BY DEF TakeList, broker, history
  <1>2. out \in [Threads -> Seq(Event)] /\ first \in Event
    BY EventTypes DEF Told, PanelTypes
  <1>3. out[t] \in Seq(Event) /\ out'[t] = s /\ \A u \in Threads : u # t => out'[u] = out[u]
    BY <1>1, <1>2
  <1> HIDE DEF first
  <1>4. /\ s \in Seq(Event) /\ DOMAIN s = DOMAIN out[t] /\ 1 \in DOMAIN s /\ s[1] = first
        /\ \A i \in DOMAIN s : i # 1 => s[i] = out[t][i]
    BY <1>1, <1>2, <1>3
  <1> HIDE DEF s
  <1>5. PanelTypes'
    BY <1>1, <1>2, <1>3, <1>4 DEF Told, PanelTypes
  <1>6. ASSUME NEW p \in Panels, NEW k \in Calls, Hears(p, k), list[k] # Unlisted PROVE Hears(p, k)'
    <2>1. CASE k \in known[p] \/ pc[p] = "snapshot"
      BY <1>1, <2>1 DEF Hears
    <2>2. ASSUME NEW u \in Threads, NEW i \in DOMAIN out[u], Tells(out[u][i], k),
                 i = 1 => reading[u] = Quiet \/ p \in reading[u]
          PROVE  Hears(p, k)'
      <3>1. CASE u = t /\ i = 1
        <4>1. Tells(s[1], k)
          BY <1>4, <1>6 DEF Tells, first
        <4> QED
          BY <1>1, <1>3, <1>4, <4>1 DEF Hears
      <3>2. CASE u = t /\ i # 1
        BY <1>1, <1>3, <1>4, <2>2, <3>2 DEF Hears
      <3>3. CASE u # t
        <4>1. out'[u] = out[u] /\ reading' = reading
          BY <1>1, <1>3, <3>3
        <4> QED
          BY <2>2, <4>1 DEF Hears
      <3> QED
        BY <3>1, <3>2, <3>3
    <2> QED
      BY <1>6, <2>1, <2>2 DEF Hears
  <1> QED
    BY <1>1, <1>5, <1>6 DEF Told, Joined

LEMMA BroadcastTells == ASSUME Told, NEW t \in Threads, Broadcast(t) PROVE PanelTypes' /\ Joined'
  <1>1. /\ out[t] # <<>> /\ Head(out[t]).type # "list" /\ reading[t] = Quiet
        /\ reading' = [reading EXCEPT ![t] = subs]
        /\ UNCHANGED <<list, subs, out, pc, known, lossy>>
    BY DEF Broadcast, broker, history
  <1>2. reading'[t] = subs /\ \A u \in Threads : u # t => reading'[u] = reading[u]
    BY <1>1 DEF Told, Locked
  <1>3. PanelTypes'
    BY <1>1, <1>2 DEF Told, PanelTypes
  <1>4. ASSUME NEW p \in subs, NEW k \in Calls, Hears(p, k) PROVE Hears(p, k)'
    <2>1. CASE k \in known[p] \/ pc[p] = "snapshot"
      BY <1>1, <2>1 DEF Hears
    <2>2. ASSUME NEW u \in Threads, NEW i \in DOMAIN out[u], Tells(out[u][i], k),
                 i = 1 => reading[u] = Quiet \/ p \in reading[u]
          PROVE  Hears(p, k)'
      <3>1. i = 1 => reading'[u] = Quiet \/ p \in reading'[u]
        BY <1>2, <1>4, <2>2
      <3> QED
        BY <1>1, <2>2, <3>1 DEF Hears
    <2> QED
      BY <1>4, <2>1, <2>2 DEF Hears
  <1> QED
    BY <1>1, <1>3, <1>4 DEF Told, Joined

LEMMA SendTells == ASSUME Told, NEW t \in Threads, Send(t) PROVE PanelTypes' /\ Joined'
  <1>1. PICK full \in SUBSET reading[t] :
          /\ lossy' = lossy \cup full
          /\ known' = [p \in Panels |->
                           IF p \in lossy' THEN {}
                           ELSE IF p \in reading[t] THEN known[p] \cup Head(out[t]).of
                           ELSE known[p]]
    BY DEF Send
  <1>2. /\ reading[t] # Quiet /\ reading' = [reading EXCEPT ![t] = Quiet]
        /\ out' = [out EXCEPT ![t] = Tail(@)] /\ UNCHANGED <<list, subs, pc>>
    BY DEF Send, broker
  <1>3. out[t] \in Seq(Event) /\ out[t] # <<>> /\ Head(out[t]).type # "list" /\ reading[t] = subs
    BY <1>2 DEF Told, PanelTypes, Locked
  <1>4. /\ reading'[t] = Quiet /\ out'[t] = Tail(out[t])
        /\ \A u \in Threads : u # t => reading'[u] = reading[u] /\ out'[u] = out[u]
    BY <1>2 DEF Told, PanelTypes, Locked
  <1>5. /\ Tail(out[t]) \in Seq(Event) /\ Head(out[t]) = out[t][1] /\ out[t][1] \in Event
        /\ \A i \in DOMAIN out[t] : i # 1 => i - 1 \in DOMAIN Tail(out[t]) /\ Tail(out[t])[i - 1] = out[t][i]
    BY <1>3
  <1>6. out[t][1].of \subseteq Calls
    BY <1>5, EventTypes
  <1>7. full \subseteq Panels
    BY <1>1, <1>3 DEF Told, Locked
  <1>8. PanelTypes'
    <2>1. out' \in [Threads -> Seq(Event)]
      BY <1>2, <1>5 DEF Told, PanelTypes
    <2>2. known' \in [Panels -> SUBSET Calls] /\ lossy' \subseteq Panels
      BY <1>1, <1>5, <1>6, <1>7 DEF Told, PanelTypes
    <2> QED
      BY <1>4, <2>1, <2>2 DEF Told, PanelTypes
  <1>9. ASSUME NEW p \in Panels, p \notin lossy', NEW k \in Calls, Hears(p, k) PROVE Hears(p, k)'
    <2>0. known[p] \subseteq known'[p] /\ (p \in reading[t] => Head(out[t]).of \subseteq known'[p])
      BY <1>1, <1>9
    <2>1. CASE k \in known[p] \/ pc[p] = "snapshot"
      BY <1>2, <2>0, <2>1 DEF Hears
    <2>2. ASSUME NEW u \in Threads, NEW i \in DOMAIN out[u], Tells(out[u][i], k),
                 i = 1 => reading[u] = Quiet \/ p \in reading[u]
          PROVE  Hears(p, k)'
      <3>1. CASE u = t /\ i = 1
        <4>1. p \in reading[t] /\ k \in Head(out[t]).of
          BY <1>2, <1>3, <1>5, <2>2, <3>1 DEF Tells
        <4> QED
          BY <2>0, <4>1 DEF Hears
      <3>2. CASE u = t /\ i # 1
        <4>1. i - 1 \in DOMAIN out'[t] /\ Tells(out'[t][i - 1], k) /\ reading'[t] = Quiet
          BY <1>4, <1>5, <2>2, <3>2
        <4> QED
          BY <4>1 DEF Hears
      <3>3. CASE u # t
        <4>1. out'[u] = out[u] /\ reading'[u] = reading[u]
          BY <1>4, <3>3
        <4> QED
          BY <2>2, <4>1 DEF Hears
      <3> QED
        BY <3>1, <3>2, <3>3
    <2> QED
      BY <1>9, <2>1, <2>2 DEF Hears
  <1> QED
    BY <1>1, <1>2, <1>8, <1>9 DEF Told, Joined

LEMMA SubscribeTells ==
    ASSUME Told, NEW q \in Panels, Subscribe(q) \/ Unsubscribe(q)
    PROVE  PanelTypes' /\ Joined'
  <1>0. /\ q \in Threads /\ on[q] \in Calls /\ UNCHANGED <<list, reading, known, lossy>>
        /\ pc = [t \in Threads |-> pc[t]]
    BY PanelsApart DEF Told, OnTypes, Locked, Subscribe, Unsubscribe, history
  <1>1. CASE /\ Goto(q, "snapshot") \/ Goto(q, "leaving") \/ Goto(q, "left")
             /\ UNCHANGED out /\ \A p \in Panels : p # q => (p \in subs' <=> p \in subs)
             /\ pc'[q] = "snapshot" => q \in subs'
    <2>1. PanelTypes'
      BY <1>0, <1>1 DEF Told, PanelTypes
    <2>2. \A p \in Panels : (p # q => pc'[p] = pc[p]) /\ (p = q => pc'[p] \in {"snapshot", "leaving", "left"})
      BY <1>0, <1>1, PanelsApart DEF Goto
    <2>3. \A p \in Panels, k \in Calls : p # q /\ Hears(p, k) => Hears(p, k)'
      BY <1>0, <1>1, <2>2 DEF Hears
    <2>4. \A k \in Calls : pc'[q] = "snapshot" => Hears(q, k)'
      BY DEF Hears
    <2> QED
      BY <1>0, <1>1, <2>1, <2>2, <2>3, <2>4 DEF Told, Joined
  <1>2. CASE At(q, "snapshot") /\ Goto(q, "on") /\ Say(q, <<Ev("list", on[q])>>) /\ UNCHANGED subs
    <2> DEFINE s == <<Ev("list", on[q])>>
    <2>1. s \in Seq(Event) /\ 1 \in DOMAIN s /\ s[1].type = "list"
      <3>1. "list" \in Events
        BY DEF Events
      <3>2. s \in Seq(Event)
        BY <1>0, <3>1, Speeches
      <3> QED
        BY <3>2 DEF Ev
    <2>2. out[q] = <<>> /\ reading[q] = Quiet /\ out' = [out EXCEPT ![q] = s] /\ out \in [Threads -> Seq(Event)]
      BY <1>2 DEF Told, PanelTypes, At, Say
    <2> HIDE DEF s
    <2>3. out'[q] = s /\ \A u \in Threads : u # q => out'[u] = out[u]
      BY <1>0, <2>2
    <2>4. PanelTypes'
      BY <1>0, <2>1, <2>2, <2>3 DEF Told, PanelTypes
    <2>5. \A k \in Calls : Tells(out'[q][1], k)
      BY <2>1, <2>3 DEF Tells
    <2>6. \A p \in Panels, k \in Calls : Hears(p, k)'
      BY <1>0, <2>1, <2>2, <2>3, <2>5 DEF Hears
    <2>7. \A p \in Panels : (p # q => pc'[p] = pc[p]) /\ pc[q] = "snapshot"
      BY <1>0, <1>2, PanelsApart DEF Goto, At
    <2> QED
      BY <1>0, <1>2, <2>4, <2>6, <2>7 DEF Told, Joined
  <1> QED
    <2>1. CASE Subscribe(q)
      BY <1>0, <1>1, <1>2, <2>1 DEF Subscribe, SubscribeFirst, Goto, At
    <2>2. CASE Unsubscribe(q)
      BY <1>0, <1>1, <2>2 DEF Unsubscribe, Goto, Leave
    <2> QED
      BY <2>1, <2>2

\* The three ways in which a step of the desk speaks.
LEMMA Mute ==
    ASSUME NEW t \in Threads, UNCHANGED <<known, lossy, reading, subs, out, list>>,
           \A p \in Panels : pc'[p] = pc[p]
    PROVE  Speaks(t)
  BY DEF Speaks

LEMMA SaysList ==
    ASSUME NEW t \in Threads, NEW k \in Calls, NEW more \in Seq(Event),
           UNCHANGED <<known, lossy, reading, subs>>, \A p \in Panels : pc'[p] = pc[p],
           out[t] = <<>>, reading[t] = Quiet,
           Say(t, <<Ev("list", k), Ev("status", k)>> \o more)
    PROVE  Speaks(t)
  <1> DEFINE s == <<Ev("list", k), Ev("status", k)>> \o more
  <1>1. s \in Seq(Event) /\ 1 \in DOMAIN s /\ s[1].type = "list"
    BY Speeches
  <1>2. out' = [out EXCEPT ![t] = s]
    BY DEF Say
  <1> HIDE DEF s
  <1> QED
    BY <1>1, <1>2 DEF Speaks

LEMMA SaysSome ==
    ASSUME NEW t \in Threads, NEW s \in Seq(Event),
           UNCHANGED <<known, lossy, reading, subs>>, \A p \in Panels : pc'[p] = pc[p],
           out[t] = <<>>, reading[t] = Quiet, Say(t, s),
           \A k \in Calls : list'[k] # Unlisted => list[k] # Unlisted
    PROVE  Speaks(t)
  BY DEF Speaks, Say

\* Of the list and its record, in a step of t.
LEMMA Upserting ==
    ASSUME OnTypes, NEW t \in Threads, NEW r, NEW more \in Seq(Event), Upsert(t, on[t], r, more),
           UNCHANGED <<known, lossy, reading, subs>>, \A p \in Panels : pc'[p] = pc[p],
           out[t] = <<>>, reading[t] = Quiet
    PROVE  Speaks(t)
  BY SaysList DEF Upsert, OnTypes

LEMMA Reassigning ==
    ASSUME OnTypes, NEW t \in Threads, NEW owner, NEW more \in Seq(Event),
           Reassign(t, on[t], owner, more),
           UNCHANGED <<known, lossy, reading, subs>>, \A p \in Panels : pc'[p] = pc[p],
           out[t] = <<>>, reading[t] = Quiet
    PROVE  Speaks(t)
  <1>1. CASE list[on[t]] = Unlisted
    BY <1>1, Mute DEF Reassign
  <1>2. CASE list[on[t]] # Unlisted
    BY <1>2, SaysList DEF Reassign, OnTypes
  <1> QED
    BY <1>1, <1>2

LEMMA Unlisting ==
    ASSUME OnTypes, NEW t \in Threads, Unlist(t, on[t]),
           UNCHANGED <<known, lossy, reading, subs>>, \A p \in Panels : pc'[p] = pc[p],
           out[t] = <<>>, reading[t] = Quiet
    PROVE  Speaks(t)
  <1>1. CASE list[on[t]] = Unlisted
    BY <1>1, Mute DEF Unlist
  <1>2. CASE list[on[t]] # Unlisted
    <2>1. /\ list' = [list EXCEPT ![on[t]] = Unlisted]
          /\ Say(t, <<Ev("ended", on[t]), Ev("list", on[t])>>)
      BY <1>2 DEF Unlist
    <2>2. \A k \in Calls : list'[k] # Unlisted => list[k] # Unlisted
      BY <2>1 DEF OnTypes
    <2>3. <<Ev("ended", on[t]), Ev("list", on[t])>> \in Seq(Event)
      BY Speeches DEF OnTypes
    <2> QED
      BY <2>1, <2>2, <2>3, SaysSome
  <1> QED
    BY <1>1, <1>2


\* What a step that takes no number, no request and no offer leaves to OnTypes.
Fixed == UNCHANGED <<offers, requests, on, left>>

LEMMA Writes ==
    ASSUME OnTypes, NEW t \in Threads, Fixed,
           \/ UNCHANGED list \/ Unlist(t, on[t])
           \/ \E r, more : Upsert(t, on[t], r, more)
           \/ \E owner, more : Reassign(t, on[t], owner, more)
    PROVE  OnTypes'
  <1>1. \/ list' = list \/ \E r : list' = [list EXCEPT ![on[t]] = r]
    BY DEF Unlist, Upsert, Reassign
  <1>2. list' = [k \in Calls |-> list'[k]]
    BY <1>1 DEF OnTypes
  <1> QED
    BY <1>2 DEF OnTypes, Fixed

LEMMA NoMore == <<>> \in Seq(Event)
  OBVIOUS

LEMMA EmissionsSpeak ==
    ASSUME Told, left' = left, NEW t \in Threads,
           \/ EmitRead(t) \/ EmitWrite(t) \/ EmitEnd(t) \/ EmitUnlist(t)
           \/ Unlock(t) \/ CreateCall(t)
    PROVE  Speaks(t) /\ OnTypes'
  <1>0. OnTypes /\ \A p \in Panels : pc'[p] = pc[p]
    BY EmissionsElsewhere DEF Elsewhere, Told
  <1>1. CASE EmitRead(t)
    BY <1>0, <1>1, Mute, Writes DEF EmitRead, broker, history, Fixed
  <1>2. CASE EmitWrite(t)
    <2>1. /\ UNCHANGED <<known, lossy, reading, subs>> /\ Fixed
          /\ out[t] = <<>> /\ reading[t] = Quiet
      BY <1>2 DEF EmitWrite, history, At, Fixed
    <2>2. PICK r : Upsert(t, on[t], r, <<>>)
      BY <1>2 DEF EmitWrite
    <2> QED
      BY <1>0, <2>1, <2>2, NoMore, Upserting, Writes
  <1>3. CASE EmitEnd(t)
    BY <1>0, <1>3, Mute, Writes DEF EmitEnd, broker, history, Fixed
  <1>4. CASE EmitUnlist(t)
    <2>1. /\ UNCHANGED <<known, lossy, reading, subs>> /\ Fixed
          /\ out[t] = <<>> /\ reading[t] = Quiet /\ Unlist(t, on[t])
      BY <1>4 DEF EmitUnlist, history, At, Fixed
    <2> QED
      BY <1>0, <2>1, Unlisting, Writes
  <1>5. CASE Unlock(t)
    BY <1>0, <1>5, Mute, Writes DEF Unlock, broker, history, Fixed
  <1>6. CASE CreateCall(t)
    BY <1>0, <1>6, Mute, Writes DEF CreateCall, broker, history, Fixed
  <1> QED
    BY <1>1, <1>2, <1>3, <1>4, <1>5, <1>6

LEMMA LoopSpeaks ==
    ASSUME Told, left' = left,
           \/ \E k \in Calls : OnIncomingOffer(k) \/ RemoteAccept(k) \/ RemoteTerminate(k)
           \/ \E k \in Calls : Connected(k)
           \/ HandleCallOffer \/ OnIncoming \/ OfferEmit
    PROVE  Speaks(Loop) /\ OnTypes'
  <1>0. OnTypes /\ (\A p \in Panels : pc'[p] = pc[p]) /\ Loop \in Threads /\ Relay \in Threads
    BY CallsElsewhere, PanelsApart DEF Elsewhere, Told
  <1>1. ASSUME NEW k \in Calls, \/ OnIncomingOffer(k) \/ RemoteAccept(k) \/ RemoteTerminate(k)
                                \/ Connected(k)
        PROVE  Speaks(Loop) /\ OnTypes'
    <2>1. UNCHANGED <<known, lossy, reading, subs, out, list, requests>> /\ offers' \subseteq offers
      BY <1>1 DEF OnIncomingOffer, RemoteAccept, RemoteTerminate, Connected, broker, history
    <2>2. on' = [on EXCEPT ![Loop] = k] \/ on' = [on EXCEPT ![Relay] = k]
      BY <1>1 DEF OnIncomingOffer, RemoteAccept, RemoteTerminate, Connected
    <2>3. on' \in [Threads -> Calls]
      BY <1>0, <2>2 DEF OnTypes
    <2> QED
      BY <1>0, <2>1, <2>3, Mute DEF OnTypes
  <1>2. CASE HandleCallOffer
    BY <1>0, <1>2, Mute, Writes DEF HandleCallOffer, broker, history, Fixed
  <1>3. CASE OnIncoming
    <2>1. /\ UNCHANGED <<known, lossy, reading, subs>> /\ Fixed
          /\ out[Loop] = <<>> /\ reading[Loop] = Quiet
      BY <1>3 DEF OnIncoming, history, At, Fixed
    <2>2. PICK r : Upsert(Loop, on[Loop], r, <<Ev("incoming", on[Loop])>>)
      BY <1>3 DEF OnIncoming
    <2>3. <<Ev("incoming", on[Loop])>> \in Seq(Event)
      <3>1. "incoming" \in Events /\ on[Loop] \in Calls
        BY <1>0 DEF Events, OnTypes
      <3> QED
        BY <3>1, Speeches
    <2> QED
      BY <1>0, <2>1, <2>2, <2>3, Upserting, Writes
  <1>4. CASE OfferEmit
    BY <1>0, <1>4, Mute, Writes DEF OfferEmit, broker, history, Fixed
  <1> QED
    BY <1>1, <1>2, <1>3, <1>4

LEMMA CallersSpeak ==
    ASSUME Told, left' = left, NEW c \in Callers, BeginCall(c) \/ OfferSent(c) \/ EndCall(c)
    PROVE  Speaks(c) /\ OnTypes'
  <1>0. OnTypes /\ (\A p \in Panels : pc'[p] = pc[p]) /\ c \in Threads
    BY CallersElsewhere, PanelsApart DEF Elsewhere, Told
  <1>1. UNCHANGED <<known, lossy, reading, subs, out, list>> /\ Fixed
    BY DEF BeginCall, OfferSent, EndCall, broker, history, Fixed
  <1> QED
    BY <1>0, <1>1, Mute, Writes

LEMMA RequestsSpeak ==
    ASSUME Told, left' = left, NEW c \in Clients,
           \/ Request(c) \/ ListStarted(c) \/ Claim(c) \/ Answer(c) \/ Reject(c)
           \/ HoldOrResume(c) \/ Release(c) \/ OfferTransfer(c) \/ Pickup(c)
    PROVE  Speaks(c) /\ OnTypes'
  <1>0. OnTypes /\ (\A p \in Panels : pc'[p] = pc[p]) /\ c \in Threads /\ on[c] \in Calls
    BY RequestsElsewhere, PanelsApart DEF Elsewhere, Told, OnTypes
  <1>s. \A type \in {"claimed", "offer"} : <<Ev(type, on[c])>> \in Seq(Event)
    <2>1. {"claimed", "offer"} \subseteq Events
      BY DEF Events
    <2> QED
      BY <1>0, <2>1, Speeches
  <1>1. CASE Request(c)
    <2>1. /\ UNCHANGED <<known, lossy, reading, subs, out, list, offers>>
          /\ requests[c] # <<>> /\ requests' = [requests EXCEPT ![c] = Tail(@)]
          /\ on' = [on EXCEPT ![c] = Head(requests[c]).call]
      BY <1>1 DEF Request, broker, history
    <2>2. requests[c] \in Seq(Asked)
      BY <1>0 DEF OnTypes
    <2>3. Tail(requests[c]) \in Seq(Asked) /\ Head(requests[c]) \in Asked
      BY <2>1, <2>2
    <2>4. Head(requests[c]).call \in Calls
      BY <2>3 DEF Asked
    <2>5. requests' \in [Clients -> Seq(Asked)] /\ on' \in [Threads -> Calls]
      BY <1>0, <2>1, <2>3, <2>4 DEF OnTypes
    <2> QED
      BY <1>0, <2>1, <2>5, Mute DEF OnTypes
  <1>2. CASE ListStarted(c)
    <2>1. /\ UNCHANGED <<known, lossy, reading, subs>> /\ Fixed
          /\ out[c] = <<>> /\ reading[c] = Quiet
      BY <1>2 DEF ListStarted, history, At, Fixed
    <2>2. PICK r : Upsert(c, on[c], r, <<>>)
      BY <1>2 DEF ListStarted
    <2> QED
      BY <1>0, <2>1, <2>2, NoMore, Upserting, Writes
  <1>3. CASE Claim(c)
    <2>1. /\ UNCHANGED <<known, lossy, reading, subs>> /\ Fixed
          /\ out[c] = <<>> /\ reading[c] = Quiet
      BY <1>3 DEF Claim, At, Fixed
    <2>2. CASE UNCHANGED <<list, out>>
      BY <1>0, <2>1, <2>2, Mute, Writes
    <2>3. CASE /\ list[on[c]] # Unlisted /\ list' = [list EXCEPT ![on[c]] = OwnedBy(@, c)]
               /\ Say(c, <<Ev("claimed", on[c])>>)
      <3>1. list' = [k \in Calls |-> list'[k]] /\ \A k \in Calls : list'[k] # Unlisted => list[k] # Unlisted
        BY <1>0, <2>3 DEF OnTypes
      <3>2. <<Ev("claimed", on[c])>> \in Seq(Event)
        BY <1>s
      <3> QED
        BY <1>0, <2>1, <2>3, <3>1, <3>2, SaysSome DEF OnTypes, Fixed
    <2> QED
      BY <1>3, <2>2, <2>3 DEF Claim
  <1>4. CASE Answer(c) \/ Reject(c) \/ HoldOrResume(c)
    <2>1. UNCHANGED <<known, lossy, reading, subs, out, list>> /\ Fixed
      BY <1>4 DEF Answer, Reject, HoldOrResume, broker, history, Fixed
    <2> QED
      BY <1>0, <2>1, Mute, Writes
  <1>5. CASE Release(c)
    <2>1. /\ UNCHANGED <<known, lossy, reading, subs>> /\ Fixed
          /\ out[c] = <<>> /\ reading[c] = Quiet /\ Reassign(c, on[c], Nobody, <<>>)
      BY <1>5 DEF Release, history, At, Fixed
    <2> QED
      BY <1>0, <2>1, NoMore, Reassigning, Writes
  <1>6. CASE OfferTransfer(c)
    <2>1. /\ UNCHANGED <<known, lossy, reading, subs, list>> /\ Fixed
          /\ out[c] = <<>> /\ reading[c] = Quiet /\ Say(c, <<Ev("offer", on[c])>>)
      BY <1>6 DEF OfferTransfer, history, broker, At, Fixed
    <2>2. <<Ev("offer", on[c])>> \in Seq(Event)
      BY <1>s
    <2> QED
      BY <1>0, <2>1, <2>2, SaysSome, Writes
  <1>7. CASE Pickup(c)
    <2>1. /\ UNCHANGED <<known, lossy, reading, subs>> /\ Fixed
          /\ out[c] = <<>> /\ reading[c] = Quiet
          /\ Reassign(c, on[c], c, <<Ev("claimed", on[c])>>)
      BY <1>7 DEF Pickup, history, At, Fixed
    <2>2. <<Ev("claimed", on[c])>> \in Seq(Event)
      BY <1>s
    <2> QED
      BY <1>0, <2>1, <2>2, Reassigning, Writes
  <1> QED
    BY <1>1, <1>2, <1>3, <1>4, <1>5, <1>6, <1>7

LEMMA BulkSpeaks ==
    ASSUME Told,
           \/ \E c \in Clients : HandleBroadcast(c)
           \/ \E t \in Tasks : \/ CallNext(t) \/ Dialled(t) \/ Answered(t) \/ NoAnswer(t)
                               \/ PumpAudio(t) \/ Close(t)
    PROVE  Speaks(Loop) /\ OnTypes'
  <1>0. OnTypes /\ (\A p \in Panels : pc'[p] = pc[p]) /\ Loop \in Threads
    BY BulkElsewhere, PanelsApart DEF Elsewhere, Told
  <1>1. ASSUME NEW c \in Clients, HandleBroadcast(c) PROVE Speaks(Loop) /\ OnTypes'
    <2>1. /\ UNCHANGED <<known, lossy, reading, subs, out, list, offers, on>>
          /\ requests[c] # <<>> /\ requests' = [requests EXCEPT ![c] = Tail(@)] /\ left' = Numbers
      BY <1>1 DEF HandleBroadcast, broker, history, threads
    <2>2. requests[c] \in Seq(Asked)
      BY <1>0 DEF OnTypes
    <2>3. Tail(requests[c]) \in Seq(Asked)
      BY <2>1, <2>2
    <2> QED
      BY <1>0, <2>1, <2>3, Mute, BroadcastAssumption DEF OnTypes
  <1>2. ASSUME NEW t \in Tasks, CallNext(t) PROVE Speaks(Loop) /\ OnTypes'
    <2>1. /\ UNCHANGED <<known, lossy, reading, subs, out, list, offers, requests>>
          /\ left # <<>> /\ left' = Tail(left) /\ on' = [on EXCEPT ![t] = Head(left)]
      BY <1>2 DEF CallNext, broker, history
    <2>2. Tail(left) \in Seq(Calls) /\ Head(left) \in Calls
      BY <1>0, <2>1 DEF OnTypes
    <2> QED
      BY <1>0, <2>1, <2>2, Mute DEF OnTypes
  <1>3. ASSUME NEW t \in Tasks, Dialled(t) \/ Answered(t) \/ NoAnswer(t) \/ PumpAudio(t) \/ Close(t)
        PROVE Speaks(Loop) /\ OnTypes'
    <2>1. UNCHANGED <<known, lossy, reading, subs, out, list>> /\ Fixed
      BY <1>3 DEF Dialled, Answered, NoAnswer, PumpAudio, Close, DeskUntouched, broker, history,
                  campaign, Fixed
    <2> QED
      BY <1>0, <2>1, Mute, Writes
  <1> QED
    BY <1>1, <1>2, <1>3

-----------------------------------------------------------------------------

LEMMA ToldInit == BroadcastInit => Told
  <1> SUFFICES ASSUME BroadcastInit PROVE Told
    OBVIOUS
  <1>1. PICK s \in Scenarios : offers = s.offers /\ requests = s.requests
    BY DEF BroadcastInit, Init
  <1>2. s.offers \subseteq Calls /\ s.requests \in [Clients -> Seq(Asked)]
    BY DeskAssumption DEF Asked
  <1>3. OnTypes
    <2>1. (CHOOSE k \in Calls : TRUE) \in Calls
      BY DeskAssumption
    <2>2. on \in [Threads -> Calls] /\ left \in Seq(Calls) /\ list = [k \in Calls |-> list[k]]
      BY <2>1 DEF BroadcastInit, Init
    <2> QED
      BY <1>1, <1>2, <2>2 DEF OnTypes
  <1>4. PanelTypes
    BY DEF BroadcastInit, Init, PanelTypes, Quiet
  <1>5. Joined
    BY PanelsApart DEF BroadcastInit, Init, Joined
  <1> QED
    BY <1>3, <1>4, <1>5, LockedInit DEF Told

LEMMA ToldStep == Told /\ [BroadcastNext]_deskVars => Told'
  <1> SUFFICES ASSUME Told, [BroadcastNext]_deskVars PROVE OnTypes' /\ PanelTypes' /\ Joined'
    BY LockedStep DEF Told
  <1>0. Loop \in Threads /\ Clients \subseteq Threads /\ Callers \subseteq Threads /\ PanelTypes /\ Joined
    BY PanelsApart DEF Told
  <1>1. CASE UNCHANGED deskVars
    <2>1. Speaks(Loop) /\ UNCHANGED <<offers, requests, on, left, list>>
      BY <1>1, <1>0, Mute DEF deskVars, vars, broker, threads, history, campaign
    <2> QED
      BY <1>0, <2>1, SpeakingKeeps DEF Told, OnTypes
  <1>2. CASE Next /\ UNCHANGED campaign
    <2>0. left' = left
      BY <1>2 DEF campaign
    <2>1. ASSUME NEW t \in Threads, TakeList(t) \/ Broadcast(t) \/ Send(t)
          PROVE OnTypes' /\ PanelTypes' /\ Joined'
      <3>1. UNCHANGED <<offers, requests, on, left, list>>
        BY <2>0, <2>1 DEF TakeList, Broadcast, Send, broker
      <3> QED
        BY <2>1, <3>1, TakeListKeeps, BroadcastTells, SendTells DEF Told, OnTypes
    <2>2. ASSUME NEW p \in Panels, Subscribe(p) \/ Unsubscribe(p)
          PROVE OnTypes' /\ PanelTypes' /\ Joined'
      <3>1. UNCHANGED <<offers, requests, on, left, list>>
        BY <2>0, <2>2 DEF Subscribe, Unsubscribe
      <3> QED
        BY <2>2, <3>1, SubscribeTells DEF Told, OnTypes
    <2>3. ASSUME NEW t \in Threads,
                 \/ EmitRead(t) \/ EmitWrite(t) \/ EmitEnd(t) \/ EmitUnlist(t)
                 \/ Unlock(t) \/ CreateCall(t)
          PROVE  OnTypes' /\ PanelTypes' /\ Joined'
      BY <1>0, <2>0, <2>3, EmissionsSpeak, SpeakingKeeps
    <2>4. CASE \/ \E k \in Calls : OnIncomingOffer(k) \/ RemoteAccept(k) \/ RemoteTerminate(k) \/ Connected(k)
               \/ HandleCallOffer \/ OnIncoming \/ OfferEmit
      BY <1>0, <2>0, <2>4, LoopSpeaks, SpeakingKeeps
    <2>5. ASSUME NEW c \in Callers, BeginCall(c) \/ OfferSent(c) \/ EndCall(c)
          PROVE OnTypes' /\ PanelTypes' /\ Joined'
      BY <1>0, <2>0, <2>5, CallersSpeak, SpeakingKeeps
    <2>6. ASSUME NEW c \in Clients,
                 \/ Request(c) \/ ListStarted(c) \/ Claim(c) \/ Answer(c) \/ Reject(c)
                 \/ HoldOrResume(c) \/ Release(c) \/ OfferTransfer(c) \/ Pickup(c)
          PROVE  OnTypes' /\ PanelTypes' /\ Joined'
      BY <1>0, <2>0, <2>6, RequestsSpeak, SpeakingKeeps
    <2> QED
      BY <1>2, <2>1, <2>2, <2>3, <2>4, <2>5, <2>6 DEF Next
  <1>3. CASE \/ \E c \in Clients : HandleBroadcast(c)
             \/ \E t \in Tasks : \/ CallNext(t) \/ Dialled(t) \/ Answered(t) \/ NoAnswer(t)
                                 \/ PumpAudio(t) \/ Close(t)
    BY <1>0, <1>3, BulkSpeaks, SpeakingKeeps
  <1> QED
    BY <1>1, <1>2, <1>3 DEF BroadcastNext

LEMMA ToldImplies == Told => KnowsEveryCall
  <1> SUFFICES ASSUME Told, NEW p \in Panels \ lossy, NEW k \in Calls, At(p, "on"),
                      list[k] # Unlisted, \A t \in Threads : out[t] = <<>>
               PROVE  k \in known[p]
    BY DEF KnowsEveryCall
  <1>1. Hears(p, k) /\ pc[p] = "on"
    BY DEF Told, Joined, At
  <1>2. \A t \in Threads : DOMAIN out[t] = {}
    OBVIOUS
  <1> QED
    BY <1>1, <1>2 DEF Hears

\* A panel knows every call that is listed once the broker has nothing left to send, if no
\* event was lost to it, whatever went on while it joined (serveSSE, broadcastCallList).
THEOREM PanelsKnow == BroadcastSpec => []KnowsEveryCall
  BY ToldInit, ToldStep, ToldImplies, PTL DEF BroadcastSpec, deskVars

-----------------------------------------------------------------------------
(* Who works on which call *)

\* Steps within the lock of a call's manager, of a call that begins, of nobody's call.
Emitting == {"emit_read", "emit_write", "emit_end", "emit_unlist", "unlock"}
Making == {"create", "begin", "offer"}
Resting(t) == pc[t] \in PanelSteps \cup {"idle"}
Acting(t) == pc[t] \notin PanelSteps \cup Making \cup {"idle", "failed"}
Early == {"none", "initiating"}

StateTypes ==
    /\ state \in [Calls -> CallStates \cup {"none"}]
    /\ held \in [Calls -> Threads \cup {Free}] /\ reg \subseteq Calls /\ rows \in [Calls -> Nat]
    /\ seen \in [Threads -> Clients \cup {Nobody}] /\ then = [t \in Threads |-> then[t]]
    /\ claims \in [Calls -> SUBSET Clients] /\ answered \in [Calls -> SUBSET Clients]

Record == [owner : Clients \cup {Nobody}, onHold : BOOLEAN, status : {"starting", "ringing", "connected"}]
ListTypes == \A k \in Calls : list[k] = Unlisted \/ list[k] \in Record

\* Where each thread may be, and what it does once it has emitted.
Place(t) ==
    /\ pc[t] \notin Emitting => then[t] = "idle"
    /\ t \in Clients =>
         /\ pc[t] \in Emitting \cup Making \cup
               {"idle", "listing", "accept", "answer", "reject", "remove", "unlist", "end",
                "on_ended", "on_ended_unlist", "hold", "resume", "transfer", "release",
                "offering", "pickup"}
         /\ then[t] \in {"idle", "listing", "on_ended", "remove", "release"}
    /\ t \in Tasks =>
         /\ pc[t] \in Emitting \cup Making \cup
               {"idle", "failed", "dialled", "ringing", "playing", "end", "on_ended",
                "on_ended_unlist", "closing"}
         /\ pc[t] \in Emitting => then[t] \in {"dialled", "on_ended"}
    /\ t = Loop =>
         /\ pc[t] \in Emitting \cup {"idle", "create", "begin", "tell", "told", "on_ended",
                                     "on_ended_unlist"}
         /\ then[t] \in {"idle", "on_ended"}
    /\ t = Relay => pc[t] \in Emitting \cup {"idle"} /\ then[t] = "idle"
    /\ t \in Panels => pc[t] \in PanelSteps

\* A thread that emits has the lock, and only then; what a thread is about has happened.
Stage(t) ==
    /\ \A k \in Calls : held[k] = t <=> pc[t] \in Emitting /\ on[t] = k
    /\ Acting(t) => state[on[t]] \notin Early
    /\ pc[t] \in {"create", "begin"} => state[on[t]] = "none"
    /\ pc[t] = "offer" => state[on[t]] = "initiating"
    /\ pc[t] \in {"begin", "offer"} => on[t] \in reg
    /\ pc[t] \in {"emit_read", "emit_write"} => state[on[t]] # "ended"
    /\ pc[t] \in {"emit_end", "emit_unlist", "on_ended", "on_ended_unlist"} => state[on[t]] = "ended"
    /\ pc[t] \in Emitting /\ then[t] = "on_ended" => state[on[t]] = "ended"
    /\ pc[t] \in {"emit_unlist", "unlist", "on_ended_unlist"} => on[t] \notin reg

\* Nobody else has to do with a call that is being made.
Alone(t) == pc[t] \in Making => \A u \in Threads : u # t /\ on[u] = on[t] => Resting(u)

Standing(t) == Place(t) /\ Stage(t) /\ Alone(t)

\* Nothing has happened of a call that is still to be offered, started or dialled.
Fresh(k) == state[k] = "none" /\ \A t \in Threads : on[t] = k => Resting(t)

Sources ==
    /\ \A k \in offers : Fresh(k)
    /\ \A c \in Clients : \A i \in DOMAIN requests[c] :
          requests[c][i].op = "start" =>
             /\ Fresh(requests[c][i].call) /\ requests[c][i].call \notin offers
             /\ \A d \in Clients : \A j \in DOMAIN requests[d] :
                    requests[d][j] = requests[c][i] => d = c /\ j = i

\* The list has had a call that is on, or somebody is about to list it; one that has
\* ended is in the history, or somebody is about to put it there.
Recorded(k) ==
    /\ \/ state[k] \in Early \/ rows[k] > 0 \/ list[k] # Unlisted
       \/ \E t \in Threads : on[t] = k /\ pc[t] \in {"emit_read", "emit_write", "tell"}
    /\ state[k] = "ended" =>
          \/ rows[k] > 0
          \/ \E t \in Threads : on[t] = k /\ pc[t] \in {"emit_end", "emit_unlist", "tell", "told"}
    /\ list[k] # Unlisted => state[k] \notin Early
    /\ k \in reg => \/ state[k] \notin Early \cup {"ended"}
                    \/ \E t \in Threads : on[t] = k /\ pc[t] \in {"begin", "offer", "emit_end"}

\* The calls of the broadcast, once it has begun.
Bulk(k) == k \in ToSet(Numbers) /\ result[k] # "none"
Outcomes == {"completed", "no-answer", "failed"}
Starting(t) == pc[t] \in Making \cup {"listing", "tell", "told"} \/ then[t] = "listing"
Over == {"idle", "closing", "failed"}

\* It is nobody else's: while it is on, a task is at work on it; while it is listed after
\* its end, somebody is about to clear the list; and it waits, or is worked on, or is done.
BulkCall(k) ==
    Bulk(k) =>
       /\ k \notin offers
       /\ \A c \in Clients : \A i \in DOMAIN requests[c] :
             requests[c][i].op = "start" => requests[c][i].call # k
       /\ \A t \in Threads : on[t] = k /\ Starting(t) => t \in Tasks
       /\ Dialling(k) => \E t \in Tasks : on[t] = k /\ pc[t] \notin Over
       /\ state[k] = "ended" /\ list[k] # Unlisted =>
             \E t \in Threads : on[t] = k /\ pc[t] \in {"emit_end", "emit_unlist"}
       /\ \/ result[k] \in Outcomes \/ \E i \in DOMAIN left : left[i] = k
          \/ \E t \in Tasks : on[t] = k /\ pc[t] # "idle"

Campaigning ==
    /\ result \in [Calls -> Results] /\ finished \in BOOLEAN
    /\ \A i \in DOMAIN left :
          /\ Bulk(left[i]) /\ Fresh(left[i])
          /\ \A j \in DOMAIN left : left[j] = left[i] => j = i
    /\ finished => left = <<>> /\ Working = {}
    /\ (\E k \in ToSet(Numbers) : result[k] = "none") => left = <<>> /\ Working = {} /\ ~finished
    /\ Cardinality(Working) <= Slots

\* Until it is asked for, nothing has happened of it.
Waiting ==
    \A c \in Clients : \A i \in DOMAIN requests[c] :
       requests[c][i].op = "broadcast" =>
          /\ left = <<>> /\ Working = {} /\ ~finished
          /\ \A k \in ToSet(Numbers) : result[k] = "none" /\ Fresh(k) /\ k \notin offers
          /\ \A d \in Clients : \A j \in DOMAIN requests[d] :
                /\ requests[d][j].op = "start" => requests[d][j].call \notin ToSet(Numbers)
                /\ requests[d][j].op = "broadcast" => d = c /\ j = i

Plan == Sources /\ Campaigning /\ Waiting

DeskInv ==
    /\ StateTypes /\ ListTypes /\ Plan
    /\ \A t \in Threads : Standing(t)
    /\ \A k \in Calls : Recorded(k) /\ BulkCall(k)

-----------------------------------------------------------------------------
(* What a step of a thread leaves to the others *)

LEMMA WhoIsWho ==
    /\ \A c \in Clients : c \notin Tasks /\ c \notin Panels /\ c # Loop /\ c # Relay
    /\ \A n \in Tasks : n \notin Clients /\ n \notin Panels /\ n # Loop /\ n # Relay
    /\ Loop \notin Panels /\ Relay \notin Panels /\ Loop # Relay /\ Free \notin Threads
    /\ \A t \in Threads : t \in Clients \/ t \in Tasks \/ t \in Panels \/ t = Loop \/ t = Relay
    /\ Clients \subseteq Threads /\ Tasks \subseteq Threads /\ Panels \subseteq Threads
    /\ Loop \in Threads /\ Relay \in Threads
  BY DeskAssumption DEF Callers, Threads, Loop, Relay

LEMMA NotListed == Unlisted \notin Record /\ Unlisted.status = "none"
  BY DEF Unlisted, Record

\* A step of t about call k, at which it was before unless it was idle.
Moves(t, k) ==
    /\ on'[t] = k /\ (on[t] = k \/ pc[t] = "idle")
    /\ \A u \in Threads : u # t => pc'[u] = pc[u] /\ on'[u] = on[u] /\ then'[u] = then[u]

\* It does nothing to other calls, and to k only what those at it can bear.
Harmless(t, k) ==
    /\ \A j \in Calls : j # k => /\ state'[j] = state[j] /\ held'[j] = held[j] /\ (j \in reg' <=> j \in reg)
                                 /\ list'[j] = list[j] /\ rows'[j] = rows[j]
    /\ held'[k] = held[k] \/ {held[k], held'[k]} \subseteq {t, Free}
    /\ \A u \in Threads : u # t /\ on[u] = k => pc[u] \notin Making
    /\ \/ state'[k] = state[k]
       \/ /\ state[k] # "ended" /\ (state[k] \notin Early => state'[k] \notin Early)
          /\ \A u \in Threads : u # t /\ on[u] = k => pc[u] \notin Emitting
    /\ k \in reg' => k \in reg \/ \A u \in Threads : u # t /\ on[u] = k => Resting(u)

LEMMA OthersStand ==
    ASSUME OnTypes, \A u \in Threads : Standing(u), NEW t \in Threads, NEW k \in Calls,
           Moves(t, k), Harmless(t, k)
    PROVE  \A u \in Threads : u # t => Standing(u)'
  <1> SUFFICES ASSUME NEW u \in Threads, u # t PROVE Standing(u)'
    OBVIOUS
  <1>1. /\ pc'[u] = pc[u] /\ on'[u] = on[u] /\ then'[u] = then[u] /\ on[u] \in Calls
        /\ Place(u) /\ Stage(u) /\ Alone(u)
    BY DEF Moves, OnTypes, Standing
  <1>2. Place(u)'
    BY <1>1 DEF Place
  <1>3. \A j \in Calls : held'[j] = u <=> held[j] = u
    BY WhoIsWho DEF Harmless
  <1>4. CASE on[u] # k
    <2>1. /\ state'[on[u]] = state[on[u]] /\ (on[u] \in reg' <=> on[u] \in reg)
      BY <1>1, <1>4 DEF Harmless
    <2>2. Stage(u)'
      BY <1>1, <1>3, <2>1 DEF Stage, Acting
    <2>3. Alone(u)'
      BY <1>1, <1>4 DEF Alone, Moves, Resting
    <2> QED
      BY <1>2, <2>2, <2>3 DEF Standing
  <1>5. CASE on[u] = k
    <2>1. pc[u] \notin Making
      BY <1>5 DEF Harmless
    <2>2. /\ state'[k] = state[k] \/ /\ state[k] # "ended" /\ (state[k] \notin Early => state'[k] \notin Early)
                                     /\ pc[u] \notin Emitting
          /\ k \in reg' => k \in reg \/ Resting(u)
      BY <1>5 DEF Harmless
    <2>3. Stage(u)'
      BY <1>1, <1>3, <1>5, <2>1, <2>2 DEF Stage, Acting, Making, Emitting, Resting, PanelSteps
    <2>4. Alone(u)'
      BY <1>1, <2>1 DEF Alone
    <2> QED
      BY <1>2, <2>3, <2>4 DEF Standing
  <1> QED
    BY <1>4, <1>5

LEMMA RequestTypes ==
    ASSUME OnTypes, NEW c \in Clients, NEW i \in DOMAIN requests[c]
    PROVE  requests[c][i] \in Asked /\ requests[c][i].call \in Calls
  <1>1. requests[c] \in Seq(Asked)
    BY DEF OnTypes
  <1>2. requests[c][i] \in Asked
    BY <1>1
  <1> QED
    BY <1>2 DEF Asked

\* A thread that was idle, or at k, was no witness for another call, and is none.
LEMMA OthersRecorded ==
    ASSUME NEW t \in Threads, NEW k \in Calls, Moves(t, k), Harmless(t, k),
           NEW j \in Calls, j # k, Recorded(j)
    PROVE  Recorded(j)'
  <1>1. /\ state'[j] = state[j] /\ (j \in reg' <=> j \in reg) /\ list'[j] = list[j] /\ rows'[j] = rows[j]
    BY DEF Harmless
  <1>2. \A u \in Threads : on[u] = j /\ pc[u] # "idle" => on'[u] = j /\ pc'[u] = pc[u]
    BY DEF Moves
  <1> QED
    BY <1>1, <1>2 DEF Recorded

FewerRequests ==
    \A c \in Clients : \A i \in DOMAIN requests'[c] :
       \E n \in DOMAIN requests[c] : requests'[c][i] = requests[c][n]

LEMMA SameRequests == requests' = requests => FewerRequests
  BY DEF FewerRequests

LEMMA OthersBulk ==
    ASSUME \A u \in Threads : Standing(u),
           NEW t \in Threads, NEW k \in Calls, Moves(t, k), Harmless(t, k),
           NEW j \in Calls, j # k, BulkCall(j), offers' \subseteq offers, result'[j] = result[j],
           FewerRequests,
           (\E i \in DOMAIN left : left[i] = j) => \E i \in DOMAIN left' : left'[i] = j
    PROVE  BulkCall(j)'
  <1> SUFFICES ASSUME Bulk(j)' PROVE BulkCall(j)'
    BY DEF BulkCall
  <1>1. /\ state'[j] = state[j] /\ (j \in reg' <=> j \in reg) /\ list'[j] = list[j]
    BY DEF Harmless
  <1>2. \A u \in Threads : on[u] = j /\ pc[u] # "idle" => on'[u] = j /\ pc'[u] = pc[u]
    BY DEF Moves
  <1>3. \A u \in Threads : on'[u] = j => on[u] = j /\ pc'[u] = pc[u] /\ then'[u] = then[u]
    BY DEF Moves
  <1>4. Bulk(j)
    BY DEF Bulk
  <1>5. Dialling(j)' <=> Dialling(j)
    BY <1>1 DEF Dialling
  <1>6. /\ j \notin offers'
        /\ \A c \in Clients : \A i \in DOMAIN requests'[c] :
              requests'[c][i].op = "start" => requests'[c][i].call # j
    BY <1>4 DEF BulkCall, FewerRequests
  <1>7. \A u \in Threads : on'[u] = j /\ Starting(u)' => u \in Tasks
    BY <1>3, <1>4 DEF BulkCall, Starting
  <1>8. Dialling(j)' => \E u \in Tasks : on'[u] = j /\ pc'[u] \notin Over
    BY <1>2, <1>4, <1>5, WhoIsWho DEF BulkCall, Over
  <1>9. state'[j] = "ended" /\ list'[j] # Unlisted =>
            \E u \in Threads : on'[u] = j /\ pc'[u] \in {"emit_end", "emit_unlist"}
    BY <1>1, <1>2, <1>4 DEF BulkCall
  <1>10. \/ result'[j] \in Outcomes \/ \E i \in DOMAIN left' : left'[i] = j
         \/ \E u \in Tasks : on'[u] = j /\ pc'[u] # "idle"
    BY <1>2, <1>4, WhoIsWho DEF BulkCall
  <1> QED
    BY <1>6, <1>7, <1>8, <1>9, <1>10 DEF BulkCall

\* A call that is fresh stays so, unless the step is about it.
LEMMA OthersFresh ==
    ASSUME NEW t \in Threads, NEW k \in Calls, Moves(t, k), Harmless(t, k),
           NEW j \in Calls, j # k, Fresh(j)
    PROVE  Fresh(j)'
  BY DEF Moves, Harmless, Fresh, Resting

\* A task at work may note how its call goes.
Noted(t, k) ==
    /\ result' \in [Calls -> Results] /\ \A j \in Calls : j # k => result'[j] = result[j]
    /\ k \in ToSet(Numbers) => (result'[k] = "none" <=> result[k] = "none")
    /\ result'[k] = result[k] \/ (t \in Tasks /\ pc'[t] # "idle")

LEMMA NothingNoted == ASSUME Plan, NEW t, NEW k, UNCHANGED result PROVE Noted(t, k)
  BY DEF Plan, Campaigning, Noted

\* While nothing of the requests is taken, the plan is kept by a step about a call that is
\* not fresh.
LEMMA PlanKeeps ==
    ASSUME OnTypes, Plan, NEW t \in Threads, NEW k \in Calls, Moves(t, k), Harmless(t, k), ~ Fresh(k),
           UNCHANGED <<offers, requests, left, finished>>, Noted(t, k),
           t \in Tasks => (pc'[t] = "idle" <=> pc[t] = "idle")
    PROVE  Plan'
  <1>1. \A j \in Calls : Fresh(j) => Fresh(j)'
    BY OthersFresh
  <1>2. \A u \in Tasks : pc'[u] = "idle" <=> pc[u] = "idle"
    BY WhoIsWho DEF Moves
  <1>3. Working' = Working
    BY <1>2 DEF Working
  <1>4. \A c \in Clients : \A i \in DOMAIN requests[c] : requests[c][i].call \in Calls
    BY RequestTypes
  <1>5. ToSet(Numbers) \subseteq Calls /\ \A i \in DOMAIN left : left[i] \in Calls
    BY BroadcastAssumption DEF ToSet, OnTypes
  <1>r. result' \in [Calls -> Results] /\ \A j \in ToSet(Numbers) : result'[j] = "none" <=> result[j] = "none"
    BY <1>5 DEF Noted
  <1>6. Sources'
    BY <1>1, <1>4 DEF Plan, Sources, OnTypes
  <1>7. Campaigning'
    BY <1>1, <1>3, <1>5, <1>r DEF Plan, Campaigning, Bulk
  <1>8. Waiting'
    BY <1>1, <1>3, <1>5, <1>r DEF Plan, Waiting
  <1> QED
    BY <1>6, <1>7, <1>8 DEF Plan

LEMMA StepKeeps ==
    ASSUME OnTypes, DeskInv, NEW t \in Threads, NEW k \in Calls, Moves(t, k), Harmless(t, k),
           StateTypes', ListTypes', Plan', Standing(t)', Recorded(k)', BulkCall(k)',
           offers' \subseteq offers, \A j \in Calls : j # k => result'[j] = result[j],
           FewerRequests,
           \A j \in Calls : j # k /\ (\E i \in DOMAIN left : left[i] = j) =>
              \E i \in DOMAIN left' : left'[i] = j
    PROVE  DeskInv'
  <1>1. \A u \in Threads : Standing(u)'
    BY OthersStand DEF DeskInv
  <1>2. \A j \in Calls : Recorded(j)'
    BY OthersRecorded DEF DeskInv
  <1>3. \A j \in Calls : BulkCall(j)'
    BY OthersBulk DEF DeskInv
  <1> QED
    BY <1>1, <1>2, <1>3 DEF DeskInv

\* Most steps take nothing of the plan.
LEMMA PlainStepKeeps ==
    ASSUME OnTypes, DeskInv, NEW t \in Threads, NEW k \in Calls, Moves(t, k), Harmless(t, k), ~ Fresh(k),
           UNCHANGED <<offers, requests, left, finished>>, Noted(t, k),
           t \in Tasks => (pc'[t] = "idle" <=> pc[t] = "idle"),
           StateTypes', ListTypes', Standing(t)', Recorded(k)', BulkCall(k)'
    PROVE  DeskInv'
  <1>1. Plan'
    BY PlanKeeps DEF DeskInv
  <1>2. \A j \in Calls : j # k => result'[j] = result[j]
    BY DEF Noted
  <1> QED
    BY <1>1, <1>2, SameRequests, StepKeeps

\* What is left to show of a call of the broadcast.
LEMMA BulkKeeps ==
    ASSUME NEW t \in Threads, NEW k \in Calls, Moves(t, k), BulkCall(k),
           Noted(t, k), left' = left, offers' \subseteq offers, FewerRequests,
           Bulk(k) =>
              /\ Starting(t)' => Starting(t) /\ on[t] = k
              /\ Dialling(k)' => Dialling(k) \/ (Starting(t) /\ on[t] = k /\ pc'[t] \notin Over)
              /\ on[t] = k /\ pc[t] \notin Over /\ pc'[t] \in Over => t \notin Tasks \/ ~ Dialling(k)'
              /\ state'[k] = "ended" /\ list'[k] # Unlisted =>
                    \/ pc'[t] \in {"emit_end", "emit_unlist"}
                    \/ state[k] = "ended" /\ list[k] # Unlisted /\ pc[t] \notin {"emit_end", "emit_unlist"}
              /\ on[t] = k /\ pc[t] # "idle" => t \notin Tasks \/ pc'[t] # "idle"
    PROVE  BulkCall(k)'
  <1> SUFFICES ASSUME Bulk(k)' PROVE BulkCall(k)'
    BY DEF BulkCall
  <1>1. Bulk(k)
    BY DEF Bulk, Noted
  <1>2. /\ on'[t] = k
        /\ \A u \in Threads : u # t => pc'[u] = pc[u] /\ on'[u] = on[u] /\ then'[u] = then[u]
    BY DEF Moves
  <1>7. /\ k \notin offers'
        /\ \A c \in Clients : \A i \in DOMAIN requests'[c] :
              requests'[c][i].op = "start" => requests'[c][i].call # k
    BY <1>1 DEF BulkCall, FewerRequests
  <1>3. \A u \in Threads : on'[u] = k /\ Starting(u)' => u \in Tasks
    BY <1>1, <1>2 DEF BulkCall, Starting
  <1>4. Dialling(k)' => \E u \in Tasks : on'[u] = k /\ pc'[u] \notin Over
    BY <1>1, <1>2, WhoIsWho DEF BulkCall
  <1>5. state'[k] = "ended" /\ list'[k] # Unlisted =>
            \E u \in Threads : on'[u] = k /\ pc'[u] \in {"emit_end", "emit_unlist"}
    BY <1>1, <1>2 DEF BulkCall
  <1>6. \/ result'[k] \in Outcomes \/ \E i \in DOMAIN left' : left'[i] = k
        \/ \E u \in Tasks : on'[u] = k /\ pc'[u] # "idle"
    BY <1>1, <1>2, WhoIsWho DEF BulkCall, Noted
  <1> QED
    BY <1>3, <1>4, <1>5, <1>6, <1>7 DEF BulkCall

\* What is left to show of the record of a call.
LEMMA RecordKeeps ==
    ASSUME NEW t \in Threads, NEW k \in Calls, Moves(t, k), Recorded(k),
           rows[k] > 0 => rows'[k] > 0,
           list[k] # Unlisted => list'[k] # Unlisted \/ rows'[k] > 0,
           state'[k] \notin Early => \/ state[k] \notin Early
                                     \/ pc'[t] \in {"emit_read", "emit_write", "tell"},
           on[t] = k /\ pc[t] \in {"emit_read", "emit_write", "tell"} =>
              list'[k] # Unlisted \/ pc'[t] \in {"emit_read", "emit_write", "tell"},
           state'[k] = "ended" => \/ pc'[t] \in {"emit_end", "emit_unlist", "tell", "told"}
                                  \/ /\ state[k] = "ended"
                                     /\ on[t] = k => pc[t] \notin {"emit_end", "emit_unlist", "tell", "told"},
           list'[k] # Unlisted => list[k] # Unlisted \/ state'[k] \notin Early,
           state[k] \notin Early => state'[k] \notin Early,
           k \in reg' => \/ state'[k] \notin Early \cup {"ended"}
                         \/ pc'[t] \in {"begin", "offer", "emit_end"}
                         \/ /\ k \in reg /\ (state[k] \in Early <=> state'[k] \in Early)
                            /\ state[k] \notin Early \cup {"ended"} => state'[k] # "ended"
                            /\ on[t] = k => pc[t] \notin {"begin", "offer", "emit_end"}
    PROVE  Recorded(k)'
  <1>1. /\ on'[t] = k
        /\ \A u \in Threads : u # t => pc'[u] = pc[u] /\ on'[u] = on[u]
    BY DEF Moves
  <1>2. \/ state'[k] \in Early \/ rows'[k] > 0 \/ list'[k] # Unlisted
        \/ \E u \in Threads : on'[u] = k /\ pc'[u] \in {"emit_read", "emit_write", "tell"}
    BY <1>1 DEF Recorded
  <1>3. state'[k] = "ended" =>
          \/ rows'[k] > 0
          \/ \E u \in Threads : on'[u] = k /\ pc'[u] \in {"emit_end", "emit_unlist", "tell", "told"}
    BY <1>1 DEF Recorded
  <1>4. list'[k] # Unlisted => state'[k] \notin Early
    BY DEF Recorded
  <1>5. k \in reg' => \/ state'[k] \notin Early \cup {"ended"}
                      \/ \E u \in Threads : on'[u] = k /\ pc'[u] \in {"begin", "offer", "emit_end"}
    BY <1>1 DEF Recorded
  <1> QED
    BY <1>2, <1>3, <1>4, <1>5 DEF Recorded

-----------------------------------------------------------------------------
(* The state machine, and a step that goes through it *)

LEMMA Transition ==
    ASSUME NEW s \in CallStates \cup {"none"}, NEW tr \in Transitions
    PROVE  /\ ApplyTransition(s, tr) \in CallStates \cup {"none"}
           /\ s = "ended" => ApplyTransition(s, tr) = "ended"
           /\ s \notin Early => ApplyTransition(s, tr) \notin Early
           /\ s = "initiating" /\ tr = "offer_sent" => ApplyTransition(s, tr) = "ringing"
           /\ s \notin {"none", "ended"} => ApplyTransition(s, "terminated") = "ended"
  BY DEF ApplyTransition, Allowed, Target, CallStates, Transitions, Early

LEMMA GotoMoves ==
    ASSUME Locked, StateTypes, NEW t \in Threads, NEW l, Goto(t, l)
    PROVE  pc'[t] = l /\ \A u \in Threads : u # t => pc'[u] = pc[u]
  BY DEF Goto, Locked

\* A thread that is at work on a call is not resting, so the call is not fresh, and whoever
\* makes a call is alone.
LEMMA AtWork ==
    ASSUME \A u \in Threads : Standing(u), NEW t \in Threads, t \notin Panels, pc[t] \notin {"idle", "failed"}
    PROVE  /\ ~ Resting(t) /\ ~ Fresh(on[t])
           /\ \A u \in Threads : u # t /\ on[u] = on[t] => pc[u] \notin Making
           /\ pc[t] \in Making \/ (Acting(t) /\ state[on[t]] \notin Early)
           /\ then[t] # "idle" => pc[t] \in Emitting
  <1>1. Standing(t)
    OBVIOUS
  <1>2. pc[t] \notin PanelSteps
    BY <1>1, WhoIsWho DEF Standing, Place, PanelSteps, Emitting, Making
  <1>3. ~ Resting(t) /\ ~ Fresh(on[t])
    BY <1>2 DEF Resting, Fresh
  <1>4. pc[t] \in Making \/ (Acting(t) /\ state[on[t]] \notin Early)
    BY <1>1, <1>2 DEF Acting, Standing, Stage
  <1>5. ASSUME NEW u \in Threads, u # t, on[u] = on[t] PROVE pc[u] \notin Making
    <2>1. Stage(u) /\ Alone(u)
      BY DEF Standing
    <2> QED
      BY <1>3, <1>5, <2>1 DEF Alone
  <1> QED
    BY <1>1, <1>3, <1>4, <1>5 DEF Standing, Place

\* Where a step that emits takes a thread afterwards.
Next4(t) ==
    IF t \in Clients THEN {"idle", "listing", "on_ended", "remove", "release"}
    ELSE IF t \in Tasks THEN {"dialled", "on_ended"}
    ELSE IF t = Loop THEN {"idle", "on_ended"} ELSE {"idle"}

LEMMA ApplyKeeps ==
    ASSUME Told, DeskInv, NEW t \in Threads, t \notin Panels, NEW k \in Calls, NEW tr \in Transitions,
           NEW next \in Next4(t), Apply(t, k, tr, next), on' = [on EXCEPT ![t] = k],
           \/ pc[t] = "idle" /\ t \in {Loop, Relay} /\ state[k] \notin Early
           \/ on[t] = k /\ pc[t] \in {"told", "answer", "reject", "end", "hold", "resume", "transfer"}
           \/ on[t] = k /\ pc[t] = "offer" /\ tr = "offer_sent",
           next = "on_ended" => ApplyTransition(state[k], tr) = "ended",
           next = "listing" => pc[t] = "offer",
           UNCHANGED <<offers, requests, reg, list, rows, left, result, finished, seen, claims>>,
           answered' \in [Calls -> SUBSET Clients]
    PROVE  DeskInv'
  <1> DEFINE s == ApplyTransition(state[k], tr)
  <1>1. /\ held[k] = Free /\ held' = [held EXCEPT ![k] = t]
        /\ state' = [state EXCEPT ![k] = s] /\ Goto(t, Emission(state'[k]))
        /\ then' = [then EXCEPT ![t] = next]
    BY DEF Apply
  <1>2. /\ state[k] \in CallStates \cup {"none"} /\ OnTypes /\ Locked /\ StateTypes /\ ListTypes
        /\ Recorded(k) /\ BulkCall(k) /\ Standing(t) /\ \A u \in Threads : Standing(u)
    BY DEF DeskInv, StateTypes, Told
  <1>3. /\ s \in CallStates \cup {"none"} /\ (state[k] = "ended" => s = "ended")
        /\ (state[k] \notin Early => s \notin Early)
        /\ (state[k] = "initiating" /\ tr = "offer_sent" => s = "ringing")
        /\ (next = "on_ended" => s = "ended")
    BY <1>2, Transition
  <1> HIDE DEF s
  <1>4. /\ state'[k] = s /\ held'[k] = t /\ then'[t] = next /\ on'[t] = k
        /\ \A j \in Calls : j # k => state'[j] = state[j] /\ held'[j] = held[j]
        /\ \A u \in Threads : u # t => then'[u] = then[u] /\ on'[u] = on[u]
    BY <1>1, <1>2 DEF StateTypes, OnTypes
  <1>5. pc'[t] = Emission(s) /\ \A u \in Threads : u # t => pc'[u] = pc[u]
    BY <1>1, <1>2, <1>4, GotoMoves
  <1>6. /\ pc'[t] \in {"emit_end", "emit_read"} /\ (s = "ended" <=> pc'[t] = "emit_end")
    BY <1>5 DEF Emission
  <1>7. /\ \A u \in Threads : u # t /\ on[u] = k => pc[u] \notin Making
        /\ (state[k] \in Early => state[k] = "initiating" /\ tr = "offer_sent" /\ pc[t] = "offer")
        /\ ~ Fresh(k)
    <2>1. CASE pc[t] = "idle" /\ t \in {Loop, Relay} /\ state[k] \notin Early
      <3>1. ASSUME NEW u \in Threads, on[u] = k PROVE pc[u] \notin Making
        BY <1>2, <2>1, <3>1 DEF Standing, Stage, Making, Early
      <3> QED
        BY <2>1, <3>1 DEF Fresh, Early
    <2>2. CASE on[t] = k /\ pc[t] # "idle"
      <3>1. Standing(t) /\ pc[t] \in {"told", "answer", "reject", "end", "hold", "resume", "transfer", "offer"}
        BY <1>2, <2>2
      <3> QED
        BY <1>2, <2>2, <3>1, AtWork DEF Standing, Stage, Making
    <2> QED
      BY <2>1, <2>2
  <1>8. Moves(t, k)
    BY <1>4, <1>5 DEF Moves
  <1>9. Harmless(t, k)
    <2>1. \A u \in Threads : u # t /\ on[u] = k => pc[u] \notin Emitting
      BY <1>1, <1>2, WhoIsWho DEF Standing, Stage
    <2>2. state[k] \notin Early => s \notin Early
      BY <1>3
    <2>3. state[k] = "ended" => s = state[k]
      BY <1>3
    <2> QED
      BY <1>1, <1>4, <1>7, <2>1, <2>2, <2>3 DEF Harmless
  <1>10. StateTypes'
    BY <1>1, <1>2, <1>3, WhoIsWho DEF StateTypes
  <1>11. ListTypes'
    BY <1>2 DEF ListTypes
  <1>12. s \notin Early
    BY <1>3, <1>7 DEF Early
  <1>13. Standing(t)'
    <2>1. Place(t)'
      BY <1>4, <1>6, <1>2, WhoIsWho DEF Place, Next4, Emitting, Standing
    <2>2. pc[t] \notin Emitting
      BY DEF Emitting
    <2>3. Stage(t)'
      <3>1. \A j \in Calls : held'[j] = t <=> pc'[t] \in Emitting /\ on'[t] = j
        BY <1>2, <1>4, <1>6, <2>2 DEF Standing, Stage, Emitting
      <3> QED
        BY <1>3, <1>4, <1>6, <1>12, <3>1 DEF Stage, Acting
    <2>4. Alone(t)'
      BY <1>6 DEF Alone, Making
    <2> QED
      BY <2>1, <2>3, <2>4 DEF Standing
  <1>14. Recorded(k)'
    <2>1. UNCHANGED <<rows, list>> /\ (state[k] \in Early => pc'[t] = "emit_read")
      BY <1>3, <1>6, <1>7
    <2>2. pc[t] \notin {"emit_read", "emit_write", "tell"}
      OBVIOUS
    <2> QED
      BY <1>2, <1>4, <1>6, <1>8, <1>12, <2>1, <2>2, RecordKeeps
  <1>n. Noted(t, k)
    BY NothingNoted DEF DeskInv
  <1>15. BulkCall(k)'
    <2>1. Starting(t)' => Starting(t) /\ on[t] = k
      BY <1>4, <1>6 DEF Starting, Making
    <2>2. Dialling(k)' => Dialling(k)
      BY <1>3, <1>4, <1>7 DEF Dialling, Early
    <2>3. pc'[t] \notin Over
      BY <1>6 DEF Over
    <2> QED
      BY <1>2, <1>4, <1>6, <1>8, <1>n, <2>1, <2>2, <2>3, SameRequests, BulkKeeps DEF Over
  <1>16. t \in Tasks => (pc'[t] = "idle" <=> pc[t] = "idle")
    BY <1>6, WhoIsWho
  <1> QED
    BY <1>2, <1>7, <1>8, <1>9, <1>10, <1>11, <1>13, <1>14, <1>15, <1>16, <1>n, PlainStepKeeps

LEMMA StaysOn == ASSUME OnTypes, NEW t \in Threads, UNCHANGED on PROVE on' = [on EXCEPT ![t] = on[t]]
  BY DEF OnTypes

LEMMA LoopApplies ==
    ASSUME Told, DeskInv, UNCHANGED campaign,
           \/ OfferEmit
           \/ \E k \in Calls : RemoteAccept(k) \/ RemoteTerminate(k) \/ Connected(k)
    PROVE  DeskInv'
  <1>1. Loop \in Threads \ Panels /\ Relay \in Threads \ Panels
        /\ Next4(Loop) = {"idle", "on_ended"} /\ Next4(Relay) = {"idle"}
    BY WhoIsWho DEF Next4
  <1>2. {"offer_received", "remote_accepted", "terminated", "media_connected"} \subseteq Transitions
    BY DEF Transitions
  <1>3. OnTypes /\ StateTypes
    BY DEF Told, DeskInv
  <1>4. UNCHANGED <<left, result, finished>>
    BY DEF campaign
  <1>5. CASE OfferEmit
    <2>1. /\ UNCHANGED <<offers, requests, reg, list, rows, seen, claims, answered, on>>
          /\ pc[Loop] = "told" /\ Apply(Loop, on[Loop], "offer_received", "idle")
      BY <1>5 DEF OfferEmit, broker, history, At
    <2>2. on[Loop] \in Calls /\ on' = [on EXCEPT ![Loop] = on[Loop]]
      BY <1>1, <1>3, <2>1, StaysOn DEF OnTypes
    <2> QED
      BY <1>1, <1>2, <1>3, <1>4, <2>1, <2>2, ApplyKeeps DEF StateTypes
  <1>6. ASSUME NEW k \in Calls, RemoteAccept(k) PROVE DeskInv'
    <2>1. /\ UNCHANGED <<offers, requests, reg, list, rows, seen, claims, answered>>
          /\ pc[Loop] = "idle" /\ Apply(Loop, k, "remote_accepted", "idle")
          /\ on' = [on EXCEPT ![Loop] = k] /\ state[k] \notin Early
      BY <1>6 DEF RemoteAccept, broker, history, At, Early
    <2> QED
      BY <1>1, <1>2, <1>3, <1>4, <2>1, ApplyKeeps DEF StateTypes
  <1>7. ASSUME NEW k \in Calls, RemoteTerminate(k) PROVE DeskInv'
    <2>1. /\ UNCHANGED <<offers, requests, reg, list, rows, seen, claims, answered>>
          /\ pc[Loop] = "idle" /\ Apply(Loop, k, "terminated", "on_ended")
          /\ on' = [on EXCEPT ![Loop] = k] /\ state[k] \notin Early /\ state[k] \notin {"none", "ended"}
      BY <1>7 DEF RemoteTerminate, broker, history, At, Early
    <2>2. ApplyTransition(state[k], "terminated") = "ended"
      BY <1>2, <1>3, <2>1, Transition DEF StateTypes
    <2> QED
      BY <1>1, <1>2, <1>3, <1>4, <2>1, <2>2, ApplyKeeps DEF StateTypes
  <1>8. ASSUME NEW k \in Calls, Connected(k) PROVE DeskInv'
    <2>1. /\ UNCHANGED <<offers, requests, reg, list, rows, seen, claims, answered>>
          /\ pc[Relay] = "idle" /\ Apply(Relay, k, "media_connected", "idle")
          /\ on' = [on EXCEPT ![Relay] = k] /\ state[k] \notin Early
      BY <1>8 DEF Connected, broker, history, At, Early
    <2> QED
      BY <1>1, <1>2, <1>3, <1>4, <2>1, ApplyKeeps DEF StateTypes
  <1> QED
    BY <1>5, <1>6, <1>7, <1>8

\* A request, or a task that hangs up, applies a transition to the call it is at.
LEMMA CallerApplies ==
    ASSUME Told, DeskInv, NEW c \in Callers, NEW tr \in Transitions, NEW next \in Next4(c),
           Apply(c, on[c], tr, next),
           \/ pc[c] \in {"answer", "reject", "end", "hold", "resume", "transfer"}
           \/ pc[c] = "offer" /\ tr = "offer_sent",
           next = "on_ended" => pc[c] = "end" /\ tr = "terminated" /\ state[on[c]] # "ended",
           next = "listing" => pc[c] = "offer",
           UNCHANGED <<offers, requests, reg, broker, on, seen, claims, campaign>>,
           answered' \in [Calls -> SUBSET Clients]
    PROVE  DeskInv'
  <1>1. c \in Threads \ Panels /\ OnTypes /\ StateTypes /\ \A u \in Threads : Standing(u)
    BY PanelsApart DEF Told, DeskInv
  <1>2. on[c] \in Calls /\ on' = [on EXCEPT ![c] = on[c]]
    BY <1>1, StaysOn DEF OnTypes
  <1>3. UNCHANGED <<list, rows, left, result, finished>>
    BY DEF broker, campaign
  <1>4. next = "on_ended" => ApplyTransition(state[on[c]], tr) = "ended"
    <2> SUFFICES ASSUME next = "on_ended" PROVE ApplyTransition(state[on[c]], tr) = "ended"
      OBVIOUS
    <2>1. state[on[c]] \notin Early
      BY <1>1, AtWork DEF Making
    <2>2. "terminated" \in Transitions /\ state[on[c]] \in CallStates \cup {"none"}
      BY <1>1, <1>2 DEF Transitions, StateTypes
    <2> QED
      BY <2>1, <2>2, Transition DEF Early
  <1> QED
    BY <1>1, <1>2, <1>3, <1>4, ApplyKeeps

-----------------------------------------------------------------------------
(* A step that only goes on *)

\* To where a thread may go from where it is, if it neither emits nor makes a call.
Goes(t, l) ==
    /\ t \in Clients => l \in {"idle", "remove", "end", "release", "offering"}
    /\ t \in Tasks => l \in {"dialled", "ringing", "playing", "end"}
                      \/ (l = "closing" /\ ~ Dialling(on[t]))
    /\ t \notin {Loop, Relay} \cup Panels

LEMMA GoKeeps ==
    ASSUME Told, DeskInv, NEW t \in Threads, t \notin Panels, NEW l, Goto(t, l),
           \/ pc[t] = "emit_read" /\ l = "emit_write"
           \/ Goes(t, l) /\ pc[t] \in {"offering", "end", "answer", "accept", "hold", "resume",
                                       "transfer", "release", "pickup", "dialled", "ringing", "playing"},
           UNCHANGED <<offers, requests, state, held, reg, list, rows, on, then, claims, answered,
                       left, finished>>,
           seen' \in [Threads -> Clients \cup {Nobody}],
           Noted(t, on[t])
    PROVE  DeskInv'
  <1>1. /\ OnTypes /\ Locked /\ StateTypes /\ ListTypes /\ Plan /\ on[t] \in Calls
        /\ Recorded(on[t]) /\ BulkCall(on[t]) /\ Standing(t) /\ \A u \in Threads : Standing(u)
    BY DEF DeskInv, Told, OnTypes
  <1>2. pc'[t] = l /\ \A u \in Threads : u # t => pc'[u] = pc[u]
    BY <1>1, GotoMoves
  <1>l. \/ pc[t] = "emit_read" /\ l = "emit_write"
        \/ /\ l \in {"idle", "remove", "end", "release", "offering", "dialled", "ringing", "playing", "closing"}
           /\ pc[t] \notin Emitting /\ t \notin {Loop, Relay}
    BY WhoIsWho DEF Goes, Emitting
  <1>3. /\ ~ Fresh(on[t]) /\ pc[t] \notin Making /\ Acting(t) /\ state[on[t]] \notin Early
        /\ \A u \in Threads : u # t /\ on[u] = on[t] => pc[u] \notin Making
        /\ then[t] # "idle" => pc[t] \in Emitting
    BY <1>1, AtWork DEF Making
  <1>4. Moves(t, on[t])
    BY <1>2 DEF Moves
  <1>5. Harmless(t, on[t])
    BY <1>3 DEF Harmless
  <1>6. StateTypes' /\ ListTypes'
    BY <1>1 DEF StateTypes, ListTypes
  <1>7. Standing(t)'
    <2>1. pc[t] \in Emitting <=> l \in Emitting
      BY <1>l DEF Emitting
    <2>2. Place(t)'
      BY <1>1, <1>2, <2>1, WhoIsWho DEF Place, Goes, Standing, Emitting
    <2>3. Stage(t)'
      BY <1>1, <1>2, <1>3, <1>l, <2>1 DEF Stage, Standing, Emitting
    <2>4. Alone(t)'
      BY <1>2, <1>l DEF Alone, Making
    <2> QED
      BY <2>2, <2>3, <2>4 DEF Standing
  <1>8. Recorded(on[t])'
    <2>1. pc[t] \notin {"emit_write", "tell", "told", "begin", "offer", "emit_end", "emit_unlist"}
      OBVIOUS
    <2>2. pc[t] = "emit_read" => pc'[t] = "emit_write"
      BY <1>2
    <2> QED
      BY <1>1, <1>3, <1>4, <2>1, <2>2, RecordKeeps
  <1>9. t \in Tasks => pc'[t] # "idle"
    BY <1>2, WhoIsWho DEF Goes
  <1>10. BulkCall(on[t])'
    <2>1. ~ Starting(t)' \/ Starting(t)
      BY <1>2, <1>l DEF Starting, Making
    <2>2. Dialling(on[t])' <=> Dialling(on[t])
      BY DEF Dialling
    <2>3. t \in Tasks => pc'[t] \notin Over \/ ~ Dialling(on[t])
      BY <1>2, WhoIsWho DEF Over, Goes
    <2>4. pc[t] \notin {"emit_end", "emit_unlist"}
      OBVIOUS
    <2> QED
      BY <1>1, <1>4, <1>9, <2>1, <2>2, <2>3, <2>4, SameRequests, BulkKeeps
  <1>11. t \in Tasks => (pc'[t] = "idle" <=> pc[t] = "idle")
    BY <1>9
  <1> QED
    BY <1>1, <1>3, <1>4, <1>5, <1>6, <1>7, <1>8, <1>10, <1>11, PlainStepKeeps

LEMMA EmitReadKeeps == ASSUME Told, DeskInv, UNCHANGED campaign, NEW t \in Threads, EmitRead(t) PROVE DeskInv'
  <1>1. /\ pc[t] = "emit_read" /\ Goto(t, "emit_write")
        /\ seen' = [seen EXCEPT ![t] = list[on[t]].owner]
        /\ UNCHANGED <<offers, requests, state, held, reg, list, rows, on, then, claims, answered>>
    BY DEF EmitRead, calls, broker, history, At
  <1>2. t \notin Panels
    BY <1>1 DEF Told, Locked, PanelSteps
  <1>3. list[on[t]] = Unlisted \/ list[on[t]] \in Record
    BY DEF DeskInv, ListTypes, Told, OnTypes
  <1>4. list[on[t]].owner \in Clients \cup {Nobody}
    BY <1>3 DEF Unlisted, Record
  <1>5. seen' \in [Threads -> Clients \cup {Nobody}]
    BY <1>1, <1>4 DEF DeskInv, StateTypes
  <1>6. UNCHANGED <<left, finished>> /\ Noted(t, on[t])
    BY NothingNoted DEF campaign, DeskInv
  <1> QED
    BY <1>1, <1>2, <1>5, <1>6, GoKeeps

LEMMA NextSteps ==
    /\ \A c \in Clients : /\ Next4(c) = {"idle", "listing", "on_ended", "remove", "release"}
                          /\ \A l \in {"idle", "remove", "end", "release", "offering"} : Goes(c, l)
    /\ \A t \in Tasks : /\ Next4(t) = {"dialled", "on_ended"}
                        /\ \A l \in {"ringing", "playing", "end"} : Goes(t, l)
                        /\ ~ Dialling(on[t]) => Goes(t, "closing")
  BY WhoIsWho DEF Next4, Goes

\* What a handler that only goes on leaves alone.
LEMMA RequestGoes ==
    ASSUME Told, DeskInv, NEW c \in Callers, NEW l, Goto(c, l), Goes(c, l),
           pc[c] \in {"offering", "end", "answer", "accept", "hold", "resume", "transfer", "release",
                     "pickup"},
           UNCHANGED <<offers, requests, state, held, reg, broker, on, then, seen, claims, answered, campaign>>
    PROVE  DeskInv'
  <1>1. UNCHANGED <<list, rows, left, finished>> /\ Noted(c, on[c])
    BY NothingNoted DEF broker, campaign, DeskInv
  <1>2. c \in Threads /\ c \notin Panels /\ seen' \in [Threads -> Clients \cup {Nobody}]
    BY PanelsApart DEF DeskInv, StateTypes
  <1> QED
    BY <1>1, <1>2, GoKeeps

LEMMA AnswerKeeps == ASSUME Told, DeskInv, UNCHANGED campaign, NEW c \in Clients, Answer(c) PROVE DeskInv'
  <1>1. /\ pc[c] = "answer" /\ UNCHANGED <<offers, requests, reg, broker, on, seen, claims, campaign>>
        /\ c \in Callers /\ c \in Threads /\ on[c] \in Calls
    BY PanelsApart DEF Answer, At, Told, OnTypes
  <1>2. CASE /\ Apply(c, on[c], "local_accepted", "idle")
             /\ answered' = [answered EXCEPT ![on[c]] = @ \cup {c}]
    <2>1. answered' \in [Calls -> SUBSET Clients]
      BY <1>1, <1>2 DEF DeskInv, StateTypes
    <2>2. "local_accepted" \in Transitions /\ "idle" \in Next4(c)
      BY NextSteps DEF Transitions
    <2> QED
      BY <1>1, <1>2, <2>1, <2>2, CallerApplies
  <1>3. CASE Goto(c, "idle") /\ UNCHANGED <<state, held, then, answered>>
    BY <1>1, <1>3, NextSteps, RequestGoes
  <1> QED
    BY <1>2, <1>3 DEF Answer

LEMMA RejectKeeps == ASSUME Told, DeskInv, UNCHANGED campaign, NEW c \in Clients, Reject(c) PROVE DeskInv'
  <1>1. /\ pc[c] = "reject" /\ UNCHANGED <<offers, requests, reg, broker, on, seen, claims, answered, campaign>>
        /\ Apply(c, on[c], "local_rejected", "remove") /\ c \in Callers
    BY PanelsApart DEF Reject, At, history
  <1>2. "local_rejected" \in Transitions /\ "remove" \in Next4(c) /\ answered' \in [Calls -> SUBSET Clients]
    BY <1>1, NextSteps DEF Transitions, DeskInv, StateTypes
  <1> QED
    BY <1>1, <1>2, CallerApplies

LEMMA EndCallKeeps == ASSUME Told, DeskInv, UNCHANGED campaign, NEW c \in Callers, EndCall(c) PROVE DeskInv'
  <1>1. /\ pc[c] = "end" /\ UNCHANGED <<offers, requests, reg, broker, on, seen, claims, answered, campaign>>
        /\ c \in Clients \/ c \in Tasks
    BY DEF EndCall, At, history, Callers
  <1>2. CASE state[on[c]] # "ended" /\ Apply(c, on[c], "terminated", "on_ended")
    <2>1. "terminated" \in Transitions /\ "on_ended" \in Next4(c) /\ answered' \in [Calls -> SUBSET Clients]
      BY <1>1, NextSteps DEF Transitions, DeskInv, StateTypes
    <2> QED
      BY <1>1, <1>2, <2>1, CallerApplies
  <1>3. CASE state[on[c]] = "ended" /\ Goto(c, Ended(c)) /\ UNCHANGED <<state, held, then>>
    <2>1. ~ Dialling(on[c])
      BY <1>3 DEF Dialling
    <2>2. Goes(c, Ended(c))
      BY <1>1, <2>1, NextSteps, WhoIsWho DEF Ended
    <2> QED
      BY <1>1, <1>3, <2>2, RequestGoes
  <1> QED
    BY <1>2, <1>3 DEF EndCall

LEMMA HoldOrResumeKeeps ==
    ASSUME Told, DeskInv, UNCHANGED campaign, NEW c \in Clients, HoldOrResume(c) PROVE DeskInv'
  <1> DEFINE tr == IF pc[c] = "resume" THEN "resume" ELSE "hold"
             next == IF pc[c] = "transfer" THEN "release" ELSE "idle"
  <1>1. /\ pc[c] \in {"hold", "resume", "transfer"} /\ c \in Callers
        /\ UNCHANGED <<offers, requests, reg, broker, on, seen, claims, answered, campaign>>
    BY PanelsApart DEF HoldOrResume, history
  <1>2. tr \in Transitions /\ next \in Next4(c) /\ Goes(c, next) /\ next \notin {"on_ended", "listing"}
    BY NextSteps DEF Transitions
  <1>3. \/ Apply(c, on[c], tr, next)
        \/ Goto(c, next) /\ UNCHANGED <<state, held, then>>
    BY DEF HoldOrResume
  <1>4. answered' \in [Calls -> SUBSET Clients]
    BY <1>1 DEF DeskInv, StateTypes
  <1> HIDE DEF tr, next
  <1> QED
    BY <1>1, <1>2, <1>3, <1>4, CallerApplies, RequestGoes

LEMMA OfferTransferKeeps ==
    ASSUME Told, DeskInv, UNCHANGED campaign, NEW c \in Clients, OfferTransfer(c) PROVE DeskInv'
  <1>1. /\ pc[c] = "offering" /\ Goto(c, "idle") /\ c \in Callers
        /\ UNCHANGED <<offers, requests, state, held, reg, broker, on, then, seen, claims, answered, campaign>>
    BY PanelsApart DEF OfferTransfer, At, calls, history
  <1> QED
    BY <1>1, NextSteps, RequestGoes

-----------------------------------------------------------------------------
(* The tasks of the broadcast *)

LEMMA TaskNotes ==
    ASSUME DeskInv, NEW t \in Tasks, pc[t] # "idle", pc'[t] # "idle", on[t] \in Calls,
           NEW r \in Results \ {"none"}, Set(on[t], r)
    PROVE  Noted(t, on[t])
  <1>1. Campaigning /\ t \in Working
    BY DEF DeskInv, Plan, Working
  <1>2. result \in [Calls -> Results] /\ result' = [result EXCEPT ![on[t]] = r]
    BY <1>1 DEF Campaigning, Set
  <1>3. on[t] \in ToSet(Numbers) => result[on[t]] # "none"
    BY <1>1 DEF Campaigning
  <1>4. result'[on[t]] = r /\ \A j \in Calls : j # on[t] => result'[j] = result[j]
    BY <1>2
  <1> QED
    BY <1>2, <1>3, <1>4 DEF Noted

LEMMA TaskKeeps ==
    ASSUME Told, DeskInv, NEW t \in Tasks, Dialled(t) \/ Answered(t) \/ NoAnswer(t) \/ PumpAudio(t)
    PROVE  DeskInv'
  <1>1. /\ UNCHANGED <<offers, requests, state, held, reg, list, rows, on, then, seen, claims, answered,
                       left, finished>>
        /\ t \in Threads /\ t \notin Panels /\ on[t] \in Calls
        /\ pc[t] \in {"dialled", "ringing", "playing"}
        /\ seen' \in [Threads -> Clients \cup {Nobody}]
    BY WhoIsWho DEF Dialled, Answered, NoAnswer, PumpAudio, RingsOut, DeskUntouched, calls, broker, history,
                    campaign, At, Told, OnTypes, DeskInv, StateTypes
  <1>2. PICK l : /\ Goto(t, l) /\ Goes(t, l) /\ l # "idle"
                 /\ UNCHANGED result \/ \E r \in {"ringing", "answered"} : Set(on[t], r)
    <2>1. CASE Dialled(t)
      BY <2>1, NextSteps DEF Dialled
    <2>2. CASE Answered(t)
      BY <2>2, NextSteps DEF Answered
    <2>3. Goes(t, HangUp(t)) /\ HangUp(t) # "idle"
      BY NextSteps DEF HangUp, Dialling
    <2>4. CASE NoAnswer(t) \/ PumpAudio(t)
      BY <2>3, <2>4 DEF NoAnswer, PumpAudio, RingsOut, campaign
    <2> QED
      BY <2>1, <2>2, <2>4
  <1>3. pc'[t] = l
    BY <1>1, <1>2, GotoMoves DEF Told, DeskInv
  <1>4. Noted(t, on[t])
    <2>1. CASE UNCHANGED result
      BY <2>1, NothingNoted DEF DeskInv
    <2>2. ASSUME NEW r \in {"ringing", "answered"}, Set(on[t], r) PROVE Noted(t, on[t])
      <3>1. r \in Results \ {"none"}
        BY <2>2 DEF Results
      <3> QED
        BY <1>1, <1>2, <1>3, <2>2, <3>1, TaskNotes
    <2> QED
      BY <1>2, <2>1, <2>2
  <1> QED
    BY <1>1, <1>2, <1>4, GoKeeps

-----------------------------------------------------------------------------
(* The list *)

\* A step of t that goes on to l and writes its call's record in the list.
LEMMA ListKeeps ==
    ASSUME Told, DeskInv, NEW t \in Threads, t \notin Panels, NEW l, Goto(t, l),
           NEW r \in Record, list' = [list EXCEPT ![on[t]] = r],
           \/ pc[t] = "emit_write" /\ l = "unlock"
           \/ pc[t] = "listing" /\ l = "idle" /\ t \in Clients
           \/ pc[t] = "tell" /\ l = "told" /\ t = Loop
           \/ /\ list[on[t]] # Unlisted /\ t \in Clients
              /\ \/ pc[t] = "accept" /\ l = "answer"
                 \/ pc[t] = "release" /\ l = "offering"
                 \/ pc[t] = "pickup" /\ l = "idle",
           UNCHANGED <<offers, requests, state, held, reg, rows, on, then, answered, campaign>>,
           seen' \in [Threads -> Clients \cup {Nobody}], claims' \in [Calls -> SUBSET Clients]
    PROVE  DeskInv'
  <1>1. /\ OnTypes /\ Locked /\ StateTypes /\ ListTypes /\ Plan /\ on[t] \in Calls
        /\ Recorded(on[t]) /\ BulkCall(on[t]) /\ Standing(t) /\ \A u \in Threads : Standing(u)
    BY DEF DeskInv, Told, OnTypes
  <1>2. pc'[t] = l /\ \A u \in Threads : u # t => pc'[u] = pc[u]
    BY <1>1, GotoMoves
  <1>3. /\ ~ Fresh(on[t]) /\ pc[t] \notin Making /\ Acting(t) /\ state[on[t]] \notin Early
        /\ \A u \in Threads : u # t /\ on[u] = on[t] => pc[u] \notin Making
        /\ then[t] # "idle" => pc[t] \in Emitting
    BY <1>1, AtWork DEF Making
  <1>4. /\ list'[on[t]] = r /\ r # Unlisted
        /\ \A j \in Calls : j # on[t] => list'[j] = list[j]
    BY <1>1, NotListed DEF OnTypes
  <1>5. Moves(t, on[t])
    BY <1>2 DEF Moves
  <1>6. Harmless(t, on[t])
    BY <1>3, <1>4 DEF Harmless
  <1>7. StateTypes'
    BY <1>1 DEF StateTypes
  <1>8. ListTypes'
    BY <1>1, <1>4 DEF ListTypes
  <1>9. Standing(t)'
    <2>1. pc[t] \in Emitting <=> l \in Emitting
      BY DEF Emitting
    <2>2. Place(t)'
      BY <1>1, <1>2, <2>1, WhoIsWho DEF Place, Standing, Emitting
    <2>3. Stage(t)'
      BY <1>1, <1>2, <1>3, <2>1 DEF Stage, Standing, Emitting
    <2>4. Alone(t)'
      BY <1>2 DEF Alone, Making
    <2> QED
      BY <2>2, <2>3, <2>4 DEF Standing
  <1>10. Recorded(on[t])'
    <2>1. pc[t] \notin {"begin", "offer", "emit_end", "emit_unlist", "told"}
      OBVIOUS
    <2>2. pc[t] = "tell" => pc'[t] = "told"
      BY <1>2
    <2> QED
      BY <1>1, <1>3, <1>4, <1>5, <2>1, <2>2, RecordKeeps
  <1>11. Noted(t, on[t]) /\ UNCHANGED <<left, finished>>
    BY <1>1, NothingNoted DEF campaign
  <1>12. BulkCall(on[t])'
    <2>1. CASE Starting(t) /\ t \notin Tasks
      <3>1. ~ Bulk(on[t])
        BY <1>1, <2>1 DEF BulkCall
      <3>2. ~ Bulk(on[t])'
        BY <3>1 DEF Bulk, campaign
      <3> QED
        BY <3>2 DEF BulkCall
    <2>2. CASE ~ Starting(t) \/ t \in Tasks
      <3>1. pc[t] \in {"emit_write", "accept", "release", "pickup"}
        BY <2>2, WhoIsWho DEF Starting
      <3>2. ~ Starting(t)' \/ Starting(t)
        BY <1>2, <3>1 DEF Starting, Making
      <3>3. Dialling(on[t])' <=> Dialling(on[t])
        BY DEF Dialling
      <3>4. t \in Tasks => pc'[t] \notin Over
        BY <1>2, <3>1, WhoIsWho DEF Over
      <3>5. state'[on[t]] = "ended" => list[on[t]] # Unlisted
        BY <1>1, <3>1 DEF Standing, Stage
      <3> QED
        BY <1>1, <1>5, <1>11, <3>1, <3>2, <3>3, <3>4, <3>5, SameRequests, BulkKeeps DEF Over
    <2> QED
      BY <2>1, <2>2
  <1>13. t \in Tasks => (pc'[t] = "idle" <=> pc[t] = "idle")
    BY <1>2, WhoIsWho
  <1> QED
    BY <1>1, <1>3, <1>5, <1>6, <1>7, <1>8, <1>9, <1>10, <1>11, <1>12, <1>13, PlainStepKeeps

LEMMA EmitWriteKeeps ==
    ASSUME Told, DeskInv, UNCHANGED campaign, NEW t \in Threads, EmitWrite(t) PROVE DeskInv'
  <1> DEFINE s == state[on[t]]
             r == [owner |-> seen[t], status |-> MapStatus(s), onHold |-> s = "on_hold"]
  <1>1. /\ pc[t] = "emit_write" /\ Goto(t, "unlock") /\ list' = [list EXCEPT ![on[t]] = r]
        /\ seen' = [seen EXCEPT ![t] = Nobody]
        /\ UNCHANGED <<offers, requests, state, held, reg, rows, on, then, claims, answered>>
    BY DEF EmitWrite, At, Upsert, calls, history
  <1>2. t \notin Panels /\ on[t] \in Calls
    BY <1>1 DEF Told, Locked, PanelSteps, OnTypes
  <1>3. s \in CallStates /\ s \notin Early \cup {"ended"}
    <2>1. Standing(t) /\ s \in CallStates \cup {"none"}
      BY <1>2 DEF DeskInv, StateTypes
    <2>2. s \notin Early
      BY <1>1, <1>2, AtWork DEF DeskInv, Making
    <2> QED
      BY <1>1, <2>1, <2>2 DEF Standing, Stage, Early
  <1>4. MapStatus(s) \in {"starting", "ringing", "connected"} /\ (s = "on_hold") \in BOOLEAN
    BY <1>3 DEF MapStatus
  <1>5. seen[t] \in Clients \cup {Nobody}
    BY DEF DeskInv, StateTypes
  <1> HIDE DEF s
  <1>6. r \in Record
    BY <1>4, <1>5 DEF Record
  <1>7. seen' \in [Threads -> Clients \cup {Nobody}] /\ claims' \in [Calls -> SUBSET Clients]
    BY <1>1 DEF DeskInv, StateTypes
  <1> HIDE DEF r
  <1> QED
    BY <1>1, <1>2, <1>6, <1>7, ListKeeps

LEMMA NewRecords ==
    ASSUME NEW c \in Clients \cup {Nobody}
    PROVE  /\ [owner |-> c, status |-> "ringing", onHold |-> FALSE] \in Record
           /\ \A r \in Record : OwnedBy(r, c) \in Record
  BY DEF Record, OwnedBy

LEMMA ListStartedKeeps ==
    ASSUME Told, DeskInv, UNCHANGED campaign, NEW c \in Clients, ListStarted(c) PROVE DeskInv'
  <1> DEFINE r == [owner |-> c, status |-> "ringing", onHold |-> FALSE]
  <1>1. /\ pc[c] = "listing" /\ Goto(c, "idle") /\ list' = [list EXCEPT ![on[c]] = r]
        /\ UNCHANGED <<offers, requests, state, held, reg, rows, on, then, seen, claims, answered>>
    BY DEF ListStarted, At, Upsert, calls, history
  <1>2. r \in Record
    BY NewRecords
  <1>3. seen' \in [Threads -> Clients \cup {Nobody}] /\ claims' \in [Calls -> SUBSET Clients]
    BY <1>1 DEF DeskInv, StateTypes
  <1>4. c \in Threads /\ c \notin Panels
    BY WhoIsWho
  <1> HIDE DEF r
  <1> QED
    BY <1>1, <1>2, <1>3, <1>4, ListKeeps

LEMMA OnIncomingKeeps == ASSUME Told, DeskInv, UNCHANGED campaign, OnIncoming PROVE DeskInv'
  <1> DEFINE r == [owner |-> Nobody, status |-> "ringing", onHold |-> FALSE]
  <1>1. /\ pc[Loop] = "tell" /\ Goto(Loop, "told") /\ list' = [list EXCEPT ![on[Loop]] = r]
        /\ UNCHANGED <<offers, requests, state, held, reg, rows, on, then, seen, claims, answered>>
    BY DEF OnIncoming, At, Upsert, calls, history
  <1>2. r \in Record
    BY NewRecords
  <1>3. seen' \in [Threads -> Clients \cup {Nobody}] /\ claims' \in [Calls -> SUBSET Clients]
    BY <1>1 DEF DeskInv, StateTypes
  <1>4. Loop \in Threads /\ Loop \notin Panels
    BY WhoIsWho
  <1> HIDE DEF r
  <1> QED
    BY <1>1, <1>2, <1>3, <1>4, ListKeeps

\* A step of a client that would change a record of the list, and finds none.
LEMMA ClaimKeeps == ASSUME Told, DeskInv, UNCHANGED campaign, NEW c \in Clients, Claim(c) PROVE DeskInv'
  <1>1. /\ pc[c] = "accept" /\ c \in Callers /\ c \in Threads /\ c \notin Panels /\ on[c] \in Calls
        /\ UNCHANGED <<offers, requests, state, held, reg, rows, on, then, seen, answered, subs, closed>>
    BY PanelsApart DEF Claim, At, calls, Told, OnTypes
  <1>2. CASE /\ list[on[c]] # Unlisted /\ list' = [list EXCEPT ![on[c]] = OwnedBy(@, c)]
             /\ claims' = [claims EXCEPT ![on[c]] = @ \cup {c}] /\ Goto(c, "answer")
    <2>1. list[on[c]] \in Record
      BY <1>1, <1>2 DEF DeskInv, ListTypes
    <2>2. OwnedBy(list[on[c]], c) \in Record /\ list' = [list EXCEPT ![on[c]] = OwnedBy(list[on[c]], c)]
      BY <1>2, <2>1, NewRecords
    <2>3. seen' \in [Threads -> Clients \cup {Nobody}] /\ claims' \in [Calls -> SUBSET Clients]
      BY <1>1, <1>2 DEF DeskInv, StateTypes
    <2> QED
      BY <1>1, <1>2, <2>2, <2>3, ListKeeps
  <1>3. CASE Goto(c, "idle") /\ UNCHANGED <<list, claims, out>>
    <2>1. UNCHANGED broker
      BY <1>1, <1>3 DEF broker
    <2> QED
      BY <1>1, <1>3, <2>1, NextSteps, RequestGoes
  <1> QED
    BY <1>2, <1>3 DEF Claim

\* A call is released, or taken.
LEMMA Reassigns ==
    ASSUME Told, DeskInv, NEW c \in Clients, NEW l, NEW owner \in Clients \cup {Nobody}, NEW more,
           Goto(c, l), Reassign(c, on[c], owner, more),
           \/ pc[c] = "release" /\ l = "offering"
           \/ pc[c] = "pickup" /\ l = "idle",
           UNCHANGED <<offers, requests, calls, rows, subs, closed, on, then, seen, history, campaign>>
    PROVE  DeskInv'
  <1>1. /\ c \in Callers /\ c \in Threads /\ c \notin Panels /\ on[c] \in Calls
        /\ UNCHANGED <<state, held, reg, claims, answered>>
    BY PanelsApart DEF calls, history, Told, OnTypes
  <1>2. CASE list[on[c]] = Unlisted
    <2>1. UNCHANGED broker
      BY <1>1, <1>2 DEF Reassign, broker
    <2> QED
      BY <1>1, <2>1, NextSteps, RequestGoes
  <1>3. CASE list[on[c]] # Unlisted
    <2>1. list[on[c]] \in Record
      BY <1>1, <1>3 DEF DeskInv, ListTypes
    <2>2. /\ OwnedBy(list[on[c]], owner) \in Record
          /\ list' = [list EXCEPT ![on[c]] = OwnedBy(list[on[c]], owner)]
      BY <1>3, <2>1, NewRecords DEF Reassign
    <2>3. seen' \in [Threads -> Clients \cup {Nobody}] /\ claims' \in [Calls -> SUBSET Clients]
      BY <1>1 DEF DeskInv, StateTypes
    <2> QED
      BY <1>1, <1>3, <2>2, <2>3, ListKeeps
  <1> QED
    BY <1>2, <1>3

LEMMA ReassignKeeps ==
    ASSUME Told, DeskInv, UNCHANGED campaign, NEW c \in Clients, Release(c) \/ Pickup(c)
    PROVE  DeskInv'
  <1>1. CASE Release(c)
    BY <1>1, Reassigns DEF Release, At
  <1>2. CASE Pickup(c)
    BY <1>2, Reassigns DEF Pickup, At
  <1> QED
    BY <1>1, <1>2

-----------------------------------------------------------------------------
(* A call that has ended *)

LEMMA EmitEndKeeps == ASSUME Told, DeskInv, UNCHANGED campaign, NEW t \in Threads, EmitEnd(t) PROVE DeskInv'
  <1>1. PICK l : /\ Goto(t, l)
                 /\ \/ pc[t] = "emit_end" /\ l = "emit_unlist"
                    \/ pc[t] = "remove" /\ l = "unlist"
                    \/ pc[t] = "on_ended" /\ l = "on_ended_unlist"
    BY DEF EmitEnd, At
  <1>2. /\ reg' = reg \ {on[t]} /\ t \notin Panels /\ on[t] \in Calls
        /\ UNCHANGED <<offers, requests, state, held, list, rows, on, then, seen, claims, answered>>
        /\ UNCHANGED <<left, finished, result>>
    BY <1>1 DEF EmitEnd, broker, history, campaign, Told, Locked, PanelSteps, OnTypes
  <1>3. /\ OnTypes /\ Locked /\ StateTypes /\ ListTypes
        /\ Recorded(on[t]) /\ BulkCall(on[t]) /\ Standing(t) /\ \A u \in Threads : Standing(u)
    BY <1>2 DEF DeskInv, Told
  <1>4. pc'[t] = l /\ \A u \in Threads : u # t => pc'[u] = pc[u]
    BY <1>1, <1>3, GotoMoves
  <1>5. /\ ~ Fresh(on[t]) /\ pc[t] \notin Making /\ Acting(t) /\ state[on[t]] \notin Early
        /\ \A u \in Threads : u # t /\ on[u] = on[t] => pc[u] \notin Making
        /\ then[t] # "idle" => pc[t] \in Emitting
    BY <1>1, <1>2, <1>3, AtWork DEF Making
  <1>6. Moves(t, on[t])
    BY <1>2, <1>4 DEF Moves
  <1>7. Harmless(t, on[t])
    BY <1>2, <1>5 DEF Harmless
  <1>8. StateTypes' /\ ListTypes'
    BY <1>2, <1>3 DEF StateTypes, ListTypes
  <1>9. Standing(t)'
    <2>1. pc[t] \in Emitting <=> l \in Emitting
      BY <1>1 DEF Emitting
    <2>0. on[t] \notin reg'
      BY <1>2
    <2>2. Place(t)'
      <3>1. t \in Clients \/ pc[t] # "remove"
        BY <1>2, <1>3, WhoIsWho DEF Standing, Place, Emitting, Making
      <3>2. Place(t) /\ then'[t] = then[t]
        BY <1>2, <1>3 DEF Standing
      <3>3. \/ l = "emit_unlist" /\ pc[t] \in Emitting
            \/ l = "unlist" /\ t \in Clients /\ pc[t] \notin Emitting
            \/ l = "on_ended_unlist" /\ pc[t] = "on_ended"
        BY <1>1, <3>1 DEF Emitting
      <3> QED
        BY <1>2, <1>4, <2>1, <3>2, <3>3, WhoIsWho DEF Place, Emitting
    <2>3. Stage(t)'
      BY <1>1, <1>2, <1>3, <1>4, <1>5, <2>0, <2>1 DEF Stage, Standing, Emitting
    <2>4. Alone(t)'
      BY <1>1, <1>4 DEF Alone, Making
    <2> QED
      BY <2>2, <2>3, <2>4 DEF Standing
  <1>10. Recorded(on[t])'
    <2>1. on[t] \notin reg' /\ (pc[t] = "emit_end" => pc'[t] = "emit_unlist")
      BY <1>1, <1>2, <1>4
    <2> QED
      BY <1>1, <1>2, <1>3, <1>5, <1>6, <2>1, RecordKeeps
  <1>11. Noted(t, on[t])
    BY <1>2, NothingNoted DEF DeskInv
  <1>12. BulkCall(on[t])'
    <2>1. ~ Starting(t)' \/ Starting(t)
      BY <1>1, <1>2, <1>4 DEF Starting, Making
    <2>2. ~ Dialling(on[t])'
      BY <1>2 DEF Dialling
    <2>3. pc'[t] \notin Over
      BY <1>1, <1>4 DEF Over
    <2>4. pc[t] = "emit_end" => pc'[t] = "emit_unlist"
      BY <1>1, <1>4
    <2> QED
      BY <1>1, <1>2, <1>3, <1>6, <1>11, <2>1, <2>2, <2>3, <2>4, SameRequests, BulkKeeps DEF Over
  <1>13. t \in Tasks => (pc'[t] = "idle" <=> pc[t] = "idle")
    BY <1>1, <1>4
  <1> QED
    BY <1>2, <1>3, <1>5, <1>6, <1>7, <1>8, <1>9, <1>10, <1>11, <1>12, <1>13, PlainStepKeeps

LEMMA EmitUnlistKeeps ==
    ASSUME Told, DeskInv, UNCHANGED campaign, NEW t \in Threads, EmitUnlist(t) PROVE DeskInv'
  <1>1. PICK l : /\ Goto(t, l)
                 /\ \/ pc[t] = "emit_unlist" /\ l = "unlock"
                    \/ pc[t] = "unlist" /\ l = "idle"
                    \/ pc[t] = "on_ended_unlist" /\ l = Ended(t)
    BY DEF EmitUnlist, At
  <1>2. /\ t \notin Panels /\ on[t] \in Calls
        /\ UNCHANGED <<offers, requests, state, held, reg, on, then, seen, claims, answered>>
        /\ UNCHANGED <<left, finished, result>>
    BY <1>1 DEF EmitUnlist, calls, history, campaign, Told, Locked, PanelSteps, OnTypes
  <1>3. /\ OnTypes /\ Locked /\ StateTypes /\ ListTypes
        /\ Recorded(on[t]) /\ BulkCall(on[t]) /\ Standing(t) /\ \A u \in Threads : Standing(u)
    BY <1>2 DEF DeskInv, Told
  <1>4. pc'[t] = l /\ \A u \in Threads : u # t => pc'[u] = pc[u]
    BY <1>1, <1>3, GotoMoves
  <1>5. /\ ~ Fresh(on[t]) /\ pc[t] \notin Making /\ Acting(t) /\ state[on[t]] \notin Early
        /\ \A u \in Threads : u # t /\ on[u] = on[t] => pc[u] \notin Making
        /\ then[t] # "idle" => pc[t] \in Emitting
    BY <1>1, <1>2, <1>3, AtWork DEF Making
  <1>6. /\ list'[on[t]] = Unlisted
        /\ rows' \in [Calls -> Nat] /\ (rows[on[t]] > 0 => rows'[on[t]] > 0)
        /\ list[on[t]] # Unlisted => rows'[on[t]] > 0
        /\ \A j \in Calls : j # on[t] => list'[j] = list[j] /\ rows'[j] = rows[j]
    <2>1. CASE list[on[t]] = Unlisted
      <3>1. list' = list /\ rows' = rows
        BY <2>1 DEF EmitUnlist, Unlist
      <3> QED
        BY <1>3, <2>1, <3>1 DEF StateTypes
    <2>2. CASE list[on[t]] # Unlisted
      <3>1. /\ list' = [list EXCEPT ![on[t]] = Unlisted]
            /\ rows' = [rows EXCEPT ![on[t]] = @ + 1]
        BY <2>2 DEF EmitUnlist, Unlist
      <3>2. rows \in [Calls -> Nat] /\ list = [k \in Calls |-> list[k]]
        BY <1>3 DEF StateTypes, OnTypes
      <3> QED
        BY <1>2, <3>1, <3>2
    <2> QED
      BY <2>1, <2>2
  <1>7. Moves(t, on[t])
    BY <1>2, <1>4 DEF Moves
  <1>8. Harmless(t, on[t])
    BY <1>2, <1>5, <1>6 DEF Harmless
  <1>9. StateTypes'
    BY <1>2, <1>3, <1>6 DEF StateTypes
  <1>10. ListTypes'
    BY <1>3, <1>6 DEF ListTypes
  <1>l. /\ t \in Clients => l \in {"unlock", "idle", "remove"}
        /\ t \in Tasks => \/ pc[t] = "emit_unlist" /\ l = "unlock"
                          \/ pc[t] = "on_ended_unlist" /\ l = "closing"
        /\ t \in {Loop, Relay} => l \in {"unlock", "idle"}
        /\ pc[t] = "emit_unlist" <=> l = "unlock"
    BY <1>1, <1>3, WhoIsWho DEF Ended, Standing, Place, Emitting, Making
  <1>11. Standing(t)'
    <2>1. (pc[t] \in Emitting <=> l \in Emitting) /\ l \in {"unlock", "idle", "remove", "closing"}
      BY <1>1, <1>l, WhoIsWho, <1>2 DEF Emitting
    <2>2. Place(t)'
      BY <1>1, <1>2, <1>3, <1>4, <1>l, <2>1, WhoIsWho DEF Place, Standing, Emitting
    <2>3. Stage(t)'
      BY <1>2, <1>3, <1>4, <1>5, <1>l, <2>1 DEF Stage, Standing, Emitting
    <2>4. Alone(t)'
      BY <1>4, <2>1 DEF Alone, Making
    <2> QED
      BY <2>2, <2>3, <2>4 DEF Standing
  <1>12. Recorded(on[t])'
    <2>1. /\ on'[t] = on[t] /\ \A u \in Threads : u # t => pc'[u] = pc[u] /\ on'[u] = on[u]
          /\ pc[t] \notin {"emit_read", "emit_write", "tell", "told", "begin", "offer", "emit_end"}
      BY <1>1, <1>2, <1>4
    <2>2. \/ rows'[on[t]] > 0
          \/ \E u \in Threads : u # t /\ on'[u] = on[t] /\ pc'[u] \in {"emit_read", "emit_write", "tell"}
      BY <1>3, <1>5, <1>6, <2>1 DEF Recorded
    <2>3. state[on[t]] = "ended" =>
             \A u \in Threads : on[u] = on[t] => pc[u] \notin {"emit_read", "emit_write"}
      BY <1>3 DEF Standing, Stage
    <2>4. state'[on[t]] = "ended" =>
             \/ rows'[on[t]] > 0
             \/ \E u \in Threads : on'[u] = on[t] /\ pc'[u] \in {"emit_end", "emit_unlist", "tell", "told"}
      BY <1>2, <2>1, <2>2, <2>3
    <2>5. on[t] \in reg' => \/ state'[on[t]] \notin Early \cup {"ended"}
                            \/ \E u \in Threads : on'[u] = on[t] /\ pc'[u] \in {"begin", "offer", "emit_end"}
      BY <1>2, <1>3, <2>1 DEF Recorded
    <2> QED
      BY <1>2, <1>6, <2>2, <2>4, <2>5 DEF Recorded
  <1>13. Noted(t, on[t])
    BY <1>2, NothingNoted DEF DeskInv
  <1>14. BulkCall(on[t])'
    <2>1. ~ Starting(t)' \/ Starting(t)
      BY <1>2, <1>4, <1>l, WhoIsWho DEF Starting, Making
    <2>2. Dialling(on[t])' <=> Dialling(on[t])
      BY <1>2 DEF Dialling
    <2>3. t \in Tasks /\ pc'[t] \in Over => ~ Dialling(on[t])
      BY <1>3, <1>4, <1>l DEF Over, Standing, Stage, Dialling
    <2>4. t \in Tasks => pc'[t] # "idle"
      BY <1>4, <1>l
    <2> QED
      BY <1>2, <1>3, <1>6, <1>7, <1>13, <2>1, <2>2, <2>3, <2>4, SameRequests, BulkKeeps
  <1>15. t \in Tasks => (pc'[t] = "idle" <=> pc[t] = "idle")
    BY <1>4, <1>l, <1>1
  <1> QED
    BY <1>2, <1>3, <1>5, <1>7, <1>8, <1>9, <1>10, <1>11, <1>12, <1>13, <1>14, <1>15, PlainStepKeeps

LEMMA UnlockKeeps == ASSUME Told, DeskInv, UNCHANGED campaign, NEW t \in Threads, Unlock(t) PROVE DeskInv'
  <1>1. /\ pc[t] = "unlock" /\ Goto(t, then[t])
        /\ held' = [held EXCEPT ![on[t]] = Free] /\ then' = [then EXCEPT ![t] = "idle"]
        /\ UNCHANGED <<offers, requests, state, reg, list, rows, on, seen, claims, answered>>
        /\ UNCHANGED <<left, finished, result>>
    BY DEF Unlock, At, broker, history, campaign
  <1>2. t \notin Panels /\ on[t] \in Calls
    BY <1>1 DEF Told, Locked, PanelSteps, OnTypes
  <1>3. /\ OnTypes /\ Locked /\ StateTypes /\ ListTypes
        /\ Recorded(on[t]) /\ BulkCall(on[t]) /\ Standing(t) /\ \A u \in Threads : Standing(u)
    BY <1>2 DEF DeskInv, Told
  <1>4. /\ pc'[t] = then[t] /\ \A u \in Threads : u # t => pc'[u] = pc[u]
        /\ then'[t] = "idle" /\ \A u \in Threads : u # t => then'[u] = then[u]
        /\ held'[on[t]] = Free /\ \A j \in Calls : j # on[t] => held'[j] = held[j]
    BY <1>1, <1>2, <1>3, GotoMoves DEF StateTypes
  <1>5. /\ ~ Fresh(on[t]) /\ pc[t] \notin Making /\ Acting(t) /\ state[on[t]] \notin Early
        /\ \A u \in Threads : u # t /\ on[u] = on[t] => pc[u] \notin Making
    BY <1>1, <1>2, <1>3, AtWork DEF Making
  <1>6. held[on[t]] = t /\ pc[t] \in Emitting
    BY <1>1, <1>2, <1>3 DEF Standing, Stage, Emitting
  <1>7. /\ t \in Clients => then[t] \in {"idle", "listing", "on_ended", "remove", "release"}
        /\ t \in Tasks => then[t] \in {"dialled", "on_ended"}
        /\ t = Loop => then[t] \in {"idle", "on_ended"}
        /\ t = Relay => then[t] = "idle"
        /\ then[t] = "on_ended" => state[on[t]] = "ended"
    BY <1>3, <1>6 DEF Standing, Place, Stage
  <1>8. then[t] \in {"idle", "listing", "on_ended", "remove", "release", "dialled"}
    BY <1>2, <1>7, WhoIsWho
  <1>9. Moves(t, on[t])
    BY <1>1, <1>4 DEF Moves
  <1>10. Harmless(t, on[t])
    BY <1>1, <1>4, <1>5, <1>6 DEF Harmless
  <1>11. StateTypes'
    BY <1>1, <1>3 DEF StateTypes
  <1>12. ListTypes'
    BY <1>1, <1>3 DEF ListTypes
  <1>13. Standing(t)'
    <2>1. then[t] \notin Emitting
      BY <1>8 DEF Emitting
    <2>2. Place(t)'
      BY <1>2, <1>4, <1>7, <2>1, WhoIsWho DEF Place
    <2>3. Stage(t)'
      <3>1. \A j \in Calls : held'[j] # t
        BY <1>3, <1>4, WhoIsWho DEF Standing, Stage
      <3> QED
        BY <1>1, <1>4, <1>5, <1>7, <1>8, <2>1, <3>1 DEF Stage
    <2>4. Alone(t)'
      BY <1>4, <1>8 DEF Alone, Making
    <2> QED
      BY <2>2, <2>3, <2>4 DEF Standing
  <1>14. Recorded(on[t])'
    <2>1. UNCHANGED <<rows, list, state, reg, on>> /\ pc[t] = "unlock"
      BY <1>1
    <2> QED
      BY <1>2, <1>3, <1>9, <2>1, RecordKeeps
  <1>15. Noted(t, on[t])
    BY <1>1, NothingNoted DEF DeskInv
  <1>16. BulkCall(on[t])'
    <2>1. Starting(t)' => Starting(t)
      BY <1>4, <1>8 DEF Starting, Making
    <2>2. Dialling(on[t])' <=> Dialling(on[t])
      BY <1>1 DEF Dialling
    <2>3. t \in Tasks => pc'[t] \notin Over
      BY <1>4, <1>7 DEF Over
    <2> QED
      <3>1. UNCHANGED <<offers, requests, left, list, state, on>> /\ pc[t] = "unlock"
        BY <1>1
      <3>2. t \in Tasks => pc'[t] # "idle"
        BY <2>3 DEF Over
      <3> QED
        BY <1>2, <1>3, <1>9, <1>15, <2>1, <2>2, <2>3, <3>1, <3>2, SameRequests, BulkKeeps
  <1>17. t \in Tasks => (pc'[t] = "idle" <=> pc[t] = "idle")
    BY <1>1, <1>4, <1>7
  <1> QED
    BY <1>1, <1>2, <1>3, <1>5, <1>9, <1>10, <1>11, <1>12, <1>13, <1>14, <1>15, <1>16, <1>17, PlainStepKeeps

-----------------------------------------------------------------------------
(* A call that is made *)

\* A step within the making of a call: t is at it alone.
LEMMA MakingKeeps ==
    ASSUME Told, DeskInv, NEW t \in Threads, t \notin Panels, pc[t] \in Making, NEW l, Goto(t, l),
           NEW s \in CallStates \cup {"none"}, state' = [state EXCEPT ![on[t]] = s],
           reg' \subseteq Calls, \A j \in Calls : j # on[t] => (j \in reg' <=> j \in reg),
           \/ /\ pc[t] = "create" /\ l = "begin" /\ s = "none" /\ on[t] \in reg'
           \/ /\ pc[t] = "begin" /\ l = "offer" /\ s = "initiating" /\ t \notin {Loop, Relay} /\ reg' = reg
           \/ /\ pc[t] = "begin" /\ l = "tell" /\ s = "incoming_ringing" /\ t = Loop /\ reg' = reg
           \/ /\ pc[t] = "offer" /\ s = state[on[t]] /\ on[t] \notin reg'
              /\ l = IF t \in Tasks THEN "failed" ELSE "idle",
           UNCHANGED <<offers, requests, held, list, rows, on, then, seen, claims, answered, campaign>>
    PROVE  DeskInv'
  <1>1. /\ OnTypes /\ Locked /\ StateTypes /\ ListTypes /\ on[t] \in Calls
        /\ Recorded(on[t]) /\ BulkCall(on[t]) /\ Standing(t) /\ \A u \in Threads : Standing(u)
        /\ on' = on
    BY DEF DeskInv, Told, OnTypes
  <1>2. pc'[t] = l /\ \A u \in Threads : u # t => pc'[u] = pc[u]
    BY <1>1, GotoMoves
  <1>3. state'[on[t]] = s /\ \A j \in Calls : j # on[t] => state'[j] = state[j]
    BY <1>1 DEF StateTypes
  <1>4. /\ ~ Fresh(on[t]) /\ then[t] = "idle"
        /\ \A u \in Threads : u # t /\ on[u] = on[t] => Resting(u) /\ pc[u] \notin Making \cup Emitting
    <2>1. ~ Fresh(on[t]) /\ (then[t] # "idle" => pc[t] \in Emitting)
      BY <1>1, AtWork DEF Making
    <2>2. \A u \in Threads : u # t /\ on[u] = on[t] => Resting(u)
      BY <1>1 DEF Standing, Alone
    <2>3. \A u \in Threads : Resting(u) => pc[u] \notin Making \cup Emitting
      BY DEF Resting, PanelSteps, Making, Emitting
    <2> QED
      BY <2>1, <2>2, <2>3 DEF Making, Emitting
  <1>5. /\ pc[t] \in {"create", "begin"} => state[on[t]] = "none"
        /\ pc[t] = "offer" => state[on[t]] = "initiating"
        /\ pc[t] \in {"begin", "offer"} => on[t] \in reg
        /\ \A k \in Calls : held[k] # t
    BY <1>1 DEF Standing, Stage, Making, Emitting
  <1>6. state[on[t]] \in Early
    BY <1>5 DEF Making, Early
  <1>7. Moves(t, on[t])
    BY <1>1, <1>2 DEF Moves
  <1>8. Harmless(t, on[t])
    BY <1>3, <1>4, <1>6 DEF Harmless, Early
  <1>9. StateTypes' /\ ListTypes'
    BY <1>1 DEF StateTypes, ListTypes
  <1>10. Standing(t)'
    <2>1. l \in {"begin", "offer", "tell", "failed", "idle"} /\ l \notin Emitting /\ pc[t] \notin Emitting
      BY DEF Emitting, Making
    <2>2. Place(t)'
      BY <1>1, <1>2, <1>4, <2>1, WhoIsWho DEF Place, Standing, Making
    <2>3. Stage(t)'
      <3>1. \A k \in Calls : held'[k] = t <=> pc'[t] \in Emitting /\ on'[t] = k
        BY <1>2, <1>5, <2>1
      <3>2. l \in {"begin", "offer"} => on[t] \in reg'
        BY <1>5
      <3>3. /\ l = "begin" => s = "none"
            /\ l = "offer" => s = "initiating"
            /\ l = "tell" => s \notin Early
        BY DEF Early
      <3> QED
        BY <1>1, <1>2, <1>3, <2>1, <3>1, <3>2, <3>3 DEF Stage, Acting, PanelSteps, Making
    <2>4. Alone(t)'
      BY <1>1, <1>2, <1>4 DEF Alone, Resting
    <2> QED
      BY <2>2, <2>3, <2>4 DEF Standing
  <1>11. Recorded(on[t])'
    <2>1. /\ s # "ended" /\ (s \notin Early => pc'[t] = "tell")
          /\ pc[t] \notin {"emit_read", "emit_write", "tell", "emit_end"}
      BY <1>2, <1>5 DEF Early, Making
    <2>2. on[t] \in reg' => s \notin Early \cup {"ended"} \/ pc'[t] \in {"begin", "offer", "emit_end"}
      BY <1>2 DEF Early
    <2> QED
      BY <1>1, <1>3, <1>6, <1>7, <2>1, <2>2, RecordKeeps
  <1>12. Noted(t, on[t]) /\ UNCHANGED <<left, finished, result>>
    BY NothingNoted DEF campaign, DeskInv
  <1>13. BulkCall(on[t])'
    <2>1. Starting(t)
      BY DEF Starting
    <2>2. CASE t \notin Tasks
      <3>1. ~ Bulk(on[t])
        BY <1>1, <2>1, <2>2 DEF BulkCall
      <3>2. ~ Bulk(on[t])'
        BY <1>1, <1>12, <3>1 DEF Bulk
      <3> QED
        BY <3>2 DEF BulkCall
    <2>3. CASE t \in Tasks
      <3>1. l # "tell" /\ l # "idle" /\ (l \in Over => on[t] \notin reg')
        BY <2>3, WhoIsWho DEF Over
      <3>2. Dialling(on[t])' => l \notin Over
        BY <1>1, <3>1 DEF Dialling
      <3>3. s # "ended"
        BY <1>5, <2>3, WhoIsWho DEF Making
      <3> QED
        BY <1>1, <1>2, <1>3, <1>7, <1>12, <2>1, <3>1, <3>2, <3>3, SameRequests, BulkKeeps
    <2> QED
      BY <2>2, <2>3
  <1>14. t \in Tasks => (pc'[t] = "idle" <=> pc[t] = "idle")
    BY <1>2 DEF Making
  <1> QED
    BY <1>1, <1>4, <1>7, <1>8, <1>9, <1>10, <1>11, <1>12, <1>13, <1>14, PlainStepKeeps

LEMMA CreateCallKeeps ==
    ASSUME Told, DeskInv, UNCHANGED campaign, NEW t \in Threads, CreateCall(t) PROVE DeskInv'
  <1>1. /\ pc[t] = "create" /\ Goto(t, "begin") /\ reg' = reg \cup {on[t]} /\ state' = state
        /\ UNCHANGED <<offers, requests, held, list, rows, on, then, seen, claims, answered>>
    BY DEF CreateCall, At, broker, history
  <1>2. t \notin Panels /\ on[t] \in Calls /\ StateTypes /\ Standing(t)
    BY <1>1 DEF Told, Locked, PanelSteps, OnTypes, DeskInv
  <1>3. state[on[t]] = "none" /\ state' = [state EXCEPT ![on[t]] = "none"]
    BY <1>1, <1>2 DEF Standing, Stage, StateTypes
  <1>4. reg' \subseteq Calls /\ \A j \in Calls : j # on[t] => (j \in reg' <=> j \in reg)
    BY <1>1, <1>2 DEF StateTypes
  <1> QED
    BY <1>1, <1>2, <1>3, <1>4, MakingKeeps DEF Making

LEMMA BeginCallKeeps ==
    ASSUME Told, DeskInv, UNCHANGED campaign, NEW c \in Callers, BeginCall(c) PROVE DeskInv'
  <1>1. /\ pc[c] = "begin" /\ Goto(c, "offer") /\ reg' = reg /\ state' = [state EXCEPT ![on[c]] = "initiating"]
        /\ UNCHANGED <<offers, requests, held, list, rows, on, then, seen, claims, answered>>
    BY DEF BeginCall, At, broker, history
  <1>2. c \in Threads /\ c \notin Panels /\ c \notin {Loop, Relay} /\ "initiating" \in CallStates \cup {"none"}
    BY PanelsApart, WhoIsWho DEF CallStates, Callers
  <1>3. reg' \subseteq Calls
    BY <1>1 DEF DeskInv, StateTypes
  <1> QED
    BY <1>1, <1>2, <1>3, MakingKeeps DEF Making

LEMMA HandleCallOfferKeeps == ASSUME Told, DeskInv, UNCHANGED campaign, HandleCallOffer PROVE DeskInv'
  <1>1. /\ pc[Loop] = "begin" /\ Goto(Loop, "tell") /\ reg' = reg
        /\ state' = [state EXCEPT ![on[Loop]] = "incoming_ringing"]
        /\ UNCHANGED <<offers, requests, held, list, rows, on, then, seen, claims, answered>>
    BY DEF HandleCallOffer, At, broker, history
  <1>2. Loop \in Threads /\ Loop \notin Panels /\ "incoming_ringing" \in CallStates \cup {"none"}
    BY WhoIsWho DEF CallStates
  <1>3. reg' \subseteq Calls
    BY <1>1 DEF DeskInv, StateTypes
  <1> QED
    BY <1>1, <1>2, <1>3, MakingKeeps DEF Making

LEMMA OfferSentKeeps ==
    ASSUME Told, DeskInv, UNCHANGED campaign, NEW c \in Callers, OfferSent(c) PROVE DeskInv'
  <1>1. /\ pc[c] = "offer" /\ UNCHANGED <<offers, requests, broker, on, seen, claims, answered>>
        /\ c \in Threads /\ c \notin Panels /\ on[c] \in Calls /\ (c \in Clients \/ c \in Tasks)
        /\ StateTypes
    BY PanelsApart DEF OfferSent, At, history, Told, OnTypes, Callers, DeskInv
  <1>2. CASE /\ Apply(c, on[c], "offer_sent", IF c \in Tasks THEN "dialled" ELSE "listing")
             /\ UNCHANGED reg
    <2> DEFINE next == IF c \in Tasks THEN "dialled" ELSE "listing"
    <2>1. next \in Next4(c) /\ next # "on_ended" /\ "offer_sent" \in Transitions
      BY <1>1, NextSteps DEF Transitions
    <2>2. answered' \in [Calls -> SUBSET Clients]
      BY <1>1 DEF StateTypes
    <2> HIDE DEF next
    <2>3. Apply(c, on[c], "offer_sent", next)
      BY <1>2 DEF next
    <2> QED
      BY <1>1, <1>2, <2>1, <2>2, <2>3, CallerApplies
  <1>3. CASE /\ reg' = reg \ {on[c]} /\ Goto(c, IF c \in Tasks THEN "failed" ELSE "idle")
             /\ UNCHANGED <<state, held, then>>
    <2>1. UNCHANGED <<list, rows>>
      BY <1>1 DEF broker
    <2>2. /\ state' = [state EXCEPT ![on[c]] = state[on[c]]] /\ state[on[c]] \in CallStates \cup {"none"}
          /\ reg' \subseteq Calls /\ \A j \in Calls : j # on[c] => (j \in reg' <=> j \in reg)
          /\ on[c] \notin reg'
      BY <1>1, <1>3 DEF StateTypes
    <2> QED
      BY <1>1, <1>3, <2>1, <2>2, MakingKeeps DEF Making
  <1> QED
    BY <1>2, <1>3 DEF OfferSent

-----------------------------------------------------------------------------
(* What is taken from the plan *)

LEMMA SameRequest ==
    ASSUME NEW q \in Asked, NEW r \in Asked, q.op = r.op, q.call = r.call
    PROVE  q = r
  BY DEF Asked

\* A client takes the first of its requests.
LEMMA Takes ==
    ASSUME OnTypes, NEW c \in Clients, requests[c] # <<>>, requests' = [requests EXCEPT ![c] = Tail(@)]
    PROVE  /\ 1 \in DOMAIN requests[c] /\ Head(requests[c]) = requests[c][1]
           /\ \A d \in Clients : \A i \in DOMAIN requests'[d] :
                 \/ d # c /\ i \in DOMAIN requests[d] /\ requests'[d][i] = requests[d][i]
                 \/ d = c /\ i + 1 \in DOMAIN requests[d] /\ requests'[d][i] = requests[d][i + 1] /\ i + 1 # 1
           /\ FewerRequests
  <1>1. requests[c] \in Seq(Asked) /\ requests'[c] = Tail(requests[c])
        /\ \A d \in Clients : d # c => requests'[d] = requests[d]
    BY DEF OnTypes
  <1> DEFINE q == requests[c]
  <1>2. \A i \in DOMAIN Tail(q) : i + 1 \in DOMAIN q /\ Tail(q)[i] = q[i + 1] /\ i + 1 # 1 /\ i \in Nat
    BY <1>1
  <1>3. 1 \in DOMAIN q /\ Head(q) = q[1]
    BY <1>1
  <1>4. \A d \in Clients : \A i \in DOMAIN requests'[d] :
                 \/ d # c /\ i \in DOMAIN requests[d] /\ requests'[d][i] = requests[d][i]
                 \/ d = c /\ i + 1 \in DOMAIN requests[d] /\ requests'[d][i] = requests[d][i + 1] /\ i + 1 # 1
    BY <1>1, <1>2
  <1> QED
    BY <1>3, <1>4 DEF FewerRequests

\* A thread that rests starts nothing.
LEMMA Idlers ==
    ASSUME \A u \in Threads : Standing(u), NEW t \in Threads, Resting(t)
    PROVE  pc[t] \notin Making \cup Emitting /\ ~ Starting(t)
  <1>1. pc[t] \notin Making \cup Emitting \cup {"listing", "tell", "told"}
    BY DEF Resting, PanelSteps, Making, Emitting
  <1>2. then[t] = "idle"
    BY <1>1 DEF Standing, Place
  <1> QED
    BY <1>1, <1>2 DEF Starting

\* A thread that was idle turns to a call of which nothing has happened.
LEMMA TurnsTo ==
    ASSUME Told, DeskInv, NEW t \in Threads, t \notin Panels, pc[t] = "idle", NEW k \in Calls, Fresh(k),
           NEW l, Goto(t, l), l = "idle" \/ (l = "create" /\ t # Relay) \/ (l = "failed" /\ t \in Tasks),
           on' = [on EXCEPT ![t] = k],
           UNCHANGED <<state, held, reg, list, rows, then, seen, claims, answered>>
    PROVE  /\ pc'[t] = l /\ on'[t] = k /\ Moves(t, k) /\ Harmless(t, k)
           /\ StateTypes' /\ ListTypes' /\ Standing(t)' /\ Recorded(k)'
           /\ ~ Dialling(k)' /\ state'[k] = "none"
           /\ \A u \in Threads : u # t /\ on'[u] = k => ~ Starting(u)'
           /\ then'[t] = "idle"
           /\ \A j \in Calls : j # k /\ Fresh(j) => Fresh(j)'
  <1>1. /\ OnTypes /\ Locked /\ StateTypes /\ ListTypes /\ Recorded(k) /\ Standing(t)
        /\ \A u \in Threads : Standing(u)
    BY DEF DeskInv, Told
  <1>2. /\ pc'[t] = l /\ on'[t] = k
        /\ \A u \in Threads : u # t => pc'[u] = pc[u] /\ on'[u] = on[u]
    BY <1>1, GotoMoves DEF OnTypes
  <1>3. /\ state[k] = "none" /\ \A u \in Threads : on[u] = k => Resting(u) /\ pc[u] \notin Making \cup Emitting
        /\ \A u \in Threads : on[u] = k => ~ Starting(u)
    <2>1. state[k] = "none" /\ \A u \in Threads : on[u] = k => Resting(u)
      BY DEF Fresh
    <2> QED
      BY <1>1, <2>1, Idlers
  <1>4. Moves(t, k)
    BY <1>2 DEF Moves
  <1>5. Harmless(t, k)
    BY <1>3 DEF Harmless
  <1>6. StateTypes' /\ ListTypes'
    BY <1>1 DEF StateTypes, ListTypes
  <1>7. then[t] = "idle" /\ \A j \in Calls : held[j] # t
    BY <1>1 DEF Standing, Place, Stage, Emitting
  <1>8. Standing(t)'
    <2>1. l \notin Emitting /\ l \in {"idle", "create", "failed"}
      BY DEF Emitting
    <2>2. Place(t)'
      BY <1>2, <1>7, <2>1, WhoIsWho DEF Place, Making
    <2>3. Stage(t)'
      BY <1>2, <1>3, <1>7, <2>1 DEF Stage, Acting, Making
    <2>4. Alone(t)'
      BY <1>2, <1>3 DEF Alone, Resting
    <2> QED
      BY <2>2, <2>3, <2>4 DEF Standing
  <1>9. Recorded(k)'
    <2>1. UNCHANGED <<state, list, rows, reg>> /\ pc[t] = "idle" /\ state'[k] = "none"
      BY <1>3
    <2> QED
      BY <1>1, <1>4, <2>1, RecordKeeps DEF Early
  <1>10. ~ Dialling(k)' /\ state'[k] = "none"
    BY <1>3 DEF Dialling
  <1>11. \A u \in Threads : u # t /\ on'[u] = k => ~ Starting(u)'
    BY <1>2, <1>3 DEF Starting
  <1>12. \A j \in Calls : j # k /\ Fresh(j) => Fresh(j)'
    BY <1>4, <1>5, OthersFresh
  <1> QED
    BY <1>2, <1>4, <1>5, <1>6, <1>7, <1>8, <1>9, <1>10, <1>11, <1>12

LEMMA Named ==
    ASSUME OnTypes
    PROVE  /\ ToSet(Numbers) \subseteq Calls /\ \A i \in DOMAIN left : left[i] \in Calls
           /\ IsFiniteSet(Working)
  <1>1. ToSet(Numbers) \subseteq Calls /\ \A i \in DOMAIN left : left[i] \in Calls
    BY BroadcastAssumption DEF ToSet, OnTypes
  <1>2. Working \in SUBSET Tasks /\ IsFiniteSet(Tasks)
    BY BroadcastAssumption DEF Working
  <1> QED
    BY <1>1, <1>2, FS_Subset

LEMMA OnIncomingOfferKeeps ==
    ASSUME Told, DeskInv, UNCHANGED campaign, NEW k \in Calls, OnIncomingOffer(k) PROVE DeskInv'
  <1>1. /\ pc[Loop] = "idle" /\ k \in offers /\ offers' = offers \ {k} /\ on' = [on EXCEPT ![Loop] = k]
        /\ UNCHANGED <<requests, state, held, reg, list, rows, then, seen, claims, answered>>
        /\ UNCHANGED <<left, result, finished>>
        /\ Loop \in Threads /\ Loop \notin Panels /\ Loop # Relay /\ Loop \notin Tasks
    BY WhoIsWho DEF OnIncomingOffer, At, calls, broker, history, campaign
  <1>2. OnTypes /\ Locked /\ Plan /\ BulkCall(k) /\ Fresh(k) /\ \A j \in Calls : BulkCall(j)
    BY <1>1 DEF Told, DeskInv, Plan, Sources
  <1>3. PICK l \in {"idle", "create"} : Goto(Loop, l)
    <2>1. UNCHANGED pc => Goto(Loop, "idle")
      BY <1>1, <1>2 DEF Goto, Locked
    <2> QED
      BY <2>1 DEF OnIncomingOffer
  <1>4. /\ Moves(Loop, k) /\ Harmless(Loop, k) /\ StateTypes' /\ ListTypes' /\ Standing(Loop)' /\ Recorded(k)'
        /\ \A j \in Calls : j # k /\ Fresh(j) => Fresh(j)'
    BY <1>1, <1>2, <1>3, TurnsTo
  <1>5. ~ Bulk(k)
    BY <1>1, <1>2 DEF BulkCall
  <1>6. BulkCall(k)'
    <2>1. ~ Bulk(k)'
      BY <1>1, <1>5 DEF Bulk
    <2> QED
      BY <2>1 DEF BulkCall
  <1>7. Working' = Working
    BY <1>1, <1>4, WhoIsWho DEF Working, Moves
  <1>8. Sources'
    <2>1. \A j \in offers' : Fresh(j)'
      BY <1>1, <1>2, <1>4 DEF Plan, Sources, OnTypes
    <2>2. \A c \in Clients : \A i \in DOMAIN requests[c] :
             requests[c][i].op = "start" => requests[c][i].call # k /\ Fresh(requests[c][i].call)'
      BY <1>1, <1>2, <1>4, RequestTypes DEF Plan, Sources
    <2> QED
      BY <1>1, <1>2, <2>1, <2>2 DEF Plan, Sources
  <1>9. Campaigning'
    <2>1. \A i \in DOMAIN left : left[i] # k /\ Fresh(left[i])'
      BY <1>1, <1>2, <1>4, <1>5, Named DEF Plan, Campaigning
    <2> QED
      BY <1>1, <1>2, <1>7, <2>1 DEF Plan, Campaigning, Bulk
  <1>10. Waiting'
    <2>1. \A c \in Clients : \A i \in DOMAIN requests[c] :
             requests[c][i].op = "broadcast" => \A j \in ToSet(Numbers) : j # k /\ Fresh(j)'
      BY <1>1, <1>2, <1>4, Named DEF Plan, Waiting
    <2> QED
      BY <1>1, <1>2, <1>7, <2>1 DEF Plan, Waiting
  <1>11. Plan'
    BY <1>8, <1>9, <1>10 DEF Plan
  <1> QED
    BY <1>1, <1>2, <1>4, <1>6, <1>11, SameRequests, StepKeeps

LEMMA Numbered ==
    ASSUME OnTypes, NEW c \in Clients, requests[c] # <<>>, requests' = [requests EXCEPT ![c] = Tail(@)]
    PROVE  \A d \in Clients : \A i \in DOMAIN requests'[d] : i \in Nat /\ requests'[d][i] \in Asked
  <1>1. requests[c] \in Seq(Asked)
    BY DEF OnTypes
  <1>2. Tail(requests[c]) \in Seq(Asked)
    BY <1>1
  <1>3. \A d \in Clients : requests'[d] \in Seq(Asked)
    BY <1>2 DEF OnTypes
  <1> QED
    BY <1>3

\* The rest of what is asked for is as fresh, if only a call that is being started changes.
LEMMA SourcesLeft ==
    ASSUME OnTypes, Sources, NEW c \in Clients, requests[c] # <<>>,
           requests' = [requests EXCEPT ![c] = Tail(@)], UNCHANGED offers,
           NEW k \in Calls, k = Head(requests[c]).call, NEW op, op = Head(requests[c]).op,
           \A j \in Calls : Fresh(j) /\ (j = k => op # "start") => Fresh(j)'
    PROVE  Sources'
  <1>1. /\ 1 \in DOMAIN requests[c] /\ Head(requests[c]) = requests[c][1]
        /\ \A d \in Clients : \A i \in DOMAIN requests'[d] :
              \/ d # c /\ i \in DOMAIN requests[d] /\ requests'[d][i] = requests[d][i]
              \/ d = c /\ i + 1 \in DOMAIN requests[d] /\ requests'[d][i] = requests[d][i + 1] /\ i + 1 # 1
    BY Takes
  <1>2. requests[c][1] \in Asked
    BY <1>1, RequestTypes
  <1>3. \A d \in Clients : \A i \in DOMAIN requests[d] :
           requests[d][i].op = "start" /\ op = "start" /\ requests[d][i].call = k => d = c /\ i = 1
    <2> SUFFICES ASSUME NEW d \in Clients, NEW i \in DOMAIN requests[d], requests[d][i].op = "start",
                        op = "start", requests[d][i].call = k
                 PROVE  d = c /\ i = 1
      OBVIOUS
    <2>1. requests[d][i] = requests[c][1]
      BY <1>1, <1>2, RequestTypes, SameRequest
    <2> QED
      BY <1>1, <2>1 DEF Sources
  <1>4. op = "start" => k \notin offers
    BY <1>1 DEF Sources
  <1>5. \A j \in offers' : Fresh(j)'
    BY <1>4 DEF Sources, OnTypes
  <1>6. ASSUME NEW d \in Clients, NEW i \in DOMAIN requests'[d], NEW r \in Asked,
               r = requests'[d][i], r.op = "start"
        PROVE  /\ Fresh(r.call)' /\ r.call \notin offers'
               /\ \A e \in Clients : \A j \in DOMAIN requests'[e] :
                     requests'[e][j] = r => e = d /\ j = i
    <2>1. PICK n \in DOMAIN requests[d] : r = requests[d][n] /\ (d = c => n = i + 1) /\ (d # c => n = i)
      BY <1>1, <1>6
    <2>2. r.call \in Calls /\ (d = c => n # 1)
      BY <1>1, <1>6, <2>1, RequestTypes
    <2>3. Fresh(r.call) /\ r.call \notin offers /\ (r.call = k => op # "start")
      BY <1>3, <1>6, <2>1, <2>2 DEF Sources
    <2>4. Fresh(r.call)'
      BY <2>2, <2>3
    <2>5. ASSUME NEW e \in Clients, NEW m \in DOMAIN requests'[e], requests'[e][m] = r
          PROVE  e = d /\ m = i
      <3>1. PICK o \in DOMAIN requests[e] : /\ requests'[e][m] = requests[e][o]
                                            /\ (e = c => o = m + 1) /\ (e # c => o = m)
        BY <1>1, <2>5
      <3>2. e = d /\ o = n
        <4>1. requests[e][o] = requests[d][n] /\ requests[d][n].op = "start"
          BY <1>6, <2>1, <2>5, <3>1
        <4> QED
          BY <4>1 DEF Sources
      <3>3. m \in Nat /\ i \in Nat
        BY Numbered
      <3> QED
        BY <2>1, <3>1, <3>2, <3>3
    <2> QED
      BY <2>3, <2>4, <2>5
  <1>7. ASSUME NEW d \in Clients, NEW i \in DOMAIN requests'[d], requests'[d][i].op = "start"
        PROVE  /\ state'[requests'[d][i].call] = "none"
               /\ \A t \in Threads : on'[t] = requests'[d][i].call => pc'[t] \in PanelSteps \cup {"idle"}
               /\ requests'[d][i].call \notin offers'
               /\ \A e \in Clients : \A j \in DOMAIN requests'[e] :
                     requests'[e][j] = requests'[d][i] => e = d /\ j = i
    <2>1. PICK r \in Asked : r = requests'[d][i]
      BY Numbered
    <2> QED
      BY <1>6, <1>7, <2>1 DEF Fresh, Resting
  <1> QED
    BY <1>5, <1>7 DEF Sources, Fresh, Resting


LEMMA RequestKeeps ==
    ASSUME Told, DeskInv, UNCHANGED campaign, NEW c \in Clients, Request(c) PROVE DeskInv'
  <1> DEFINE q == Head(requests[c])
  <1>1. /\ pc[c] = "idle" /\ requests[c] # <<>> /\ requests' = [requests EXCEPT ![c] = Tail(@)]
        /\ q.op # "broadcast" /\ (q.op = "start" \/ state[q.call] \notin {"none", "initiating"})
        /\ on' = [on EXCEPT ![c] = q.call] /\ Goto(c, FirstStep(q.op, q.call))
        /\ UNCHANGED <<offers, state, held, reg, list, rows, then, seen, claims, answered>>
        /\ UNCHANGED <<left, result, finished>>
    BY DEF Request, At, calls, broker, history, campaign
  <1>2. /\ c \in Threads /\ c \notin Panels /\ c # Relay /\ c # Loop /\ c \notin Tasks
        /\ OnTypes /\ Locked /\ Plan /\ StateTypes /\ ListTypes /\ Standing(c)
        /\ (\A u \in Threads : Standing(u)) /\ \A j \in Calls : BulkCall(j) /\ Recorded(j)
    BY WhoIsWho DEF Told, DeskInv
  <1>3. /\ 1 \in DOMAIN requests[c] /\ q = requests[c][1]
        /\ \A d \in Clients : \A i \in DOMAIN requests'[d] :
              \/ d # c /\ i \in DOMAIN requests[d] /\ requests'[d][i] = requests[d][i]
              \/ d = c /\ i + 1 \in DOMAIN requests[d] /\ requests'[d][i] = requests[d][i + 1] /\ i + 1 # 1
        /\ FewerRequests
    BY <1>1, <1>2, Takes
  <1> HIDE DEF q
  <1>4. q \in Asked /\ q.call \in Calls
    BY <1>2, <1>3, RequestTypes
  <1>q. PICK k \in Calls : k = q.call
    BY <1>4
  <1>r. PICK op : op = q.op
    OBVIOUS
  <1>p. \A d \in Clients : \A i \in DOMAIN requests'[d] : i \in Nat
    BY <1>1, <1>2, Numbered
  <1>5. Working' = Working
    <2>1. pc'[c] = FirstStep(op, k) /\ \A u \in Threads : u # c => pc'[u] = pc[u]
      BY <1>1, <1>2, <1>q, <1>r, GotoMoves
    <2> QED
      BY <1>2, <2>1, WhoIsWho DEF Working
  \* What is left of the plan, when calls but the one started stay fresh.
  <1>6. ASSUME \A j \in Calls : Fresh(j) /\ (j = k => op # "start") => Fresh(j)', op = "start" => Fresh(k)
        PROVE  Plan'
    <2>3. Sources'
      BY <1>1, <1>2, <1>6, <1>q, <1>r, SourcesLeft DEF Plan, q
    <2>4. Campaigning'
      <3>1. op = "start" => ~ Bulk(k)
        BY <1>2, <1>3, <1>q, <1>r DEF BulkCall
      <3>2. \A i \in DOMAIN left : Fresh(left[i])'
        BY <1>1, <1>2, <1>6, <3>1, Named DEF Plan, Campaigning
      <3> QED
        BY <1>1, <1>2, <1>5, <3>2 DEF Plan, Campaigning, Bulk
    <2>5. Waiting'
      <3> SUFFICES ASSUME NEW d \in Clients, NEW i \in DOMAIN requests'[d], requests'[d][i].op = "broadcast"
                   PROVE  /\ left' = <<>> /\ Working' = {} /\ ~finished'
                          /\ \A j \in ToSet(Numbers) : result'[j] = "none" /\ Fresh(j)' /\ j \notin offers'
                          /\ \A e \in Clients : \A m \in DOMAIN requests'[e] :
                                /\ requests'[e][m].op = "start" => requests'[e][m].call \notin ToSet(Numbers)
                                /\ requests'[e][m].op = "broadcast" => e = d /\ m = i
        BY DEF Waiting
      <3>1. PICK n \in DOMAIN requests[d] : /\ requests'[d][i] = requests[d][n]
                                            /\ (d = c => n = i + 1) /\ (d # c => n = i)
        BY <1>3
      <3>2. /\ left = <<>> /\ Working = {} /\ ~finished
            /\ \A j \in ToSet(Numbers) : result[j] = "none" /\ Fresh(j) /\ j \notin offers
            /\ \A e \in Clients : \A m \in DOMAIN requests[e] :
                  /\ requests[e][m].op = "start" => requests[e][m].call \notin ToSet(Numbers)
                  /\ requests[e][m].op = "broadcast" => e = d /\ m = n
        BY <1>2, <3>1 DEF Plan, Waiting
      <3>3. op = "start" => k \notin ToSet(Numbers)
        BY <1>3, <1>q, <1>r, <3>2
      <3>4. \A j \in ToSet(Numbers) : Fresh(j)'
        BY <1>2, <1>6, <3>2, <3>3, Named
      <3>5. \A e \in Clients : \A m \in DOMAIN requests'[e] :
                  /\ requests'[e][m].op = "start" => requests'[e][m].call \notin ToSet(Numbers)
                  /\ requests'[e][m].op = "broadcast" => e = d /\ m = i
        <4> SUFFICES ASSUME NEW e \in Clients, NEW m \in DOMAIN requests'[e]
                     PROVE  /\ requests'[e][m].op = "start" => requests'[e][m].call \notin ToSet(Numbers)
                            /\ requests'[e][m].op = "broadcast" => e = d /\ m = i
          OBVIOUS
        <4>1. PICK o \in DOMAIN requests[e] : /\ requests'[e][m] = requests[e][o]
                                              /\ (e = c => o = m + 1) /\ (e # c => o = m)
          BY <1>3
        <4>2. m \in Nat /\ i \in Nat
          BY <1>p
        <4> QED
          BY <3>1, <3>2, <4>1, <4>2
      <3> QED
        BY <1>1, <1>5, <3>2, <3>4, <3>5
    <2> QED
      BY <2>3, <2>4, <2>5 DEF Plan
  <1>7. CASE op = "start"
    <2>1. Fresh(k) /\ ~ Bulk(k)
      BY <1>2, <1>3, <1>7, <1>q, <1>r DEF Plan, Sources, BulkCall
    <2>2. PICK l \in {"idle", "create"} : Goto(c, l)
      BY <1>1, <1>7, <1>q, <1>r DEF FirstStep
    <2>3. /\ Moves(c, k) /\ Harmless(c, k) /\ StateTypes' /\ ListTypes' /\ Standing(c)' /\ Recorded(k)'
          /\ \A j \in Calls : j # k /\ Fresh(j) => Fresh(j)'
      <3>1. /\ on' = [on EXCEPT ![c] = k] /\ pc[c] = "idle" /\ Fresh(k)
            /\ l = "idle" \/ (l = "create" /\ c # Relay) \/ (l = "failed" /\ c \in Tasks)
        BY <1>1, <1>2, <1>q, <2>1
      <3>2. UNCHANGED <<state, held, reg, list, rows, then, seen, claims, answered>>
        BY <1>1
      <3> QED
        BY <1>2, <2>2, <3>1, <3>2, TurnsTo
    <2>4. BulkCall(k)'
      BY <1>1, <2>1 DEF BulkCall, Bulk
    <2>5. Plan'
      BY <1>6, <1>7, <2>1, <2>3
    <2> QED
      BY <1>1, <1>2, <1>3, <2>3, <2>4, <2>5, StepKeeps
  <1>8. CASE op # "start"
    <2>1. state[k] \notin Early /\ op \in Ops \ {"start", "broadcast"}
      BY <1>1, <1>4, <1>8, <1>q, <1>r DEF Early, Asked
    <2>2. PICK l \in {"idle", "remove", "accept", "reject", "end", "hold", "resume", "transfer", "pickup"} :
             Goto(c, l)
      BY <1>1, <1>8, <1>q, <1>r, <2>1 DEF FirstStep, Ops
    <2>3. /\ pc'[c] = l /\ on'[c] = k
          /\ \A u \in Threads : u # c => pc'[u] = pc[u] /\ on'[u] = on[u]
      BY <1>1, <1>2, <1>q, <2>2, GotoMoves DEF OnTypes
    <2>4. Moves(c, k)
      BY <1>1, <2>3 DEF Moves
    <2>5. \A u \in Threads : on[u] = k => pc[u] \notin Making
      BY <1>2, <2>1 DEF Standing, Stage, Making, Early
    <2>6. Harmless(c, k)
      BY <1>1, <2>5 DEF Harmless
    <2>7. StateTypes' /\ ListTypes'
      BY <1>1, <1>2 DEF StateTypes, ListTypes
    <2>8. then[c] = "idle" /\ (\A j \in Calls : held[j] # c) /\ l \notin Emitting \cup Making
      BY <1>1, <1>2 DEF Standing, Place, Stage, Emitting, Making
    <2>9. Standing(c)'
      <3>1. Place(c)'
        BY <1>1, <1>2, <2>3, <2>8, WhoIsWho DEF Place
      <3>2. Stage(c)'
        BY <1>1, <2>1, <2>3, <2>8 DEF Stage
      <3>3. Alone(c)'
        BY <2>3, <2>8 DEF Alone
      <3> QED
        BY <3>1, <3>2, <3>3 DEF Standing
    <2>10. Recorded(k)'
      <3>1. UNCHANGED <<rows, list, state, reg>> /\ pc[c] = "idle"
        BY <1>1
      <3> QED
        BY <1>2, <2>4, <3>1, RecordKeeps
    <2>11. Noted(c, k)
      BY <1>1, <1>2, NothingNoted
    <2>12. BulkCall(k)'
      <3>1. ~ Starting(c)'
        BY <1>1, <2>3, <2>8 DEF Starting
      <3>2. Dialling(k)' <=> Dialling(k)
        BY <1>1 DEF Dialling
      <3> QED
        BY <1>1, <1>2, <1>3, <2>4, <2>11, <3>1, <3>2, BulkKeeps
    <2>13. \A j \in Calls : Fresh(j) => Fresh(j)'
      <3>1. ~ Fresh(k)
        BY <2>1 DEF Fresh, Early
      <3> QED
        BY <1>2, <2>4, <2>6, <3>1, OthersFresh
    <2>14. Plan'
      BY <1>6, <1>8, <2>13
    <2> QED
      BY <1>1, <1>2, <1>3, <2>4, <2>6, <2>7, <2>9, <2>10, <2>12, <2>14, StepKeeps
  <1> QED
    BY <1>7, <1>8

LEMMA HandleBroadcastKeeps ==
    ASSUME Told, DeskInv, NEW c \in Clients, HandleBroadcast(c) PROVE DeskInv'
  <1> DEFINE q == Head(requests[c])
  <1>1. /\ requests[c] # <<>> /\ q.op = "broadcast" /\ requests' = [requests EXCEPT ![c] = Tail(@)]
        /\ left' = Numbers /\ finished' = (Numbers = <<>>)
        /\ result' = [k \in Calls |-> IF k \in ToSet(Numbers) THEN "queued" ELSE "none"]
        /\ UNCHANGED <<offers, state, held, reg, list, rows, pc, on, then, seen, claims, answered>>
    BY DEF HandleBroadcast, calls, broker, threads, history
  <1>2. /\ OnTypes /\ Plan /\ StateTypes /\ ListTypes /\ ToSet(Numbers) \subseteq Calls
        /\ (\A u \in Threads : Standing(u)) /\ \A j \in Calls : BulkCall(j) /\ Recorded(j)
    BY Named DEF Told, DeskInv
  <1>3. /\ 1 \in DOMAIN requests[c] /\ q = requests[c][1]
        /\ \A d \in Clients : \A i \in DOMAIN requests'[d] :
              \/ d # c /\ i \in DOMAIN requests[d] /\ requests'[d][i] = requests[d][i]
              \/ d = c /\ i + 1 \in DOMAIN requests[d] /\ requests'[d][i] = requests[d][i + 1] /\ i + 1 # 1
        /\ FewerRequests
    BY <1>1, <1>2, Takes
  <1>4. /\ left = <<>> /\ Working = {} /\ ~finished
        /\ \A k \in ToSet(Numbers) : result[k] = "none" /\ Fresh(k) /\ k \notin offers
        /\ \A d \in Clients : \A j \in DOMAIN requests[d] :
              /\ requests[d][j].op = "start" => requests[d][j].call \notin ToSet(Numbers)
              /\ requests[d][j].op = "broadcast" => d = c /\ j = 1
    BY <1>1, <1>2, <1>3 DEF Plan, Waiting
  <1>5. q \in Asked /\ q.call \in Calls
    BY <1>2, <1>3, RequestTypes
  <1>6. \A j \in Calls : Fresh(j) => Fresh(j)'
    BY <1>1 DEF Fresh, Resting
  <1>7. Working' = Working
    BY <1>1 DEF Working
  <1>8. Sources'
    <2>1. PICK k \in Calls : k = q.call
      BY <1>5
    <2> QED
      BY <1>1, <1>2, <1>6, <2>1, SourcesLeft DEF Plan
  <1> HIDE DEF q
  <1>9. \A k \in ToSet(Numbers) : Bulk(k)'
    BY <1>1, <1>2 DEF Bulk
  <1>10. Campaigning'
    <2>1. \A i \in DOMAIN Numbers : Numbers[i] \in ToSet(Numbers)
      BY DEF ToSet
    <2>2. \A i \in DOMAIN Numbers : Bulk(Numbers[i])' /\ Fresh(Numbers[i])'
      BY <1>2, <1>4, <1>6, <1>9, <2>1
    <2>3. \A i, j \in DOMAIN Numbers : Numbers[j] = Numbers[i] => j = i
      BY BroadcastAssumption DEF IsInjective
    <2>4. result' \in [Calls -> Results] /\ finished' \in BOOLEAN
      BY <1>1 DEF Results
    <2>5. \A k \in ToSet(Numbers) : result'[k] # "none"
      BY <1>1, <1>2
    <2>6. Cardinality(Working') <= Slots
      BY <1>2, <1>7 DEF Plan, Campaigning
    <2>7. \A i \in DOMAIN left' :
             /\ left'[i] \in ToSet(Numbers) /\ result'[left'[i]] # "none" /\ state'[left'[i]] = "none"
             /\ \A t \in Threads : on'[t] = left'[i] => pc'[t] \in PanelSteps \cup {"idle"}
             /\ \A j \in DOMAIN left' : left'[j] = left'[i] => j = i
      BY <1>1, <2>2, <2>3 DEF Bulk, Fresh, Resting
    <2> QED
      BY <1>1, <1>4, <1>7, <2>4, <2>5, <2>6, <2>7 DEF Campaigning, Bulk, Fresh, Resting
  <1>11. Waiting'
    <2>1. \A d \in Clients : \A i \in DOMAIN requests'[d] : requests'[d][i].op # "broadcast"
      BY <1>3, <1>4
    <2> QED
      BY <2>1 DEF Waiting
  <1>12. ASSUME NEW k \in Calls PROVE Recorded(k)'
    BY <1>1, <1>2 DEF Recorded
  <1>13. ASSUME NEW t \in Threads PROVE Standing(t)'
    <2>1. Place(t)' /\ Stage(t)' /\ Alone(t)'
      BY <1>1, <1>2 DEF Standing, Place, Stage, Alone, Acting, Resting
    <2> QED
      BY <2>1 DEF Standing
  <1>14. ASSUME NEW k \in Calls, Bulk(k)' PROVE BulkCall(k)'
    <2>1. k \in ToSet(Numbers) /\ Fresh(k) /\ k \notin offers /\ state[k] = "none"
      BY <1>4, <1>14 DEF Bulk, Fresh
    <2>2. \A d \in Clients : \A i \in DOMAIN requests'[d] :
             requests'[d][i].op = "start" => requests'[d][i].call # k
      BY <1>3, <1>4, <2>1
    <2>3. \A t \in Threads : on[t] = k => ~ Starting(t)
      BY <1>2, <2>1, Idlers DEF Fresh
    <2>4. \E i \in DOMAIN left' : left'[i] = k
      BY <1>1, <2>1 DEF ToSet
    <2> QED
      BY <1>1, <2>1, <2>2, <2>3, <2>4 DEF BulkCall, Starting, Dialling
  <1>15. \A k \in Calls : BulkCall(k)'
    BY <1>14 DEF BulkCall
  <1>16. StateTypes' /\ ListTypes'
    BY <1>1, <1>2 DEF StateTypes, ListTypes
  <1>17. Plan'
    BY <1>8, <1>10, <1>11 DEF Plan
  <1> QED
    BY <1>12, <1>13, <1>15, <1>16, <1>17 DEF DeskInv

LEMMA SlotsAreSome == Slots \in Nat /\ Slots >= 1 /\ Slots <= MaxCalls /\ MaxCalls \in Nat
  BY DeskAssumption, BroadcastAssumption DEF Slots

LEMMA CallNextKeeps ==
    ASSUME Told, DeskInv, NEW t \in Tasks, CallNext(t) PROVE DeskInv'
  <1>1. /\ left # <<>> /\ pc[t] = "idle" /\ Cardinality(Working) < Slots
        /\ left' = Tail(left) /\ on' = [on EXCEPT ![t] = Head(left)]
        /\ UNCHANGED <<offers, requests, state, held, reg, list, rows, then, seen, claims, answered>>
        /\ UNCHANGED <<result, finished>>
    BY DEF CallNext, At, calls, broker, history
  <1>2. /\ OnTypes /\ Plan /\ StateTypes /\ ListTypes
        /\ t \in Threads /\ t \notin Panels /\ t # Relay
        /\ (\A u \in Threads : Standing(u)) /\ \A j \in Calls : BulkCall(j) /\ Recorded(j)
    BY WhoIsWho DEF Told, DeskInv
  <1>3. /\ left \in Seq(Calls) /\ 1 \in DOMAIN left /\ Head(left) = left[1] /\ left[1] \in Calls
        /\ \A i \in DOMAIN left' : i + 1 \in DOMAIN left /\ left'[i] = left[i + 1] /\ i + 1 # 1 /\ i \in Nat
        /\ \A i \in DOMAIN left : i # 1 => \E n \in DOMAIN left' : left'[n] = left[i]
    <2>1. left \in Seq(Calls)
      BY <1>2 DEF OnTypes
    <2>2. 1 \in DOMAIN left /\ Head(left) = left[1] /\ left[1] \in Calls
      BY <1>1, <2>1
    <2>3. \A i \in DOMAIN Tail(left) : i + 1 \in DOMAIN left /\ Tail(left)[i] = left[i + 1] /\ i + 1 # 1 /\ i \in Nat
      BY <1>1, <2>1
    <2>4. \A i \in DOMAIN left : i # 1 => i - 1 \in DOMAIN Tail(left) /\ Tail(left)[i - 1] = left[i]
      BY <1>1, <2>1
    <2> QED
      BY <1>1, <2>1, <2>2, <2>3, <2>4
  <1>4. PICK k \in Calls : k = left[1]
    BY <1>3
  <1>5. /\ Bulk(k) /\ Fresh(k) /\ (\A j \in DOMAIN left : left[j] = k => j = 1)
        /\ \A j \in ToSet(Numbers) : result[j] # "none"
        /\ \A d \in Clients : \A i \in DOMAIN requests[d] : requests[d][i].op # "broadcast"
        /\ ~ finished
    BY <1>1, <1>2, <1>3, <1>4 DEF Plan, Campaigning, Waiting
  <1>6. PICK l \in {"create", "failed"} : Goto(t, l)
    BY DEF CallNext
  <1>7. /\ pc'[t] = l /\ on'[t] = k /\ Moves(t, k) /\ Harmless(t, k)
        /\ StateTypes' /\ ListTypes' /\ Standing(t)' /\ Recorded(k)'
        /\ ~ Dialling(k)' /\ state'[k] = "none"
        /\ \A u \in Threads : u # t /\ on'[u] = k => ~ Starting(u)'
        /\ \A j \in Calls : j # k /\ Fresh(j) => Fresh(j)'
    <2>1. /\ on' = [on EXCEPT ![t] = k] /\ pc[t] = "idle"
          /\ l = "idle" \/ (l = "create" /\ t # Relay) \/ (l = "failed" /\ t \in Tasks)
      BY <1>1, <1>2, <1>3, <1>4
    <2>2. UNCHANGED <<state, held, reg, list, rows, then, seen, claims, answered>>
      BY <1>1
    <2>3. t \in Threads /\ t \notin Panels /\ Fresh(k)
      BY <1>2, <1>5
    <2>4. pc'[t] = l /\ on'[t] = k
      BY <1>2, <1>6, <2>1, GotoMoves DEF Told, OnTypes
    <2>5. /\ Moves(t, k) /\ Harmless(t, k) /\ StateTypes' /\ ListTypes' /\ Standing(t)' /\ Recorded(k)'
          /\ ~ Dialling(k)' /\ state'[k] = "none"
          /\ \A u \in Threads : u # t /\ on'[u] = k => ~ Starting(u)'
          /\ \A j \in Calls : j # k /\ Fresh(j) => Fresh(j)'
      BY <1>6, <2>1, <2>2, <2>3, TurnsTo
    <2> QED
      BY <2>4, <2>5
  <1>8. BulkCall(k)'
    <2>1. /\ k \notin offers
          /\ \A d \in Clients : \A i \in DOMAIN requests[d] :
                requests[d][i].op = "start" => requests[d][i].call # k
      BY <1>2, <1>5 DEF BulkCall
    <2>2. \A u \in Threads : on'[u] = k /\ Starting(u)' => u \in Tasks
      BY <1>7
    <2>3. state'[k] # "ended" /\ ~ Dialling(k)' /\ on'[t] = k /\ pc'[t] # "idle"
      BY <1>7
    <2> QED
      BY <1>1, <2>1, <2>2, <2>3 DEF BulkCall
  <1>9. Sources'
    <2>1. \A j \in offers : j # k
      BY <1>2, <1>5 DEF BulkCall
    <2>2. \A d \in Clients : \A i \in DOMAIN requests[d] :
             requests[d][i].op = "start" => requests[d][i].call # k /\ requests[d][i].call \in Calls
      BY <1>2, <1>5, RequestTypes DEF BulkCall
    <2>3. offers \subseteq Calls
      BY <1>2 DEF OnTypes
    <2>4. \A j \in offers' : Fresh(j)'
      BY <1>1, <1>2, <1>7, <2>1, <2>3 DEF Plan, Sources
    <2>5. \A d \in Clients : \A i \in DOMAIN requests[d] :
             requests[d][i].op = "start" => Fresh(requests[d][i].call)'
      BY <1>1, <1>2, <1>7, <2>2 DEF Plan, Sources
    <2> QED
      BY <1>1, <1>2, <2>4, <2>5 DEF Plan, Sources
  <1>10. Working' = Working \cup {t} /\ t \notin Working /\ IsFiniteSet(Working)
    BY <1>1, <1>2, <1>7, WhoIsWho, Named DEF Working, Moves
  <1>11. Campaigning'
    <2>1. Cardinality(Working') = Cardinality(Working) + 1 /\ Cardinality(Working) \in Nat
      BY <1>10, FS_AddElement, FS_CardinalityType
    <2>2. Cardinality(Working') <= Slots
      BY <1>1, <2>1, SlotsAreSome
    <2>3. ASSUME NEW i \in DOMAIN left'
          PROVE  /\ left'[i] \in ToSet(Numbers) /\ result'[left'[i]] # "none" /\ state'[left'[i]] = "none"
                 /\ \A u \in Threads : on'[u] = left'[i] => pc'[u] \in PanelSteps \cup {"idle"}
                 /\ \A j \in DOMAIN left' : left'[j] = left'[i] => j = i
      <3>1. i + 1 \in DOMAIN left /\ left'[i] = left[i + 1] /\ i + 1 # 1 /\ i \in Nat
        BY <1>3, <2>3
      <3>2. PICK m \in Calls : m = left[i + 1]
        BY <1>2, <3>1, Named
      <3>3. m # k /\ Bulk(m) /\ Fresh(m)
        BY <1>2, <1>5, <3>1, <3>2 DEF Plan, Campaigning
      <3>4. Fresh(m)' /\ Bulk(m)'
        BY <1>1, <1>7, <3>3 DEF Bulk
      <3>5. \A j \in DOMAIN left' : left'[j] = left'[i] => j = i
        BY <1>2, <1>3, <3>1 DEF Plan, Campaigning
      <3> QED
        BY <3>1, <3>2, <3>4, <3>5 DEF Fresh, Bulk, Resting
    <2>4. result' \in [Calls -> Results] /\ finished' = FALSE /\ \A j \in ToSet(Numbers) : result'[j] # "none"
      BY <1>1, <1>2, <1>5 DEF Plan, Campaigning
    <2> QED
      BY <2>2, <2>3, <2>4 DEF Campaigning, Bulk, Fresh, Resting
  <1>12. Waiting'
    BY <1>1, <1>5 DEF Waiting
  <1>13. Plan'
    BY <1>9, <1>11, <1>12 DEF Plan
  <1>14. \A j \in Calls : j # k /\ (\E i \in DOMAIN left : left[i] = j) => \E i \in DOMAIN left' : left'[i] = j
    BY <1>3, <1>4
  <1> QED
    BY <1>1, <1>2, <1>7, <1>8, <1>13, <1>14, SameRequests, StepKeeps

LEMMA CloseKeeps ==
    ASSUME Told, DeskInv, NEW t \in Tasks, Close(t) PROVE DeskInv'
  <1> DEFINE r == IF pc[t] = "failed" THEN "failed"
                  ELSE IF result[on[t]] = "answered" THEN "completed" ELSE "no-answer"
  <1>1. /\ pc[t] \in {"closing", "failed"} /\ Goto(t, "idle") /\ result' = [result EXCEPT ![on[t]] = r]
        /\ finished' = (left = <<>> /\ Working = {t}) /\ left' = left
        /\ UNCHANGED <<offers, requests, state, held, reg, list, rows, on, then, seen, claims, answered>>
    BY DEF Close, At, Set, DeskUntouched, calls, broker, history
  <1>2. r \in Outcomes /\ r \in Results /\ r # "none"
    BY DEF Outcomes, Results
  <1> HIDE DEF r
  <1>3. /\ OnTypes /\ Locked /\ Plan /\ StateTypes /\ ListTypes
        /\ t \in Threads /\ t \notin Panels /\ t \notin Clients /\ t # Loop /\ t # Relay
        /\ (\A u \in Threads : Standing(u)) /\ \A j \in Calls : BulkCall(j) /\ Recorded(j)
    BY WhoIsWho DEF Told, DeskInv
  <1>4. PICK k \in Calls : k = on[t]
    BY <1>3 DEF OnTypes
  <1>5. pc'[t] = "idle" /\ on'[t] = k /\ \A u \in Threads : u # t => pc'[u] = pc[u] /\ on'[u] = on[u]
    BY <1>1, <1>3, <1>4, GotoMoves
  <1>6. Moves(t, k)
    BY <1>1, <1>4, <1>5 DEF Moves
  <1>7. ~ Fresh(k) /\ ~ Resting(t)
    BY <1>1, <1>3, <1>4 DEF Fresh, Resting, PanelSteps
  <1>8. \A u \in Threads : u # t /\ on[u] = k => pc[u] \notin Making
    BY <1>3, <1>4, <1>7 DEF Standing, Alone
  <1>9. Harmless(t, k)
    BY <1>1, <1>8 DEF Harmless
  <1>10. StateTypes' /\ ListTypes'
    BY <1>1, <1>3 DEF StateTypes, ListTypes
  <1>11. then[t] = "idle" /\ \A j \in Calls : held[j] # t
    BY <1>1, <1>3 DEF Standing, Place, Stage, Emitting
  <1>12. Standing(t)'
    <2>1. Place(t)'
      BY <1>1, <1>3, <1>5, <1>11 DEF Place, Emitting
    <2>2. Stage(t)'
      BY <1>1, <1>5, <1>11 DEF Stage, Acting, Emitting
    <2>3. Alone(t)'
      BY <1>5 DEF Alone, Making
    <2> QED
      BY <2>1, <2>2, <2>3 DEF Standing
  <1>13. Recorded(k)'
    <2>1. UNCHANGED <<rows, list, state, reg>> /\ pc[t] \in {"closing", "failed"}
      BY <1>1
    <2> QED
      BY <1>3, <1>6, <2>1, RecordKeeps
  <1>14. result'[k] = r /\ result' \in [Calls -> Results] /\ \A j \in Calls : j # k => result'[j] = result[j]
    BY <1>1, <1>2, <1>3, <1>4 DEF Plan, Campaigning
  <1>15. t \in Working /\ Working' = Working \ {t} /\ IsFiniteSet(Working)
    BY <1>1, <1>3, <1>5, WhoIsWho, Named DEF Working
  <1>16. \A j \in ToSet(Numbers) : result[j] # "none" /\ result'[j] # "none"
    BY <1>2, <1>3, <1>14, <1>15, Named DEF Plan, Campaigning
  <1>17. \A j \in Calls : Fresh(j) => Fresh(j)'
    BY <1>3, <1>6, <1>7, <1>9, OthersFresh
  <1>18. BulkCall(k)'
    <2> SUFFICES ASSUME Bulk(k)' PROVE BulkCall(k)'
      BY DEF BulkCall
    <2>1. Bulk(k)
      BY <1>16 DEF Bulk
    <2>2. k \notin offers /\ \A d \in Clients : \A i \in DOMAIN requests[d] :
                                requests[d][i].op = "start" => requests[d][i].call # k
      BY <1>3, <2>1 DEF BulkCall
    <2>3. \A u \in Threads : on'[u] = k /\ Starting(u)' => u \in Tasks
      BY <1>1, <1>3, <1>5, <2>1 DEF BulkCall, Starting
    <2>4. Dialling(k)' => \E u \in Tasks : on'[u] = k /\ pc'[u] \notin Over
      <3>1. Dialling(k)' <=> Dialling(k)
        BY <1>1 DEF Dialling
      <3>2. pc[t] \in Over
        BY <1>1 DEF Over
      <3> QED
        BY <1>3, <1>5, <2>1, <3>1, <3>2, WhoIsWho DEF BulkCall
    <2>5. state'[k] = "ended" /\ list'[k] # Unlisted =>
             \E u \in Threads : on'[u] = k /\ pc'[u] \in {"emit_end", "emit_unlist"}
      BY <1>1, <1>3, <1>5, <2>1 DEF BulkCall
    <2>6. result'[k] \in Outcomes
      BY <1>2, <1>14
    <2> QED
      BY <1>1, <2>2, <2>3, <2>4, <2>5, <2>6 DEF BulkCall
  <1>19. Sources'
    <2>1. \A d \in Clients : \A i \in DOMAIN requests[d] : requests[d][i].call \in Calls
      BY <1>3, RequestTypes
    <2> QED
      BY <1>1, <1>3, <1>17, <2>1 DEF Plan, Sources, OnTypes
  <1>20. Campaigning'
    <2>1. Cardinality(Working') <= Slots
      <3>1. Cardinality(Working') = Cardinality(Working) - 1 /\ Cardinality(Working) \in Nat
        BY <1>15, FS_RemoveElement, FS_CardinalityType
      <3>2. Cardinality(Working) <= Slots
        BY <1>3 DEF Plan, Campaigning
      <3> QED
        BY <3>1, <3>2, SlotsAreSome
    <2>2. \A i \in DOMAIN left : left[i] \in Calls /\ Bulk(left[i])' /\ Fresh(left[i])'
      <3>1. \A i \in DOMAIN left : left[i] \in Calls /\ left[i] \in ToSet(Numbers) /\ Fresh(left[i])
        BY <1>3, Named DEF Plan, Campaigning, Bulk
      <3> QED
        BY <1>1, <1>16, <1>17, <3>1 DEF Bulk
    <2>3. finished' \in BOOLEAN
      BY <1>1
    <2>4. finished' => left' = <<>> /\ Working' = {}
      BY <1>1, <1>15
    <2>5. \A i \in DOMAIN left' : \A j \in DOMAIN left' : left'[j] = left'[i] => j = i
      BY <1>1, <1>3 DEF Plan, Campaigning
    <2> QED
      BY <1>1, <1>14, <1>16, <2>1, <2>2, <2>3, <2>4, <2>5 DEF Campaigning
  <1>21. Waiting'
    <2>1. \A d \in Clients : \A i \in DOMAIN requests[d] : requests[d][i].op # "broadcast"
      BY <1>3, <1>15 DEF Plan, Waiting
    <2> QED
      BY <1>1, <2>1 DEF Waiting
  <1>22. Plan'
    BY <1>19, <1>20, <1>21 DEF Plan
  <1>23. offers' \subseteq offers /\ \A j \in Calls : j # k => result'[j] = result[j]
    BY <1>1, <1>14
  <1> QED
    BY <1>1, <1>3, <1>6, <1>9, <1>10, <1>12, <1>13, <1>18, <1>22, <1>23, SameRequests, StepKeeps

-----------------------------------------------------------------------------
(* What changes nothing of it *)

core == <<offers, requests, state, held, reg, list, rows, on, seen, then, claims, answered, left, result,
          finished>>

\* The broker's broadcasts, and panels that come and go.
LEMMA QuietKeeps ==
    ASSUME DeskInv, UNCHANGED core,
           \A t \in Threads : pc'[t] = pc[t] \/ (t \in Panels /\ {pc[t], pc'[t]} \subseteq PanelSteps)
    PROVE  DeskInv'
  <1>1. /\ StateTypes /\ ListTypes /\ Sources /\ Campaigning /\ Waiting
        /\ (\A t \in Threads : Standing(t)) /\ \A k \in Calls : Recorded(k) /\ BulkCall(k)
    BY DEF DeskInv, Plan
  <1>2. \A t \in Threads : /\ pc'[t] \notin PanelSteps => pc'[t] = pc[t]
                           /\ pc[t] \notin PanelSteps => pc'[t] = pc[t]
                           /\ Resting(t)' <=> Resting(t)
    BY DEF Resting
  <1>3. \A t \in Tasks : pc'[t] = pc[t]
    BY WhoIsWho
  <1>4. Working' = Working
    BY <1>3 DEF Working
  <1>5. StateTypes' /\ ListTypes'
    BY <1>1 DEF core, StateTypes, ListTypes
  <1>6. ASSUME NEW k \in Calls PROVE Fresh(k)' <=> Fresh(k)
    BY <1>2 DEF core, Fresh
  <1>7. Sources' /\ Campaigning' /\ Waiting'
    BY <1>1, <1>2, <1>4 DEF core, Sources, Campaigning, Waiting, Bulk, Fresh
  <1>8. ASSUME NEW t \in Threads PROVE Standing(t)'
    <2>1. CASE pc'[t] = pc[t]
      <3>1. Place(t)' /\ Stage(t)'
        BY <1>1, <2>1 DEF core, Standing, Place, Stage, Acting
      <3>2. Alone(t)'
        BY <1>1, <1>2, <2>1 DEF core, Standing, Alone
      <3> QED
        BY <3>1, <3>2 DEF Standing
    <2>2. CASE t \in Panels /\ {pc[t], pc'[t]} \subseteq PanelSteps
      <3>1. \A l \in PanelSteps : l \notin Emitting \cup Making \cup {"idle", "failed"}
        BY DEF PanelSteps, Emitting, Making
      <3>2. \A l \in PanelSteps : l \notin {"unlist", "on_ended", "on_ended_unlist"}
        BY DEF PanelSteps
      <3>3. then[t] = "idle" /\ \A k \in Calls : held[k] # t
        BY <1>1, <2>2, <3>1 DEF Standing, Place, Stage
      <3>4. Place(t)'
        BY <2>2, <3>1, <3>3, WhoIsWho DEF core, Place
      <3>5. Stage(t)'
        BY <2>2, <3>1, <3>2, <3>3 DEF core, Stage, Acting, Emitting, Making
      <3>6. Alone(t)'
        BY <2>2, <3>1 DEF Alone
      <3> QED
        BY <3>4, <3>5, <3>6 DEF Standing
    <2> QED
      BY <2>1, <2>2
  <1>9. ASSUME NEW k \in Calls PROVE Recorded(k)'
    <2>1. \A t \in Threads : \A l \in {"emit_read", "emit_write", "emit_end", "emit_unlist", "tell", "told",
                                       "begin", "offer"} : pc'[t] = l <=> pc[t] = l
      BY <1>2 DEF PanelSteps
    <2>2. Recorded(k) /\ UNCHANGED <<state, rows, list, reg, on>>
      BY <1>1 DEF core
    <2> QED
      BY <2>1, <2>2 DEF Recorded
  <1>10. ASSUME NEW k \in Calls PROVE BulkCall(k)'
    <2>1. \A t \in Threads : /\ pc'[t] \in {"emit_end", "emit_unlist"} <=> pc[t] \in {"emit_end", "emit_unlist"}
                             /\ Starting(t)' <=> Starting(t)
      BY <1>2 DEF core, Starting, Making, PanelSteps
    <2>2. Dialling(k)' <=> Dialling(k)
      BY DEF core, Dialling
    <2>3. BulkCall(k) /\ UNCHANGED <<offers, requests, state, list, on, left, result>>
      BY <1>1 DEF core
    <2> QED
      BY <1>3, <2>1, <2>2, <2>3 DEF BulkCall, Bulk
  <1> QED
    BY <1>5, <1>7, <1>8, <1>9, <1>10 DEF DeskInv, Plan

LEMMA BrokerKeeps ==
    ASSUME Told, DeskInv, UNCHANGED campaign, NEW t \in Threads, TakeList(t) \/ Broadcast(t) \/ Send(t)
    PROVE  DeskInv'
  <1>1. UNCHANGED core /\ UNCHANGED pc
    BY DEF TakeList, Broadcast, Send, calls, broker, history, campaign, core
  <1> QED
    BY <1>1, QuietKeeps

LEMMA PanelKeeps ==
    ASSUME Told, DeskInv, UNCHANGED campaign, NEW p \in Panels, Subscribe(p) \/ Unsubscribe(p)
    PROVE  DeskInv'
  <1>1. UNCHANGED core
    BY DEF Subscribe, Unsubscribe, calls, history, campaign, core
  <1>2. \E l \in PanelSteps : Goto(p, l)
    BY DEF Subscribe, SubscribeFirst, Unsubscribe, PanelSteps
  <1>3. p \in Threads /\ pc[p] \in PanelSteps /\ Locked /\ StateTypes
    BY WhoIsWho DEF Told, DeskInv, Standing, Place
  <1>4. pc'[p] \in PanelSteps /\ \A t \in Threads : t # p => pc'[t] = pc[t]
    BY <1>2, <1>3, GotoMoves
  <1> QED
    BY <1>1, <1>3, <1>4, QuietKeeps

-----------------------------------------------------------------------------

LEMMA DeskInvInit == BroadcastInit => DeskInv
  <1> SUFFICES ASSUME BroadcastInit PROVE DeskInv
    OBVIOUS
  <1>1. PICK s \in Scenarios :
          /\ offers = s.offers /\ requests = s.requests
          /\ pc = [t \in Threads |-> IF t \notin Panels THEN "idle"
                                    ELSE IF t \in s.open THEN "off" ELSE "left"]
    BY DEF BroadcastInit, Init
  <1>2. /\ state = [k \in Calls |-> "none"] /\ held = [k \in Calls |-> Free] /\ reg = {}
        /\ list = [k \in Calls |-> Unlisted] /\ rows = [k \in Calls |-> 0]
        /\ seen = [t \in Threads |-> Nobody] /\ then = [t \in Threads |-> "idle"]
        /\ claims = [k \in Calls |-> {}] /\ answered = [k \in Calls |-> {}]
        /\ left = <<>> /\ result = [k \in Calls |-> "none"] /\ finished = FALSE
    BY DEF BroadcastInit, Init
  <1>3. \A t \in Threads : /\ t \in Panels => pc[t] \in {"off", "left"}
                           /\ t \notin Panels => pc[t] = "idle"
                           /\ then[t] = "idle" /\ Resting(t)
    BY <1>1, <1>2 DEF Resting, PanelSteps
  <1>4. \A k \in Calls : Fresh(k)
    BY <1>2, <1>3 DEF Fresh
  <1>5. StateTypes
    BY <1>2 DEF StateTypes
  <1>6. ListTypes
    BY <1>2 DEF ListTypes
  <1>7. /\ s.offers \subseteq Calls /\ s.requests \in [Clients -> Seq(Asked)]
        /\ ToSet(Numbers) \subseteq Calls
    <2>1. s.offers \subseteq Calls /\ s.requests \in [Clients -> Seq(Asked)]
      BY DeskAssumption DEF Asked
    <2>2. ToSet(Numbers) \subseteq Calls
      BY BroadcastAssumption DEF ToSet
    <2> QED
      BY <2>1, <2>2
  <1>8. \A c \in Clients : \A i \in DOMAIN requests[c] : requests[c][i].call \in Calls
    <2> SUFFICES ASSUME NEW c \in Clients, NEW i \in DOMAIN requests[c] PROVE requests[c][i].call \in Calls
      OBVIOUS
    <2>1. requests[c] \in Seq(Asked)
      BY <1>1, <1>7
    <2>2. requests[c][i] \in Asked
      BY <2>1
    <2> QED
      BY <2>2 DEF Asked
  <1>9. Sources
    BY <1>1, <1>4, <1>7, <1>8, FreshAssumption DEF Sources
  <1>10. Working = {}
    BY <1>3, WhoIsWho DEF Working
  <1>11. Campaigning
    <2>1. Cardinality(Working) = 0
      BY <1>10, FS_EmptySet
    <2>2. Cardinality(Working) <= Slots
      BY <2>1, SlotsAreSome
    <2>3. result \in [Calls -> Results] /\ finished \in BOOLEAN
      BY <1>2 DEF Results
    <2>4. left = <<>> /\ DOMAIN left = {} /\ ~ finished
      BY <1>2
    <2> QED
      BY <1>10, <2>2, <2>3, <2>4 DEF Campaigning
  <1>12. Waiting
    <2>1. \A k \in ToSet(Numbers) : result[k] = "none" /\ Fresh(k)
      BY <1>2, <1>4, <1>7
    <2>2. \A c \in Clients : \A i \in DOMAIN requests[c] : requests[c][i].op = "broadcast" =>
             /\ \A k \in ToSet(Numbers) : k \notin offers
             /\ \A d \in Clients : \A j \in DOMAIN requests[d] :
                   /\ requests[d][j].op = "start" => requests[d][j].call \notin ToSet(Numbers)
                   /\ requests[d][j].op = "broadcast" => d = c /\ j = i
      BY <1>1, NumbersAssumption
    <2> QED
      BY <1>2, <1>10, <2>1, <2>2 DEF Waiting
  <1>13. ASSUME NEW t \in Threads PROVE Standing(t)
    <2>1. /\ pc[t] \in PanelSteps \cup {"idle"} /\ then[t] = "idle"
          /\ t \in Panels => pc[t] \in PanelSteps
          /\ pc[t] \notin Emitting \cup Making /\ ~ Acting(t)
          /\ pc[t] \notin {"unlist", "on_ended", "on_ended_unlist"}
      BY <1>3 DEF PanelSteps, Emitting, Making, Acting
    <2>2. \A k \in Calls : held[k] # t
      BY <1>2, WhoIsWho
    <2>3. Place(t)
      BY <1>3, <2>1, WhoIsWho DEF Place
    <2>4. Stage(t)
      BY <2>1, <2>2 DEF Stage, Emitting, Making
    <2>5. Alone(t)
      BY <2>1 DEF Alone
    <2> QED
      BY <2>3, <2>4, <2>5 DEF Standing
  <1>14. ASSUME NEW k \in Calls PROVE Recorded(k) /\ BulkCall(k)
    <2>1. Recorded(k)
      BY <1>2 DEF Recorded, Early
    <2>2. ~ Bulk(k)
      BY <1>2 DEF Bulk
    <2> QED
      BY <2>1, <2>2 DEF BulkCall
  <1> QED
    BY <1>5, <1>6, <1>9, <1>11, <1>12, <1>13, <1>14 DEF DeskInv, Plan

LEMMA DeskInvStep == Told /\ DeskInv /\ [BroadcastNext]_deskVars => DeskInv'
  <1> SUFFICES ASSUME Told, DeskInv, [BroadcastNext]_deskVars PROVE DeskInv'
    OBVIOUS
  <1>1. CASE UNCHANGED deskVars
    BY <1>1, QuietKeeps DEF deskVars, vars, calls, broker, threads, history, campaign, core
  <1>2. CASE Next /\ UNCHANGED campaign
    <2>0. UNCHANGED campaign
      BY <1>2
    <2>1. ASSUME NEW t \in Threads, TakeList(t) \/ Broadcast(t) \/ Send(t) PROVE DeskInv'
      BY <2>0, <2>1, BrokerKeeps
    <2>2. ASSUME NEW t \in Threads,
                 EmitRead(t) \/ EmitWrite(t) \/ EmitEnd(t) \/ EmitUnlist(t) \/ Unlock(t) \/ CreateCall(t)
          PROVE  DeskInv'
      BY <2>0, <2>2, EmitReadKeeps, EmitWriteKeeps, EmitEndKeeps, EmitUnlistKeeps, UnlockKeeps, CreateCallKeeps
    <2>3. ASSUME NEW p \in Panels, Subscribe(p) \/ Unsubscribe(p) PROVE DeskInv'
      BY <2>0, <2>3, PanelKeeps
    <2>4. ASSUME NEW k \in Calls, OnIncomingOffer(k) \/ RemoteAccept(k) \/ RemoteTerminate(k) \/ Connected(k)
          PROVE  DeskInv'
      BY <2>0, <2>4, OnIncomingOfferKeeps, LoopApplies
    <2>5. CASE HandleCallOffer \/ OnIncoming \/ OfferEmit
      BY <2>0, <2>5, HandleCallOfferKeeps, OnIncomingKeeps, LoopApplies
    <2>6. ASSUME NEW c \in Callers, BeginCall(c) \/ OfferSent(c) \/ EndCall(c) PROVE DeskInv'
      BY <2>0, <2>6, BeginCallKeeps, OfferSentKeeps, EndCallKeeps
    <2>7. ASSUME NEW c \in Clients,
                 \/ Request(c) \/ ListStarted(c) \/ Claim(c) \/ Answer(c) \/ Reject(c)
                 \/ HoldOrResume(c) \/ Release(c) \/ OfferTransfer(c) \/ Pickup(c)
          PROVE  DeskInv'
      BY <2>0, <2>7, RequestKeeps, ListStartedKeeps, ClaimKeeps, AnswerKeeps, RejectKeeps,
         HoldOrResumeKeeps, ReassignKeeps, OfferTransferKeeps
    <2> QED
      BY <1>2, <2>1, <2>2, <2>3, <2>4, <2>5, <2>6, <2>7 DEF Next
  <1>3. ASSUME NEW c \in Clients, HandleBroadcast(c) PROVE DeskInv'
    BY <1>3, HandleBroadcastKeeps
  <1>4. ASSUME NEW t \in Tasks, \/ CallNext(t) \/ Dialled(t) \/ Answered(t) \/ NoAnswer(t)
                                \/ PumpAudio(t) \/ Close(t)
        PROVE  DeskInv'
    BY <1>4, CallNextKeeps, TaskKeeps, CloseKeeps
  <1> QED
    BY <1>1, <1>2, <1>3, <1>4 DEF BroadcastNext

-----------------------------------------------------------------------------
(* What follows *)

LEMMA TypesFollow == Told /\ DeskInv => BroadcastTypeOK
  <1> SUFFICES ASSUME Told, DeskInv PROVE BroadcastTypeOK
    OBVIOUS
  <1>1. /\ Locked /\ OnTypes /\ PanelTypes /\ StateTypes /\ ListTypes /\ Campaigning
    BY DEF Told, DeskInv, Plan
  <1>2. list \in [Calls -> [owner : Clients \cup {Nobody}, onHold : BOOLEAN,
                            status : {"none", "starting", "ringing", "connected"}]]
    <2>1. Unlisted \in [owner : Clients \cup {Nobody}, onHold : BOOLEAN,
                        status : {"none", "starting", "ringing", "connected"}]
      BY DEF Unlisted
    <2>2. Record \subseteq [owner : Clients \cup {Nobody}, onHold : BOOLEAN,
                            status : {"none", "starting", "ringing", "connected"}]
      BY DEF Record
    <2> QED
      BY <1>1, <2>1, <2>2 DEF OnTypes, ListTypes
  <1>3. reading \in [Threads -> (SUBSET Panels) \cup {Quiet}]
    <2>1. reading \in [Threads -> {Quiet, subs}] /\ subs \in SUBSET Panels
      BY <1>1 DEF Locked
    <2>2. {Quiet, subs} \subseteq (SUBSET Panels) \cup {Quiet}
      BY <2>1
    <2> QED
      BY <2>1, <2>2
  <1>4. ASSUME NEW t \in Threads, NEW i \in DOMAIN out[t]
        PROVE  out[t][i].type \in Events /\ out[t][i].of \subseteq Calls
    <2>1. out[t] \in Seq(Event)
      BY <1>1 DEF PanelTypes
    <2>2. out[t][i] \in Event
      BY <2>1, <1>4
    <2> QED
      BY <2>2 DEF Event
  <1>5. TypeOK
    BY <1>1, <1>2, <1>3, <1>4 DEF TypeOK, StateTypes, OnTypes, PanelTypes, Locked
  <1>6. \A i \in DOMAIN left : left[i] \in Calls
    BY <1>1, Named
  <1> QED
    BY <1>1, <1>5, <1>6 DEF BroadcastTypeOK, Campaigning

LEMMA HistoryFollows == DeskInv => EndedIsRecorded
  <1> SUFFICES ASSUME DeskInv, NEW k \in Calls, state[k] = "ended",
                      \A t \in Threads : on[t] = k => At(t, "idle") \/ t \in Panels
               PROVE  rows[k] > 0
    BY DEF EndedIsRecorded
  <1>1. \A t \in Threads : on[t] = k => pc[t] \notin {"emit_end", "emit_unlist", "tell", "told"}
    BY DEF DeskInv, Standing, Place, At, PanelSteps
  <1> QED
    BY <1>1 DEF DeskInv, Recorded

LEMMA SlotsFollow == Told /\ DeskInv => WithinSlots
  <1> SUFFICES ASSUME Told, DeskInv PROVE WithinSlots
    OBVIOUS
  <1> DEFINE dialled == {k \in ToSet(Numbers) : result[k] # "none" /\ Dialling(k)}
             f == [t \in Working |-> on[t]]
             worked == {f[t] : t \in Working}
  <1>1. OnTypes /\ IsFiniteSet(Working) /\ ToSet(Numbers) \subseteq Calls
    BY Named DEF Told
  <1>2. Cardinality(Working) <= Slots
    BY DEF DeskInv, Plan, Campaigning
  <1>3. f \in Surjection(Working, worked)
    BY DEF Surjection
  <1>4. IsFiniteSet(worked) /\ Cardinality(worked) <= Cardinality(Working)
    BY <1>1, <1>3, FS_Surjection
  <1>5. dialled \subseteq worked
    <2> SUFFICES ASSUME NEW k \in dialled PROVE k \in worked
      OBVIOUS
    <2>1. PICK t \in Tasks : on[t] = k /\ pc[t] \notin Over
      BY <1>1 DEF DeskInv, BulkCall, Bulk
    <2>2. t \in Working
      BY <2>1 DEF Working, Over
    <2> QED
      BY <2>1, <2>2
  <1>6. IsFiniteSet(dialled) /\ Cardinality(dialled) <= Cardinality(worked)
    BY <1>4, <1>5, FS_Subset
  <1>7. Cardinality(dialled) \in Nat /\ Cardinality(worked) \in Nat /\ Cardinality(Working) \in Nat
    BY <1>1, <1>4, <1>6, FS_CardinalityType
  <1> QED
    BY <1>2, <1>4, <1>6, <1>7, SlotsAreSome DEF WithinSlots

\* The desk's and the broadcast's variables have the values they are meant to have.
THEOREM DeskTypes == BroadcastSpec => []BroadcastTypeOK
  BY ToldInit, ToldStep, DeskInvInit, DeskInvStep, TypesFollow, PTL DEF BroadcastSpec, deskVars

\* A call that was offered or listed and has ended is in the history once nobody works on
\* it, whichever of OnStateChange, OnEnded, a handler or a late listing was the last.
THEOREM EndsAreKept == BroadcastSpec => []EndedIsRecorded
  BY ToldInit, ToldStep, DeskInvInit, DeskInvStep, HistoryFollows, PTL DEF BroadcastSpec, deskVars

\* Of the calls of a broadcast no more are on at a time than the session may have, whoever
\* ends them (runCampaign, placeAndPlay).
THEOREM SlotsHold == BroadcastSpec => []WithinSlots
  BY ToldInit, ToldStep, DeskInvInit, DeskInvStep, SlotsFollow, PTL DEF BroadcastSpec, deskVars

-----------------------------------------------------------------------------
(* What a broadcast leaves behind *)

\* No operator rejects a call of the broadcast.  RejectCall ignores that a call which has
\* been answered cannot be rejected and removes it all the same; its manager goes on, and
\* its next state puts it back on the list, where nothing takes it off again.
NobodyRejects ==
    \A s \in Scenarios, c \in Clients : \A i \in DOMAIN s.requests[c] :
        s.requests[c][i].op = "reject" => s.requests[c][i].call \notin ToSet(Numbers)

\* Then a call of it leaves the registry only when it ends.
Kept(k) ==
    /\ \A t \in Threads : on[t] = k => /\ pc[t] # "reject" /\ then[t] # "remove"
                                       /\ pc[t] = "remove" => k \notin reg
    /\ state[k] \notin Early \cup {"ended"} => k \in reg

Unrejected ==
    /\ \A c \in Clients : \A i \in DOMAIN requests[c] :
          requests[c][i].op = "reject" => requests[c][i].call \notin ToSet(Numbers)
    /\ \A k \in ToSet(Numbers) : Kept(k)

LEMMA UnrejectedInit == BroadcastInit /\ NobodyRejects => Unrejected
  <1> SUFFICES ASSUME BroadcastInit, NobodyRejects PROVE Unrejected
    OBVIOUS
  <1>1. PICK s \in Scenarios : /\ requests = s.requests
                               /\ pc = [t \in Threads |-> IF t \notin Panels THEN "idle"
                                                         ELSE IF t \in s.open THEN "off" ELSE "left"]
    BY DEF BroadcastInit, Init
  <1>2. \A t \in Threads : pc[t] \notin {"reject", "remove"} /\ then[t] # "remove"
    BY <1>1 DEF BroadcastInit, Init
  <1>3. ToSet(Numbers) \subseteq Calls
    BY BroadcastAssumption DEF ToSet
  <1>4. \A k \in ToSet(Numbers) : Kept(k)
    BY <1>2, <1>3 DEF BroadcastInit, Init, Kept, Early
  <1> QED
    BY <1>1, <1>4 DEF Unrejected, NobodyRejects

\* A step of t about call k.
LEMMA StepSpares ==
    ASSUME Told, DeskInv, Unrejected, NEW t \in Threads, NEW k \in Calls, NEW l, Goto(t, l),
           on' = [on EXCEPT ![t] = k], then' = then \/ \E n : then' = [then EXCEPT ![t] = n],
           FewerRequests,
           \A j \in Calls : j # k => state'[j] = state[j] /\ (j \in reg' <=> j \in reg),
           k \in ToSet(Numbers) =>
              /\ l # "reject" /\ then'[t] # "remove" /\ (l = "remove" => k \notin reg')
              /\ state'[k] \notin Early \cup {"ended"} => k \in reg'
              /\ k \in reg' => k \in reg \/ \A u \in Threads : u # t /\ on[u] = k => pc[u] # "remove"
    PROVE  Unrejected'
  <1>1. OnTypes /\ Locked /\ StateTypes /\ ToSet(Numbers) \subseteq Calls
    BY Named DEF Told, DeskInv
  <1>2. /\ pc'[t] = l /\ on'[t] = k
        /\ \A u \in Threads : u # t => pc'[u] = pc[u] /\ on'[u] = on[u] /\ then'[u] = then[u]
    <2>1. pc'[t] = l /\ \A u \in Threads : u # t => pc'[u] = pc[u]
      BY <1>1, GotoMoves
    <2>2. on'[t] = k /\ \A u \in Threads : u # t => on'[u] = on[u]
      BY <1>1 DEF OnTypes
    <2>3. \A u \in Threads : u # t => then'[u] = then[u]
      BY <1>1 DEF StateTypes
    <2> QED
      BY <2>1, <2>2, <2>3
  <1>3. \A c \in Clients : \A i \in DOMAIN requests'[c] :
           requests'[c][i].op = "reject" => requests'[c][i].call \notin ToSet(Numbers)
    BY DEF Unrejected, FewerRequests
  <1>4. ASSUME NEW j \in ToSet(Numbers) PROVE Kept(j)'
    <2>1. Kept(j) /\ j \in Calls
      BY <1>1 DEF Unrejected
    <2>2. CASE j # k
      BY <1>2, <2>1, <2>2 DEF Kept
    <2>3. CASE j = k
      BY <1>2, <2>1, <2>3 DEF Kept
    <2> QED
      BY <2>2, <2>3
  <1> QED
    BY <1>3, <1>4 DEF Unrejected

\* A transition of a call that is registered, or has been begun.
LEMMA ApplySpares ==
    ASSUME Told, DeskInv, Unrejected, NEW t \in Threads, NEW k \in Calls, NEW tr \in Transitions, NEW next,
           Apply(t, k, tr, next), on' = [on EXCEPT ![t] = k], UNCHANGED <<requests, reg>>,
           state[k] \notin Early \/ k \in reg, next = "remove" => k \notin ToSet(Numbers)
    PROVE  Unrejected'
  <1> DEFINE s == ApplyTransition(state[k], tr)
  <1>1. /\ state' = [state EXCEPT ![k] = s] /\ then' = [then EXCEPT ![t] = next]
        /\ Goto(t, Emission(state'[k]))
    BY DEF Apply
  <1>2. StateTypes /\ state[k] \in CallStates \cup {"none"}
    BY DEF DeskInv, StateTypes
  <1>3. (state[k] = "ended" => s = "ended")
    BY <1>2, Transition
  <1> HIDE DEF s
  <1>4. /\ state'[k] = s /\ \A j \in Calls : j # k => state'[j] = state[j]
        /\ then'[t] = next
    BY <1>1, <1>2 DEF StateTypes
  <1>5. PICK l \in {"emit_end", "emit_read"} : Goto(t, l)
    BY <1>1 DEF Emission
  <1>6. k \in ToSet(Numbers) => (state[k] \notin Early \cup {"ended"} => k \in reg)
    BY DEF Unrejected, Kept
  <1> QED
    BY <1>1, <1>3, <1>4, <1>5, <1>6, SameRequests, StepSpares

\* A step that neither registers a call nor changes its state.
LEMMA GoSpares ==
    ASSUME Told, DeskInv, Unrejected, NEW t \in Threads, NEW l, Goto(t, l), l # "reject",
           l = "remove" => on[t] \notin reg,
           then' = then \/ then' = [then EXCEPT ![t] = "idle"], UNCHANGED <<requests, state, reg, on>>
    PROVE  Unrejected'
  <1>1. PICK k \in Calls : k = on[t]
    BY DEF Told, OnTypes
  <1>2. on' = [on EXCEPT ![t] = k] /\ then'[t] \in {then[t], "idle"}
    BY <1>1, StaysOn DEF Told, DeskInv, StateTypes
  <1>3. k \in ToSet(Numbers) => then[t] # "remove" /\ (state[k] \notin Early \cup {"ended"} => k \in reg)
    BY <1>1 DEF Unrejected, Kept
  <1>4. then' = then \/ \E n : then' = [then EXCEPT ![t] = n]
    OBVIOUS
  <1> QED
    BY <1>1, <1>2, <1>3, <1>4, SameRequests, StepSpares

LEMMA EmissionsSpare ==
    ASSUME Told, DeskInv, Unrejected, NEW t \in Threads,
           EmitRead(t) \/ EmitWrite(t) \/ EmitEnd(t) \/ EmitUnlist(t) \/ Unlock(t) \/ CreateCall(t)
    PROVE  Unrejected'
  <1>1. PICK k \in Calls : k = on[t]
    BY DEF Told, OnTypes
  <1>2. Standing(t) /\ StateTypes /\ (k \in ToSet(Numbers) => Kept(k))
    BY DEF DeskInv, Unrejected
  <1>3. CASE EmitRead(t)
    BY <1>3, GoSpares DEF EmitRead, calls
  <1>4. CASE EmitWrite(t)
    BY <1>4, GoSpares DEF EmitWrite, calls
  <1>5. CASE EmitUnlist(t)
    <2>1. UNCHANGED <<requests, state, reg, on, then>>
      BY <1>5 DEF EmitUnlist, calls
    <2>2. PICK l : Goto(t, l) /\ l # "reject" /\ (l = "remove" => pc[t] = "on_ended_unlist")
      BY <1>5 DEF EmitUnlist, Ended, At
    <2>3. pc[t] = "on_ended_unlist" => on[t] \notin reg
      BY <1>2 DEF Standing, Stage
    <2> QED
      BY <2>1, <2>2, <2>3, GoSpares
  <1>6. CASE Unlock(t)
    <2>1. /\ Goto(t, then[t]) /\ pc[t] = "unlock" /\ then' = [then EXCEPT ![t] = "idle"]
          /\ UNCHANGED <<requests, state, reg, on>>
      BY <1>6 DEF Unlock, At
    <2>2. then[t] # "reject"
      BY <1>2, <2>1, WhoIsWho DEF Standing, Place, Emitting, PanelSteps
    <2>3. PICK l : l = then[t]
      OBVIOUS
    <2>4. on' = [on EXCEPT ![t] = k] /\ then'[t] = "idle"
      BY <1>1, <1>2, <2>1, StaysOn DEF Told, StateTypes
    <2>5. k \in ToSet(Numbers) => l # "remove" /\ (state[k] \notin Early \cup {"ended"} => k \in reg)
      BY <1>1, <1>2, <2>3 DEF Kept
    <2> QED
      BY <1>1, <2>1, <2>2, <2>3, <2>4, <2>5, SameRequests, StepSpares
  <1>7. CASE EmitEnd(t)
    <2>1. /\ reg' = reg \ {on[t]} /\ UNCHANGED <<requests, state, on, then>>
          /\ pc[t] \in {"emit_end", "remove", "on_ended"}
      BY <1>7 DEF EmitEnd, At
    <2>2. PICK l \in {"emit_unlist", "unlist", "on_ended_unlist"} : Goto(t, l)
      BY <1>7 DEF EmitEnd
    <2>3. k \in ToSet(Numbers) /\ state[k] \notin Early \cup {"ended"} => FALSE
      BY <1>1, <1>2, <2>1 DEF Standing, Stage, Kept
    <2>4. on' = [on EXCEPT ![t] = k] /\ (k \in ToSet(Numbers) => then'[t] # "remove")
      BY <1>1, <1>2, <2>1, StaysOn DEF Told, Kept
    <2> QED
      BY <1>1, <2>1, <2>2, <2>3, <2>4, SameRequests, StepSpares
  <1>8. CASE CreateCall(t)
    <2>1. /\ pc[t] = "create" /\ Goto(t, "begin") /\ reg' = reg \cup {on[t]}
          /\ UNCHANGED <<requests, state, on, then>>
      BY <1>8 DEF CreateCall, At
    <2>2. \A u \in Threads : u # t /\ on[u] = k => pc[u] # "remove"
      BY <1>1, <1>2, <2>1 DEF Standing, Alone, Making, Resting, PanelSteps
    <2>3. on' = [on EXCEPT ![t] = k] /\ (k \in ToSet(Numbers) => then'[t] # "remove")
      BY <1>1, <1>2, <2>1, StaysOn DEF Told, Kept
    <2> QED
      BY <1>1, <2>1, <2>2, <2>3, SameRequests, StepSpares
  <1> QED
    BY <1>3, <1>4, <1>5, <1>6, <1>7, <1>8

LEMMA LoopSpares ==
    ASSUME Told, DeskInv, Unrejected,
           \/ HandleCallOffer \/ OnIncoming \/ OfferEmit
           \/ \E k \in Calls : OnIncomingOffer(k) \/ RemoteAccept(k) \/ RemoteTerminate(k) \/ Connected(k)
    PROVE  Unrejected'
  <1>1. /\ Loop \in Threads /\ Relay \in Threads /\ Standing(Loop) /\ StateTypes /\ OnTypes /\ Locked
        /\ Loop \notin Panels
    BY WhoIsWho DEF DeskInv, Told
  <1>2. {"offer_received", "remote_accepted", "terminated", "media_connected"} \subseteq Transitions
    BY DEF Transitions
  <1>3. CASE OnIncoming
    BY <1>1, <1>3, GoSpares DEF OnIncoming, calls
  <1>4. CASE OfferEmit
    <2>1. /\ pc[Loop] = "told" /\ Apply(Loop, on[Loop], "offer_received", "idle")
          /\ UNCHANGED <<requests, reg, on>>
      BY <1>4 DEF OfferEmit, At
    <2>2. state[on[Loop]] \notin Early
      BY <1>1, <2>1 DEF Standing, Stage, Acting, PanelSteps, Making
    <2>3. PICK k \in Calls : k = on[Loop]
      BY <1>1 DEF OnTypes
    <2>4. on' = [on EXCEPT ![Loop] = k]
      BY <1>1, <2>1, <2>3, StaysOn
    <2> QED
      BY <1>1, <1>2, <2>1, <2>2, <2>3, <2>4, ApplySpares
  <1>5. CASE HandleCallOffer
    <2>1. /\ pc[Loop] = "begin" /\ Goto(Loop, "tell")
          /\ state' = [state EXCEPT ![on[Loop]] = "incoming_ringing"]
          /\ UNCHANGED <<requests, reg, on, then>>
      BY <1>5 DEF HandleCallOffer, At
    <2>2. PICK k \in Calls : k = on[Loop]
      BY <1>1 DEF OnTypes
    <2>3. on' = [on EXCEPT ![Loop] = k] /\ k \in reg
      BY <1>1, <2>1, <2>2, StaysOn DEF Standing, Stage
    <2>4. k \in ToSet(Numbers) => then'[Loop] # "remove"
      BY <1>1, <2>1, <2>2 DEF Unrejected, Kept
    <2>5. \A j \in Calls : j # k => state'[j] = state[j]
      BY <1>1, <2>1, <2>2 DEF StateTypes
    <2> QED
      BY <1>1, <2>1, <2>3, <2>4, <2>5, SameRequests, StepSpares
  <1>6. ASSUME NEW k \in Calls, OnIncomingOffer(k) PROVE Unrejected'
    <2>1. /\ pc[Loop] = "idle" /\ on' = [on EXCEPT ![Loop] = k]
          /\ UNCHANGED <<requests, state, reg, then>>
      BY <1>6 DEF OnIncomingOffer, At, calls
    <2>2. PICK l \in {"idle", "create"} : Goto(Loop, l)
      <3>1. UNCHANGED pc => Goto(Loop, "idle")
        BY <1>1, <2>1 DEF Goto, Locked
      <3> QED
        BY <1>6, <3>1 DEF OnIncomingOffer
    <2>3. then[Loop] = "idle" /\ (k \in ToSet(Numbers) => Kept(k))
      BY <1>1, <2>1 DEF Standing, Place, Emitting, Unrejected
    <2> QED
      BY <1>1, <2>1, <2>2, <2>3, SameRequests, StepSpares DEF Kept
  <1>7. ASSUME NEW k \in Calls, RemoteAccept(k) \/ RemoteTerminate(k) \/ Connected(k) PROVE Unrejected'
    <2>1. UNCHANGED <<requests, reg>> /\ state[k] \notin Early
      BY <1>7 DEF RemoteAccept, RemoteTerminate, Connected, Early
    <2>2. \/ on' = [on EXCEPT ![Loop] = k] /\ (\/ Apply(Loop, k, "remote_accepted", "idle")
                                               \/ Apply(Loop, k, "terminated", "on_ended"))
          \/ on' = [on EXCEPT ![Relay] = k] /\ Apply(Relay, k, "media_connected", "idle")
      BY <1>7 DEF RemoteAccept, RemoteTerminate, Connected
    <2> QED
      BY <1>1, <1>2, <2>1, <2>2, ApplySpares
  <1> QED
    BY <1>3, <1>4, <1>5, <1>6, <1>7

\* A request or a task at the call that it is at.
LEMMA CallerSpares ==
    ASSUME Told, DeskInv, Unrejected, NEW c \in Callers, NEW tr \in Transitions, NEW next,
           Apply(c, on[c], tr, next), UNCHANGED <<requests, reg, on>>,
           pc[c] \in {"offer", "answer", "reject", "end", "hold", "resume", "transfer"},
           next = "remove" => pc[c] = "reject"
    PROVE  Unrejected'
  <1>1. c \in Threads /\ Standing(c) /\ OnTypes
    BY PanelsApart DEF DeskInv, Told
  <1>2. PICK k \in Calls : k = on[c]
    BY <1>1 DEF OnTypes
  <1>3. state[k] \notin Early \/ k \in reg
    BY <1>1, <1>2 DEF Standing, Stage, Acting, PanelSteps, Making
  <1>4. next = "remove" => k \notin ToSet(Numbers)
    BY <1>1, <1>2 DEF Unrejected, Kept
  <1>5. on' = [on EXCEPT ![c] = k]
    BY <1>1, <1>2, StaysOn
  <1> QED
    BY <1>1, <1>2, <1>3, <1>4, <1>5, ApplySpares

LEMMA CallersSpare ==
    ASSUME Told, DeskInv, Unrejected, NEW c \in Callers, BeginCall(c) \/ OfferSent(c) \/ EndCall(c)
    PROVE  Unrejected'
  <1>1. c \in Threads /\ Standing(c) /\ OnTypes /\ StateTypes
    BY PanelsApart DEF DeskInv, Told
  <1>2. PICK k \in Calls : k = on[c]
    BY <1>1 DEF OnTypes
  <1>3. k \in ToSet(Numbers) => Kept(k)
    BY DEF Unrejected
  <1>4. {"offer_sent", "terminated"} \subseteq Transitions
    BY DEF Transitions
  <1>5. CASE BeginCall(c)
    <2>1. /\ Goto(c, "offer") /\ state' = [state EXCEPT ![k] = "initiating"]
          /\ UNCHANGED <<requests, reg, on, then>>
      BY <1>2, <1>5 DEF BeginCall
    <2>2. /\ on' = [on EXCEPT ![c] = k] /\ (k \in ToSet(Numbers) => then'[c] # "remove")
          /\ state'[k] = "initiating" /\ \A j \in Calls : j # k => state'[j] = state[j]
      BY <1>1, <1>2, <1>3, <2>1, StaysOn DEF StateTypes, Kept
    <2> QED
      BY <1>1, <2>1, <2>2, SameRequests, StepSpares DEF Early
  <1>6. CASE OfferSent(c)
    <2>1. pc[c] = "offer" /\ UNCHANGED <<requests, on>>
      BY <1>6 DEF OfferSent, At
    <2>2. CASE Apply(c, on[c], "offer_sent", IF c \in Tasks THEN "dialled" ELSE "listing") /\ UNCHANGED reg
      BY <1>4, <2>1, <2>2, CallerSpares
    <2>3. CASE /\ reg' = reg \ {on[c]} /\ Goto(c, IF c \in Tasks THEN "failed" ELSE "idle")
               /\ UNCHANGED <<state, held, then>>
      <3>1. state[k] = "initiating"
        BY <1>1, <1>2, <2>1 DEF Standing, Stage
      <3>2. on' = [on EXCEPT ![c] = k] /\ (k \in ToSet(Numbers) => then'[c] # "remove")
        BY <1>1, <1>2, <1>3, <2>1, <2>3, StaysOn DEF Kept
      <3>3. PICK l \in {"failed", "idle"} : Goto(c, l)
        BY <2>3
      <3> QED
        BY <1>1, <1>2, <2>1, <2>3, <3>1, <3>2, <3>3, SameRequests, StepSpares DEF Early
    <2> QED
      BY <1>6, <2>2, <2>3 DEF OfferSent
  <1>7. CASE EndCall(c)
    <2>1. pc[c] = "end" /\ UNCHANGED <<requests, reg, on>>
      BY <1>7 DEF EndCall, At
    <2>2. CASE Apply(c, on[c], "terminated", "on_ended")
      BY <1>4, <2>1, <2>2, CallerSpares
    <2>3. CASE state[k] = "ended" /\ held[k] = Free /\ Goto(c, Ended(c)) /\ UNCHANGED <<state, held, then>>
      \* Whoever ended it holds its lock until it is out of the registry.
      <3>1. k \notin reg
        <4>1. ASSUME NEW u \in Threads, on[u] = k, pc[u] \in {"begin", "offer", "emit_end"} PROVE FALSE
          BY <2>3, <4>1, WhoIsWho DEF DeskInv, Standing, Stage, Emitting
        <4> QED
          BY <2>3, <4>1 DEF DeskInv, Recorded
      <3>2. PICK l \in {"remove", "closing", "idle"} : Goto(c, l)
        BY <2>3 DEF Ended
      <3> QED
        BY <1>1, <1>2, <2>1, <2>3, <3>1, <3>2, GoSpares
    <2> QED
      BY <1>2, <1>7, <2>2, <2>3 DEF EndCall
  <1> QED
    BY <1>5, <1>6, <1>7

LEMMA RequestSpares == ASSUME Told, DeskInv, Unrejected, NEW c \in Clients, Request(c) PROVE Unrejected'
  <1>1. /\ pc[c] = "idle" /\ requests[c] # <<>> /\ requests' = [requests EXCEPT ![c] = Tail(@)]
        /\ UNCHANGED <<state, reg, then>>
    BY DEF Request, At, calls
  <1>2. c \in Threads /\ OnTypes /\ StateTypes /\ Standing(c) /\ c \notin Panels
    BY WhoIsWho DEF DeskInv, Told
  <1>3. 1 \in DOMAIN requests[c] /\ Head(requests[c]) = requests[c][1] /\ FewerRequests
    BY <1>1, <1>2, Takes
  <1>4. requests[c][1].call \in Calls /\ requests[c][1] \in Asked
    BY <1>2, <1>3, RequestTypes
  <1>5. PICK k \in Calls : k = requests[c][1].call
    BY <1>4
  <1>6. PICK op : op = requests[c][1].op
    OBVIOUS
  <1>7. on' = [on EXCEPT ![c] = k] /\ Goto(c, FirstStep(op, k))
    BY <1>3, <1>5, <1>6 DEF Request
  <1>8. PICK l : l = FirstStep(op, k)
    OBVIOUS
  <1>9. op \in Ops
    BY <1>4, <1>6 DEF Asked
  <1>10. (l = "reject" => op = "reject") /\ (l = "remove" => k \notin reg)
    BY <1>8, <1>9 DEF FirstStep, Ops
  <1>11. op = "reject" => k \notin ToSet(Numbers)
    BY <1>3, <1>5, <1>6 DEF Unrejected
  <1>12. then'[c] = "idle" /\ (k \in ToSet(Numbers) => Kept(k))
    BY <1>1, <1>2 DEF Standing, Place, Emitting, Unrejected
  <1> QED
    BY <1>1, <1>2, <1>3, <1>7, <1>8, <1>10, <1>11, <1>12, StepSpares DEF Kept

LEMMA RequestsSpare ==
    ASSUME Told, DeskInv, Unrejected, NEW c \in Clients,
           \/ ListStarted(c) \/ Claim(c) \/ Answer(c) \/ Reject(c)
           \/ HoldOrResume(c) \/ Release(c) \/ OfferTransfer(c) \/ Pickup(c)
    PROVE  Unrejected'
  <1>1. c \in Threads /\ c \in Callers
    BY PanelsApart
  <1>2. {"local_accepted", "local_rejected", "hold", "resume"} \subseteq Transitions
    BY DEF Transitions
  <1>3. CASE ListStarted(c)
    BY <1>1, <1>3, GoSpares DEF ListStarted, calls
  <1>4. CASE Claim(c)
    <2>1. UNCHANGED <<requests, state, reg, on, then>>
      BY <1>4 DEF Claim, calls
    <2>2. Goto(c, "answer") \/ Goto(c, "idle")
      BY <1>4 DEF Claim
    <2> QED
      BY <1>1, <2>1, <2>2, GoSpares
  <1>5. CASE Answer(c)
    <2>1. pc[c] = "answer" /\ UNCHANGED <<requests, reg, on>>
      BY <1>5 DEF Answer, At
    <2>2. \/ Apply(c, on[c], "local_accepted", "idle")
          \/ Goto(c, "idle") /\ UNCHANGED <<state, then>>
      BY <1>5 DEF Answer
    <2> QED
      BY <1>1, <1>2, <2>1, <2>2, CallerSpares, GoSpares
  <1>6. CASE Reject(c)
    <2>1. /\ pc[c] = "reject" /\ UNCHANGED <<requests, reg, on>>
          /\ Apply(c, on[c], "local_rejected", "remove")
      BY <1>6 DEF Reject, At
    <2> QED
      BY <1>1, <1>2, <2>1, CallerSpares
  <1>7. CASE HoldOrResume(c)
    <2>1. pc[c] \in {"hold", "resume", "transfer"} /\ UNCHANGED <<requests, reg, on>>
      BY <1>7 DEF HoldOrResume
    <2>2. \E tr \in {"hold", "resume"}, next \in {"release", "idle"} :
             Apply(c, on[c], tr, next) \/ (Goto(c, next) /\ UNCHANGED <<state, then>>)
      BY <1>7 DEF HoldOrResume
    <2> QED
      BY <1>1, <1>2, <2>1, <2>2, CallerSpares, GoSpares
  <1>8. CASE Release(c)
    BY <1>1, <1>8, GoSpares DEF Release, calls
  <1>9. CASE OfferTransfer(c)
    BY <1>1, <1>9, GoSpares DEF OfferTransfer, calls
  <1>10. CASE Pickup(c)
    BY <1>1, <1>10, GoSpares DEF Pickup, calls
  <1> QED
    BY <1>3, <1>4, <1>5, <1>6, <1>7, <1>8, <1>9, <1>10

LEMMA BulkSpares ==
    ASSUME Told, DeskInv, Unrejected,
           \/ \E c \in Clients : HandleBroadcast(c)
           \/ \E t \in Tasks : \/ CallNext(t) \/ Dialled(t) \/ Answered(t) \/ NoAnswer(t)
                               \/ PumpAudio(t) \/ Close(t)
    PROVE  Unrejected'
  <1>1. OnTypes /\ StateTypes /\ ToSet(Numbers) \subseteq Calls
    BY Named DEF DeskInv, Told
  <1>2. ASSUME NEW c \in Clients, HandleBroadcast(c) PROVE Unrejected'
    <2>1. /\ requests[c] # <<>> /\ requests' = [requests EXCEPT ![c] = Tail(@)]
          /\ UNCHANGED <<state, reg, pc, on, then>>
      BY <1>2 DEF HandleBroadcast, calls, threads
    <2>2. FewerRequests
      BY <1>1, <2>1, Takes
    <2>3. \A k \in ToSet(Numbers) : Kept(k) => Kept(k)'
      BY <2>1 DEF Kept
    <2> QED
      BY <2>2, <2>3 DEF Unrejected, FewerRequests
  <1>3. ASSUME NEW t \in Tasks, CallNext(t) PROVE Unrejected'
    <2>1. /\ pc[t] = "idle" /\ left # <<>> /\ on' = [on EXCEPT ![t] = Head(left)]
          /\ UNCHANGED <<requests, state, reg, then>>
      BY <1>3 DEF CallNext, At, calls
    <2>2. PICK l \in {"create", "failed"} : Goto(t, l)
      BY <1>3 DEF CallNext
    <2>3. t \in Threads /\ Standing(t) /\ left \in Seq(Calls)
      BY <1>1, WhoIsWho DEF DeskInv, OnTypes
    <2>4. PICK k \in Calls : k = Head(left)
      BY <2>1, <2>3
    <2>5. then[t] = "idle" /\ (k \in ToSet(Numbers) => Kept(k))
      BY <2>1, <2>3 DEF Standing, Place, Emitting, Unrejected
    <2> QED
      BY <2>1, <2>2, <2>3, <2>4, <2>5, SameRequests, StepSpares DEF Kept
  <1>4. ASSUME NEW t \in Tasks, Dialled(t) \/ Answered(t) \/ NoAnswer(t) \/ PumpAudio(t) \/ Close(t)
        PROVE  Unrejected'
    <2>1. UNCHANGED <<requests, state, reg, on, then>> /\ t \in Threads
      BY <1>4, WhoIsWho DEF Dialled, Answered, NoAnswer, PumpAudio, Close, DeskUntouched, calls
    <2>2. PICK l \in {"ringing", "playing", "end", "closing", "idle"} : Goto(t, l)
      BY <1>4 DEF Dialled, Answered, NoAnswer, RingsOut, PumpAudio, Close, HangUp
    <2> QED
      BY <2>1, <2>2, GoSpares
  <1> QED
    BY <1>2, <1>3, <1>4

\* The broker's broadcasts, and panels that come and go.
LEMMA QuietSpares ==
    ASSUME Unrejected, UNCHANGED <<requests, state, reg, on, then>>,
           \A t \in Threads : pc'[t] = pc[t] \/ pc'[t] \in PanelSteps
    PROVE  Unrejected'
  <1>1. \A t \in Threads : pc'[t] \in {"reject", "remove"} => pc'[t] = pc[t]
    BY DEF PanelSteps
  <1>2. \A k \in ToSet(Numbers) : Kept(k) => Kept(k)'
    BY <1>1 DEF Kept
  <1> QED
    BY <1>2 DEF Unrejected

LEMMA UnrejectedStep == Told /\ DeskInv /\ Unrejected /\ [BroadcastNext]_deskVars => Unrejected'
  <1> SUFFICES ASSUME Told, DeskInv, Unrejected, [BroadcastNext]_deskVars PROVE Unrejected'
    OBVIOUS
  <1>1. CASE UNCHANGED deskVars
    BY <1>1, QuietSpares DEF deskVars, vars, calls, threads
  <1>2. CASE Next
    <2>1. ASSUME NEW t \in Threads, TakeList(t) \/ Broadcast(t) \/ Send(t) PROVE Unrejected'
      <3>1. UNCHANGED <<requests, state, reg, on, then, pc>>
        BY <2>1 DEF TakeList, Broadcast, Send, calls
      <3> QED
        BY <3>1, QuietSpares
    <2>2. ASSUME NEW t \in Threads,
                 EmitRead(t) \/ EmitWrite(t) \/ EmitEnd(t) \/ EmitUnlist(t) \/ Unlock(t) \/ CreateCall(t)
          PROVE  Unrejected'
      BY <2>2, EmissionsSpare
    <2>3. ASSUME NEW p \in Panels, Subscribe(p) \/ Unsubscribe(p) PROVE Unrejected'
      <3>1. UNCHANGED <<requests, state, reg, on, then>> /\ \E l \in PanelSteps : Goto(p, l)
        BY <2>3 DEF Subscribe, SubscribeFirst, Unsubscribe, PanelSteps, calls
      <3>2. p \in Threads /\ Locked /\ StateTypes
        BY WhoIsWho DEF Told, DeskInv
      <3>3. pc'[p] \in PanelSteps /\ \A t \in Threads : t # p => pc'[t] = pc[t]
        BY <3>1, <3>2, GotoMoves
      <3> QED
        BY <3>1, <3>3, QuietSpares
    <2>4. CASE \/ HandleCallOffer \/ OnIncoming \/ OfferEmit
               \/ \E k \in Calls : OnIncomingOffer(k) \/ RemoteAccept(k) \/ RemoteTerminate(k) \/ Connected(k)
      BY <2>4, LoopSpares
    <2>5. ASSUME NEW c \in Callers, BeginCall(c) \/ OfferSent(c) \/ EndCall(c) PROVE Unrejected'
      BY <2>5, CallersSpare
    <2>6. ASSUME NEW c \in Clients,
                 \/ Request(c) \/ ListStarted(c) \/ Claim(c) \/ Answer(c) \/ Reject(c)
                 \/ HoldOrResume(c) \/ Release(c) \/ OfferTransfer(c) \/ Pickup(c)
          PROVE  Unrejected'
      BY <2>6, RequestSpares, RequestsSpare
    <2> QED
      BY <1>2, <2>1, <2>2, <2>3, <2>4, <2>5, <2>6 DEF Next
  <1>3. CASE \/ \E c \in Clients : HandleBroadcast(c)
             \/ \E t \in Tasks : \/ CallNext(t) \/ Dialled(t) \/ Answered(t) \/ NoAnswer(t)
                                 \/ PumpAudio(t) \/ Close(t)
    BY <1>3, BulkSpares
  <1> QED
    BY <1>1, <1>2, <1>3 DEF BroadcastNext

LEMMA NothingLeft == Told /\ DeskInv /\ Unrejected => LeavesNoCall
  <1> SUFFICES ASSUME Told, DeskInv, Unrejected, finished, NEW k \in ToSet(Numbers)
               PROVE  /\ result[k] \in Outcomes
                      /\ (\A t \in Threads : on[t] = k => At(t, "idle") \/ t \in Panels) =>
                            k \notin reg /\ list[k] = Unlisted
    BY DEF LeavesNoCall, Outcomes
  <1>1. /\ k \in Calls /\ Campaigning /\ BulkCall(k) /\ Recorded(k) /\ Kept(k)
        /\ \A t \in Threads : Place(t)
    BY Named DEF Told, DeskInv, Plan, Unrejected, Standing
  <1>2. left = <<>> /\ DOMAIN left = {} /\ Working = {}
    BY <1>1 DEF Campaigning
  <1>3. Bulk(k)
    BY <1>1 DEF Campaigning, Bulk
  <1>4. \A t \in Tasks : pc[t] = "idle"
    BY <1>2 DEF Working
  <1>5. result[k] \in Outcomes
    BY <1>1, <1>2, <1>3, <1>4 DEF BulkCall
  <1>6. ASSUME \A t \in Threads : on[t] = k => At(t, "idle") \/ t \in Panels
        PROVE  k \notin reg /\ list[k] = Unlisted
    <2>1. \A t \in Threads : on[t] = k => pc[t] \in PanelSteps \cup {"idle"}
      BY <1>1, <1>6 DEF At, Place
    <2>2. ~ \E t \in Threads : on[t] = k /\ pc[t] \in {"begin", "offer", "emit_end", "emit_unlist"}
      BY <2>1 DEF PanelSteps
    <2>3. ~ Dialling(k)
      BY <1>1, <1>3, <1>4 DEF BulkCall, Over
    <2>4. k \notin reg
      BY <1>1, <2>2, <2>3 DEF Recorded, Dialling, Early
    <2>5. state[k] \in Early \cup {"ended"}
      BY <1>1, <2>4 DEF Kept
    <2>6. list[k] = Unlisted
      BY <1>1, <1>3, <2>2, <2>5 DEF Recorded, BulkCall
    <2> QED
      BY <2>4, <2>6
  <1> QED
    BY <1>5, <1>6

\* A broadcast that is done has an outcome for each number, and leaves no call of it in the
\* registry or on the list once nobody is at work on it, unless an operator rejects one
\* (runCampaign, placeAndPlay, terminateCall).
THEOREM NothingIsLeft == NobodyRejects /\ BroadcastSpec => []LeavesNoCall
  <1>1. BroadcastInit /\ NobodyRejects => Told /\ DeskInv /\ Unrejected
    BY ToldInit, DeskInvInit, UnrejectedInit
  <1>2. Told /\ DeskInv /\ Unrejected /\ [BroadcastNext]_deskVars => (Told /\ DeskInv /\ Unrejected)'
    BY ToldStep, DeskInvStep, UnrejectedStep
  <1> QED
    BY <1>1, <1>2, NothingLeft, PTL DEF BroadcastSpec, deskVars
=============================================================================
