----------------------------- MODULE CallManager -----------------------------
(***************************************************************************)
(* One call: its CallManager (internal/voip/call), the callbacks by which  *)
(* the session wires it to the call registry, to the broker's call list    *)
(* and to the LiveKit bridge (cmd/server/session.go), and the HTTP handlers*)
(* that drive it (cmd/server/httpapi.go).                                  *)
(*                                                                         *)
(* CallManager.mu is released and taken again inside most handlers.  An    *)
(* action is therefore what a thread does from one Lock to the next one,   *)
(* pc[t] is the place where thread t will go on, and the threads are the   *)
(* ones the program really has:                                            *)
(*   Event    the whatsmeow event loop, which hands one stanza at a time   *)
(*            to Session.handleEvent;                                      *)
(*   Ack      the goroutine of StartCall that waits for the offer's ack;   *)
(*   Clients  HTTP requests, hang-ups of the browser bridge and the        *)
(*            teardown of the session;                                     *)
(* and the OnOpen callbacks of the relay connections, `opened'.            *)
(*                                                                         *)
(* emitState runs its callbacks with mu held, so they are part of the      *)
(* action that emits.                                                      *)
(***************************************************************************)
EXTENDS CallState

CONSTANTS Clients,      \* threads that serve HTTP requests and teardowns
          Event, Ack,   \* the event loop, the offer's ack goroutine
          Devices,      \* the devices of the called number (calleeDevices)
          NoDevice,     \* acceptedByJid = ""
          Relays        \* relay endpoints that can be dialled

Threads == Clients \cup {Event, Ack}

ASSUME ThreadsAssumption == /\ Event \notin Clients
                            /\ Ack \notin Clients
                            /\ Event # Ack
ASSUME DevicesAssumption == NoDevice \notin Devices /\ "local" \notin Devices

VARIABLES
    state,       \* currentCall.StateData.State, "none" while currentCall is nil
    dir,         \* currentCall.Direction
    key,         \* currentCall.EncryptionKey # nil
    endpoints,   \* currentCall.RelayData: none, or endpoints that can or cannot be dialled
    acceptedBy,  \* acceptedByJid
    codec,       \* codec # nil
    srtp,        \* srtpSession: whether it is set, whose key decrypts, from which call key
    sendLoop,    \* sendLoopStop # nil: the media send loop runs
    relays,      \* SctpRelayManager.connections, by endpoint
    opened,      \* relays whose OnOpen still has to call onRelayConnected
    registered,  \* the call is in the session's callRegistry
    record,      \* Status of the broker's CallRecord, "none" when there is none
    livekit,     \* the call has a LiveKit bridge session
    pc,          \* where each thread will go on
    ret,         \* where a thread goes on after cleanupMedia
    acc,         \* locals of HandleCallAccept and HandleCallTerminate
    elsewhere,   \* devices that were sent accepted_elsewhere
    endedBy,     \* history: who ended the call
    rejected     \* history: a reject request was answered 200

media == <<codec, srtp, sendLoop>>
session == <<registered, record, livekit>>
history == <<elsewhere, endedBy, rejected>>
vars == <<state, dir, key, endpoints, acceptedBy, media, relays, opened,
          session, pc, ret, acc, history>>

NoSrtp == [on |-> FALSE, peer |-> NoDevice, rekeyed |-> FALSE]
StanzaFrom(d) == [dev |-> d, first |-> FALSE, rekey |-> FALSE, next |-> "idle"]
NoAccept == StanzaFrom(NoDevice)

Labels == {"idle", "start", "offer", "start_upsert",
           "incoming", "on_incoming", "incoming_emit",
           "accept_key", "accept_apply", "accept_send", "accept_media",
           "transport", "transport_set", "terminate",
           "ack", "dial", "dial_current",
           "accept_call", "reject_call", "end_call", "hangup", "hold", "resume",
           "on_ended", "clean_media", "clean_relay",
           "unregister", "unregister_rejected"}

TypeOK ==
    /\ state \in CallStates \cup {"none"}
    /\ dir \in {"outgoing", "incoming"}
    /\ key \in BOOLEAN
    /\ endpoints \in {"none", "usable", "unusable"}
    /\ acceptedBy \in Devices \cup {NoDevice}
    /\ codec \in BOOLEAN
    /\ srtp \in [on : BOOLEAN, peer : Devices \cup {NoDevice}, rekeyed : BOOLEAN]
    /\ sendLoop \in BOOLEAN
    /\ relays \in [Relays -> {"none", "connecting", "open"}]
    /\ opened \in SUBSET Relays
    /\ registered \in BOOLEAN
    /\ record \in {"none", "starting", "ringing", "connected"}
    /\ livekit \in BOOLEAN
    /\ pc \in [Threads -> Labels]
    /\ ret \in [Threads -> {"idle", "unregister", "unregister_rejected"}]
    /\ acc \in [dev : Devices \cup {NoDevice}, first : BOOLEAN,
                rekey : BOOLEAN, next : {"idle", "dial", "accept_media"}]
    /\ elsewhere \in SUBSET Devices
    /\ endedBy \in Devices \cup {NoDevice, "local"}
    /\ rejected \in BOOLEAN

Init ==
    /\ state = "none"
    /\ dir \in {"outgoing", "incoming"}
    /\ key = FALSE
    /\ endpoints = "none"
    /\ acceptedBy = NoDevice
    /\ codec = FALSE
    /\ srtp = NoSrtp
    /\ sendLoop = FALSE
    /\ relays = [r \in Relays |-> "none"]
    /\ opened = {}
    /\ registered = FALSE
    /\ record = "none"
    /\ livekit = FALSE
    /\ pc = [t \in Threads |-> "idle"]
    /\ ret = [t \in Threads |-> "idle"]
    /\ acc = NoAccept
    /\ elsewhere = {}
    /\ endedBy = NoDevice
    /\ rejected = FALSE

-----------------------------------------------------------------------------
(* Steps shared by the handlers *)

Goto(t, here, there) == pc[t] = here /\ pc' = [pc EXCEPT ![t] = there]

HasConnection == \E r \in Relays : relays[r] = "open"

\* A faulty InitSrtpKeys: the device that answered is not looked at.
InitSrtpKeysOfCaller(peer) ==
    srtp' = IF key' THEN [on |-> TRUE, peer |-> NoDevice, rekeyed |-> FALSE] ELSE srtp

\* initSrtpKeysLocked: the receive key is the answering device's once one is
\* known, derived from the call's own key.
InitSrtpKeys(peer) ==
    srtp' = IF key' THEN [on |-> TRUE, peer |-> peer, rekeyed |-> FALSE] ELSE srtp

\* Faulty EmitStates: an ended call is upserted like any other one; an ended call
\* is removed but not detached from LiveKit.
EmitStateUpserts(s) ==
    record' = MapStatus(s) /\ UNCHANGED <<registered, livekit>>

EmitStateNoDetach(s) ==
    /\ record' = IF s = "ended" THEN "none" ELSE MapStatus(s)
    /\ registered' = (registered /\ s # "ended")
    /\ livekit' = (livekit \/ s = "active")

\* emitState with the callbacks of wireCall: an ended call is detached, removed
\* and ended in the broker; any other one is upserted, and attached when active.
EmitState(s) ==
    IF s = "ended"
    THEN /\ livekit' = FALSE
         /\ registered' = FALSE
         /\ record' = "none"
    ELSE /\ livekit' \in IF s = "active" THEN {livekit, TRUE} ELSE {livekit}
         /\ record' = MapStatus(s)
         /\ UNCHANGED registered

\* A transition whose error is ignored, and the state emitted after it.
ApplyAndEmit(t) ==
    /\ state' = ApplyTransition(state, t)
    /\ EmitState(state')

\* A faulty MediaConnected: the relay's opening connects a call that still rings.
MediaConnectedEarly ==
    IF state \in {"ringing", "connecting"}
    THEN state' = "active" /\ EmitState("active") /\ sendLoop' = (sendLoop \/ codec)
    ELSE UNCHANGED <<state, session, sendLoop>>

\* MediaConnected: with the transition, the state is emitted and the send loop
\* starts (startMediaSendLoopLocked: not without a codec).
MediaConnected ==
    IF state = "connecting"
    THEN ApplyAndEmit("media_connected") /\ sendLoop' = (sendLoop \/ codec)
    ELSE UNCHANGED <<state, session, sendLoop>>

EndedBy(who) == endedBy' = IF state # "ended" /\ state' = "ended" THEN who ELSE endedBy

-----------------------------------------------------------------------------
(* An outgoing call: doStartCall, startOutgoing, StartCall, HandleCallAck *)

\* createCall registers the manager before StartCall has a call in it.
CreateOutgoing(c) ==
    /\ dir = "outgoing" /\ state = "none" /\ ~registered
    /\ \A t \in Threads : pc[t] = "idle"
    /\ registered' = TRUE
    /\ Goto(c, "idle", "start")
    /\ UNCHANGED <<state, dir, key, endpoints, acceptedBy, media, relays, opened,
                   record, livekit, ret, acc, history>>

StartCall(c) ==
    /\ Goto(c, "start", "offer")
    /\ state' = "initiating"
    /\ key' = TRUE
    /\ codec' \in BOOLEAN            \* no codec: the call runs signalling-only
    /\ UNCHANGED <<dir, endpoints, acceptedBy, srtp, sendLoop, relays, opened,
                   session, ret, acc, history>>

\* BuildOfferStanza failed: startOutgoing only removes the call.
OfferFailed(c) ==
    /\ Goto(c, "offer", "idle")
    /\ registered' = FALSE
    /\ UNCHANGED <<state, dir, key, endpoints, acceptedBy, media, relays, opened,
                   record, livekit, ret, acc, history>>

OfferSent(c) ==
    /\ pc[c] = "offer"
    /\ pc' = [pc EXCEPT ![c] = "start_upsert", ![Ack] = "ack"]
    /\ ApplyAndEmit("offer_sent")
    /\ UNCHANGED <<dir, key, endpoints, acceptedBy, media, relays, opened,
                   ret, acc, history>>

\* doStartCall lists the call, with its owner, once StartCall has returned.
StartUpsert(c) ==
    /\ Goto(c, "start_upsert", "idle")
    /\ record' = "ringing"
    /\ UNCHANGED <<state, dir, key, endpoints, acceptedBy, media, relays, opened,
                   registered, livekit, ret, acc, history>>

\* The query failed, or the ack carries an error or no relay.
AckIgnored ==
    /\ Goto(Ack, "ack", "idle")
    /\ UNCHANGED <<state, dir, key, endpoints, acceptedBy, media, relays, opened,
                   session, ret, acc, history>>

HandleCallAck ==
    /\ endpoints' \in {"usable", "unusable"}
    /\ Goto(Ack, "ack", IF endpoints' = "usable" THEN "dial" ELSE "idle")
    /\ UNCHANGED key
    /\ InitSrtpKeys(acceptedBy) \/ UNCHANGED srtp     \* the ack may list no participant
    /\ UNCHANGED <<state, dir, acceptedBy, codec, sendLoop, relays, opened,
                   session, ret, acc, history>>

-----------------------------------------------------------------------------
(* The relays, as the call manager sees them (SctpRelayManager) *)

\* connectRelays.  buildRelayConfigs drops the endpoints that cannot be used (a
\* handler whose endpoints cannot be used goes on without this step) and
\* ConfigureRelays skips the ones that are already connected or connecting.
\* AcceptCall reads the endpoints only here, so it may find another stanza's.
Dial(t) ==
    /\ pc[t] \in {"dial", "dial_current"}
    /\ pc' = [pc EXCEPT ![t] = "idle"]
    /\ LET usable == pc[t] = "dial" \/ endpoints = "usable" IN
       relays' = [r \in Relays |-> IF usable /\ relays[r] = "none" THEN "connecting"
                                                                   ELSE relays[r]]
    /\ UNCHANGED <<state, dir, key, endpoints, acceptedBy, media, opened,
                   session, ret, acc, history>>

RelayOpen(r) ==
    /\ relays[r] = "connecting"
    /\ relays' = [relays EXCEPT ![r] = "open"]
    /\ opened' = opened \cup {r}
    /\ UNCHANGED <<state, dir, key, endpoints, acceptedBy, media,
                   session, pc, ret, acc, history>>

\* ICE failure, connection timeout, or a channel closed by the far end.  OnOpen
\* does not look whether its connection is still there: it may be on its way.
RelayLost(r) ==
    /\ relays[r] # "none"
    /\ relays' = [relays EXCEPT ![r] = "none"]
    /\ opened' \in {opened, IF relays[r] = "connecting" THEN opened \cup {r} ELSE opened}
    /\ UNCHANGED <<state, dir, key, endpoints, acceptedBy, media,
                   session, pc, ret, acc, history>>

OnRelayConnected(r) ==
    /\ r \in opened
    /\ opened' = opened \ {r}
    /\ MediaConnected
    /\ UNCHANGED <<dir, key, endpoints, acceptedBy, codec, srtp, relays,
                   pc, ret, acc, history>>

-----------------------------------------------------------------------------
(* Stanzas: one at a time, in the event loop *)

OnIncomingOffer ==
    /\ dir = "incoming" /\ state = "none" /\ ~registered
    /\ \A t \in Threads : pc[t] = "idle"
    /\ registered' = TRUE
    /\ Goto(Event, "idle", "incoming")
    /\ UNCHANGED <<state, dir, key, endpoints, acceptedBy, media, relays, opened,
                   record, livekit, ret, acc, history>>

HandleCallOffer ==
    /\ Goto(Event, "incoming", "on_incoming")
    /\ state' = "incoming_ringing"
    /\ key' \in BOOLEAN              \* the call key may not decrypt
    /\ endpoints' \in {"none", "usable", "unusable"}
    /\ codec' \in BOOLEAN
    /\ IF endpoints' # "none" THEN InitSrtpKeys(NoDevice) ELSE UNCHANGED srtp
    /\ UNCHANGED <<dir, acceptedBy, sendLoop, relays, opened,
                   session, ret, acc, history>>

\* OnIncoming, after the lock is released, lists the call as ringing ...
OnIncoming ==
    /\ Goto(Event, "on_incoming", "incoming_emit")
    /\ record' = "ringing"
    /\ UNCHANGED <<state, dir, key, endpoints, acceptedBy, media, relays, opened,
                   registered, livekit, ret, acc, history>>

\* ... and the state is emitted once more, which unlists a call that has ended.
IncomingEmit ==
    /\ Goto(Event, "incoming_emit", "idle")
    /\ EmitState(state)
    /\ UNCHANGED <<state, dir, key, endpoints, acceptedBy, media, relays, opened,
                   ret, acc, history>>

\* A faulty MayAnswer: every accept is let through.
MayAnswerAlways(d) == d \in Devices

\* First accept wins: the accept of another device is turned away.  A retry of
\* the same device passes.
MayAnswer(d) == acceptedBy \in {NoDevice, d}

\* callForEvent: a stanza reaches the manager only while the call is registered.
HandleCallAccept(d) ==
    /\ registered /\ dir = "outgoing" /\ state \notin {"none", "initiating"}
    /\ MayAnswer(d)
    /\ Goto(Event, "idle", "accept_key")
    /\ acc' = StanzaFrom(d)
    /\ UNCHANGED <<state, dir, key, endpoints, acceptedBy, media, relays, opened,
                   session, ret, history>>

\* The accept carries no call key, one that does not decrypt, or ours.
AcceptKeepsKey ==
    /\ Goto(Event, "accept_key", "accept_apply")
    /\ UNCHANGED <<state, dir, key, endpoints, acceptedBy, media, relays, opened,
                   session, ret, acc, history>>

\* It carries another one: reinitSrtpLocked.
AcceptRekeys ==
    /\ Goto(Event, "accept_key", "accept_apply")
    /\ key
    /\ srtp' = [on |-> TRUE, peer |-> acc.dev, rekeyed |-> TRUE]
    /\ acc' = [dev |-> acc.dev, first |-> FALSE, rekey |-> TRUE, next |-> "idle"]
    /\ UNCHANGED <<state, dir, key, endpoints, acceptedBy, codec, sendLoop,
                   relays, opened, session, ret, history>>

\* A faulty AfterAccept: whether a relay is open already is not looked at.
AfterAcceptBlind == IF endpoints = "usable" THEN "dial" ELSE "idle"

\* hasConn and relayData, read with the transition and used after the sends.
AfterAccept ==
    IF HasConnection THEN "accept_media"
    ELSE IF endpoints = "usable" THEN "dial"
    ELSE "idle"

AcceptApply ==
    /\ Goto(Event, "accept_apply", "accept_send")
    /\ ApplyAndEmit("remote_accepted")
    /\ acceptedBy' = acc.dev
    /\ UNCHANGED key
    /\ InitSrtpKeys(acceptedBy')
    /\ acc' = [dev |-> acc.dev, first |-> (acceptedBy = NoDevice),
               rekey |-> acc.rekey, next |-> AfterAccept]
    /\ UNCHANGED <<dir, endpoints, codec, sendLoop, relays, opened, ret, history>>

\* On the first accept the other devices are told to stop ringing; the send may fail.
AcceptSend ==
    /\ Goto(Event, "accept_send", acc.next)
    /\ elsewhere' \in {elsewhere,
                       IF acc.first THEN elsewhere \cup (Devices \ {acc.dev}) ELSE elsewhere}
    /\ acc' = NoAccept
    /\ UNCHANGED <<state, dir, key, endpoints, acceptedBy, media, relays, opened,
                   session, ret, endedBy, rejected>>

AcceptMedia ==
    /\ Goto(Event, "accept_media", "idle")
    /\ MediaConnected
    /\ UNCHANGED <<dir, key, endpoints, acceptedBy, codec, srtp, relays, opened,
                   ret, acc, history>>

HandleCallTransport ==
    /\ registered /\ state \notin {"none", "initiating"}
    /\ Goto(Event, "idle", "transport")
    /\ UNCHANGED <<state, dir, key, endpoints, acceptedBy, media, relays, opened,
                   session, ret, acc, history>>

\* HasConnection is read without CallManager.mu.
TransportCheck ==
    /\ Goto(Event, "transport", IF HasConnection THEN "idle" ELSE "transport_set")
    /\ UNCHANGED <<state, dir, key, endpoints, acceptedBy, media, relays, opened,
                   session, ret, acc, history>>

\* ExtractRelayEndpoints fills in no RawToken and buildRelayConfigs wants one, so
\* that the stanza's endpoints replace the ones of the offer but are not dialled.
TransportSet ==
    /\ Goto(Event, "transport_set", "idle")
    /\ endpoints' = "unusable"
    /\ UNCHANGED <<state, dir, key, acceptedBy, media, relays, opened,
                   session, ret, acc, history>>

\* <terminate> and <reject> have one handler.
RouteTerminate(d) ==
    /\ registered /\ state \notin {"none", "initiating"}
    /\ Goto(Event, "idle", "terminate")
    /\ acc' = StanzaFrom(d)
    /\ UNCHANGED <<state, dir, key, endpoints, acceptedBy, media, relays, opened,
                   session, ret, history>>

\* A faulty FromOtherDevice: any device may end the call.
FromOtherDeviceNever == FALSE

\* After an accept, only the device that answered may end the call.
FromOtherDevice == acceptedBy \notin {NoDevice, acc.dev} /\ state # "ended"

TerminateIgnored ==
    /\ FromOtherDevice
    /\ Goto(Event, "terminate", "idle")
    /\ acc' = NoAccept
    /\ UNCHANGED <<state, dir, key, endpoints, acceptedBy, media, relays, opened,
                   session, ret, history>>

HandleCallTerminate ==
    /\ ~FromOtherDevice
    /\ Goto(Event, "terminate", "on_ended")
    /\ ApplyAndEmit("terminated")
    /\ EndedBy(acc.dev)
    /\ acc' = NoAccept
    /\ UNCHANGED <<dir, key, endpoints, acceptedBy, media, relays, opened, ret,
                   elsewhere, rejected>>

-----------------------------------------------------------------------------
(* HTTP requests, hang-ups and teardown *)

\* The handlers look the call up in the registry before they use its manager.
\* Clients know a call from the broker's list.
Lookup(c, op) ==
    /\ registered /\ record # "none"
    /\ Goto(c, "idle", op)
    /\ UNCHANGED <<state, dir, key, endpoints, acceptedBy, media, relays, opened,
                   session, ret, acc, history>>

\* doReject and doEndCall of a call that is gone still clear the broker's list.
LookupGone(c) ==
    /\ ~registered /\ state # "none"
    /\ Goto(c, "idle", "unregister")
    /\ UNCHANGED <<state, dir, key, endpoints, acceptedBy, media, relays, opened,
                   session, ret, acc, history>>

\* teardownAllCalls drains the registry and then ends the calls it held.
Drain(c) ==
    /\ registered
    /\ Goto(c, "idle", "hangup")
    /\ registered' = FALSE
    /\ UNCHANGED <<state, dir, key, endpoints, acceptedBy, media, relays, opened,
                   record, livekit, ret, acc, history>>

AcceptCall(c) ==
    /\ IF state = "incoming_ringing"
       THEN /\ ApplyAndEmit("local_accepted")
            /\ Goto(c, "accept_call", IF endpoints # "none" THEN "dial_current" ELSE "idle")
       ELSE /\ Goto(c, "accept_call", "idle")
            /\ UNCHANGED <<state, session>>
    /\ UNCHANGED <<dir, key, endpoints, acceptedBy, media, relays, opened,
                   ret, acc, history>>

\* The error of LocalRejected is ignored, the media is torn down whatever it is.
RejectCall(c) ==
    /\ Goto(c, "reject_call", "clean_media")
    /\ ApplyAndEmit("local_rejected")
    /\ EndedBy("local")
    /\ ret' = [ret EXCEPT ![c] = "unregister_rejected"]
    /\ UNCHANGED <<dir, key, endpoints, acceptedBy, media, relays, opened, acc,
                   elsewhere, rejected>>

\* EndCall, for DELETE (which clears the lists afterwards) and for hang-ups.
EndCall(c) ==
    /\ pc[c] \in {"end_call", "hangup"}
    /\ LET after == IF pc[c] = "end_call" THEN "unregister" ELSE "idle" IN
       IF state \in {"none", "ended"}
       THEN /\ pc' = [pc EXCEPT ![c] = after]
            /\ UNCHANGED <<state, session, endedBy, ret>>
       ELSE /\ pc' = [pc EXCEPT ![c] = "on_ended"]
            /\ ApplyAndEmit("terminated")
            /\ EndedBy("local")
            /\ ret' = [ret EXCEPT ![c] = after]
    /\ UNCHANGED <<dir, key, endpoints, acceptedBy, media, relays, opened, acc,
                   elsewhere, rejected>>

Hold(c) ==
    /\ Goto(c, "hold", "idle")
    /\ IF state = "active" THEN ApplyAndEmit("hold") ELSE UNCHANGED <<state, session>>
    /\ UNCHANGED <<dir, key, endpoints, acceptedBy, media, relays, opened,
                   ret, acc, history>>

Resume(c) ==
    /\ Goto(c, "resume", "idle")
    /\ IF state = "on_hold" THEN ApplyAndEmit("resume") ELSE UNCHANGED <<state, session>>
    /\ UNCHANGED <<dir, key, endpoints, acceptedBy, media, relays, opened,
                   ret, acc, history>>

\* A faulty OnEnded: the callback is the last thing that is done.
OnEndedReturns(t) ==
    /\ Goto(t, "on_ended", ret[t])
    /\ EmitState("ended")
    /\ UNCHANGED <<state, dir, key, endpoints, acceptedBy, media, relays, opened,
                   ret, acc, history>>

OnEnded(t) ==
    /\ Goto(t, "on_ended", "clean_media")
    /\ EmitState("ended")
    /\ UNCHANGED <<state, dir, key, endpoints, acceptedBy, media, relays, opened,
                   ret, acc, history>>

\* A faulty CleanMedia: the send loop's stop channel is left open.
CleanMediaKeepsLoop(t) ==
    /\ Goto(t, "clean_media", "clean_relay")
    /\ codec' = FALSE
    /\ srtp' = NoSrtp
    /\ UNCHANGED <<state, dir, key, endpoints, acceptedBy, sendLoop, relays, opened,
                   session, ret, acc, history>>

\* cleanupMedia under the lock ...
CleanMedia(t) ==
    /\ Goto(t, "clean_media", "clean_relay")
    /\ codec' = FALSE
    /\ sendLoop' = FALSE
    /\ srtp' = NoSrtp
    /\ UNCHANGED <<state, dir, key, endpoints, acceptedBy, relays, opened,
                   session, ret, acc, history>>

\* ... and after it: Cleanup forgets the relays; the OnOpen of one that was
\* connecting may be on its way.
CleanRelay(t) ==
    /\ Goto(t, "clean_relay", ret[t])
    /\ ret' = [ret EXCEPT ![t] = "idle"]
    /\ relays' = [r \in Relays |-> "none"]
    /\ \E late \in SUBSET {r \in Relays : relays[r] = "connecting"} :
          opened' = opened \cup late
    /\ UNCHANGED <<state, dir, key, endpoints, acceptedBy, media,
                   session, acc, history>>

\* The end of doEndCall and doReject: removeCall and the broker's endCall.
Unregister(c) ==
    /\ pc[c] \in {"unregister", "unregister_rejected"}
    /\ pc' = [pc EXCEPT ![c] = "idle"]
    /\ registered' = FALSE
    /\ record' = "none"
    /\ rejected' = (rejected \/ pc[c] = "unregister_rejected")
    /\ UNCHANGED <<state, dir, key, endpoints, acceptedBy, media, relays, opened,
                   livekit, ret, acc, elsewhere, endedBy>>

-----------------------------------------------------------------------------
ClientOps == {"accept_call", "reject_call", "end_call", "hangup", "hold", "resume"}

\* What starts by itself: requests, stanzas, teardowns, relay events.
Arrivals ==
    \/ \E c \in Clients : \/ CreateOutgoing(c) \/ LookupGone(c) \/ Drain(c)
                          \/ \E op \in ClientOps : Lookup(c, op)
    \/ OnIncomingOffer
    \/ \E d \in Devices : HandleCallAccept(d) \/ RouteTerminate(d)
    \/ HandleCallTransport
    \/ \E r \in Relays : RelayOpen(r) \/ RelayLost(r)

ClientStep(c) ==
    \/ StartCall(c) \/ OfferFailed(c) \/ OfferSent(c) \/ StartUpsert(c)
    \/ AcceptCall(c) \/ RejectCall(c) \/ EndCall(c) \/ Hold(c) \/ Resume(c)
    \/ Unregister(c)

EventStep ==
    \/ HandleCallOffer \/ OnIncoming \/ IncomingEmit
    \/ AcceptKeepsKey \/ AcceptRekeys \/ AcceptApply \/ AcceptSend \/ AcceptMedia
    \/ TransportCheck \/ TransportSet
    \/ TerminateIgnored \/ HandleCallTerminate

CommonStep(t) == Dial(t) \/ OnEnded(t) \/ CleanMedia(t) \/ CleanRelay(t)

Next ==
    \/ Arrivals
    \/ \E c \in Clients : ClientStep(c)
    \/ EventStep
    \/ AckIgnored \/ HandleCallAck
    \/ \E t \in Threads : CommonStep(t)
    \/ \E r \in Relays : OnRelayConnected(r)

Spec == Init /\ [][Next]_vars

\* A goroutine that can go on does: handlers finish what they have begun.
Fairness ==
    /\ \A c \in Clients : WF_vars(ClientStep(c))
    /\ WF_vars(EventStep)
    /\ WF_vars(AckIgnored \/ HandleCallAck)
    /\ \A t \in Threads : WF_vars(CommonStep(t))
    /\ \A r \in Relays : WF_vars(OnRelayConnected(r))

FairSpec == Spec /\ Fairness

-----------------------------------------------------------------------------
(* Properties *)

\* Only the device that answered may end the call from the far side: the late
\* reject or terminate of a sibling that kept ringing does not bring it down
\* (HandleCallTerminate, TestLateRejectFromNonAnsweringDeviceKeepsCall).
AnsweringDeviceEnds ==
    endedBy \in Devices /\ acceptedBy # NoDevice => endedBy = acceptedBy

\* The session that decrypts the peer's media is keyed to the device that
\* answered, whichever of the accept and the offer's ack comes last
\* (HandleCallAccept, HandleCallAck, initSrtpKeysLocked).
KeyedToAnsweringDevice ==
    srtp.on /\ acceptedBy # NoDevice => srtp.peer = acceptedBy

\* The device that answered is never told that the call was answered elsewhere.
AnsweringDeviceNotDismissed == acceptedBy \notin elsewhere

\* Threads that are going to tear the media down.
CleaningUp == \E t \in Threads : pc[t] \in {"on_ended", "clean_media"}

\* The send loop runs only during the connected part of the call: once the call
\* has ended it runs no longer than until the ending thread's cleanupMedia.
SendLoopDuringCall ==
    sendLoop => state \in {"active", "on_hold"} \/ (state = "ended" /\ CleaningUp)

\* A call that has ended is not left in the registry or in the LiveKit bridge,
\* nor with its codec open, once the thread that ended it is through.
EndedIsReleased ==
    state = "ended" => /\ ~registered
                       /\ ~livekit
                       /\ codec => CleaningUp

\* An outgoing call is connected only if one of the callee's devices accepted it.
ConnectedIfAnswered ==
    dir = "outgoing" /\ state \in {"connecting", "active", "on_hold"}
        => acceptedBy # NoDevice

\* First accept wins: no later accept takes the call over, and a call that has
\* ended neither comes back nor gets another ending device.
CallSettles ==
    [][ /\ acceptedBy # NoDevice => acceptedBy' = acceptedBy
        /\ state = "ended" => state' = "ended" /\ endedBy' = endedBy ]_vars

\* A relay that is open is used: the connecting call becomes active, unless it
\* ends or loses the relay.  The accept and the opening of the relay race, and
\* whichever is second has to see the first (HandleCallAccept, onRelayConnected).
OpenRelayConnects ==
    (state = "connecting" /\ HasConnection) ~> (state # "connecting" \/ ~HasConnection)

\* Whoever ends the call, its media is torn down (cleanupMedia).
EndedIsTornDown == (state = "ended") ~> (~codec /\ ~sendLoop)

\* "a retransmissao e a unica chance de reparar a chave": an accept whose call
\* key decrypts and differs from ours leaves the media keyed with it.
AcceptRepairsKey ==
    pc[Event] = "accept_send" /\ acc.rekey /\ srtp.on => srtp.rekeyed

\* The calls the panel lists as active are calls that have not ended, once the
\* handlers are through.
ListedCallsAreLive ==
    state = "ended" /\ (\A t \in Threads : pc[t] = "idle") => record = "none"

\* A call whose reject request was answered "Rejeitada" does not become active.
RejectedStaysDown == rejected => state \notin {"active", "on_hold"}
=============================================================================
