-------------------------- MODULE CallManagerProofs --------------------------
(***************************************************************************)
(* Proofs about CallManager: for any number of clients, callee devices and *)
(* relays, the safety invariants of the model hold and a call settles.     *)
(***************************************************************************)
EXTENDS CallManager, TLAPS

\* A thread that is about to begin the call is the only one, and the call does not
\* exist before its StartCall or HandleCallOffer.  The ack goroutine ends no call.
Beginning ==
    /\ \A t \in Threads : pc[t] = "start" => state = "none" /\ dir = "outgoing"
    /\ \A t, u \in Threads : pc[t] = "start" /\ pc[u] = "start" => t = u
    /\ pc[Event] = "incoming" => state = "none" /\ dir = "incoming"
    /\ pc[Ack] \in {"idle", "ack", "dial"}

\* Who can be in the answering role, in either direction of the call.
Directions ==
    /\ dir = "incoming" => acceptedBy = NoDevice
    /\ state = "incoming_ringing" => dir = "incoming"

\* No key, no SRTP session.
Keys ==
    /\ state = "none" => ~key
    /\ srtp.on => key

\* An accept that was let through is still the one that may answer.
Accepting ==
    /\ pc[Event] \in {"accept_key", "accept_apply"} =>
          /\ acc.dev \in Devices
          /\ acceptedBy \in {NoDevice, acc.dev}
          /\ dir = "outgoing"
          /\ endedBy \notin Devices
    /\ pc[Event] = "accept_send" => acc.dev \in Devices /\ acceptedBy = acc.dev

\* Nobody is dismissed before there is an answer, nor ends a call that goes on.
Answered ==
    /\ acceptedBy = NoDevice => elsewhere = {}
    /\ endedBy \in Devices => state = "ended"

Safety ==
    /\ AnsweringDeviceEnds
    /\ KeyedToAnsweringDevice
    /\ AnsweringDeviceNotDismissed
    /\ SendLoopDuringCall
    /\ EndedIsReleased
    /\ ConnectedIfAnswered

Inv == TypeOK /\ Beginning /\ Directions /\ Keys /\ Accepting /\ Answered /\ Safety

-----------------------------------------------------------------------------
(* What the operators of the model return *)

\* ApplyTransition keeps to the call states, and a call that is not there or has
\* ended stays so whatever is applied.
LEMMA ApplyTransitionFacts ==
    ASSUME NEW s \in CallStates \cup {"none"}, NEW t \in Transitions
    PROVE  /\ ApplyTransition(s, t) \in CallStates \cup {"none"}
           /\ s = "none" => ApplyTransition(s, t) = "none"
           /\ s # "none" => ApplyTransition(s, t) # "none"
           /\ s = "ended" => ApplyTransition(s, t) = "ended"
  BY DEF ApplyTransition, Allowed, Target, CallStates, Transitions

\* The transitions that the handlers apply.
LEMMA Transition ==
    ASSUME NEW s
    PROVE  /\ ApplyTransition(s, "offer_sent") = IF s = "initiating" THEN "ringing" ELSE s
           /\ ApplyTransition(s, "remote_accepted") = IF s = "ringing" THEN "connecting" ELSE s
           /\ ApplyTransition(s, "local_accepted")
                 = IF s = "incoming_ringing" THEN "connecting" ELSE s
           /\ ApplyTransition(s, "local_rejected")
                 = IF s = "incoming_ringing" THEN "ended" ELSE s
           /\ ApplyTransition(s, "media_connected") = IF s = "connecting" THEN "active" ELSE s
           /\ ApplyTransition(s, "terminated")
                 = IF s \in CallStates THEN "ended" ELSE s
           /\ ApplyTransition(s, "hold") = IF s = "active" THEN "on_hold" ELSE s
           /\ ApplyTransition(s, "resume") = IF s = "on_hold" THEN "active" ELSE s
  BY DEF ApplyTransition, Allowed, Target, CallStates

\* The broker's record of a call that is emitted has a status it can list.
LEMMA EmitStateType ==
    ASSUME NEW s \in CallStates \cup {"none"}, livekit \in BOOLEAN,
           registered \in BOOLEAN, EmitState(s)
    PROVE  /\ record' \in {"none", "starting", "ringing", "connected"}
           /\ livekit' \in BOOLEAN
           /\ registered' \in BOOLEAN
           /\ registered' => registered
           /\ s = "ended" => ~registered' /\ ~livekit'
  BY DEF EmitState, MapStatus, CallStates
SrtpType == [on : BOOLEAN, peer : Devices \cup {NoDevice}, rekeyed : BOOLEAN]

\* initSrtpKeysLocked leaves a session, keyed to the peer it is given, or none.
LEMMA InitSrtpKeysType ==
    ASSUME srtp \in SrtpType, NEW peer \in Devices \cup {NoDevice}, InitSrtpKeys(peer)
    PROVE  srtp' \in SrtpType
  BY DEF InitSrtpKeys, SrtpType

-----------------------------------------------------------------------------
(* Type correctness *)

\* Every step keeps the variables in their types.
LEMMA TypeStep == TypeOK /\ [Next]_vars => TypeOK'
  <1> SUFFICES ASSUME TypeOK, [Next]_vars PROVE TypeOK'
    OBVIOUS
  <1> USE DEF TypeOK, media, session, history, Threads, Goto, Labels
  <1>1. ASSUME NEW c \in Clients, CreateOutgoing(c) PROVE TypeOK'
    BY <1>1 DEF CreateOutgoing
  <1>2. ASSUME NEW c \in Clients, LookupGone(c) PROVE TypeOK'
    BY <1>2 DEF LookupGone
  <1>3. ASSUME NEW c \in Clients, Drain(c) PROVE TypeOK'
    <2>1. registered' \in BOOLEAN
      BY <1>3, Zenon DEF Drain
    <2> QED
      BY <1>3, <2>1 DEF Drain
  <1>4. ASSUME NEW c \in Clients, NEW op \in ClientOps, Lookup(c, op) PROVE TypeOK'
    BY <1>4 DEF Lookup, ClientOps
  <1>5. ASSUME NEW c \in Clients, StartCall(c) PROVE TypeOK'
    <2>1. codec' \in BOOLEAN
      BY <1>5, Zenon DEF StartCall
    <2> QED
      BY <1>5, <2>1 DEF StartCall, CallStates
  <1>6. ASSUME NEW c \in Clients, OfferFailed(c) PROVE TypeOK'
    <2>1. registered' \in BOOLEAN
      BY <1>6, Zenon DEF OfferFailed
    <2> QED
      BY <1>6, <2>1 DEF OfferFailed
  <1>7. ASSUME NEW c \in Clients, OfferSent(c) PROVE TypeOK'
    BY <1>7, ApplyTransitionFacts, EmitStateType
       DEF OfferSent, ApplyAndEmit, Transitions
  <1>8. ASSUME NEW c \in Clients, StartUpsert(c) PROVE TypeOK'
    BY <1>8 DEF StartUpsert
  <1>9. ASSUME NEW c \in Clients, AcceptCall(c) PROVE TypeOK'
    BY <1>9, ApplyTransitionFacts, EmitStateType
       DEF AcceptCall, ApplyAndEmit, Transitions
  <1>10. ASSUME NEW c \in Clients, RejectCall(c) PROVE TypeOK'
    BY <1>10, ApplyTransitionFacts, EmitStateType
       DEF RejectCall, ApplyAndEmit, Transitions, EndedBy
  <1>11. ASSUME NEW c \in Clients, EndCall(c) PROVE TypeOK'
    BY <1>11, ApplyTransitionFacts, EmitStateType
       DEF EndCall, ApplyAndEmit, Transitions, EndedBy
  <1>12. ASSUME NEW c \in Clients, Hold(c) PROVE TypeOK'
    BY <1>12, ApplyTransitionFacts, EmitStateType DEF Hold, ApplyAndEmit, Transitions
  <1>13. ASSUME NEW c \in Clients, Resume(c) PROVE TypeOK'
    BY <1>13, ApplyTransitionFacts, EmitStateType DEF Resume, ApplyAndEmit, Transitions
  <1>14. ASSUME NEW c \in Clients, Unregister(c) PROVE TypeOK'
    <2>1. registered' \in BOOLEAN /\ rejected' \in BOOLEAN
      BY <1>14, Zenon DEF Unregister
    <2> QED
      BY <1>14, <2>1 DEF Unregister
  <1>15. ASSUME OnIncomingOffer PROVE TypeOK'
    BY <1>15 DEF OnIncomingOffer
  <1>16. ASSUME NEW d \in Devices, HandleCallAccept(d) PROVE TypeOK'
    BY <1>16 DEF HandleCallAccept, StanzaFrom
  <1>17. ASSUME HandleCallTransport PROVE TypeOK'
    BY <1>17 DEF HandleCallTransport
  <1>18. ASSUME NEW d \in Devices, RouteTerminate(d) PROVE TypeOK'
    BY <1>18 DEF RouteTerminate, StanzaFrom
  <1>19. ASSUME HandleCallOffer PROVE TypeOK'
    <2>1. srtp' \in SrtpType
      BY <1>19, InitSrtpKeysType DEF HandleCallOffer, SrtpType
    <2>2. key' \in BOOLEAN /\ codec' \in BOOLEAN
      BY <1>19, Zenon DEF HandleCallOffer
    <2> QED
      BY <1>19, <2>1, <2>2 DEF HandleCallOffer, SrtpType, CallStates
  <1>20. ASSUME OnIncoming PROVE TypeOK'
    BY <1>20 DEF OnIncoming
  <1>21. ASSUME IncomingEmit PROVE TypeOK'
    BY <1>21, EmitStateType DEF IncomingEmit
  <1>22. ASSUME AcceptKeepsKey PROVE TypeOK'
    BY <1>22 DEF AcceptKeepsKey
  <1>23. ASSUME AcceptRekeys PROVE TypeOK'
    BY <1>23 DEF AcceptRekeys
  <1>24. ASSUME AcceptApply PROVE TypeOK'
    BY <1>24, ApplyTransitionFacts, EmitStateType
       DEF AcceptApply, ApplyAndEmit, Transitions, InitSrtpKeys, AfterAccept
  <1>25. ASSUME AcceptSend PROVE TypeOK'
    BY <1>25 DEF AcceptSend, NoAccept, StanzaFrom
  <1>26. ASSUME AcceptMedia PROVE TypeOK'
    BY <1>26, ApplyTransitionFacts, EmitStateType
       DEF AcceptMedia, ApplyAndEmit, Transitions, MediaConnected
  <1>27. ASSUME TransportCheck PROVE TypeOK'
    BY <1>27 DEF TransportCheck
  <1>28. ASSUME TransportSet PROVE TypeOK'
    BY <1>28 DEF TransportSet
  <1>29. ASSUME TerminateIgnored PROVE TypeOK'
    BY <1>29 DEF TerminateIgnored, NoAccept, StanzaFrom
  <1>30. ASSUME HandleCallTerminate PROVE TypeOK'
    BY <1>30, ApplyTransitionFacts, EmitStateType
       DEF HandleCallTerminate, ApplyAndEmit, Transitions, EndedBy, NoAccept,
       StanzaFrom
  <1>31. ASSUME AckIgnored PROVE TypeOK'
    BY <1>31 DEF AckIgnored
  <1>32. ASSUME HandleCallAck PROVE TypeOK'
    <2>1. srtp' \in SrtpType
      BY <1>32, InitSrtpKeysType DEF HandleCallAck, SrtpType
    <2> QED
      BY <1>32, <2>1 DEF HandleCallAck, SrtpType
  <1>33. ASSUME NEW t \in Threads, Dial(t) PROVE TypeOK'
    BY <1>33 DEF Dial
  <1>34. ASSUME NEW t \in Threads, OnEnded(t) PROVE TypeOK'
    BY <1>34, EmitStateType DEF OnEnded, CallStates
  <1>35. ASSUME NEW t \in Threads, CleanMedia(t) PROVE TypeOK'
    <2>1. codec' \in BOOLEAN /\ sendLoop' \in BOOLEAN
      BY <1>35, Zenon DEF CleanMedia
    <2>2. srtp' \in SrtpType
      BY <1>35 DEF CleanMedia, NoSrtp, SrtpType
    <2> QED
      BY <1>35, <2>1, <2>2 DEF CleanMedia, SrtpType
  <1>36. ASSUME NEW t \in Threads, CleanRelay(t) PROVE TypeOK'
    BY <1>36 DEF CleanRelay
  <1>37. ASSUME NEW r \in Relays, RelayOpen(r) PROVE TypeOK'
    BY <1>37 DEF RelayOpen
  <1>38. ASSUME NEW r \in Relays, RelayLost(r) PROVE TypeOK'
    BY <1>38 DEF RelayLost
  <1>39. ASSUME NEW r \in Relays, OnRelayConnected(r) PROVE TypeOK'
    BY <1>39, ApplyTransitionFacts, EmitStateType
       DEF OnRelayConnected, ApplyAndEmit, Transitions, MediaConnected
  <1>40. CASE UNCHANGED vars
    BY <1>40 DEF vars
  <1> QED
    BY <1>1, <1>2, <1>3, <1>4, <1>5, <1>6, <1>7, <1>8, <1>9, <1>10, <1>11, <1>12,
       <1>13, <1>14, <1>15, <1>16, <1>17, <1>18, <1>19, <1>20, <1>21, <1>22, <1>23,
       <1>24, <1>25, <1>26, <1>27, <1>28, <1>29, <1>30, <1>31, <1>32, <1>33, <1>34,
       <1>35, <1>36, <1>37, <1>38, <1>39, <1>40
       DEF Next, Arrivals, ClientStep, EventStep, CommonStep

\* Before the call is created every variable has its type.
LEMMA TypeInit == Init => TypeOK
  <1> SUFFICES ASSUME Init PROVE TypeOK
    OBVIOUS
  <1>1. /\ key \in BOOLEAN /\ codec \in BOOLEAN /\ sendLoop \in BOOLEAN
        /\ registered \in BOOLEAN /\ livekit \in BOOLEAN /\ rejected \in BOOLEAN
    BY Zenon DEF Init
  <1>2. srtp \in SrtpType
    BY DEF Init, NoSrtp, SrtpType
  <1> QED
    BY <1>1, <1>2 DEF Init, TypeOK, SrtpType, NoAccept, StanzaFrom, CallStates, Labels

\* Every variable of the call, its session and its threads keeps its type.
THEOREM TypeCorrect == Spec => []TypeOK
  BY TypeInit, TypeStep, PTL DEF Spec

-----------------------------------------------------------------------------
(* Safety *)

\* What Inv says beyond the types.
Rest == Beginning /\ Directions /\ Keys /\ Accepting /\ Answered /\ Safety

\* Every critical section of every thread keeps the inductive invariant.
LEMMA InvStep == Inv /\ TypeOK' /\ [Next]_vars => Inv'
  <1> SUFFICES ASSUME Inv, TypeOK', [Next]_vars PROVE Rest'
    BY DEF Inv, Rest
  <1> USE ThreadsAssumption, DevicesAssumption
      DEF Inv, Rest, Beginning, Directions, Keys, Accepting, Answered, Safety,
          AnsweringDeviceEnds, KeyedToAnsweringDevice, AnsweringDeviceNotDismissed,
          SendLoopDuringCall, CleaningUp, EndedIsReleased, ConnectedIfAnswered,
          TypeOK, media, session, history, Threads, Goto
  <1>1. ASSUME NEW c \in Clients, CreateOutgoing(c) PROVE Rest'
    BY <1>1 DEF CreateOutgoing
  <1>2. ASSUME NEW c \in Clients, LookupGone(c) PROVE Rest'
    BY <1>2 DEF LookupGone
  <1>3. ASSUME NEW c \in Clients, Drain(c) PROVE Rest'
    BY <1>3 DEF Drain
  <1>4. ASSUME NEW c \in Clients, NEW op \in ClientOps, Lookup(c, op) PROVE Rest'
    BY <1>4 DEF Lookup, ClientOps
  <1>5. ASSUME NEW c \in Clients, StartCall(c) PROVE Rest'
    BY <1>5 DEF StartCall, CallStates
  <1>6. ASSUME NEW c \in Clients, OfferFailed(c) PROVE Rest'
    BY <1>6 DEF OfferFailed
  <1>7. ASSUME NEW c \in Clients, OfferSent(c) PROVE Rest'
    BY <1>7, Transition, EmitStateType DEF OfferSent, ApplyAndEmit
  <1>8. ASSUME NEW c \in Clients, StartUpsert(c) PROVE Rest'
    BY <1>8 DEF StartUpsert
  <1>9. ASSUME NEW c \in Clients, AcceptCall(c) PROVE Rest'
    BY <1>9, Transition, EmitStateType DEF AcceptCall, ApplyAndEmit
  <1>10. ASSUME NEW c \in Clients, RejectCall(c) PROVE Rest'
    BY <1>10, Transition, EmitStateType DEF RejectCall, ApplyAndEmit, EndedBy
  <1>11. ASSUME NEW c \in Clients, EndCall(c) PROVE Rest'
    BY <1>11, Transition, EmitStateType DEF EndCall, ApplyAndEmit, EndedBy
  <1>12. ASSUME NEW c \in Clients, Hold(c) PROVE Rest'
    BY <1>12, Transition, EmitStateType DEF Hold, ApplyAndEmit
  <1>13. ASSUME NEW c \in Clients, Resume(c) PROVE Rest'
    BY <1>13, Transition, EmitStateType DEF Resume, ApplyAndEmit
  <1>14. ASSUME NEW c \in Clients, Unregister(c) PROVE Rest'
    BY <1>14 DEF Unregister
  <1>15. ASSUME OnIncomingOffer PROVE Rest'
    BY <1>15 DEF OnIncomingOffer
  <1>16. ASSUME NEW d \in Devices, HandleCallAccept(d) PROVE Rest'
    BY <1>16 DEF HandleCallAccept, MayAnswer, StanzaFrom
  <1>17. ASSUME HandleCallTransport PROVE Rest'
    BY <1>17 DEF HandleCallTransport
  <1>18. ASSUME NEW d \in Devices, RouteTerminate(d) PROVE Rest'
    BY <1>18 DEF RouteTerminate, StanzaFrom
  <1>19. ASSUME HandleCallOffer PROVE Rest'
    BY <1>19 DEF HandleCallOffer, InitSrtpKeys, CallStates
  <1>20. ASSUME OnIncoming PROVE Rest'
    BY <1>20 DEF OnIncoming
  <1>21. ASSUME IncomingEmit PROVE Rest'
    BY <1>21, EmitStateType DEF IncomingEmit
  <1>22. ASSUME AcceptKeepsKey PROVE Rest'
    BY <1>22 DEF AcceptKeepsKey
  <1>23. ASSUME AcceptRekeys PROVE Rest'
    BY <1>23 DEF AcceptRekeys
  <1>24. ASSUME AcceptApply PROVE Rest'
    BY <1>24, Transition, EmitStateType DEF AcceptApply, ApplyAndEmit, InitSrtpKeys,
       AfterAccept
  <1>25. ASSUME AcceptSend PROVE Rest'
    BY <1>25 DEF AcceptSend, NoAccept, StanzaFrom
  <1>26. ASSUME AcceptMedia PROVE Rest'
    BY <1>26, Transition, EmitStateType DEF AcceptMedia, ApplyAndEmit, MediaConnected
  <1>27. ASSUME TransportCheck PROVE Rest'
    BY <1>27 DEF TransportCheck
  <1>28. ASSUME TransportSet PROVE Rest'
    BY <1>28 DEF TransportSet
  <1>29. ASSUME TerminateIgnored PROVE Rest'
    BY <1>29 DEF TerminateIgnored, NoAccept, StanzaFrom
  <1>30. ASSUME HandleCallTerminate PROVE Rest'
    <2>1. /\ pc[Event] = "terminate" /\ pc' = [pc EXCEPT ![Event] = "on_ended"]
          /\ state' = ApplyTransition(state, "terminated") /\ EmitState(state')
          /\ UNCHANGED <<dir, key, acceptedBy, srtp, codec, sendLoop, elsewhere>>
      BY <1>30 DEF HandleCallTerminate, ApplyAndEmit
    <2>2. state' = "ended" \/ state' = state
      BY <2>1, Transition
    <2>3. /\ AnsweringDeviceEnds'
          /\ Answered'
      BY <1>30, <2>2, Transition DEF HandleCallTerminate, FromOtherDevice, EndedBy
    <2>4. SendLoopDuringCall' /\ EndedIsReleased'
      BY <2>1, <2>2, EmitStateType
    <2>5. KeyedToAnsweringDevice' /\ AnsweringDeviceNotDismissed' /\ ConnectedIfAnswered'
      BY <2>1, <2>2
    <2>6. Beginning' /\ Accepting'
      BY <2>1, <2>2, ApplyTransitionFacts DEF Transitions
    <2>7. Directions'
      BY <2>1, <2>2
    <2>8. Keys'
      BY <2>1, <2>2
    <2> QED
      BY <2>3, <2>4, <2>5, <2>6, <2>7, <2>8
  <1>31. ASSUME AckIgnored PROVE Rest'
    BY <1>31 DEF AckIgnored
  <1>32. ASSUME HandleCallAck PROVE Rest'
    BY <1>32 DEF HandleCallAck, InitSrtpKeys
  <1>33. ASSUME NEW t \in Threads, Dial(t) PROVE Rest'
    BY <1>33 DEF Dial
  <1>34. ASSUME NEW t \in Threads, OnEnded(t) PROVE Rest'
    BY <1>34, EmitStateType DEF OnEnded, CallStates
  <1>35. ASSUME NEW t \in Threads, CleanMedia(t) PROVE Rest'
    BY <1>35 DEF CleanMedia, NoSrtp
  <1>36. ASSUME NEW t \in Threads, CleanRelay(t) PROVE Rest'
    BY <1>36 DEF CleanRelay
  <1>37. ASSUME NEW r \in Relays, RelayOpen(r) PROVE Rest'
    BY <1>37 DEF RelayOpen
  <1>38. ASSUME NEW r \in Relays, RelayLost(r) PROVE Rest'
    BY <1>38 DEF RelayLost
  <1>39. ASSUME NEW r \in Relays, OnRelayConnected(r) PROVE Rest'
    BY <1>39, Transition, EmitStateType DEF OnRelayConnected, ApplyAndEmit,
       MediaConnected
  <1>40. CASE UNCHANGED vars
    BY <1>40 DEF vars
  <1> QED
    BY <1>1, <1>2, <1>3, <1>4, <1>5, <1>6, <1>7, <1>8, <1>9, <1>10, <1>11, <1>12,
       <1>13, <1>14, <1>15, <1>16, <1>17, <1>18, <1>19, <1>20, <1>21, <1>22, <1>23,
       <1>24, <1>25, <1>26, <1>27, <1>28, <1>29, <1>30, <1>31, <1>32, <1>33, <1>34,
       <1>35, <1>36, <1>37, <1>38, <1>39, <1>40
       DEF Next, Arrivals, ClientStep, EventStep, CommonStep

\* The inductive invariant holds before the call is created.
LEMMA InvInit == Init => Inv
  <1> SUFFICES ASSUME Init PROVE Inv
    OBVIOUS
  <1>1. TypeOK
    BY TypeInit
  <1>2. Beginning /\ Directions /\ Keys /\ Accepting /\ Answered
    BY DevicesAssumption, ThreadsAssumption
       DEF Init, NoSrtp, Threads, Beginning, Directions, Keys, Accepting, Answered
  <1>3. Safety
    BY DevicesAssumption
       DEF Init, NoSrtp, Safety, AnsweringDeviceEnds, KeyedToAnsweringDevice,
           AnsweringDeviceNotDismissed, SendLoopDuringCall, EndedIsReleased,
           ConnectedIfAnswered
  <1> QED
    BY <1>1, <1>2, <1>3 DEF Inv

\* The inductive invariant holds in every reachable state.
THEOREM Invariance == Spec => []Inv
  <1>1. Inv /\ [Next]_vars => Inv'
    BY InvStep, TypeStep DEF Inv
  <1> QED
    BY <1>1, InvInit, PTL DEF Spec

\* Only the device that answered ends the call from the far side, whatever the
\* order of accepts, rejects and terminates of any number of devices.
THEOREM AnsweringDeviceEndsTheCall == Spec => []AnsweringDeviceEnds
  <1>1. Inv => AnsweringDeviceEnds
    BY DEF Inv, Safety
  <1> QED
    BY <1>1, Invariance, PTL

\* The receive key is the answering device's, whichever of the accept and the
\* offer's ack derives the keys last.
THEOREM MediaKeyedToAnsweringDevice == Spec => []KeyedToAnsweringDevice
  <1>1. Inv => KeyedToAnsweringDevice
    BY DEF Inv, Safety
  <1> QED
    BY <1>1, Invariance, PTL

\* The device that answered is never dismissed as answered elsewhere.
THEOREM AnsweringDeviceIsKept == Spec => []AnsweringDeviceNotDismissed
  <1>1. Inv => AnsweringDeviceNotDismissed
    BY DEF Inv, Safety
  <1> QED
    BY <1>1, Invariance, PTL

\* No send loop outlives its call by more than the ending thread's cleanup.
THEOREM SendLoopStops == Spec => []SendLoopDuringCall
  <1>1. Inv => SendLoopDuringCall
    BY DEF Inv, Safety
  <1> QED
    BY <1>1, Invariance, PTL

\* An ended call is out of the registry and of LiveKit, and its codec is closed
\* once the thread that ended it is through.
THEOREM EndedCallsAreReleased == Spec => []EndedIsReleased
  <1>1. Inv => EndedIsReleased
    BY DEF Inv, Safety
  <1> QED
    BY <1>1, Invariance, PTL

\* No outgoing call is connected that none of the callee's devices accepted.
THEOREM ConnectedCallsAreAnswered == Spec => []ConnectedIfAnswered
  <1>1. Inv => ConnectedIfAnswered
    BY DEF Inv, Safety
  <1> QED
    BY <1>1, Invariance, PTL
-----------------------------------------------------------------------------
(* What a step may never do *)

\* A call that has an answering device keeps it, and an ended call stays ended.
LEMMA SettledStep ==
    Inv /\ [Next]_vars =>
        /\ acceptedBy # NoDevice => acceptedBy' = acceptedBy
        /\ state = "ended" => state' = "ended" /\ endedBy' = endedBy
  <1> DEFINE Settled == /\ acceptedBy # NoDevice => acceptedBy' = acceptedBy
                        /\ state = "ended" => state' = "ended" /\ endedBy' = endedBy
  <1> SUFFICES ASSUME Inv, [Next]_vars PROVE Settled
    OBVIOUS
  <1>1. \/ UNCHANGED <<state, acceptedBy, endedBy>>
        \/ \E c \in Clients : StartCall(c) \/ OfferSent(c) \/ AcceptCall(c)
                              \/ RejectCall(c) \/ EndCall(c) \/ Hold(c) \/ Resume(c)
        \/ HandleCallOffer \/ AcceptApply \/ AcceptMedia \/ HandleCallTerminate
        \/ \E r \in Relays : OnRelayConnected(r)
    BY DEF Next, Arrivals, ClientStep, EventStep, CommonStep, vars, history,
           CreateOutgoing, LookupGone, Drain, Lookup, OfferFailed, StartUpsert,
           Unregister, OnIncomingOffer, HandleCallAccept, HandleCallTransport,
           RouteTerminate, OnIncoming, IncomingEmit, AcceptKeepsKey, AcceptRekeys,
           AcceptSend, TransportCheck, TransportSet, TerminateIgnored, AckIgnored,
           HandleCallAck, Dial, OnEnded, CleanMedia, CleanRelay, RelayOpen, RelayLost
  <1>2. CASE UNCHANGED <<state, acceptedBy, endedBy>>
    BY <1>2
  <1>3. ASSUME NEW c \in Clients,
               OfferSent(c) \/ AcceptCall(c) \/ Hold(c) \/ Resume(c)
        PROVE Settled
    BY <1>3, Transition
       DEF OfferSent, AcceptCall, Hold, Resume, ApplyAndEmit, history
  <1>4. ASSUME NEW c \in Clients, StartCall(c) PROVE Settled
    BY <1>4 DEF StartCall, history, Inv, Beginning, Threads, Goto
  <1>5. ASSUME NEW c \in Clients, RejectCall(c) \/ EndCall(c) PROVE Settled
    BY <1>5, Transition DEF RejectCall, EndCall, ApplyAndEmit, EndedBy
  <1>6. CASE HandleCallOffer
    BY <1>6 DEF HandleCallOffer, history, Inv, Beginning, Goto
  <1>7. CASE AcceptApply
    BY <1>7, Transition DEF AcceptApply, ApplyAndEmit, history, Inv, Accepting, Goto
  <1>8. ASSUME AcceptMedia \/ \E r \in Relays : OnRelayConnected(r) PROVE Settled
    BY <1>8 DEF AcceptMedia, OnRelayConnected, MediaConnected, history
  <1>9. CASE HandleCallTerminate
    BY <1>9, Transition, ApplyTransitionFacts
       DEF HandleCallTerminate, ApplyAndEmit, EndedBy, CallStates, Transitions
  <1> QED
    BY <1>1, <1>2, <1>3, <1>4, <1>5, <1>6, <1>7, <1>8, <1>9

\* First accept wins and the end is final, in every step of every behaviour.
THEOREM CallsSettle == Spec => CallSettles
  BY SettledStep, Invariance, PTL DEF Spec, CallSettles
=============================================================================
