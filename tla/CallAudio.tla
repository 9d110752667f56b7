----------------------------- MODULE CallAudio -----------------------------
(***************************************************************************)
(* The audio of one call on the server: the bridges by which browsers take *)
(* part in it (WebRTC: bridge.go, WebSocket: ws_bridge.go), their swap in  *)
(* the registry, the recorder, the call's room in LiveKit, the data plane  *)
(* of the call manager (callmanager_media.go) and all that is let go when  *)
(* the call ends.                                                          *)
(*                                                                         *)
(* A thread has a script of what it still has to do (todo).  The callbacks *)
(* of a call manager run with its lock held (mu), but the registry, the    *)
(* bridges and the broker are used by others at the same time.             *)
(***************************************************************************)
EXTENDS Integers, Sequences

CONSTANTS Bridges,     \* requests of browsers for a bridge, and their bridges
          Enders,      \* requests and stanzas that end the call
          Plans,       \* what each of them is, whether anybody speaks or holds the call
          None

Relay == <<"relay">>     \* the callback of the relay that opens
Hangup(b) == <<b>>     \* the goroutine of terminateCall
Threads == Bridges \cup Enders \cup {Hangup(b) : b \in Bridges} \cup {Relay}

ASSUME AudioAssumption ==
    /\ None \notin Threads /\ Bridges \cap Enders = {} /\ Relay \notin Bridges \cup Enders
    /\ \A b \in Bridges : Hangup(b) \notin Bridges
    /\ Plans \subseteq [kind : [Bridges -> {"rtc", "ws", "none"}],
                        task : [Enders -> {"request", "peer", "teardown", "none"}],
                        recording : BOOLEAN,
                        talking : BOOLEAN, holding : BOOLEAN]

VARIABLES
    plan,
    todo,          \* what each thread has yet to do
    state,         \* of the call
    mu,            \* which thread has the call manager's lock
    codec,         \* the manager's codec: open, taken out to be closed, closed
    capture,       \* is something of the browser in captureBuf
    registered, listed,        \* is the call in the registry and in the broker
    bridge, wsBridge, opus,    \* of the activeCall: bridges, and the bridge the codec belongs to
    conn,          \* of each bridge: its connection,
    codecOf,       \*     its Opus codec,
    silenced,      \*     terminateDisabled or closed,
    due,           \*     and the events of its connection that nobody has seen yet
    fed,           \* bridges whose reader holds a frame for the call manager
    room,          \* the call's session in LiveKit
    hub,           \* which thread has the lock of the LiveKit bridges, which all calls share
    hooked,        \* has the session of LiveKit put itself before OnPeerAudio
    media,         \* where the reader of the relay is with its frame: if the call was held, if
                   \*     the hook is in the way, how often the room was given it
    taping,        \* is the recorder's channel open
    taped,         \* has it got a frame
    finishing,     \* goroutines of finalizeRecording: does each know the peer
    crashed,       \* a nil bridge or codec was used
    raised,        \* history: the events by which each bridge hung up
    heard,         \* history: bridges the peer's audio was written to
    delivered      \* history: the recordings handed over

livekit == <<room, hub, hooked>>
call == <<state, mu, codec, capture, livekit>>
lists == <<registered, listed>>
active == <<bridge, wsBridge, opus>>
conns == <<conn, codecOf, silenced, due, raised>>
recorder == <<taping, taped, finishing, delivered>>
flow == <<fed, media, heard, crashed>>
vars == <<plan, todo, call, lists, active, conns, recorder, flow>>

Ops == {"lookup", "make", "set", "silence", "close", "closeCodec", "activate", "attach", "provision", "unlock",
        "end", "detach", "remove", "unlist", "drain", "finalize", "takeCodec", "closeManagerCodec"}

TypeOK ==
    /\ plan \in Plans
    /\ \A t \in Threads : \A i \in DOMAIN todo[t] :
           todo[t][i].op \in Ops /\ todo[t][i].on \in Bridges \cup {None}
    /\ state \in {"ringing", "active", "held", "ended"}
    /\ mu \in Threads \cup {None}
    /\ codec \in {"open", "taken", "closed"}
    /\ \A f \in {capture, registered, listed, taping, taped, crashed} : f \in BOOLEAN
    /\ bridge \in Bridges \cup {None} /\ wsBridge \in Bridges \cup {None} /\ opus \in Bridges \cup {None}
    /\ conn \in [Bridges -> {"none", "open", "failed", "closed"}]
    /\ codecOf \in [Bridges -> {"none", "open", "closed"}]
    /\ due \in [Bridges -> SUBSET {"failed", "closed"}]
    /\ raised \in [Bridges -> SUBSET {"failed", "closed"}]
    /\ silenced \subseteq Bridges /\ fed \subseteq Bridges /\ heard \subseteq Bridges
    /\ room \in {"none", "open", "closed"}
    /\ hub \in Threads \cup {None} /\ hooked \in BOOLEAN
    /\ media \in [step : {"idle", "decode", "deliver", "encode", "write", "push"},
                  held : BOOLEAN, hooked : BOOLEAN, pushed : 0 .. 2]
    /\ \A i \in DOMAIN finishing : finishing[i] \in BOOLEAN
    /\ \A i \in DOMAIN delivered : delivered[i] \in BOOLEAN

Do(op) == <<[op |-> op, on |-> None]>>
With(op, b) == IF b = None THEN <<>> ELSE <<[op |-> op, on |-> b]>>

\* What a request does from its beginning.
Script(t) ==
    IF t \in Bridges
    THEN IF plan.kind[t] = "none" THEN <<>> ELSE Do("lookup") \o Do("make") \o Do("set")
    ELSE IF t = Relay THEN Do("activate")
    ELSE IF t \notin Enders THEN <<>>
    ELSE CASE plan.task[t] = "request"  -> Do("lookup") \o Do("end") \o Do("remove") \o Do("unlist")
           [] plan.task[t] = "peer"     -> Do("lookup") \o Do("end")
           [] plan.task[t] = "teardown" -> Do("drain")
           [] plan.task[t] = "none"     -> <<>>

Init ==
    /\ plan \in Plans
    /\ todo = [t \in Threads |-> Script(t)]
    /\ state = "ringing" /\ mu = None /\ codec = "open" /\ capture = FALSE
    /\ registered = TRUE /\ listed = TRUE
    /\ bridge = None /\ wsBridge = None /\ opus = None
    /\ conn = [b \in Bridges |-> "none"] /\ codecOf = [b \in Bridges |-> "none"]
    /\ silenced = {} /\ due = [b \in Bridges |-> {}] /\ fed = {}
    /\ room = "none" /\ hub = None /\ hooked = FALSE
    /\ media = [step |-> "idle", held |-> FALSE, hooked |-> FALSE, pushed |-> 0]
    /\ taping = plan.recording /\ taped = FALSE /\ finishing = <<>> /\ crashed = FALSE
    /\ raised = [b \in Bridges |-> {}] /\ heard = {} /\ delivered = <<>>

At(t, op) == todo[t] # <<>> /\ Head(todo[t]).op = op
On(t) == Head(todo[t]).on
Goes(t, more) == todo' = [todo EXCEPT ![t] = more \o Tail(@)]
Drops(t, more) == todo' = [todo EXCEPT ![t] = more]

-----------------------------------------------------------------------------
(* Requests for a bridge: doWebRTC and handleWSBridge. *)

\* reg.get: a call that is gone is answered 404; doEndCall clears the lists all the same.
Lookup(t) ==
    /\ At(t, "lookup")
    /\ IF registered THEN Goes(t, <<>>)
       ELSE Drops(t, IF t \in Enders /\ plan.task[t] = "request" THEN Do("remove") \o Do("unlist") ELSE <<>>)
    /\ UNCHANGED <<plan, call, lists, active, conns, recorder, flow>>

\* NewBridge or newWSBridge, and the Opus codec that may not be available.
Make(b) ==
    /\ At(b, "make")
    /\ \/ /\ conn' = [conn EXCEPT ![b] = "open"]
          /\ \E c \in {"none", "open"} : codecOf' = [codecOf EXCEPT ![b] = c]
          /\ Goes(b, <<>>)
       \/ Drops(b, <<>>) /\ UNCHANGED <<conn, codecOf>>
    /\ UNCHANGED <<plan, call, lists, active, silenced, due, raised, recorder, flow>>

\* A faulty Codec: the missing codec is passed on.
CodecRaw(b) == IF codecOf[b] = "none" THEN "none" ELSE b
Codec(b) == IF codecOf[b] = "none" THEN None ELSE b
\* A faulty swap: the old bridge is closed before it is silenced.
ReplaceLate(b) == With("close", b) \o With("silence", b)
Replace(b) == With("silence", b) \o With("close", b)
\* A call that is gone takes no bridge.
Refuse(b) == With("close", b) \o With("closeCodec", Codec(b))

\* Session.setBridge: the WebSocket bridge, if there is one, stays in place.
SetBridge(b) ==
    /\ At(b, "set") /\ plan.kind[b] = "rtc"
    /\ IF registered
       THEN bridge' = b /\ opus' = Codec(b) /\ Goes(b, Replace(bridge) \o With("closeCodec", opus))
       ELSE Goes(b, Refuse(b)) /\ UNCHANGED <<bridge, opus>>
    /\ UNCHANGED <<plan, call, lists, wsBridge, conns, recorder, flow>>

\* Session.setWSBridge takes over from both.
SetWSBridge(b) ==
    /\ At(b, "set") /\ plan.kind[b] = "ws"
    /\ IF registered
       THEN /\ bridge' = None /\ wsBridge' = b /\ opus' = Codec(b)
            /\ Goes(b, Replace(bridge) \o Replace(wsBridge) \o With("closeCodec", opus))
       ELSE Goes(b, Refuse(b)) /\ UNCHANGED active
    /\ UNCHANGED <<plan, call, lists, conns, recorder, flow>>

Silence(t) ==
    /\ At(t, "silence")
    /\ silenced' = silenced \cup {On(t)}
    /\ Goes(t, <<>>)
    /\ UNCHANGED <<plan, call, lists, active, conn, codecOf, due, raised, recorder, flow>>

\* A peer connection reports that it was closed, the reader of a WebSocket that is still there sees it.
Reports(b) == IF plan.kind[b] = "rtc" THEN conn[b] # "closed" ELSE conn[b] = "open"

Close(t) ==
    /\ At(t, "close")
    /\ conn' = [conn EXCEPT ![On(t)] = "closed"]
    /\ due' = IF Reports(On(t)) THEN [due EXCEPT ![On(t)] = @ \cup {"closed"}] ELSE due
    /\ silenced' = IF plan.kind[On(t)] = "ws" THEN silenced \cup {On(t)} ELSE silenced
    /\ Goes(t, <<>>)
    /\ UNCHANGED <<plan, call, lists, active, codecOf, raised, recorder, flow>>

CloseCodec(t) ==
    /\ At(t, "closeCodec")
    /\ codecOf' = [codecOf EXCEPT ![On(t)] = "closed"]
    /\ Goes(t, <<>>)
    /\ UNCHANGED <<plan, call, lists, active, conn, silenced, due, raised, recorder, flow>>

\* ICE fails, or the browser closes its WebSocket.
ConnectionLost(b) ==
    /\ conn[b] = "open"
    /\ conn' = [conn EXCEPT ![b] = "failed"]
    /\ due' = [due EXCEPT ![b] = @ \cup {"failed"}]
    /\ UNCHANGED <<plan, todo, call, lists, active, codecOf, silenced, raised, recorder, flow>>

\* OnTerminalICE and OnTerminalWS hang up, in a goroutine, unless the bridge is silenced.  The reader of a
\* WebSocket starts when setWSBridge has returned.
ConnectionOver(b, e) ==
    /\ e \in due[b] /\ (plan.kind[b] = "ws" => todo[b] = <<>>)
    /\ due' = [due EXCEPT ![b] = @ \ {e}]
    /\ IF b \in silenced THEN UNCHANGED <<todo, raised>>
       ELSE /\ raised' = [raised EXCEPT ![b] = @ \cup {e}]
            /\ todo' = [todo EXCEPT ![Hangup(b)] = @ \o Do("lookup") \o Do("end")]
    /\ silenced' = IF plan.kind[b] = "ws" THEN silenced \cup {b} ELSE silenced
    /\ UNCHANGED <<plan, call, lists, active, conn, codecOf, recorder, flow>>

-----------------------------------------------------------------------------
(* The call: its relay opens, it is held, and it ends. *)

\* onRelayConnected: the state is emitted under the lock, so that AttachCall is called with it.
Activate(t) ==
    /\ At(t, "activate") /\ mu = None
    /\ IF state = "ringing"
       THEN state' = "active" /\ mu' = t /\ Goes(t, Do("attach") \o Do("unlock"))
       ELSE Goes(t, <<>>) /\ UNCHANGED <<state, mu>>
    /\ UNCHANGED <<plan, codec, capture, livekit, lists, active, conns, recorder, flow>>

\* The lock of the bridges is kept for as long as the session takes to start ...
AttachCall(t) ==
    /\ At(t, "attach") /\ hub = None
    /\ hub' = t
    /\ Goes(t, Do("provision"))
    /\ UNCHANGED <<plan, state, mu, codec, capture, room, hooked, lists, active, conns, recorder, flow>>

\* ... which is as long as LiveKit takes to answer, whatever it answers.
Provision(t) ==
    /\ At(t, "provision")
    /\ room' = "open" /\ hooked' = TRUE /\ hub' = None
    /\ Goes(t, <<>>)
    /\ UNCHANGED <<plan, state, mu, codec, capture, lists, active, conns, recorder, flow>>

\* The session stops, and its hook stays.
StopSession == room' = IF room = "open" THEN "closed" ELSE room

DetachCall(t) ==
    /\ At(t, "detach") /\ hub = None
    /\ StopSession
    /\ Goes(t, <<>>)
    /\ UNCHANGED <<plan, state, mu, codec, capture, hub, hooked, lists, active, conns, recorder, flow>>

Unlock(t) ==
    /\ At(t, "unlock")
    /\ mu' = None
    /\ Goes(t, <<>>)
    /\ UNCHANGED <<plan, state, codec, capture, livekit, lists, active, conns, recorder, flow>>

\* What is emitted of either is written to the broker's list again; AttachCall finds its session.
HoldOrResume ==
    /\ plan.holding /\ mu = None
    /\ \/ state = "active" /\ state' = "held"
       \/ state = "held" /\ state' = "active"
    /\ listed' = TRUE
    /\ UNCHANGED <<plan, todo, mu, codec, capture, livekit, registered, active, conns, recorder, flow>>

\* The callbacks of a call that has ended, and cleanupMedia.
Ended == Do("detach") \o Do("remove") \o Do("unlist")
AfterEnd == Do("unlock") \o Ended \o Do("takeCodec")

\* EndCall leaves a call that has ended alone; HandleCallTerminate does not ask.
End(t) ==
    /\ At(t, "end") /\ mu = None
    /\ IF state = "ended" /\ ~(t \in Enders /\ plan.task[t] = "peer")
       THEN Goes(t, <<>>) /\ UNCHANGED <<state, mu>>
       ELSE state' = "ended" /\ mu' = t /\ Goes(t, Ended \o AfterEnd)
    /\ UNCHANGED <<plan, codec, capture, livekit, lists, active, conns, recorder, flow>>

Record == IF plan.recording THEN Do("finalize") ELSE <<>>
Release == Record \o With("close", bridge) \o With("close", wsBridge) \o With("closeCodec", opus)

\* removeCall: who takes the call out of the registry releases it.
RemoveCall(t) ==
    /\ At(t, "remove")
    /\ registered' = FALSE
    /\ Goes(t, IF registered THEN Release ELSE <<>>)
    /\ UNCHANGED <<plan, call, listed, active, conns, recorder, flow>>

\* Broker.endCall.
Unlist(t) ==
    /\ At(t, "unlist")
    /\ listed' = FALSE
    /\ Goes(t, <<>>)
    /\ UNCHANGED <<plan, call, registered, active, conns, recorder, flow>>

\* A faulty teardown: the release is left to removeCall, which finds nothing any more.
DrainOnly(t) ==
    /\ At(t, "drain")
    /\ registered' = FALSE
    /\ Goes(t, IF registered THEN Do("end") ELSE <<>>)
    /\ UNCHANGED <<plan, call, listed, active, conns, recorder, flow>>
\* teardownAllCalls: the call is drained, ended, and released once more.
Drain(t) ==
    /\ At(t, "drain")
    /\ registered' = FALSE
    /\ Goes(t, IF registered THEN Do("end") \o Release ELSE <<>>)
    /\ UNCHANGED <<plan, call, listed, active, conns, recorder, flow>>

\* cleanupMedia takes the codec away from the manager and closes it after the relays.
TakeCodec(t) ==
    /\ At(t, "takeCodec") /\ mu = None
    /\ codec' = IF codec = "open" THEN "taken" ELSE codec
    /\ capture' = FALSE
    /\ Goes(t, IF codec = "open" THEN Do("closeManagerCodec") ELSE <<>>)
    /\ UNCHANGED <<plan, state, mu, livekit, lists, active, conns, recorder, flow>>

CloseManagerCodec(t) ==
    /\ At(t, "closeManagerCodec")
    /\ codec' = "closed"
    /\ Goes(t, <<>>)
    /\ UNCHANGED <<plan, state, mu, capture, livekit, lists, active, conns, recorder, flow>>

-----------------------------------------------------------------------------
(* The recording. *)

\* finalizeRecording reads the peer's number off the broker's list and leaves the rest to a goroutine.
Finalize(t) ==
    /\ At(t, "finalize")
    /\ finishing' = Append(finishing, listed)
    /\ Goes(t, <<>>)
    /\ UNCHANGED <<plan, call, lists, active, conns, taping, taped, delivered, flow>>

\* finish, idempotent, and onRecordingReady if there is something worth keeping.
Finish ==
    /\ finishing # <<>>
    /\ finishing' = Tail(finishing) /\ taping' = FALSE
    /\ delivered' = IF taped THEN Append(delivered, Head(finishing)) ELSE delivered
    /\ UNCHANGED <<plan, todo, call, lists, active, conns, taped, flow>>

-----------------------------------------------------------------------------
(* Audio.  The writes to a recorder that has finished are dropped (sendMu). *)

Tape == taped' = (taped \/ taping)

\* The reader of a bridge gets a frame of the browser.
BrowserFrame(b) ==
    /\ plan.talking /\ conn[b] = "open" /\ todo[b] = <<>> /\ codecOf[b] # "none"
    /\ fed' = fed \cup {b}
    /\ UNCHANGED <<plan, todo, call, lists, active, conns, recorder, media, heard, crashed>>

\* OnBrowserRTP decodes it, with a codec that may be closed by now, and FeedCapturedPCM buffers it.
FeedCapturedPCM(b) ==
    /\ b \in fed /\ mu = None
    /\ fed' = fed \ {b}
    /\ Tape
    /\ capture' = (capture \/ codec = "open")
    /\ UNCHANGED <<plan, todo, state, mu, codec, livekit, lists, active, conns, taping, finishing, delivered,
                   media, heard, crashed>>

\* A tick of the send loop: a frame of the buffer, or music or silence when the call is held.
SendTick ==
    /\ mu = None /\ codec = "open" /\ state # "held"
    /\ capture' = FALSE
    /\ UNCHANGED <<plan, todo, state, mu, codec, livekit, lists, active, conns, recorder, flow>>

\* handleAudioRelayData takes the codec and the held flag under the lock and uses them after it.
RelayData ==
    /\ plan.talking /\ media.step = "idle" /\ mu = None /\ codec = "open" /\ state \in {"active", "held"}
    /\ media' = [step |-> "decode", held |-> state = "held", hooked |-> FALSE, pushed |-> 0]
    /\ UNCHANGED <<plan, todo, call, lists, active, conns, recorder, fed, heard, crashed>>

\* The audio of a call that was held goes no further; the rest is aligned, under the lock again.
Decode ==
    /\ media.step = "decode" /\ (~media.held => mu = None)
    /\ media' = [media EXCEPT !.step = IF media.held THEN "idle" ELSE "deliver", !.hooked = hooked]
    /\ UNCHANGED <<plan, todo, call, lists, active, conns, recorder, fed, heard, crashed>>

\* What is left of a frame when the session's callback returns: the hook's own push.
Rest == IF media.hooked THEN "push" ELSE "idle"

\* A room that is left takes nothing.
PushPeerAudio(n) == IF room = "open" THEN n + 1 ELSE n

\* OnPeerAudio of the session: the recorder, the room, and a look at the bridge and the codec.
PeerAudio ==
    /\ media.step = "deliver" /\ hub = None
    /\ IF registered THEN Tape ELSE UNCHANGED taped
    /\ media' = [media EXCEPT
           !.pushed = IF registered THEN PushPeerAudio(@) ELSE @,
           !.step = IF registered /\ bridge # None /\ opus # None THEN "encode" ELSE Rest]
    /\ UNCHANGED <<plan, todo, call, lists, active, conns, taping, finishing, delivered, fed, heard, crashed>>

\* The session has given the room the frame already.
HookPush ==
    /\ media.step = "push"
    /\ media' = [media EXCEPT !.pushed = PushPeerAudio(@), !.step = "idle"]
    /\ UNCHANGED <<plan, todo, call, lists, active, conns, recorder, fed, heard, crashed>>

\* Both are read again when they are used, and may have been replaced by none.
Encode ==
    /\ media.step = "encode"
    /\ crashed' = (opus = None)
    /\ media' = [media EXCEPT !.step = "write"]
    /\ UNCHANGED <<plan, todo, call, lists, active, conns, recorder, fed, heard>>

WriteOpus ==
    /\ media.step = "write"
    /\ crashed' = (bridge = None)
    /\ heard' = heard \cup ({bridge} \ {None})
    /\ media' = [media EXCEPT !.step = Rest]
    /\ UNCHANGED <<plan, todo, call, lists, active, conns, recorder, fed>>

-----------------------------------------------------------------------------
Media == RelayData \/ Decode \/ PeerAudio \/ Encode \/ WriteOpus \/ HookPush
Browser(b) == BrowserFrame(b) \/ FeedCapturedPCM(b)
Step(t) ==
    \/ Lookup(t) \/ Silence(t) \/ Close(t) \/ CloseCodec(t)
    \/ Activate(t) \/ AttachCall(t) \/ Provision(t) \/ DetachCall(t) \/ Unlock(t)
    \/ End(t) \/ RemoveCall(t) \/ Unlist(t) \/ Drain(t) \/ Finalize(t)
    \/ TakeCodec(t) \/ CloseManagerCodec(t)
BridgeStep(b) == Make(b) \/ SetBridge(b) \/ SetWSBridge(b)

\* Nobody is in the middle of something.
Quiet ==
    /\ \A t \in Threads : todo[t] \in {<<>>, Script(t)}
    /\ \A b \in Bridges : due[b] = {}
    /\ finishing = <<>> /\ fed = {} /\ media.step = "idle" /\ mu = None /\ hub = None
\* The call is over, or the process has died.
Over == (crashed \/ (Quiet /\ ~registered)) /\ UNCHANGED vars

Next ==
    \/ ~crashed /\ (\/ \E t \in Threads : Step(t)
                    \/ \E b \in Bridges : BridgeStep(b) \/ Browser(b) \/ ConnectionLost(b)
                    \/ \E b \in Bridges, e \in {"failed", "closed"} : ConnectionOver(b, e)
                    \/ HoldOrResume \/ Finish \/ SendTick \/ Media)
    \/ Over

Spec == Init /\ [][Next]_vars

\* Goroutines that run go on, and the peer keeps talking.
FairSpec ==
    /\ Spec
    /\ \A t \in Threads : WF_vars(~crashed /\ Step(t))
    /\ \A b \in Bridges : WF_vars(~crashed /\ BridgeStep(b))
    /\ WF_vars(~crashed /\ Media)

-----------------------------------------------------------------------------
(* Properties *)

\* When the call has left the registry and nobody is at work, every connection that was made is closed, so are
\* the codecs, nothing is left in the buffer, the room is left, and a recording that has sound was handed over,
\* once: whichever of the swap, removeCall, teardownAllCalls and the refusal of a late bridge came first
\* (Session.setBridge, removeCall, finalizeRecording, cleanupMedia).
Released ==
    Quiet /\ ~registered /\ ~crashed =>
        /\ \A b \in Bridges : conn[b] \in {"none", "closed"} /\ codecOf[b] # "open"
        /\ state = "ended" => ~capture /\ codec = "closed" /\ room # "open"
        /\ plan.recording => Len(delivered) = IF taped THEN 1 ELSE 0

\* Closing a bridge, to swap it, to refuse it or with its call, never hangs up a call that goes on; only the
\* loss of its connection does ("fechar a antiga NÃO pode encerrar a chamada", session.go).
ClosingKeepsCall == \A b \in Bridges : "closed" \in raised[b] => ~registered

\* The peer's audio comes to the browser the same way, over the WebSocket, while the bridge is the call's.
WsHearsPeer ==
    \A b \in Bridges :
        LET listens == wsBridge = b /\ bridge = None /\ codecOf[b] = "open" /\ conn[b] = "open" /\ state = "active"
        IN listens ~> (b \in heard \/ ~listens)
\* A frame of the peer is queued for the room once ("enfileira para envio ao LiveKit", bridge.go).
FrameOnce == media.pushed <= 1
=============================================================================
