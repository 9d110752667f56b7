----------------------------- MODULE AISession -----------------------------
(***************************************************************************)
(* One AI session: the gateway that starts and stops it, its entry in the  *)
(* registry, the adapter between the call's audio and the provider, and    *)
(* the provider's connection.  The factories of the server make a provider *)
(* for every session, so that provider, adapter and session go together.   *)
(*                                                                         *)
(* The adapter holds its lock while the provider starts, the providers     *)
(* have one of their own; everything between two locks is a step.          *)
(***************************************************************************)
EXTENDS Integers

CONSTANTS Requests,    \* HTTP requests about the session and ends of its call
          Kinds,       \* providers that it may have
          Room,        \* chunks that the provider's channel holds
          None

Starter == "starter"   \* the caller of StartAISession
Peer == "peer"         \* the relay's reader, which delivers the peer's audio
Threads == Requests \cup {Starter, Peer}

ASSUME AISessionAssumption ==
    /\ None \notin Threads /\ {Starter, Peer} \cap Requests = {}
    /\ Kinds \subseteq {"loopback", "grok", "gemini"} /\ Room \in Nat \ {0}

VARIABLES
    kind,
    pc,
    listed,        \* what the registry has under the session's id: nothing, the session, one of the API
    mapped,        \* has the gateway the adapter
    state, outcome,    \* of the session
    amu,           \* who holds the adapter's lock
    running, cancelled, barge,    \* of the adapter; is its context cancelled
    pmu,           \* who holds the provider's lock over more than one step
    conn,          \* the provider's connection: nil, open, closed and not yet nil
    interrupted, timers,    \* of Grok: drops what it is sent, until a timer goes off
    out, queue,    \* the provider's channel and what is in it
    reader,        \* the goroutine that reads the connection
    playback,      \* the goroutine that plays what the provider says
    crashed,       \* a nil connection was used
    stopped        \* history: a request has stopped the adapter and returned

session == <<listed, mapped, state, outcome>>
adapter == <<amu, running, cancelled, barge>>
provider == <<pmu, conn, interrupted, timers>>
audio == <<out, queue, reader, playback>>
vars == <<kind, pc, session, adapter, provider, audio, crashed, stopped>>

States == {"created", "connected", "listening", "speaking", "interrupted", "ended"}

TypeOK ==
    /\ kind \in Kinds
    /\ pc[Starter] \in {"idle", "map", "start", "dial", "init", "up", "failed", "done"}
    /\ pc[Peer] \in {"idle", "audio", "cancel", "resume", "listen", "send", "write"}
    /\ \A r \in Requests : pc[r] \in {"idle", "connected", "stop", "close", "wait", "mark", "end", "remove", "done"}
    /\ listed \in {"none", "own", "api"} /\ state \in States
    /\ outcome \in {"none", "stopped", "reaped"}
    /\ mapped \in BOOLEAN /\ running \in BOOLEAN /\ cancelled \in BOOLEAN /\ barge \in BOOLEAN
    /\ interrupted \in BOOLEAN /\ crashed \in BOOLEAN /\ stopped \in BOOLEAN
    /\ amu \in {Starter, None} /\ pmu \in {Starter, None}
    /\ conn \in {"none", "open", "closed"} /\ timers \in 0..1
    /\ out \in {"none", "open", "closed"} /\ queue \in 0..Room
    /\ reader \in {"none", "reading", "full", "closing", "done"}
    /\ playback \in {"none", "waiting", "speaking", "done"}

Init ==
    /\ kind \in Kinds
    /\ pc = [t \in Threads |-> "idle"]
    /\ listed = "none" /\ mapped = FALSE /\ state = "created" /\ outcome = "none"
    /\ amu = None /\ running = FALSE /\ cancelled = FALSE /\ barge = FALSE
    /\ pmu = None /\ conn = "none" /\ interrupted = FALSE /\ timers = 0
    /\ out = "none" /\ queue = 0 /\ reader = "none" /\ playback = "none"
    /\ crashed = FALSE /\ stopped = FALSE

Go(t, from, to) == pc[t] = from /\ pc' = [pc EXCEPT ![t] = to]

\* MarkEnded: the first outcome stays.
MarkEnded(o) == outcome' = IF outcome = "none" THEN o ELSE outcome

-----------------------------------------------------------------------------
(* StartAISession. *)

Register ==
    /\ Go(Starter, "idle", "map")
    /\ listed' = "own"
    /\ UNCHANGED <<kind, mapped, state, outcome, adapter, provider, audio, crashed, stopped>>

Map ==
    /\ Go(Starter, "map", "start")
    /\ mapped' = TRUE
    /\ UNCHANGED <<kind, listed, state, outcome, adapter, provider, audio, crashed, stopped>>

\* Start of the adapter takes its lock and, through the provider, the provider's.
AdapterStart ==
    /\ Go(Starter, "start", IF kind = "loopback" THEN "up" ELSE "dial")
    /\ amu = None
    /\ amu' = Starter
    /\ IF kind = "loopback" THEN conn' = "open" /\ out' = "open" /\ UNCHANGED pmu
       ELSE pmu' = Starter /\ UNCHANGED <<conn, out>>
    /\ UNCHANGED <<kind, session, running, cancelled, barge, interrupted, timers, queue, reader, playback,
                   crashed, stopped>>

Dial ==
    \/ /\ Go(Starter, "dial", "init")
       /\ conn' = "open" /\ out' = "open"
       /\ UNCHANGED <<kind, session, adapter, pmu, interrupted, timers, queue, reader, playback, crashed, stopped>>
    \/ /\ Go(Starter, "dial", "failed")
       /\ pmu' = None /\ amu' = None /\ cancelled' = TRUE /\ out' = "open"
       /\ UNCHANGED <<kind, session, running, barge, conn, interrupted, timers, queue, reader, playback,
                      crashed, stopped>>

\* writeJSON of Gemini takes the lock that its Start holds, and waits for ever.
MayWrite == kind = "grok"

SendConfig ==
    /\ MayWrite
    /\ \/ /\ Go(Starter, "init", "up")
          /\ reader' = "reading" /\ pmu' = None
          /\ UNCHANGED <<amu, cancelled, conn>>
       \/ /\ Go(Starter, "init", "failed")
          /\ conn' = "closed" /\ cancelled' = TRUE /\ pmu' = None /\ amu' = None
          /\ UNCHANGED reader
    /\ UNCHANGED <<kind, session, running, barge, interrupted, timers, out, queue, playback, crashed, stopped>>

Up ==
    /\ Go(Starter, "up", "done")
    /\ running' = TRUE /\ state' = "listening" /\ playback' = "waiting"
    /\ amu' = None
    /\ UNCHANGED <<kind, listed, mapped, outcome, cancelled, barge, provider, out, queue, reader, crashed, stopped>>

StartFailed ==
    /\ Go(Starter, "failed", "done")
    /\ listed' = "none" /\ mapped' = FALSE
    /\ UNCHANGED <<kind, state, outcome, adapter, provider, audio, crashed, stopped>>

-----------------------------------------------------------------------------
(* HandlePeerAudio, with a barge-in of the peer. *)

HandlePeerAudio ==
    /\ mapped
    /\ Go(Peer, "idle", "audio")
    /\ UNCHANGED <<kind, session, adapter, provider, audio, crashed, stopped>>

\* The provider is told to be quiet; Grok drops audio until a timer goes off.
OnPeerAudio ==
    /\ amu = None
    /\ Go(Peer, "audio", IF ~running THEN "idle" ELSE IF ~barge THEN "send"
                         ELSE IF kind = "grok" /\ conn # "none" THEN "cancel" ELSE "resume")
    /\ barge' = (barge /\ ~running)
    /\ interrupted' = (interrupted \/ (running /\ barge /\ kind = "grok"))
    /\ UNCHANGED <<kind, session, amu, running, cancelled, pmu, conn, timers, audio, crashed, stopped>>

\* writeJSON uses the connection of that moment, not the one that was looked at.
Interrupt ==
    /\ Go(Peer, "cancel", "resume")
    /\ crashed' = (conn = "none")
    /\ timers' = IF conn = "none" THEN timers ELSE 1
    /\ UNCHANGED <<kind, session, adapter, pmu, conn, interrupted, audio, stopped>>

InterruptOver ==
    /\ timers = 1
    /\ timers' = 0 /\ interrupted' = FALSE
    /\ UNCHANGED <<kind, pc, session, adapter, pmu, conn, audio, crashed, stopped>>

SetInterrupted ==
    /\ Go(Peer, "resume", "listen")
    /\ state' = "interrupted"
    /\ UNCHANGED <<kind, listed, mapped, outcome, adapter, provider, audio, crashed, stopped>>

SetListening ==
    /\ Go(Peer, "listen", "send")
    /\ state' = "listening"
    /\ UNCHANGED <<kind, listed, mapped, outcome, adapter, provider, audio, crashed, stopped>>

\* Loopback echoes what fits into its channel.
\* As if the echo went on when its channel is full.
FitsAlways == TRUE

Fits == queue < Room

Echo ==
    /\ kind = "loopback"
    /\ Go(Peer, "send", "idle")
    /\ queue' = IF conn = "open" /\ Fits THEN queue + 1 ELSE queue
    /\ UNCHANGED <<kind, session, adapter, provider, out, reader, playback, crashed, stopped>>

SendAudio ==
    /\ kind = "grok"
    /\ Go(Peer, "send", IF conn = "none" \/ interrupted THEN "idle" ELSE "write")
    /\ UNCHANGED <<kind, session, adapter, provider, audio, crashed, stopped>>

Write ==
    /\ Go(Peer, "write", "idle")
    /\ crashed' = (conn = "none")
    /\ UNCHANGED <<kind, session, adapter, provider, audio, stopped>>

NotifyBargeIn ==
    /\ running /\ ~barge
    /\ barge' = TRUE
    /\ UNCHANGED <<kind, pc, session, amu, running, cancelled, provider, audio, crashed, stopped>>

-----------------------------------------------------------------------------
(* The goroutines of provider and adapter. *)

\* The channel is Room deep; the reader waits with a chunk until there is room.
Receive ==
    /\ reader = "reading" /\ conn = "open"
    /\ reader' = "full"
    /\ UNCHANGED <<kind, pc, session, adapter, provider, out, queue, playback, crashed, stopped>>

Deliver ==
    /\ reader = "full" /\ queue < Room
    /\ queue' = queue + 1 /\ reader' = "reading"
    /\ UNCHANGED <<kind, pc, session, adapter, provider, out, playback, crashed, stopped>>

\* As if a reader that waits for room did not look at its context.
ReaderMayLeaveRead == reader = "reading"

\* A read fails with the context, the connection, or the network.
ReaderMayLeave == reader = "reading" \/ (reader = "full" /\ cancelled)

ReaderLeaves ==
    /\ ReaderMayLeave
    /\ reader' = "closing"
    /\ UNCHANGED <<kind, pc, session, adapter, provider, out, queue, playback, crashed, stopped>>

\* Grok's reader counts as gone (wg.Done) before it closes the channel.
ReaderCloses ==
    /\ reader = "closing"
    /\ reader' = "done" /\ out' = "closed"
    /\ UNCHANGED <<kind, pc, session, adapter, provider, queue, playback, crashed, stopped>>

\* A chunk is dropped while a barge-in waits to be handled.
Play ==
    /\ playback = "waiting" /\ queue > 0
    /\ queue' = queue - 1
    /\ playback' = IF barge THEN "waiting" ELSE "speaking"
    /\ UNCHANGED <<kind, pc, session, adapter, provider, out, reader, crashed, stopped>>

Speak ==
    /\ playback = "speaking"
    /\ state' = "speaking" /\ playback' = "waiting"
    /\ UNCHANGED <<kind, pc, listed, mapped, outcome, adapter, provider, out, queue, reader, crashed, stopped>>

PlaybackEnds ==
    /\ playback = "waiting" /\ (cancelled \/ (out = "closed" /\ queue = 0))
    /\ playback' = "done"
    /\ UNCHANGED <<kind, pc, session, adapter, provider, out, queue, reader, crashed, stopped>>

-----------------------------------------------------------------------------
(* Requests: stopSession, startSession, createSession of the API, and removeCall. *)

\* createSession registers what it is told to, whoever has the id.
CreateSession(r) ==
    /\ Go(r, "idle", "done")
    /\ listed' = "api"
    /\ UNCHANGED <<kind, mapped, state, outcome, adapter, provider, audio, crashed, stopped>>

StartSession(r) ==
    /\ listed = "own"
    /\ Go(r, "idle", "connected")
    /\ UNCHANGED <<kind, session, adapter, provider, audio, crashed, stopped>>

SetConnected(r) ==
    /\ Go(r, "connected", "done")
    /\ state' = "connected"
    /\ UNCHANGED <<kind, listed, mapped, outcome, adapter, provider, audio, crashed, stopped>>

StopAISession(r) ==
    /\ Go(r, "idle", IF mapped THEN "stop" ELSE "done")
    /\ mapped' = FALSE
    /\ UNCHANGED <<kind, listed, state, outcome, adapter, provider, audio, crashed, stopped>>

Stop(r) ==
    /\ amu = None
    /\ Go(r, "stop", IF running THEN "close" ELSE "remove")
    /\ running' = FALSE
    /\ UNCHANGED <<kind, session, amu, cancelled, barge, provider, audio, crashed, stopped>>

StopLoopback(r) ==
    /\ kind = "loopback"
    /\ Go(r, "close", "mark")
    /\ conn' = "none" /\ out' = "closed"
    /\ UNCHANGED <<kind, session, adapter, pmu, interrupted, timers, queue, reader, playback, crashed, stopped>>

StopGrok(r) ==
    /\ kind = "grok"
    /\ Go(r, "close", "wait")
    /\ conn' = "closed" /\ cancelled' = TRUE
    /\ UNCHANGED <<kind, session, amu, running, barge, pmu, interrupted, timers, audio, crashed, stopped>>

\* As if wg.Wait were missing.
ReaderGoneAlways == TRUE

ReaderGone == reader \in {"closing", "done"}

Wait(r) ==
    /\ ReaderGone
    /\ Go(r, "wait", "mark")
    /\ conn' = "none"
    /\ UNCHANGED <<kind, session, adapter, pmu, interrupted, timers, audio, crashed, stopped>>

Mark(r) ==
    /\ Go(r, "mark", "end")
    /\ cancelled' = TRUE /\ MarkEnded("stopped")
    /\ UNCHANGED <<kind, listed, mapped, state, amu, running, barge, provider, audio, crashed, stopped>>

SetEnded(r) ==
    /\ Go(r, "end", "remove")
    /\ state' = "ended" /\ stopped' = TRUE
    /\ UNCHANGED <<kind, listed, mapped, outcome, adapter, provider, audio, crashed>>

Remove(r) ==
    /\ Go(r, "remove", "done")
    /\ listed' = "none"
    /\ UNCHANGED <<kind, mapped, state, outcome, adapter, provider, audio, crashed, stopped>>

\* ReapStaleSessions ends the session's entry and leaves its adapter alone.
Reap ==
    /\ listed = "own" /\ state # "ended"
    /\ state' = "ended" /\ MarkEnded("reaped")
    /\ UNCHANGED <<kind, pc, listed, mapped, adapter, provider, audio, crashed, stopped>>

-----------------------------------------------------------------------------
Starting == Register \/ Map \/ AdapterStart \/ Dial \/ SendConfig \/ Up \/ StartFailed
Hearing == OnPeerAudio \/ Interrupt \/ SetInterrupted \/ SetListening \/ Echo \/ SendAudio \/ Write
Reading == Receive \/ Deliver \/ ReaderLeaves \/ ReaderCloses
Playing == Play \/ Speak \/ PlaybackEnds
Serving(r) == SetConnected(r) \/ Stop(r) \/ StopLoopback(r) \/ StopGrok(r) \/ Wait(r) \/ Mark(r) \/ SetEnded(r) \/ Remove(r)
Asking(r) == CreateSession(r) \/ StartSession(r) \/ StopAISession(r)

Next ==
    /\ ~crashed
    /\ \/ Starting \/ HandlePeerAudio \/ Hearing \/ NotifyBargeIn \/ InterruptOver
       \/ Reading \/ Playing \/ Reap
       \/ \E r \in Requests : Asking(r) \/ Serving(r)

Spec == Init /\ [][Next]_vars

\* Who has begun goes on: the goroutines of the session and the requests that were taken.
Fairness ==
    /\ WF_vars(~crashed /\ (ReaderLeaves /\ cancelled)) /\ WF_vars(~crashed /\ (PlaybackEnds /\ cancelled))
    /\ WF_vars(~crashed /\ Speak) /\ WF_vars(~crashed /\ ReaderCloses)
    /\ WF_vars(~crashed /\ (Dial \/ SendConfig \/ Up))
    /\ \A r \in Requests : WF_vars(~crashed /\ Serving(r))

FairSpec == Spec /\ Fairness

-----------------------------------------------------------------------------
(* A stop that found the session running leaves nothing of it behind: its  *)
(* connection is given up, its context cancelled, its reader gone and its  *)
(* outcome known, whatever audio, barge-in or other request was under way  *)
(* (AIMediaAdapter.Stop, GrokRealtime.Stop).                               *)
StopReleases ==
    stopped => /\ ~running /\ ~mapped /\ conn = "none" /\ cancelled
               /\ reader \in {"none", "closing", "done"}
               /\ outcome # "none"

(* Once somebody has asked to stop a session whose start goes through, it  *)
(* falls silent: the playback goroutine ends and the stop returns, unless  *)
(* the process is gone (StopAISession).                                    *)
StopSilences ==
    \A r \in Requests :
        (pc[r] = "close") ~> (crashed \/ (pc[r] = "done" /\ playback = "done"))

(* A stop is final: who has stopped the session and got his answer finds   *)
(* it gone (StopAISession, "terminates the AI session").                   *)
StopIsFinal == (\E r \in Requests : pc[r] = "done") /\ ~mapped /\ pc[Starter] = "done" => ~running
=============================================================================
