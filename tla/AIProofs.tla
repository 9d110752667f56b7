------------------------------ MODULE AIProofs ------------------------------
(***************************************************************************)
(* Theorems about the AI layer.  A session: whatever requests, audio and   *)
(* barge-ins come, its state is well formed and a stop that has answered   *)
(* has released it.  The fabric: its counts of active sessions are right,  *)
(* with any number of sessions.                                            *)
(***************************************************************************)
EXTENDS AIStack, FiniteSetTheorems, TLAPS

stackVars == <<vars, fabricVars, part>>

Having(f, p) == {c \in Callers : f[c] = p}
One(q, p) == IF q = p THEN 1 ELSE 0

\* When one session changes its provider, the counts move by one.
LEMMA Moves ==
    ASSUME NEW f, f = [d \in Callers |-> f[d]], NEW c \in Callers, NEW q, NEW p
    PROVE  /\ Cardinality(Having(f, p)) \in Nat
           /\ Cardinality(Having([f EXCEPT ![c] = q], p)) =
                  Cardinality(Having(f, p)) - One(f[c], p) + One(q, p)
  <1> DEFINE g == [f EXCEPT ![c] = q]
             others == {d \in Callers : d # c /\ f[d] = p}
  <1>1. others \subseteq Callers /\ IsFiniteSet(others)
    BY FabricAssumption, FS_Subset
  <1>2. Cardinality(others) \in Nat
    BY <1>1, FS_CardinalityType
  <1>3. c \notin others
    OBVIOUS
  <1>4. /\ IsFiniteSet(others \cup {c})
        /\ Cardinality(others \cup {c}) = Cardinality(others) + 1
    BY <1>1, <1>3, FS_AddElement
  <1>5. Having(f, p) = IF f[c] = p THEN others \cup {c} ELSE others
    BY DEF Having
  <1>6. \A d \in Callers : g[d] = IF d = c THEN q ELSE f[d]
    OBVIOUS
  <1>7. Having(g, p) = IF q = p THEN others \cup {c} ELSE others
    BY <1>6 DEF Having
  <1>8. Cardinality(Having(f, p)) = Cardinality(others) + One(f[c], p)
    BY <1>2, <1>4, <1>5 DEF One
  <1>9. Cardinality(Having(g, p)) = Cardinality(others) + One(q, p)
    BY <1>2, <1>4, <1>7 DEF One
  <1> HIDE DEF g, others
  <1>10. One(f[c], p) \in {0, 1} /\ One(q, p) \in {0, 1}
    BY DEF One
  <1>11. Cardinality(Having(g, p)) = Cardinality(Having(f, p)) - One(f[c], p) + One(q, p)
    BY <1>2, <1>8, <1>9, <1>10
  <1> QED
    BY <1>2, <1>8, <1>10, <1>11 DEF g

-----------------------------------------------------------------------------

\* The counts are those of the sessions, in functions over providers and sessions.
Agreeing ==
    /\ using = [c \in Callers |-> using[c]]
    /\ active = [p \in Providers |-> active[p]]
    /\ \A p \in Providers : active[p] = Cardinality(Having(using, p))

LEMMA CountsNat == ASSUME Agreeing PROVE \A p \in Providers : active[p] \in Nat
  <1> SUFFICES ASSUME NEW p \in Providers PROVE Cardinality(Having(using, p)) \in Nat
    BY DEF Agreeing
  <1>1. Having(using, p) \subseteq Callers
    BY DEF Having
  <1> QED
    BY <1>1, FabricAssumption, FS_Subset, FS_CardinalityType

\* A step that moves one session keeps them so.
LEMMA MoveKeeps ==
    ASSUME Agreeing, NEW c \in Callers, NEW q, using' = [using EXCEPT ![c] = q],
           active' = [p \in Providers |-> active'[p]],
           \A p \in Providers : active'[p] = active[p] - One(using[c], p) + One(q, p)
    PROVE  Agreeing'
  <1>1. ASSUME NEW p \in Providers PROVE active'[p] = Cardinality(Having(using', p))
    BY Moves DEF Agreeing
  <1>2. using' = [d \in Callers |-> using'[d]]
    BY DEF Agreeing
  <1> QED
    BY <1>1, <1>2 DEF Agreeing, Having

LEMMA ResolveKeeps == ASSUME Agreeing, NEW c \in Callers, ResolveProvider(c) PROVE Agreeing'
  <1>1. PICK q : /\ using' = [using EXCEPT ![c] = q] /\ active' = [active EXCEPT ![q] = @ + 1]
    BY DEF ResolveProvider
  <1>2. \A p \in Providers : active[p] \in Nat /\ using[c] # p
    BY CountsNat, FabricAssumption DEF ResolveProvider
  <1>0. active = [p \in Providers |-> active[p]]
    BY DEF Agreeing
  <1>3. active' = [p \in Providers |-> active'[p]]
    BY <1>0, <1>1
  <1>4. ASSUME NEW p \in Providers PROVE active'[p] = active[p] - One(using[c], p) + One(q, p)
    <2>1. active'[p] = IF p = q THEN active[p] + 1 ELSE active[p]
      BY <1>0, <1>1
    <2> QED
      BY <1>2, <2>1 DEF One
  <1> QED
    BY <1>1, <1>3, <1>4, MoveKeeps

LEMMA FallbackKeeps == ASSUME Agreeing, NEW c \in Callers, HandleFallback(c) PROVE Agreeing'
  <1>1. \A p \in Providers : active[p] \in Nat
    BY CountsNat
  <1>0. active = [p \in Providers |-> active[p]]
    BY DEF Agreeing
  <1>2. CASE using' = [using EXCEPT ![c] = NoProvider] /\ active' = Leave(using[c])
    <2>1. active' = [p \in Providers |-> active'[p]]
      BY <1>0, <1>2 DEF Leave
    <2>2. ASSUME NEW p \in Providers
          PROVE  active'[p] = active[p] - One(using[c], p) + One(NoProvider, p)
      <3>1. active'[p] = IF p = using[c] THEN active[p] - 1 ELSE active[p]
        BY <1>0, <1>2 DEF Leave
      <3> QED
        BY <1>1, <3>1, FabricAssumption DEF One
    <2> QED
      BY <1>2, <2>1, <2>2, MoveKeeps
  <1>3. ASSUME NEW q, using' = [using EXCEPT ![c] = q],
               active' = [Leave(using[c]) EXCEPT ![q] = @ + 1]
        PROVE  Agreeing'
    <2>1. active' = [p \in Providers |-> active'[p]]
      BY <1>0, <1>3 DEF Leave
    <2>2. ASSUME NEW p \in Providers
          PROVE  active'[p] = active[p] - One(using[c], p) + One(q, p)
      <3>1. Leave(using[c])[p] = IF p = using[c] THEN active[p] - 1 ELSE active[p]
        BY <1>0 DEF Leave
      <3>2. active'[p] = IF p = q THEN Leave(using[c])[p] + 1 ELSE Leave(using[c])[p]
        BY <1>0, <1>3 DEF Leave
      <3> QED
        BY <1>1, <3>1, <3>2 DEF One
    <2> QED
      BY <1>3, <2>1, <2>2, MoveKeeps
  <1> QED
    BY <1>2, <1>3 DEF HandleFallback

LEMMA CompleteKeeps == ASSUME Agreeing, NEW c \in Callers, CompleteSession(c) PROVE Agreeing'
  <1>1. \A p \in Providers : active[p] \in Nat
    BY CountsNat
  <1>0. active = [p \in Providers |-> active[p]]
    BY DEF Agreeing
  <1>2. using[c] \in Providers => active[using[c]] > 0
    <2> SUFFICES ASSUME using[c] \in Providers PROVE active[using[c]] > 0
      OBVIOUS
    <2>1. Having(using, using[c]) \subseteq Callers /\ c \in Having(using, using[c])
      BY DEF Having
    <2>2. IsFiniteSet(Having(using, using[c])) /\ Having(using, using[c]) # {}
      BY <2>1, FabricAssumption, FS_Subset
    <2>3. Cardinality(Having(using, using[c])) # 0
      BY <2>2, FS_EmptySet
    <2> QED
      BY <1>1, <2>3 DEF Agreeing
  <1>3. /\ using' = [using EXCEPT ![c] = NoProvider]
        /\ active' = [active EXCEPT ![using[c]] = IF @ - 1 < 0 THEN 0 ELSE @ - 1]
    BY DEF CompleteSession
  <1>4. active' = [p \in Providers |-> active'[p]]
    BY <1>0, <1>3
  <1>5. ASSUME NEW p \in Providers
        PROVE  active'[p] = active[p] - One(using[c], p) + One(NoProvider, p)
    <2>1. active'[p] = IF p = using[c] THEN (IF active[p] - 1 < 0 THEN 0 ELSE active[p] - 1)
                       ELSE active[p]
      BY <1>0, <1>3
    <2> QED
      BY <1>1, <1>2, <2>1, FabricAssumption DEF One
  <1> QED
    BY <1>3, <1>4, <1>5, MoveKeeps

LEMMA AgreeingInit == FabricInit => Agreeing
  <1> SUFFICES ASSUME FabricInit, NEW p \in Providers PROVE 0 = Cardinality(Having(using, p))
    BY DEF FabricInit, Agreeing
  <1>1. Having(using, p) = {}
    BY FabricAssumption DEF FabricInit, Having
  <1> QED
    BY <1>1, FS_EmptySet

LEMMA AgreeingStep == Agreeing /\ [StackNext]_stackVars => Agreeing'
  <1> SUFFICES ASSUME Agreeing, [StackNext]_stackVars PROVE Agreeing'
    OBVIOUS
  <1>1. CASE UNCHANGED <<active, using>>
    BY <1>1 DEF Agreeing, Having
  <1>2. ASSUME NEW c \in Callers, ResolveProvider(c) \/ HandleFallback(c) \/ CompleteSession(c)
        PROVE  Agreeing'
    BY <1>2, ResolveKeeps, FallbackKeeps, CompleteKeeps
  <1>3. \/ UNCHANGED <<active, using>>
        \/ \E c \in Callers : ResolveProvider(c) \/ HandleFallback(c) \/ CompleteSession(c)
    BY DEF StackNext, FabricNext, SetProviderStatus, stackVars, fabricVars
  <1> QED
    BY <1>1, <1>2, <1>3

-----------------------------------------------------------------------------
(* A session *)

\* Where requests that stop the session are, before and after they have found it running.
Finding == {"stop"}
Ending == {"close", "wait", "mark", "end"}
Stopping == Finding \cup Ending \cup {"remove"}

\* The adapter's lock is the starter's from the dial on, and a provider that is Gemini stays there.
StarterHolds ==
    /\ amu = Starter <=> pc[Starter] \in {"dial", "init", "up"}
    /\ pc[Starter] \in {"dial", "init"} => kind # "loopback"
    /\ kind = "gemini" => pc[Starter] # "up"
    /\ running => pc[Starter] = "done" /\ kind # "gemini"

\* The gateway gives the adapter to one request, which is the only one to stop it.
OneStops ==
    /\ pc[Starter] \in {"idle", "map"} => ~mapped
    /\ pc[Starter] \in {"idle", "map"} \/ mapped => \A r \in Requests : pc[r] \notin Stopping
    /\ \A r, q \in Requests : pc[r] \in Stopping /\ pc[q] \in Stopping => r = q

\* Only the reader of Grok runs, and once it leaves it does not come back.
ReaderOfGrok ==
    /\ kind = "loopback" => reader = "none"
    /\ reader # "none" => pc[Starter] \in {"up", "done"}

\* What is behind the request that stops the session when it is at each step.
Closed(r) ==
    /\ pc[r] \in Ending => ~running /\ pc[Starter] = "done" /\ kind # "gemini"
    /\ pc[r] = "wait" => kind = "grok" /\ cancelled
    /\ pc[r] \in {"mark", "end"} => conn = "none" /\ reader \in {"none", "closing", "done"}
    /\ pc[r] = "end" => cancelled /\ outcome # "none"

Stopped ==
    /\ StopReleases
    /\ stopped => pc[Starter] = "done" /\ \A r \in Requests : pc[r] \notin Finding \cup Ending

SessionInv ==
    TypeOK /\ pc = [t \in Threads |-> pc[t]] /\ StarterHolds /\ OneStops /\ ReaderOfGrok
    /\ (\A r \in Requests : Closed(r)) /\ Stopped

-----------------------------------------------------------------------------
\* What a step of t does to the threads.
LEMMA Moved ==
    ASSUME pc = [t \in Threads |-> pc[t]], NEW t \in Threads, NEW from, NEW to, Go(t, from, to)
    PROVE  /\ pc' = [u \in Threads |-> pc'[u]] /\ pc[t] = from /\ pc'[t] = to
           /\ \A u \in Threads : u # t => pc'[u] = pc[u]
  BY DEF Go

\* A step of the peer, the reader, the playback or the reaper leaves alone what the invariant
\* says of starter and requests, when it leaves these and does not bring the reader back.
LEMMA QuietKeeps ==
    ASSUME SessionInv, TypeOK', pc' = [t \in Threads |-> pc'[t]], pc'[Starter] = pc[Starter],
           \A r \in Requests : pc'[r] = pc[r],
           UNCHANGED <<kind, mapped, amu, running, cancelled, conn, stopped>>,
           outcome # "none" => outcome' # "none", reader' = "none" <=> reader = "none",
           reader \in {"closing", "done"} => reader' \in {"closing", "done"}
    PROVE  SessionInv'
  <1>1. StarterHolds' /\ OneStops' /\ ReaderOfGrok'
    BY DEF SessionInv, StarterHolds, OneStops, ReaderOfGrok
  <1>2. ASSUME NEW r \in Requests PROVE Closed(r)'
    BY DEF SessionInv, Closed
  <1>3. Stopped'
    BY DEF SessionInv, Stopped, StopReleases
  <1> QED
    BY <1>1, <1>2, <1>3 DEF SessionInv

LEMMA HandlePeerAudioKeeps == ASSUME SessionInv, HandlePeerAudio PROVE SessionInv'
  <1> USE DEF HandlePeerAudio, session, adapter, provider, audio
  <1>1. /\ pc' = [u \in Threads |-> pc'[u]] /\ pc'[Starter] = pc[Starter]
        /\ \A r \in Requests : pc'[r] = pc[r]
    BY Moved, AISessionAssumption DEF SessionInv, Threads, Starter, Peer
  <1>2. pc'[Peer] \in {"idle", "audio", "cancel", "resume", "listen", "send", "write"}
    BY Moved, AISessionAssumption DEF SessionInv, Threads, Starter, Peer
  <1>3. TypeOK'
    BY <1>1, <1>2, AISessionAssumption DEF SessionInv, TypeOK, States
  <1> QED
    BY <1>1, <1>3, QuietKeeps

LEMMA OnPeerAudioKeeps == ASSUME SessionInv, OnPeerAudio PROVE SessionInv'
  <1> USE DEF OnPeerAudio, session, adapter, provider, audio
  <1>1. /\ pc' = [u \in Threads |-> pc'[u]] /\ pc'[Starter] = pc[Starter]
        /\ \A r \in Requests : pc'[r] = pc[r]
    BY Moved, AISessionAssumption DEF SessionInv, Threads, Starter, Peer
  <1>2. pc'[Peer] \in {"idle", "audio", "cancel", "resume", "listen", "send", "write"}
    BY Moved, AISessionAssumption DEF SessionInv, Threads, Starter, Peer
  <1>4. barge' \in BOOLEAN /\ interrupted' \in BOOLEAN
    OBVIOUS
  <1>3. TypeOK'
    BY <1>1, <1>2, <1>4, AISessionAssumption DEF SessionInv, TypeOK, States
  <1> QED
    BY <1>1, <1>3, QuietKeeps

LEMMA InterruptKeeps == ASSUME SessionInv, Interrupt PROVE SessionInv'
  <1> USE DEF Interrupt, session, adapter, provider, audio
  <1>1. /\ pc' = [u \in Threads |-> pc'[u]] /\ pc'[Starter] = pc[Starter]
        /\ \A r \in Requests : pc'[r] = pc[r]
    BY Moved, AISessionAssumption DEF SessionInv, Threads, Starter, Peer
  <1>2. pc'[Peer] \in {"idle", "audio", "cancel", "resume", "listen", "send", "write"}
    BY Moved, AISessionAssumption DEF SessionInv, Threads, Starter, Peer
  <1>4. crashed' \in BOOLEAN
    OBVIOUS
  <1>3. TypeOK'
    BY <1>1, <1>2, <1>4, AISessionAssumption DEF SessionInv, TypeOK, States
  <1> QED
    BY <1>1, <1>3, QuietKeeps

LEMMA SetInterruptedKeeps == ASSUME SessionInv, SetInterrupted PROVE SessionInv'
  <1> USE DEF SetInterrupted, session, adapter, provider, audio
  <1>1. /\ pc' = [u \in Threads |-> pc'[u]] /\ pc'[Starter] = pc[Starter]
        /\ \A r \in Requests : pc'[r] = pc[r]
    BY Moved, AISessionAssumption DEF SessionInv, Threads, Starter, Peer
  <1>2. pc'[Peer] \in {"idle", "audio", "cancel", "resume", "listen", "send", "write"}
    BY Moved, AISessionAssumption DEF SessionInv, Threads, Starter, Peer
  <1>3. TypeOK'
    BY <1>1, <1>2, AISessionAssumption DEF SessionInv, TypeOK, States
  <1> QED
    BY <1>1, <1>3, QuietKeeps

LEMMA SetListeningKeeps == ASSUME SessionInv, SetListening PROVE SessionInv'
  <1> USE DEF SetListening, session, adapter, provider, audio
  <1>1. /\ pc' = [u \in Threads |-> pc'[u]] /\ pc'[Starter] = pc[Starter]
        /\ \A r \in Requests : pc'[r] = pc[r]
    BY Moved, AISessionAssumption DEF SessionInv, Threads, Starter, Peer
  <1>2. pc'[Peer] \in {"idle", "audio", "cancel", "resume", "listen", "send", "write"}
    BY Moved, AISessionAssumption DEF SessionInv, Threads, Starter, Peer
  <1>3. TypeOK'
    BY <1>1, <1>2, AISessionAssumption DEF SessionInv, TypeOK, States
  <1> QED
    BY <1>1, <1>3, QuietKeeps

LEMMA EchoKeeps == ASSUME SessionInv, Echo PROVE SessionInv'
  <1> USE DEF Echo, Fits, session, adapter, provider, audio
  <1>1. /\ pc' = [u \in Threads |-> pc'[u]] /\ pc'[Starter] = pc[Starter]
        /\ \A r \in Requests : pc'[r] = pc[r]
    BY Moved, AISessionAssumption DEF SessionInv, Threads, Starter, Peer
  <1>2. pc'[Peer] \in {"idle", "audio", "cancel", "resume", "listen", "send", "write"}
    BY Moved, AISessionAssumption DEF SessionInv, Threads, Starter, Peer
  <1>3. TypeOK'
    BY <1>1, <1>2, AISessionAssumption DEF SessionInv, TypeOK, States
  <1> QED
    BY <1>1, <1>3, QuietKeeps

LEMMA SendAudioKeeps == ASSUME SessionInv, SendAudio PROVE SessionInv'
  <1> USE DEF SendAudio, session, adapter, provider, audio
  <1>1. /\ pc' = [u \in Threads |-> pc'[u]] /\ pc'[Starter] = pc[Starter]
        /\ \A r \in Requests : pc'[r] = pc[r]
    BY Moved, AISessionAssumption DEF SessionInv, Threads, Starter, Peer
  <1>2. pc'[Peer] \in {"idle", "audio", "cancel", "resume", "listen", "send", "write"}
    BY Moved, AISessionAssumption DEF SessionInv, Threads, Starter, Peer
  <1>3. TypeOK'
    BY <1>1, <1>2, AISessionAssumption DEF SessionInv, TypeOK, States
  <1> QED
    BY <1>1, <1>3, QuietKeeps

LEMMA WriteKeeps == ASSUME SessionInv, Write PROVE SessionInv'
  <1> USE DEF Write, session, adapter, provider, audio
  <1>1. /\ pc' = [u \in Threads |-> pc'[u]] /\ pc'[Starter] = pc[Starter]
        /\ \A r \in Requests : pc'[r] = pc[r]
    BY Moved, AISessionAssumption DEF SessionInv, Threads, Starter, Peer
  <1>2. pc'[Peer] \in {"idle", "audio", "cancel", "resume", "listen", "send", "write"}
    BY Moved, AISessionAssumption DEF SessionInv, Threads, Starter, Peer
  <1>4. crashed' \in BOOLEAN
    OBVIOUS
  <1>3. TypeOK'
    BY <1>1, <1>2, <1>4, AISessionAssumption DEF SessionInv, TypeOK, States
  <1> QED
    BY <1>1, <1>3, QuietKeeps

LEMMA NotifyBargeInKeeps == ASSUME SessionInv, NotifyBargeIn PROVE SessionInv'
  <1> USE DEF NotifyBargeIn, session, adapter, provider, audio
  <1>1. /\ pc' = [u \in Threads |-> pc'[u]] /\ pc'[Starter] = pc[Starter]
        /\ \A r \in Requests : pc'[r] = pc[r]
    BY DEF SessionInv
  <1>2. pc'[Peer] = pc[Peer]
    OBVIOUS
  <1>3. TypeOK'
    BY <1>1, <1>2, AISessionAssumption DEF SessionInv, TypeOK, States
  <1> QED
    BY <1>1, <1>3, QuietKeeps

LEMMA InterruptOverKeeps == ASSUME SessionInv, InterruptOver PROVE SessionInv'
  <1> USE DEF InterruptOver, session, adapter, provider, audio
  <1>1. /\ pc' = [u \in Threads |-> pc'[u]] /\ pc'[Starter] = pc[Starter]
        /\ \A r \in Requests : pc'[r] = pc[r]
    BY DEF SessionInv
  <1>2. pc'[Peer] = pc[Peer]
    OBVIOUS
  <1>4. interrupted' \in BOOLEAN
    OBVIOUS
  <1>3. TypeOK'
    BY <1>1, <1>2, <1>4, AISessionAssumption DEF SessionInv, TypeOK, States
  <1> QED
    BY <1>1, <1>3, QuietKeeps

LEMMA ReceiveKeeps == ASSUME SessionInv, Receive PROVE SessionInv'
  <1> USE DEF Receive, session, adapter, provider, audio
  <1>1. /\ pc' = [u \in Threads |-> pc'[u]] /\ pc'[Starter] = pc[Starter]
        /\ \A r \in Requests : pc'[r] = pc[r]
    BY DEF SessionInv
  <1>2. pc'[Peer] = pc[Peer]
    OBVIOUS
  <1>3. TypeOK'
    BY <1>1, <1>2, AISessionAssumption DEF SessionInv, TypeOK, States
  <1> QED
    BY <1>1, <1>3, QuietKeeps

LEMMA DeliverKeeps == ASSUME SessionInv, Deliver PROVE SessionInv'
  <1> USE DEF Deliver, session, adapter, provider, audio
  <1>1. /\ pc' = [u \in Threads |-> pc'[u]] /\ pc'[Starter] = pc[Starter]
        /\ \A r \in Requests : pc'[r] = pc[r]
    BY DEF SessionInv
  <1>2. pc'[Peer] = pc[Peer]
    OBVIOUS
  <1>3. TypeOK'
    BY <1>1, <1>2, AISessionAssumption DEF SessionInv, TypeOK, States
  <1> QED
    BY <1>1, <1>3, QuietKeeps

LEMMA ReaderLeavesKeeps == ASSUME SessionInv, ReaderLeaves PROVE SessionInv'
  <1> USE DEF ReaderLeaves, ReaderMayLeave, session, adapter, provider, audio
  <1>1. /\ pc' = [u \in Threads |-> pc'[u]] /\ pc'[Starter] = pc[Starter]
        /\ \A r \in Requests : pc'[r] = pc[r]
    BY DEF SessionInv
  <1>2. pc'[Peer] = pc[Peer]
    OBVIOUS
  <1>3. TypeOK'
    BY <1>1, <1>2, AISessionAssumption DEF SessionInv, TypeOK, States
  <1> QED
    BY <1>1, <1>3, QuietKeeps

LEMMA ReaderClosesKeeps == ASSUME SessionInv, ReaderCloses PROVE SessionInv'
  <1> USE DEF ReaderCloses, session, adapter, provider, audio
  <1>1. /\ pc' = [u \in Threads |-> pc'[u]] /\ pc'[Starter] = pc[Starter]
        /\ \A r \in Requests : pc'[r] = pc[r]
    BY DEF SessionInv
  <1>2. pc'[Peer] = pc[Peer]
    OBVIOUS
  <1>3. TypeOK'
    BY <1>1, <1>2, AISessionAssumption DEF SessionInv, TypeOK, States
  <1> QED
    BY <1>1, <1>3, QuietKeeps

LEMMA PlayKeeps == ASSUME SessionInv, Play PROVE SessionInv'
  <1> USE DEF Play, session, adapter, provider, audio
  <1>1. /\ pc' = [u \in Threads |-> pc'[u]] /\ pc'[Starter] = pc[Starter]
        /\ \A r \in Requests : pc'[r] = pc[r]
    BY DEF SessionInv
  <1>2. pc'[Peer] = pc[Peer]
    OBVIOUS
  <1>3. TypeOK'
    BY <1>1, <1>2, AISessionAssumption DEF SessionInv, TypeOK, States
  <1> QED
    BY <1>1, <1>3, QuietKeeps

LEMMA SpeakKeeps == ASSUME SessionInv, Speak PROVE SessionInv'
  <1> USE DEF Speak, session, adapter, provider, audio
  <1>1. /\ pc' = [u \in Threads |-> pc'[u]] /\ pc'[Starter] = pc[Starter]
        /\ \A r \in Requests : pc'[r] = pc[r]
    BY DEF SessionInv
  <1>2. pc'[Peer] = pc[Peer]
    OBVIOUS
  <1>3. TypeOK'
    BY <1>1, <1>2, AISessionAssumption DEF SessionInv, TypeOK, States
  <1> QED
    BY <1>1, <1>3, QuietKeeps

LEMMA PlaybackEndsKeeps == ASSUME SessionInv, PlaybackEnds PROVE SessionInv'
  <1> USE DEF PlaybackEnds, session, adapter, provider, audio
  <1>1. /\ pc' = [u \in Threads |-> pc'[u]] /\ pc'[Starter] = pc[Starter]
        /\ \A r \in Requests : pc'[r] = pc[r]
    BY DEF SessionInv
  <1>2. pc'[Peer] = pc[Peer]
    OBVIOUS
  <1>3. TypeOK'
    BY <1>1, <1>2, AISessionAssumption DEF SessionInv, TypeOK, States
  <1> QED
    BY <1>1, <1>3, QuietKeeps

LEMMA ReapKeeps == ASSUME SessionInv, Reap PROVE SessionInv'
  <1> USE DEF Reap, MarkEnded, session, adapter, provider, audio
  <1>1. /\ pc' = [u \in Threads |-> pc'[u]] /\ pc'[Starter] = pc[Starter]
        /\ \A r \in Requests : pc'[r] = pc[r]
    BY DEF SessionInv
  <1>2. pc'[Peer] = pc[Peer]
    OBVIOUS
  <1>3. TypeOK'
    BY <1>1, <1>2, AISessionAssumption DEF SessionInv, TypeOK, States
  <1> QED
    BY <1>1, <1>3, QuietKeeps

LEMMA RegisterKeeps == ASSUME SessionInv, Register PROVE SessionInv'
  <1> USE DEF Register, session, adapter, provider, audio
  <1>1. /\ pc' = [u \in Threads |-> pc'[u]] /\ pc[Starter] = "idle" /\ pc'[Starter] = "map"
        /\ pc'[Peer] = pc[Peer] /\ \A r \in Requests : pc'[r] = pc[r]
    BY Moved, AISessionAssumption DEF SessionInv, Threads, Starter, Peer
  <1>2. TypeOK'
    BY <1>1 DEF SessionInv, TypeOK, States
  <1>3. StarterHolds'
    BY <1>1, AISessionAssumption DEF SessionInv, TypeOK, StarterHolds, Closed, OneStops, Threads, Finding, Ending, Stopping
  <1>4. OneStops'
    BY <1>1 DEF SessionInv, OneStops, Finding, Ending, Stopping
  <1>5. ReaderOfGrok'
    BY <1>1 DEF SessionInv, ReaderOfGrok, StarterHolds
  <1>6. ASSUME NEW r \in Requests PROVE Closed(r)'
    BY <1>1 DEF SessionInv, Closed, Ending
  <1>7. Stopped'
    BY <1>1 DEF SessionInv, TypeOK, Stopped, StopReleases, OneStops, Closed, Finding, Ending, Stopping
  <1> QED
    BY <1>1, <1>2, <1>3, <1>4, <1>5, <1>6, <1>7 DEF SessionInv

LEMMA MapKeeps == ASSUME SessionInv, Map PROVE SessionInv'
  <1> USE DEF Map, session, adapter, provider, audio
  <1>1. /\ pc' = [u \in Threads |-> pc'[u]] /\ pc[Starter] = "map" /\ pc'[Starter] = "start"
        /\ pc'[Peer] = pc[Peer] /\ \A r \in Requests : pc'[r] = pc[r]
    BY Moved, AISessionAssumption DEF SessionInv, Threads, Starter, Peer
  <1>2. TypeOK'
    BY <1>1 DEF SessionInv, TypeOK, States
  <1>3. StarterHolds'
    BY <1>1, AISessionAssumption DEF SessionInv, TypeOK, StarterHolds, Closed, OneStops, Threads, Finding, Ending, Stopping
  <1>4. OneStops'
    BY <1>1 DEF SessionInv, OneStops, Finding, Ending, Stopping
  <1>5. ReaderOfGrok'
    BY <1>1 DEF SessionInv, ReaderOfGrok, StarterHolds
  <1>6. ASSUME NEW r \in Requests PROVE Closed(r)'
    BY <1>1 DEF SessionInv, Closed, Ending
  <1>7. Stopped'
    BY <1>1 DEF SessionInv, TypeOK, Stopped, StopReleases, OneStops, Closed, Finding, Ending, Stopping
  <1> QED
    BY <1>1, <1>2, <1>3, <1>4, <1>5, <1>6, <1>7 DEF SessionInv

LEMMA AdapterStartKeeps == ASSUME SessionInv, AdapterStart PROVE SessionInv'
  <1> USE DEF AdapterStart, session, adapter, provider, audio
  <1>1. /\ pc' = [u \in Threads |-> pc'[u]] /\ pc[Starter] = "start" /\ pc'[Starter] = IF kind = "loopback" THEN "up" ELSE "dial"
        /\ pc'[Peer] = pc[Peer] /\ \A r \in Requests : pc'[r] = pc[r]
    BY Moved, AISessionAssumption DEF SessionInv, Threads, Starter, Peer
  <1>2. TypeOK'
    BY <1>1 DEF SessionInv, TypeOK, States
  <1>3. StarterHolds'
    BY <1>1, AISessionAssumption DEF SessionInv, TypeOK, StarterHolds, Closed, OneStops, Threads, Finding, Ending, Stopping
  <1>4. OneStops'
    BY <1>1 DEF SessionInv, OneStops, Finding, Ending, Stopping
  <1>5. ReaderOfGrok'
    BY <1>1 DEF SessionInv, ReaderOfGrok, StarterHolds
  <1>6. ASSUME NEW r \in Requests PROVE Closed(r)'
    BY <1>1 DEF SessionInv, Closed, Ending
  <1>7. Stopped'
    BY <1>1 DEF SessionInv, TypeOK, Stopped, StopReleases, OneStops, Closed, Finding, Ending, Stopping
  <1> QED
    BY <1>1, <1>2, <1>3, <1>4, <1>5, <1>6, <1>7 DEF SessionInv

LEMMA DialKeeps == ASSUME SessionInv, Dial PROVE SessionInv'
  <1> USE DEF Dial, session, adapter, provider, audio
  <1>1. /\ pc' = [u \in Threads |-> pc'[u]] /\ pc[Starter] = "dial"
        /\ \/ pc'[Starter] = "init" /\ amu' = amu
           \/ pc'[Starter] = "failed" /\ amu' = None
        /\ pc'[Peer] = pc[Peer] /\ \A r \in Requests : pc'[r] = pc[r]
    BY Moved, AISessionAssumption DEF SessionInv, Threads, Starter, Peer
  <1>2. TypeOK'
    BY <1>1 DEF SessionInv, TypeOK, States
  <1>3. StarterHolds'
    BY <1>1, AISessionAssumption DEF SessionInv, TypeOK, StarterHolds, Closed, OneStops, Threads, Finding, Ending, Stopping
  <1>4. OneStops'
    BY <1>1 DEF SessionInv, OneStops, Finding, Ending, Stopping
  <1>5. ReaderOfGrok'
    BY <1>1 DEF SessionInv, ReaderOfGrok, StarterHolds
  <1>6. ASSUME NEW r \in Requests PROVE Closed(r)'
    BY <1>1 DEF SessionInv, Closed, Ending
  <1>7. Stopped'
    BY <1>1 DEF SessionInv, TypeOK, Stopped, StopReleases, OneStops, Closed, Finding, Ending, Stopping
  <1> QED
    BY <1>1, <1>2, <1>3, <1>4, <1>5, <1>6, <1>7 DEF SessionInv

LEMMA SendConfigKeeps == ASSUME SessionInv, SendConfig PROVE SessionInv'
  <1> USE DEF SendConfig, MayWrite, session, adapter, provider, audio
  <1>1. /\ pc' = [u \in Threads |-> pc'[u]] /\ pc[Starter] = "init" /\ kind = "grok"
        /\ \/ /\ pc'[Starter] = "up" /\ reader' = "reading" /\ pmu' = None
              /\ UNCHANGED <<amu, cancelled, conn>>
           \/ /\ pc'[Starter] = "failed" /\ conn' = "closed" /\ cancelled' = TRUE
              /\ pmu' = None /\ amu' = None /\ reader' = reader
        /\ pc'[Peer] = pc[Peer] /\ \A r \in Requests : pc'[r] = pc[r]
    BY Moved, AISessionAssumption DEF SessionInv, Threads, Starter, Peer
  <1>8. cancelled' \in BOOLEAN
    BY <1>1 DEF SessionInv, TypeOK
  <1>2. TypeOK'
    BY <1>1, <1>8 DEF SessionInv, TypeOK, States
  <1>3. StarterHolds'
    BY <1>1, AISessionAssumption DEF SessionInv, TypeOK, StarterHolds, Closed, OneStops, Threads, Finding, Ending, Stopping
  <1>4. OneStops'
    BY <1>1 DEF SessionInv, OneStops, Finding, Ending, Stopping
  <1>5. ReaderOfGrok'
    BY <1>1 DEF SessionInv, ReaderOfGrok, StarterHolds
  <1>6. ASSUME NEW r \in Requests PROVE Closed(r)'
    BY <1>1 DEF SessionInv, Closed, Ending
  <1>7. Stopped'
    BY <1>1 DEF SessionInv, TypeOK, Stopped, StopReleases, OneStops, Closed, Finding, Ending, Stopping
  <1> QED
    BY <1>1, <1>2, <1>3, <1>4, <1>5, <1>6, <1>7 DEF SessionInv

LEMMA UpKeeps == ASSUME SessionInv, Up PROVE SessionInv'
  <1> USE DEF Up, session, adapter, provider, audio
  <1>1. /\ pc' = [u \in Threads |-> pc'[u]] /\ pc[Starter] = "up" /\ pc'[Starter] = "done"
        /\ pc'[Peer] = pc[Peer] /\ \A r \in Requests : pc'[r] = pc[r]
    BY Moved, AISessionAssumption DEF SessionInv, Threads, Starter, Peer
  <1>2. TypeOK'
    BY <1>1 DEF SessionInv, TypeOK, States
  <1>3. StarterHolds'
    BY <1>1, AISessionAssumption DEF SessionInv, TypeOK, StarterHolds, Closed, OneStops, Threads, Finding, Ending, Stopping
  <1>4. OneStops'
    BY <1>1 DEF SessionInv, OneStops, Finding, Ending, Stopping
  <1>5. ReaderOfGrok'
    BY <1>1 DEF SessionInv, ReaderOfGrok, StarterHolds
  <1>6. ASSUME NEW r \in Requests PROVE Closed(r)'
    BY <1>1 DEF SessionInv, Closed, Ending
  <1>7. Stopped'
    BY <1>1 DEF SessionInv, TypeOK, Stopped, StopReleases, OneStops, Closed, Finding, Ending, Stopping
  <1> QED
    BY <1>1, <1>2, <1>3, <1>4, <1>5, <1>6, <1>7 DEF SessionInv

LEMMA StartFailedKeeps == ASSUME SessionInv, StartFailed PROVE SessionInv'
  <1> USE DEF StartFailed, session, adapter, provider, audio
  <1>1. /\ pc' = [u \in Threads |-> pc'[u]] /\ pc[Starter] = "failed" /\ pc'[Starter] = "done"
        /\ pc'[Peer] = pc[Peer] /\ \A r \in Requests : pc'[r] = pc[r]
    BY Moved, AISessionAssumption DEF SessionInv, Threads, Starter, Peer
  <1>8. mapped' \in BOOLEAN
    OBVIOUS
  <1>2. TypeOK'
    BY <1>1, <1>8 DEF SessionInv, TypeOK, States
  <1>3. StarterHolds'
    BY <1>1, AISessionAssumption DEF SessionInv, TypeOK, StarterHolds, Closed, OneStops, Threads, Finding, Ending, Stopping
  <1>4. OneStops'
    BY <1>1 DEF SessionInv, OneStops, Finding, Ending, Stopping
  <1>5. ReaderOfGrok'
    BY <1>1 DEF SessionInv, ReaderOfGrok, StarterHolds
  <1>6. ASSUME NEW r \in Requests PROVE Closed(r)'
    BY <1>1 DEF SessionInv, Closed, Ending
  <1>7. Stopped'
    BY <1>1 DEF SessionInv, TypeOK, Stopped, StopReleases, OneStops, Closed, Finding, Ending, Stopping
  <1> QED
    BY <1>1, <1>2, <1>3, <1>4, <1>5, <1>6, <1>7 DEF SessionInv

LEMMA CreateSessionKeeps == ASSUME SessionInv, NEW r \in Requests, CreateSession(r) PROVE SessionInv'
  <1> USE DEF CreateSession, session, adapter, provider, audio
  <1>1. /\ pc' = [u \in Threads |-> pc'[u]] /\ pc[r] = "idle" /\ pc'[r] = "done"
        /\ pc'[Starter] = pc[Starter] /\ pc'[Peer] = pc[Peer]
        /\ \A q \in Requests : q # r => pc'[q] = pc[q]
    BY Moved, AISessionAssumption DEF SessionInv, Threads, Starter, Peer
  <1>2. TypeOK'
    BY <1>1 DEF SessionInv, TypeOK, States
  <1>3. StarterHolds'
    BY <1>1, AISessionAssumption DEF SessionInv, TypeOK, StarterHolds, Closed, OneStops, Threads, Finding, Ending, Stopping
  <1>4. OneStops'
    BY <1>1 DEF SessionInv, OneStops, Finding, Ending, Stopping
  <1>5. ReaderOfGrok'
    BY <1>1 DEF SessionInv, ReaderOfGrok, StarterHolds
  <1>6. ASSUME NEW q \in Requests PROVE Closed(q)'
    BY <1>1 DEF SessionInv, TypeOK, Closed, ReaderOfGrok, StarterHolds, OneStops, Finding, Ending, Stopping
  <1>7. Stopped'
    BY <1>1 DEF SessionInv, TypeOK, Stopped, StopReleases, OneStops, Closed, Finding, Ending, Stopping
  <1> QED
    BY <1>1, <1>2, <1>3, <1>4, <1>5, <1>6, <1>7 DEF SessionInv

LEMMA StartSessionKeeps == ASSUME SessionInv, NEW r \in Requests, StartSession(r) PROVE SessionInv'
  <1> USE DEF StartSession, session, adapter, provider, audio
  <1>1. /\ pc' = [u \in Threads |-> pc'[u]] /\ pc[r] = "idle" /\ pc'[r] = "connected"
        /\ pc'[Starter] = pc[Starter] /\ pc'[Peer] = pc[Peer]
        /\ \A q \in Requests : q # r => pc'[q] = pc[q]
    BY Moved, AISessionAssumption DEF SessionInv, Threads, Starter, Peer
  <1>2. TypeOK'
    BY <1>1 DEF SessionInv, TypeOK, States
  <1>3. StarterHolds'
    BY <1>1, AISessionAssumption DEF SessionInv, TypeOK, StarterHolds, Closed, OneStops, Threads, Finding, Ending, Stopping
  <1>4. OneStops'
    BY <1>1 DEF SessionInv, OneStops, Finding, Ending, Stopping
  <1>5. ReaderOfGrok'
    BY <1>1 DEF SessionInv, ReaderOfGrok, StarterHolds
  <1>6. ASSUME NEW q \in Requests PROVE Closed(q)'
    BY <1>1 DEF SessionInv, TypeOK, Closed, ReaderOfGrok, StarterHolds, OneStops, Finding, Ending, Stopping
  <1>7. Stopped'
    BY <1>1 DEF SessionInv, TypeOK, Stopped, StopReleases, OneStops, Closed, Finding, Ending, Stopping
  <1> QED
    BY <1>1, <1>2, <1>3, <1>4, <1>5, <1>6, <1>7 DEF SessionInv

LEMMA SetConnectedKeeps == ASSUME SessionInv, NEW r \in Requests, SetConnected(r) PROVE SessionInv'
  <1> USE DEF SetConnected, session, adapter, provider, audio
  <1>1. /\ pc' = [u \in Threads |-> pc'[u]] /\ pc[r] = "connected" /\ pc'[r] = "done"
        /\ pc'[Starter] = pc[Starter] /\ pc'[Peer] = pc[Peer]
        /\ \A q \in Requests : q # r => pc'[q] = pc[q]
    BY Moved, AISessionAssumption DEF SessionInv, Threads, Starter, Peer
  <1>2. TypeOK'
    BY <1>1 DEF SessionInv, TypeOK, States
  <1>3. StarterHolds'
    BY <1>1, AISessionAssumption DEF SessionInv, TypeOK, StarterHolds, Closed, OneStops, Threads, Finding, Ending, Stopping
  <1>4. OneStops'
    BY <1>1 DEF SessionInv, OneStops, Finding, Ending, Stopping
  <1>5. ReaderOfGrok'
    BY <1>1 DEF SessionInv, ReaderOfGrok, StarterHolds
  <1>6. ASSUME NEW q \in Requests PROVE Closed(q)'
    BY <1>1 DEF SessionInv, TypeOK, Closed, ReaderOfGrok, StarterHolds, OneStops, Finding, Ending, Stopping
  <1>7. Stopped'
    BY <1>1 DEF SessionInv, TypeOK, Stopped, StopReleases, OneStops, Closed, Finding, Ending, Stopping
  <1> QED
    BY <1>1, <1>2, <1>3, <1>4, <1>5, <1>6, <1>7 DEF SessionInv

LEMMA StopAISessionKeeps == ASSUME SessionInv, NEW r \in Requests, StopAISession(r) PROVE SessionInv'
  <1> USE DEF StopAISession, session, adapter, provider, audio
  <1>1. /\ pc' = [u \in Threads |-> pc'[u]] /\ pc[r] = "idle" /\ pc'[r] = IF mapped THEN "stop" ELSE "done"
        /\ pc'[Starter] = pc[Starter] /\ pc'[Peer] = pc[Peer]
        /\ \A q \in Requests : q # r => pc'[q] = pc[q]
    BY Moved, AISessionAssumption DEF SessionInv, Threads, Starter, Peer
  <1>8. mapped' \in BOOLEAN
    OBVIOUS
  <1>2. TypeOK'
    BY <1>1, <1>8 DEF SessionInv, TypeOK, States
  <1>3. StarterHolds'
    BY <1>1, AISessionAssumption DEF SessionInv, TypeOK, StarterHolds, Closed, OneStops, Threads, Finding, Ending, Stopping
  <1>4. OneStops'
    BY <1>1 DEF SessionInv, OneStops, Finding, Ending, Stopping
  <1>5. ReaderOfGrok'
    BY <1>1 DEF SessionInv, ReaderOfGrok, StarterHolds
  <1>6. ASSUME NEW q \in Requests PROVE Closed(q)'
    BY <1>1 DEF SessionInv, TypeOK, Closed, ReaderOfGrok, StarterHolds, OneStops, Finding, Ending, Stopping
  <1>7. Stopped'
    BY <1>1 DEF SessionInv, TypeOK, Stopped, StopReleases, OneStops, Closed, Finding, Ending, Stopping
  <1> QED
    BY <1>1, <1>2, <1>3, <1>4, <1>5, <1>6, <1>7 DEF SessionInv

LEMMA StopKeeps == ASSUME SessionInv, NEW r \in Requests, Stop(r) PROVE SessionInv'
  <1> USE DEF Stop, session, adapter, provider, audio
  <1>1. /\ pc' = [u \in Threads |-> pc'[u]] /\ pc[r] = "stop" /\ pc'[r] = IF running THEN "close" ELSE "remove"
        /\ pc'[Starter] = pc[Starter] /\ pc'[Peer] = pc[Peer]
        /\ \A q \in Requests : q # r => pc'[q] = pc[q]
    BY Moved, AISessionAssumption DEF SessionInv, Threads, Starter, Peer
  <1>8. running' \in BOOLEAN
    OBVIOUS
  <1>2. TypeOK'
    BY <1>1, <1>8 DEF SessionInv, TypeOK, States
  <1>3. StarterHolds'
    BY <1>1, AISessionAssumption DEF SessionInv, TypeOK, StarterHolds, Closed, OneStops, Threads, Finding, Ending, Stopping
  <1>4. OneStops'
    BY <1>1 DEF SessionInv, OneStops, Finding, Ending, Stopping
  <1>5. ReaderOfGrok'
    BY <1>1 DEF SessionInv, ReaderOfGrok, StarterHolds
  <1>6. ASSUME NEW q \in Requests PROVE Closed(q)'
    BY <1>1 DEF SessionInv, TypeOK, Closed, ReaderOfGrok, StarterHolds, OneStops, Finding, Ending, Stopping
  <1>7. Stopped'
    BY <1>1 DEF SessionInv, TypeOK, Stopped, StopReleases, OneStops, Closed, Finding, Ending, Stopping
  <1> QED
    BY <1>1, <1>2, <1>3, <1>4, <1>5, <1>6, <1>7 DEF SessionInv

LEMMA StopLoopbackKeeps == ASSUME SessionInv, NEW r \in Requests, StopLoopback(r) PROVE SessionInv'
  <1> USE DEF StopLoopback, session, adapter, provider, audio
  <1>1. /\ pc' = [u \in Threads |-> pc'[u]] /\ pc[r] = "close" /\ pc'[r] = "mark"
        /\ pc'[Starter] = pc[Starter] /\ pc'[Peer] = pc[Peer]
        /\ \A q \in Requests : q # r => pc'[q] = pc[q]
    BY Moved, AISessionAssumption DEF SessionInv, Threads, Starter, Peer
  <1>2. TypeOK'
    BY <1>1 DEF SessionInv, TypeOK, States
  <1>3. StarterHolds'
    BY <1>1, AISessionAssumption DEF SessionInv, TypeOK, StarterHolds, Closed, OneStops, Threads, Finding, Ending, Stopping
  <1>4. OneStops'
    BY <1>1 DEF SessionInv, OneStops, Finding, Ending, Stopping
  <1>5. ReaderOfGrok'
    BY <1>1 DEF SessionInv, ReaderOfGrok, StarterHolds
  <1>6. ASSUME NEW q \in Requests PROVE Closed(q)'
    BY <1>1 DEF SessionInv, TypeOK, Closed, ReaderOfGrok, StarterHolds, OneStops, Finding, Ending, Stopping
  <1>7. Stopped'
    BY <1>1 DEF SessionInv, TypeOK, Stopped, StopReleases, OneStops, Closed, Finding, Ending, Stopping
  <1> QED
    BY <1>1, <1>2, <1>3, <1>4, <1>5, <1>6, <1>7 DEF SessionInv

LEMMA StopGrokKeeps == ASSUME SessionInv, NEW r \in Requests, StopGrok(r) PROVE SessionInv'
  <1> USE DEF StopGrok, session, adapter, provider, audio
  <1>1. /\ pc' = [u \in Threads |-> pc'[u]] /\ pc[r] = "close" /\ pc'[r] = "wait"
        /\ pc'[Starter] = pc[Starter] /\ pc'[Peer] = pc[Peer]
        /\ \A q \in Requests : q # r => pc'[q] = pc[q]
    BY Moved, AISessionAssumption DEF SessionInv, Threads, Starter, Peer
  <1>2. TypeOK'
    BY <1>1 DEF SessionInv, TypeOK, States
  <1>3. StarterHolds'
    BY <1>1, AISessionAssumption DEF SessionInv, TypeOK, StarterHolds, Closed, OneStops, Threads, Finding, Ending, Stopping
  <1>4. OneStops'
    BY <1>1 DEF SessionInv, OneStops, Finding, Ending, Stopping
  <1>5. ReaderOfGrok'
    BY <1>1 DEF SessionInv, ReaderOfGrok, StarterHolds
  <1>6. ASSUME NEW q \in Requests PROVE Closed(q)'
    BY <1>1 DEF SessionInv, TypeOK, Closed, ReaderOfGrok, StarterHolds, OneStops, Finding, Ending, Stopping
  <1>7. Stopped'
    BY <1>1 DEF SessionInv, TypeOK, Stopped, StopReleases, OneStops, Closed, Finding, Ending, Stopping
  <1> QED
    BY <1>1, <1>2, <1>3, <1>4, <1>5, <1>6, <1>7 DEF SessionInv

LEMMA WaitKeeps == ASSUME SessionInv, NEW r \in Requests, Wait(r) PROVE SessionInv'
  <1> USE DEF Wait, ReaderGone, session, adapter, provider, audio
  <1>1. /\ pc' = [u \in Threads |-> pc'[u]] /\ pc[r] = "wait" /\ pc'[r] = "mark"
        /\ pc'[Starter] = pc[Starter] /\ pc'[Peer] = pc[Peer]
        /\ \A q \in Requests : q # r => pc'[q] = pc[q]
    BY Moved, AISessionAssumption DEF SessionInv, Threads, Starter, Peer
  <1>2. TypeOK'
    BY <1>1 DEF SessionInv, TypeOK, States
  <1>3. StarterHolds'
    BY <1>1, AISessionAssumption DEF SessionInv, TypeOK, StarterHolds, Closed, OneStops, Threads, Finding, Ending, Stopping
  <1>4. OneStops'
    BY <1>1 DEF SessionInv, OneStops, Finding, Ending, Stopping
  <1>5. ReaderOfGrok'
    BY <1>1 DEF SessionInv, ReaderOfGrok, StarterHolds
  <1>6. ASSUME NEW q \in Requests PROVE Closed(q)'
    BY <1>1 DEF SessionInv, TypeOK, Closed, ReaderOfGrok, StarterHolds, OneStops, Finding, Ending, Stopping
  <1>7. Stopped'
    BY <1>1 DEF SessionInv, TypeOK, Stopped, StopReleases, OneStops, Closed, Finding, Ending, Stopping
  <1> QED
    BY <1>1, <1>2, <1>3, <1>4, <1>5, <1>6, <1>7 DEF SessionInv

LEMMA MarkKeeps == ASSUME SessionInv, NEW r \in Requests, Mark(r) PROVE SessionInv'
  <1> USE DEF Mark, MarkEnded, session, adapter, provider, audio
  <1>1. /\ pc' = [u \in Threads |-> pc'[u]] /\ pc[r] = "mark" /\ pc'[r] = "end"
        /\ pc'[Starter] = pc[Starter] /\ pc'[Peer] = pc[Peer]
        /\ \A q \in Requests : q # r => pc'[q] = pc[q]
    BY Moved, AISessionAssumption DEF SessionInv, Threads, Starter, Peer
  <1>2. TypeOK'
    BY <1>1 DEF SessionInv, TypeOK, States
  <1>3. StarterHolds'
    BY <1>1, AISessionAssumption DEF SessionInv, TypeOK, StarterHolds, Closed, OneStops, Threads, Finding, Ending, Stopping
  <1>4. OneStops'
    BY <1>1 DEF SessionInv, OneStops, Finding, Ending, Stopping
  <1>5. ReaderOfGrok'
    BY <1>1 DEF SessionInv, ReaderOfGrok, StarterHolds
  <1>6. ASSUME NEW q \in Requests PROVE Closed(q)'
    BY <1>1 DEF SessionInv, TypeOK, Closed, ReaderOfGrok, StarterHolds, OneStops, Finding, Ending, Stopping
  <1>7. Stopped'
    BY <1>1 DEF SessionInv, TypeOK, Stopped, StopReleases, OneStops, Closed, Finding, Ending, Stopping
  <1> QED
    BY <1>1, <1>2, <1>3, <1>4, <1>5, <1>6, <1>7 DEF SessionInv

LEMMA SetEndedKeeps == ASSUME SessionInv, NEW r \in Requests, SetEnded(r) PROVE SessionInv'
  <1> USE DEF SetEnded, session, adapter, provider, audio
  <1>1. /\ pc' = [u \in Threads |-> pc'[u]] /\ pc[r] = "end" /\ pc'[r] = "remove"
        /\ pc'[Starter] = pc[Starter] /\ pc'[Peer] = pc[Peer]
        /\ \A q \in Requests : q # r => pc'[q] = pc[q]
    BY Moved, AISessionAssumption DEF SessionInv, Threads, Starter, Peer
  <1>2. TypeOK'
    BY <1>1 DEF SessionInv, TypeOK, States
  <1>3. StarterHolds'
    BY <1>1, AISessionAssumption DEF SessionInv, TypeOK, StarterHolds, Closed, OneStops, Threads, Finding, Ending, Stopping
  <1>4. OneStops'
    BY <1>1 DEF SessionInv, OneStops, Finding, Ending, Stopping
  <1>5. ReaderOfGrok'
    BY <1>1 DEF SessionInv, ReaderOfGrok, StarterHolds
  <1>6. ASSUME NEW q \in Requests PROVE Closed(q)'
    BY <1>1 DEF SessionInv, TypeOK, Closed, ReaderOfGrok, StarterHolds, OneStops, Finding, Ending, Stopping
  <1>7. Stopped'
    BY <1>1 DEF SessionInv, TypeOK, Stopped, StopReleases, OneStops, Closed, Finding, Ending, Stopping
  <1> QED
    BY <1>1, <1>2, <1>3, <1>4, <1>5, <1>6, <1>7 DEF SessionInv

LEMMA RemoveKeeps == ASSUME SessionInv, NEW r \in Requests, Remove(r) PROVE SessionInv'
  <1> USE DEF Remove, session, adapter, provider, audio
  <1>1. /\ pc' = [u \in Threads |-> pc'[u]] /\ pc[r] = "remove" /\ pc'[r] = "done"
        /\ pc'[Starter] = pc[Starter] /\ pc'[Peer] = pc[Peer]
        /\ \A q \in Requests : q # r => pc'[q] = pc[q]
    BY Moved, AISessionAssumption DEF SessionInv, Threads, Starter, Peer
  <1>2. TypeOK'
    BY <1>1 DEF SessionInv, TypeOK, States
  <1>3. StarterHolds'
    BY <1>1, AISessionAssumption DEF SessionInv, TypeOK, StarterHolds, Closed, OneStops, Threads, Finding, Ending, Stopping
  <1>4. OneStops'
    BY <1>1 DEF SessionInv, OneStops, Finding, Ending, Stopping
  <1>5. ReaderOfGrok'
    BY <1>1 DEF SessionInv, ReaderOfGrok, StarterHolds
  <1>6. ASSUME NEW q \in Requests PROVE Closed(q)'
    BY <1>1 DEF SessionInv, TypeOK, Closed, ReaderOfGrok, StarterHolds, OneStops, Finding, Ending, Stopping
  <1>7. Stopped'
    BY <1>1 DEF SessionInv, TypeOK, Stopped, StopReleases, OneStops, Closed, Finding, Ending, Stopping
  <1> QED
    BY <1>1, <1>2, <1>3, <1>4, <1>5, <1>6, <1>7 DEF SessionInv

LEMMA SessionInit == Init => SessionInv
  <1> SUFFICES ASSUME Init PROVE SessionInv
    OBVIOUS
  <1>1. \A t \in Threads : pc[t] = "idle"
    BY DEF Init
  <1>2. pc = [t \in Threads |-> pc[t]]
    BY DEF Init
  <1>3. pc[Starter] = "idle" /\ pc[Peer] = "idle" /\ \A r \in Requests : pc[r] = "idle"
    BY <1>1 DEF Threads
  <1>5. /\ mapped \in BOOLEAN /\ running \in BOOLEAN /\ cancelled \in BOOLEAN /\ barge \in BOOLEAN
        /\ interrupted \in BOOLEAN /\ crashed \in BOOLEAN /\ stopped \in BOOLEAN
    BY DEF Init
  <1>4. TypeOK
    BY <1>3, <1>5, AISessionAssumption DEF Init, TypeOK, States
  <1> QED
    BY <1>2, <1>3, <1>4, AISessionAssumption DEF Init, SessionInv, StarterHolds, OneStops, ReaderOfGrok, Closed,
       Stopped, StopReleases, Finding, Ending, Stopping, Threads

LEMMA SessionStep == SessionInv /\ [Next]_vars => SessionInv'
  <1> SUFFICES ASSUME SessionInv, [Next]_vars PROVE SessionInv'
    OBVIOUS
  <1>1. CASE UNCHANGED vars
    BY <1>1 DEF vars, session, adapter, provider, audio, SessionInv, TypeOK, StarterHolds, OneStops, ReaderOfGrok,
       Closed, Stopped, StopReleases
  <1>2. CASE Starting
    BY <1>2, RegisterKeeps, MapKeeps, AdapterStartKeeps, DialKeeps, SendConfigKeeps, UpKeeps, StartFailedKeeps
       DEF Starting
  <1>3. CASE HandlePeerAudio \/ Hearing \/ NotifyBargeIn \/ InterruptOver
    BY <1>3, HandlePeerAudioKeeps, OnPeerAudioKeeps, InterruptKeeps, SetInterruptedKeeps, SetListeningKeeps,
       EchoKeeps, SendAudioKeeps, WriteKeeps, NotifyBargeInKeeps, InterruptOverKeeps DEF Hearing
  <1>4. CASE Reading \/ Playing \/ Reap
    BY <1>4, ReceiveKeeps, DeliverKeeps, ReaderLeavesKeeps, ReaderClosesKeeps, PlayKeeps, SpeakKeeps,
       PlaybackEndsKeeps, ReapKeeps DEF Reading, Playing
  <1>5. ASSUME NEW r \in Requests, Asking(r) PROVE SessionInv'
    BY <1>5, CreateSessionKeeps, StartSessionKeeps, StopAISessionKeeps DEF Asking
  <1>6. ASSUME NEW r \in Requests, Serving(r) PROVE SessionInv'
    BY <1>6, SetConnectedKeeps, StopKeeps, StopLoopbackKeeps, StopGrokKeeps, WaitKeeps, MarkKeeps, SetEndedKeeps,
       RemoveKeeps DEF Serving
  <1> QED
    BY <1>1, <1>2, <1>3, <1>4, <1>5, <1>6 DEF Next

-----------------------------------------------------------------------------
(* Types of the fabric *)

FabricTypes ==
    /\ enabled \in [Providers -> BOOLEAN] /\ weighted \in [Providers -> BOOLEAN]
    /\ successes \in [Providers -> 0..MaxCount] /\ failures \in [Providers -> 0..MaxCount]
    /\ using \in [Callers -> Providers \cup {NoProvider}]

LEMMA ChainOfProviders == \A p \in Providers : \A i \in DOMAIN Chain(p) : Chain(p)[i] \in Providers
  <1> SUFFICES ASSUME NEW p \in Providers, NEW i \in DOMAIN Chain(p) PROVE Chain(p)[i] \in Providers
    OBVIOUS
  <1>1. CASE p = "grok"
    BY <1>1 DEF Chain, Providers
  <1>2. CASE p = "gemini"
    BY <1>2 DEF Chain, Providers
  <1>3. CASE p = "loopback"
    BY <1>3 DEF Chain, Providers
  <1> QED
    BY <1>1, <1>2, <1>3 DEF Providers

\* A count of sessions is at most that of all of them.
LEMMA TypesAgree == FabricTypes /\ Agreeing => FabricTypeOK
  <1> SUFFICES ASSUME FabricTypes, Agreeing, NEW p \in Providers PROVE active[p] \in 0..Cardinality(Callers)
    BY DEF FabricTypes, FabricTypeOK, Agreeing
  <1>1. Having(using, p) \subseteq Callers
    BY DEF Having
  <1>2. Cardinality(Having(using, p)) <= Cardinality(Callers)
    BY <1>1, FabricAssumption, FS_Subset
  <1> QED
    BY <1>2, CountsNat, FabricAssumption, FS_CardinalityType DEF Agreeing

LEMMA TypesInit == FabricInit => FabricTypes
  BY FabricAssumption DEF FabricInit, FabricTypes

LEMMA TypesStep == ASSUME FabricTypes, [StackNext]_stackVars PROVE FabricTypes'
  <1>1. CASE UNCHANGED fabricVars
    BY <1>1 DEF fabricVars, catalog, counts, FabricTypes
  <1>2. ASSUME NEW c \in Callers, ResolveProvider(c) PROVE FabricTypes'
    <2>1. PICK p \in Providers : using' = [using EXCEPT ![c] = p]
      BY <1>2 DEF ResolveProvider, Candidates, Eligible
    <2> QED
      BY <1>2, <2>1 DEF ResolveProvider, catalog, counts, FabricTypes
  <1>3. ASSUME NEW c \in Callers, HandleFallback(c) PROVE FabricTypes'
    <2>1. using[c] \in Providers /\ failures[using[c]] + 1 \in 0..MaxCount
      BY <1>3, FabricAssumption DEF HandleFallback, FabricTypes
    <2>2. PICK q \in Providers \cup {NoProvider} : using' = [using EXCEPT ![c] = q]
      BY <1>3, <2>1, ChainOfProviders DEF HandleFallback
    <2>3. /\ failures' = [failures EXCEPT ![using[c]] = @ + 1]
          /\ UNCHANGED <<enabled, weighted, successes>>
      BY <1>3 DEF HandleFallback, catalog
    <2> QED
      BY <2>1, <2>2, <2>3 DEF FabricTypes
  <1>4. ASSUME NEW c \in Callers, CompleteSession(c) PROVE FabricTypes'
    <2>1. using[c] \in Providers
      BY <1>4 DEF CompleteSession, FabricTypes
    <2>2. /\ using' = [using EXCEPT ![c] = NoProvider] /\ UNCHANGED <<enabled, weighted>>
          /\ \/ /\ successes[using[c]] < MaxCount /\ UNCHANGED failures
                /\ successes' = [successes EXCEPT ![using[c]] = @ + 1]
             \/ /\ failures[using[c]] < MaxCount /\ UNCHANGED successes
                /\ failures' = [failures EXCEPT ![using[c]] = @ + 1]
      BY <1>4 DEF CompleteSession, catalog
    <2> QED
      BY <2>1, <2>2, FabricAssumption DEF FabricTypes
  <1>5. ASSUME NEW p \in Providers, SetProviderStatus(p) PROVE FabricTypes'
    BY <1>5 DEF SetProviderStatus, counts, FabricTypes
  <1> QED
    BY <1>1, <1>2, <1>3, <1>4, <1>5 DEF StackNext, FabricNext, stackVars

-----------------------------------------------------------------------------
StackInv == SessionInv /\ Agreeing /\ FabricTypes /\ part \in {"session", "fabric"}

LEMMA StackInvInit == StackInit => StackInv
  BY SessionInit, AgreeingInit, TypesInit DEF StackInit, StackInv

LEMMA StackInvStep == StackInv /\ [StackNext]_stackVars => StackInv'
  <1> SUFFICES ASSUME StackInv, [StackNext]_stackVars PROVE StackInv'
    OBVIOUS
  <1>1. [Next]_vars /\ part' = part
    BY DEF StackNext, stackVars
  <1> QED
    BY <1>1, SessionStep, AgreeingStep, TypesStep DEF StackInv

LEMMA StackInvariant == StackSpec => []StackInv
  BY StackInvInit, StackInvStep, PTL DEF StackSpec, stackVars

\* Session and catalog stay well formed: the provider's channel never holds more than it has
\* room for, and no provider's count of active sessions goes below zero or above the number of
\* sessions there are (SendAudio of Loopback, HandleFallback, CompleteSession).
THEOREM StackTypes == StackSpec => []StackTypeOK
  <1>1. StackInv => StackTypeOK
    BY TypesAgree DEF StackInv, SessionInv, StackTypeOK
  <1> QED
    BY <1>1, StackInvariant, PTL

\* A stop that found the session running has released all of it when it answers, with any
\* number of requests that stop, start or create the session, a reaper, audio, barge-ins and
\* a start that may fail (AIMediaAdapter.Stop, GrokRealtime.Stop, StopAISession).
THEOREM StopReleasesAll == StackSpec => []StopReleases
  <1>1. StackInv => StopReleases
    BY DEF StackInv, SessionInv, Stopped
  <1> QED
    BY <1>1, StackInvariant, PTL

-----------------------------------------------------------------------------
\* The catalog's count of active sessions is that of the sessions that have the provider,
\* with any sessions that resolve, fall back and complete in any order (HandleFallback,
\* CompleteSession): no provider is closed by a count that drifts.
THEOREM CountsAreSessions == StackSpec => []ActiveIsSessions
  <1>1. StackInit => Agreeing
    BY AgreeingInit DEF StackInit
  <1>2. Agreeing => ActiveIsSessions
    BY DEF Agreeing, ActiveIsSessions, Having
  <1> QED
    BY <1>1, <1>2, AgreeingStep, PTL DEF StackSpec, stackVars
=============================================================================
