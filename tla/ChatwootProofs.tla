--------------------------- MODULE ChatwootProofs ---------------------------
(***************************************************************************)
(* Theorems about the bridge to Chatwoot: its state is well formed, only   *)
(* what an agent wrote goes to WhatsApp, a row of the outbox is given up   *)
(* for dead only after MaxAttempts deliveries that failed, and every step  *)
(* keeps the promise of Delivery, for any number of messages, pushes,      *)
(* chunks, faults and removals.                                            *)
(***************************************************************************)
EXTENDS Chatwoot, TLAPS

\* TypeOK in the groups that change together.
ServiceTypes ==
    /\ up \in BOOLEAN /\ open \in [Chats -> 0 .. MaxOpen]
    /\ inbox \subseteq Posts /\ hooks \subseteq Posts
ConfigTypes ==
    /\ traffic \in Traffics /\ cfg \subseteq Flags /\ stored \subseteq Flags
    /\ session \in {"live", "deleted", "purged"}
OutboxTypes ==
    /\ row \in [Msgs -> {"none", "waiting", "due", "dead"}]
    /\ attempts \in [Msgs -> 0 .. MaxAttempts] /\ late \subseteq Msgs
WorkTypes == batch \subseteq BatchRows /\ cur \in BatchRows \cup {NoMsg}
ThreadTypes ==
    /\ pc \in [Threads -> {"idle", "lock", "contact", "conv", "open", "post", "enqueue",
                           "retry", "delete", "pick", "next", "send", "mark", "tag"}]
    /\ job \in [Threads -> Msgs \cup {NoMsg}]
EventTypes ==
    /\ sent \in [Msgs -> {"no", "sent", "marked", "forgotten"}] /\ arrivals \in [Msgs -> Nat]
ImportTypes ==
    /\ left \in [Importers -> SUBSET Msgs]
    /\ importLock \in Importers \cup {NoImporter} /\ imported \subseteq Msgs
HistoryTypes ==
    /\ faults \in 0 .. MaxFaults /\ failures \in [Msgs -> Nat]
    /\ dropped \subseteq Msgs /\ relayed \subseteq Posts

LEMMA TypesSplit ==
    TypeOK <=> /\ ServiceTypes /\ ConfigTypes /\ OutboxTypes /\ WorkTypes
               /\ ThreadTypes /\ EventTypes /\ ImportTypes /\ HistoryTypes
  BY DEF TypeOK, ServiceTypes, ConfigTypes, OutboxTypes, WorkTypes, ThreadTypes, EventTypes,
         ImportTypes, HistoryTypes

\* Where each goroutine may be, and with what.  A push that is to be kept is no notice; an
\* import has only messages of direct chats, so that what it posts as outgoing has a
\* source_id; the worker deletes the row of a message that needs it no more.
Pushing(p) ==
    /\ pc[p] \in {"idle", "contact", "conv", "open", "post", "enqueue"}
    /\ pc[p] # "idle" => job[p] \in Msgs
    /\ pc[p] = "enqueue" => kind[job[p]] \notin Notices

Importable(m) == kind[m] \in {"direct", "own"}

Importing(k) ==
    /\ pc[k] \in {"idle", "lock", "contact", "conv", "open", "post", "next"}
    /\ pc[k] # "idle" => \A m \in left[k] : Importable(m)
    /\ pc[k] \notin {"idle", "lock"} => job[k] \in Msgs /\ Importable(job[k])

Settled(m) == Delivered(m) \/ m \in dropped

\* No row, no copy of it that the worker has read, counts more attempts than have failed.
Counted(b) == b.attempts <= failures[b.msg]

Draining ==
    /\ pc[Worker] \in {"idle", "pick", "contact", "conv", "open", "post", "retry", "delete"}
    /\ pc[Worker] \notin {"idle", "pick"} => /\ cur \in BatchRows /\ Counted(cur)
                                        /\ job[Worker] = cur.msg
    /\ pc[Worker] = "delete" => Settled(cur.msg)

Hooking ==
    /\ pc[Hook] \in {"idle", "send", "mark", "tag"}
    /\ pc[Hook] # "idle" => job[Hook] \in Msgs

Earned ==
    /\ \A m \in Msgs : attempts[m] <= failures[m]
    /\ \A b \in batch : Counted(b)

\* A webhook on its way is an agent's, or will not be relayed.
FromAgent(p) == kind[p.msg] = "agent" /\ p = Written(p.msg)
EchoesRefused == \A p \in hooks : FromAgent(p) \/ ~ShouldRelayWebhook(p)

ChatInv ==
    /\ ServiceTypes /\ ConfigTypes /\ OutboxTypes /\ WorkTypes
    /\ ThreadTypes /\ EventTypes /\ ImportTypes /\ HistoryTypes
    /\ \A p \in Pushers : Pushing(p)
    /\ \A k \in Importers : Importing(k)
    /\ Draining /\ Hooking
    /\ Earned /\ DeadEarned
    /\ EchoesRefused /\ OnlyAgentsRelayed

-----------------------------------------------------------------------------
(* Who is who, and what a step of one leaves alone *)

LEMMA Apart ==
    /\ Worker \in Deliverers /\ Worker \notin Pushers /\ Worker \notin Importers
    /\ Hook \in Threads /\ Hook \notin Deliverers /\ Hook # Worker
    /\ \A p \in Pushers : p \in Deliverers /\ p \notin Importers
    /\ \A k \in Importers : k \in Deliverers /\ k \notin Pushers
    /\ \A t \in Deliverers : t \in Threads /\ t # Hook
    /\ \A t \in Threads : t = Worker \/ t = Hook \/ t \in Pushers \/ t \in Importers
  BY NamesAssumption DEF Deliverers, Threads

\* t has moved to l, with m.
Moves(t, l, m) ==
    /\ pc' = [pc EXCEPT ![t] = l] /\ job' = [job EXCEPT ![t] = m]
\* Seen from the goroutines: only t has moved.
Moved(t, l, m) ==
    /\ pc'[t] = l /\ job'[t] = m
    /\ \A u \in Threads : u # t => pc'[u] = pc[u] /\ job'[u] = job[u]

Labels == {"idle", "lock", "contact", "conv", "open", "post", "enqueue", "retry", "delete",
           "pick", "next", "send", "mark", "tag"}

LEMMA GoMoves ==
    ASSUME ThreadTypes, NEW t \in Threads, NEW l \in Labels, Go(t, l)
    PROVE  ThreadTypes' /\ Moved(t, l, job[t])
  BY DEF Go, ThreadTypes, Moved, Labels

LEMMA BeginMoves ==
    ASSUME ThreadTypes, NEW t \in Threads, NEW l \in Labels, NEW m \in Msgs, Begin(t, m, l)
    PROVE  ThreadTypes' /\ Moved(t, l, m)
  BY DEF Begin, ThreadTypes, Moved, Labels

\* What the others rely on is left alone by a step of t.
LEMMA OthersKeep ==
    ASSUME ChatInv, NEW t \in Threads, NEW l, NEW m, Moved(t, l, m), UNCHANGED traffic,
           \A k \in Importers : k # t => left'[k] \subseteq left[k],
           t # Worker => UNCHANGED <<cur, failures>>,
           inbox \subseteq inbox', dropped \subseteq dropped'
    PROVE  /\ \A p \in Pushers : p # t => Pushing(p)'
           /\ \A k \in Importers : k # t => Importing(k)'
           /\ t # Worker => Draining'
           /\ t # Hook => Hooking'
  <1>1. \A u \in Threads : u # t => pc'[u] = pc[u] /\ job'[u] = job[u]
    BY DEF Moved
  <1>2. kind' = kind
    BY DEF kind
  <1>3. ASSUME NEW p \in Pushers, p # t PROVE Pushing(p)'
    <2>1. pc'[p] = pc[p] /\ job'[p] = job[p] /\ Pushing(p)
      BY <1>1, <1>3, Apart DEF ChatInv
    <2> QED
      BY <1>2, <2>1 DEF Pushing
  <1>4. ASSUME NEW k \in Importers, k # t PROVE Importing(k)'
    <2>1. pc'[k] = pc[k] /\ job'[k] = job[k] /\ Importing(k) /\ left'[k] \subseteq left[k]
      BY <1>1, <1>4, Apart DEF ChatInv
    <2> QED
      BY <1>2, <2>1 DEF Importing, Importable
  <1>5. ASSUME t # Worker PROVE Draining'
    <2>1. pc'[Worker] = pc[Worker] /\ job'[Worker] = job[Worker] /\ cur' = cur /\ failures' = failures /\ Draining
      BY <1>1, <1>5, Apart DEF ChatInv
    <2> QED
      BY <2>1 DEF Draining, Counted, Settled, Delivered
  <1>6. ASSUME t # Hook PROVE Hooking'
    <2>1. pc'[Hook] = pc[Hook] /\ job'[Hook] = job[Hook] /\ Hooking
      BY <1>1, <1>6, Apart DEF ChatInv
    <2> QED
      BY <2>1 DEF Hooking
  <1> QED
    BY <1>3, <1>4, <1>5, <1>6

\* A step of no goroutine.
LEMMA AllKeep ==
    ASSUME ChatInv, UNCHANGED <<traffic, threads, left, cur, failures>>, inbox \subseteq inbox',
           dropped \subseteq dropped'
    PROVE  /\ ThreadTypes' /\ \A p \in Pushers : Pushing(p)'
           /\ \A k \in Importers : Importing(k)'
           /\ Draining' /\ Hooking'
  <1>1. kind' = kind
    BY DEF kind
  <1> QED
    BY <1>1 DEF ChatInv, threads, ThreadTypes, Pushing, Importing, Importable, Draining,
                Hooking, Counted, Settled, Delivered

\* What stays as it is when nothing it speaks of changes.
LEMMA Frames ==
    ASSUME ChatInv
    PROVE  /\ UNCHANGED service => ServiceTypes'
           /\ UNCHANGED config => ConfigTypes'
           /\ UNCHANGED outbox => OutboxTypes'
           /\ UNCHANGED work => WorkTypes'
           /\ UNCHANGED <<sent, arrivals>> => EventTypes'
           /\ UNCHANGED import => ImportTypes'
           /\ UNCHANGED history => HistoryTypes'
           /\ UNCHANGED <<attempts, batch, failures>> => Earned'
           /\ UNCHANGED <<row, failures>> => DeadEarned'
           /\ UNCHANGED traffic /\ hooks' \subseteq hooks => EchoesRefused'
           /\ UNCHANGED <<traffic, relayed>> => OnlyAgentsRelayed'
  <1> USE DEF ChatInv
  <1>1. UNCHANGED service => ServiceTypes'
    BY DEF service, ServiceTypes
  <1>2. UNCHANGED config => ConfigTypes'
    BY DEF config, ConfigTypes
  <1>3. UNCHANGED outbox => OutboxTypes'
    BY DEF outbox, OutboxTypes
  <1>4. UNCHANGED work => WorkTypes'
    BY DEF work, WorkTypes
  <1>5. UNCHANGED <<sent, arrivals>> => EventTypes'
    BY DEF EventTypes
  <1>6. UNCHANGED import => ImportTypes'
    BY DEF import, ImportTypes
  <1>7. UNCHANGED history => HistoryTypes'
    BY DEF history, HistoryTypes
  <1>8. UNCHANGED <<attempts, batch, failures>> => Earned'
    BY DEF Earned, Counted
  <1>9. UNCHANGED <<row, failures>> => DeadEarned'
    BY DEF DeadEarned
  <1>10. UNCHANGED traffic /\ hooks' \subseteq hooks => EchoesRefused'
    BY DEF EchoesRefused, FromAgent, ShouldRelayWebhook, Written, kind
  <1>11. UNCHANGED <<traffic, relayed>> => OnlyAgentsRelayed'
    BY DEF OnlyAgentsRelayed, Written, kind
  <1> QED
    BY <1>1, <1>2, <1>3, <1>4, <1>5, <1>6, <1>7, <1>8, <1>9, <1>10, <1>11

\* Where a deliverer with a message may be goes on after an error, or when done.
LEMMA Afterwards ==
    ASSUME ChatInv, NEW t \in Deliverers,
           pc[t] \in {"contact", "conv", "open", "post"}
    PROVE  /\ AfterError(t) \in Labels /\ AfterDone(t) \in Labels
           /\ AfterConversation(t) \in Labels
           /\ job[t] \in Msgs /\ t \in Threads
           /\ t \in Pushers => AfterDone(t) = "idle" /\ AfterConversation(t) = "post"
           /\ t \in Pushers => \/ AfterError(t) = "idle" /\ kind[job[t]] \in Notices
                               \/ AfterError(t) = "enqueue" /\ kind[job[t]] \notin Notices
           /\ t \in Importers => AfterError(t) = "next" /\ AfterDone(t) = "next"
                                 /\ AfterConversation(t) = "next"
           /\ t = Worker => AfterError(t) = "retry" /\ AfterDone(t) = "delete"
                            /\ AfterConversation(t) = "post"
  <1>1. t \in Pushers \/ t \in Importers \/ t = Worker
    BY Apart
  <1>2. \A b \in BatchRows : b.msg \in Msgs
    BY DEF BatchRows
  <1>3. job[t] \in Msgs
    BY <1>1, <1>2 DEF ChatInv, Pushing, Importing, Draining
  <1> QED
    BY <1>1, <1>3, Apart DEF AfterError, AfterDone, AfterConversation, Labels


\* A deliverer that goes on with its message as it should keeps everyone's place.
Fits(t, l) ==
    /\ t \in Pushers => \/ l \in {"idle", "conv", "open", "post"}
                        \/ l = "enqueue" /\ kind[job[t]] \notin Notices
    /\ t \in Importers => l \in {"conv", "open", "post", "next"}
    /\ t = Worker => \/ l \in {"conv", "open", "post", "retry"}
                     \/ l = "delete" /\ Settled(job[t])'

Places ==
    /\ \A p \in Pushers : Pushing(p)
    /\ \A k \in Importers : Importing(k)
    /\ Draining /\ Hooking

LEMMA DeliverKeepsPlaces ==
    ASSUME ChatInv, NEW t \in Deliverers, pc[t] \in {"contact", "conv", "open", "post"},
           NEW l \in Labels, Go(t, l), Fits(t, l), UNCHANGED <<traffic, cur, failures>>,
           \A k \in Importers : left'[k] \subseteq left[k],
           inbox \subseteq inbox', dropped \subseteq dropped'
    PROVE  ThreadTypes' /\ Places'
  <1>1. t \in Threads /\ t # Hook
    BY Apart
  <1>2. ThreadTypes' /\ Moved(t, l, job[t])
    BY <1>1, GoMoves DEF ChatInv
  <1>3. /\ \A p \in Pushers : p # t => Pushing(p)'
        /\ \A k \in Importers : k # t => Importing(k)'
        /\ t # Worker => Draining'
        /\ t # Hook => Hooking'
    BY <1>1, <1>2, OthersKeep
  <1>4. pc'[t] = l /\ job'[t] = job[t] /\ job[t] \in Msgs /\ kind' = kind
    BY <1>2, Afterwards DEF Moved, kind
  <1>5. t \in Pushers => Pushing(t)'
    BY <1>4 DEF Fits, Pushing
  <1>6. t \in Importers => Importing(t)'
    BY <1>4 DEF ChatInv, Fits, Importing, Importable
  <1>7. t = Worker => Draining'
    BY <1>4 DEF ChatInv, Fits, Draining, Counted
  <1> QED
    BY <1>1, <1>2, <1>3, <1>5, <1>6, <1>7 DEF Places

\* The posts of the server are never relayed.
LEMMA PostsAreNot ==
    ASSUME ChatInv, NEW t \in Deliverers, pc[t] = "post"
    PROVE  PostOf(t, job[t]) \in Posts /\ ~ShouldRelayWebhook(PostOf(t, job[t]))
  <1>1. job[t] \in Msgs
    BY Afterwards
  <1>2. t \in Importers => Importable(job[t])
    BY DEF ChatInv, Importing
  <1>3. Dir(t, job[t]) \in Dirs
    BY DEF Dir, Dirs
  <1>4. Dir(t, job[t]) = "outgoing" => kind[job[t]] \notin Notices
    BY <1>2 DEF Dir, Importable, Notices, Notes
  <1> QED
    BY <1>1, <1>3, <1>4 DEF PostOf, Posts, ShouldRelayWebhook

LEMMA TakeSettles ==
    ASSUME ChatInv, NEW t \in Deliverers, pc[t] = "post", Take(t)
    PROVE  /\ inbox \subseteq inbox' /\ inbox' \subseteq Posts /\ hooks' \subseteq Posts
           /\ \A m : Delivered(m)' <=> Delivered(m) \/ m = job[t]
           /\ \A p \in hooks' : p \in hooks \/ p = PostOf(t, job[t])
  <1>1. PostOf(t, job[t]) \in Posts /\ PostOf(t, job[t]).msg = job[t]
    BY PostsAreNot DEF PostOf
  <1> QED
    BY <1>1 DEF Take, Delivered, ChatInv, ServiceTypes


-----------------------------------------------------------------------------
(* A delivery *)

LEMMA AbandonKeeps ==
    ASSUME ChatInv, NEW t \in Deliverers, pc[t] \in {"contact", "open"}, Abandon(t),
           UNCHANGED <<traffic, cur, failures, inbox, dropped>>
    PROVE  ThreadTypes' /\ Places' /\ ImportTypes'
  <1> USE DEF Abandon
  <1>1. Go(t, AfterError(t)) /\ AfterError(t) \in Labels /\ Fits(t, AfterError(t))
    BY Afterwards DEF Fits
  <1>2. /\ \A k \in Importers : left'[k] \subseteq left[k]
        /\ left' \in [Importers -> SUBSET Msgs]
    BY DEF ChatInv, ImportTypes
  <1>3. ImportTypes'
    BY <1>2 DEF ChatInv, ImportTypes
  <1> QED
    BY <1>1, <1>2, <1>3, DeliverKeepsPlaces


LEMMA EnsureContactKeeps == ASSUME ChatInv, NEW t \in Deliverers, EnsureContact(t) PROVE ChatInv'
  <1> USE DEF EnsureContact, Requesting
  <1>1. /\ UNCHANGED <<service, config, outbox, work, sent, arrivals, history>>
        /\ UNCHANGED <<inbox, hooks, row, attempts, traffic, cur, batch, dropped, failures, relayed>>
    BY DEF service, config, outbox, work, history
  <1>2. CASE up /\ Go(t, "conv") /\ UNCHANGED import
    <2>1. Fits(t, "conv") /\ "conv" \in Labels /\ UNCHANGED left
      BY <1>2 DEF Fits, Labels, import
    <2>2. ThreadTypes' /\ Places'
      BY <1>1, <1>2, <2>1, DeliverKeepsPlaces
    <2> QED
      BY <1>1, <1>2, <2>2, Frames DEF ChatInv, Places
  <1>3. CASE Abandon(t)
    <2>1. ThreadTypes' /\ Places' /\ ImportTypes'
      BY <1>1, <1>3, AbandonKeeps
    <2> QED
      BY <1>1, <2>1, Frames DEF ChatInv, Places
  <1> QED
    BY <1>2, <1>3

LEMMA FindConversationKeeps ==
    ASSUME ChatInv, NEW t \in Deliverers, FindConversation(t) PROVE ChatInv'
  <1> USE DEF FindConversation, Requesting
  <1>1. /\ UNCHANGED <<service, config, outbox, work, sent, arrivals, import, history>>
        /\ UNCHANGED <<inbox, hooks, row, attempts, traffic, cur, batch, dropped, failures, relayed, left>>
    BY DEF service, config, outbox, work, import, history
  <1>2. PICK l \in {"open", AfterConversation(t)} : Go(t, l)
    OBVIOUS
  <1>3. l \in Labels /\ Fits(t, l)
    BY Afterwards DEF Fits, Labels
  <1>4. ThreadTypes' /\ Places'
    BY <1>1, <1>2, <1>3, DeliverKeepsPlaces
  <1> QED
    BY <1>1, <1>4, Frames DEF ChatInv, Places

LEMMA OpenConversationKeeps ==
    ASSUME ChatInv, NEW t \in Deliverers, OpenConversation(t) PROVE ChatInv'
  <1> USE DEF OpenConversation, Requesting
  <1>1. /\ UNCHANGED <<config, outbox, work, sent, arrivals, history>>
        /\ UNCHANGED <<inbox, hooks, row, attempts, traffic, cur, batch, dropped, failures, relayed>>
    BY DEF config, outbox, work, history
  <1>2. ServiceTypes'
    <2>1. job[t] \in Msgs
      BY Afterwards
    <2>2. open \in [Chats -> 0 .. MaxOpen] /\ Chat[job[t]] \in Chats /\ open[Chat[job[t]]] \in 0 .. MaxOpen
      BY <2>1 DEF ChatInv, ServiceTypes, Chats
    <2>3. open' \in [Chats -> 0 .. MaxOpen]
      BY <2>2, NumbersAssumption
    <2>4. up' \in BOOLEAN
      BY DEF ChatInv, ServiceTypes
    <2> QED
      BY <1>1, <2>3, <2>4 DEF ChatInv, ServiceTypes
  <1>3. CASE Go(t, AfterConversation(t)) /\ UNCHANGED import
    <2>1. AfterConversation(t) \in Labels /\ Fits(t, AfterConversation(t)) /\ UNCHANGED left
      BY <1>3, Afterwards DEF Fits, Labels, import
    <2>2. ThreadTypes' /\ Places'
      BY <1>1, <1>3, <2>1, DeliverKeepsPlaces
    <2> QED
      BY <1>1, <1>2, <1>3, <2>2, Frames DEF ChatInv, Places
  <1>4. CASE Abandon(t)
    <2>1. ThreadTypes' /\ Places' /\ ImportTypes'
      BY <1>1, <1>4, AbandonKeeps
    <2> QED
      BY <1>1, <1>2, <2>1, Frames DEF ChatInv, Places
  <1> QED
    BY <1>3, <1>4

LEMMA PostKeeps == ASSUME ChatInv, NEW t \in Deliverers, Post(t) PROVE ChatInv'
  <1> USE DEF Post
  <1>1. /\ UNCHANGED <<config, outbox, work, sent, arrivals, import>>
        /\ UNCHANGED <<row, attempts, traffic, cur, batch, faults, failures, relayed, left, open>>
    BY DEF config, outbox, work, import
  <1>2. job[t] \in Msgs /\ AfterDone(t) \in Labels /\ AfterError(t) \in Labels
    BY Afterwards
  <1>3. CASE Take(t) /\ UNCHANGED dropped /\ up' \in BOOLEAN
    <2>1. PICK l \in {AfterDone(t), AfterError(t)} : Go(t, l)
      BY <1>3
    <2>2. /\ inbox \subseteq inbox' /\ inbox' \subseteq Posts /\ hooks' \subseteq Posts
          /\ \A m : Delivered(m)' <=> Delivered(m) \/ m = job[t]
          /\ \A p \in hooks' : p \in hooks \/ p = PostOf(t, job[t])
      BY <1>3, TakeSettles
    <2>3. l \in Labels /\ Fits(t, l)
      <3>1. job' = job
        BY <2>1 DEF Go
      <3>2. Settled(job[t])'
        BY <2>2, <3>1 DEF Settled
      <3> QED
        BY <1>2, <3>2, Afterwards DEF Fits
    <2>4. ThreadTypes' /\ Places'
      BY <1>1, <1>3, <2>1, <2>2, <2>3, DeliverKeepsPlaces
    <2>5. ServiceTypes'
      BY <1>1, <1>3, <2>2 DEF ChatInv, ServiceTypes
    <2>6. EchoesRefused'
      BY <1>1, <2>2, PostsAreNot
         DEF ChatInv, EchoesRefused, FromAgent, ShouldRelayWebhook, Written, kind
    <2>7. UNCHANGED history
      BY <1>1, <1>3 DEF history
    <2> QED
      BY <1>1, <2>4, <2>5, <2>6, <2>7, Frames DEF ChatInv, Places
  <1>4. CASE Go(t, AfterError(t)) /\ UNCHANGED <<up, inbox, hooks, dropped>>
    <2>1. Fits(t, AfterError(t))
      BY Afterwards DEF Fits
    <2>2. ThreadTypes' /\ Places'
      BY <1>1, <1>2, <1>4, <2>1, DeliverKeepsPlaces
    <2>3. UNCHANGED <<service, history>>
      BY <1>1, <1>4 DEF service, history
    <2> QED
      BY <1>1, <1>4, <2>2, <2>3, Frames DEF ChatInv, Places
  <1>5. CASE /\ dropped' = dropped \cup {job[t]} /\ Go(t, AfterDone(t))
             /\ UNCHANGED <<up, inbox, hooks>>
    <2>1. Fits(t, AfterDone(t))
      <3>1. job' = job
        BY <1>5 DEF Go
      <3>2. Settled(job[t])'
        BY <1>5, <3>1 DEF Settled
      <3> QED
        BY <3>2, Afterwards DEF Fits
    <2>2. ThreadTypes' /\ Places'
      BY <1>1, <1>2, <1>5, <2>1, DeliverKeepsPlaces
    <2>3. HistoryTypes'
      BY <1>1, <1>2, <1>5 DEF ChatInv, HistoryTypes
    <2>4. UNCHANGED service
      BY <1>1, <1>5 DEF service
    <2> QED
      BY <1>1, <1>5, <2>2, <2>3, <2>4, Frames DEF ChatInv, Places
  <1>6. up \in BOOLEAN
    BY DEF ChatInv, ServiceTypes
  <1> QED
    BY <1>3, <1>4, <1>5, <1>6


-----------------------------------------------------------------------------
(* Events and the outbox *)

LEMMA ArriveKeeps == ASSUME ChatInv, NEW p \in Pushers, NEW m \in Msgs, Arrive(p, m) PROVE ChatInv'
  <1> USE DEF Arrive
  <1>1. /\ UNCHANGED <<service, config, outbox, work, sent, import, history>>
        /\ UNCHANGED <<inbox, hooks, row, attempts, traffic, cur, batch, dropped, failures, relayed, left>>
    BY DEF service, config, outbox, work, import, history
  <1>2. EventTypes'
    BY DEF ChatInv, EventTypes
  <1>3. p \in Threads /\ p # Hook /\ p # Worker /\ p \notin Importers /\ "contact" \in Labels
    BY Apart DEF Labels
  <1>4. CASE Begin(p, m, "contact")
    <2>1. ThreadTypes' /\ Moved(p, "contact", m)
      BY <1>3, <1>4, BeginMoves DEF ChatInv
    <2>2. /\ \A q \in Pushers : q # p => Pushing(q)'
          /\ \A k \in Importers : Importing(k)'
          /\ Draining' /\ Hooking'
      BY <1>1, <1>3, <2>1, OthersKeep
    <2>3. Pushing(p)'
      BY <2>1 DEF Moved, Pushing
    <2> QED
      BY <1>1, <1>2, <2>1, <2>2, <2>3, Frames DEF ChatInv
  <1>5. CASE UNCHANGED threads
    BY <1>1, <1>2, <1>5, AllKeep, Frames DEF ChatInv
  <1> QED
    BY <1>4, <1>5

LEMMA EnqueueKeeps == ASSUME ChatInv, NEW p \in Pushers, Enqueue(p) PROVE ChatInv'
  <1> USE DEF Enqueue
  <1>1. /\ UNCHANGED <<service, config, work, sent, arrivals, import>>
        /\ UNCHANGED <<inbox, hooks, traffic, cur, batch, left>>
    BY DEF service, config, work, import
  <1>2. UNCHANGED <<dropped, failures, relayed>>
    BY DEF history, DbError
  <1>3. p \in Threads /\ p # Hook /\ p # Worker /\ p \notin Importers /\ "idle" \in Labels
    BY Apart DEF Labels
  <1>4. job[p] \in Msgs
    BY DEF ChatInv, Pushing
  <1>5. ThreadTypes' /\ Moved(p, "idle", job[p])
    BY <1>3, GoMoves DEF ChatInv
  <1>6. /\ \A q \in Pushers : q # p => Pushing(q)'
        /\ \A k \in Importers : Importing(k)'
        /\ Draining' /\ Hooking'
    BY <1>1, <1>2, <1>3, <1>5, OthersKeep
  <1>7. Pushing(p)'
    BY <1>5 DEF Moved, Pushing
  <1>8. OutboxTypes' /\ HistoryTypes'
    <2>1. CASE UNCHANGED history /\ SetRow(job[p], "waiting", 0) /\ late' \in {late, late \cup {job[p]}}
      BY <1>4, <2>1, NumbersAssumption, Frames DEF ChatInv, OutboxTypes, SetRow
    <2>2. CASE DbError
      BY <2>2, NumbersAssumption DEF ChatInv, DbError, outbox, OutboxTypes, HistoryTypes
    <2> QED
      BY <2>1, <2>2
  <1>9. Earned' /\ DeadEarned'
    <2>1. \A m \in Msgs : attempts'[m] = attempts[m] \/ attempts'[m] = 0
      BY DEF ChatInv, OutboxTypes, SetRow, DbError, outbox
    <2>2. \A m \in Msgs : row'[m] = row[m] \/ row'[m] = "waiting"
      BY DEF ChatInv, OutboxTypes, SetRow, DbError, outbox
    <2>3. \A m \in Msgs : failures[m] \in Nat
      BY DEF ChatInv, HistoryTypes
    <2> QED
      BY <1>1, <1>2, <2>1, <2>2, <2>3 DEF ChatInv, Earned, Counted, DeadEarned
  <1> QED
    BY <1>1, <1>2, <1>5, <1>6, <1>7, <1>8, <1>9, Frames DEF ChatInv

LEMMA ElapseKeeps == ASSUME ChatInv, NEW m \in Msgs, Elapse(m) PROVE ChatInv'
  <1> USE DEF Elapse
  <1>1. /\ UNCHANGED <<service, config, work, threads, sent, arrivals, import, history>>
        /\ UNCHANGED <<attempts, inbox, hooks, traffic, cur, batch, left, dropped, failures, relayed>>
    BY DEF service, config, work, import, history
  <1>2. OutboxTypes' /\ DeadEarned'
    BY <1>1 DEF ChatInv, OutboxTypes, DeadEarned
  <1> QED
    BY <1>1, <1>2, AllKeep, Frames DEF ChatInv

LEMMA DrainKeeps == ASSUME ChatInv, Drain PROVE ChatInv'
  <1> USE DEF Drain
  <1>1. /\ UNCHANGED <<service, config, outbox, sent, arrivals, import, history>>
        /\ UNCHANGED <<inbox, hooks, row, attempts, traffic, cur, left, dropped, failures, relayed>>
    BY DEF service, config, outbox, import, history
  <1>2. Worker \in Threads /\ Worker # Hook /\ "pick" \in Labels
    BY Apart DEF Labels
  <1>3. ThreadTypes' /\ Moved(Worker, "pick", job[Worker])
    BY <1>2, GoMoves DEF ChatInv
  <1>4. /\ \A q \in Pushers : Pushing(q)'
        /\ \A k \in Importers : Importing(k)'
        /\ Hooking'
    BY <1>1, <1>2, <1>3, Apart, OthersKeep
  <1>5. Draining'
    BY <1>3 DEF Moved, Draining
  <1>6. ASSUME NEW b \in batch' PROVE b \in BatchRows /\ Counted(b)
    <2>1. PICK m \in Msgs : b = [msg |-> m, attempts |-> attempts[m], late |-> m \in late]
      BY DEF Due
    <2>2. attempts[m] \in 0 .. MaxAttempts /\ attempts[m] <= failures[m]
      BY DEF ChatInv, OutboxTypes, Earned
    <2>3. (m \in late) \in BOOLEAN
      OBVIOUS
    <2> QED
      BY <2>1, <2>2, <2>3 DEF BatchRows, Counted
  <1>7. WorkTypes' /\ Earned'
    BY <1>1, <1>6 DEF ChatInv, WorkTypes, Earned, Counted
  <1> QED
    BY <1>1, <1>3, <1>4, <1>5, <1>7, Frames DEF ChatInv

\* What the worker knows of the row it has read.
LEMMA RowRead ==
    ASSUME NEW b \in BatchRows
    PROVE  b.msg \in Msgs /\ b.attempts \in 0 .. MaxAttempts
  BY DEF BatchRows

\* A statement of the worker on the row b: the row becomes r, with n attempts, if it is
\* the same still.
RowBecomes(b, r, n) ==
    /\ row' = IF Same(b) THEN [row EXCEPT ![b.msg] = r] ELSE row
    /\ attempts' = IF Same(b) THEN [attempts EXCEPT ![b.msg] = n] ELSE attempts

LEMMA RowTypes ==
    ASSUME ChatInv, NEW b \in BatchRows, NEW r \in {"none", "waiting", "dead"},
           NEW n \in 0 .. MaxAttempts, RowBecomes(b, r, n)
    PROVE  /\ row' \in [Msgs -> {"none", "waiting", "due", "dead"}]
           /\ attempts' \in [Msgs -> 0 .. MaxAttempts]
           /\ \A m \in Msgs : \/ row'[m] = row[m] /\ attempts'[m] = attempts[m]
                              \/ m = b.msg /\ row'[m] = r /\ attempts'[m] = n
  BY RowRead DEF RowBecomes, ChatInv, OutboxTypes

LEMMA ProcessRowKeeps == ASSUME ChatInv, NEW b \in batch, ProcessRow(b) PROVE ChatInv'
  <1> USE DEF ProcessRow
  <1>1. /\ UNCHANGED <<service, config, sent, arrivals, import, failures, dropped, relayed>>
        /\ UNCHANGED <<inbox, hooks, traffic, left, late>>
    BY DEF service, config, import, outbox, Reschedule, DbError
  <1>2. /\ Worker \in Threads /\ Worker # Hook /\ "contact" \in Labels
        /\ b \in BatchRows /\ b.msg \in Msgs /\ b.attempts \in 0 .. MaxAttempts /\ Counted(b)
    BY Apart, RowRead DEF Labels, ChatInv, WorkTypes, Earned
  <1>3. batch' \subseteq batch
    OBVIOUS
  <1>4. CASE cur' = b /\ Begin(Worker, b.msg, "contact") /\ UNCHANGED <<outbox, faults>>
    <2>1. ThreadTypes' /\ Moved(Worker, "contact", b.msg)
      BY <1>2, <1>4, BeginMoves DEF ChatInv
    <2>2. /\ \A q \in Pushers : Pushing(q)'
          /\ \A k \in Importers : Importing(k)'
          /\ Hooking'
      BY <1>1, <1>2, <2>1, Apart, OthersKeep
    <2>3. Draining'
      BY <1>1, <1>2, <1>4, <2>1 DEF Moved, Draining, Counted
    <2>4. WorkTypes'
      BY <1>2, <1>3, <1>4 DEF ChatInv, WorkTypes
    <2>5. Earned'
      BY <1>1, <1>2, <1>3, <1>4 DEF ChatInv, Earned, Counted, outbox
    <2>6. UNCHANGED <<history, row>>
      BY <1>1, <1>4 DEF history, outbox
    <2> QED
      BY <1>1, <1>4, <2>1, <2>2, <2>3, <2>4, <2>5, <2>6, Frames DEF ChatInv
  <1>5. CASE Reschedule(b, b.attempts) /\ UNCHANGED <<cur, threads>>
    <2>1. \/ RowBecomes(b, "waiting", b.attempts) /\ UNCHANGED faults
          \/ UNCHANGED <<row, attempts>> /\ faults < MaxFaults /\ faults' = faults + 1
      BY <1>5 DEF Reschedule, RowBecomes, SetRow, DbError, outbox
    <2>2. /\ row' \in [Msgs -> {"none", "waiting", "due", "dead"}]
          /\ attempts' \in [Msgs -> 0 .. MaxAttempts]
          /\ \A m \in Msgs : \/ row'[m] = row[m] /\ attempts'[m] = attempts[m]
                             \/ m = b.msg /\ row'[m] = "waiting" /\ attempts'[m] = b.attempts
      BY <1>2, <2>1, RowTypes DEF ChatInv, OutboxTypes
    <2>3. OutboxTypes' /\ WorkTypes'
      BY <1>1, <1>3, <1>5, <2>2 DEF ChatInv, OutboxTypes, WorkTypes
    <2>4. HistoryTypes'
      BY <1>1, <2>1, NumbersAssumption DEF ChatInv, HistoryTypes
    <2>5. Earned'
      BY <1>1, <1>2, <1>3, <1>5, <2>2 DEF ChatInv, Earned, Counted
    <2>6. DeadEarned'
      BY <1>1, <2>2 DEF ChatInv, DeadEarned
    <2> QED
      BY <1>1, <1>5, <2>3, <2>4, <2>5, <2>6, AllKeep, Frames DEF ChatInv
  <1> QED
    BY <1>4, <1>5

LEMMA DrainedKeeps == ASSUME ChatInv, Drained PROVE ChatInv'
  <1> USE DEF Drained
  <1>1. /\ UNCHANGED <<service, config, outbox, sent, arrivals, import, history>>
        /\ UNCHANGED <<inbox, hooks, row, attempts, traffic, batch, left, dropped, failures, relayed>>
    BY DEF service, config, outbox, import, history
  <1>2. Worker \in Threads /\ Worker # Hook /\ "idle" \in Labels
    BY Apart DEF Labels
  <1>3. ThreadTypes' /\ Moved(Worker, "idle", job[Worker])
    BY <1>2, GoMoves DEF ChatInv
  <1>4. /\ \A q \in Pushers : Pushing(q)'
        /\ \A k \in Importers : Importing(k)'
        /\ Hooking'
    BY <1>1, <1>2, <1>3, Apart, OthersKeep
  <1>5. Draining'
    BY <1>3 DEF Moved, Draining
  <1>7. WorkTypes'
    BY <1>1 DEF ChatInv, WorkTypes
  <1> QED
    BY <1>1, <1>3, <1>4, <1>5, <1>7, Frames DEF ChatInv


LEMMA RetryKeeps == ASSUME ChatInv, Retry PROVE ChatInv'
  <1> USE DEF Retry
  <1>1. /\ UNCHANGED <<service, config, work, sent, arrivals, import, dropped, relayed>>
        /\ UNCHANGED <<inbox, hooks, traffic, cur, batch, left, late>>
    BY DEF service, config, work, import, outbox
  <1>2. /\ Worker \in Threads /\ Worker # Hook /\ "pick" \in Labels
        /\ cur \in BatchRows /\ cur.msg \in Msgs /\ cur.attempts \in 0 .. MaxAttempts
        /\ Counted(cur)
    BY Apart, RowRead DEF Labels, ChatInv, Draining
  <1>3. ThreadTypes' /\ Moved(Worker, "pick", job[Worker])
    BY <1>2, GoMoves DEF ChatInv
  <1>4. /\ \A q \in Pushers : Pushing(q)'
        /\ \A k \in Importers : Importing(k)'
        /\ Hooking'
    BY <1>1, <1>2, <1>3, Apart, OthersKeep
  <1>5. Draining'
    BY <1>3 DEF Moved, Draining
  <1>6. /\ failures' \in [Msgs -> Nat] /\ failures'[cur.msg] = failures[cur.msg] + 1
        /\ \A m \in Msgs : failures[m] \in Nat /\ failures[m] <= failures'[m]
    BY <1>2 DEF ChatInv, HistoryTypes
  <1>7. \/ LastAttempt /\ RowBecomes(cur, "dead", attempts[cur.msg]) /\ UNCHANGED faults
        \/ /\ ~LastAttempt /\ RowBecomes(cur, "waiting", cur.attempts + 1) /\ UNCHANGED faults
        \/ UNCHANGED <<row, attempts>> /\ faults < MaxFaults /\ faults' = faults + 1
    BY DEF RowBecomes, SetRow, outbox, ChatInv, OutboxTypes
  <1>8. HistoryTypes'
    BY <1>1, <1>6, <1>7, NumbersAssumption DEF ChatInv, HistoryTypes
  <1>9. \A b \in BatchRows : Counted(b) => Counted(b)'
    BY <1>6, RowRead DEF Counted
  <1>10. ASSUME LastAttempt, RowBecomes(cur, "dead", attempts[cur.msg])
         PROVE  OutboxTypes' /\ Earned' /\ DeadEarned'
    <2>1. attempts[cur.msg] \in 0 .. MaxAttempts
      BY <1>2 DEF ChatInv, OutboxTypes
    <2>2. /\ row' \in [Msgs -> {"none", "waiting", "due", "dead"}]
          /\ attempts' \in [Msgs -> 0 .. MaxAttempts]
          /\ \A m \in Msgs : \/ row'[m] = row[m] /\ attempts'[m] = attempts[m]
                             \/ m = cur.msg /\ attempts'[m] = attempts[m]
      BY <1>2, <1>10, <2>1, RowTypes
    <2>3. failures'[cur.msg] >= MaxAttempts
      BY <1>2, <1>6, <1>10, NumbersAssumption DEF LastAttempt, Counted
    <2>4. DeadEarned'
      BY <1>6, <2>2, <2>3, NumbersAssumption DEF ChatInv, DeadEarned
    <2>5. Earned'
      <3>1. \A m \in Msgs : attempts'[m] <= failures'[m]
        BY <1>6, <2>2 DEF ChatInv, Earned, OutboxTypes
      <3> QED
        BY <1>1, <1>9, <3>1 DEF ChatInv, Earned, WorkTypes
    <2> QED
      BY <1>1, <2>2, <2>4, <2>5 DEF ChatInv, OutboxTypes
  <1>11. ASSUME ~LastAttempt, RowBecomes(cur, "waiting", cur.attempts + 1)
         PROVE  OutboxTypes' /\ Earned' /\ DeadEarned'
    <2>1. cur.attempts + 1 \in 0 .. MaxAttempts
      BY <1>2, <1>11, NumbersAssumption DEF LastAttempt
    <2>2. /\ row' \in [Msgs -> {"none", "waiting", "due", "dead"}]
          /\ attempts' \in [Msgs -> 0 .. MaxAttempts]
          /\ \A m \in Msgs :
                \/ row'[m] = row[m] /\ attempts'[m] = attempts[m]
                \/ m = cur.msg /\ row'[m] = "waiting" /\ attempts'[m] = cur.attempts + 1
      BY <1>2, <1>11, <2>1, RowTypes
    <2>3. cur.attempts + 1 <= failures'[cur.msg]
      BY <1>2, <1>6 DEF Counted
    <2>4. DeadEarned'
      BY <1>6, <2>2, NumbersAssumption DEF ChatInv, DeadEarned
    <2>5. Earned'
      <3>1. \A m \in Msgs : attempts'[m] <= failures'[m]
        BY <1>6, <2>2, <2>3 DEF ChatInv, Earned, OutboxTypes
      <3> QED
        BY <1>1, <1>9, <3>1 DEF ChatInv, Earned, WorkTypes
    <2> QED
      BY <1>1, <2>2, <2>4, <2>5 DEF ChatInv, OutboxTypes
  <1>12. ASSUME UNCHANGED <<row, attempts>> PROVE OutboxTypes' /\ Earned' /\ DeadEarned'
    <2>1. Earned'
      <3>1. \A m \in Msgs : attempts'[m] <= failures'[m]
        BY <1>6, <1>12 DEF ChatInv, Earned, OutboxTypes
      <3> QED
        BY <1>1, <1>9, <3>1 DEF ChatInv, Earned, WorkTypes
    <2>2. DeadEarned'
      BY <1>6, <1>12, NumbersAssumption DEF ChatInv, DeadEarned
    <2> QED
      BY <1>1, <1>12, <2>1, <2>2 DEF ChatInv, OutboxTypes
  <1> QED
    BY <1>1, <1>3, <1>4, <1>5, <1>7, <1>8, <1>10, <1>11, <1>12, Frames DEF ChatInv

LEMMA DeleteRowKeeps == ASSUME ChatInv, DeleteRow PROVE ChatInv'
  <1> USE DEF DeleteRow
  <1>1. /\ UNCHANGED <<service, config, work, sent, arrivals, import>>
        /\ UNCHANGED <<inbox, hooks, traffic, cur, batch, left, failures, dropped, relayed>>
    BY DEF service, config, work, import, history, DbError
  <1>2. /\ Worker \in Threads /\ Worker # Hook /\ "pick" \in Labels
        /\ cur \in BatchRows /\ cur.msg \in Msgs /\ 0 \in 0 .. MaxAttempts
    BY Apart, RowRead, NumbersAssumption DEF Labels, ChatInv, Draining
  <1>3. ThreadTypes' /\ Moved(Worker, "pick", job[Worker])
    BY <1>2, GoMoves DEF ChatInv
  <1>4. /\ \A q \in Pushers : Pushing(q)'
        /\ \A k \in Importers : Importing(k)'
        /\ Hooking'
    BY <1>1, <1>2, <1>3, Apart, OthersKeep
  <1>5. Draining'
    BY <1>3 DEF Moved, Draining
  <1>6. /\ late' \subseteq late
        /\ \/ RowBecomes(cur, "none", 0) /\ UNCHANGED faults
           \/ UNCHANGED <<row, attempts>> /\ faults < MaxFaults /\ faults' = faults + 1
    BY DEF RowBecomes, SetRow, outbox, DbError, history
  <1>7. /\ row' \in [Msgs -> {"none", "waiting", "due", "dead"}]
        /\ attempts' \in [Msgs -> 0 .. MaxAttempts]
        /\ \A m \in Msgs : \/ row'[m] = row[m] /\ attempts'[m] = attempts[m]
                           \/ m = cur.msg /\ row'[m] = "none" /\ attempts'[m] = 0
    BY <1>2, <1>6, RowTypes DEF ChatInv, OutboxTypes
  <1>8. OutboxTypes' /\ HistoryTypes'
    BY <1>1, <1>6, <1>7, NumbersAssumption DEF ChatInv, OutboxTypes, HistoryTypes
  <1>9. Earned' /\ DeadEarned'
    <2>1. \A m \in Msgs : failures[m] \in Nat
      BY DEF ChatInv, HistoryTypes
    <2> QED
      BY <1>1, <1>7, <2>1 DEF ChatInv, Earned, DeadEarned, Counted
  <1> QED
    BY <1>1, <1>3, <1>4, <1>5, <1>8, <1>9, Frames DEF ChatInv

-----------------------------------------------------------------------------
(* The import *)

LEMMA ImportHistorySyncKeeps ==
    ASSUME ChatInv, NEW k \in Importers, ImportHistorySync(k) PROVE ChatInv'
  <1> USE DEF ImportHistorySync
  <1>1. /\ UNCHANGED <<service, config, outbox, work, sent, arrivals, import, history>>
        /\ UNCHANGED <<inbox, hooks, row, attempts, traffic, cur, batch, left, dropped, failures, relayed>>
    BY DEF service, config, outbox, work, import, history
  <1>2. k \in Threads /\ k # Hook /\ k # Worker /\ k \notin Pushers /\ "lock" \in Labels
    BY Apart DEF Labels
  <1>3. ThreadTypes' /\ Moved(k, "lock", job[k])
    BY <1>2, GoMoves DEF ChatInv
  <1>4. /\ \A q \in Pushers : Pushing(q)'
        /\ \A j \in Importers : j # k => Importing(j)'
        /\ Draining' /\ Hooking'
    BY <1>1, <1>2, <1>3, OthersKeep
  <1>5. Importing(k)'
    BY <1>1, <1>3 DEF Moved, Importing, Importable, kind
  <1> QED
    BY <1>1, <1>3, <1>4, <1>5, Frames DEF ChatInv

LEMMA ImportLockKeeps == ASSUME ChatInv, NEW k \in Importers, ImportLock(k) PROVE ChatInv'
  <1> USE DEF ImportLock
  <1>1. /\ UNCHANGED <<service, config, outbox, work, sent, arrivals, history>>
        /\ UNCHANGED <<inbox, hooks, row, attempts, traffic, cur, batch, left, dropped, failures, relayed>>
    BY DEF service, config, outbox, work, history
  <1>2. k \in Threads /\ k # Hook /\ k # Worker /\ k \notin Pushers /\ "contact" \in Labels
    BY Apart DEF Labels
  <1>3. PICK m \in left[k] : Begin(k, m, "contact")
    OBVIOUS
  <1>4. m \in Msgs
    BY DEF ChatInv, ImportTypes
  <1>5. ThreadTypes' /\ Moved(k, "contact", m)
    BY <1>2, <1>3, <1>4, BeginMoves DEF ChatInv
  <1>6. /\ \A q \in Pushers : Pushing(q)'
        /\ \A j \in Importers : j # k => Importing(j)'
        /\ Draining' /\ Hooking'
    BY <1>1, <1>2, <1>5, OthersKeep
  <1>7. Importing(k)'
    BY <1>1, <1>4, <1>5 DEF ChatInv, Moved, Importing, Importable, kind
  <1>8. ImportTypes'
    BY <1>1 DEF ChatInv, ImportTypes
  <1> QED
    BY <1>1, <1>5, <1>6, <1>7, <1>8, Frames DEF ChatInv

LEMMA ImportNextKeeps == ASSUME ChatInv, NEW k \in Importers, ImportNext(k) PROVE ChatInv'
  <1> USE DEF ImportNext
  <1>1. /\ UNCHANGED <<service, config, outbox, work, sent, arrivals, history>>
        /\ UNCHANGED <<inbox, hooks, row, attempts, traffic, cur, batch, dropped, failures, relayed>>
    BY DEF service, config, outbox, work, history
  <1>2. /\ k \in Threads /\ k # Hook /\ k # Worker /\ k \notin Pushers
        /\ "idle" \in Labels /\ "post" \in Labels
    BY Apart DEF Labels
  <1>3. left \in [Importers -> SUBSET Msgs] /\ imported \subseteq Msgs
    BY DEF ChatInv, ImportTypes
  <1>4. CASE left[k] \subseteq imported
    <2>1. /\ left' = [left EXCEPT ![k] = {}] /\ importLock' = NoImporter
          /\ UNCHANGED imported /\ Go(k, "idle")
      BY <1>4
    <2>2. ThreadTypes' /\ Moved(k, "idle", job[k])
      BY <1>2, <2>1, GoMoves DEF ChatInv
    <2>3. \A j \in Importers : j # k => left'[j] \subseteq left[j]
      BY <1>3, <2>1
    <2>4. /\ \A q \in Pushers : Pushing(q)'
          /\ \A j \in Importers : j # k => Importing(j)'
          /\ Draining' /\ Hooking'
      BY <1>1, <1>2, <2>2, <2>3, OthersKeep
    <2>5. Importing(k)'
      BY <2>2 DEF Moved, Importing
    <2>6. ImportTypes'
      BY <1>3, <2>1 DEF ImportTypes
    <2> QED
      BY <1>1, <2>2, <2>4, <2>5, <2>6, Frames DEF ChatInv
  <1>5. CASE ~(left[k] \subseteq imported)
    <2>1. PICK m \in left[k] \ imported :
              /\ left' = [left EXCEPT ![k] = @ \ {m}] /\ imported' = imported \cup {m}
              /\ UNCHANGED importLock /\ Begin(k, m, "post")
      BY <1>5
    <2>2. m \in Msgs
      BY <1>3
    <2>3. ThreadTypes' /\ Moved(k, "post", m)
      BY <1>2, <2>1, <2>2, BeginMoves DEF ChatInv
    <2>4. \A j \in Importers : left'[j] \subseteq left[j]
      BY <1>3, <2>1
    <2>5. /\ \A q \in Pushers : Pushing(q)'
          /\ \A j \in Importers : j # k => Importing(j)'
          /\ Draining' /\ Hooking'
      BY <1>1, <1>2, <2>3, <2>4, OthersKeep
    <2>6. Importing(k)'
      BY <1>1, <2>2, <2>3, <2>4 DEF ChatInv, Moved, Importing, Importable, kind
    <2>7. ImportTypes'
      BY <1>3, <2>1, <2>2 DEF ChatInv, ImportTypes
    <2> QED
      BY <1>1, <2>3, <2>5, <2>6, <2>7, Frames DEF ChatInv
  <1> QED
    BY <1>4, <1>5


-----------------------------------------------------------------------------
(* From Chatwoot to WhatsApp *)

LEMMA AgentWritesKeeps == ASSUME ChatInv, NEW m \in Msgs, AgentWrites(m) PROVE ChatInv'
  <1> USE DEF AgentWrites
  <1>1. /\ UNCHANGED <<config, outbox, work, threads, sent, arrivals, import, history>>
        /\ UNCHANGED <<inbox, up, open, row, attempts, traffic, cur, batch, left, dropped,
                       failures, relayed>>
    BY DEF config, outbox, work, import, history
  <1>2. Written(m) \in Posts
    BY DEF Written, Posts, Dirs
  <1>3. ServiceTypes'
    BY <1>1, <1>2 DEF ChatInv, ServiceTypes
  <1>4. EchoesRefused'
    <2>1. FromAgent(Written(m))
      BY DEF FromAgent, Written
    <2> QED
      BY <1>1, <2>1 DEF ChatInv, EchoesRefused, FromAgent, ShouldRelayWebhook, Written, kind
  <1> QED
    BY <1>1, <1>3, <1>4, AllKeep, Frames DEF ChatInv

LEMMA WebhookKeeps == ASSUME ChatInv, NEW p \in hooks, Webhook(p) PROVE ChatInv'
  <1> USE DEF Webhook
  <1>1. /\ UNCHANGED <<config, outbox, work, sent, arrivals, import>>
        /\ UNCHANGED <<inbox, up, open, row, attempts, traffic, cur, batch, left, faults,
                       dropped, failures>>
        /\ hooks' \subseteq hooks
    BY DEF config, outbox, work, import
  <1>2. p \in Posts /\ p.msg \in Msgs
    BY DEF ChatInv, ServiceTypes, Posts
  <1>3. Hook \in Threads /\ Hook # Worker /\ Hook \notin Deliverers /\ "send" \in Labels
    BY Apart DEF Labels
  <1>4. ServiceTypes'
    BY <1>1 DEF ChatInv, ServiceTypes
  <1>5. CASE ShouldRelayWebhook(p) /\ Begin(Hook, p.msg, "send") /\ relayed' = relayed \cup {p}
    <2>1. ThreadTypes' /\ Moved(Hook, "send", p.msg)
      BY <1>2, <1>3, <1>5, BeginMoves DEF ChatInv
    <2>2. /\ \A q \in Pushers : Pushing(q)'
          /\ \A k \in Importers : Importing(k)'
          /\ Draining'
      BY <1>1, <1>3, <2>1, Apart, OthersKeep
    <2>3. Hooking'
      BY <1>2, <2>1 DEF Moved, Hooking
    <2>4. HistoryTypes'
      BY <1>1, <1>2, <1>5 DEF ChatInv, HistoryTypes
    <2>5. OnlyAgentsRelayed'
      <3>1. FromAgent(p)
        BY <1>5 DEF ChatInv, EchoesRefused
      <3> QED
        BY <1>1, <1>5, <3>1 DEF ChatInv, OnlyAgentsRelayed, FromAgent, Written, kind
    <2> QED
      BY <1>1, <1>4, <2>1, <2>2, <2>3, <2>4, <2>5, Frames DEF ChatInv
  <1>6. CASE UNCHANGED <<threads, relayed>>
    <2>1. UNCHANGED history
      BY <1>1, <1>6 DEF history
    <2> QED
      BY <1>1, <1>4, <1>6, <2>1, AllKeep, Frames DEF ChatInv
  <1> QED
    BY <1>5, <1>6

\* The three steps of the handler that has relayed a message.
LEMMA HookKeeps == ASSUME ChatInv, Send \/ Mark \/ Tag PROVE ChatInv'
  <1> USE DEF Send, Mark, Tag
  <1>1. /\ UNCHANGED <<service, config, outbox, work, arrivals, import, history>>
        /\ UNCHANGED <<inbox, hooks, row, attempts, traffic, cur, batch, left, dropped,
                       failures, relayed>>
    BY DEF service, config, outbox, work, import, history
  <1>2. /\ Hook \in Threads /\ Hook # Worker /\ Hook \notin Deliverers
        /\ {"idle", "mark", "tag"} \subseteq Labels
    BY Apart DEF Labels
  <1>3. PICK l \in {"idle", "mark", "tag"} : pc[Hook] # "idle" /\ Go(Hook, l)
    OBVIOUS
  <1>4. ThreadTypes' /\ Moved(Hook, l, job[Hook])
    BY <1>2, <1>3, GoMoves DEF ChatInv
  <1>5. /\ \A q \in Pushers : Pushing(q)'
        /\ \A k \in Importers : Importing(k)'
        /\ Draining'
    BY <1>1, <1>2, <1>4, Apart, OthersKeep
  <1>6. Hooking'
    BY <1>3, <1>4 DEF ChatInv, Moved, Hooking
  <1>7. EventTypes'
    BY <1>1 DEF ChatInv, EventTypes, MarkSelfSent
  <1> QED
    BY <1>1, <1>4, <1>5, <1>6, <1>7, Frames DEF ChatInv

LEMMA ApiKeeps ==
    ASSUME ChatInv, NEW m \in Msgs, ApiSends(m) \/ RecordOutgoing(m) PROVE ChatInv'
  <1> USE DEF ApiSends, RecordOutgoing
  <1>1. /\ UNCHANGED <<service, config, outbox, work, threads, arrivals, import, history>>
        /\ UNCHANGED <<inbox, hooks, row, attempts, traffic, cur, batch, left, dropped,
                       failures, relayed>>
    BY DEF service, config, outbox, work, import, history
  <1>2. EventTypes'
    BY <1>1 DEF ChatInv, EventTypes, MarkSelfSent
  <1> QED
    BY <1>1, <1>2, AllKeep, Frames DEF ChatInv

-----------------------------------------------------------------------------
(* Configuration, removal and faults *)

LEMMA SetChatwootKeeps ==
    ASSUME ChatInv, NEW c \in Configs \cup {{}}, SetChatwoot(c) PROVE ChatInv'
  <1> USE DEF SetChatwoot
  <1>1. /\ UNCHANGED <<service, outbox, work, threads, sent, arrivals, import>>
        /\ UNCHANGED <<inbox, hooks, row, attempts, traffic, session, cur, batch, left, dropped,
                       failures, relayed>>
    BY DEF service, outbox, work, import
  <1>2. c \subseteq Flags
    BY DataAssumption
  <1>3. ConfigTypes' /\ HistoryTypes'
    BY <1>1, <1>2, NumbersAssumption DEF ChatInv, ConfigTypes, HistoryTypes
  <1> QED
    BY <1>1, <1>3, AllKeep, Frames DEF ChatInv

LEMMA RemovalKeeps == ASSUME ChatInv, Delete \/ Purge PROVE ChatInv'
  <1> USE DEF Delete, Purge
  <1>1. /\ UNCHANGED <<service, work, threads, sent, arrivals, import, history>>
        /\ UNCHANGED <<inbox, hooks, traffic, cfg, stored, cur, batch, left, dropped, failures, relayed>>
    BY DEF service, work, import, history
  <1>2. ConfigTypes'
    BY <1>1 DEF ChatInv, ConfigTypes
  <1>3. CASE UNCHANGED outbox
    <2>1. UNCHANGED <<row, attempts>>
      BY <1>3 DEF outbox
    <2> QED
      BY <1>1, <1>2, <1>3, <2>1, AllKeep, Frames DEF ChatInv
  <1>4. CASE /\ row' = [m \in Msgs |-> "none"] /\ attempts' = [m \in Msgs |-> 0]
             /\ late' = {}
    <2>1. OutboxTypes'
      BY <1>4, NumbersAssumption DEF OutboxTypes
    <2>2. Earned' /\ DeadEarned'
      BY <1>1, <1>4 DEF ChatInv, HistoryTypes, Earned, Counted, DeadEarned
    <2> QED
      BY <1>1, <1>2, <2>1, <2>2, AllKeep, Frames DEF ChatInv
  <1> QED
    BY <1>3, <1>4

LEMMA CrashKeeps == ASSUME ChatInv, Crash PROVE ChatInv'
  <1> USE DEF Crash
  <1>1. /\ UNCHANGED <<service, outbox, arrivals>>
        /\ UNCHANGED <<inbox, hooks, row, attempts, traffic, dropped, failures, relayed>>
    BY DEF service, outbox
  <1>2. \A t \in Threads : pc'[t] = "idle"
    OBVIOUS
  <1>3. ThreadTypes' /\ WorkTypes'
    BY DEF ThreadTypes, WorkTypes
  <1>4. /\ \A q \in Pushers : Pushing(q)'
        /\ \A k \in Importers : Importing(k)'
        /\ Draining' /\ Hooking'
    BY <1>2, Apart DEF Pushing, Importing, Draining, Hooking
  <1>5. ConfigTypes' /\ ImportTypes' /\ HistoryTypes'
    BY <1>1, NumbersAssumption DEF ChatInv, ConfigTypes, ImportTypes, HistoryTypes
  <1>6. EventTypes'
    BY <1>1 DEF ChatInv, EventTypes
  <1>7. Earned'
    BY <1>1 DEF ChatInv, Earned
  <1> QED
    BY <1>1, <1>3, <1>4, <1>5, <1>6, <1>7, Frames DEF ChatInv

LEMMA ServiceKeeps ==
    ASSUME ChatInv, Toggle \/ \E c \in Chats : Resolve(c) PROVE ChatInv'
  <1> USE DEF Toggle, Resolve
  <1>1. /\ UNCHANGED <<config, outbox, work, threads, sent, arrivals, import, history>>
        /\ UNCHANGED <<inbox, hooks, row, attempts, traffic, cur, batch, left, dropped,
                       failures, relayed>>
    BY DEF config, outbox, work, import, history
  <1>2. up' \in BOOLEAN
    BY DEF ChatInv, ServiceTypes
  <1>3. open' \in [Chats -> 0 .. MaxOpen]
    <2>1. open \in [Chats -> 0 .. MaxOpen]
      BY DEF ChatInv, ServiceTypes
    <2>2. ASSUME NEW c \in Chats, Resolve(c) PROVE open' \in [Chats -> 0 .. MaxOpen]
      <3>1. open[c] - 1 \in 0 .. MaxOpen
        BY <2>1, <2>2, NumbersAssumption
      <3> QED
        BY <2>1, <2>2, <3>1
    <2> QED
      BY <2>1, <2>2
  <1>4. ServiceTypes'
    BY <1>1, <1>2, <1>3 DEF ChatInv, ServiceTypes
  <1> QED
    BY <1>1, <1>4, AllKeep, Frames DEF ChatInv

-----------------------------------------------------------------------------
(* The invariant *)

LEMMA ChatInvInit == Init => ChatInv
  <1> SUFFICES ASSUME Init PROVE ChatInv
    OBVIOUS
  <1> USE DEF Init
  <1>1. ServiceTypes /\ OutboxTypes /\ WorkTypes /\ ThreadTypes
    BY NumbersAssumption DEF ServiceTypes, OutboxTypes, WorkTypes, ThreadTypes
  <1>2. ConfigTypes
    BY DataAssumption DEF ConfigTypes
  <1>3. EventTypes /\ HistoryTypes
    BY NumbersAssumption DEF EventTypes, HistoryTypes
  <1>4. ImportTypes
    <2>1. traffic.chunk \in [Importers -> SUBSET Msgs]
      BY DataAssumption
    <2> QED
      BY <2>1 DEF ImportTypes
  <1>5. /\ \A q \in Pushers : Pushing(q)
        /\ \A k \in Importers : Importing(k)
        /\ Draining /\ Hooking
    BY Apart DEF Pushing, Importing, Draining, Hooking
  <1>6. Earned /\ DeadEarned /\ EchoesRefused /\ OnlyAgentsRelayed
    BY DEF Earned, DeadEarned, EchoesRefused, OnlyAgentsRelayed
  <1> QED
    BY <1>1, <1>2, <1>3, <1>4, <1>5, <1>6 DEF ChatInv

LEMMA ChatInvStep == ChatInv /\ [Next]_vars => ChatInv'
  <1> SUFFICES ASSUME ChatInv, [Next]_vars PROVE ChatInv'
    OBVIOUS
  <1>1. ASSUME NEW t \in Deliverers, Deliver(t) PROVE ChatInv'
    BY <1>1, EnsureContactKeeps, FindConversationKeeps, OpenConversationKeeps, PostKeeps
       DEF Deliver
  <1>2. ASSUME NEW p \in Pushers, Deliver(p) \/ Enqueue(p) PROVE ChatInv'
    BY <1>1, <1>2, Apart, EnqueueKeeps
  <1>3. ASSUME WorkerStep PROVE ChatInv'
    BY <1>1, <1>3, Apart, DrainKeeps, ProcessRowKeeps, DrainedKeeps, RetryKeeps, DeleteRowKeeps
       DEF WorkerStep
  <1>4. ASSUME NEW k \in Importers, ImportHistorySync(k) \/ ImportStep(k) PROVE ChatInv'
    BY <1>1, <1>4, Apart, ImportHistorySyncKeeps, ImportLockKeeps, ImportNextKeeps
       DEF ImportStep
  <1>5. ASSUME UNCHANGED vars PROVE ChatInv'
    <2>1. UNCHANGED <<service, config, outbox, work, threads, sent, arrivals, import, history>>
      BY <1>5 DEF vars
    <2>2. UNCHANGED <<inbox, hooks, row, attempts, traffic, cur, batch, left, dropped,
                      failures, relayed>>
      BY <2>1 DEF service, config, outbox, work, import, history
    <2> QED
      BY <2>1, <2>2, AllKeep, Frames DEF ChatInv
  <1>6. CASE Next
    BY <1>2, <1>3, <1>4, <1>6, ArriveKeeps, ElapseKeeps, AgentWritesKeeps, ApiKeeps,
       WebhookKeeps, HookKeeps, SetChatwootKeeps, RemovalKeeps, CrashKeeps, ServiceKeeps
       DEF Next
  <1> QED
    BY <1>5, <1>6

THEOREM ChatInvariant == Spec => []ChatInv
  BY ChatInvInit, ChatInvStep, PTL DEF Spec

\* The state of the bridge is well formed, whatever traffic, faults and removals come.
THEOREM ChatwootTypes == Spec => []TypeOK
  <1>1. ChatInv => TypeOK
    BY TypesSplit DEF ChatInv
  <1> QED
    BY <1>1, ChatInvariant, PTL

\* A row is given up for dead only after MaxAttempts deliveries that failed
\* (processOutboxRow, rescheduleOutbox, killOutbox), with any number of rows, of purges
\* and of rows inserted again while the worker holds an old copy.
THEOREM DeadIsEarned == Spec => []DeadEarned
  <1>1. ChatInv => DeadEarned
    BY DEF ChatInv
  <1> QED
    BY <1>1, ChatInvariant, PTL

\* Nothing that the server itself has posted is sent to WhatsApp again (shouldRelayWebhook),
\* whatever the configuration, and however late its webhook comes.
THEOREM AgentsOnly == Spec => []OnlyAgentsRelayed
  <1>1. ChatInv => OnlyAgentsRelayed
    BY DEF ChatInv
  <1> QED
    BY <1>1, ChatInvariant, PTL


-----------------------------------------------------------------------------
(* The promise of Delivery *)

LEMMA SameStatus ==
    ASSUME NEW m \in Msgs, Settled(m)' <=> Settled(m), row'[m] = "dead" <=> row[m] = "dead",
           row'[m] = "none" <=> row[m] = "none", InFlight(m)' <=> InFlight(m)
    PROVE  Status(m)' = Status(m)
  BY DEF Status, Settled

\* What a step of the bridge may do to the status of one message ...
Promised(m) ==
    \/ Status(m)' = Status(m)
    \/ Status(m) = "none" /\ Status(m)' = "trying"
    \/ Status(m)' = "done"
    \/ Status(m) \in {"trying", "dead"} /\ Status(m)' = "kept"
    \/ Status(m) = "kept" /\ Status(m)' = "dead"

\* ... is a step of Delivery, or none.
LEMMA OneBecomes ==
    ASSUME NEW m \in Msgs, Promised(m), UNCHANGED <<faults, session>>,
           \A n \in Msgs : n # m => Status(n)' = Status(n)
    PROVE  [D!Next]_(D!vars)
  <1> DEFINE status == [n \in Msgs |-> Status(n)]
  <1>1. status' = [status EXCEPT ![m] = Status(m)']
    OBVIOUS
  <1>2. status[m] = Status(m) /\ UNCHANGED <<faults, session>>
    OBVIOUS
  <1>3. CASE Status(m)' = Status(m)
    <2>1. status' = status
      BY <1>1, <1>3
    <2> QED
      BY <1>2, <2>1 DEF D!vars
  <1>4. CASE Status(m) = "none" /\ Status(m)' = "trying"
    BY <1>1, <1>2, <1>4 DEF D!Next, D!Try, D!Become
  <1>5. CASE Status(m) # "done" /\ Status(m)' = "done"
    BY <1>1, <1>2, <1>5 DEF D!Next, D!Finish, D!Become
  <1>6. CASE Status(m) \in {"trying", "dead"} /\ Status(m)' = "kept"
    BY <1>1, <1>2, <1>6 DEF D!Next, D!Keep, D!Become
  <1>7. CASE Status(m) = "kept" /\ Status(m)' = "dead"
    BY <1>1, <1>2, <1>7 DEF D!Next, D!GiveUp, D!Become
  <1> QED
    BY <1>3, <1>4, <1>5, <1>6, <1>7 DEF Promised

\* A step that changes no status.
LEMMA NoneBecomes ==
    ASSUME UNCHANGED faults, session' = "purged" <=> session = "purged",
           \A n \in Msgs : Status(n)' = Status(n)
    PROVE  UNCHANGED D!vars
  <1>1. [n \in Msgs |-> Status(n)]' = [n \in Msgs |-> Status(n)]
    OBVIOUS
  <1>2. (session = "purged")' = (session = "purged")
    OBVIOUS
  <1> QED
    BY <1>1, <1>2 DEF D!vars

\* A fault loses tries and nothing else.
LEMMA FaultLoses ==
    ASSUME faults' = faults + 1, UNCHANGED session,
           \A n \in Msgs : \/ Status(n)' = Status(n)
                           \/ Status(n) = "trying" /\ Status(n)' = "none"
    PROVE  D!Fault
  <1> DEFINE status == [n \in Msgs |-> Status(n)]
             lost == {n \in Msgs : Status(n)' # Status(n)}
  <1>1. lost \in SUBSET {n \in Msgs : status[n] = "trying"}
    OBVIOUS
  <1>2. status' = [n \in Msgs |-> IF n \in lost THEN "none" ELSE status[n]]
    OBVIOUS
  <1> HIDE DEF lost
  <1>3. (session = "purged")' = (session = "purged")
    OBVIOUS
  <1> QED
    BY <1>1, <1>2, <1>3 DEF D!Fault

\* What is in flight, when one goroutine moves.
LEMMA FlightsElsewhere ==
    ASSUME NEW t \in Threads, NEW l, NEW m, Moved(t, l, m), UNCHANGED traffic, t \notin Pushers
    PROVE  \A n \in Msgs : InFlight(n)' <=> InFlight(n)
  <1>1. \A p \in Pushers : pc'[p] = pc[p] /\ job'[p] = job[p]
    BY Apart DEF Moved, Threads, Deliverers
  <1> QED
    BY <1>1 DEF InFlight, kind

LEMMA FlightsOfPusher ==
    ASSUME NEW t \in Pushers, NEW l, NEW m, Moved(t, l, m), UNCHANGED traffic
    PROVE  \A n \in Msgs :
              /\ n # job[t] /\ n # m => (InFlight(n)' <=> InFlight(n))
              /\ kind[n] \in Notices => (InFlight(n)' <=> InFlight(n))
              /\ pc[t] # "idle" /\ l # "idle" /\ m = job[t] => (InFlight(n)' <=> InFlight(n))
              /\ pc[t] = "idle" /\ n # m => (InFlight(n)' <=> InFlight(n))
              /\ InFlight(n) => InFlight(n)' \/ n = job[t]
              /\ l # "idle" /\ n = m /\ kind[n] \notin Notices => InFlight(n)'
  <1>1. /\ pc'[t] = l /\ job'[t] = m /\ kind' = kind
        /\ \A p \in Pushers : p # t => pc'[p] = pc[p] /\ job'[p] = job[p]
    BY DEF Moved, Threads, Deliverers, kind
  <1> QED
    BY <1>1 DEF InFlight

LEMMA FlightsStay ==
    ASSUME UNCHANGED <<traffic, threads>>
    PROVE  \A n \in Msgs : InFlight(n)' <=> InFlight(n)
  BY DEF InFlight, threads, kind


LEMMA DeliverPromises ==
    ASSUME ChatInv, NEW t \in Deliverers, Deliver(t) PROVE [D!Next]_(D!vars)
  <1>1. /\ UNCHANGED <<traffic, session, row, attempts, faults>>
        /\ pc[t] \in {"contact", "conv", "open", "post"}
    BY DEF Deliver, EnsureContact, FindConversation, OpenConversation, Post, Requesting, config,
           outbox, history
  <1>2. t \in Threads /\ job[t] \in Msgs /\ pc[t] # "idle"
    BY <1>1, Afterwards
  <1>3. ASSUME NEW l \in Labels, Go(t, l), \A n \in Msgs : Settled(n)' <=> Settled(n),
               l = "idle" /\ t \in Pushers => kind[job[t]] \in Notices
        PROVE  [D!Next]_(D!vars)
    <2>1. Moved(t, l, job[t])
      BY <1>2, <1>3, GoMoves DEF ChatInv
    <2>2. \A n \in Msgs : InFlight(n)' <=> InFlight(n)
      BY <1>1, <1>2, <1>3, <2>1, FlightsElsewhere, FlightsOfPusher
    <2>3. \A n \in Msgs : Status(n)' = Status(n)
      BY <1>1, <1>3, <2>2, SameStatus
    <2> QED
      BY <1>1, <2>3, NoneBecomes
  <1>4. ASSUME NEW l \in Labels, Go(t, l), \A n \in Msgs : Settled(n)' <=> Settled(n) \/ n = job[t]
        PROVE  [D!Next]_(D!vars)
    <2>1. Moved(t, l, job[t])
      BY <1>2, <1>4, GoMoves DEF ChatInv
    <2>2. \A n \in Msgs : n # job[t] => (InFlight(n)' <=> InFlight(n))
      BY <1>1, <1>2, <2>1, FlightsElsewhere, FlightsOfPusher
    <2>3. \A n \in Msgs : n # job[t] => Status(n)' = Status(n)
      BY <1>1, <1>4, <2>2, SameStatus
    <2>4. PICK m \in Msgs : m = job[t]
      BY <1>2
    <2>5. Status(m)' = "done"
      BY <1>4, <2>4 DEF Status, Settled
    <2>6. Promised(m)
      BY <2>5 DEF Promised
    <2> QED
      BY <1>1, <2>3, <2>4, <2>6, OneBecomes
  <1>5. ASSUME EnsureContact(t) \/ FindConversation(t) \/ OpenConversation(t)
        PROVE  [D!Next]_(D!vars)
    <2>1. \A n \in Msgs : Settled(n)' <=> Settled(n)
      BY <1>5 DEF EnsureContact, FindConversation, OpenConversation, Requesting, history,
                  Settled, Delivered
    <2>2. PICK l \in {"conv", "open", AfterConversation(t), AfterError(t)} : Go(t, l)
      BY <1>5 DEF EnsureContact, FindConversation, OpenConversation, Abandon
    <2>3. l \in Labels /\ (l = "idle" /\ t \in Pushers => kind[job[t]] \in Notices)
      BY <1>1, <2>2, Afterwards DEF Labels
    <2> QED
      BY <1>3, <2>1, <2>2, <2>3
  <1>6. ASSUME Post(t) PROVE [D!Next]_(D!vars)
    <2> USE DEF Post
    <2>1. AfterDone(t) \in Labels /\ AfterError(t) \in Labels
      BY <1>1, Afterwards
    <2>2. CASE Take(t) /\ UNCHANGED dropped
      <3>1. PICK l \in {AfterDone(t), AfterError(t)} : Go(t, l)
        BY <1>6
      <3>2. \A n \in Msgs : Settled(n)' <=> Settled(n) \/ n = job[t]
        BY <1>6, <2>2, TakeSettles DEF Settled
      <3> QED
        BY <1>4, <2>1, <3>1, <3>2
    <2>3. CASE UNCHANGED <<inbox, dropped>> /\ Go(t, AfterError(t))
      <3>1. \A n \in Msgs : Settled(n)' <=> Settled(n)
        BY <2>3 DEF Settled, Delivered
      <3>2. AfterError(t) = "idle" /\ t \in Pushers => kind[job[t]] \in Notices
        BY <1>1, Afterwards
      <3> QED
        BY <1>3, <2>1, <2>3, <3>1, <3>2
    <2>4. CASE UNCHANGED inbox /\ dropped' = dropped \cup {job[t]} /\ Go(t, AfterDone(t))
      <3>1. \A n \in Msgs : Settled(n)' <=> Settled(n) \/ n = job[t]
        BY <2>4 DEF Settled, Delivered
      <3> QED
        BY <1>4, <2>1, <2>4, <3>1
    <2> QED
      BY <1>6, <2>2, <2>3, <2>4
  <1> QED
    BY <1>5, <1>6 DEF Deliver

LEMMA ArrivePromises ==
    ASSUME ChatInv, NEW p \in Pushers, NEW m \in Msgs, Arrive(p, m) PROVE [D!Next]_(D!vars)
  <1> USE DEF Arrive
  <1>1. /\ UNCHANGED <<traffic, session, row, faults, inbox, dropped>>
        /\ p \in Threads /\ "contact" \in Labels
    BY Apart DEF config, outbox, history, service, Labels
  <1>2. \A n \in Msgs : Settled(n)' <=> Settled(n)
    BY <1>1 DEF Settled, Delivered
  <1>3. CASE Begin(p, m, "contact")
    <2>1. Moved(p, "contact", m)
      BY <1>1, <1>3, BeginMoves DEF ChatInv
    <2>2. \A n \in Msgs : n # m => (InFlight(n)' <=> InFlight(n))
      BY <1>1, <2>1, FlightsOfPusher
    <2>3. \A n \in Msgs : n # m => Status(n)' = Status(n)
      BY <1>1, <1>2, <2>2, SameStatus
    <2>4. InFlight(m) => InFlight(m)'
      <3>1. InFlight(m) => \E q \in Pushers : q # p /\ pc[q] # "idle" /\ job[q] = m /\ kind[m] \notin Notices
        BY DEF InFlight
      <3>2. kind' = kind /\ \A q \in Pushers : q # p => pc'[q] = pc[q] /\ job'[q] = job[q]
        BY <1>1, <2>1, Apart DEF Moved, kind
      <3> QED
        BY <3>1, <3>2 DEF InFlight
    <2>5. Promised(m)
      BY <1>1, <1>2, <2>4 DEF Promised, Status, Settled
    <2> QED
      BY <1>1, <2>3, <2>5, OneBecomes
  <1>4. CASE UNCHANGED threads
    <2>1. \A n \in Msgs : Status(n)' = Status(n)
      BY <1>1, <1>2, <1>4, FlightsStay, SameStatus
    <2> QED
      BY <1>1, <2>1, NoneBecomes
  <1> QED
    BY <1>3, <1>4

LEMMA EnqueuePromises ==
    ASSUME ChatInv, NEW p \in Pushers, Enqueue(p) PROVE [D!Next]_(D!vars)
  <1> USE DEF Enqueue
  <1>1. /\ UNCHANGED <<traffic, session, inbox, dropped>>
        /\ p \in Threads /\ "idle" \in Labels
        /\ job[p] \in Msgs /\ kind[job[p]] \notin Notices /\ pc[p] # "idle"
    BY Apart DEF ChatInv, Pushing, config, history, service, DbError, Labels
  <1>2. \A n \in Msgs : Settled(n)' <=> Settled(n)
    BY <1>1 DEF Settled, Delivered
  <1>3. Moved(p, "idle", job[p])
    BY <1>1, GoMoves DEF ChatInv
  <1>4. PICK m \in Msgs : m = job[p]
    BY <1>1
  <1>5. \A n \in Msgs : n # m => (InFlight(n)' <=> InFlight(n))
    BY <1>1, <1>3, <1>4, FlightsOfPusher
  <1>6. InFlight(m)
    BY <1>1, <1>4 DEF InFlight
  <1>7. CASE SetRow(m, "waiting", 0) /\ UNCHANGED history
    <2>1. row' = [row EXCEPT ![m] = "waiting"] /\ row \in [Msgs -> {"none", "waiting", "due", "dead"}]
      BY <1>7 DEF SetRow, ChatInv, OutboxTypes
    <2>2. ASSUME NEW n \in Msgs, n # m PROVE Status(n)' = Status(n)
      <3>1. row'[n] = row[n]
        BY <2>1, <2>2
      <3> QED
        BY <1>2, <1>5, <2>2, <3>1, SameStatus
    <2>3. row'[m] = "waiting" /\ (Settled(m)' <=> Settled(m))
      BY <1>2, <2>1
    <2>4. Promised(m)
      BY <1>6, <2>3 DEF Promised, Status, Settled
    <2>5. UNCHANGED faults
      BY <1>7 DEF history
    <2> QED
      BY <1>1, <2>2, <2>4, <2>5, OneBecomes
  <1>8. CASE DbError
    <2>1. UNCHANGED row /\ faults' = faults + 1
      BY <1>8 DEF DbError, outbox
    <2>2. \A n \in Msgs : n # m => Status(n)' = Status(n)
      BY <1>2, <1>5, <2>1, SameStatus
    <2>3. \/ Status(m)' = Status(m)
          \/ Status(m) = "trying" /\ Status(m)' = "none"
      <3>1. row'[m] = row[m] /\ (Settled(m)' <=> Settled(m))
        BY <1>2, <2>1
      <3>2. CASE InFlight(m)'
        BY <1>6, <3>1, <3>2, SameStatus
      <3>3. CASE ~InFlight(m)'
        BY <1>6, <3>1, <3>3 DEF Status, Settled
      <3> QED
        BY <3>2, <3>3
    <2> QED
      BY <1>1, <2>1, <2>2, <2>3, FaultLoses DEF D!Next
  <1> QED
    BY <1>4, <1>7, <1>8

\* The worker's statements: one row, or a fault.
LEMMA RowPromises ==
    ASSUME ChatInv, NEW m \in Msgs, NEW t \in Threads, NEW l, NEW j,
           UNCHANGED <<traffic, session, inbox, dropped>>,
           UNCHANGED threads \/ (Moved(t, l, j) /\ t \notin Pushers),
           \/ /\ UNCHANGED faults
              /\ \A n \in Msgs : n # m => row'[n] = row[n]
              /\ \/ row'[m] = row[m]
                 \/ row[m] # "none" /\ row'[m] \in {"waiting", "due", "dead"}
                 \/ Settled(m)
           \/ UNCHANGED row /\ faults' = faults + 1
    PROVE  [D!Next]_(D!vars)
  <1>1. \A n \in Msgs : InFlight(n)' <=> InFlight(n)
    BY FlightsStay, FlightsElsewhere
  <1>2. \A n \in Msgs : Settled(n)' <=> Settled(n)
    BY DEF Settled, Delivered
  <1>3. CASE UNCHANGED row /\ faults' = faults + 1
    <2>1. \A n \in Msgs : Status(n)' = Status(n)
      BY <1>1, <1>2, <1>3, SameStatus
    <2> QED
      BY <1>3, <2>1, FaultLoses DEF D!Next
  <1>4. CASE /\ UNCHANGED faults /\ \A n \in Msgs : n # m => row'[n] = row[n]
             /\ \/ row'[m] = row[m]
                \/ row[m] # "none" /\ row'[m] \in {"waiting", "due", "dead"}
                \/ Settled(m)
    <2>1. \A n \in Msgs : n # m => Status(n)' = Status(n)
      BY <1>1, <1>2, <1>4, SameStatus
    <2>2. Promised(m)
      BY <1>1, <1>2, <1>4 DEF Promised, Status, Settled
    <2> QED
      BY <1>4, <2>1, <2>2, OneBecomes
  <1> QED
    BY <1>3, <1>4

LEMMA WorkerPromises ==
    ASSUME ChatInv, Drain \/ (\E b \in batch : ProcessRow(b)) \/ Drained \/ Retry \/ DeleteRow
    PROVE  [D!Next]_(D!vars)
  <1>1. /\ UNCHANGED <<traffic, session, inbox, dropped>>
        /\ Worker \in Threads /\ Worker \notin Pushers
        /\ {"pick", "idle", "contact"} \subseteq Labels
    BY Apart DEF Drain, ProcessRow, Drained, Retry, DeleteRow, config, service, history, DbError,
                 Labels
  <1>2. /\ batch \subseteq BatchRows /\ row \in [Msgs -> {"none", "waiting", "due", "dead"}]
        /\ \A b \in BatchRows : b.msg \in Msgs
    BY RowRead DEF ChatInv, WorkTypes, OutboxTypes
  <1>3. ASSUME Drain \/ Drained PROVE [D!Next]_(D!vars)
    <2>1. UNCHANGED <<row, faults>> /\ \E l \in {"pick", "idle"} : Go(Worker, l)
      BY <1>3 DEF Drain, Drained, outbox, history
    <2>2. PICK l \in {"pick", "idle"} : Moved(Worker, l, job[Worker])
      BY <1>1, <2>1, GoMoves DEF ChatInv
    <2>3. \A n \in Msgs : InFlight(n)' <=> InFlight(n)
      BY <1>1, <2>2, FlightsElsewhere
    <2>4. \A n \in Msgs : Status(n)' = Status(n)
      BY <1>1, <2>1, <2>3, SameStatus DEF Settled, Delivered
    <2> QED
      BY <1>1, <2>1, <2>4, NoneBecomes
  <1>4. ASSUME NEW b \in batch, ProcessRow(b) PROVE [D!Next]_(D!vars)
    <2> USE DEF ProcessRow
    <2>1. b.msg \in Msgs
      BY <1>2
    <2>2. CASE Begin(Worker, b.msg, "contact") /\ UNCHANGED <<outbox, faults>>
      <3>1. Moved(Worker, "contact", b.msg)
        BY <1>1, <2>1, <2>2, BeginMoves DEF ChatInv
      <3>2. UNCHANGED <<row, faults>>
        BY <2>2 DEF outbox
      <3> QED
        BY <1>1, <2>1, <3>1, <3>2, RowPromises
    <2>3. CASE Reschedule(b, b.attempts) /\ UNCHANGED threads
      <3>1. \/ UNCHANGED row /\ faults' = faults + 1
            \/ UNCHANGED <<row, faults>>
            \/ /\ UNCHANGED faults /\ row[b.msg] # "none"
               /\ row' = [row EXCEPT ![b.msg] = "waiting"]
        BY <2>3 DEF Reschedule, SetRow, Same, DbError, outbox
      <3>2. \/ UNCHANGED row /\ faults' = faults + 1
            \/ /\ UNCHANGED faults /\ \A n \in Msgs : n # b.msg => row'[n] = row[n]
               /\ \/ row'[b.msg] = row[b.msg]
                  \/ row[b.msg] # "none" /\ row'[b.msg] = "waiting"
        BY <1>2, <2>1, <3>1
      <3> QED
        BY <1>1, <2>1, <2>3, <3>2, RowPromises
    <2> QED
      BY <1>4, <2>2, <2>3
  <1>5. ASSUME Retry PROVE [D!Next]_(D!vars)
    <2> USE DEF Retry
    <2>1. cur.msg \in Msgs
      BY <1>2, <1>5 DEF ChatInv, Draining
    <2>2. Moved(Worker, "pick", job[Worker])
      BY <1>1, <1>5, GoMoves DEF ChatInv
    <2>3. \/ UNCHANGED row /\ faults' = faults + 1
          \/ UNCHANGED <<row, faults>>
          \/ /\ UNCHANGED faults /\ row[cur.msg] # "none"
             /\ \E r \in {"waiting", "dead"} : row' = [row EXCEPT ![cur.msg] = r]
      BY <1>5 DEF SetRow, Same, outbox
    <2>4. \/ UNCHANGED row /\ faults' = faults + 1
          \/ /\ UNCHANGED faults /\ \A n \in Msgs : n # cur.msg => row'[n] = row[n]
             /\ \/ row'[cur.msg] = row[cur.msg]
                \/ row[cur.msg] # "none" /\ row'[cur.msg] \in {"waiting", "dead"}
      BY <1>2, <2>1, <2>3
    <2>5. UNCHANGED cur
      BY <1>5 DEF work
    <2> QED
      <3>1. PICK m \in Msgs : m = cur.msg
        BY <2>1
      <3> QED
        BY <1>1, <2>2, <2>4, <3>1, RowPromises
  <1>6. ASSUME DeleteRow PROVE [D!Next]_(D!vars)
    <2> USE DEF DeleteRow
    <2>1. cur.msg \in Msgs /\ Settled(cur.msg)
      BY <1>2, <1>6 DEF ChatInv, Draining
    <2>2. Moved(Worker, "pick", job[Worker])
      BY <1>1, <1>6, GoMoves DEF ChatInv
    <2>3. \/ UNCHANGED row /\ faults' = faults + 1
          \/ UNCHANGED <<row, faults>>
          \/ UNCHANGED faults /\ row' = [row EXCEPT ![cur.msg] = "none"]
      BY <1>6 DEF SetRow, DbError, outbox, history
    <2>4. \/ UNCHANGED row /\ faults' = faults + 1
          \/ UNCHANGED faults /\ \A n \in Msgs : n # cur.msg => row'[n] = row[n]
      BY <1>2, <2>1, <2>3
    <2> QED
      <3>1. PICK m \in Msgs : m = cur.msg
        BY <2>1
      <3> QED
        BY <1>1, <2>1, <2>2, <2>4, <3>1, RowPromises
  <1> QED
    BY <1>3, <1>4, <1>5, <1>6


LEMMA ImportPromises ==
    ASSUME ChatInv, NEW k \in Importers, ImportHistorySync(k) \/ ImportLock(k) \/ ImportNext(k)
    PROVE  [D!Next]_(D!vars)
  <1> USE DEF ImportHistorySync, ImportLock, ImportNext
  <1>1. /\ UNCHANGED <<traffic, session, inbox, dropped, row, faults>>
        /\ k \in Threads /\ k \notin Pushers
        /\ {"lock", "contact", "idle", "post"} \subseteq Labels
    BY Apart DEF config, service, history, outbox, Labels
  <1>2. left[k] \subseteq Msgs
    BY DEF ChatInv, ImportTypes
  <1>3. PICK l \in Labels, m \in Msgs \cup {NoMsg} : Moved(k, l, m)
    <2> USE DEF ThreadTypes
    <2>1. CASE \E l \in {"lock", "idle"} : Go(k, l)
      BY <1>1, <2>1, GoMoves DEF ChatInv
    <2>2. CASE \E l \in {"contact", "post"}, m \in left[k] : Begin(k, m, l)
      BY <1>1, <1>2, <2>2, BeginMoves DEF ChatInv
    <2> QED
      BY <2>1, <2>2
  <1>4. \A n \in Msgs : InFlight(n)' <=> InFlight(n)
    BY <1>1, <1>3, FlightsElsewhere
  <1>5. \A n \in Msgs : Status(n)' = Status(n)
    BY <1>1, <1>4, SameStatus DEF Settled, Delivered
  <1> QED
    BY <1>1, <1>5, NoneBecomes

\* What leaves the goroutines, the posts and the rows alone.
LEMMA QuietPromises ==
    ASSUME UNCHANGED <<traffic, threads, inbox, dropped, row>>,
           session' = "purged" <=> session = "purged",
           UNCHANGED faults \/ (UNCHANGED session /\ faults' = faults + 1)
    PROVE  [D!Next]_(D!vars)
  <1>1. \A n \in Msgs : Status(n)' = Status(n)
    BY FlightsStay, SameStatus DEF Settled, Delivered
  <1>2. CASE UNCHANGED faults
    BY <1>1, <1>2, NoneBecomes
  <1>3. CASE UNCHANGED session /\ faults' = faults + 1
    BY <1>1, <1>3, FaultLoses DEF D!Next
  <1> QED
    BY <1>2, <1>3

LEMMA ElapsePromises == ASSUME ChatInv, NEW m \in Msgs, Elapse(m) PROVE [D!Next]_(D!vars)
  <1> USE DEF Elapse
  <1>1. /\ UNCHANGED <<traffic, threads, inbox, dropped, session, faults>>
        /\ row \in [Msgs -> {"none", "waiting", "due", "dead"}]
    BY DEF config, service, history, ChatInv, OutboxTypes
  <1>2. \A n \in Msgs : /\ row'[n] = "dead" <=> row[n] = "dead"
                        /\ row'[n] = "none" <=> row[n] = "none"
    BY <1>1
  <1>3. \A n \in Msgs : Status(n)' = Status(n)
    BY <1>1, <1>2, FlightsStay, SameStatus DEF Settled, Delivered
  <1> QED
    BY <1>1, <1>3, NoneBecomes

LEMMA HookPromises ==
    ASSUME ChatInv, (\E p \in hooks : Webhook(p)) \/ Send \/ Mark \/ Tag
    PROVE  [D!Next]_(D!vars)
  <1>1. /\ UNCHANGED <<traffic, session, inbox, dropped, row, faults>>
        /\ Hook \in Threads /\ Hook \notin Pushers
        /\ {"send", "mark", "tag", "idle"} \subseteq Labels
        /\ \A p \in hooks : p.msg \in Msgs
    BY Apart DEF Webhook, Send, Mark, Tag, config, service, history, outbox, Labels, ChatInv,
                 ServiceTypes, Posts
  <1>2. CASE UNCHANGED threads
    BY <1>1, <1>2, QuietPromises
  <1>3. CASE ~UNCHANGED threads
    <2>1. \/ \E p \in hooks : Begin(Hook, p.msg, "send")
          \/ \E l \in {"mark", "tag", "idle"} : Go(Hook, l)
      BY <1>3 DEF Webhook, Send, Mark, Tag
    <2>2. PICK l \in Labels, m \in Msgs \cup {NoMsg} : Moved(Hook, l, m)
      BY <1>1, <2>1, GoMoves, BeginMoves DEF ChatInv, ThreadTypes
    <2>3. \A n \in Msgs : InFlight(n)' <=> InFlight(n)
      BY <1>1, <2>2, FlightsElsewhere
    <2>4. \A n \in Msgs : Status(n)' = Status(n)
      BY <1>1, <2>3, SameStatus DEF Settled, Delivered
    <2> QED
      BY <1>1, <2>4, NoneBecomes
  <1> QED
    BY <1>2, <1>3

LEMMA PurgePromises == ASSUME ChatInv, Purge PROVE D!Next
  <1> USE DEF Purge
  <1>1. /\ UNCHANGED <<traffic, threads, inbox, dropped, faults>>
        /\ session # "purged" /\ session' = "purged"
    BY DEF service, history
  <1>2. \A n \in Msgs : row'[n] = "none"
    OBVIOUS
  <1>3. \A n \in Msgs : /\ InFlight(n)' <=> InFlight(n)
                        /\ Settled(n)' <=> Settled(n)
    BY <1>1, FlightsStay DEF Settled, Delivered
  <1> DEFINE status == [n \in Msgs |-> Status(n)]
             flying == {n \in Msgs : Status(n) \in {"kept", "dead"} /\ InFlight(n)}
  <1>4. flying \in SUBSET {n \in Msgs : status[n] \in {"kept", "dead"}}
    OBVIOUS
  <1>5. status' = [n \in Msgs |-> IF n \in flying THEN "trying"
                                  ELSE IF status[n] \in {"kept", "dead"} THEN "none"
                                  ELSE status[n]]
    <2>1. ASSUME NEW n \in Msgs
          PROVE  Status(n)' = IF n \in flying THEN "trying"
                              ELSE IF status[n] \in {"kept", "dead"} THEN "none"
                              ELSE status[n]
      BY <1>2, <1>3 DEF Status, Settled
    <2> QED
      BY <2>1
  <1> HIDE DEF flying
  <1> QED
    BY <1>1, <1>4, <1>5 DEF D!Next, D!Remove

LEMMA CrashPromises == ASSUME ChatInv, Crash PROVE D!Next
  <1> USE DEF Crash
  <1>1. /\ UNCHANGED <<inbox, dropped, row, session>> /\ faults' = faults + 1
    BY DEF service, outbox
  <1>2. \A n \in Msgs : Settled(n)' <=> Settled(n)
    BY <1>1 DEF Settled, Delivered
  <1>3. \A n \in Msgs : ~InFlight(n)'
    BY Apart DEF InFlight
  <1>4. \A n \in Msgs : \/ Status(n)' = Status(n)
                        \/ Status(n) = "trying" /\ Status(n)' = "none"
    BY <1>1, <1>2, <1>3 DEF Status, Settled
  <1> QED
    BY <1>1, <1>4, FaultLoses DEF D!Next

LEMMA PromiseStep == ChatInv /\ [Next]_vars => [D!Next]_(D!vars)
  <1> SUFFICES ASSUME ChatInv, [Next]_vars PROVE [D!Next]_(D!vars)
    OBVIOUS
  <1>1. ASSUME NEW p \in Pushers, Deliver(p) \/ Enqueue(p) PROVE [D!Next]_(D!vars)
    BY <1>1, Apart, DeliverPromises, EnqueuePromises
  <1>2. ASSUME WorkerStep PROVE [D!Next]_(D!vars)
    BY <1>2, Apart, DeliverPromises, WorkerPromises DEF WorkerStep
  <1>3. ASSUME NEW k \in Importers, ImportHistorySync(k) \/ ImportStep(k)
        PROVE  [D!Next]_(D!vars)
    BY <1>3, Apart, DeliverPromises, ImportPromises DEF ImportStep
  <1>4. ASSUME NEW m \in Msgs, AgentWrites(m) \/ ApiSends(m) \/ RecordOutgoing(m)
        PROVE  [D!Next]_(D!vars)
    <2>1. UNCHANGED <<traffic, threads, inbox, dropped, row, session, faults>>
      BY <1>4 DEF AgentWrites, ApiSends, RecordOutgoing, service, config, outbox, history
    <2> QED
      BY <2>1, QuietPromises
  <1>5. ASSUME NEW c \in Configs \cup {{}}, SetChatwoot(c) PROVE [D!Next]_(D!vars)
    <2>1. /\ UNCHANGED <<traffic, threads, inbox, dropped, row, session>>
          /\ UNCHANGED faults \/ faults' = faults + 1
      BY <1>5 DEF SetChatwoot, service, outbox
    <2> QED
      BY <2>1, QuietPromises
  <1>6. ASSUME Delete PROVE [D!Next]_(D!vars)
    <2>1. /\ UNCHANGED <<traffic, threads, inbox, dropped, row, faults>>
          /\ session' # "purged" /\ session # "purged"
      BY <1>6 DEF Delete, service, outbox, history
    <2> QED
      BY <2>1, QuietPromises
  <1>7. ASSUME Toggle \/ \E c \in Chats : Resolve(c) PROVE [D!Next]_(D!vars)
    <2>1. UNCHANGED <<traffic, threads, inbox, dropped, row, session, faults>>
      BY <1>7 DEF Toggle, Resolve, config, outbox, history
    <2> QED
      BY <2>1, QuietPromises
  <1>8. ASSUME UNCHANGED vars PROVE [D!Next]_(D!vars)
    <2>1. UNCHANGED <<traffic, threads, inbox, dropped, row, session, faults>>
      BY <1>8 DEF vars, service, config, outbox, history
    <2> QED
      BY <2>1, QuietPromises
  <1>9. CASE Next
    BY <1>1, <1>2, <1>3, <1>4, <1>5, <1>6, <1>7, <1>9, ArrivePromises, ElapsePromises,
       HookPromises, PurgePromises, CrashPromises
       DEF Next
  <1> QED
    BY <1>8, <1>9

LEMMA PromiseInit == Init => D!Init
  <1> SUFFICES ASSUME Init PROVE D!Init
    OBVIOUS
  <1>1. \A n \in Msgs : Status(n) = "none"
    BY Apart DEF Init, Status, Delivered, InFlight
  <1> QED
    BY <1>1 DEF Init, D!Init

\* Every step of the bridge keeps the promise of Delivery (ImplementsDelivery): a delivery
\* that has begun ends delivered, kept or dead, unless a fault comes before it is kept; what
\* is kept leaves the outbox only delivered, dead, or with its session.
THEOREM KeepsThePromise == Spec => ImplementsDelivery
  <1>1. ChatInv /\ [Next]_vars => [D!Next]_(D!vars)
    BY PromiseStep
  <1> QED
    BY <1>1, PromiseInit, ChatInvariant, PTL DEF Spec, ImplementsDelivery, D!Spec

=============================================================================
