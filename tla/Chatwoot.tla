------------------------------ MODULE Chatwoot ------------------------------
(***************************************************************************)
(* The bridge between one WhatsApp session and its Chatwoot inbox          *)
(* (cmd/server/chatwoot*.go): messages are pushed to Chatwoot, each in a   *)
(* goroutine of its own; one that cannot be delivered is kept in the       *)
(* table chatwoot_outbox, which a worker drains; the chunks of a history   *)
(* sync are imported; and the webhook relays to WhatsApp what an agent has *)
(* written in Chatwoot.                                                    *)
(*                                                                         *)
(* Every goroutine that delivers takes the same steps (contact, create,    *)
(* conv, open, post), one per HTTP request; what it does afterwards        *)
(* depends on who it is (AfterDone, AfterError).  Chatwoot may be away,    *)
(* and may take a request and go away before it answers.  A fault is a     *)
(* crash of the server or an error of its database.                        *)
(***************************************************************************)
EXTENDS Integers, FiniteSets

CONSTANTS Msgs,        \* messages and notices, whatever their way
          Traffics,    \* what they may be, how often their events come, what is imported
          Chat,        \* the chat each belongs to
          Media,       \* those that carry media
          Captioned,   \* those that have text
          Pushers,     \* goroutines that push to Chatwoot; a bound
          Importers,   \* chunks of a history sync
          NoImporter, NoMsg,
          Configs,     \* configurations an operator may save
          MaxAttempts, \* cwMaxAttempts
          MaxOpen,     \* open conversations of a chat that are told apart; a bound
          MaxFaults    \* crashes and database errors; a bound

\* The worker of the outbox and the handler of the webhook.
Worker == "worker"
Hook == "hook"
Deliverers == Pushers \cup Importers \cup {Worker}
Threads == Deliverers \cup {Hook}

Flags == {"valid", "groups", "skip_incoming", "channels", "mirror_api", "import"}
FromMe == {"own", "ownGroup", "api", "agent"}
Notes == {"groupEvent", "recording"}
Notices == Notes \cup {"alert", "viewOnce", "vote"}
Kinds == {"direct", "group", "channel"} \cup FromMe \cup Notices

ASSUME NamesAssumption ==
    /\ Worker \notin Pushers \cup Importers /\ Hook \notin Deliverers
    /\ Pushers \cap Importers = {}
    /\ NoMsg \notin Msgs /\ NoImporter \notin Importers
ASSUME DataAssumption ==
    /\ Traffics \subseteq [kind : [Msgs -> Kinds], most : [Msgs -> Nat],
                     chunk : [Importers -> SUBSET Msgs]]
    /\ Media \subseteq Msgs /\ Captioned \subseteq Msgs
    /\ Configs \subseteq SUBSET Flags
ASSUME NumbersAssumption ==
    /\ MaxAttempts \in Nat \ {0}
    /\ MaxOpen \in Nat \ {0} /\ MaxFaults \in Nat

Chats == {Chat[m] : m \in Msgs}

VARIABLES
    traffic,    \* chosen at the beginning
    up,         \* Chatwoot answers
    open,       \* how many open conversations each chat has there
    inbox,      \* what we have posted
    hooks,      \* webhooks of created messages that are on their way
    cfg,        \* Session.chatwoot
    stored,     \* the configuration in the table of sessions
    session,    \* "live" in the manager, "deleted" from it, "purged" from the outbox
    row,        \* each message's row of chatwoot_outbox
    attempts,   \* its attempts
    late,       \* rows inserted after the purge
    batch,      \* rows the worker has read and not processed
    cur,        \* the one it is processing
    pc, job,    \* where each goroutine is, and with which message
    sent,       \* messages of ours on WhatsApp: sent, in sentIDs, or no longer there
    arrivals,   \* how often the event of each message has come
    left,       \* what each chunk has yet to import
    importLock, \* Session.importMu
    imported,   \* Session.importedMsgIDs
    faults,     \* history: crashes and database errors
    failures,   \* history: deliveries of each message by the worker that failed
    dropped,    \* history: messages there was nothing to post of
    relayed     \* history: what the webhook sent to WhatsApp

service == <<up, open, inbox, hooks>>
config == <<traffic, cfg, stored, session>>
outbox == <<row, attempts, late>>
work == <<batch, cur>>
threads == <<pc, job>>
import == <<left, importLock, imported>>
history == <<faults, failures, dropped, relayed>>
vars == <<service, config, outbox, work, threads, sent, arrivals, import, history>>

kind == traffic.kind

Dirs == {"incoming", "outgoing", "private"}
Posts == [msg : Msgs, dir : Dirs, source : BOOLEAN]
BatchRows == [msg : Msgs, attempts : 0 .. MaxAttempts, late : BOOLEAN]

TypeOK ==
    /\ traffic \in Traffics
    /\ up \in BOOLEAN
    /\ open \in [Chats -> 0 .. MaxOpen]
    /\ inbox \subseteq Posts /\ hooks \subseteq Posts
    /\ cfg \subseteq Flags /\ stored \subseteq Flags
    /\ session \in {"live", "deleted", "purged"}
    /\ row \in [Msgs -> {"none", "waiting", "due", "dead"}]
    /\ attempts \in [Msgs -> 0 .. MaxAttempts]
    /\ late \subseteq Msgs
    /\ batch \subseteq BatchRows /\ cur \in BatchRows \cup {NoMsg}
    /\ pc \in [Threads -> {"idle", "lock", "contact", "conv", "open", "post",
                           "enqueue", "retry", "delete", "pick", "next",
                           "send", "mark", "tag"}]
    /\ job \in [Threads -> Msgs \cup {NoMsg}]
    /\ sent \in [Msgs -> {"no", "sent", "marked", "forgotten"}]
    /\ arrivals \in [Msgs -> Nat]
    /\ left \in [Importers -> SUBSET Msgs]
    /\ importLock \in Importers \cup {NoImporter}
    /\ imported \subseteq Msgs
    /\ faults \in 0 .. MaxFaults
    /\ failures \in [Msgs -> Nat]
    /\ dropped \subseteq Msgs /\ relayed \subseteq Posts

Valid(c) == "valid" \in c

Init ==
    /\ traffic \in Traffics
    /\ up \in BOOLEAN
    /\ open = [c \in Chats |-> 0]
    /\ inbox = {} /\ hooks = {}
    /\ cfg \in Configs /\ stored = cfg
    /\ session = "live"
    /\ row = [m \in Msgs |-> "none"] /\ attempts = [m \in Msgs |-> 0] /\ late = {}
    /\ batch = {} /\ cur = NoMsg
    /\ pc = [t \in Threads |-> "idle"] /\ job = [t \in Threads |-> NoMsg]
    /\ sent = [m \in Msgs |-> "no"]
    /\ arrivals = [m \in Msgs |-> 0]
    /\ left = [k \in Importers |-> traffic.chunk[k]]
    /\ importLock = NoImporter /\ imported = {}
    /\ faults = 0 /\ failures = [m \in Msgs |-> 0]
    /\ dropped = {} /\ relayed = {}

Go(t, l) == pc' = [pc EXCEPT ![t] = l] /\ UNCHANGED job
Begin(t, m, l) == pc' = [pc EXCEPT ![t] = l] /\ job' = [job EXCEPT ![t] = m]

-----------------------------------------------------------------------------
(* Events of WhatsApp: which of them become a delivery *)

\* selfSentOrigin: the message is in sentIDs.
SelfSent(m) == sent[m] = "marked"

\* A message of the phone is mirrored, one of the API if mirror_api says so; what the
\* agent wrote is in Chatwoot already.
ShouldMirrorOwn(m) ==
    \/ ~SelfSent(m)
    \/ kind[m] = "api" /\ "mirror_api" \in cfg

PushDirect(m) == kind[m] = "direct"

PushGroup(m) == kind[m] = "group" /\ "groups" \in cfg /\ "skip_incoming" \notin cfg

PushChannel(m) == kind[m] = "channel" /\ "channels" \in cfg

MirrorOwn(m) == kind[m] \in {"own", "api", "agent"} /\ ShouldMirrorOwn(m)

MirrorOwnGroup(m) == kind[m] = "ownGroup" /\ "groups" \in cfg /\ ShouldMirrorOwn(m)

\* Participants of a group have changed.
GroupSystemEvent(m) == kind[m] = "groupEvent" /\ "groups" \in cfg

\* View-once media that a linked device is not given (here in a direct chat).
UnavailableViewOnce(m) == kind[m] = "viewOnce"

\* A vote in a poll.
PushVote(m) == kind[m] = "vote"

\* The MP3 of a call is ready.
UploadRecording(m) == kind[m] = "recording"

\* The session has gone down (Session.notifyDisconnected).
ChatwootAlert(m) == kind[m] = "alert"

\* chatwootPushIncoming and its kin: which events become a delivery, with the
\* configuration and sentIDs of this moment.
Relevant(m) ==
    /\ Valid(cfg)
    /\ \/ PushDirect(m) \/ PushGroup(m) \/ PushChannel(m) \/ MirrorOwn(m) \/ MirrorOwnGroup(m)
       \/ GroupSystemEvent(m) \/ UnavailableViewOnce(m) \/ PushVote(m)
       \/ UploadRecording(m) \/ ChatwootAlert(m)

\* The event of m comes, and its goroutine begins a delivery or ends at once.
Arrive(p, m) ==
    /\ session = "live" /\ pc[p] = "idle" /\ arrivals[m] < traffic.most[m]
    /\ kind[m] \in {"api", "agent"} => sent[m] # "no"
    /\ arrivals' = [arrivals EXCEPT ![m] = @ + 1]
    /\ IF Relevant(m) THEN Begin(p, m, "contact") ELSE UNCHANGED threads
    /\ UNCHANGED <<service, config, outbox, work, sent, import, history>>

-----------------------------------------------------------------------------
(* A delivery *)

\* A faulty chatwootSend: a delivery that failed is not kept.
ForgetFailed(t) == IF t \in Pushers THEN "idle" ELSE IF t = Worker THEN "retry" ELSE "next"

\* What a goroutine does when execChatwootJob has failed: a push is kept, except a notice;
\* the worker reschedules the row; an import goes on without the message ...
AfterError(t) ==
    IF t \in Pushers THEN IF kind[job[t]] \in Notices THEN "idle" ELSE "enqueue"
    ELSE IF t = Worker THEN "retry" ELSE "next"

\* ... what it does when it has the conversation ...
AfterConversation(t) == IF t \in Importers THEN "next" ELSE "post"

\* ... and what it does when there is no more to do.
AfterDone(t) ==
    IF t \in Pushers THEN "idle" ELSE IF t = Worker THEN "delete" ELSE "next"

\* ensureContact or ensureConversation has failed: an import gives its conversation up.
Abandon(t) ==
    /\ Go(t, AfterError(t))
    /\ left' = IF t \in Importers THEN [left EXCEPT ![t] = {}] ELSE left
    /\ UNCHANGED <<importLock, imported>>

Requesting(t, l) ==
    /\ pc[t] = l
    /\ UNCHANGED <<config, outbox, work, sent, arrivals, history, inbox, hooks>>

\* ensureContact: the search, the creation if nothing is found (Chatwoot refuses a second
\* contact of an identifier), the source id for this inbox.  Any of them may fail.
EnsureContact(t) ==
    /\ Requesting(t, "contact") /\ UNCHANGED service
    /\ \/ up /\ Go(t, "conv") /\ UNCHANGED import
       \/ Abandon(t)

\* GET contacts/conversations: one that is open is used; a request that fails is taken
\* for a contact without any.
FindConversation(t) ==
    LET c == Chat[job[t]] IN
    /\ Requesting(t, "conv") /\ UNCHANGED <<service, import>>
    /\ Go(t, IF up /\ open[c] > 0 THEN AfterConversation(t) ELSE "open")

\* POST conversations.
OpenConversation(t) ==
    LET c == Chat[job[t]] IN
    /\ Requesting(t, "open")
    /\ \/ up /\ open' = [open EXCEPT ![c] = IF @ < MaxOpen THEN @ + 1 ELSE @]
          /\ \/ UNCHANGED <<up, import>> /\ Go(t, AfterConversation(t))
             \/ up' = FALSE /\ Abandon(t)
       \/ ~up /\ UNCHANGED <<up, open>> /\ Abandon(t)

\* The direction of a post (applyDir): an import has the real one; what was sent outside
\* of Chatwoot is a private note.
Dir(t, m) ==
    IF t \in Importers THEN IF kind[m] = "direct" THEN "incoming" ELSE "outgoing"
    ELSE IF kind[m] \in FromMe \cup Notes THEN "private" ELSE "incoming"

\* A message carries its id as source_id, a notice has none but for the alert.
PostOf(t, m) ==
    [msg |-> m, dir |-> Dir(t, m), source |-> kind[m] \notin Notices \ {"alert"}]

\* Chatwoot takes a post, once for each source_id, and announces it to the webhook.
Take(t) ==
    LET post == PostOf(t, job[t]) IN
    IF \E p \in inbox : p.source /\ p.msg = post.msg
    THEN UNCHANGED <<inbox, hooks>>
    ELSE inbox' = inbox \cup {post} /\ hooks' = hooks \cup {post}

Delivered(m) == \E p \in inbox : p.msg = m

\* The end of execChatwootJob (importMessage of an import): the media, or the text if the
\* media cannot be had from WhatsApp, or nothing if there is no text either.
Post(t) ==
    LET m == job[t] IN
    /\ pc[t] = "post"
    /\ UNCHANGED <<config, outbox, work, sent, arrivals, import, open>>
    /\ UNCHANGED <<faults, failures, relayed>>
    /\ \/ /\ m \in Media \cup Captioned /\ UNCHANGED dropped
          /\ \/ up /\ Take(t) /\ UNCHANGED up /\ Go(t, AfterDone(t))
             \/ up /\ Take(t) /\ up' = FALSE /\ Go(t, AfterError(t))
             \/ ~up /\ UNCHANGED <<up, inbox, hooks>> /\ Go(t, AfterError(t))
       \/ /\ m \notin Captioned
          /\ dropped' = dropped \cup {m} /\ Go(t, AfterDone(t))
          /\ UNCHANGED <<up, inbox, hooks>>

Deliver(t) ==
    \/ EnsureContact(t) \/ FindConversation(t)
    \/ OpenConversation(t) \/ Post(t)

-----------------------------------------------------------------------------
(* The outbox *)

\* One more fault, if there may be one: the statement has no effect.
DbError ==
    /\ faults < MaxFaults /\ faults' = faults + 1
    /\ UNCHANGED <<outbox, failures, dropped, relayed>>

SetRow(m, r, n) == row' = [row EXCEPT ![m] = r] /\ attempts' = [attempts EXCEPT ![m] = n]

\* enqueueChatwoot inserts the row or revives the one there is.
Enqueue(p) ==
    LET m == job[p] IN
    /\ pc[p] = "enqueue" /\ Go(p, "idle")
    /\ UNCHANGED <<service, config, work, sent, arrivals, import>>
    /\ \/ /\ SetRow(m, "waiting", 0) /\ UNCHANGED history
          /\ late' = IF session = "purged" THEN late \cup {m} ELSE late
       \/ DbError

\* The time of a row comes.
Elapse(m) ==
    /\ row[m] = "waiting" /\ row' = [row EXCEPT ![m] = "due"]
    /\ UNCHANGED <<service, config, attempts, late, work, threads, sent, arrivals, import, history>>

\* A faulty dueOutbox: rows that have been tried are not read again.
DueUntried == {m \in Msgs : row[m] = "due" /\ attempts[m] = 0}
Due == {m \in Msgs : row[m] = "due"}

\* drainChatwootOutbox reads the rows that are due (no more than cwBatchSize of them) ...
Drain ==
    /\ pc[Worker] = "idle"
    /\ batch' = {[msg |-> m, attempts |-> attempts[m], late |-> m \in late] : m \in Due}
    /\ Go(Worker, "pick") /\ UNCHANGED cur
    /\ UNCHANGED <<service, config, outbox, sent, arrivals, import, history>>

\* ... and processes them; the statements go by the id of the row, which a row
\* inserted meanwhile does not have.
Same(b) == row[b.msg] # "none" /\ (b.msg \in late <=> b.late)

\* rescheduleOutbox, with the attempts as they were read, or more.
Reschedule(b, n) ==
    \/ /\ IF Same(b)
          THEN SetRow(b.msg, "waiting", n) ELSE UNCHANGED <<row, attempts>>
       /\ UNCHANGED <<late, faults>>
    \/ DbError

ProcessRow(b) ==
    /\ pc[Worker] = "pick" /\ b \in batch /\ batch' = batch \ {b}
    /\ UNCHANGED <<service, config, sent, arrivals, import, failures, dropped, relayed>>
    /\ \/ /\ session = "live" /\ Valid(cfg)
          /\ cur' = b /\ Begin(Worker, b.msg, "contact") /\ UNCHANGED <<outbox, faults>>
       \/ /\ ~(session = "live" /\ Valid(cfg))
          /\ Reschedule(b, b.attempts) /\ UNCHANGED <<cur, threads>>

Drained ==
    /\ pc[Worker] = "pick" /\ batch = {} /\ Go(Worker, "idle") /\ cur' = NoMsg
    /\ UNCHANGED <<service, config, outbox, batch, sent, arrivals, import, history>>

\* A faulty processOutboxRow: it gives a message up one attempt too early.
LastAttemptEarly == cur.attempts + 2 >= MaxAttempts
\* A faulty one that never gives up.
LastAttemptNever == FALSE

LastAttempt == cur.attempts + 1 >= MaxAttempts

\* The delivery has failed: one attempt more, or the last (killOutbox).
Retry ==
    /\ pc[Worker] = "retry" /\ Go(Worker, "pick")
    /\ UNCHANGED <<service, config, work, sent, arrivals, import, dropped, relayed>>
    /\ failures' = [failures EXCEPT ![cur.msg] = @ + 1]
    /\ \/ /\ LastAttempt /\ UNCHANGED <<attempts, late, faults>>
          /\ row' = IF Same(cur) THEN [row EXCEPT ![cur.msg] = "dead"] ELSE row
       \/ /\ ~LastAttempt /\ UNCHANGED <<late, faults>>
          /\ IF Same(cur)
             THEN SetRow(cur.msg, "waiting", cur.attempts + 1)
             ELSE UNCHANGED <<row, attempts>>
       \/ faults < MaxFaults /\ faults' = faults + 1 /\ UNCHANGED outbox

\* It has succeeded: deleteOutbox.
DeleteRow ==
    /\ pc[Worker] = "delete" /\ Go(Worker, "pick")
    /\ UNCHANGED <<service, config, work, sent, arrivals, import>>
    /\ \/ /\ IF Same(cur)
             THEN SetRow(cur.msg, "none", 0) /\ late' = late \ {cur.msg}
             ELSE UNCHANGED outbox
          /\ UNCHANGED history
       \/ DbError

-----------------------------------------------------------------------------
(* The import of a history sync *)

\* importHistorySync is called for a chunk, and waits for the chunk before.  Groups and
\* channels are not imported (and of messages of ours, here only the phone's).
ImportHistorySync(k) ==
    /\ session = "live" /\ pc[k] = "idle" /\ left[k] # {}
    /\ \A m \in left[k] : kind[m] \in {"direct", "own"}
    /\ Valid(cfg) /\ "import" \in cfg
    /\ Go(k, "lock")
    /\ UNCHANGED <<service, config, outbox, work, sent, arrivals, import, history>>

ImportLock(k) ==
    /\ pc[k] = "lock" /\ importLock = NoImporter /\ importLock' = k
    /\ \E m \in left[k] : Begin(k, m, "contact")
    /\ UNCHANGED <<service, config, outbox, work, sent, arrivals, left, imported, history>>

\* importConversation: the next message that has not been imported yet is posted; it
\* counts as imported from here on.
ImportNext(k) ==
    /\ pc[k] = "next"
    /\ IF left[k] \subseteq imported
       THEN left' = [left EXCEPT ![k] = {}] /\ importLock' = NoImporter /\ UNCHANGED imported
            /\ Go(k, "idle")
       ELSE \E m \in left[k] \ imported :
                /\ left' = [left EXCEPT ![k] = @ \ {m}] /\ imported' = imported \cup {m}
                /\ UNCHANGED importLock /\ Begin(k, m, "post")
    /\ UNCHANGED <<service, config, outbox, work, sent, arrivals, history>>

-----------------------------------------------------------------------------
(* From Chatwoot to WhatsApp *)

\* An agent writes m, without a source_id.
Written(m) == [msg |-> m, dir |-> "outgoing", source |-> FALSE]

AgentWrites(m) ==
    /\ kind[m] = "agent" /\ sent[m] = "no" /\ arrivals[m] < traffic.most[m] /\ Written(m) \notin hooks
    /\ up /\ hooks' = hooks \cup {Written(m)}
    /\ UNCHANGED <<up, open, inbox, config, outbox, work, threads, sent, arrivals,
                   import, history>>

\* A faulty shouldRelayWebhook: it looks at the direction only.
RelayOutgoing(p) == p.dir # "incoming"

\* shouldRelayWebhook: a note is outgoing and private.
ShouldRelayWebhook(p) == p.dir = "outgoing" /\ ~p.source

\* handleChatwootWebhook; a session that is not there answers 404 and the message is lost.
Webhook(p) ==
    /\ p \in hooks /\ hooks' = hooks \ {p} /\ pc[Hook] = "idle"
    /\ IF session = "live" /\ ShouldRelayWebhook(p)
       THEN Begin(Hook, p.msg, "send") /\ relayed' = relayed \cup {p}
       ELSE UNCHANGED <<threads, relayed>>
    /\ UNCHANGED <<up, open, inbox, config, outbox, work, sent, arrivals, import,
                   faults, failures, dropped>>

\* sendAndMark: SendMessage or sendChatwootFile, which may fail (the answer is 200 all the
\* same) ...
Send ==
    /\ pc[Hook] = "send"
    /\ \/ sent' = [sent EXCEPT ![job[Hook]] = "sent"] /\ Go(Hook, "mark")
       \/ UNCHANGED sent /\ Go(Hook, "idle")
    /\ UNCHANGED <<service, config, outbox, work, arrivals, import, history>>

\* ... and then markSelfSent, which forgets what is older than ten minutes.
MarkSelfSent(m) ==
    \E old \in SUBSET {n \in Msgs : sent[n] = "marked"} :
        sent' = [n \in Msgs |-> IF n = m THEN "marked"
                                ELSE IF n \in old THEN "forgotten" ELSE sent[n]]

Mark ==
    /\ pc[Hook] = "mark" /\ MarkSelfSent(job[Hook]) /\ Go(Hook, "tag")
    /\ UNCHANGED <<service, config, outbox, work, arrivals, import, history>>

\* setMessageSourceID tells Chatwoot the id, if it can: nobody looks at the answer.
Tag ==
    /\ pc[Hook] = "tag" /\ Go(Hook, "idle")
    /\ UNCHANGED <<service, config, outbox, work, sent, arrivals, import, history>>

\* A message sent through the API of this server (recordOutgoing, after SendMessage).
ApiSends(m) ==
    /\ kind[m] = "api" /\ sent[m] = "no" /\ sent' = [sent EXCEPT ![m] = "sent"]
    /\ session = "live"
    /\ UNCHANGED <<service, config, outbox, work, threads, arrivals, import, history>>

RecordOutgoing(m) ==
    /\ kind[m] = "api" /\ sent[m] = "sent" /\ MarkSelfSent(m)
    /\ UNCHANGED <<service, config, outbox, work, threads, arrivals, import, history>>

-----------------------------------------------------------------------------
(* Configuration, removal and faults *)

\* handleSetChatwoot and handleDeleteChatwoot (c = {}): the session first, the table after,
\* unless a fault comes between.
SetChatwoot(c) ==
    /\ session = "live" /\ c # cfg /\ cfg' = c
    /\ \/ stored' = c /\ UNCHANGED faults
       \/ faults < MaxFaults /\ faults' = faults + 1 /\ UNCHANGED stored
    /\ UNCHANGED <<service, traffic, session, outbox, work, threads, sent, arrivals, import,
                   failures, dropped, relayed>>

\* SessionManager.Delete: the session leaves the manager, then its rows the table.
Delete ==
    /\ session = "live" /\ session' = "deleted"
    /\ UNCHANGED <<service, traffic, cfg, stored, outbox, work, threads, sent, arrivals, import, history>>

Purge ==
    /\ session = "deleted" /\ session' = "purged"
    /\ row' = [m \in Msgs |-> "none"] /\ attempts' = [m \in Msgs |-> 0] /\ late' = {}
    /\ UNCHANGED <<service, traffic, cfg, stored, work, threads, sent, arrivals, import, history>>

\* The server crashes and restores its sessions: the tables are all that is left.
Crash ==
    /\ faults < MaxFaults /\ faults' = faults + 1
    /\ pc' = [t \in Threads |-> "idle"] /\ job' = [t \in Threads |-> NoMsg]
    /\ batch' = {} /\ cur' = NoMsg
    /\ cfg' = stored /\ UNCHANGED <<traffic, stored, session>>
    /\ sent' = [m \in Msgs |-> IF sent[m] = "no" THEN "no" ELSE "forgotten"]
    /\ imported' = {} /\ importLock' = NoImporter /\ UNCHANGED left
    /\ UNCHANGED <<service, outbox, arrivals, failures, dropped, relayed>>

\* Chatwoot goes away and comes back.
Toggle ==
    /\ up' = ~up
    /\ UNCHANGED <<open, inbox, hooks, config, outbox, work, threads, sent, arrivals,
                   import, history>>

\* An agent resolves a conversation.
Resolve(c) ==
    /\ open[c] > 0 /\ open' = [open EXCEPT ![c] = @ - 1]
    /\ UNCHANGED <<up, inbox, hooks, config, outbox, work, threads, sent, arrivals,
                   import, history>>

-----------------------------------------------------------------------------
WorkerStep ==
    Drain \/ (\E b \in batch : ProcessRow(b)) \/ Drained \/ Deliver(Worker) \/ Retry \/ DeleteRow

ImportStep(k) == ImportLock(k) \/ ImportNext(k) \/ Deliver(k)

Next ==
    \/ \E p \in Pushers : Deliver(p) \/ Enqueue(p)
    \/ WorkerStep
    \/ \E k \in Importers : ImportHistorySync(k) \/ ImportStep(k)
    \/ \E p \in Pushers, m \in Msgs : Arrive(p, m)
    \/ \E m \in Msgs : Elapse(m) \/ AgentWrites(m) \/ ApiSends(m) \/ RecordOutgoing(m)
    \/ \E p \in hooks : Webhook(p)
    \/ Send \/ Mark \/ Tag
    \/ \E c \in Configs \cup {{}} : SetChatwoot(c)
    \/ Delete \/ Purge \/ Crash \/ Toggle
    \/ \E c \in Chats : Resolve(c)

Spec == Init /\ [][Next]_vars

\* Goroutines go on, the worker's ticker ticks and delays pass; nothing is assumed of
\* WhatsApp, of Chatwoot and of operators.
Fairness ==
    /\ \A p \in Pushers : WF_vars(Deliver(p) \/ Enqueue(p))
    /\ WF_vars(WorkerStep)
    /\ \A m \in Msgs : WF_vars(Elapse(m))

FairSpec == Spec /\ Fairness

-----------------------------------------------------------------------------
(* What holds *)

\* A row is given up for dead only after MaxAttempts deliveries that failed: tries while the
\* session or its configuration is away do not count (processOutboxRow).
DeadEarned == \A m \in Msgs : row[m] = "dead" => failures[m] >= MaxAttempts

\* Nothing that the server itself has posted - imported history, notes that mirror the
\* phone - is sent to WhatsApp again, whatever webhooks it causes (shouldRelayWebhook).
OnlyAgentsRelayed == \A p \in relayed : kind[p.msg] = "agent" /\ p = Written(p.msg)

\* A message in the outbox is not there for ever: it is delivered or given up, once the
\* session, its configuration and Chatwoot are there to stay.
Redelivered ==
    <>[](up /\ session = "live" /\ Valid(cfg)) =>
        \A m \in Msgs : []<>(row[m] \in {"none", "dead"})

\* What the agent wrote in Chatwoot is never mirrored there (chatwoot.go, shouldMirrorOwn).
AgentNeverMirrored == \A p \in inbox : kind[p.msg] # "agent"

-----------------------------------------------------------------------------
(* The promise to a message: see module Delivery *)

InFlight(m) == \E p \in Pushers : pc[p] # "idle" /\ job[p] = m /\ kind[m] \notin Notices

Status(m) ==
    IF Delivered(m) \/ m \in dropped THEN "done"
    ELSE IF row[m] = "dead" THEN "dead"
    ELSE IF row[m] # "none" THEN "kept"
    ELSE IF InFlight(m) THEN "trying" ELSE "none"

D == INSTANCE Delivery WITH status <- [m \in Msgs |-> Status(m)],
                            removed <- session = "purged"

\* The outbox, the pushes and the worker keep the promise of Delivery.
ImplementsDelivery == D!Spec
=============================================================================
