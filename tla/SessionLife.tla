----------------------------- MODULE SessionLife -----------------------------
(***************************************************************************)
(* The life of WhatsApp sessions and of the instances of tenants over them *)
(* (cmd/server/sessionmanager.go, session.go, db.go, sessionstore.go,      *)
(* internal/platform/instance/manager.go): a session has a row in the main *)
(* database, a database of its own in which whatsmeow keeps its device,    *)
(* and, while the server runs, a Session in the manager with a client.     *)
(*                                                                         *)
(* Admins create, pair, log out and delete sessions and instances, one     *)
(* request each at a time and one step per call that changes something     *)
(* outside the thread; the client's events and the goroutine of its QR     *)
(* codes come in between.  The server may crash at any step, and starts    *)
(* again with Restore.  whatsmeow and the phone are modelled from the      *)
(* calls made and the events handled.                                      *)
(***************************************************************************)
EXTENDS Integers, Sequences, FiniteSets

CONSTANTS Ids,         \* of sessions
          Admins,
          Scenarios,   \* the requests each admin makes
          MaxFaults,   \* crashes and errors of the database; a bound
          MaxDrops     \* connections that are lost; a bound

Main == <<"main">>       \* the thread of Restore
Ev(id) == <<"events", id>>
Qr(id) == <<"qr", id>>
Handlers == {Ev(id) : id \in Ids} \cup {Qr(id) : id \in Ids}
Threads == Admins \cup Handlers \cup {Main}
Ops == {"create", "delete", "logout", "pair", "pairCode", "proxy"}
Conns == {"off", "dialing", "on"}

ASSUME LifeAssumption ==
    /\ Main \notin Admins /\ Admins \cap Handlers = {}
    /\ MaxFaults \in Nat /\ MaxDrops \in Nat
    /\ Scenarios \subseteq [Admins -> Seq([op : Ops, id : Ids, instance : BOOLEAN])]
    /\ Ids # {}

VARIABLES
    row,        \* the session in the table of sessions: absent, without jid, with it
    db,         \* its database exists
    device,     \* it holds a device that is paired
    inst,       \* the status in the table of instances
    running, todo, \* whether HTTP is served, and the rows Restore has yet to see
    reg,        \* SessionManager.sessions
    client,     \* its client: the connection, Store.ID set, how it is being paired
    open,       \* its connection to its database
    auth,       \* Session.auth
    alerted,    \* Session.downAlerted
    notes,      \* goroutines of notifyDisconnected that have not begun
    updates,    \* goroutines of UpdateStatus that have not written
    requests,   \* left of each admin
    pc, at,     \* where each thread is, with which request
    faults, drops,
    overlap,    \* history: sessions that two requests worked on at once
    kept,       \* history: sessions whose pairing a handler was told of and that is not undone
    deleted,    \* history: sessions whose deletion has been answered
    leaked,     \* history: databases that could not be dropped
    untold,     \* history: sessions that were up and whose loss was not announced
    late        \* history: sessions that were back before the goroutine of a loss ran

disk == <<row, db, device, inst>>
memory == <<running, todo, reg, client, open, auth, alerted, notes, updates>>
threads == <<requests, pc, at>>
history == <<faults, drops, overlap, kept, deleted, leaked, untold, late>>
vars == <<disk, memory, threads, history>>

Auths == {"connecting", "qr", "pairing_code", "passkey_request", "open", "logged_out"}
\* mapAuthToInstanceState
StatusOf(a) ==
    IF a = "open" THEN "CONNECTED" ELSE IF a \in {"qr", "pairing_code"} THEN "PAIRING"
    ELSE IF a = "connecting" THEN "RECONNECTING"
    ELSE IF a = "logged_out" THEN "REAUTH_REQUIRED" ELSE "OFFLINE"
Statuses == {StatusOf(a) : a \in Auths}

Client == [conn : Conns, paired : BOOLEAN, by : {"nothing", "qr", "code"}]
NewClient == [conn |-> "off", paired |-> FALSE, by |-> "nothing"]
\* The connection of the client of a session changes, and nothing else of it.
Dials(id, c) == [conn |-> c, paired |-> client[id].paired, by |-> client[id].by]

Request == [op : Ops, id : Ids, instance : BOOLEAN]
\* What a thread that serves no request works on.
About(id) == [op |-> "delete", id |-> id, instance |-> FALSE]
NoRequest == About(CHOOSE id \in Ids : TRUE)

TypeOK ==
    /\ row \in [Ids -> {"none", "unpaired", "paired"}]
    /\ db \in [Ids -> BOOLEAN] /\ device \in [Ids -> BOOLEAN]
    /\ \A id \in Ids : device[id] => db[id]
    /\ inst \in [Ids -> Statuses \cup {"none"}]
    /\ running \in BOOLEAN /\ todo \subseteq Ids /\ reg \subseteq Ids
    /\ client \in [Ids -> Client]
    /\ open \subseteq Ids
    /\ auth \in [Ids -> Auths] /\ alerted \subseteq Ids
    /\ notes \in [Ids -> 0 .. MaxDrops] /\ updates \in [Ids -> SUBSET Statuses]
    /\ at \in [Threads -> Request]
    /\ faults \in 0 .. MaxFaults /\ drops \in 0 .. MaxDrops
    /\ overlap \subseteq Ids /\ kept \subseteq Ids /\ deleted \subseteq Ids
    /\ leaked \subseteq Ids /\ untold \subseteq Ids /\ late \subseteq Ids

Nothing(x) == [id \in Ids |-> x]
Init ==
    /\ row = Nothing("none") /\ db = Nothing(FALSE) /\ device = Nothing(FALSE)
    /\ inst = Nothing("none")
    /\ running = TRUE /\ todo = {} /\ reg = {}
    /\ client = Nothing(NewClient) /\ open = {} /\ auth = Nothing("connecting")
    /\ alerted = {} /\ notes = Nothing(0) /\ updates = Nothing({})
    /\ requests \in Scenarios
    /\ pc = [t \in Threads |-> "idle"] /\ at = [t \in Threads |-> NoRequest]
    /\ faults = 0 /\ drops = 0
    /\ overlap = {} /\ kept = {} /\ deleted = {} /\ leaked = {}
    /\ untold = {} /\ late = {}

-----------------------------------------------------------------------------

Id(t) == at[t].id
Goto(t, here, there) == pc[t] = here /\ pc' = [pc EXCEPT ![t] = there]
Done(t, here) == Goto(t, here, "idle")

\* setAuth; the instance's status is written by a goroutine.
SetAuth(id, a) ==
    /\ auth' = [auth EXCEPT ![id] = a]
    /\ updates' = [updates EXCEPT ![id] = @ \cup {StatusOf(a)}]

UpdateStatus(id, s) ==
    /\ s \in updates[id]
    /\ updates' = [updates EXCEPT ![id] = @ \ {s}]
    /\ inst' = [inst EXCEPT ![id] = IF @ = "none" THEN @ ELSE s]
    /\ UNCHANGED <<row, db, device, running, todo, reg, client, open, auth, alerted, notes,
                   threads, history>>

\* setJID updates the row of the session, if there is one.  A faulty one inserts it.
SetJIDInserts(id, jid) == row' = [row EXCEPT ![id] = jid]
SetJID(id, jid) == row' = [row EXCEPT ![id] = IF @ = "none" THEN @ ELSE jid]

\* A database statement that may fail.
Fault == faults < MaxFaults /\ faults' = faults + 1

\* dropSessionDB takes the device with it.  A faulty one forgets only the name.
DropDBKeeps(id) == db' = [db EXCEPT ![id] = FALSE] /\ UNCHANGED device
DropDB(id) ==
    /\ db' = [db EXCEPT ![id] = FALSE] /\ device' = [device EXCEPT ![id] = FALSE]

-----------------------------------------------------------------------------
(* Requests *)

\* A request is taken up, and goes on with step unless what it asks for is not there.
Arrives(a, instance, found, step) ==
    LET r == Head(requests[a])
        others == {b \in Admins \ {a} : pc[b] # "idle" /\ Id(b) = r.id} IN
    /\ r.instance = instance
    /\ requests' = [requests EXCEPT ![a] = Tail(@)]
    /\ at' = [at EXCEPT ![a] = r]
    /\ pc' = [pc EXCEPT ![a] = IF found THEN step ELSE "idle"]
    /\ overlap' = IF others = {} THEN overlap ELSE overlap \cup {r.id}
    /\ kept' = IF r.op \in {"delete", "logout"} THEN kept \ {r.id} ELSE kept
    /\ UNCHANGED <<disk, memory, faults, drops, deleted, leaked, untold, late>>

Asks(a, ops) == running /\ pc[a] = "idle" /\ requests[a] # <<>> /\ Head(requests[a]).op \in ops
Asked(a) == Head(requests[a]).id

\* SessionManager.Get, and Manager.Get for an instance.
HasSession(id) == id \in reg
HasInstance(id) == inst[id] # "none"
\* Pair and PairPhone turn a paired session away, Create makes an id that was never used,
\* and that no request names.
MayPair(id) == HasSession(id) /\ ~client[id].paired
NeverUsed(id) ==
    /\ row[id] = "none" /\ ~db[id] /\ id \notin reg \cup deleted
    /\ \A b \in Admins : pc[b] = "idle" \/ Id(b) # id

HandleSessionCreate(a) == Asks(a, {"create"}) /\ NeverUsed(Asked(a)) /\ Arrives(a, FALSE, TRUE, "insert")
CreateInstance(a) == Asks(a, {"create"}) /\ NeverUsed(Asked(a)) /\ Arrives(a, TRUE, TRUE, "insert")

HandleSessionDelete(a) == Asks(a, {"delete"}) /\ Arrives(a, FALSE, HasSession(Asked(a)), "unlink")
HandleDeleteInstance(a) ==
    Asks(a, {"delete"}) /\ Arrives(a, TRUE, HasInstance(Asked(a)) /\ HasSession(Asked(a)), "unlink")

HandleSessionLogout(a) == Asks(a, {"logout"}) /\ Arrives(a, FALSE, HasSession(Asked(a)), "unlink")
LogoutInstance(a) ==
    Asks(a, {"logout"}) /\ Arrives(a, TRUE, HasInstance(Asked(a)) /\ HasSession(Asked(a)), "unlink")

\* By QR code or, with a phone's number, by a code.
HandleSessionPair(a) == Asks(a, {"pair", "pairCode"}) /\ Arrives(a, FALSE, MayPair(Asked(a)), "replace")
PairInstance(a) ==
    Asks(a, {"pair", "pairCode"}) /\ Arrives(a, TRUE, HasInstance(Asked(a)) /\ MayPair(Asked(a)), "replace")

\* The goroutine that reconnects for a new proxy is counted as part of its request.
HandleSetProxy(a) == Asks(a, {"proxy"}) /\ Arrives(a, FALSE, HasSession(Asked(a)), "reconnect")

Begin(a) ==
    \/ HandleSessionCreate(a) \/ CreateInstance(a) \/ HandleSessionDelete(a) \/ HandleDeleteInstance(a)
    \/ HandleSessionLogout(a) \/ LogoutInstance(a) \/ HandleSessionPair(a) \/ PairInstance(a)
    \/ HandleSetProxy(a)

\* SessionManager.Create: the row ...
Insert(a) ==
    /\ Goto(a, "insert", "open")
    /\ row' = [row EXCEPT ![Id(a)] = "unpaired"]
    /\ UNCHANGED <<db, device, inst, memory, requests, at, history>>

\* ... the database; when it cannot be opened, though it may have been created, the
\* row is deleted again and then the database dropped ...
OpenDB(a) ==
    /\ \/ Goto(a, "open", "register") /\ open' = open \cup {Id(a)} /\ UNCHANGED faults
       \/ Goto(a, "open", "undo_row") /\ Fault /\ UNCHANGED open
    /\ db' = [db EXCEPT ![Id(a)] = TRUE]
    /\ UNCHANGED <<row, device, inst, running, todo, reg, client, auth, alerted, notes, updates,
                   requests, at, drops, overlap, kept, deleted, leaked, untold, late>>

UndoRow(a) ==
    /\ Goto(a, "undo_row", "undo_db")
    /\ row' = [row EXCEPT ![Id(a)] = "none"]
    /\ leaked' = leaked \cup {Id(a)}      \* until the next step
    /\ UNCHANGED <<db, device, inst, memory, requests, at, faults, drops, overlap, kept, deleted, untold, late>>

UndoDB(a) ==
    /\ Done(a, "undo_db")
    /\ DropDB(Id(a)) /\ leaked' = leaked \ {Id(a)}
    /\ UNCHANGED <<row, inst, memory, requests, at, faults, drops, overlap, kept, deleted, untold, late>>

\* ... and the session, which others see before it begins to pair.
Register(a) ==
    /\ Goto(a, "register", "pair_qr")
    /\ reg' = reg \cup {Id(a)}
    /\ client' = [client EXCEPT ![Id(a)] = NewClient]
    /\ auth' = [auth EXCEPT ![Id(a)] = "connecting"]
    /\ UNCHANGED <<disk, running, todo, open, alerted, notes, updates, requests, at, history>>

\* replaceClient, for Logout, Pair and PairPhone.
Replace(a) ==
    /\ Goto(a, "replace", IF at[a].op = "logout" THEN "clear_jid"
                          ELSE IF at[a].op = "pair" THEN "pair_qr" ELSE "pair_code")
    /\ client' = [client EXCEPT ![Id(a)] = NewClient]
    /\ UNCHANGED <<disk, running, todo, reg, open, auth, alerted, notes, updates,
                   requests, at, history>>

\* startPairing and startPhonePairing connect a client that is neither paired nor connected;
\* an error is returned, and an instance whose session could not begin to pair is not
\* inserted.  startPhonePairing dials before it finds out that a client is paired by now.
StartPairing(a) ==
    /\ \/ /\ \/ Goto(a, "pair_qr", IF at[a].instance /\ at[a].op = "create" THEN "instance" ELSE "idle")
             \/ Goto(a, "pair_code", "idle")
          /\ client[Id(a)].conn = "off" /\ ~client[Id(a)].paired
          /\ client' = [client EXCEPT ![Id(a)] =
                 [conn |-> "on", paired |-> FALSE, by |-> IF pc[a] = "pair_qr" THEN "qr" ELSE "code"]]
          /\ IF pc[a] = "pair_code" THEN SetAuth(Id(a), "pairing_code") ELSE UNCHANGED <<auth, updates>>
       \/ /\ Done(a, "pair_qr") \/ Done(a, "pair_code")
          /\ UNCHANGED <<client, auth, updates>>
       \/ /\ Done(a, "pair_code")
          /\ client[Id(a)].conn = "off" /\ client[Id(a)].paired
          /\ client' = [client EXCEPT ![Id(a)] = Dials(Id(a), "dialing")]
          /\ UNCHANGED <<auth, updates>>
    /\ UNCHANGED <<disk, running, todo, reg, open, alerted, notes, requests, at, history>>

\* Manager.Create
InsertInstance(a) ==
    /\ Done(a, "instance")
    /\ inst' = [inst EXCEPT ![Id(a)] = "PAIRING"]
    /\ UNCHANGED <<row, db, device, memory, requests, at, history>>

\* Session.reconnect, of a session that is paired; an error of Connect is logged.
Reconnect(a) ==
    /\ Done(a, "reconnect")
    /\ \E c \in {"dialing", "off"} :
          client' = IF client[Id(a)].paired THEN [client EXCEPT ![Id(a)] = Dials(Id(a), c)] ELSE client
    /\ UNCHANGED <<disk, running, todo, reg, open, auth, alerted, notes, updates,
                   requests, at, history>>

\* client.Logout, of a session that is paired: the phone forgets the device, and
\* whatsmeow deletes it.  An error is logged and the request goes on.
Unlink(a) ==
    /\ Goto(a, "unlink", IF at[a].op = "delete" THEN "disconnect" ELSE "replace")
    /\ LET id == Id(a) IN
       /\ \/ /\ client[id].paired /\ client[id].conn = "on"
             /\ client' = [client EXCEPT ![id] = NewClient]
             /\ device' = [device EXCEPT ![id] = FALSE]
          \/ UNCHANGED <<client, device>>
    /\ UNCHANGED <<row, db, inst, running, todo, reg, open, auth, alerted, notes, updates,
                   requests, at, history>>

ClearJID(a) ==
    /\ Goto(a, "clear_jid", "logged_out")
    /\ SetJID(Id(a), "unpaired")
    /\ UNCHANGED <<db, device, inst, memory, requests, at, history>>

\* An instance's status is set once more, in the handler.
LoggedOut(a) ==
    /\ Goto(a, "logged_out", IF at[a].instance THEN "offline" ELSE "idle")
    /\ SetAuth(Id(a), "logged_out")
    /\ UNCHANGED <<disk, running, todo, reg, client, open, alerted, notes, requests, at, history>>

Offline(a) ==
    /\ Done(a, "offline")
    /\ inst' = [inst EXCEPT ![Id(a)] = IF @ = "none" THEN @ ELSE "OFFLINE"]
    /\ UNCHANGED <<row, db, device, memory, requests, at, history>>

\* SessionManager.Delete: the client is disconnected and its database closed ...
Disconnect(a) ==
    /\ Goto(a, "disconnect", "drop")
    /\ client' = [client EXCEPT ![Id(a)] = Dials(Id(a), "off")]
    /\ open' = open \ {Id(a)}
    /\ UNCHANGED <<disk, running, todo, reg, auth, alerted, notes, updates, requests, at, history>>

\* ... its database dropped, whether that fails or not ...
Drop(a) ==
    /\ Goto(a, "drop", "unregister")
    /\ \/ DropDB(Id(a)) /\ UNCHANGED <<faults, leaked>>
       \/ Fault /\ leaked' = leaked \cup {Id(a)} /\ UNCHANGED <<db, device>>
    /\ UNCHANGED <<row, inst, memory, requests, at, drops, overlap, kept, deleted, untold, late>>

Unregister(a) ==
    /\ Goto(a, "unregister", "delete_row")
    /\ reg' = reg \ {Id(a)}
    /\ UNCHANGED <<disk, running, todo, client, open, auth, alerted, notes, updates,
                   requests, at, history>>

\* ... and its row deleted; for an instance, that one follows.
DeleteRow(a) ==
    /\ Goto(a, "delete_row", IF at[a].instance THEN "delete_instance" ELSE "idle")
    /\ row' = [row EXCEPT ![Id(a)] = "none"]
    /\ deleted' = deleted \cup {Id(a)}
    /\ UNCHANGED <<db, device, inst, memory, requests, at, faults, drops, overlap, kept, leaked, untold, late>>

DeleteInstance(a) ==
    /\ Done(a, "delete_instance")
    /\ inst' = [inst EXCEPT ![Id(a)] = "none"]
    /\ UNCHANGED <<row, db, device, memory, requests, at, history>>

-----------------------------------------------------------------------------
(* The client's events, each handled before the next *)

\* The goroutine of the QR codes: a code, a passkey's challenge, or the end of its time.
QrEvent(id, a) ==
    /\ id \in reg /\ pc[Qr(id)] = "idle"
    /\ client[id].by = "qr" /\ client[id].conn = "on" /\ ~client[id].paired
    /\ a \in {"qr", "passkey_request", "logged_out"}
    /\ SetAuth(id, a)
    /\ UNCHANGED <<disk, running, todo, reg, client, open, alerted, notes, threads, history>>

\* The phone pairs: whatsmeow saves the device, tells the goroutine of the QR codes if
\* there is one, and connects once more.
PairSuccess(id) ==
    /\ client[id].conn = "on" /\ ~client[id].paired /\ id \in open /\ db[id]
    /\ pc[Qr(id)] = "idle"
    /\ device' = [device EXCEPT ![id] = TRUE]
    /\ client' = [client EXCEPT ![id] = [conn |-> "dialing", paired |-> TRUE, by |-> client[id].by]]
    /\ pc' = [pc EXCEPT ![Qr(id)] = IF client[id].by = "qr" THEN "jid" ELSE @]
    /\ at' = [at EXCEPT ![Qr(id)] = About(id)]
    /\ UNCHANGED <<row, db, inst, running, todo, reg, open, auth, alerted, notes, updates,
                   requests, history>>

\* events.Connected
Connected(id) ==
    /\ client[id].conn = "dialing" /\ pc[Ev(id)] = "idle"
    /\ client' = [client EXCEPT ![id] = Dials(id, "on")]
    /\ pc' = [pc EXCEPT ![Ev(id)] = "jid"]
    /\ at' = [at EXCEPT ![Ev(id)] = About(id)]
    /\ UNCHANGED <<disk, running, todo, reg, open, auth, alerted, notes, updates,
                   requests, history>>

\* The network fails, and whatsmeow dials again by itself.
Interrupted(id) ==
    /\ client[id].conn = "on" /\ client[id].paired
    /\ client' = [client EXCEPT ![id] = Dials(id, "dialing")]
    /\ UNCHANGED <<disk, running, todo, reg, open, auth, alerted, notes, updates,
                   threads, history>>

Undoing(id) == \E a \in Admins : pc[a] # "idle" /\ at[a].op \in {"delete", "logout"} /\ Id(a) = id

\* Both record the jid of the client the session has by now, if that is paired.
\* A faulty RecordsJID: the handler of Connected leaves it to the QR codes'.
RecordsJIDOfQr(t) == t \notin {Ev(id) : id \in Ids}
RecordsJID(t) == t \in Handlers

RecordJID(t) ==
    /\ t \in Handlers /\ Goto(t, "jid", "auth")
    /\ LET id == Id(t) IN
       /\ IF client[id].paired /\ RecordsJID(t) THEN SetJID(id, "paired") ELSE UNCHANGED row
       /\ kept' = IF ~client[id].paired \/ Undoing(id) \/ id \notin reg
                  THEN kept ELSE kept \cup {id}
    /\ UNCHANGED <<db, device, inst, memory, requests, at, faults, drops, overlap, deleted,
                   leaked, untold, late>>

\* Faulty Rearm: the guard is rearmed only when the session was down for its owner.
RearmLate(id) == alerted \ {i \in {id} : auth[i] # "open"}
Rearm(id) == alerted \ {id}

OpenAuth(t) ==
    /\ t \in Handlers /\ Done(t, "auth")
    /\ LET id == Id(t) IN
       /\ SetAuth(id, "open")
       /\ alerted' = IF t = Ev(id) THEN Rearm(id) ELSE alerted
       /\ late' = IF t = Ev(id) /\ notes[id] > 0 THEN late \cup {id} ELSE late
    /\ UNCHANGED <<disk, running, todo, reg, client, open, notes, requests, at,
                   faults, drops, overlap, kept, deleted, leaked, untold>>

\* The phone unlinks the device (events.LoggedOut), another connection takes over or
\* WhatsApp bans or refuses the client: a goroutine is to tell the operator.
Dropped(id) ==
    /\ id \in reg /\ client[id].paired /\ client[id].conn # "off" /\ pc[Ev(id)] = "idle"
    /\ drops < MaxDrops /\ drops' = drops + 1
    /\ notes' = [notes EXCEPT ![id] = @ + 1]
    /\ untold' = IF client[id].conn = "on" THEN untold \cup {id} ELSE untold
    /\ \/ /\ client' = [client EXCEPT ![id] = NewClient]
          /\ device' = [device EXCEPT ![id] = FALSE]
          /\ kept' = kept \ {id}
          /\ SetAuth(id, "logged_out")
       \/ /\ client' = [client EXCEPT ![id] = Dials(id, "off")]
          /\ UNCHANGED <<device, kept, auth, updates>>
    /\ UNCHANGED <<row, db, inst, running, todo, reg, open, alerted, threads,
                   faults, overlap, deleted, leaked, late>>

\* notifyDisconnected
NotifyDisconnected(id) ==
    /\ notes[id] > 0
    /\ notes' = [notes EXCEPT ![id] = @ - 1]
    /\ alerted' = alerted \cup {id}
    /\ untold' = IF id \in alerted THEN untold ELSE untold \ {id}
    /\ UNCHANGED <<disk, running, todo, reg, client, open, auth, updates, threads,
                   faults, drops, overlap, kept, deleted, leaked, late>>

-----------------------------------------------------------------------------
(* Crash and restart *)

Crash ==
    /\ Fault
    /\ running' = FALSE /\ todo' = {id \in Ids : row[id] # "none"}
    /\ reg' = {} /\ client' = Nothing(NewClient) /\ open' = {} /\ auth' = Nothing("connecting")
    /\ alerted' = {} /\ notes' = Nothing(0) /\ updates' = Nothing({})
    /\ pc' = [t \in Threads |-> IF t = Main THEN "restore" ELSE "idle"]
    /\ untold' = {}
    /\ UNCHANGED <<disk, requests, at, drops, overlap, kept, deleted, leaked, late>>

\* Restore, row by row.  A session without a jid, or without a device, is dropped; one
\* whose database does not open is left out.
RestoreRow(id) ==
    /\ id \in todo /\ todo' = todo \ {id}
    /\ at' = [at EXCEPT ![Main] = About(id)]
    /\ IF row[id] = "paired" /\ device[id]
       THEN \/ /\ Goto(Main, "restore", "restore")
               /\ reg' = reg \cup {id} /\ open' = open \cup {id}
               /\ \E c \in {"dialing", "off"} : client' = [client EXCEPT ![id] =
                                          [conn |-> c, paired |-> TRUE, by |-> "nothing"]]
               /\ UNCHANGED faults
            \/ Goto(Main, "restore", "restore") /\ Fault /\ UNCHANGED <<reg, open, client>>
       ELSE Goto(Main, "restore", "restore_drop") /\ UNCHANGED <<reg, open, client, faults>>
    /\ UNCHANGED <<disk, running, auth, alerted, notes, updates, requests,
                   drops, overlap, kept, deleted, leaked, untold, late>>

\* First the database, then the row.  A faulty order: first the row.
RestoreDropRowFirst(id) ==
    \/ Goto(Main, "restore_drop", "restore_row") /\ row' = [row EXCEPT ![id] = "none"]
       /\ UNCHANGED <<db, device, faults, leaked>>
    \/ Goto(Main, "restore_row", "restore") /\ DropDB(id) /\ UNCHANGED <<row, faults, leaked>>

RestoreDropFirst(id) ==
    \/ Goto(Main, "restore_drop", "restore_row") /\ DropDB(id) /\ UNCHANGED <<row, faults, leaked>>
    \/ Goto(Main, "restore_drop", "restore_row") /\ Fault /\ leaked' = leaked \cup {id}
       /\ UNCHANGED <<row, db, device>>
    \/ Goto(Main, "restore_row", "restore") /\ row' = [row EXCEPT ![id] = "none"]
       /\ UNCHANGED <<db, device, faults, leaked>>

RestoreDrop ==
    /\ RestoreDropFirst(Id(Main))
    /\ UNCHANGED <<inst, memory, requests, at, drops, overlap, kept, deleted, untold, late>>

Restored ==
    /\ Done(Main, "restore") /\ todo = {}
    /\ running' = TRUE
    /\ UNCHANGED <<disk, todo, reg, client, open, auth, alerted, notes, updates, requests, at, history>>

-----------------------------------------------------------------------------

Next ==
    \/ \E a \in Admins :
          \/ Begin(a) \/ Insert(a) \/ OpenDB(a) \/ UndoRow(a) \/ UndoDB(a) \/ Register(a)
          \/ Replace(a) \/ StartPairing(a) \/ InsertInstance(a)
          \/ Reconnect(a) \/ Unlink(a) \/ ClearJID(a) \/ LoggedOut(a) \/ Offline(a)
          \/ Disconnect(a) \/ Drop(a) \/ Unregister(a) \/ DeleteRow(a) \/ DeleteInstance(a)
    \/ \E id \in Ids :
          \/ PairSuccess(id) \/ Connected(id) \/ Interrupted(id) \/ Dropped(id) \/ NotifyDisconnected(id)
          \/ \E a \in Auths : QrEvent(id, a)
          \/ \E s \in Statuses : UpdateStatus(id, s)
          \/ RestoreRow(id)
    \/ \E t \in Handlers : RecordJID(t) \/ OpenAuth(t)
    \/ Crash \/ RestoreDrop \/ Restored

Spec == Init /\ [][Next]_vars

-----------------------------------------------------------------------------
(* Properties *)

\* No crash between two statements leaves a database that no row names: Restore would
\* never find it.  The two ways there are to leak one are named in leaked: a drop that
\* failed, and a creation that was being undone.
DatabaseHasRow == \A id \in Ids : db[id] => row[id] # "none" \/ id \in leaked

\* A pairing that a handler has been told of survives: until it is undone, the session has
\* its row with the jid and its device, and is there again after every restart, unless
\* its database did not open.
PairedSurvives ==
    \A id \in kept :
        /\ row[id] = "paired" /\ device[id]
        /\ running /\ faults <= 1 => id \in reg

\* A session whose deletion has been answered does not come back, neither in the
\* tables nor in the manager nor as a client that is connected, whatever handlers,
\* goroutines and restarts follow.  Another request at the same time may undo it.
DeletedIsGone ==
    \A id \in deleted \ overlap :
        row[id] = "none" /\ id \notin reg /\ client[id].conn = "off" /\ (db[id] => id \in leaked)

\* notifyDisconnected announces every loss of a session that was up ("avisa", session.go):
\* only where the goroutine of an earlier loss runs after the session is back, and takes
\* the turn of the next one, is a loss left out.
LossesAnnounced == \A id \in Ids : notes[id] = 0 /\ id \in untold => id \in late

\* "Delete removes the instance" (instance/manager.go): an instance is there only while
\* the session that its deletion asks for is, once nothing is under way.
InstanceCanBeDeleted ==
    (running /\ \A t \in Threads : pc[t] = "idle") =>
        \A id \in Ids : inst[id] # "none" => id \in reg
=============================================================================
