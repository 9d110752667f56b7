--------------------------- MODULE SessionLifeProofs ---------------------------
(***************************************************************************)
(* Theorems about the life of sessions: whatever admins ask for, events    *)
(* and crashes come, no database is left without a row, a pairing that was *)
(* recorded survives, a deleted session stays away and a loss is told.     *)
(***************************************************************************)
EXTENDS SessionLife, TLAPS

(* Where a thread is *)

Making == {"insert", "open", "undo_row", "undo_db", "register"}
Undo == {"delete", "logout"}
Removing == {"disconnect", "drop", "unregister", "delete_row", "delete_instance"}
Clearing == {"clear_jid", "logged_out", "offline"}
Pairing == {"replace", "pair_qr", "pair_code", "instance", "reconnect"}
AdminSteps == {"idle", "unlink"} \cup Making \cup Removing \cup Clearing \cup Pairing
MainSteps == {"idle", "restore", "restore_drop", "restore_row"}

\* What a request is for shows in its step.
Busy(a) == pc[a] # "idle"
Job(a) ==
    /\ pc[a] \in AdminSteps
    /\ pc[a] \in Removing => at[a].op = "delete"
    /\ pc[a] \in Clearing => at[a].op = "logout"
    /\ pc[a] = "unlink" => at[a].op \in Undo

Handling(t, id) == pc[t] \in {"idle", "jid", "auth"} /\ (pc[t] # "idle" => Id(t) = id)
Places ==
    /\ pc = [t \in Threads |-> pc[t]] /\ requests \in [Admins -> Seq(Request)]
    /\ \A a \in Admins : Job(a)
    /\ \A id \in Ids : Handling(Ev(id), id) /\ Handling(Qr(id), id) /\ notes[id] <= drops

\* HTTP is not served while sessions are restored, each at most once.
Restoring ==
    /\ pc[Main] \in MainSteps /\ (running <=> pc[Main] = "idle")
    /\ ~running => faults > 0 /\ \A a \in Admins : ~Busy(a)
    /\ todo \cap reg = {} /\ (running => todo = {})
    /\ pc[Main] \in {"restore_drop", "restore_row"} => Id(Main) \notin reg \cup todo \cup kept
    /\ pc[Main] = "restore_row" => (db[Id(Main)] => Id(Main) \in leaked)

\* Two requests about one session are noted, and a session that is being made has but one.
Alone == \A a, b \in Admins : a # b /\ Busy(a) /\ Busy(b) /\ Id(a) = Id(b) => Id(a) \in overlap
Fresh(a) ==
    pc[a] \in Making =>
        /\ Id(a) \notin reg \cup deleted \cup kept
        /\ \A b \in Admins : b # a /\ Busy(b) => Id(b) # Id(a)

\* Who is in the manager has a row.
Rows ==
    /\ \A a \in Admins : pc[a] \in {"open", "register", "undo_row"} => row[Id(a)] # "none"
    /\ \A id \in reg : row[id] # "none"

Dropping(a) ==
    /\ pc[a] \in {"unregister", "delete_row"} => (db[Id(a)] => Id(a) \in leaked)
    /\ pc[a] = "undo_db" => Id(a) \in leaked
    /\ pc[a] = "delete_row" => Id(a) \notin reg
    /\ pc[a] \in {"drop", "unregister", "delete_row"} /\ Id(a) \notin overlap => client[Id(a)].conn = "off"

\* Only its own request is still about a session that is deleted.
Lingering == \A a \in Admins : Busy(a) /\ Id(a) \in deleted \ overlap => pc[a] = "delete_instance"

\* A paired client has its device, until its deletion takes it.
Devices ==
    \A id \in reg :
        client[id].paired => device[id] \/ \E a \in Admins : pc[a] = "unregister" /\ Id(a) = id

\* A pairing that was recorded is not being undone, and comes back after a crash.
Restorable == \A id \in kept : ~running /\ faults <= 1 => id \in reg \cup todo
NotUndone(a) == Busy(a) /\ at[a].op \in Undo => Id(a) \notin kept

\* A session that is up has had its guard rearmed, since the last loss was told.
Rearmed(id) ==
    id \notin late =>
        /\ id \in untold => notes[id] > 0 /\ id \notin alerted
        /\ client[id].conn = "on" /\ client[id].paired /\ pc[Ev(id)] = "idle" => notes[id] = 0 /\ id \notin alerted

LifeInv ==
    /\ TypeOK /\ Places /\ Restoring /\ Alone /\ (\A a \in Admins : Fresh(a)) /\ Rows
    /\ DatabaseHasRow /\ (\A a \in Admins : Dropping(a)) /\ DeletedIsGone /\ Lingering /\ Devices
    /\ PairedSurvives /\ Restorable /\ (\A a \in Admins : NotUndone(a)) /\ \A id \in Ids : Rearmed(id)

-----------------------------------------------------------------------------
LEMMA ThreadsDiffer ==
    /\ Main \in Threads /\ Main \notin Admins /\ Admins \subseteq Threads
    /\ \A i \in Ids : /\ Ev(i) \in Threads /\ Ev(i) \notin Admins /\ Ev(i) # Main /\ Ev(i) \in Handlers
                      /\ Qr(i) \in Threads /\ Qr(i) \notin Admins /\ Qr(i) # Main /\ Qr(i) \in Handlers
    /\ \A i, j \in Ids : Ev(i) # Qr(j) /\ (Ev(i) = Ev(j) => i = j) /\ (Qr(i) = Qr(j) => i = j)
    /\ \A t \in Handlers : t \in Threads /\ \E i \in Ids : t = Ev(i) \/ t = Qr(i)
  BY LifeAssumption DEF Threads, Handlers, Main, Ev, Qr

\* What a step of t does to the threads.
LEMMA Moved ==
    ASSUME Places, NEW t \in Threads, NEW here, NEW there, Goto(t, here, there)
    PROVE  /\ pc' = [u \in Threads |-> pc'[u]] /\ pc[t] = here /\ pc'[t] = there
           /\ \A u \in Threads : u # t => pc'[u] = pc[u]
  BY DEF Goto, Places

\* What a step of an admin does to them.
OnlyAdmin(a, here, there) ==
    /\ pc' = [u \in Threads |-> pc'[u]] /\ pc[a] = here /\ pc'[a] = there
    /\ \A b \in Admins : b # a => pc'[b] = pc[b]
    /\ pc'[Main] = pc[Main] /\ \A id \in Ids : pc'[Ev(id)] = pc[Ev(id)] /\ pc'[Qr(id)] = pc[Qr(id)]

LEMMA AdminMoved ==
    ASSUME Places, NEW a \in Admins, NEW here, NEW there, Goto(a, here, there)
    PROVE  OnlyAdmin(a, here, there)
  <1>1. a \in Threads /\ a # Main /\ \A id \in Ids : a # Ev(id) /\ a # Qr(id)
    BY ThreadsDiffer
  <1> QED
    BY <1>1, Moved, ThreadsDiffer DEF OnlyAdmin

LEMMA StatusTypes ==
    "PAIRING" \in Statuses /\ "OFFLINE" \in Statuses /\ \A a \in Auths : StatusOf(a) \in Statuses
  BY DEF Statuses, StatusOf, Auths

LEMMA ClientTypes ==
    /\ NewClient \in Client /\ NewClient.conn = "off" /\ NewClient.paired = FALSE
    /\ \A c \in Conns, p \in BOOLEAN, b \in {"nothing", "qr", "code"} : [conn |-> c, paired |-> p, by |-> b] \in Client
    /\ \A c \in Client : c.conn \in Conns /\ c.paired \in BOOLEAN /\ c.by \in {"nothing", "qr", "code"}
  BY DEF NewClient, Client, Conns

LEMMA AdminPlaces ==
    ASSUME LifeInv, NEW a \in Admins, NEW here, NEW there, OnlyAdmin(a, here, there), Job(a)',
           UNCHANGED <<at, requests, notes, drops>>
    PROVE  Places'
  <1>1. ASSUME NEW b \in Admins PROVE Job(b)'
    BY DEF LifeInv, OnlyAdmin, Places, Job
  <1>2. ASSUME NEW id \in Ids PROVE Handling(Ev(id), id)' /\ Handling(Qr(id), id)' /\ (notes[id] <= drops)'
    BY DEF LifeInv, OnlyAdmin, Places, Handling, Id
  <1> QED
    BY <1>1, <1>2 DEF LifeInv, OnlyAdmin, Places

\* What a step of a request that is under way leaves alone.
LEMMA AdminKeeps ==
    ASSUME LifeInv, NEW a \in Admins, NEW here, NEW there, here # "idle", OnlyAdmin(a, here, there), Job(a)',
           TypeOK', Rows', DatabaseHasRow', DeletedIsGone', Devices', PairedSurvives',
           \A b \in Admins : Dropping(b)', \A id \in Ids : Rearmed(id)',
           UNCHANGED <<at, requests, notes, drops, running, todo, overlap, kept>>,
           reg' \subseteq reg \cup {Id(a)}, deleted' \subseteq deleted \cup {Id(a)},
           there \in Making => here \in Making /\ UNCHANGED <<reg, deleted>>,
           deleted' = deleted \/ there \in {"idle", "delete_instance"},
           here = "delete_instance" => there = "idle"
    PROVE  LifeInv'
  <1>1. \A b \in Admins : Id(b)' = Id(b) /\ (Busy(b)' => Busy(b))
    BY DEF OnlyAdmin, Busy, Id
  <1>2. Busy(a) /\ running /\ todo = {} /\ pc'[Main] = "idle"
    BY DEF LifeInv, OnlyAdmin, Restoring, Busy
  <1>3. Places'
    BY AdminPlaces
  <1>4. Restoring' /\ Restorable'
    BY <1>2 DEF Restoring, Restorable, MainSteps
  <1>5. Alone'
    BY <1>1 DEF LifeInv, Alone
  <1>6. ASSUME NEW b \in Admins PROVE Fresh(b)'
    BY <1>1, <1>2 DEF LifeInv, OnlyAdmin, Fresh
  <1>7. Lingering'
    BY <1>1, <1>2 DEF LifeInv, OnlyAdmin, Lingering, Alone, Busy
  <1>8. ASSUME NEW b \in Admins PROVE NotUndone(b)'
    BY <1>1 DEF LifeInv, NotUndone
  <1> QED
    BY <1>3, <1>4, <1>5, <1>6, <1>7, <1>8 DEF LifeInv

\* What is made, deleted or logged out is no pairing to keep; what is gone is left alone.
LEMMA NotKept ==
    ASSUME LifeInv, NEW a \in Admins, pc[a] \in Making \cup Removing \cup Clearing \cup {"unlink"}
    PROVE  Id(a) \notin kept
  BY DEF LifeInv, Places, Job, Fresh, NotUndone, Busy, Making, Removing, Clearing, Undo

LEMMA NotGone ==
    ASSUME LifeInv, NEW a \in Admins, Busy(a), pc[a] # "delete_instance"
    PROVE  Id(a) \notin deleted \ overlap
  BY DEF LifeInv, Lingering

LEMMA DevicesStay ==
    ASSUME LifeInv, NEW a \in Admins, NEW here, NEW there, OnlyAdmin(a, here, there), here # "unregister",
           UNCHANGED <<reg, overlap, client, device, at>>
    PROVE  Devices'
  <1>1. Devices /\ \A b \in Admins : pc[b] = "unregister" => pc'[b] = "unregister"
    BY DEF LifeInv, OnlyAdmin
  <1> QED
    BY <1>1 DEF Devices, Id

LEMMA InsertKeeps == ASSUME LifeInv, NEW a \in Admins, Insert(a) PROVE LifeInv'
  <1> USE DEF Insert, Done, disk, memory, threads, history
  <1>1. OnlyAdmin(a, "insert", "open")
    BY AdminMoved DEF LifeInv
  <1>2. Id(a) \in Ids /\ at[a] \in Request /\ a \in Threads /\ \A b \in Admins : Id(b) \in Ids
    BY ThreadsDiffer DEF LifeInv, TypeOK, Id, Request
  <1>3. Id(a) \notin kept
    BY <1>1, NotKept DEF OnlyAdmin, Making, Removing, Clearing
  <1>4. Id(a) \notin deleted \ overlap
    BY <1>1, NotGone DEF OnlyAdmin, Busy
  <1>5. Job(a)'
    BY <1>1, <1>2 DEF LifeInv, OnlyAdmin, Places, Job, Making, Undo, Removing, Clearing, Pairing, AdminSteps
  <1>10. TypeOK'
    BY <1>1, <1>2, LifeAssumption, StatusTypes, ClientTypes DEF LifeInv, TypeOK, Places, Conns, Auths
  <1>11. Rows'
    BY <1>1, <1>2 DEF LifeInv, OnlyAdmin, TypeOK, Rows, Fresh, Dropping, Busy, Id, Making
  <1>12. DatabaseHasRow'
    BY <1>1, <1>2 DEF LifeInv, OnlyAdmin, TypeOK, Rows, DatabaseHasRow, Dropping, Id
  <1>13. ASSUME NEW b \in Admins PROVE Dropping(b)'
    BY <1>1, <1>2 DEF LifeInv, OnlyAdmin, TypeOK, Dropping, Fresh, Alone, Busy, Id, Making
  <1>14. DeletedIsGone'
    BY <1>1, <1>2, <1>4, ClientTypes DEF LifeInv, OnlyAdmin, TypeOK, DeletedIsGone
  <1>15. Devices'
    BY <1>1, DevicesStay
  <1>16. PairedSurvives'
    BY <1>1, <1>2, <1>3 DEF LifeInv, OnlyAdmin, TypeOK, PairedSurvives
  <1>17. ASSUME NEW id \in Ids PROVE Rearmed(id)'
    BY <1>1, <1>2, ClientTypes DEF LifeInv, OnlyAdmin, TypeOK, Rearmed, Id
  <1> QED
    BY <1>1, <1>5, <1>10, <1>11, <1>12, <1>13, <1>14, <1>15, <1>16, <1>17, AdminKeeps DEF Making

LEMMA OpenDBKeeps == ASSUME LifeInv, NEW a \in Admins, OpenDB(a) PROVE LifeInv'
  <1> USE DEF OpenDB, Done, disk, memory, threads, history, Fault
  <1>1. OnlyAdmin(a, "open", "register") \/ OnlyAdmin(a, "open", "undo_row")
    BY AdminMoved DEF LifeInv
  <1>2. Id(a) \in Ids /\ at[a] \in Request /\ a \in Threads /\ \A b \in Admins : Id(b) \in Ids
    BY ThreadsDiffer DEF LifeInv, TypeOK, Id, Request
  <1>3. Id(a) \notin kept
    BY <1>1, NotKept DEF OnlyAdmin, Making, Removing, Clearing
  <1>4. Id(a) \notin deleted \ overlap
    BY <1>1, NotGone DEF OnlyAdmin, Busy
  <1>5. Job(a)'
    BY <1>1, <1>2 DEF LifeInv, OnlyAdmin, Places, Job, Making, Undo, Removing, Clearing, Pairing, AdminSteps
  <1>10. TypeOK'
    BY <1>1, <1>2, LifeAssumption, StatusTypes, ClientTypes DEF LifeInv, TypeOK, Places, Conns, Auths
  <1>11. Rows'
    BY <1>1, <1>2 DEF LifeInv, OnlyAdmin, TypeOK, Rows, Fresh, Dropping, Busy, Id, Making
  <1>12. DatabaseHasRow'
    BY <1>1, <1>2 DEF LifeInv, OnlyAdmin, TypeOK, Rows, DatabaseHasRow, Dropping, Id
  <1>13. ASSUME NEW b \in Admins PROVE Dropping(b)'
    BY <1>1, <1>2 DEF LifeInv, OnlyAdmin, TypeOK, Dropping, Fresh, Alone, Busy, Id, Making
  <1>14. DeletedIsGone'
    BY <1>1, <1>2, <1>4, ClientTypes DEF LifeInv, OnlyAdmin, TypeOK, DeletedIsGone
  <1>15. Devices'
    BY <1>1, DevicesStay
  <1>16. PairedSurvives'
    BY <1>1, <1>2, <1>3 DEF LifeInv, OnlyAdmin, TypeOK, PairedSurvives
  <1>17. ASSUME NEW id \in Ids PROVE Rearmed(id)'
    BY <1>1, <1>2, ClientTypes DEF LifeInv, OnlyAdmin, TypeOK, Rearmed, Id
  <1> QED
    BY <1>1, <1>5, <1>10, <1>11, <1>12, <1>13, <1>14, <1>15, <1>16, <1>17, AdminKeeps DEF Making

LEMMA UndoRowKeeps == ASSUME LifeInv, NEW a \in Admins, UndoRow(a) PROVE LifeInv'
  <1> USE DEF UndoRow, Done, disk, memory, threads, history
  <1>1. OnlyAdmin(a, "undo_row", "undo_db")
    BY AdminMoved DEF LifeInv
  <1>2. Id(a) \in Ids /\ at[a] \in Request /\ a \in Threads /\ \A b \in Admins : Id(b) \in Ids
    BY ThreadsDiffer DEF LifeInv, TypeOK, Id, Request
  <1>3. Id(a) \notin kept
    BY <1>1, NotKept DEF OnlyAdmin, Making, Removing, Clearing
  <1>4. Id(a) \notin deleted \ overlap
    BY <1>1, NotGone DEF OnlyAdmin, Busy
  <1>5. Job(a)'
    BY <1>1, <1>2 DEF LifeInv, OnlyAdmin, Places, Job, Making, Undo, Removing, Clearing, Pairing, AdminSteps
  <1>10. TypeOK'
    BY <1>1, <1>2, LifeAssumption, StatusTypes, ClientTypes DEF LifeInv, TypeOK, Places, Conns, Auths
  <1>11. Rows'
    BY <1>1, <1>2 DEF LifeInv, OnlyAdmin, TypeOK, Rows, Fresh, Dropping, Busy, Id, Making
  <1>12. DatabaseHasRow'
    BY <1>1, <1>2 DEF LifeInv, OnlyAdmin, TypeOK, Rows, DatabaseHasRow, Dropping, Id
  <1>13. ASSUME NEW b \in Admins PROVE Dropping(b)'
    BY <1>1, <1>2 DEF LifeInv, OnlyAdmin, TypeOK, Dropping, Fresh, Alone, Busy, Id, Making
  <1>14. DeletedIsGone'
    BY <1>1, <1>2, <1>4, ClientTypes DEF LifeInv, OnlyAdmin, TypeOK, DeletedIsGone
  <1>15. Devices'
    BY <1>1, DevicesStay
  <1>16. PairedSurvives'
    BY <1>1, <1>2, <1>3 DEF LifeInv, OnlyAdmin, TypeOK, PairedSurvives
  <1>17. ASSUME NEW id \in Ids PROVE Rearmed(id)'
    BY <1>1, <1>2, ClientTypes DEF LifeInv, OnlyAdmin, TypeOK, Rearmed, Id
  <1> QED
    BY <1>1, <1>5, <1>10, <1>11, <1>12, <1>13, <1>14, <1>15, <1>16, <1>17, AdminKeeps DEF Making

LEMMA UndoDBKeeps == ASSUME LifeInv, NEW a \in Admins, UndoDB(a) PROVE LifeInv'
  <1> USE DEF UndoDB, Done, disk, memory, threads, history, DropDB
  <1>1. OnlyAdmin(a, "undo_db", "idle")
    BY AdminMoved DEF LifeInv
  <1>2. Id(a) \in Ids /\ at[a] \in Request /\ a \in Threads /\ \A b \in Admins : Id(b) \in Ids
    BY ThreadsDiffer DEF LifeInv, TypeOK, Id, Request
  <1>3. Id(a) \notin kept
    BY <1>1, NotKept DEF OnlyAdmin, Making, Removing, Clearing
  <1>4. Id(a) \notin deleted \ overlap
    BY <1>1, NotGone DEF OnlyAdmin, Busy
  <1>5. Job(a)'
    BY <1>1, <1>2 DEF LifeInv, OnlyAdmin, Places, Job, Making, Undo, Removing, Clearing, Pairing, AdminSteps
  <1>10. TypeOK'
    BY <1>1, <1>2, LifeAssumption, StatusTypes, ClientTypes DEF LifeInv, TypeOK, Places, Conns, Auths
  <1>11. Rows'
    BY <1>1, <1>2 DEF LifeInv, OnlyAdmin, TypeOK, Rows, Fresh, Dropping, Busy, Id, Making
  <1>12. DatabaseHasRow'
    BY <1>1, <1>2 DEF LifeInv, OnlyAdmin, TypeOK, Rows, DatabaseHasRow, Dropping, Id
  <1>13. ASSUME NEW b \in Admins PROVE Dropping(b)'
    BY <1>1, <1>2 DEF LifeInv, OnlyAdmin, TypeOK, Dropping, Fresh, Alone, Busy, Id, Making
  <1>14. DeletedIsGone'
    BY <1>1, <1>2, <1>4, ClientTypes DEF LifeInv, OnlyAdmin, TypeOK, DeletedIsGone
  <1>15. Devices'
    <2>1. Id(a) \notin reg
      BY <1>1 DEF LifeInv, OnlyAdmin, Fresh, Making
    <2>2. UNCHANGED <<reg, overlap, client, at>> /\ \A id \in reg : device'[id] = device[id]
      BY <1>2, <2>1 DEF LifeInv, TypeOK
    <2>3. Devices /\ \A b \in Admins : pc[b] = "unregister" => pc'[b] = "unregister"
      BY <1>1 DEF LifeInv, OnlyAdmin
    <2> HIDE DEF UndoDB
    <2> QED
      BY <2>2, <2>3 DEF Devices, Id
  <1>16. PairedSurvives'
    BY <1>1, <1>2, <1>3 DEF LifeInv, OnlyAdmin, TypeOK, PairedSurvives
  <1>17. ASSUME NEW id \in Ids PROVE Rearmed(id)'
    BY <1>1, <1>2, ClientTypes DEF LifeInv, OnlyAdmin, TypeOK, Rearmed, Id
  <1> QED
    BY <1>1, <1>5, <1>10, <1>11, <1>12, <1>13, <1>14, <1>15, <1>16, <1>17, AdminKeeps DEF Making

LEMMA RegisterKeeps == ASSUME LifeInv, NEW a \in Admins, Register(a) PROVE LifeInv'
  <1> USE DEF Register, Done, disk, memory, threads, history
  <1>1. OnlyAdmin(a, "register", "pair_qr")
    BY AdminMoved DEF LifeInv
  <1>2. Id(a) \in Ids /\ at[a] \in Request /\ a \in Threads /\ \A b \in Admins : Id(b) \in Ids
    BY ThreadsDiffer DEF LifeInv, TypeOK, Id, Request
  <1>3. Id(a) \notin kept
    BY <1>1, NotKept DEF OnlyAdmin, Making, Removing, Clearing
  <1>4. Id(a) \notin deleted \ overlap
    BY <1>1, NotGone DEF OnlyAdmin, Busy
  <1>5. Job(a)'
    BY <1>1, <1>2 DEF LifeInv, OnlyAdmin, Places, Job, Making, Undo, Removing, Clearing, Pairing, AdminSteps
  <1>10. TypeOK'
    BY <1>1, <1>2, LifeAssumption, StatusTypes, ClientTypes DEF LifeInv, TypeOK, Places, Conns, Auths
  <1>11. Rows'
    BY <1>1, <1>2 DEF LifeInv, OnlyAdmin, TypeOK, Rows, Fresh, Dropping, Busy, Id, Making
  <1>12. DatabaseHasRow'
    BY <1>1, <1>2 DEF LifeInv, OnlyAdmin, TypeOK, Rows, DatabaseHasRow, Dropping, Id
  <1>13. ASSUME NEW b \in Admins PROVE Dropping(b)'
    BY <1>1, <1>2 DEF LifeInv, OnlyAdmin, TypeOK, Dropping, Fresh, Alone, Busy, Id, Making
  <1>14. DeletedIsGone'
    BY <1>1, <1>2, <1>4, ClientTypes DEF LifeInv, OnlyAdmin, TypeOK, DeletedIsGone
  <1>15. Devices'
    BY <1>1, <1>2, ClientTypes DEF LifeInv, OnlyAdmin, TypeOK, Devices, Fresh, Alone, Busy, Id, Making
  <1>16. PairedSurvives'
    BY <1>1, <1>2, <1>3 DEF LifeInv, OnlyAdmin, TypeOK, PairedSurvives
  <1>17. ASSUME NEW id \in Ids PROVE Rearmed(id)'
    BY <1>1, <1>2, ClientTypes DEF LifeInv, OnlyAdmin, TypeOK, Rearmed, Id
  <1> QED
    BY <1>1, <1>5, <1>10, <1>11, <1>12, <1>13, <1>14, <1>15, <1>16, <1>17, AdminKeeps DEF Making

LEMMA ReplaceKeeps == ASSUME LifeInv, NEW a \in Admins, Replace(a) PROVE LifeInv'
  <1> USE DEF Replace, Done, disk, memory, threads, history
  <1>1. OnlyAdmin(a, "replace", IF at[a].op = "logout" THEN "clear_jid" ELSE IF at[a].op = "pair" THEN "pair_qr" ELSE "pair_code")
    BY AdminMoved DEF LifeInv
  <1>2. Id(a) \in Ids /\ at[a] \in Request /\ a \in Threads /\ \A b \in Admins : Id(b) \in Ids
    BY ThreadsDiffer DEF LifeInv, TypeOK, Id, Request
  <1>4. Id(a) \notin deleted \ overlap
    BY <1>1, NotGone DEF OnlyAdmin, Busy
  <1>5. Job(a)'
    BY <1>1, <1>2 DEF LifeInv, OnlyAdmin, Places, Job, Making, Undo, Removing, Clearing, Pairing, AdminSteps
  <1>10. TypeOK'
    BY <1>1, <1>2, LifeAssumption, StatusTypes, ClientTypes DEF LifeInv, TypeOK, Places, Conns, Auths
  <1>11. Rows'
    BY <1>1, <1>2 DEF LifeInv, OnlyAdmin, TypeOK, Rows, Fresh, Dropping, Busy, Id, Making
  <1>12. DatabaseHasRow'
    BY <1>1, <1>2 DEF LifeInv, OnlyAdmin, TypeOK, Rows, DatabaseHasRow, Dropping, Id
  <1>13. ASSUME NEW b \in Admins PROVE Dropping(b)'
    BY <1>1, <1>2 DEF LifeInv, OnlyAdmin, TypeOK, Dropping, Fresh, Alone, Busy, Id, Making
  <1>14. DeletedIsGone'
    BY <1>1, <1>2, <1>4, ClientTypes DEF LifeInv, OnlyAdmin, TypeOK, DeletedIsGone
  <1>15. Devices'
    BY <1>1, <1>2, ClientTypes DEF LifeInv, OnlyAdmin, TypeOK, Devices, Fresh, Alone, Busy, Id, Making
  <1>16. PairedSurvives'
    BY <1>1, <1>2 DEF LifeInv, OnlyAdmin, TypeOK, PairedSurvives
  <1>17. ASSUME NEW id \in Ids PROVE Rearmed(id)'
    BY <1>1, <1>2, ClientTypes DEF LifeInv, OnlyAdmin, TypeOK, Rearmed, Id
  <1> QED
    BY <1>1, <1>5, <1>10, <1>11, <1>12, <1>13, <1>14, <1>15, <1>16, <1>17, AdminKeeps DEF Making

LEMMA StartPairingKeeps == ASSUME LifeInv, NEW a \in Admins, StartPairing(a) PROVE LifeInv'
  <1> USE DEF StartPairing, Done, disk, memory, threads, history, SetAuth, Dials
  <1>1. OnlyAdmin(a, "pair_qr", IF at[a].instance /\ at[a].op = "create" THEN "instance" ELSE "idle") \/ OnlyAdmin(a, "pair_code", "idle") \/ OnlyAdmin(a, "pair_qr", "idle") \/ OnlyAdmin(a, "pair_code", "idle")
    BY AdminMoved DEF LifeInv
  <1>2. Id(a) \in Ids /\ at[a] \in Request /\ a \in Threads /\ \A b \in Admins : Id(b) \in Ids
    BY ThreadsDiffer DEF LifeInv, TypeOK, Id, Request
  <1>4. Id(a) \notin deleted \ overlap
    BY <1>1, NotGone DEF OnlyAdmin, Busy
  <1>5. Job(a)'
    BY <1>1, <1>2 DEF LifeInv, OnlyAdmin, Places, Job, Making, Undo, Removing, Clearing, Pairing, AdminSteps
  <1>10. TypeOK'
    <2>0. client \in [Ids -> Client] /\ client[Id(a)] \in Client
      BY <1>2 DEF LifeInv, TypeOK
    <2>4. \A c \in Conns : Dials(Id(a), c) \in Client
      BY <2>0, ClientTypes
    <2>5. [conn |-> "on", paired |-> FALSE, by |-> IF pc[a] = "pair_qr" THEN "qr" ELSE "code"] \in Client
      BY DEF Client, Conns
    <2>1. client' \in [Ids -> Client]
      BY <2>0, <2>4, <2>5 DEF Conns
    <2>2. auth' \in [Ids -> Auths] /\ updates' \in [Ids -> SUBSET Statuses]
      BY <1>2, StatusTypes DEF LifeInv, TypeOK, Auths
    <2> QED
      BY <2>1, <2>2 DEF LifeInv, TypeOK
  <1>11. Rows'
    BY <1>1, <1>2 DEF LifeInv, OnlyAdmin, TypeOK, Rows, Fresh, Dropping, Busy, Id, Making
  <1>12. DatabaseHasRow'
    BY <1>1, <1>2 DEF LifeInv, OnlyAdmin, TypeOK, Rows, DatabaseHasRow, Dropping, Id
  <1>13. ASSUME NEW b \in Admins PROVE Dropping(b)'
    BY <1>1, <1>2 DEF LifeInv, OnlyAdmin, TypeOK, Dropping, Fresh, Alone, Busy, Id, Making
  <1>14. DeletedIsGone'
    BY <1>1, <1>2, <1>4, ClientTypes DEF LifeInv, OnlyAdmin, TypeOK, DeletedIsGone
  <1>15. Devices'
    <2> SUFFICES ASSUME NEW id \in Ids, id \in reg, client'[id].paired
                 PROVE  device'[id] \/ \E b \in Admins : pc'[b] = "unregister" /\ Id(b) = id
      BY DEF LifeInv, TypeOK, Devices, Id
    <2>1. client[id].paired /\ device'[id] = device[id]
      BY <1>2, ClientTypes DEF LifeInv, TypeOK
    <2>2. CASE device[id]
      BY <2>1, <2>2
    <2>3. CASE \E b \in Admins : pc[b] = "unregister" /\ Id(b) = id
      BY <1>1, <2>3 DEF OnlyAdmin
    <2> QED
      BY <2>1, <2>2, <2>3 DEF LifeInv, Devices
  <1>16. PairedSurvives'
    BY <1>1, <1>2 DEF LifeInv, OnlyAdmin, TypeOK, PairedSurvives
  <1>17. ASSUME NEW id \in Ids PROVE Rearmed(id)'
    <2>1. pc'[Ev(id)] = pc[Ev(id)] /\ UNCHANGED <<notes, untold, alerted, late>>
      BY <1>1 DEF OnlyAdmin
    <2>2. client'[id] = client[id] \/ ~client'[id].paired \/ client'[id].conn # "on"
      BY <1>2, ClientTypes DEF LifeInv, TypeOK, Conns
    <2> QED
      BY <2>1, <2>2 DEF LifeInv, Rearmed
  <1> QED
    BY <1>1, <1>5, <1>10, <1>11, <1>12, <1>13, <1>14, <1>15, <1>16, <1>17, AdminKeeps DEF Making

LEMMA InsertInstanceKeeps == ASSUME LifeInv, NEW a \in Admins, InsertInstance(a) PROVE LifeInv'
  <1> USE DEF InsertInstance, Done, disk, memory, threads, history
  <1>1. OnlyAdmin(a, "instance", "idle")
    BY AdminMoved DEF LifeInv
  <1>2. Id(a) \in Ids /\ at[a] \in Request /\ a \in Threads /\ \A b \in Admins : Id(b) \in Ids
    BY ThreadsDiffer DEF LifeInv, TypeOK, Id, Request
  <1>4. Id(a) \notin deleted \ overlap
    BY <1>1, NotGone DEF OnlyAdmin, Busy
  <1>5. Job(a)'
    BY <1>1, <1>2 DEF LifeInv, OnlyAdmin, Places, Job, Making, Undo, Removing, Clearing, Pairing, AdminSteps
  <1>10. TypeOK'
    BY <1>1, <1>2, LifeAssumption, StatusTypes, ClientTypes DEF LifeInv, TypeOK, Places, Conns, Auths
  <1>11. Rows'
    BY <1>1, <1>2 DEF LifeInv, OnlyAdmin, TypeOK, Rows, Fresh, Dropping, Busy, Id, Making
  <1>12. DatabaseHasRow'
    BY <1>1, <1>2 DEF LifeInv, OnlyAdmin, TypeOK, Rows, DatabaseHasRow, Dropping, Id
  <1>13. ASSUME NEW b \in Admins PROVE Dropping(b)'
    BY <1>1, <1>2 DEF LifeInv, OnlyAdmin, TypeOK, Dropping, Fresh, Alone, Busy, Id, Making
  <1>14. DeletedIsGone'
    BY <1>1, <1>2, <1>4, ClientTypes DEF LifeInv, OnlyAdmin, TypeOK, DeletedIsGone
  <1>15. Devices'
    BY <1>1, DevicesStay
  <1>16. PairedSurvives'
    BY <1>1, <1>2 DEF LifeInv, OnlyAdmin, TypeOK, PairedSurvives
  <1>17. ASSUME NEW id \in Ids PROVE Rearmed(id)'
    BY <1>1, <1>2, ClientTypes DEF LifeInv, OnlyAdmin, TypeOK, Rearmed, Id
  <1> QED
    BY <1>1, <1>5, <1>10, <1>11, <1>12, <1>13, <1>14, <1>15, <1>16, <1>17, AdminKeeps DEF Making

LEMMA ReconnectKeeps == ASSUME LifeInv, NEW a \in Admins, Reconnect(a) PROVE LifeInv'
  <1> USE DEF Reconnect, Done, disk, memory, threads, history, Dials
  <1>1. OnlyAdmin(a, "reconnect", "idle")
    BY AdminMoved DEF LifeInv
  <1>2. Id(a) \in Ids /\ at[a] \in Request /\ a \in Threads /\ \A b \in Admins : Id(b) \in Ids
    BY ThreadsDiffer DEF LifeInv, TypeOK, Id, Request
  <1>4. Id(a) \notin deleted \ overlap
    BY <1>1, NotGone DEF OnlyAdmin, Busy
  <1>5. Job(a)'
    BY <1>1, <1>2 DEF LifeInv, OnlyAdmin, Places, Job, Making, Undo, Removing, Clearing, Pairing, AdminSteps
  <1>10. TypeOK'
    <2>0. client \in [Ids -> Client] /\ client[Id(a)] \in Client
      BY <1>2 DEF LifeInv, TypeOK
    <2>4. \A c \in Conns : Dials(Id(a), c) \in Client
      BY <2>0, ClientTypes
    <2>1. client' \in [Ids -> Client]
      BY <2>0, <2>4 DEF Conns
    <2> QED
      BY <2>1 DEF LifeInv, TypeOK
  <1>11. Rows'
    BY <1>1, <1>2 DEF LifeInv, OnlyAdmin, TypeOK, Rows, Fresh, Dropping, Busy, Id, Making
  <1>12. DatabaseHasRow'
    BY <1>1, <1>2 DEF LifeInv, OnlyAdmin, TypeOK, Rows, DatabaseHasRow, Dropping, Id
  <1>13. ASSUME NEW b \in Admins PROVE Dropping(b)'
    BY <1>1, <1>2 DEF LifeInv, OnlyAdmin, TypeOK, Dropping, Fresh, Alone, Busy, Id, Making
  <1>14. DeletedIsGone'
    BY <1>1, <1>2, <1>4, ClientTypes DEF LifeInv, OnlyAdmin, TypeOK, DeletedIsGone
  <1>15. Devices'
    BY <1>1, <1>2, ClientTypes DEF LifeInv, OnlyAdmin, TypeOK, Devices, Fresh, Alone, Busy, Id, Making
  <1>16. PairedSurvives'
    BY <1>1, <1>2 DEF LifeInv, OnlyAdmin, TypeOK, PairedSurvives
  <1>17. ASSUME NEW id \in Ids PROVE Rearmed(id)'
    BY <1>1, <1>2, ClientTypes DEF LifeInv, OnlyAdmin, TypeOK, Rearmed, Id
  <1> QED
    BY <1>1, <1>5, <1>10, <1>11, <1>12, <1>13, <1>14, <1>15, <1>16, <1>17, AdminKeeps DEF Making

LEMMA UnlinkKeeps == ASSUME LifeInv, NEW a \in Admins, Unlink(a) PROVE LifeInv'
  <1> USE DEF Unlink, Done, disk, memory, threads, history
  <1>1. OnlyAdmin(a, "unlink", IF at[a].op = "delete" THEN "disconnect" ELSE "replace")
    BY AdminMoved DEF LifeInv
  <1>2. Id(a) \in Ids /\ at[a] \in Request /\ a \in Threads /\ \A b \in Admins : Id(b) \in Ids
    BY ThreadsDiffer DEF LifeInv, TypeOK, Id, Request
  <1>3. Id(a) \notin kept
    BY <1>1, NotKept DEF OnlyAdmin, Making, Removing, Clearing
  <1>4. Id(a) \notin deleted \ overlap
    BY <1>1, NotGone DEF OnlyAdmin, Busy
  <1>5. Job(a)'
    BY <1>1, <1>2 DEF LifeInv, OnlyAdmin, Places, Job, Making, Undo, Removing, Clearing, Pairing, AdminSteps
  <1>10. TypeOK'
    <2>1. db' \in [Ids -> BOOLEAN] /\ device' \in [Ids -> BOOLEAN]
      BY <1>2 DEF LifeInv, TypeOK
    <2>2. \A id \in Ids : device'[id] => db'[id]
      BY <1>2 DEF LifeInv, TypeOK
    <2>3. client' \in [Ids -> Client]
      BY <1>2, ClientTypes DEF LifeInv, TypeOK, Conns
    <2> QED
      BY <1>2, <2>1, <2>2, <2>3, LifeAssumption DEF LifeInv, TypeOK
  <1>11. Rows'
    BY <1>1, <1>2 DEF LifeInv, OnlyAdmin, TypeOK, Rows, Fresh, Dropping, Busy, Id, Making
  <1>12. DatabaseHasRow'
    BY <1>1, <1>2 DEF LifeInv, OnlyAdmin, TypeOK, Rows, DatabaseHasRow, Dropping, Id
  <1>13. ASSUME NEW b \in Admins PROVE Dropping(b)'
    BY <1>1, <1>2 DEF LifeInv, OnlyAdmin, TypeOK, Dropping, Fresh, Alone, Busy, Id, Making
  <1>14. DeletedIsGone'
    BY <1>1, <1>2, <1>4, ClientTypes DEF LifeInv, OnlyAdmin, TypeOK, DeletedIsGone
  <1>15. Devices'
    <2> SUFFICES ASSUME NEW id \in Ids, id \in reg, client'[id].paired
                 PROVE  device'[id] \/ \E b \in Admins : pc'[b] = "unregister" /\ Id(b) = id
      BY DEF LifeInv, TypeOK, Devices, Id
    <2>1. client[id].paired /\ device'[id] = device[id]
      BY <1>2, ClientTypes DEF LifeInv, TypeOK
    <2>2. CASE device[id]
      BY <2>1, <2>2
    <2>3. CASE \E b \in Admins : pc[b] = "unregister" /\ Id(b) = id
      BY <1>1, <2>3 DEF OnlyAdmin
    <2> QED
      BY <2>1, <2>2, <2>3 DEF LifeInv, Devices
  <1>16. PairedSurvives'
    BY <1>1, <1>2, <1>3 DEF LifeInv, OnlyAdmin, TypeOK, PairedSurvives
  <1>17. ASSUME NEW id \in Ids PROVE Rearmed(id)'
    <2>1. Rearmed(id) /\ UNCHANGED <<late, untold, notes, alerted>> /\ pc'[Ev(id)] = pc[Ev(id)]
      BY <1>1 DEF LifeInv, OnlyAdmin
    <2>2. client'[id] = client[id] \/ client'[id] = NewClient
      BY <1>2 DEF LifeInv, TypeOK
    <2>3. NewClient.conn # "on"
      BY ClientTypes
    <2> QED
      BY <2>1, <2>2, <2>3 DEF Rearmed
  <1> QED
    BY <1>1, <1>5, <1>10, <1>11, <1>12, <1>13, <1>14, <1>15, <1>16, <1>17, AdminKeeps DEF Making

LEMMA ClearJIDKeeps == ASSUME LifeInv, NEW a \in Admins, ClearJID(a) PROVE LifeInv'
  <1> USE DEF ClearJID, Done, disk, memory, threads, history, SetJID
  <1>1. OnlyAdmin(a, "clear_jid", "logged_out")
    BY AdminMoved DEF LifeInv
  <1>2. Id(a) \in Ids /\ at[a] \in Request /\ a \in Threads /\ \A b \in Admins : Id(b) \in Ids
    BY ThreadsDiffer DEF LifeInv, TypeOK, Id, Request
  <1>3. Id(a) \notin kept
    BY <1>1, NotKept DEF OnlyAdmin, Making, Removing, Clearing
  <1>4. Id(a) \notin deleted \ overlap
    BY <1>1, NotGone DEF OnlyAdmin, Busy
  <1>5. Job(a)'
    BY <1>1, <1>2 DEF LifeInv, OnlyAdmin, Places, Job, Making, Undo, Removing, Clearing, Pairing, AdminSteps
  <1>10. TypeOK'
    BY <1>1, <1>2, LifeAssumption, StatusTypes, ClientTypes DEF LifeInv, TypeOK, Places, Conns, Auths
  <1>11. Rows'
    BY <1>1, <1>2 DEF LifeInv, OnlyAdmin, TypeOK, Rows, Fresh, Dropping, Busy, Id, Making
  <1>12. DatabaseHasRow'
    BY <1>1, <1>2 DEF LifeInv, OnlyAdmin, TypeOK, Rows, DatabaseHasRow, Dropping, Id
  <1>13. ASSUME NEW b \in Admins PROVE Dropping(b)'
    BY <1>1, <1>2 DEF LifeInv, OnlyAdmin, TypeOK, Dropping, Fresh, Alone, Busy, Id, Making
  <1>14. DeletedIsGone'
    BY <1>1, <1>2, <1>4, ClientTypes DEF LifeInv, OnlyAdmin, TypeOK, DeletedIsGone
  <1>15. Devices'
    BY <1>1, DevicesStay
  <1>16. PairedSurvives'
    BY <1>1, <1>2, <1>3 DEF LifeInv, OnlyAdmin, TypeOK, PairedSurvives
  <1>17. ASSUME NEW id \in Ids PROVE Rearmed(id)'
    BY <1>1, <1>2, ClientTypes DEF LifeInv, OnlyAdmin, TypeOK, Rearmed, Id
  <1> QED
    BY <1>1, <1>5, <1>10, <1>11, <1>12, <1>13, <1>14, <1>15, <1>16, <1>17, AdminKeeps DEF Making

LEMMA LoggedOutKeeps == ASSUME LifeInv, NEW a \in Admins, LoggedOut(a) PROVE LifeInv'
  <1> USE DEF LoggedOut, Done, disk, memory, threads, history, SetAuth
  <1>1. OnlyAdmin(a, "logged_out", IF at[a].instance THEN "offline" ELSE "idle")
    BY AdminMoved DEF LifeInv
  <1>2. Id(a) \in Ids /\ at[a] \in Request /\ a \in Threads /\ \A b \in Admins : Id(b) \in Ids
    BY ThreadsDiffer DEF LifeInv, TypeOK, Id, Request
  <1>3. Id(a) \notin kept
    BY <1>1, NotKept DEF OnlyAdmin, Making, Removing, Clearing
  <1>4. Id(a) \notin deleted \ overlap
    BY <1>1, NotGone DEF OnlyAdmin, Busy
  <1>5. Job(a)'
    BY <1>1, <1>2 DEF LifeInv, OnlyAdmin, Places, Job, Making, Undo, Removing, Clearing, Pairing, AdminSteps
  <1>10. TypeOK'
    BY <1>1, <1>2, LifeAssumption, StatusTypes, ClientTypes DEF LifeInv, TypeOK, Places, Conns, Auths
  <1>11. Rows'
    BY <1>1, <1>2 DEF LifeInv, OnlyAdmin, TypeOK, Rows, Fresh, Dropping, Busy, Id, Making
  <1>12. DatabaseHasRow'
    BY <1>1, <1>2 DEF LifeInv, OnlyAdmin, TypeOK, Rows, DatabaseHasRow, Dropping, Id
  <1>13. ASSUME NEW b \in Admins PROVE Dropping(b)'
    BY <1>1, <1>2 DEF LifeInv, OnlyAdmin, TypeOK, Dropping, Fresh, Alone, Busy, Id, Making
  <1>14. DeletedIsGone'
    BY <1>1, <1>2, <1>4, ClientTypes DEF LifeInv, OnlyAdmin, TypeOK, DeletedIsGone
  <1>15. Devices'
    BY <1>1, DevicesStay
  <1>16. PairedSurvives'
    BY <1>1, <1>2, <1>3 DEF LifeInv, OnlyAdmin, TypeOK, PairedSurvives
  <1>17. ASSUME NEW id \in Ids PROVE Rearmed(id)'
    BY <1>1, <1>2, ClientTypes DEF LifeInv, OnlyAdmin, TypeOK, Rearmed, Id
  <1> QED
    BY <1>1, <1>5, <1>10, <1>11, <1>12, <1>13, <1>14, <1>15, <1>16, <1>17, AdminKeeps DEF Making

LEMMA OfflineKeeps == ASSUME LifeInv, NEW a \in Admins, Offline(a) PROVE LifeInv'
  <1> USE DEF Offline, Done, disk, memory, threads, history
  <1>1. OnlyAdmin(a, "offline", "idle")
    BY AdminMoved DEF LifeInv
  <1>2. Id(a) \in Ids /\ at[a] \in Request /\ a \in Threads /\ \A b \in Admins : Id(b) \in Ids
    BY ThreadsDiffer DEF LifeInv, TypeOK, Id, Request
  <1>3. Id(a) \notin kept
    BY <1>1, NotKept DEF OnlyAdmin, Making, Removing, Clearing
  <1>4. Id(a) \notin deleted \ overlap
    BY <1>1, NotGone DEF OnlyAdmin, Busy
  <1>5. Job(a)'
    BY <1>1, <1>2 DEF LifeInv, OnlyAdmin, Places, Job, Making, Undo, Removing, Clearing, Pairing, AdminSteps
  <1>10. TypeOK'
    BY <1>1, <1>2, LifeAssumption, StatusTypes, ClientTypes DEF LifeInv, TypeOK, Places, Conns, Auths
  <1>11. Rows'
    BY <1>1, <1>2 DEF LifeInv, OnlyAdmin, TypeOK, Rows, Fresh, Dropping, Busy, Id, Making
  <1>12. DatabaseHasRow'
    BY <1>1, <1>2 DEF LifeInv, OnlyAdmin, TypeOK, Rows, DatabaseHasRow, Dropping, Id
  <1>13. ASSUME NEW b \in Admins PROVE Dropping(b)'
    BY <1>1, <1>2 DEF LifeInv, OnlyAdmin, TypeOK, Dropping, Fresh, Alone, Busy, Id, Making
  <1>14. DeletedIsGone'
    BY <1>1, <1>2, <1>4, ClientTypes DEF LifeInv, OnlyAdmin, TypeOK, DeletedIsGone
  <1>15. Devices'
    BY <1>1, DevicesStay
  <1>16. PairedSurvives'
    BY <1>1, <1>2, <1>3 DEF LifeInv, OnlyAdmin, TypeOK, PairedSurvives
  <1>17. ASSUME NEW id \in Ids PROVE Rearmed(id)'
    BY <1>1, <1>2, ClientTypes DEF LifeInv, OnlyAdmin, TypeOK, Rearmed, Id
  <1> QED
    BY <1>1, <1>5, <1>10, <1>11, <1>12, <1>13, <1>14, <1>15, <1>16, <1>17, AdminKeeps DEF Making

LEMMA DisconnectKeeps == ASSUME LifeInv, NEW a \in Admins, Disconnect(a) PROVE LifeInv'
  <1> USE DEF Disconnect, Done, disk, memory, threads, history, Dials
  <1>1. OnlyAdmin(a, "disconnect", "drop")
    BY AdminMoved DEF LifeInv
  <1>2. Id(a) \in Ids /\ at[a] \in Request /\ a \in Threads /\ \A b \in Admins : Id(b) \in Ids
    BY ThreadsDiffer DEF LifeInv, TypeOK, Id, Request
  <1>3. Id(a) \notin kept
    BY <1>1, NotKept DEF OnlyAdmin, Making, Removing, Clearing
  <1>4. Id(a) \notin deleted \ overlap
    BY <1>1, NotGone DEF OnlyAdmin, Busy
  <1>5. Job(a)'
    BY <1>1, <1>2 DEF LifeInv, OnlyAdmin, Places, Job, Making, Undo, Removing, Clearing, Pairing, AdminSteps
  <1>10. TypeOK'
    BY <1>1, <1>2, LifeAssumption, StatusTypes, ClientTypes DEF LifeInv, TypeOK, Places, Conns, Auths
  <1>11. Rows'
    BY <1>1, <1>2 DEF LifeInv, OnlyAdmin, TypeOK, Rows, Fresh, Dropping, Busy, Id, Making
  <1>12. DatabaseHasRow'
    BY <1>1, <1>2 DEF LifeInv, OnlyAdmin, TypeOK, Rows, DatabaseHasRow, Dropping, Id
  <1>13. ASSUME NEW b \in Admins PROVE Dropping(b)'
    BY <1>1, <1>2 DEF LifeInv, OnlyAdmin, TypeOK, Dropping, Fresh, Alone, Busy, Id, Making
  <1>14. DeletedIsGone'
    BY <1>1, <1>2, <1>4, ClientTypes DEF LifeInv, OnlyAdmin, TypeOK, DeletedIsGone
  <1>15. Devices'
    <2> SUFFICES ASSUME NEW id \in Ids, id \in reg, client'[id].paired
                 PROVE  device'[id] \/ \E b \in Admins : pc'[b] = "unregister" /\ Id(b) = id
      BY DEF LifeInv, TypeOK, Devices, Id
    <2>1. client[id].paired /\ device'[id] = device[id]
      BY <1>2, ClientTypes DEF LifeInv, TypeOK
    <2>2. CASE device[id]
      BY <2>1, <2>2
    <2>3. CASE \E b \in Admins : pc[b] = "unregister" /\ Id(b) = id
      BY <1>1, <2>3 DEF OnlyAdmin
    <2> QED
      BY <2>1, <2>2, <2>3 DEF LifeInv, Devices
  <1>16. PairedSurvives'
    BY <1>1, <1>2, <1>3 DEF LifeInv, OnlyAdmin, TypeOK, PairedSurvives
  <1>17. ASSUME NEW id \in Ids PROVE Rearmed(id)'
    BY <1>1, <1>2, ClientTypes DEF LifeInv, OnlyAdmin, TypeOK, Rearmed, Id
  <1> QED
    BY <1>1, <1>5, <1>10, <1>11, <1>12, <1>13, <1>14, <1>15, <1>16, <1>17, AdminKeeps DEF Making

LEMMA DropKeeps == ASSUME LifeInv, NEW a \in Admins, Drop(a) PROVE LifeInv'
  <1> USE DEF Drop, Done, disk, memory, threads, history, DropDB, Fault
  <1>1. OnlyAdmin(a, "drop", "unregister")
    BY AdminMoved DEF LifeInv
  <1>2. Id(a) \in Ids /\ at[a] \in Request /\ a \in Threads /\ \A b \in Admins : Id(b) \in Ids
    BY ThreadsDiffer DEF LifeInv, TypeOK, Id, Request
  <1>3. Id(a) \notin kept
    BY <1>1, NotKept DEF OnlyAdmin, Making, Removing, Clearing
  <1>4. Id(a) \notin deleted \ overlap
    BY <1>1, NotGone DEF OnlyAdmin, Busy
  <1>5. Job(a)'
    BY <1>1, <1>2 DEF LifeInv, OnlyAdmin, Places, Job, Making, Undo, Removing, Clearing, Pairing, AdminSteps
  <1>10. TypeOK'
    <2>1. db' \in [Ids -> BOOLEAN] /\ device' \in [Ids -> BOOLEAN]
      BY <1>2 DEF LifeInv, TypeOK
    <2>2. \A id \in Ids : device'[id] => db'[id]
      BY <1>2 DEF LifeInv, TypeOK
    <2>3. client' \in [Ids -> Client]
      BY <1>2, ClientTypes DEF LifeInv, TypeOK, Conns
    <2> QED
      BY <1>2, <2>1, <2>2, <2>3, LifeAssumption DEF LifeInv, TypeOK
  <1>11. Rows'
    BY <1>1, <1>2 DEF LifeInv, OnlyAdmin, TypeOK, Rows, Fresh, Dropping, Busy, Id, Making
  <1>12. DatabaseHasRow'
    BY <1>1, <1>2 DEF LifeInv, OnlyAdmin, TypeOK, Rows, DatabaseHasRow, Dropping, Id
  <1>13. ASSUME NEW b \in Admins PROVE Dropping(b)'
    BY <1>1, <1>2 DEF LifeInv, OnlyAdmin, TypeOK, Dropping, Fresh, Alone, Busy, Id, Making
  <1>14. DeletedIsGone'
    BY <1>1, <1>2, <1>4, ClientTypes DEF LifeInv, OnlyAdmin, TypeOK, DeletedIsGone
  <1>15. Devices'
    <2>1. /\ Devices /\ device \in [Ids -> BOOLEAN]
          /\ device' = device \/ device' = [device EXCEPT ![Id(a)] = FALSE]
          /\ UNCHANGED <<reg, client, overlap, at>>
      BY DEF LifeInv, TypeOK
    <2>2. \A b \in Admins : Id(b)' = Id(b)
      BY <2>1 DEF Id
    <2>3. pc'[a] = "unregister" /\ \A b \in Admins : pc[b] = "unregister" => pc'[b] = "unregister"
      BY <1>1 DEF OnlyAdmin
    <2>4. \A id \in Ids : id # Id(a) => device'[id] = device[id]
      BY <2>1
    <2>5. reg \subseteq Ids
      BY DEF LifeInv, TypeOK
    <2> HIDE DEF Drop, Done, disk, memory, threads, history, DropDB, Fault
    <2> QED
      BY <2>1, <2>2, <2>3, <2>4, <2>5 DEF Devices
  <1>16. PairedSurvives'
    BY <1>1, <1>2, <1>3 DEF LifeInv, OnlyAdmin, TypeOK, PairedSurvives
  <1>17. ASSUME NEW id \in Ids PROVE Rearmed(id)'
    BY <1>1, <1>2, ClientTypes DEF LifeInv, OnlyAdmin, TypeOK, Rearmed, Id
  <1> QED
    BY <1>1, <1>5, <1>10, <1>11, <1>12, <1>13, <1>14, <1>15, <1>16, <1>17, AdminKeeps DEF Making

LEMMA UnregisterKeeps == ASSUME LifeInv, NEW a \in Admins, Unregister(a) PROVE LifeInv'
  <1> USE DEF Unregister, Done, disk, memory, threads, history
  <1>1. OnlyAdmin(a, "unregister", "delete_row")
    BY AdminMoved DEF LifeInv
  <1>2. Id(a) \in Ids /\ at[a] \in Request /\ a \in Threads /\ \A b \in Admins : Id(b) \in Ids
    BY ThreadsDiffer DEF LifeInv, TypeOK, Id, Request
  <1>3. Id(a) \notin kept
    BY <1>1, NotKept DEF OnlyAdmin, Making, Removing, Clearing
  <1>4. Id(a) \notin deleted \ overlap
    BY <1>1, NotGone DEF OnlyAdmin, Busy
  <1>5. Job(a)'
    BY <1>1, <1>2 DEF LifeInv, OnlyAdmin, Places, Job, Making, Undo, Removing, Clearing, Pairing, AdminSteps
  <1>10. TypeOK'
    BY <1>1, <1>2, LifeAssumption, StatusTypes, ClientTypes DEF LifeInv, TypeOK, Places, Conns, Auths
  <1>11. Rows'
    BY <1>1, <1>2 DEF LifeInv, OnlyAdmin, TypeOK, Rows, Fresh, Dropping, Busy, Id, Making
  <1>12. DatabaseHasRow'
    BY <1>1, <1>2 DEF LifeInv, OnlyAdmin, TypeOK, Rows, DatabaseHasRow, Dropping, Id
  <1>13. ASSUME NEW b \in Admins PROVE Dropping(b)'
    BY <1>1, <1>2 DEF LifeInv, OnlyAdmin, TypeOK, Dropping, Fresh, Alone, Busy, Id, Making
  <1>14. DeletedIsGone'
    BY <1>1, <1>2, <1>4, ClientTypes DEF LifeInv, OnlyAdmin, TypeOK, DeletedIsGone
  <1>15. Devices'
    BY <1>1, <1>2, ClientTypes DEF LifeInv, OnlyAdmin, TypeOK, Devices, Fresh, Alone, Busy, Id, Making
  <1>16. PairedSurvives'
    BY <1>1, <1>2, <1>3 DEF LifeInv, OnlyAdmin, TypeOK, PairedSurvives
  <1>17. ASSUME NEW id \in Ids PROVE Rearmed(id)'
    BY <1>1, <1>2, ClientTypes DEF LifeInv, OnlyAdmin, TypeOK, Rearmed, Id
  <1> QED
    BY <1>1, <1>5, <1>10, <1>11, <1>12, <1>13, <1>14, <1>15, <1>16, <1>17, AdminKeeps DEF Making

LEMMA DeleteRowKeeps == ASSUME LifeInv, NEW a \in Admins, DeleteRow(a) PROVE LifeInv'
  <1> USE DEF DeleteRow, Done, disk, memory, threads, history
  <1>1. OnlyAdmin(a, "delete_row", IF at[a].instance THEN "delete_instance" ELSE "idle")
    BY AdminMoved DEF LifeInv
  <1>2. Id(a) \in Ids /\ at[a] \in Request /\ a \in Threads /\ \A b \in Admins : Id(b) \in Ids
    BY ThreadsDiffer DEF LifeInv, TypeOK, Id, Request
  <1>3. Id(a) \notin kept
    BY <1>1, NotKept DEF OnlyAdmin, Making, Removing, Clearing
  <1>4. Id(a) \notin deleted \ overlap
    BY <1>1, NotGone DEF OnlyAdmin, Busy
  <1>5. Job(a)'
    BY <1>1, <1>2 DEF LifeInv, OnlyAdmin, Places, Job, Making, Undo, Removing, Clearing, Pairing, AdminSteps
  <1>10. TypeOK'
    BY <1>1, <1>2, LifeAssumption, StatusTypes, ClientTypes DEF LifeInv, TypeOK, Places, Conns, Auths
  <1>11. Rows'
    BY <1>1, <1>2 DEF LifeInv, OnlyAdmin, TypeOK, Rows, Fresh, Dropping, Busy, Id, Making
  <1>12. DatabaseHasRow'
    BY <1>1, <1>2 DEF LifeInv, OnlyAdmin, TypeOK, Rows, DatabaseHasRow, Dropping, Id
  <1>13. ASSUME NEW b \in Admins PROVE Dropping(b)'
    BY <1>1, <1>2 DEF LifeInv, OnlyAdmin, TypeOK, Dropping, Fresh, Alone, Busy, Id, Making
  <1>14. DeletedIsGone'
    BY <1>1, <1>2, <1>4 DEF LifeInv, OnlyAdmin, TypeOK, DeletedIsGone, Dropping
  <1>15. Devices'
    BY <1>1, DevicesStay
  <1>16. PairedSurvives'
    BY <1>1, <1>2, <1>3 DEF LifeInv, OnlyAdmin, TypeOK, PairedSurvives
  <1>17. ASSUME NEW id \in Ids PROVE Rearmed(id)'
    BY <1>1, <1>2, ClientTypes DEF LifeInv, OnlyAdmin, TypeOK, Rearmed, Id
  <1> QED
    BY <1>1, <1>5, <1>10, <1>11, <1>12, <1>13, <1>14, <1>15, <1>16, <1>17, AdminKeeps DEF Making

LEMMA DeleteInstanceKeeps == ASSUME LifeInv, NEW a \in Admins, DeleteInstance(a) PROVE LifeInv'
  <1> USE DEF DeleteInstance, Done, disk, memory, threads, history
  <1>1. OnlyAdmin(a, "delete_instance", "idle")
    BY AdminMoved DEF LifeInv
  <1>2. Id(a) \in Ids /\ at[a] \in Request /\ a \in Threads /\ \A b \in Admins : Id(b) \in Ids
    BY ThreadsDiffer DEF LifeInv, TypeOK, Id, Request
  <1>3. Id(a) \notin kept
    BY <1>1, NotKept DEF OnlyAdmin, Making, Removing, Clearing
  <1>5. Job(a)'
    BY <1>1, <1>2 DEF LifeInv, OnlyAdmin, Places, Job, Making, Undo, Removing, Clearing, Pairing, AdminSteps
  <1>10. TypeOK'
    BY <1>1, <1>2, LifeAssumption, StatusTypes, ClientTypes DEF LifeInv, TypeOK, Places, Conns, Auths
  <1>11. Rows'
    BY <1>1, <1>2 DEF LifeInv, OnlyAdmin, TypeOK, Rows, Fresh, Dropping, Busy, Id, Making
  <1>12. DatabaseHasRow'
    BY <1>1, <1>2 DEF LifeInv, OnlyAdmin, TypeOK, Rows, DatabaseHasRow, Dropping, Id
  <1>13. ASSUME NEW b \in Admins PROVE Dropping(b)'
    BY <1>1, <1>2 DEF LifeInv, OnlyAdmin, TypeOK, Dropping, Fresh, Alone, Busy, Id, Making
  <1>14. DeletedIsGone'
    BY <1>1, <1>2, ClientTypes DEF LifeInv, OnlyAdmin, TypeOK, DeletedIsGone
  <1>15. Devices'
    BY <1>1, DevicesStay
  <1>16. PairedSurvives'
    BY <1>1, <1>2, <1>3 DEF LifeInv, OnlyAdmin, TypeOK, PairedSurvives
  <1>17. ASSUME NEW id \in Ids PROVE Rearmed(id)'
    BY <1>1, <1>2, ClientTypes DEF LifeInv, OnlyAdmin, TypeOK, Rearmed, Id
  <1> QED
    BY <1>1, <1>5, <1>10, <1>11, <1>12, <1>13, <1>14, <1>15, <1>16, <1>17, AdminKeeps DEF Making

-----------------------------------------------------------------------------
(* A request arrives *)

LEMMA ArrivesKeeps ==
    ASSUME LifeInv, NEW a \in Admins, NEW instance, NEW found, NEW step,
           running, pc[a] = "idle", requests[a] # <<>>, Arrives(a, instance, found, step),
           \/ step = "insert" /\ NeverUsed(Asked(a)) /\ Head(requests[a]).op = "create"
           \/ step = "unlink" /\ (found => Asked(a) \in reg) /\ Head(requests[a]).op \in Undo
           \/ step \in {"replace", "reconnect"} /\ (found => Asked(a) \in reg)
    PROVE  LifeInv'
  <1> USE DEF Arrives, Asked
  <1>1. requests[a] \in Seq(Request) /\ Head(requests[a]) \in Request /\ Tail(requests[a]) \in Seq(Request)
    BY DEF LifeInv, Places
  <1>2. /\ pc' = [t \in Threads |-> pc'[t]] /\ (pc'[a] = "idle" \/ (pc'[a] = step /\ found))
        /\ \A b \in Admins : b # a => pc'[b] = pc[b]
        /\ pc'[Main] = pc[Main] /\ \A id \in Ids : pc'[Ev(id)] = pc[Ev(id)] /\ pc'[Qr(id)] = pc[Qr(id)]
    BY ThreadsDiffer DEF LifeInv, Places
  <1>3. /\ at' \in [Threads -> Request] /\ at'[a] = Head(requests[a])
        /\ \A b \in Admins : b # a => at'[b] = at[b]
        /\ at'[Main] = at[Main] /\ \A id \in Ids : at'[Ev(id)] = at[Ev(id)] /\ at'[Qr(id)] = at[Qr(id)]
    BY <1>1, ThreadsDiffer DEF LifeInv, TypeOK
  <1>4. Asked(a) \in Ids /\ Id(a)' = Asked(a) /\ \A b \in Admins : b # a => Id(b)' = Id(b)
    BY <1>1, <1>3 DEF Id, Request
  <1>5. /\ UNCHANGED <<disk, memory, faults, drops, deleted, leaked, untold, late>>
        /\ overlap \subseteq overlap' /\ overlap' \subseteq overlap \cup {Asked(a)} /\ kept' \subseteq kept
        /\ Head(requests[a]).op \in Undo => Asked(a) \notin kept'
        /\ \A b \in Admins : b # a /\ Busy(b) /\ Id(b) = Asked(a) => Asked(a) \in overlap'
    BY DEF Undo, Busy
  <1>6. Busy(a)' => pc'[a] = step /\ (step = "insert" \/ Asked(a) \in reg)
    BY <1>2 DEF Busy
  <1> USE DEF disk, memory
  <1>10. TypeOK'
    BY <1>3, <1>4, <1>5 DEF LifeInv, TypeOK
  <1>11. Places'
    <2>1. ASSUME NEW b \in Admins PROVE Job(b)'
      <3>1. Job(b)
        BY DEF LifeInv, Places
      <3>2. CASE b # a
        BY <1>2, <1>3, <3>1, <3>2 DEF Job
      <3>3. \/ pc'[a] \in {"idle", "insert", "replace", "reconnect"}
            \/ pc'[a] = "unlink" /\ at'[a].op \in Undo
        <4> HIDE DEF Arrives
        <4> QED
          BY <1>2, <1>3
      <3>4. Job(a)'
        BY <3>3 DEF Job, Making, Removing, Clearing, Pairing, AdminSteps
      <3> QED
        BY <3>2, <3>4
    <2>2. ASSUME NEW id \in Ids PROVE Handling(Ev(id), id)' /\ Handling(Qr(id), id)' /\ (notes[id] <= drops)'
      BY <1>2, <1>3, <1>5 DEF LifeInv, Places, Handling, Id
    <2>3. requests' \in [Admins -> Seq(Request)]
      BY <1>1 DEF LifeInv, Places
    <2> QED
      BY <1>2, <2>1, <2>2, <2>3 DEF Places
  <1>12. Restoring'
    <2>1. /\ Restoring /\ running /\ UNCHANGED <<running, todo, reg>>
          /\ pc'[Main] = pc[Main]
      BY <1>2, <1>5 DEF LifeInv
    <2>2. pc'[Main] = "idle" /\ running' /\ todo' = {} /\ pc'[Main] \in MainSteps
      BY <2>1 DEF Restoring
    <2> QED
      BY <2>2 DEF Restoring
  <1>13. Alone'
    BY <1>2, <1>4, <1>5 DEF LifeInv, Alone, Busy
  <1>14. ASSUME NEW b \in Admins PROVE Fresh(b)'
    <2>1. CASE b = a
      <3> SUFFICES ASSUME pc'[a] \in Making PROVE Fresh(a)'
        BY <2>1 DEF Fresh
      <3>1. NeverUsed(Asked(a))
        BY <1>2 DEF Making
      <3>2. Asked(a) \notin kept
        BY <3>1 DEF NeverUsed, LifeInv, PairedSurvives
      <3> QED
        BY <1>2, <1>4, <1>5, <2>1, <3>1, <3>2 DEF Fresh, NeverUsed, Busy
    <2>2. CASE b # a /\ pc[b] \in Making /\ Busy(a)'
      <3>1. Id(b) # Asked(a)
        BY <1>6, <2>2 DEF LifeInv, Fresh, NeverUsed, Making
      <3> QED
        BY <1>2, <1>4, <1>5, <2>2, <3>1 DEF LifeInv, Fresh, Busy
    <2>3. CASE b # a /\ pc[b] \in Making /\ ~Busy(a)'
      BY <1>2, <1>4, <1>5, <2>3 DEF LifeInv, Fresh, Busy
    <2> QED
      BY <1>2, <2>1, <2>2, <2>3 DEF Fresh
  <1>15. Rows'
    BY <1>2, <1>4, <1>5 DEF LifeInv, Rows
  <1>16. DatabaseHasRow'
    BY <1>5 DEF LifeInv, DatabaseHasRow
  <1>17. ASSUME NEW b \in Admins PROVE Dropping(b)'
    BY <1>2, <1>4, <1>5 DEF LifeInv, Dropping
  <1>18. DeletedIsGone'
    BY <1>5 DEF LifeInv, DeletedIsGone
  <1>19. Lingering'
    BY <1>2, <1>4, <1>5, <1>6 DEF LifeInv, Lingering, Busy, NeverUsed, DeletedIsGone
  <1>20. Devices'
    BY <1>2, <1>4, <1>5 DEF LifeInv, Devices
  <1>21. PairedSurvives' /\ Restorable'
    BY <1>5 DEF LifeInv, PairedSurvives, Restorable
  <1>22. ASSUME NEW b \in Admins PROVE NotUndone(b)'
    BY <1>2, <1>3, <1>4, <1>5 DEF LifeInv, NotUndone, Busy
  <1>23. ASSUME NEW id \in Ids PROVE Rearmed(id)'
    BY <1>2, <1>5 DEF LifeInv, Rearmed
  <1> QED
    BY <1>10, <1>11, <1>12, <1>13, <1>14, <1>15, <1>16, <1>17, <1>18, <1>19, <1>20, <1>21, <1>22, <1>23 DEF LifeInv

LEMMA BeginKeeps == ASSUME LifeInv, NEW a \in Admins, Begin(a) PROVE LifeInv'
  <1> USE DEF Asks, Asked, HasSession
  <1>1. CASE HandleSessionCreate(a) \/ CreateInstance(a)
    BY <1>1, ArrivesKeeps DEF HandleSessionCreate, CreateInstance
  <1>2. CASE HandleSessionDelete(a) \/ HandleSessionLogout(a)
    BY <1>2, ArrivesKeeps DEF HandleSessionDelete, HandleSessionLogout, Undo
  <1>3. CASE HandleDeleteInstance(a) \/ LogoutInstance(a)
    BY <1>3, ArrivesKeeps DEF HandleDeleteInstance, LogoutInstance, Undo
  <1>4. CASE HandleSessionPair(a) \/ PairInstance(a)
    BY <1>4, ArrivesKeeps DEF HandleSessionPair, PairInstance, MayPair
  <1>5. CASE HandleSetProxy(a)
    BY <1>5, ArrivesKeeps DEF HandleSetProxy
  <1> QED
    BY <1>1, <1>2, <1>3, <1>4, <1>5 DEF Begin

-----------------------------------------------------------------------------
(* Events and goroutines: what they leave alone *)

LEMMA EventKeeps ==
    ASSUME LifeInv, TypeOK', Places', Devices', PairedSurvives', \A id \in Ids : Rearmed(id)',
           \A b \in Admins \cup {Main} : pc'[b] = pc[b] /\ at'[b] = at[b],
           UNCHANGED <<running, todo, reg, db, faults, overlap, deleted, leaked>>,
           \A id \in Ids : row'[id] = "none" <=> row[id] = "none",
           \A id \in Ids : client[id].conn = "off" => client'[id].conn = "off",
           \A id \in kept' : id \in kept \/ (id \in reg /\ ~Undoing(id))
    PROVE  LifeInv'
  <1>1. \A b \in Admins : Id(b)' = Id(b) /\ Id(b) \in Ids
    BY ThreadsDiffer DEF LifeInv, TypeOK, Id, Request
  <1>2. Restoring' /\ Restorable'
    BY DEF LifeInv, Restoring, Restorable, Busy, Id
  <1>3. Alone' /\ Lingering'
    BY <1>1 DEF LifeInv, Alone, Lingering, Busy
  <1>4. ASSUME NEW a \in Admins PROVE Fresh(a)'
    BY <1>1 DEF LifeInv, Fresh, Busy
  <1>5. Rows' /\ DatabaseHasRow'
    BY <1>1 DEF LifeInv, TypeOK, Rows, DatabaseHasRow
  <1>6. ASSUME NEW a \in Admins PROVE Dropping(a)'
    BY <1>1 DEF LifeInv, Dropping
  <1>7. DeletedIsGone'
    BY DEF LifeInv, TypeOK, DeletedIsGone
  <1>8. ASSUME NEW a \in Admins PROVE NotUndone(a)'
    BY <1>1 DEF LifeInv, NotUndone, Busy, Undoing, Undo
  <1> QED
    BY <1>2, <1>3, <1>4, <1>5, <1>6, <1>7, <1>8 DEF LifeInv

\* What the handlers are doing is as before, if no thread has moved.
LEMMA HandlingStays ==
    ASSUME LifeInv, pc' = pc, at' = at, NEW i \in Ids
    PROVE  Handling(Ev(i), i)' /\ Handling(Qr(i), i)'
  BY DEF LifeInv, Places, Handling, Id, About

\* ... or if one of them went on within its work.
LEMMA HandlingGoes ==
    ASSUME LifeInv, NEW t \in Handlers, at' = at, pc[t] # "idle", pc'[t] \in {"idle", "jid", "auth"},
           \A u \in Threads : u # t => pc'[u] = pc[u], NEW i \in Ids
    PROVE  Handling(Ev(i), i)' /\ Handling(Qr(i), i)'
  <1>1. Ev(i) \in Threads /\ Qr(i) \in Threads
    BY ThreadsDiffer
  <1>2. Handling(Ev(i), i) /\ Handling(Qr(i), i)
    BY DEF LifeInv, Places
  <1> QED
    BY <1>1, <1>2 DEF Handling, Id, About

LEMMA EventPlaces ==
    ASSUME LifeInv, pc' = [t \in Threads |-> pc'[t]], UNCHANGED requests,
           \A b \in Admins : pc'[b] = pc[b] /\ at'[b] = at[b],
           \A id \in Ids : Handling(Ev(id), id)' /\ Handling(Qr(id), id)' /\ notes'[id] <= drops'
    PROVE  Places'
  <1>1. ASSUME NEW b \in Admins PROVE Job(b)'
    BY DEF LifeInv, Places, Job
  <1> QED
    BY <1>1 DEF LifeInv, Places

LEMMA UpdateStatusKeeps == ASSUME LifeInv, NEW id \in Ids, NEW s \in Statuses, UpdateStatus(id, s) PROVE LifeInv'
  <1> USE DEF UpdateStatus, disk, memory, threads, history
  <1>1. pc' = pc /\ at' = at
    OBVIOUS
  <1>10. TypeOK'
    BY <1>1, ThreadsDiffer, LifeAssumption, StatusTypes, ClientTypes DEF LifeInv, TypeOK, Places, Conns, Auths
  <1>11. Places'
    <2>1. ASSUME NEW i \in Ids PROVE Handling(Ev(i), i)' /\ Handling(Qr(i), i)'
      BY <1>1, HandlingStays
    <2>2. ASSUME NEW i \in Ids PROVE notes'[i] <= drops'
      BY <1>1 DEF LifeInv, TypeOK, Places
    <2>3. pc' = [u \in Threads |-> pc'[u]]
      BY <1>1 DEF LifeInv, Places
    <2> QED
      BY <1>1, <2>1, <2>2, <2>3, EventPlaces
  <1>12. Devices'
    BY <1>1, ClientTypes DEF LifeInv, TypeOK, Devices, Id
  <1>13. PairedSurvives'
    BY <1>1 DEF LifeInv, TypeOK, PairedSurvives
  <1>14. ASSUME NEW i \in Ids PROVE Rearmed(i)'
    BY <1>1, ThreadsDiffer, ClientTypes DEF LifeInv, TypeOK, Places, Handling, Rearmed, Id
  <1>15. /\ \A i \in Ids : row'[i] = "none" <=> row[i] = "none"
         /\ \A i \in Ids : client[i].conn = "off" => client'[i].conn = "off"
         /\ \A i \in kept' : i \in kept \/ (i \in reg /\ ~Undoing(i))
    BY <1>1, ClientTypes DEF LifeInv, TypeOK, Conns
  <1> QED
    BY <1>1, <1>10, <1>11, <1>12, <1>13, <1>14, <1>15, EventKeeps

LEMMA QrEventKeeps == ASSUME LifeInv, NEW id \in Ids, NEW a \in Auths, QrEvent(id, a) PROVE LifeInv'
  <1> USE DEF QrEvent, disk, memory, threads, history, SetAuth
  <1>1. pc' = pc /\ at' = at
    OBVIOUS
  <1>10. TypeOK'
    BY <1>1, ThreadsDiffer, LifeAssumption, StatusTypes, ClientTypes DEF LifeInv, TypeOK, Places, Conns, Auths
  <1>11. Places'
    <2>1. ASSUME NEW i \in Ids PROVE Handling(Ev(i), i)' /\ Handling(Qr(i), i)'
      BY <1>1, HandlingStays
    <2>2. ASSUME NEW i \in Ids PROVE notes'[i] <= drops'
      BY <1>1 DEF LifeInv, TypeOK, Places
    <2>3. pc' = [u \in Threads |-> pc'[u]]
      BY <1>1 DEF LifeInv, Places
    <2> QED
      BY <1>1, <2>1, <2>2, <2>3, EventPlaces
  <1>12. Devices'
    BY <1>1, ClientTypes DEF LifeInv, TypeOK, Devices, Id
  <1>13. PairedSurvives'
    BY <1>1 DEF LifeInv, TypeOK, PairedSurvives
  <1>14. ASSUME NEW i \in Ids PROVE Rearmed(i)'
    BY <1>1, ThreadsDiffer, ClientTypes DEF LifeInv, TypeOK, Places, Handling, Rearmed, Id
  <1>15. /\ \A i \in Ids : row'[i] = "none" <=> row[i] = "none"
         /\ \A i \in Ids : client[i].conn = "off" => client'[i].conn = "off"
         /\ \A i \in kept' : i \in kept \/ (i \in reg /\ ~Undoing(i))
    BY <1>1, ClientTypes DEF LifeInv, TypeOK, Conns
  <1> QED
    BY <1>1, <1>10, <1>11, <1>12, <1>13, <1>14, <1>15, EventKeeps

LEMMA PairSuccessKeeps == ASSUME LifeInv, NEW id \in Ids, PairSuccess(id) PROVE LifeInv'
  <1> USE DEF PairSuccess, disk, memory, threads, history
  <1>1. /\ pc' = [t \in Threads |-> pc'[t]] /\ pc'[Qr(id)] \in {"idle", "jid"} /\ at'[Qr(id)] = About(id)
        /\ \A t \in Threads : t # Qr(id) => pc'[t] = pc[t] /\ at'[t] = at[t]
        /\ \A b \in Admins \cup {Main} : pc'[b] = pc[b] /\ at'[b] = at[b]
    <2>1. pc = [t \in Threads |-> pc[t]] /\ at = [t \in Threads |-> at[t]]
      BY DEF LifeInv, Places, TypeOK
    <2>2. Qr(id) \in Threads /\ \A b \in Admins \cup {Main} : b \in Threads /\ b # Qr(id)
      BY ThreadsDiffer
    <2>3. /\ pc' = [t \in Threads |-> pc'[t]] /\ at'[Qr(id)] = About(id)
          /\ \A t \in Threads : t # Qr(id) => pc'[t] = pc[t] /\ at'[t] = at[t]
      BY <2>1, <2>2
    <2>4. pc'[Qr(id)] \in {"idle", "jid"}
      BY <2>1, <2>2
    <2> QED
      BY <2>2, <2>3, <2>4
  <1>10. TypeOK'
    <2>1. client' \in [Ids -> Client]
      BY ClientTypes DEF LifeInv, TypeOK, Conns
    <2>2. at' \in [Threads -> Request]
      BY DEF LifeInv, TypeOK, About, Request, Ops
    <2> QED
      BY <2>1, <2>2 DEF LifeInv, TypeOK
  <1>11. Places'
    <2>1. ASSUME NEW i \in Ids PROVE Handling(Ev(i), i)' /\ Handling(Qr(i), i)'
      <3>1. Handling(Ev(i), i) /\ Handling(Qr(i), i)
        BY DEF LifeInv, Places
      <3>2. pc'[Ev(i)] = pc[Ev(i)] /\ at'[Ev(i)] = at[Ev(i)]
        BY <1>1, ThreadsDiffer
      <3>3. i # id => pc'[Qr(i)] = pc[Qr(i)] /\ at'[Qr(i)] = at[Qr(i)]
        BY <1>1, ThreadsDiffer
      <3>4. i = id => pc'[Qr(i)] \in {"idle", "jid"} /\ at'[Qr(i)].id = i
        BY <1>1 DEF About
      <3> QED
        BY <3>1, <3>2, <3>3, <3>4 DEF Handling, Id
    <2>2. ASSUME NEW i \in Ids PROVE notes'[i] <= drops'
      BY <1>1 DEF LifeInv, TypeOK, Places
    <2>3. pc' = [u \in Threads |-> pc'[u]]
      BY <1>1 DEF LifeInv, Places
    <2> QED
      BY <1>1, <2>1, <2>2, <2>3, EventPlaces
  <1>12. Devices'
    BY <1>1, ClientTypes DEF LifeInv, TypeOK, Devices, Id
  <1>13. PairedSurvives'
    BY <1>1 DEF LifeInv, TypeOK, PairedSurvives
  <1>14. ASSUME NEW i \in Ids PROVE Rearmed(i)'
    <2>1. pc'[Ev(i)] = pc[Ev(i)]
      BY <1>1, ThreadsDiffer
    <2>2. client'[i] = client[i] \/ client'[i].conn # "on"
      BY <1>1, ClientTypes DEF LifeInv, TypeOK, Conns
    <2> QED
      BY <1>1, <2>1, <2>2 DEF LifeInv, TypeOK, Rearmed
  <1>15. /\ \A i \in Ids : row'[i] = "none" <=> row[i] = "none"
         /\ \A i \in Ids : client[i].conn = "off" => client'[i].conn = "off"
         /\ \A i \in kept' : i \in kept \/ (i \in reg /\ ~Undoing(i))
    BY <1>1, ClientTypes DEF LifeInv, TypeOK, Conns
  <1> QED
    BY <1>1, <1>10, <1>11, <1>12, <1>13, <1>14, <1>15, EventKeeps

LEMMA ConnectedKeeps == ASSUME LifeInv, NEW id \in Ids, Connected(id) PROVE LifeInv'
  <1> USE DEF Connected, disk, memory, threads, history, Dials
  <1>1. /\ pc' = [t \in Threads |-> pc'[t]] /\ pc'[Ev(id)] = "jid" /\ at'[Ev(id)] = About(id)
        /\ \A t \in Threads : t # Ev(id) => pc'[t] = pc[t] /\ at'[t] = at[t]
        /\ \A b \in Admins \cup {Main} : pc'[b] = pc[b] /\ at'[b] = at[b]
    BY Moved, ThreadsDiffer DEF LifeInv, Places, TypeOK, About, Id
  <1>10. TypeOK'
    <2>1. client \in [Ids -> Client] /\ client[id] \in Client
      BY DEF LifeInv, TypeOK
    <2>2. \A c \in Conns : Dials(id, c) \in Client
      BY <2>1, ClientTypes
    <2>5. NewClient \in Client /\ "off" \in Conns /\ "dialing" \in Conns /\ "on" \in Conns
      BY ClientTypes DEF Conns
    <2>3. client' \in [Ids -> Client]
      BY <2>1, <2>2, <2>5
    <2>4. at' \in [Threads -> Request]
      BY DEF LifeInv, TypeOK, About, Request, Ops
    <2> QED
      BY <2>3, <2>4 DEF LifeInv, TypeOK
  <1>11. Places'
    <2>1. ASSUME NEW i \in Ids PROVE Handling(Ev(i), i)' /\ Handling(Qr(i), i)'
      <3>1. Handling(Qr(i), i) /\ Handling(Ev(i), i)
        BY DEF LifeInv, Places
      <3>2. pc'[Qr(i)] = pc[Qr(i)] /\ at'[Qr(i)] = at[Qr(i)]
        BY <1>1, ThreadsDiffer
      <3>3. i # id => pc'[Ev(i)] = pc[Ev(i)] /\ at'[Ev(i)] = at[Ev(i)]
        BY <1>1, ThreadsDiffer
      <3>4. i = id => pc'[Ev(i)] \in {"idle", "jid"} /\ at'[Ev(i)].id = i
        BY <1>1 DEF About
      <3> QED
        BY <3>1, <3>2, <3>3, <3>4 DEF Handling, Id
    <2>2. ASSUME NEW i \in Ids PROVE notes'[i] <= drops'
      BY <1>1 DEF LifeInv, TypeOK, Places
    <2>3. pc' = [u \in Threads |-> pc'[u]]
      BY <1>1 DEF LifeInv, Places
    <2> QED
      BY <1>1, <2>1, <2>2, <2>3, EventPlaces
  <1>12. Devices'
    BY <1>1, ClientTypes DEF LifeInv, TypeOK, Devices, Id
  <1>13. PairedSurvives'
    BY <1>1 DEF LifeInv, TypeOK, PairedSurvives
  <1>14. ASSUME NEW i \in Ids PROVE Rearmed(i)'
    <2>1. CASE i = id
      BY <1>1, <2>1 DEF LifeInv, Rearmed
    <2>2. CASE i # id
      <3>1. pc'[Ev(i)] = pc[Ev(i)] /\ client'[i] = client[i]
        BY <1>1, <2>2, ThreadsDiffer DEF LifeInv, TypeOK
      <3> QED
        BY <3>1 DEF LifeInv, Rearmed
    <2> QED
      BY <2>1, <2>2
  <1>15. /\ \A i \in Ids : row'[i] = "none" <=> row[i] = "none"
         /\ \A i \in Ids : client[i].conn = "off" => client'[i].conn = "off"
         /\ \A i \in kept' : i \in kept \/ (i \in reg /\ ~Undoing(i))
    BY <1>1, ClientTypes DEF LifeInv, TypeOK, Conns
  <1> QED
    BY <1>1, <1>10, <1>11, <1>12, <1>13, <1>14, <1>15, EventKeeps

LEMMA InterruptedKeeps == ASSUME LifeInv, NEW id \in Ids, Interrupted(id) PROVE LifeInv'
  <1> USE DEF Interrupted, disk, memory, threads, history, Dials
  <1>1. pc' = pc /\ at' = at
    OBVIOUS
  <1>10. TypeOK'
    BY <1>1, ThreadsDiffer, LifeAssumption, StatusTypes, ClientTypes DEF LifeInv, TypeOK, Places, Conns, Auths
  <1>11. Places'
    <2>1. ASSUME NEW i \in Ids PROVE Handling(Ev(i), i)' /\ Handling(Qr(i), i)'
      BY <1>1, HandlingStays
    <2>2. ASSUME NEW i \in Ids PROVE notes'[i] <= drops'
      BY <1>1 DEF LifeInv, TypeOK, Places
    <2>3. pc' = [u \in Threads |-> pc'[u]]
      BY <1>1 DEF LifeInv, Places
    <2> QED
      BY <1>1, <2>1, <2>2, <2>3, EventPlaces
  <1>12. Devices'
    BY <1>1, ClientTypes DEF LifeInv, TypeOK, Devices, Id
  <1>13. PairedSurvives'
    BY <1>1 DEF LifeInv, TypeOK, PairedSurvives
  <1>14. ASSUME NEW i \in Ids PROVE Rearmed(i)'
    <2>1. pc'[Ev(i)] = pc[Ev(i)]
      BY <1>1, ThreadsDiffer
    <2>2. client'[i] = client[i] \/ client'[i].conn # "on"
      BY <1>1, ClientTypes DEF LifeInv, TypeOK, Conns
    <2> QED
      BY <1>1, <2>1, <2>2 DEF LifeInv, TypeOK, Rearmed
  <1>15. /\ \A i \in Ids : row'[i] = "none" <=> row[i] = "none"
         /\ \A i \in Ids : client[i].conn = "off" => client'[i].conn = "off"
         /\ \A i \in kept' : i \in kept \/ (i \in reg /\ ~Undoing(i))
    BY <1>1, ClientTypes DEF LifeInv, TypeOK, Conns
  <1> QED
    BY <1>1, <1>10, <1>11, <1>12, <1>13, <1>14, <1>15, EventKeeps

LEMMA RecordJIDKeeps == ASSUME LifeInv, NEW t \in Handlers, RecordJID(t) PROVE LifeInv'
  <1> USE DEF RecordJID, disk, memory, threads, history, SetJID, RecordsJID
  <1>1. /\ pc' = [u \in Threads |-> pc'[u]] /\ pc[t] = "jid" /\ pc'[t] = "auth" /\ at' = at
        /\ \A u \in Threads : u # t => pc'[u] = pc[u]
        /\ \A b \in Admins \cup {Main} : pc'[b] = pc[b] /\ at'[b] = at[b]
    BY Moved, ThreadsDiffer DEF LifeInv, Places, TypeOK, About, Id
  <1>2. PICK id \in Ids : (t = Ev(id) \/ t = Qr(id)) /\ Id(t) = id
    <2>1. PICK i \in Ids : t = Ev(i) \/ t = Qr(i)
      BY ThreadsDiffer
    <2>2. Handling(Ev(i), i) /\ Handling(Qr(i), i)
      BY DEF LifeInv, Places
    <2> QED
      BY <1>1, <2>1, <2>2 DEF Handling
  <1>3. \A i \in Ids : i # id => pc'[Ev(i)] = pc[Ev(i)]
    BY <1>1, <1>2, ThreadsDiffer
  <1>10. TypeOK'
    BY <1>2 DEF LifeInv, TypeOK
  <1>11. Places'
    <2>1. ASSUME NEW i \in Ids PROVE Handling(Ev(i), i)' /\ Handling(Qr(i), i)'
      BY <1>1, HandlingGoes
    <2>2. ASSUME NEW i \in Ids PROVE notes'[i] <= drops'
      BY <1>1, <1>2 DEF LifeInv, TypeOK, Places
    <2>3. pc' = [u \in Threads |-> pc'[u]]
      BY <1>1, <1>2 DEF LifeInv, Places
    <2> QED
      BY <1>1, <1>2, <2>1, <2>2, <2>3, EventPlaces
  <1>12. Devices'
    BY <1>1, ClientTypes DEF LifeInv, TypeOK, Devices, Id
  <1>13. PairedSurvives'
    <2>1. id \in kept' /\ id \notin kept => device[id]
      BY <1>2 DEF LifeInv, Devices, Undoing, Places, Job, Removing
    <2>2. ASSUME NEW i \in kept' PROVE row'[i] = "paired" /\ device[i]
      BY <1>2, <2>1 DEF LifeInv, TypeOK, PairedSurvives, Rows
    <2> QED
      BY <1>2, <2>2 DEF LifeInv, PairedSurvives
  <1>14. ASSUME NEW i \in Ids PROVE Rearmed(i)'
    <2>1. pc'[Ev(i)] = "idle" => pc[Ev(i)] = "idle"
      BY <1>1, <1>2, <1>3, ThreadsDiffer
    <2> QED
      BY <2>1 DEF LifeInv, Rearmed
  <1>15. /\ \A i \in Ids : row'[i] = "none" <=> row[i] = "none"
         /\ \A i \in Ids : client[i].conn = "off" => client'[i].conn = "off"
         /\ \A i \in kept' : i \in kept \/ (i \in reg /\ ~Undoing(i))
    BY <1>1, ClientTypes DEF LifeInv, TypeOK, Conns
  <1> QED
    BY <1>1, <1>10, <1>11, <1>12, <1>13, <1>14, <1>15, EventKeeps

LEMMA OpenAuthKeeps == ASSUME LifeInv, NEW t \in Handlers, OpenAuth(t) PROVE LifeInv'
  <1> USE DEF OpenAuth, disk, memory, threads, history, SetAuth, Done, Rearm
  <1>1. /\ pc' = [u \in Threads |-> pc'[u]] /\ pc[t] = "auth" /\ pc'[t] = "idle" /\ at' = at
        /\ \A u \in Threads : u # t => pc'[u] = pc[u]
        /\ \A b \in Admins \cup {Main} : pc'[b] = pc[b] /\ at'[b] = at[b]
    BY Moved, ThreadsDiffer DEF LifeInv, Places, TypeOK, About, Id
  <1>2. PICK id \in Ids : (t = Ev(id) \/ t = Qr(id)) /\ Id(t) = id
    <2>1. PICK i \in Ids : t = Ev(i) \/ t = Qr(i)
      BY ThreadsDiffer
    <2>2. Handling(Ev(i), i) /\ Handling(Qr(i), i)
      BY DEF LifeInv, Places
    <2> QED
      BY <1>1, <2>1, <2>2 DEF Handling
  <1>3. \A i \in Ids : i # id => pc'[Ev(i)] = pc[Ev(i)]
    BY <1>1, <1>2, ThreadsDiffer
  <1>10. TypeOK'
    <2>1. auth' \in [Ids -> Auths] /\ updates' \in [Ids -> SUBSET Statuses] /\ alerted' \subseteq Ids /\ late' \subseteq Ids
      BY <1>2, StatusTypes DEF LifeInv, TypeOK, Auths
    <2> QED
      BY <2>1 DEF LifeInv, TypeOK
  <1>11. Places'
    <2>1. ASSUME NEW i \in Ids PROVE Handling(Ev(i), i)' /\ Handling(Qr(i), i)'
      BY <1>1, HandlingGoes
    <2>2. ASSUME NEW i \in Ids PROVE notes'[i] <= drops'
      BY <1>1, <1>2 DEF LifeInv, TypeOK, Places
    <2>3. pc' = [u \in Threads |-> pc'[u]]
      BY <1>1, <1>2 DEF LifeInv, Places
    <2> QED
      BY <1>1, <1>2, <2>1, <2>2, <2>3, EventPlaces
  <1>12. Devices'
    BY <1>1, ClientTypes DEF LifeInv, TypeOK, Devices, Id
  <1>13. PairedSurvives'
    BY <1>1 DEF LifeInv, TypeOK, PairedSurvives
  <1>14. ASSUME NEW i \in Ids PROVE Rearmed(i)'
    <2>1. CASE i = id /\ t = Ev(id)
      BY <1>2, <2>1 DEF LifeInv, TypeOK, Rearmed
    <2>2. CASE i # id \/ t # Ev(id)
      <3>1. pc'[Ev(i)] = pc[Ev(i)]
        BY <1>1, <1>2, <2>2, ThreadsDiffer
      <3>2. (i \in alerted' => i \in alerted) /\ (i \notin late' => i \notin late)
        BY <1>2
      <3> QED
        BY <3>1, <3>2 DEF LifeInv, Rearmed
    <2> QED
      BY <2>1, <2>2
  <1>15. /\ \A i \in Ids : row'[i] = "none" <=> row[i] = "none"
         /\ \A i \in Ids : client[i].conn = "off" => client'[i].conn = "off"
         /\ \A i \in kept' : i \in kept \/ (i \in reg /\ ~Undoing(i))
    BY <1>1, ClientTypes DEF LifeInv, TypeOK, Conns
  <1> QED
    BY <1>1, <1>10, <1>11, <1>12, <1>13, <1>14, <1>15, EventKeeps

LEMMA DroppedKeeps == ASSUME LifeInv, NEW id \in Ids, Dropped(id) PROVE LifeInv'
  <1> USE DEF Dropped, disk, memory, threads, history, SetAuth, Dials
  <1>1. pc' = pc /\ at' = at
    OBVIOUS
  <1>10. TypeOK'
    <2>1. client \in [Ids -> Client] /\ client[id] \in Client
      BY DEF LifeInv, TypeOK
    <2>2. \A c \in Conns : Dials(id, c) \in Client
      BY <2>1, ClientTypes
    <2>5. NewClient \in Client /\ "off" \in Conns /\ "dialing" \in Conns /\ "on" \in Conns
      BY ClientTypes DEF Conns
    <2>3. client' \in [Ids -> Client]
      BY <2>1, <2>2, <2>5
    <2>4. notes' \in [Ids -> 0 .. MaxDrops] /\ drops' \in 0 .. MaxDrops
      BY LifeAssumption DEF LifeInv, TypeOK, Places
    <2>7. auth' \in [Ids -> Auths] /\ updates' \in [Ids -> SUBSET Statuses]
      BY StatusTypes DEF LifeInv, TypeOK, Auths
    <2>6. device' \in [Ids -> BOOLEAN] /\ \A i \in Ids : device'[i] => db[i]
      BY DEF LifeInv, TypeOK
    <2>8. UNCHANGED <<row, db, inst, running, todo, reg, open, alerted, threads,
                     faults, overlap, deleted, leaked, late>>
      OBVIOUS
    <2>10. TypeOK
      BY DEF LifeInv
    <2>9. kept' \in SUBSET Ids /\ untold' \in SUBSET Ids
      BY <2>10 DEF TypeOK
    <2> HIDE DEF Dropped
    <2> QED
      BY <2>3, <2>4, <2>6, <2>7, <2>8, <2>9, <2>10 DEF TypeOK
  <1>11. Places'
    <2>1. ASSUME NEW i \in Ids PROVE Handling(Ev(i), i)' /\ Handling(Qr(i), i)'
      BY <1>1, HandlingStays
    <2>2. ASSUME NEW i \in Ids PROVE notes'[i] <= drops'
      BY <1>1 DEF LifeInv, TypeOK, Places
    <2>3. pc' = [u \in Threads |-> pc'[u]]
      BY <1>1 DEF LifeInv, Places
    <2> QED
      BY <1>1, <2>1, <2>2, <2>3, EventPlaces
  <1>12. Devices'
    BY <1>1, ClientTypes DEF LifeInv, TypeOK, Devices, Id
  <1>13. PairedSurvives'
    BY <1>1 DEF LifeInv, TypeOK, PairedSurvives
  <1>14. ASSUME NEW i \in Ids PROVE Rearmed(i)'
    <2>1. CASE i = id
      <3>1. client'[id].conn = "off" /\ notes'[id] = notes[id] + 1 /\ notes[id] \in Nat
        BY ClientTypes DEF LifeInv, TypeOK
      <3> QED
        BY <2>1, <3>1 DEF LifeInv, TypeOK, Rearmed
    <2>2. CASE i # id
      <3>1. client'[i] = client[i] /\ notes'[i] = notes[i] /\ (i \in untold' => i \in untold)
        BY <2>2 DEF LifeInv, TypeOK
      <3> QED
        BY <1>1, <2>2, <3>1 DEF LifeInv, Rearmed
    <2> QED
      BY <2>1, <2>2
  <1>15. /\ \A i \in Ids : row'[i] = "none" <=> row[i] = "none"
         /\ \A i \in Ids : client[i].conn = "off" => client'[i].conn = "off"
         /\ \A i \in kept' : i \in kept \/ (i \in reg /\ ~Undoing(i))
    BY <1>1, ClientTypes DEF LifeInv, TypeOK, Conns
  <1> QED
    BY <1>1, <1>10, <1>11, <1>12, <1>13, <1>14, <1>15, EventKeeps

LEMMA NotifyDisconnectedKeeps == ASSUME LifeInv, NEW id \in Ids, NotifyDisconnected(id) PROVE LifeInv'
  <1> USE DEF NotifyDisconnected, disk, memory, threads, history
  <1>1. pc' = pc /\ at' = at
    OBVIOUS
  <1>10. TypeOK'
    BY <1>1, ThreadsDiffer, LifeAssumption, StatusTypes, ClientTypes DEF LifeInv, TypeOK, Places, Conns, Auths
  <1>11. Places'
    <2>1. ASSUME NEW i \in Ids PROVE Handling(Ev(i), i)' /\ Handling(Qr(i), i)'
      BY <1>1, HandlingStays
    <2>2. ASSUME NEW i \in Ids PROVE notes'[i] <= drops'
      BY <1>1 DEF LifeInv, TypeOK, Places
    <2>3. pc' = [u \in Threads |-> pc'[u]]
      BY <1>1 DEF LifeInv, Places
    <2> QED
      BY <1>1, <2>1, <2>2, <2>3, EventPlaces
  <1>12. Devices'
    BY <1>1, ClientTypes DEF LifeInv, TypeOK, Devices, Id
  <1>13. PairedSurvives'
    BY <1>1 DEF LifeInv, TypeOK, PairedSurvives
  <1>14. ASSUME NEW i \in Ids PROVE Rearmed(i)'
    <2>1. CASE i = id
      <3>1. notes[id] > 0 /\ (id \in untold' => id \in untold /\ id \in alerted)
        OBVIOUS
      <3> QED
        BY <1>1, <2>1, <3>1 DEF LifeInv, TypeOK, Rearmed
    <2>2. CASE i # id
      <3>1. notes'[i] = notes[i] /\ (i \in untold' => i \in untold) /\ (i \in alerted' => i \in alerted)
        BY <2>2 DEF LifeInv, TypeOK
      <3> QED
        BY <1>1, <3>1 DEF LifeInv, Rearmed
    <2> QED
      BY <2>1, <2>2
  <1>15. /\ \A i \in Ids : row'[i] = "none" <=> row[i] = "none"
         /\ \A i \in Ids : client[i].conn = "off" => client'[i].conn = "off"
         /\ \A i \in kept' : i \in kept \/ (i \in reg /\ ~Undoing(i))
    BY <1>1, ClientTypes DEF LifeInv, TypeOK, Conns
  <1> QED
    BY <1>1, <1>10, <1>11, <1>12, <1>13, <1>14, <1>15, EventKeeps

-----------------------------------------------------------------------------
(* Crash and restart *)

LEMMA CrashKeeps == ASSUME LifeInv, Crash PROVE LifeInv'
  <1> USE DEF Crash, Fault, Nothing, disk
  <1>1. /\ pc' = [t \in Threads |-> pc'[t]] /\ pc'[Main] = "restore" /\ at' = at
        /\ (\A a \in Admins : pc'[a] = "idle") /\ \A id \in Ids : pc'[Ev(id)] = "idle" /\ pc'[Qr(id)] = "idle"
    BY ThreadsDiffer
  <1>2. \A id \in Ids : client'[id] = NewClient
    OBVIOUS
  <1>3. /\ client' \in [Ids -> Client] /\ auth' \in [Ids -> Auths] /\ notes' \in [Ids -> 0 .. MaxDrops]
        /\ updates' \in [Ids -> SUBSET Statuses] /\ faults' \in 0 .. MaxFaults /\ todo' \subseteq Ids
    BY ClientTypes, LifeAssumption DEF LifeInv, TypeOK, Auths
  <1>10. TypeOK'
    BY <1>1, <1>3 DEF LifeInv, TypeOK
  <1>11. Places'
    <2>1. ASSUME NEW b \in Admins PROVE Job(b)'
      BY <1>1 DEF Job, AdminSteps, Making, Removing, Clearing
    <2>2. ASSUME NEW id \in Ids PROVE Handling(Ev(id), id)' /\ Handling(Qr(id), id)' /\ (notes[id] <= drops)'
      BY <1>1 DEF LifeInv, TypeOK, Handling
    <2> QED
      BY <1>1, <2>1, <2>2 DEF LifeInv, Places
  <1>12. Restoring'
    BY <1>1 DEF LifeInv, TypeOK, Restoring, Busy, MainSteps
  <1>13. Alone' /\ Lingering'
    BY <1>1 DEF Alone, Lingering, Busy
  <1>14. ASSUME NEW a \in Admins PROVE Fresh(a)' /\ Dropping(a)' /\ NotUndone(a)'
    BY <1>1 DEF Fresh, Dropping, NotUndone, Busy, Making
  <1>15. Rows' /\ DatabaseHasRow' /\ Devices'
    BY <1>1 DEF LifeInv, Rows, DatabaseHasRow, Devices
  <1>16. DeletedIsGone'
    BY <1>2, ClientTypes DEF LifeInv, TypeOK, DeletedIsGone
  <1>17. PairedSurvives' /\ Restorable'
    BY DEF LifeInv, TypeOK, PairedSurvives, Restorable
  <1>18. ASSUME NEW id \in Ids PROVE Rearmed(id)'
    BY <1>2, ClientTypes DEF Rearmed
  <1> QED
    BY <1>10, <1>11, <1>12, <1>13, <1>14, <1>15, <1>16, <1>17, <1>18 DEF LifeInv

\* What Restore leaves alone.
LEMMA MainPlaces ==
    ASSUME LifeInv, pc' = [t \in Threads |-> pc'[t]], UNCHANGED <<requests, notes, drops>>,
           \A t \in Threads : t # Main => pc'[t] = pc[t] /\ at'[t] = at[t]
    PROVE  Places'
  <1>1. ASSUME NEW b \in Admins PROVE Job(b)'
    BY ThreadsDiffer DEF LifeInv, Places, Job
  <1>2. ASSUME NEW id \in Ids PROVE Handling(Ev(id), id)' /\ Handling(Qr(id), id)' /\ (notes[id] <= drops)'
    <2>1. pc'[Ev(id)] = pc[Ev(id)] /\ at'[Ev(id)] = at[Ev(id)] /\ pc'[Qr(id)] = pc[Qr(id)] /\ at'[Qr(id)] = at[Qr(id)]
      BY ThreadsDiffer
    <2> QED
      BY <2>1 DEF LifeInv, Places, Handling, Id
  <1> QED
    BY <1>1, <1>2 DEF LifeInv, Places

LEMMA RestoreRowKeeps == ASSUME LifeInv, NEW id \in Ids, RestoreRow(id) PROVE LifeInv'
  <1> USE DEF RestoreRow, disk
  <1>1. /\ pc' = [t \in Threads |-> pc'[t]] /\ pc[Main] = "restore"
        /\ \/ pc'[Main] = "restore" /\ row[id] = "paired" /\ device[id]
           \/ pc'[Main] = "restore_drop" /\ UNCHANGED <<reg, client>> /\ ~(row[id] = "paired" /\ device[id])
        /\ \A t \in Threads : t # Main => pc'[t] = pc[t]
    BY Moved, ThreadsDiffer DEF LifeInv
  <1>2. /\ at' \in [Threads -> Request] /\ Id(Main)' = id /\ \A t \in Threads : t # Main => at'[t] = at[t]
    BY ThreadsDiffer DEF LifeInv, TypeOK, Id, About, Request, Ops
  <1>3. /\ \A a \in Admins : pc'[a] = pc[a] /\ at'[a] = at[a] /\ ~Busy(a)
        /\ ~running /\ faults > 0
    BY <1>1, <1>2, ThreadsDiffer DEF LifeInv, Restoring
  <1>4. \A i \in Ids : pc'[Ev(i)] = pc[Ev(i)]
    BY <1>1, ThreadsDiffer
  <1>5. /\ faults' \in {faults, faults + 1} /\ faults' \in 0 .. MaxFaults /\ faults \in 0 .. MaxFaults
        /\ reg' \in {reg, reg \cup {id}} /\ (reg' = reg => id \notin reg)
        /\ pc'[Main] = "restore" => id \in reg' \/ faults' > 1
    BY <1>1, <1>3, LifeAssumption DEF LifeInv, TypeOK, Fault, Restoring
  <1>6. /\ client' \in [Ids -> Client] /\ (\A i \in Ids : i # id => client'[i] = client[i])
        /\ client'[id] = client[id] \/ (client'[id].conn # "on" /\ id \in reg')
    <2>1. client \in [Ids -> Client]
      BY DEF LifeInv, TypeOK
    <2>2. \A c \in Conns : [conn |-> c, paired |-> TRUE, by |-> "nothing"] \in Client
      BY ClientTypes
    <2>3. CASE UNCHANGED client
      BY <2>1, <2>3
    <2>4. ASSUME reg' = reg \cup {id}, NEW c \in {"dialing", "off"},
                 client' = [client EXCEPT ![id] = [conn |-> c, paired |-> TRUE, by |-> "nothing"]]
          PROVE  /\ client' \in [Ids -> Client] /\ \A i \in Ids : i # id => client'[i] = client[i]
                 /\ client'[id].conn # "on" /\ id \in reg'
      BY <2>1, <2>2, <2>4 DEF Conns
    <2> QED
      BY <2>3, <2>4
  <1>10. TypeOK'
    BY <1>2, <1>5, <1>6 DEF LifeInv, TypeOK
  <1>11. Places'
    BY <1>1, <1>2, MainPlaces
  <1>12. Restoring'
    <2>1. ~running' /\ faults' > 0 /\ (\A a \in Admins : ~Busy(a)') /\ pc'[Main] \in {"restore", "restore_drop"}
      BY <1>1, <1>3, <1>5 DEF Busy
    <2>2. todo' \cap reg' = {}
      BY <1>5 DEF LifeInv, Restoring
    <2>3. pc'[Main] = "restore_drop" => id \notin reg' \cup todo' \cup kept
      BY <1>1 DEF LifeInv, Restoring, PairedSurvives
    <2> QED
      BY <1>2, <2>1, <2>2, <2>3 DEF Restoring, MainSteps
  <1>13. Alone' /\ Lingering'
    BY <1>3 DEF Alone, Lingering, Busy
  <1>14. ASSUME NEW a \in Admins PROVE Fresh(a)' /\ Dropping(a)' /\ NotUndone(a)'
    BY <1>3 DEF Fresh, Dropping, NotUndone, Busy, Making
  <1>15. Rows'
    BY <1>1, <1>3, <1>5 DEF LifeInv, Rows, Busy
  <1>16. DatabaseHasRow'
    BY DEF LifeInv, DatabaseHasRow
  <1>17. DeletedIsGone'
    <2>1. id \in reg' => row[id] = "paired"
      BY <1>1, <1>5
    <2> QED
      BY <1>5, <1>6, <2>1 DEF LifeInv, TypeOK, DeletedIsGone
  <1>18. Devices'
    <2>1. ASSUME NEW i \in reg', client'[i].paired PROVE device[i]
      BY <1>1, <1>3, <1>5, <1>6, <2>1 DEF LifeInv, TypeOK, Devices, Busy
    <2> QED
      BY <2>1 DEF Devices
  <1>19. PairedSurvives' /\ Restorable'
    <2>1. ASSUME NEW i \in kept, faults' <= 1 PROVE i \in reg' \cup todo'
      <3>1. pc'[Main] = "restore_drop" => i # id
        BY <1>1 DEF LifeInv, PairedSurvives
      <3> QED
        BY <1>1, <1>3, <1>5, <2>1, <3>1 DEF LifeInv, Restorable
    <2> QED
      BY <1>3, <2>1 DEF LifeInv, PairedSurvives, Restorable
  <1>20. ASSUME NEW i \in Ids PROVE Rearmed(i)'
    BY <1>4, <1>6 DEF LifeInv, Rearmed
  <1> QED
    BY <1>10, <1>11, <1>12, <1>13, <1>14, <1>15, <1>16, <1>17, <1>18, <1>19, <1>20 DEF LifeInv

LEMMA RestoreDropKeeps == ASSUME LifeInv, RestoreDrop PROVE LifeInv'
  <1> DEFINE id == Id(Main)
  <1> USE DEF RestoreDrop, RestoreDropFirst, memory
  <1>0. Goto(Main, "restore_drop", "restore_row") \/ Goto(Main, "restore_row", "restore")
    OBVIOUS
  <1>1. /\ pc' = [t \in Threads |-> pc'[t]] /\ at' = at
        /\ \/ pc[Main] = "restore_drop" /\ pc'[Main] = "restore_row"
           \/ pc[Main] = "restore_row" /\ pc'[Main] = "restore"
        /\ \A t \in Threads : t # Main => pc'[t] = pc[t]
    BY <1>0, Moved, ThreadsDiffer DEF LifeInv
  <1>2. id \in Ids /\ id' = id
    BY ThreadsDiffer DEF LifeInv, TypeOK, Id, Request
  <1>3. /\ \A a \in Admins : pc'[a] = pc[a] /\ at'[a] = at[a] /\ ~Busy(a)
        /\ ~running /\ faults > 0 /\ id \notin reg \cup todo \cup kept
    BY <1>1, ThreadsDiffer DEF LifeInv, Restoring
  <1>4. \A i \in Ids : pc'[Ev(i)] = pc[Ev(i)]
    BY <1>1, ThreadsDiffer
  <1>5. /\ faults' \in {faults, faults + 1} /\ faults' \in 0 .. MaxFaults /\ faults \in 0 .. MaxFaults
        /\ leaked' \in {leaked, leaked \cup {id}}
    BY LifeAssumption DEF LifeInv, TypeOK, Fault
  <1>6. /\ \A i \in Ids \ {id} : UNCHANGED <<row[i], db[i], device[i]>>
        /\ \A i \in Ids : row[i] = "none" => row'[i] = "none"
        /\ row' \in [Ids -> {"none", "unpaired", "paired"}]
        /\ db' \in [Ids -> BOOLEAN] /\ device' \in [Ids -> BOOLEAN]
        /\ \A i \in Ids : (device'[i] => db'[i]) /\ (db'[i] => db[i])
    BY <1>2 DEF LifeInv, TypeOK, DropDB
  <1>7. pc'[Main] = "restore_row" => (db'[id] => id \in leaked') /\ UNCHANGED row
    <2>1. pc'[Main] = "restore_row" => Goto(Main, "restore_drop", "restore_row") /\ ~Goto(Main, "restore_row", "restore")
      BY <1>0, <1>1, Moved, ThreadsDiffer DEF LifeInv
    <2> QED
      BY <1>2, <2>1 DEF LifeInv, TypeOK, DropDB
  <1>8. pc'[Main] = "restore" => UNCHANGED <<db, leaked>> /\ (db[id] => id \in leaked)
    <2>1. pc'[Main] = "restore" => UNCHANGED <<db, leaked>>
      BY <1>1, Moved, ThreadsDiffer DEF LifeInv
    <2> QED
      BY <1>1, <2>1 DEF LifeInv, Restoring
  <1> HIDE DEF RestoreDropFirst, id
  <1>10. TypeOK'
    BY <1>1, <1>2, <1>5, <1>6 DEF LifeInv, TypeOK
  <1>11. Places'
    BY <1>1, MainPlaces
  <1>12. Restoring'
    BY <1>1, <1>2, <1>3, <1>5, <1>7 DEF LifeInv, Restoring, Busy, MainSteps, id
  <1>13. Alone' /\ Lingering'
    BY <1>3 DEF Alone, Lingering, Busy
  <1>14. ASSUME NEW a \in Admins PROVE Fresh(a)' /\ Dropping(a)' /\ NotUndone(a)'
    BY <1>3 DEF Fresh, Dropping, NotUndone, Busy, Making
  <1>15. Rows'
    BY <1>3, <1>6 DEF LifeInv, TypeOK, Rows, Busy
  <1>16. DatabaseHasRow'
    BY <1>1, <1>2, <1>5, <1>6, <1>7, <1>8 DEF LifeInv, DatabaseHasRow
  <1>17. DeletedIsGone'
    BY <1>5, <1>6 DEF LifeInv, TypeOK, DeletedIsGone
  <1>18. Devices'
    BY <1>3, <1>6 DEF LifeInv, TypeOK, Devices, Busy
  <1>19. PairedSurvives' /\ Restorable'
    BY <1>3, <1>5, <1>6 DEF LifeInv, TypeOK, PairedSurvives, Restorable
  <1>20. ASSUME NEW i \in Ids PROVE Rearmed(i)'
    BY <1>4 DEF LifeInv, Rearmed
  <1> QED
    BY <1>10, <1>11, <1>12, <1>13, <1>14, <1>15, <1>16, <1>17, <1>18, <1>19, <1>20 DEF LifeInv

LEMMA RestoredKeeps == ASSUME LifeInv, Restored PROVE LifeInv'
  <1> USE DEF Restored, Done, disk, history
  <1>1. /\ pc' = [t \in Threads |-> pc'[t]] /\ pc[Main] = "restore" /\ pc'[Main] = "idle" /\ at' = at
        /\ \A t \in Threads : t # Main => pc'[t] = pc[t]
    BY Moved, ThreadsDiffer DEF LifeInv
  <1>2. /\ \A a \in Admins : pc'[a] = pc[a] /\ at'[a] = at[a] /\ ~Busy(a)
        /\ ~running
    BY <1>1, ThreadsDiffer DEF LifeInv, Restoring
  <1>3. \A i \in Ids : pc'[Ev(i)] = pc[Ev(i)]
    BY <1>1, ThreadsDiffer
  <1>10. TypeOK'
    BY DEF LifeInv, TypeOK
  <1>11. Places'
    BY <1>1, MainPlaces
  <1>12. Restoring'
    BY <1>1 DEF LifeInv, Restoring, MainSteps
  <1>13. Alone' /\ Lingering'
    BY <1>2 DEF Alone, Lingering, Busy
  <1>14. ASSUME NEW a \in Admins PROVE Fresh(a)' /\ Dropping(a)' /\ NotUndone(a)'
    BY <1>2 DEF Fresh, Dropping, NotUndone, Busy, Making
  <1>15. Rows' /\ DatabaseHasRow' /\ DeletedIsGone'
    BY <1>2 DEF LifeInv, Rows, DatabaseHasRow, DeletedIsGone, Busy
  <1>16. Devices'
    BY <1>2 DEF LifeInv, Devices, Busy
  <1>17. PairedSurvives' /\ Restorable'
    BY <1>2 DEF LifeInv, PairedSurvives, Restorable
  <1>18. ASSUME NEW i \in Ids PROVE Rearmed(i)'
    BY <1>3 DEF LifeInv, Rearmed
  <1> QED
    BY <1>10, <1>11, <1>12, <1>13, <1>14, <1>15, <1>16, <1>17, <1>18 DEF LifeInv

-----------------------------------------------------------------------------
LEMMA LifeInit == Init => LifeInv
  <1> SUFFICES ASSUME Init PROVE LifeInv
    OBVIOUS
  <1> USE DEF Init, Nothing
  <1>1. /\ pc[Main] = "idle" /\ (\A a \in Admins : pc[a] = "idle")
        /\ \A id \in Ids : pc[Ev(id)] = "idle" /\ pc[Qr(id)] = "idle" /\ client[id] = NewClient
    BY ThreadsDiffer
  <1>2. NoRequest \in Request
    BY LifeAssumption DEF NoRequest, About, Request, Ops
  <1>3. TypeOK
    BY <1>2, ClientTypes, LifeAssumption DEF TypeOK, Auths
  <1>4. requests \in [Admins -> Seq(Request)]
    BY LifeAssumption DEF Request
  <1>5. Places
    BY <1>1, <1>4 DEF Places, Job, Handling, AdminSteps, Making, Removing, Clearing
  <1>6. Restoring /\ Alone /\ Lingering /\ Rows /\ DatabaseHasRow
    BY <1>1 DEF Restoring, Alone, Lingering, Rows, DatabaseHasRow, Busy, MainSteps
  <1>7. ASSUME NEW a \in Admins PROVE Fresh(a) /\ Dropping(a) /\ NotUndone(a)
    BY <1>1 DEF Fresh, Dropping, NotUndone, Busy, Making
  <1>8. DeletedIsGone /\ Devices /\ PairedSurvives /\ Restorable
    BY DEF DeletedIsGone, Devices, PairedSurvives, Restorable
  <1>9. ASSUME NEW id \in Ids PROVE Rearmed(id)
    BY <1>1, ClientTypes DEF Rearmed
  <1> QED
    BY <1>3, <1>5, <1>6, <1>7, <1>8, <1>9 DEF LifeInv

LEMMA StutterKeeps == ASSUME LifeInv, UNCHANGED vars PROVE LifeInv'
  <1> USE DEF vars, disk, memory, threads, history
  <1>1. TypeOK' /\ Places'
    BY DEF LifeInv, TypeOK, Places, Job, Handling, Id
  <1>5. Restoring'
    BY DEF LifeInv, Restoring, Busy, Id
  <1>2. Alone' /\ Lingering' /\ Rows' /\ DatabaseHasRow' /\ DeletedIsGone' /\ Devices'
    BY DEF LifeInv, Alone, Lingering, Rows, DatabaseHasRow, DeletedIsGone, Devices, Busy, Id
  <1>3. ASSUME NEW a \in Admins PROVE Fresh(a)' /\ Dropping(a)' /\ NotUndone(a)'
    BY DEF LifeInv, Fresh, Dropping, NotUndone, Busy, Id
  <1>4. PairedSurvives' /\ Restorable' /\ \A id \in Ids : Rearmed(id)'
    BY DEF LifeInv, PairedSurvives, Restorable, Rearmed
  <1> QED
    BY <1>1, <1>2, <1>3, <1>4, <1>5 DEF LifeInv

LEMMA LifeStep == LifeInv /\ [Next]_vars => LifeInv'
  <1> SUFFICES ASSUME LifeInv, [Next]_vars PROVE LifeInv'
    OBVIOUS
  <1>1. ASSUME NEW a \in Admins,
               Begin(a) \/ Insert(a) \/ OpenDB(a) \/ UndoRow(a) \/ UndoDB(a) \/ Register(a) \/ Replace(a)
        PROVE  LifeInv'
    BY <1>1, BeginKeeps, InsertKeeps, OpenDBKeeps, UndoRowKeeps, UndoDBKeeps, RegisterKeeps, ReplaceKeeps
  <1>2. ASSUME NEW a \in Admins,
               StartPairing(a) \/ InsertInstance(a) \/ Reconnect(a) \/ Unlink(a) \/ ClearJID(a) \/ LoggedOut(a)
        PROVE  LifeInv'
    BY <1>2, StartPairingKeeps, InsertInstanceKeeps, ReconnectKeeps, UnlinkKeeps, ClearJIDKeeps, LoggedOutKeeps
  <1>3. ASSUME NEW a \in Admins,
               Offline(a) \/ Disconnect(a) \/ Drop(a) \/ Unregister(a) \/ DeleteRow(a) \/ DeleteInstance(a)
        PROVE  LifeInv'
    BY <1>3, OfflineKeeps, DisconnectKeeps, DropKeeps, UnregisterKeeps, DeleteRowKeeps, DeleteInstanceKeeps
  <1>4. ASSUME NEW id \in Ids,
               \/ PairSuccess(id) \/ Connected(id) \/ Interrupted(id) \/ Dropped(id) \/ NotifyDisconnected(id)
               \/ \E a \in Auths : QrEvent(id, a)
               \/ \E s \in Statuses : UpdateStatus(id, s)
               \/ RestoreRow(id)
        PROVE  LifeInv'
    BY <1>4, PairSuccessKeeps, ConnectedKeeps, InterruptedKeeps, DroppedKeeps, NotifyDisconnectedKeeps,
       QrEventKeeps, UpdateStatusKeeps, RestoreRowKeeps
  <1>5. ASSUME NEW t \in Handlers, RecordJID(t) \/ OpenAuth(t) PROVE LifeInv'
    BY <1>5, RecordJIDKeeps, OpenAuthKeeps
  <1>6. CASE Crash \/ RestoreDrop \/ Restored
    BY <1>6, CrashKeeps, RestoreDropKeeps, RestoredKeeps
  <1> QED
    BY <1>1, <1>2, <1>3, <1>4, <1>5, <1>6, StutterKeeps DEF Next

LEMMA LifeInvariant == Spec => []LifeInv
  BY LifeInit, LifeStep, PTL DEF Spec

\* The state stays well formed whatever any number of admins ask for, of any number of
\* sessions: among others there is no device without a database.
THEOREM LifeTypes == Spec => []TypeOK
  <1>1. LifeInv => TypeOK
    BY DEF LifeInv
  <1> QED
    BY <1>1, LifeInvariant, PTL

\* A crash between any two statements of Create, Delete and Restore leaves no database that
\* no row names, but those whose drop failed and a creation that was being undone.
THEOREM NoOrphanDatabase == Spec => []DatabaseHasRow
  <1>1. LifeInv => DatabaseHasRow
    BY DEF LifeInv
  <1> QED
    BY <1>1, LifeInvariant, PTL

\* A pairing that a handler recorded survives every interleaving and crash until a request
\* or the phone undoes it, whatever else is asked of that session at the same time.
THEOREM PairingsSurvive == Spec => []PairedSurvives
  <1>1. LifeInv => PairedSurvives
    BY DEF LifeInv
  <1> QED
    BY <1>1, LifeInvariant, PTL

\* A session whose deletion was answered does not come back in tables, manager or network
\* (SessionManager.Delete), for sessions that one request at a time works on.
THEOREM DeletedStaysGone == Spec => []DeletedIsGone
  <1>1. LifeInv => DeletedIsGone
    BY DEF LifeInv
  <1> QED
    BY <1>1, LifeInvariant, PTL

\* No loss of a session that was up stays unannounced, but where the goroutine of an earlier
\* loss ran after the session was back (notifyDisconnected).
THEOREM LossesAreAnnounced == Spec => []LossesAnnounced
  <1>1. LifeInv => LossesAnnounced
    BY DEF LifeInv, TypeOK, Rearmed, LossesAnnounced
  <1> QED
    BY <1>1, LifeInvariant, PTL
=============================================================================
