----------------------------- MODULE Broadcast -----------------------------
(***************************************************************************)
(* Calls in bulk (cmd/server/broadcast.go), placed at the desk that the    *)
(* operators work at (CallDesk): a request starts a goroutine that calls   *)
(* the numbers one after the other, so many at a time; a task of its own   *)
(* dials each number, polls the broker's list until the call is connected  *)
(* or has rung for long enough, plays the recording and hangs up.          *)
(*                                                                         *)
(* A number is identified with the call to it.                             *)
(***************************************************************************)
EXTENDS CallDesk, SequencesExt

CONSTANTS Numbers,        \* the numbers of the request
          Concurrency     \* and how many it asks to be called at a time

ASSUME BroadcastAssumption ==
    /\ Numbers \in Seq(Calls) /\ IsInjective(Numbers)
    /\ Concurrency \in Nat \ {0} /\ IsFiniteSet(Tasks)
\* There is one broadcast at most, and the ids of its calls are random too.
ASSUME NumbersAssumption ==
    \A s \in Scenarios, c \in Clients : \A i \in DOMAIN s.requests[c] :
        s.requests[c][i].op = "broadcast" =>
            /\ ToSet(Numbers) \cap s.offers = {}
            /\ \A d \in Clients : \A j \in DOMAIN s.requests[d] :
                   /\ s.requests[d][j].op = "start" => s.requests[d][j].call \notin ToSet(Numbers)
                   /\ s.requests[d][j].op = "broadcast" => d = c /\ j = i

VARIABLES
    left,       \* the numbers that runCampaign has yet to call
    result,     \* broadcastCampaign.results
    finished    \* broadcastCampaign.done

campaign == <<left, result, finished>>

Results == {"none", "queued", "ringing", "answered", "completed", "no-answer", "failed"}

BroadcastTypeOK ==
    /\ TypeOK
    /\ \A i \in DOMAIN left : left[i] \in Calls
    /\ result \in [Calls -> Results]
    /\ finished \in BOOLEAN

BroadcastInit ==
    /\ Init
    /\ left = <<>> /\ result = [k \in Calls |-> "none"] /\ finished = FALSE

-----------------------------------------------------------------------------

Set(k, r) == result' = [result EXCEPT ![k] = r]

\* What is left alone by a step of a task that only waits, counts or reports.
DeskUntouched == UNCHANGED <<offers, requests, calls, broker, on, out, reading, seen, then, history>>

\* handleBroadcast answers when the recording is decoded; runCampaign goes on by itself.
HandleBroadcast(c) ==
    /\ At(c, "idle") /\ requests[c] # <<>> /\ Head(requests[c]).op = "broadcast"
    /\ requests' = [requests EXCEPT ![c] = Tail(@)]
    /\ left' = Numbers
    /\ result' = [k \in Calls |-> IF k \in ToSet(Numbers) THEN "queued" ELSE "none"]
    /\ finished' = (Numbers = <<>>)
    /\ UNCHANGED <<offers, calls, broker, threads, history>>

\* Faulty Slots: the request gets what it asks for.
SlotsAsked == Concurrency
\* "nunca fura o limite de chamadas simultaneas da sessao"
Slots == IF Concurrency > MaxCalls THEN MaxCalls ELSE Concurrency

Working == {t \in Tasks : pc[t] # "idle"}

\* The loop of runCampaign waits for a slot and starts a task; a number that is none
\* fails at once.
CallNext(t) ==
    /\ left # <<>> /\ At(t, "idle") /\ Cardinality(Working) < Slots
    /\ left' = Tail(left)
    /\ on' = [on EXCEPT ![t] = Head(left)]
    /\ \E step \in {"create", "failed"} : Goto(t, step)
    /\ UNCHANGED <<offers, requests, calls, broker, out, reading, seen, then, history, result, finished>>

\* startOutgoing is CreateCall, BeginCall and OfferSent; the cap is not asked for.
Dialled(t) ==
    /\ At(t, "dialled") /\ Goto(t, "ringing") /\ Set(on[t], "ringing")
    /\ DeskUntouched /\ UNCHANGED <<left, finished>>

\* The task looks at the list every 150 ms.  A call that ended has left it, and is waited
\* for like one that rings.
Answered(t) ==
    /\ At(t, "ringing") /\ list[on[t]].status = "connected"
    /\ Goto(t, "playing") /\ Set(on[t], "answered")
    /\ DeskUntouched /\ UNCHANGED <<left, finished>>

\* terminateCall of a call that is not in the registry does nothing.
HangUp(t) == IF on[t] \in reg THEN "end" ELSE "closing"

\* It has rung for long enough.  A faulty one leaves the call to the far side.
RingsOutCalling(t) == At(t, "ringing") /\ Goto(t, "closing")
RingsOut(t) == At(t, "ringing") /\ Goto(t, HangUp(t))

NoAnswer(t) ==
    /\ RingsOut(t)
    /\ DeskUntouched /\ UNCHANGED campaign

\* pumpAudio plays to the end, unless the call is gone or its time is over.
PumpAudio(t) ==
    /\ At(t, "playing") /\ Goto(t, HangUp(t))
    /\ DeskUntouched /\ UNCHANGED campaign

\* The outcome is noted, the slot is free again, and the last task ends the campaign.
Close(t) ==
    /\ At(t, "closing") \/ At(t, "failed")
    /\ Goto(t, "idle")
    /\ Set(on[t], IF pc[t] = "failed" THEN "failed"
                 ELSE IF result[on[t]] = "answered" THEN "completed" ELSE "no-answer")
    /\ finished' = (left = <<>> /\ Working = {t})
    /\ DeskUntouched /\ UNCHANGED left

-----------------------------------------------------------------------------

BroadcastNext ==
    \/ Next /\ UNCHANGED campaign
    \/ \E c \in Clients : HandleBroadcast(c)
    \/ \E t \in Tasks : \/ CallNext(t) \/ Dialled(t) \/ Answered(t) \/ NoAnswer(t)
                        \/ PumpAudio(t) \/ Close(t)

BroadcastSpec == BroadcastInit /\ [][BroadcastNext]_<<vars, campaign>>

-----------------------------------------------------------------------------
(* Properties *)

Dialling(k) == state[k] \notin {"none", "ended"} /\ k \in reg

\* A broadcast never has more calls at a time than the session may have ("nunca fura o
\* limite", runCampaign), whichever of a task, an operator or the far side ends a call: a
\* slot is not given away before the call that had it is over.
WithinSlots == Cardinality({k \in ToSet(Numbers) : result[k] # "none" /\ Dialling(k)}) <= MaxCalls

\* A broadcast that is done has left nothing behind, once the event loop is through with
\* the calls it ended: each number has its outcome, and its call is neither in the
\* registry nor in the list.
LeavesNoCall ==
    finished =>
        \A k \in ToSet(Numbers) :
            /\ result[k] \in {"completed", "no-answer", "failed"}
            /\ (\A t \in Threads : on[t] = k => At(t, "idle") \/ t \in Panels) =>
                   k \notin reg /\ list[k] = Unlisted

\* "nunca fura o limite de chamadas simultaneas da sessao" (runCampaign), with the calls
\* of others counted.
SessionWithinCap == Cardinality({k \in Calls : Dialling(k)}) <= MaxCalls
=============================================================================
