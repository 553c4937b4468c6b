------------------------------ MODULE PlotSync -------------------------------
(***************************************************************************)
(* Plot sync: a harvester tells its farmer which plots it has.             *)
(*                                                                         *)
(*   refresh thread   chia/plotting/manager.py, _refresh_task(): finds the *)
(*                    files, loads them in batches, calls the sender back  *)
(*   sender           chia/plot_sync/sender.py: queues the callbacks as    *)
(*                    messages, sends one at a time, waits for its answer  *)
(*   receiver         chia/plot_sync/receiver.py, at the farmer: collects  *)
(*                    a delta and applies it at the end of the sync        *)
(*                                                                         *)
(* The thread runs next to the harvester's event loop, which runs the      *)
(* sender.  A connection delivers in order and loses nothing until it      *)
(* closes, but a message may take longer than message_timeout: it is then  *)
(* repeated, both copies arrive, and an answer to the first one is skipped *)
(* as expired, for the second is sent two timeouts later.                  *)
(*                                                                         *)
(* A plot is a number, in the order of the file names.  The messages about *)
(* invalid files, missing keys and duplicates differ in their lists only:  *)
(* one, "paths", with an empty list, stands for them.                      *)
(***************************************************************************)
EXTENDS Integers, Sequences, FiniteSets, SequencesExt, FiniteSetsExt

CONSTANTS
    Plots,
    batch_size,
    MaxClock,       \* bound on the seconds that go by, and so on timeouts and resets
    MaxInbox,       \* bound on the messages under way
    MaxChanges,     \* bound on the changes of the plot directories
    MaxCloses       \* bound on the connections that close

ASSUME PlotSyncTyping ==
    /\ Plots \subseteq Nat /\ IsFiniteSet(Plots)
    /\ batch_size \in Nat \ {0}
    /\ MaxClock \in Nat \ {0} /\ MaxInbox \in Nat \ {0}

VARIABLES
    disk,               \* the plot files
    plots,              \* PlotManager.plots
    initial,            \* PlotManager._initial
    thread,             \* the refresh thread: where it is, and its local variables
    conn,               \* "up", "closed" (on_disconnect() is still to run) or "off"
    task,               \* Sender._task is not None
    sync_id, last_sync_id, next_message_id,
    messages,           \* _messages
    resetting,          \* how far _reset() has come, "no" when it does not run
    unqueued,           \* the plots that _reset() has still to queue
    waiting,            \* _send_next_message() waits for the answer
    inbox,              \* messages on their way to the farmer
    answer,             \* the answer to the last attempt on its way back, or NoAnswer
    receiver,           \* the Receiver: plots, last sync id, current sync
    clock,              \* int(time.time())
    changes, closes,    \* counted against their bounds
    lost                \* history: _finalize_sync() cleared messages that were never sent

manager_vars == <<disk, plots, initial, thread>>
reset_vars == <<resetting, unqueued>>
sender_vars == <<sync_id, last_sync_id, next_message_id, messages, resetting, unqueued, lost>>
net_vars == <<waiting, inbox, answer, receiver>>
vars == <<disk, plots, initial, thread, conn, task, sync_id, last_sync_id, next_message_id,
          messages, resetting, unqueued, waiting, inbox, answer, receiver, clock, changes, closes, lost>>

NoAnswer == [status |-> "none", sync_id |-> 0, id |-> 0]

\* A new Receiver, and one after reset()
NewReceiver ==
    [plots |-> {}, last_sync_id |-> 0, sync_id |-> 0, next |-> 0, additions |-> {}, removals |-> {}]

\* stop() was called and await_closed() has not run.
stop_requested == conn = "off" /\ task

_refreshing_enabled == conn # "off"

sync_active == sync_id # 0

-----------------------------------------------------------------------------
(* The messages *)

Message(kind, data) == [kind |-> kind, data |-> data, initial |-> FALSE, last |-> 0]

StartMessage(init, last) == [kind |-> "start", data |-> {}, initial |-> init, last |-> last]

SyncIds == 0..MaxClock + 1

Messages ==
    [kind : {"start", "loaded", "removed", "paths", "done"}, data : SUBSET Plots,
     initial : BOOLEAN, last : SyncIds]

Envelopes == [sync_id : SyncIds, id : Nat, fresh : BOOLEAN, message : Messages]

Answers == [status : {"none", "ok", "expected", "error"}, sync_id : SyncIds, id : Nat]

Receivers ==
    [plots : SUBSET Plots, last_sync_id : SyncIds, sync_id : SyncIds, next : Nat,
     additions : SUBSET Plots, removals : SUBSET Plots]

Threads ==
    [pc : {"off", "idle", "starting", "dropping", "loading", "reporting", "finishing"},
     left : SUBSET Plots, loaded : SUBSET Plots, removed : SUBSET Plots]

\* to_batches()
Batches(S) ==
    [i \in 1..((Cardinality(S) + batch_size - 1) \div batch_size) |->
        {p \in S : Cardinality({q \in S : q < p}) \div batch_size = i - 1}]

\* process_batch() has a message for the batch.
Reported(loaded, remaining) ==
    IF loaded # {} \/ remaining = {} THEN <<Message("loaded", loaded)>> ELSE <<>>

\* sync_done(): an empty list is sent as well.
DoneMessages(removed) ==
    (IF removed = {} THEN <<Message("removed", {})>>
     ELSE [i \in DOMAIN Batches(removed) |-> Message("removed", Batches(removed)[i])])
        \o <<Message("paths", {}), Message("done", {})>>

\* Mutant: the messages of a reset end with the last batch.
FullSyncOpen(S) ==
    <<StartMessage(TRUE, 0)>> \o [i \in DOMAIN Batches(S) |-> Message("loaded", Batches(S)[i])]

\* What _reset() queues: an initial sync of all plots
FullSync(S) ==
    <<StartMessage(TRUE, 0)>> \o [i \in DOMAIN Batches(S) |-> Message("loaded", Batches(S)[i])]
        \o DoneMessages({})

-----------------------------------------------------------------------------
Init ==
    /\ disk \in SUBSET Plots
    /\ plots = {} /\ initial = TRUE
    /\ thread = [pc |-> "off", left |-> {}, loaded |-> {}, removed |-> {}]
    /\ conn = "off" /\ task = FALSE
    /\ sync_id = 0 /\ last_sync_id = 0 /\ next_message_id = 0 /\ messages = <<>>
    /\ resetting = "no" /\ unqueued = {}
    /\ waiting = FALSE /\ inbox = <<>> /\ answer = NoAnswer /\ receiver = NewReceiver
    /\ clock = 1 /\ changes = 0 /\ closes = 0 /\ lost = FALSE

\* A file appears in, or vanishes from, the plot directories.
ChangeDisk(p) ==
    /\ changes < MaxChanges
    /\ changes' = changes + 1
    /\ disk' = IF p \in disk THEN disk \ {p} ELSE disk \cup {p}
    /\ UNCHANGED <<plots, initial, thread, conn, task, sender_vars, net_vars, clock, closes>>

-----------------------------------------------------------------------------
(* The sender, on the event loop of the harvester *)

\* The part of sync_start() that starts: the id is the second, or the next one if
\* the last sync has it.
StartSync(last) ==
    \E now \in {clock, clock + 1} :
        /\ now <= MaxClock
        /\ clock' = now
        /\ sync_id' = IF now = last THEN now + 1 ELSE now

\* _reset() by start(): the thread does not run yet.
Reset ==
    /\ StartSync(0)
    /\ messages' = FullSync(plots)
    /\ last_sync_id' = 0 /\ next_message_id' = 0
    /\ lost' = FALSE
    /\ UNCHANGED reset_vars

\* _reset() without a task
ResetClosed ==
    /\ sync_id' = 0 /\ messages' = <<>> /\ last_sync_id' = 0 /\ next_message_id' = 0
    /\ lost' = FALSE
    /\ UNCHANGED <<reset_vars, clock>>

\* _reset() by failed(), next to the thread: it clears what there is, ...
BeginReset ==
    /\ sync_id' = 0 /\ messages' = <<>> /\ last_sync_id' = 0 /\ next_message_id' = 0
    /\ lost' = FALSE
    /\ resetting' = "cleared"
    /\ UNCHANGED <<unqueued, clock>>

\* ... starts a sync, which it waits for ever to do if the thread has started one, ...
ResetStart ==
    /\ resetting = "cleared" /\ ~sync_active
    /\ StartSync(last_sync_id)
    /\ messages' = Append(messages, StartMessage(TRUE, last_sync_id))
    /\ resetting' = "started"
    /\ UNCHANGED <<manager_vars, conn, task, last_sync_id, next_message_id, unqueued, lost, net_vars,
                   changes, closes>>

\* ... lists the plots, ...
ResetList ==
    /\ resetting = "started"
    /\ unqueued' = plots
    /\ resetting' = "queueing"
    /\ UNCHANGED <<manager_vars, conn, task, sync_id, last_sync_id, next_message_id, messages, lost,
                   net_vars, clock, changes, closes>>

\* ... queues them batch by batch ...
ResetBatch ==
    LET batch == Batches(unqueued)[1]
    IN  /\ resetting = "queueing" /\ unqueued # {}
        /\ messages' = Append(messages, Message("loaded", batch))
        /\ unqueued' = unqueued \ batch
        /\ UNCHANGED <<manager_vars, conn, task, sync_id, last_sync_id, next_message_id, resetting, lost,
                       net_vars, clock, changes, closes>>

\* ... and ends the sync.
ResetDone ==
    /\ resetting = "queueing" /\ unqueued = {}
    /\ messages' = messages \o DoneMessages({})
    /\ resetting' = "no"
    /\ UNCHANGED <<manager_vars, conn, task, sync_id, last_sync_id, next_message_id, unqueued, lost, net_vars,
                   clock, changes, closes>>

\* The event loop of the harvester waits in sync_start() for a sync that only it could
\* send: the thread has started one while _reset() was at work.
Hung == resetting = "cleared" /\ sync_active

\* Mutant: the next message id is not put back.
FinalizeSyncHalf ==
    /\ last_sync_id' = sync_id /\ sync_id' = 0 /\ messages' = <<>>
    /\ lost' = (lost \/ next_message_id < Len(messages) - 1)
    /\ UNCHANGED <<next_message_id, reset_vars, clock>>

\* _finalize_sync(): whatever was queued behind the done message is cleared too.
FinalizeSync ==
    /\ last_sync_id' = sync_id
    /\ next_message_id' = 0 /\ messages' = <<>> /\ sync_id' = 0
    /\ lost' = (lost \/ next_message_id < Len(messages) - 1)
    /\ UNCHANGED <<reset_vars, clock>>

\* _send_next_message() up to the wait, also for a message that is repeated
SendNextMessage ==
    /\ task /\ ~stop_requested
    /\ ~waiting /\ resetting = "no"
    /\ next_message_id < Len(messages)
    /\ \/ /\ conn = "up"
          /\ Len(inbox) < MaxInbox
          /\ inbox' = Append(inbox, [sync_id |-> sync_id, id |-> next_message_id, fresh |-> TRUE,
                                     message |-> messages[next_message_id + 1]])
          /\ waiting' = TRUE
          /\ UNCHANGED <<sender_vars, clock>>
       \/ \* the send fails
          /\ conn = "closed"
          /\ BeginReset
          /\ UNCHANGED <<inbox, waiting>>
    /\ UNCHANGED <<manager_vars, conn, task, answer, receiver, changes, closes>>

\* The message n, counted from 0, is the done message of the sync, with none behind it.
all_sent(n) == messages[Len(messages)].kind = "done" /\ n = Len(messages) - 1

\* Mutant: a done message is not repeated.
TimeoutDone ==
    /\ waiting
    /\ clock < MaxClock
    /\ clock' = clock + 1
    /\ waiting' = FALSE
    /\ inbox' = [i \in DOMAIN inbox |-> [inbox[i] EXCEPT !.fresh = FALSE]]
    /\ answer' = NoAnswer
    /\ IF all_sent(next_message_id)
       THEN /\ last_sync_id' = sync_id /\ next_message_id' = 0 /\ messages' = <<>> /\ sync_id' = 0
            /\ UNCHANGED <<reset_vars, lost>>
       ELSE UNCHANGED sender_vars
    /\ UNCHANGED <<manager_vars, conn, task, receiver, changes, closes>>

\* _wait_for_response() gives up: from now on an answer to this attempt is expired.
Timeout ==
    /\ waiting
    /\ clock < MaxClock
    /\ clock' = clock + 1
    /\ waiting' = FALSE
    /\ inbox' = [i \in DOMAIN inbox |-> [inbox[i] EXCEPT !.fresh = FALSE]]
    /\ answer' = NoAnswer
    /\ UNCHANGED <<manager_vars, conn, task, sender_vars, receiver, changes, closes>>

\* The answer arrives in time: set_response(), and the rest of _send_next_message()
Answered ==
    LET kind == messages[next_message_id + 1].kind
        missedDone == answer.status = "expected" /\ answer.sync_id = 0 /\ answer.id = 0
                        /\ all_sent(next_message_id)
        resume == answer.status = "expected" /\ answer.sync_id = sync_id /\ answer.id < Len(messages)
    IN  /\ waiting /\ answer # NoAnswer /\ ~stop_requested
        /\ waiting' = FALSE
        /\ answer' = NoAnswer
        /\ \/ /\ (answer.status = "ok" /\ kind = "done") \/ missedDone
              /\ FinalizeSync
           \/ /\ answer.status = "ok" /\ kind # "done"
              /\ next_message_id' = next_message_id + 1
              /\ UNCHANGED <<sync_id, last_sync_id, messages, reset_vars, lost, clock>>
           \/ /\ resume /\ ~missedDone
              /\ next_message_id' = answer.id
              /\ UNCHANGED <<sync_id, last_sync_id, messages, reset_vars, lost, clock>>
           \/ \* not recoverable
              /\ answer.status # "ok" /\ ~missedDone /\ ~resume
              /\ BeginReset
        /\ UNCHANGED <<manager_vars, conn, task, inbox, receiver, changes, closes>>

-----------------------------------------------------------------------------
(* The receiver, on the event loop of the farmer *)

\* Mutant: the message id is not compared.
IdentifierMatchesSync(r, e) ==
    IF e.message.kind = "start" THEN e.id = r.next ELSE e.sync_id = r.sync_id

\* _validate_identifier()
IdentifierMatches(r, e) ==
    e.id = r.next /\ (e.message.kind = "start" \/ e.sync_id = r.sync_id)

\* The message contradicts what the receiver has: InvalidLastSyncIdError,
\* SyncIdsMatchError, PlotAlreadyAvailableError, PlotNotAvailableError.
Contradicts(r, e) ==
    LET m == e.message
    IN  \/ m.kind = "start" /\ (m.last # r.last_sync_id \/ m.last = e.sync_id)
        \/ m.kind = "loaded" /\ m.data \cap (r.plots \cup r.additions) # {}
        \/ m.kind = "removed" /\ ~(m.data \subseteq r.plots \ r.removals)

\* Mutant: the removals are forgotten.
AppliedAdditions(r) == [NewReceiver EXCEPT !.plots = r.plots \cup r.additions, !.last_sync_id = r.sync_id]

\* _sync_done(): the delta is applied and a new Sync begins.
Applied(r) ==
    [NewReceiver EXCEPT !.plots = (r.plots \cup r.additions) \ r.removals, !.last_sync_id = r.sync_id]

Processed(r, e) ==
    LET m == e.message
    IN  CASE m.kind = "start" -> [r EXCEPT !.sync_id = e.sync_id, !.next = @ + 1,
                                           !.additions = {}, !.removals = {}]
          [] m.kind = "loaded" -> [r EXCEPT !.additions = @ \cup m.data, !.next = @ + 1]
          [] m.kind = "removed" -> [r EXCEPT !.removals = @ \cup m.data, !.next = @ + 1]
          [] m.kind = "paths" -> [r EXCEPT !.next = @ + 1]
          [] m.kind = "done" -> Applied(r)

\* What a list that contradicts the receiver leaves behind: the entries before
\* the first bad one stay in the delta.
Partial(r, e) ==
    LET m == e.message
        good == IF m.kind = "loaded" THEN m.data \ (r.plots \cup r.additions)
                ELSE m.data \cap (r.plots \ r.removals)
    IN  {IF m.kind = "loaded" THEN [r EXCEPT !.additions = @ \cup part]
         ELSE [r EXCEPT !.removals = @ \cup part] : part \in SUBSET good}

\* _process(): a handler and its answer.  An initial start resets the receiver
\* before anything is checked.
Receive ==
    LET e == Head(inbox)
        r == IF e.message.initial THEN NewReceiver ELSE receiver
        Answer(status, s, n) == IF e.fresh THEN [status |-> status, sync_id |-> s, id |-> n] ELSE answer
    IN  /\ inbox # <<>> /\ conn = "up"
        /\ inbox' = Tail(inbox)
        /\ \/ /\ ~IdentifierMatches(r, e)
              /\ receiver' = r
              /\ answer' = Answer("expected", r.sync_id, r.next)
           \/ /\ IdentifierMatches(r, e) /\ Contradicts(r, e)
              /\ receiver' \in Partial(r, e)
              /\ answer' = Answer("error", 0, 0)
           \/ /\ IdentifierMatches(r, e) /\ ~Contradicts(r, e)
              /\ receiver' = Processed(r, e)
              /\ answer' = Answer("ok", 0, 0)
        /\ UNCHANGED <<manager_vars, conn, task, sender_vars, waiting, clock, changes, closes>>

-----------------------------------------------------------------------------
(* The refresh thread *)

\* An exception in a callback: PlotManager.reset()
ManagerReset ==
    /\ plots' = {}
    /\ initial' = TRUE
    /\ thread' = [thread EXCEPT !.pc = "idle", !.left = {}, !.loaded = {}, !.removed = {}]
    /\ UNCHANGED sender_vars

\* The files are listed.
BeginRefresh ==
    /\ thread.pc = "idle" /\ _refreshing_enabled
    /\ thread' = [thread EXCEPT !.pc = "starting", !.left = disk]
    /\ UNCHANGED <<disk, plots, initial, conn, task, sender_vars, net_vars, clock, changes, closes>>

\* sync_start(): waits for the sync before this one, or is told to stop.
SyncStart ==
    /\ thread.pc = "starting"
    /\ \/ /\ ~sync_active
          /\ StartSync(last_sync_id)
          /\ messages' = Append(messages, StartMessage(initial, last_sync_id))
          /\ lost' = (lost /\ ~initial)
          /\ UNCHANGED <<last_sync_id, next_message_id, reset_vars>>
       \/ /\ sync_active /\ stop_requested
          /\ UNCHANGED <<sender_vars, clock>>
    /\ thread' = [thread EXCEPT !.pc = "dropping"]
    /\ UNCHANGED <<disk, plots, initial, conn, task, net_vars, changes, closes>>

\* Plots whose file has vanished are dropped.
DropVanished ==
    /\ thread.pc = "dropping"
    /\ plots' = plots \cap thread.left
    /\ thread' = [thread EXCEPT !.pc = IF thread.left = {} THEN "finishing" ELSE "loading",
                                !.removed = plots \ thread.left]
    /\ UNCHANGED <<disk, initial, conn, task, sender_vars, net_vars, clock, changes, closes>>

\* refresh_batch(): when refreshing ends in the middle, some files are still loaded.
LoadBatch ==
    LET batch == Batches(thread.left)[1]
        found == (batch \cap disk) \ plots
    IN  /\ thread.pc = "loading"
        /\ \E loaded \in IF _refreshing_enabled THEN {found} ELSE SUBSET found :
             /\ plots' = plots \cup loaded
             /\ thread' = IF _refreshing_enabled
                          THEN [thread EXCEPT !.pc = "reporting", !.loaded = loaded, !.left = @ \ batch]
                          ELSE [thread EXCEPT !.pc = "finishing", !.left = {}]
        /\ UNCHANGED <<disk, initial, conn, task, sender_vars, net_vars, clock, changes, closes>>

\* process_batch(), which asserts that there is a sync
ReportBatch ==
    LET report == Reported(thread.loaded, thread.left)
    IN  /\ thread.pc = "reporting"
        /\ \/ /\ sync_active \/ report = <<>>
              /\ messages' = messages \o report
              /\ thread' = [thread EXCEPT !.pc = IF thread.left = {} THEN "finishing" ELSE "loading",
                                          !.loaded = {}]
              /\ UNCHANGED <<plots, initial, sync_id, last_sync_id, next_message_id, reset_vars, lost>>
           \/ /\ ~sync_active /\ report # <<>>
              /\ ManagerReset
        /\ UNCHANGED <<disk, conn, task, net_vars, clock, changes, closes>>

\* sync_done(), unless refreshing has ended, and the end of the refresh
SyncDone ==
    /\ thread.pc = "finishing"
    /\ \/ /\ sync_active \/ ~_refreshing_enabled
          /\ messages' = IF _refreshing_enabled THEN messages \o DoneMessages(thread.removed) ELSE messages
          /\ initial' = FALSE
          /\ thread' = [thread EXCEPT !.pc = "idle", !.removed = {}]
          /\ UNCHANGED <<plots, sync_id, last_sync_id, next_message_id, reset_vars, lost>>
       \/ /\ ~sync_active /\ _refreshing_enabled
          /\ ManagerReset
    /\ UNCHANGED <<disk, conn, task, net_vars, clock, changes, closes>>

\* The thread ends when refreshing is no longer enabled.
EndThread ==
    /\ thread.pc = "idle" /\ ~_refreshing_enabled
    /\ thread' = [thread EXCEPT !.pc = "off"]
    /\ UNCHANGED <<disk, plots, initial, conn, task, sender_vars, net_vars, clock, changes, closes>>

-----------------------------------------------------------------------------
(* The connection *)

\* The farmer's on_connect() makes a Receiver; its handshake starts the sender, which
\* begins with all the plots there are, and the refresh thread.
Connect ==
    /\ conn = "off" /\ ~task
    /\ conn' = "up"
    /\ task' = TRUE
    /\ receiver' = NewReceiver
    /\ thread' = [thread EXCEPT !.pc = "idle"]
    /\ IF initial THEN UNCHANGED <<sender_vars, clock>> ELSE Reset
    /\ UNCHANGED <<disk, plots, initial, waiting, inbox, answer, changes, closes>>

\* The connection closes, and what is under way is lost.
Close ==
    /\ conn = "up"
    /\ closes < MaxCloses
    /\ closes' = closes + 1
    /\ conn' = "closed"
    /\ inbox' = <<>> /\ answer' = NoAnswer /\ waiting' = FALSE
    /\ UNCHANGED <<manager_vars, task, sender_vars, receiver, clock, changes>>

\* The harvester's on_disconnect(): stop() and stop_refreshing(), which blocks the event
\* loop until the thread has ended
OnDisconnect ==
    /\ conn = "closed" /\ resetting = "no"
    /\ conn' = "off"
    /\ UNCHANGED <<manager_vars, task, sender_vars, net_vars, clock, changes, closes>>

\* The sender's task ends and await_closed() clears what it had.
AwaitClosed ==
    /\ stop_requested /\ thread.pc = "off"
    /\ task' = FALSE
    /\ ResetClosed
    /\ UNCHANGED <<manager_vars, conn, net_vars, changes, closes>>

SenderNext == SendNextMessage \/ Answered \/ ResetStart \/ ResetList \/ ResetBatch \/ ResetDone

ThreadNext ==
    \/ BeginRefresh \/ SyncStart \/ DropVanished \/ LoadBatch \/ ReportBatch \/ SyncDone \/ EndThread

Next ==
    \/ SenderNext \/ Timeout
    \/ Receive
    \/ ThreadNext
    \/ Connect \/ Close \/ OnDisconnect \/ AwaitClosed
    \/ \E p \in Plots : ChangeDisk(p)

\* The thread and the event loops run, and the loop of the harvester turns to
\* on_disconnect() although each send that fails starts a reset; timeouts, closed
\* connections and changes of the disk are not promised, and finitely many.
Fairness ==
    /\ WF_vars(SenderNext) /\ WF_vars(Receive) /\ WF_vars(ThreadNext)
    /\ WF_vars(Connect) /\ SF_vars(OnDisconnect) /\ WF_vars(AwaitClosed)

Spec == Init /\ [][Next]_vars /\ Fairness

-----------------------------------------------------------------------------
\* Every variable has its type; the next message is one of the queue, or the one
\* after its end.
TypeOK ==
    /\ disk \in SUBSET Plots /\ plots \in SUBSET Plots
    /\ initial \in BOOLEAN /\ task \in BOOLEAN /\ waiting \in BOOLEAN /\ lost \in BOOLEAN
    /\ thread \in Threads
    /\ conn \in {"up", "closed", "off"}
    /\ sync_id \in SyncIds /\ last_sync_id \in SyncIds
    /\ messages \in Seq(Messages) /\ unqueued \in SUBSET Plots
    /\ resetting \in {"no", "cleared", "started", "queueing"}
    /\ next_message_id \in 0..Len(messages)
    /\ inbox \in Seq(Envelopes) /\ Len(inbox) <= MaxInbox
    /\ answer \in Answers
    /\ receiver \in Receivers
    /\ clock \in 1..MaxClock /\ changes \in Nat /\ closes \in Nat

\* Between two syncs, and between two refreshes, the farmer has exactly the plots of
\* the harvester, and both have the same last sync: after lost answers, repeated
\* messages, resets, new connections.  Three things excuse a difference: a reset is at
\* work, a refresh that ended in an exception has cleared the plots (initial), and
\* messages of a refresh that was overtaken by a reset were cleared unsent (lost), after
\* which the farmer lacks what they said.
FarmerInSync ==
    (conn = "up" /\ resetting = "no" /\ ~sync_active /\ thread.pc = "idle" /\ ~initial /\ ~lost) =>
        receiver.plots = plots /\ receiver.last_sync_id = last_sync_id

\* The plots that the first n messages of a queue list
Delivered(queue, kind, n) == UNION {queue[i].data : i \in {j \in 1..n : queue[j].kind = kind}}

\* The receiver's delta is what the first n messages list.
DeltaHolds(n) ==
    /\ receiver.additions = Delivered(messages, "loaded", n)
    /\ receiver.removals = Delivered(messages, "removed", n)

\* The receiver refuses the message that is sent, and has kept a part of its list.
RefusesCurrent ==
    /\ receiver.next = next_message_id /\ next_message_id < Len(messages)
    /\ Contradicts(receiver, [sync_id |-> sync_id, id |-> next_message_id, fresh |-> TRUE,
                              message |-> messages[next_message_id + 1]])
    /\ receiver.additions \subseteq Delivered(messages, "loaded", next_message_id + 1)
    /\ receiver.removals \subseteq Delivered(messages, "removed", next_message_id + 1)

\* Once the start of a sync was answered, the farmer is at the message that is sent
\* or just past it, and its delta holds each message before that once, whatever was
\* repeated: or it refuses the message that is sent, or it has applied the done
\* message already.
DeltaIsPrefix ==
    (conn = "up" /\ next_message_id > 0) =>
        \/ /\ receiver.sync_id = sync_id
           /\ receiver.next \in {next_message_id, next_message_id + 1} \cap 0..Len(messages)
           /\ DeltaHolds(receiver.next) \/ RefusesCurrent
        \/ /\ receiver.sync_id = 0 /\ receiver.last_sync_id = sync_id
           /\ messages[next_message_id + 1].kind = "done"

\* The sender ends a sync only when the farmer has applied it, although it also does
\* so without an answer to its done message; anything else that takes a sync from it is
\* a reset.
FinalizedIsApplied ==
    [][sync_active /\ ~sync_active' /\ conn = "up" /\ resetting' = "no" =>
         /\ receiver.last_sync_id = sync_id /\ receiver.sync_id = 0
         /\ last_sync_id' = sync_id]_vars

\* Every sync ends, by the farmer's confirmation or with the connection: resets and
\* repeated messages do not go on for ever.  One thing keeps a sync from ending: the
\* thread has started it in the middle of _reset(), and the event loop hangs.
SyncEnds == sync_active ~> ((resetting = "no" /\ ~sync_active) \/ Hung)
==============================================================================
