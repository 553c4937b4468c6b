--------------------------- MODULE PlotSyncProofs ----------------------------
(***************************************************************************)
(* Proofs about plot sync, for every set of plots, batch size and bound.   *)
(*                                                                         *)
(* The connection is reliable in one respect that carries everything: an   *)
(* answer counts only when it is to the last attempt, and by then every    *)
(* earlier copy has arrived.  So the inbox never holds anything but copies *)
(* of the message that is being sent (NetInv), and the receiver is at that *)
(* message or just past it (ReceiverInv).  Settled says which plots the    *)
(* queue of a sync amounts to, and that a refresh which a reset overtook   *)
(* has messages behind a done message, or none to go into.  While _reset() *)
(* is at work nothing is sent (ResetInv), and what it has queued and has   *)
(* still to queue are all the plots (ResetData), unless a refresh is at    *)
(* work too or has put its done message into the queue.                    *)
(***************************************************************************)
EXTENDS PlotSync, DataLemmas, TLAPS

\* The refresh thread is between sync_start() and sync_done().
Refreshing == thread.pc \in {"dropping", "loading", "reporting", "finishing"}

\* The queue has no done message yet; it has one with messages behind it.
Open == \A i \in 1..Len(messages) : messages[i].kind # "done"
Overtaken == \E i \in 1..Len(messages) : messages[i].kind = "done" /\ i # Len(messages)

Current == messages[next_message_id + 1]

-----------------------------------------------------------------------------
(* The inductive invariant *)

\* A queue begins with its start message and has no other; a sent message is not the
\* done message, for that ends the sync.  An open queue lists no removals.
QueueInv ==
    /\ sync_id = 0 <=> messages = <<>>
    /\ messages # <<>> => messages[1].kind = "start" /\ messages[1].data = {}
    /\ \A i \in 2..Len(messages) : messages[i].kind # "start" /\ ~messages[i].initial
    /\ \A i \in 1..next_message_id : messages[i].kind # "done"
    /\ waiting => next_message_id < Len(messages)
    /\ Open => \A i \in 1..Len(messages) : messages[i].kind # "removed"

\* Between two connections there is nothing; before the first refresh of a manager
\* there are no plots.
ThreadInv ==
    /\ ~task => thread.pc = "off" /\ conn = "off" /\ sync_id = 0 /\ last_sync_id = 0 /\ ~lost
    /\ conn # "off" => task
    /\ initial /\ thread.pc \in {"off", "idle", "starting"} => plots = {}
    /\ thread.pc = "loading" => thread.left # {}

\* The inbox holds copies of the message that is sent, the last of them fresh at most;
\* once it is answered there are none.
NetInv ==
    /\ conn # "up" => inbox = <<>> /\ answer = NoAnswer /\ ~waiting
    /\ \A i \in 1..Len(inbox) :
         /\ next_message_id < Len(messages)
         /\ inbox[i].sync_id = sync_id /\ inbox[i].id = next_message_id /\ inbox[i].message = Current
         /\ inbox[i].fresh => waiting /\ i = Len(inbox)
    /\ answer # NoAnswer => waiting /\ inbox = <<>>

\* While _reset() is at work nothing is under way; once it has started its sync, that
\* is the one of the queue.
ResetInv ==
    /\ resetting # "no" => next_message_id = 0 /\ ~waiting /\ inbox = <<>> /\ conn # "off"
    /\ resetting \in {"started", "queueing"} => sync_id # 0 /\ messages[1].initial

\* The receiver has processed the start message, and no more.
Started ==
    /\ receiver.sync_id = sync_id /\ receiver.next = 1
    /\ receiver.additions = {} /\ receiver.removals = {}
    /\ messages[1].initial => receiver.plots = {}

\* Where the receiver is once the start message was answered: at the message that is
\* sent, past it, refusing it, or past the done message.
AtMessage == receiver.sync_id = sync_id /\ receiver.next = next_message_id /\ DeltaHolds(next_message_id)
PastMessage ==
    /\ receiver.sync_id = sync_id /\ receiver.next = next_message_id + 1
    /\ next_message_id < Len(messages) /\ Current.kind # "done"
    /\ DeltaHolds(next_message_id + 1)
Refusing == receiver.sync_id = sync_id /\ Current.kind \in {"loaded", "removed"} /\ RefusesCurrent
PastDone ==
    /\ receiver.sync_id = 0 /\ receiver.next = 0 /\ receiver.last_sync_id = sync_id
    /\ next_message_id < Len(messages) /\ Current.kind = "done"

\* What the receiver has done with the message when it has answered ok, or with the
\* identifier that it expects
AnswerInv ==
    /\ answer.status = "none" => answer = NoAnswer
    /\ answer.status = "ok" =>
         IF next_message_id = 0 THEN Started ELSE PastMessage \/ PastDone
    /\ answer.status = "expected" =>
         /\ receiver.sync_id = answer.sync_id /\ receiver.next = answer.id
         /\ next_message_id = 0 => Started

\* Nothing is promised of a sync that the thread starts before _reset() does.
ReceiverInv ==
    conn = "up" /\ resetting # "cleared" =>
        /\ sync_id = 0 =>
             receiver.sync_id = 0 /\ receiver.next = 0 /\ receiver.last_sync_id = last_sync_id
        /\ sync_id # 0 /\ next_message_id = 0 /\ ~messages[1].initial =>
             (receiver.sync_id = 0 /\ receiver.next = 0) \/ Started
        /\ next_message_id > 0 => AtMessage \/ PastMessage \/ Refusing \/ PastDone
        /\ next_message_id > 0 /\ messages[1].initial /\ receiver.sync_id # 0 => receiver.plots = {}
        /\ AnswerInv

\* The plots that the farmer has before the sync is applied, and will have after it
Base == IF messages[1].initial THEN {} ELSE receiver.plots
Loaded == Delivered(messages, "loaded", Len(messages))
Removed == Delivered(messages, "removed", Len(messages))

\* How far the open sync of a refresh accounts for the plots of the manager
Accounted ==
    /\ thread.pc = "dropping" => plots = Base /\ Loaded = {}
    /\ thread.pc \in {"loading", "finishing"} => plots = (Base \ thread.removed) \cup Loaded
    /\ thread.pc = "reporting" => plots = (Base \ thread.removed) \cup Loaded \cup thread.loaded
    /\ thread.pc # "dropping" => thread.removed \cap (thread.left \cup Loaded) = {}
    /\ thread.pc = "reporting" => thread.removed \cap thread.loaded = {}

Settled ==
    conn = "up" =>
        /\ sync_id # 0 /\ Open => Refreshing
        /\ ~lost /\ sync_id # 0 /\ Open => Accounted
        /\ ~lost /\ ~initial /\ thread.pc \in {"idle", "starting"} =>
             /\ sync_id = 0 => receiver.plots = plots
             /\ sync_id # 0 /\ ~Overtaken =>
                  plots = IF next_message_id > 0 /\ receiver.sync_id = 0 THEN receiver.plots
                          ELSE (Base \cup Loaded) \ Removed

\* What an open queue lists while _reset() is at work and no refresh is
ResetData ==
    Open /\ thread.pc \in {"idle", "starting"} =>
        /\ resetting = "started" => Loaded = {}
        /\ resetting = "queueing" => Loaded \cup unqueued = plots

DataInv == (resetting = "no" => Settled) /\ ResetData

PlotSyncInv == TypeOK /\ QueueInv /\ ThreadInv /\ NetInv /\ ResetInv /\ ReceiverInv /\ DataInv

-----------------------------------------------------------------------------
(* Batches and messages *)

LEMMA DivBound ==
    ASSUME NEW b \in Nat, b # 0, NEW c \in Nat, NEW r \in Nat, r < c
    PROVE  r \div b \in Nat /\ (c + b - 1) \div b \in Nat /\ (r \div b) + 1 <= (c + b - 1) \div b
<1>1. PICK q \in Int : q = r \div b
  OBVIOUS
<1>2. PICK t \in Int : t = (c + b - 1) \div b
  OBVIOUS
<1>3. b * q <= r /\ r < b * q + b
  BY <1>1
<1>4. b * t <= c + b - 1 /\ c + b - 1 < b * t + b
  BY <1>2
<1>5. b * q < b * t
  BY <1>3, <1>4
<1>6. q < t
  BY <1>5
<1>7. q >= 0
  BY <1>3
<1>. QED
  BY <1>1, <1>2, <1>6, <1>7

\* to_batches() of a finite set gives subsets that cover it, at least one unless it
\* is empty.
LEMMA BatchesCover ==
    ASSUME NEW S \in SUBSET Plots
    PROVE  /\ Batches(S) \in Seq(SUBSET S)
           /\ UNION {Batches(S)[i] : i \in DOMAIN Batches(S)} = S
           /\ S # {} => 1 \in DOMAIN Batches(S)
<1>. DEFINE c == Cardinality(S)
            rank(p) == Cardinality({q \in S : q < p})
            top == (c + batch_size - 1) \div batch_size
<1>b. batch_size \in Nat /\ batch_size # 0
  BY PlotSyncTyping
<1>1. IsFiniteSet(S) /\ c \in Nat
  BY PlotSyncTyping, FS_Subset, FS_CardinalityType
<1>2. ASSUME NEW p \in S PROVE rank(p) \in Nat /\ rank(p) < c
  <2>1. {q \in S : q < p} \in SUBSET S
    OBVIOUS
  <2>2. p \notin {q \in S : q < p}
    BY PlotSyncTyping
  <2>. QED
    BY <2>1, <2>2, <1>1, FS_Subset, FS_CardinalityType
<1>3. top \in Nat
  <2>1. c + batch_size - 1 \in Nat
    BY <1>1, <1>b
  <2>. QED
    BY <2>1, <1>b
<1>. HIDE DEF c, rank, top
<1>4. ASSUME NEW p \in S
      PROVE  (rank(p) \div batch_size) + 1 \in 1..top /\ rank(p) \div batch_size \in Nat
  BY <1>1, <1>2, <1>3, <1>b, DivBound DEF top
<1>5. Batches(S) = [i \in 1..top |-> {p \in S : rank(p) \div batch_size = i - 1}]
  BY DEF Batches, c, rank, top
<1>6. Batches(S) \in Seq(SUBSET S) /\ DOMAIN Batches(S) = 1..top
  BY <1>3, <1>5
<1>7. ASSUME NEW p \in S
      PROVE  p \in Batches(S)[(rank(p) \div batch_size) + 1] /\ (rank(p) \div batch_size) + 1 \in 1..top
  BY <1>4, <1>5
<1>8. UNION {Batches(S)[i] : i \in DOMAIN Batches(S)} = S
  <2>. DEFINE B == Batches(S)
  <2>1. \A i \in DOMAIN B : B[i] \subseteq S
    BY <1>5, <1>6
  <2>2. \A p \in S : \E i \in DOMAIN B : p \in B[i]
    <3>1. SUFFICES ASSUME NEW p \in S PROVE \E i \in DOMAIN B : p \in B[i]
      OBVIOUS
    <3>2. PICK i \in 1..top : i = (rank(p) \div batch_size) + 1
      BY <1>7
    <3>. QED
      BY <3>2, <1>6, <1>7
  <2>. HIDE DEF B
  <2>. QED
    BY <2>1, <2>2 DEF B
<1>9. S # {} => 1 \in DOMAIN Batches(S)
  BY <1>3, <1>6, <1>7
<1>. QED
  BY <1>6, <1>8, <1>9

\* The first batch of a set that is not empty is a part of it.
LEMMA FirstBatch ==
    ASSUME NEW S \in SUBSET Plots, S # {}
    PROVE  Batches(S)[1] \in SUBSET S /\ Batches(S)[1] \in SUBSET Plots
<1>1. Batches(S) \in Seq(SUBSET S) /\ 1 \in DOMAIN Batches(S)
  BY BatchesCover
<1>2. Batches(S)[1] \in SUBSET S
  BY <1>1
<1>. QED
  BY <1>2

LEMMA Concatenated ==
    ASSUME NEW q \in Seq(Messages), NEW r \in Seq(Messages)
    PROVE  /\ q \o r \in Seq(Messages) /\ Len(q) \in Nat /\ Len(r) \in Nat /\ Len(q \o r) = Len(q) + Len(r)
           /\ \A i \in 1..Len(q) : (q \o r)[i] = q[i]
           /\ \A i \in 1..Len(r) : (q \o r)[Len(q) + i] = r[i]
           /\ \A i \in 1..Len(q \o r) : i \in 1..Len(q) \/ \E j \in 1..Len(r) : i = Len(q) + j
<1>1. q \o r \in Seq(Messages) /\ Len(q) \in Nat /\ Len(r) \in Nat /\ Len(q \o r) = Len(q) + Len(r)
  OBVIOUS
<1>2. \A i \in 1..Len(q) : (q \o r)[i] = q[i]
  OBVIOUS
<1>3. \A i \in 1..Len(r) : (q \o r)[Len(q) + i] = r[i]
  BY <1>1
<1>4. ASSUME NEW i \in 1..Len(q \o r)
      PROVE  i \in 1..Len(q) \/ \E j \in 1..Len(r) : i = Len(q) + j
  <2>1. CASE i > Len(q)
    <3>1. i - Len(q) \in 1..Len(r) /\ i = Len(q) + (i - Len(q))
      BY <2>1, <1>1
    <3>. QED
      BY <3>1
  <2>. QED
    BY <2>1, <1>1
<1>. QED
  BY <1>1, <1>2, <1>3, <1>4

\* What the first messages list does not depend on the ones behind them.
LEMMA DeliveredPrefix ==
    ASSUME NEW q \in Seq(Messages), NEW r \in Seq(Messages), NEW k, NEW n \in 0..Len(q)
    PROVE  Delivered(q \o r, k, n) = Delivered(q, k, n)
<1>1. \A i \in 1..n : (q \o r)[i] = q[i]
  OBVIOUS
<1>. QED
  BY <1>1 DEF Delivered

LEMMA DeliveredNext ==
    ASSUME NEW q \in Seq(Messages), NEW k, NEW n \in Nat, n < Len(q)
    PROVE  Delivered(q, k, n + 1) =
             Delivered(q, k, n) \cup (IF q[n + 1].kind = k THEN q[n + 1].data ELSE {})
  BY DEF Delivered

LEMMA DeliveredConcat ==
    ASSUME NEW q \in Seq(Messages), NEW r \in Seq(Messages), NEW k
    PROVE  Delivered(q \o r, k, Len(q \o r)) = Delivered(q, k, Len(q)) \cup Delivered(r, k, Len(r))
<1>. DEFINE c == q \o r
<1>1. Len(c) = Len(q) + Len(r) /\ Len(q) \in Nat /\ Len(r) \in Nat
  BY Concatenated
<1>2. \A i \in 1..Len(q) : c[i] = q[i] /\ i \in 1..Len(c)
  BY <1>1, Concatenated
<1>3. \A i \in 1..Len(r) : c[Len(q) + i] = r[i] /\ Len(q) + i \in 1..Len(c)
  BY <1>1, Concatenated
<1>4. \A i \in 1..Len(c) : i \in 1..Len(q) \/ \E j \in 1..Len(r) : i = Len(q) + j
  BY Concatenated
<1>. HIDE DEF c
<1>5. Delivered(c, k, Len(c)) \subseteq Delivered(q, k, Len(q)) \cup Delivered(r, k, Len(r))
  <2>1. SUFFICES ASSUME NEW i \in 1..Len(c), c[i].kind = k
                 PROVE  c[i].data \subseteq Delivered(q, k, Len(q)) \cup Delivered(r, k, Len(r))
    BY DEF Delivered
  <2>2. CASE i \in 1..Len(q)
    BY <2>1, <2>2, <1>2 DEF Delivered
  <2>3. CASE \E j \in 1..Len(r) : i = Len(q) + j
    BY <2>1, <2>3, <1>3 DEF Delivered
  <2>. QED
    BY <2>2, <2>3, <1>4
<1>6. Delivered(q, k, Len(q)) \subseteq Delivered(c, k, Len(c))
  BY <1>2 DEF Delivered
<1>7. Delivered(r, k, Len(r)) \subseteq Delivered(c, k, Len(c))
  <2>1. SUFFICES ASSUME NEW j \in 1..Len(r), r[j].kind = k
                 PROVE  r[j].data \subseteq Delivered(c, k, Len(c))
    BY DEF Delivered
  <2>2. c[Len(q) + j] = r[j] /\ Len(q) + j \in 1..Len(c)
    BY <1>3
  <2>. QED
    BY <2>1, <2>2 DEF Delivered
<1>. QED
  BY <1>5, <1>6, <1>7 DEF c

\* Messages that a refresh reports, without those that begin and end a sync
Plain(q) == \A i \in 1..Len(q) : q[i].kind \in {"loaded", "removed", "paths"} /\ ~q[i].initial

LEMMA MessageTyped ==
    ASSUME NEW kind \in {"loaded", "removed", "paths", "done"}, NEW S \in SUBSET Plots
    PROVE  /\ Message(kind, S) \in Messages
           /\ Message(kind, S).kind = kind /\ Message(kind, S).data = S /\ ~Message(kind, S).initial
<1>1. 0 \in SyncIds
  BY PlotSyncTyping DEF SyncIds
<1>. QED
  BY <1>1 DEF Message, Messages

LEMMA StartTyped ==
    ASSUME NEW init \in BOOLEAN, NEW last \in SyncIds
    PROVE  /\ StartMessage(init, last) \in Messages
           /\ StartMessage(init, last).kind = "start" /\ StartMessage(init, last).data = {}
           /\ StartMessage(init, last).initial = init
  BY DEF StartMessage, Messages

\* A start message lists nothing.
LEMMA StartDelivers ==
    ASSUME NEW m \in Messages, m.data = {}, NEW k
    PROVE  Delivered(<<m>>, k, Len(<<m>>)) = {}
<1>. DEFINE q == <<m>>
<1>1. Len(q) = 1 /\ q[1] = m
  OBVIOUS
<1>. HIDE DEF q
<1>2. \A i \in 1..Len(q) : q[i].data = {}
  BY <1>1
<1>3. Delivered(q, k, Len(q)) = {}
  BY <1>2 DEF Delivered
<1>. QED
  BY <1>3 DEF q

\* A list in batches
LEMMA BatchMessages ==
    ASSUME NEW kind \in {"loaded", "removed"}, NEW S \in SUBSET Plots,
           NEW q, q = [i \in DOMAIN Batches(S) |-> Message(kind, Batches(S)[i])]
    PROVE  /\ q \in Seq(Messages) /\ Plain(q)
           /\ \A i \in 1..Len(q) : q[i].kind = kind
           /\ Delivered(q, kind, Len(q)) = S
           /\ \A k \in {"loaded", "removed"} \ {kind} : Delivered(q, k, Len(q)) = {}
<1>. DEFINE B == Batches(S)
<1>1. B \in Seq(SUBSET S) /\ UNION {B[i] : i \in DOMAIN B} = S
  BY BatchesCover
<1>. HIDE DEF B
<1>2. Len(B) \in Nat /\ DOMAIN B = 1..Len(B) /\ \A i \in 1..Len(B) : B[i] \in SUBSET Plots
  BY <1>1
<1>3. q = [i \in 1..Len(B) |-> Message(kind, B[i])]
  BY <1>2 DEF B
<1>4. \A i \in 1..Len(B) : /\ Message(kind, B[i]) \in Messages
                           /\ Message(kind, B[i]).kind = kind
                           /\ Message(kind, B[i]).data = B[i]
                           /\ ~Message(kind, B[i]).initial
  BY <1>2, MessageTyped
<1>5. q \in Seq(Messages) /\ Len(q) = Len(B)
  BY <1>2, <1>3, <1>4
<1>6. \A i \in 1..Len(q) : q[i].kind = kind /\ q[i].data = B[i] /\ ~q[i].initial
  BY <1>3, <1>4, <1>5
<1>7. Delivered(q, kind, Len(q)) = UNION {B[i] : i \in 1..Len(B)}
  <2>1. \A p : p \in Delivered(q, kind, Len(q)) <=> \E i \in 1..Len(q) : p \in q[i].data
    BY <1>6 DEF Delivered
  <2>2. \A p : p \in Delivered(q, kind, Len(q)) <=> \E i \in 1..Len(B) : p \in B[i]
    BY <2>1, <1>5, <1>6
  <2>. QED
    BY <2>2
<1>8. \A k \in {"loaded", "removed"} \ {kind} : Delivered(q, k, Len(q)) = {}
  BY <1>6 DEF Delivered
<1>. QED
  BY <1>1, <1>2, <1>5, <1>6, <1>7, <1>8 DEF Plain

\* One message for an empty list
LEMMA SingleMessage ==
    ASSUME NEW kind \in {"loaded", "removed", "paths"}, NEW S \in SUBSET Plots,
           NEW q, q = <<Message(kind, S)>>
    PROVE  /\ q \in Seq(Messages) /\ Plain(q) /\ Len(q) = 1
           /\ \A i \in 1..Len(q) : q[i].kind = kind
           /\ Delivered(q, kind, Len(q)) = S
           /\ \A k \in {"loaded", "removed"} \ {kind} : Delivered(q, k, Len(q)) = {}
<1>1. /\ Message(kind, S) \in Messages
      /\ Message(kind, S).kind = kind /\ Message(kind, S).data = S /\ ~Message(kind, S).initial
  BY MessageTyped
<1>2. q \in Seq(Messages) /\ Len(q) = 1 /\ q[1] = Message(kind, S)
  BY <1>1
<1>3. \A i \in 1..Len(q) : q[i].kind = kind /\ q[i].data = S /\ ~q[i].initial
  BY <1>1, <1>2
<1>4. Delivered(q, kind, Len(q)) = S
  BY <1>2, <1>3 DEF Delivered
<1>5. \A k \in {"loaded", "removed"} \ {kind} : Delivered(q, k, Len(q)) = {}
  BY <1>3 DEF Delivered
<1>. QED
  BY <1>2, <1>3, <1>4, <1>5 DEF Plain

\* A queue that ends with its done message
Closed(q) ==
    /\ q[Len(q)].kind = "done"
    /\ \A i \in 1..Len(q) : /\ q[i].kind # "start" /\ ~q[i].initial
                            /\ q[i].kind = "done" => i = Len(q)

\* sync_done() queues the removals and ends with the done message.
LEMMA DoneMessagesAre ==
    ASSUME NEW R \in SUBSET Plots
    PROVE  LET q == DoneMessages(R)
           IN  /\ q \in Seq(Messages) /\ Len(q) > 1 /\ Closed(q)
               /\ Delivered(q, "loaded", Len(q)) = {} /\ Delivered(q, "removed", Len(q)) = R
<1>. DEFINE q == DoneMessages(R)
            x == IF R = {} THEN <<Message("removed", {})>>
                 ELSE [i \in DOMAIN Batches(R) |-> Message("removed", Batches(R)[i])]
            y == <<Message("paths", {}), Message("done", {})>>
<1>1. /\ x \in Seq(Messages) /\ Plain(x)
      /\ Delivered(x, "removed", Len(x)) = R /\ Delivered(x, "loaded", Len(x)) = {}
  <2>1. CASE R = {}
    BY <2>1, SingleMessage
  <2>2. CASE R # {}
    BY <2>2, BatchMessages
  <2>. QED
    BY <2>1, <2>2
<1>2. /\ Message("paths", {}) \in Messages /\ Message("done", {}) \in Messages
      /\ Message("paths", {}).kind = "paths" /\ Message("done", {}).kind = "done"
      /\ Message("paths", {}).data = {} /\ Message("done", {}).data = {}
      /\ ~Message("paths", {}).initial /\ ~Message("done", {}).initial
  BY MessageTyped
<1>3. q = x \o y
  BY DEF DoneMessages
<1>4. /\ y \in Seq(Messages) /\ Len(y) = 2 /\ y[1] = Message("paths", {}) /\ y[2] = Message("done", {})
  BY <1>2
<1>. HIDE DEF x, y
<1>5. \A i \in 1..Len(y) : y[i].data = {}
  BY <1>2, <1>4
<1>6. Delivered(y, "removed", Len(y)) = {} /\ Delivered(y, "loaded", Len(y)) = {}
  BY <1>5 DEF Delivered
<1>7. /\ q \in Seq(Messages) /\ Len(q) = Len(x) + Len(y) /\ Len(x) \in Nat
      /\ \A i \in 1..Len(x) : q[i] = x[i]
      /\ \A i \in 1..Len(y) : q[Len(x) + i] = y[i]
  <2>1. /\ x \o y \in Seq(Messages) /\ Len(x \o y) = Len(x) + Len(y) /\ Len(x) \in Nat
        /\ \A i \in 1..Len(x) : (x \o y)[i] = x[i]
        /\ \A i \in 1..Len(y) : (x \o y)[Len(x) + i] = y[i]
    BY <1>1, <1>4, Concatenated
  <2>. QED
    BY <2>1, <1>3
<1>8. Len(q) = Len(x) + 2 /\ q[Len(x) + 1] = y[1] /\ q[Len(x) + 2] = y[2]
  BY <1>4, <1>7
<1>9. Closed(q)
  <2>1. q[Len(q)].kind = "done"
    BY <1>2, <1>4, <1>8
  <2>2. ASSUME NEW i \in 1..Len(q)
        PROVE  q[i].kind # "start" /\ ~q[i].initial /\ (q[i].kind = "done" => i = Len(q))
    <3>1. CASE i \in 1..Len(x)
      BY <3>1, <1>1, <1>7 DEF Plain
    <3>2. CASE i = Len(x) + 1
      BY <3>2, <1>2, <1>4, <1>8
    <3>3. CASE i = Len(x) + 2
      BY <3>3, <1>2, <1>4, <1>8
    <3>. QED
      BY <3>1, <3>2, <3>3, <1>7, <1>8
  <2>. QED
    BY <2>1, <2>2 DEF Closed
<1>10. ASSUME NEW k PROVE Delivered(q, k, Len(q)) = Delivered(x, k, Len(x)) \cup Delivered(y, k, Len(y))
  <2>1. Delivered(x \o y, k, Len(x \o y)) = Delivered(x, k, Len(x)) \cup Delivered(y, k, Len(y))
    BY <1>1, <1>4, DeliveredConcat
  <2>. QED
    BY <2>1, <1>3
<1>11. Delivered(q, "loaded", Len(q)) = {} /\ Delivered(q, "removed", Len(q)) = R
  <2>1. Delivered(q, "loaded", Len(q)) = {}
    BY <1>1, <1>6, <1>10
  <2>2. Delivered(q, "removed", Len(q)) = R
    BY <1>1, <1>6, <1>10
  <2>. QED
    BY <2>1, <2>2
<1>12. q \in Seq(Messages) /\ Len(q) > 1
  BY <1>7, <1>8
<1>. QED
  BY <1>9, <1>11, <1>12

\* process_batch() queues the batch, or has nothing to say.
LEMMA ReportedIs ==
    ASSUME NEW L \in SUBSET Plots, NEW left
    PROVE  LET q == Reported(L, left)
           IN  /\ q \in Seq(Messages) /\ Plain(q)
               /\ \A i \in 1..Len(q) : q[i].kind = "loaded"
               /\ Delivered(q, "loaded", Len(q)) = L /\ Delivered(q, "removed", Len(q)) = {}
<1>. DEFINE q == Reported(L, left)
<1>1. CASE L # {} \/ left = {}
  <2>1. q = <<Message("loaded", L)>>
    BY <1>1 DEF Reported
  <2>. HIDE DEF q
  <2>2. /\ q \in Seq(Messages) /\ Plain(q)
        /\ \A i \in 1..Len(q) : q[i].kind = "loaded"
        /\ Delivered(q, "loaded", Len(q)) = L
        /\ \A k \in {"loaded", "removed"} \ {"loaded"} : Delivered(q, k, Len(q)) = {}
    <3>1. Message("loaded", L) \in Messages
      BY MessageTyped
    <3>. QED
      BY <2>1, SingleMessage
  <2>3. Delivered(q, "removed", Len(q)) = {}
    BY <2>2
  <2>. QED
    BY <2>2, <2>3 DEF q
<1>2. CASE ~(L # {} \/ left = {})
  <2>1. q = <<>> /\ L = {}
    BY <1>2 DEF Reported
  <2>. QED
    BY <2>1 DEF Plain, Delivered
<1>. QED
  BY <1>1, <1>2

\* _reset() queues a start message, all plots and a done message.
LEMMA FullSyncIs ==
    ASSUME NEW S \in SUBSET Plots
    PROVE  LET q == FullSync(S)
           IN  /\ q \in Seq(Messages) /\ Len(q) > 2
               /\ q[1] = StartMessage(TRUE, 0)
               /\ q[Len(q)].kind = "done"
               /\ \A i \in 2..Len(q) : /\ q[i].kind # "start" /\ ~q[i].initial
                                       /\ q[i].kind = "done" => i = Len(q)
               /\ Delivered(q, "loaded", Len(q)) = S /\ Delivered(q, "removed", Len(q)) = {}
<1>. DEFINE q == FullSync(S)
            s == <<StartMessage(TRUE, 0)>>
            x == [i \in DOMAIN Batches(S) |-> Message("loaded", Batches(S)[i])]
            d == DoneMessages({})
<1>1. q = (s \o x) \o d
  BY DEF FullSync
<1>2. /\ s \in Seq(Messages) /\ Len(s) = 1 /\ s[1] = StartMessage(TRUE, 0)
      /\ s[1].kind = "start" /\ s[1].data = {}
  <2>1. 0 \in SyncIds
    BY PlotSyncTyping DEF SyncIds
  <2>2. /\ StartMessage(TRUE, 0) \in Messages
        /\ StartMessage(TRUE, 0).kind = "start" /\ StartMessage(TRUE, 0).data = {}
    BY <2>1, StartTyped
  <2>3. PICK m \in Messages : m = StartMessage(TRUE, 0)
    BY <2>2
  <2>4. <<m>> \in Seq(Messages) /\ Len(<<m>>) = 1 /\ <<m>>[1] = m
    OBVIOUS
  <2>. QED
    BY <2>2, <2>3, <2>4, Zenon
<1>c. ASSUME NEW k PROVE Delivered(s, k, Len(s)) = {}
  <2>1. 0 \in SyncIds
    BY PlotSyncTyping DEF SyncIds
  <2>2. StartMessage(TRUE, 0) \in Messages /\ StartMessage(TRUE, 0).data = {}
    BY <2>1, StartTyped
  <2>. QED
    BY <2>2, StartDelivers
<1>3. /\ x \in Seq(Messages) /\ Plain(x)
      /\ Delivered(x, "loaded", Len(x)) = S /\ Delivered(x, "removed", Len(x)) = {}
  BY BatchMessages
<1>4. /\ d \in Seq(Messages) /\ Len(d) > 1 /\ Closed(d)
      /\ Delivered(d, "loaded", Len(d)) = {} /\ Delivered(d, "removed", Len(d)) = {}
  BY DoneMessagesAre
<1>. HIDE DEF s, x, d
<1>. DEFINE t == s \o x
<1>a. /\ t \in Seq(Messages) /\ Len(x) \in Nat /\ Len(t) = 1 + Len(x)
      /\ \A i \in 1..Len(x) : t[1 + i] = x[i]
      /\ t[1] = s[1]
  <2>1. /\ s \o x \in Seq(Messages) /\ Len(x) \in Nat /\ Len(s \o x) = Len(s) + Len(x)
        /\ \A i \in 1..Len(s) : (s \o x)[i] = s[i]
        /\ \A i \in 1..Len(x) : (s \o x)[Len(s) + i] = x[i]
    BY <1>2, <1>3, Concatenated
  <2>2. ASSUME NEW i \in 1..Len(x) PROVE t[1 + i] = x[i]
    BY <2>1, <1>2
  <2>3. 1 \in 1..Len(s)
    BY <1>2
  <2>4. t[1] = s[1]
    BY <2>1, <2>3
  <2>. QED
    BY <2>1, <2>2, <2>4, <1>2
<1>. HIDE DEF t
<1>b. /\ q \in Seq(Messages) /\ Len(d) \in Nat /\ Len(q) = Len(t) + Len(d)
      /\ \A i \in 1..Len(t) : q[i] = t[i]
      /\ \A i \in 1..Len(d) : q[Len(t) + i] = d[i]
  <2>1. /\ t \o d \in Seq(Messages) /\ Len(d) \in Nat /\ Len(t \o d) = Len(t) + Len(d)
        /\ \A i \in 1..Len(t) : (t \o d)[i] = t[i]
        /\ \A i \in 1..Len(d) : (t \o d)[Len(t) + i] = d[i]
    BY <1>4, <1>a, Concatenated
  <2>2. q = t \o d
    BY <1>1 DEF t
  <2>. QED
    BY <2>1, <2>2
<1>5. Len(q) = 1 + Len(x) + Len(d)
  BY <1>a, <1>b, <1>c
<1>6. /\ q[1] = s[1]
      /\ \A i \in 1..Len(x) : q[1 + i] = x[i]
      /\ \A i \in 1..Len(d) : q[1 + Len(x) + i] = d[i]
  <2>1. q[1] = s[1]
    BY <1>a, <1>b, <1>c
  <2>2. ASSUME NEW i \in 1..Len(x) PROVE q[1 + i] = x[i]
    <3>1. 1 + i \in 1..Len(t)
      BY <1>a
    <3>. QED
      BY <3>1, <1>a, <1>b, <1>c
  <2>3. ASSUME NEW i \in 1..Len(d) PROVE q[1 + Len(x) + i] = d[i]
    BY <1>a, <1>b, <1>c
  <2>. QED
    BY <2>1, <2>2, <2>3
<1>7. q[Len(q)].kind = "done"
  <2>1. Len(d) \in 1..Len(d) /\ Len(q) = 1 + Len(x) + Len(d)
    BY <1>4, <1>5, <1>b
  <2>. QED
    BY <2>1, <1>4, <1>6 DEF Closed
<1>8. ASSUME NEW i \in 2..Len(q)
      PROVE  q[i].kind # "start" /\ ~q[i].initial /\ (q[i].kind = "done" => i = Len(q))
  <2>1. CASE i <= 1 + Len(x)
    <3>1. i - 1 \in 1..Len(x) /\ i = 1 + (i - 1)
      BY <2>1, <1>5, <1>a
    <3>2. q[i] = x[i - 1]
      BY <3>1, <1>6
    <3>. QED
      BY <3>1, <3>2, <1>3 DEF Plain
  <2>2. CASE i > 1 + Len(x)
    <3>1. PICK j \in 1..Len(d) : i = 1 + Len(x) + j
      <4>1. i - (1 + Len(x)) \in 1..Len(d) /\ i = 1 + Len(x) + (i - (1 + Len(x)))
        BY <2>2, <1>5, <1>a, <1>b, <1>c
      <4>. QED
        BY <4>1
    <3>2. q[i] = d[j]
      BY <3>1, <1>6
    <3>3. j = Len(d) => i = Len(q)
      BY <3>1, <1>5
    <3>. QED
      BY <3>2, <3>3, <1>4 DEF Closed
  <2>. QED
    BY <2>1, <2>2, <1>a
<1>9. ASSUME NEW k
      PROVE  Delivered(q, k, Len(q))
               = (Delivered(s, k, Len(s)) \cup Delivered(x, k, Len(x))) \cup Delivered(d, k, Len(d))
  <2>1. Delivered(q, k, Len(q)) = Delivered(t, k, Len(t)) \cup Delivered(d, k, Len(d))
    <3>1. Delivered(t \o d, k, Len(t \o d)) = Delivered(t, k, Len(t)) \cup Delivered(d, k, Len(d))
      BY <1>4, <1>a, DeliveredConcat
    <3>. QED
      BY <3>1, <1>1 DEF t
  <2>2. Delivered(t, k, Len(t)) = Delivered(s, k, Len(s)) \cup Delivered(x, k, Len(x))
    BY <1>2, <1>3, DeliveredConcat DEF t
  <2>. QED
    BY <2>1, <2>2
<1>10. Delivered(q, "loaded", Len(q)) = S /\ Delivered(q, "removed", Len(q)) = {}
  <2>1. Delivered(q, "loaded", Len(q)) = S
    BY <1>3, <1>4, <1>9, <1>c
  <2>2. Delivered(q, "removed", Len(q)) = {}
    BY <1>3, <1>4, <1>9, <1>c
  <2>. QED
    BY <2>1, <2>2
<1>11. q \in Seq(Messages) /\ Len(q) > 2 /\ q[1] = StartMessage(TRUE, 0)
  BY <1>2, <1>4, <1>5, <1>6, <1>a, <1>b
<1>. QED
  BY <1>7, <1>8, <1>10, <1>11

-----------------------------------------------------------------------------
(* The types *)

LEMMA StartSyncTyped ==
    ASSUME TypeOK, NEW last \in SyncIds, StartSync(last)
    PROVE  sync_id' \in SyncIds /\ sync_id' # 0 /\ sync_id' # last /\ clock' \in 1..MaxClock
  BY PlotSyncTyping DEF TypeOK, StartSync, SyncIds

\* _reset() leaves a sync of all plots.
LEMMA ResetDoes ==
    ASSUME TypeOK, Reset
    PROVE  /\ sync_id' \in SyncIds /\ sync_id' # 0 /\ clock' \in 1..MaxClock
           /\ last_sync_id' = 0 /\ last_sync_id' \in SyncIds /\ next_message_id' = 0
           /\ lost' = FALSE
           /\ messages' \in Seq(Messages) /\ Len(messages') \in Nat /\ Len(messages') > 2
           /\ messages'[1].kind = "start" /\ messages'[1].initial /\ messages'[1].data = {}
           /\ messages'[Len(messages')].kind = "done"
           /\ \A i \in 2..Len(messages') :
                /\ messages'[i].kind # "start" /\ ~messages'[i].initial
                /\ messages'[i].kind = "done" => i = Len(messages')
           /\ Delivered(messages', "loaded", Len(messages')) = plots
           /\ Delivered(messages', "removed", Len(messages')) = {}
<1>1. 0 \in SyncIds
  BY PlotSyncTyping DEF SyncIds
<1>2. sync_id' \in SyncIds /\ sync_id' # 0 /\ clock' \in 1..MaxClock
  BY <1>1, StartSyncTyped DEF Reset
<1>3. plots \in SUBSET Plots /\ messages' = FullSync(plots)
  BY DEF TypeOK, Reset
<1>. DEFINE q == FullSync(plots)
<1>5. /\ q \in Seq(Messages) /\ Len(q) > 2
      /\ q[1] = StartMessage(TRUE, 0)
      /\ q[Len(q)].kind = "done"
      /\ \A i \in 2..Len(q) : /\ q[i].kind # "start" /\ ~q[i].initial
                              /\ q[i].kind = "done" => i = Len(q)
      /\ Delivered(q, "loaded", Len(q)) = plots /\ Delivered(q, "removed", Len(q)) = {}
  BY <1>3, FullSyncIs
<1>. HIDE DEF q
<1>6. Len(q) \in Nat
  BY <1>5
<1>7. /\ StartMessage(TRUE, 0).kind = "start" /\ StartMessage(TRUE, 0).data = {}
      /\ StartMessage(TRUE, 0).initial = TRUE
  BY <1>1, StartTyped
<1>8. messages' = q
  BY <1>3 DEF q
<1>9. last_sync_id' = 0 /\ next_message_id' = 0 /\ lost' = FALSE
  BY DEF Reset
<1>. QED
  BY <1>1, <1>2, <1>5, <1>6, <1>7, <1>8, <1>9

LEMMA ResetTyped ==
    ASSUME TypeOK, Reset
    PROVE  /\ resetting' = resetting /\ unqueued' = unqueued
           /\ sync_id' \in SyncIds /\ last_sync_id' \in SyncIds /\ clock' \in 1..MaxClock
           /\ messages' \in Seq(Messages) /\ next_message_id' \in 0..Len(messages')
           /\ lost' \in BOOLEAN
<1>1. /\ sync_id' \in SyncIds /\ last_sync_id' \in SyncIds /\ clock' \in 1..MaxClock
      /\ messages' \in Seq(Messages) /\ Len(messages') \in Nat /\ next_message_id' = 0 /\ lost' = FALSE
  BY ResetDoes
<1>2. next_message_id' \in 0..Len(messages')
  BY <1>1
<1>3. lost' \in BOOLEAN
  BY <1>1, Zenon
<1>4. resetting' = resetting /\ unqueued' = unqueued
  BY DEF Reset, reset_vars
<1>. QED
  BY <1>1, <1>2, <1>3, <1>4

LEMMA BeginResetTyped ==
    ASSUME TypeOK, BeginReset
    PROVE  /\ resetting' = "cleared" /\ unqueued' = unqueued
           /\ sync_id' = 0 /\ sync_id' \in SyncIds /\ last_sync_id' \in SyncIds /\ clock' = clock
           /\ messages' = <<>> /\ messages' \in Seq(Messages)
           /\ next_message_id' = 0 /\ next_message_id' \in 0..Len(messages')
           /\ lost' \in BOOLEAN
<1>1. 0 \in SyncIds
  BY PlotSyncTyping DEF SyncIds
<1>2. messages' \in Seq(Messages) /\ next_message_id' \in 0..Len(messages')
  BY DEF BeginReset
<1>3. lost' \in BOOLEAN
  BY Zenon DEF BeginReset
<1>. QED
  BY <1>1, <1>2, <1>3 DEF BeginReset

LEMMA TypeInit == Init => TypeOK
<1>1. 0 \in SyncIds
  BY PlotSyncTyping DEF SyncIds
<1>2. ASSUME Init PROVE /\ messages \in Seq(Messages) /\ next_message_id \in 0..Len(messages)
                        /\ inbox \in Seq(Envelopes) /\ Len(inbox) <= MaxInbox
  BY <1>2, PlotSyncTyping DEF Init
<1>3. ASSUME Init PROVE thread \in Threads /\ answer \in Answers /\ receiver \in Receivers
  BY <1>3, <1>1 DEF Init, Threads, Answers, Receivers, NoAnswer, NewReceiver
<1>4. ASSUME Init PROVE /\ initial \in BOOLEAN /\ task \in BOOLEAN /\ waiting \in BOOLEAN /\ lost \in BOOLEAN
                        /\ conn \in {"up", "closed", "off"}
  BY <1>4, Zenon DEF Init
<1>5. ASSUME Init PROVE /\ disk \in SUBSET Plots /\ plots \in SUBSET Plots
                        /\ sync_id \in SyncIds /\ last_sync_id \in SyncIds
                        /\ clock \in 1..MaxClock /\ changes \in Nat /\ closes \in Nat
                        /\ unqueued \in SUBSET Plots
                        /\ resetting \in {"no", "cleared", "started", "queueing"}
  BY <1>5, <1>1, PlotSyncTyping DEF Init
<1>. QED
  BY <1>2, <1>3, <1>4, <1>5 DEF TypeOK

LEMMA ReceiverUpdates ==
    ASSUME NEW r \in Receivers, NEW D \in SUBSET Plots, NEW s \in SyncIds
    PROVE  /\ [r EXCEPT !.sync_id = s, !.next = @ + 1, !.additions = {}, !.removals = {}] \in Receivers
           /\ [r EXCEPT !.additions = @ \cup D, !.next = @ + 1] \in Receivers
           /\ [r EXCEPT !.removals = @ \cup D, !.next = @ + 1] \in Receivers
<1>1. r.next + 1 \in Nat /\ r.additions \cup D \in SUBSET Plots /\ r.removals \cup D \in SUBSET Plots
  BY DEF Receivers
<1>2. PICK n \in Nat : n = r.next + 1
  BY <1>1
<1>3. PICK A \in SUBSET Plots : A = r.additions \cup D
  BY <1>1
<1>4. PICK R \in SUBSET Plots : R = r.removals \cup D
  BY <1>1
<1>5. [r EXCEPT !.sync_id = s, !.next = n, !.additions = {}, !.removals = {}] \in Receivers
  BY DEF Receivers
<1>6. [r EXCEPT !.additions = A, !.next = n] \in Receivers
  BY DEF Receivers
<1>7. [r EXCEPT !.removals = R, !.next = n] \in Receivers
  BY DEF Receivers
<1>. QED
  BY <1>2, <1>3, <1>4, <1>5, <1>6, <1>7, Zenon

\* The receiver's part of a message keeps its type.
LEMMA ReceiverTyped ==
    ASSUME TypeOK, Receive
    PROVE  /\ receiver' \in Receivers
           /\ answer' \in Answers
           /\ inbox' \in Seq(Envelopes)
           /\ Len(inbox') <= MaxInbox
<1>. DEFINE e == Head(inbox)
            r == IF e.message.initial THEN NewReceiver ELSE receiver
<1>0. 0 \in SyncIds
  BY PlotSyncTyping DEF SyncIds
<1>1. /\ e \in Envelopes
      /\ inbox' \in Seq(Envelopes)
      /\ Len(inbox') <= MaxInbox
  BY PlotSyncTyping DEF TypeOK, Receive
<1>2. NewReceiver \in Receivers /\ r \in Receivers
  BY <1>0 DEF TypeOK, NewReceiver, Receivers
<1>3. e.message.data \in SUBSET Plots /\ e.message.kind \in {"start", "loaded", "removed", "paths", "done"}
  BY <1>1 DEF Messages, Envelopes
<1>4. answer' \in Answers
  <2>1. r.sync_id \in SyncIds /\ r.next \in Nat
    BY <1>2 DEF Receivers
  <2>. QED
    BY <2>1, <1>0 DEF TypeOK, Receive, Answers
<1>5. receiver' = r \/ receiver' \in Partial(r, e) \/ receiver' = Processed(r, e)
  BY DEF Receive
<1>. HIDE DEF e, r
<1>6. CASE receiver' \in Partial(r, e)
  <2>1. PICK part \in SUBSET Plots :
          receiver' = [r EXCEPT !.additions = @ \cup part] \/ receiver' = [r EXCEPT !.removals = @ \cup part]
    BY <1>3, <1>6, <1>2 DEF Partial, Receivers
  <2>. QED
    BY <2>1, <1>1, <1>2, <1>4 DEF Receivers
<1>7. Processed(r, e) \in Receivers
  <2>1. Applied(r) \in Receivers
    BY <1>0, <1>2 DEF Applied, NewReceiver, Receivers
  <2>2. CASE e.message.kind = "start"
    <3>1. Processed(r, e) = [r EXCEPT !.sync_id = e.sync_id, !.next = @ + 1, !.additions = {}, !.removals = {}]
      BY <2>2 DEF Processed
    <3>2. e.sync_id \in SyncIds
      BY <1>1 DEF Envelopes
    <3>. QED
      BY <3>1, <3>2, <1>2, ReceiverUpdates
  <2>3. CASE e.message.kind = "loaded"
    <3>1. Processed(r, e) = [r EXCEPT !.additions = @ \cup e.message.data, !.next = @ + 1]
      BY <2>3 DEF Processed
    <3>. QED
      BY <3>1, <1>0, <1>2, <1>3, ReceiverUpdates
  <2>4. CASE e.message.kind = "removed"
    <3>1. Processed(r, e) = [r EXCEPT !.removals = @ \cup e.message.data, !.next = @ + 1]
      BY <2>4 DEF Processed
    <3>. QED
      BY <3>1, <1>0, <1>2, <1>3, ReceiverUpdates
  <2>5. CASE e.message.kind = "paths"
    BY <2>5, <1>2 DEF Processed, Receivers
  <2>6. CASE e.message.kind = "done"
    BY <2>1, <2>6 DEF Processed
  <2>. QED
    BY <2>2, <2>3, <2>4, <2>5, <2>6, <1>3
<1>. QED
  BY <1>1, <1>2, <1>4, <1>5, <1>6, <1>7

LEMMA TypeStep == TypeOK /\ QueueInv /\ [Next]_vars => TypeOK'
<1>. SUFFICES ASSUME TypeOK, QueueInv, [Next]_vars PROVE TypeOK'
  OBVIOUS
<1>0. 0 \in SyncIds /\ MaxInbox \in Nat
  BY PlotSyncTyping DEF SyncIds
<1>n. NoAnswer \in Answers
  BY <1>0 DEF NoAnswer, Answers
<1>1. CASE SendNextMessage
  <2>1. CASE conn = "up" /\ UNCHANGED <<sender_vars, clock>>
    <3>1. messages[next_message_id + 1] \in Messages
      BY <1>1 DEF TypeOK, SendNextMessage
    <3>2. Len(inbox) \in Nat /\ inbox \in Seq(Envelopes)
      BY DEF TypeOK
    <3>3. [sync_id |-> sync_id, id |-> next_message_id, fresh |-> TRUE, message |-> messages[next_message_id + 1]]
            \in Envelopes
      BY <3>1 DEF TypeOK, Envelopes
    <3>4. CASE conn = "up" /\ Len(inbox) < MaxInbox /\ waiting' = TRUE
               /\ inbox' = Append(inbox, [sync_id |-> sync_id, id |-> next_message_id, fresh |-> TRUE,
                                          message |-> messages[next_message_id + 1]])
      <4>1. /\ inbox' \in Seq(Envelopes)
            /\ Len(inbox') <= MaxInbox
        BY <3>2, <3>3, <3>4, <1>0
      <4>. QED
        BY <4>1, <3>4, <2>1, <1>1 DEF TypeOK, SendNextMessage, sender_vars, manager_vars
    <3>. QED
      BY <3>4, <2>1, <1>1 DEF SendNextMessage
  <2>2. CASE BeginReset /\ UNCHANGED <<inbox, waiting>>
    BY <2>2, <1>1, BeginResetTyped DEF TypeOK, SendNextMessage, manager_vars
  <2>. QED
    BY <2>1, <2>2, <1>1 DEF SendNextMessage
<1>2. CASE Timeout
  <2>1. inbox' \in Seq(Envelopes) /\ Len(inbox') = Len(inbox)
    <3>1. inbox \in Seq(Envelopes) /\ Len(inbox) \in Nat /\ DOMAIN inbox = 1..Len(inbox)
      BY DEF TypeOK
    <3>2. \A i \in 1..Len(inbox) : [inbox[i] EXCEPT !.fresh = FALSE] \in Envelopes
      <4>1. \A i \in 1..Len(inbox) : inbox[i] \in Envelopes
        BY <3>1
      <4>2. ASSUME NEW e \in Envelopes PROVE [e EXCEPT !.fresh = FALSE] \in Envelopes
        BY DEF Envelopes
      <4>. QED
        BY <4>1, <4>2
    <3>. QED
      BY <3>1, <3>2, <1>2 DEF Timeout
  <2>2. clock' \in 1..MaxClock
    BY <1>2, PlotSyncTyping DEF TypeOK, Timeout
  <2>. QED
    BY <2>1, <2>2, <1>2, <1>n DEF TypeOK, Timeout, sender_vars, manager_vars
<1>3. CASE Answered
  <2>u. UNCHANGED <<manager_vars, conn, task, inbox, receiver, changes, closes>>
        /\ waiting' = FALSE /\ answer' = NoAnswer
    BY <1>3 DEF Answered
  <2>1. CASE FinalizeSync
    <3>1. messages' \in Seq(Messages) /\ next_message_id' \in 0..Len(messages') /\ lost' \in BOOLEAN
      BY <2>1 DEF FinalizeSync, TypeOK
    <3>. QED
      BY <3>1, <2>1, <2>u, <1>0, <1>n DEF FinalizeSync, TypeOK, manager_vars, reset_vars
  <2>2. CASE next_message_id' = next_message_id + 1 /\ UNCHANGED <<sync_id, last_sync_id, messages, reset_vars, lost, clock>>
             /\ next_message_id < Len(messages)
    <3>1. next_message_id' \in 0..Len(messages')
      BY <2>2 DEF TypeOK
    <3>. QED
      BY <3>1, <2>2, <2>u, <1>n DEF TypeOK, manager_vars, reset_vars
  <2>3. CASE next_message_id' = answer.id /\ answer.id < Len(messages)
             /\ UNCHANGED <<sync_id, last_sync_id, messages, reset_vars, lost, clock>>
    <3>1. next_message_id' \in 0..Len(messages')
      BY <2>3 DEF TypeOK, Answers
    <3>. QED
      BY <3>1, <2>3, <2>u, <1>n DEF TypeOK, manager_vars, reset_vars
  <2>4. CASE BeginReset
    BY <2>4, <2>u, <1>n, BeginResetTyped DEF TypeOK, manager_vars
  <2>5. waiting => next_message_id < Len(messages)
    BY DEF QueueInv
  <2>. QED
    BY <2>1, <2>2, <2>3, <2>4, <2>5, <1>3 DEF Answered
<1>4. CASE Receive
  BY <1>4, ReceiverTyped DEF TypeOK, Receive, sender_vars, manager_vars
<1>5. CASE BeginRefresh
  BY <1>5 DEF TypeOK, Threads, BeginRefresh, sender_vars, net_vars
<1>6. CASE SyncStart
  <2>1. CASE StartSync(last_sync_id) /\ messages' = Append(messages, StartMessage(initial, last_sync_id))
    <3>1. sync_id' \in SyncIds /\ clock' \in 1..MaxClock
      BY <2>1, StartSyncTyped DEF TypeOK
    <3>2. StartMessage(initial, last_sync_id) \in Messages
      BY StartTyped DEF TypeOK
    <3>3. messages' \in Seq(Messages) /\ Len(messages') = Len(messages) + 1 /\ Len(messages) \in Nat
      BY <2>1, <3>2 DEF TypeOK
    <3>6. next_message_id' = next_message_id /\ last_sync_id' = last_sync_id /\ lost' \in BOOLEAN
      BY <2>1, <1>6, Zenon DEF TypeOK, SyncStart, sender_vars
    <3>7. UNCHANGED <<resetting, unqueued>>
      BY <1>6 DEF SyncStart, sender_vars, reset_vars
    <3>4. next_message_id' \in 0..Len(messages')
      BY <3>3, <3>6 DEF TypeOK
    <3>5. thread' \in Threads
      BY <1>6 DEF TypeOK, Threads, SyncStart
    <3>. QED
      BY <3>1, <3>3, <3>4, <3>5, <3>6, <3>7, <1>6 DEF TypeOK, SyncStart, net_vars
  <2>2. CASE UNCHANGED <<sender_vars, clock>>
    BY <2>2, <1>6 DEF TypeOK, Threads, SyncStart, sender_vars, net_vars
  <2>. QED
    BY <2>1, <2>2, <1>6 DEF SyncStart
<1>7. CASE DropVanished
  BY <1>7 DEF TypeOK, Threads, DropVanished, sender_vars, net_vars
<1>8. CASE LoadBatch
  <2>1. plots' \in SUBSET Plots
    BY <1>8 DEF TypeOK, LoadBatch
  <2>2. thread' \in Threads
    <3>. DEFINE batch == Batches(thread.left)[1]
                found == (batch \cap disk) \ plots
    <3>1. PICK loaded \in SUBSET Plots :
            \/ thread' = [thread EXCEPT !.pc = "reporting", !.loaded = loaded, !.left = @ \ batch]
            \/ thread' = [thread EXCEPT !.pc = "finishing", !.left = {}]
      <4>1. found \in SUBSET Plots
        BY DEF TypeOK
      <4>. HIDE DEF batch, found
      <4>. QED
        BY <4>1, <1>8 DEF LoadBatch, batch, found
    <3>. HIDE DEF batch
    <3>2. thread \in Threads /\ thread.left \ batch \in SUBSET Plots /\ {} \in SUBSET Plots
      BY DEF TypeOK, Threads
    <3>3. CASE thread' = [thread EXCEPT !.pc = "reporting", !.loaded = loaded, !.left = @ \ batch]
      BY <3>2, <3>3 DEF Threads
    <3>4. CASE thread' = [thread EXCEPT !.pc = "finishing", !.left = {}]
      BY <3>2, <3>4 DEF Threads
    <3>. QED
      BY <3>1, <3>3, <3>4
  <2>. QED
    BY <2>1, <2>2, <1>8 DEF TypeOK, LoadBatch, sender_vars, net_vars
<1>9. CASE ReportBatch
  <2>1. CASE messages' = messages \o Reported(thread.loaded, thread.left)
             /\ UNCHANGED <<plots, initial, sync_id, last_sync_id, next_message_id, reset_vars, lost>>
             /\ thread' = [thread EXCEPT !.pc = IF thread.left = {} THEN "finishing" ELSE "loading",
                                         !.loaded = {}]
    <3>1. thread.loaded \in SUBSET Plots
      BY DEF TypeOK, Threads
    <3>2. Reported(thread.loaded, thread.left) \in Seq(Messages)
      BY <3>1, ReportedIs
    <3>3. messages' \in Seq(Messages) /\ Len(messages) \in Nat /\ Len(messages') \in Nat /\ Len(messages') >= Len(messages)
      BY <2>1, <3>2 DEF TypeOK
    <3>4. thread' \in Threads
      BY <2>1 DEF TypeOK, Threads
    <3>5. next_message_id' \in 0..Len(messages')
      BY <3>3, <2>1 DEF TypeOK
    <3>. QED
      BY <3>3, <3>4, <3>5, <2>1, <1>9 DEF TypeOK, ReportBatch, net_vars, reset_vars
  <2>2. CASE ManagerReset
    BY <2>2, <1>9 DEF TypeOK, Threads, ReportBatch, ManagerReset, sender_vars, net_vars
  <2>. QED
    BY <2>1, <2>2, <1>9 DEF ReportBatch
<1>10. CASE SyncDone
  <2>1. CASE /\ messages' = IF _refreshing_enabled THEN messages \o DoneMessages(thread.removed) ELSE messages
             /\ initial' = FALSE
             /\ thread' = [thread EXCEPT !.pc = "idle", !.removed = {}]
             /\ UNCHANGED <<plots, sync_id, last_sync_id, next_message_id, reset_vars, lost>>
    <3>1. thread.removed \in SUBSET Plots
      BY DEF TypeOK, Threads
    <3>2. DoneMessages(thread.removed) \in Seq(Messages)
      BY <3>1, DoneMessagesAre
    <3>3. messages' \in Seq(Messages) /\ Len(messages) \in Nat /\ Len(messages') \in Nat /\ Len(messages') >= Len(messages)
      BY <2>1, <3>2 DEF TypeOK
    <3>4. thread' \in Threads
      BY <2>1 DEF TypeOK, Threads
    <3>5. next_message_id' \in 0..Len(messages')
      BY <3>3, <2>1 DEF TypeOK
    <3>. QED
      BY <3>3, <3>4, <3>5, <2>1, <1>10 DEF TypeOK, SyncDone, net_vars, reset_vars
  <2>2. CASE ManagerReset
    BY <2>2, <1>10 DEF TypeOK, Threads, SyncDone, ManagerReset, sender_vars, net_vars
  <2>. QED
    BY <2>1, <2>2, <1>10 DEF SyncDone
<1>11. CASE EndThread
  BY <1>11 DEF TypeOK, Threads, EndThread, sender_vars, net_vars
<1>12. CASE Connect
  <2>1. NewReceiver \in Receivers
    BY <1>0 DEF NewReceiver, Receivers
  <2>4. thread' \in Threads
    BY <1>12 DEF TypeOK, Threads, Connect
  <2>2. CASE Reset
    BY <2>1, <2>2, <2>4, <1>12, ResetTyped DEF TypeOK, Connect
  <2>3. CASE UNCHANGED <<sender_vars, clock>>
    BY <2>1, <2>3, <2>4, <1>12 DEF TypeOK, Connect, sender_vars
  <2>. QED
    BY <2>2, <2>3, <1>12 DEF Connect
<1>13. CASE Close
  <2>1. inbox' \in Seq(Envelopes) /\ Len(inbox') <= MaxInbox
    BY <1>13, <1>0 DEF Close
  <2>2. closes' \in Nat
    BY <1>13 DEF TypeOK, Close
  <2>. QED
    BY <2>1, <2>2, <1>13, <1>n DEF TypeOK, Close, sender_vars, manager_vars
<1>14. CASE OnDisconnect
  BY <1>14 DEF TypeOK, OnDisconnect, sender_vars, manager_vars, net_vars
<1>15. CASE AwaitClosed
  <2>1. messages' \in Seq(Messages) /\ next_message_id' \in 0..Len(messages')
    BY <1>15 DEF AwaitClosed, ResetClosed
  <2>. QED
    BY <2>1, <1>15, <1>0 DEF TypeOK, AwaitClosed, ResetClosed, manager_vars, net_vars, reset_vars
<1>16. CASE \E p \in Plots : ChangeDisk(p)
  BY <1>16 DEF TypeOK, ChangeDisk, sender_vars, net_vars
<1>17. CASE UNCHANGED vars
  BY <1>17 DEF TypeOK, vars
<1>18. CASE ResetStart
  <2>1. sync_id' \in SyncIds /\ clock' \in 1..MaxClock
    BY <1>18, StartSyncTyped DEF TypeOK, ResetStart
  <2>2. StartMessage(TRUE, last_sync_id) \in Messages
    BY StartTyped DEF TypeOK
  <2>5. PICK m \in Messages : messages' = Append(messages, m)
    BY <2>2, <1>18 DEF ResetStart
  <2>3. messages' \in Seq(Messages) /\ Len(messages') = Len(messages) + 1 /\ Len(messages) \in Nat
    BY <2>5 DEF TypeOK
  <2>4. next_message_id' \in 0..Len(messages')
    BY <2>3, <1>18 DEF TypeOK, ResetStart
  <2>. QED
    BY <2>1, <2>3, <2>4, <1>18 DEF TypeOK, ResetStart, manager_vars, net_vars
<1>19. CASE ResetList
  BY <1>19 DEF TypeOK, ResetList, manager_vars, net_vars
<1>20. CASE ResetBatch
  <2>1. PICK batch \in SUBSET Plots : /\ messages' = Append(messages, Message("loaded", batch))
                                      /\ unqueued' = unqueued \ batch
    BY <1>20, FirstBatch DEF TypeOK, ResetBatch
  <2>2. Message("loaded", batch) \in Messages
    BY MessageTyped
  <2>3. messages' \in Seq(Messages) /\ Len(messages') = Len(messages) + 1 /\ Len(messages) \in Nat
    BY <2>1, <2>2 DEF TypeOK
  <2>4. next_message_id' \in 0..Len(messages') /\ unqueued' \in SUBSET Plots
    BY <2>1, <2>3, <1>20 DEF TypeOK, ResetBatch
  <2>. QED
    BY <2>3, <2>4, <1>20 DEF TypeOK, ResetBatch, manager_vars, net_vars
<1>21. CASE ResetDone
  <2>1. DoneMessages({}) \in Seq(Messages)
    BY DoneMessagesAre
  <2>2. messages' \in Seq(Messages) /\ Len(messages) \in Nat /\ Len(messages') \in Nat /\ Len(messages') >= Len(messages)
    BY <2>1, <1>21 DEF TypeOK, ResetDone
  <2>3. next_message_id' \in 0..Len(messages')
    BY <2>2, <1>21 DEF TypeOK, ResetDone
  <2>. QED
    BY <2>2, <2>3, <1>21 DEF TypeOK, ResetDone, manager_vars, net_vars
<1>. QED
  BY <1>1, <1>2, <1>3, <1>4, <1>5, <1>6, <1>7, <1>8, <1>9, <1>10, <1>11, <1>12, <1>13, <1>14, <1>15,
     <1>16, <1>17, <1>18, <1>19, <1>20, <1>21 DEF Next, SenderNext, ThreadNext

-----------------------------------------------------------------------------
(* The queue, the connection and the receiver *)

ProtocolInv == QueueInv /\ NetInv /\ ResetInv /\ ReceiverInv

\* What is queued behind the messages of a sync changes nothing for those before it.
LEMMA AppendKeeps ==
    ASSUME TypeOK, ProtocolInv, NEW r \in Seq(Messages),
           messages' = messages \o r, r # <<>> => messages # <<>>,
           \A i \in 1..Len(r) : r[i].kind # "start" /\ ~r[i].initial,
           UNCHANGED <<conn, sync_id, last_sync_id, next_message_id, waiting, inbox, answer, receiver>>,
           resetting' = resetting \/ (resetting = "queueing" /\ resetting' = "no"),
           Open' => \A i \in 1..Len(r) : r[i].kind # "removed"
    PROVE  ProtocolInv'
<1>1. messages \in Seq(Messages) /\ next_message_id \in Nat /\ next_message_id <= Len(messages)
  BY DEF TypeOK
<1>2. /\ messages' \in Seq(Messages) /\ Len(messages) \in Nat /\ Len(r) \in Nat
      /\ Len(messages') = Len(messages) + Len(r)
      /\ \A i \in 1..Len(messages) : messages'[i] = messages[i]
      /\ \A i \in 1..Len(messages') : i \in 1..Len(messages) \/ \E j \in 1..Len(r) : i = Len(messages) + j /\ messages'[i] = r[j]
  <2>1. /\ messages \o r \in Seq(Messages) /\ Len(messages) \in Nat /\ Len(r) \in Nat
        /\ Len(messages \o r) = Len(messages) + Len(r)
        /\ \A i \in 1..Len(messages) : (messages \o r)[i] = messages[i]
        /\ \A i \in 1..Len(r) : (messages \o r)[Len(messages) + i] = r[i]
        /\ \A i \in 1..Len(messages \o r) : i \in 1..Len(messages) \/ \E j \in 1..Len(r) : i = Len(messages) + j
    BY <1>1, Concatenated
  <2>. QED
    BY <2>1
<1>3. ASSUME NEW k, NEW n \in 0..Len(messages) PROVE Delivered(messages', k, n) = Delivered(messages, k, n)
  <2>1. Delivered(messages \o r, k, n) = Delivered(messages, k, n)
    BY <1>1, DeliveredPrefix
  <2>. QED
    BY <2>1
<1>4. messages # <<>> <=> Len(messages) > 0
  BY <1>1
<1>5. messages' # <<>> <=> Len(messages') > 0
  BY <1>2
<1>6. messages # <<>> => messages'[1] = messages[1]
  BY <1>2, <1>4
<1>7. messages = <<>> <=> messages' = <<>>
  <2>1. r = <<>> => Len(r) = 0
    OBVIOUS
  <2>. QED
    BY <2>1, <1>2, <1>4, <1>5
<1>8. next_message_id < Len(messages) => Current' = Current /\ next_message_id < Len(messages')
  BY <1>1, <1>2 DEF Current
<1>9. QueueInv'
  <2>1. (sync_id = 0 <=> messages = <<>>)'
    BY <1>7 DEF ProtocolInv, QueueInv
  <2>2. (messages # <<>> => messages[1].kind = "start" /\ messages[1].data = {})'
    BY <1>6, <1>7 DEF ProtocolInv, QueueInv
  <2>3. ASSUME NEW i \in 2..Len(messages') PROVE messages'[i].kind # "start" /\ ~messages'[i].initial
    BY <1>2 DEF ProtocolInv, QueueInv
  <2>4. ASSUME NEW i \in 1..next_message_id PROVE messages'[i].kind # "done"
    BY <1>1, <1>2 DEF ProtocolInv, QueueInv
  <2>5. waiting => next_message_id < Len(messages')
    BY <1>8 DEF ProtocolInv, QueueInv
  <2>6. ASSUME Open', NEW i \in 1..Len(messages') PROVE messages'[i].kind # "removed"
    <3>1. Open
      BY <2>6, <1>2 DEF Open
    <3>. QED
      BY <2>6, <3>1, <1>2 DEF ProtocolInv, QueueInv
  <2>. QED
    BY <2>1, <2>2, <2>3, <2>4, <2>5, <2>6 DEF QueueInv
<1>10. NetInv'
  BY <1>8 DEF ProtocolInv, NetInv, NoAnswer
<1>11. /\ Started /\ messages # <<>> => Started'
       /\ AtMessage => AtMessage'
       /\ PastMessage => PastMessage'
       /\ Refusing /\ next_message_id < Len(messages) => Refusing'
       /\ PastDone => PastDone'
  <2>1. next_message_id \in 0..Len(messages)
    BY DEF TypeOK
  <2>2. next_message_id < Len(messages) => next_message_id + 1 \in 0..Len(messages)
    BY <1>1, <1>2
  <2>3. Started /\ messages # <<>> => Started'
    BY <1>6 DEF Started
  <2>4. AtMessage => AtMessage'
    BY <1>3, <2>1 DEF AtMessage, DeltaHolds
  <2>5. PastMessage => PastMessage'
    BY <1>3, <1>8, <2>2 DEF PastMessage, DeltaHolds
  <2>6. PastDone => PastDone'
    BY <1>8 DEF PastDone
  <2>7. Refusing => Refusing'
    BY <1>3, <1>8, <2>2 DEF Refusing, RefusesCurrent, Contradicts, Current
  <2>. QED
    BY <2>3, <2>4, <2>5, <2>6, <2>7
<1>12. waiting => messages # <<>>
  BY <1>1, <1>4 DEF ProtocolInv, QueueInv
<1>13. answer.status # "none" => messages # <<>>
  BY <1>12 DEF ProtocolInv, NetInv, NoAnswer
<1>14. ReceiverInv'
  <2>0. resetting' # "cleared" => resetting # "cleared"
    OBVIOUS
  <2>1. SUFFICES ASSUME conn = "up", resetting # "cleared"
                 PROVE  /\ sync_id = 0 =>
                             receiver.sync_id = 0 /\ receiver.next = 0 /\ receiver.last_sync_id = last_sync_id
                        /\ sync_id # 0 /\ next_message_id = 0 /\ ~messages'[1].initial =>
                             (receiver.sync_id = 0 /\ receiver.next = 0) \/ Started'
                        /\ next_message_id > 0 => AtMessage' \/ PastMessage' \/ Refusing' \/ PastDone'
                        /\ next_message_id > 0 /\ messages'[1].initial /\ receiver.sync_id # 0 => receiver.plots = {}
                        /\ AnswerInv'
    BY <2>0 DEF ReceiverInv
  <2>2. sync_id # 0 => messages # <<>>
    BY DEF ProtocolInv, QueueInv
  <2>3. next_message_id > 0 => messages # <<>>
    BY <1>1, <1>4
  <2>4. AnswerInv
    BY <2>1 DEF ProtocolInv, ReceiverInv
  <2>5. AnswerInv'
    BY <2>4, <1>11, <1>13 DEF AnswerInv, NoAnswer
  <2>6. Refusing => next_message_id < Len(messages)
    BY DEF Refusing, RefusesCurrent
  <2>. QED
    BY <2>1, <2>2, <2>3, <2>5, <2>6, <1>6, <1>11 DEF ProtocolInv, ReceiverInv
<1>15. ResetInv'
  BY <1>6 DEF ProtocolInv, QueueInv, ResetInv
<1>. QED
  BY <1>9, <1>10, <1>14, <1>15 DEF ProtocolInv

\* The steps that leave the queue and the connection alone.
LEMMA SameProtocol ==
    ASSUME ProtocolInv, resetting' = resetting \/ (resetting = "started" /\ resetting' = "queueing"),
           UNCHANGED <<conn, sync_id, last_sync_id, next_message_id, messages, waiting, inbox, answer, receiver>>
    PROVE  ProtocolInv'
<1>1. QueueInv'
  BY DEF ProtocolInv, QueueInv, Open
<1>2. NetInv'
  BY DEF ProtocolInv, NetInv, Current, NoAnswer
<1>3. /\ Started' = Started /\ AtMessage' = AtMessage /\ PastMessage' = PastMessage
      /\ Refusing' = Refusing /\ PastDone' = PastDone
  BY DEF Started, AtMessage, PastMessage, Refusing, PastDone, RefusesCurrent, DeltaHolds, Current, Contradicts
<1>4. AnswerInv' = AnswerInv
  BY <1>3 DEF AnswerInv, NoAnswer
<1>5. ReceiverInv'
  BY <1>3, <1>4 DEF ProtocolInv, ReceiverInv
<1>6. ResetInv'
  BY DEF ProtocolInv, ResetInv
<1>. QED
  BY <1>1, <1>2, <1>5, <1>6 DEF ProtocolInv

\* _reset() clears the queue when nothing is under way.
LEMMA BeginResetKeeps ==
    ASSUME TypeOK, BeginReset, waiting' = FALSE, inbox' = <<>>, answer' = NoAnswer, conn' # "off"
    PROVE  ProtocolInv'
<1>1. sync_id' = 0 /\ messages' = <<>> /\ next_message_id' = 0 /\ resetting' = "cleared"
  BY DEF BeginReset
<1>2. QueueInv'
  BY <1>1 DEF QueueInv, Open
<1>3. NetInv' /\ ReceiverInv'
  BY <1>1 DEF NetInv, ReceiverInv
<1>4. ResetInv'
  BY <1>1 DEF ResetInv
<1>. QED
  BY <1>2, <1>3, <1>4 DEF ProtocolInv

\* _reset() starts its sync.
LEMMA ResetStartKeeps ==
    ASSUME TypeOK, ProtocolInv, ResetStart
    PROVE  /\ ProtocolInv'
           /\ Len(messages') = 1 /\ messages'[1].data = {}
<1>0. /\ resetting = "cleared" /\ resetting' = "started" /\ sync_id = 0
      /\ messages' = Append(messages, StartMessage(TRUE, last_sync_id))
      /\ UNCHANGED <<conn, next_message_id, waiting, inbox, answer, receiver>>
  BY DEF ResetStart, sync_active, net_vars
<1>1. sync_id' # 0
  BY StartSyncTyped DEF TypeOK, ResetStart
<1>2. messages = <<>> /\ next_message_id = 0 /\ ~waiting /\ inbox = <<>> /\ conn # "off"
  BY <1>0 DEF ProtocolInv, QueueInv, ResetInv
<1>3. answer = NoAnswer
  BY <1>2 DEF ProtocolInv, NetInv
<1>4. PICK s \in Messages : s = StartMessage(TRUE, last_sync_id) /\ s.kind = "start" /\ s.data = {}
  BY StartTyped DEF TypeOK
<1>i. s.initial
  BY <1>4 DEF StartMessage
<1>k. s.kind = "start" /\ s.data = {}
  BY <1>4
<1>5. messages' = <<s>> /\ Len(messages') = 1 /\ messages'[1] = s
  BY <1>0, <1>2, <1>4
<1>6. QueueInv'
  <2>1. messages' # <<>>
    BY <1>5
  <2>2. \A i \in 1..Len(messages') : messages'[i].kind = "start"
    BY <1>k, <1>5
  <2>3. \A i \in 2..Len(messages') : FALSE
    BY <1>5
  <2>4. next_message_id' = 0 /\ ~waiting'
    BY <1>0, <1>2
  <2>5. messages'[1].kind = "start" /\ messages'[1].data = {}
    BY <1>5, <1>k
  <2>. QED
    BY <2>1, <2>2, <2>3, <2>4, <2>5, <1>1 DEF QueueInv, Open
<1>7. NetInv'
  BY <1>0, <1>2, <1>3 DEF NetInv
<1>8. ResetInv'
  BY <1>0, <1>1, <1>2, <1>i, <1>5 DEF ResetInv
<1>9. ReceiverInv'
  <2>1. messages'[1].initial /\ next_message_id' = 0 /\ answer' = NoAnswer
    BY <1>0, <1>2, <1>3, <1>i, <1>5
  <2>. QED
    BY <2>1, <1>1 DEF ReceiverInv, AnswerInv, NoAnswer
<1>. QED
  BY <1>k, <1>5, <1>6, <1>7, <1>8, <1>9 DEF ProtocolInv

\* A queue that _reset() ends has its done message.
LEMMA EndsClosed ==
    ASSUME messages \in Seq(Messages), NEW r \in Seq(Messages), Len(r) > 1, Closed(r), messages' = messages \o r
    PROVE  ~Open'
<1>1. /\ Len(messages \o r) = Len(messages) + Len(r) /\ Len(messages) \in Nat /\ Len(r) \in Nat
      /\ \A i \in 1..Len(r) : (messages \o r)[Len(messages) + i] = r[i]
  BY Concatenated
<1>2. Len(r) \in 1..Len(r) /\ Len(messages) + Len(r) \in 1..Len(messages \o r)
  BY <1>1
<1>3. (messages \o r)[Len(messages) + Len(r)].kind = "done"
  BY <1>1, <1>2 DEF Closed
<1>. QED
  BY <1>2, <1>3 DEF Open

\* _reset() queues a batch, and ends its sync.
LEMMA ResetQueueKeeps ==
    ASSUME TypeOK, ProtocolInv, ResetBatch \/ ResetDone
    PROVE  ProtocolInv'
<1>1. messages # <<>> /\ messages \in Seq(Messages)
  BY DEF ResetBatch, ResetDone, TypeOK, ProtocolInv, QueueInv, ResetInv
<1>2. CASE ResetBatch
  <2>0. /\ UNCHANGED <<conn, sync_id, last_sync_id, next_message_id, waiting, inbox, answer, receiver>>
        /\ resetting' = resetting
    BY <1>2 DEF ResetBatch, net_vars
  <2>1. PICK batch \in SUBSET Plots : messages' = Append(messages, Message("loaded", batch))
    BY <1>2, FirstBatch DEF TypeOK, ResetBatch
  <2>2. PICK m \in Messages : m = Message("loaded", batch) /\ m.kind = "loaded" /\ ~m.initial
    BY MessageTyped
  <2>3. PICK r : r = <<m>> /\ r \in Seq(Messages)
    <3>1. <<m>> \in Seq(Messages)
      BY <2>2
    <3>. QED
      BY <3>1
  <2>4. messages' = messages \o r
    BY <2>1, <2>2, <2>3, <1>1
  <2>5. \A i \in 1..Len(r) : r[i].kind # "start" /\ ~r[i].initial /\ r[i].kind # "removed"
    BY <2>2, <2>3
  <2>. QED
    BY <2>0, <2>3, <2>4, <2>5, <1>1, AppendKeeps
<1>3. CASE ResetDone
  <2>0. /\ UNCHANGED <<conn, sync_id, last_sync_id, next_message_id, waiting, inbox, answer, receiver>>
        /\ resetting = "queueing" /\ resetting' = "no"
    BY <1>3 DEF ResetDone, net_vars
  <2>1. PICK r : r = DoneMessages({})
    OBVIOUS
  <2>2. r \in Seq(Messages) /\ Closed(r) /\ Len(r) > 1
    BY <2>1, DoneMessagesAre
  <2>3. messages' = messages \o r
    BY <2>1, <1>3 DEF ResetDone
  <2>4. ~Open'
    BY <2>2, <2>3, <1>1, EndsClosed
  <2>5. \A i \in 1..Len(r) : r[i].kind # "start" /\ ~r[i].initial
    BY <2>2 DEF Closed
  <2>. QED
    BY <2>0, <2>2, <2>3, <2>4, <2>5, <1>1, AppendKeeps
<1>. QED
  BY <1>2, <1>3

\* _reset() without the thread, with nothing under way
LEMMA ResetKeeps ==
    ASSUME TypeOK, Reset, waiting' = FALSE, inbox' = <<>>, answer' = NoAnswer, resetting = "no"
    PROVE  ProtocolInv'
<1>1. /\ sync_id' # 0 /\ next_message_id' = 0
      /\ Len(messages') \in Nat /\ Len(messages') > 2
      /\ messages'[1].kind = "start" /\ messages'[1].initial /\ messages'[1].data = {}
      /\ messages'[Len(messages')].kind = "done"
      /\ \A i \in 2..Len(messages') : messages'[i].kind # "start" /\ ~messages'[i].initial
  BY ResetDoes
<1>2. messages' # <<>>
  BY <1>1
<1>3. ~Open'
  <2>1. Len(messages') \in 1..Len(messages')
    BY <1>1
  <2>. QED
    BY <1>1, <2>1 DEF Open
<1>4. QueueInv'
  <2>1. \A i \in 1..next_message_id' : messages'[i].kind # "done"
    BY <1>1
  <2>. QED
    BY <1>1, <1>2, <1>3, <2>1 DEF QueueInv
<1>5. NetInv'
  BY DEF NetInv
<1>6. ReceiverInv'
  BY <1>1 DEF ReceiverInv, AnswerInv, NoAnswer
<1>7. ResetInv'
  BY DEF Reset, reset_vars, ResetInv
<1>. QED
  BY <1>4, <1>5, <1>6, <1>7 DEF ProtocolInv

\* The first message of the inbox is a copy of the one that is sent, and the last copy
\* if it is fresh.
LEMMA InboxHead ==
    ASSUME TypeOK, ProtocolInv, Receive
    PROVE  /\ next_message_id < Len(messages) /\ sync_id # 0 /\ messages # <<>> /\ conn = "up"
           /\ resetting = "no"
           /\ Current \in Messages
           /\ Head(inbox).sync_id = sync_id /\ Head(inbox).id = next_message_id
           /\ Head(inbox).message = Current
           /\ Head(inbox).fresh => waiting /\ inbox' = <<>>
           /\ answer = NoAnswer
           /\ \A i \in 1..Len(inbox') :
                /\ inbox'[i].sync_id = sync_id /\ inbox'[i].id = next_message_id
                /\ inbox'[i].message = Current
                /\ inbox'[i].fresh => waiting /\ i = Len(inbox')
<1>1. /\ inbox \in Seq(Envelopes) /\ inbox # <<>> /\ inbox' = Tail(inbox) /\ conn = "up"
  BY DEF TypeOK, Receive
<1>2. /\ Len(inbox) \in Nat /\ Len(inbox) >= 1 /\ Head(inbox) = inbox[1]
      /\ Len(inbox') = Len(inbox) - 1
      /\ \A i \in 1..Len(inbox') : inbox'[i] = inbox[i + 1] /\ i + 1 \in 1..Len(inbox)
      /\ Len(inbox) = 1 => inbox' = <<>>
  BY <1>1
<1>3. \A i \in 1..Len(inbox) :
         /\ next_message_id < Len(messages)
         /\ inbox[i].sync_id = sync_id /\ inbox[i].id = next_message_id /\ inbox[i].message = Current
         /\ inbox[i].fresh => waiting /\ i = Len(inbox)
  BY DEF ProtocolInv, NetInv
<1>4. 1 \in 1..Len(inbox)
  BY <1>2
<1>5. answer = NoAnswer
  BY <1>1 DEF ProtocolInv, NetInv
<1>6. next_message_id < Len(messages) /\ messages # <<>> /\ sync_id # 0 /\ Current \in Messages
  <2>1. next_message_id < Len(messages)
    BY <1>3, <1>4
  <2>2. messages # <<>> /\ Current \in Messages
    BY <2>1 DEF TypeOK, Current
  <2>. QED
    BY <2>1, <2>2 DEF ProtocolInv, QueueInv
<1>7. Head(inbox).fresh => waiting /\ inbox' = <<>>
  BY <1>2, <1>3, <1>4
<1>8. ASSUME NEW i \in 1..Len(inbox')
      PROVE  /\ inbox'[i].sync_id = sync_id /\ inbox'[i].id = next_message_id
             /\ inbox'[i].message = Current
             /\ inbox'[i].fresh => waiting /\ i = Len(inbox')
  <2>1. inbox'[i] = inbox[i + 1] /\ i + 1 \in 1..Len(inbox)
    BY <1>2
  <2>2. /\ inbox[i + 1].sync_id = sync_id /\ inbox[i + 1].id = next_message_id
        /\ inbox[i + 1].message = Current
        /\ inbox[i + 1].fresh => waiting /\ i + 1 = Len(inbox)
    BY <1>3, <2>1
  <2>3. i + 1 = Len(inbox) => i = Len(inbox')
    BY <1>2
  <2>. QED
    BY <2>1, <2>2, <2>3
<1>9. resetting = "no"
  BY <1>1 DEF ProtocolInv, ResetInv
<1>. QED
  BY <1>1, <1>2, <1>3, <1>4, <1>5, <1>6, <1>7, <1>8, <1>9

\* The message as it is sent.
Sent == [sync_id |-> sync_id, id |-> next_message_id, fresh |-> TRUE, message |-> Current]

\* The receiver before it processes the message
Receiving == IF Current.initial THEN NewReceiver ELSE receiver

\* The three answers
Rejects ==
    /\ ~IdentifierMatches(Receiving, Sent)
    /\ receiver' = Receiving
    /\ answer' \in {NoAnswer, [status |-> "expected", sync_id |-> Receiving.sync_id, id |-> Receiving.next]}
Refuses ==
    /\ IdentifierMatches(Receiving, Sent) /\ Contradicts(Receiving, Sent)
    /\ receiver' \in Partial(Receiving, Sent)
    /\ answer' \in {NoAnswer, [status |-> "error", sync_id |-> 0, id |-> 0]}
Accepts ==
    /\ IdentifierMatches(Receiving, Sent) /\ ~Contradicts(Receiving, Sent)
    /\ receiver' = Processed(Receiving, Sent)
    /\ answer' \in {NoAnswer, [status |-> "ok", sync_id |-> 0, id |-> 0]}

LEMMA ReceiveDoes ==
    ASSUME TypeOK, ProtocolInv, Receive
    PROVE  /\ Rejects \/ Refuses \/ Accepts
           /\ answer' # NoAnswer => waiting /\ inbox' = <<>>
<1>. DEFINE e == Head(inbox)
            r == IF e.message.initial THEN NewReceiver ELSE receiver
<1>1. e.sync_id = sync_id /\ e.id = next_message_id /\ e.message = Current
  BY InboxHead
<1>2. answer = NoAnswer /\ (e.fresh => waiting /\ inbox' = <<>>)
  BY InboxHead
<1>3. r = Receiving
  BY <1>1 DEF Receiving
<1>4. /\ IdentifierMatches(r, e) <=> IdentifierMatches(r, Sent)
      /\ Contradicts(r, e) <=> Contradicts(r, Sent)
      /\ Partial(r, e) = Partial(r, Sent)
      /\ Processed(r, e) = Processed(r, Sent)
  <2>1. Sent.sync_id = e.sync_id /\ Sent.id = e.id /\ Sent.message = e.message
    BY <1>1 DEF Sent
  <2>. HIDE DEF e, r
  <2>2. IdentifierMatches(r, e) <=> IdentifierMatches(r, Sent)
    BY <2>1 DEF IdentifierMatches
  <2>3. Contradicts(r, e) <=> Contradicts(r, Sent)
    BY <2>1 DEF Contradicts
  <2>4. Partial(r, e) = Partial(r, Sent)
    BY <2>1 DEF Partial
  <2>5. Processed(r, e) = Processed(r, Sent)
    BY <2>1 DEF Processed
  <2>. QED
    BY <2>2, <2>3, <2>4, <2>5
<1>5. \/ /\ ~IdentifierMatches(r, e)
         /\ receiver' = r
         /\ answer' = IF e.fresh THEN [status |-> "expected", sync_id |-> r.sync_id, id |-> r.next] ELSE answer
      \/ /\ IdentifierMatches(r, e) /\ Contradicts(r, e)
         /\ receiver' \in Partial(r, e)
         /\ answer' = IF e.fresh THEN [status |-> "error", sync_id |-> 0, id |-> 0] ELSE answer
      \/ /\ IdentifierMatches(r, e) /\ ~Contradicts(r, e)
         /\ receiver' = Processed(r, e)
         /\ answer' = IF e.fresh THEN [status |-> "ok", sync_id |-> 0, id |-> 0] ELSE answer
  BY DEF Receive
<1>. HIDE DEF e, r
<1>6. answer' # NoAnswer => waiting /\ inbox' = <<>>
  BY <1>2, <1>5
<1>7. CASE ~IdentifierMatches(r, e)
  BY <1>2, <1>3, <1>4, <1>5, <1>7 DEF Rejects
<1>8. CASE IdentifierMatches(r, e) /\ Contradicts(r, e)
  BY <1>2, <1>3, <1>4, <1>5, <1>8 DEF Refuses
<1>9. CASE IdentifierMatches(r, e) /\ ~Contradicts(r, e)
  BY <1>2, <1>3, <1>4, <1>5, <1>9 DEF Accepts
<1>. QED
  BY <1>6, <1>7, <1>8, <1>9

\* What an answer to the start message leaves.
LEMMA ReceiveStart ==
    ASSUME TypeOK, ProtocolInv, Receive, next_message_id = 0
    PROVE  /\ ~messages[1].initial => (receiver'.sync_id = 0 /\ receiver'.next = 0) \/ Started'
           /\ AnswerInv'
<1>. USE DEF Receivers
<1>1. /\ messages # <<>> /\ sync_id # 0 /\ conn = "up" /\ resetting = "no" /\ Current = messages[1]
      /\ Current.kind = "start"
  BY InboxHead DEF ProtocolInv, QueueInv, Current
<1>2. receiver \in Receivers /\ NewReceiver \in Receivers
  BY PlotSyncTyping DEF TypeOK, NewReceiver, SyncIds
<1>3. Receiving \in Receivers
  BY <1>2 DEF Receiving
<1>4. UNCHANGED <<messages, sync_id, next_message_id>>
  BY DEF Receive, sender_vars
<1>5. CASE Accepts
  <2>1. receiver' = [Receiving EXCEPT !.sync_id = sync_id, !.next = @ + 1, !.additions = {}, !.removals = {}]
    BY <1>5, <1>1 DEF Accepts, Processed, Sent
  <2>2. Receiving.next = 0
    BY <1>5 DEF Accepts, IdentifierMatches, Sent
  <2>3. /\ receiver'.sync_id = sync_id /\ receiver'.next = 1 /\ receiver'.additions = {}
        /\ receiver'.removals = {} /\ receiver'.plots = Receiving.plots
    BY <2>1, <2>2, <1>3
  <2>4. messages[1].initial => Receiving.plots = {}
    BY <1>1 DEF Receiving, NewReceiver
  <2>5. Started'
    BY <2>3, <2>4, <1>4 DEF Started
  <2>6. AnswerInv'
    BY <2>5, <1>4, <1>5 DEF AnswerInv, Accepts, NoAnswer
  <2>. QED
    BY <2>5, <2>6
<1>6. CASE Refuses
  <2>1. PICK part : receiver' = [Receiving EXCEPT !.removals = @ \cup part]
    BY <1>6, <1>1 DEF Refuses, Partial, Sent
  <2>2. receiver'.sync_id = Receiving.sync_id /\ receiver'.next = Receiving.next
    BY <2>1, <1>3
  <2>3. Receiving.next = 0
    BY <1>6 DEF Refuses, IdentifierMatches, Sent
  <2>4. ~messages[1].initial => Receiving = receiver /\ ((receiver.sync_id = 0 /\ receiver.next = 0) \/ Started)
    BY <1>1 DEF Receiving, ProtocolInv, ReceiverInv
  <2>5. Started => receiver.next = 1
    BY DEF Started
  <2>6. AnswerInv'
    BY <1>6 DEF AnswerInv, Refuses, NoAnswer
  <2>. QED
    BY <2>2, <2>3, <2>4, <2>5, <2>6
<1>7. CASE Rejects
  <2>1. Receiving.next # 0
    BY <1>7, <1>1 DEF Rejects, IdentifierMatches, Sent
  <2>2. ~messages[1].initial
    BY <2>1, <1>1 DEF Receiving, NewReceiver
  <2>3. receiver' = receiver /\ Started
    BY <2>1, <2>2, <1>1, <1>7 DEF Receiving, Rejects, ProtocolInv, ReceiverInv
  <2>4. Started'
    BY <2>3, <1>4 DEF Started
  <2>5. Receiving = receiver
    BY <2>2, <1>1 DEF Receiving
  <2>6. AnswerInv'
    BY <2>3, <2>4, <2>5, <1>4, <1>7 DEF AnswerInv, Rejects, NoAnswer
  <2>. QED
    BY <2>4, <2>6
<1>. QED
  BY <1>5, <1>6, <1>7, ReceiveDoes

\* What an answer to a later message leaves.
LEMMA ReceiveLater ==
    ASSUME TypeOK, ProtocolInv, Receive, next_message_id > 0
    PROVE  /\ AtMessage' \/ PastMessage' \/ Refusing' \/ PastDone'
           /\ receiver'.sync_id # 0 => receiver'.plots = receiver.plots /\ receiver'.sync_id = receiver.sync_id
           /\ PastDone' => \/ receiver' = receiver
                           \/ AtMessage /\ Current.kind = "done" /\ receiver' = Applied(receiver)
           /\ AnswerInv'
<1>. USE DEF Receivers
<1>0. next_message_id \in Nat /\ Len(messages) \in Nat /\ messages \in Seq(Messages)
  BY DEF TypeOK
<1>1. /\ messages # <<>> /\ sync_id # 0 /\ conn = "up" /\ next_message_id < Len(messages)
      /\ resetting = "no" /\ Current = messages[next_message_id + 1] /\ Current \in Messages
  BY InboxHead DEF Current
<1>2. Current.kind # "start" /\ ~Current.initial
  <2>1. next_message_id + 1 \in 2..Len(messages)
    BY <1>0, <1>1
  <2>. QED
    BY <2>1 DEF Current, ProtocolInv, QueueInv
<1>3. Receiving = receiver /\ receiver \in Receivers
  BY <1>2 DEF Receiving, TypeOK
<1>4. UNCHANGED <<messages, sync_id, next_message_id>>
  BY DEF Receive, sender_vars
<1>5. Current' = Current
  BY <1>4 DEF Current
<1>6. ASSUME NEW k PROVE Delivered(messages, k, next_message_id + 1) =
          Delivered(messages, k, next_message_id) \cup (IF Current.kind = k THEN Current.data ELSE {})
  <2>1. Delivered(messages, k, next_message_id + 1) =
          Delivered(messages, k, next_message_id)
            \cup (IF messages[next_message_id + 1].kind = k THEN messages[next_message_id + 1].data ELSE {})
    BY <1>0, <1>1, DeliveredNext
  <2>. QED
    BY <1>1, <2>1
<1>7. AtMessage \/ PastMessage \/ Refusing \/ PastDone
  BY <1>1 DEF ProtocolInv, ReceiverInv
<1>8. /\ Current.kind \in {"loaded", "removed", "paths", "done"} /\ Current.data \in SUBSET Plots
  BY <1>1, <1>2 DEF Messages
<1>m. Sent.message = Current /\ Sent.sync_id = sync_id /\ Sent.id = next_message_id
  BY DEF Sent
<1>9. CASE Rejects
  <2>1. ~(receiver.next = next_message_id /\ receiver.sync_id = sync_id)
    BY <1>9, <1>3, <1>m DEF Rejects, IdentifierMatches
  <2>2. receiver' = receiver
    BY <1>9, <1>3 DEF Rejects
  <2>3. PastMessage \/ PastDone
    BY <2>1, <1>7 DEF AtMessage, Refusing, RefusesCurrent
  <2>4. (PastMessage => PastMessage') /\ (PastDone => PastDone')
    BY <2>2, <1>4, <1>5 DEF PastMessage, PastDone, DeltaHolds
  <2>5. AnswerInv'
    BY <2>2, <1>3, <1>4, <1>9 DEF AnswerInv, Rejects, NoAnswer
  <2>. QED
    BY <2>2, <2>3, <2>4, <2>5
<1>10. ASSUME Refuses \/ Accepts PROVE receiver.next = next_message_id /\ receiver.sync_id = sync_id
                                       /\ (AtMessage \/ Refusing)
  <2>1. receiver.next = next_message_id /\ receiver.sync_id = sync_id
    BY <1>10, <1>2, <1>3, <1>m DEF Refuses, Accepts, IdentifierMatches
  <2>2. ~PastMessage /\ ~PastDone
    BY <2>1, <1>0, <1>1 DEF PastMessage, PastDone
  <2>. QED
    BY <2>1, <2>2, <1>7
<1>11. CASE Refuses
  <2>1. Contradicts(receiver, Sent)
    BY <1>3, <1>11 DEF Refuses
  <2>2. Current.kind \in {"loaded", "removed"}
    BY <2>1, <1>2, <1>8, <1>m DEF Contradicts
  <2>3. PICK part \in SUBSET Current.data :
          receiver' = IF Current.kind = "loaded" THEN [receiver EXCEPT !.additions = @ \cup part]
                      ELSE [receiver EXCEPT !.removals = @ \cup part]
    BY <1>3, <1>11, <1>m DEF Refuses, Partial
  <2>4. /\ receiver'.next = next_message_id /\ receiver'.sync_id = sync_id
        /\ receiver'.plots = receiver.plots
        /\ receiver'.additions = receiver.additions \cup (IF Current.kind = "loaded" THEN part ELSE {})
        /\ receiver'.removals = receiver.removals \cup (IF Current.kind = "loaded" THEN {} ELSE part)
    BY <2>3, <1>3, <1>10, <1>11
  <2>5. /\ receiver.additions \subseteq Delivered(messages, "loaded", next_message_id + 1)
        /\ receiver.removals \subseteq Delivered(messages, "removed", next_message_id + 1)
    BY <1>6, <1>10, <1>11 DEF AtMessage, Refusing, RefusesCurrent, DeltaHolds
  <2>6. /\ receiver'.additions \subseteq Delivered(messages, "loaded", next_message_id + 1)
        /\ receiver'.removals \subseteq Delivered(messages, "removed", next_message_id + 1)
    <3>1. CASE Current.kind = "loaded"
      BY <3>1, <2>4, <2>5, <1>6
    <3>2. CASE Current.kind = "removed"
      BY <3>2, <2>4, <2>5, <1>6
    <3>. QED
      BY <3>1, <3>2, <2>2
  <2>7. Contradicts(receiver', Sent)
    <3>1. CASE Current.kind = "loaded"
      BY <3>1, <2>1, <2>4, <1>m DEF Contradicts
    <3>2. CASE Current.kind = "removed"
      BY <3>2, <2>1, <2>4, <1>m DEF Contradicts
    <3>. QED
      BY <3>1, <3>2, <2>2
  <2>8. Refusing'
    BY <2>2, <2>4, <2>6, <2>7, <1>1, <1>4, <1>5 DEF Refusing, RefusesCurrent, Sent, Current
  <2>9. AnswerInv'
    BY <1>11 DEF AnswerInv, Refuses, NoAnswer
  <2>10. ~PastDone'
    BY <2>2, <1>5 DEF PastDone
  <2>. QED
    BY <2>4, <2>8, <2>9, <2>10, <1>10, <1>11
<1>12. CASE Accepts
  <2>1. ~Contradicts(receiver, Sent) /\ receiver' = Processed(receiver, Sent)
    BY <1>3, <1>12 DEF Accepts
  <2>2. AtMessage
    <3>1. Refusing => Contradicts(receiver, Sent)
      BY DEF Refusing, RefusesCurrent, Sent, Current
    <3>. QED
      BY <3>1, <2>1, <1>10, <1>12
  <2>3. CASE Current.kind = "done"
    <3>1. receiver' = Applied(receiver)
      BY <2>1, <2>3, <1>m DEF Processed
    <3>2. receiver'.sync_id = 0 /\ receiver'.next = 0 /\ receiver'.last_sync_id = receiver.sync_id
      BY <3>1 DEF Applied, NewReceiver
    <3>3. PastDone'
      BY <3>2, <2>3, <1>1, <1>4, <1>5, <1>10, <1>12 DEF PastDone
    <3>4. AnswerInv'
      BY <3>3, <1>4, <1>12 DEF AnswerInv, Accepts, NoAnswer
    <3>. QED
      BY <3>1, <3>2, <3>3, <3>4, <2>2, <2>3
  <2>4. CASE Current.kind # "done"
    <3>1. /\ receiver'.sync_id = sync_id /\ receiver'.next = next_message_id + 1
          /\ receiver'.plots = receiver.plots
          /\ receiver'.additions = receiver.additions \cup (IF Current.kind = "loaded" THEN Current.data ELSE {})
          /\ receiver'.removals = receiver.removals \cup (IF Current.kind = "removed" THEN Current.data ELSE {})
      <4>1. CASE Current.kind = "loaded"
        BY <4>1, <2>1, <1>3, <1>10, <1>12, <1>m DEF Processed
      <4>2. CASE Current.kind = "removed"
        BY <4>2, <2>1, <1>3, <1>10, <1>12, <1>m DEF Processed
      <4>3. CASE Current.kind = "paths"
        BY <4>3, <2>1, <1>3, <1>10, <1>12, <1>m DEF Processed
      <4>. QED
        BY <4>1, <4>2, <4>3, <2>4, <1>8
    <3>2. /\ receiver'.additions = Delivered(messages, "loaded", next_message_id + 1)
          /\ receiver'.removals = Delivered(messages, "removed", next_message_id + 1)
      BY <3>1, <2>2, <1>6 DEF AtMessage, DeltaHolds
    <3>3. PastMessage'
      BY <3>1, <3>2, <2>4, <1>1, <1>4, <1>5 DEF PastMessage, DeltaHolds
    <3>4. AnswerInv'
      BY <3>3, <1>4, <1>12 DEF AnswerInv, Accepts, NoAnswer
    <3>5. ~PastDone'
      BY <2>4, <1>5 DEF PastDone
    <3>. QED
      BY <3>1, <3>3, <3>4, <3>5, <1>10, <1>12
  <2>. QED
    BY <2>3, <2>4
<1>. QED
  BY <1>9, <1>11, <1>12, ReceiveDoes

LEMMA ReceiveKeeps ==
    ASSUME TypeOK, ProtocolInv, Receive
    PROVE  ProtocolInv'
<1>1. UNCHANGED <<messages, sync_id, last_sync_id, next_message_id, resetting, conn, waiting>>
  BY DEF Receive, sender_vars
<1>2. /\ next_message_id < Len(messages) /\ sync_id # 0 /\ conn = "up" /\ resetting = "no"
      /\ \A i \in 1..Len(inbox') :
           /\ inbox'[i].sync_id = sync_id /\ inbox'[i].id = next_message_id
           /\ inbox'[i].message = Current
           /\ inbox'[i].fresh => waiting /\ i = Len(inbox')
  BY InboxHead
<1>3. QueueInv'
  BY <1>1 DEF ProtocolInv, QueueInv, Open
<1>4. NetInv'
  <2>1. Current' = Current
    BY <1>1 DEF Current
  <2>2. answer' # NoAnswer => waiting /\ inbox' = <<>>
    BY ReceiveDoes
  <2>. QED
    BY <2>1, <2>2, <1>1, <1>2 DEF NetInv, NoAnswer
<1>5. ReceiverInv'
  <2>0. next_message_id \in Nat
    BY DEF TypeOK
  <2>1. CASE next_message_id = 0
    BY <2>1, <1>1, <1>2, ReceiveStart DEF ReceiverInv
  <2>2. CASE next_message_id > 0
    <3>1. messages[1].initial /\ receiver.sync_id # 0 => receiver.plots = {}
      BY <2>2, <1>2 DEF ProtocolInv, ReceiverInv
    <3>2. /\ AtMessage' \/ PastMessage' \/ Refusing' \/ PastDone'
          /\ receiver'.sync_id # 0 => receiver'.plots = receiver.plots /\ receiver'.sync_id = receiver.sync_id
          /\ AnswerInv'
      BY <2>2, ReceiveLater
    <3>. QED
      BY <3>1, <3>2, <2>2, <1>1, <1>2 DEF ReceiverInv
  <2>. QED
    BY <2>0, <2>1, <2>2
<1>6. ResetInv'
  BY <1>1, <1>2 DEF ResetInv
<1>. QED
  BY <1>3, <1>4, <1>5, <1>6 DEF ProtocolInv

LEMMA SendKeeps ==
    ASSUME TypeOK, ProtocolInv, SendNextMessage
    PROVE  ProtocolInv'
<1>1. ~waiting /\ next_message_id < Len(messages) /\ resetting = "no" /\ conn' = conn
  BY DEF SendNextMessage
<1>2. CASE conn = "closed" /\ BeginReset /\ UNCHANGED <<inbox, waiting>>
  <2>1. inbox = <<>> /\ answer = NoAnswer /\ answer' = answer
    BY <1>2 DEF ProtocolInv, NetInv, SendNextMessage
  <2>2. waiting' = FALSE
    BY <1>2 DEF ProtocolInv, NetInv, TypeOK
  <2>. QED
    BY <2>1, <2>2, <1>1, <1>2, BeginResetKeeps
<1>3. CASE /\ conn = "up" /\ waiting' = TRUE /\ UNCHANGED sender_vars
           /\ inbox' = Append(inbox, [sync_id |-> sync_id, id |-> next_message_id, fresh |-> TRUE,
                                      message |-> messages[next_message_id + 1]])
  <2>0. UNCHANGED <<messages, sync_id, last_sync_id, next_message_id, resetting, conn, answer, receiver>>
    BY <1>3 DEF SendNextMessage, sender_vars
  <2>1. answer = NoAnswer /\ \A i \in 1..Len(inbox) : ~inbox[i].fresh
    BY <1>1 DEF ProtocolInv, NetInv
  <2>2. QueueInv'
    BY <2>0, <1>1 DEF ProtocolInv, QueueInv, Open
  <2>3. Current' = Current
    BY <2>0 DEF Current
  <2>4. NetInv'
    <3>1. /\ inbox \in Seq(Envelopes) /\ Len(inbox) \in Nat
      BY DEF TypeOK
    <3>2. /\ Len(inbox') = Len(inbox) + 1
          /\ \A i \in 1..Len(inbox) : inbox'[i] = inbox[i]
          /\ inbox'[Len(inbox) + 1] = [sync_id |-> sync_id, id |-> next_message_id, fresh |-> TRUE,
                                       message |-> messages[next_message_id + 1]]
      BY <3>1, <1>3
    <3>3. ASSUME NEW i \in 1..Len(inbox')
          PROVE  /\ inbox'[i].sync_id = sync_id /\ inbox'[i].id = next_message_id
                 /\ inbox'[i].message = Current /\ (inbox'[i].fresh => i = Len(inbox'))
      <4>1. CASE i \in 1..Len(inbox)
        BY <4>1, <3>2, <2>1 DEF ProtocolInv, NetInv
      <4>2. CASE i = Len(inbox) + 1
        BY <4>2, <3>2 DEF Current
      <4>. QED
        BY <4>1, <4>2, <3>1, <3>2
    <3>. QED
      BY <3>3, <2>0, <2>1, <2>3, <1>1, <1>3 DEF NetInv, NoAnswer
  <2>5. ReceiverInv'
    <3>1. /\ Started' = Started /\ AtMessage' = AtMessage /\ PastMessage' = PastMessage
          /\ Refusing' = Refusing /\ PastDone' = PastDone
      BY <2>0 DEF Started, AtMessage, PastMessage, Refusing, PastDone, RefusesCurrent, DeltaHolds, Current, Contradicts
    <3>2. AnswerInv' = AnswerInv
      BY <3>1, <2>0 DEF AnswerInv, NoAnswer
    <3>. QED
      BY <3>1, <3>2, <2>0 DEF ProtocolInv, ReceiverInv
  <2>6. ResetInv'
    BY <2>0, <1>1 DEF ResetInv
  <2>. QED
    BY <2>2, <2>4, <2>5, <2>6 DEF ProtocolInv
<1>. QED
  BY <1>2, <1>3 DEF SendNextMessage

LEMMA TimeoutKeeps ==
    ASSUME TypeOK, ProtocolInv, Timeout
    PROVE  ProtocolInv'
<1>0. UNCHANGED <<messages, sync_id, last_sync_id, next_message_id, resetting, conn, receiver>>
      /\ resetting = "no" /\ waiting' = FALSE /\ answer' = NoAnswer
      /\ inbox' = [i \in DOMAIN inbox |-> [inbox[i] EXCEPT !.fresh = FALSE]]
  BY DEF Timeout, sender_vars, ProtocolInv, ResetInv
<1>1. QueueInv'
  BY <1>0 DEF ProtocolInv, QueueInv, Open
<1>2. NetInv'
  <2>1. inbox \in Seq(Envelopes) /\ Len(inbox) \in Nat /\ DOMAIN inbox = 1..Len(inbox)
    BY DEF TypeOK
  <2>2. Len(inbox') = Len(inbox) /\ \A i \in 1..Len(inbox) : inbox'[i] = [inbox[i] EXCEPT !.fresh = FALSE]
    BY <2>1, <1>0
  <2>3. \A i \in 1..Len(inbox) : inbox[i] \in Envelopes
    BY <2>1
  <2>4. ASSUME NEW i \in 1..Len(inbox)
        PROVE  /\ inbox'[i].sync_id = inbox[i].sync_id /\ inbox'[i].id = inbox[i].id
               /\ inbox'[i].message = inbox[i].message /\ inbox'[i].fresh = FALSE
    BY <2>2, <2>3 DEF Envelopes
  <2>5. Current' = Current
    BY <1>0 DEF Current
  <2>6. inbox = <<>> => inbox' = <<>>
    BY <2>1, <1>0
  <2>. QED
    BY <2>2, <2>4, <2>5, <2>6, <1>0 DEF ProtocolInv, NetInv, NoAnswer
<1>3. ReceiverInv'
  <2>1. /\ Started' = Started /\ AtMessage' = AtMessage /\ PastMessage' = PastMessage
        /\ Refusing' = Refusing /\ PastDone' = PastDone
    BY <1>0 DEF Started, AtMessage, PastMessage, Refusing, PastDone, RefusesCurrent, DeltaHolds, Current, Contradicts
  <2>2. AnswerInv'
    BY <1>0 DEF AnswerInv, NoAnswer
  <2>. QED
    BY <2>1, <2>2, <1>0 DEF ProtocolInv, ReceiverInv
<1>4. ResetInv'
  BY <1>0 DEF ResetInv
<1>. QED
  BY <1>1, <1>2, <1>3, <1>4 DEF ProtocolInv

\* The sender ends a sync when the receiver has applied it.
LEMMA FinalizeMeans ==
    ASSUME TypeOK, ProtocolInv, conn = "up", waiting, answer # NoAnswer,
           \/ answer.status = "ok" /\ messages[next_message_id + 1].kind = "done"
           \/ answer.status = "expected" /\ answer.sync_id = 0 /\ all_sent(next_message_id)
    PROVE  PastDone /\ next_message_id > 0 /\ sync_id # 0
<1>0. next_message_id \in Nat /\ Len(messages) \in Nat /\ next_message_id < Len(messages) /\ messages # <<>>
  BY DEF TypeOK, ProtocolInv, QueueInv
<1>r. resetting = "no"
  BY DEF ProtocolInv, ResetInv
<1>1. sync_id # 0 /\ messages[1].kind = "start" /\ AnswerInv
  BY <1>0, <1>r DEF ProtocolInv, QueueInv, ReceiverInv
<1>2. messages[next_message_id + 1].kind = "done"
  BY <1>0 DEF all_sent
<1>3. next_message_id > 0
  BY <1>0, <1>1, <1>2
<1>4. CASE answer.status = "ok"
  BY <1>1, <1>2, <1>3, <1>4 DEF AnswerInv, PastMessage, Current
<1>5. CASE answer.status = "expected" /\ answer.sync_id = 0
  <2>1. receiver.sync_id = 0
    BY <1>1, <1>5 DEF AnswerInv
  <2>2. AtMessage \/ PastMessage \/ Refusing \/ PastDone
    BY <1>3, <1>r DEF ProtocolInv, ReceiverInv
  <2>. QED
    BY <2>1, <2>2, <1>1, <1>3 DEF AtMessage, PastMessage, Refusing
<1>. QED
  BY <1>1, <1>3, <1>4, <1>5

\* The sender moves on to the message that the receiver is at.
LEMMA AdvanceMeans ==
    ASSUME TypeOK, ProtocolInv, conn = "up", waiting, answer # NoAnswer, NEW m,
           \/ answer.status = "ok" /\ Current.kind # "done" /\ m = next_message_id + 1
           \/ /\ answer.status = "expected" /\ answer.sync_id = sync_id /\ answer.id < Len(messages)
              /\ m = answer.id
    PROVE  /\ receiver.sync_id = sync_id /\ sync_id # 0
           /\ \/ m = next_message_id + 1 /\ DeltaHolds(m) /\ Current.kind # "done"
              \/ m = next_message_id /\ next_message_id > 0
           /\ m > 0 /\ m <= Len(messages)
           /\ messages[1].initial => receiver.plots = {}
           /\ receiver.next = m
<1>0. next_message_id \in Nat /\ Len(messages) \in Nat /\ next_message_id < Len(messages) /\ messages # <<>>
      /\ messages \in Seq(Messages)
  BY DEF TypeOK, ProtocolInv, QueueInv
<1>r. resetting = "no"
  BY DEF ProtocolInv, ResetInv
<1>1. sync_id # 0 /\ messages[1].kind = "start" /\ messages[1].data = {} /\ AnswerInv
  BY <1>0, <1>r DEF ProtocolInv, QueueInv, ReceiverInv
<1>2. CASE next_message_id = 0
  <2>1. Started
    BY <1>1, <1>2 DEF AnswerInv
  <2>2. m = 1
    BY <2>1, <1>1, <1>2 DEF AnswerInv, Started
  <2>3. Current = messages[1] /\ Current.kind # "done"
    BY <1>1, <1>2 DEF Current
  <2>4. DeltaHolds(1)
    <3>1. ASSUME NEW k PROVE Delivered(messages, k, 1) = {}
      BY <1>0, <1>1 DEF Delivered
    <3>. QED
      BY <3>1, <2>1 DEF DeltaHolds, Started
  <2>. QED
    BY <2>1, <2>2, <2>3, <2>4, <1>0, <1>1, <1>2 DEF Started
<1>3. CASE next_message_id > 0
  <2>1. AtMessage \/ PastMessage \/ Refusing \/ PastDone
    BY <1>3, <1>r DEF ProtocolInv, ReceiverInv
  <2>2. messages[1].initial /\ receiver.sync_id # 0 => receiver.plots = {}
    BY <1>3, <1>r DEF ProtocolInv, ReceiverInv
  <2>3. CASE answer.status = "ok" /\ Current.kind # "done" /\ m = next_message_id + 1
    <3>1. PastMessage
      BY <2>3, <1>1, <1>3 DEF AnswerInv, PastDone
    <3>. QED
      BY <3>1, <2>2, <2>3, <1>0, <1>1, <1>3 DEF PastMessage
  <2>4. CASE answer.status = "expected" /\ answer.sync_id = sync_id /\ m = answer.id
    <3>1. receiver.sync_id = sync_id /\ receiver.next = m
      BY <2>4, <1>1 DEF AnswerInv
    <3>2. CASE PastMessage
      BY <3>1, <3>2, <2>2, <1>0, <1>1, <1>3 DEF PastMessage
    <3>3. CASE AtMessage \/ Refusing
      BY <3>1, <3>3, <2>2, <1>0, <1>1, <1>3 DEF AtMessage, Refusing, RefusesCurrent
    <3>. QED
      BY <3>1, <3>2, <3>3, <2>1, <1>1 DEF PastDone
  <2>. QED
    BY <2>3, <2>4
<1>. QED
  BY <1>0, <1>2, <1>3

LEMMA AnsweredKeeps ==
    ASSUME TypeOK, ProtocolInv, Answered
    PROVE  ProtocolInv'
<1>0. /\ waiting /\ answer # NoAnswer /\ waiting' = FALSE /\ answer' = NoAnswer
      /\ UNCHANGED <<conn, inbox, receiver>>
  BY DEF Answered
<1>1. conn = "up" /\ inbox = <<>> /\ resetting = "no"
  BY <1>0 DEF ProtocolInv, NetInv, ResetInv, TypeOK
<1>2. Current = messages[next_message_id + 1]
  BY DEF Current
<1>3. CASE FinalizeSync /\ \/ answer.status = "ok" /\ messages[next_message_id + 1].kind = "done"
                           \/ answer.status = "expected" /\ answer.sync_id = 0 /\ all_sent(next_message_id)
  <2>1. PastDone
    BY <1>0, <1>1, <1>3, FinalizeMeans
  <2>2. /\ messages' = <<>> /\ sync_id' = 0 /\ next_message_id' = 0 /\ last_sync_id' = sync_id
        /\ resetting' = resetting
    BY <1>3 DEF FinalizeSync, reset_vars
  <2>3. QueueInv'
    BY <2>2, <1>0 DEF QueueInv, Open
  <2>4. NetInv'
    BY <1>0, <1>1 DEF NetInv
  <2>5. ReceiverInv'
    BY <2>1, <2>2, <1>0 DEF ReceiverInv, AnswerInv, NoAnswer, PastDone
  <2>6. ResetInv'
    BY <2>2, <1>1 DEF ResetInv
  <2>. QED
    BY <2>3, <2>4, <2>5, <2>6 DEF ProtocolInv
<1>4. CASE /\ UNCHANGED <<sync_id, last_sync_id, messages, resetting>>
           /\ \/ answer.status = "ok" /\ Current.kind # "done" /\ next_message_id' = next_message_id + 1
              \/ /\ answer.status = "expected" /\ answer.sync_id = sync_id /\ answer.id < Len(messages)
                 /\ next_message_id' = answer.id
  <2>1. PICK m : m = next_message_id'
    OBVIOUS
  <2>2. /\ receiver.sync_id = sync_id /\ sync_id # 0
        /\ \/ m = next_message_id + 1 /\ DeltaHolds(m) /\ Current.kind # "done"
           \/ m = next_message_id /\ next_message_id > 0
        /\ m > 0 /\ m <= Len(messages)
        /\ messages[1].initial => receiver.plots = {}
        /\ receiver.next = m
    <3>1. \/ answer.status = "ok" /\ Current.kind # "done" /\ m = next_message_id + 1
          \/ /\ answer.status = "expected" /\ answer.sync_id = sync_id /\ answer.id < Len(messages)
             /\ m = answer.id
      BY <2>1, <1>4
    <3>. QED
      BY <3>1, <1>0, <1>1, AdvanceMeans
  <2>3. next_message_id \in Nat /\ Len(messages) \in Nat
    BY DEF TypeOK
  <2>4. QueueInv'
    <3>1. ASSUME NEW i \in 1..m PROVE messages[i].kind # "done"
      <4>1. i \in 1..next_message_id \/ (i = next_message_id + 1 /\ Current.kind # "done")
        BY <2>2, <2>3
      <4>. QED
        BY <4>1, <1>2 DEF ProtocolInv, QueueInv
    <3>. QED
      BY <3>1, <2>1, <1>0, <1>4 DEF ProtocolInv, QueueInv, Open
  <2>5. NetInv'
    BY <1>0, <1>1 DEF NetInv
  <2>8. ResetInv'
    BY <1>1, <1>4 DEF ResetInv
  <2>6. CASE m = next_message_id + 1 /\ DeltaHolds(m)
    <3>1. AtMessage'
      BY <2>1, <2>2, <2>6, <1>0, <1>4 DEF AtMessage, DeltaHolds
    <3>. QED
      BY <3>1, <2>1, <2>2, <2>4, <2>5, <2>8, <1>0, <1>4 DEF ProtocolInv, ReceiverInv, AnswerInv, NoAnswer
  <2>7. CASE m = next_message_id /\ next_message_id > 0
    <3>1. AtMessage \/ PastMessage \/ Refusing \/ PastDone
      BY <2>7, <1>1 DEF ProtocolInv, ReceiverInv
    <3>2. next_message_id' = next_message_id
      BY <2>1, <2>7
    <3>3. /\ AtMessage' = AtMessage /\ PastMessage' = PastMessage
          /\ Refusing' = Refusing /\ PastDone' = PastDone
      BY <3>2, <1>0, <1>4 DEF AtMessage, PastMessage, Refusing, PastDone, RefusesCurrent, DeltaHolds, Current, Contradicts
    <3>. QED
      BY <3>1, <3>2, <3>3, <2>2, <2>4, <2>5, <2>7, <2>8, <1>0, <1>4
         DEF ProtocolInv, ReceiverInv, AnswerInv, NoAnswer
  <2>. QED
    BY <2>2, <2>6, <2>7
<1>5. CASE BeginReset
  BY <1>0, <1>1, <1>5, BeginResetKeeps
<1>. QED
  BY <1>2, <1>3, <1>4, <1>5 DEF Answered, reset_vars

\* Nothing is promised of the receiver while there is no connection.
LEMMA OfflineKeeps ==
    ASSUME QueueInv', ResetInv', conn' # "up", inbox' = <<>>, answer' = NoAnswer, waiting' = FALSE
    PROVE  ProtocolInv'
  BY DEF ProtocolInv, NetInv, ReceiverInv

LEMMA ProtocolStep ==
    ASSUME TypeOK, ProtocolInv, ThreadInv, [Next]_vars
    PROVE  ProtocolInv'
<1>1. CASE SendNextMessage \/ Answered \/ Timeout \/ Receive
  BY <1>1, SendKeeps, AnsweredKeeps, TimeoutKeeps, ReceiveKeeps
<1>2. CASE BeginRefresh
  BY <1>2, SameProtocol DEF BeginRefresh, sender_vars, net_vars
<1>3. CASE SyncStart
  <2>1. CASE /\ ~sync_active /\ sync_id' # 0
             /\ messages' = Append(messages, StartMessage(initial, last_sync_id))
             /\ UNCHANGED <<last_sync_id, next_message_id, resetting>>
    <3>0. UNCHANGED <<conn, waiting, inbox, answer, receiver>>
      BY <1>3 DEF SyncStart, net_vars
    <3>1. sync_id = 0 /\ messages = <<>> /\ next_message_id = 0
      BY <2>1 DEF sync_active, ProtocolInv, QueueInv, TypeOK
    <3>2. PICK s \in Messages : s = StartMessage(initial, last_sync_id) /\ s.kind = "start" /\ s.data = {}
      BY StartTyped DEF TypeOK
    <3>3. messages' = <<s>> /\ Len(messages') = 1 /\ messages'[1] = s
      BY <3>1, <3>2, <2>1
    <3>4. ~waiting
      BY <3>1 DEF ProtocolInv, QueueInv
    <3>5. answer = NoAnswer /\ inbox = <<>>
      BY <3>1, <3>4 DEF ProtocolInv, NetInv, TypeOK
    <3>6. QueueInv'
      <4>1. messages' # <<>>
        BY <3>3
      <4>2. \A i \in 1..Len(messages') : messages'[i].kind = "start"
        BY <3>2, <3>3
      <4>. QED
        BY <4>1, <4>2, <3>0, <3>1, <3>2, <3>3, <3>4, <2>1 DEF QueueInv, Open
    <3>7. NetInv'
      BY <3>0, <3>4, <3>5 DEF NetInv
    <3>9. ResetInv'
      BY <3>0, <3>1, <2>1 DEF ProtocolInv, ResetInv
    <3>8. ReceiverInv'
      BY <3>0, <3>1, <3>5, <2>1 DEF ProtocolInv, ReceiverInv, AnswerInv, NoAnswer
    <3>. QED
      BY <3>6, <3>7, <3>8, <3>9 DEF ProtocolInv
  <2>2. CASE UNCHANGED sender_vars
    BY <2>2, <1>3, SameProtocol DEF SyncStart, sender_vars, net_vars
  <2>3. StartSync(last_sync_id) => sync_id' # 0
    BY StartSyncTyped DEF TypeOK
  <2>. QED
    BY <2>1, <2>2, <2>3, <1>3 DEF SyncStart, reset_vars
<1>4. CASE DropVanished
  BY <1>4, SameProtocol DEF DropVanished, sender_vars, net_vars
<1>5. CASE LoadBatch
  BY <1>5, SameProtocol DEF LoadBatch, sender_vars, net_vars
<1>6. CASE ReportBatch
  <2>1. CASE ManagerReset
    BY <2>1, <1>6, SameProtocol DEF ReportBatch, ManagerReset, sender_vars, net_vars
  <2>2. CASE /\ sync_active \/ Reported(thread.loaded, thread.left) = <<>>
             /\ messages' = messages \o Reported(thread.loaded, thread.left)
             /\ UNCHANGED <<sync_id, last_sync_id, next_message_id, resetting>>
    <3>1. PICK r : r = Reported(thread.loaded, thread.left)
      OBVIOUS
    <3>2. r \in Seq(Messages) /\ \A i \in 1..Len(r) : r[i].kind = "loaded" /\ ~r[i].initial
      <4>1. thread.loaded \in SUBSET Plots
        BY DEF TypeOK, Threads
      <4>2. LET q == Reported(thread.loaded, thread.left)
            IN  /\ q \in Seq(Messages) /\ Plain(q) /\ \A i \in 1..Len(q) : q[i].kind = "loaded"
        BY <4>1, ReportedIs
      <4>. QED
        BY <3>1, <4>2 DEF Plain
    <3>3. r # <<>> => messages # <<>>
      BY <3>1, <2>2 DEF sync_active, ProtocolInv, QueueInv
    <3>4. UNCHANGED <<conn, waiting, inbox, answer, receiver>>
      BY <1>6 DEF ReportBatch, net_vars
    <3>5. \A i \in 1..Len(r) : r[i].kind # "start" /\ ~r[i].initial /\ r[i].kind # "removed"
      BY <3>2
    <3>. QED
      BY <3>1, <3>2, <3>3, <3>4, <3>5, <2>2, AppendKeeps
  <2>. QED
    BY <2>1, <2>2, <1>6 DEF ReportBatch, reset_vars
<1>7. CASE SyncDone
  <2>0. UNCHANGED <<conn, waiting, inbox, answer, receiver>>
    BY <1>7 DEF SyncDone, net_vars
  <2>1. CASE ManagerReset
    BY <2>1, <2>0, SameProtocol DEF ManagerReset, sender_vars
  <2>2. CASE UNCHANGED <<messages, sync_id, last_sync_id, next_message_id, resetting>>
    BY <2>2, <2>0, SameProtocol
  <2>3. CASE /\ sync_active /\ messages' = messages \o DoneMessages(thread.removed)
             /\ UNCHANGED <<sync_id, last_sync_id, next_message_id, resetting>>
    <3>1. PICK r : r = DoneMessages(thread.removed)
      OBVIOUS
    <3>2. r \in Seq(Messages) /\ Closed(r) /\ Len(r) > 1
      <4>1. thread.removed \in SUBSET Plots
        BY DEF TypeOK, Threads
      <4>. QED
        BY <4>1, <3>1, DoneMessagesAre
    <3>3. messages # <<>>
      BY <2>3 DEF sync_active, ProtocolInv, QueueInv
    <3>4. ~Open'
      BY <3>1, <3>2, <2>3, EndsClosed DEF TypeOK
    <3>5. \A i \in 1..Len(r) : r[i].kind # "start" /\ ~r[i].initial
      BY <3>2 DEF Closed
    <3>. QED
      BY <3>1, <3>2, <3>3, <3>4, <3>5, <2>0, <2>3, AppendKeeps
  <2>. QED
    BY <2>1, <2>2, <2>3, <1>7 DEF SyncDone, reset_vars
<1>8. CASE EndThread
  BY <1>8, SameProtocol DEF EndThread, sender_vars, net_vars
<1>9. CASE Connect
  <2>0. /\ conn = "off" /\ ~task /\ receiver' = NewReceiver /\ conn' = "up"
        /\ UNCHANGED <<waiting, inbox, answer>>
    BY <1>9 DEF Connect
  <2>1. inbox = <<>> /\ answer = NoAnswer /\ ~waiting /\ resetting = "no"
    BY <2>0 DEF ProtocolInv, NetInv, ResetInv
  <2>2. CASE Reset
    <3>1. waiting' = FALSE
      BY <2>0, <2>1 DEF TypeOK
    <3>. QED
      BY <2>0, <2>1, <2>2, <3>1, ResetKeeps
  <2>3. CASE UNCHANGED sender_vars
    <3>0. UNCHANGED <<messages, sync_id, last_sync_id, next_message_id, resetting>>
      BY <2>3 DEF sender_vars
    <3>1. sync_id = 0 /\ last_sync_id = 0 /\ messages = <<>> /\ next_message_id = 0
      BY <2>0 DEF ThreadInv, ProtocolInv, QueueInv, TypeOK
    <3>2. QueueInv'
      BY <3>0, <2>0 DEF ProtocolInv, QueueInv, Open
    <3>3. NetInv'
      BY <2>0, <2>1 DEF NetInv
    <3>4. ReceiverInv'
      BY <3>0, <3>1, <2>0, <2>1 DEF ReceiverInv, AnswerInv, NoAnswer, NewReceiver
    <3>5. ResetInv'
      BY <3>0, <2>1 DEF ResetInv
    <3>. QED
      BY <3>2, <3>3, <3>4, <3>5 DEF ProtocolInv
  <2>. QED
    BY <2>2, <2>3, <1>9 DEF Connect
<1>10. CASE Close
  <2>1. QueueInv'
    BY <1>10 DEF Close, sender_vars, ProtocolInv, QueueInv, Open
  <2>2. ResetInv'
    BY <1>10 DEF Close, sender_vars, ProtocolInv, ResetInv
  <2>. QED
    BY <2>1, <2>2, <1>10, OfflineKeeps DEF Close
<1>11. CASE OnDisconnect
  <2>1. QueueInv'
    BY <1>11 DEF OnDisconnect, sender_vars, net_vars, ProtocolInv, QueueInv, Open
  <2>2. inbox' = <<>> /\ answer' = NoAnswer /\ waiting' = FALSE
    BY <1>11 DEF OnDisconnect, net_vars, ProtocolInv, NetInv, TypeOK
  <2>3. ResetInv'
    BY <1>11 DEF OnDisconnect, sender_vars, ResetInv
  <2>. QED
    BY <2>1, <2>2, <2>3, <1>11, OfflineKeeps DEF OnDisconnect
<1>12. CASE AwaitClosed
  <2>1. conn = "off" /\ conn' = conn /\ inbox' = <<>> /\ answer' = NoAnswer /\ waiting' = FALSE
    BY <1>12 DEF AwaitClosed, stop_requested, net_vars, ProtocolInv, NetInv, TypeOK
  <2>2. sync_id' = 0 /\ messages' = <<>> /\ next_message_id' = 0
    BY <1>12 DEF AwaitClosed, ResetClosed
  <2>3. QueueInv'
    BY <2>1, <2>2 DEF QueueInv, Open
  <2>4. ResetInv'
    BY <2>1, <1>12 DEF AwaitClosed, ResetClosed, reset_vars, ProtocolInv, ResetInv
  <2>. QED
    BY <2>1, <2>3, <2>4, OfflineKeeps
<1>13. CASE \E p \in Plots : ChangeDisk(p)
  BY <1>13, SameProtocol DEF ChangeDisk, sender_vars, net_vars
<1>14. CASE UNCHANGED vars
  BY <1>14, SameProtocol DEF vars
<1>15. CASE ResetStart
  BY <1>15, ResetStartKeeps
<1>16. CASE ResetList
  BY <1>16, SameProtocol DEF ResetList, net_vars
<1>17. CASE ResetBatch \/ ResetDone
  BY <1>17, ResetQueueKeeps
<1>. QED
  BY <1>1, <1>2, <1>3, <1>4, <1>5, <1>6, <1>7, <1>8, <1>9, <1>10, <1>11, <1>12, <1>13, <1>14, <1>15,
     <1>16, <1>17 DEF Next, SenderNext, ThreadNext

-----------------------------------------------------------------------------
(* The thread *)

LEMMA ThreadStep ==
    ASSUME TypeOK, ProtocolInv, ThreadInv, [Next]_vars
    PROVE  ThreadInv'
<1>. USE DEF Threads
<1>1. CASE SendNextMessage
  <2>1. /\ task /\ ~stop_requested /\ UNCHANGED <<manager_vars, conn, task>>
    BY <1>1 DEF SendNextMessage
  <2>. QED
    BY <2>1 DEF ThreadInv, stop_requested, manager_vars
<1>2. CASE Timeout
  BY <1>2 DEF Timeout, ThreadInv, manager_vars, sender_vars
<1>3. CASE Answered
  <2>1. task
    BY <1>3 DEF Answered, ThreadInv, ProtocolInv, NetInv
  <2>. QED
    BY <2>1, <1>3 DEF Answered, ThreadInv, manager_vars
<1>4. CASE Receive
  BY <1>4 DEF Receive, ThreadInv, manager_vars, sender_vars
<1>5. CASE BeginRefresh
  BY <1>5 DEF BeginRefresh, ThreadInv, TypeOK, sender_vars
<1>6. CASE SyncStart
  <2>1. task
    BY <1>6 DEF SyncStart, ThreadInv
  <2>. QED
    BY <2>1, <1>6 DEF SyncStart, ThreadInv, TypeOK
<1>7. CASE DropVanished
  BY <1>7 DEF DropVanished, ThreadInv, TypeOK, sender_vars
<1>8. CASE LoadBatch
  BY <1>8 DEF LoadBatch, ThreadInv, TypeOK, sender_vars
<1>9. CASE ReportBatch
  BY <1>9 DEF ReportBatch, ManagerReset, ThreadInv, TypeOK, sender_vars
<1>10. CASE SyncDone
  BY <1>10 DEF SyncDone, ManagerReset, ThreadInv, TypeOK, sender_vars
<1>11. CASE EndThread
  BY <1>11 DEF EndThread, ThreadInv, TypeOK, sender_vars
<1>12. CASE Connect
  BY <1>12 DEF Connect, ThreadInv, TypeOK, sender_vars
<1>13. CASE Close
  BY <1>13 DEF Close, ThreadInv, manager_vars, sender_vars
<1>14. CASE OnDisconnect
  BY <1>14 DEF OnDisconnect, ThreadInv, manager_vars, sender_vars
<1>15. CASE AwaitClosed
  BY <1>15 DEF AwaitClosed, ResetClosed, stop_requested, ThreadInv, manager_vars
<1>16. CASE \E p \in Plots : ChangeDisk(p)
  BY <1>16 DEF ChangeDisk, ThreadInv, sender_vars
<1>17. CASE UNCHANGED vars
  BY <1>17 DEF ThreadInv, vars
<1>18. CASE ResetStart \/ ResetList \/ ResetBatch \/ ResetDone
  <2>1. task /\ conn # "off"
    BY <1>18 DEF ResetStart, ResetList, ResetBatch, ResetDone, ProtocolInv, ResetInv, ThreadInv
  <2>2. UNCHANGED <<plots, initial, thread, conn, task>>
    BY <1>18 DEF ResetStart, ResetList, ResetBatch, ResetDone, manager_vars
  <2>. QED
    BY <2>1, <2>2 DEF ThreadInv
<1>. QED
  BY <1>1, <1>2, <1>3, <1>4, <1>5, <1>6, <1>7, <1>8, <1>9, <1>10, <1>11, <1>12, <1>13, <1>14, <1>15,
     <1>16, <1>17, <1>18 DEF Next, SenderNext, ThreadNext

-----------------------------------------------------------------------------
(* The plots *)

\* After _reset() by start() the queue is a sync of all plots.
LEMMA ResetSettles ==
    ASSUME TypeOK, Reset, plots' = plots
    PROVE  Settled'
<1>1. /\ sync_id' # 0 /\ next_message_id' = 0
      /\ Len(messages') \in Nat /\ Len(messages') > 2
      /\ messages'[1].initial
      /\ messages'[Len(messages')].kind = "done"
      /\ Delivered(messages', "loaded", Len(messages')) = plots
      /\ Delivered(messages', "removed", Len(messages')) = {}
  BY ResetDoes
<1>2. ~Open'
  <2>1. Len(messages') \in 1..Len(messages')
    BY <1>1
  <2>. QED
    BY <1>1, <2>1 DEF Open
<1>3. Base' = {} /\ Loaded' = plots /\ Removed' = {}
  BY <1>1 DEF Base, Loaded, Removed
<1>4. plots' = (Base' \cup Loaded') \ Removed'
  BY <1>3
<1>. QED
  BY <1>1, <1>2, <1>4 DEF Settled

\* The steps of the sender and the receiver that leave the queue and the plots alone,
\* and apply nothing.
LEMMA SameData ==
    ASSUME Settled, UNCHANGED <<plots, initial, thread, conn, sync_id, messages, lost>>,
           conn = "up" /\ sync_id # 0 /\ ~messages[1].initial => receiver'.plots = receiver.plots,
           conn = "up" /\ sync_id # 0 =>
              (next_message_id' > 0 /\ receiver'.sync_id = 0 <=> next_message_id > 0 /\ receiver.sync_id = 0),
           conn = "up" /\ next_message_id > 0 /\ receiver.sync_id = 0 => receiver'.plots = receiver.plots,
           conn = "up" /\ sync_id = 0 => receiver'.plots = receiver.plots
    PROVE  Settled'
<1>1. /\ Open' = Open /\ Overtaken' = Overtaken /\ Loaded' = Loaded /\ Removed' = Removed
      /\ Refreshing' = Refreshing
  BY DEF Open, Overtaken, Loaded, Removed, Refreshing
<1>2. conn = "up" /\ sync_id # 0 => Base' = Base
  BY DEF Base
<1>3. conn = "up" /\ sync_id # 0 => Accounted' = Accounted
  BY <1>1, <1>2 DEF Accounted
<1>. QED
  BY <1>1, <1>2, <1>3 DEF Settled

LEMMA OfflineData == ASSUME conn' # "up" PROVE Settled'
  BY DEF Settled

\* The receiver applies the delta with the done message, when it holds the whole queue.
LEMMA ReceiveData ==
    ASSUME TypeOK, ProtocolInv, Settled, Receive
    PROVE  Settled'
<1>0. /\ UNCHANGED <<plots, initial, thread, conn, sync_id, messages, lost, next_message_id>>
  BY DEF Receive, manager_vars, sender_vars
<1>1. /\ next_message_id < Len(messages) /\ sync_id # 0 /\ messages # <<>> /\ conn = "up" /\ resetting = "no"
  BY InboxHead
<1>2. next_message_id \in Nat /\ Len(messages) \in Nat /\ messages \in Seq(Messages)
  BY DEF TypeOK
<1>3. CASE next_message_id = 0
  <2>1. Current = messages[1] /\ Current.kind = "start"
    BY <1>1, <1>3 DEF Current, ProtocolInv, QueueInv
  <2>2. ~messages[1].initial => Receiving = receiver
    BY <2>1 DEF Receiving
  <2>3. ~messages[1].initial => receiver'.plots = receiver.plots
    <3>1. SUFFICES ASSUME ~messages[1].initial PROVE receiver'.plots = receiver.plots
      OBVIOUS
    <3>2. receiver \in Receivers
      BY DEF TypeOK
    <3>3. CASE Accepts
      BY <3>1, <3>2, <3>3, <2>1, <2>2 DEF Accepts, Processed, Sent, Receivers
    <3>4. CASE Refuses
      BY <3>1, <3>2, <3>4, <2>1, <2>2 DEF Refuses, Partial, Sent, Receivers
    <3>5. CASE Rejects
      BY <3>1, <3>5, <2>2 DEF Rejects
    <3>. QED
      BY <3>3, <3>4, <3>5, ReceiveDoes
  <2>. QED
    BY <2>3, <1>0, <1>1, <1>3, SameData
<1>4. CASE next_message_id > 0 /\ receiver'.sync_id # 0
  <2>1. receiver'.plots = receiver.plots /\ receiver'.sync_id = receiver.sync_id
    BY <1>4, ReceiveLater
  <2>. QED
    BY <2>1, <1>0, <1>1, <1>4, SameData
<1>5. CASE next_message_id > 0 /\ receiver'.sync_id = 0 /\ receiver' = receiver
  BY <1>0, <1>1, <1>5, SameData
<1>6. CASE next_message_id > 0 /\ receiver'.sync_id = 0 /\ receiver' # receiver
  <2>1. PastDone' /\ AtMessage /\ Current.kind = "done" /\ receiver' = Applied(receiver)
    <3>1. /\ AtMessage' \/ PastMessage' \/ Refusing' \/ PastDone'
          /\ PastDone' => \/ receiver' = receiver
                          \/ AtMessage /\ Current.kind = "done" /\ receiver' = Applied(receiver)
      BY <1>6, ReceiveLater
    <3>2. PastDone'
      BY <3>1, <1>0, <1>1, <1>6 DEF AtMessage, PastMessage, Refusing
    <3>. QED
      BY <3>1, <3>2, <1>6
  <2>2. receiver'.plots = (receiver.plots \cup receiver.additions) \ receiver.removals
    BY <2>1 DEF Applied, NewReceiver
  <2>3. receiver.plots = Base
    <3>1. receiver.sync_id # 0
      BY <2>1, <1>1 DEF AtMessage
    <3>. QED
      BY <3>1, <1>1, <1>6 DEF Base, ProtocolInv, ReceiverInv
  <2>4. ~Open
    <3>1. next_message_id + 1 \in 1..Len(messages)
      BY <1>1, <1>2
    <3>. QED
      BY <3>1, <2>1 DEF Open, Current
  <2>5. ASSUME ~Overtaken PROVE receiver.additions = Loaded /\ receiver.removals = Removed
    <3>1. next_message_id + 1 = Len(messages)
      <4>1. next_message_id + 1 \in 1..Len(messages)
        BY <1>1, <1>2
      <4>. QED
        BY <4>1, <2>1, <2>5 DEF Overtaken, Current
    <3>2. ASSUME NEW k \in {"loaded", "removed"}
          PROVE  Delivered(messages, k, next_message_id + 1) = Delivered(messages, k, next_message_id)
      <4>1. Delivered(messages, k, next_message_id + 1) =
              Delivered(messages, k, next_message_id)
                \cup (IF messages[next_message_id + 1].kind = k THEN messages[next_message_id + 1].data ELSE {})
        BY <1>1, <1>2, DeliveredNext
      <4>. QED
        BY <4>1, <2>1 DEF Current
    <3>3. /\ Delivered(messages, "loaded", Len(messages)) = Delivered(messages, "loaded", next_message_id)
          /\ Delivered(messages, "removed", Len(messages)) = Delivered(messages, "removed", next_message_id)
      BY <3>1, <3>2
    <3>. QED
      BY <3>3, <2>1 DEF AtMessage, DeltaHolds, Loaded, Removed
  <2>6. ~(next_message_id > 0 /\ receiver.sync_id = 0)
    BY <2>1, <1>1 DEF AtMessage
  <2>7. Open' = Open /\ Overtaken' = Overtaken
    BY <1>0 DEF Open, Overtaken
  <2>8. ASSUME ~lost, ~initial, thread.pc \in {"idle", "starting"}, ~Overtaken
        PROVE  plots = receiver'.plots
    <3>1. plots = (Base \cup Loaded) \ Removed
      BY <2>6, <2>8, <1>1 DEF Settled
    <3>. QED
      BY <3>1, <2>2, <2>3, <2>5, <2>8
  <2>. QED
    BY <2>4, <2>7, <2>8, <1>0, <1>1, <1>6 DEF Settled
<1>. QED
  BY <1>2, <1>3, <1>4, <1>5, <1>6

\* A sync ends with nothing behind its done message, or the loss is noted.
LEMMA AnsweredData ==
    ASSUME TypeOK, ProtocolInv, Settled, Answered, resetting' = "no"
    PROVE  Settled'
<1>0. /\ waiting /\ answer # NoAnswer /\ UNCHANGED <<conn, receiver, plots, initial, thread>>
  BY DEF Answered, manager_vars
<1>1. conn = "up"
  BY <1>0 DEF ProtocolInv, NetInv
<1>2. next_message_id \in Nat /\ Len(messages) \in Nat /\ next_message_id < Len(messages)
  BY <1>0 DEF TypeOK, ProtocolInv, QueueInv
<1>3. CASE FinalizeSync /\ \/ answer.status = "ok" /\ messages[next_message_id + 1].kind = "done"
                           \/ answer.status = "expected" /\ answer.sync_id = 0 /\ all_sent(next_message_id)
  <2>1. PastDone /\ next_message_id > 0 /\ sync_id # 0
    BY <1>0, <1>1, <1>3, FinalizeMeans
  <2>2. sync_id' = 0 /\ lost' = (lost \/ next_message_id < Len(messages) - 1)
    BY <1>3 DEF FinalizeSync
  <2>3. ASSUME ~lost' PROVE ~lost /\ ~Overtaken
    <3>0. ~lost /\ ~(next_message_id < Len(messages) - 1)
      BY <2>2, <2>3, Zenon
    <3>1. ~lost /\ next_message_id + 1 = Len(messages)
      BY <3>0, <1>2
    <3>2. ASSUME NEW i \in 1..Len(messages), messages[i].kind = "done" PROVE i = Len(messages)
      BY <3>1, <3>2, <1>2 DEF ProtocolInv, QueueInv
    <3>. QED
      BY <3>1, <3>2 DEF Overtaken
  <2>4. ASSUME ~lost', ~initial, thread.pc \in {"idle", "starting"} PROVE receiver.plots = plots
    BY <2>1, <2>3, <2>4, <1>1 DEF Settled, PastDone
  <2>. QED
    BY <2>2, <2>4, <1>0 DEF Settled
<1>4. CASE /\ UNCHANGED <<sync_id, last_sync_id, messages, lost>>
           /\ \/ answer.status = "ok" /\ Current.kind # "done" /\ next_message_id' = next_message_id + 1
              \/ /\ answer.status = "expected" /\ answer.sync_id = sync_id /\ answer.id < Len(messages)
                 /\ next_message_id' = answer.id
  <2>1. PICK m : m = next_message_id'
    OBVIOUS
  <2>2. \/ answer.status = "ok" /\ Current.kind # "done" /\ m = next_message_id + 1
        \/ /\ answer.status = "expected" /\ answer.sync_id = sync_id /\ answer.id < Len(messages)
           /\ m = answer.id
    BY <2>1, <1>4
  <2>3. receiver.sync_id = sync_id /\ sync_id # 0
    BY <2>2, <1>0, <1>1, AdvanceMeans
  <2>. QED
    BY <2>3, <1>0, <1>1, <1>4, SameData
<1>5. ~BeginReset
  BY DEF BeginReset
<1>. QED
  BY <1>3, <1>4, <1>5 DEF Answered, Current

\* A queue that was not open stays so; one that gets messages behind its done message
\* is overtaken.
LEMMA AppendOverDone ==
    ASSUME messages \in Seq(Messages), NEW r \in Seq(Messages), messages' = messages \o r
    PROVE  /\ ~Open => ~Open'
           /\ ~Open /\ r # <<>> => Overtaken'
           /\ messages # <<>> => messages'[1] = messages[1] /\ messages' # <<>>
           /\ Open' => Open
<1>1. /\ messages' \in Seq(Messages) /\ Len(messages) \in Nat /\ Len(r) \in Nat
      /\ Len(messages') = Len(messages) + Len(r)
      /\ \A i \in 1..Len(messages) : messages'[i] = messages[i]
  <2>1. /\ messages \o r \in Seq(Messages) /\ Len(messages) \in Nat /\ Len(r) \in Nat
        /\ Len(messages \o r) = Len(messages) + Len(r)
        /\ \A i \in 1..Len(messages) : (messages \o r)[i] = messages[i]
    BY Concatenated
  <2>. QED
    BY <2>1
<1>2. r # <<>> => Len(r) > 0
  BY <1>1
<1>3. messages # <<>> => Len(messages) > 0
  BY <1>1
<1>4. messages # <<>> => messages'[1] = messages[1] /\ messages' # <<>>
  <2>1. messages' = <<>> => Len(messages') = 0
    OBVIOUS
  <2>. QED
    BY <2>1, <1>1, <1>3
<1>5. ~Open => ~Open'
  BY <1>1 DEF Open
<1>6. ~Open /\ r # <<>> => Overtaken'
  BY <1>1, <1>2 DEF Open, Overtaken
<1>. QED
  BY <1>4, <1>5, <1>6

\* sync_start() by the thread
LEMMA SyncStartData ==
    ASSUME TypeOK, ProtocolInv, ThreadInv, Settled, SyncStart
    PROVE  Settled'
<1>0. /\ UNCHANGED <<plots, initial, conn, receiver>> /\ thread.pc = "starting"
      /\ thread' = [thread EXCEPT !.pc = "dropping"]
  BY DEF SyncStart, net_vars
<1>1. thread'.pc = "dropping"
  BY <1>0 DEF TypeOK, Threads
<1>2. CASE ~sync_active /\ sync_id' # 0 /\ lost' = (lost /\ ~initial)
           /\ messages' = Append(messages, StartMessage(initial, last_sync_id))
  <2>1. messages = <<>> /\ sync_id = 0
    BY <1>2 DEF sync_active, ProtocolInv, QueueInv
  <2>2. PICK s \in Messages : s = StartMessage(initial, last_sync_id) /\ s.initial = initial /\ s.data = {}
                              /\ s.kind = "start"
    BY StartTyped DEF TypeOK
  <2>3. messages' = <<s>> /\ Len(messages') = 1 /\ messages'[1] = s
    BY <2>1, <2>2, <1>2
  <2>4. Loaded' = {}
    BY <2>2, <2>3, StartDelivers DEF Loaded
  <2>5. ASSUME ~lost', conn = "up" PROVE plots' = Base'
    <3>1. CASE initial
      <4>1. plots = {}
        BY <3>1, <1>0 DEF ThreadInv
      <4>. QED
        BY <4>1, <3>1, <2>2, <2>3, <1>0 DEF Base
    <3>2. CASE ~initial
      <4>1. receiver.plots = plots
        BY <3>2, <2>1, <2>5, <1>0, <1>2 DEF Settled
      <4>. QED
        BY <4>1, <3>2, <2>2, <2>3, <1>0 DEF Base
    <3>. QED
      BY <3>1, <3>2
  <2>6. ASSUME ~lost', conn = "up" PROVE Accounted'
    BY <2>4, <2>5, <2>6, <1>1 DEF Accounted
  <2>7. Refreshing'
    BY <1>1 DEF Refreshing
  <2>. QED
    BY <2>6, <2>7, <1>0, <1>1 DEF Settled
<1>3. CASE stop_requested
  BY <1>0, <1>3, OfflineData DEF stop_requested
<1>4. StartSync(last_sync_id) => sync_id' # 0
  BY StartSyncTyped DEF TypeOK
<1>. QED
  BY <1>2, <1>3, <1>4 DEF SyncStart

LEMMA DropData ==
    ASSUME TypeOK, ProtocolInv, Settled, DropVanished
    PROVE  Settled'
<1>0. /\ UNCHANGED <<initial, conn, receiver, messages, sync_id, next_message_id, lost>>
      /\ thread.pc = "dropping" /\ plots' = plots \cap thread.left
      /\ thread' = [thread EXCEPT !.pc = IF thread.left = {} THEN "finishing" ELSE "loading",
                                  !.removed = plots \ thread.left]
  BY DEF DropVanished, sender_vars, net_vars
<1>1. /\ thread'.pc \in {"finishing", "loading"} /\ thread'.removed = plots \ thread.left
      /\ thread'.left = thread.left
  BY <1>0 DEF TypeOK, Threads
<1>2. Open' = Open /\ Loaded' = Loaded /\ Base' = Base
  BY <1>0 DEF Open, Loaded, Base
<1>3. Accounted => Accounted'
  BY <1>0, <1>1, <1>2 DEF Accounted
<1>4. Refreshing'
  BY <1>1 DEF Refreshing
<1>. QED
  BY <1>0, <1>1, <1>2, <1>3, <1>4 DEF Settled

LEMMA LoadData ==
    ASSUME TypeOK, ProtocolInv, ThreadInv, Settled, LoadBatch
    PROVE  Settled'
<1>. DEFINE batch == Batches(thread.left)[1]
            found == (batch \cap disk) \ plots
<1>0. /\ UNCHANGED <<initial, conn, receiver, messages, sync_id, next_message_id, lost>>
      /\ thread.pc = "loading"
  BY DEF LoadBatch, sender_vars, net_vars
<1>1. CASE conn # "up"
  BY <1>0, <1>1, OfflineData
<1>2. CASE conn = "up"
  <2>1. /\ plots' = plots \cup found
        /\ thread' = [thread EXCEPT !.pc = "reporting", !.loaded = found, !.left = @ \ batch]
    BY <1>2 DEF LoadBatch, _refreshing_enabled
  <2>2. batch \subseteq thread.left
    <3>1. thread.left \in SUBSET Plots /\ thread.left # {}
      BY <1>0 DEF TypeOK, Threads, ThreadInv
    <3>2. Batches(thread.left) \in Seq(SUBSET thread.left) /\ 1 \in DOMAIN Batches(thread.left)
      BY <3>1, BatchesCover
    <3>. QED
      BY <3>2
  <2>. HIDE DEF batch
  <2>3. found \subseteq thread.left
    BY <2>2
  <2>. HIDE DEF found
  <2>4. /\ thread'.pc = "reporting" /\ thread'.loaded = found /\ thread'.left = thread.left \ batch
        /\ thread'.removed = thread.removed
    BY <2>1 DEF TypeOK, Threads
  <2>5. Open' = Open /\ Loaded' = Loaded /\ Base' = Base
    BY <1>0 DEF Open, Loaded, Base
  <2>6. Accounted => Accounted'
    BY <2>1, <2>3, <2>4, <2>5, <1>0 DEF Accounted
  <2>7. Refreshing'
    BY <2>4 DEF Refreshing
  <2>. QED
    BY <2>4, <2>5, <2>6, <2>7, <1>0 DEF Settled
<1>. QED
  BY <1>1, <1>2

LEMMA ReportData ==
    ASSUME TypeOK, ProtocolInv, Settled, ReportBatch
    PROVE  Settled'
<1>0. UNCHANGED <<conn, receiver>> /\ thread.pc = "reporting"
  BY DEF ReportBatch, net_vars
<1>1. CASE ManagerReset
  <2>1. initial' = TRUE
    BY <1>1 DEF ManagerReset
  <2>2. CASE sync_active
    BY <1>1, <2>2 DEF ReportBatch, ManagerReset, sender_vars, TypeOK, Threads
  <2>3. CASE ~sync_active
    <3>1. sync_id' = 0
      BY <2>3, <1>1 DEF sync_active, ManagerReset, sender_vars
    <3>. QED
      BY <3>1, <2>1 DEF Settled
  <2>. QED
    BY <2>2, <2>3
<1>2. CASE /\ messages' = messages \o Reported(thread.loaded, thread.left)
           /\ sync_active \/ Reported(thread.loaded, thread.left) = <<>>
           /\ thread' = [thread EXCEPT !.pc = IF thread.left = {} THEN "finishing" ELSE "loading",
                                       !.loaded = {}]
           /\ UNCHANGED <<plots, initial, sync_id, next_message_id, lost>>
  <2>0. thread.loaded \in SUBSET Plots /\ messages \in Seq(Messages)
    BY DEF TypeOK, Threads
  <2>1. PICK r : r = Reported(thread.loaded, thread.left)
    OBVIOUS
  <2>2. r \in Seq(Messages) /\ Delivered(r, "loaded", Len(r)) = thread.loaded
    <3>1. LET q == Reported(thread.loaded, thread.left)
          IN  q \in Seq(Messages) /\ Delivered(q, "loaded", Len(q)) = thread.loaded
      BY <2>0, ReportedIs
    <3>. QED
      BY <3>1, <2>1
  <2>3. messages' = messages \o r
    BY <2>1, <1>2
  <2>4. /\ thread'.pc \in {"finishing", "loading"} /\ thread'.removed = thread.removed
        /\ thread'.left = thread.left
    BY <1>2 DEF TypeOK, Threads
  <2>5. /\ Open' => Open
        /\ messages # <<>> => messages'[1] = messages[1] /\ messages' # <<>>
    BY <2>0, <2>2, <2>3, AppendOverDone
  <2>6. Loaded' = Loaded \cup thread.loaded
    <3>1. Delivered(messages \o r, "loaded", Len(messages \o r))
            = Delivered(messages, "loaded", Len(messages)) \cup Delivered(r, "loaded", Len(r))
      BY <2>0, <2>2, DeliveredConcat
    <3>. QED
      BY <3>1, <2>2, <2>3 DEF Loaded
  <2>7. sync_id # 0 => Base' = Base
    BY <2>5, <1>0 DEF Base, ProtocolInv, QueueInv
  <2>8. sync_id # 0 /\ Accounted => Accounted'
    BY <2>4, <2>6, <2>7, <1>0, <1>2 DEF Accounted
  <2>9. Refreshing'
    BY <2>4 DEF Refreshing
  <2>. QED
    BY <2>4, <2>5, <2>8, <2>9, <1>0, <1>2 DEF Settled
<1>. QED
  BY <1>1, <1>2 DEF ReportBatch

\* sync_done() closes the open sync of its refresh, and overtakes any other.
LEMMA DoneData ==
    ASSUME TypeOK, ProtocolInv, Settled, SyncDone, resetting = "no"
    PROVE  Settled'
<1>0. UNCHANGED <<conn, receiver>> /\ thread.pc = "finishing"
  BY DEF SyncDone, net_vars
<1>1. CASE ~_refreshing_enabled
  BY <1>0, <1>1, OfflineData DEF _refreshing_enabled
<1>2. CASE ManagerReset /\ ~sync_active
  <2>1. initial' = TRUE /\ sync_id' = 0
    BY <1>2 DEF ManagerReset, sync_active, sender_vars
  <2>. QED
    BY <2>1 DEF Settled
<1>3. CASE /\ sync_active /\ messages' = messages \o DoneMessages(thread.removed)
           /\ thread' = [thread EXCEPT !.pc = "idle", !.removed = {}]
           /\ UNCHANGED <<plots, sync_id, next_message_id, lost>>
  <2>0. thread.removed \in SUBSET Plots /\ messages \in Seq(Messages) /\ sync_id # 0 /\ messages # <<>>
    BY <1>3 DEF TypeOK, Threads, sync_active, ProtocolInv, QueueInv
  <2>1. PICK r : r = DoneMessages(thread.removed)
    OBVIOUS
  <2>2. /\ r \in Seq(Messages) /\ Len(r) > 1 /\ Closed(r)
        /\ Delivered(r, "loaded", Len(r)) = {} /\ Delivered(r, "removed", Len(r)) = thread.removed
    <3>1. LET q == DoneMessages(thread.removed)
          IN  /\ q \in Seq(Messages) /\ Len(q) > 1 /\ Closed(q)
              /\ Delivered(q, "loaded", Len(q)) = {} /\ Delivered(q, "removed", Len(q)) = thread.removed
      BY <2>0, DoneMessagesAre
    <3>. QED
      BY <3>1, <2>1
  <2>3. messages' = messages \o r
    BY <2>1, <1>3
  <2>4. r # <<>>
    BY <2>2
  <2>5. /\ ~Open => ~Open' /\ Overtaken'
        /\ messages'[1] = messages[1] /\ messages' # <<>>
    BY <2>0, <2>2, <2>3, <2>4, AppendOverDone
  <2>6. ~Open'
    BY <2>0, <2>2, <2>3, EndsClosed
  <2>7. Loaded' = Loaded /\ Removed' = Removed \cup thread.removed
    <3>1. ASSUME NEW k PROVE Delivered(messages \o r, k, Len(messages \o r))
            = Delivered(messages, k, Len(messages)) \cup Delivered(r, k, Len(r))
      BY <2>0, <2>2, DeliveredConcat
    <3>2. /\ Delivered(messages', "loaded", Len(messages')) = Delivered(messages, "loaded", Len(messages))
          /\ Delivered(messages', "removed", Len(messages'))
               = Delivered(messages, "removed", Len(messages)) \cup thread.removed
      BY <3>1, <2>2, <2>3
    <3>. QED
      BY <3>2 DEF Loaded, Removed
  <2>8. Base' = Base
    BY <2>5, <1>0 DEF Base
  <2>9. ASSUME Open, ~lost, conn = "up"
        PROVE  plots' = (Base' \cup Loaded') \ Removed' /\ ~(next_message_id > 0 /\ receiver.sync_id = 0)
    <3>1. plots = (Base \ thread.removed) \cup Loaded /\ thread.removed \cap Loaded = {}
      BY <2>0, <2>9, <1>0 DEF Settled, Accounted
    <3>2. Removed = {}
      BY <2>9 DEF ProtocolInv, QueueInv, Removed, Delivered
    <3>3. ~(next_message_id > 0 /\ receiver.sync_id = 0)
      <4>1. SUFFICES ASSUME next_message_id > 0, receiver.sync_id = 0 PROVE FALSE
        OBVIOUS
      <4>2. PastDone
        BY <4>1, <2>0, <2>9 DEF ProtocolInv, ReceiverInv, AtMessage, PastMessage, Refusing
      <4>3. next_message_id + 1 \in 1..Len(messages)
        BY <4>2, <2>0 DEF TypeOK, PastDone
      <4>. QED
        BY <4>2, <4>3, <2>9 DEF Open, PastDone, Current
    <3>. QED
      BY <3>1, <3>2, <3>3, <2>7, <2>8, <1>3
  <2>10. ~Open => Overtaken'
    BY <2>5
  <2>. QED
    BY <2>0, <2>6, <2>9, <2>10, <1>0, <1>3 DEF Settled
<1>. QED
  BY <1>1, <1>2, <1>3 DEF SyncDone

\* ResetDone ends a sync of all plots, unless a refresh has overtaken it.
LEMMA ResetDoneSettles ==
    ASSUME TypeOK, ProtocolInv, ResetData, ResetDone
    PROVE  Settled'
<1>0. /\ UNCHANGED <<plots, initial, thread, conn, sync_id, next_message_id, receiver, lost>>
      /\ resetting = "queueing" /\ unqueued = {} /\ messages' = messages \o DoneMessages({})
  BY DEF ResetDone, manager_vars, net_vars
<1>1. sync_id # 0 /\ messages # <<>> /\ messages[1].initial /\ next_message_id = 0 /\ messages \in Seq(Messages)
  BY <1>0 DEF ProtocolInv, QueueInv, ResetInv, TypeOK
<1>2. PICK r : r = DoneMessages({})
  OBVIOUS
<1>3. /\ r \in Seq(Messages) /\ Len(r) > 1 /\ Closed(r)
      /\ Delivered(r, "loaded", Len(r)) = {} /\ Delivered(r, "removed", Len(r)) = {}
  <2>1. LET q == DoneMessages({})
        IN  /\ q \in Seq(Messages) /\ Len(q) > 1 /\ Closed(q)
            /\ Delivered(q, "loaded", Len(q)) = {} /\ Delivered(q, "removed", Len(q)) = {}
    BY DoneMessagesAre
  <2>. QED
    BY <2>1, <1>2
<1>4. messages' = messages \o r /\ r # <<>>
  BY <1>0, <1>2, <1>3
<1>5. /\ ~Open => Overtaken'
      /\ messages'[1] = messages[1]
  BY <1>1, <1>3, <1>4, AppendOverDone
<1>6. ~Open'
  BY <1>1, <1>3, <1>4, EndsClosed
<1>7. Loaded' = Loaded /\ Removed' = Removed
  <2>1. ASSUME NEW k PROVE Delivered(messages \o r, k, Len(messages \o r))
          = Delivered(messages, k, Len(messages)) \cup Delivered(r, k, Len(r))
    BY <1>1, <1>3, DeliveredConcat
  <2>2. /\ Delivered(messages', "loaded", Len(messages')) = Delivered(messages, "loaded", Len(messages))
        /\ Delivered(messages', "removed", Len(messages')) = Delivered(messages, "removed", Len(messages))
    BY <2>1, <1>3, <1>4
  <2>. QED
    BY <2>2 DEF Loaded, Removed
<1>8. Base' = {}
  BY <1>1, <1>5 DEF Base
<1>9. ASSUME Open, thread.pc \in {"idle", "starting"}
      PROVE  plots' = (Base' \cup Loaded') \ Removed'
  <2>1. Removed = {}
    BY <1>9 DEF ProtocolInv, QueueInv, Removed, Delivered
  <2>2. Loaded = plots
    BY <1>0, <1>9 DEF ResetData
  <2>. QED
    BY <2>1, <2>2, <1>0, <1>7, <1>8
<1>. QED
  BY <1>0, <1>1, <1>5, <1>6, <1>9 DEF Settled

\* Without a reset, and with the one of start()
LEMMA SettledStep ==
    ASSUME TypeOK, ProtocolInv, ThreadInv, Settled, [Next]_vars, resetting = "no", resetting' = "no"
    PROVE  Settled'
<1>1. CASE Receive \/ Answered \/ SyncStart \/ DropVanished \/ LoadBatch \/ ReportBatch \/ SyncDone
  BY <1>1, ReceiveData, AnsweredData, SyncStartData, DropData, LoadData, ReportData, DoneData
<1>2. CASE SendNextMessage
  <2>1. UNCHANGED sender_vars
    BY <1>2 DEF SendNextMessage, BeginReset
  <2>. QED
    BY <2>1, <1>2, SameData DEF SendNextMessage, manager_vars, sender_vars
<1>3. CASE Timeout
  BY <1>3, SameData DEF Timeout, manager_vars, sender_vars
<1>4. CASE BeginRefresh
  <2>0. UNCHANGED <<plots, initial, conn, receiver, messages, sync_id, next_message_id, lost>>
    BY <1>4 DEF BeginRefresh, sender_vars, net_vars
  <2>1. thread.pc = "idle" /\ thread'.pc = "starting"
    BY <1>4 DEF BeginRefresh, TypeOK, Threads
  <2>2. ~Refreshing
    BY <2>1 DEF Refreshing
  <2>3. Open' = Open /\ Overtaken' = Overtaken /\ Loaded' = Loaded /\ Removed' = Removed /\ Base' = Base
    BY <2>0 DEF Open, Overtaken, Loaded, Removed, Base
  <2>. QED
    BY <2>0, <2>1, <2>2, <2>3 DEF Settled
<1>5. CASE EndThread
  BY <1>5, OfflineData DEF EndThread, _refreshing_enabled
<1>6. CASE Connect
  <2>1. CASE Reset
    BY <2>1, <1>6, ResetSettles DEF Connect
  <2>2. CASE initial /\ UNCHANGED sender_vars
    <3>1. sync_id' = 0 /\ initial'
      BY <2>2, <1>6 DEF Connect, ThreadInv, sender_vars
    <3>. QED
      BY <3>1 DEF Settled
  <2>. QED
    BY <2>1, <2>2, <1>6 DEF Connect
<1>7. CASE Close \/ OnDisconnect \/ AwaitClosed
  BY <1>7, OfflineData DEF Close, OnDisconnect, AwaitClosed, stop_requested
<1>8. CASE \E p \in Plots : ChangeDisk(p)
  BY <1>8, SameData DEF ChangeDisk, sender_vars, net_vars
<1>9. CASE UNCHANGED vars
  BY <1>9, SameData DEF vars
<1>. QED
  BY <1>1, <1>2, <1>3, <1>4, <1>5, <1>6, <1>7, <1>8, <1>9
     DEF Next, SenderNext, ThreadNext, ResetStart, ResetList, ResetBatch, ResetDone

\* The steps next to a reset that has started its sync leave the plots alone, or are
\* those of a refresh, which ends with a done message.
LEMMA BesideReset ==
    ASSUME TypeOK, ProtocolInv, ThreadInv, ResetData, [Next]_vars, ~ResetBatch,
           resetting \in {"started", "queueing"}, UNCHANGED <<resetting, unqueued>>
    PROVE  ResetData'
<1>0. /\ sync_id # 0 /\ ~waiting /\ inbox = <<>> /\ conn # "off" /\ task
  BY DEF ProtocolInv, ResetInv, ThreadInv
<1>1. CASE UNCHANGED <<plots, messages>> /\ thread' = thread
  BY <1>1 DEF ResetData, Open, Loaded
<1>2. CASE BeginRefresh
  BY <1>2 DEF BeginRefresh, ResetData, Open, Loaded, sender_vars
<1>3. CASE thread'.pc \notin {"idle", "starting"}
  BY <1>3 DEF ResetData
<1>4. CASE SyncDone
  <2>1. messages' = messages \o DoneMessages(thread.removed)
    BY <1>0, <1>4 DEF SyncDone, sync_active, _refreshing_enabled
  <2>2. PICK r : r = DoneMessages(thread.removed)
    OBVIOUS
  <2>3. r \in Seq(Messages) /\ Len(r) > 1 /\ Closed(r)
    <3>1. thread.removed \in SUBSET Plots
      BY DEF TypeOK, Threads
    <3>. QED
      BY <3>1, <2>2, DoneMessagesAre
  <2>4. ~Open'
    BY <2>1, <2>2, <2>3, EndsClosed DEF TypeOK
  <2>. QED
    BY <2>4 DEF ResetData
<1>5. CASE SyncStart \/ DropVanished \/ LoadBatch \/ ReportBatch \/ EndThread
  <2>1. thread'.pc \notin {"idle", "starting"}
    BY <1>0, <1>5 DEF SyncStart, DropVanished, LoadBatch, ReportBatch, EndThread, sync_active,
                      stop_requested, _refreshing_enabled, TypeOK, Threads
  <2>. QED
    BY <2>1, <1>3
<1>6. CASE SendNextMessage \/ Answered \/ Timeout \/ Receive \/ Connect \/ OnDisconnect \/ AwaitClosed
  BY <1>0, <1>6 DEF SendNextMessage, Answered, Timeout, Receive, Connect, OnDisconnect, AwaitClosed,
                    stop_requested
<1>7. CASE Close \/ (\E p \in Plots : ChangeDisk(p)) \/ UNCHANGED vars
  BY <1>1, <1>7 DEF Close, ChangeDisk, vars, manager_vars, sender_vars
<1>8. ~ResetStart /\ ~ResetList /\ ~ResetDone
  BY DEF ResetStart, ResetList, ResetDone
<1>. QED
  BY <1>2, <1>4, <1>5, <1>6, <1>7, <1>8 DEF Next, SenderNext, ThreadNext

\* _reset() lists the plots, and moves them to the queue.
LEMMA ResetDataStep ==
    ASSUME TypeOK, ProtocolInv, ThreadInv, ResetData, [Next]_vars
    PROVE  ResetData'
<1>1. CASE ResetStart
  <2>1. Len(messages') = 1 /\ messages'[1].data = {} /\ resetting' = "started"
    BY <1>1, ResetStartKeeps DEF ResetStart
  <2>2. Loaded' = {}
    BY <2>1 DEF Loaded, Delivered
  <2>. QED
    BY <2>1, <2>2 DEF ResetData
<1>2. CASE ResetList
  BY <1>2 DEF ResetList, ResetData, Open, Loaded, manager_vars
<1>3. CASE ResetBatch
  <2>0. /\ resetting = "queueing" /\ resetting' = resetting /\ UNCHANGED <<plots, thread>>
        /\ messages \in Seq(Messages)
    BY <1>3 DEF ResetBatch, manager_vars, TypeOK
  <2>1. PICK batch \in SUBSET unqueued : /\ batch \in SUBSET Plots
                                         /\ messages' = Append(messages, Message("loaded", batch))
                                         /\ unqueued' = unqueued \ batch
    BY <1>3, FirstBatch DEF TypeOK, ResetBatch
  <2>2. PICK r : r = <<Message("loaded", batch)>>
    OBVIOUS
  <2>3. r \in Seq(Messages) /\ Delivered(r, "loaded", Len(r)) = batch
    BY <2>1, <2>2, SingleMessage
  <2>4. messages' = messages \o r
    <3>1. Message("loaded", batch) \in Messages
      BY <2>1, MessageTyped
    <3>. QED
      BY <3>1, <2>0, <2>1, <2>2
  <2>5. Open' => Open
    BY <2>0, <2>3, <2>4, AppendOverDone
  <2>6. Loaded' = Loaded \cup batch
    <3>1. Delivered(messages \o r, "loaded", Len(messages \o r))
            = Delivered(messages, "loaded", Len(messages)) \cup Delivered(r, "loaded", Len(r))
      BY <2>0, <2>3, DeliveredConcat
    <3>. QED
      BY <3>1, <2>3, <2>4 DEF Loaded
  <2>. QED
    BY <2>0, <2>1, <2>5, <2>6 DEF ResetData
<1>4. CASE resetting' \notin {"started", "queueing"}
  BY <1>4 DEF ResetData
<1>5. CASE ~ResetBatch /\ resetting \in {"started", "queueing"} /\ UNCHANGED <<resetting, unqueued>>
  BY <1>5, BesideReset
<1>6. CASE ~ResetStart /\ ~ResetList /\ ~ResetBatch /\ resetting' \in {"started", "queueing"}
  <2>1. UNCHANGED <<resetting, unqueued>>
    BY <1>6 DEF Next, SenderNext, ThreadNext, SendNextMessage, Answered, Timeout, Receive, BeginRefresh, SyncStart,
                DropVanished, LoadBatch, ReportBatch, SyncDone, EndThread, Connect, Close, OnDisconnect, AwaitClosed,
                ChangeDisk, ResetDone, BeginReset, FinalizeSync, Reset, ResetClosed, ManagerReset, vars, sender_vars,
                reset_vars
  <2>. QED
    BY <2>1, <1>5, <1>6
<1>. QED
  BY <1>1, <1>2, <1>3, <1>4, <1>6

LEMMA DataStep ==
    ASSUME TypeOK, ProtocolInv, ThreadInv, DataInv, [Next]_vars
    PROVE  DataInv'
<1>1. ResetData'
  BY ResetDataStep DEF DataInv
<1>2. ASSUME resetting' = "no" PROVE Settled'
  <2>1. CASE resetting = "no"
    BY <2>1, <1>2, SettledStep DEF DataInv
  <2>2. CASE ResetDone
    BY <2>2, ResetDoneSettles DEF DataInv
  <2>3. CASE resetting # "no" /\ ~ResetDone
    <3>1. ~waiting
      BY <2>3 DEF ProtocolInv, ResetInv
    <3>. QED
      BY <3>1, <2>3, <1>2
         DEF Next, SenderNext, ThreadNext, SendNextMessage, Answered, Timeout, Receive, BeginRefresh, SyncStart,
             DropVanished, LoadBatch, ReportBatch, SyncDone, EndThread, Connect, Close, OnDisconnect, AwaitClosed,
             ChangeDisk, ResetStart, ResetList, ResetBatch, Reset, ResetClosed, ManagerReset, vars, sender_vars,
             reset_vars
  <2>. QED
    BY <2>1, <2>2, <2>3
<1>. QED
  BY <1>1, <1>2 DEF DataInv

-----------------------------------------------------------------------------
(* The theorems *)

\* The invariant holds of plot sync, whatever is repeated, lost with a connection or
\* overtaken by a reset.
THEOREM PlotSyncCorrect == Spec => []PlotSyncInv
<1>1. Init => PlotSyncInv
  <2>1. Init => QueueInv /\ NetInv /\ ThreadInv /\ ResetInv
    BY DEF Init, QueueInv, NetInv, ThreadInv, ResetInv, Open
  <2>2. Init => ReceiverInv /\ DataInv
    BY DEF Init, ReceiverInv, DataInv, Settled, ResetData
  <2>. QED
    BY <2>1, <2>2, TypeInit DEF PlotSyncInv
<1>2. PlotSyncInv /\ [Next]_vars => PlotSyncInv'
  <2>1. SUFFICES ASSUME PlotSyncInv, [Next]_vars PROVE PlotSyncInv'
    OBVIOUS
  <2>2. TypeOK /\ QueueInv /\ ProtocolInv /\ ThreadInv /\ DataInv
    BY <2>1 DEF PlotSyncInv, ProtocolInv
  <2>3. TypeOK'
    BY <2>1, <2>2, TypeStep
  <2>4. ProtocolInv'
    BY <2>1, <2>2, ProtocolStep
  <2>5. ThreadInv'
    BY <2>1, <2>2, ThreadStep
  <2>6. DataInv'
    BY <2>1, <2>2, DataStep
  <2>. QED
    BY <2>3, <2>4, <2>5, <2>6 DEF PlotSyncInv, ProtocolInv
<1>. QED
  BY <1>1, <1>2, PTL DEF Spec

\* Every variable keeps its type: the sender's position stays inside its queue.
THEOREM TypeCorrect == Spec => []TypeOK
<1>1. PlotSyncInv => TypeOK
  BY DEF PlotSyncInv
<1>. QED
  BY <1>1, PlotSyncCorrect, PTL

\* Between two syncs the farmer has the plots of the harvester, unless a reset is at
\* work, a refresh ended in an exception (initial), or messages of a refresh that a reset
\* overtook were cleared unsent (lost).
THEOREM InSyncCorrect == Spec => []FarmerInSync
<1>1. PlotSyncInv => FarmerInSync
  BY DEF PlotSyncInv, ReceiverInv, DataInv, Settled, FarmerInSync, sync_active
<1>. QED
  BY <1>1, PlotSyncCorrect, PTL

\* The delta of the farmer is a prefix of the queue, each message once.
THEOREM DeltaCorrect == Spec => []DeltaIsPrefix
<1>1. PlotSyncInv => DeltaIsPrefix
  <2>1. SUFFICES ASSUME PlotSyncInv, conn = "up", next_message_id > 0
                 PROVE  \/ /\ receiver.sync_id = sync_id
                           /\ receiver.next \in {next_message_id, next_message_id + 1} \cap 0..Len(messages)
                           /\ DeltaHolds(receiver.next) \/ RefusesCurrent
                        \/ /\ receiver.sync_id = 0 /\ receiver.last_sync_id = sync_id
                           /\ messages[next_message_id + 1].kind = "done"
    BY DEF DeltaIsPrefix
  <2>2. AtMessage \/ PastMessage \/ Refusing \/ PastDone
    BY <2>1 DEF PlotSyncInv, ReceiverInv, ResetInv
  <2>3. next_message_id \in 0..Len(messages) /\ Len(messages) \in Nat
    BY <2>1 DEF PlotSyncInv, TypeOK
  <2>4. next_message_id < Len(messages) => next_message_id + 1 \in 0..Len(messages)
    BY <2>3
  <2>. QED
    BY <2>2, <2>3, <2>4 DEF AtMessage, PastMessage, Refusing, RefusesCurrent, PastDone, Current
<1>. QED
  BY <1>1, PlotSyncCorrect, PTL

\* The sender ends a sync on a connection only when the farmer has applied it, or with
\* a reset.
THEOREM FinalizeCorrect == Spec => FinalizedIsApplied
<1>1. PlotSyncInv /\ [Next]_vars =>
        [sync_active /\ ~sync_active' /\ conn = "up" /\ resetting' = "no" =>
           /\ receiver.last_sync_id = sync_id /\ receiver.sync_id = 0
           /\ last_sync_id' = sync_id]_vars
  <2>1. SUFFICES ASSUME PlotSyncInv, Next, sync_id # 0, sync_id' = 0, conn = "up", resetting' = "no"
                 PROVE  /\ receiver.last_sync_id = sync_id /\ receiver.sync_id = 0
                        /\ last_sync_id' = sync_id
    BY DEF sync_active
  <2>2. TypeOK /\ ProtocolInv /\ ThreadInv
    BY <2>1 DEF PlotSyncInv, ProtocolInv
  <2>3. ~Reset /\ ~BeginReset
    BY <2>1, <2>2, ResetDoes DEF BeginReset
  <2>4. CASE Answered
    <3>1. /\ waiting /\ answer # NoAnswer
          /\ FinalizeSync
          /\ \/ answer.status = "ok" /\ messages[next_message_id + 1].kind = "done"
             \/ answer.status = "expected" /\ answer.sync_id = 0 /\ all_sent(next_message_id)
      BY <2>1, <2>3, <2>4 DEF Answered
    <3>2. PastDone
      BY <3>1, <2>1, <2>2, FinalizeMeans
    <3>. QED
      BY <3>1, <3>2 DEF PastDone, FinalizeSync
  <2>5. CASE SendNextMessage \/ Timeout \/ Receive \/ Connect \/ Close \/ OnDisconnect \/ AwaitClosed
    BY <2>1, <2>3, <2>5 DEF SendNextMessage, Timeout, Receive, Connect, Close, OnDisconnect, AwaitClosed,
                            stop_requested, sender_vars
  <2>6. CASE BeginRefresh \/ DropVanished \/ LoadBatch \/ EndThread \/ \E p \in Plots : ChangeDisk(p)
    BY <2>1, <2>6 DEF BeginRefresh, DropVanished, LoadBatch, EndThread, ChangeDisk, sender_vars
  <2>7. CASE SyncStart \/ ReportBatch \/ SyncDone
    BY <2>1, <2>7 DEF SyncStart, sync_active, ReportBatch, SyncDone, ManagerReset, sender_vars
  <2>8. CASE ResetStart \/ ResetList \/ ResetBatch \/ ResetDone
    BY <2>1, <2>8 DEF ResetStart, sync_active, ResetList, ResetBatch, ResetDone
  <2>. QED
    BY <2>1, <2>4, <2>5, <2>6, <2>7, <2>8 DEF Next, SenderNext, ThreadNext
<1>. QED
  BY <1>1, PlotSyncCorrect, PTL DEF Spec, FinalizedIsApplied
=============================================================================
