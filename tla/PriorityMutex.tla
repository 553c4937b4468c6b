---------------------------- MODULE PriorityMutex ----------------------------
(***************************************************************************)
(* chia/util/priority_mutex.py: the lock that serialises everything that   *)
(* changes the blockchain or the mempool.  A task asks for it with a       *)
(* priority, lower values first, waits on an event of its own until a      *)
(* leaving task hands the lock to it, and may be cancelled while it waits, *)
(* also after the lock has been handed to it and before it has resumed.    *)
(*                                                                         *)
(* A task has at most one element in the deques, so an element is          *)
(* identified with its task.  The element stays in its deque while it is   *)
(* the active one.                                                         *)
(***************************************************************************)
EXTENDS Integers, Sequences, FiniteSets, SequencesExt

CONSTANTS
    Tasks,
    Priorities,   \* the values of the priority enumeration
    NoTask        \* _active is None

ASSUME PrioritiesAssumption ==
    Priorities \subseteq Int /\ Priorities # {} /\ IsFiniteSet(Priorities)
ASSUME NoTaskAssumption == NoTask \notin Tasks

VARIABLES
    deques,    \* _deques: for each priority the elements in order of arrival
    active,    \* _active
    ready,     \* elements whose ready_event is set
    state,     \* where each task is: "out", "waiting", "inside" the with block
    priority,  \* the priority of the task's request
    arrivals   \* history: all requests in the deques, in order of arrival

vars == <<deques, active, ready, state, priority, arrivals>>

Init ==
    /\ deques = [p \in Priorities |-> <<>>]
    /\ active = NoTask
    /\ ready = {}
    /\ state = [t \in Tasks |-> "out"]
    /\ priority \in [Tasks -> Priorities]
    /\ arrivals = <<>>

\* acquire(): a task that already holds the lock raises and changes nothing.
Acquire(t, p) ==
    /\ state[t] = "out"
    /\ deques' = [deques EXCEPT ![p] = Append(@, t)]
    /\ priority' = [priority EXCEPT ![t] = p]
    /\ arrivals' = Append(arrivals, t)
    /\ \/ /\ active = NoTask
          /\ active' = t
          /\ state' = [state EXCEPT ![t] = "inside"]
       \/ /\ active # NoTask
          /\ state' = [state EXCEPT ![t] = "waiting"]
          /\ UNCHANGED active
    /\ UNCHANGED ready

\* The event loop runs a waiter whose event is set.
Resume(t) ==
    /\ state[t] = "waiting"
    /\ t \in ready
    /\ state' = [state EXCEPT ![t] = "inside"]
    /\ UNCHANGED <<deques, active, ready, priority, arrivals>>

\* Mutant: the deques are searched from the highest value down.
WorstWaiter(ds) ==
    IF \A p \in Priorities : ds[p] = <<>>
    THEN NoTask
    ELSE LET nonempty == {p \in Priorities : ds[p] # <<>>}
         IN Head(ds[CHOOSE p \in nonempty : \A q \in nonempty : p >= q])

\* Mutant: the newest element of the deque is taken.
NewestWaiter(ds) ==
    IF \A p \in Priorities : ds[p] = <<>>
    THEN NoTask
    ELSE LET nonempty == {p \in Priorities : ds[p] # <<>>}
         IN Last(ds[CHOOSE p \in nonempty : \A q \in nonempty : p <= q])

\* The first element of the first deque that is not empty, lowest value first
FirstWaiter(ds) ==
    IF \A p \in Priorities : ds[p] = <<>>
    THEN NoTask
    ELSE LET nonempty == {p \in Priorities : ds[p] # <<>>}
         IN Head(ds[CHOOSE p \in nonempty : \A q \in nonempty : p <= q])

\* Mutant: the element stays in its deque.
NotWithdrawn(t) == deques

\* deque.remove(element)
Withdrawn(t) == [deques EXCEPT ![priority[t]] = RemoveFirst(@, t)]

\* Mutant: the lock is handed on whether or not the leaving element owns it.
HandOnAlways(t) == FirstWaiter(Withdrawn(t))

\* Mutant: a waiter that is cancelled just after the lock was handed to it does
\* not hand it on.
HandOnFromInside(t) ==
    CASE active = t /\ state[t] = "inside" -> FirstWaiter(Withdrawn(t))
      [] active = t /\ state[t] # "inside" -> NoTask
      [] OTHER -> active

\* The active element after t has left: "another element might be active if the
\* wait is cancelled", otherwise the lock is handed on.
HandOn(t) == IF active \in {t, NoTask} THEN FirstWaiter(Withdrawn(t)) ELSE active

\* The finally clause of acquire()
Finally(t) ==
    /\ deques' = Withdrawn(t)
    /\ active' = HandOn(t)
    /\ ready' = (ready \ {t}) \cup (IF HandOn(t) \in {active, NoTask} THEN {} ELSE {HandOn(t)})
    /\ state' = [state EXCEPT ![t] = "out"]
    /\ arrivals' = RemoveFirst(arrivals, t)
    /\ UNCHANGED priority

\* The with block ends, normally, by an exception or by a cancellation.
Leave(t) == state[t] = "inside" /\ Finally(t)

\* The waiting task is cancelled.
CancelWait(t) == state[t] = "waiting" /\ Finally(t)

Next ==
    \E t \in Tasks :
        \/ \E p \in Priorities : Acquire(t, p)
        \/ Resume(t)
        \/ Leave(t)
        \/ CancelWait(t)

\* The event loop runs every task that can run, and every with block ends.
Fairness == \A t \in Tasks : WF_vars(Resume(t)) /\ WF_vars(Leave(t))

Spec == Init /\ [][Next]_vars /\ Fairness

-----------------------------------------------------------------------------
Waiting == {t \in Tasks : state[t] = "waiting"}

\* Every variable has its type, and a task is in a deque as long as it waits or
\* is inside, once, under the priority it asked for.
TypeOK ==
    /\ deques \in [Priorities -> Seq(Tasks)]
    /\ active \in Tasks \cup {NoTask}
    /\ ready \subseteq Tasks
    /\ state \in [Tasks -> {"out", "waiting", "inside"}]
    /\ priority \in [Tasks -> Priorities]
    /\ \A p \in Priorities :
         /\ IsInjective(deques[p])
         /\ ToSet(deques[p]) = {t \in Tasks : state[t] # "out" /\ priority[t] = p}

\* No two tasks are inside, also when a task is cancelled after the lock was
\* handed to it and before it has resumed.
MutualExclusion ==
    \A t, u \in Tasks : state[t] = "inside" /\ state[u] = "inside" => t = u

\* No wakeup is lost: while anyone waits, the lock has an owner, and the owner
\* is inside or has been told to go on; and no one else has been told.
NoLostWakeup ==
    /\ Waiting # {} => /\ active # NoTask
                       /\ state[active] = "inside" \/ active \in ready
    /\ \A t \in Waiting : t \in ready => t = active

\* t was there before u, or asked with a better priority.
Precedes(t, u) ==
    \/ priority[t] < priority[u]
    \/ /\ priority[t] = priority[u]
       /\ \E i, j \in DOMAIN arrivals : i < j /\ arrivals[i] = t /\ arrivals[j] = u

\* The lock is handed to the waiter that precedes every other waiter: lower
\* value first, and first come first served within a priority.
HandedToFirst ==
    [][ (active' # active /\ active' \in Waiting)
          => \A t \in Waiting : t = active' \/ Precedes(active', t) \/ state'[t] = "out" ]_vars

\* A task that waits with the best priority gets its turn (or is cancelled):
\* later requests of any priority do not starve it.
BestPriorityServed ==
    \A t \in Tasks :
        (state[t] = "waiting" /\ \A p \in Priorities : priority[t] <= p) ~> (state[t] # "waiting")
==============================================================================
