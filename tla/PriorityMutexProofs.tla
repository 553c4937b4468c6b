------------------------ MODULE PriorityMutexProofs --------------------------
(***************************************************************************)
(* The lock excludes, loses no wakeup and is handed on in order, for every *)
(* number of tasks and every finite set of priorities.                     *)
(*                                                                         *)
(* None of the properties is inductive.  That two tasks are never inside   *)
(* needs that everyone who is inside, or has been told to go on, is the    *)
(* active element (OwnerOnly).  That no wakeup is lost needs that there is *)
(* an active element whenever anyone is in the deques, and that it can run *)
(* (OwnerRuns).  That the lock goes to the first waiter needs that the     *)
(* deques keep the order of arrival (Ordered).                             *)
(***************************************************************************)
EXTENDS PriorityMutex, DataLemmas

OwnerOnly ==
    /\ \A t \in Tasks : state[t] = "inside" => t = active
    /\ \A t \in ready : t = active

OwnerRuns ==
    /\ \A t \in Tasks : state[t] # "out" => active # NoTask
    /\ active # NoTask => \/ state[active] = "inside"
                          \/ state[active] = "waiting" /\ active \in ready

Ordered ==
    /\ arrivals \in Seq(Tasks)
    /\ IsInjective(arrivals)
    /\ \A t \in Tasks : Has(arrivals, t) <=> state[t] # "out"
    /\ \A p \in Priorities, t, u \in Tasks : Before(deques[p], t, u) => Before(arrivals, t, u)

IInv == TypeOK /\ OwnerOnly /\ OwnerRuns /\ Ordered

-----------------------------------------------------------------------------
\* The elements of a deque, as TypeOK has them and as the lemmas on sequences do
LEMMA ToSetHas == ASSUME NEW S, NEW s \in Seq(S) PROVE ToSet(s) = {x \in S : Has(s, x)}
<1>1. \A i \in 1..Len(s) : s[i] \in S
  OBVIOUS
<1>2. DOMAIN s = 1..Len(s)
  OBVIOUS
<1> QED BY <1>1, <1>2 DEF ToSet, Has

LEMMA InDeque ==
    ASSUME TypeOK, NEW p \in Priorities
    PROVE  /\ deques[p] \in Seq(Tasks)
           /\ IsInjective(deques[p])
           /\ \A t \in Tasks : Has(deques[p], t) <=> state[t] # "out" /\ priority[t] = p
<1>1. deques[p] \in Seq(Tasks) /\ IsInjective(deques[p])
  BY DEF TypeOK
<1>2. {t \in Tasks : Has(deques[p], t)} = {t \in Tasks : state[t] # "out" /\ priority[t] = p}
  BY <1>1, ToSetHas DEF TypeOK
<1> QED BY <1>1, <1>2

\* What deque.remove() leaves in the deques
LEMMA WithdrawnIs ==
    ASSUME TypeOK, NEW t \in Tasks, state[t] # "out"
    PROVE  /\ Withdrawn(t) \in [Priorities -> Seq(Tasks)]
           /\ \A p \in Priorities :
                /\ IsInjective(Withdrawn(t)[p])
                /\ \A u \in Tasks : Has(Withdrawn(t)[p], u)
                                       <=> state[u] # "out" /\ priority[u] = p /\ u # t
                /\ \A u, v : Before(Withdrawn(t)[p], u, v) => Before(deques[p], u, v)
<1>1. priority[t] \in Priorities /\ deques \in [Priorities -> Seq(Tasks)]
  BY DEF TypeOK
<1>2. ASSUME NEW p \in Priorities
      PROVE  /\ Withdrawn(t)[p] \in Seq(Tasks)
             /\ IsInjective(Withdrawn(t)[p])
             /\ \A u \in Tasks : Has(Withdrawn(t)[p], u)
                                       <=> state[u] # "out" /\ priority[u] = p /\ u # t
             /\ \A u, v : Before(Withdrawn(t)[p], u, v) => Before(deques[p], u, v)
  <2>1. CASE p = priority[t]
    <3>1. Withdrawn(t)[p] = RemoveFirst(deques[p], t)
      BY <1>1, <2>1 DEF Withdrawn
    <3> QED BY <3>1, InDeque, RemoveFirstProperties
  <2>2. CASE p # priority[t]
    <3>1. Withdrawn(t)[p] = deques[p]
      BY <1>1, <2>2 DEF Withdrawn
    <3> QED BY <2>2, <3>1, InDeque
  <2> QED BY <2>1, <2>2
<1>3. Withdrawn(t) \in [Priorities -> Seq(Tasks)]
  <2>1. RemoveFirst(deques[priority[t]], t) \in Seq(Tasks)
    BY <1>1, InDeque, RemoveFirstProperties
  <2> QED BY <1>1, <2>1 DEF Withdrawn
<1> QED BY <1>2, <1>3

\* The lock is handed to the oldest element of the best priority that has one.
LEMMA FirstWaiterIs ==
    ASSUME TypeOK, NEW t \in Tasks, state[t] # "out"
    PROVE  LET w == FirstWaiter(Withdrawn(t)) IN
           /\ w = NoTask => \A u \in Tasks : state[u] # "out" => u = t
           /\ w # NoTask =>
                /\ w \in Tasks /\ state[w] # "out" /\ w # t
                /\ \A u \in Tasks \ {t, w} : state[u] # "out" =>
                     \/ priority[w] < priority[u]
                     \/ priority[w] = priority[u] /\ Before(deques[priority[w]], w, u)
<1> DEFINE ds == Withdrawn(t)
           nonempty == {p \in Priorities : ds[p] # <<>>}
           best == CHOOSE p \in nonempty : \A q \in nonempty : p <= q
<1>1. /\ ds \in [Priorities -> Seq(Tasks)]
      /\ \A p \in Priorities :
                /\ \A u \in Tasks : Has(ds[p], u) <=> state[u] # "out" /\ priority[u] = p /\ u # t
                /\ \A u, v : Before(ds[p], u, v) => Before(deques[p], u, v)
  BY WithdrawnIs
<1> HIDE DEF ds
<1>2. \A u \in Tasks \ {t} : state[u] # "out" => /\ priority[u] \in nonempty
                                                 /\ Has(ds[priority[u]], u)
  BY <1>1, HeadIsFirst DEF TypeOK
<1>3. CASE nonempty = {}
  <2>1. FirstWaiter(ds) = NoTask
    BY <1>3 DEF FirstWaiter
  <2> QED BY <1>2, <1>3, <2>1 DEF ds
<1>4. CASE nonempty # {}
  <2>1. best \in nonempty /\ \A q \in nonempty : best <= q
    <3>1. nonempty \in SUBSET Int /\ IsFiniteSet(nonempty)
      BY PrioritiesAssumption, FS_Subset
    <3>2. \E p \in nonempty : \A q \in nonempty : p <= q
      BY <1>4, <3>1, LeastInteger
    <3> QED BY <3>2
  <2>2. FirstWaiter(ds) = Head(ds[best])
    BY <1>4 DEF FirstWaiter
  <2> DEFINE w == Head(ds[best])
  <2> HIDE DEF best
  <2>3. /\ Has(ds[best], w)
        /\ \A x : Has(ds[best], x) => x = w \/ Before(ds[best], w, x)
    BY <1>1, <2>1, HeadIsFirst
  <2>4. w \in Tasks
    BY <1>1, <2>1, HeadTailProperties
  <2> HIDE DEF w
  <2>5. w # NoTask /\ state[w] # "out" /\ w # t /\ priority[w] = best
    BY <1>1, <2>1, <2>3, <2>4, NoTaskAssumption
  <2>6. ASSUME NEW u \in Tasks \ {t, w}, state[u] # "out"
        PROVE  \/ priority[w] < priority[u]
               \/ priority[w] = priority[u] /\ Before(deques[priority[w]], w, u)
    <3>1. priority[u] \in nonempty /\ best <= priority[u]
      BY <1>2, <2>1, <2>6
    <3>2. CASE best = priority[u]
      BY <1>1, <1>2, <2>1, <2>3, <2>5, <2>6, <3>2
    <3>3. CASE best # priority[u]
      <4>1. best \in Int /\ priority[u] \in Int
        BY <2>1, <3>1, PrioritiesAssumption
      <4>2. best < priority[u]
        BY <3>1, <3>3, <4>1
      <4> QED BY <2>5, <4>2
    <3> QED BY <3>2, <3>3
  <2> QED BY <2>2, <2>4, <2>5, <2>6 DEF w, ds
<1> QED BY <1>3, <1>4

-----------------------------------------------------------------------------
\* acquire() up to its first await
LEMMA AcquireStep ==
    ASSUME IInv, NEW t \in Tasks, NEW p \in Priorities, Acquire(t, p)
    PROVE  IInv'
<1> USE DEF IInv
<1>1. /\ state[t] = "out"
      /\ deques' = [deques EXCEPT ![p] = Append(@, t)]
      /\ priority' = [priority EXCEPT ![t] = p]
      /\ arrivals' = Append(arrivals, t)
      /\ ready' = ready
      /\ \/ active = NoTask /\ active' = t /\ state' = [state EXCEPT ![t] = "inside"]
         \/ active # NoTask /\ active' = active /\ state' = [state EXCEPT ![t] = "waiting"]
  BY DEF Acquire
<1>2. /\ state' \in [Tasks -> {"out", "waiting", "inside"}]
      /\ state'[t] # "out"
      /\ \A u \in Tasks \ {t} : state'[u] = state[u]
      /\ priority' \in [Tasks -> Priorities]
      /\ priority'[t] = p
      /\ \A u \in Tasks \ {t} : priority'[u] = priority[u]
      /\ active' \in Tasks \cup {NoTask}
      /\ ready' \subseteq Tasks
  BY <1>1 DEF TypeOK
<1>3. /\ Append(deques[p], t) \in Seq(Tasks)
      /\ IsInjective(Append(deques[p], t))
      /\ \A u \in Tasks : Has(Append(deques[p], t), u)
                             <=> (state[u] # "out" /\ priority[u] = p) \/ u = t
      /\ \A u, v : Before(Append(deques[p], t), u, v)
                      <=> Before(deques[p], u, v) \/ (Has(deques[p], u) /\ v = t)
  BY <1>1, InDeque, AppendFresh
<1>4. /\ deques' \in [Priorities -> Seq(Tasks)]
      /\ deques'[p] = Append(deques[p], t)
      /\ \A q \in Priorities \ {p} : deques'[q] = deques[q]
  BY <1>1, <1>3 DEF TypeOK
<1>5. TypeOK'
  <2>1. ASSUME NEW q \in Priorities
        PROVE  /\ IsInjective(deques'[q])
               /\ ToSet(deques'[q]) = {u \in Tasks : state'[u] # "out" /\ priority'[u] = q}
    <3>1. CASE q = p
      <4>1. \A u \in Tasks : Has(deques'[p], u) <=> state'[u] # "out" /\ priority'[u] = p
        BY <1>2, <1>3, <1>4
      <4>2. ToSet(deques'[p]) = {u \in Tasks : Has(deques'[p], u)}
        BY <1>3, <1>4, ToSetHas
      <4> QED BY <1>3, <1>4, <3>1, <4>1, <4>2
    <3>2. CASE q # p
      <4>1. deques'[q] = deques[q]
        BY <1>4, <3>2
      <4>2. \A u \in Tasks : (state'[u] # "out" /\ priority'[u] = q)
                                <=> (state[u] # "out" /\ priority[u] = q)
        BY <1>1, <1>2, <3>2
      <4>3. {u \in Tasks : state'[u] # "out" /\ priority'[u] = q}
               = {u \in Tasks : state[u] # "out" /\ priority[u] = q}
        BY <4>2
      <4> QED BY <4>1, <4>3 DEF TypeOK
    <3> QED BY <3>1, <3>2
  <2> QED BY <1>2, <1>4, <2>1 DEF TypeOK
<1>6. OwnerOnly'
  BY <1>1, <1>2, NoTaskAssumption DEF OwnerOnly, TypeOK
<1>7. OwnerRuns'
  BY <1>1, <1>2, NoTaskAssumption DEF OwnerRuns, TypeOK
<1>8. Ordered'
  <2>1. /\ arrivals' \in Seq(Tasks)
        /\ IsInjective(arrivals')
        /\ \A u : Has(arrivals', u) <=> Has(arrivals, u) \/ u = t
        /\ \A u, v : Before(arrivals', u, v)
                        <=> Before(arrivals, u, v) \/ (Has(arrivals, u) /\ v = t)
    BY <1>1, AppendFresh DEF Ordered
  <2>2. \A u \in Tasks : Has(arrivals', u) <=> state'[u] # "out"
    BY <1>2, <2>1 DEF Ordered
  <2>3. ASSUME NEW q \in Priorities, NEW u \in Tasks, NEW v \in Tasks, Before(deques'[q], u, v)
        PROVE  Before(arrivals', u, v)
    <3>1. CASE Before(deques[q], u, v)
      BY <2>1, <3>1 DEF Ordered
    <3>2. CASE ~ Before(deques[q], u, v)
      <4>1. q = p /\ Has(deques[p], u) /\ v = t
        BY <1>3, <1>4, <2>3, <3>2
      <4>2. Has(arrivals, u)
        BY <4>1, InDeque DEF Ordered
      <4> QED BY <2>1, <4>1, <4>2
    <3> QED BY <3>1, <3>2
  <2> QED BY <2>1, <2>2, <2>3 DEF Ordered
<1> QED BY <1>5, <1>6, <1>7, <1>8

\* The event loop runs a waiter whose event is set.
LEMMA ResumeStep ==
    ASSUME IInv, NEW t \in Tasks, Resume(t)
    PROVE  IInv'
<1> USE DEF IInv
<1>1. /\ state[t] = "waiting" /\ t \in ready
      /\ state' = [state EXCEPT ![t] = "inside"]
      /\ UNCHANGED <<deques, active, ready, priority, arrivals>>
  BY DEF Resume
<1>2. /\ state' \in [Tasks -> {"out", "waiting", "inside"}]
      /\ \A u \in Tasks : state'[u] # "out" <=> state[u] # "out"
  BY <1>1 DEF TypeOK
<1>3. TypeOK'
  <2>1. \A p \in Priorities : {u \in Tasks : state'[u] # "out" /\ priority[u] = p}
                                 = {u \in Tasks : state[u] # "out" /\ priority[u] = p}
    BY <1>2
  <2> QED BY <1>1, <1>2, <2>1 DEF TypeOK
<1>4. OwnerOnly' /\ OwnerRuns'
  BY <1>1, <1>2 DEF OwnerOnly, OwnerRuns, TypeOK
<1>5. Ordered'
  BY <1>1, <1>2 DEF Ordered
<1> QED BY <1>3, <1>4, <1>5

\* The finally clause, whoever leaves and whether or not it holds the lock
LEMMA FinallyStep ==
    ASSUME IInv, NEW t \in Tasks, state[t] # "out", Finally(t)
    PROVE  IInv'
<1> USE DEF IInv
<1>1. /\ deques' = Withdrawn(t)
      /\ active' = HandOn(t)
      /\ ready' = (ready \ {t}) \cup (IF HandOn(t) \in {active, NoTask} THEN {} ELSE {HandOn(t)})
      /\ state' = [state EXCEPT ![t] = "out"]
      /\ arrivals' = RemoveFirst(arrivals, t)
      /\ priority' = priority
  BY DEF Finally
<1>2. /\ state' \in [Tasks -> {"out", "waiting", "inside"}]
      /\ state'[t] = "out"
      /\ \A u \in Tasks \ {t} : state'[u] = state[u]
  BY <1>1 DEF TypeOK
<1> DEFINE w == FirstWaiter(Withdrawn(t))
<1>3. /\ w = NoTask => \A u \in Tasks : state[u] # "out" => u = t
      /\ w # NoTask => w \in Tasks /\ state[w] # "out" /\ w # t
  BY FirstWaiterIs
<1>4. active # NoTask
  BY DEF OwnerRuns
<1>5. active' = IF active = t THEN w ELSE active
  BY <1>1, <1>4 DEF HandOn
<1> HIDE DEF w
<1>6. ready' = (ready \ {t}) \cup (IF active = t /\ w # NoTask THEN {w} ELSE {})
  BY <1>1, <1>3, <1>4, <1>5
<1>7. TypeOK'
  <2>1. active' \in Tasks \cup {NoTask} /\ ready' \subseteq Tasks
    BY <1>3, <1>5, <1>6 DEF TypeOK
  <2>2. ASSUME NEW p \in Priorities
        PROVE  /\ IsInjective(deques'[p])
               /\ ToSet(deques'[p]) = {u \in Tasks : state'[u] # "out" /\ priority'[u] = p}
    <3>1. /\ deques'[p] \in Seq(Tasks)
          /\ IsInjective(deques'[p])
          /\ \A u \in Tasks : Has(deques'[p], u) <=> state[u] # "out" /\ priority[u] = p /\ u # t
      BY <1>1, WithdrawnIs
    <3>2. \A u \in Tasks : Has(deques'[p], u) <=> state'[u] # "out" /\ priority'[u] = p
      BY <1>1, <1>2, <3>1
    <3>3. ToSet(deques'[p]) = {u \in Tasks : Has(deques'[p], u)}
      BY <3>1, ToSetHas
    <3> QED BY <3>1, <3>2, <3>3
  <2>3. deques' \in [Priorities -> Seq(Tasks)] /\ priority' \in [Tasks -> Priorities]
    BY <1>1, WithdrawnIs DEF TypeOK
  <2> QED BY <1>2, <2>1, <2>2, <2>3 DEF TypeOK
<1>8. OwnerOnly'
  BY <1>2, <1>5, <1>6 DEF OwnerOnly
<1>9. OwnerRuns'
  <2>1. CASE active = t
    <3>1. \A u \in Tasks \ {t} : state[u] # "inside"
      BY <2>1 DEF OwnerOnly
    <3> QED BY <1>2, <1>3, <1>5, <1>6, <2>1, <3>1 DEF OwnerRuns, TypeOK
  <2>2. CASE active # t
    BY <1>2, <1>4, <1>5, <1>6, <2>2 DEF OwnerRuns, TypeOK
  <2> QED BY <2>1, <2>2
<1>10. Ordered'
  <2>1. /\ arrivals' \in Seq(Tasks)
        /\ IsInjective(arrivals')
        /\ \A u : Has(arrivals', u) <=> Has(arrivals, u) /\ u # t
        /\ \A u, v : Before(arrivals', u, v) <=> Before(arrivals, u, v) /\ u # t /\ v # t
    BY <1>1, RemoveFirstProperties DEF Ordered
  <2>2. \A u \in Tasks : Has(arrivals', u) <=> state'[u] # "out"
    BY <1>2, <2>1 DEF Ordered
  <2>3. ASSUME NEW p \in Priorities, NEW u \in Tasks, NEW v \in Tasks, Before(deques'[p], u, v)
        PROVE  Before(arrivals', u, v)
    <3>1. Before(deques[p], u, v)
      BY <1>1, <2>3, WithdrawnIs
    <3>2. Has(deques'[p], u) /\ Has(deques'[p], v)
      BY <2>3 DEF Before, Has
    <3>3. u # t /\ v # t
      BY <1>1, <3>2, WithdrawnIs
    <3> QED BY <2>1, <3>1, <3>3 DEF Ordered
  <2> QED BY <2>1, <2>2, <2>3 DEF Ordered
<1> QED BY <1>7, <1>8, <1>9, <1>10

-----------------------------------------------------------------------------
LEMMA InitIInv == Init => IInv
<1> SUFFICES ASSUME Init PROVE IInv
  OBVIOUS
<1>1. TypeOK
  <2>1. IsInjective(<<>>) /\ ToSet(<<>>) = {}
    BY DEF IsInjective, ToSet
  <2> QED BY <2>1 DEF Init, TypeOK
<1>2. OwnerOnly /\ OwnerRuns
  BY DEF Init, OwnerOnly, OwnerRuns
<1>3. Ordered
  <2>1. arrivals \in Seq(Tasks) /\ IsInjective(arrivals)
    BY DEF Init, IsInjective
  <2>2. \A t \in Tasks : ~ Has(arrivals, t)
    BY DEF Init, Has
  <2>3. \A p \in Priorities, t, u \in Tasks : ~ Before(deques[p], t, u)
    BY DEF Init, Before
  <2> QED BY <2>1, <2>2, <2>3 DEF Init, Ordered
<1> QED BY <1>1, <1>2, <1>3 DEF IInv

LEMMA NextIInv == IInv /\ [Next]_vars => IInv'
<1> SUFFICES ASSUME IInv, [Next]_vars PROVE IInv'
  OBVIOUS
<1>1. ASSUME NEW t \in Tasks, NEW p \in Priorities, Acquire(t, p) PROVE IInv'
  BY <1>1, AcquireStep
<1>2. ASSUME NEW t \in Tasks, Resume(t) PROVE IInv'
  BY <1>2, ResumeStep
<1>3. ASSUME NEW t \in Tasks, Leave(t) \/ CancelWait(t) PROVE IInv'
  BY <1>3, FinallyStep DEF Leave, CancelWait
<1>4. CASE UNCHANGED vars
  BY <1>4 DEF vars, IInv, TypeOK, OwnerOnly, OwnerRuns, Ordered
<1> QED BY <1>1, <1>2, <1>3, <1>4 DEF Next

LEMMA Invariance == Spec => []IInv
BY InitIInv, NextIInv, PTL DEF Spec

\* A task is in exactly one deque, once, from the moment it asks for the lock
\* until its finally clause has run, and under the priority it asked for.
THEOREM TypeCorrect == Spec => []TypeOK
<1>1. IInv => TypeOK
  BY DEF IInv
<1> QED BY <1>1, Invariance, PTL

\* No two tasks are ever inside the lock, whichever waiters are cancelled and
\* whether or not the lock had just been handed to them.
THEOREM MutexCorrect == Spec => []MutualExclusion
<1>1. IInv => MutualExclusion
  BY DEF IInv, OwnerOnly, MutualExclusion
<1> QED BY <1>1, Invariance, PTL

\* While anyone waits the lock has an owner that can run, and nobody else has
\* been told to go on, whichever waiters are cancelled.
THEOREM WakeupCorrect == Spec => []NoLostWakeup
<1>1. IInv => NoLostWakeup
  BY DEF IInv, OwnerOnly, OwnerRuns, NoLostWakeup, Waiting
<1> QED BY <1>1, Invariance, PTL

\* A leaving task hands the lock to the waiter with the lowest priority value,
\* and to the one that asked first among those.
THEOREM HandOnCorrect == Spec => HandedToFirst
<1>1. ASSUME IInv, [Next]_vars, active' # active, active' \in Waiting, NEW u \in Waiting
      PROVE  u = active' \/ Precedes(active', u) \/ state'[u] = "out"
  <2>1. ASSUME NEW t \in Tasks, NEW p \in Priorities, Acquire(t, p) PROVE FALSE
    BY <1>1, <2>1 DEF Acquire, Waiting
  <2>2. ASSUME NEW t \in Tasks, Leave(t) \/ CancelWait(t)
        PROVE  u = active' \/ Precedes(active', u) \/ state'[u] = "out"
    <3>1. Finally(t) /\ state[t] # "out"
      BY <2>2 DEF Leave, CancelWait
    <3>2. TypeOK /\ Ordered /\ u \in Tasks /\ state[u] # "out"
      BY <1>1 DEF IInv, Waiting
    <3>3. active' = FirstWaiter(Withdrawn(t)) /\ active' # NoTask
      BY <1>1, <3>1, NoTaskAssumption DEF Finally, HandOn, Waiting
    <3>4. u = t => state'[u] = "out"
      BY <3>1, <3>2 DEF Finally, TypeOK
    <3>5. u \notin {t, active'} =>
            \/ priority[active'] < priority[u]
            \/ priority[active'] = priority[u] /\ Before(deques[priority[active']], active', u)
      BY <3>1, <3>2, <3>3, FirstWaiterIs
    <3>6. active' \in Tasks /\ priority[active'] \in Priorities
      BY <1>1, <3>2 DEF Waiting, TypeOK
    <3>7. Before(deques[priority[active']], active', u) => Before(arrivals, active', u)
      BY <3>2, <3>6 DEF Ordered
    <3>8. DOMAIN arrivals = 1..Len(arrivals)
      BY <3>2 DEF Ordered
    <3> QED BY <3>4, <3>5, <3>7, <3>8 DEF Precedes, Before
  <2>3. ASSUME NEW t \in Tasks, Resume(t) PROVE FALSE
    BY <1>1, <2>3 DEF Resume
  <2>4. ~ UNCHANGED vars
    BY <1>1 DEF vars
  <2> QED BY <1>1, <2>1, <2>2, <2>3, <2>4 DEF Next
<1>2. IInv /\ [Next]_vars =>
        [ (active' # active /\ active' \in Waiting)
            => \A t \in Waiting : t = active' \/ Precedes(active', t) \/ state'[t] = "out" ]_vars
  BY <1>1
<1> QED BY <1>2, Invariance, PTL DEF Spec, HandedToFirst
-----------------------------------------------------------------------------
(* Overtaking *)

\* u will be given the lock before t, if nothing else happens.
Ahead(u, t) == state[u] # "out" /\ Precedes(u, t)

\* Whatever the step, a task comes ahead of one that goes on waiting only by
\* asking for the lock with a strictly better priority.
NotOvertaken ==
    \A t \in Waiting, u \in Tasks :
        (t \in Waiting' /\ Ahead(u, t)' /\ ~ Ahead(u, t))
            => (state[u] = "out" /\ priority'[u] < priority'[t])

LEMMA AcquireDoesNotOvertake ==
    ASSUME IInv, IInv', NEW r \in Tasks, NEW p \in Priorities, Acquire(r, p)
    PROVE  NotOvertaken
<1>1. /\ state[r] = "out"
      /\ arrivals' = Append(arrivals, r)
      /\ \A v \in Tasks \ {r} : priority'[v] = priority[v] /\ state'[v] = state[v]
      /\ arrivals \in Seq(Tasks) /\ IsInjective(arrivals) /\ ~ Has(arrivals, r)
  BY DEF Acquire, IInv, TypeOK, Ordered
<1>2. \A x, y : Before(arrivals', x, y) <=> Before(arrivals, x, y) \/ (Has(arrivals, x) /\ y = r)
  BY <1>1, AppendFresh
<1>3. DOMAIN arrivals = 1..Len(arrivals) /\ DOMAIN arrivals' = 1..Len(arrivals')
  BY DEF IInv, Ordered
<1>4. ASSUME NEW t \in Waiting, NEW u \in Tasks, t \in Waiting', Ahead(u, t)', ~ Ahead(u, t)
      PROVE  state[u] = "out" /\ priority'[u] < priority'[t]
  <2>1. t \in Tasks /\ t # r /\ priority'[t] = priority[t]
    BY <1>1, <1>4 DEF Waiting
  <2>2. \/ priority'[u] < priority'[t]
        \/ priority'[u] = priority'[t] /\ Before(arrivals', u, t)
    BY <1>3, <1>4 DEF Ahead, Precedes, Before
  <2>3. CASE u # r
    <3>1. Precedes(u, t)
      BY <1>1, <1>2, <1>3, <2>1, <2>2, <2>3 DEF Precedes, Before
    <3> QED BY <1>1, <1>4, <2>3, <3>1 DEF Ahead
  <2>4. CASE u = r
    <3>1. ~ Before(arrivals, u, t)
      BY <1>1, <2>4 DEF Before, Has
    <3> QED BY <1>1, <1>2, <2>1, <2>2, <2>4, <3>1
  <2> QED BY <2>3, <2>4
<1> QED BY <1>4 DEF NotOvertaken

LEMMA FinallyDoesNotOvertake ==
    ASSUME IInv, IInv', NEW r \in Tasks, Finally(r)
    PROVE  NotOvertaken
<1>1. /\ arrivals' = RemoveFirst(arrivals, r)
      /\ priority' = priority
      /\ \A v \in Tasks : state'[v] # "out" => state'[v] = state[v]
      /\ arrivals \in Seq(Tasks) /\ IsInjective(arrivals)
  BY DEF Finally, IInv, TypeOK, Ordered
<1>2. \A x, y : Before(arrivals', x, y) => Before(arrivals, x, y)
  BY <1>1, RemoveFirstProperties
<1>3. DOMAIN arrivals = 1..Len(arrivals) /\ DOMAIN arrivals' = 1..Len(arrivals')
  BY DEF IInv, Ordered
<1>4. ASSUME NEW t \in Waiting, NEW u \in Tasks, Ahead(u, t)'
      PROVE  Ahead(u, t)
  <2>1. \/ priority'[u] < priority'[t]
        \/ priority'[u] = priority'[t] /\ Before(arrivals', u, t)
    BY <1>3, <1>4 DEF Ahead, Precedes, Before
  <2>2. \/ priority[u] < priority[t]
        \/ priority[u] = priority[t] /\ Before(arrivals, u, t)
    BY <1>1, <1>2, <2>1
  <2>3. Precedes(u, t)
    BY <1>3, <2>2 DEF Precedes, Before
  <2> QED BY <1>1, <1>4, <2>3 DEF Ahead
<1> QED BY <1>4 DEF NotOvertaken

\* A waiter is overtaken only by later requests of a strictly better priority,
\* never by one of its own or a worse one, whoever is cancelled or leaves: with
\* the best priority, the tasks ahead of it only become fewer.
THEOREM OrderKept == Spec => [][NotOvertaken]_vars
<1>1. ASSUME IInv, IInv', [Next]_vars PROVE [NotOvertaken]_vars
  <2>1. ASSUME NEW r \in Tasks, NEW p \in Priorities, Acquire(r, p) PROVE NotOvertaken
    BY <1>1, <2>1, AcquireDoesNotOvertake
  <2>2. ASSUME NEW r \in Tasks, Leave(r) \/ CancelWait(r) PROVE NotOvertaken
    BY <1>1, <2>2, FinallyDoesNotOvertake DEF Leave, CancelWait
  <2>3. ASSUME NEW r \in Tasks, Resume(r) PROVE NotOvertaken
    <3>1. /\ \A v \in Tasks : state'[v] # "out" => state[v] # "out"
          /\ priority' = priority /\ arrivals' = arrivals
      BY <1>1, <2>3 DEF Resume, IInv, TypeOK
    <3> QED BY <3>1 DEF NotOvertaken, Ahead, Precedes
  <2> QED BY <1>1, <2>1, <2>2, <2>3 DEF Next
<1> QED BY <1>1, Invariance, PTL DEF Spec
==============================================================================
