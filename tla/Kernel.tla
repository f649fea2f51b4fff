------------------------------- MODULE Kernel -------------------------------
(***************************************************************************)
(* The scheduler of ChibiOS (chschd.c) with its mutexes (chmtx.c) and the  *)
(* binary semaphore (chsem.c, chbsem.h), as the threads of the instrument  *)
(* use them: Thread2 above Thread4 above Thread3 and Thread5, which share  *)
(* the processor by time slices, above the idle thread.                    *)
(*                                                                         *)
(* Each call runs under chSysLock, and each interrupt under the lock up to *)
(* the reschedule of its epilogue (chcore_v6m.c): one step each.           *)
(***************************************************************************)
EXTENDS Integers, FiniteSetsExt, SequencesExt

CONSTANTS
  High, Normal, Low,  \* the threads made with HIGHPRIO, NORMALPRIO, LOWPRIO
  idle,               \* the idle thread
  Mutexes,            \* numbered in the order in which they are taken
  SemUsers,           \* who waits for and signals the binary semaphore
  NULL

User == High \cup Normal \cup Low
Threads == User \cup {idle}

KernelAssumption ==
  /\ IsFiniteSet(User) /\ idle \notin User /\ NULL \notin Threads \cup Mutexes
  /\ High \cap Normal = {} /\ High \cap Low = {} /\ Normal \cap Low = {}
  /\ Mutexes \subseteq Nat /\ IsFiniteSet(Mutexes) /\ SemUsers \subseteq User
ASSUME KernelAssumption

VARIABLES
  r_queue, r_current,  \* rlist: the ready threads in order, and the current one
  p_state, p_prio,
  p_preempt,           \* is there anything left of the time slice?
  p_mtxlist,           \* the mutexes a thread owns, the last taken first
  m_owner, m_queue,
  s_cnt, s_queue,
  holder               \* the thread that waited for the semaphore last and went on

schedVars == <<r_queue, r_current, p_state, p_preempt>>
mutexVars == <<p_mtxlist, m_owner, m_queue>>
semVars == <<s_cnt, s_queue, holder>>
vars == <<schedVars, p_prio, mutexVars, semVars>>

p_realprio == [t \in Threads |-> CASE t \in High -> 4 [] t \in Normal -> 3
                                   [] t \in Low -> 2  [] OTHER -> 1]

\* All threads in chThdSleep.
Init ==
  /\ r_queue = <<>> /\ r_current = idle
  /\ p_state = [t \in Threads |-> IF t = idle THEN "CURRENT" ELSE "SLEEPING"]
  /\ p_prio = p_realprio /\ p_preempt = [t \in Threads |-> TRUE]
  /\ p_mtxlist = [t \in Threads |-> <<>>]
  /\ m_owner = [m \in Mutexes |-> NULL] /\ m_queue = [m \in Mutexes |-> <<>>]
  /\ s_cnt = 1 /\ s_queue = <<>> /\ holder = NULL

----------------------------------------------------------------------------
(* Queues.                                                                 *)

InsertBefore(q, t, places) ==
  IF places = {} THEN Append(q, t) ELSE InsertAt(q, Min(places), t)

\* prio_insert, and the loop of chSchReadyI: behind those of the same priority.
InsertBehind(q, t, prio) ==
  InsertBefore(q, t, {i \in DOMAIN q : prio[q[i]] < prio[t]})

InsertAhead(q, t, prio) ==
  InsertBefore(q, t, {i \in DOMAIN q : prio[q[i]] <= prio[t]})

----------------------------------------------------------------------------
(* The scheduler (chschd.c).  Each operator takes the ready list as the    *)
(* caller has left it.                                                     *)

SwitchTo(t, otpState, queue) ==
  /\ r_current' = t /\ r_queue' = queue
  /\ p_state' = [p_state EXCEPT ![r_current] = otpState, ![t] = "CURRENT"]

GoSleepS(queue, newstate) ==
  /\ SwitchTo(Head(queue), newstate, Tail(queue))
  /\ p_preempt' = [p_preempt EXCEPT ![r_current] = TRUE]

\* The woken thread runs at once only if it is above the one that wakes it.
WakeupS(tp, prio) ==
  /\ IF prio[tp] <= prio[r_current]
       THEN /\ r_queue' = InsertBehind(r_queue, tp, prio)
            /\ p_state' = [p_state EXCEPT ![tp] = "READY"] /\ UNCHANGED r_current
       ELSE SwitchTo(tp, "READY", InsertBehind(r_queue, r_current, prio))
  /\ UNCHANGED p_preempt

\* chSchReadyI for the threads in woken, in that order.
ReadyI(woken) ==
  LET queue[n \in 0 .. Len(woken)] ==
        IF n = 0 THEN r_queue ELSE InsertBehind(queue[n - 1], woken[n], p_prio)
  IN  queue[Len(woken)]

\* Whoever is to run when the threads in woken have been made ready, in that
\* order.  Without a rest of the time slice the current thread makes room for its
\* equals too, and goes behind them (chSchDoRescheduleBehind); else it makes room
\* only for those above, and stays ahead of its equals (chSchDoRescheduleAhead).
ReadyAndReschedule(woken, sliceLeft) ==
  LET queue == ReadyI(woken)
      states == [t \in Threads |-> IF t \in Range(woken) THEN "READY" ELSE p_state[t]]
      required == queue # <<>> /\ IF sliceLeft THEN p_prio[Head(queue)] > p_prio[r_current]
                                              ELSE p_prio[Head(queue)] >= p_prio[r_current]
  IN  IF required
        THEN /\ r_current' = Head(queue)
             /\ r_queue' = IF sliceLeft THEN InsertAhead(Tail(queue), r_current, p_prio)
                                        ELSE InsertBehind(Tail(queue), r_current, p_prio)
             /\ p_state' = [states EXCEPT ![r_current] = "READY", ![Head(queue)] = "CURRENT"]
        ELSE r_queue' = queue /\ p_state' = states /\ UNCHANGED r_current

\* chSysTimerHandlerI and the drivers' interrupts: a tick may be the last of the
\* slice, any threads whose time has come or whose transfer is over become ready,
\* and on the way out the port switches if it must.  A thread that goes behind its
\* equals gets a new slice.
Interrupt ==
  \E used \in BOOLEAN, W \in SUBSET {t \in User : p_state[t] = "SLEEPING"} :
    LET sliceLeft == p_preempt[r_current] /\ ~used
    IN  /\ \E woken \in SetToSeqs(W) : ReadyAndReschedule(woken, sliceLeft)
        /\ p_preempt' = [p_preempt EXCEPT ![r_current] = sliceLeft \/ r_current' # r_current]
        /\ UNCHANGED <<p_prio, mutexVars, semVars>>

\* chThdSleepMilliseconds, and the wait for a transfer.
Sleep ==
  /\ r_current # idle
  /\ GoSleepS(r_queue, "SLEEPING") /\ UNCHANGED <<p_prio, mutexVars, semVars>>

----------------------------------------------------------------------------
(* Mutexes (chmtx.c).                                                      *)

wtobjp(t) == CHOOSE m \in Mutexes : t \in Range(m_queue[m])

\* chMtxLockS walks from the owner of the mutex to the owner of the mutex that
\* one waits for, and so on while they are below the current thread.
Affected[t \in Threads] ==
  IF p_prio[t] >= p_prio[r_current] THEN {}
  ELSE {t} \cup IF p_state[t] = "WTMTX" THEN Affected[m_owner[wtobjp(t)]] ELSE {}

\* Mutant: the thread keeps its place.
X_Requeue(q, affected, prio) == q

\* The affected thread in a queue goes to its new place.  A queue has one at most:
\* every next one along the walk waits for another mutex.
Requeue(q, affected, prio) ==
  IF Range(q) \cap affected = {} THEN q
  ELSE LET i == CHOOSE i \in DOMAIN q : q[i] \in affected
       IN  InsertBehind(RemoveAt(q, i), q[i], prio)

MayTake(m) == r_current # idle /\ \A k \in Range(p_mtxlist[r_current]) : k < m

LockFree(m) ==
  /\ MayTake(m) /\ m_owner[m] = NULL
  /\ m_owner' = [m_owner EXCEPT ![m] = r_current]
  /\ p_mtxlist' = [p_mtxlist EXCEPT ![r_current] = <<m>> \o @]
  /\ UNCHANGED <<schedVars, p_prio, m_queue, semVars>>

LockTaken(m) ==
  /\ MayTake(m) /\ m_owner[m] # NULL
  /\ LET affected == Affected[m_owner[m]]
         prio == [t \in Threads |-> IF t \in affected THEN p_prio[r_current] ELSE p_prio[t]]
         queues == [k \in Mutexes |-> Requeue(m_queue[k], affected, prio)]
     IN  /\ p_prio' = prio
         /\ m_queue' = [queues EXCEPT ![m] = InsertBehind(@, r_current, prio)]
         /\ GoSleepS(Requeue(r_queue, affected, prio), "WTMTX")
  /\ UNCHANGED <<p_mtxlist, m_owner, semVars>>

\* Mutant: the mutexes still owned are forgotten.
X_Recalculated(t, mtxlist) == p_realprio[t]

\* The priority that the mutexes a thread still owns leave it.
Recalculated(t, mtxlist) ==
  Max({p_realprio[t]} \cup {p_prio[Head(m_queue[m])] :
                            m \in {k \in Range(mtxlist) : m_queue[k] # <<>>}})

\* chMtxUnlock: the last mutex taken.
UnlockAlone ==
  /\ p_mtxlist[r_current] # <<>>
  /\ LET ump == Head(p_mtxlist[r_current])
     IN  /\ m_queue[ump] = <<>>
         /\ m_owner' = [m_owner EXCEPT ![ump] = NULL]
         /\ p_mtxlist' = [p_mtxlist EXCEPT ![r_current] = Tail(@)]
  /\ UNCHANGED <<schedVars, p_prio, m_queue, semVars>>

UnlockAwaited ==
  /\ p_mtxlist[r_current] # <<>>
  /\ LET ump == Head(p_mtxlist[r_current])
         rest == Tail(p_mtxlist[r_current])
         tp == Head(m_queue[ump])
         prio == [p_prio EXCEPT ![r_current] = Recalculated(r_current, rest)]
     IN  /\ m_queue[ump] # <<>>
         /\ p_prio' = prio
         /\ m_queue' = [m_queue EXCEPT ![ump] = Tail(@)]
         /\ m_owner' = [m_owner EXCEPT ![ump] = tp]
         /\ p_mtxlist' = [p_mtxlist EXCEPT ![r_current] = rest, ![tp] = <<ump>> \o @]
         /\ WakeupS(tp, prio)
  /\ UNCHANGED semVars

----------------------------------------------------------------------------
(* The binary semaphore: waited for and signalled with no mutex owned, and *)
(* signalled by the thread that waited.                                    *)

Wait ==
  /\ r_current \in SemUsers /\ holder # r_current /\ p_mtxlist[r_current] = <<>>
  /\ s_cnt' = s_cnt - 1
  /\ IF s_cnt' < 0
       THEN /\ s_queue' = Append(s_queue, r_current) /\ UNCHANGED holder
            /\ GoSleepS(r_queue, "WTSEM")
       ELSE holder' = r_current /\ UNCHANGED <<schedVars, s_queue>>
  /\ UNCHANGED <<p_prio, mutexVars>>

\* chBSemSignal: the count never passes 1; then chSchRescheduleS, which asks for no
\* slice and leaves it as it is.
Signal ==
  /\ holder = r_current /\ p_mtxlist[r_current] = <<>> /\ s_cnt < 1
  /\ s_cnt' = s_cnt + 1
  /\ IF s_cnt' <= 0
       THEN /\ s_queue' = Tail(s_queue) /\ holder' = Head(s_queue)
            /\ ReadyAndReschedule(<<Head(s_queue)>>, TRUE) /\ UNCHANGED p_preempt
       ELSE UNCHANGED <<schedVars, s_queue>> /\ holder' = NULL
  /\ UNCHANGED <<p_prio, mutexVars>>

Next ==
  \/ Interrupt \/ Sleep \/ Wait \/ Signal \/ UnlockAlone \/ UnlockAwaited
  \/ \E m \in Mutexes : LockFree(m) \/ LockTaken(m)

Spec == Init /\ [][Next]_vars

----------------------------------------------------------------------------
(* Properties.                                                             *)

Ordered(q) == \A i \in 1 .. Len(q) - 1 : p_prio[q[i]] >= p_prio[q[i + 1]]

\* The processor is always with a thread that no ready thread is above, whatever
\* calls, wake-ups and changes of priority come between, and a thread is in
\* exactly the list that its state says, in the place its priority gives it.
HighestRuns ==
  /\ \A t \in Range(r_queue) : p_prio[t] <= p_prio[r_current]
  /\ Ordered(r_queue) /\ \A m \in Mutexes : Ordered(m_queue[m])
  /\ \A t \in Threads :
       CASE p_state[t] = "CURRENT" -> t = r_current
         [] p_state[t] = "READY" -> Cardinality({i \in DOMAIN r_queue : r_queue[i] = t}) = 1
         [] p_state[t] = "WTMTX" -> \E m \in Mutexes : t \in Range(m_queue[m])
         [] p_state[t] = "WTSEM" -> t \in Range(s_queue)
         [] OTHER -> \A q \in {r_queue, s_queue} \cup Range(m_queue) : t \notin Range(q)
  /\ Len(r_queue) + 1 = Cardinality({t \in Threads : p_state[t] \in {"CURRENT", "READY"}})

\* A thread's priority is the highest of its own and those of the threads that
\* wait for its mutexes, no more and no less, along whole chains of waiting
\* threads, and after unlocking in the reverse order.
InheritanceExact ==
  \A t \in Threads :
    p_prio[t] = Max({p_realprio[t]} \cup
                    {p_prio[u] : u \in UNION {Range(m_queue[m]) : m \in Range(p_mtxlist[t])}})

\* The mutexes keep their promise: a release hands over to a thread that nobody
\* more urgent waits beside, urgency counted from the priorities the threads
\* were made with.
L == INSTANCE Lock WITH Base <- p_realprio, owner <- m_owner,
       waitsFor <- [t \in Threads |-> IF p_state[t] = "WTMTX" THEN wtobjp(t) ELSE NULL]
ImplementsLock == L!Spec
=============================================================================
