-------------------------------- MODULE Lock --------------------------------
(***************************************************************************)
(* What the mutexes of the kernel promise the threads: one owner each,     *)
(* and on release the mutex goes to a waiting thread at once, to one that  *)
(* nobody more urgent waits beside.  A thread is as urgent as the most     *)
(* urgent of those that wait for it, directly or through others.           *)
(***************************************************************************)
EXTENDS Naturals, FiniteSetsExt

CONSTANTS Threads, Mutexes, NULL, Base   \* Base[t]: the priority a thread was made with

VARIABLES owner, waitsFor

vars == <<owner, waitsFor>>

Init == owner = [m \in Mutexes |-> NULL] /\ waitsFor = [t \in Threads |-> NULL]

Waiting(m) == {t \in Threads : waitsFor[t] = m}

Urgency[t \in Threads] ==
  Max({Base[t]} \cup UNION {{Urgency[u] : u \in Waiting(m)} : m \in {k \in Mutexes : owner[k] = t}})

Take(t, m) ==
  /\ waitsFor[t] = NULL /\ owner[m] = NULL
  /\ owner' = [owner EXCEPT ![m] = t] /\ UNCHANGED waitsFor

\* Mutexes are taken in one order, so that nobody waits for himself.
Wait(t, m) ==
  /\ waitsFor[t] = NULL /\ owner[m] \notin {NULL, t}
  /\ \A k \in Mutexes : owner[k] = t => k < m
  /\ waitsFor' = [waitsFor EXCEPT ![t] = m] /\ UNCHANGED owner

Release(t, m) ==
  /\ waitsFor[t] = NULL /\ owner[m] = t
  /\ IF Waiting(m) = {}
       THEN owner' = [owner EXCEPT ![m] = NULL] /\ UNCHANGED waitsFor
       ELSE \E w \in Waiting(m) :
              /\ \A u \in Waiting(m) : Urgency[u] <= Urgency[w]
              /\ owner' = [owner EXCEPT ![m] = w]
              /\ waitsFor' = [waitsFor EXCEPT ![w] = NULL]

Next == \E t \in Threads, m \in Mutexes : Take(t, m) \/ Wait(t, m) \/ Release(t, m)

Spec == Init /\ [][Next]_vars
=============================================================================
