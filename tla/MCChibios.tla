------------------------------ MODULE MCChibios ------------------------------
(* The scheduler and the heap, which share nothing: the one is checked while  *)
(* nothing has been allocated yet, the other while every thread is asleep.    *)
EXTENDS Heap, Kernel

SchedulerStep == Next /\ UNCHANGED heapVars
HeapStep == HeapNext /\ UNCHANGED vars

ChibiosInit == HeapInit /\ Init
ChibiosNext == (HeapInit /\ SchedulerStep) \/ (Init /\ HeapStep)
ChibiosSpec == ChibiosInit /\ [][ChibiosNext]_<<heapVars, vars>>
=============================================================================
