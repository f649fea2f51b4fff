------------------------------ MODULE LogQueue ------------------------------
(***************************************************************************)
(* What the logger promises its callers (comments of logger.c, lines 31-36 *)
(* and 64-68): a bounded queue of records.  Logging a record never waits   *)
(* for room: on overflow the oldest record makes way.  Saving moves the    *)
(* oldest record to the EEPROM and only then removes it from the queue.    *)
(* Records are numbered in the order they are logged.                      *)
(***************************************************************************)
EXTENDS Naturals, Sequences

CONSTANT Capacity      \* records it holds, at least one

VARIABLES
  queue,    \* the records that wait for the EEPROM, oldest first
  saved,    \* the records written to the EEPROM, in order
  last      \* how many records have been logged

vars == <<queue, saved, last>>

Init == queue = <<>> /\ saved = <<>> /\ last = 0

Log ==
  /\ last' = last + 1
  /\ queue' = Append(IF Len(queue) = Capacity THEN Tail(queue) ELSE queue, last')
  /\ UNCHANGED saved

Save ==
  /\ queue # <<>>
  /\ saved' = Append(saved, Head(queue))
  /\ queue' = Tail(queue)
  /\ UNCHANGED last

Next == Log \/ Save

Spec == Init /\ [][Next]_vars
=============================================================================
