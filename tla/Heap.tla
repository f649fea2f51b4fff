-------------------------------- MODULE Heap --------------------------------
(***************************************************************************)
(* The heap of ChibiOS that records are allocated from: chHeapAlloc and    *)
(* chHeapFree (chheap.c) over chCoreAlloc (chmemcore.c).  Memory is        *)
(* counted in units of the alignment, which is also the size of a header.  *)
(* A walk along the free list is under the heap's mutex, one step; the     *)
(* core is asked after the mutex is given back, so that other threads may  *)
(* come in between.                                                        *)
(***************************************************************************)
EXTENDS Naturals, FiniteSets, SequencesExt

CONSTANTS
  Callers,
  Sizes,    \* what is asked for (the instrument asks for one size only)
  Endmem,   \* units of core memory
  MaxLive   \* blocks the program has at a time

Header == 1

HeapAssumption ==
  /\ IsFiniteSet(Callers) /\ Sizes \subseteq Nat \ {0}
  /\ Endmem \in Nat /\ MaxLive \in Nat
ASSUME HeapAssumption

VARIABLES
  free,     \* the free list: addresses of headers, from h_free on
  size,     \* h.size, at the addresses that hold a header
  used,     \* the blocks the program has
  nextmem,  \* the first unit the core has not given out
  asking,   \* what a thread is about to ask the core for; 0 when it is not
  asked     \* history: the sizes that were ever asked for

heapVars == <<free, size, used, nextmem, asking, asked>>

Addresses == 0 .. Endmem

HeapInit ==
  /\ free = <<>> /\ size = [a \in Addresses |-> 0] /\ used = {}
  /\ nextmem = 0 /\ asking = [t \in Callers |-> 0] /\ asked = {}

\* LIMIT: the first address after a block.
LIMIT(a) == a + Header + size[a]

----------------------------------------------------------------------------
(* chHeapAlloc.                                                            *)

\* Mutant: a block of exactly the size is passed over.
X_Fitting(s) == {i \in DOMAIN free : size[free[i]] > s}

\* First fit: the first block of the list that is large enough.  It is taken
\* whole if what is left could not be a block, else its upper part stays free.
Fitting(s) == {i \in DOMAIN free : size[free[i]] >= s}

TakeFitting(s) ==
  LET i == Min(Fitting(s))  hp == free[i]  fp == hp + Header + s
  IN  /\ IF size[hp] < s + Header
           THEN free' = RemoveAt(free, i) /\ UNCHANGED size
           ELSE /\ free' = [free EXCEPT ![i] = fp]
                /\ size' = [size EXCEPT ![hp] = s, ![fp] = size[hp] - Header - s]
      /\ used' = used \cup {hp}

Alloc(t, s) ==
  /\ asking[t] = 0
  /\ Cardinality(used) + Cardinality({u \in Callers : asking[u] # 0}) < MaxLive
  /\ asked' = asked \cup {s}
  /\ IF Fitting(s) # {}
       THEN TakeFitting(s) /\ UNCHANGED asking
       ELSE asking' = [asking EXCEPT ![t] = s] /\ UNCHANGED <<free, size, used>>
  /\ UNCHANGED nextmem

\* The provider, chCoreAlloc; without room it gives NULL, and so does chHeapAlloc.
AskCore(t) ==
  /\ asking[t] # 0 /\ asking' = [asking EXCEPT ![t] = 0]
  /\ IF Endmem - nextmem < asking[t] + Header
       THEN UNCHANGED <<size, used, nextmem>>
       ELSE /\ nextmem' = nextmem + asking[t] + Header
            /\ size' = [size EXCEPT ![nextmem] = asking[t]]
            /\ used' = used \cup {nextmem}
  /\ UNCHANGED <<free, asked>>

----------------------------------------------------------------------------
(* chHeapFree: the block goes where the list's order puts it, and is       *)
(* merged with the block after it, then with the block before it.          *)

Place(hp) ==
  CHOOSE i \in 0 .. Len(free) : /\ i = 0 \/ hp > free[i]
                                /\ i = Len(free) \/ hp < free[i + 1]

\* Mutant: the block is merged with the one before it or the one after it.
X_Free(hp) ==
  /\ hp \in used /\ used' = used \ {hp}
  /\ LET before == SubSeq(free, 1, Place(hp))
         after == SubSeq(free, Place(hp) + 1, Len(free))
         joinsNext == after # <<>> /\ LIMIT(hp) = Head(after)
         rest == IF joinsNext THEN Tail(after) ELSE after
         total == IF joinsNext THEN size[hp] + size[Head(after)] + Header ELSE size[hp]
     IN  IF before # <<>> /\ LIMIT(Last(before)) = hp /\ ~joinsNext
           THEN /\ free' = before \o rest
                /\ size' = [size EXCEPT ![Last(before)] = @ + total + Header]
           ELSE /\ free' = before \o <<hp>> \o rest
                /\ size' = [size EXCEPT ![hp] = total]
  /\ UNCHANGED <<nextmem, asking, asked>>

Free(hp) ==
  /\ hp \in used /\ used' = used \ {hp}
  /\ LET before == SubSeq(free, 1, Place(hp))
         after == SubSeq(free, Place(hp) + 1, Len(free))
         joinsNext == after # <<>> /\ LIMIT(hp) = Head(after)
         rest == IF joinsNext THEN Tail(after) ELSE after
         total == IF joinsNext THEN size[hp] + size[Head(after)] + Header ELSE size[hp]
     IN  IF before # <<>> /\ LIMIT(Last(before)) = hp
           THEN /\ free' = before \o rest
                /\ size' = [size EXCEPT ![Last(before)] = @ + total + Header]
           ELSE /\ free' = before \o <<hp>> \o rest
                /\ size' = [size EXCEPT ![hp] = total]
  /\ UNCHANGED <<nextmem, asking, asked>>

HeapNext ==
  \/ \E t \in Callers : AskCore(t) \/ \E s \in Sizes : Alloc(t, s)
  \/ \E hp \in Addresses : Free(hp)

HeapSpec == HeapInit /\ [][HeapNext]_heapVars

----------------------------------------------------------------------------
(* Properties.                                                             *)

Blocks == used \cup Range(free)
Units(a) == a .. LIMIT(a) - 1

\* The whole of what the core has given out is in blocks, each unit in one: no
\* block of the program overlaps another or a free one, and nothing is lost.
\* The free list is in the order of addresses, and no two free blocks touch.
HeapIntact ==
  /\ UNION {Units(a) : a \in Blocks} = 0 .. nextmem - 1
  /\ \A a, b \in Blocks : a # b => Units(a) \cap Units(b) = {}
  /\ used \cap Range(free) = {}
  /\ \A i \in 1 .. Len(free) - 1 : LIMIT(free[i]) < free[i + 1]

\* With one size only, as the instrument uses it, the heap never takes more from
\* the core than the blocks the program has at a time, although a block may be
\* freed between a walk that finds none and the core: the heap of Logger is a
\* number of blocks.
NoGrowth ==
  \A s \in asked : asked = {s} => nextmem <= MaxLive * (Header + s)
=============================================================================
