---------------------------- MODULE ChibiosProofs ---------------------------
(***************************************************************************)
(* What the kernel and the heap of ChibiOS promise the program.            *)
(*                                                                         *)
(* The heap stays intact for any memory, any number of threads and blocks  *)
(* and any sizes asked for; asked for one size only, it does not grow past *)
(* what the program has at a time.                                         *)
(*                                                                         *)
(* The kernel runs the most urgent thread that is ready, a priority is     *)
(* exactly as high as the threads that wait for its owner, and mutexes do  *)
(* what Lock says, for any number of threads and mutexes.                  *)
(***************************************************************************)
EXTENDS Heap, Kernel, SequenceTheorems, FiniteSetTheorems, FunctionTheorems, TLAPS

-----------------------------------------------------------------------------
(* Least and greatest numbers.                                             *)

\* A set of indices that is not empty has a least element: of the intervals that
\* start at 0 and end in the set one is contained in all others.
LEMMA LeastExists ==
  ASSUME NEW T \in SUBSET Nat, T # {}
  PROVE  Min(T) \in T /\ \A k \in T : Min(T) =< k
<1> DEFINE F == {0 .. k : k \in T}
<1>1. F \subseteq FiniteSubsetsOf(Nat) /\ F # {}
  <2>1. \A k \in T : IsFiniteSet(0 .. k) /\ 0 .. k \in SUBSET Nat
    BY FS_Interval
  <2> QED
    BY <2>1 DEF FiniteSubsetsOf
<1>2. \E x \in F : \A y \in F : ~(<<y, x>> \in StrictSubsetOrdering(Nat))
  <2> HIDE DEF F
  <2> QED
    BY <1>1, FS_StrictSubsetOrderingWellFounded, WFMin
<1>3. PICK m \in T : \A y \in F : ~(<<y, 0 .. m>> \in StrictSubsetOrdering(Nat))
  BY <1>2
<1>4. \A k \in T : m =< k
  <2> SUFFICES ASSUME NEW k \in T, k < m PROVE FALSE
    OBVIOUS
  <2>1. 0 .. k \in SUBSET Nat /\ 0 .. m \in SUBSET Nat
    OBVIOUS
  <2>2. 0 .. k \subseteq 0 .. m /\ m \in 0 .. m /\ m \notin 0 .. k
    OBVIOUS
  <2>3. 0 .. k # 0 .. m
    BY <2>2
  <2>4. <<0 .. k, 0 .. m>> \in StrictSubsetOrdering(Nat)
    BY <2>1, <2>2, <2>3 DEF StrictSubsetOrdering
  <2> QED
    BY <1>3, <2>4
<1> QED
  BY <1>4 DEF Min

\* A set of indices up to n has a greatest element: n less the least distance.
LEMMA GreatestExists ==
  ASSUME NEW n \in Nat, NEW T \in SUBSET (0 .. n), T # {}
  PROVE  \E m \in T : \A k \in T : k =< m
<1> DEFINE D == {n - k : k \in T}
<1>1. D \in SUBSET Nat /\ D # {}
  <2>1. \A k \in T : k \in 0 .. n /\ n - k \in Nat /\ n - k \in D
    OBVIOUS
  <2>2. \A d \in D : d \in Nat
    BY <2>1
  <2> QED
    BY <2>1, <2>2
<1>2. Min(D) \in D /\ \A d \in D : Min(D) =< d
  <2> HIDE DEF D
  <2> QED
    BY <1>1, LeastExists
<1>3. PICK m \in T : Min(D) = n - m
  BY <1>2
<1>4. \A k \in T : n - m =< n - k
  BY <1>2, <1>3
<1> QED
  BY <1>4

-----------------------------------------------------------------------------
(* The free list.                                                          *)

-----------------------------------------------------------------------------
(* Sequences.                                                              *)

\* Both parts of a sequence.
LEMMA TwoParts ==
  ASSUME NEW S, NEW s \in Seq(S), NEW p \in 0 .. Len(s)
  PROVE  /\ SubSeq(s, 1, p) \in Seq(S) /\ Len(SubSeq(s, 1, p)) = p
         /\ \A k \in 1 .. p : SubSeq(s, 1, p)[k] = s[k]
         /\ SubSeq(s, p + 1, Len(s)) \in Seq(S) /\ Len(SubSeq(s, p + 1, Len(s))) = Len(s) - p
         /\ \A k \in 1 .. Len(s) - p : SubSeq(s, p + 1, Len(s))[k] = s[p + k]
<1>0. Len(s) \in Nat /\ p \in Int /\ \A k \in 1 .. Len(s) : s[k] \in S
  OBVIOUS
<1>1. (\A k \in 1 .. p : s[k] \in S) /\ (\A k \in p + 1 .. Len(s) : s[k] \in S)
  BY <1>0
<1>2. /\ SubSeq(s, 1, p) \in Seq(S)
      /\ Len(SubSeq(s, 1, p)) = IF 1 =< p THEN p - 1 + 1 ELSE 0
      /\ \A k \in 1 .. p - 1 + 1 : SubSeq(s, 1, p)[k] = s[1 + k - 1]
  BY ONLY <1>0, <1>1, SubSeqProperties
<1>3. /\ SubSeq(s, p + 1, Len(s)) \in Seq(S)
      /\ Len(SubSeq(s, p + 1, Len(s))) = IF p + 1 =< Len(s) THEN Len(s) - (p + 1) + 1 ELSE 0
      /\ \A k \in 1 .. Len(s) - (p + 1) + 1 : SubSeq(s, p + 1, Len(s))[k] = s[p + 1 + k - 1]
  BY ONLY <1>0, <1>1, SubSeqProperties, p + 1 \in Int, Len(s) \in Int
<1> QED
  BY <1>0, <1>2, <1>3

\* A sequence with one element more.
LEMMA OneMore ==
  ASSUME NEW S, NEW s \in Seq(S), NEW e \in S, NEW k \in 1 .. Len(s)
  PROVE  /\ InsertAt(s, k, e) \in Seq(S) /\ Len(InsertAt(s, k, e)) = Len(s) + 1
         /\ \A i \in 1 .. Len(s) + 1 :
              InsertAt(s, k, e)[i] = IF i < k THEN s[i] ELSE IF i = k THEN e ELSE s[i - 1]
<1> DEFINE a == SubSeq(s, 1, k - 1)  b == SubSeq(s, k, Len(s))  n == Len(s)  m == <<e>>
<1>1. n \in Nat /\ k - 1 \in 0 .. n /\ (k - 1) + 1 = k /\ n - (k - 1) = n - k + 1
  OBVIOUS
<1>2. a \in Seq(S) /\ Len(a) = k - 1 /\ \A i \in 1 .. k - 1 : a[i] = s[i]
  BY <1>1, TwoParts
<1>3. b \in Seq(S) /\ Len(b) = n - (k - 1) /\ \A i \in 1 .. n - (k - 1) : b[i] = s[(k - 1) + i]
  <2>1. SubSeq(s, (k - 1) + 1, Len(s)) = b
    BY <1>1
  <2> QED
    BY <1>1, <2>1, TwoParts
<1>4. m \in Seq(S) /\ Len(m) = 1 /\ m[1] = e
  OBVIOUS
<1>5. InsertAt(s, k, e) = a \o m \o b
  BY DEF InsertAt
<1> DEFINE c == a \o m
           d == c \o b
<1> HIDE DEF a, b, m
<1>6. /\ c \in Seq(S) /\ Len(c) = Len(a) + Len(m)
      /\ \A i \in 1 .. Len(a) + Len(m) : c[i] = IF i =< Len(a) THEN a[i] ELSE m[i - Len(a)]
  BY ONLY <1>2, <1>4, ConcatProperties
<1> HIDE DEF c
<1>7. /\ d \in Seq(S) /\ Len(d) = Len(c) + Len(b)
      /\ \A i \in 1 .. Len(c) + Len(b) : d[i] = IF i =< Len(c) THEN c[i] ELSE b[i - Len(c)]
  <2>1. c \in Seq(S) /\ b \in Seq(S)
    BY ONLY <1>3, <1>6
  <2> QED
    BY ONLY <2>1, ConcatProperties
<1>8. InsertAt(s, k, e) = d
  BY <1>5 DEF c
<1> HIDE DEF d, n
<1>9. Len(c) = k /\ Len(d) = n + 1 /\ k \in 1 .. n
  <2>1. Len(c) = k
    BY ONLY <1>1, <1>2, <1>4, <1>6, k \in 1 .. Len(s)
  <2>2. k \in 1 .. n
    BY DEF n
  <2>3. Len(d) = Len(c) + Len(b) /\ Len(b) = n - (k - 1) /\ n \in Nat
    BY ONLY <1>1, <1>3, <1>7
  <2>4. k + (n - (k - 1)) = n + 1
    BY ONLY <2>2, <2>3
  <2> QED
    BY ONLY <2>1, <2>2, <2>3, <2>4
<1>9a. Len(a) = k - 1 /\ Len(m) = 1 /\ Len(c) = k /\ Len(b) = n - (k - 1) /\ n \in Nat /\ k \in 1 .. n
  BY ONLY <1>1, <1>2, <1>3, <1>4, <1>9
<1>10. ASSUME NEW i \in 1 .. n + 1 PROVE d[i] = IF i < k THEN s[i] ELSE IF i = k THEN e ELSE s[i - 1]
  <2>1. CASE i < k
    <3>1. i \in 1 .. k - 1 /\ i =< Len(c) /\ i \in 1 .. Len(c) + Len(b) /\ i \in 1 .. Len(a) + Len(m) /\ i =< Len(a)
      BY ONLY <1>9a, <1>10, <2>1
    <3>2. d[i] = c[i] /\ c[i] = a[i] /\ a[i] = s[i]
      BY ONLY <1>2, <1>6, <1>7, <3>1
    <3> QED
      BY ONLY <2>1, <3>2
  <2>2. CASE i = k
    <3>1. i =< Len(c) /\ i \in 1 .. Len(c) + Len(b) /\ i \in 1 .. Len(a) + Len(m) /\ ~(i =< Len(a)) /\ i - Len(a) = 1
      BY ONLY <1>9a, <1>10, <2>2
    <3>2. d[i] = c[i] /\ c[i] = m[1]
      BY ONLY <1>6, <1>7, <3>1
    <3>3. ~(i < k)
      BY ONLY <2>2, <1>9
    <3> QED
      BY ONLY <1>4, <2>2, <3>2, <3>3
  <2>3. CASE i > k
    <3>1. ~(i =< Len(c)) /\ i \in 1 .. Len(c) + Len(b) /\ i - Len(c) \in 1 .. n - (k - 1) /\ (k - 1) + (i - Len(c)) = i - 1
          /\ ~(i < k) /\ i # k
      BY ONLY <1>9a, <1>10, <2>3
    <3>2. d[i] = b[i - Len(c)] /\ b[i - Len(c)] = s[i - 1]
      BY ONLY <1>3, <1>7, <3>1
    <3> QED
      BY ONLY <3>1, <3>2
  <2> QED
    BY ONLY <1>1, <1>9, <1>10, <2>1, <2>2, <2>3
<1> QED
  BY <1>7, <1>8, <1>9, <1>10 DEF n

\* A sequence with one element less.
LEMMA OneLess ==
  ASSUME NEW S, NEW s \in Seq(S), NEW k \in 1 .. Len(s)
  PROVE  /\ RemoveAt(s, k) \in Seq(S) /\ Len(RemoveAt(s, k)) = Len(s) - 1
         /\ \A i \in 1 .. Len(s) - 1 : RemoveAt(s, k)[i] = IF i < k THEN s[i] ELSE s[i + 1]
<1> DEFINE a == SubSeq(s, 1, k - 1)  b == SubSeq(s, k + 1, Len(s))  n == Len(s)
<1>1. k - 1 \in 0 .. n /\ k \in 0 .. n /\ n \in Nat /\ k \in 1 .. n
  OBVIOUS
<1>2. a \in Seq(S) /\ Len(a) = k - 1 /\ \A i \in 1 .. k - 1 : a[i] = s[i]
  BY <1>1, TwoParts
<1>3. b \in Seq(S) /\ Len(b) = n - k /\ \A i \in 1 .. n - k : b[i] = s[k + i]
  BY <1>1, TwoParts
<1> DEFINE d == a \o b
<1>4. RemoveAt(s, k) = d
  BY DEF RemoveAt
<1> HIDE DEF a, b
<1>5. /\ d \in Seq(S) /\ Len(d) = Len(a) + Len(b)
      /\ \A i \in 1 .. Len(a) + Len(b) : d[i] = IF i =< Len(a) THEN a[i] ELSE b[i - Len(a)]
  BY ONLY <1>2, <1>3, ConcatProperties
<1> HIDE DEF d, n
<1>6. ASSUME NEW i \in 1 .. n - 1 PROVE d[i] = IF i < k THEN s[i] ELSE s[i + 1]
  <2>1. CASE i < k
    <3>1. i \in 1 .. k - 1 /\ i =< Len(a) /\ i \in 1 .. Len(a) + Len(b)
      BY ONLY <1>1, <1>2, <1>3, <1>6, <2>1
    <3>2. d[i] = a[i] /\ a[i] = s[i]
      BY ONLY <1>2, <1>5, <3>1
    <3> QED
      BY ONLY <2>1, <3>2
  <2>2. CASE ~(i < k)
    <3>1. ~(i =< Len(a)) /\ i \in 1 .. Len(a) + Len(b) /\ i - Len(a) \in 1 .. n - k /\ k + (i - Len(a)) = i + 1
      BY ONLY <1>1, <1>2, <1>3, <1>6, <2>2
    <3>2. d[i] = b[i - Len(a)] /\ b[i - Len(a)] = s[i + 1]
      BY ONLY <1>3, <1>5, <3>1
    <3> QED
      BY ONLY <2>2, <3>2
  <2> QED
    BY ONLY <2>1, <2>2
<1>7. Len(d) = n - 1
  BY ONLY <1>1, <1>2, <1>3, <1>5
<1> QED
  BY <1>4, <1>5, <1>6, <1>7 DEF n

-----------------------------------------------------------------------------
(* The heap.                                                               *)

\* The first unit behind a block of B whose sizes are sz.
End(sz, a) == a + Header + sz[a]

\* The blocks of B share the units below n among them.
Parts(B, sz, n) ==
  /\ \A a \in B : a \in 0 .. n - 1 /\ sz[a] \in Nat /\ End(sz, a) =< n
  /\ \A u \in 0 .. n - 1 : \E a \in B : a =< u /\ u < End(sz, a)
  /\ \A a, b \in B : a < b => End(sz, a) =< b

\* A list of addresses, in order, between any two of which there is a gap.
Spaced(list, sz) ==
  \A i, j \in 1 .. Len(list) : i < j => End(sz, list[i]) < list[j]

HeapTyped ==
  /\ free \in Seq(Nat) /\ size \in [Addresses -> Nat]
  /\ nextmem \in 0 .. Endmem /\ asking \in [Callers -> Nat]

HeapInv ==
  /\ HeapTyped
  /\ Parts(Blocks, size, nextmem)
  /\ used \cap Range(free) = {}
  /\ Spaced(free, size)

-----------------------------------------------------------------------------
(* Blocks as a partition of the memory given out.                          *)

\* The next block comes from the core.
LEMMA PartsExtended ==
  ASSUME NEW B, NEW n \in Nat, NEW s \in Nat, NEW sz, NEW new,
         Parts(B, sz, n), \A a \in B : new[a] = sz[a], new[n] = s
  PROVE  Parts(B \cup {n}, new, n + s + Header)
<1> USE DEF Header, End
<1> DEFINE m == n + s + Header
<1>1. \A a \in B \cup {n} : a \in 0 .. m - 1 /\ new[a] \in Nat /\ End(new, a) =< m
  BY DEF Parts
<1>2. ASSUME NEW u \in 0 .. m - 1
      PROVE  \E a \in B \cup {n} : a =< u /\ u < End(new, a)
  <2>1. CASE u \in 0 .. n - 1
    BY <2>1 DEF Parts
  <2>2. CASE u >= n
    BY <2>2
  <2> QED
    BY <2>1, <2>2
<1>3. \A a, b \in B \cup {n} : a < b => End(new, a) =< b
  BY DEF Parts
<1> QED
  BY <1>1, <1>2, <1>3 DEF Parts

\* A block is cut in two.
LEMMA PartsSplit ==
  ASSUME NEW B, NEW n \in Nat, NEW s \in Nat, NEW sz, NEW new, NEW h \in B,
         Parts(B, sz, n), sz[h] >= s + Header,
         \A a \in B \ {h} : new[a] = sz[a], new[h] = s,
         new[h + Header + s] = sz[h] - Header - s
  PROVE  /\ Parts(B \cup {h + Header + s}, new, n)
         /\ h + Header + s \notin B /\ End(new, h + Header + s) = End(sz, h)
<1> USE DEF Header, End
<1> DEFINE f == h + Header + s
<1>0. h \in 0 .. n - 1 /\ sz[h] \in Nat /\ End(sz, h) =< n
  BY DEF Parts
<1>1. f \in Nat /\ h < f /\ f < End(sz, h) /\ new[f] \in Nat /\ End(new, f) = End(sz, h)
      /\ End(new, h) = f
  BY <1>0
<1>2. f \notin B
  BY <1>0, <1>1 DEF Parts
<1> HIDE DEF f
<1>3. \A a \in B \ {h} : End(new, a) = End(sz, a)
  BY DEF Parts
<1>4. \A a \in B \cup {f} : a \in 0 .. n - 1 /\ new[a] \in Nat /\ End(new, a) =< n
  <2> TAKE a \in B \cup {f}
  <2>1. CASE a = f
    BY <2>1, <1>0, <1>1
  <2>2. CASE a = h
    BY <2>2, <1>0, <1>1
  <2>3. CASE a \in B \ {h}
    BY <2>3, <1>3 DEF Parts
  <2> QED
    BY <2>1, <2>2, <2>3
<1>5. ASSUME NEW u \in 0 .. n - 1
      PROVE  \E a \in B \cup {f} : a =< u /\ u < End(new, a)
  <2>1. PICK a \in B : a =< u /\ u < End(sz, a)
    BY DEF Parts
  <2>2. CASE a # h
    BY <2>1, <2>2, <1>3
  <2>3. CASE a = h /\ u < f
    BY <2>1, <2>3, <1>1
  <2>4. CASE a = h /\ u >= f
    BY <2>1, <2>4, <1>1
  <2> QED
    BY <2>2, <2>3, <2>4, <1>1
<1>6. ASSUME NEW a \in B \cup {f}, NEW b \in B \cup {f}, a < b
      PROVE  End(new, a) =< b
  <2>0. \A x, y \in B : x < y => End(sz, x) =< y
    BY DEF Parts
  <2>00. \A x \in B : x \in Nat /\ sz[x] \in Nat
    BY DEF Parts
  <2>1. CASE a = h /\ b \in B
    <3>1. End(sz, h) =< b
      BY <2>0, <2>1, <1>6
    <3> QED
      BY <3>1, <2>1, <2>00, <1>1
  <2>2. CASE a = h /\ b = f
    BY <2>2, <1>1
  <2>3. CASE a = f /\ b \in B
    <3>1. h < b
      BY <2>3, <1>6, <1>1, <2>00
    <3>2. End(sz, h) =< b
      BY <2>0, <3>1, <2>3
    <3> QED
      BY <3>2, <2>3, <1>1
  <2>4. CASE a \in B \ {h} /\ b \in B
    BY <2>0, <2>4, <1>6, <1>3
  <2>5. CASE a \in B \ {h} /\ b = f
    <3>1. ~(h < a)
      <4>1. SUFFICES ASSUME h < a PROVE FALSE
        OBVIOUS
      <4>2. End(sz, h) =< a
        BY <2>0, <2>5, <4>1
      <4> QED
        BY <4>2, <2>5, <1>6, <1>1, <2>00
    <3>2. a < h
      BY <3>1, <2>5, <2>00, <1>0
    <3>3. End(sz, a) =< h
      BY <2>0, <3>2, <2>5
    <3>4. End(sz, a) =< f
      BY <3>3, <2>5, <2>00, <1>0, <1>1
    <3> QED
      BY <3>4, <2>5, <1>3
  <2>6. CASE a = f /\ b = f
    BY <2>6, <1>6, <1>1
  <2> QED
    BY <2>1, <2>2, <2>3, <2>4, <2>5, <2>6
<1> QED
  BY <1>1, <1>2, <1>4, <1>5, <1>6 DEF Parts, f

\* Two blocks that touch are made one.
Join(B, sz, new, h, g) ==
  /\ h \in B /\ g \in B /\ End(sz, h) = g
  /\ new[h] = sz[h] + sz[g] + Header
  /\ \A a \in B \ {h, g} : new[a] = sz[a]

\* Two neighbours made one still fill the memory with the others.
LEMMA PartsJoined ==
  ASSUME NEW B, NEW n \in Nat, NEW sz, NEW new, NEW h, NEW g,
         Parts(B, sz, n), Join(B, sz, new, h, g)
  PROVE  /\ Parts(B \ {g}, new, n)
         /\ End(new, h) = End(sz, g) /\ h < g
<1> USE DEF Header, End, Join
<1>1. /\ \A a \in B : a \in 0 .. n - 1 /\ a \in Nat /\ sz[a] \in Nat /\ End(sz, a) =< n
      /\ \A a, b \in B : a < b => End(sz, a) =< b
  BY DEF Parts
<1>2. h < g /\ End(new, h) = End(sz, g) /\ new[h] \in Nat
  BY <1>1
<1>3. \A a \in B \ {h, g} : End(new, a) = End(sz, a)
  BY <1>1
<1>4. \A a \in B \ {g} : a \in 0 .. n - 1 /\ new[a] \in Nat /\ End(new, a) =< n
  <2> TAKE a \in B \ {g}
  <2>1. CASE a = h
    BY <2>1, <1>1, <1>2
  <2>2. CASE a # h
    BY <2>2, <1>1, <1>3
  <2> QED
    BY <2>1, <2>2
<1>5. ASSUME NEW u \in 0 .. n - 1
      PROVE  \E a \in B \ {g} : a =< u /\ u < End(new, a)
  <2>1. PICK a \in B : a =< u /\ u < End(sz, a)
    BY DEF Parts
  <2>2. CASE a \notin {h, g}
    BY <2>1, <2>2, <1>3
  <2>3. CASE a = h
    BY <2>1, <2>3, <1>1, <1>2
  <2>4. CASE a = g
    BY <2>1, <2>4, <1>1, <1>2
  <2> QED
    BY <2>2, <2>3, <2>4
<1>6. ASSUME NEW a \in B \ {g}, NEW b \in B \ {g}, a < b
      PROVE  End(new, a) =< b
  <2>1. CASE a # h
    BY <2>1, <1>6, <1>1, <1>3
  <2>2. CASE a = h
    <3>1. g =< b /\ b # g
      BY <2>2, <1>6, <1>1
    <3>2. g < b
      BY <3>1, <1>1
    <3>3. End(sz, g) =< b
      BY <3>2, <1>1
    <3> QED
      BY <3>3, <2>2, <1>2
  <2> QED
    BY <2>1, <2>2
<1> QED
  BY <1>2, <1>4, <1>5, <1>6 DEF Parts

\* The list is typed and its elements are its range.
LEMMA ListFacts ==
  ASSUME NEW list \in Seq(Nat)
  PROVE  /\ Len(list) \in Nat
         /\ \A i \in 1 .. Len(list) : list[i] \in Nat /\ list[i] \in Range(list)
         /\ \A a \in Range(list) : \E i \in 1 .. Len(list) : a = list[i]
BY DEF Range

\* The place of a block that is not in the list: behind every block with a lower
\* address and before every block with a higher one.
LEMMA PlaceFacts ==
  ASSUME HeapInv, NEW hp \in used
  PROVE  /\ Place(hp) \in 0 .. Len(free)
         /\ \A i \in 1 .. Place(hp) : LIMIT(free[i]) =< hp
         /\ \A i \in Place(hp) + 1 .. Len(free) : LIMIT(hp) =< free[i]
<1> DEFINE Good(i) == /\ i = 0 \/ hp > free[i]
                      /\ i = Len(free) \/ hp < free[i + 1]
<1> DEFINE T == {i \in 0 .. Len(free) : i = 0 \/ hp > free[i]}
<1>1. /\ Len(free) \in Nat /\ \A i \in 1 .. Len(free) : free[i] \in Nat /\ free[i] # hp
      /\ \A i \in 1 .. Len(free) : free[i] \in Blocks
  BY ListFacts DEF HeapInv, HeapTyped, Blocks
<1>2. hp \in Blocks /\ hp \in Nat
  BY DEF HeapInv, Parts, Blocks
<1>3. T \in SUBSET (0 .. Len(free)) /\ 0 \in T
  BY <1>1
<1>4. PICK m \in T : \A k \in T : k =< m
  <2> HIDE DEF T
  <2> QED
    BY <1>1, <1>3, GreatestExists
<1>5. Good(m)
  <2>1. SUFFICES ASSUME m # Len(free) PROVE hp < free[m + 1]
    BY <1>4
  <2>2. m + 1 \in 0 .. Len(free) /\ m + 1 \in 1 .. Len(free)
    BY <1>1, <1>4, <2>1
  <2>3. ~(hp > free[m + 1])
    BY <1>4, <2>2
  <2> QED
    BY <1>1, <1>2, <2>2, <2>3
<1>6. Place(hp) \in 0 .. Len(free) /\ Good(Place(hp))
  BY <1>4, <1>5 DEF Place
<1> HIDE DEF T
<1>7. \A a, b \in Blocks : a < b => LIMIT(a) =< b
  BY DEF HeapInv, Parts, LIMIT, End
<1>8. \A i \in 1 .. Len(free) : size[free[i]] \in Nat /\ LIMIT(free[i]) > free[i]
  BY <1>1 DEF HeapInv, Parts, LIMIT, Header
<1>9. \A i, j \in 1 .. Len(free) : i < j => free[i] < free[j]
  BY <1>1, <1>8 DEF HeapInv, Spaced, End, LIMIT, Header
<1> DEFINE p == Place(hp)
<1>10. p \in 0 .. Len(free) /\ (p = 0 \/ hp > free[p]) /\ (p = Len(free) \/ hp < free[p + 1])
  BY <1>6
<1> HIDE DEF p, Good
<1>11. ASSUME NEW i \in 1 .. p
       PROVE  LIMIT(free[i]) =< hp
  <2>1. i \in 1 .. Len(free) /\ p \in 1 .. Len(free) /\ p # 0
    BY <1>1, <1>10
  <2>2. free[i] < hp
    <3>1. CASE i = p
      BY <3>1, <1>1, <1>2, <1>10, <2>1
    <3>2. CASE i # p
      <4>1. free[i] < free[p]
        BY <3>2, <1>9, <2>1
      <4> QED
        BY <4>1, <1>1, <1>2, <1>10, <2>1
    <3> QED
      BY <3>1, <3>2
  <2> QED
    BY <1>1, <1>2, <1>7, <2>1, <2>2
<1>12. ASSUME NEW i \in p + 1 .. Len(free)
       PROVE  LIMIT(hp) =< free[i]
  <2>1. i \in 1 .. Len(free) /\ p + 1 \in 1 .. Len(free) /\ p # Len(free)
    BY <1>1, <1>10
  <2>2. hp < free[i]
    <3>1. CASE i = p + 1
      BY <3>1, <1>1, <1>2, <1>10, <2>1
    <3>2. CASE i # p + 1
      <4>1. free[p + 1] < free[i]
        BY <3>2, <1>9, <1>10, <2>1
      <4> QED
        BY <4>1, <1>1, <1>2, <1>10, <2>1
    <3> QED
      BY <3>1, <3>2
  <2> QED
    BY <1>1, <1>2, <1>7, <2>1, <2>2
<1> QED
  BY <1>10, <1>11, <1>12 DEF p

\* The list before and behind a place.
LEMMA CutFacts ==
  ASSUME NEW list \in Seq(Nat), NEW p \in 0 .. Len(list)
  PROVE  /\ SubSeq(list, 1, p) \in Seq(Nat) /\ Len(SubSeq(list, 1, p)) = p
         /\ \A k \in 1 .. p : SubSeq(list, 1, p)[k] = list[k]
         /\ SubSeq(list, p + 1, Len(list)) \in Seq(Nat)
         /\ Len(SubSeq(list, p + 1, Len(list))) = Len(list) - p
         /\ \A k \in 1 .. Len(list) - p : SubSeq(list, p + 1, Len(list))[k] = list[p + k]
BY TwoParts

\* The list without one of its elements.
LEMMA RemoveAtFacts ==
  ASSUME NEW list \in Seq(Nat), NEW i \in 1 .. Len(list)
  PROVE  /\ RemoveAt(list, i) \in Seq(Nat) /\ Len(RemoveAt(list, i)) = Len(list) - 1
         /\ \A k \in 1 .. Len(list) - 1 :
              RemoveAt(list, i)[k] = IF k < i THEN list[k] ELSE list[k + 1]
BY OneLess

\* One element between two lists.
Between(a, e, c) == a \o <<e>> \o c

\* The elements of r are those of a, then e, then those of c.
MadeOf(r, a, e, c) ==
  /\ r \in Seq(Nat) /\ Len(r) = Len(a) + 1 + Len(c)
  /\ \A k \in 1 .. Len(a) : r[k] = a[k]
  /\ r[Len(a) + 1] = e
  /\ \A k \in 1 .. Len(c) : r[Len(a) + 1 + k] = c[k]

\* A list, an element and a list, put together.
LEMMA BetweenFacts ==
  ASSUME NEW a \in Seq(Nat), NEW e \in Nat, NEW c \in Seq(Nat)
  PROVE  MadeOf(Between(a, e, c), a, e, c)
<1> DEFINE b == <<e>>
<1>1. b \in Seq(Nat) /\ Len(b) = 1 /\ b[1] = e
  OBVIOUS
<1>2. Len(a) \in Nat /\ Len(c) \in Nat
  OBVIOUS
<1> HIDE DEF b
<1>3. /\ a \o b \in Seq(Nat) /\ Len(a \o b) = Len(a) + Len(b)
      /\ \A k \in 1 .. Len(a) + Len(b) : (a \o b)[k] = IF k =< Len(a) THEN a[k] ELSE b[k - Len(a)]
  BY <1>1, ConcatProperties
<1> DEFINE d == a \o b
<1>4. /\ d \in Seq(Nat) /\ Len(d) = Len(a) + 1 /\ \A k \in 1 .. Len(a) : d[k] = a[k]
      /\ d[Len(a) + 1] = e
  <2>1. Len(a) + 1 \in 1 .. Len(a) + Len(b) /\ ~(Len(a) + 1 =< Len(a)) /\ Len(a) + 1 - Len(a) = 1
    BY <1>1, <1>2
  <2>2. \A k \in 1 .. Len(a) : k \in 1 .. Len(a) + Len(b) /\ k =< Len(a)
    BY <1>1, <1>2
  <2> QED
    BY <1>1, <1>3, <2>1, <2>2
<1> HIDE DEF d
<1>5. /\ d \o c \in Seq(Nat) /\ Len(d \o c) = Len(d) + Len(c)
      /\ \A k \in 1 .. Len(d) + Len(c) : (d \o c)[k] = IF k =< Len(d) THEN d[k] ELSE c[k - Len(d)]
  BY <1>4, ConcatProperties
<1>6. \A k \in 1 .. Len(a) + 1 : (d \o c)[k] = d[k]
  <2>1. \A k \in 1 .. Len(a) + 1 : k \in 1 .. Len(d) + Len(c) /\ k =< Len(d)
    BY <1>2, <1>4
  <2> QED
    BY <1>5, <2>1
<1>7. \A k \in 1 .. Len(c) : (d \o c)[Len(a) + 1 + k] = c[k]
  <2>1. \A k \in 1 .. Len(c) : /\ Len(a) + 1 + k \in 1 .. Len(d) + Len(c)
                               /\ ~(Len(a) + 1 + k =< Len(d)) /\ Len(a) + 1 + k - Len(d) = k
    BY <1>2, <1>4
  <2> QED
    BY <1>5, <2>1
<1>8. \A k \in 1 .. Len(a) : k \in 1 .. Len(a) + 1
  BY <1>2
<1>9. Len(a) + 1 \in 1 .. Len(a) + 1
  BY <1>2
<1> QED
  <2>1. Between(a, e, c) = d \o c
    BY DEF Between, b, d
  <2> QED
    BY <1>2, <1>4, <1>5, <1>6, <1>7, <1>8, <1>9, <2>1 DEF MadeOf

-----------------------------------------------------------------------------
(* The free list with an element more, less or other.                      *)

\* Elements of an ordered list differ and have their place by address.
LEMMA SpacedFacts ==
  ASSUME NEW list \in Seq(Nat), NEW sz, Spaced(list, sz),
         \A i \in 1 .. Len(list) : sz[list[i]] \in Nat
  PROVE  \A i, j \in 1 .. Len(list) : /\ i < j => list[i] < list[j]
                                      /\ i # j => list[i] # list[j]
<1>1. \A i \in 1 .. Len(list) : list[i] \in Nat /\ list[i] < End(sz, list[i])
  BY DEF End, Header
<1>2. \A i, j \in 1 .. Len(list) : i < j => list[i] < list[j]
  <2> SUFFICES ASSUME NEW i \in 1 .. Len(list), NEW j \in 1 .. Len(list), i < j
               PROVE  list[i] < list[j]
    OBVIOUS
  <2>1. End(sz, list[i]) < list[j]
    BY DEF Spaced
  <2>2. sz[list[i]] \in Nat /\ End(sz, list[i]) \in Nat
    BY <1>1 DEF End, Header
  <2> QED
    BY <1>1, <2>1, <2>2
<1>3. ASSUME NEW i \in 1 .. Len(list), NEW j \in 1 .. Len(list), i # j
      PROVE  list[i] # list[j]
  <2>1. i < j \/ j < i
    BY <1>3
  <2> QED
    BY <1>1, <1>2, <2>1
<1> QED
  BY <1>2, <1>3

\* The list without one of its elements is still ordered.
LEMMA ListRemoved ==
  ASSUME NEW list \in Seq(Nat), NEW sz, NEW new, NEW i \in 1 .. Len(list),
         Spaced(list, sz), \A j \in 1 .. Len(list) : sz[list[j]] \in Nat,
         \A j \in 1 .. Len(list) : j # i => new[list[j]] = sz[list[j]]
  PROVE  /\ RemoveAt(list, i) \in Seq(Nat) /\ Spaced(RemoveAt(list, i), new)
         /\ Range(RemoveAt(list, i)) = Range(list) \ {list[i]}
<1> DEFINE r == RemoveAt(list, i)
<1> DEFINE At(k) == IF k < i THEN k ELSE k + 1
<1>1. /\ r \in Seq(Nat) /\ Len(r) = Len(list) - 1
      /\ \A k \in 1 .. Len(list) - 1 : r[k] = IF k < i THEN list[k] ELSE list[k + 1]
  BY RemoveAtFacts
<1> HIDE DEF r
<1>2. Len(list) \in Nat /\ i \in 1 .. Len(list) /\ Len(r) = Len(list) - 1
  BY <1>1
<1>3. \A k \in 1 .. Len(r) : At(k) \in 1 .. Len(list) /\ At(k) # i
  BY ONLY <1>2
<1>4. \A k \in 1 .. Len(r) : r[k] = list[At(k)]
  BY <1>1
<1>5. \A k, l \in 1 .. Len(r) : k < l => At(k) < At(l)
  BY ONLY <1>2
<1>6. \A j \in 1 .. Len(list) : j # i => \E k \in 1 .. Len(r) : At(k) = j
  <2> SUFFICES ASSUME NEW j \in 1 .. Len(list), j # i
               PROVE  \E k \in 1 .. Len(r) : At(k) = j
    OBVIOUS
  <2>1. CASE j < i
    <3>1. j \in 1 .. Len(r) /\ At(j) = j
      BY <2>1, <1>1, <1>2
    <3> QED
      BY <3>1
  <2>2. CASE j > i
    <3>1. j - 1 \in 1 .. Len(r) /\ At(j - 1) = j
      BY <2>2, <1>1, <1>2
    <3> QED
      BY <3>1
  <2> QED
    BY <2>1, <2>2
<1> HIDE DEF At
<1>7. Spaced(r, new)
  <2> SUFFICES ASSUME NEW k \in 1 .. Len(r), NEW l \in 1 .. Len(r), k < l
               PROVE  End(new, r[k]) < r[l]
    BY DEF Spaced
  <2>1. End(sz, list[At(k)]) < list[At(l)]
    BY <1>3, <1>5 DEF Spaced
  <2>2. new[list[At(k)]] = sz[list[At(k)]]
    BY <1>3
  <2> QED
    BY <1>4, <2>1, <2>2 DEF End
<1>8. Range(r) = Range(list) \ {list[i]}
  <2>1. \A j \in 1 .. Len(list) : j # i => list[j] # list[i]
    BY SpacedFacts
  <2>2. ASSUME NEW a \in Range(r) PROVE a \in Range(list) \ {list[i]}
    <3>1. PICK k \in 1 .. Len(r) : a = r[k]
      BY <1>1, ListFacts
    <3>2. At(k) \in 1 .. Len(list) /\ At(k) # i /\ a = list[At(k)]
      BY <3>1, <1>3, <1>4
    <3>3. list[At(k)] \in Range(list)
      BY <3>2, ListFacts
    <3> QED
      BY <2>1, <3>2, <3>3
  <2>3. ASSUME NEW a \in Range(list), a # list[i] PROVE a \in Range(r)
    <3>1. PICK j \in 1 .. Len(list) : a = list[j]
      BY ListFacts
    <3>2. PICK k \in 1 .. Len(r) : At(k) = j
      BY <1>6, <2>3, <3>1
    <3>3. r[k] = a
      BY <1>4, <3>1, <3>2
    <3> QED
      BY <1>1, <3>3, ListFacts
  <2> QED
    BY <2>2, <2>3
<1> QED
  BY <1>1, <1>7, <1>8 DEF r

\* One element is another.
Replaced(list, i, e) == [list EXCEPT ![i] = e]

\* e has its place by address where the i-th element is.
Fits(list, sz, new, i, e) ==
  \A j \in 1 .. Len(list) :
    /\ sz[list[j]] \in Nat
    /\ j # i => new[list[j]] = sz[list[j]]
    /\ j < i => End(sz, list[j]) < e
    /\ i < j => End(new, e) < list[j]

\* The list with another block in the place of one that fits there is still ordered.
LEMMA ListReplaced ==
  ASSUME NEW list \in Seq(Nat), NEW sz, NEW new, NEW i \in 1 .. Len(list), NEW e \in Nat,
         Spaced(list, sz), Fits(list, sz, new, i, e)
  PROVE  /\ Replaced(list, i, e) \in Seq(Nat) /\ Spaced(Replaced(list, i, e), new)
         /\ Range(Replaced(list, i, e)) = (Range(list) \ {list[i]}) \cup {e}
<1>0. /\ \A j \in 1 .. Len(list) : sz[list[j]] \in Nat
      /\ \A j \in 1 .. Len(list) : j # i => new[list[j]] = sz[list[j]]
      /\ \A j \in 1 .. Len(list) : j < i => End(sz, list[j]) < e
      /\ \A j \in 1 .. Len(list) : i < j => End(new, e) < list[j]
  BY DEF Fits
<1> DEFINE r == Replaced(list, i, e)
<1>1. /\ r \in Seq(Nat) /\ Len(r) = Len(list)
      /\ \A j \in 1 .. Len(list) : r[j] = IF j = i THEN e ELSE list[j]
  BY ExceptSeq DEF Replaced
<1> HIDE DEF r
<1>2. r[i] = e /\ \A j \in 1 .. Len(list) : j # i => r[j] = list[j]
  BY <1>1
<1>3. Spaced(r, new)
  <2> SUFFICES ASSUME NEW k \in 1 .. Len(list), NEW l \in 1 .. Len(list), k < l
               PROVE  End(new, r[k]) < r[l]
    BY <1>1 DEF Spaced
  <2>1. CASE k = i
    BY <2>1, <1>0, <1>2
  <2>2. CASE l = i
    <3>1. End(sz, list[k]) < e /\ new[list[k]] = sz[list[k]]
      BY <2>2, <1>0
    <3> QED
      BY <3>1, <2>2, <1>2 DEF End
  <2>3. CASE k # i /\ l # i
    <3>1. End(sz, list[k]) < list[l] /\ new[list[k]] = sz[list[k]]
      BY <2>3, <1>0 DEF Spaced
    <3> QED
      BY <3>1, <2>3, <1>2 DEF End
  <2> QED
    BY <2>1, <2>2, <2>3
<1>4. Range(r) = (Range(list) \ {list[i]}) \cup {e}
  <2>1. \A j \in 1 .. Len(list) : j # i => list[j] # list[i]
    BY <1>0, SpacedFacts
  <2>2. ASSUME NEW a \in Range(r) PROVE a \in (Range(list) \ {list[i]}) \cup {e}
    <3>1. PICK k \in 1 .. Len(list) : a = r[k]
      BY <1>1, ListFacts
    <3> QED
      BY <3>1, <1>2, <2>1, ListFacts
  <2>3. ASSUME NEW a \in Range(list), a # list[i] PROVE a \in Range(r)
    <3>1. PICK j \in 1 .. Len(list) : a = list[j]
      BY ListFacts
    <3>2. r[j] = a /\ j \in 1 .. Len(r)
      BY <1>1, <1>2, <2>3, <3>1
    <3> QED
      BY <1>1, <3>2, ListFacts
  <2>4. e \in Range(r)
    BY <1>1, <1>2, ListFacts
  <2> QED
    BY <2>2, <2>3, <2>4
<1> QED
  BY <1>1, <1>3, <1>4 DEF r

\* One element more.
Inserted(list, p, e) == Between(SubSeq(list, 1, p), e, SubSeq(list, p + 1, Len(list)))

\* e has its place by address behind the p-th element, and touches no other.
Apart(list, sz, p, e) ==
  /\ \A j \in 1 .. Len(list) : sz[list[j]] \in Nat
  /\ \A j \in 1 .. p : End(sz, list[j]) < e
  /\ \A j \in p + 1 .. Len(list) : End(sz, e) < list[j]

\* The list with one block more, in its place, is still ordered.
LEMMA ListInserted ==
  ASSUME NEW list \in Seq(Nat), NEW sz, NEW p \in 0 .. Len(list), NEW e \in Nat,
         Spaced(list, sz), Apart(list, sz, p, e)
  PROVE  /\ Inserted(list, p, e) \in Seq(Nat) /\ Spaced(Inserted(list, p, e), sz)
         /\ Range(Inserted(list, p, e)) = Range(list) \cup {e}
<1> DEFINE a == SubSeq(list, 1, p)  c == SubSeq(list, p + 1, Len(list))  r == Between(a, e, c)
<1>0. /\ \A j \in 1 .. p : End(sz, list[j]) < e
      /\ \A j \in p + 1 .. Len(list) : End(sz, e) < list[j]
  BY DEF Apart
<1>1. /\ a \in Seq(Nat) /\ Len(a) = p /\ \A k \in 1 .. p : a[k] = list[k]
      /\ c \in Seq(Nat) /\ Len(c) = Len(list) - p /\ \A k \in 1 .. Len(list) - p : c[k] = list[p + k]
  BY CutFacts
<1>2. Len(list) \in Nat /\ p \in Nat /\ p =< Len(list)
  OBVIOUS
<1> HIDE DEF a, c
<1>3. /\ r \in Seq(Nat) /\ Len(r) = Len(a) + 1 + Len(c)
      /\ \A k \in 1 .. Len(a) : r[k] = a[k]
      /\ r[Len(a) + 1] = e
      /\ \A k \in 1 .. Len(c) : r[Len(a) + 1 + k] = c[k]
  <2>1. a \in Seq(Nat) /\ c \in Seq(Nat) /\ e \in Nat
    BY <1>1
  <2>2. MadeOf(r, a, e, c)
    BY <2>1, BetweenFacts
  <2> HIDE DEF r
  <2> QED
    BY ONLY <2>2 DEF MadeOf
<1> HIDE DEF r
<1>4. Len(r) = Len(list) + 1 /\ r[p + 1] = e /\ \A k \in 1 .. p : r[k] = list[k]
  <2>1. Len(r) = p + 1 + (Len(list) - p)
    BY <1>1, <1>3
  <2>2. p + 1 + (Len(list) - p) = Len(list) + 1
    BY <1>2
  <2>3. r[p + 1] = e
    BY <1>1, <1>3
  <2>4. \A k \in 1 .. p : r[k] = a[k]
    BY <1>1, <1>3
  <2> QED
    BY <1>1, <2>1, <2>2, <2>3, <2>4
<1>5. ASSUME NEW j \in p + 1 .. Len(list) PROVE r[j + 1] = list[j]
  <2>1. j - p \in 1 .. Len(list) - p /\ p + (j - p) = j /\ p + 1 + (j - p) = j + 1
    BY <1>2
  <2>2. r[p + 1 + (j - p)] = c[j - p]
    BY <1>1, <1>3, <2>1
  <2> QED
    BY <1>1, <2>1, <2>2
<1> DEFINE From(k) == IF k =< p THEN k ELSE k - 1
<1>6. \A k \in 1 .. Len(r) : k # p + 1 => From(k) \in 1 .. Len(list) /\ r[k] = list[From(k)]
  <2> SUFFICES ASSUME NEW k \in 1 .. Len(r), k # p + 1
               PROVE  From(k) \in 1 .. Len(list) /\ r[k] = list[From(k)]
    OBVIOUS
  <2>1. CASE k =< p
    BY <2>1, <1>2, <1>4
  <2>2. CASE k > p
    <3>1. k - 1 \in p + 1 .. Len(list) /\ k - 1 + 1 = k /\ ~(k =< p)
      BY <2>2, <1>2, <1>4
    <3>2. r[k] = list[k - 1]
      BY <1>5, <3>1
    <3> QED
      BY <3>1, <3>2, <1>2
  <2> QED
    BY <2>1, <2>2, <1>2
<1>7. Spaced(r, sz)
  <2> SUFFICES ASSUME NEW k \in 1 .. Len(r), NEW l \in 1 .. Len(r), k < l
               PROVE  End(sz, r[k]) < r[l]
    BY DEF Spaced
  <2>1. CASE k = p + 1
    <3>1. From(l) \in p + 1 .. Len(list) /\ r[l] = list[From(l)]
      BY <2>1, <1>2, <1>4, <1>6
    <3> QED
      BY <2>1, <3>1, <1>0, <1>4
  <2>2. CASE l = p + 1
    <3>1. k \in 1 .. p
      BY <2>2, <1>2
    <3> QED
      BY <2>2, <3>1, <1>0, <1>4
  <2>3. CASE k # p + 1 /\ l # p + 1
    <3>1. From(k) < From(l)
      BY <2>3, <1>2
    <3>2. From(k) \in 1 .. Len(list) /\ From(l) \in 1 .. Len(list)
          /\ r[k] = list[From(k)] /\ r[l] = list[From(l)]
      BY <2>3, <1>6
    <3> HIDE DEF From
    <3> QED
      BY <3>1, <3>2 DEF Spaced
  <2> QED
    BY <2>1, <2>2, <2>3
<1>8. Range(r) = Range(list) \cup {e}
  <2>1. ASSUME NEW x \in Range(r) PROVE x \in Range(list) \cup {e}
    <3>1. PICK k \in 1 .. Len(r) : x = r[k]
      BY <1>3, ListFacts
    <3> HIDE DEF From
    <3> QED
      BY <3>1, <1>4, <1>6, ListFacts
  <2>2. ASSUME NEW x \in Range(list) PROVE x \in Range(r)
    <3>1. PICK j \in 1 .. Len(list) : x = list[j]
      BY ListFacts
    <3>2. CASE j =< p
      <4>1. j \in 1 .. p /\ j \in 1 .. Len(r)
        BY <3>2, <1>2, <1>4
      <4>2. r[j] = x
        BY <4>1, <3>1, <1>4
      <4> QED
        BY <1>3, <4>1, <4>2, ListFacts
    <3>3. CASE j > p
      <4>1. j \in p + 1 .. Len(list) /\ j + 1 \in 1 .. Len(r)
        BY <3>3, <1>2, <1>4
      <4>2. r[j + 1] = x
        BY <4>1, <3>1, <1>5
      <4> QED
        BY <1>3, <4>1, <4>2, ListFacts
    <3> QED
      BY <3>2, <3>3, <1>2
  <2>3. e \in Range(r)
    <3>1. p + 1 \in 1 .. Len(r)
      BY <1>2, <1>4
    <3> QED
      BY <1>3, <1>4, <3>1, ListFacts
  <2> QED
    BY <2>1, <2>2, <2>3
<1> QED
  BY <1>3, <1>7, <1>8 DEF r, a, c, Inserted

-----------------------------------------------------------------------------
(* chHeapAlloc.                                                            *)

\* The invariant holds at the start.
LEMMA InitHeapInv == HeapInit => HeapInv
<1> SUFFICES ASSUME HeapInit PROVE HeapInv
  OBVIOUS
<1>1. HeapTyped
  BY HeapAssumption DEF HeapAssumption, HeapInit, HeapTyped, Addresses
<1>2. Range(free) = {} /\ Blocks = {}
  BY DEF HeapInit, Range, Blocks
<1>3. Parts(Blocks, size, nextmem)
  BY <1>2 DEF Parts, HeapInit
<1>4. Spaced(free, size)
  BY DEF Spaced, HeapInit
<1> QED
  BY <1>1, <1>2, <1>3, <1>4 DEF HeapInv

\* What HeapInv says of the blocks of the list.
LEMMA FreeBlocksTyped ==
  ASSUME HeapInv
  PROVE  /\ free \in Seq(Nat) /\ Len(free) \in Nat /\ nextmem \in Nat
         /\ \A b \in Blocks : b \in Nat /\ size[b] \in Nat /\ LIMIT(b) =< nextmem
                              /\ b \in Addresses
         /\ \A j \in 1 .. Len(free) : free[j] \in Blocks /\ free[j] \in Range(free)
         /\ nextmem \notin Blocks
<1>1. free \in Seq(Nat) /\ Len(free) \in Nat /\ nextmem \in 0 .. Endmem
  BY DEF HeapInv, HeapTyped
<1>2. \A b \in Blocks : b \in 0 .. nextmem - 1 /\ size[b] \in Nat /\ LIMIT(b) =< nextmem
  BY DEF HeapInv, Parts, LIMIT, End
<1>3. \A j \in 1 .. Len(free) : free[j] \in Blocks /\ free[j] \in Range(free)
  BY <1>1, ListFacts DEF Blocks
<1>4. \A b \in Blocks : b \in Nat /\ b \in Addresses
  BY <1>1, <1>2, HeapAssumption DEF HeapAssumption, Addresses
<1>5. nextmem \notin Blocks
  BY <1>1, <1>2
<1> QED
  BY <1>1, <1>2, <1>3, <1>4, <1>5

\* The core gives the next units.
LEMMA AskCoreInv ==
  ASSUME HeapInv, NEW t \in Callers, AskCore(t)
  PROVE  HeapInv'
<1>1. free' = free /\ asking' = [asking EXCEPT ![t] = 0]
  BY DEF AskCore
<1>2. asking[t] \in Nat /\ asking' \in [Callers -> Nat]
  BY <1>1 DEF HeapInv, HeapTyped
<1>3. CASE Endmem - nextmem < asking[t] + Header
  <2>1. UNCHANGED <<size, used, nextmem>>
    BY <1>3 DEF AskCore
  <2> QED
    BY <1>1, <1>2, <2>1 DEF HeapInv, HeapTyped, Blocks, Parts, Spaced, End
<1>4. CASE ~(Endmem - nextmem < asking[t] + Header)
  <2>1. /\ nextmem' = nextmem + asking[t] + Header
        /\ size' = [size EXCEPT ![nextmem] = asking[t]]
        /\ used' = used \cup {nextmem}
    BY <1>4 DEF AskCore
  <2>2. nextmem' \in 0 .. Endmem /\ nextmem \in Addresses
    <3>1. nextmem \in 0 .. Endmem /\ Endmem \in Nat
      BY HeapAssumption DEF HeapAssumption, HeapInv, HeapTyped
    <3>2. nextmem' = nextmem + asking[t] + Header /\ asking[t] \in Nat
          /\ ~(Endmem - nextmem < asking[t] + Header)
      BY <1>2, <1>4, <2>1
    <3> QED
      BY ONLY <3>1, <3>2 DEF Addresses, Header
  <2>3. size' \in [Addresses -> Nat] /\ size'[nextmem] = asking[t]
        /\ \A a \in Addresses : a # nextmem => size'[a] = size[a]
    BY <1>2, <2>1, <2>2 DEF HeapInv, HeapTyped
  <2>4. \A b \in Blocks : size'[b] = size[b]
    BY <2>3, FreeBlocksTyped
  <2>5. Blocks' = Blocks \cup {nextmem}
    BY <1>1, <2>1 DEF Blocks
  <2>6. Parts(Blocks', size', nextmem')
    <3>1. nextmem \in Nat /\ Parts(Blocks, size, nextmem)
      BY FreeBlocksTyped DEF HeapInv
    <3>2. Parts(Blocks \cup {nextmem}, size', nextmem + asking[t] + Header)
      BY ONLY <1>2, <2>3, <2>4, <3>1, PartsExtended
    <3> QED
      BY <2>1, <2>5, <3>2
  <2>7. used' \cap Range(free') = {}
    BY <1>1, <2>1, FreeBlocksTyped DEF HeapInv, Blocks
  <2>8. Spaced(free', size')
    BY <1>1, <2>4, FreeBlocksTyped DEF HeapInv, Spaced, End
  <2>9. HeapTyped'
    BY <1>1, <1>2, <2>2, <2>3 DEF HeapInv, HeapTyped, Addresses
  <2> QED
    BY <2>6, <2>7, <2>8, <2>9 DEF HeapInv
<1> QED
  BY <1>3, <1>4

\* A block of the list is taken whole.
LEMMA TakenWhole ==
  ASSUME HeapInv, NEW i \in 1 .. Len(free), free' = RemoveAt(free, i),
         used' = used \cup {free[i]}, UNCHANGED <<size, nextmem>>,
         asking' \in [Callers -> Nat]
  PROVE  HeapInv'
<1>1. /\ free \in Seq(Nat) /\ Spaced(free, size)
      /\ \A j \in 1 .. Len(free) : size[free[j]] \in Nat
      /\ free[i] \in Range(free)
  BY FreeBlocksTyped DEF HeapInv
<1>2. /\ RemoveAt(free, i) \in Seq(Nat) /\ Spaced(RemoveAt(free, i), size)
      /\ Range(RemoveAt(free, i)) = Range(free) \ {free[i]}
  BY <1>1, ListRemoved
<1>3. Range(free') = Range(free) \ {free[i]} /\ Blocks' = Blocks
  BY <1>1, <1>2 DEF Blocks
<1>4. used' \cap Range(free') = {}
  BY <1>3 DEF HeapInv
<1>5. Parts(Blocks', size', nextmem')
  BY <1>3 DEF HeapInv
<1>6. HeapTyped'
  BY <1>2 DEF HeapInv, HeapTyped, Addresses
<1> QED
  BY <1>2, <1>4, <1>5, <1>6 DEF HeapInv

\* The lower part of a block of the list is taken.
LEMMA TakenPart ==
  ASSUME HeapInv, NEW i \in 1 .. Len(free), NEW s \in Nat, size[free[i]] >= s + Header,
         free' = [free EXCEPT ![i] = free[i] + Header + s],
         size' = [size EXCEPT ![free[i]] = s,
                              ![free[i] + Header + s] = size[free[i]] - Header - s],
         used' = used \cup {free[i]}, UNCHANGED nextmem,
         asking' \in [Callers -> Nat]
  PROVE  HeapInv'
<1> DEFINE hp == free[i]  fp == free[i] + Header + s
<1>1. /\ free \in Seq(Nat) /\ Spaced(free, size) /\ Parts(Blocks, size, nextmem)
      /\ \A j \in 1 .. Len(free) : size[free[j]] \in Nat /\ free[j] \in Blocks
      /\ hp \in Range(free) /\ hp \in Blocks /\ hp \in Nat /\ size[hp] \in Nat
      /\ nextmem \in Nat /\ hp \in Addresses /\ LIMIT(hp) =< nextmem
  BY FreeBlocksTyped DEF HeapInv
<1>2. fp \in Nat /\ fp \in Addresses /\ fp # hp /\ hp < fp
  <2>1. nextmem =< Endmem /\ Endmem \in Nat /\ nextmem \in Nat
    BY <1>1, HeapAssumption DEF HeapAssumption, HeapInv, HeapTyped
  <2>2. fp = hp + 1 + s /\ LIMIT(hp) = hp + 1 + size[hp] /\ size[hp] >= s + 1
    BY DEF LIMIT, Header
  <2>3. hp \in Nat /\ size[hp] \in Nat /\ LIMIT(hp) =< nextmem /\ s \in Nat
    BY <1>1
  <2> HIDE DEF hp, fp
  <2> QED
    BY ONLY <2>1, <2>2, <2>3 DEF Addresses
<1>3. /\ size' \in [Addresses -> Nat]
      /\ size'[hp] = s /\ size'[fp] = size[hp] - Header - s
      /\ \A a \in Addresses : a # hp /\ a # fp => size'[a] = size[a]
  <2>1. size[hp] - Header - s \in Nat
    BY <1>1 DEF Header
  <2> QED
    BY <1>1, <1>2, <2>1 DEF HeapInv, HeapTyped
<1> HIDE DEF hp
<1>4. fp \notin Blocks
  <2> SUFFICES ASSUME fp \in Blocks PROVE FALSE
    OBVIOUS
  <2>1. End(size, hp) =< fp
    BY <1>1, <1>2 DEF Parts
  <2>2. End(size, hp) = hp + 1 + size[hp] /\ fp = hp + 1 + s /\ size[hp] >= s + 1
    BY DEF End, Header, hp
  <2>3. hp \in Nat /\ size[hp] \in Nat /\ s \in Nat /\ fp \in Nat
    BY <1>1, <1>2, HeapAssumption DEF HeapAssumption
  <2> HIDE DEF fp
  <2> QED
    BY ONLY <2>1, <2>2, <2>3
<1>5. \A b \in Blocks \ {hp} : size'[b] = size[b]
  BY <1>3, <1>4, FreeBlocksTyped
<1>6. Parts(Blocks \cup {fp}, size', nextmem) /\ End(size', fp) = End(size, hp)
  <2>1. size'[hp + Header + s] = size[hp] - Header - s /\ size[hp] >= s + Header /\ fp = hp + Header + s
    BY <1>3 DEF hp
  <2>2. Parts(Blocks \cup {hp + Header + s}, size', nextmem)
        /\ End(size', hp + Header + s) = End(size, hp)
    <3>1. /\ nextmem \in Nat /\ s \in Nat /\ hp \in Blocks /\ Parts(Blocks, size, nextmem)
          /\ size'[hp] = s
      BY <1>1, <1>3
    <3> QED
      BY ONLY <1>5, <2>1, <3>1, PartsSplit
  <2> QED
    BY <2>1, <2>2
<1>7. /\ free' \in Seq(Nat) /\ Spaced(free', size')
      /\ Range(free') = (Range(free) \ {hp}) \cup {fp}
  <2>1. \A j \in 1 .. Len(free) : j # i => size'[free[j]] = size[free[j]]
    BY <1>1, <1>5, SpacedFacts DEF hp
  <2>2. \A j \in 1 .. Len(free) : j < i => End(size, free[j]) < fp
    <3> SUFFICES ASSUME NEW j \in 1 .. Len(free), j < i PROVE End(size, free[j]) < fp
      OBVIOUS
    <3>1. End(size, free[j]) < hp
      BY <1>1 DEF Spaced, hp
    <3>2. End(size, free[j]) \in Nat
      <4>1. free[j] \in Nat /\ size[free[j]] \in Nat
        BY <1>1, FreeBlocksTyped
      <4> QED
        BY ONLY <4>1 DEF End, Header
    <3> QED
      BY <1>1, <1>2, <3>1, <3>2
  <2>3. \A j \in 1 .. Len(free) : i < j => End(size', fp) < free[j]
    BY <1>1, <1>6 DEF Spaced, hp
  <2>4. fp \in Nat /\ free' = Replaced(free, i, fp)
    BY <1>2 DEF Replaced
  <2> HIDE DEF fp
  <2>5. /\ Replaced(free, i, fp) \in Seq(Nat) /\ Spaced(Replaced(free, i, fp), size')
        /\ Range(Replaced(free, i, fp)) = (Range(free) \ {free[i]}) \cup {fp}
    <3>1. free \in Seq(Nat) /\ Spaced(free, size) /\ i \in 1 .. Len(free) /\ fp \in Nat
      BY <1>1, <2>4
    <3>2. Fits(free, size, size', i, fp)
      BY <1>1, <2>1, <2>2, <2>3 DEF Fits
    <3> QED
      BY ONLY <3>1, <3>2, ListReplaced
  <2> QED
    BY <2>4, <2>5 DEF hp
<1>8. used' = used \cup {hp}
  BY DEF hp
<1> HIDE DEF fp
<1>9. Blocks' = Blocks \cup {fp}
  BY <1>1, <1>7, <1>8 DEF Blocks
<1>10. used' \cap Range(free') = {}
  BY <1>2, <1>4, <1>7, <1>8 DEF HeapInv, Blocks
<1>11. HeapTyped'
  BY <1>3, <1>7 DEF HeapInv, HeapTyped, Addresses
<1> QED
  BY <1>6, <1>7, <1>9, <1>10, <1>11 DEF HeapInv

\* chHeapAlloc keeps it while it walks the list.
LEMMA AllocInv ==
  ASSUME HeapInv, NEW t \in Callers, NEW s \in Sizes, Alloc(t, s)
  PROVE  HeapInv'
<1>1. s \in Nat /\ nextmem' = nextmem
  BY HeapAssumption DEF HeapAssumption, Alloc
<1>2. CASE Fitting(s) = {}
  <2>1. UNCHANGED <<free, size, used>> /\ asking' = [asking EXCEPT ![t] = s]
    BY <1>2 DEF Alloc
  <2>2. asking' \in [Callers -> Nat]
    BY <1>1, <2>1 DEF HeapInv, HeapTyped
  <2> QED
    BY <1>1, <2>1, <2>2 DEF HeapInv, HeapTyped, Blocks, Parts, Spaced, End
<1>3. CASE Fitting(s) # {}
  <2>1. TakeFitting(s) /\ asking' = asking /\ asking' \in [Callers -> Nat]
    BY <1>3 DEF Alloc, HeapInv, HeapTyped
  <2>2. DOMAIN free = 1 .. Len(free) /\ Len(free) \in Nat
    BY FreeBlocksTyped
  <2> DEFINE i == Min(Fitting(s))
  <2>3. i \in Fitting(s)
    <3>1. Fitting(s) \in SUBSET Nat
      BY <2>2 DEF Fitting
    <3> QED
      BY <1>3, <3>1, LeastExists
  <2>4. i \in 1 .. Len(free) /\ size[free[i]] >= s
    BY <2>2, <2>3 DEF Fitting
  <2>5. /\ IF size[free[i]] < s + Header
             THEN free' = RemoveAt(free, i) /\ UNCHANGED size
             ELSE /\ free' = [free EXCEPT ![i] = free[i] + Header + s]
                  /\ size' = [size EXCEPT ![free[i]] = s,
                                          ![free[i] + Header + s] = size[free[i]] - Header - s]
        /\ used' = used \cup {free[i]}
    BY <2>1 DEF TakeFitting
  <2> HIDE DEF i
  <2>6. CASE size[free[i]] < s + Header
    BY <1>1, <2>1, <2>4, <2>5, <2>6, TakenWhole
  <2>7. CASE ~(size[free[i]] < s + Header)
    <3>1. size[free[i]] >= s + Header
      BY <1>1, <2>4, <2>7, FreeBlocksTyped DEF Header
    <3> QED
      BY <1>1, <2>1, <2>4, <2>5, <2>7, <3>1, TakenPart
  <2> QED
    BY <2>6, <2>7
<1> QED
  BY <1>2, <1>3

-----------------------------------------------------------------------------
(* chHeapFree, by what the block touches.                                  *)

\* A block that is given back, and its place between the free ones.
Freed(hp, p) ==
  /\ HeapInv /\ hp \in used /\ p \in 0 .. Len(free)
  /\ \A j \in 1 .. p : End(size, free[j]) =< hp
  /\ \A j \in p + 1 .. Len(free) : End(size, hp) =< free[j]
  /\ used' = used \ {hp} /\ UNCHANGED <<nextmem, asking>>

\* What the invariant says of a block that is given back and of the free ones.
LEMMA FreedFacts ==
  ASSUME NEW hp, NEW p, Freed(hp, p)
  PROVE  /\ HeapInv /\ hp \in Blocks /\ hp \notin Range(free) /\ hp \in Nat /\ hp \in Addresses
         /\ size[hp] \in Nat /\ p \in 0 .. Len(free) /\ Len(free) \in Nat /\ free \in Seq(Nat)
         /\ Spaced(free, size) /\ Parts(Blocks, size, nextmem) /\ nextmem \in Nat
         /\ \A j \in 1 .. Len(free) : size[free[j]] \in Nat
         /\ \A j \in 1 .. Len(free) : free[j] \in Blocks /\ free[j] \in Nat /\ free[j] \in Addresses
         /\ \A j \in 1 .. Len(free) : free[j] # hp /\ free[j] \in Range(free)
         /\ \A j, k \in 1 .. Len(free) : j < k => End(size, free[j]) < free[k] /\ free[j] < free[k]
<1>1. HeapInv /\ hp \in Blocks /\ p \in 0 .. Len(free)
  BY DEF Freed, Blocks
<1>2. hp \notin Range(free)
  BY DEF Freed, HeapInv
<1>3. Spaced(free, size) /\ Parts(Blocks, size, nextmem)
  BY <1>1 DEF HeapInv
<1>4. \A j \in 1 .. Len(free) : size[free[j]] \in Nat
  BY <1>1, FreeBlocksTyped
<1>5. \A j, k \in 1 .. Len(free) : j < k => End(size, free[j]) < free[k] /\ free[j] < free[k]
  BY <1>1, <1>3, <1>4, FreeBlocksTyped, SpacedFacts DEF Spaced
<1> QED
  BY <1>1, <1>2, <1>3, <1>4, <1>5, FreeBlocksTyped

\* It touches no free block: one free block more.
LEMMA FreedAlone ==
  ASSUME NEW hp, NEW p, Freed(hp, p), size' = size,
         \A j \in 1 .. p : End(size, free[j]) < hp,
         \A j \in p + 1 .. Len(free) : End(size, hp) < free[j],
         free' = Inserted(free, p, hp)
  PROVE  HeapInv'
<1>1. free' \in Seq(Nat) /\ Spaced(free', size) /\ Range(free') = Range(free) \cup {hp}
  <2>1. free \in Seq(Nat) /\ p \in 0 .. Len(free) /\ hp \in Nat /\ Spaced(free, size)
    BY FreedFacts
  <2>2. Apart(free, size, p, hp)
    BY FreedFacts DEF Apart
  <2> QED
    BY <2>1, <2>2, ListInserted
<1>2. HeapInv /\ used' = used \ {hp} /\ hp \in used /\ UNCHANGED <<nextmem, asking, size>>
  BY DEF Freed
<1>3. Blocks' = Blocks
  BY <1>1, <1>2 DEF Blocks
<1>4. used' \cap Range(free') = {}
  BY <1>1, <1>2 DEF HeapInv
<1>5. Parts(Blocks', size', nextmem')
  BY <1>2, <1>3 DEF HeapInv
<1>6. HeapTyped'
  BY <1>1, <1>2 DEF HeapInv, HeapTyped, Addresses
<1> QED
  BY <1>1, <1>2, <1>4, <1>5, <1>6 DEF HeapInv

\* It touches the one behind it, which becomes part of it.
LEMMA FreedWithNext ==
  ASSUME NEW hp, NEW p, Freed(hp, p), p < Len(free), End(size, hp) = free[p + 1],
         \A j \in 1 .. p : End(size, free[j]) < hp,
         size' = [size EXCEPT ![hp] = size[hp] + size[free[p + 1]] + Header],
         free' = Replaced(free, p + 1, hp)
  PROVE  HeapInv'
<1> DEFINE g == free[p + 1]
<1>1. HeapInv /\ used' = used \ {hp} /\ hp \in used /\ UNCHANGED <<nextmem, asking>>
  BY DEF Freed
<1>2. p + 1 \in 1 .. Len(free) /\ p \in 0 .. Len(free) /\ Len(free) \in Nat
  BY FreedFacts
<1>3. /\ g \in Blocks /\ g \in Range(free) /\ g # hp /\ size[g] \in Nat /\ size[hp] \in Nat
      /\ hp \in Blocks /\ hp \in Addresses /\ hp \in Nat /\ hp \notin Range(free)
  BY <1>2, FreedFacts
<1>4. /\ size' \in [Addresses -> Nat] /\ size'[hp] = size[hp] + size[g] + Header
      /\ \A a \in Addresses : a # hp => size'[a] = size[a]
  BY <1>1, <1>3 DEF HeapInv, HeapTyped, Header
<1>5. \A b \in Blocks : b # hp => size'[b] = size[b]
  BY <1>1, <1>4, FreeBlocksTyped
<1>6. Parts(Blocks \ {g}, size', nextmem) /\ End(size', hp) = End(size, g)
  <2>1. nextmem \in Nat /\ Parts(Blocks, size, nextmem)
    BY FreedFacts
  <2>2. Join(Blocks, size, size', hp, g)
    BY <1>3, <1>4, <1>5 DEF Join
  <2> QED
    BY <2>1, <2>2, PartsJoined
<1>7. /\ free' \in Seq(Nat) /\ Spaced(free', size')
      /\ Range(free') = (Range(free) \ {g}) \cup {hp}
  <2>1. Fits(free, size, size', p + 1, hp)
    <3> SUFFICES ASSUME NEW j \in 1 .. Len(free)
                 PROVE  /\ size[free[j]] \in Nat
                        /\ j # p + 1 => size'[free[j]] = size[free[j]]
                        /\ j < p + 1 => End(size, free[j]) < hp
                        /\ p + 1 < j => End(size', hp) < free[j]
      BY DEF Fits
    <3>1. size[free[j]] \in Nat /\ size'[free[j]] = size[free[j]]
      BY <1>5, FreedFacts
    <3>2. ASSUME j < p + 1 PROVE End(size, free[j]) < hp
      <4>1. j \in 1 .. p
        BY <1>2, <3>2
      <4> QED
        BY <4>1
    <3>3. ASSUME p + 1 < j PROVE End(size', hp) < free[j]
      <4>1. End(size, g) < free[j]
        BY <1>2, <3>3, FreedFacts
      <4> QED
        BY <1>6, <4>1
    <3> QED
      BY <3>1, <3>2, <3>3
  <2>2. free \in Seq(Nat) /\ Spaced(free, size)
    BY FreedFacts
  <2> QED
    <3>1. PICK q \in 1 .. Len(free) : q = p + 1
      BY <1>2
    <3>2. /\ Fits(free, size, size', q, hp) /\ hp \in Nat
          /\ g = free[q] /\ free' = Replaced(free, q, hp)
      BY <1>3, <2>1, <3>1
    <3> HIDE DEF g
    <3> QED
      BY ONLY <2>2, <3>2, ListReplaced
<1> HIDE DEF g
<1>8. Blocks' = Blocks \ {g}
  BY <1>1, <1>3, <1>7 DEF Blocks, HeapInv
<1>9. used' \cap Range(free') = {}
  BY <1>1, <1>7 DEF HeapInv
<1>10. HeapTyped'
  BY <1>1, <1>4, <1>7 DEF HeapInv, HeapTyped, Addresses
<1> QED
  BY <1>1, <1>6, <1>7, <1>8, <1>9, <1>10 DEF HeapInv

\* It touches the one before it, and becomes part of that.
LEMMA FreedWithBefore ==
  ASSUME NEW hp, NEW p, Freed(hp, p), p > 0, End(size, free[p]) = hp,
         \A j \in p + 1 .. Len(free) : End(size, hp) < free[j],
         size' = [size EXCEPT ![free[p]] = size[free[p]] + size[hp] + Header],
         free' = free
  PROVE  HeapInv'
<1> DEFINE h == free[p]
<1>1. HeapInv /\ used' = used \ {hp} /\ hp \in used /\ UNCHANGED <<nextmem, asking>>
  BY DEF Freed
<1>2. p \in 1 .. Len(free) /\ p \in 0 .. Len(free) /\ Len(free) \in Nat
  BY FreedFacts
<1>3. /\ h \in Blocks /\ h \in Range(free) /\ h # hp /\ size[h] \in Nat /\ size[hp] \in Nat
      /\ hp \in Blocks /\ h \in Addresses /\ hp \notin Range(free)
  BY <1>2, FreedFacts
<1>4. /\ size' \in [Addresses -> Nat] /\ size'[h] = size[h] + size[hp] + Header
      /\ \A a \in Addresses : a # h => size'[a] = size[a]
  BY <1>1, <1>3 DEF HeapInv, HeapTyped, Header
<1>5. \A b \in Blocks : b # h => size'[b] = size[b]
  BY <1>1, <1>4, FreeBlocksTyped
<1>6. Parts(Blocks \ {hp}, size', nextmem) /\ End(size', h) = End(size, hp)
  <2>1. nextmem \in Nat /\ Parts(Blocks, size, nextmem)
    BY FreedFacts
  <2>2. Join(Blocks, size, size', h, hp)
    BY <1>3, <1>4, <1>5 DEF Join
  <2> QED
    BY <2>1, <2>2, PartsJoined
<1>7. Spaced(free, size')
  <2> SUFFICES ASSUME NEW j \in 1 .. Len(free), NEW k \in 1 .. Len(free), j < k
               PROVE  End(size', free[j]) < free[k]
    BY DEF Spaced
  <2>1. CASE j = p
    <3>1. k \in p + 1 .. Len(free)
      BY <2>1, <1>2
    <3>2. End(size, hp) < free[k]
      BY <3>1
    <3> QED
      BY <1>6, <2>1, <3>2
  <2>2. CASE j # p
    <3>1. free[j] # h
      BY <2>2, <1>2, FreedFacts, SpacedFacts
    <3>2. size'[free[j]] = size[free[j]] /\ End(size, free[j]) < free[k]
      BY <3>1, <1>5, FreedFacts
    <3> QED
      BY <3>2 DEF End
  <2> QED
    BY <2>1, <2>2
<1> HIDE DEF h
<1>8. Blocks' = Blocks \ {hp}
  BY <1>1, <1>3 DEF Blocks
<1>9. used' \cap Range(free') = {}
  BY <1>1 DEF HeapInv
<1>10. HeapTyped'
  BY <1>1, <1>4 DEF HeapInv, HeapTyped, Addresses
<1> QED
  BY <1>1, <1>6, <1>7, <1>8, <1>9, <1>10 DEF HeapInv

\* It fills the gap between two: the three are one.
LEMMA FreedWithBoth ==
  ASSUME NEW hp, NEW p, Freed(hp, p), p > 0, p < Len(free), End(size, free[p]) = hp,
         End(size, hp) = free[p + 1],
         size' = [size EXCEPT ![free[p]] = size[free[p]]
                              + (size[hp] + size[free[p + 1]] + Header) + Header],
         free' = RemoveAt(free, p + 1)
  PROVE  HeapInv'
<1> DEFINE h == free[p]  g == free[p + 1]
<1>1. HeapInv /\ used' = used \ {hp} /\ hp \in used /\ UNCHANGED <<nextmem, asking>>
  BY DEF Freed
<1>2. p \in 1 .. Len(free) /\ p + 1 \in 1 .. Len(free) /\ Len(free) \in Nat
  BY FreedFacts
<1>3. /\ h \in Blocks /\ h \in Range(free) /\ h # hp /\ size[h] \in Nat /\ size[hp] \in Nat
      /\ g \in Blocks /\ g \in Range(free) /\ g # hp /\ size[g] \in Nat
      /\ hp \in Blocks /\ h \in Addresses /\ hp \in Addresses /\ hp \notin Range(free)
  BY <1>2, FreedFacts
<1>3a. h # g
  BY <1>2, FreedFacts, SpacedFacts
<1>4. /\ size' \in [Addresses -> Nat] /\ size'[h] = size[h] + (size[hp] + size[g] + Header) + Header
      /\ \A a \in Addresses : a # h => size'[a] = size[a]
  <2>1. size \in [Addresses -> Nat]
    BY <1>1 DEF HeapInv, HeapTyped
  <2>2. size[h] + (size[hp] + size[g] + Header) + Header \in Nat
    <3>1. size[h] \in Nat /\ size[hp] \in Nat /\ size[g] \in Nat
      BY ONLY <1>3
    <3> QED
      BY ONLY <3>1 DEF Header
  <2> QED
    BY <1>3, <2>1, <2>2
<1>5. \A b \in Blocks : b # h => size'[b] = size[b]
  BY <1>1, <1>4, FreeBlocksTyped
<1> DEFINE mid == [size EXCEPT ![hp] = size[hp] + size[g] + Header]
<1>6. /\ mid[hp] = size[hp] + size[g] + Header
      /\ \A b \in Blocks : b # hp => mid[b] = size[b]
  BY <1>1, <1>3, FreeBlocksTyped DEF HeapInv, HeapTyped
<1> HIDE DEF mid
<1>7. Parts(Blocks \ {g}, mid, nextmem) /\ End(mid, hp) = End(size, g)
  <2>1. nextmem \in Nat /\ Parts(Blocks, size, nextmem)
    BY FreedFacts
  <2>2. Join(Blocks, size, mid, hp, g)
    BY <1>3, <1>6 DEF Join
  <2> QED
    BY <2>1, <2>2, PartsJoined
<1>8. Parts((Blocks \ {g}) \ {hp}, size', nextmem) /\ End(size', h) = End(size, g)
  <2>1. h \in Blocks \ {g} /\ hp \in Blocks \ {g} /\ nextmem \in Nat
    BY <1>3, <1>3a, FreedFacts
  <2>2. mid[h] = size[h] /\ End(mid, h) = hp
    BY <1>3, <1>6 DEF End
  <2>3. size'[h] = mid[h] + mid[hp] + Header
    BY <1>4, <1>6, <2>2
  <2>4. \A b \in (Blocks \ {g}) \ {h, hp} : size'[b] = mid[b]
    BY <1>5, <1>6
  <2> HIDE DEF h, g
  <2>5. Join(Blocks \ {g}, mid, size', h, hp)
    BY <2>1, <2>2, <2>3, <2>4 DEF Join
  <2>6. Parts((Blocks \ {g}) \ {hp}, size', nextmem) /\ End(size', h) = End(mid, hp)
    BY <1>7, <2>1, <2>5, PartsJoined
  <2> QED
    BY <1>7, <2>6
<1>9. \A j, k \in 1 .. Len(free) : j < k => free[j] < free[k]
  BY FreedFacts
<1>10. /\ free' \in Seq(Nat) /\ Spaced(free', size)
       /\ Range(free') = Range(free) \ {g}
  <2>1. /\ free \in Seq(Nat) /\ Spaced(free, size)
        /\ \A j \in 1 .. Len(free) : size[free[j]] \in Nat
    BY FreedFacts
  <2> QED
    BY <1>2, <2>1, ListRemoved
<1>11. Spaced(free', size')
  <2>1. Len(free') = Len(free) - 1
        /\ \A k \in 1 .. Len(free) - 1 : free'[k] = IF k < p + 1 THEN free[k] ELSE free[k + 1]
    <3>1. free \in Seq(Nat) /\ p + 1 \in 1 .. Len(free)
      BY <1>2, FreedFacts
    <3> QED
      BY <3>1, RemoveAtFacts
  <2> SUFFICES ASSUME NEW j \in 1 .. Len(free'), NEW k \in 1 .. Len(free'), j < k
               PROVE  End(size', free'[j]) < free'[k]
    BY DEF Spaced
  <2>2. CASE j = p
    <3>1. k + 1 \in 1 .. Len(free) /\ k \in 1 .. Len(free) - 1 /\ p \in 1 .. Len(free) - 1
          /\ ~(k < p + 1) /\ p < p + 1 /\ p + 1 < k + 1
      BY <2>1, <2>2, <1>2
    <3>2. free'[k] = free[k + 1] /\ free'[j] = h
      BY <2>1, <2>2, <3>1
    <3>3. End(size, g) < free[k + 1]
      BY <1>2, <3>1, FreedFacts
    <3> QED
      BY <1>8, <3>2, <3>3
  <2>3. CASE j # p
    <3>1. free'[j] # h
      <4>1. CASE j < p + 1
        <5>0. j \in 1 .. Len(free) - 1
          BY ONLY <2>1, j \in 1 .. Len(free')
        <5>1. free'[j] = free[j] /\ j \in 1 .. Len(free)
          BY ONLY <2>1, <4>1, <1>2, <5>0
        <5> QED
          BY <5>1, <2>3, <1>2, FreedFacts, SpacedFacts
      <4>2. CASE ~(j < p + 1)
        <5>0. j \in 1 .. Len(free) - 1
          BY ONLY <2>1, j \in 1 .. Len(free')
        <5>1. free'[j] = free[j + 1] /\ j + 1 \in 1 .. Len(free) /\ j + 1 # p
          BY ONLY <2>1, <4>2, <1>2, <5>0
        <5> QED
          BY <5>1, <1>2, FreedFacts, SpacedFacts
      <4> QED
        BY <4>1, <4>2
    <3>2. free'[j] \in Range(free')
      BY <1>10, ListFacts
    <3>3. free'[j] \in Blocks
      BY <1>10, <3>2 DEF Blocks
    <3>4. size'[free'[j]] = size[free'[j]]
      BY <1>5, <3>1, <3>3
    <3>5. End(size, free'[j]) < free'[k]
      BY <1>10 DEF Spaced
    <3> QED
      BY <3>4, <3>5 DEF End
  <2> QED
    BY <2>2, <2>3
<1> HIDE DEF h, g
<1>12. Blocks' = (Blocks \ {g}) \ {hp}
  BY <1>1, <1>3, <1>10 DEF Blocks, HeapInv
<1>13. used' \cap Range(free') = {}
  BY <1>1, <1>10 DEF HeapInv
<1>14. HeapTyped'
  BY <1>1, <1>4, <1>10 DEF HeapInv, HeapTyped, Addresses
<1> QED
  BY <1>1, <1>8, <1>11, <1>12, <1>13, <1>14 DEF HeapInv

\* chHeapFree keeps it, whichever neighbours it joins.
LEMMA FreeInv ==
  ASSUME HeapInv, NEW hp, Free(hp)
  PROVE  HeapInv'
<1> DEFINE p == Place(hp)
           before == SubSeq(free, 1, p)
           after == SubSeq(free, p + 1, Len(free))
           joinsNext == after # <<>> /\ LIMIT(hp) = Head(after)
           joinsBefore == before # <<>> /\ LIMIT(Last(before)) = hp
           total == IF joinsNext THEN size[hp] + size[Head(after)] + Header ELSE size[hp]
           rest == IF joinsNext THEN Tail(after) ELSE after
<1>1. hp \in used /\ used' = used \ {hp} /\ UNCHANGED <<nextmem, asking>>
  BY DEF Free
<1>2. IF joinsBefore
        THEN /\ free' = before \o rest
             /\ size' = [size EXCEPT ![Last(before)] = @ + total + Header]
        ELSE /\ free' = before \o <<hp>> \o rest
             /\ size' = [size EXCEPT ![hp] = total]
  BY DEF Free
<1>3. Freed(hp, p)
  BY <1>1, PlaceFacts DEF Freed, LIMIT, End
<1> HIDE DEF p
<1>5. p \in 0 .. Len(free) /\ Len(free) \in Nat /\ free \in Seq(Nat)
  <2>1. free \in Seq(Nat) /\ p \in 0 .. Len(free)
    BY ONLY <1>3, FreedFacts, HeapInv
  <2> QED
    BY ONLY <2>1
<1>4. /\ before \in Seq(Nat) /\ Len(before) = p /\ \A k \in 1 .. p : before[k] = free[k]
      /\ after \in Seq(Nat) /\ Len(after) = Len(free) - p
      /\ \A k \in 1 .. Len(free) - p : after[k] = free[p + k]
  BY ONLY <1>5, CutFacts
<1>6. p < Len(free) =>
        /\ after # <<>> /\ Head(after) = free[p + 1] /\ p + 1 \in 1 .. Len(free)
        /\ Tail(after) = SubSeq(free, p + 2, Len(free))
  <2> SUFFICES ASSUME p < Len(free)
               PROVE  /\ after # <<>> /\ Head(after) = free[p + 1] /\ p + 1 \in 1 .. Len(free)
                      /\ Tail(after) = SubSeq(free, p + 2, Len(free))
    OBVIOUS
  <2>1. p + 1 \in 1 .. Len(free) /\ Len(free) \in p + 1 .. Len(free) /\ (p + 1) + 1 = p + 2
    BY <1>5
  <2>2. Head(after) = free[p + 1] /\ Tail(after) = SubSeq(free, (p + 1) + 1, Len(free))
    BY <1>5, <2>1, HeadTailOfSubSeq
  <2>3. Len(after) # 0
    BY <1>4, <1>5
  <2> HIDE DEF after
  <2>4. after # <<>>
    BY ONLY <2>3
  <2> QED
    BY <2>1, <2>2, <2>4
<1>7. p = Len(free) => after = <<>>
  BY <1>4, <1>5, EmptySeq
<1>8. p > 0 => before # <<>> /\ Last(before) = free[p] /\ p \in 1 .. Len(free)
  <2> SUFFICES ASSUME p > 0
               PROVE  before # <<>> /\ Last(before) = free[p] /\ p \in 1 .. Len(free)
    OBVIOUS
  <2>1. Len(before) # 0 /\ p \in 1 .. p /\ p \in 1 .. Len(free)
    BY <1>4, <1>5
  <2>2. before # <<>>
    BY <2>1
  <2> QED
    BY <1>4, <2>1, <2>2 DEF Last
<1>9. p = 0 => before = <<>>
  BY <1>4, <1>5, EmptySeq
<1> HIDE DEF before, after
<1>10. joinsNext <=> p < Len(free) /\ End(size, hp) = free[p + 1]
  BY <1>5, <1>6, <1>7 DEF LIMIT, End
<1>11. joinsBefore <=> p > 0 /\ End(size, free[p]) = hp
  BY <1>5, <1>8, <1>9 DEF LIMIT, End
\* What it does not join it does not touch.
<1>12. ~joinsBefore => \A j \in 1 .. p : End(size, free[j]) < hp
  <2> SUFFICES ASSUME ~joinsBefore, NEW j \in 1 .. p PROVE End(size, free[j]) < hp
    OBVIOUS
  <2>1. End(size, free[j]) =< hp /\ j \in 1 .. Len(free) /\ p \in 1 .. Len(free) /\ p > 0
    BY <1>3, <1>5 DEF Freed
  <2>2. End(size, free[j]) \in Nat /\ hp \in Nat /\ free[p] \in Nat /\ End(size, free[p]) =< hp
        /\ End(size, free[p]) \in Nat /\ free[p] < End(size, free[p])
    <3>1. /\ free[j] \in Nat /\ size[free[j]] \in Nat /\ free[p] \in Nat /\ size[free[p]] \in Nat
          /\ hp \in Nat
      BY <1>3, <2>1, FreedFacts
    <3>2. End(size, free[p]) =< hp
      BY <1>3, <1>5 DEF Freed
    <3> QED
      BY ONLY <3>1, <3>2 DEF End, Header
  <2>3. CASE j = p
    BY <1>11, <2>1, <2>2, <2>3
  <2>4. CASE j # p
    <3>1. j < p
      BY <1>5, <2>4
    <3>2. End(size, free[j]) < free[p]
      BY <1>3, <2>1, <3>1, FreedFacts
    <3> QED
      BY <2>2, <3>2
  <2> QED
    BY <2>3, <2>4
<1>13. ~joinsNext => \A j \in p + 1 .. Len(free) : End(size, hp) < free[j]
  <2> SUFFICES ASSUME ~joinsNext, NEW j \in p + 1 .. Len(free) PROVE End(size, hp) < free[j]
    OBVIOUS
  <2>1. p < Len(free) /\ j \in 1 .. Len(free) /\ p + 1 \in 1 .. Len(free) /\ p + 1 \in p + 1 .. Len(free)
    BY <1>5
  <2>2. End(size, hp) =< free[p + 1] /\ End(size, hp) # free[p + 1]
    BY <1>3, <1>10, <2>1 DEF Freed
  <2>3. hp \in Nat /\ size[hp] \in Nat /\ free[p + 1] \in Nat /\ free[j] \in Nat
    BY <1>3, <2>1, FreedFacts
  <2>4. End(size, hp) \in Nat
    BY <2>3 DEF End, Header
  <2>5. CASE j = p + 1
    BY <2>2, <2>3, <2>4, <2>5
  <2>6. CASE j # p + 1
    <3>1. p + 1 < j
      BY <1>5, <2>6
    <3>2. free[p + 1] < free[j]
      BY <1>3, <2>1, <3>1, FreedFacts
    <3> QED
      BY <2>2, <2>3, <2>4, <3>2
  <2> QED
    BY <2>5, <2>6
<1> HIDE DEF joinsNext, joinsBefore
<1>14. CASE ~joinsNext /\ ~joinsBefore
  <2>1. size' = size
    BY <1>2, <1>3, <1>14, FreedFacts DEF HeapInv, HeapTyped
  <2>2. free' = Inserted(free, p, hp)
    BY <1>2, <1>14 DEF Inserted, Between, before, after
  <2> QED
    BY <1>3, <1>12, <1>13, <1>14, <2>1, <2>2, FreedAlone
<1>15. CASE joinsNext /\ ~joinsBefore
  <2>1. size' = [size EXCEPT ![hp] = size[hp] + size[free[p + 1]] + Header]
    BY <1>2, <1>6, <1>10, <1>15
  <2>2. free' = Replaced(free, p + 1, hp)
    <3> DEFINE c == SubSeq(free, p + 2, Len(free))
    <3>1. free' = Between(before, hp, c)
      BY <1>2, <1>6, <1>10, <1>15 DEF Between
    <3>2. p + 1 \in 0 .. Len(free) /\ p + 1 \in 1 .. Len(free) /\ (p + 1) + 1 = p + 2
          /\ p < Len(free)
      BY <1>5, <1>10, <1>15
    <3>3. /\ c \in Seq(Nat) /\ Len(c) = Len(free) - (p + 1)
          /\ \A k \in 1 .. Len(free) - (p + 1) : c[k] = free[(p + 1) + k]
      <4>1. PICK q \in 1 .. Len(free) : q = p + 1
        BY <3>2
      <4>2. c = SubSeq(free, q + 1, Len(free)) /\ free \in Seq(Nat) /\ q \in 0 .. Len(free)
        BY <1>5, <3>2, <4>1
      <4>3. /\ c \in Seq(Nat) /\ Len(c) = Len(free) - q
            /\ \A k \in 1 .. Len(free) - q : c[k] = free[q + k]
        <5> HIDE DEF c
        <5> QED
          BY ONLY <4>2, CutFacts
      <4> QED
        BY <4>1, <4>3
    <3>4. hp \in Nat
      BY <1>3, FreedFacts
    <3> HIDE DEF c
    <3>4a. before \in Seq(Nat) /\ c \in Seq(Nat) /\ hp \in Nat
      BY ONLY <1>4, <3>3, <3>4
    <3>5. /\ free' \in Seq(Nat) /\ Len(free') = Len(before) + 1 + Len(c)
          /\ \A k \in 1 .. Len(before) : free'[k] = before[k]
          /\ free'[Len(before) + 1] = hp
          /\ \A k \in 1 .. Len(c) : free'[Len(before) + 1 + k] = c[k]
      <4>1. MadeOf(Between(before, hp, c), before, hp, c)
        BY ONLY <3>4a, BetweenFacts
      <4>2. MadeOf(free', before, hp, c)
        BY <3>1, <4>1
      <4> QED
        BY ONLY <4>2 DEF MadeOf
    <3>6. /\ Replaced(free, p + 1, hp) \in Seq(Nat) /\ Len(Replaced(free, p + 1, hp)) = Len(free)
          /\ \A k \in 1 .. Len(free) :
               Replaced(free, p + 1, hp)[k] = IF k = p + 1 THEN hp ELSE free[k]
      BY <1>5, <3>2, <3>4, ExceptSeq DEF Replaced
    <3>7. Len(free') = Len(free)
      BY <1>4, <1>5, <3>2, <3>3, <3>5
    <3>8. \A k \in 1 .. Len(free) : free'[k] = Replaced(free, p + 1, hp)[k]
      <4> SUFFICES ASSUME NEW k \in 1 .. Len(free)
                   PROVE  free'[k] = Replaced(free, p + 1, hp)[k]
        OBVIOUS
      <4>1. CASE k < p + 1
        <5>1. k \in 1 .. p /\ k # p + 1
          BY <1>5, <4>1
        <5> QED
          BY <1>4, <3>5, <3>6, <5>1
      <4>2. CASE k = p + 1
        BY <1>4, <3>2, <3>5, <3>6, <4>2
      <4>3. CASE k > p + 1
        <5>1. k - (p + 1) \in 1 .. Len(free) - (p + 1) /\ (p + 1) + (k - (p + 1)) = k /\ k # p + 1
          BY <1>5, <4>3
        <5>2. free'[p + 1 + (k - (p + 1))] = c[k - (p + 1)]
          BY <1>4, <3>3, <3>5, <5>1
        <5> QED
          BY <3>3, <3>6, <5>1, <5>2
      <4> QED
        BY <1>5, <4>1, <4>2, <4>3
    <3> QED
      BY ONLY <3>5, <3>6, <3>7, <3>8, SeqEqual
  <2> QED
    BY <1>3, <1>10, <1>12, <1>15, <2>1, <2>2, FreedWithNext
<1>16. CASE ~joinsNext /\ joinsBefore
  <2>1. size' = [size EXCEPT ![free[p]] = size[free[p]] + size[hp] + Header]
    BY <1>2, <1>8, <1>11, <1>16
  <2>2. free' = free
    <3>1. free' = before \o after
      BY <1>2, <1>16
    <3>2. /\ before \o after \in Seq(Nat) /\ Len(before \o after) = Len(before) + Len(after)
          /\ \A k \in 1 .. Len(before) + Len(after) :
               (before \o after)[k] = IF k =< Len(before) THEN before[k] ELSE after[k - Len(before)]
      BY <1>4, ConcatProperties
    <3>3. Len(free') = Len(free) /\ free' \in Seq(Nat)
      BY <1>4, <1>5, <3>1, <3>2
    <3>4. \A k \in 1 .. Len(free) : free'[k] = free[k]
      <4> SUFFICES ASSUME NEW k \in 1 .. Len(free) PROVE free'[k] = free[k]
        OBVIOUS
      <4>0. k \in 1 .. Len(before) + Len(after)
        BY <1>4, <1>5
      <4>1. CASE k =< p
        <5>1. k \in 1 .. p
          BY <1>5, <4>1
        <5> QED
          BY <1>4, <3>1, <3>2, <4>0, <4>1, <5>1
      <4>2. CASE ~(k =< p)
        <5>1. k - p \in 1 .. Len(free) - p /\ p + (k - p) = k
          BY <1>5, <4>2
        <5>2. free'[k] = after[k - p]
          BY <1>4, <3>1, <3>2, <4>0, <4>2
        <5> QED
          BY <1>4, <5>1, <5>2
      <4> QED
        BY <4>1, <4>2
    <3> QED
      BY <1>5, <3>3, <3>4, SeqEqual
  <2> QED
    BY <1>3, <1>11, <1>13, <1>16, <2>1, <2>2, FreedWithBefore
<1>17. CASE joinsNext /\ joinsBefore
  <2>1. size' = [size EXCEPT ![free[p]] = size[free[p]]
                             + (size[hp] + size[free[p + 1]] + Header) + Header]
    BY <1>2, <1>6, <1>8, <1>10, <1>11, <1>17
  <2>2. free' = RemoveAt(free, p + 1)
    <3>1. (p + 1) - 1 = p /\ (p + 1) + 1 = p + 2
      BY <1>5
    <3>2. free' = before \o SubSeq(free, p + 2, Len(free))
      BY <1>2, <1>6, <1>10, <1>17
    <3> QED
      BY <3>1, <3>2 DEF RemoveAt, before
  <2> QED
    BY <1>3, <1>10, <1>11, <1>17, <2>1, <2>2, FreedWithBoth
<1> QED
  BY <1>14, <1>15, <1>16, <1>17

\* Every step keeps it.
LEMMA NextHeapInv == HeapInv /\ [HeapNext]_heapVars => HeapInv'
<1> SUFFICES ASSUME HeapInv, [HeapNext]_heapVars PROVE HeapInv'
  OBVIOUS
<1>1. ASSUME NEW t \in Callers, AskCore(t) PROVE HeapInv'
  BY <1>1, AskCoreInv
<1>2. ASSUME NEW t \in Callers, NEW s \in Sizes, Alloc(t, s) PROVE HeapInv'
  BY <1>2, AllocInv
<1>3. ASSUME NEW hp \in Addresses, Free(hp) PROVE HeapInv'
  BY <1>3, FreeInv
<1>4. CASE UNCHANGED heapVars
  BY <1>4 DEF heapVars, HeapInv, HeapTyped, Blocks, Parts, Spaced, End
<1> QED
  BY <1>1, <1>2, <1>3, <1>4 DEF HeapNext

\* The invariant says that the heap is intact.
LEMMA IntactHeap == HeapInv => HeapIntact
<1> SUFFICES ASSUME HeapInv PROVE HeapIntact
  OBVIOUS
<1>1. /\ Len(free) \in Nat /\ nextmem \in Nat
      /\ \A b \in Blocks : b \in Nat /\ size[b] \in Nat /\ LIMIT(b) \in Nat /\ LIMIT(b) =< nextmem
  BY FreeBlocksTyped DEF LIMIT, Header
<1>2. \A u \in 0 .. nextmem - 1 : \E a \in Blocks : a =< u /\ u < LIMIT(a)
  BY DEF HeapInv, Parts, LIMIT, End
<1>3. \A a, b \in Blocks : a < b => LIMIT(a) =< b
  BY DEF HeapInv, Parts, LIMIT, End
<1>4. UNION {Units(a) : a \in Blocks} = 0 .. nextmem - 1
  <2>1. ASSUME NEW a \in Blocks, NEW u \in Units(a) PROVE u \in 0 .. nextmem - 1
    BY <1>1 DEF Units
  <2>2. ASSUME NEW u \in 0 .. nextmem - 1 PROVE \E a \in Blocks : u \in Units(a)
    <3>1. PICK a \in Blocks : a =< u /\ u < LIMIT(a)
      BY <1>2
    <3> QED
      BY <1>1, <3>1 DEF Units
  <2> QED
    BY <2>1, <2>2
<1>5. ASSUME NEW a \in Blocks, NEW b \in Blocks, a # b
      PROVE  Units(a) \cap Units(b) = {}
  <2>1. a < b \/ b < a
    BY <1>1, <1>5
  <2>2. LIMIT(a) =< b \/ LIMIT(b) =< a
    BY <1>3, <2>1
  <2> QED
    BY <1>1, <2>2 DEF Units
<1>6. ASSUME NEW j \in 1 .. Len(free) - 1 PROVE LIMIT(free[j]) < free[j + 1]
  <2>1. j \in 1 .. Len(free) /\ j + 1 \in 1 .. Len(free) /\ j < j + 1
    BY <1>1
  <2> QED
    BY <2>1 DEF HeapInv, Spaced, LIMIT, End
<1> QED
  BY <1>4, <1>5, <1>6 DEF HeapIntact, HeapInv

-----------------------------------------------------------------------------
\* However blocks of whatever sizes are taken, cut, given back and merged, each
\* unit of memory given out is in exactly one block, and the free list stays in
\* order with no two free blocks that touch (chheap.c, chHeapAlloc and chHeapFree).
THEOREM HeapStaysIntact == HeapSpec => []HeapIntact
BY InitHeapInv, NextHeapInv, IntactHeap, PTL DEF HeapSpec

-----------------------------------------------------------------------------
(* One size only: places at equal distances.                               *)

\* The addresses at which a block may begin when all blocks are of one size.
Row(s) == {k * (s + Header) : k \in Nat}

Waiting == {u \in Callers : asking[u] # 0}

\* The heap while only one size has been asked for: it is cut at the same places all
\* over, and what the core has still to give to threads that ask is counted already.
Grid(s) ==
  /\ nextmem \in Row(s) /\ Blocks \subseteq Row(s)
  /\ \A a \in used : size[a] = s
  /\ \A t \in Callers : asking[t] \in {0, s}
  /\ nextmem + Cardinality(Waiting) * (s + Header) =< MaxLive * (s + Header)

Grids == asked \subseteq Sizes /\ \A s \in Sizes : asked \subseteq {s} => Grid(s)

\* Multiples.
LEMMA MultipleFacts ==
  ASSUME NEW j \in Nat, NEW k \in Nat, NEW n \in Nat
  PROVE  /\ j * n \in Nat /\ (j + 1) * n = j * n + n /\ (j + k) * n = j * n + k * n
         /\ j =< k => j * n =< k * n
<1>1. \A a, b \in Nat : a * n \in Nat /\ (a + b) * n = a * n + b * n
  OBVIOUS
<1>2. ASSUME j =< k PROVE j * n =< k * n
  <2>1. PICK d \in Nat : k = j + d
    <3>1. k - j \in Nat /\ k = j + (k - j)
      BY <1>2
    <3> QED
      BY <3>1
  <2>2. k * n = j * n + d * n /\ j * n \in Nat /\ d * n \in Nat
    BY <1>1, <2>1
  <2> QED
    BY ONLY <2>2
<1>3. (j + 1) * n = j * n + 1 * n /\ 1 * n = n
  BY <1>1
<1> QED
  BY <1>1, <1>2, <1>3

\* The places of blocks: the next one is a block further, and there is none between.
LEMMA RowFacts ==
  ASSUME NEW s \in Nat, NEW a \in Row(s)
  PROVE  /\ a \in Nat /\ a + s + Header \in Row(s)
         /\ \A b \in Row(s) : a =< b /\ b < a + s + Header => a = b
<1> DEFINE n == s + Header
<1>1. n \in Nat /\ n > 0 /\ a + s + Header = a + n
  <2>1. PICK k \in Nat : a = k * (s + Header)
    BY DEF Row
  <2> QED
    BY <2>1 DEF Header
<1>2. Row(s) = {k * n : k \in Nat}
  BY DEF Row
<1> HIDE DEF n
<1>3. PICK k \in Nat : a = k * n
  BY <1>2
<1>4. a \in Nat /\ (k + 1) * n = a + n /\ k + 1 \in Nat
  BY <1>1, <1>3, MultipleFacts
<1>5. a + n \in Row(s)
  BY <1>2, <1>4
<1>6. ASSUME NEW b \in Row(s), a =< b, b < a + n PROVE a = b
  <2>1. PICK m \in Nat : b = m * n
    BY <1>2
  <2>2. m * n \in Nat /\ k * n \in Nat
    BY <1>1, MultipleFacts
  <2>3. CASE m < k
    <3>1. m + 1 =< k /\ m + 1 \in Nat
      BY <2>3
    <3>2. (m + 1) * n =< k * n /\ (m + 1) * n = m * n + n
      BY <1>1, <3>1, MultipleFacts
    <3> QED
      BY <1>1, <1>3, <1>6, <2>1, <2>2, <3>2
  <2>4. CASE k < m
    <3>1. k + 1 =< m /\ k + 1 \in Nat
      BY <2>4
    <3>2. (k + 1) * n =< m * n
      BY <1>1, <3>1, MultipleFacts
    <3> QED
      BY <1>1, <1>4, <1>6, <2>1, <2>2, <3>2
  <2> QED
    BY <1>3, <2>1, <2>3, <2>4
<1> QED
  BY <1>1, <1>4, <1>5, <1>6

\* Blocks of one size that fill the memory up to n are n over their size.
LEMMA RowCounted ==
  ASSUME NEW s \in Nat, NEW n \in Row(s)
  PROVE  /\ IsFiniteSet({a \in Row(s) : a < n})
         /\ Cardinality({a \in Row(s) : a < n}) \in Nat
         /\ Cardinality({a \in Row(s) : a < n}) * (s + Header) = n
<1> DEFINE u == s + Header
           B == {a \in Row(s) : a < n}
<1>1. u \in Nat /\ u > 0
  BY DEF Header
<1>2. Row(s) = {k * u : k \in Nat}
  BY DEF Row
<1> HIDE DEF u
<1>3. PICK c \in Nat : n = c * u
  BY <1>2
<1> DEFINE f == [i \in 0 .. c - 1 |-> i * u]
<1>4. \A i, j \in Nat : i < j => i * u < j * u /\ i * u \in Nat /\ j * u \in Nat
  <2> SUFFICES ASSUME NEW i \in Nat, NEW j \in Nat, i < j
               PROVE  i * u < j * u /\ i * u \in Nat /\ j * u \in Nat
    OBVIOUS
  <2>1. i + 1 =< j /\ i + 1 \in Nat
    OBVIOUS
  <2>2. (i + 1) * u =< j * u /\ (i + 1) * u = i * u + u /\ i * u \in Nat /\ j * u \in Nat
    BY <1>1, <2>1, MultipleFacts
  <2> QED
    BY <1>1, <2>2
<1>5. \A i \in 0 .. c - 1 : f[i] \in B
  BY <1>2, <1>3, <1>4
<1>6. \A i, j \in 0 .. c - 1 : f[i] = f[j] => i = j
  <2> SUFFICES ASSUME NEW i \in 0 .. c - 1, NEW j \in 0 .. c - 1, f[i] = f[j], i # j
               PROVE  FALSE
    OBVIOUS
  <2>1. i * u = j * u /\ i \in Nat /\ j \in Nat /\ (i < j \/ j < i)
    OBVIOUS
  <2> QED
    BY <1>4, <2>1
<1>7. \A a \in B : \E i \in 0 .. c - 1 : f[i] = a
  <2> SUFFICES ASSUME NEW a \in B PROVE \E i \in 0 .. c - 1 : f[i] = a
    OBVIOUS
  <2>1. PICK i \in Nat : a = i * u
    BY <1>2
  <2>2. i * u < c * u
    BY <1>3, <2>1
  <2>3. i < c
    <3> SUFFICES ASSUME c =< i PROVE FALSE
      OBVIOUS
    <3>1. c * u =< i * u /\ c * u \in Nat /\ i * u \in Nat
      BY <1>1, MultipleFacts
    <3> QED
      BY <2>2, <3>1
  <2>4. i \in 0 .. c - 1
    BY <2>3
  <2> QED
    BY <2>1, <2>4
<1>8. f \in Bijection(0 .. c - 1, B)
  BY <1>5, <1>6, <1>7, Fun_IsBij
<1>9. IsFiniteSet(0 .. c - 1) /\ Cardinality(0 .. c - 1) = c
  BY FS_Interval
<1>10. IsFiniteSet(B) /\ Cardinality(B) = c
  BY <1>8, <1>9, FS_Bijection DEF ExistsBijection
<1> QED
  BY <1>3, <1>10 DEF u

\* The tail of a list.
LEMMA TailFacts ==
  ASSUME NEW list \in Seq(Nat), list # <<>>
  PROVE  /\ Tail(list) \in Seq(Nat) /\ Len(Tail(list)) = Len(list) - 1
         /\ \A k \in 1 .. Len(list) - 1 : Tail(list)[k] = list[k + 1]
BY HeadTailProperties

\* What is in one of two lists.
LEMMA RangeConcat ==
  ASSUME NEW a \in Seq(Nat), NEW b \in Seq(Nat)
  PROVE  a \o b \in Seq(Nat) /\ Range(a \o b) \subseteq Range(a) \cup Range(b)
<1>1. /\ a \o b \in Seq(Nat) /\ Len(a \o b) = Len(a) + Len(b)
      /\ \A k \in 1 .. Len(a) + Len(b) : (a \o b)[k] = IF k =< Len(a) THEN a[k] ELSE b[k - Len(a)]
  BY ConcatProperties
<1> DEFINE c == a \o b
<1>2. c \in Seq(Nat) /\ Len(c) = Len(a) + Len(b) /\ Len(a) \in Nat /\ Len(b) \in Nat
      /\ \A k \in 1 .. Len(a) + Len(b) : c[k] = IF k =< Len(a) THEN a[k] ELSE b[k - Len(a)]
  BY <1>1
<1> HIDE DEF c
<1>3. ASSUME NEW e \in Range(c) PROVE e \in Range(a) \cup Range(b)
  <2>1. PICK k \in 1 .. Len(c) : e = c[k]
    BY <1>2, ListFacts
  <2>2. CASE k =< Len(a)
    <3>1. e = a[k] /\ k \in 1 .. Len(a)
      BY <1>2, <2>1, <2>2
    <3> QED
      BY <3>1, ListFacts
  <2>3. CASE ~(k =< Len(a))
    <3>1. e = b[k - Len(a)] /\ k - Len(a) \in 1 .. Len(b)
      BY <1>2, <2>1, <2>3
    <3> QED
      BY <3>1, ListFacts
  <2> QED
    BY <2>2, <2>3
<1> QED
  BY <1>2, <1>3 DEF c

\* What is in a piece of a list.
LEMMA RangeOfPiece ==
  ASSUME NEW a \in Seq(Nat), NEW b \in Seq(Nat), NEW d \in Nat,
         \A k \in 1 .. Len(a) : d + k \in 1 .. Len(b) /\ a[k] = b[d + k]
  PROVE  Range(a) \subseteq Range(b)
<1> SUFFICES ASSUME NEW e \in Range(a) PROVE e \in Range(b)
  OBVIOUS
<1>1. PICK k \in 1 .. Len(a) : e = a[k]
  BY ListFacts
<1>2. d + k \in 1 .. Len(b) /\ e = b[d + k]
  BY <1>1
<1> QED
  BY <1>2, ListFacts

\* Every block ends where the next one begins, or with the memory given out.
LEMMA EndsInRow ==
  ASSUME HeapInv, NEW s \in Nat, Grid(s), NEW a \in Blocks
  PROVE  /\ LIMIT(a) \in Row(s) /\ a \in Row(s) /\ a < LIMIT(a)
         /\ a + s + Header =< LIMIT(a) /\ a \in Nat /\ LIMIT(a) \in Nat /\ size[a] >= s
<1>1. a \in Nat /\ size[a] \in Nat /\ nextmem \in Nat /\ LIMIT(a) =< nextmem
  BY FreeBlocksTyped
<1>2. LIMIT(a) \in Nat /\ a < LIMIT(a) /\ LIMIT(a) = End(size, a)
  BY <1>1 DEF LIMIT, End, Header
<1>3. nextmem \in Row(s) /\ Blocks \subseteq Row(s)
  BY DEF Grid
<1>4. LIMIT(a) \in Row(s)
  <2>1. CASE LIMIT(a) = nextmem
    BY <1>3, <2>1
  <2>2. CASE LIMIT(a) < nextmem
    <3>1. PICK b \in Blocks : b =< LIMIT(a) /\ LIMIT(a) < End(size, b)
      BY <1>1, <1>2, <2>2 DEF HeapInv, Parts
    <3>2. b \in Nat /\ size[b] \in Nat
      BY FreeBlocksTyped
    <3>3. End(size, b) \in Nat
      BY <3>2 DEF End, Header
    <3>4. ~(b < a)
      <4> SUFFICES ASSUME b < a PROVE FALSE
        OBVIOUS
      <4>1. End(size, b) =< a
        BY DEF HeapInv, Parts
      <4> QED
        BY <1>1, <1>2, <3>1, <3>3, <4>1
    <3>5. a # b
      BY <1>2, <3>1
    <3>6. LIMIT(a) =< b
      BY <1>1, <1>2, <3>2, <3>4, <3>5 DEF HeapInv, Parts
    <3>7. LIMIT(a) = b
      BY <1>2, <3>1, <3>2, <3>6
    <3> QED
      BY <1>3, <3>7
  <2> QED
    BY <1>1, <1>2, <2>1, <2>2
<1>5. a \in Row(s)
  BY <1>3
<1>6. ~(LIMIT(a) < a + s + Header)
  BY <1>1, <1>2, <1>4, <1>5, RowFacts
<1>7. a + s + Header =< LIMIT(a) /\ size[a] >= s
  BY <1>1, <1>2, <1>6 DEF LIMIT, Header
<1> QED
  BY <1>1, <1>2, <1>4, <1>5, <1>7

\* The threads that ask are counted.
LEMMA WaitingFinite ==
  IsFiniteSet(Waiting) /\ Cardinality(Waiting) \in Nat
<1>1. Waiting \in SUBSET Callers /\ IsFiniteSet(Callers)
  BY HeapAssumption DEF HeapAssumption, Waiting
<1>2. IsFiniteSet(Waiting)
  BY <1>1, FS_Subset
<1> QED
  BY <1>2, FS_CardinalityType

\* A heap without a free block of that one size has no free block at all.
LEMMA AllInUse ==
  ASSUME HeapInv, NEW s \in Nat, Grid(s), Fitting(s) = {}
  PROVE  Cardinality(used) \in Nat /\ Cardinality(used) * (s + Header) = nextmem
<1>1. \A a \in Range(free) : FALSE
  <2> SUFFICES ASSUME NEW a \in Range(free) PROVE FALSE
    OBVIOUS
  <2>1. PICK j \in DOMAIN free : a = free[j]
    BY DEF Range
  <2>2. size[a] >= s
    BY EndsInRow DEF Blocks
  <2>3. j \in Fitting(s)
    BY <2>1, <2>2 DEF Fitting
  <2> QED
    BY <2>3
<1>2. Blocks = used
  BY <1>1 DEF Blocks
<1>3. nextmem \in Row(s) /\ nextmem \in Nat
  BY FreeBlocksTyped DEF Grid
<1>4. used = {a \in Row(s) : a < nextmem}
  <2>1. ASSUME NEW a \in used PROVE a \in Row(s) /\ a < nextmem
    <3>1. a \in Row(s) /\ a \in Nat /\ a < LIMIT(a) /\ LIMIT(a) \in Nat /\ LIMIT(a) =< nextmem
      BY <1>2, EndsInRow, FreeBlocksTyped
    <3> QED
      BY ONLY <1>3, <3>1
  <2>2. ASSUME NEW u \in Row(s), u < nextmem PROVE u \in used
    <3>1. u \in Nat
      BY RowFacts
    <3>2. PICK a \in Blocks : a =< u /\ u < End(size, a)
      BY <1>3, <2>2, <3>1 DEF HeapInv, Parts
    <3>3. a \in Row(s) /\ size[a] = s
      BY <1>2 DEF Grid
    <3>4. u < a + s + Header
      BY <3>1, <3>2, <3>3, RowFacts DEF End, Header
    <3>5. a = u
      BY <2>2, <3>2, <3>3, <3>4, RowFacts
    <3> QED
      BY <1>2, <3>5
  <2> QED
    BY <2>1, <2>2
<1> QED
  BY <1>3, <1>4, RowCounted

\* At the start nothing has been asked for.
LEMMA InitGrids == HeapInit => Grids
<1>0. HeapInit => asked \subseteq Sizes
  BY DEF HeapInit
<1> SUFFICES ASSUME HeapInit, NEW s \in Sizes PROVE Grid(s)
  BY <1>0 DEF Grids
<1>1. Blocks = {} /\ nextmem = 0 /\ Waiting = {} /\ used = {} /\ asked = {}
      /\ \A t \in Callers : asking[t] = 0
  BY DEF HeapInit, Blocks, Range, Waiting
<1>2. s \in Nat /\ MaxLive \in Nat /\ s + Header \in Nat
  BY HeapAssumption DEF HeapAssumption, Header
<1>3. 0 \in Row(s)
  <2>1. 0 * (s + Header) = 0
    BY <1>2
  <2> QED
    BY <2>1 DEF Row
<1>4. Cardinality(Waiting) = 0
  BY <1>1, FS_EmptySet
<1>5. 0 * (s + Header) = 0 /\ MaxLive * (s + Header) \in Nat
  BY <1>2, MultipleFacts
<1>6. nextmem + Cardinality(Waiting) * (s + Header) =< MaxLive * (s + Header)
  <2> DEFINE m == MaxLive * (s + Header)
             z == 0 * (s + Header)
  <2>1. m \in Nat /\ z = 0
    BY <1>5
  <2>2. nextmem = 0 /\ Cardinality(Waiting) * (s + Header) = z
    BY <1>1, <1>4
  <2> HIDE DEF m, z
  <2>3. nextmem + Cardinality(Waiting) * (s + Header) =< m
    BY ONLY <2>1, <2>2
  <2> QED
    BY <2>3 DEF m
<1> QED
  BY <1>1, <1>3, <1>6 DEF Grid

\* chHeapFree: the places stay, fewer blocks begin there.
LEMMA FreeGrid ==
  ASSUME HeapInv, NEW s \in Nat, Grid(s), NEW hp, Free(hp)
  PROVE  Grid(s)'
<1> DEFINE p == Place(hp)
           before == SubSeq(free, 1, p)
           after == SubSeq(free, p + 1, Len(free))
           joinsNext == after # <<>> /\ LIMIT(hp) = Head(after)
           joinsBefore == before # <<>> /\ LIMIT(Last(before)) = hp
           total == IF joinsNext THEN size[hp] + size[Head(after)] + Header ELSE size[hp]
           rest == IF joinsNext THEN Tail(after) ELSE after
<1>1. hp \in used /\ used' = used \ {hp} /\ UNCHANGED <<nextmem, asking>>
  BY DEF Free
<1>2. IF joinsBefore
        THEN /\ free' = before \o rest
             /\ size' = [size EXCEPT ![Last(before)] = @ + total + Header]
        ELSE /\ free' = before \o <<hp>> \o rest
             /\ size' = [size EXCEPT ![hp] = total]
  BY DEF Free
<1>3. p \in 0 .. Len(free) /\ free \in Seq(Nat) /\ Len(free) \in Nat
  BY <1>1, PlaceFacts, FreeBlocksTyped
<1> HIDE DEF p
<1>4. /\ before \in Seq(Nat) /\ Len(before) = p /\ \A k \in 1 .. p : before[k] = free[k]
      /\ after \in Seq(Nat) /\ Len(after) = Len(free) - p
      /\ \A k \in 1 .. Len(free) - p : after[k] = free[p + k]
  BY ONLY <1>3, CutFacts
<1>5. Range(before) \subseteq Range(free) /\ Range(after) \subseteq Range(free)
  <2>1. \A k \in 1 .. Len(before) : 0 + k \in 1 .. Len(free) /\ before[k] = free[0 + k]
    <3> SUFFICES ASSUME NEW k \in 1 .. Len(before)
                 PROVE  0 + k \in 1 .. Len(free) /\ before[k] = free[0 + k]
      OBVIOUS
    <3>1. 0 + k = k /\ k \in 1 .. p /\ k \in 1 .. Len(free)
      BY <1>3, <1>4
    <3> QED
      BY <1>4, <3>1
  <2>2. \A k \in 1 .. Len(after) : p + k \in 1 .. Len(free) /\ after[k] = free[p + k]
    BY <1>3, <1>4
  <2>3. 0 \in Nat /\ p \in Nat /\ before \in Seq(Nat) /\ after \in Seq(Nat) /\ free \in Seq(Nat)
    BY <1>3, <1>4
  <2> HIDE DEF before, after
  <2> QED
    BY ONLY <2>1, <2>2, <2>3, RangeOfPiece
<1> HIDE DEF before, after
<1>6. rest \in Seq(Nat) /\ Range(rest) \subseteq Range(after)
  <2>1. CASE joinsNext
    <3>1. /\ Tail(after) \in Seq(Nat) /\ Len(Tail(after)) = Len(after) - 1
          /\ \A k \in 1 .. Len(after) - 1 : Tail(after)[k] = after[k + 1]
      BY <1>4, <2>1, TailFacts
    <3>2. \A k \in 1 .. Len(Tail(after)) : 1 + k \in 1 .. Len(after) /\ Tail(after)[k] = after[1 + k]
      <4> SUFFICES ASSUME NEW k \in 1 .. Len(Tail(after))
                   PROVE  1 + k \in 1 .. Len(after) /\ Tail(after)[k] = after[1 + k]
        OBVIOUS
      <4>1. 1 + k = k + 1 /\ k \in 1 .. Len(after) - 1 /\ 1 + k \in 1 .. Len(after)
        BY <1>4, <3>1
      <4> QED
        BY <3>1, <4>1
    <3>3. Range(Tail(after)) \subseteq Range(after)
      <4> DEFINE t == Tail(after)
      <4>1. /\ t \in Seq(Nat) /\ after \in Seq(Nat) /\ 1 \in Nat
            /\ \A k \in 1 .. Len(t) : 1 + k \in 1 .. Len(after) /\ t[k] = after[1 + k]
        BY <1>4, <3>1, <3>2
      <4> HIDE DEF t
      <4>2. Range(t) \subseteq Range(after)
        BY ONLY <4>1, RangeOfPiece
      <4> QED
        BY <4>2 DEF t
    <3> QED
      BY <2>1, <3>1, <3>3
  <2> QED
    BY <1>4, <2>1
<1>7. before # <<>> => Last(before) \in Range(before)
  <2> SUFFICES ASSUME before # <<>> PROVE Last(before) \in Range(before)
    OBVIOUS
  <2>1. Len(before) \in 1 .. Len(before)
    BY <1>4
  <2> QED
    BY <1>4, <2>1, ListFacts DEF Last
<1> HIDE DEF rest, total
<1>8. Range(free') \subseteq Range(free) \cup {hp}
  <2>1. CASE joinsBefore
    <3>1. Range(before \o rest) \subseteq Range(before) \cup Range(rest)
      BY <1>4, <1>6, RangeConcat
    <3> QED
      BY <1>2, <1>5, <1>6, <2>1, <3>1
  <2>2. CASE ~joinsBefore
    <3>1. hp \in Nat
      BY <1>1, FreeBlocksTyped DEF Blocks
    <3>2. <<hp>> \in Seq(Nat) /\ Range(<<hp>>) = {hp}
      BY <3>1 DEF Range
    <3>3. before \o <<hp>> \in Seq(Nat) /\ Range(before \o <<hp>>) \subseteq Range(before) \cup {hp}
      BY <1>4, <3>2, RangeConcat
    <3>4. Range((before \o <<hp>>) \o rest) \subseteq Range(before \o <<hp>>) \cup Range(rest)
      BY <1>6, <3>3, RangeConcat
    <3> QED
      BY <1>2, <1>5, <1>6, <2>2, <3>3, <3>4
  <2> QED
    BY <2>1, <2>2
<1>9. Blocks' \subseteq Blocks
  BY <1>1, <1>8 DEF Blocks
<1>10. \A a \in used' : size'[a] = size[a]
  <2>1. \A a \in used' : a # hp /\ a \notin Range(free) /\ a \in used
    BY <1>1 DEF HeapInv
  <2>2. before # <<>> => Last(before) \in Range(free)
    BY <1>5, <1>7
  <2>3. size \in [Addresses -> Nat] /\ \A a \in used : a \in Addresses
    BY FreeBlocksTyped DEF HeapInv, HeapTyped, Blocks
  <2>4. CASE joinsBefore
    <3>1. size' = [size EXCEPT ![Last(before)] = size[Last(before)] + total + Header]
          /\ Last(before) \in Range(free)
      BY <1>2, <2>2, <2>4
    <3> QED
      BY <2>1, <2>3, <3>1
  <2>5. CASE ~joinsBefore
    <3>1. size' = [size EXCEPT ![hp] = total]
      BY <1>2, <2>5
    <3> QED
      BY <2>1, <2>3, <3>1
  <2> QED
    BY <2>4, <2>5
<1> QED
  BY <1>1, <1>9, <1>10 DEF Grid, Waiting

\* One size's blocks with a header take one size more.
LEMMA RoomForOneMore ==
  ASSUME NEW s \in Nat, NEW c \in Nat, NEW w \in Nat, c + w < MaxLive
  PROVE  c * (s + Header) + (w + 1) * (s + Header) =< MaxLive * (s + Header)
<1> DEFINE u == s + Header
<1>1. u \in Nat /\ MaxLive \in Nat /\ c + (w + 1) =< MaxLive /\ w + 1 \in Nat /\ c + (w + 1) \in Nat
  BY HeapAssumption DEF HeapAssumption, Header
<1> HIDE DEF u
<1>2. (c + (w + 1)) * u = c * u + (w + 1) * u /\ (c + (w + 1)) * u =< MaxLive * u
  BY ONLY <1>1, MultipleFacts
<1> QED
  BY <1>2 DEF u

\* chHeapAlloc, walking the list: the block taken is of the one size, and what is
\* left of a larger one begins at the next place.
LEMMA AllocGrid ==
  ASSUME HeapInv, NEW t \in Callers, NEW s \in Sizes, Grid(s), Alloc(t, s)
  PROVE  Grid(s)'
<1>1. s \in Nat /\ s # 0 /\ nextmem' = nextmem /\ asking[t] = 0
  BY HeapAssumption DEF HeapAssumption, Alloc
<1>2. CASE Fitting(s) = {}
  <2>1. UNCHANGED <<free, size, used>> /\ asking' = [asking EXCEPT ![t] = s]
    BY <1>2 DEF Alloc
  <2>2. Cardinality(used) \in Nat /\ Cardinality(used) * (s + Header) = nextmem
    BY <1>1, <1>2, AllInUse
  <2>3. Waiting' = Waiting \cup {t} /\ t \notin Waiting
    BY <1>1, <2>1 DEF Waiting, HeapInv, HeapTyped
  <2>4. Cardinality(Waiting') = Cardinality(Waiting) + 1 /\ Cardinality(Waiting) \in Nat
    BY <2>3, WaitingFinite, FS_AddElement
  <2>5. Cardinality(used) + Cardinality(Waiting) < MaxLive
    BY DEF Alloc, Waiting
  <2>6. nextmem' + Cardinality(Waiting') * (s + Header) =< MaxLive * (s + Header)
    <3> DEFINE c == Cardinality(used)  w == Cardinality(Waiting)
    <3>1. /\ c \in Nat /\ w \in Nat /\ c + w < MaxLive /\ s \in Nat
          /\ nextmem' = c * (s + Header) /\ Cardinality(Waiting') = w + 1
      BY <1>1, <2>2, <2>4, <2>5
    <3> HIDE DEF c, w
    <3>2. c * (s + Header) + (w + 1) * (s + Header) =< MaxLive * (s + Header)
      BY ONLY <3>1, RoomForOneMore
    <3> QED
      BY ONLY <3>1, <3>2
  <2>7. \A u \in Callers : asking'[u] \in {0, s}
    BY <2>1 DEF Grid, HeapInv, HeapTyped
  <2>8. Blocks' = Blocks
    BY <2>1 DEF Blocks
  <2> QED
    BY <1>1, <2>1, <2>6, <2>7, <2>8 DEF Grid
<1>3. CASE Fitting(s) # {}
  <2>1. TakeFitting(s) /\ asking' = asking
    BY <1>3 DEF Alloc
  <2>2. DOMAIN free = 1 .. Len(free) /\ Len(free) \in Nat
    BY FreeBlocksTyped
  <2> DEFINE i == Min(Fitting(s))
  <2>3. i \in Fitting(s)
    <3>1. Fitting(s) \in SUBSET Nat
      BY <2>2 DEF Fitting
    <3> QED
      BY <1>3, <3>1, LeastExists
  <2>4. i \in 1 .. Len(free) /\ size[free[i]] >= s
    BY <2>2, <2>3 DEF Fitting
  <2>5. /\ IF size[free[i]] < s + Header
             THEN free' = RemoveAt(free, i) /\ UNCHANGED size
             ELSE /\ free' = [free EXCEPT ![i] = free[i] + Header + s]
                  /\ size' = [size EXCEPT ![free[i]] = s,
                                          ![free[i] + Header + s] = size[free[i]] - Header - s]
        /\ used' = used \cup {free[i]}
    BY <2>1 DEF TakeFitting
  <2> HIDE DEF i
  <2> DEFINE hp == free[i]  fp == hp + s + Header
  <2>6. /\ hp \in Blocks /\ hp \in Range(free) /\ hp \notin used
        /\ hp \in Addresses /\ hp \in Nat /\ size[hp] \in Nat
    BY <2>4, FreeBlocksTyped DEF HeapInv
  <2>7. hp \in Row(s) /\ LIMIT(hp) \in Row(s) /\ fp \in Row(s) /\ fp =< LIMIT(hp)
    BY <1>1, <2>6, EndsInRow, RowFacts
  <2>8. Waiting' = Waiting
    BY <2>1 DEF Waiting
  <2>9. CASE size[hp] < s + Header
    <3>1. free' = RemoveAt(free, i) /\ size' = size /\ used' = used \cup {hp}
      BY <2>5, <2>9
    <3>2. size[hp] = s
      BY <1>1, <2>4, <2>6, <2>9 DEF Header
    <3>3. Range(free') \subseteq Range(free)
      <4>1. free \in Seq(Nat) /\ Spaced(free, size)
            /\ \A j \in 1 .. Len(free) : size[free[j]] \in Nat
        BY FreeBlocksTyped DEF HeapInv
      <4> QED
        BY <2>4, <3>1, <4>1, ListRemoved
    <3>4. Blocks' \subseteq Blocks
      BY <2>6, <3>1, <3>3 DEF Blocks
    <3>5. \A a \in used' : size'[a] = s
      BY <3>1, <3>2 DEF Grid
    <3> QED
      BY <1>1, <2>1, <2>8, <3>4, <3>5 DEF Grid
  <2>10. CASE ~(size[hp] < s + Header)
    <3>1. /\ free' = [free EXCEPT ![i] = hp + Header + s] /\ used' = used \cup {hp}
          /\ size' = [size EXCEPT ![hp] = s, ![hp + Header + s] = size[hp] - Header - s]
      BY <2>5, <2>10
    <3>2. hp + Header + s = fp /\ hp # fp
      BY <1>1, <2>6 DEF Header
    <3>3. fp \notin Blocks
      <4>1. fp < LIMIT(hp) /\ hp < fp
        BY <1>1, <2>6, <2>10 DEF LIMIT, Header
      <4> SUFFICES ASSUME fp \in Blocks PROVE FALSE
        OBVIOUS
      <4>2. End(size, hp) =< fp /\ fp \in Nat
        BY <2>6, <4>1, FreeBlocksTyped DEF HeapInv, Parts
      <4>3. End(size, hp) = LIMIT(hp) /\ LIMIT(hp) \in Nat
        BY <2>6 DEF End, LIMIT, Header
      <4> QED
        BY ONLY <4>1, <4>2, <4>3
    <3>4. Range(free') \subseteq Range(free) \cup {fp}
      BY <2>2, <2>4, <3>1, <3>2, FreeBlocksTyped DEF Range
    <3>5. Blocks' \subseteq Blocks \cup {fp}
      BY <2>6, <3>1, <3>4 DEF Blocks
    <3>6. size \in [Addresses -> Nat] /\ \A a \in used : a \in Addresses /\ a # hp /\ a # fp
      BY <2>6, <3>3, FreeBlocksTyped DEF HeapInv, HeapTyped, Blocks
    <3>7. \A a \in used' : size'[a] = s
      <4>1. \A a \in used : size'[a] = s
        BY <3>1, <3>2, <3>6 DEF Grid
      <4>2. size'[hp] = s
        BY <2>6, <3>1, <3>2, <3>6
      <4> QED
        BY <3>1, <4>1, <4>2
    <3>8. Blocks' \subseteq Row(s)
      BY <2>7, <3>5 DEF Grid
    <3> QED
      BY <1>1, <2>1, <2>8, <3>7, <3>8 DEF Grid
  <2> QED
    BY <2>9, <2>10
<1> QED
  BY <1>2, <1>3

\* What the core gives was counted when it was asked.
LEMMA AskCoreGrid ==
  ASSUME HeapInv, NEW s \in Sizes, Grid(s), NEW t \in Callers, AskCore(t)
  PROVE  Grid(s)'
<1>1. s \in Nat /\ asking[t] = s /\ free' = free /\ asking' = [asking EXCEPT ![t] = 0]
  BY HeapAssumption DEF HeapAssumption, AskCore, Grid
<1>2. Waiting' = Waiting \ {t} /\ t \in Waiting
  BY <1>1 DEF Waiting, HeapInv, HeapTyped, AskCore
<1> DEFINE w == Cardinality(Waiting')
<1>3. Cardinality(Waiting) = w + 1 /\ w \in Nat
  <2>1. IsFiniteSet(Waiting) /\ Cardinality(Waiting) \in Nat
    BY WaitingFinite
  <2>2. IsFiniteSet(Waiting \ {t}) /\ Cardinality(Waiting \ {t}) = Cardinality(Waiting) - 1
    BY <1>2, <2>1, FS_RemoveElement
  <2>3. Cardinality(Waiting \ {t}) \in Nat
    BY <2>2, FS_CardinalityType
  <2> QED
    BY <1>2, <2>1, <2>2, <2>3
<1> HIDE DEF w
<1>4. \A u \in Callers : asking'[u] \in {0, s}
  BY <1>1 DEF Grid, HeapInv, HeapTyped
<1>5. /\ nextmem \in Nat /\ nextmem \in Row(s) /\ nextmem + s + Header \in Row(s)
      /\ nextmem \notin Blocks
  BY <1>1, FreeBlocksTyped, RowFacts DEF Grid
<1> DEFINE u == s + Header
           r == w * u
           m == MaxLive * u
<1>6. /\ r \in Nat /\ m \in Nat /\ u \in Nat /\ nextmem \in Nat
      /\ nextmem + (r + u) =< m /\ nextmem + s + Header = nextmem + u
  <2>1. u \in Nat /\ MaxLive \in Nat /\ nextmem + s + Header = nextmem + u
    BY <1>1, <1>5, HeapAssumption DEF HeapAssumption, Header
  <2>2. nextmem + (w + 1) * u =< m
    BY <1>3 DEF Grid
  <2> HIDE DEF u
  <2>3. (w + 1) * u = r + u /\ r \in Nat /\ m \in Nat
    BY ONLY <1>3, <2>1, MultipleFacts
  <2> QED
    BY <1>5, <2>1, <2>2, <2>3
<1>7. CASE Endmem - nextmem < asking[t] + Header
  <2>1. UNCHANGED <<size, used, nextmem>>
    BY <1>7 DEF AskCore
  <2>2. nextmem' + r =< m
    <3> HIDE DEF r, u, m
    <3> QED
      BY <1>6, <2>1
  <2>3. Blocks' = Blocks
    BY <1>1, <2>1 DEF Blocks
  <2> QED
    BY <1>4, <2>1, <2>2, <2>3 DEF Grid, w
<1>8. CASE ~(Endmem - nextmem < asking[t] + Header)
  <2>1. /\ nextmem' = nextmem + s + Header /\ used' = used \cup {nextmem}
        /\ size' = [size EXCEPT ![nextmem] = s]
    BY <1>1, <1>8 DEF AskCore
  <2>2. nextmem' + r =< m
    <3> HIDE DEF r, u, m
    <3> QED
      BY <1>6, <2>1
  <2>3. Blocks' \subseteq Blocks \cup {nextmem}
    BY <1>1, <2>1 DEF Blocks
  <2>4. Blocks' \subseteq Row(s) /\ nextmem' \in Row(s)
    BY <1>5, <2>1, <2>3 DEF Grid
  <2>5. \A a \in used' : size'[a] = s
    <3>1. size \in [Addresses -> Nat] /\ nextmem \in Addresses
          /\ \A a \in used : a \in Addresses /\ a # nextmem
      BY <1>5, FreeBlocksTyped DEF HeapInv, HeapTyped, Blocks, Addresses
    <3> QED
      BY <2>1, <3>1 DEF Grid
  <2> QED
    BY <1>4, <2>2, <2>4, <2>5 DEF Grid, w
<1> QED
  BY <1>7, <1>8

\* Every step keeps the places.
LEMMA NextGrids == HeapInv /\ Grids /\ [HeapNext]_heapVars => Grids'
<1> SUFFICES ASSUME HeapInv, Grids, [HeapNext]_heapVars PROVE Grids'
  OBVIOUS
<1>1. ASSUME NEW t \in Callers, AskCore(t) PROVE Grids'
  <2>1. asked' = asked
    BY <1>1 DEF AskCore
  <2> QED
    BY <1>1, <2>1, AskCoreGrid DEF Grids
<1>2. ASSUME NEW t \in Callers, NEW r \in Sizes, Alloc(t, r) PROVE Grids'
  <2>1. asked' = asked \cup {r}
    BY <1>2 DEF Alloc
  <2>2. ASSUME NEW s \in Sizes, asked' \subseteq {s} PROVE Grid(s)'
    <3>1. r = s /\ asked \subseteq {s}
      BY <2>1, <2>2
    <3>2. Grid(s) /\ Alloc(t, s)
      BY <1>2, <3>1 DEF Grids
    <3> QED
      BY <3>2, AllocGrid
  <2> QED
    BY <2>1, <2>2 DEF Grids
<1>3. ASSUME NEW hp \in Addresses, Free(hp) PROVE Grids'
  <2>1. asked' = asked
    BY <1>3 DEF Free
  <2>2. \A s \in Sizes : s \in Nat
    BY HeapAssumption DEF HeapAssumption
  <2> QED
    BY <1>3, <2>1, <2>2, FreeGrid DEF Grids
<1>4. CASE UNCHANGED heapVars
  BY <1>4 DEF heapVars, Grids, Grid, Waiting, Blocks
<1> QED
  BY <1>1, <1>2, <1>3, <1>4 DEF HeapNext

\* Memory given out is memory that some thread has asked for and may have at a time.
LEMMA GridsBound == HeapInv /\ Grids => NoGrowth
<1> SUFFICES ASSUME HeapInv, Grids, NEW s \in asked, asked = {s}
             PROVE  nextmem =< MaxLive * (Header + s)
  BY DEF NoGrowth
<1>1. s \in Nat /\ Grid(s)
  BY HeapAssumption DEF HeapAssumption, Grids
<1> DEFINE c == Cardinality(Waiting)  u == s + Header
<1>2. c \in Nat /\ u \in Nat /\ MaxLive \in Nat /\ Header + s = u /\ nextmem \in Nat
  BY <1>1, WaitingFinite, FreeBlocksTyped, HeapAssumption DEF HeapAssumption, Header
<1>3. nextmem + c * u =< MaxLive * u
  BY <1>1 DEF Grid
<1> HIDE DEF c, u
<1>4. c * u \in Nat /\ MaxLive * u \in Nat
  BY ONLY <1>2, MultipleFacts
<1>5. nextmem =< MaxLive * u
  BY ONLY <1>2, <1>3, <1>4
<1> QED
  BY <1>2, <1>5

-----------------------------------------------------------------------------
\* While the program asks for blocks of one size only, the heap takes no more from the
\* core than the blocks the program may have at a time, although chHeapAlloc asks the core
\* after it has given back the mutex, and whatever was split or merged on the way.
THEOREM HeapDoesNotGrow == HeapSpec => []NoGrowth
<1>1. HeapInit => HeapInv /\ Grids
  BY InitHeapInv, InitGrids
<1>2. HeapInv /\ Grids /\ [HeapNext]_heapVars => (HeapInv /\ Grids)'
  BY NextHeapInv, NextGrids
<1>3. HeapInv /\ Grids => NoGrowth
  BY GridsBound
<1> QED
  BY <1>1, <1>2, <1>3, PTL DEF HeapSpec

-----------------------------------------------------------------------------
(* The kernel: what its proofs say more than the properties.               *)

\* A list of threads, none of them twice and the more urgent ones ahead.
InOrder(q, prio) ==
  /\ q \in Seq(Threads)
  /\ \A i, j \in 1 .. Len(q) : i < j => q[i] # q[j] /\ prio[q[i]] >= prio[q[j]]

\* What p_prio may be.
Prios == 1 .. 4

\* The types of the variables.
KernelTyped ==
  /\ r_queue \in Seq(Threads) /\ r_current \in Threads
  /\ p_state \in [Threads -> {"CURRENT", "READY", "SLEEPING", "WTMTX", "WTSEM"}]
  /\ p_prio \in [Threads -> Prios] /\ p_preempt \in [Threads -> BOOLEAN]
  /\ p_mtxlist \in [Threads -> Seq(Mutexes)]
  /\ m_owner \in [Mutexes -> Threads \cup {NULL}] /\ m_queue \in [Mutexes -> Seq(Threads)]
  /\ s_cnt \in Int /\ s_queue \in Seq(Threads) /\ holder \in Threads \cup {NULL}

\* The state of a thread tells which list it is in.
InPlace ==
  /\ \A t \in Threads : p_state[t] = "CURRENT" <=> t = r_current
  /\ \A t \in Threads : p_state[t] = "READY" <=> t \in Range(r_queue)
  /\ \A t \in Threads : p_state[t] = "WTMTX" <=> \E m \in Mutexes : t \in Range(m_queue[m])
  /\ \A t \in Threads : p_state[t] = "WTSEM" <=> t \in Range(s_queue)
  /\ \A m, k \in Mutexes, t \in Threads : t \in Range(m_queue[m]) /\ t \in Range(m_queue[k]) => m = k
  /\ p_state[idle] \in {"CURRENT", "READY"}

\* The lists that are kept by priority.
AllInOrder == InOrder(r_queue, p_prio) /\ \A m \in Mutexes : InOrder(m_queue[m], p_prio)

\* No ready thread is above the one that runs.
NoneAbove == \A t \in Range(r_queue) : p_prio[t] =< p_prio[r_current]

\* The lists of mutexes agree with their owners, and a thread owns only mutexes
\* below the one that it waits for.
MutexesAgree ==
  /\ \A t \in Threads, m \in Mutexes : m \in Range(p_mtxlist[t]) <=> m_owner[m] = t
  /\ \A t \in Threads, i, j \in Nat : 1 =< i /\ i < j /\ j =< Len(p_mtxlist[t]) =>
       p_mtxlist[t][j] < p_mtxlist[t][i]
  /\ \A m \in Mutexes : m_owner[m] = NULL => m_queue[m] = <<>>
  /\ \A m, k \in Mutexes, t \in Threads : t \in Range(m_queue[m]) /\ m_owner[k] = t => k < m
  /\ p_mtxlist[idle] = <<>>

\* A count below zero is the length of the queue.
SemaphoreAgrees ==
  /\ s_cnt =< 0 => Len(s_queue) = -s_cnt
  /\ s_cnt >= 0 => s_queue = <<>>
  /\ \A i, j \in 1 .. Len(s_queue) : i < j => s_queue[i] # s_queue[j]

\* The inductive invariant.
KernelInv ==
  /\ KernelTyped /\ InPlace /\ AllInOrder /\ NoneAbove /\ MutexesAgree
  /\ SemaphoreAgrees /\ InheritanceExact

\* The members of a list.
LEMMA Members ==
  ASSUME NEW q \in Seq(Threads)
  PROVE  /\ Len(q) \in Nat /\ Range(q) \subseteq Threads
         /\ \A t : t \in Range(q) <=> \E i \in 1 .. Len(q) : q[i] = t
         /\ q = <<>> <=> Range(q) = {}
         /\ q = <<>> <=> Len(q) = 0
<1>1. Range(q) = {q[i] : i \in 1 .. Len(q)} /\ Len(q) \in Nat /\ \A i \in 1 .. Len(q) : q[i] \in Threads
  BY DEF Range
<1>2. q = <<>> <=> Len(q) = 0
  OBVIOUS
<1>3. Len(q) = 0 <=> Range(q) = {}
  <2>1. Len(q) # 0 => 1 \in 1 .. Len(q)
    BY <1>1
  <2>2. Len(q) = 0 => 1 .. Len(q) = {}
    BY <1>1
  <2> QED
    BY <1>1, <2>1, <2>2
<1> QED
  BY <1>1, <1>2, <1>3

\* An order depends on the priorities of the members only.
LEMMA OrderStays ==
  ASSUME NEW q, NEW prio, NEW new, InOrder(q, prio), \A t \in Range(q) : new[t] = prio[t]
  PROVE  InOrder(q, new)
<1>1. q \in Seq(Threads)
  BY DEF InOrder
<1>2. \A i \in 1 .. Len(q) : q[i] \in Range(q)
  BY <1>1, Members
<1> QED
  BY <1>2 DEF InOrder

\* r is q with t put at place k, where its priority lets it stand.
PutAt(r, q, t, k) ==
  /\ k \in 1 .. Len(q) + 1 /\ r \in Seq(Threads) /\ Len(r) = Len(q) + 1
  /\ \A i \in 1 .. Len(q) + 1 : r[i] = IF i < k THEN q[i] ELSE IF i = k THEN t ELSE q[i - 1]

FitsAt(q, t, k, prio) ==
  /\ \A i \in 1 .. Len(q) : i < k => prio[q[i]] >= prio[t]
  /\ \A i \in 1 .. Len(q) : i >= k => prio[t] >= prio[q[i]]

\* A thread put where its priority lets it stand leaves the list in order.
LEMMA PutInOrder ==
  ASSUME NEW prio, NEW q, InOrder(q, prio), NEW t, t \notin Range(q),
         NEW k, NEW r, PutAt(r, q, t, k), FitsAt(q, t, k, prio)
  PROVE  InOrder(r, prio) /\ Range(r) = Range(q) \cup {t}
<1> USE DEF PutAt, FitsAt
<1>1. q \in Seq(Threads) /\ \A i, j \in 1 .. Len(q) : i < j => q[i] # q[j] /\ prio[q[i]] >= prio[q[j]]
  BY DEF InOrder
<1>2. /\ Len(q) \in Nat /\ \A i \in 1 .. Len(q) : q[i] \in Threads /\ q[i] \in Range(q) /\ q[i] # t
      /\ \A x \in Range(q) : \E i \in 1 .. Len(q) : q[i] = x
  BY <1>1, Members
<1> DEFINE n == Len(q)
<1> HIDE DEF n
<1>3. n \in Nat /\ k \in 1 .. n + 1
  BY <1>2 DEF n
<1>4. ASSUME NEW i \in 1 .. n + 1, NEW j \in 1 .. n + 1, i < j
      PROVE  r[i] # r[j] /\ prio[r[i]] >= prio[r[j]]
  <2>0. r[i] = (IF i < k THEN q[i] ELSE IF i = k THEN t ELSE q[i - 1])
        /\ r[j] = (IF j < k THEN q[j] ELSE IF j = k THEN t ELSE q[j - 1])
    BY DEF n
  <2>1. CASE j < k
    <3>1. i < k /\ i \in 1 .. n /\ j \in 1 .. n
      BY ONLY <1>3, <1>4, <2>1
    <3> QED
      BY ONLY <1>1, <1>4, <2>0, <2>1, <3>1 DEF n
  <2>2. CASE j = k
    <3>1. i < k /\ i \in 1 .. n /\ ~(j < k)
      BY ONLY <1>3, <1>4, <2>2
    <3>2. r[i] = q[i] /\ r[j] = t
      BY ONLY <2>0, <2>2, <3>1
    <3>3. prio[q[i]] >= prio[t] /\ q[i] # t
      BY <1>2, <3>1 DEF n
    <3> QED
      BY ONLY <3>2, <3>3
  <2>3. CASE j > k /\ i < k
    <3>1. i \in 1 .. n /\ j - 1 \in 1 .. n /\ i < j - 1 /\ ~(j < k) /\ j # k
      BY ONLY <1>3, <1>4, <2>3
    <3>2. r[i] = q[i] /\ r[j] = q[j - 1]
      BY ONLY <2>0, <2>3, <3>1
    <3> QED
      BY ONLY <1>1, <3>1, <3>2 DEF n
  <2>4. CASE j > k /\ i = k
    <3>1. j - 1 \in 1 .. n /\ j - 1 >= k /\ ~(j < k) /\ j # k /\ ~(i < k)
      BY ONLY <1>3, <1>4, <2>4
    <3>2. r[i] = t /\ r[j] = q[j - 1]
      BY ONLY <2>0, <2>4, <3>1
    <3>3. prio[t] >= prio[q[j - 1]] /\ q[j - 1] # t
      BY <1>2, <3>1 DEF n
    <3> QED
      BY ONLY <3>2, <3>3
  <2>5. CASE j > k /\ i > k
    <3>1. i - 1 \in 1 .. n /\ j - 1 \in 1 .. n /\ i - 1 < j - 1 /\ ~(j < k) /\ j # k /\ ~(i < k) /\ i # k
      BY ONLY <1>3, <1>4, <2>5
    <3>2. r[i] = q[i - 1] /\ r[j] = q[j - 1]
      BY ONLY <2>0, <3>1
    <3> QED
      BY ONLY <1>1, <3>1, <3>2 DEF n
  <2> QED
    BY ONLY <1>3, <1>4, <2>1, <2>2, <2>3, <2>4, <2>5
<1>5. InOrder(r, prio)
  <2>1. Len(r) = n + 1
    BY DEF n
  <2> QED
    BY <1>4, <2>1 DEF InOrder
<1>6. \A x : x \in Range(r) <=> \E i \in 1 .. n + 1 : r[i] = x
  BY Members DEF n
<1>7. t \in Range(r)
  <2>1. r[k] = t
    <3>1. ~(k < k)
      BY <1>3
    <3> QED
      BY <3>1
  <2> QED
    BY <1>3, <1>6, <2>1
<1>8. ASSUME NEW i \in 1 .. n PROVE q[i] \in Range(r)
  <2>1. CASE i < k
    <3>1. i \in 1 .. n + 1 /\ r[i] = q[i]
      BY <1>3, <2>1 DEF n
    <3> QED
      BY <1>6, <3>1
  <2>2. CASE ~(i < k)
    <3>0. PICK j : j = i + 1
      OBVIOUS
    <3>1. j \in 1 .. n + 1 /\ ~(j < k) /\ j # k /\ j - 1 = i
      BY ONLY <1>3, <1>8, <2>2, <3>0
    <3>2. r[j] = q[j - 1]
      BY <3>1 DEF n
    <3> QED
      BY <1>6, <3>1, <3>2
  <2> QED
    BY <2>1, <2>2
<1>9. ASSUME NEW i \in 1 .. n + 1, r[i] # t PROVE r[i] \in Range(q)
  <2>1. CASE i < k
    <3>1. i \in 1 .. n /\ r[i] = q[i]
      BY <1>3, <2>1 DEF n
    <3> QED
      BY <1>2, <3>1 DEF n
  <2>2. CASE ~(i < k) /\ i # k
    <3>1. i - 1 \in 1 .. n
      BY ONLY <1>3, <1>9, <2>2
    <3>2. r[i] = q[i - 1]
      BY <2>2 DEF n
    <3> QED
      BY <1>2, <3>1, <3>2 DEF n
  <2>3. CASE i = k
    <3>1. ~(i < k)
      BY ONLY <1>3, <2>3
    <3> QED
      BY <1>9, <2>3, <3>1 DEF n
  <2> QED
    BY <2>1, <2>2, <2>3
<1>10. Range(r) = Range(q) \cup {t}
  <2>1. \A x \in Range(q) : x \in Range(r)
    BY <1>2, <1>8 DEF n
  <2>2. \A x \in Range(r) : x = t \/ x \in Range(q)
    BY <1>6, <1>9
  <2> QED
    BY <1>7, <2>1, <2>2
<1> QED
  BY <1>5, <1>10

\* prio_insert, behind the threads in front of the places given.
LEMMA InsertedBefore ==
  ASSUME NEW prio \in [Threads -> Prios], NEW q, InOrder(q, prio), NEW t \in Threads, t \notin Range(q),
         NEW P \in SUBSET (1 .. Len(q)),
         \A i, j \in 1 .. Len(q) : i \in P /\ i < j => j \in P,
         \A i \in P : prio[t] >= prio[q[i]],
         \A i \in (1 .. Len(q)) \ P : prio[q[i]] >= prio[t]
  PROVE  InOrder(InsertBefore(q, t, P), prio) /\ Range(InsertBefore(q, t, P)) = Range(q) \cup {t}
<1>1. q \in Seq(Threads) /\ Len(q) \in Nat
  BY DEF InOrder
<1>2. CASE P = {}
  <2>1. InsertBefore(q, t, P) = Append(q, t)
    BY <1>2 DEF InsertBefore
  <2> DEFINE r == Append(q, t)  k == Len(q) + 1
  <2>2. /\ r \in Seq(Threads) /\ Len(r) = Len(q) + 1 /\ k \in 1 .. Len(q) + 1
        /\ \A i \in 1 .. Len(q) : r[i] = q[i]
        /\ r[k] = t
    BY <1>1, AppendProperties
  <2> HIDE DEF r
  <2>3. \A i \in 1 .. Len(q) + 1 : r[i] = IF i < k THEN q[i] ELSE IF i = k THEN t ELSE q[i - 1]
    BY <1>1, <2>2
  <2>4. \A i \in 1 .. Len(q) : ~(i >= k)
    BY <1>1
  <2>5. \A i \in 1 .. Len(q) : prio[q[i]] >= prio[t]
    BY <1>2
  <2> HIDE DEF k
  <2>6. PutAt(r, q, t, k) /\ FitsAt(q, t, k, prio)
    BY <2>2, <2>3, <2>4, <2>5 DEF PutAt, FitsAt
  <2> QED
    BY <2>1, <2>6, PutInOrder DEF r
<1>3. CASE P # {}
  <2> DEFINE k == Min(P)  r == InsertAt(q, k, t)
  <2>1. P \in SUBSET Nat
    BY <1>1
  <2>2. k \in P /\ \A i \in P : k =< i
    BY <1>3, <2>1, LeastExists
  <2>3. InsertBefore(q, t, P) = r
    BY <1>3 DEF InsertBefore
  <2> HIDE DEF k
  <2>4. k \in 1 .. Len(q) /\ k \in 1 .. Len(q) + 1
    BY <1>1, <2>2
  <2>5. /\ r \in Seq(Threads) /\ Len(r) = Len(q) + 1
        /\ \A i \in 1 .. Len(q) + 1 : r[i] = IF i < k THEN q[i] ELSE IF i = k THEN t ELSE q[i - 1]
    BY <1>1, <2>4, OneMore
  <2> HIDE DEF r
  <2>6. \A i \in 1 .. Len(q) : i < k => prio[q[i]] >= prio[t]
    <3>1. \A i \in 1 .. Len(q) : i < k => i \notin P
      BY <1>1, <2>2
    <3> QED
      BY <3>1
  <2>7. \A i \in 1 .. Len(q) : i >= k => prio[t] >= prio[q[i]]
    <3>1. \A i \in 1 .. Len(q) : i >= k => i \in P
      <4>1. \A i \in 1 .. Len(q) : i >= k => i = k \/ k < i
        BY <2>4
      <4> QED
        BY <2>2, <2>4, <4>1
    <3> QED
      BY <3>1
  <2>8. PutAt(r, q, t, k) /\ FitsAt(q, t, k, prio)
    BY <2>4, <2>5, <2>6, <2>7 DEF PutAt, FitsAt
  <2> QED
    BY <2>3, <2>8, PutInOrder
<1> QED
  BY <1>2, <1>3

\* Behind the equals, and ahead of them.
LEMMA InsertedBehind ==
  ASSUME NEW prio \in [Threads -> Prios], NEW q, InOrder(q, prio), NEW t \in Threads, t \notin Range(q)
  PROVE  /\ InOrder(InsertBehind(q, t, prio), prio) /\ Range(InsertBehind(q, t, prio)) = Range(q) \cup {t}
         /\ InOrder(InsertAhead(q, t, prio), prio) /\ Range(InsertAhead(q, t, prio)) = Range(q) \cup {t}
<1>1. q \in Seq(Threads) /\ Len(q) \in Nat /\ DOMAIN q = 1 .. Len(q)
      /\ \A i, j \in 1 .. Len(q) : i < j => prio[q[i]] >= prio[q[j]]
  BY DEF InOrder
<1>2. prio[t] \in Int /\ \A i \in 1 .. Len(q) : prio[q[i]] \in Int
  BY <1>1 DEF Prios
<1> DEFINE P == {i \in DOMAIN q : prio[q[i]] < prio[t]}  R == {i \in DOMAIN q : prio[q[i]] =< prio[t]}
<1>3. /\ P \in SUBSET (1 .. Len(q))
      /\ \A i, j \in 1 .. Len(q) : i \in P /\ i < j => j \in P
      /\ \A i \in P : prio[t] >= prio[q[i]]
      /\ \A i \in (1 .. Len(q)) \ P : prio[q[i]] >= prio[t]
  BY <1>1, <1>2
<1>4. /\ R \in SUBSET (1 .. Len(q))
      /\ \A i, j \in 1 .. Len(q) : i \in R /\ i < j => j \in R
      /\ \A i \in R : prio[t] >= prio[q[i]]
      /\ \A i \in (1 .. Len(q)) \ R : prio[q[i]] >= prio[t]
  BY <1>1, <1>2
<1>5. InsertBehind(q, t, prio) = InsertBefore(q, t, P) /\ InsertAhead(q, t, prio) = InsertBefore(q, t, R)
  BY DEF InsertBehind, InsertAhead
<1> HIDE DEF P, R
<1>6. InOrder(InsertBefore(q, t, P), prio) /\ Range(InsertBefore(q, t, P)) = Range(q) \cup {t}
  BY <1>3, InsertedBefore
<1>7. InOrder(InsertBefore(q, t, R), prio) /\ Range(InsertBefore(q, t, R)) = Range(q) \cup {t}
  BY <1>4, InsertedBefore
<1> QED
  BY <1>5, <1>6, <1>7

\* A list without one of its members.
LEMMA Removed ==
  ASSUME NEW prio, NEW q, InOrder(q, prio), NEW k \in 1 .. Len(q)
  PROVE  InOrder(RemoveAt(q, k), prio) /\ Range(RemoveAt(q, k)) = Range(q) \ {q[k]}
<1> DEFINE r == RemoveAt(q, k)  n == Len(q)
<1>1. q \in Seq(Threads) /\ \A i, j \in 1 .. n : i < j => q[i] # q[j] /\ prio[q[i]] >= prio[q[j]]
  BY DEF InOrder
<1>2. /\ r \in Seq(Threads) /\ Len(r) = n - 1
      /\ \A i \in 1 .. n - 1 : r[i] = IF i < k THEN q[i] ELSE q[i + 1]
  BY <1>1, OneLess
<1> HIDE DEF r
<1>3. n \in Nat /\ k \in 1 .. n
  BY <1>1
<1>4. (\A x : x \in Range(q) <=> \E i \in 1 .. n : q[i] = x) /\ (\A x : x \in Range(r) <=> \E i \in 1 .. n - 1 : r[i] = x)
  BY <1>1, <1>2, Members
<1> HIDE DEF n
<1> DEFINE from(i) == IF i < k THEN i ELSE i + 1
<1>5. \A i \in 1 .. n - 1 : from(i) \in 1 .. n /\ r[i] = q[from(i)] /\ from(i) # k
  BY <1>2, <1>3
<1>6. \A i, j \in 1 .. n - 1 : i < j => from(i) < from(j)
  BY <1>3
<1>7. \A i \in 1 .. n : i # k => \E j \in 1 .. n - 1 : from(j) = i
  <2> SUFFICES ASSUME NEW i \in 1 .. n, i # k PROVE \E j \in 1 .. n - 1 : from(j) = i
    OBVIOUS
  <2>1. CASE i < k
    <3>1. i \in 1 .. n - 1 /\ from(i) = i
      BY <1>3, <2>1
    <3> QED
      BY <3>1
  <2>2. CASE i > k
    <3>0. PICK j : j = i - 1
      OBVIOUS
    <3>1. j \in 1 .. n - 1 /\ from(j) = i
      BY <1>3, <2>2, <3>0
    <3> QED
      BY <3>1
  <2> QED
    BY <1>3, <2>1, <2>2
<1> HIDE DEF from
<1>8. \A i, j \in 1 .. n - 1 : i < j => r[i] # r[j] /\ prio[r[i]] >= prio[r[j]]
  BY <1>1, <1>5, <1>6
<1>9. InOrder(r, prio)
  BY <1>2, <1>8 DEF InOrder
<1>10. \A i \in 1 .. n : i # k => q[i] # q[k]
  BY <1>1, <1>3
<1>11. Range(r) = Range(q) \ {q[k]}
  BY <1>4, <1>5, <1>7, <1>10
<1> QED
  BY <1>9, <1>11 DEF r

\* The first of a list is above the others.
LEMMA FirstIsHighest ==
  ASSUME NEW prio \in [Threads -> Prios], NEW q, InOrder(q, prio), q # <<>>
  PROVE  /\ Head(q) \in Range(q) /\ Head(q) \in Threads
         /\ \A t \in Range(q) : prio[t] =< prio[Head(q)]
         /\ InOrder(Tail(q), prio) /\ Range(Tail(q)) = Range(q) \ {Head(q)}
<1>1. q \in Seq(Threads) /\ \A i, j \in 1 .. Len(q) : i < j => prio[q[i]] >= prio[q[j]]
  BY DEF InOrder
<1>2. Len(q) \in Nat /\ 1 \in 1 .. Len(q) /\ Head(q) = q[1] /\ q[1] \in Threads
  BY <1>1
<1>3. \A x : x \in Range(q) <=> \E i \in 1 .. Len(q) : q[i] = x
  BY <1>1, Members
<1>4. \A i \in 1 .. Len(q) : prio[q[i]] =< prio[q[1]]
  <2> SUFFICES ASSUME NEW i \in 1 .. Len(q) PROVE prio[q[i]] =< prio[q[1]]
    OBVIOUS
  <2>1. prio[q[i]] \in Int /\ prio[q[1]] \in Int
    BY <1>1, <1>2 DEF Prios
  <2>2. CASE i = 1
    BY <2>1, <2>2
  <2>3. CASE i # 1
    <3>1. 1 < i
      BY <1>2, <2>3
    <3>2. prio[q[1]] >= prio[q[i]]
      BY <1>1, <1>2, <3>1
    <3> QED
      BY <2>1, <3>2
  <2> QED
    BY <2>2, <2>3
<1>5. Tail(q) = RemoveAt(q, 1)
  <2> DEFINE r == RemoveAt(q, 1)
  <2>1. r \in Seq(Threads) /\ Len(r) = Len(q) - 1 /\ \A i \in 1 .. Len(q) - 1 : r[i] = IF i < 1 THEN q[i] ELSE q[i + 1]
    BY <1>1, <1>2, OneLess
  <2>2. Tail(q) \in Seq(Threads) /\ Len(Tail(q)) = Len(q) - 1 /\ \A i \in 1 .. Len(Tail(q)) : Tail(q)[i] = q[i + 1]
    BY <1>1, HeadTailProperties
  <2> HIDE DEF r
  <2>3. \A i \in 1 .. Len(q) - 1 : r[i] = q[i + 1]
    BY <1>2, <2>1
  <2> DEFINE u == Tail(q)
  <2>4. u \in Seq(Threads) /\ Len(u) = Len(q) - 1 /\ \A i \in 1 .. Len(u) : u[i] = q[i + 1]
    BY <2>2
  <2> HIDE DEF u
  <2>5. u = r
    <3>1. Len(u) = Len(r) /\ \A i \in 1 .. Len(u) : u[i] = r[i]
      BY <2>1, <2>3, <2>4
    <3> QED
      BY <2>1, <2>4, <3>1, SeqEqual
  <2> QED
    BY <2>5 DEF u, r
<1>6. InOrder(RemoveAt(q, 1), prio) /\ Range(RemoveAt(q, 1)) = Range(q) \ {q[1]}
  BY <1>2, Removed
<1> QED
  BY <1>2, <1>3, <1>4, <1>5, <1>6

\* A set of numbers that holds a number whenever it holds those below holds them all.
LEMMA AllNumbers ==
  ASSUME NEW T \in SUBSET Nat, \A n \in Nat : 0 .. n - 1 \subseteq T => n \in T
  PROVE  T = Nat
<1> DEFINE C == Nat \ T
<1>1. CASE C = {}
  BY <1>1
<1>2. CASE C # {}
  <2> DEFINE n == Min(C)
  <2>1. n \in C /\ \A k \in C : n =< k
    BY <1>2, LeastExists
  <2> HIDE DEF n
  <2>2. \A k \in 0 .. n - 1 : k \in Nat /\ ~(n =< k)
    BY <2>1
  <2>3. 0 .. n - 1 \subseteq T
    BY <2>1, <2>2
  <2> QED
    BY <2>1, <2>3
<1> QED
  BY <1>1, <1>2

\* The list when n threads have been made ready.
ReadyTurn(f, woken, n) ==
  IF n = 0 THEN r_queue ELSE InsertBehind(f[n - 1], woken[n], p_prio)

\* The loop reaches every one.
LEMMA ReadyTurns ==
  ASSUME NEW woken \in Seq(Threads)
  PROVE  \E f : /\ f = [n \in 0 .. Len(woken) |-> ReadyTurn(f, woken, n)]
                /\ ReadyI(woken) = f[Len(woken)]
<1> DEFINE Upto(f, n) == \A k \in 0 .. n : f[k] = ReadyTurn(f, woken, k)
           T == {n \in Nat : \E f : Upto(f, n)}
<1>1. ASSUME NEW n \in Nat, 0 .. n - 1 \subseteq T PROVE \E f : Upto(f, n)
  <2>1. CASE n = 0
    <3> DEFINE g == [k \in 0 .. 0 |-> r_queue]
    <3>1. Upto(g, 0)
      <4>1. \A k \in 0 .. 0 : k = 0
        OBVIOUS
      <4> QED
        BY <4>1 DEF ReadyTurn
    <3> HIDE DEF g, Upto
    <3> QED
      BY <2>1, <3>1
  <2>2. CASE n # 0
    <3>1. n - 1 \in 0 .. n - 1
      BY <2>2
    <3>2. PICK f : Upto(f, n - 1)
      BY <1>1, <3>1
    <3> DEFINE g == [k \in 0 .. n |-> IF k = n THEN ReadyTurn(f, woken, n) ELSE f[k]]
    <3>3. ASSUME NEW k \in 0 .. n PROVE g[k] = ReadyTurn(g, woken, k)
      <4>1. k # 0 => k - 1 \in 0 .. n /\ k - 1 # n
        OBVIOUS
      <4>2. k # 0 => g[k - 1] = f[k - 1]
        BY <4>1
      <4>3. g[k] = IF k = n THEN ReadyTurn(f, woken, n) ELSE f[k]
        OBVIOUS
      <4> HIDE DEF g
      <4>4. ReadyTurn(g, woken, k) = ReadyTurn(f, woken, k)
        BY <4>2 DEF ReadyTurn
      <4>5. k # n => f[k] = ReadyTurn(f, woken, k)
        <5>1. k # n => k \in 0 .. n - 1
          OBVIOUS
        <5> QED
          BY <3>2, <5>1
      <4> QED
        BY <4>3, <4>4, <4>5
    <3> HIDE DEF g
    <3>4. Upto(g, n)
      BY <3>3
    <3> HIDE DEF Upto
    <3> QED
      BY <3>4
  <2> QED
    BY <2>1, <2>2
<1>2. T \in SUBSET Nat /\ \A n \in Nat : 0 .. n - 1 \subseteq T => n \in T
  BY <1>1
<1>3. T = Nat
  <2> HIDE DEF T
  <2> QED
    BY <1>2, AllNumbers
<1> DEFINE N == Len(woken)
<1>4. N \in Nat
  OBVIOUS
<1> HIDE DEF N
<1>5. PICK f : Upto(f, N)
  BY <1>3, <1>4
<1> DEFINE g == [k \in 0 .. N |-> f[k]]
<1>6. ASSUME NEW k \in 0 .. N PROVE f[k] = ReadyTurn(g, woken, k)
  <2>1. k # 0 => k - 1 \in 0 .. N
    BY <1>4
  <2>2. k # 0 => g[k - 1] = f[k - 1]
    BY <2>1
  <2>3. f[k] = ReadyTurn(f, woken, k)
    BY <1>5
  <2> HIDE DEF g
  <2> QED
    BY <2>2, <2>3 DEF ReadyTurn
<1>7. g = [n \in 0 .. N |-> ReadyTurn(g, woken, n)]
  <2>1. g = [n \in 0 .. N |-> f[n]]
    OBVIOUS
  <2> HIDE DEF g
  <2> QED
    BY <1>6, <2>1
<1> DEFINE D == CHOOSE h : h = [n \in 0 .. Len(woken) |-> ReadyTurn(h, woken, n)]
<1>8. D = [n \in 0 .. Len(woken) |-> ReadyTurn(D, woken, n)]
  <2> HIDE DEF g
  <2> QED
    BY <1>7 DEF N
<1>9. ReadyI(woken) = D[Len(woken)]
  BY DEF ReadyI, ReadyTurn
<1> HIDE DEF D
<1> QED
  BY <1>8, <1>9

\* chSchReadyI puts each thread where its priority lets it stand.
LEMMA MadeReady ==
  ASSUME p_prio \in [Threads -> Prios], InOrder(r_queue, p_prio), NEW woken \in Seq(Threads),
         \A i, j \in 1 .. Len(woken) : i # j => woken[i] # woken[j],
         \A i \in 1 .. Len(woken) : woken[i] \notin Range(r_queue)
  PROVE  /\ InOrder(ReadyI(woken), p_prio)
         /\ Range(ReadyI(woken)) = Range(r_queue) \cup Range(woken)
<1> DEFINE N == Len(woken)
           before(n) == {woken[i] : i \in 1 .. n}
<1>1. PICK f : /\ f = [n \in 0 .. Len(woken) |-> ReadyTurn(f, woken, n)]
               /\ ReadyI(woken) = f[Len(woken)]
  BY ReadyTurns
<1>2. N \in Nat /\ (\A n \in 1 .. N : woken[n] \in Threads) /\ Range(woken) = before(N)
  BY DEF Range
<1>3. \A n \in 0 .. N : f[n] = ReadyTurn(f, woken, n)
  BY <1>1
<1> DEFINE Right(n) == n \in 0 .. N => InOrder(f[n], p_prio) /\ Range(f[n]) = Range(r_queue) \cup before(n)
           T == {n \in Nat : Right(n)}
<1> HIDE DEF N
<1>4. ASSUME NEW n \in Nat, 0 .. n - 1 \subseteq T PROVE Right(n)
  <2> SUFFICES ASSUME n \in 0 .. N PROVE InOrder(f[n], p_prio) /\ Range(f[n]) = Range(r_queue) \cup before(n)
    OBVIOUS
  <2>1. CASE n = 0
    <3>1. f[n] = r_queue
      BY <1>3, <2>1 DEF ReadyTurn
    <3>2. before(n) = {}
      BY <2>1
    <3> HIDE DEF before
    <3> QED
      BY <3>1, <3>2
  <2>2. CASE n # 0
    <3>1. n - 1 \in 0 .. n - 1 /\ n - 1 \in 0 .. N /\ n \in 1 .. N
      BY <1>2, <2>2
    <3>2. Right(n - 1)
      BY <1>4, <3>1
    <3> DEFINE q == f[n - 1]
               t == woken[n]
    <3>3. InOrder(q, p_prio) /\ Range(q) = Range(r_queue) \cup before(n - 1)
      BY <3>1, <3>2
    <3>4. f[n] = InsertBehind(q, t, p_prio)
      BY <1>3, <2>2, <3>1 DEF ReadyTurn
    <3>5. t \in Threads
      BY <1>2, <3>1
    <3>6. t \notin before(n - 1)
      <4>1. \A i \in 1 .. n - 1 : i \in 1 .. N /\ i # n
        BY <1>2, <3>1
      <4> QED
        BY <3>1, <4>1 DEF N
    <3>7. t \notin Range(r_queue)
      BY <3>1 DEF N
    <3>8. before(n) = before(n - 1) \cup {t}
      <4>1. 1 .. n = (1 .. n - 1) \cup {n}
        BY <3>1
      <4> QED
        BY <4>1
    <3> HIDE DEF q, t, before
    <3>9. InOrder(InsertBehind(q, t, p_prio), p_prio) /\ Range(InsertBehind(q, t, p_prio)) = Range(q) \cup {t}
      <4>1. t \notin Range(q)
        BY <3>3, <3>6, <3>7
      <4> QED
        BY <3>3, <3>5, <4>1, InsertedBehind
    <3> QED
      BY <3>3, <3>4, <3>8, <3>9
  <2> QED
    BY <2>1, <2>2
<1>5. T \in SUBSET Nat /\ \A n \in Nat : 0 .. n - 1 \subseteq T => n \in T
  BY <1>4
<1>6. T = Nat
  <2> HIDE DEF T
  <2> QED
    BY <1>5, AllNumbers
<1>7. Right(N)
  BY <1>2, <1>6
<1> QED
  BY <1>1, <1>2, <1>7 DEF N

-----------------------------------------------------------------------------
(* The scheduler: what each of its operators leaves.                       *)

\* The states of a thread.
States == {"CURRENT", "READY", "SLEEPING", "WTMTX", "WTSEM"}

\* The threads of a set share the processor, the most urgent one has it, and the
\* others are in the states given.
Dispatched(ready, prio, others) ==
  /\ r_current' \in ready /\ Range(r_queue') = ready \ {r_current'}
  /\ InOrder(r_queue', prio) /\ \A t \in ready : prio[t] =< prio[r_current']
  /\ p_preempt' \in [Threads -> BOOLEAN] /\ p_state' \in [Threads -> States]
  /\ \A t \in Threads : p_state'[t] = IF t = r_current' THEN "CURRENT"
                                       ELSE IF t \in ready THEN "READY" ELSE others[t]

\* The current thread is in no list.
LEMMA CurrentIsNowhere ==
  ASSUME KernelTyped, InPlace
  PROVE  /\ r_current \in Threads /\ p_state[r_current] = "CURRENT"
         /\ r_current \notin Range(r_queue) /\ r_current \notin Range(s_queue)
         /\ \A m \in Mutexes : r_current \notin Range(m_queue[m])
         /\ r_current # idle => r_queue # <<>> /\ idle \in Range(r_queue)
<1>1. r_current \in Threads /\ p_state[r_current] = "CURRENT" /\ r_queue \in Seq(Threads)
  BY DEF KernelTyped, InPlace
<1>2. r_current # idle => idle \in Range(r_queue)
  BY DEF InPlace, Threads
<1>3. r_queue = <<>> <=> Range(r_queue) = {}
  BY <1>1, Members
<1> QED
  BY <1>1, <1>2, <1>3 DEF InPlace

\* chSchGoSleepS gives the processor to the head of the ready list, which is the
\* most urgent of those that were ready.
LEMMA AfterSleep ==
  ASSUME KernelTyped, InPlace, r_current # idle, NEW prio \in [Threads -> Prios],
         NEW queue, InOrder(queue, prio), Range(queue) = Range(r_queue),
         NEW newstate \in States, GoSleepS(queue, newstate)
  PROVE  Dispatched(Range(r_queue), prio, [p_state EXCEPT ![r_current] = newstate])
<1> DEFINE h == Head(queue)
           u == Tail(queue)
<1>0. r_current \in Threads /\ r_current \notin Range(r_queue) /\ Range(r_queue) # {}
  BY CurrentIsNowhere
<1>1. queue \in Seq(Threads) /\ queue # <<>>
  <2>1. queue \in Seq(Threads)
    BY DEF InOrder
  <2> QED
    BY <1>0, <2>1, Members
<1>2. /\ h \in Range(queue) /\ h \in Threads /\ \A t \in Range(queue) : prio[t] =< prio[h]
      /\ InOrder(u, prio) /\ Range(u) = Range(queue) \ {h}
  BY <1>1, FirstIsHighest
<1>3. /\ r_current' = h /\ r_queue' = u
      /\ p_state' = [p_state EXCEPT ![r_current] = newstate, ![h] = "CURRENT"]
      /\ p_preempt' = [p_preempt EXCEPT ![r_current] = TRUE]
  BY DEF GoSleepS, SwitchTo
<1> HIDE DEF h, u
<1>4. p_state \in [Threads -> States] /\ p_preempt \in [Threads -> BOOLEAN]
  BY DEF KernelTyped, States
<1>5. p_preempt' \in [Threads -> BOOLEAN] /\ p_state' \in [Threads -> States]
  BY <1>0, <1>2, <1>3, <1>4 DEF States
<1>6. \A t \in Range(r_queue) : t \in Threads => p_state[t] = "READY"
  BY DEF InPlace
<1>7. \A t \in Threads : p_state'[t] = IF t = h THEN "CURRENT" ELSE IF t = r_current THEN newstate ELSE p_state[t]
  BY <1>0, <1>2, <1>3, <1>4
<1>8. ASSUME NEW t \in Threads
      PROVE  p_state'[t] = IF t = h THEN "CURRENT" ELSE IF t \in Range(r_queue) THEN "READY"
                           ELSE [p_state EXCEPT ![r_current] = newstate][t]
  <2>1. [p_state EXCEPT ![r_current] = newstate][t] = IF t = r_current THEN newstate ELSE p_state[t]
    BY <1>0, <1>4
  <2>2. t \in Range(r_queue) => t # r_current /\ p_state[t] = "READY"
    BY <1>0, <1>6
  <2> QED
    BY <1>7, <2>1, <2>2
<1> QED
  BY <1>2, <1>3, <1>5, <1>8 DEF Dispatched

\* The one that wakes another may have lost priority, but not to anybody ready.
LEMMA AfterWakeup ==
  ASSUME KernelTyped, InPlace, NEW prio \in [Threads -> Prios],
         InOrder(r_queue, prio), NEW tp \in Threads, tp # r_current, tp \notin Range(r_queue),
         \A t \in Range(r_queue) : prio[t] =< prio[r_current] \/ prio[t] =< prio[tp],
         \A t \in Range(r_queue) : prio[tp] =< prio[r_current] => prio[t] =< prio[r_current],
         WakeupS(tp, prio)
  PROVE  Dispatched(Range(r_queue) \cup {r_current, tp}, prio, p_state)
<1>0. r_current \in Threads /\ r_current \notin Range(r_queue)
  BY CurrentIsNowhere
<1>1. p_state \in [Threads -> States] /\ p_preempt \in [Threads -> BOOLEAN] /\ p_preempt' = p_preempt
  BY DEF KernelTyped, States, WakeupS
<1>2. \A t \in Threads : /\ t \in Range(r_queue) => p_state[t] = "READY"
                         /\ t = r_current <=> p_state[t] = "CURRENT"
  BY DEF InPlace
<1>3. \A t \in Threads : prio[t] \in Int
  BY DEF Prios
<1>4. Range(r_queue) \subseteq Threads
  BY Members DEF KernelTyped
<1>5. CASE prio[tp] =< prio[r_current]
  <2>1. /\ r_queue' = InsertBehind(r_queue, tp, prio) /\ r_current' = r_current
        /\ p_state' = [p_state EXCEPT ![tp] = "READY"]
    BY <1>5 DEF WakeupS
  <2>2. InOrder(r_queue', prio) /\ Range(r_queue') = Range(r_queue) \cup {tp}
    BY <2>1, InsertedBehind
  <2>3. p_state' \in [Threads -> States] /\ \A t \in Threads : p_state'[t] = IF t = tp THEN "READY" ELSE p_state[t]
    BY <1>1, <2>1 DEF States
  <2>4. \A t \in Range(r_queue) \cup {r_current, tp} : prio[t] =< prio[r_current]
    BY <1>0, <1>3, <1>5
  <2>5. \A t \in Threads : p_state'[t] = IF t = r_current THEN "CURRENT"
                           ELSE IF t \in Range(r_queue) \cup {r_current, tp} THEN "READY" ELSE p_state[t]
    BY <1>2, <2>3
  <2>6. Range(r_queue') = (Range(r_queue) \cup {r_current, tp}) \ {r_current}
    BY <1>0, <2>2
  <2> QED
    BY <1>1, <2>1, <2>2, <2>3, <2>4, <2>5, <2>6 DEF Dispatched
<1>6. CASE ~(prio[tp] =< prio[r_current])
  <2>1. /\ r_queue' = InsertBehind(r_queue, r_current, prio) /\ r_current' = tp
        /\ p_state' = [p_state EXCEPT ![r_current] = "READY", ![tp] = "CURRENT"]
    BY <1>6 DEF WakeupS, SwitchTo
  <2>2. InOrder(r_queue', prio) /\ Range(r_queue') = Range(r_queue) \cup {r_current}
    BY <1>0, <2>1, InsertedBehind
  <2>3. p_state' \in [Threads -> States]
        /\ \A t \in Threads : p_state'[t] = IF t = tp THEN "CURRENT" ELSE IF t = r_current THEN "READY" ELSE p_state[t]
    BY <1>0, <1>1, <2>1 DEF States
  <2>4. \A t \in Range(r_queue) \cup {r_current, tp} : prio[t] =< prio[tp]
    <3>1. prio[r_current] =< prio[tp] /\ prio[tp] =< prio[tp]
      BY <1>0, <1>3, <1>6
    <3>2. ASSUME NEW t \in Range(r_queue) PROVE prio[t] =< prio[tp]
      <4>1. prio[t] \in Int /\ prio[r_current] \in Int /\ prio[tp] \in Int
        BY <1>0, <1>3, <1>4
      <4> QED
        BY <3>1, <4>1
    <3> QED
      BY <3>1, <3>2
  <2>5. \A t \in Threads : p_state'[t] = IF t = tp THEN "CURRENT"
                           ELSE IF t \in Range(r_queue) \cup {r_current, tp} THEN "READY" ELSE p_state[t]
    BY <1>2, <2>3
  <2>6. Range(r_queue') = (Range(r_queue) \cup {r_current, tp}) \ {tp}
    BY <2>2
  <2> QED
    BY <1>1, <2>1, <2>2, <2>3, <2>4, <2>5, <2>6 DEF Dispatched
<1> QED
  BY <1>5, <1>6

\* Ready threads and the current one, with those that are woken, share the
\* processor anew, with or without a rest of the time slice.
LEMMA AfterReschedule ==
  ASSUME KernelTyped, InPlace, AllInOrder, NoneAbove, NEW woken \in Seq(Threads), NEW sliceLeft \in BOOLEAN,
         \A i, j \in 1 .. Len(woken) : i # j => woken[i] # woken[j],
         \A i \in 1 .. Len(woken) : p_state[woken[i]] \notin {"CURRENT", "READY"},
         ReadyAndReschedule(woken, sliceLeft), p_preempt' \in [Threads -> BOOLEAN]
  PROVE  Dispatched(Range(r_queue) \cup {r_current} \cup Range(woken), p_prio, p_state)
<1> DEFINE queue == ReadyI(woken)
           states == [t \in Threads |-> IF t \in Range(woken) THEN "READY" ELSE p_state[t]]
           required == queue # <<>> /\ IF sliceLeft THEN p_prio[Head(queue)] > p_prio[r_current]
                                              ELSE p_prio[Head(queue)] >= p_prio[r_current]
           h == Head(queue)
           u == Tail(queue)
           all == Range(r_queue) \cup {r_current} \cup Range(woken)
<1>0. r_current \in Threads /\ r_current \notin Range(r_queue)
  BY CurrentIsNowhere
<1>1. p_state \in [Threads -> States] /\ p_prio \in [Threads -> Prios]
  BY DEF KernelTyped, States
<1>2. \A t \in Threads : /\ t \in Range(r_queue) <=> p_state[t] = "READY"
                         /\ t = r_current <=> p_state[t] = "CURRENT"
  BY DEF InPlace
<1>3. \A t \in Threads : p_prio[t] \in Int
  BY <1>1 DEF Prios
<1>4. Range(woken) \subseteq Threads /\ \A t \in Range(woken) : t # r_current /\ t \notin Range(r_queue)
  BY <1>2, Members
<1>5. InOrder(queue, p_prio) /\ Range(queue) = Range(r_queue) \cup Range(woken)
  <2>1. \A i \in 1 .. Len(woken) : woken[i] \notin Range(r_queue)
    BY <1>2
  <2>2. InOrder(r_queue, p_prio)
    BY DEF AllInOrder
  <2> QED
    BY <1>1, <2>1, <2>2, MadeReady
<1>6. queue \in Seq(Threads) /\ Range(queue) \subseteq Threads /\ (queue = <<>> <=> Range(queue) = {})
  <2>1. queue \in Seq(Threads)
    BY <1>5 DEF InOrder
  <2> QED
    BY <2>1, Members
<1>7. queue # <<>> => /\ h \in Range(queue) /\ h \in Threads /\ \A t \in Range(queue) : p_prio[t] =< p_prio[h]
                      /\ InOrder(u, p_prio) /\ Range(u) = Range(queue) \ {h}
  BY <1>1, <1>5, FirstIsHighest
<1>8. /\ required => /\ r_current' = h
                     /\ r_queue' = IF sliceLeft THEN InsertAhead(u, r_current, p_prio)
                                                ELSE InsertBehind(u, r_current, p_prio)
                     /\ p_state' = [states EXCEPT ![r_current] = "READY", ![h] = "CURRENT"]
      /\ ~required => r_queue' = queue /\ p_state' = states /\ r_current' = r_current
  BY DEF ReadyAndReschedule
<1>9. p_preempt' \in [Threads -> BOOLEAN]
  OBVIOUS
<1>10. states \in [Threads -> States] /\ \A t \in Threads : states[t] = IF t \in Range(woken) THEN "READY" ELSE p_state[t]
  BY <1>1 DEF States
<1>11. all = Range(queue) \cup {r_current} /\ r_current \notin Range(queue)
  <2> HIDE DEF queue
  <2> QED
    BY <1>0, <1>4, <1>5
<1> HIDE DEF states, queue
<1>12. CASE required
  <2>1. /\ queue # <<>> /\ p_prio[h] >= p_prio[r_current]
    <3>1. queue # <<>>
      BY <1>12
    <3>2. p_prio[h] \in Int /\ p_prio[r_current] \in Int
      BY <1>0, <1>3, <1>7, <3>1
    <3> QED
      BY <1>12, <3>1, <3>2
  <2>2. /\ h \in Range(queue) /\ h \in Threads /\ (\A t \in Range(queue) : p_prio[t] =< p_prio[h])
        /\ InOrder(u, p_prio) /\ Range(u) = Range(queue) \ {h}
    BY <1>7, <2>1
  <2>3. /\ r_current' = h
        /\ r_queue' = IF sliceLeft THEN InsertAhead(u, r_current, p_prio) ELSE InsertBehind(u, r_current, p_prio)
        /\ p_state' = [states EXCEPT ![r_current] = "READY", ![h] = "CURRENT"]
    BY <1>8, <1>12
  <2> HIDE DEF h, u, required, all
  <2>4. r_current # h /\ r_current \notin Range(u)
    BY <1>11, <2>2
  <2>5. InOrder(r_queue', p_prio) /\ Range(r_queue') = Range(u) \cup {r_current}
    <3>1. /\ InOrder(InsertBehind(u, r_current, p_prio), p_prio)
          /\ Range(InsertBehind(u, r_current, p_prio)) = Range(u) \cup {r_current}
          /\ InOrder(InsertAhead(u, r_current, p_prio), p_prio)
          /\ Range(InsertAhead(u, r_current, p_prio)) = Range(u) \cup {r_current}
      BY <1>0, <1>1, <2>2, <2>4, InsertedBehind
    <3> QED
      BY <2>3, <3>1
  <2>6. p_state' \in [Threads -> States]
        /\ \A t \in Threads : p_state'[t] = IF t = h THEN "CURRENT" ELSE IF t = r_current THEN "READY" ELSE states[t]
    BY <1>0, <1>10, <2>2, <2>3, <2>4 DEF States
  <2>7. \A t \in Threads : p_state'[t] = IF t = h THEN "CURRENT" ELSE IF t \in all THEN "READY" ELSE p_state[t]
    BY <1>2, <1>10, <1>11, <1>5, <2>6
  <2>8. \A t \in all : p_prio[t] =< p_prio[h]
    BY <1>0, <1>3, <1>11, <2>1, <2>2
  <2>9. h \in all /\ Range(r_queue') = all \ {h}
    BY <1>11, <2>2, <2>4, <2>5
  <2>10. Dispatched(all, p_prio, p_state)
    BY <1>9, <2>3, <2>5, <2>6, <2>7, <2>8, <2>9 DEF Dispatched
  <2> QED
    BY <2>10 DEF all
<1>13. CASE ~required
  <2>1. r_queue' = queue /\ p_state' = states /\ r_current' = r_current
    BY <1>8, <1>13
  <2>2. \A t \in Range(queue) : p_prio[t] =< p_prio[r_current]
    <3> SUFFICES ASSUME NEW t \in Range(queue) PROVE p_prio[t] =< p_prio[r_current]
      OBVIOUS
    <3>1. queue # <<>>
      BY <1>6
    <3>2. p_prio[h] \in Int /\ p_prio[r_current] \in Int /\ p_prio[t] \in Int /\ p_prio[t] =< p_prio[h]
      BY <1>0, <1>3, <1>6, <1>7, <3>1
    <3>3. p_prio[h] =< p_prio[r_current]
      BY <1>13, <3>1, <3>2
    <3> QED
      BY <3>2, <3>3
  <2> HIDE DEF h, u, required, all
  <2>3. \A t \in all : p_prio[t] =< p_prio[r_current]
    BY <1>0, <1>3, <1>11, <2>2
  <2>4. \A t \in Threads : states[t] = IF t = r_current THEN "CURRENT" ELSE IF t \in all THEN "READY" ELSE p_state[t]
    BY <1>2, <1>4, <1>5, <1>10, <1>11
  <2>5. r_current \in all /\ Range(queue) = all \ {r_current}
    BY <1>11
  <2>6. Dispatched(all, p_prio, p_state)
    BY <1>5, <1>9, <1>10, <2>1, <2>3, <2>4, <2>5 DEF Dispatched
  <2> QED
    BY <2>6 DEF all
<1> QED
  BY <1>12, <1>13

-----------------------------------------------------------------------------
(* The walk of chMtxLockS.                                                 *)

\* A set of mutexes that is not empty has a last one in the order of taking.
LEMMA LastMutex ==
  ASSUME NEW T \in SUBSET Mutexes, T # {}
  PROVE  \E m \in T : \A k \in T : k =< m
<1> DEFINE above(m) == {k \in Mutexes : m < k}
           F == {above(m) : m \in T}
<1>0. Mutexes \subseteq Nat /\ IsFiniteSet(Mutexes)
  BY KernelAssumption DEF KernelAssumption
<1>1. F \subseteq FiniteSubsetsOf(Mutexes) /\ F # {}
  <2>1. \A m \in T : IsFiniteSet(above(m)) /\ above(m) \in SUBSET Mutexes
    BY <1>0, FS_Subset
  <2> QED
    BY <2>1 DEF FiniteSubsetsOf
<1>2. \E x \in F : \A y \in F : ~(<<y, x>> \in StrictSubsetOrdering(Mutexes))
  <2> HIDE DEF F
  <2> QED
    BY <1>0, <1>1, FS_StrictSubsetOrderingWellFounded, WFMin
<1>3. PICK m \in T : \A y \in F : ~(<<y, above(m)>> \in StrictSubsetOrdering(Mutexes))
  BY <1>2
<1>4. ASSUME NEW k \in T, ~(k =< m) PROVE FALSE
  <2>0. k \in Nat /\ m \in Nat /\ m < k /\ k \in Mutexes
    BY <1>0, <1>4
  <2>1. above(k) \subseteq above(m) /\ k \in above(m) /\ k \notin above(k)
    <3>1. \A j \in Mutexes : k < j => m < j
      BY ONLY <1>0, <2>0
    <3>2. ~(k < k)
      BY ONLY <2>0
    <3> QED
      BY ONLY <2>0, <3>1, <3>2
  <2>2. above(k) \in F
    OBVIOUS
  <2>3. above(k) # above(m) /\ above(k) \in SUBSET Mutexes /\ above(m) \in SUBSET Mutexes
    BY <2>1
  <2> HIDE DEF above
  <2>4. <<above(k), above(m)>> \in StrictSubsetOrdering(Mutexes)
    BY <2>1, <2>3 DEF StrictSubsetOrdering
  <2> QED
    BY <1>3, <2>2, <2>4
<1> QED
  BY <1>4

\* The thread that a waiting one waits for.
AheadOf(t) == m_owner[wtobjp(t)]
Waits(t) == p_state[t] = "WTMTX"
Below(t) == ~(p_prio[t] >= p_prio[r_current])

\* A waiting thread is in one queue, that of a mutex with an owner; if the owner
\* waits too, then for a higher mutex.
LEMMA WaitsForOwner ==
  ASSUME KernelTyped, InPlace, MutexesAgree, NEW t \in Threads, Waits(t)
  PROVE  /\ wtobjp(t) \in Mutexes /\ t \in Range(m_queue[wtobjp(t)])
         /\ \A m \in Mutexes : t \in Range(m_queue[m]) => m = wtobjp(t)
         /\ AheadOf(t) \in Threads
         /\ Waits(AheadOf(t)) => wtobjp(t) < wtobjp(AheadOf(t))
<1>1. \E m \in Mutexes : t \in Range(m_queue[m])
  BY DEF InPlace, Waits
<1>2. wtobjp(t) \in Mutexes /\ t \in Range(m_queue[wtobjp(t)])
  BY <1>1 DEF wtobjp
<1>3. \A m \in Mutexes : t \in Range(m_queue[m]) => m = wtobjp(t)
  BY <1>2 DEF InPlace
<1>4. AheadOf(t) \in Threads
  <2>1. m_queue[wtobjp(t)] \in Seq(Threads)
    BY <1>2 DEF KernelTyped
  <2>2. m_queue[wtobjp(t)] # <<>>
    BY <1>2, <2>1, Members
  <2>3. m_owner[wtobjp(t)] # NULL
    BY <1>2, <2>2 DEF MutexesAgree
  <2> QED
    BY <1>2, <2>3 DEF AheadOf, KernelTyped
<1>5. ASSUME Waits(AheadOf(t)) PROVE wtobjp(t) < wtobjp(AheadOf(t))
  <2>1. \E m \in Mutexes : AheadOf(t) \in Range(m_queue[m])
    BY <1>4, <1>5 DEF InPlace, Waits
  <2>2. wtobjp(AheadOf(t)) \in Mutexes /\ AheadOf(t) \in Range(m_queue[wtobjp(AheadOf(t))])
    BY <2>1 DEF wtobjp
  <2>3. m_owner[wtobjp(t)] = AheadOf(t)
    BY DEF AheadOf
  <2> QED
    BY <1>2, <1>4, <2>2, <2>3 DEF MutexesAgree
<1> QED
  BY <1>2, <1>3, <1>4, <1>5

\* Of the waiting threads that have something in common one waits for a thread that
\* does not have it.
LEMMA LastOfChain ==
  ASSUME KernelTyped, InPlace, MutexesAgree,
         NEW B \in SUBSET {t \in Threads : Waits(t)}, B # {}
  PROVE  \E t \in B : AheadOf(t) \in Threads \ B
<1> DEFINE T == {wtobjp(t) : t \in B}
<1>1. T \in SUBSET Mutexes /\ T # {}
  BY WaitsForOwner
<1>2. PICK m \in T : \A k \in T : k =< m
  <2> HIDE DEF T
  <2> QED
    BY <1>1, LastMutex
<1>3. PICK t \in B : wtobjp(t) = m
  BY <1>2
<1>4. /\ AheadOf(t) \in Threads /\ (Waits(AheadOf(t)) => wtobjp(t) < wtobjp(AheadOf(t)))
      /\ wtobjp(t) \in Mutexes
  BY WaitsForOwner
<1>5. ASSUME AheadOf(t) \in B PROVE FALSE
  <2>1. wtobjp(AheadOf(t)) \in T /\ Waits(AheadOf(t))
    BY <1>5
  <2>2. wtobjp(AheadOf(t)) =< wtobjp(t) /\ wtobjp(t) < wtobjp(AheadOf(t))
    BY <1>2, <1>3, <1>4, <2>1
  <2>3. wtobjp(AheadOf(t)) \in Nat /\ wtobjp(t) \in Nat
    BY <1>1, <1>4, <2>1, KernelAssumption DEF KernelAssumption
  <2> HIDE DEF T
  <2> QED
    BY <2>2, <2>3
<1> QED
  BY <1>4, <1>5

\* What the walk does from a thread on.
WalkFrom(f, t) ==
  IF p_prio[t] >= p_prio[r_current] THEN {}
  ELSE {t} \cup IF p_state[t] = "WTMTX" THEN f[m_owner[wtobjp(t)]] ELSE {}

\* The walk is defined whatever waits for whatever: it is the least set that holds
\* the first thread and with a thread that is passed the next.
LEMMA WalkIsWalked ==
  ASSUME KernelTyped, InPlace, MutexesAgree
  PROVE  \A t \in Threads : Affected[t] = WalkFrom(Affected, t)
<1> DEFINE Closed(S) == \A u \in S : Below(u) /\ Waits(u) => AheadOf(u) \in S
           Reach(t) == {u \in Threads : \A S \in SUBSET Threads : t \in S /\ Closed(S) => u \in S}
           g == [t \in Threads |-> {u \in Reach(t) : Below(t) /\ Below(u)}]
<1>1. \A t \in Threads : Waits(t) => AheadOf(t) \in Threads
  BY WaitsForOwner
<1>2. ASSUME NEW t \in Threads PROVE t \in Reach(t) /\ Reach(t) \in SUBSET Threads /\ Closed(Reach(t))
  BY <1>1
<1>3. ASSUME NEW t \in Threads, NEW S \in SUBSET Threads, t \in S, Closed(S) PROVE Reach(t) \subseteq S
  BY <1>3
<1>4. ASSUME NEW t \in Threads, Below(t), Waits(t) PROVE Reach(t) = {t} \cup Reach(AheadOf(t))
  <2> HIDE DEF Reach
  <2>1. AheadOf(t) \in Reach(t)
    BY <1>2, <1>4
  <2>2. Reach(AheadOf(t)) \subseteq Reach(t)
    BY <1>2, <1>3, <2>1, <1>1, <1>4
  <2>3. Closed({t} \cup Reach(AheadOf(t)))
    BY <1>1, <1>2, <1>4
  <2>4. Reach(t) \subseteq {t} \cup Reach(AheadOf(t))
    <3>1. {t} \cup Reach(AheadOf(t)) \in SUBSET Threads /\ t \in {t} \cup Reach(AheadOf(t))
      BY <1>1, <1>2, <1>4
    <3> HIDE DEF Closed
    <3> QED
      BY <1>3, <2>3, <3>1
  <2> QED
    BY <1>2, <2>2, <2>4
<1>5. ASSUME NEW t \in Threads, ~Waits(t) PROVE Reach(t) = {t}
  <2>1. Closed({t})
    BY <1>5
  <2> HIDE DEF Reach, Closed
  <2> QED
    BY <1>2, <1>3, <2>1
<1> HIDE DEF Reach
<1>6. ASSUME NEW t \in Threads PROVE g[t] = WalkFrom(g, t)
  <2>1. CASE ~Below(t)
    BY <2>1 DEF WalkFrom, Below
  <2>2. CASE Below(t) /\ Waits(t)
    <3>1. WalkFrom(g, t) = {t} \cup g[AheadOf(t)]
      BY <2>2 DEF WalkFrom, Below, Waits, AheadOf
    <3>2. g[t] = {u \in Reach(t) : Below(u)} /\ AheadOf(t) \in Threads
      BY <1>1, <2>2
    <3>3. ~Below(AheadOf(t)) => Reach(AheadOf(t)) = {AheadOf(t)}
      <4> SUFFICES ASSUME ~Below(AheadOf(t)) PROVE Reach(AheadOf(t)) = {AheadOf(t)}
        OBVIOUS
      <4>1. Closed({AheadOf(t)})
        OBVIOUS
      <4> HIDE DEF Closed
      <4> QED
        BY <1>2, <1>3, <3>2, <4>1
    <3>4. {u \in Reach(AheadOf(t)) : Below(u)} = g[AheadOf(t)]
      BY <3>2, <3>3
    <3>5. Reach(t) = {t} \cup Reach(AheadOf(t))
      BY <1>4, <2>2
    <3> HIDE DEF g
    <3> QED
      BY <2>2, <3>1, <3>2, <3>4, <3>5
  <2>3. CASE Below(t) /\ ~Waits(t)
    <3>1. WalkFrom(g, t) = {t}
      BY <2>3 DEF WalkFrom, Below, Waits
    <3>2. g[t] = {u \in Reach(t) : Below(u)} /\ Reach(t) = {t}
      BY <1>5, <2>3
    <3> HIDE DEF g
    <3> QED
      BY <2>3, <3>1, <3>2
  <2> QED
    BY <2>1, <2>2, <2>3
<1>7. g = [t \in Threads |-> WalkFrom(g, t)]
  <2>1. g = [t \in Threads |-> g[t]]
    OBVIOUS
  <2> HIDE DEF g
  <2> QED
    BY <1>6, <2>1
<1> DEFINE D == CHOOSE h : h = [t \in Threads |-> WalkFrom(h, t)]
<1>8. D = [t \in Threads |-> WalkFrom(D, t)]
  <2> HIDE DEF g
  <2> QED
    BY <1>7
<1>9. Affected = D
  BY DEF Affected, WalkFrom
<1> HIDE DEF D
<1> QED
  BY <1>8, <1>9

\* What is known of a walk: it passes threads below the current one only, ...
Lower(S) == \A u \in S : u \in Threads /\ Below(u)

\* ... does not stop before one that is not below, ...
Whole(S) == \A u \in S : Waits(u) /\ Below(AheadOf(u)) => AheadOf(u) \in S

\* ... starts at t and comes to any other from one that waits for it, ...
Linked(S, t) == /\ Below(t) => t \in S
                /\ \A u \in S : u # t => \E v \in S : Waits(v) /\ AheadOf(v) = u

\* ... and passes no mutex twice, and one thread at most that does not wait.
PassesOnce(S, t) ==
  /\ \A u \in S : u # t => Waits(t) /\ (Waits(u) => wtobjp(t) < wtobjp(u))
  /\ \A u, v \in S : Waits(u) /\ Waits(v) /\ wtobjp(u) = wtobjp(v) => u = v
  /\ \A u, v \in S : ~Waits(u) /\ ~Waits(v) => u = v

Walked(S, t) == Lower(S) /\ Whole(S) /\ Linked(S, t) /\ PassesOnce(S, t)

\* One thread before a walk.
LEMMA WalkGoesOn ==
  ASSUME KernelTyped, InPlace, MutexesAgree, NEW t \in Threads, Waits(t), Below(t),
         NEW S, Walked(S, AheadOf(t)), ~Below(AheadOf(t)) => S = {}
  PROVE  Walked({t} \cup S, t)
<1> DEFINE n == AheadOf(t)
           R == {t} \cup S
<1>1. n \in Threads /\ (Waits(n) => wtobjp(t) < wtobjp(n)) /\ wtobjp(t) \in Nat
  BY WaitsForOwner, KernelAssumption DEF KernelAssumption
<1>2. Lower(S) /\ Whole(S) /\ Linked(S, n) /\ PassesOnce(S, n)
  BY DEF Walked
<1>3. \A u \in S : u \in Threads /\ Below(u) /\ (Waits(u) => wtobjp(u) \in Nat)
  BY <1>2, WaitsForOwner, KernelAssumption DEF Lower, KernelAssumption
<1>4. Lower(R)
  BY <1>3 DEF Lower
<1>5. Whole(R)
  BY <1>2 DEF Whole, Linked
<1>6. Linked(R, t)
  <2>1. \A u \in S : u = n \/ \E v \in S : Waits(v) /\ AheadOf(v) = u
    BY <1>2 DEF Linked
  <2> QED
    BY <2>1 DEF Linked
<1>7. \A u \in S : Waits(u) => wtobjp(t) < wtobjp(u)
  <2> SUFFICES ASSUME NEW u \in S, Waits(u) PROVE wtobjp(t) < wtobjp(u)
    OBVIOUS
  <2>1. CASE u = n
    BY <1>1, <2>1
  <2>2. CASE u # n
    <3>1. Waits(n) /\ wtobjp(n) < wtobjp(u)
      BY <1>2, <2>2 DEF PassesOnce
    <3>2. wtobjp(n) \in Nat
      BY <1>1, <3>1, WaitsForOwner, KernelAssumption DEF KernelAssumption
    <3> QED
      BY <1>1, <1>3, <3>1, <3>2
  <2> QED
    BY <2>1, <2>2
<1>8. PassesOnce(R, t)
  <2>1. \A u \in R : u # t => Waits(t) /\ (Waits(u) => wtobjp(t) < wtobjp(u))
    BY <1>7
  <2>2. ASSUME NEW u \in R, NEW v \in R, Waits(u), Waits(v), wtobjp(u) = wtobjp(v) PROVE u = v
    <3>1. CASE u \in S /\ v \in S
      BY <1>2, <2>2, <3>1 DEF PassesOnce
    <3>2. CASE u = t
      BY <1>1, <1>7, <2>2, <3>2
    <3>3. CASE v = t
      BY <1>1, <1>7, <2>2, <3>3
    <3> QED
      BY <3>1, <3>2, <3>3
  <2>3. ASSUME NEW u \in R, NEW v \in R, ~Waits(u), ~Waits(v) PROVE u = v
    <3>1. u \in S /\ v \in S
      BY <2>3
    <3> QED
      BY <1>2, <2>3, <3>1 DEF PassesOnce
  <2> QED
    BY <2>1, <2>2, <2>3 DEF PassesOnce
<1> QED
  BY <1>4, <1>5, <1>6, <1>8 DEF Walked

\* The threads that chMtxLockS passes: every chain of waiting threads ends, at one
\* that waits for none or that the current thread is not above.
LEMMA AffectedIsWalk ==
  ASSUME KernelTyped, InPlace, MutexesAgree
  PROVE  \A t \in Threads : Walked(Affected[t], t) /\ (~Below(t) => Affected[t] = {})
<1> DEFINE Fine(t) == Walked(Affected[t], t)
           B == {t \in Threads : Waits(t) /\ ~Fine(t)}
<1>1. \A t \in Threads : Affected[t] = WalkFrom(Affected, t)
  BY WalkIsWalked
<1>2. \A t \in Threads : ~Below(t) => Affected[t] = {}
  BY <1>1 DEF WalkFrom, Below
<1>3. ASSUME NEW t \in Threads, ~Below(t) PROVE Fine(t)
  BY <1>2, <1>3 DEF Walked, Lower, Whole, Linked, PassesOnce
<1>4. ASSUME NEW t \in Threads, Below(t), ~Waits(t) PROVE Fine(t)
  <2>1. Affected[t] = {t}
    BY <1>1, <1>4 DEF WalkFrom, Below, Waits
  <2>2. Walked({t}, t)
    BY <1>4 DEF Walked, Lower, Whole, Linked, PassesOnce
  <2> QED
    BY <2>1, <2>2
<1>5. ASSUME NEW t \in Threads, Below(t), Waits(t), AheadOf(t) \in Threads, Fine(AheadOf(t)) PROVE Fine(t)
  <2>1. Affected[t] = {t} \cup Affected[AheadOf(t)]
    BY <1>1, <1>5 DEF WalkFrom, Below, Waits, AheadOf
  <2>2. Walked({t} \cup Affected[AheadOf(t)], t)
    BY <1>2, <1>5, WalkGoesOn
  <2> QED
    BY <2>1, <2>2
<1> HIDE DEF Fine
<1>6. ASSUME B # {} PROVE FALSE
  <2>1. PICK t \in B : AheadOf(t) \in Threads \ B
    BY <1>6, LastOfChain
  <2>2. Fine(AheadOf(t))
    BY <1>3, <1>4, <2>1
  <2> QED
    BY <1>3, <1>5, <2>1, <2>2
<1>7. \A t \in Threads : Fine(t)
  BY <1>3, <1>4, <1>6
<1> QED
  BY <1>2, <1>7 DEF Fine

-----------------------------------------------------------------------------
(* Priorities.                                                             *)

\* Every set of priorities that is not empty has a greatest one.
LEMMA MaxIs ==
  ASSUME NEW S \in SUBSET Prios, S # {}
  PROVE  Max(S) \in S /\ \A x \in S : x =< Max(S)
<1>1. \E x \in S : \A y \in S : x >= y
  <2>1. CASE 4 \in S
    BY <2>1 DEF Prios
  <2>2. CASE 4 \notin S /\ 3 \in S
    <3>1. \A y \in S : 3 >= y
      BY <2>2 DEF Prios
    <3> QED
      BY <2>2, <3>1
  <2>3. CASE 4 \notin S /\ 3 \notin S /\ 2 \in S
    <3>1. \A y \in S : 2 >= y
      BY <2>3 DEF Prios
    <3> QED
      BY <2>3, <3>1
  <2>4. CASE 4 \notin S /\ 3 \notin S /\ 2 \notin S
    <3>1. \A y \in S : y = 1
      BY <2>4 DEF Prios
    <3> QED
      BY <3>1
  <2> QED
    BY <2>1, <2>2, <2>3, <2>4
<1>2. Max(S) \in S /\ \A x \in S : Max(S) >= x
  BY <1>1 DEF Max
<1>3. \A x \in S : x \in Int
  BY DEF Prios
<1> QED
  BY <1>2, <1>3

\* main makes its threads with these priorities.
LEMMA RealPrios == p_realprio \in [Threads -> Prios]
BY DEF p_realprio, Prios

\* A thread has its own priority or that of one that waits for it, the highest of them.
Exact(t, prio, waiters) ==
  /\ prio[t] = p_realprio[t] \/ \E u \in waiters : prio[t] = prio[u]
  /\ p_realprio[t] =< prio[t]
  /\ \A u \in waiters : prio[u] =< prio[t]

\* The maximum of InheritanceExact, without naming it.
LEMMA ExactlyInherited ==
  ASSUME NEW prio \in [Threads -> Prios], NEW t \in Threads, NEW W \in SUBSET Threads
  PROVE  prio[t] = Max({p_realprio[t]} \cup {prio[u] : u \in W}) <=> Exact(t, prio, W)
<1> DEFINE S == {p_realprio[t]} \cup {prio[u] : u \in W}
<1>1. S \in SUBSET Prios /\ S # {}
  BY RealPrios
<1>2. Max(S) \in S /\ \A x \in S : x =< Max(S)
  <2> HIDE DEF S
  <2> QED
    BY <1>1, MaxIs
<1>3. ASSUME prio[t] = Max(S) PROVE Exact(t, prio, W)
  BY <1>2, <1>3 DEF Exact
<1>4. ASSUME Exact(t, prio, W) PROVE prio[t] = Max(S)
  <2>1. prio[t] \in S /\ \A x \in S : x =< prio[t]
    BY <1>4 DEF Exact
  <2>2. Max(S) \in Int /\ prio[t] \in Int
    BY <1>1, <1>2 DEF Prios
  <2>3. Max(S) =< prio[t] /\ prio[t] =< Max(S)
    <3> HIDE DEF S
    <3> QED
      BY <1>2, <2>1
  <2> HIDE DEF S
  <2> QED
    BY <2>2, <2>3
<1> QED
  BY <1>3, <1>4

\* The threads that wait for a mutex of t.
Waiters(t) == UNION {Range(m_queue[m]) : m \in Range(p_mtxlist[t])}

\* Those that wait for mutexes of t are those whose next thread along the chain is t.
LEMMA WaitersAre ==
  ASSUME KernelTyped, InPlace, MutexesAgree, NEW t \in Threads
  PROVE  /\ Waiters(t) \in SUBSET Threads
         /\ \A u : u \in Waiters(t) <=> u \in Threads /\ Waits(u) /\ AheadOf(u) = t
<1>1. Range(p_mtxlist[t]) \subseteq Mutexes /\ \A m \in Mutexes : m \in Range(p_mtxlist[t]) <=> m_owner[m] = t
  BY DEF KernelTyped, MutexesAgree, Range
<1>2. \A m \in Mutexes : Range(m_queue[m]) \subseteq Threads
  BY Members DEF KernelTyped
<1>3. ASSUME NEW u \in Waiters(t) PROVE u \in Threads /\ Waits(u) /\ AheadOf(u) = t
  <2>1. PICK m \in Range(p_mtxlist[t]) : u \in Range(m_queue[m])
    BY <1>3 DEF Waiters
  <2>2. m \in Mutexes /\ m_owner[m] = t /\ u \in Threads
    BY <1>1, <1>2, <2>1
  <2>3. Waits(u)
    BY <2>1, <2>2 DEF Waits, InPlace
  <2>4. wtobjp(u) = m
    BY <2>1, <2>2, <2>3, WaitsForOwner
  <2> QED
    BY <2>2, <2>3, <2>4 DEF AheadOf
<1>4. ASSUME NEW u \in Threads, Waits(u), AheadOf(u) = t PROVE u \in Waiters(t)
  <2>1. wtobjp(u) \in Mutexes /\ u \in Range(m_queue[wtobjp(u)])
    BY <1>4, WaitsForOwner
  <2>2. m_owner[wtobjp(u)] = t
    BY <1>4 DEF AheadOf
  <2> QED
    BY <1>1, <2>1, <2>2 DEF Waiters
<1> QED
  BY <1>3, <1>4

\* InheritanceExact, thread by thread.
LEMMA InheritedFromWaiters ==
  ASSUME KernelTyped, InPlace, MutexesAgree
  PROVE  InheritanceExact <=> \A t \in Threads : Exact(t, p_prio, Waiters(t))
<1>1. p_prio \in [Threads -> Prios]
  BY DEF KernelTyped
<1>2. ASSUME NEW t \in Threads
      PROVE  p_prio[t] = Max({p_realprio[t]} \cup {p_prio[u] : u \in Waiters(t)}) <=> Exact(t, p_prio, Waiters(t))
  BY <1>1, WaitersAre, ExactlyInherited
<1> QED
  BY <1>2 DEF InheritanceExact, Waiters

\* Raising the threads of a walk to the priority of the one that begins to wait.
RaisedBy(p, W, c, o, A, q) ==
  /\ \A u \in A : p[u] < p[c]
  /\ \A t \in Threads, u \in A : u \in W[t] /\ p[t] < p[c] => t \in A
  /\ \A t \in A : t # o => \E v \in A : v \in W[t]
  /\ p[o] < p[c] => o \in A
  /\ ~(p[o] < p[c]) => A = {}
  /\ \A t \in Threads : q[t] = IF t \in A THEN p[c] ELSE p[t]

\* When c begins to wait for o, raising to c's priority all of the walk from o makes
\* every priority exact again: the walk stops only before threads that are above.
LEMMA RaisedExactly ==
  ASSUME NEW p \in [Threads -> Prios], NEW W \in [Threads -> SUBSET Threads],
         \A t \in Threads : Exact(t, p, W[t]),
         NEW c \in Threads, NEW o \in Threads, NEW A \in SUBSET Threads,
         NEW q \in [Threads -> Prios], RaisedBy(p, W, c, o, A, q)
  PROVE  \A t \in Threads : Exact(t, q, W[t] \cup (IF t = o THEN {c} ELSE {}))
<1> USE DEF RaisedBy
<1> SUFFICES ASSUME NEW t \in Threads PROVE Exact(t, q, W[t] \cup (IF t = o THEN {c} ELSE {}))
  OBVIOUS
<1> DEFINE V == W[t] \cup (IF t = o THEN {c} ELSE {})
<1>0. /\ p_realprio[t] \in Int /\ W[t] \in SUBSET Threads /\ V \in SUBSET Threads
      /\ \A u \in Threads : p[u] \in Int /\ q[u] \in Int
  BY RealPrios DEF Prios
<1>1. /\ p[t] = p_realprio[t] \/ \E u \in W[t] : p[t] = p[u]
      /\ p_realprio[t] =< p[t] /\ \A u \in W[t] : p[u] =< p[t]
  BY DEF Exact
<1>2. c \notin A /\ q[c] = p[c]
  BY <1>0
<1>3. CASE t \in A
  <2>1. q[t] = p[c] /\ p[t] < p[c]
    BY <1>3
  <2>2. \E u \in V : q[t] = q[u]
    <3>1. CASE t = o
      BY <1>2, <2>1, <3>1
    <3>2. CASE t # o
      <4>1. PICK v \in A : v \in W[t]
        BY <1>3, <3>2
      <4> QED
        BY <2>1, <4>1
    <3> QED
      BY <3>1, <3>2
  <2>3. p_realprio[t] =< q[t]
    BY <1>0, <1>1, <2>1
  <2>4. ASSUME NEW u \in V PROVE q[u] =< q[t]
    <3>1. CASE u = c
      BY <1>0, <1>2, <2>1, <3>1
    <3>2. CASE u \in W[t]
      <4>1. p[u] =< p[t] /\ p[u] \in Int /\ p[t] \in Int /\ p[c] \in Int /\ u \in Threads
        BY <1>0, <1>1, <3>2
      <4>2. q[u] = p[c] \/ q[u] = p[u]
        BY <4>1
      <4> QED
        BY <2>1, <4>1, <4>2
    <3> QED
      BY <2>4, <3>1, <3>2
  <2> QED
    BY <2>2, <2>3, <2>4 DEF Exact
<1>4. CASE t \notin A
  <2>1. q[t] = p[t]
    BY <1>4
  <2>2. p[t] = p_realprio[t] \/ \E u \in V : q[t] = q[u]
    <3> SUFFICES ASSUME NEW u \in W[t], p[t] = p[u] PROVE q[t] = q[u]
      BY <1>1
    <3>1. u \notin A
      BY <1>4
    <3> QED
      BY <1>0, <2>1, <3>1
  <2>3. ASSUME NEW u \in V PROVE q[u] =< q[t]
    <3>1. CASE u \in W[t] /\ u \notin A
      BY <1>0, <1>1, <2>1, <3>1
    <3>2. CASE u \in W[t] /\ u \in A
      <4>1. ~(p[t] < p[c])
        BY <1>4, <3>2
      <4>2. q[u] = p[c]
        BY <3>2
      <4> QED
        BY <1>0, <2>1, <4>1, <4>2
    <3>3. CASE t = o /\ u = c
      <4>1. ~(p[o] < p[c])
        BY <1>4, <3>3
      <4> QED
        BY <1>0, <1>2, <2>1, <3>3, <4>1
    <3> QED
      BY <2>3, <3>1, <3>2, <3>3
  <2> QED
    BY <1>1, <2>1, <2>2, <2>3 DEF Exact
<1> QED
  BY <1>3, <1>4

\* A list of which at most one member gets another priority, with that one moved to its
\* new place.
LEMMA RequeuedOnce ==
  ASSUME p_prio \in [Threads -> Prios], NEW prio \in [Threads -> Prios],
         NEW q, InOrder(q, p_prio), NEW A, \A u, v \in Range(q) \cap A : u = v,
         \A t \in Threads \ A : prio[t] = p_prio[t]
  PROVE  InOrder(Requeue(q, A, prio), prio) /\ Range(Requeue(q, A, prio)) = Range(q)
<1>1. q \in Seq(Threads) /\ DOMAIN q = 1 .. Len(q)
  BY DEF InOrder
<1>2. Range(q) \subseteq Threads /\ \A t : t \in Range(q) <=> \E i \in 1 .. Len(q) : q[i] = t
  BY <1>1, Members
<1>3. CASE Range(q) \cap A = {}
  <2>1. Requeue(q, A, prio) = q
    BY <1>3 DEF Requeue
  <2>2. InOrder(q, prio)
    BY <1>2, <1>3, OrderStays
  <2> QED
    BY <2>1, <2>2
<1>4. CASE Range(q) \cap A # {}
  <2> DEFINE i == CHOOSE i \in DOMAIN q : q[i] \in A
             t == q[i]
             r == RemoveAt(q, i)
  <2>1. i \in 1 .. Len(q) /\ q[i] \in A
    <3>1. \E k \in DOMAIN q : q[k] \in A
      BY <1>1, <1>2, <1>4
    <3> QED
      BY <1>1, <3>1
  <2>2. Requeue(q, A, prio) = InsertBehind(r, t, prio)
    BY <1>4 DEF Requeue
  <2> HIDE DEF i
  <2>3. InOrder(r, p_prio) /\ Range(r) = Range(q) \ {t}
    BY <2>1, Removed
  <2>4. t \in Range(q) /\ t \in A /\ t \in Threads
    BY <1>2, <2>1
  <2> HIDE DEF t, r
  <2>5. InOrder(r, prio)
    <3>1. \A u \in Range(r) : prio[u] = p_prio[u]
      BY <1>2, <2>3, <2>4
    <3> QED
      BY <2>3, <3>1, OrderStays
  <2>6. t \notin Range(r)
    BY <2>3
  <2>7. /\ InOrder(InsertBehind(r, t, prio), prio) /\ Range(InsertBehind(r, t, prio)) = Range(r) \cup {t}
    BY <2>4, <2>5, <2>6, InsertedBehind
  <2> QED
    BY <2>2, <2>3, <2>4, <2>7
<1> QED
  BY <1>3, <1>4

\* The same for the next state.
LEMMA InheritedThen ==
  ASSUME p_prio' \in [Threads -> Prios],
         \A t \in Threads : Waiters(t)' \in SUBSET Threads /\ Exact(t, p_prio', Waiters(t)')
  PROVE  InheritanceExact'
<1>1. ASSUME NEW t \in Threads
      PROVE  p_prio'[t] = Max({p_realprio[t]} \cup {p_prio'[u] : u \in Waiters(t)'})
  BY <1>1, ExactlyInherited
<1> QED
  BY <1>1 DEF InheritanceExact, Waiters

-----------------------------------------------------------------------------
(* The calls and interrupts.                                               *)

\* A dispatch puts every thread where its state says, if the other lists agree.
LEMMA Placed ==
  ASSUME NEW ready \in SUBSET Threads, idle \in ready, NEW prio, NEW others, Dispatched(ready, prio, others),
         \A t \in ready : t \notin Range(s_queue') /\ \A m \in Mutexes : t \notin Range(m_queue'[m]),
         \A t \in Threads \ ready :
           /\ others[t] \notin {"CURRENT", "READY"}
           /\ others[t] = "WTMTX" <=> \E m \in Mutexes : t \in Range(m_queue'[m])
           /\ others[t] = "WTSEM" <=> t \in Range(s_queue'),
         \A m, k \in Mutexes, t \in Threads : t \in Range(m_queue'[m]) /\ t \in Range(m_queue'[k]) => m = k
  PROVE  InPlace'
<1>1. /\ r_current' \in ready /\ Range(r_queue') = ready \ {r_current'}
      /\ \A t \in Threads : p_state'[t] = IF t = r_current' THEN "CURRENT"
                                          ELSE IF t \in ready THEN "READY" ELSE others[t]
  BY DEF Dispatched
<1>2. \A t \in Threads : p_state'[t] = "CURRENT" <=> t = r_current'
  BY <1>1
<1>3. \A t \in Threads : p_state'[t] = "READY" <=> t \in Range(r_queue')
  BY <1>1
<1>4. \A t \in Threads : p_state'[t] = "WTMTX" <=> \E m \in Mutexes : t \in Range(m_queue'[m])
  BY <1>1
<1>5. \A t \in Threads : p_state'[t] = "WTSEM" <=> t \in Range(s_queue')
  BY <1>1
<1>6. p_state'[idle] \in {"CURRENT", "READY"}
  BY <1>1 DEF Threads
<1> QED
  BY <1>2, <1>3, <1>4, <1>5, <1>6 DEF InPlace

\* Whoever is not ready nor current is where its state says.
LEMMA Elsewhere ==
  ASSUME KernelTyped, InPlace
  PROVE  /\ idle \in Range(r_queue) \cup {r_current}
         /\ Range(r_queue) \cup {r_current} \subseteq Threads
         /\ \A t \in Range(r_queue) \cup {r_current} :
              t \notin Range(s_queue) /\ \A m \in Mutexes : t \notin Range(m_queue[m])
         /\ \A t \in Threads \ (Range(r_queue) \cup {r_current}) :
              /\ p_state[t] \notin {"CURRENT", "READY"}
              /\ p_state[t] = "WTMTX" <=> \E m \in Mutexes : t \in Range(m_queue[m])
              /\ p_state[t] = "WTSEM" <=> t \in Range(s_queue)
         /\ \A m, k \in Mutexes, t \in Threads : t \in Range(m_queue[m]) /\ t \in Range(m_queue[k]) => m = k
<1>1. Range(r_queue) \subseteq Threads /\ r_current \in Threads /\ idle \in Threads
  BY Members DEF KernelTyped, Threads
<1>2. \A t \in Threads : /\ p_state[t] = "CURRENT" <=> t = r_current
                         /\ p_state[t] = "READY" <=> t \in Range(r_queue)
                         /\ p_state[t] = "WTMTX" <=> \E m \in Mutexes : t \in Range(m_queue[m])
                         /\ p_state[t] = "WTSEM" <=> t \in Range(s_queue)
  BY DEF InPlace
<1>3. idle \in Range(r_queue) \cup {r_current}
  BY <1>1, <1>2 DEF InPlace
<1>4. \A t \in Range(r_queue) \cup {r_current} :
        t \notin Range(s_queue) /\ \A m \in Mutexes : t \notin Range(m_queue[m])
  BY <1>1, <1>2
<1>5. \A m, k \in Mutexes, t \in Threads : t \in Range(m_queue[m]) /\ t \in Range(m_queue[k]) => m = k
  BY DEF InPlace
<1> QED
  BY <1>1, <1>2, <1>3, <1>4, <1>5

\* A dispatch that leaves the mutexes and the priorities alone.
LEMMA OnlyDispatched ==
  ASSUME KernelInv, UNCHANGED <<p_prio, mutexVars>>, NEW ready \in SUBSET Threads, NEW others,
         Dispatched(ready, p_prio, others), InPlace', SemaphoreAgrees',
         s_cnt' \in Int, s_queue' \in Seq(Threads), holder' \in Threads \cup {NULL}
  PROVE  KernelInv'
<1>1. p_prio' = p_prio /\ p_mtxlist' = p_mtxlist /\ m_owner' = m_owner /\ m_queue' = m_queue
  BY DEF mutexVars
<1>2. /\ r_current' \in ready /\ Range(r_queue') = ready \ {r_current'}
      /\ InOrder(r_queue', p_prio) /\ \A t \in ready : p_prio[t] =< p_prio[r_current']
      /\ p_preempt' \in [Threads -> BOOLEAN] /\ p_state' \in [Threads -> States]
  BY DEF Dispatched
<1>3. r_queue' \in Seq(Threads)
  BY <1>2 DEF InOrder
<1>4. KernelTyped'
  BY <1>1, <1>2, <1>3 DEF KernelInv, KernelTyped, States
<1>5. AllInOrder'
  BY <1>1, <1>2 DEF KernelInv, AllInOrder
<1>6. NoneAbove'
  BY <1>1, <1>2 DEF NoneAbove
<1>7. MutexesAgree'
  BY <1>1 DEF KernelInv, MutexesAgree
<1>8. InheritanceExact'
  <2>1. KernelTyped /\ InPlace /\ MutexesAgree /\ InheritanceExact
    BY DEF KernelInv
  <2>2. ASSUME NEW t \in Threads PROVE Waiters(t)' \in SUBSET Threads /\ Exact(t, p_prio', Waiters(t)')
    <3>1. Waiters(t)' = Waiters(t)
      BY <1>1 DEF Waiters
    <3>2. Waiters(t) \in SUBSET Threads /\ Exact(t, p_prio, Waiters(t))
      BY <2>1, WaitersAre, InheritedFromWaiters
    <3> QED
      BY <1>1, <3>1, <3>2
  <2>3. p_prio' \in [Threads -> Prios]
    BY <1>1, <2>1 DEF KernelTyped
  <2> QED
    BY <2>2, <2>3, InheritedThen
<1> QED
  BY <1>4, <1>5, <1>6, <1>7, <1>8 DEF KernelInv

\* The threads to be woken, in one order or another.
LEMMA Woken ==
  ASSUME NEW W \in SUBSET User, NEW woken \in SetToSeqs(W)
  PROVE  /\ woken \in Seq(Threads) /\ Range(woken) \subseteq W
         /\ \A i \in 1 .. Len(woken) : woken[i] \in W
         /\ \A i, j \in 1 .. Len(woken) : i # j => woken[i] # woken[j]
<1>1. IsFiniteSet(W) /\ Cardinality(W) \in Nat
  BY KernelAssumption, FS_Subset, FS_CardinalityType DEF KernelAssumption
<1> DEFINE n == Cardinality(W)
<1>2. woken \in [1 .. n -> W] /\ \A i, j \in 1 .. n : i # j => woken[i] # woken[j]
  BY DEF SetToSeqs
<1>3. n \in Nat /\ W \subseteq Threads
  BY <1>1 DEF Threads
<1> HIDE DEF n
<1>4. woken \in Seq(Threads) /\ Len(woken) = n
  BY <1>2, <1>3
<1>5. Range(woken) \subseteq W
  BY <1>2 DEF Range
<1> QED
  BY <1>2, <1>4, <1>5

\* A tick or a driver's interrupt wakes threads in any order.
LEMMA InterruptKeeps ==
  ASSUME KernelInv, Interrupt
  PROVE  KernelInv'
<1>0. KernelTyped /\ InPlace /\ AllInOrder /\ NoneAbove /\ SemaphoreAgrees
  BY DEF KernelInv
<1>1. PICK taken \in BOOLEAN, W \in SUBSET {t \in User : p_state[t] = "SLEEPING"} :
        /\ \E woken \in SetToSeqs(W) : ReadyAndReschedule(woken, p_preempt[r_current] /\ ~taken)
        /\ p_preempt' = [p_preempt EXCEPT ![r_current] = (p_preempt[r_current] /\ ~taken)
                                                          \/ r_current' # r_current]
        /\ UNCHANGED <<p_prio, mutexVars, semVars>>
  BY DEF Interrupt
<1>2. PICK woken \in SetToSeqs(W) : ReadyAndReschedule(woken, p_preempt[r_current] /\ ~taken)
  BY <1>1
<1>20. p_preempt' \in [Threads -> BOOLEAN]
  <2>1. p_preempt \in [Threads -> BOOLEAN]
    BY <1>0 DEF KernelTyped
  <2>2. ((p_preempt[r_current] /\ ~taken) \/ r_current' # r_current) \in BOOLEAN
    OBVIOUS
  <2> QED
    BY <1>1, <2>1, <2>2
<1>3. UNCHANGED <<p_prio, mutexVars>> /\ UNCHANGED <<m_queue, s_cnt, s_queue, holder>>
  BY <1>1 DEF mutexVars, semVars
<1>4. W \in SUBSET User /\ W \subseteq Threads /\ \A t \in W : p_state[t] = "SLEEPING"
  BY DEF Threads
<1>5. /\ woken \in Seq(Threads) /\ Range(woken) \subseteq W
      /\ \A i \in 1 .. Len(woken) : woken[i] \in W
      /\ \A i, j \in 1 .. Len(woken) : i # j => woken[i] # woken[j]
  BY <1>4, Woken
<1>6. \A i \in 1 .. Len(woken) : p_state[woken[i]] \notin {"CURRENT", "READY"}
  BY <1>4, <1>5
<1> DEFINE sliceLeft == p_preempt[r_current] /\ ~taken
<1>7. sliceLeft \in BOOLEAN /\ ReadyAndReschedule(woken, sliceLeft)
  BY <1>2
<1> HIDE DEF sliceLeft
<1> DEFINE ready == Range(r_queue) \cup {r_current} \cup Range(woken)
<1>8. Dispatched(ready, p_prio, p_state)
  BY <1>0, <1>5, <1>6, <1>7, <1>20, AfterReschedule
<1>9. InPlace'
  <2>1. ready \in SUBSET Threads /\ idle \in ready
    BY <1>0, <1>4, <1>5, Elsewhere
  <2>2. \A t \in Range(woken) : p_state[t] = "SLEEPING" /\ t \in Threads
    BY <1>4, <1>5
  <2>3. \A t \in ready : t \notin Range(s_queue) /\ \A m \in Mutexes : t \notin Range(m_queue[m])
    <3>1. \A t \in Range(woken) : t \notin Range(s_queue) /\ \A m \in Mutexes : t \notin Range(m_queue[m])
      BY <1>0, <2>2 DEF InPlace
    <3> QED
      BY <1>0, <3>1, Elsewhere
  <2>4. \A t \in Threads \ ready :
           /\ p_state[t] \notin {"CURRENT", "READY"}
           /\ p_state[t] = "WTMTX" <=> \E m \in Mutexes : t \in Range(m_queue[m])
           /\ p_state[t] = "WTSEM" <=> t \in Range(s_queue)
    BY <1>0, Elsewhere
  <2>5. \A m, k \in Mutexes, t \in Threads : t \in Range(m_queue[m]) /\ t \in Range(m_queue[k]) => m = k
    BY <1>0, Elsewhere
  <2>6. s_queue' = s_queue /\ m_queue' = m_queue
    BY <1>3
  <2> HIDE DEF ready
  <2> QED
    BY <1>8, <2>1, <2>3, <2>4, <2>5, <2>6, Placed
<1>10. SemaphoreAgrees' /\ s_cnt' \in Int /\ s_queue' \in Seq(Threads) /\ holder' \in Threads \cup {NULL}
  BY <1>0, <1>3 DEF SemaphoreAgrees, KernelTyped
<1>11. ready \in SUBSET Threads
  BY <1>0, <1>4, <1>5, Elsewhere
<1> HIDE DEF ready
<1> QED
  BY <1>3, <1>8, <1>9, <1>10, <1>11, OnlyDispatched

\* A thread goes to sleep, for a time or until a driver wakes it.
LEMMA SleepKeeps ==
  ASSUME KernelInv, Sleep
  PROVE  KernelInv'
<1>0. KernelTyped /\ InPlace /\ AllInOrder /\ NoneAbove /\ SemaphoreAgrees
  BY DEF KernelInv
<1>1. r_current # idle /\ GoSleepS(r_queue, "SLEEPING") /\ UNCHANGED <<p_prio, mutexVars>>
      /\ UNCHANGED <<m_queue, s_cnt, s_queue, holder>>
  BY DEF Sleep, mutexVars, semVars
<1> DEFINE others == [p_state EXCEPT ![r_current] = "SLEEPING"]
<1>2. Dispatched(Range(r_queue), p_prio, others)
  <2>1. InOrder(r_queue, p_prio) /\ p_prio \in [Threads -> Prios] /\ "SLEEPING" \in States
    BY <1>0 DEF AllInOrder, KernelTyped, States
  <2> QED
    BY <1>0, <1>1, <2>1, AfterSleep
<1>3. \A t \in Threads : others[t] = IF t = r_current THEN "SLEEPING" ELSE p_state[t]
  BY <1>0 DEF KernelTyped
<1> HIDE DEF others
<1>4. Range(r_queue) \in SUBSET Threads /\ idle \in Range(r_queue)
  BY <1>0, <1>1, CurrentIsNowhere, Elsewhere
<1>5. InPlace'
  <2>1. \A t \in Threads \ Range(r_queue) :
           /\ others[t] \notin {"CURRENT", "READY"}
           /\ others[t] = "WTMTX" <=> \E m \in Mutexes : t \in Range(m_queue[m])
           /\ others[t] = "WTSEM" <=> t \in Range(s_queue)
    BY <1>0, <1>3, Elsewhere, CurrentIsNowhere
  <2>2. \A t \in Range(r_queue) : t \notin Range(s_queue) /\ \A m \in Mutexes : t \notin Range(m_queue[m])
    BY <1>0, Elsewhere
  <2>3. \A m, k \in Mutexes, t \in Threads : t \in Range(m_queue[m]) /\ t \in Range(m_queue[k]) => m = k
    BY <1>0, Elsewhere
  <2>4. s_queue' = s_queue /\ m_queue' = m_queue
    BY <1>1
  <2> QED
    BY <1>2, <1>4, <2>1, <2>2, <2>3, <2>4, Placed
<1>6. SemaphoreAgrees' /\ s_cnt' \in Int /\ s_queue' \in Seq(Threads) /\ holder' \in Threads \cup {NULL}
  BY <1>0, <1>1 DEF SemaphoreAgrees, KernelTyped
<1> QED
  BY <1>1, <1>2, <1>4, <1>5, <1>6, OnlyDispatched

\* A count that is neither above nor below zero.
LEMMA NoneLeft ==
  ASSUME NEW x \in Int, x =< 0, x >= 0
  PROVE  -x = 0
OBVIOUS

\* Nothing of the scheduler, the priorities and the lists of waiting threads changes.
LEMMA StaysPlaced ==
  ASSUME KernelInv, UNCHANGED <<schedVars, p_prio, m_queue, s_queue>>
  PROVE  InPlace' /\ AllInOrder' /\ NoneAbove'
<1>1. /\ r_queue' = r_queue /\ r_current' = r_current /\ p_state' = p_state /\ p_prio' = p_prio
      /\ m_queue' = m_queue /\ s_queue' = s_queue
  BY DEF schedVars
<1>2. InPlace'
  BY <1>1 DEF KernelInv, InPlace
<1>3. AllInOrder'
  BY <1>1 DEF KernelInv, AllInOrder
<1>4. NoneAbove'
  BY <1>1 DEF KernelInv, NoneAbove
<1> QED
  BY <1>2, <1>3, <1>4

\* Of the mutexes and what is inherited by them neither.
LEMMA StaysInherited ==
  ASSUME KernelInv, UNCHANGED <<p_prio, mutexVars>>
  PROVE  MutexesAgree' /\ InheritanceExact'
<1>1. p_prio' = p_prio /\ p_mtxlist' = p_mtxlist /\ m_owner' = m_owner /\ m_queue' = m_queue
  BY DEF mutexVars
<1>2. KernelTyped /\ InPlace /\ MutexesAgree /\ InheritanceExact
  BY DEF KernelInv
<1>3. MutexesAgree'
  BY <1>1, <1>2 DEF MutexesAgree
<1>4. ASSUME NEW t \in Threads PROVE Waiters(t)' \in SUBSET Threads /\ Exact(t, p_prio', Waiters(t)')
  <2>1. Waiters(t)' = Waiters(t)
    BY <1>1 DEF Waiters
  <2>2. Waiters(t) \in SUBSET Threads /\ Exact(t, p_prio, Waiters(t))
    BY <1>2, WaitersAre, InheritedFromWaiters
  <2> QED
    BY <1>1, <2>1, <2>2
<1>5. p_prio' \in [Threads -> Prios]
  BY <1>1, <1>2 DEF KernelTyped
<1> QED
  BY <1>3, <1>4, <1>5, InheritedThen

\* A list with one more at its end, and without its first.
LEMMA Longer ==
  ASSUME NEW q \in Seq(Threads), NEW t \in Threads, t \notin Range(q),
         \A i, j \in 1 .. Len(q) : i < j => q[i] # q[j]
  PROVE  /\ Append(q, t) \in Seq(Threads) /\ Len(Append(q, t)) = Len(q) + 1
         /\ Range(Append(q, t)) = Range(q) \cup {t}
         /\ \A i, j \in 1 .. Len(Append(q, t)) : i < j => Append(q, t)[i] # Append(q, t)[j]
<1> DEFINE r == Append(q, t)
           n == Len(q)
<1>1. n \in Nat /\ \A x : x \in Range(q) <=> \E i \in 1 .. n : q[i] = x
  BY Members
<1>2. r \in Seq(Threads) /\ Len(r) = n + 1 /\ (\A i \in 1 .. n : r[i] = q[i]) /\ r[n + 1] = t
  BY AppendProperties
<1> HIDE DEF r
<1>3. \A x : x \in Range(r) <=> \E i \in 1 .. n + 1 : r[i] = x
  BY <1>2, Members
<1> HIDE DEF n
<1>4. \A i \in 1 .. n + 1 : i \in 1 .. n \/ i = n + 1
  BY <1>1
<1>5. (1 .. n) \cup {n + 1} = 1 .. n + 1
  BY <1>1
<1>6. Range(r) = Range(q) \cup {t}
  BY <1>1, <1>2, <1>3, <1>4, <1>5
<1>7. \A i, j \in 1 .. n + 1 : i < j => r[i] # r[j]
  <2> SUFFICES ASSUME NEW i \in 1 .. n + 1, NEW j \in 1 .. n + 1, i < j PROVE r[i] # r[j]
    OBVIOUS
  <2>1. i \in 1 .. n
    BY <1>1
  <2>2. CASE j \in 1 .. n
    <3>1. q[i] # q[j]
      BY <2>1, <2>2 DEF n
    <3> QED
      BY <1>2, <2>1, <2>2, <3>1
  <2>3. CASE j = n + 1
    BY <1>1, <1>2, <2>1, <2>3
  <2> QED
    BY <1>4, <2>2, <2>3
<1> QED
  BY <1>2, <1>6, <1>7 DEF r, n

\* A queue without its head.
LEMMA Shorter ==
  ASSUME NEW q \in Seq(Threads), q # <<>>, \A i, j \in 1 .. Len(q) : i < j => q[i] # q[j]
  PROVE  /\ Head(q) \in Range(q) /\ Head(q) \in Threads
         /\ Tail(q) \in Seq(Threads) /\ Len(Tail(q)) = Len(q) - 1
         /\ Range(Tail(q)) = Range(q) \ {Head(q)}
         /\ \A i, j \in 1 .. Len(Tail(q)) : i < j => Tail(q)[i] # Tail(q)[j]
<1> DEFINE flat == [t \in Threads |-> 1]
<1>1. flat \in [Threads -> Prios] /\ \A t \in Threads : flat[t] = 1
  BY DEF Prios
<1> HIDE DEF flat
<1>2. InOrder(q, flat)
  BY <1>1 DEF InOrder
<1>3. /\ Head(q) \in Range(q) /\ Head(q) \in Threads
      /\ InOrder(Tail(q), flat) /\ Range(Tail(q)) = Range(q) \ {Head(q)}
  BY <1>1, <1>2, FirstIsHighest
<1>4. Len(Tail(q)) = Len(q) - 1
  BY HeadTailProperties
<1> QED
  BY <1>3, <1>4 DEF InOrder

\* chSemWaitS takes the semaphore or appends the thread to its queue.
LEMMA WaitKeeps ==
  ASSUME KernelInv, Wait
  PROVE  KernelInv'
<1>0. KernelTyped /\ InPlace /\ AllInOrder /\ NoneAbove /\ SemaphoreAgrees /\ MutexesAgree /\ InheritanceExact
  BY DEF KernelInv
<1>1. /\ r_current \in SemUsers /\ s_cnt' = s_cnt - 1 /\ UNCHANGED <<p_prio, mutexVars>>
      /\ p_prio' = p_prio /\ p_mtxlist' = p_mtxlist /\ m_owner' = m_owner /\ m_queue' = m_queue
  BY DEF Wait, mutexVars
<1>2. s_cnt \in Int /\ s_cnt' \in Int /\ s_queue \in Seq(Threads) /\ Len(s_queue) \in Nat
  BY <1>0, <1>1 DEF KernelTyped
<1>3. CASE s_cnt' < 0
  <2>1. s_queue' = Append(s_queue, r_current) /\ holder' = holder /\ GoSleepS(r_queue, "WTSEM")
    BY <1>3 DEF Wait
  <2>2. /\ r_current # idle /\ r_current \in Threads /\ r_current \notin Range(r_queue)
        /\ r_current \notin Range(s_queue) /\ p_state[r_current] = "CURRENT"
        /\ \A m \in Mutexes : r_current \notin Range(m_queue[m])
    BY <1>0, <1>1, CurrentIsNowhere, KernelAssumption DEF KernelAssumption
  <2>3. \A i, j \in 1 .. Len(s_queue) : i < j => s_queue[i] # s_queue[j]
    BY <1>0 DEF SemaphoreAgrees
  <2>4. /\ s_queue' \in Seq(Threads) /\ Len(s_queue') = Len(s_queue) + 1
        /\ Range(s_queue') = Range(s_queue) \cup {r_current}
        /\ \A i, j \in 1 .. Len(s_queue') : i < j => s_queue'[i] # s_queue'[j]
    BY ONLY <1>2, <2>1, <2>2, <2>3, Longer
  <2> DEFINE others == [p_state EXCEPT ![r_current] = "WTSEM"]
  <2>5. Dispatched(Range(r_queue), p_prio, others)
    <3>1. InOrder(r_queue, p_prio) /\ p_prio \in [Threads -> Prios] /\ "WTSEM" \in States
      BY <1>0 DEF AllInOrder, KernelTyped, States
    <3> QED
      BY <1>0, <2>1, <2>2, <3>1, AfterSleep
  <2>6. \A t \in Threads : others[t] = IF t = r_current THEN "WTSEM" ELSE p_state[t]
    BY <1>0 DEF KernelTyped
  <2> HIDE DEF others
  <2>7. Range(r_queue) \in SUBSET Threads /\ idle \in Range(r_queue)
    BY <1>0, <2>2, CurrentIsNowhere, Elsewhere
  <2>8. InPlace'
    <3>1. ASSUME NEW t \in Threads \ Range(r_queue)
          PROVE  /\ others[t] \notin {"CURRENT", "READY"}
                 /\ others[t] = "WTMTX" <=> \E m \in Mutexes : t \in Range(m_queue[m])
                 /\ others[t] = "WTSEM" <=> t \in Range(s_queue')
      <4>1. CASE t = r_current
        BY <2>2, <2>4, <2>6, <4>1
      <4>2. CASE t # r_current
        <5>1. /\ p_state[t] \notin {"CURRENT", "READY"}
              /\ p_state[t] = "WTMTX" <=> \E m \in Mutexes : t \in Range(m_queue[m])
              /\ p_state[t] = "WTSEM" <=> t \in Range(s_queue)
          BY <1>0, <4>2, Elsewhere
        <5> QED
          BY <2>4, <2>6, <4>2, <5>1
      <4> QED
        BY <4>1, <4>2
    <3>2. \A t \in Range(r_queue) : t \notin Range(s_queue') /\ \A m \in Mutexes : t \notin Range(m_queue[m])
      BY <1>0, <2>2, <2>4, Elsewhere
    <3>3. \A m, k \in Mutexes, t \in Threads : t \in Range(m_queue[m]) /\ t \in Range(m_queue[k]) => m = k
      BY <1>0, Elsewhere
    <3> QED
      BY <1>1, <2>5, <2>7, <3>1, <3>2, <3>3, Placed
  <2>9. SemaphoreAgrees'
    <3>1. Len(s_queue) = -s_cnt
      BY <1>0, <1>1, <1>2, <1>3 DEF SemaphoreAgrees
    <3>2. Len(s_queue') = -s_cnt' /\ ~(s_cnt' >= 0)
      BY <1>1, <1>2, <1>3, <2>4, <3>1
    <3> QED
      BY <2>4, <3>2 DEF SemaphoreAgrees
  <2>10. holder' \in Threads \cup {NULL}
    BY <1>0, <2>1 DEF KernelTyped
  <2> QED
    BY <1>1, <1>2, <2>4, <2>5, <2>7, <2>8, <2>9, <2>10, OnlyDispatched
<1>4. CASE ~(s_cnt' < 0)
  <2>1. holder' = r_current /\ UNCHANGED <<schedVars, s_queue>>
    BY <1>4 DEF Wait
  <2>2. InPlace' /\ AllInOrder' /\ NoneAbove'
    BY <1>1, <2>1, StaysPlaced
  <2>3. MutexesAgree' /\ InheritanceExact'
    BY <1>1, StaysInherited
  <2>4. SemaphoreAgrees'
    <3>1. s_queue = <<>> /\ s_queue' = <<>>
      BY <1>0, <1>1, <1>2, <1>4, <2>1 DEF SemaphoreAgrees
    <3>2. s_cnt' =< 0 => -s_cnt' = 0
      <4> SUFFICES ASSUME s_cnt' =< 0 PROVE -s_cnt' = 0
        OBVIOUS
      <4>1. s_cnt' >= 0
        BY <1>2, <1>4
      <4> QED
        BY ONLY <1>2, <4>1, s_cnt' =< 0, NoneLeft
    <3>3. Len(<<>>) = 0 /\ 1 .. 0 = {}
      OBVIOUS
    <3> QED
      BY <3>1, <3>2, <3>3 DEF SemaphoreAgrees
  <2>5. KernelTyped'
    BY <1>0, <1>1, <1>2, <2>1 DEF KernelTyped, schedVars
  <2> QED
    BY <2>2, <2>3, <2>4, <2>5 DEF KernelInv
<1> QED
  BY <1>3, <1>4

\* chBSemSignal wakes the head of the queue or sets the count.
LEMMA SignalKeeps ==
  ASSUME KernelInv, Signal
  PROVE  KernelInv'
<1>0. KernelTyped /\ InPlace /\ AllInOrder /\ NoneAbove /\ SemaphoreAgrees /\ MutexesAgree /\ InheritanceExact
  BY DEF KernelInv
<1>1. /\ s_cnt < 1 /\ s_cnt' = s_cnt + 1 /\ UNCHANGED <<p_prio, mutexVars>>
      /\ p_prio' = p_prio /\ p_mtxlist' = p_mtxlist /\ m_owner' = m_owner /\ m_queue' = m_queue
  BY DEF Signal, mutexVars
<1>2. s_cnt \in Int /\ s_cnt' \in Int /\ s_queue \in Seq(Threads) /\ Len(s_queue) \in Nat
  BY <1>0, <1>1 DEF KernelTyped
<1>3. CASE s_cnt' =< 0
  <2> DEFINE h == Head(s_queue)
             u == Tail(s_queue)
             ready == Range(r_queue) \cup {r_current} \cup {h}
  <2>1. s_queue' = u /\ holder' = h /\ ReadyAndReschedule(<<h>>, TRUE) /\ p_preempt' = p_preempt
    BY <1>3 DEF Signal
  <2>2. Len(s_queue) = -s_cnt /\ Len(s_queue) # 0 /\ s_queue # <<>>
    <3>1. Len(s_queue) = -s_cnt
      BY <1>0, <1>1, <1>2 DEF SemaphoreAgrees
    <3>2. Len(s_queue) # 0
      BY <1>1, <1>2, <1>3, <3>1
    <3> QED
      BY <3>1, <3>2
  <2>3. /\ h \in Range(s_queue) /\ h \in Threads /\ u \in Seq(Threads) /\ Len(u) = Len(s_queue) - 1
        /\ Range(u) = Range(s_queue) \ {h}
        /\ \A i, j \in 1 .. Len(u) : i < j => u[i] # u[j]
    <3>1. \A i, j \in 1 .. Len(s_queue) : i < j => s_queue[i] # s_queue[j]
      BY <1>0 DEF SemaphoreAgrees
    <3> QED
      BY ONLY <1>2, <2>2, <3>1, Shorter
  <2> HIDE DEF h, u
  <2>4. p_state[h] = "WTSEM" /\ \A m \in Mutexes : h \notin Range(m_queue[m])
    <3>1. p_state[h] = "WTSEM"
      BY <1>0, <2>3 DEF InPlace
    <3> QED
      BY <1>0, <2>3, <3>1 DEF InPlace
  <2> DEFINE woken == <<h>>
  <2>5. woken \in Seq(Threads) /\ Len(woken) = 1 /\ woken[1] = h /\ Range(woken) = {h}
    <3>1. woken \in Seq(Threads) /\ Len(woken) = 1 /\ woken[1] = h
      BY <2>3
    <3> HIDE DEF woken
    <3>2. \A x : x \in Range(woken) <=> \E i \in 1 .. 1 : woken[i] = x
      BY <3>1, Members
    <3> QED
      BY <3>1, <3>2
  <2>6. Dispatched(ready, p_prio, p_state)
    <3> HIDE DEF woken
    <3>1. /\ \A i \in 1 .. Len(woken) : p_state[woken[i]] \notin {"CURRENT", "READY"}
          /\ \A i, j \in 1 .. Len(woken) : i # j => woken[i] # woken[j]
      BY <2>4, <2>5
    <3>2. ReadyAndReschedule(woken, TRUE) /\ TRUE \in BOOLEAN
      BY <2>1 DEF woken
    <3>3. p_preempt' \in [Threads -> BOOLEAN]
      BY <1>0, <2>1 DEF KernelTyped
    <3>4. Dispatched(Range(r_queue) \cup {r_current} \cup Range(woken), p_prio, p_state)
      BY <1>0, <2>5, <3>1, <3>2, <3>3, AfterReschedule
    <3> QED
      BY <2>5, <3>4
  <2>7. ready \in SUBSET Threads /\ idle \in ready
    BY <1>0, <2>3, Elsewhere
  <2>8. InPlace'
    <3>1. ASSUME NEW t \in Threads \ ready
          PROVE  /\ p_state[t] \notin {"CURRENT", "READY"}
                 /\ p_state[t] = "WTMTX" <=> \E m \in Mutexes : t \in Range(m_queue[m])
                 /\ p_state[t] = "WTSEM" <=> t \in Range(s_queue')
      <4>1. /\ p_state[t] \notin {"CURRENT", "READY"}
            /\ p_state[t] = "WTMTX" <=> \E m \in Mutexes : t \in Range(m_queue[m])
            /\ p_state[t] = "WTSEM" <=> t \in Range(s_queue)
        BY <1>0, Elsewhere
      <4>2. t # h
        OBVIOUS
      <4> QED
        BY <2>1, <2>3, <4>1, <4>2
    <3>2. \A t \in ready : t \notin Range(s_queue') /\ \A m \in Mutexes : t \notin Range(m_queue[m])
      <4>1. \A t \in Range(r_queue) \cup {r_current} :
              t \notin Range(s_queue) /\ \A m \in Mutexes : t \notin Range(m_queue[m])
        BY <1>0, Elsewhere
      <4> QED
        BY <2>1, <2>3, <2>4, <4>1
    <3>3. \A m, k \in Mutexes, t \in Threads : t \in Range(m_queue[m]) /\ t \in Range(m_queue[k]) => m = k
      BY <1>0, Elsewhere
    <3> HIDE DEF ready
    <3> QED
      BY <1>1, <2>6, <2>7, <3>1, <3>2, <3>3, Placed
  <2>9. SemaphoreAgrees'
    <3>1. Len(s_queue') = -s_cnt'
      BY <1>1, <1>2, <2>1, <2>2, <2>3
    <3>2. s_cnt' >= 0 => s_queue' = <<>>
      <4>1. s_cnt' >= 0 => Len(u) = 0
        <5> SUFFICES ASSUME s_cnt' >= 0 PROVE Len(u) = 0
          OBVIOUS
        <5>1. -s_cnt' = 0
          BY ONLY <1>2, <1>3, s_cnt' >= 0, NoneLeft
        <5> QED
          BY <2>1, <3>1, <5>1
      <4> QED
        BY <2>1, <2>3, <4>1
    <3> QED
      BY <2>1, <2>3, <3>1, <3>2 DEF SemaphoreAgrees
  <2>10. holder' \in Threads \cup {NULL} /\ s_queue' \in Seq(Threads)
    BY <2>1, <2>3
  <2> HIDE DEF ready
  <2> QED
    BY <1>1, <1>2, <2>6, <2>7, <2>8, <2>9, <2>10, OnlyDispatched
<1>4. CASE ~(s_cnt' =< 0)
  <2>1. holder' = NULL /\ UNCHANGED <<schedVars, s_queue>>
    BY <1>4 DEF Signal
  <2>2. InPlace' /\ AllInOrder' /\ NoneAbove'
    BY <1>1, <2>1, StaysPlaced
  <2>3. MutexesAgree' /\ InheritanceExact'
    BY <1>1, StaysInherited
  <2>4. SemaphoreAgrees'
    <3>1. s_queue = <<>> /\ s_queue' = <<>>
      BY <1>0, <1>1, <1>2, <1>4, <2>1 DEF SemaphoreAgrees
    <3>2. Len(<<>>) = 0 /\ 1 .. 0 = {}
      OBVIOUS
    <3> QED
      BY <1>4, <3>1, <3>2 DEF SemaphoreAgrees
  <2>5. KernelTyped'
    BY <1>0, <1>1, <1>2, <2>1 DEF KernelTyped, schedVars
  <2> QED
    BY <2>2, <2>3, <2>4, <2>5 DEF KernelInv
<1> QED
  BY <1>3, <1>4

\* The mutexes of a thread: the last taken first, and each above those before it.
Falling(s) ==
  /\ s \in Seq(Mutexes)
  /\ \A i, j \in Nat : 1 =< i /\ i < j /\ j =< Len(s) => s[j] < s[i]

\* chMtxLockS puts a mutex above all others in front.
LEMMA Pushed ==
  ASSUME NEW s, Falling(s), NEW m \in Mutexes, \A k \in Range(s) : k < m
  PROVE  Falling(<<m>> \o s) /\ Range(<<m>> \o s) = Range(s) \cup {m}
<1> DEFINE r == <<m>> \o s
           n == Len(s)
<1>1. s \in Seq(Mutexes) /\ n \in Nat /\ \A i, j \in Nat : 1 =< i /\ i < j /\ j =< n => s[j] < s[i]
  BY DEF Falling
<1>2. \A x : x \in Range(s) <=> \E i \in 1 .. n : s[i] = x
  BY <1>1 DEF Range
<1> DEFINE a == <<m>>
<1>3. a \in Seq(Mutexes) /\ Len(a) = 1 /\ a[1] = m
  OBVIOUS
<1> HIDE DEF a
<1>4. /\ a \o s \in Seq(Mutexes) /\ Len(a \o s) = Len(a) + Len(s)
      /\ \A i \in 1 .. Len(a) + Len(s) : (a \o s)[i] = IF i =< Len(a) THEN a[i] ELSE s[i - Len(a)]
  BY ONLY <1>1, <1>3, ConcatProperties
<1>5. r = a \o s
  BY DEF a
<1> HIDE DEF r
<1>6. r \in Seq(Mutexes) /\ Len(r) = n + 1 /\ r[1] = m
      /\ \A i \in 1 .. n + 1 : i # 1 => r[i] = s[i - 1]
  <2>1. Len(r) = n + 1 /\ r \in Seq(Mutexes)
    BY <1>1, <1>3, <1>4, <1>5
  <2>2. \A i \in 1 .. n + 1 : r[i] = IF i =< 1 THEN a[i] ELSE s[i - 1]
    BY <1>1, <1>3, <1>4, <1>5
  <2> HIDE DEF n
  <2>3. r[1] = m
    BY <1>1, <1>3, <2>2
  <2>4. \A i \in 1 .. n + 1 : i # 1 => ~(i =< 1)
    BY <1>1
  <2> QED
    BY <2>1, <2>2, <2>3, <2>4
<1>7. \A x : x \in Range(r) <=> \E i \in 1 .. n + 1 : r[i] = x
  BY <1>6 DEF Range
<1> HIDE DEF n
<1>8. Range(r) = Range(s) \cup {m}
  <2>1. ASSUME NEW i \in 1 .. n PROVE s[i] \in Range(r)
    <3>1. PICK j : j = i + 1
      OBVIOUS
    <3>2. j \in 1 .. n + 1 /\ j # 1 /\ j - 1 = i
      BY <1>1, <3>1
    <3>3. r[j] = s[j - 1]
      BY <1>6, <3>2
    <3> QED
      BY <1>7, <3>2, <3>3
  <2>2. ASSUME NEW i \in 1 .. n + 1 PROVE r[i] \in Range(s) \cup {m}
    <3>1. i # 1 => i - 1 \in 1 .. n
      BY <1>1
    <3>2. i # 1 => r[i] = s[i - 1]
      BY <1>6
    <3> QED
      BY <1>2, <1>6, <3>1, <3>2
  <2>3. m \in Range(r)
    <3>1. 1 \in 1 .. n + 1
      BY <1>1
    <3> QED
      BY <1>6, <1>7, <3>1
  <2> QED
    BY <1>2, <1>7, <2>1, <2>2, <2>3
<1>9. ASSUME NEW i \in Nat, NEW j \in Nat, 1 =< i, i < j, j =< n + 1 PROVE r[j] < r[i]
  <2>1. j \in 1 .. n + 1 /\ j # 1 /\ j - 1 \in 1 .. n /\ j - 1 \in Nat /\ j - 1 =< n /\ i \in 1 .. n + 1
    BY ONLY <1>1, <1>9
  <2>2. r[j] = s[j - 1]
    BY <1>6, <2>1
  <2>3. CASE i = 1
    <3>1. s[j - 1] \in Range(s)
      BY <1>2, <2>1
    <3> QED
      BY <1>6, <2>2, <2>3, <3>1
  <2>4. CASE i # 1
    <3>1. i - 1 \in Nat /\ 1 =< i - 1 /\ i - 1 < j - 1
      BY ONLY <1>9, <2>4
    <3>2. r[i] = s[i - 1]
      BY <1>6, <2>1, <2>4
    <3>3. s[j - 1] < s[i - 1]
      BY ONLY <1>1, <2>1, <3>1
    <3> QED
      BY <2>2, <3>2, <3>3
  <2> QED
    BY <2>3, <2>4
<1>10. Falling(r)
  BY <1>6, <1>9 DEF Falling
<1> QED
  BY <1>8, <1>10 DEF r

\* chMtxUnlock takes away the first, which is above all others.
LEMMA Popped ==
  ASSUME NEW s, Falling(s), s # <<>>
  PROVE  /\ Head(s) \in Mutexes /\ Head(s) \in Range(s)
         /\ Falling(Tail(s)) /\ Range(Tail(s)) = Range(s) \ {Head(s)}
         /\ \A k \in Range(s) : k # Head(s) => k < Head(s)
<1> DEFINE r == Tail(s)
           n == Len(s)
           h == Head(s)
<1>1. s \in Seq(Mutexes) /\ n \in Nat /\ n # 0 /\ \A i, j \in Nat : 1 =< i /\ i < j /\ j =< n => s[j] < s[i]
  BY DEF Falling
<1>2. \A x : x \in Range(s) <=> \E i \in 1 .. n : s[i] = x
  BY <1>1 DEF Range
<1>3. r \in Seq(Mutexes) /\ Len(r) = n - 1 /\ (\A i \in 1 .. n - 1 : r[i] = s[i + 1]) /\ h = s[1] /\ h \in Mutexes
  <2>1. Len(r) = n - 1
    BY <1>1, HeadTailProperties
  <2> QED
    BY <1>1, <2>1, HeadTailProperties
<1> HIDE DEF r, h
<1>4. \A x : x \in Range(r) <=> \E i \in 1 .. n - 1 : r[i] = x
  BY <1>3 DEF Range
<1> HIDE DEF n
<1>5. h \in Range(s)
  <2>1. 1 \in 1 .. n
    BY <1>1
  <2> QED
    BY <1>2, <1>3, <2>1
<1>6. ASSUME NEW i \in 1 .. n - 1 PROVE r[i] \in Range(s) /\ r[i] < h
  <2>0. PICK j : j = i + 1
    OBVIOUS
  <2>1. j \in 1 .. n /\ j \in Nat /\ 1 \in Nat /\ 1 =< 1 /\ 1 < j /\ j =< n
    BY <1>1, <2>0
  <2>2. r[i] = s[j]
    BY <1>3, <2>0
  <2>3. s[j] < s[1]
    BY ONLY <1>1, <2>1
  <2> QED
    BY <1>2, <1>3, <2>1, <2>2, <2>3
<1>7. ASSUME NEW k \in Range(s), k # h PROVE k \in Range(r)
  <2>1. PICK i \in 1 .. n : s[i] = k
    BY <1>2
  <2>2. i # 1
    BY <1>3, <1>7, <2>1
  <2>3. PICK j : j = i - 1
    OBVIOUS
  <2>4. j \in 1 .. n - 1 /\ j + 1 = i
    BY <1>1, <2>2, <2>3
  <2>5. r[j] = s[j + 1]
    BY <1>3, <2>4
  <2> QED
    BY <1>4, <2>1, <2>4, <2>5
<1>8. \A k \in Range(r) : k < h
  BY <1>4, <1>6
<1>9. h \notin Range(r)
  <2>1. ~(h < h)
    BY <1>3, KernelAssumption DEF KernelAssumption
  <2> QED
    BY <1>8, <2>1
<1>10. Range(r) = Range(s) \ {h}
  BY <1>4, <1>6, <1>7, <1>9
<1>11. ASSUME NEW i \in Nat, NEW j \in Nat, 1 =< i, i < j, j =< n - 1 PROVE r[j] < r[i]
  <2>1. i \in 1 .. n - 1 /\ j \in 1 .. n - 1
    BY ONLY <1>1, <1>11
  <2>0. PICK x, y : x = i + 1 /\ y = j + 1
    OBVIOUS
  <2>2. x \in Nat /\ y \in Nat /\ 1 =< x /\ x < y /\ y =< n
    BY ONLY <1>1, <1>11, <2>0
  <2>3. r[i] = s[x] /\ r[j] = s[y]
    BY <1>3, <2>0, <2>1
  <2>4. s[y] < s[x]
    BY ONLY <1>1, <2>2
  <2> QED
    BY <2>3, <2>4
<1>12. Falling(r)
  BY <1>3, <1>11 DEF Falling
<1>13. \A k \in Range(s) : k # h => k < h
  BY <1>7, <1>8
<1> QED
  BY <1>3, <1>5, <1>10, <1>12, <1>13 DEF r, h

\* The same fact in both forms.
LEMMA ListsFall ==
  ASSUME KernelTyped, MutexesAgree
  PROVE  \A t \in Threads : Falling(p_mtxlist[t])
BY DEF KernelTyped, MutexesAgree, Falling

\* A mutex without owner is taken.
LEMMA LockFreeKeeps ==
  ASSUME KernelInv, NEW m \in Mutexes, LockFree(m)
  PROVE  KernelInv'
<1>0. KernelTyped /\ InPlace /\ AllInOrder /\ NoneAbove /\ SemaphoreAgrees /\ MutexesAgree /\ InheritanceExact
  BY DEF KernelInv
<1> DEFINE c == r_current
           list == <<m>> \o p_mtxlist[c]
<1>1. /\ m_owner[m] = NULL /\ m_owner' = [m_owner EXCEPT ![m] = c] /\ c # idle
      /\ p_mtxlist' = [p_mtxlist EXCEPT ![c] = list]
      /\ UNCHANGED <<schedVars, p_prio, m_queue, s_queue>>
      /\ UNCHANGED <<r_queue, r_current, p_state, p_preempt, p_prio, m_queue, s_cnt, s_queue, holder>>
      /\ \A k \in Range(p_mtxlist[c]) : k < m
  BY DEF LockFree, MayTake, schedVars, semVars
<1>2. c \in Threads /\ p_mtxlist \in [Threads -> Seq(Mutexes)] /\ m_owner \in [Mutexes -> Threads \cup {NULL}]
      /\ c # NULL
  BY <1>0, KernelAssumption DEF KernelTyped, KernelAssumption
<1>3. Falling(list) /\ Range(list) = Range(p_mtxlist[c]) \cup {m}
  BY <1>0, <1>1, <1>2, ListsFall, Pushed
<1> HIDE DEF list, c
<1>4. \A t \in Threads : p_mtxlist'[t] = IF t = c THEN list ELSE p_mtxlist[t]
  BY <1>1, <1>2
<1>5. \A k \in Mutexes : m_owner'[k] = IF k = m THEN c ELSE m_owner[k]
  BY <1>1, <1>2
<1>6. InPlace' /\ AllInOrder' /\ NoneAbove'
  BY <1>1, StaysPlaced
<1>7. KernelTyped'
  <2>1. p_mtxlist' \in [Threads -> Seq(Mutexes)] /\ m_owner' \in [Mutexes -> Threads \cup {NULL}]
    BY <1>1, <1>2, <1>3 DEF Falling
  <2> QED
    BY <1>0, <1>1, <2>1 DEF KernelTyped
<1>8. SemaphoreAgrees'
  BY <1>0, <1>1 DEF SemaphoreAgrees
<1>9. \A t \in Threads, k \in Mutexes : k \in Range(p_mtxlist[t]) <=> m_owner[k] = t
  BY <1>0 DEF MutexesAgree
<1>10. m_queue[m] = <<>> /\ Range(m_queue[m]) = {}
  <2>1. m_queue[m] = <<>>
    BY <1>0, <1>1 DEF MutexesAgree
  <2> QED
    BY <2>1 DEF Range
<1>11. MutexesAgree'
  <2>1. ASSUME NEW t \in Threads, NEW k \in Mutexes PROVE k \in Range(p_mtxlist'[t]) <=> m_owner'[k] = t
    <3>1. CASE k = m
      <4>1. t # c => m \notin Range(p_mtxlist[t])
        BY <1>1, <1>9, KernelAssumption DEF KernelAssumption
      <4> QED
        BY <1>3, <1>4, <1>5, <3>1, <4>1
    <3>2. CASE k # m
      BY <1>3, <1>4, <1>5, <1>9, <3>2
    <3> QED
      BY <3>1, <3>2
  <2>2. ASSUME NEW t \in Threads, NEW i \in Nat, NEW j \in Nat, 1 =< i /\ i < j /\ j =< Len(p_mtxlist'[t])
        PROVE  p_mtxlist'[t][j] < p_mtxlist'[t][i]
    <3>1. Falling(p_mtxlist'[t])
      BY <1>0, <1>3, <1>4, ListsFall
    <3> QED
      BY <2>2, <3>1 DEF Falling
  <2>3. ASSUME NEW k \in Mutexes, m_owner'[k] = NULL PROVE m_queue'[k] = <<>>
    <3>1. k # m /\ m_owner[k] = NULL
      BY <1>2, <1>5, <2>3
    <3> QED
      BY <1>0, <1>1, <3>1 DEF MutexesAgree
  <2>4. ASSUME NEW n \in Mutexes, NEW k \in Mutexes, NEW t \in Threads,
               t \in Range(m_queue'[n]) /\ m_owner'[k] = t
        PROVE  k < n
    <3>1. t # c
      BY <1>0, <1>1, <2>4, CurrentIsNowhere DEF c
    <3>2. m_owner[k] = t /\ t \in Range(m_queue[n])
      BY <1>1, <1>5, <2>4, <3>1
    <3> QED
      BY <1>0, <3>2 DEF MutexesAgree
  <2>5. p_mtxlist'[idle] = <<>>
    BY <1>0, <1>1, <1>4 DEF MutexesAgree, Threads, c
  <2> QED
    BY <2>1, <2>2, <2>3, <2>4, <2>5 DEF MutexesAgree
<1>12. InheritanceExact'
  <2>1. ASSUME NEW t \in Threads PROVE Waiters(t)' \in SUBSET Threads /\ Exact(t, p_prio', Waiters(t)')
    <3>1. Waiters(t)' = Waiters(t)
      <4>1. Waiters(t)' = UNION {Range(m_queue[k]) : k \in Range(p_mtxlist'[t])}
        BY <1>1 DEF Waiters
      <4>2. Range(p_mtxlist'[t]) = Range(p_mtxlist[t]) \/ Range(p_mtxlist'[t]) = Range(p_mtxlist[t]) \cup {m}
        BY <1>3, <1>4
      <4> QED
        BY <1>10, <4>1, <4>2 DEF Waiters
    <3>2. Waiters(t) \in SUBSET Threads /\ Exact(t, p_prio, Waiters(t))
      BY <1>0, WaitersAre, InheritedFromWaiters
    <3> QED
      BY <1>1, <3>1, <3>2
  <2>2. p_prio' \in [Threads -> Prios]
    BY <1>7 DEF KernelTyped
  <2> QED
    BY <2>1, <2>2, InheritedThen
<1> QED
  BY <1>6, <1>7, <1>8, <1>11, <1>12 DEF KernelInv

\* A mutex that nobody waits for is given back: its owner keeps the priority that
\* the other queues give it.
LEMMA UnlockAloneKeeps ==
  ASSUME KernelInv, UnlockAlone
  PROVE  KernelInv'
<1>0. KernelTyped /\ InPlace /\ AllInOrder /\ NoneAbove /\ SemaphoreAgrees /\ MutexesAgree /\ InheritanceExact
  BY DEF KernelInv
<1> DEFINE c == r_current
           m == Head(p_mtxlist[c])
           list == Tail(p_mtxlist[c])
<1>1. /\ p_mtxlist[c] # <<>> /\ m_queue[m] = <<>> /\ m_owner' = [m_owner EXCEPT ![m] = NULL]
      /\ p_mtxlist' = [p_mtxlist EXCEPT ![c] = list]
      /\ UNCHANGED <<schedVars, p_prio, m_queue, s_queue>>
      /\ UNCHANGED <<r_queue, r_current, p_state, p_preempt, p_prio, m_queue, s_cnt, s_queue, holder>>
  BY DEF UnlockAlone, schedVars, semVars
<1>2. c \in Threads /\ p_mtxlist \in [Threads -> Seq(Mutexes)] /\ m_owner \in [Mutexes -> Threads \cup {NULL}]
      /\ NULL \notin Threads
  BY <1>0, KernelAssumption DEF KernelTyped, KernelAssumption
<1>3. /\ m \in Mutexes /\ m \in Range(p_mtxlist[c])
      /\ Falling(list) /\ Range(list) = Range(p_mtxlist[c]) \ {m}
  BY <1>0, <1>1, <1>2, ListsFall, Popped
<1> HIDE DEF list, c, m
<1>4. \A t \in Threads : p_mtxlist'[t] = IF t = c THEN list ELSE p_mtxlist[t]
  BY <1>1, <1>2
<1>5. \A k \in Mutexes : m_owner'[k] = IF k = m THEN NULL ELSE m_owner[k]
  BY <1>1, <1>2
<1>6. InPlace' /\ AllInOrder' /\ NoneAbove'
  BY <1>1, StaysPlaced
<1>7. KernelTyped'
  <2>1. p_mtxlist' \in [Threads -> Seq(Mutexes)] /\ m_owner' \in [Mutexes -> Threads \cup {NULL}]
    BY <1>1, <1>2, <1>3 DEF Falling
  <2> QED
    BY <1>0, <1>1, <2>1 DEF KernelTyped
<1>8. SemaphoreAgrees'
  BY <1>0, <1>1 DEF SemaphoreAgrees
<1>9. \A t \in Threads, k \in Mutexes : k \in Range(p_mtxlist[t]) <=> m_owner[k] = t
  BY <1>0 DEF MutexesAgree
<1>10. Range(m_queue[m]) = {}
  BY <1>1 DEF Range
<1>11. MutexesAgree'
  <2>1. ASSUME NEW t \in Threads, NEW k \in Mutexes PROVE k \in Range(p_mtxlist'[t]) <=> m_owner'[k] = t
    <3>1. CASE k = m
      <4>1. t # c => m \notin Range(p_mtxlist[t])
        BY <1>2, <1>3, <1>9
      <4> QED
        BY <1>2, <1>3, <1>4, <1>5, <3>1, <4>1
    <3>2. CASE k # m
      BY <1>3, <1>4, <1>5, <1>9, <3>2
    <3> QED
      BY <3>1, <3>2
  <2>2. ASSUME NEW t \in Threads, NEW i \in Nat, NEW j \in Nat, 1 =< i /\ i < j /\ j =< Len(p_mtxlist'[t])
        PROVE  p_mtxlist'[t][j] < p_mtxlist'[t][i]
    <3>1. Falling(p_mtxlist'[t])
      BY <1>0, <1>3, <1>4, ListsFall
    <3> QED
      BY <2>2, <3>1 DEF Falling
  <2>3. ASSUME NEW k \in Mutexes, m_owner'[k] = NULL PROVE m_queue'[k] = <<>>
    BY <1>0, <1>1, <1>5, <2>3 DEF MutexesAgree
  <2>4. ASSUME NEW n \in Mutexes, NEW k \in Mutexes, NEW t \in Threads,
               t \in Range(m_queue'[n]) /\ m_owner'[k] = t
        PROVE  k < n
    <3>1. m_owner[k] = t /\ t \in Range(m_queue[n])
      BY <1>1, <1>2, <1>5, <2>4
    <3> QED
      BY <1>0, <3>1 DEF MutexesAgree
  <2>5. p_mtxlist'[idle] = <<>>
    <3>1. p_mtxlist[idle] = <<>> /\ idle \in Threads
      BY <1>0 DEF MutexesAgree, Threads
    <3>2. idle # c
      BY <1>1, <3>1
    <3> QED
      BY <1>4, <3>1, <3>2
  <2> QED
    BY <2>1, <2>2, <2>3, <2>4, <2>5 DEF MutexesAgree
<1>12. InheritanceExact'
  <2>1. ASSUME NEW t \in Threads PROVE Waiters(t)' \in SUBSET Threads /\ Exact(t, p_prio', Waiters(t)')
    <3>1. Waiters(t)' = Waiters(t)
      <4>1. Waiters(t)' = UNION {Range(m_queue[k]) : k \in Range(p_mtxlist'[t])}
        BY <1>1 DEF Waiters
      <4>2. Range(p_mtxlist'[t]) = Range(p_mtxlist[t]) \/ Range(p_mtxlist'[t]) = Range(p_mtxlist[t]) \ {m}
        BY <1>3, <1>4
      <4> QED
        BY <1>10, <4>1, <4>2 DEF Waiters
    <3>2. Waiters(t) \in SUBSET Threads /\ Exact(t, p_prio, Waiters(t))
      BY <1>0, WaitersAre, InheritedFromWaiters
    <3> QED
      BY <1>1, <3>1, <3>2
  <2>2. p_prio' \in [Threads -> Prios]
    BY <1>7 DEF KernelTyped
  <2> QED
    BY <2>1, <2>2, InheritedThen
<1> QED
  BY <1>6, <1>7, <1>8, <1>11, <1>12 DEF KernelInv

\* A thread that begins to wait goes into one list, and no other changes its members;
\* all lists stay in order, whatever the walk along the chain has raised.
LEMMA WaitersGrow ==
  ASSUME KernelInv, NEW m \in Mutexes, LockTaken(m)
  PROVE  /\ m_queue' = [k \in Mutexes |-> m_queue'[k]]
         /\ \A k \in Mutexes :
              /\ InOrder(m_queue'[k], p_prio')
              /\ Range(m_queue'[k]) = Range(m_queue[k]) \cup (IF k = m THEN {r_current} ELSE {})
<1>0. KernelTyped /\ InPlace /\ AllInOrder /\ NoneAbove /\ SemaphoreAgrees /\ MutexesAgree /\ InheritanceExact
  BY DEF KernelInv
<1> DEFINE c == r_current
           o == m_owner[m]
           A == Affected[o]
           prio == [t \in Threads |-> IF t \in A THEN p_prio[c] ELSE p_prio[t]]
           queues == [k \in Mutexes |-> Requeue(m_queue[k], A, prio)]
           queue == Requeue(r_queue, A, prio)
           others == [p_state EXCEPT ![c] = "WTMTX"]
<1>1. /\ c # idle /\ o # NULL /\ (\A k \in Range(p_mtxlist[c]) : k < m)
      /\ p_prio' = prio /\ m_queue' = [queues EXCEPT ![m] = InsertBehind(@, c, prio)]
      /\ GoSleepS(queue, "WTMTX")
      /\ UNCHANGED <<p_mtxlist, m_owner, s_cnt, s_queue, holder>>
  BY DEF LockTaken, MayTake, semVars
<1>2. /\ c \in Threads /\ o \in Threads /\ p_prio \in [Threads -> Prios]
      /\ p_state \in [Threads -> States] /\ p_state[c] = "CURRENT" /\ c \notin Range(s_queue)
      /\ \A k \in Mutexes : c \notin Range(m_queue[k])
      /\ c \notin Range(r_queue) /\ idle \in Range(r_queue) /\ Range(r_queue) \in SUBSET Threads
  BY <1>0, <1>1, CurrentIsNowhere, Elsewhere DEF KernelTyped, States
<1>3. Walked(A, o) /\ (~Below(o) => A = {})
  BY <1>0, <1>2, AffectedIsWalk
<1>4. prio \in [Threads -> Prios] /\ \A t \in Threads : prio[t] = IF t \in A THEN p_prio[c] ELSE p_prio[t]
  BY <1>2
<1> HIDE DEF A, prio
<1>6. ASSUME NEW k \in Mutexes PROVE InOrder(queues[k], prio) /\ Range(queues[k]) = Range(m_queue[k])
  <2>1. \A u \in Range(m_queue[k]) : u \in Threads
    BY <1>0, Members DEF KernelTyped
  <2>2. ASSUME NEW u \in Range(m_queue[k]) PROVE Waits(u) /\ wtobjp(u) = k
    <3>1. Waits(u) /\ u \in Threads
      BY <1>0, <2>1 DEF InPlace, Waits
    <3> QED
      BY <1>0, <3>1, WaitsForOwner
  <2>3. \A u, v \in Range(m_queue[k]) \cap A : u = v
    BY <1>3, <2>2 DEF Walked, PassesOnce
  <2>4. InOrder(m_queue[k], p_prio) /\ \A t \in Threads \ A : prio[t] = p_prio[t]
    BY <1>0, <1>4 DEF AllInOrder
  <2> DEFINE q == Requeue(m_queue[k], A, prio)
  <2>5. InOrder(q, prio) /\ Range(q) = Range(m_queue[k])
    BY ONLY <1>2, <1>4, <2>3, <2>4, RequeuedOnce
  <2>6. queues[k] = q
    OBVIOUS
  <2> HIDE DEF q, queues
  <2> QED
    BY <2>5, <2>6
<1>7. DOMAIN queues = Mutexes
  OBVIOUS
<1> HIDE DEF queue, queues
<1>8. InOrder(InsertBehind(queues[m], c, prio), prio) /\ Range(InsertBehind(queues[m], c, prio)) = Range(m_queue[m]) \cup {c}
  <2>1. InOrder(queues[m], prio) /\ Range(queues[m]) = Range(m_queue[m]) /\ c \notin Range(queues[m])
    BY <1>2, <1>6
  <2> QED
    BY <1>2, <1>4, <2>1, InsertedBehind
<1>9. /\ DOMAIN m_queue' = Mutexes
      /\ m_queue' = [k \in Mutexes |-> m_queue'[k]]
      /\ \A k \in Mutexes : m_queue'[k] = IF k = m THEN InsertBehind(queues[m], c, prio) ELSE queues[k]
  BY <1>1, <1>7
<1>10. \A k \in Mutexes : /\ InOrder(m_queue'[k], prio)
                          /\ Range(m_queue'[k]) = Range(m_queue[k]) \cup (IF k = m THEN {c} ELSE {})
  <2> SUFFICES ASSUME NEW k \in Mutexes
               PROVE  /\ InOrder(m_queue'[k], prio)
                      /\ Range(m_queue'[k]) = Range(m_queue[k]) \cup (IF k = m THEN {c} ELSE {})
    OBVIOUS
  <2>1. CASE k = m
    BY <1>8, <1>9, <2>1
  <2>2. CASE k # m
    BY <1>6, <1>9, <2>2
  <2> QED
    BY <2>1, <2>2
<1> QED
  BY <1>1, <1>9, <1>10

\* The thread waits, and its priority is inherited along the chain.
LEMMA LockTakenKeeps ==
  ASSUME KernelInv, NEW m \in Mutexes, LockTaken(m)
  PROVE  KernelInv'
<1>0. KernelTyped /\ InPlace /\ AllInOrder /\ NoneAbove /\ SemaphoreAgrees /\ MutexesAgree /\ InheritanceExact
  BY DEF KernelInv
<1> DEFINE c == r_current
           o == m_owner[m]
           A == Affected[o]
           prio == [t \in Threads |-> IF t \in A THEN p_prio[c] ELSE p_prio[t]]
           queues == [k \in Mutexes |-> Requeue(m_queue[k], A, prio)]
           queue == Requeue(r_queue, A, prio)
           others == [p_state EXCEPT ![c] = "WTMTX"]
<1>1. /\ c # idle /\ o # NULL /\ (\A k \in Range(p_mtxlist[c]) : k < m)
      /\ p_prio' = prio /\ m_queue' = [queues EXCEPT ![m] = InsertBehind(@, c, prio)]
      /\ GoSleepS(queue, "WTMTX")
      /\ UNCHANGED <<p_mtxlist, m_owner, s_cnt, s_queue, holder>>
  BY DEF LockTaken, MayTake, semVars
<1>2. /\ c \in Threads /\ o \in Threads /\ p_prio \in [Threads -> Prios]
      /\ p_state \in [Threads -> States] /\ p_state[c] = "CURRENT" /\ c \notin Range(s_queue)
      /\ \A k \in Mutexes : c \notin Range(m_queue[k])
      /\ c \notin Range(r_queue) /\ idle \in Range(r_queue) /\ Range(r_queue) \in SUBSET Threads
  BY <1>0, <1>1, CurrentIsNowhere, Elsewhere DEF KernelTyped, States
<1>3. Walked(A, o) /\ (~Below(o) => A = {})
  BY <1>0, <1>2, AffectedIsWalk
<1>4. prio \in [Threads -> Prios] /\ \A t \in Threads : prio[t] = IF t \in A THEN p_prio[c] ELSE p_prio[t]
  BY <1>2
<1> HIDE DEF A, prio
<1>5. InOrder(queue, prio) /\ Range(queue) = Range(r_queue)
  <2>1. \A u \in Range(r_queue) : ~Waits(u)
    BY <1>0, <1>2 DEF InPlace, Waits
  <2>2. \A u, v \in Range(r_queue) \cap A : u = v
    BY <1>3, <2>1 DEF Walked, PassesOnce
  <2>3. InOrder(r_queue, p_prio) /\ \A t \in Threads \ A : prio[t] = p_prio[t]
    BY <1>0, <1>4 DEF AllInOrder
  <2> QED
    BY ONLY <1>2, <1>4, <2>2, <2>3, RequeuedOnce
<1> HIDE DEF queue, queues
<1>9. m_queue' = [k \in Mutexes |-> m_queue'[k]]
  BY WaitersGrow
<1>10. \A k \in Mutexes : /\ InOrder(m_queue'[k], prio)
                          /\ Range(m_queue'[k]) = Range(m_queue[k]) \cup (IF k = m THEN {c} ELSE {})
  BY <1>1, WaitersGrow
<1>11. Dispatched(Range(r_queue), prio, others)
  <2>1. "WTMTX" \in States
    BY DEF States
  <2> QED
    BY <1>0, <1>1, <1>4, <1>5, <2>1, AfterSleep
<1>12. \A t \in Threads : others[t] = IF t = c THEN "WTMTX" ELSE p_state[t]
  BY <1>2
<1> HIDE DEF others
<1>13. InPlace'
  <2>1. ASSUME NEW t \in Threads \ Range(r_queue)
        PROVE  /\ others[t] \notin {"CURRENT", "READY"}
               /\ others[t] = "WTMTX" <=> \E k \in Mutexes : t \in Range(m_queue'[k])
               /\ others[t] = "WTSEM" <=> t \in Range(s_queue')
    <3>1. CASE t = c
      <4>1. t \in Range(m_queue'[m])
        BY <1>10, <3>1
      <4> QED
        BY <1>1, <1>2, <1>12, <3>1, <4>1
    <3>2. CASE t # c
      <4>1. /\ p_state[t] \notin {"CURRENT", "READY"}
            /\ p_state[t] = "WTMTX" <=> \E k \in Mutexes : t \in Range(m_queue[k])
            /\ p_state[t] = "WTSEM" <=> t \in Range(s_queue)
        BY <1>0, <3>2, Elsewhere
      <4>2. \A k \in Mutexes : t \in Range(m_queue'[k]) <=> t \in Range(m_queue[k])
        BY <1>10, <3>2
      <4> QED
        BY <1>1, <1>12, <3>2, <4>1, <4>2
    <3> QED
      BY <3>1, <3>2
  <2>2. \A t \in Range(r_queue) : t \notin Range(s_queue') /\ \A k \in Mutexes : t \notin Range(m_queue'[k])
    <3>1. \A t \in Range(r_queue) : t \notin Range(s_queue) /\ t # c /\ \A k \in Mutexes : t \notin Range(m_queue[k])
      BY <1>0, <1>2, Elsewhere
    <3> QED
      BY <1>1, <1>10, <3>1
  <2>3. \A n, k \in Mutexes, t \in Threads : t \in Range(m_queue'[n]) /\ t \in Range(m_queue'[k]) => n = k
    <3>1. \A n, k \in Mutexes, t \in Threads : t \in Range(m_queue[n]) /\ t \in Range(m_queue[k]) => n = k
      BY <1>0, Elsewhere
    <3>2. \A n \in Mutexes, t \in Threads : t \in Range(m_queue'[n]) <=> t \in Range(m_queue[n]) \/ (t = c /\ n = m)
      BY <1>10
    <3> QED
      BY <1>2, <3>1, <3>2
  <2> QED
    BY <1>2, <1>11, <2>1, <2>2, <2>3, Placed
<1>14. /\ r_current' \in Range(r_queue) /\ Range(r_queue') = Range(r_queue) \ {r_current'}
       /\ InOrder(r_queue', prio) /\ (\A t \in Range(r_queue) : prio[t] =< prio[r_current'])
       /\ p_preempt' \in [Threads -> BOOLEAN] /\ p_state' \in [Threads -> States]
  BY <1>11 DEF Dispatched
<1>15. KernelTyped'
  <2>1. m_queue' \in [Mutexes -> Seq(Threads)]
    BY <1>9, <1>10 DEF InOrder
  <2>2. r_queue' \in Seq(Threads) /\ r_current' \in Threads /\ p_prio' \in [Threads -> Prios]
    BY <1>1, <1>2, <1>4, <1>14 DEF InOrder
  <2> QED
    BY <1>0, <1>1, <1>14, <2>1, <2>2 DEF KernelTyped, States
<1>16. AllInOrder' /\ NoneAbove'
  <2>1. AllInOrder'
    BY <1>1, <1>10, <1>14 DEF AllInOrder
  <2>2. NoneAbove'
    BY <1>1, <1>14 DEF NoneAbove
  <2> QED
    BY <2>1, <2>2
<1>17. SemaphoreAgrees'
  BY <1>0, <1>1 DEF SemaphoreAgrees
<1>18. \A t \in Threads, k \in Mutexes : k \in Range(p_mtxlist[t]) <=> m_owner[k] = t
  BY <1>0 DEF MutexesAgree
<1>19. MutexesAgree'
  <2>1. /\ \A t \in Threads, k \in Mutexes : k \in Range(p_mtxlist'[t]) <=> m_owner'[k] = t
        /\ \A t \in Threads, i, j \in Nat : 1 =< i /\ i < j /\ j =< Len(p_mtxlist'[t]) =>
             p_mtxlist'[t][j] < p_mtxlist'[t][i]
        /\ p_mtxlist'[idle] = <<>>
    BY <1>0, <1>1 DEF MutexesAgree
  <2>2. ASSUME NEW k \in Mutexes, m_owner'[k] = NULL PROVE m_queue'[k] = <<>>
    <3>1. k # m /\ m_queue[k] = <<>>
      BY <1>0, <1>1, <2>2 DEF MutexesAgree
    <3>2. Range(m_queue'[k]) = {} /\ m_queue'[k] \in Seq(Threads)
      <4>1. Range(m_queue[k]) = {}
        BY <3>1 DEF Range
      <4> QED
        BY <1>10, <3>1, <4>1 DEF InOrder
    <3> QED
      BY <3>2, Members
  <2>3. ASSUME NEW n \in Mutexes, NEW k \in Mutexes, NEW t \in Threads,
               t \in Range(m_queue'[n]) /\ m_owner'[k] = t
        PROVE  k < n
    <3>1. m_owner[k] = t
      BY <1>1, <2>3
    <3>2. CASE t \in Range(m_queue[n])
      BY <1>0, <3>1, <3>2 DEF MutexesAgree
    <3>3. CASE t \notin Range(m_queue[n])
      <4>1. t = c /\ n = m
        BY <1>10, <2>3, <3>3
      <4> QED
        BY <1>1, <1>18, <3>1, <4>1
    <3> QED
      BY <3>2, <3>3
  <2> QED
    BY <2>1, <2>2, <2>3 DEF MutexesAgree
<1>20. InheritanceExact'
  <2> DEFINE W == [t \in Threads |-> Waiters(t)]
  <2>1. /\ W \in [Threads -> SUBSET Threads] /\ \A t \in Threads : W[t] = Waiters(t)
        /\ \A t \in Threads : Exact(t, p_prio, W[t])
    BY <1>0, WaitersAre, InheritedFromWaiters
  <2>2. \A t \in Threads : \A u : u \in W[t] <=> u \in Threads /\ Waits(u) /\ AheadOf(u) = t
    BY <1>0, <2>1, WaitersAre
  <2>3. ASSUME NEW t \in Threads PROVE Below(t) <=> p_prio[t] < p_prio[c]
    BY <1>2 DEF Below, Prios
  <2> HIDE DEF W, c, o
  <2>4. A \in SUBSET Threads /\ \A u \in A : p_prio[u] < p_prio[c]
    BY <1>3, <2>3 DEF Walked, Lower
  <2>5. \A t \in Threads, u \in A : u \in W[t] /\ p_prio[t] < p_prio[c] => t \in A
    BY <1>3, <2>2, <2>3 DEF Walked, Whole
  <2>6. \A t \in A : t # o => \E v \in A : v \in W[t]
    <3> SUFFICES ASSUME NEW t \in A, t # o PROVE \E v \in A : v \in W[t]
      OBVIOUS
    <3>1. PICK v \in A : Waits(v) /\ AheadOf(v) = t
      BY <1>3 DEF Walked, Linked
    <3> QED
      BY <2>2, <2>4, <3>1
  <2>7. (p_prio[o] < p_prio[c] => o \in A) /\ (~(p_prio[o] < p_prio[c]) => A = {})
    BY <1>2, <1>3, <2>3 DEF Walked, Linked
  <2>8. \A t \in Threads : Exact(t, prio, W[t] \cup (IF t = o THEN {c} ELSE {}))
    <3>1. RaisedBy(p_prio, W, c, o, A, prio)
      BY ONLY <1>4, <2>4, <2>5, <2>6, <2>7 DEF RaisedBy
    <3> QED
      BY ONLY <1>2, <1>4, <2>1, <2>4, <3>1, RaisedExactly
  <2>9. ASSUME NEW t \in Threads PROVE Waiters(t)' = W[t] \cup (IF t = o THEN {c} ELSE {})
    <3>1. Waiters(t)' = UNION {Range(m_queue'[k]) : k \in Range(p_mtxlist[t])}
      BY <1>1 DEF Waiters
    <3>2. Range(p_mtxlist[t]) \subseteq Mutexes /\ (m \in Range(p_mtxlist[t]) <=> t = o)
      <4>1. Range(p_mtxlist[t]) \subseteq Mutexes
        BY <1>0 DEF KernelTyped, Range
      <4> QED
        BY <1>18, <4>1 DEF o
    <3>3. \A u : (\E k \in Range(p_mtxlist[t]) : u \in Range(m_queue'[k]))
                 <=> (\E k \in Range(p_mtxlist[t]) : u \in Range(m_queue[k])) \/ (t = o /\ u = c)
      BY <1>10, <3>2
    <3>4. W[t] = UNION {Range(m_queue[k]) : k \in Range(p_mtxlist[t])}
      BY <2>1 DEF Waiters
    <3> QED
      BY <3>1, <3>3, <3>4
  <2>10. ASSUME NEW t \in Threads PROVE Waiters(t)' \in SUBSET Threads /\ Exact(t, p_prio', Waiters(t)')
    BY <1>1, <1>2, <2>1, <2>8, <2>9
  <2>11. p_prio' \in [Threads -> Prios]
    BY <1>1, <1>4
  <2> QED
    BY <2>10, <2>11, InheritedThen
<1> QED
  BY <1>13, <1>15, <1>16, <1>17, <1>19, <1>20 DEF KernelInv

\* What its remaining mutexes leave a thread.
LEMMA RecalculatedIs ==
  ASSUME KernelTyped, AllInOrder, NEW t \in Threads, NEW rest, Range(rest) \subseteq Mutexes
  PROVE  /\ Recalculated(t, rest) \in Prios /\ p_realprio[t] =< Recalculated(t, rest)
         /\ \/ Recalculated(t, rest) = p_realprio[t]
            \/ \E k \in Range(rest) : \E u \in Range(m_queue[k]) : Recalculated(t, rest) = p_prio[u]
         /\ \A k \in Range(rest) : \A u \in Range(m_queue[k]) : p_prio[u] =< Recalculated(t, rest)
<1> DEFINE S == {p_realprio[t]} \cup {p_prio[Head(m_queue[m])] : m \in {k \in Range(rest) : m_queue[k] # <<>>}}
           R == Recalculated(t, rest)
<1>0. p_prio \in [Threads -> Prios]
  BY DEF KernelTyped
<1>1. ASSUME NEW k \in Range(rest), m_queue[k] # <<>>
      PROVE  /\ Head(m_queue[k]) \in Range(m_queue[k]) /\ Head(m_queue[k]) \in Threads
             /\ \A u \in Range(m_queue[k]) : p_prio[u] =< p_prio[Head(m_queue[k])]
  <2>1. InOrder(m_queue[k], p_prio)
    BY DEF AllInOrder
  <2> QED
    BY <1>0, <1>1, <2>1, FirstIsHighest
<1>2. S \in SUBSET Prios /\ S # {}
  BY <1>0, <1>1, RealPrios
<1>3. R = Max(S)
  BY DEF Recalculated
<1>4. R \in S /\ \A x \in S : x =< R
  <2> HIDE DEF S, R
  <2> QED
    BY <1>2, <1>3, MaxIs
<1> HIDE DEF R
<1>5. R \in Prios /\ p_realprio[t] =< R
  BY <1>2, <1>4
<1>6. R = p_realprio[t] \/ \E k \in Range(rest) : \E u \in Range(m_queue[k]) : R = p_prio[u]
  <2> SUFFICES ASSUME R # p_realprio[t] PROVE \E k \in Range(rest) : \E u \in Range(m_queue[k]) : R = p_prio[u]
    OBVIOUS
  <2>1. PICK k \in Range(rest) : m_queue[k] # <<>> /\ R = p_prio[Head(m_queue[k])]
    BY <1>4
  <2> QED
    BY <1>1, <2>1
<1>7. ASSUME NEW k \in Range(rest), NEW u \in Range(m_queue[k]) PROVE p_prio[u] =< R
  <2>1. m_queue[k] # <<>> /\ u \in Threads
    BY <1>7, Members DEF KernelTyped
  <2>2. p_prio[u] =< p_prio[Head(m_queue[k])] /\ p_prio[Head(m_queue[k])] =< R
    BY <1>1, <1>4, <2>1
  <2>3. p_prio[u] \in Int /\ p_prio[Head(m_queue[k])] \in Int /\ R \in Int
    BY <1>0, <1>1, <1>5, <2>1 DEF Prios
  <2> QED
    BY ONLY <2>2, <2>3
<1> QED
  BY <1>5, <1>6, <1>7 DEF R

\* A mutex is handed over: the old owner falls back to what its other waiters make
\* it, and the new owner is, by the order of the queue, as urgent as the rest of it.
LEMMA UnlockAwaitedKeeps ==
  ASSUME KernelInv, UnlockAwaited
  PROVE  KernelInv'
<1>0. KernelTyped /\ InPlace /\ AllInOrder /\ NoneAbove /\ SemaphoreAgrees /\ MutexesAgree /\ InheritanceExact
  BY DEF KernelInv
<1> DEFINE c == r_current
           m == Head(p_mtxlist[c])
           rest == Tail(p_mtxlist[c])
           tp == Head(m_queue[m])
           left == Tail(m_queue[m])
           R == Recalculated(c, rest)
           prio == [p_prio EXCEPT ![c] = R]
<1>1. /\ p_mtxlist[c] # <<>> /\ m_queue[m] # <<>> /\ p_prio' = prio
      /\ m_queue' = [m_queue EXCEPT ![m] = left] /\ m_owner' = [m_owner EXCEPT ![m] = tp]
      /\ p_mtxlist' = [p_mtxlist EXCEPT ![c] = rest, ![tp] = <<m>> \o @]
      /\ WakeupS(tp, prio) /\ UNCHANGED <<s_cnt, s_queue, holder>>
  BY DEF UnlockAwaited, semVars
<1>2. /\ c \in Threads /\ p_prio \in [Threads -> Prios] /\ p_mtxlist \in [Threads -> Seq(Mutexes)]
      /\ m_queue \in [Mutexes -> Seq(Threads)] /\ m_owner \in [Mutexes -> Threads \cup {NULL}]
      /\ c \notin Range(s_queue) /\ c \notin Range(r_queue) /\ p_state[c] = "CURRENT"
      /\ \A k \in Mutexes : c \notin Range(m_queue[k])
      /\ Range(r_queue) \cup {c} \in SUBSET Threads /\ idle \in Range(r_queue) \cup {c}
  BY <1>0, CurrentIsNowhere, Elsewhere DEF KernelTyped
<1>3. /\ m \in Mutexes /\ m \in Range(p_mtxlist[c]) /\ Falling(rest)
      /\ Range(rest) = Range(p_mtxlist[c]) \ {m}
  BY <1>0, <1>1, <1>2, ListsFall, Popped
<1>4. /\ tp \in Range(m_queue[m]) /\ tp \in Threads
      /\ \A t \in Range(m_queue[m]) : p_prio[t] =< p_prio[tp]
      /\ InOrder(left, p_prio) /\ Range(left) = Range(m_queue[m]) \ {tp}
  <2>1. InOrder(m_queue[m], p_prio)
    BY <1>0, <1>3 DEF AllInOrder
  <2> QED
    BY <1>1, <1>2, <2>1, FirstIsHighest
<1>5. \A t \in Threads, k \in Mutexes : k \in Range(p_mtxlist[t]) <=> m_owner[k] = t
  BY <1>0 DEF MutexesAgree
<1>6. Range(rest) \subseteq Mutexes /\ rest \in Seq(Mutexes)
  BY <1>3 DEF Falling, Range
<1>7. /\ R \in Prios /\ p_realprio[c] =< R
      /\ R = p_realprio[c] \/ \E k \in Range(rest) : \E u \in Range(m_queue[k]) : R = p_prio[u]
      /\ \A k \in Range(rest) : \A u \in Range(m_queue[k]) : p_prio[u] =< R
  BY <1>0, <1>2, <1>6, RecalculatedIs
<1> HIDE DEF m, rest, tp, left, R
<1>8. prio \in [Threads -> Prios] /\ \A t \in Threads : prio[t] = IF t = c THEN R ELSE p_prio[t]
  BY <1>2, <1>7
<1> HIDE DEF prio
<1>9. /\ tp # c /\ p_state[tp] = "WTMTX" /\ tp \notin Range(r_queue) /\ tp \notin Range(s_queue) /\ tp # idle
      /\ \A k \in Mutexes : tp \in Range(m_queue[k]) => k = m
  <2>1. p_state[tp] = "WTMTX"
    BY <1>0, <1>3, <1>4 DEF InPlace
  <2>2. tp # c /\ tp # idle
    BY <1>0, <1>2, <2>1 DEF InPlace
  <2>3. tp \notin Range(r_queue) /\ tp \notin Range(s_queue)
    BY <1>0, <1>4, <2>1 DEF InPlace
  <2>4. \A k \in Mutexes : tp \in Range(m_queue[k]) => k = m
    BY <1>0, <1>3, <1>4 DEF InPlace
  <2> QED
    BY <2>1, <2>2, <2>3, <2>4
<1>10. \A k \in Mutexes : m_queue'[k] = IF k = m THEN left ELSE m_queue[k]
  BY <1>1, <1>2, <1>3
<1>11. \A k \in Mutexes : m_owner'[k] = IF k = m THEN tp ELSE m_owner[k]
  BY <1>1, <1>2, <1>3
<1>12. \A k \in Mutexes : Range(m_queue'[k]) = Range(m_queue[k]) \ {tp}
  BY <1>4, <1>9, <1>10
<1>13. Exact(c, p_prio, Waiters(c)) /\ Waiters(c) \in SUBSET Threads
  BY <1>0, <1>2, WaitersAre, InheritedFromWaiters
<1>14. p_prio[c] =< R \/ p_prio[c] =< p_prio[tp]
  <2>1. CASE p_prio[c] = p_realprio[c]
    BY <1>7, <2>1
  <2>2. CASE p_prio[c] # p_realprio[c]
    <3>1. PICK u \in Waiters(c) : p_prio[c] = p_prio[u]
      BY <1>13, <2>2 DEF Exact
    <3>2. PICK k \in Range(p_mtxlist[c]) : u \in Range(m_queue[k])
      BY DEF Waiters
    <3>3. CASE k = m
      BY <1>4, <3>1, <3>2, <3>3
    <3>4. CASE k # m
      BY <1>3, <1>7, <3>1, <3>2, <3>4
    <3> QED
      BY <3>3, <3>4
  <2> QED
    BY <2>1, <2>2
<1>15. \A t \in Range(r_queue) \cup {c} : p_prio[t] \in Int /\ p_prio[t] =< p_prio[c]
  <2>0. p_prio \in [Threads -> Prios]
    BY <1>2
  <2>1. \A t \in Threads : p_prio[t] \in Int
    BY ONLY <2>0 DEF Prios
  <2>2. p_prio[c] =< p_prio[c]
    BY <1>2, <2>1
  <2>3. \A t \in Range(r_queue) : p_prio[t] =< p_prio[c]
    BY <1>0 DEF NoneAbove
  <2> QED
    BY <1>2, <2>1, <2>2, <2>3
<1>16. R \in Int /\ p_prio[tp] \in Int /\ p_prio[c] \in Int
  <2>0. p_prio \in [Threads -> Prios]
    BY <1>2
  <2>1. \A t \in Threads : p_prio[t] \in Int
    BY ONLY <2>0 DEF Prios
  <2>2. R \in Int
    BY <1>7 DEF Prios
  <2> QED
    BY <1>2, <1>4, <2>1, <2>2
<1> DEFINE ready == Range(r_queue) \cup {c, tp}
<1>17. Dispatched(ready, prio, p_state)
  <2>1. InOrder(r_queue, prio)
    <3>1. InOrder(r_queue, p_prio)
      BY <1>0 DEF AllInOrder
    <3>2. \A t \in Range(r_queue) : prio[t] = p_prio[t]
      BY <1>2, <1>8
    <3> QED
      BY <3>1, <3>2, OrderStays
  <2>2. \A t \in Range(r_queue) : prio[t] = p_prio[t] /\ t # c
    BY <1>2, <1>8
  <2>3. prio[c] = R /\ prio[tp] = p_prio[tp]
    BY <1>2, <1>4, <1>8, <1>9
  <2>4. ASSUME NEW t \in Range(r_queue) PROVE prio[t] =< R \/ prio[t] =< p_prio[tp]
    <3>1. p_prio[t] \in Int /\ p_prio[t] =< p_prio[c] /\ prio[t] = p_prio[t]
      BY <1>15, <2>2
    <3> QED
      BY ONLY <1>14, <1>16, <3>1
  <2>5. ASSUME NEW t \in Range(r_queue), p_prio[tp] =< R PROVE prio[t] =< R
    <3>1. p_prio[t] \in Int /\ p_prio[t] =< p_prio[c] /\ prio[t] = p_prio[t]
      BY <1>15, <2>2
    <3> QED
      BY ONLY <1>14, <1>16, <2>5, <3>1
  <2>6. /\ \A t \in Range(r_queue) : prio[t] =< prio[c] \/ prio[t] =< prio[tp]
        /\ \A t \in Range(r_queue) : prio[tp] =< prio[c] => prio[t] =< prio[c]
    BY <2>3, <2>4, <2>5
  <2> QED
    BY <1>0, <1>1, <1>4, <1>8, <1>9, <2>1, <2>6, AfterWakeup
<1>18. ready \in SUBSET Threads /\ idle \in ready
  BY <1>2, <1>4
<1>19. InPlace'
  <2>1. ASSUME NEW t \in Threads \ ready
        PROVE  /\ p_state[t] \notin {"CURRENT", "READY"}
               /\ p_state[t] = "WTMTX" <=> \E k \in Mutexes : t \in Range(m_queue'[k])
               /\ p_state[t] = "WTSEM" <=> t \in Range(s_queue')
    <3>1. /\ p_state[t] \notin {"CURRENT", "READY"}
          /\ p_state[t] = "WTMTX" <=> \E k \in Mutexes : t \in Range(m_queue[k])
          /\ p_state[t] = "WTSEM" <=> t \in Range(s_queue)
      BY <1>0, Elsewhere
    <3>2. \A k \in Mutexes : t \in Range(m_queue'[k]) <=> t \in Range(m_queue[k])
      BY <1>12
    <3> QED
      BY <1>1, <3>1, <3>2
  <2>2. \A t \in ready : t \notin Range(s_queue') /\ \A k \in Mutexes : t \notin Range(m_queue'[k])
    <3>1. \A t \in Range(r_queue) \cup {c} : t \notin Range(s_queue) /\ \A k \in Mutexes : t \notin Range(m_queue[k])
      BY <1>0, Elsewhere
    <3> QED
      BY <1>1, <1>9, <1>12, <3>1
  <2>3. \A n, k \in Mutexes, t \in Threads : t \in Range(m_queue'[n]) /\ t \in Range(m_queue'[k]) => n = k
    <3>1. \A n, k \in Mutexes, t \in Threads : t \in Range(m_queue[n]) /\ t \in Range(m_queue[k]) => n = k
      BY <1>0, Elsewhere
    <3> QED
      BY <1>12, <3>1
  <2> HIDE DEF ready
  <2> QED
    BY <1>17, <1>18, <2>1, <2>2, <2>3, Placed
<1>20. /\ r_current' \in ready /\ Range(r_queue') = ready \ {r_current'}
       /\ InOrder(r_queue', prio) /\ (\A t \in ready : prio[t] =< prio[r_current'])
       /\ p_preempt' \in [Threads -> BOOLEAN] /\ p_state' \in [Threads -> States]
  BY <1>17 DEF Dispatched
<1>21. AllInOrder' /\ NoneAbove'
  <2>1. ASSUME NEW k \in Mutexes PROVE InOrder(m_queue'[k], prio)
    <3>1. InOrder(m_queue'[k], p_prio)
      BY <1>0, <1>4, <1>10 DEF AllInOrder
    <3>2. \A t \in Range(m_queue'[k]) : prio[t] = p_prio[t]
      <4>1. \A t \in Range(m_queue[k]) : t # c /\ t \in Threads
        BY <1>2, Members
      <4> QED
        BY <1>8, <1>12, <4>1
    <3> QED
      BY <3>1, <3>2, OrderStays
  <2>2. AllInOrder'
    BY <1>1, <1>20, <2>1 DEF AllInOrder
  <2>3. NoneAbove'
    BY <1>1, <1>20 DEF NoneAbove
  <2> QED
    BY <2>2, <2>3
<1> DEFINE new == <<m>> \o p_mtxlist[tp]
<1>22. Falling(new) /\ Range(new) = Range(p_mtxlist[tp]) \cup {m}
  <2>1. \A k \in Range(p_mtxlist[tp]) : k < m
    <3>1. \A k \in Range(p_mtxlist[tp]) : k \in Mutexes /\ m_owner[k] = tp
      <4>1. Range(p_mtxlist[tp]) \subseteq Mutexes
        BY <1>2, <1>4 DEF Range
      <4> QED
        BY <1>4, <1>5, <4>1
    <3> QED
      BY <1>0, <1>3, <1>4, <3>1 DEF MutexesAgree
  <2> QED
    BY <1>0, <1>3, <1>4, <2>1, ListsFall, Pushed
<1>23. p_mtxlist' = [[p_mtxlist EXCEPT ![c] = rest] EXCEPT ![tp] = new]
  BY <1>1, <1>2, <1>4, <1>9
<1> HIDE DEF new
<1>24. /\ \A t \in Threads : p_mtxlist'[t] = IF t = tp THEN new ELSE IF t = c THEN rest ELSE p_mtxlist[t]
       /\ p_mtxlist' \in [Threads -> Seq(Mutexes)]
  BY <1>2, <1>4, <1>6, <1>22, <1>23 DEF Falling
<1>25. KernelTyped'
  <2>1. m_queue' \in [Mutexes -> Seq(Threads)] /\ m_owner' \in [Mutexes -> Threads \cup {NULL}]
    <3>1. left \in Seq(Threads)
      BY <1>4 DEF InOrder
    <3> QED
      BY <1>1, <1>2, <1>3, <1>4, <3>1
  <2>2. r_queue' \in Seq(Threads) /\ r_current' \in Threads /\ p_prio' \in [Threads -> Prios]
    BY <1>1, <1>8, <1>18, <1>20 DEF InOrder
  <2> QED
    BY <1>0, <1>1, <1>20, <1>24, <2>1, <2>2 DEF KernelTyped, States
<1>26. SemaphoreAgrees'
  BY <1>0, <1>1 DEF SemaphoreAgrees
<1>27. MutexesAgree'
  <2>1. ASSUME NEW t \in Threads, NEW k \in Mutexes PROVE k \in Range(p_mtxlist'[t]) <=> m_owner'[k] = t
    <3>1. CASE k = m
      <4>1. t # c => m \notin Range(p_mtxlist[t])
        BY <1>2, <1>3, <1>5
      <4> QED
        BY <1>3, <1>9, <1>11, <1>22, <1>24, <3>1, <4>1
    <3>2. CASE k # m
      BY <1>3, <1>5, <1>11, <1>22, <1>24, <3>2
    <3> QED
      BY <3>1, <3>2
  <2>2. ASSUME NEW t \in Threads, NEW i \in Nat, NEW j \in Nat, 1 =< i /\ i < j /\ j =< Len(p_mtxlist'[t])
        PROVE  p_mtxlist'[t][j] < p_mtxlist'[t][i]
    <3>1. Falling(p_mtxlist'[t])
      BY <1>0, <1>3, <1>22, <1>24, ListsFall
    <3> QED
      BY <2>2, <3>1 DEF Falling
  <2>3. ASSUME NEW k \in Mutexes, m_owner'[k] = NULL PROVE m_queue'[k] = <<>>
    <3>1. tp # NULL
      BY <1>4, KernelAssumption DEF KernelAssumption
    <3>2. k # m /\ m_owner[k] = NULL
      BY <1>11, <2>3, <3>1
    <3> QED
      BY <1>0, <1>10, <3>2 DEF MutexesAgree
  <2>4. ASSUME NEW n \in Mutexes, NEW k \in Mutexes, NEW t \in Threads,
               t \in Range(m_queue'[n]) /\ m_owner'[k] = t
        PROVE  k < n
    <3>1. t # tp /\ t \in Range(m_queue[n])
      BY <1>12, <2>4
    <3>2. m_owner[k] = t
      BY <1>11, <2>4, <3>1
    <3> QED
      BY <1>0, <3>1, <3>2 DEF MutexesAgree
  <2>5. p_mtxlist'[idle] = <<>>
    <3>1. p_mtxlist[idle] = <<>> /\ idle \in Threads
      BY <1>0 DEF MutexesAgree, Threads
    <3>2. idle # c /\ idle # tp
      BY <1>1, <1>9, <3>1
    <3> QED
      BY <1>24, <3>1, <3>2
  <2> QED
    BY <2>1, <2>2, <2>3, <2>4, <2>5 DEF MutexesAgree
<1>28. InheritanceExact'
  <2>1. \A t \in Threads : Waiters(t) \in SUBSET Threads /\ Exact(t, p_prio, Waiters(t)) /\ c \notin Waiters(t)
    <3>1. \A t \in Threads : Waiters(t) \in SUBSET Threads /\ Exact(t, p_prio, Waiters(t))
      BY <1>0, WaitersAre, InheritedFromWaiters
    <3>2. \A t \in Threads : c \notin Waiters(t)
      BY <1>0, <1>2, WaitersAre DEF Waits
    <3> QED
      BY <3>1, <3>2
  <2>2. \A t \in Threads : Range(p_mtxlist[t]) \subseteq Mutexes
    BY <1>2 DEF Range
  <2>3. \A t \in Threads : Waiters(t)' = UNION {Range(m_queue'[k]) : k \in Range(p_mtxlist'[t])}
    BY DEF Waiters
  <2>4. ASSUME NEW t \in Threads, t # c, t # tp PROVE Waiters(t)' \in SUBSET Threads /\ Exact(t, prio, Waiters(t)')
    <3>1. m \notin Range(p_mtxlist[t]) /\ p_mtxlist'[t] = p_mtxlist[t]
      BY <1>2, <1>3, <1>5, <1>24, <2>4
    <3>2. \A k \in Range(p_mtxlist[t]) : m_queue'[k] = m_queue[k]
      BY <1>10, <2>2, <3>1
    <3>3. Waiters(t)' = Waiters(t)
      BY <2>3, <3>1, <3>2 DEF Waiters
    <3>4. prio[t] = p_prio[t] /\ \A u \in Waiters(t) : prio[u] = p_prio[u]
      BY <1>8, <2>1, <2>4
    <3> QED
      BY <2>1, <3>3, <3>4 DEF Exact
  <2>5. ASSUME NEW t \in Threads, t = c PROVE Waiters(t)' \in SUBSET Threads /\ Exact(t, prio, Waiters(t)')
    <3>1. p_mtxlist'[c] = rest
      BY <1>2, <1>9, <1>24
    <3>2. \A k \in Range(rest) : k \in Mutexes /\ m_queue'[k] = m_queue[k]
      BY <1>3, <1>6, <1>10
    <3>3. Waiters(t)' = UNION {Range(m_queue[k]) : k \in Range(rest)}
      BY <1>2, <2>3, <2>5, <3>1, <3>2
    <3>4. \A u \in Waiters(t)' : u \in Threads /\ u # c
      BY <1>2, <3>2, <3>3, Members
    <3>5. prio[c] = R /\ \A u \in Waiters(t)' : prio[u] = p_prio[u]
      BY <1>2, <1>8, <3>4
    <3>6. /\ R = p_realprio[c] \/ \E u \in Waiters(t)' : R = p_prio[u]
          /\ \A u \in Waiters(t)' : p_prio[u] =< R
      BY <1>7, <3>3
    <3> QED
      BY <1>7, <2>5, <3>4, <3>5, <3>6 DEF Exact
  <2>6. ASSUME NEW t \in Threads, t = tp PROVE Waiters(t)' \in SUBSET Threads /\ Exact(t, prio, Waiters(t)')
    <3>1. p_mtxlist'[tp] = new /\ m \notin Range(p_mtxlist[tp])
      BY <1>2, <1>3, <1>4, <1>5, <1>9, <1>24
    <3>2. \A k \in Range(p_mtxlist[tp]) : k \in Mutexes /\ m_queue'[k] = m_queue[k]
      BY <1>4, <1>10, <2>2, <3>1
    <3>3. m_queue'[m] = left
      BY <1>3, <1>10
    <3>4. Waiters(t)' = Waiters(tp) \cup Range(left)
      <4>1. Waiters(t)' = UNION {Range(m_queue'[k]) : k \in Range(p_mtxlist[tp]) \cup {m}}
        BY <1>22, <2>3, <2>6, <3>1
      <4>2. Waiters(tp) = UNION {Range(m_queue[k]) : k \in Range(p_mtxlist[tp])}
        BY DEF Waiters
      <4> QED
        BY <3>2, <3>3, <4>1, <4>2
    <3>5. \A u \in Range(left) : u \in Threads /\ u # c /\ p_prio[u] =< p_prio[tp]
      <4>1. \A u \in Range(m_queue[m]) : u \in Threads /\ u # c
        BY <1>2, <1>3, Members
      <4> QED
        BY <1>4, <4>1
    <3>6. prio[tp] = p_prio[tp] /\ \A u \in Waiters(t)' : u \in Threads /\ prio[u] = p_prio[u]
      <4>1. \A u \in Waiters(tp) : u \in Threads /\ u # c
        BY <1>4, <2>1
      <4> QED
        BY <1>4, <1>8, <1>9, <3>4, <3>5, <4>1
    <3>7. Exact(tp, p_prio, Waiters(tp))
      BY <1>4, <2>1
    <3>8. /\ p_prio[tp] = p_realprio[tp] \/ \E u \in Waiters(t)' : p_prio[tp] = p_prio[u]
          /\ p_realprio[tp] =< p_prio[tp]
          /\ \A u \in Waiters(t)' : p_prio[u] =< p_prio[tp]
      BY <3>4, <3>5, <3>7 DEF Exact
    <3> QED
      BY <2>6, <3>6, <3>8 DEF Exact
  <2>7. ASSUME NEW t \in Threads PROVE Waiters(t)' \in SUBSET Threads /\ Exact(t, p_prio', Waiters(t)')
    BY <1>1, <2>4, <2>5, <2>6, <2>7
  <2>8. p_prio' \in [Threads -> Prios]
    BY <1>1, <1>8
  <2> QED
    BY <2>7, <2>8, InheritedThen
<1> QED
  BY <1>19, <1>21, <1>25, <1>26, <1>27, <1>28 DEF KernelInv

-----------------------------------------------------------------------------
(* What holds of every run.                                                *)

\* Only the idle thread runs, nothing is held.
LEMMA KernelInitHolds ==
  ASSUME Init
  PROVE  KernelInv
<1>1. /\ r_queue = <<>> /\ r_current = idle
      /\ p_state = [t \in Threads |-> IF t = idle THEN "CURRENT" ELSE "SLEEPING"]
      /\ p_prio = p_realprio /\ p_preempt = [t \in Threads |-> TRUE]
      /\ p_mtxlist = [t \in Threads |-> <<>>]
      /\ m_owner = [m \in Mutexes |-> NULL] /\ m_queue = [m \in Mutexes |-> <<>>]
      /\ s_cnt = 1 /\ s_queue = <<>> /\ holder = NULL
  BY DEF Init
<1>2. Range(<<>>) = {} /\ <<>> \in Seq(Threads) /\ <<>> \in Seq(Mutexes) /\ Len(<<>>) = 0 /\ 1 .. 0 = {}
  BY DEF Range
<1>3. idle \in Threads
  BY DEF Threads
<1>4. KernelTyped
  <2>1. p_state \in [Threads -> States] /\ p_preempt \in [Threads -> BOOLEAN]
    BY <1>1 DEF States
  <2>2. p_mtxlist \in [Threads -> Seq(Mutexes)] /\ m_queue \in [Mutexes -> Seq(Threads)]
        /\ m_owner \in [Mutexes -> Threads \cup {NULL}]
    BY <1>1, <1>2
  <2>3. p_prio \in [Threads -> Prios]
    BY <1>1, RealPrios
  <2>4. s_cnt \in Int /\ s_queue \in Seq(Threads) /\ r_queue \in Seq(Threads)
        /\ holder \in Threads \cup {NULL} /\ r_current \in Threads
    BY <1>1, <1>2, <1>3
  <2> QED
    BY <2>1, <2>2, <2>3, <2>4 DEF KernelTyped, States
<1>5. InPlace
  <2>1. /\ \A t \in Threads : p_state[t] = IF t = idle THEN "CURRENT" ELSE "SLEEPING"
        /\ \A m \in Mutexes : Range(m_queue[m]) = {}
        /\ Range(r_queue) = {} /\ Range(s_queue) = {}
    BY <1>1, <1>2
  <2> QED
    BY <1>1, <1>3, <2>1 DEF InPlace
<1>6. AllInOrder
  <2>1. InOrder(<<>>, p_prio)
    BY <1>2 DEF InOrder
  <2> QED
    BY <1>1, <2>1 DEF AllInOrder
<1>7. NoneAbove
  BY <1>1, <1>2 DEF NoneAbove
<1>8. MutexesAgree
  <2>1. \A t \in Threads : p_mtxlist[t] = <<>> /\ Len(p_mtxlist[t]) = 0 /\ Range(p_mtxlist[t]) = {}
    BY <1>1, <1>2
  <2>2. \A m \in Mutexes : m_owner[m] = NULL /\ m_queue[m] = <<>> /\ Range(m_queue[m]) = {}
    BY <1>1, <1>2
  <2>3. NULL \notin Threads
    BY KernelAssumption DEF KernelAssumption
  <2>4. \A i, j \in Nat : ~(1 =< i /\ i < j /\ j =< 0)
    OBVIOUS
  <2> QED
    BY <1>3, <2>1, <2>2, <2>3, <2>4 DEF MutexesAgree
<1>9. SemaphoreAgrees
  BY <1>1, <1>2 DEF SemaphoreAgrees
<1>10. InheritanceExact
  <2>1. ASSUME NEW t \in Threads PROVE Exact(t, p_prio, Waiters(t))
    <3>1. p_prio[t] = p_realprio[t] /\ p_realprio[t] \in Int
      BY <1>1, RealPrios DEF Prios
    <3>2. Waiters(t) = {}
      BY <1>1, <1>2 DEF Waiters
    <3> QED
      BY <3>1, <3>2 DEF Exact
  <2> QED
    BY <1>4, <1>5, <1>8, <2>1, InheritedFromWaiters
<1> QED
  BY <1>4, <1>5, <1>6, <1>7, <1>8, <1>9, <1>10 DEF KernelInv

\* Nothing changes.
LEMMA KernelStutters ==
  ASSUME KernelInv, UNCHANGED vars
  PROVE  KernelInv'
<1>1. UNCHANGED <<schedVars, p_prio, m_queue, s_queue>> /\ UNCHANGED <<p_prio, mutexVars>>
  BY DEF vars, mutexVars, semVars
<1>2. InPlace' /\ AllInOrder' /\ NoneAbove'
  BY <1>1, StaysPlaced
<1>3. MutexesAgree' /\ InheritanceExact'
  BY <1>1, StaysInherited
<1>4. KernelTyped' /\ SemaphoreAgrees'
  BY DEF KernelInv, KernelTyped, SemaphoreAgrees, vars, schedVars, mutexVars, semVars
<1> QED
  BY <1>2, <1>3, <1>4 DEF KernelInv

\* The invariant is inductive.
LEMMA KernelNextStep ==
  ASSUME KernelInv, [Next]_vars
  PROVE  KernelInv'
BY InterruptKeeps, SleepKeeps, WaitKeeps, SignalKeeps, LockFreeKeeps, LockTakenKeeps, UnlockAloneKeeps,
   UnlockAwaitedKeeps, KernelStutters DEF Next

\* A thread has its own priority or the highest of those that wait for its mutexes,
\* directly or through others, and never keeps more after an unlock (chMtxLockS,
\* chMtxUnlock).
THEOREM PriorityIsInherited == Spec => []InheritanceExact
<1>1. KernelInv => InheritanceExact
  BY DEF KernelInv
<1> QED
  BY <1>1, KernelInitHolds, KernelNextStep, PTL DEF Spec

\* A list names no thread twice.
LEMMA NamedOnce ==
  ASSUME NEW q \in Seq(Threads), \A i, j \in 1 .. Len(q) : i < j => q[i] # q[j]
  PROVE  /\ IsFiniteSet(Range(q)) /\ Cardinality(Range(q)) = Len(q)
         /\ \A t \in Range(q) : Cardinality({i \in DOMAIN q : q[i] = t}) = 1
<1>1. Len(q) \in Nat /\ DOMAIN q = 1 .. Len(q) /\ Range(q) = {q[i] : i \in 1 .. Len(q)}
  BY DEF Range
<1> DEFINE n == Len(q)
           f == [i \in 1 .. n |-> q[i]]
<1>2. \A i, j \in 1 .. n : q[i] = q[j] => i = j
  <2> SUFFICES ASSUME NEW i \in 1 .. n, NEW j \in 1 .. n, q[i] = q[j], i # j PROVE FALSE
    OBVIOUS
  <2>1. i < j \/ j < i
    BY <1>1
  <2> QED
    BY <2>1
<1>3. f \in Bijection(1 .. n, Range(q))
  BY <1>1, <1>2, Fun_IsBij
<1>4. ExistsBijection(1 .. n, Range(q))
  <2> HIDE DEF f
  <2> QED
    BY <1>3 DEF ExistsBijection
<1>5. IsFiniteSet(1 .. n) /\ Cardinality(1 .. n) = n
  BY <1>1, FS_Interval
<1>6. IsFiniteSet(Range(q)) /\ Cardinality(Range(q)) = n
  BY <1>4, <1>5, FS_Bijection
<1>7. ASSUME NEW t \in Range(q) PROVE Cardinality({i \in DOMAIN q : q[i] = t}) = 1
  <2>1. PICK k \in 1 .. n : q[k] = t
    BY <1>1
  <2>2. {i \in DOMAIN q : q[i] = t} = {k}
    BY <1>1, <1>2, <2>1
  <2> QED
    BY <2>2, FS_Singleton
<1> QED
  BY <1>6, <1>7

\* The order of a whole list implies that of neighbours.
LEMMA InOrderIsOrdered ==
  ASSUME NEW q, InOrder(q, p_prio)
  PROVE  Ordered(q)
<1>1. q \in Seq(Threads) /\ Len(q) \in Nat /\ \A i, j \in 1 .. Len(q) : i < j => p_prio[q[i]] >= p_prio[q[j]]
  BY DEF InOrder
<1>2. ASSUME NEW i \in 1 .. Len(q) - 1 PROVE p_prio[q[i]] >= p_prio[q[i + 1]]
  <2>1. i \in 1 .. Len(q) /\ i + 1 \in 1 .. Len(q) /\ i < i + 1
    BY <1>1
  <2> QED
    BY <1>1, <2>1
<1> QED
  BY <1>2 DEF Ordered

\* The invariant implies what the property says, with each ready thread in the list
\* once, and as many places in it as there are such threads.
LEMMA HighestRunsThen ==
  ASSUME KernelInv
  PROVE  HighestRuns
<1>0. KernelTyped /\ InPlace /\ AllInOrder /\ NoneAbove
  BY DEF KernelInv
<1>1. /\ r_queue \in Seq(Threads) /\ r_current \in Threads /\ r_current \notin Range(r_queue)
      /\ m_queue \in [Mutexes -> Seq(Threads)]
      /\ p_state \in [Threads -> States]
  BY <1>0, CurrentIsNowhere DEF KernelTyped, States
<1>2. Ordered(r_queue) /\ \A m \in Mutexes : Ordered(m_queue[m])
  BY <1>0, InOrderIsOrdered DEF AllInOrder
<1>3. /\ IsFiniteSet(Range(r_queue)) /\ Cardinality(Range(r_queue)) = Len(r_queue)
      /\ \A t \in Range(r_queue) : Cardinality({i \in DOMAIN r_queue : r_queue[i] = t}) = 1
  <2>1. \A i, j \in 1 .. Len(r_queue) : i < j => r_queue[i] # r_queue[j]
    BY <1>0 DEF AllInOrder, InOrder
  <2> QED
    BY <1>1, <2>1, NamedOnce
<1>4. \A t \in Threads : /\ p_state[t] = "CURRENT" <=> t = r_current
                         /\ p_state[t] = "READY" <=> t \in Range(r_queue)
                         /\ p_state[t] = "WTMTX" <=> \E m \in Mutexes : t \in Range(m_queue[m])
                         /\ p_state[t] = "WTSEM" <=> t \in Range(s_queue)
  BY <1>0 DEF InPlace
<1>5. Range(m_queue) = {m_queue[m] : m \in Mutexes}
  BY <1>1 DEF Range
<1>6. ASSUME NEW t \in Threads
      PROVE  CASE p_state[t] = "CURRENT" -> t = r_current
               [] p_state[t] = "READY" -> Cardinality({i \in DOMAIN r_queue : r_queue[i] = t}) = 1
               [] p_state[t] = "WTMTX" -> \E m \in Mutexes : t \in Range(m_queue[m])
               [] p_state[t] = "WTSEM" -> t \in Range(s_queue)
               [] OTHER -> \A q \in {r_queue, s_queue} \cup Range(m_queue) : t \notin Range(q)
  <2>1. CASE p_state[t] = "CURRENT"
    BY <1>4, <2>1
  <2>2. CASE p_state[t] = "READY"
    BY <1>3, <1>4, <2>2
  <2>3. CASE p_state[t] = "WTMTX"
    BY <1>4, <2>3
  <2>4. CASE p_state[t] = "WTSEM"
    BY <1>4, <2>4
  <2>5. CASE p_state[t] = "SLEEPING"
    <3>1. \A q \in {r_queue, s_queue} \cup Range(m_queue) : t \notin Range(q)
      BY <1>4, <1>5, <2>5
    <3> QED
      BY <2>5, <3>1
  <2> QED
    BY <1>1, <2>1, <2>2, <2>3, <2>4, <2>5 DEF States
<1>7. Len(r_queue) + 1 = Cardinality({t \in Threads : p_state[t] \in {"CURRENT", "READY"}})
  <2>1. {t \in Threads : p_state[t] \in {"CURRENT", "READY"}} = Range(r_queue) \cup {r_current}
    <3>1. Range(r_queue) \subseteq Threads
      BY <1>1, Members
    <3> QED
      BY <1>1, <1>4, <3>1
  <2>2. Cardinality(Range(r_queue) \cup {r_current}) = Cardinality(Range(r_queue)) + 1
    BY <1>1, <1>3, FS_AddElement
  <2> QED
    BY <1>3, <2>1, <2>2
<1>8. \A t \in Range(r_queue) : p_prio[t] =< p_prio[r_current]
  BY <1>0 DEF NoneAbove
<1> QED
  BY <1>2, <1>6, <1>7, <1>8 DEF HighestRuns

\* Nobody who is ready is above the thread that runs, and every thread is in exactly
\* the list that its state says (chSchReadyI, chSchGoSleepS, chSchWakeupS, the
\* reschedules of the interrupts).
THEOREM TheHighestRuns == Spec => []HighestRuns
<1> QED
  BY KernelInitHolds, KernelNextStep, HighestRunsThen, PTL DEF Spec

-----------------------------------------------------------------------------
(* What the mutexes promise.                                               *)

\* waitsFor of Lock.
WaitsForWhat == [t \in Threads |-> IF p_state[t] = "WTMTX" THEN wtobjp(t) ELSE NULL]

\* The equation of the urgency, for any function.
UrgencyOf(f, t) ==
  Max({p_realprio[t]} \cup UNION {{f[u] : u \in {v \in Threads : WaitsForWhat[v] = m}} :
                                  m \in {k \in Mutexes : m_owner[k] = t}})

\* A function that satisfies the equation exists, so the urgency of Lock does.
LEMMA UrgencySolves ==
  (\E f : f = [t \in Threads |-> UrgencyOf(f, t)]) => L!Urgency = [t \in Threads |-> UrgencyOf(L!Urgency, t)]
<1> DEFINE D == CHOOSE f : f = [t \in Threads |-> UrgencyOf(f, t)]
<1>1. L!Urgency = D
  BY DEF L!Urgency, L!Waiting, UrgencyOf, WaitsForWhat, L!Max, Max
<1> QED
  BY <1>1

\* The waiters that Lock counts are those in the queues of a thread's mutexes.
LEMMA UrgencyFromWaiters ==
  ASSUME KernelInv, NEW f, NEW t \in Threads
  PROVE  UrgencyOf(f, t) = Max({p_realprio[t]} \cup {f[u] : u \in Waiters(t)})
<1>0. KernelTyped /\ InPlace /\ MutexesAgree /\ NULL \notin Mutexes
  BY KernelAssumption DEF KernelInv, KernelAssumption
<1> DEFINE S == UNION {{f[u] : u \in {v \in Threads : WaitsForWhat[v] = m}} : m \in {k \in Mutexes : m_owner[k] = t}}
           T == {f[u] : u \in Waiters(t)}
<1>1. \A u : u \in Waiters(t) <=> u \in Threads /\ Waits(u) /\ m_owner[wtobjp(u)] = t
  BY <1>0, WaitersAre DEF AheadOf
<1>2. \A u \in Threads : WaitsForWhat[u] = IF Waits(u) THEN wtobjp(u) ELSE NULL
  BY DEF WaitsForWhat, Waits
<1>3. \A u \in Threads : Waits(u) => wtobjp(u) \in Mutexes
  BY <1>0, WaitsForOwner
<1>4. ASSUME NEW x \in S PROVE x \in T
  <2>1. PICK m \in Mutexes : m_owner[m] = t /\ x \in {f[u] : u \in {v \in Threads : WaitsForWhat[v] = m}}
    BY <1>4
  <2>2. PICK u \in Threads : WaitsForWhat[u] = m /\ x = f[u]
    BY <2>1
  <2>3. u \in Waiters(t)
    BY <1>0, <1>1, <1>2, <2>1, <2>2
  <2> QED
    BY <2>2, <2>3
<1>5. ASSUME NEW x \in T PROVE x \in S
  <2>1. PICK u \in Waiters(t) : x = f[u]
    BY <1>5
  <2>2. u \in Threads /\ wtobjp(u) \in Mutexes /\ m_owner[wtobjp(u)] = t /\ WaitsForWhat[u] = wtobjp(u)
    BY <1>1, <1>2, <1>3
  <2> DEFINE m == wtobjp(u)
  <2>3. m \in {k \in Mutexes : m_owner[k] = t} /\ u \in {v \in Threads : WaitsForWhat[v] = m}
    BY <2>2
  <2> HIDE DEF m
  <2> QED
    BY <2>1, <2>3
<1>6. S = T
  BY <1>4, <1>5
<1> HIDE DEF S, T
<1>7. UrgencyOf(f, t) = Max({p_realprio[t]} \cup S)
  BY DEF UrgencyOf, S
<1>8. Max({p_realprio[t]} \cup S) = Max({p_realprio[t]} \cup T)
  BY <1>6
<1> QED
  BY <1>7, <1>8 DEF T

\* Priorities as they are inherited are urgencies: they solve the equation, ...
LEMMA PrioritiesSolve ==
  ASSUME KernelInv
  PROVE  p_prio = [t \in Threads |-> UrgencyOf(p_prio, t)]
<1>1. ASSUME NEW t \in Threads PROVE p_prio[t] = UrgencyOf(p_prio, t)
  <2>1. p_prio[t] = Max({p_realprio[t]} \cup {p_prio[u] : u \in Waiters(t)})
    BY DEF KernelInv, InheritanceExact, Waiters
  <2> QED
    BY <2>1, UrgencyFromWaiters
<1>2. p_prio \in [Threads -> Prios]
  BY DEF KernelInv, KernelTyped
<1> QED
  BY <1>1, <1>2

\* ... and it has no other solution: of the waiting threads that two solutions differ
\* for, the one that waits for the first mutex has none that waits for it.
LEMMA PriorityIsUrgency ==
  ASSUME KernelInv
  PROVE  \A t \in Threads : L!Urgency[t] = p_prio[t]
<1> DEFINE U == L!Urgency
<1>0. KernelTyped /\ InPlace /\ MutexesAgree /\ Mutexes \subseteq Nat
  BY KernelAssumption DEF KernelInv, KernelAssumption
<1>1. U = [t \in Threads |-> UrgencyOf(U, t)]
  BY PrioritiesSolve, UrgencySolves
<1> HIDE DEF U
<1>2. \A t \in Threads : U[t] = UrgencyOf(U, t) /\ p_prio[t] = UrgencyOf(p_prio, t)
  <2>1. \A t \in Threads : U[t] = UrgencyOf(U, t)
    BY <1>1
  <2> DEFINE p == p_prio
  <2>2. p = [t \in Threads |-> UrgencyOf(p, t)]
    BY PrioritiesSolve
  <2> HIDE DEF p
  <2>3. \A t \in Threads : p[t] = UrgencyOf(p, t)
    BY <2>2
  <2> QED
    BY <2>1, <2>3 DEF p
<1>3. ASSUME NEW t \in Threads, \A u \in Waiters(t) : U[u] = p_prio[u] PROVE U[t] = p_prio[t]
  <2>1. {U[u] : u \in Waiters(t)} = {p_prio[u] : u \in Waiters(t)}
    BY <1>3
  <2>2. UrgencyOf(U, t) = UrgencyOf(p_prio, t)
    BY <2>1, UrgencyFromWaiters
  <2> QED
    BY <1>2, <2>2
<1> DEFINE B == {u \in Threads : Waits(u) /\ U[u] # p_prio[u]}
           T == {wtobjp(u) : u \in B}
<1>4. ASSUME B # {} PROVE FALSE
  <2>1. T \in SUBSET Nat /\ T # {}
    BY <1>0, <1>4, WaitsForOwner
  <2> DEFINE m == Min(T)
  <2>2. m \in T /\ \A k \in T : m =< k
    <3> HIDE DEF T
    <3> QED
      BY <2>1, LeastExists
  <2> HIDE DEF m
  <2>3. PICK u \in B : wtobjp(u) = m
    BY <2>2
  <2>4. PICK v \in Waiters(u) : U[v] # p_prio[v]
    BY <1>3, <2>3
  <2>5. v \in Threads /\ Waits(v) /\ AheadOf(v) = u
    BY <1>0, <2>3, WaitersAre
  <2>6. wtobjp(v) \in T /\ wtobjp(v) < wtobjp(u)
    <3>1. wtobjp(v) < wtobjp(AheadOf(v))
      BY <1>0, <2>3, <2>5, WaitsForOwner
    <3> QED
      BY <2>4, <2>5, <3>1
  <2>7. m =< wtobjp(v) /\ wtobjp(v) < m /\ m \in Nat /\ wtobjp(v) \in Nat
    <3> HIDE DEF T
    <3> QED
      BY <2>1, <2>2, <2>3, <2>6
  <2> QED
    BY ONLY <2>7
<1>5. \A u \in Threads : Waits(u) => U[u] = p_prio[u]
  BY <1>4
<1>6. ASSUME NEW t \in Threads PROVE U[t] = p_prio[t]
  <2>1. \A u \in Waiters(t) : U[u] = p_prio[u]
    BY <1>0, <1>5, WaitersAre
  <2> QED
    BY <1>3, <2>1
<1> QED
  BY <1>6 DEF U

\* Whether and what a thread waits for is told by the queues of the mutexes.
LEMMA SameWaits ==
  ASSUME KernelInv, KernelInv', NEW t \in Threads,
         \A m \in Mutexes : t \in Range(m_queue'[m]) <=> t \in Range(m_queue[m])
  PROVE  WaitsForWhat'[t] = WaitsForWhat[t]
<1>0. KernelTyped /\ InPlace /\ MutexesAgree /\ InPlace'
  BY DEF KernelInv
<1>1. Waits(t) <=> \E m \in Mutexes : t \in Range(m_queue[m])
  BY <1>0 DEF InPlace, Waits
<1>2. p_state'[t] = "WTMTX" <=> \E m \in Mutexes : t \in Range(m_queue'[m])
  BY <1>0 DEF InPlace
<1>3. p_state'[t] = "WTMTX" <=> p_state[t] = "WTMTX"
  BY <1>1, <1>2 DEF Waits
<1>4. wtobjp(t)' = wtobjp(t)
  <2>1. wtobjp(t)' = CHOOSE m \in Mutexes : t \in Range(m_queue'[m])
    BY DEF wtobjp
  <2>2. wtobjp(t) = CHOOSE m \in Mutexes : t \in Range(m_queue[m])
    BY DEF wtobjp
  <2> QED
    BY <2>1, <2>2
<1>5. WaitsForWhat'[t] = IF p_state'[t] = "WTMTX" THEN wtobjp(t)' ELSE NULL
  BY DEF WaitsForWhat
<1>6. WaitsForWhat[t] = IF p_state[t] = "WTMTX" THEN wtobjp(t) ELSE NULL
  BY DEF WaitsForWhat
<1> QED
  BY <1>3, <1>4, <1>5, <1>6

\* The mapping: the same owners, and what each thread waits for.
LEMMA LockInit ==
  ASSUME Init
  PROVE  L!Init
<1>1. /\ m_owner = [m \in Mutexes |-> NULL]
      /\ p_state = [t \in Threads |-> IF t = idle THEN "CURRENT" ELSE "SLEEPING"]
  BY DEF Init
<1>2. \A t \in Threads : p_state[t] # "WTMTX"
  BY <1>1
<1>3. [t \in Threads |-> IF p_state[t] = "WTMTX" THEN wtobjp(t) ELSE NULL] = [t \in Threads |-> NULL]
  BY <1>2
<1> QED
  BY <1>1, <1>3 DEF L!Init

\* A step that leaves the owners and the lists of waiting threads alone is none.
LEMMA LockStutters ==
  ASSUME KernelInv, KernelInv', m_queue' = m_queue, m_owner' = m_owner
  PROVE  UNCHANGED L!vars
<1>1. \A t \in Threads : WaitsForWhat'[t] = WaitsForWhat[t]
  BY SameWaits
<1>2. WaitsForWhat' = WaitsForWhat
  BY <1>1 DEF WaitsForWhat
<1> QED
  BY <1>2 DEF L!vars, WaitsForWhat

\* A free mutex: Take.
LEMMA LockTakes ==
  ASSUME KernelInv, KernelInv', NEW m \in Mutexes, LockFree(m)
  PROVE  L!Next
<1>0. KernelTyped /\ InPlace
  BY DEF KernelInv
<1>1. m_owner[m] = NULL /\ m_owner' = [m_owner EXCEPT ![m] = r_current] /\ m_queue' = m_queue
  BY DEF LockFree
<1>2. r_current \in Threads /\ WaitsForWhat[r_current] = NULL
  BY <1>0, CurrentIsNowhere DEF WaitsForWhat
<1>3. WaitsForWhat' = WaitsForWhat
  <2>1. \A t \in Threads : WaitsForWhat'[t] = WaitsForWhat[t]
    BY <1>1, SameWaits
  <2> QED
    BY <2>1 DEF WaitsForWhat
<1>4. L!Take(r_current, m)
  BY <1>1, <1>2, <1>3 DEF L!Take, WaitsForWhat
<1> QED
  BY <1>2, <1>4 DEF L!Next

\* A mutex with an owner: Wait.
LEMMA LockWaits ==
  ASSUME KernelInv, KernelInv', NEW m \in Mutexes, LockTaken(m)
  PROVE  L!Next
<1>0. KernelTyped /\ InPlace /\ MutexesAgree /\ InPlace' /\ NULL \notin Threads /\ NULL \notin Mutexes /\ Mutexes \subseteq Nat
  BY KernelAssumption DEF KernelInv, KernelAssumption
<1>1. PICK c \in Threads : c = r_current
  BY <1>0 DEF KernelTyped
<1>2. /\ m_owner[m] # NULL /\ m_owner' = m_owner /\ \A k \in Range(p_mtxlist[c]) : k < m
  BY <1>1 DEF LockTaken, MayTake
<1>3. \A k \in Mutexes : m_owner[k] = c => k < m
  BY <1>0, <1>2 DEF MutexesAgree
<1>4. m_owner[m] # c
  <2>1. ~(m < m)
    BY <1>0
  <2> QED
    BY <1>3, <2>1
<1>5. \A k \in Mutexes : Range(m_queue'[k]) = Range(m_queue[k]) \cup (IF k = m THEN {c} ELSE {})
  BY <1>1, WaitersGrow
<1>6. WaitsForWhat[c] = NULL
  BY <1>0, <1>1, CurrentIsNowhere DEF WaitsForWhat
<1>7. WaitsForWhat'[c] = m
  <2>1. c \in Range(m_queue'[m])
    BY <1>5
  <2>2. \A k \in Mutexes : c \in Range(m_queue'[k]) => k = m
    BY <1>0, <1>1, <1>5, CurrentIsNowhere
  <2>3. wtobjp(c)' = m
    BY <2>1, <2>2 DEF wtobjp
  <2>4. p_state'[c] = "WTMTX"
    BY <1>0, <2>1 DEF InPlace
  <2> QED
    BY <2>3, <2>4 DEF WaitsForWhat
<1>8. \A t \in Threads : t # c => WaitsForWhat'[t] = WaitsForWhat[t]
  <2> SUFFICES ASSUME NEW t \in Threads, t # c PROVE WaitsForWhat'[t] = WaitsForWhat[t]
    OBVIOUS
  <2>1. \A k \in Mutexes : t \in Range(m_queue'[k]) <=> t \in Range(m_queue[k])
    BY <1>5
  <2> QED
    BY <2>1, SameWaits
<1>9. WaitsForWhat' = [WaitsForWhat EXCEPT ![c] = m]
  <2>1. \A t \in Threads : WaitsForWhat'[t] = [WaitsForWhat EXCEPT ![c] = m][t]
    BY <1>7, <1>8 DEF WaitsForWhat
  <2> QED
    BY <2>1 DEF WaitsForWhat
<1>10. L!Wait(c, m)
  BY <1>2, <1>3, <1>4, <1>6, <1>9 DEF L!Wait, WaitsForWhat
<1> QED
  BY <1>10 DEF L!Next

\* The threads that wait for a mutex are those in its queue.
LEMMA WaitersAreQueued ==
  ASSUME KernelInv, NEW m \in Mutexes
  PROVE  \A t \in Threads : WaitsForWhat[t] = m <=> t \in Range(m_queue[m])
<1>0. KernelTyped /\ InPlace /\ MutexesAgree /\ NULL \notin Mutexes
  BY KernelAssumption DEF KernelInv, KernelAssumption
<1>1. ASSUME NEW t \in Threads, Waits(t) PROVE WaitsForWhat[t] = wtobjp(t) /\ (t \in Range(m_queue[m]) <=> m = wtobjp(t))
  BY <1>0, <1>1, WaitsForOwner DEF WaitsForWhat, Waits
<1>2. ASSUME NEW t \in Threads, ~Waits(t) PROVE WaitsForWhat[t] # m /\ t \notin Range(m_queue[m])
  BY <1>0, <1>2 DEF WaitsForWhat, Waits, InPlace
<1> QED
  BY <1>1, <1>2

\* Nobody waits: Release without a new owner.
LEMMA LockReleasesAlone ==
  ASSUME KernelInv, KernelInv', UnlockAlone
  PROVE  L!Next
<1>0. KernelTyped /\ InPlace /\ MutexesAgree
  BY DEF KernelInv
<1>a. PICK c : c = r_current
  OBVIOUS
<1>b. PICK m : m = Head(p_mtxlist[c])
  OBVIOUS
<1>1. /\ p_mtxlist[c] # <<>> /\ m_queue[m] = <<>> /\ m_owner' = [m_owner EXCEPT ![m] = NULL]
      /\ m_queue' = m_queue
  BY <1>a, <1>b DEF UnlockAlone
<1>2. c \in Threads /\ WaitsForWhat[c] = NULL
  BY <1>a, <1>0, CurrentIsNowhere DEF WaitsForWhat
<1>3. m \in Mutexes /\ m \in Range(p_mtxlist[c])
  BY <1>b, <1>0, <1>1, <1>2, ListsFall, Popped
<1>4. m_owner[m] = c
  BY <1>0, <1>2, <1>3 DEF MutexesAgree
<1>5. L!Waiting(m) = {}
  <2>1. Range(m_queue[m]) = {}
    BY <1>1 DEF Range
  <2>2. \A t \in Threads : WaitsForWhat[t] # m
    BY <1>3, <2>1, WaitersAreQueued
  <2> QED
    BY <2>2 DEF L!Waiting, WaitsForWhat
<1>6. WaitsForWhat' = WaitsForWhat
  <2>1. \A t \in Threads : WaitsForWhat'[t] = WaitsForWhat[t]
    BY <1>1, SameWaits
  <2> QED
    BY <2>1 DEF WaitsForWhat
<1>7. L!Release(c, m)
  BY <1>1, <1>2, <1>4, <1>5, <1>6 DEF L!Release, WaitsForWhat
<1> QED
  <2>1. \E t \in Threads, k \in Mutexes : L!Release(t, k)
    BY <1>2, <1>3, <1>7
  <2> QED
    BY <2>1 DEF L!Next

\* Somebody waits: Release to the head of the queue, the most urgent by order, and by
\* PriorityIsUrgency so in the terms of Lock.
LEMMA LockHandsOver ==
  ASSUME KernelInv, KernelInv', UnlockAwaited
  PROVE  L!Next
<1>0. KernelTyped /\ InPlace /\ MutexesAgree /\ AllInOrder
  BY DEF KernelInv
<1>1. PICK c \in Threads : c = r_current
  BY <1>0 DEF KernelTyped
<1>2. PICK m : m = Head(p_mtxlist[c])
  OBVIOUS
<1>3. PICK w : w = Head(m_queue[m])
  OBVIOUS
<1>4. /\ p_mtxlist[c] # <<>> /\ m_queue[m] # <<>> /\ m_queue' = [m_queue EXCEPT ![m] = Tail(m_queue[m])]
      /\ m_owner' = [m_owner EXCEPT ![m] = w]
  BY <1>1, <1>2, <1>3 DEF UnlockAwaited
<1>5. m \in Mutexes /\ m \in Range(p_mtxlist[c])
  BY <1>0, <1>2, <1>4, ListsFall, Popped
<1>6. m_owner[m] = c /\ WaitsForWhat[c] = NULL
  <2>1. m_owner[m] = c
    BY <1>0, <1>5 DEF MutexesAgree
  <2>2. WaitsForWhat[c] = NULL
    BY <1>0, <1>1, CurrentIsNowhere DEF WaitsForWhat
  <2> QED
    BY <2>1, <2>2
<1>7. /\ w \in Range(m_queue[m]) /\ w \in Threads
      /\ \A t \in Range(m_queue[m]) : p_prio[t] =< p_prio[w]
      /\ Range(Tail(m_queue[m])) = Range(m_queue[m]) \ {w}
  <2>1. InOrder(m_queue[m], p_prio) /\ p_prio \in [Threads -> Prios]
    BY <1>0, <1>5 DEF AllInOrder, KernelTyped
  <2> QED
    BY <1>3, <1>4, <2>1, FirstIsHighest
<1>8. \A t \in Threads : WaitsForWhat[t] = m <=> t \in Range(m_queue[m])
  BY <1>5, WaitersAreQueued
<1>9. \A u \in L!Waiting(m) : L!Urgency[u] =< L!Urgency[w]
  <2>1. ASSUME NEW u \in L!Waiting(m) PROVE u \in Threads /\ u \in Range(m_queue[m])
    BY <1>8, <2>1 DEF L!Waiting, WaitsForWhat
  <2> QED
    BY <1>7, <2>1, PriorityIsUrgency
<1>10. w \in L!Waiting(m)
  BY <1>7, <1>8 DEF L!Waiting, WaitsForWhat
<1>11. \A k \in Mutexes : Range(m_queue'[k]) = IF k = m THEN Range(m_queue[m]) \ {w} ELSE Range(m_queue[k])
  BY <1>0, <1>4, <1>5, <1>7 DEF KernelTyped
<1>12. WaitsForWhat' = [WaitsForWhat EXCEPT ![w] = NULL]
  <2>1. WaitsForWhat'[w] = NULL
    <3>1. \A k \in Mutexes : w \notin Range(m_queue'[k])
      BY <1>0, <1>5, <1>7, <1>11 DEF InPlace
    <3>2. p_state'[w] # "WTMTX"
      BY <1>7, <3>1 DEF KernelInv, InPlace
    <3> QED
      BY <1>7, <3>2 DEF WaitsForWhat
  <2>2. ASSUME NEW t \in Threads, t # w PROVE WaitsForWhat'[t] = WaitsForWhat[t]
    <3>1. \A k \in Mutexes : t \in Range(m_queue'[k]) <=> t \in Range(m_queue[k])
      BY <1>11, <2>2
    <3> QED
      BY <3>1, SameWaits
  <2>3. \A t \in Threads : WaitsForWhat'[t] = [WaitsForWhat EXCEPT ![w] = NULL][t]
    BY <2>1, <2>2 DEF WaitsForWhat
  <2> QED
    BY <2>3 DEF WaitsForWhat
<1>13. L!Release(c, m)
  <2>1. L!Waiting(m) # {}
    BY <1>10
  <2>2. m_owner' = [m_owner EXCEPT ![m] = w]
    BY <1>4
  <2> QED
    BY <1>6, <1>9, <1>10, <1>12, <2>1, <2>2 DEF L!Release, WaitsForWhat
<1> QED
  BY <1>5, <1>13 DEF L!Next

\* Every step of the kernel is a step of Lock or leaves it alone.
LEMMA StepOfLock ==
  ASSUME KernelInv, KernelInv', [Next]_vars
  PROVE  [L!Next]_(L!vars)
<1>1. ASSUME Interrupt PROVE UNCHANGED L!vars
  <2>1. UNCHANGED mutexVars
    BY <1>1 DEF Interrupt
  <2> QED
    BY <2>1, LockStutters DEF mutexVars
<1>2. ASSUME Sleep PROVE UNCHANGED L!vars
  BY <1>2, LockStutters DEF Sleep, mutexVars
<1>3. ASSUME Wait PROVE UNCHANGED L!vars
  BY <1>3, LockStutters DEF Wait, mutexVars
<1>4. ASSUME Signal PROVE UNCHANGED L!vars
  BY <1>4, LockStutters DEF Signal, mutexVars
<1>5. ASSUME UNCHANGED vars PROVE UNCHANGED L!vars
  BY <1>5, LockStutters DEF vars, mutexVars
<1> QED
  BY <1>1, <1>2, <1>3, <1>4, <1>5, LockTakes, LockWaits, LockReleasesAlone, LockHandsOver DEF Next

\* A mutex has one owner, and a release hands it to a thread that nobody more urgent
\* waits beside (chMtxUnlock).
THEOREM MutexesKeepPromise == Spec => ImplementsLock
<1> QED
  BY KernelInitHolds, KernelNextStep, LockInit, StepOfLock, PTL DEF Spec, ImplementsLock, L!Spec
=============================================================================
