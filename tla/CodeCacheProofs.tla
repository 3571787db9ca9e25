---------------------------- MODULE CodeCacheProofs ----------------------------
(***************************************************************************)
(* The blocks of the code cache that are not stale, for pages of every size *)
(* and any code, wherever it runs.                                          *)
(***************************************************************************)
EXTENDS CodeCache, SequenceTheorems, FiniteSetTheorems, TLAPS

-----------------------------------------------------------------------------
(* The lists.                                                               *)

\* A set of positions of a list has a least element: the sets 1 .. i are ordered
\* by inclusion as the positions are, and on finite sets that is well-founded.
LEMMA LeastElement ==
  ASSUME NEW n \in Nat, NEW I, I \subseteq 1..n, I # {}
  PROVE  /\ Min(I) \in I
         /\ \A i \in I : Min(I) <= i
PROOF
  <1> DEFINE R == StrictSubsetOrdering(1..n)
             T == {1..i : i \in I}
  <1>1. IsWellFoundedOn(R, SUBSET (1..n))
    <2>1. IsFiniteSet(1..n)
      BY FS_Interval
    <2>2. FiniteSubsetsOf(1..n) = SUBSET (1..n)
      BY <2>1, FS_FiniteSubsetsOfFinite
    <2> QED BY <2>2, FS_StrictSubsetOrderingWellFounded
  <1>2. T \subseteq SUBSET (1..n) /\ T # {}
    <2>1. \A i \in I : 1..i \subseteq 1..n
      OBVIOUS
    <2> QED BY <2>1
  <1> HIDE DEF R
  <1>3. PICK x \in T : \A y \in T : ~(<<y, x>> \in R)
    BY <1>1, <1>2, WFMin
  <1>4. PICK m \in I : x = 1..m
    OBVIOUS
  <1>5. \A i \in I : m <= i
    <2> SUFFICES ASSUME NEW i \in I, ~(m <= i)
                 PROVE  FALSE
      OBVIOUS
    <2>1. 1..i \subseteq 1..m /\ m \in 1..m /\ m \notin 1..i
      OBVIOUS
    <2>2. <<1..i, 1..m>> \in R
      BY <2>1 DEF R, StrictSubsetOrdering
    <2> QED BY <1>3, <1>4, <2>2
  <1> QED BY <1>5 DEF Min

\* r is s without its element at q, where e first is in s.
Closed(s, e, q, r) ==
    /\ q \in 1..Len(s) /\ s[q] = e
    /\ \A i \in 1..Len(s) : s[i] = e => q <= i
    /\ Len(r) = Len(s) - 1
    /\ \A i \in 1..(q - 1) : r[i] = s[i]
    /\ \A i \in q..(Len(s) - 1) : r[i] = s[i + 1]

\* RemoveFirst takes an element out where it is first, and closes the gap.
LEMMA RemoveFirstProperties ==
  ASSUME NEW S, NEW s \in Seq(S), NEW e, \E i \in 1..Len(s) : s[i] = e
  PROVE  /\ RemoveFirst(s, e) \in Seq(S)
         /\ \E q : Closed(s, e, q, RemoveFirst(s, e))
PROOF
  <1> DEFINE I == {i \in 1..Len(s) : s[i] = e}
             q == Min(I)
             n == Len(s)
  <1>0. n \in Nat /\ s \in [1..n -> S]
    OBVIOUS
  <1>1. q \in I /\ \A i \in I : q <= i
    <2>1. I \subseteq 1..n /\ I # {}
      OBVIOUS
    <2> HIDE DEF I
    <2> QED BY <1>0, <2>1, LeastElement
  <1>2. RemoveFirst(s, e) = RemoveAt(s, q)
    BY <1>1 DEF RemoveFirst, SelectInSeq
  <1>3. q \in 1..n /\ s[q] = e /\ \A i \in 1..n : s[i] = e => q <= i
    BY <1>1
  <1> HIDE DEF q, I
  <1> DEFINE a == SubSeq(s, 1, q - 1)
             b == SubSeq(s, q + 1, n)
  <1>4. a \in Seq(S) /\ Len(a) = q - 1 /\ \A i \in 1..(q - 1) : a[i] = s[i]
    <2>1. /\ a \in Seq(S)
          /\ Len(a) = IF 1 <= q - 1 THEN q - 1 - 1 + 1 ELSE 0
          /\ \A i \in 1..(q - 1 - 1 + 1) : a[i] = s[1 + i - 1]
      BY <1>0, <1>3, SubSeqProperties
    <2> QED BY <1>0, <1>3, <2>1
  <1>5. b \in Seq(S) /\ Len(b) = n - q /\ \A i \in 1..(n - q) : b[i] = s[q + i]
    <2>1. /\ b \in Seq(S)
          /\ Len(b) = IF q + 1 <= n THEN n - (q + 1) + 1 ELSE 0
          /\ \A i \in 1..(n - (q + 1) + 1) : b[i] = s[q + 1 + i - 1]
      BY <1>0, <1>3, SubSeqProperties
    <2> HIDE DEF b, n
    <2>2. Len(b) = n - q
      BY <1>0, <1>3, <2>1
    <2>3. ASSUME NEW i \in 1..(n - q) PROVE b[i] = s[q + i]
      <3>1. i \in 1..(n - (q + 1) + 1) /\ q + 1 + i - 1 = q + i
        BY <1>0, <1>3
      <3> QED BY <2>1, <3>1
    <2> QED BY <2>1, <2>2, <2>3
  <1>6. RemoveFirst(s, e) = a \o b
    BY <1>2 DEF RemoveAt
  <1> DEFINE r == a \o b
  <1> HIDE DEF a, b, n
  <1>7. /\ r \in Seq(S)
        /\ Len(r) = Len(a) + Len(b)
        /\ \A i \in 1..(Len(a) + Len(b)) : r[i] = IF i <= Len(a) THEN a[i] ELSE b[i - Len(a)]
    BY <1>4, <1>5, ConcatProperties
  <1> HIDE DEF r
  <1>8. /\ Len(r) = n - 1
        /\ \A i \in 1..(q - 1) : r[i] = s[i]
        /\ \A i \in q..(n - 1) : r[i] = s[i + 1]
    <2>1. Len(r) = n - 1 /\ Len(a) = q - 1 /\ Len(b) = n - q
      BY <1>0, <1>3, <1>4, <1>5, <1>7
    <2>2. ASSUME NEW i \in 1..(q - 1) PROVE r[i] = s[i]
      <3>1. i \in 1..(Len(a) + Len(b)) /\ i <= Len(a)
        BY <1>0, <1>3, <2>1
      <3> QED BY <1>4, <1>7, <3>1
    <2>3. ASSUME NEW i \in q..(n - 1) PROVE r[i] = s[i + 1]
      <3>1. i \in 1..(Len(a) + Len(b)) /\ ~(i <= Len(a))
            /\ i - Len(a) \in 1..(n - q) /\ q + (i - Len(a)) = i + 1
        BY <1>0, <1>3, <2>1
      <3> QED BY <1>5, <1>7, <3>1
    <2> QED BY <2>1, <2>2, <2>3
  <1>9. Closed(s, e, q, RemoveFirst(s, e))
    BY <1>3, <1>6, <1>8 DEF n, r, Closed
  <1> QED BY <1>6, <1>7, <1>9 DEF r

\* RemoveFirst keeps what is not the element it removes.
LEMMA RemoveFirstKeeps ==
  ASSUME NEW S, NEW s \in Seq(S), NEW e
  PROVE  /\ RemoveFirst(s, e) \in Seq(S)
         /\ \A k \in 1..Len(s) : s[k] # e =>
               \E i \in 1..Len(RemoveFirst(s, e)) : RemoveFirst(s, e)[i] = s[k]
PROOF
  <1>1. CASE \E i \in 1..Len(s) : s[i] = e
    <2> DEFINE r == RemoveFirst(s, e)
               n == Len(s)
    <2>1. r \in Seq(S)
      BY <1>1, RemoveFirstProperties
    <2>2. PICK q : Closed(s, e, q, r)
      BY <1>1, RemoveFirstProperties
    <2> HIDE DEF r
    <2>3. /\ n \in Nat /\ q \in 1..n /\ s[q] = e
          /\ Len(r) = n - 1
          /\ \A i \in 1..(q - 1) : r[i] = s[i]
          /\ \A i \in q..(n - 1) : r[i] = s[i + 1]
      BY <2>2 DEF Closed
    <2> HIDE DEF n
    <2>4. ASSUME NEW k \in 1..n, s[k] # e
          PROVE  \E i \in 1..Len(r) : r[i] = s[k]
      <3>1. CASE k < q
        <4>1. k \in 1..(q - 1) /\ k \in 1..Len(r)
          BY <2>3, <3>1
        <4> QED BY <2>3, <4>1
      <3>2. CASE k > q
        <4>1. k - 1 \in q..(n - 1) /\ k - 1 \in 1..Len(r) /\ (k - 1) + 1 = k
          BY <2>3, <3>2
        <4> QED BY <2>3, <4>1
      <3> QED BY <2>3, <2>4, <3>1, <3>2
    <2> QED BY <2>1, <2>4 DEF r, n
  <1>2. CASE ~\E i \in 1..Len(s) : s[i] = e
    BY <1>2 DEF RemoveFirst
  <1> QED BY <1>1, <1>2

\* A loop at a position of a list, with more behind it, comes to the same elements
\* when the list is another, but for the next one.
ComesToOthers(list, rest, at, list2, rest2) ==
    /\ Len(list2) + Len(rest2) = Len(list) + Len(rest)
    /\ \A k \in (at + 1)..(Len(list) + Len(rest)) :
          \/ at < Len(list) /\ (list \o rest)[k] = list[at + 1]
          \/ \E i \in (at + 1)..(Len(list) + Len(rest)) :
                (list2 \o rest2)[i] = (list \o rest)[k]

\* Erasing from a list that a loop is walking moves the elements to come back by
\* one: the loop passes over the next one, and comes to all the others.
LEMMA ErasedUnderLoop ==
  ASSUME NEW S, NEW list \in Seq(S), NEW rest \in Seq(S), NEW at \in Nat \ {0},
         at <= Len(list) + Len(rest), NEW e, e = (list \o rest)[at],
         \E i \in 1..Len(list) : list[i] = e
  PROVE  ComesToOthers(list, rest, at, RemoveFirst(list, e), <<Last(list)>> \o rest)
PROOF
  <1> DEFINE erased == RemoveFirst(list, e)
             behind == <<Last(list)>> \o rest
             n == Len(list)
             m == Len(rest)
  <1>1. n \in Nat /\ m \in Nat /\ n >= 1
    OBVIOUS
  <1>2. erased \in Seq(S)
    BY RemoveFirstProperties
  <1>3. PICK q : Closed(list, e, q, erased)
    BY RemoveFirstProperties
  <1> HIDE DEF erased
  <1>4. q \in 1..n /\ Len(erased) = n - 1
    BY <1>3 DEF Closed
  <1>5. \A i \in 1..n : list[i] = e => q <= i
    BY <1>3 DEF Closed
  <1>6. \A i \in q..(n - 1) : erased[i] = list[i + 1]
    BY <1>3 DEF Closed
  <1>7. /\ behind \in Seq(S)
        /\ Len(behind) = m + 1
        /\ behind[1] = list[n]
        /\ \A i \in 2..(m + 1) : behind[i] = rest[i - 1]
    <2>1. Last(list) = list[n] /\ list[n] \in S
      BY <1>1 DEF Last
    <2> DEFINE one == <<Last(list)>>
    <2>2. one \in Seq(S) /\ Len(one) = 1 /\ one[1] = list[n]
      BY <2>1
    <2> HIDE DEF one
    <2>3. /\ behind \in Seq(S)
          /\ Len(behind) = Len(one) + Len(rest)
          /\ \A i \in 1..(Len(one) + Len(rest)) :
                behind[i] = IF i <= Len(one) THEN one[i] ELSE rest[i - Len(one)]
      BY <2>2, ConcatProperties DEF one
    <2> HIDE DEF behind, n, m
    <2> QED BY <1>1, <2>2, <2>3 DEF m
  <1> DEFINE before == list \o rest
             after == erased \o behind
  <1>8. \A k \in 1..(n + m) : before[k] = IF k <= n THEN list[k] ELSE rest[k - n]
    BY ConcatProperties
  <1> HIDE DEF behind
  <1>9. \A k \in 1..(n + m) :
            after[k] = IF k <= n - 1 THEN erased[k] ELSE behind[k - (n - 1)]
    <2> HIDE DEF n, m
    <2>1. \A k \in 1..(Len(erased) + Len(behind)) :
            after[k] = IF k <= Len(erased) THEN erased[k] ELSE behind[k - Len(erased)]
      BY <1>2, <1>7, ConcatProperties
    <2>2. Len(erased) + Len(behind) = n + m
      BY <1>1, <1>4, <1>7
    <2> QED BY <2>1, <2>2, <1>4
  <1>10. q <= at
    <2>1. at \in 1..(n + m) /\ before[at] = e
      OBVIOUS
    <2> HIDE DEF before, n, m
    <2>2. CASE at <= n
      <3>1. list[at] = e /\ at \in 1..n
        BY <1>1, <1>8, <2>1, <2>2
      <3> QED BY <1>5, <3>1
    <2> QED BY <1>1, <1>4, <2>2
  <1> HIDE DEF before, after, n, m
  <1>11. Len(erased) + Len(behind) = n + m
    BY <1>1, <1>4, <1>7
  <1>12. ASSUME NEW k \in (at + 1)..(n + m)
        PROVE  \/ at < n /\ before[k] = list[at + 1]
               \/ \E i \in (at + 1)..(n + m) : after[i] = before[k]
    <2>0. k \in 1..(n + m) /\ k \in Nat
      BY <1>1
    <2>1. CASE k > n
      <3>1. k - (n - 1) \in 2..(m + 1) /\ (k - (n - 1)) - 1 = k - n
        BY <1>1, <2>0, <2>1
      <3>2. behind[k - (n - 1)] = rest[k - n]
        BY <1>7, <3>1
      <3>3. after[k] = before[k]
        BY <1>1, <1>8, <1>9, <2>0, <2>1, <3>2
      <3> QED BY <3>3
    <2>2. CASE k = n
      <3>1. ~(k <= n - 1) /\ k - (n - 1) = 1
        BY <1>1, <2>0, <2>2
      <3>2. after[k] = before[k]
        BY <1>7, <1>8, <1>9, <2>0, <2>2, <3>1
      <3> QED BY <3>2
    <2>3. CASE k < n /\ k = at + 1
      BY <1>1, <1>8, <2>0, <2>3
    <2>4. CASE k < n /\ k > at + 1
      <3>1. k - 1 \in q..(n - 1) /\ (k - 1) + 1 = k
            /\ k - 1 \in 1..(n + m) /\ k - 1 \in (at + 1)..(n + m) /\ k - 1 <= n - 1
        BY <1>1, <1>4, <1>10, <2>0, <2>4
      <3>2. erased[k - 1] = list[k]
        BY <1>6, <3>1
      <3>3. after[k - 1] = before[k]
        BY <1>1, <1>8, <1>9, <2>0, <2>4, <3>1, <3>2
      <3> QED BY <3>1, <3>3
    <2>5. k \in Int /\ n \in Int /\ at \in Int /\ k >= at + 1
      BY <1>1
    <2>6. k > n \/ k = n \/ (k < n /\ k = at + 1) \/ (k < n /\ k > at + 1)
      BY <2>5
    <2> QED BY <2>1, <2>2, <2>3, <2>4, <2>6
  <1> QED BY <1>11, <1>12 DEF erased, behind, n, m, before, after, ComesToOthers

-----------------------------------------------------------------------------
(* The inductive invariant.                                                 *)

\* The present list of the page a loop walks, and what is left behind it.
Slots == pages[walk.page] \o walk.rest

\* The loop runs to where the list ended at first.
WalkInRange ==
    pc = "invalidating" => walk.stop = Len(pages[walk.page]) + Len(walk.rest)

\* A block that is valid and not passed over is on the list of each of its pages;
\* on the one that a loop walks, where the loop has yet to come.
Listed ==
    pc # "crashed" =>
        \A w \in Ram \ spared : blocks[w].valid =>
            \A p \in AddBlockRange(w, blocks[w].code) \cap Page :
                IF pc = "invalidating" /\ p = walk.page
                THEN \E k \in walk.at..walk.stop : Slots[k] = w
                ELSE \E k \in 1..Len(pages[p]) : pages[p][k] = w

Fresh(w) == Compiles(memory, w) /\ blocks[w].code = CodeAt(memory, w)

\* A block that is valid, not passed over, and on the lists of all the pages it lies
\* on, is what memory holds, unless a loop is yet to invalidate it.
FreshOrDoomed ==
    pc # "crashed" =>
        \A w \in Words \ spared :
            blocks[w].valid /\ ~ReachesOver(w, blocks[w].code) =>
                \/ Fresh(w)
                \/ /\ pc = "invalidating" /\ w \in Ram
                   /\ walk.page \in AddBlockRange(w, blocks[w].code)

IInv == TypeOK /\ WalkInRange /\ Listed /\ FreshOrDoomed

-----------------------------------------------------------------------------
(* Words and pages.                                                         *)

\* A word is in its page, and words are in their order in the pages.
LEMMA Division ==
  ASSUME NEW w \in Nat, NEW d \in Nat \ {0}
  PROVE  /\ w \div d \in Nat
         /\ w % d \in 0..(d - 1)
         /\ w = d * (w \div d) + (w % d)
PROOF
  OBVIOUS

\* Of two multiples the one not above the other is not by a whole multiple.
LEMMA Multiples ==
  ASSUME NEW d \in Nat \ {0}, NEW a \in Int, NEW b \in Int, d * a < d * b
  PROVE  a < b
PROOF
  <1> SUFFICES ASSUME b <= a
               PROVE  FALSE
    OBVIOUS
  <1>1. PICK c \in Nat : a = b + c
    <2>1. a - b \in Nat /\ a = b + (a - b)
      OBVIOUS
    <2> QED BY <2>1
  <1>2. d * a = d * b + d * c
    BY <1>1
  <1>3. d * c >= 0
    OBVIOUS
  <1>4. d * a \in Int /\ d * b \in Int /\ d * c \in Int
    OBVIOUS
  <1> QED BY <1>2, <1>3, <1>4

\* A word of RAM is in a page of RAM.
LEMMA PageOfType ==
  ASSUME NEW w \in Ram
  PROVE  PageOf(w) \in Page
PROOF
  <1>1. PageWords \in Nat \ {0} /\ Pages \in Nat \ {0}
    BY CodeCacheAssumption
  <1>2. w \in Nat /\ w < PageWords * Pages
    BY <1>1 DEF Ram, RamWords
  <1> DEFINE q == w \div PageWords
             r == w % PageWords
  <1>3. q \in Nat /\ r \in Nat /\ w = PageWords * q + r
    BY <1>1, <1>2, Division
  <1> HIDE DEF q, r
  <1>4. PageWords * q < PageWords * Pages
    BY <1>1, <1>2, <1>3
  <1>5. q < Pages
    BY <1>1, <1>3, <1>4, Multiples
  <1> QED BY <1>1, <1>3, <1>5 DEF q, Page, PageOf

\* A block is on the lists of all the pages it lies on, unless it reaches over.
LEMMA PageReached ==
  ASSUME NEW w \in Ram, NEW code \in Seq(Instruction), ~ReachesOver(w, code),
         NEW v \in w..(w + Len(code) - 1)
  PROVE  PageOf(v) \in AddBlockRange(w, code)
PROOF
  <1> DEFINE P == PageWords
             n == Len(code)
             c == CeilDiv(n, P)
             q == w \div P
             r == w % P
             x == v \div P
             y == v % P
  <1>1. P \in Nat \ {0} /\ w \in Nat /\ v \in Nat /\ n \in Nat
    BY CodeCacheAssumption DEF Ram, RamWords
  <1>2. q \in Nat /\ r \in 0..(P - 1) /\ w = P * q + r
    BY <1>1, Division
  <1>3. x \in Nat /\ y \in 0..(P - 1) /\ v = P * x + y
    BY <1>1, Division
  <1>4. c \in Nat
    <2>1. n + P - 1 \in Nat
      BY <1>1
    <2> QED BY <1>1, <2>1, Division DEF CeilDiv
  <1>5. r + n <= c * P
    BY <1>1, <1>2, <1>4 DEF ReachesOver
  <1>6. w <= v /\ v <= w + n - 1
    OBVIOUS
  <1>7. PageOf(v) = x /\ AddBlockRange(w, code) = q..(q + c - 1)
    BY DEF AddBlockRange, PageOf
  <1> HIDE DEF P, n, c, q, r, x, y
  <1>8. q <= x
    <2>1. P * q < P * (x + 1)
      <3>1. P * (x + 1) = P * x + P
        BY <1>1, <1>3
      <3> QED BY <1>1, <1>2, <1>3, <1>6, <3>1
    <2> QED BY <1>1, <1>2, <1>3, <2>1, Multiples
  <1>9. x < q + c
    <2>1. P * (q + c) = P * q + c * P
      BY <1>1, <1>2, <1>4
    <2>2. P * x < P * (q + c)
      BY <1>1, <1>2, <1>3, <1>4, <1>5, <1>6, <2>1
    <2> QED BY <1>1, <1>2, <1>3, <1>4, <2>2, Multiples
  <1> QED BY <1>2, <1>3, <1>4, <1>7, <1>8, <1>9

-----------------------------------------------------------------------------
(* What CompileBlock reads.                                                 *)

\* A block has one end.
LEMMA EndsUnique ==
  ASSUME NEW mem, NEW w \in Words, NEW l1 \in Int, NEW l2 \in Int,
         Ends(mem, w, l1), Ends(mem, w, l2)
  PROVE  l1 = l2
PROOF
  <1>0. w \in Int
    BY CodeCacheAssumption DEF Words, Ram, Bios, RamWords
  <1>1. PICK j1 \in w..l1 :
            /\ \A k \in w..(j1 - 1) : WordAt(mem, k) \in {"Plain", "Other"}
            /\ \/ WordAt(mem, j1) = "End" /\ l1 = j1
               \/ WordAt(mem, j1) = "Delay" /\ l1 = j1 + 1
    BY DEF Ends
  <1>2. PICK j2 \in w..l2 :
            /\ \A k \in w..(j2 - 1) : WordAt(mem, k) \in {"Plain", "Other"}
            /\ \/ WordAt(mem, j2) = "End" /\ l2 = j2
               \/ WordAt(mem, j2) = "Delay" /\ l2 = j2 + 1
    BY DEF Ends
  <1>3. ~(j1 < j2)
    <2>1. ASSUME j1 < j2 PROVE j1 \in w..(j2 - 1)
      BY <1>0, <2>1
    <2> QED BY <1>1, <1>2, <2>1
  <1>4. ~(j2 < j1)
    <2>1. ASSUME j2 < j1 PROVE j2 \in w..(j1 - 1)
      BY <1>0, <2>1
    <2> QED BY <1>1, <1>2, <2>1
  <1>5. j1 = j2
    BY <1>0, <1>3, <1>4
  <1> QED BY <1>1, <1>2, <1>5

\* The words of a block are the words of memory from its first to its end.
LEMMA CodeAtProperties ==
  ASSUME NEW mem \in [Ram -> Instruction], NEW w \in Words, NEW last \in Memory(w),
         Ends(mem, w, last)
  PROVE  /\ Compiles(mem, w)
         /\ CodeAt(mem, w) = [i \in 1..(last - w + 1) |-> WordAt(mem, w + i - 1)]
         /\ CodeAt(mem, w) \in Seq(Instruction)
         /\ Len(CodeAt(mem, w)) = last - w + 1
         /\ w <= last
PROOF
  <1> DEFINE e == CHOOSE l \in Memory(w) : Ends(mem, w, l)
             n == last - w + 1
             c == [i \in 1..n |-> WordAt(mem, w + i - 1)]
  <1>0. PageWords \in Nat /\ Pages \in Nat /\ RamWords \in Nat /\ Len(Rom) \in Nat
        /\ Rom \in Seq(Instruction)
    BY CodeCacheAssumption DEF RamWords
  <1>1. w \in Nat /\ last \in Nat
    BY <1>0 DEF Words, Ram, Bios, Memory
  <1>2. w <= last
    BY <1>1 DEF Ends
  <1>3. e = last
    <2>1. e \in Memory(w) /\ Ends(mem, w, e)
      OBVIOUS
    <2>2. e \in Int
      BY <1>0, <2>1 DEF Memory, Ram, Bios
    <2> HIDE DEF e
    <2> QED BY <1>1, <2>1, <2>2, EndsUnique
  <1>4. CodeAt(mem, w) = c
    BY <1>3 DEF CodeAt
  <1>5. \A i \in 1..n : WordAt(mem, w + i - 1) \in Instruction
    <2> SUFFICES ASSUME NEW i \in 1..n
                 PROVE  WordAt(mem, w + i - 1) \in Instruction
      OBVIOUS
    <2> DEFINE v == w + i - 1
    <2>1. v \in w..last
      BY <1>1, <1>2
    <2> HIDE DEF v
    <2>2. CASE w \in Ram
      <3>1. v \in Ram
        BY <1>0, <1>1, <2>1, <2>2 DEF Memory, Ram
      <3> QED BY <3>1 DEF v, WordAt
    <2>3. CASE w \notin Ram
      <3>1. v \in Bios /\ v \notin Ram
        BY <1>0, <1>1, <2>1, <2>3 DEF Memory, Words, Ram, Bios
      <3>2. v - RamWords + 1 \in 1..Len(Rom)
        BY <1>0, <3>1 DEF Bios
      <3> QED BY <1>0, <3>1, <3>2, ElementOfSeq DEF v, WordAt
    <2> QED BY <2>2, <2>3
  <1>6. n \in Nat
    BY <1>1, <1>2
  <1>7. c \in [1..n -> Instruction]
    BY <1>5
  <1>8. c \in Seq(Instruction) /\ Len(c) = n
    <2> HIDE DEF c, n
    <2>1. c \in Seq(Instruction)
      BY <1>6, <1>7, SeqDef
    <2> QED BY <1>6, <1>7, <2>1
  <1> QED BY <1>2, <1>4, <1>8 DEF Compiles

\* A store elsewhere leaves what CompileBlock would read.
LEMMA CodeStable ==
  ASSUME NEW m1 \in [Ram -> Instruction], NEW m2 \in [Ram -> Instruction],
         NEW w \in Words, Compiles(m1, w),
         \A v \in w..(w + Len(CodeAt(m1, w)) - 1) : WordAt(m2, v) = WordAt(m1, v)
  PROVE  Compiles(m2, w) /\ CodeAt(m2, w) = CodeAt(m1, w)
PROOF
  <1>0. w \in Int /\ Memory(w) \subseteq Int
    BY CodeCacheAssumption DEF Memory, Words, Ram, Bios, RamWords
  <1>1. PICK last \in Memory(w) : Ends(m1, w, last)
    BY DEF Compiles
  <1>2. /\ CodeAt(m1, w) = [i \in 1..(last - w + 1) |-> WordAt(m1, w + i - 1)]
        /\ Len(CodeAt(m1, w)) = last - w + 1
    BY <1>1, CodeAtProperties
  <1>3. \A v \in w..last : WordAt(m2, v) = WordAt(m1, v)
    <2>1. w + (last - w + 1) - 1 = last
      BY <1>0
    <2> QED BY <1>2, <2>1
  <1>4. PICK j \in w..last :
            /\ \A k \in w..(j - 1) : WordAt(m1, k) \in {"Plain", "Other"}
            /\ \/ WordAt(m1, j) = "End" /\ last = j
               \/ WordAt(m1, j) = "Delay" /\ last = j + 1
    BY <1>1 DEF Ends
  <1>5. \A k \in w..(j - 1) : WordAt(m2, k) = WordAt(m1, k)
    <2>1. \A k \in w..(j - 1) : k \in w..last
      BY <1>0
    <2> QED BY <1>3, <2>1
  <1>6. Ends(m2, w, last)
    BY <1>3, <1>4, <1>5 DEF Ends
  <1>7. /\ Compiles(m2, w)
        /\ CodeAt(m2, w) = [i \in 1..(last - w + 1) |-> WordAt(m2, w + i - 1)]
    BY <1>6, CodeAtProperties
  <1>8. \A i \in 1..(last - w + 1) : WordAt(m2, w + i - 1) = WordAt(m1, w + i - 1)
    <2>1. \A i \in 1..(last - w + 1) : w + i - 1 \in w..last
      BY <1>0
    <2> QED BY <1>3, <2>1
  <1> QED BY <1>2, <1>7, <1>8

-----------------------------------------------------------------------------
(* Types.                                                                   *)

\* What CompileBlock makes of a block.
LEMMA CompiledType ==
  ASSUME TypeOK, NEW w \in Words, Compiles(memory, w)
  PROVE  CodeAt(memory, w) \in Seq(Instruction)
PROOF
  <1>1. PICK last \in Memory(w) : Ends(memory, w, last)
    BY DEF Compiles
  <1> QED BY <1>1, CodeAtProperties DEF TypeOK

\* While a loop has a round to go, there is a block at its position.
LEMMA WalkedType ==
  ASSUME TypeOK, WalkInRange, pc = "invalidating", walk.at <= walk.stop
  PROVE  /\ pages[walk.page] \in Seq(Ram) /\ walk.rest \in Seq(Ram)
         /\ walk.at \in Nat \ {0}
         /\ walk.at <= Len(pages[walk.page]) + Len(walk.rest)
         /\ Walked \in Ram
PROOF
  <1>1. pages[walk.page] \in Seq(Ram) /\ walk.rest \in Seq(Ram) /\ walk.at \in Nat \ {0}
    BY DEF TypeOK
  <1>2. walk.at <= Len(pages[walk.page]) + Len(walk.rest)
    BY DEF WalkInRange
  <1> DEFINE s == pages[walk.page] \o walk.rest
  <1>3. s \in Seq(Ram) /\ Len(s) = Len(pages[walk.page]) + Len(walk.rest)
    BY <1>1, ConcatProperties
  <1>4. s[walk.at] \in Ram
    <2> DEFINE n == Len(pages[walk.page])
               m == Len(walk.rest)
    <2>1. n \in Nat /\ m \in Nat
      BY <1>1, LenProperties
    <2> DEFINE at == walk.at
    <2>2. at \in Nat \ {0} /\ at <= n + m
      BY <1>1, <1>2
    <2>3. Len(s) = n + m
      BY <1>3
    <2> HIDE DEF s, n, m, at
    <2>4. at \in 1..Len(s)
      BY <2>1, <2>2, <2>3
    <2> QED BY <1>3, <2>4, ElementOfSeq DEF at
  <1> QED BY <1>1, <1>2, <1>4 DEF Walked

LEMMA InitTypes ==
  ASSUME Init
  PROVE  TypeOK
PROOF
  <1>1. PageWords \in Nat \ {0} /\ Pages \in Nat \ {0} /\ BufferSize \in Nat
    BY CodeCacheAssumption
  <1>2. memory \in [Ram -> Instruction]
    BY CodeCacheAssumption DEF Init
  <1>3. << >> \in Seq(Instruction) /\ << >> \in Seq(Ram)
    OBVIOUS
  <1>4. blocks \in [Words -> Block] /\ pages \in [Page -> Seq(Ram)]
    BY <1>3 DEF Init, Block, Segment
  <1>5. used \in 0..BufferSize
    BY <1>1 DEF Init
  <1>6. pc \in {"between", "block", "invalidating", "crashed"}
    BY DEF Init
  <1>7. entered \in Segment \X Words
    <2>1. Len(Rom) \in Nat \ {0} /\ RamWords \in Nat
      BY <1>1, CodeCacheAssumption, EmptySeq DEF RamWords
    <2>2. RamWords \in Words
      BY <2>1 DEF Words, Bios
    <2> QED BY <2>2 DEF Init, Segment
  <1>8. walk \in [page : Page, at : Nat \ {0}, stop : Nat, rest : Seq(Ram)]
    BY <1>1, <1>3 DEF Init, NoWalk, Page
  <1>9. spared \subseteq Ram
    BY DEF Init
  <1> QED BY <1>2, <1>4, <1>5, <1>6, <1>7, <1>8, <1>9 DEF TypeOK

\* Erasing keeps the types.
LEMMA EraseTypes ==
  ASSUME TypeOK, WalkInRange, pc = "invalidating", walk.at <= walk.stop,
         NEW w \in Ram, Erase(w)
  PROVE  /\ pages' \in [Page -> Seq(Ram)]
         /\ walk' \in [page : Page, at : Nat \ {0}, stop : Nat, rest : Seq(Ram)]
         /\ spared' \subseteq Ram
PROOF
  <1> DEFINE list == pages[walk.page]
             hit == walk.page \in ErasePages(w) /\ w \in ToSet(list)
  <1>1. list \in Seq(Ram) /\ walk.rest \in Seq(Ram) /\ walk.at \in Nat \ {0}
    BY WalkedType
  <1>2. pages' \in [Page -> Seq(Ram)]
    <2>1. \A p \in Page : RemoveFirst(pages[p], w) \in Seq(Ram)
      BY RemoveFirstKeeps DEF TypeOK
    <2> QED BY <2>1 DEF Erase, TypeOK
  <1>3. w \in ToSet(list) => Last(list) \in Ram
    <2> HAVE w \in ToSet(list)
    <2>1. Len(list) \in 1..Len(list)
      BY <1>1 DEF ToSet
    <2> HIDE DEF list
    <2> QED BY <1>1, <2>1, ElementOfSeq DEF Last
  <1>4. w \in ToSet(list) => <<Last(list)>> \o walk.rest \in Seq(Ram)
    <2> HIDE DEF list
    <2> QED BY <1>1, <1>3
  <1>5. walk' \in [page : Page, at : Nat \ {0}, stop : Nat, rest : Seq(Ram)]
    <2> DEFINE rest == IF hit THEN <<Last(list)>> \o walk.rest ELSE walk.rest
    <2>1. walk' = [walk EXCEPT !.at = walk.at + 1, !.rest = rest]
      BY DEF Erase
    <2>2. rest \in Seq(Ram)
      BY <1>1, <1>4
    <2> HIDE DEF rest
    <2>3. walk.at + 1 \in Nat \ {0}
      BY <1>1
    <2>4. walk \in [page : Page, at : Nat \ {0}, stop : Nat, rest : Seq(Ram)]
      BY DEF TypeOK
    <2> QED BY <2>1, <2>2, <2>3, <2>4
  <1>6. Spared(list) \subseteq Ram
    <2>1. walk.at < Len(list) => walk.at + 1 \in 1..Len(list)
      BY <1>1
    <2> HIDE DEF list
    <2> QED BY <1>1, <2>1, ElementOfSeq DEF Spared
  <1>7. spared' \subseteq Ram
    BY <1>6 DEF Erase, TypeOK
  <1> QED BY <1>2, <1>5, <1>7

LEMMA NextTypes ==
  ASSUME TypeOK, WalkInRange, [Next]_vars
  PROVE  TypeOK'
PROOF
  <1>1. ASSUME NEW e \in Entries, Run(e[1], e[2])
        PROVE  TypeOK'
    <2> DEFINE segment == e[1]
               w == e[2]
    <2>1. segment \in Segment /\ w \in Words
      BY CodeCacheAssumption
    <2>2. entered' \in Segment \X Words /\ pc' \in {"between", "block", "invalidating", "crashed"}
      BY <1>1, <2>1 DEF Run
    <2>3. CASE blocks[w].valid
      BY <1>1, <2>2, <2>3 DEF Run, TypeOK
    <2>4. CASE ~blocks[w].valid
      <3> DEFINE code == CodeAt(memory, w)
      <3> HIDE DEF segment, w
      <3>1. CompileBlock(segment, w)
        BY <1>1, <2>4 DEF Run, segment, w
      <3>2. code \in Seq(Instruction)
        BY <2>1, <3>1, CompiledType DEF CompileBlock
      <3>3. used' \in 0..BufferSize
        <4>1. used' = used + HostSize(code) /\ used + HostSize(code) <= BufferSize
          BY <3>1 DEF CompileBlock
        <4>2. HostSize(code) \in Nat
          BY <3>2 DEF HostSize
        <4> HIDE DEF code
        <4> QED BY <4>1, <4>2, CodeCacheAssumption DEF TypeOK
      <3>4. blocks' \in [Words -> Block]
        <4> DEFINE b == [valid |-> TRUE, segment |-> segment, code |-> code]
        <4>1. b \in Block
          BY <2>1, <3>2 DEF Block
        <4>2. blocks' = [blocks EXCEPT ![w] = b]
          BY <3>1 DEF CompileBlock
        <4> HIDE DEF b
        <4> QED BY <4>1, <4>2 DEF TypeOK
      <3>5. pages' \in [Page -> Seq(Ram)]
        <4>1. pages' = [p \in Page |-> IF w \in Ram /\ p \in AddBlockRange(w, code)
                                       THEN Append(pages[p], w)
                                       ELSE pages[p]]
          BY <3>1 DEF CompileBlock
        <4> HIDE DEF code
        <4> QED BY <4>1 DEF TypeOK
      <3>6. spared' \subseteq Ram
        BY <3>1 DEF CompileBlock, TypeOK
      <3> QED BY <1>1, <2>2, <3>3, <3>4, <3>5, <3>6 DEF Run, TypeOK
    <2> QED BY <2>3, <2>4
  <1>2. ASSUME NEW e \in Entries, RunFails(e[1], e[2])
        PROVE  TypeOK'
    <2>1. e[1] \in Segment /\ e[2] \in Words
      BY CodeCacheAssumption
    <2> QED BY <1>2, <2>1 DEF RunFails, TypeOK
  <1>3. CASE Return
    BY <1>3 DEF Return, TypeOK
  <1>4. ASSUME NEW w \in Stored, NEW i \in Written, Store(w, i)
        PROVE  TypeOK'
    <2>1. w \in Ram /\ i \in Instruction
      BY CodeCacheAssumption
    <2>2. PageOf(w) \in Page
      BY <2>1, PageOfType
    <2>3. memory' \in [Ram -> Instruction]
      BY <1>4, <2>1 DEF Store, TypeOK
    <2>4. walk' \in [page : Page, at : Nat \ {0}, stop : Nat, rest : Seq(Ram)]
      BY <1>4, <2>2 DEF Store, TypeOK
    <2> QED BY <1>4, <2>3, <2>4 DEF Store, TypeOK
  <1>5. CASE InvalidateBlock
    <2> DEFINE w == Walked
    <2>1. w \in Ram
      BY <1>5, WalkedType DEF InvalidateBlock
    <2> HIDE DEF w
    <2>2. blocks' \in [Words -> Block]
      <3>1. blocks' = [blocks EXCEPT ![w].valid = FALSE]
        BY <1>5 DEF InvalidateBlock, w
      <3> QED BY <3>1 DEF TypeOK, Block
    <2>3. CASE blocks[w].segment = "Kuseg"
      <3>1. Erase(w) /\ UNCHANGED <<pc, memory, used, entered>>
        BY <1>5, <2>3 DEF InvalidateBlock, w
      <3>2. /\ pages' \in [Page -> Seq(Ram)]
            /\ walk' \in [page : Page, at : Nat \ {0}, stop : Nat, rest : Seq(Ram)]
            /\ spared' \subseteq Ram
        BY <1>5, <2>1, <3>1, EraseTypes DEF InvalidateBlock
      <3> QED BY <2>2, <3>1, <3>2 DEF TypeOK
    <2>4. CASE blocks[w].segment # "Kuseg"
      <3>1. /\ walk' = [walk EXCEPT !.at = @ + 1]
            /\ spared' = spared \ {w}
            /\ pc' \in {"invalidating", "crashed"}
            /\ UNCHANGED <<pages, memory, used, entered>>
        BY <1>5, <2>4 DEF InvalidateBlock, w
      <3>2. walk' \in [page : Page, at : Nat \ {0}, stop : Nat, rest : Seq(Ram)]
        <4>1. walk \in [page : Page, at : Nat \ {0}, stop : Nat, rest : Seq(Ram)]
          BY DEF TypeOK
        <4>2. walk.at + 1 \in Nat \ {0}
          BY <4>1
        <4> QED BY <3>1, <4>1, <4>2
      <3> QED BY <2>2, <3>1, <3>2 DEF TypeOK
    <2> QED BY <2>3, <2>4
  <1>6. CASE ClearPage
    <2>1. walk' \in [page : Page, at : Nat \ {0}, stop : Nat, rest : Seq(Ram)]
      BY <1>6, CodeCacheAssumption DEF ClearPage, NoWalk, Page
    <2>2. pages' \in [Page -> Seq(Ram)]
      BY <1>6 DEF ClearPage, TypeOK
    <2> QED BY <1>6, <2>1, <2>2 DEF ClearPage, TypeOK
  <1>7. CASE UNCHANGED vars
    BY <1>7 DEF vars, TypeOK
  <1> QED BY <1>1, <1>2, <1>3, <1>4, <1>5, <1>6, <1>7 DEF Next

-----------------------------------------------------------------------------
(* A round of the loop.                                                     *)

\* What a round does to the lists, w being the block that it is about: the blocks
\* still to come do come, or are passed over, and no other list loses one but w.
RoundKeeps(w) ==
    /\ walk'.page = walk.page /\ walk'.stop = walk.stop /\ walk'.at = walk.at + 1
    /\ walk.stop = Len(pages'[walk.page]) + Len(walk'.rest)
    /\ spared \subseteq spared' \cup {w}
    /\ \A k \in (walk.at + 1)..walk.stop : Slots[k] \notin spared' \cup {w} =>
          \E i \in (walk.at + 1)..walk.stop : Slots'[i] = Slots[k]
    /\ \A p \in Page : \A k \in 1..Len(pages[p]) : pages[p][k] # w =>
          \E i \in 1..Len(pages'[p]) : pages'[p][i] = pages[p][k]

LEMMA EraseKeeps ==
  ASSUME TypeOK, WalkInRange, pc = "invalidating", walk.at <= walk.stop, Erase(Walked)
  PROVE  RoundKeeps(Walked)
PROOF
  <1> DEFINE w == Walked
             list == pages[walk.page]
             rest == walk.rest
             at == walk.at
             stop == walk.stop
             hit == walk.page \in ErasePages(w) /\ w \in ToSet(list)
             rest2 == IF hit THEN <<Last(list)>> \o rest ELSE rest
             list2 == IF hit THEN RemoveFirst(list, w) ELSE list
  <1>1. /\ list \in Seq(Ram) /\ rest \in Seq(Ram) /\ at \in Nat \ {0}
        /\ at <= Len(list) + Len(rest) /\ w \in Ram
    BY WalkedType
  <1>2. stop = Len(list) + Len(rest) /\ w = (list \o rest)[at]
    BY DEF WalkInRange, Walked
  <1>3. walk.page \in Page /\ pages \in [Page -> Seq(Ram)]
    BY DEF TypeOK
  <1>4. /\ walk' = [walk EXCEPT !.at = at + 1, !.rest = rest2]
        /\ pages' = [p \in Page |-> IF p \in ErasePages(w) THEN RemoveFirst(pages[p], w)
                                    ELSE pages[p]]
        /\ spared' = IF hit THEN (spared \cup Spared(list)) \ {w} ELSE spared \ {w}
    BY DEF Erase
  <1>5. walk'.page = walk.page /\ walk'.stop = stop /\ walk'.at = at + 1 /\ walk'.rest = rest2
    <2> HIDE DEF rest2
    <2>1. walk \in [page : Page, at : Nat \ {0}, stop : Nat, rest : Seq(Ram)]
      BY DEF TypeOK
    <2> QED BY <1>4, <2>1
  <1>6. pages'[walk.page] = list2
    <2>1. CASE w \in ToSet(list)
      BY <1>3, <1>4, <2>1
    <2>2. CASE w \notin ToSet(list)
      <3>1. ~\E i \in 1..Len(list) : list[i] = w
        BY <1>1, <2>2 DEF ToSet
      <3>2. RemoveFirst(list, w) = list
        BY <3>1 DEF RemoveFirst
      <3> QED BY <1>3, <1>4, <2>2, <3>2
    <2> QED BY <2>1, <2>2
  <1>7. spared \subseteq spared' \cup {w}
    BY <1>4
  <1>8. ASSUME NEW p \in Page, NEW k \in 1..Len(pages[p]), pages[p][k] # w
        PROVE  \E i \in 1..Len(pages'[p]) : pages'[p][i] = pages[p][k]
    <2>1. pages[p] \in Seq(Ram)
      BY <1>3
    <2>2. \E i \in 1..Len(RemoveFirst(pages[p], w)) : RemoveFirst(pages[p], w)[i] = pages[p][k]
      BY <1>8, <2>1, RemoveFirstKeeps
    <2>3. pages'[p] = RemoveFirst(pages[p], w) \/ pages'[p] = pages[p]
      BY <1>4
    <2> QED BY <2>2, <2>3
  <1>9. /\ stop = Len(list2) + Len(rest2)
        /\ \A k \in (at + 1)..stop : (list \o rest)[k] \notin spared' \cup {w} =>
              \E i \in (at + 1)..stop : (list2 \o rest2)[i] = (list \o rest)[k]
    <2>1. CASE hit
      <3>1. \E i \in 1..Len(list) : list[i] = w
        BY <1>1, <2>1 DEF ToSet
      <3>2. rest2 = <<Last(list)>> \o rest /\ list2 = RemoveFirst(list, w)
        BY <2>1
      <3>3. at < Len(list) => list[at + 1] \in spared' \cup {w}
        BY <1>4, <2>1 DEF Spared
      <3> HIDE DEF list, rest, at, w, stop, list2, rest2
      <3>4. ComesToOthers(list, rest, at, list2, rest2)
        BY <1>1, <1>2, <3>1, <3>2, ErasedUnderLoop
      <3> DEFINE before == list \o rest
                 after == list2 \o rest2
      <3> HIDE DEF before, after
      <3>5. \A k \in (at + 1)..stop :
                  \/ at < Len(list) /\ before[k] = list[at + 1]
                  \/ \E i \in (at + 1)..stop : after[i] = before[k]
        BY <1>2, <3>4 DEF before, after, ComesToOthers
      <3>6. \A k \in (at + 1)..stop : before[k] \notin spared' \cup {w} =>
              \E i \in (at + 1)..stop : after[i] = before[k]
        BY <3>3, <3>5
      <3> QED BY <1>2, <3>4, <3>6 DEF before, after, ComesToOthers
    <2>2. CASE ~hit
      BY <1>2, <2>2
    <2> QED BY <2>1, <2>2
  <1>10. Slots = list \o rest /\ Slots' = list2 \o rest2
    BY <1>5, <1>6 DEF Slots
  <1> HIDE DEF list, rest, at, stop, list2, rest2, w
  <1> QED BY <1>5, <1>6, <1>7, <1>8, <1>9, <1>10 DEF RoundKeeps, at, stop, w

LEMMA InvalidateKeeps ==
  ASSUME TypeOK, WalkInRange, InvalidateBlock
  PROVE  RoundKeeps(Walked)
PROOF
  <1>1. pc = "invalidating" /\ walk.at <= walk.stop
    BY DEF InvalidateBlock
  <1>2. CASE blocks[Walked].segment = "Kuseg"
    BY <1>1, <1>2, EraseKeeps DEF InvalidateBlock
  <1>3. CASE blocks[Walked].segment # "Kuseg"
    <2>1. /\ walk' = [walk EXCEPT !.at = @ + 1]
          /\ spared' = spared \ {Walked}
          /\ pages' = pages
      BY <1>3 DEF InvalidateBlock
    <2>2. walk \in [page : Page, at : Nat \ {0}, stop : Nat, rest : Seq(Ram)]
      BY DEF TypeOK
    <2>3. /\ walk'.page = walk.page /\ walk'.stop = walk.stop /\ walk'.at = walk.at + 1
          /\ walk'.rest = walk.rest
      BY <2>1, <2>2
    <2>4. Slots' = Slots
      BY <2>1, <2>3 DEF Slots
    <2>5. walk.stop = Len(pages[walk.page]) + Len(walk.rest)
      BY <1>1 DEF WalkInRange
    <2> QED BY <2>1, <2>3, <2>4, <2>5 DEF RoundKeeps
  <1> QED BY <1>2, <1>3

-----------------------------------------------------------------------------
(* The steps keep the invariant.                                            *)

LEMMA NextWalkInRange ==
  ASSUME TypeOK, WalkInRange, [Next]_vars
  PROVE  WalkInRange'
PROOF
  <1>1. ASSUME NEW e \in Entries, Run(e[1], e[2]) \/ RunFails(e[1], e[2])
        PROVE  WalkInRange'
    BY <1>1 DEF Run, RunFails, WalkInRange
  <1>2. CASE Return \/ ClearPage
    BY <1>2 DEF Return, ClearPage, WalkInRange
  <1>3. ASSUME NEW w \in Stored, NEW i \in Written, Store(w, i)
        PROVE  WalkInRange'
    <2>1. w \in Ram
      BY CodeCacheAssumption
    <2>2. pages[PageOf(w)] \in Seq(Ram)
      BY <2>1, PageOfType DEF TypeOK
    <2>3. /\ walk'.stop = Len(pages[PageOf(w)]) /\ walk'.page = PageOf(w)
          /\ walk'.rest = << >> /\ pages' = pages
      BY <1>3 DEF Store
    <2> QED BY <2>2, <2>3 DEF WalkInRange
  <1>4. CASE InvalidateBlock
    BY <1>4, InvalidateKeeps DEF RoundKeeps, WalkInRange
  <1>5. CASE UNCHANGED vars
    BY <1>5 DEF vars, WalkInRange
  <1> QED BY <1>1, <1>2, <1>3, <1>4, <1>5 DEF Next

\* A block is on the list of a page.
ListedOn(w, p) == \E k \in 1..Len(pages[p]) : pages[p][k] = w

LEMMA NextListed ==
  ASSUME IInv, [Next]_vars
  PROVE  Listed'
PROOF
  <1>0. TypeOK /\ WalkInRange /\ Listed
    BY DEF IInv
  <1>1. ASSUME NEW e \in Entries, Run(e[1], e[2])
        PROVE  Listed'
    <2> DEFINE segment == e[1]
               v == e[2]
    <2>1. pc = "between" /\ pc' = "block"
      BY <1>1 DEF Run
    <2>2. CASE blocks[v].valid
      BY <1>0, <1>1, <2>1, <2>2 DEF Run, Listed
    <2>3. CASE ~blocks[v].valid
      <3> DEFINE code == CodeAt(memory, v)
                 b == [valid |-> TRUE, segment |-> segment, code |-> code]
      <3>1. CompileBlock(segment, v) /\ v \in Words
        BY <1>1, <2>3, CodeCacheAssumption DEF Run
      <3>2. /\ blocks' = [blocks EXCEPT ![v] = b]
            /\ spared' = spared \ {v}
            /\ pages' = [p \in Page |-> IF v \in Ram /\ p \in AddBlockRange(v, code)
                                        THEN Append(pages[p], v) ELSE pages[p]]
        BY <3>1 DEF CompileBlock
      <3>3. b.valid = TRUE /\ b.code = code
        OBVIOUS
      <3> HIDE DEF segment, v, code, b
      <3> SUFFICES ASSUME NEW w \in Ram \ spared', blocks'[w].valid,
                          NEW p \in AddBlockRange(w, blocks'[w].code) \cap Page
                   PROVE  ListedOn(w, p)'
        BY <2>1 DEF Listed, ListedOn
      <3>4. pages[p] \in Seq(Ram) /\ pages'[p] \in {pages[p], Append(pages[p], v)}
        BY <1>0, <3>2 DEF TypeOK
      <3>5. ListedOn(w, p) => ListedOn(w, p)'
        <4> DEFINE s == pages[p]
                   t == pages'[p]
        <4>1. Len(s) \in Nat /\ (t = s \/ t = Append(s, v)) /\ s \in Seq(Ram)
          BY <3>4
        <4> HIDE DEF s, t
        <4>2. ASSUME NEW k \in 1..Len(s) PROVE k \in 1..Len(t) /\ t[k] = s[k]
          BY <4>1
        <4> QED BY <4>2 DEF ListedOn, s, t
      <3>6. CASE w = v
        <4>1. blocks'[w].code = code
          BY <1>0, <3>1, <3>2, <3>3, <3>6 DEF TypeOK
        <4>2. pages'[p] = Append(pages[p], v)
          BY <3>2, <3>6, <4>1
        <4> DEFINE s == pages[p]
        <4>3. s \in Seq(Ram) /\ Len(s) + 1 \in 1..Len(Append(s, v)) /\ Append(s, v)[Len(s) + 1] = v
          BY <3>4
        <4> QED BY <3>6, <4>2, <4>3 DEF ListedOn
      <3>7. CASE w # v
        <4>1. blocks'[w] = blocks[w] /\ w \notin spared
          BY <1>0, <3>2, <3>7 DEF TypeOK, Words
        <4>2. ListedOn(w, p)
          BY <1>0, <2>1, <4>1 DEF Listed, ListedOn
        <4> QED BY <3>5, <4>2
      <3> QED BY <3>6, <3>7
    <2> QED BY <2>2, <2>3
  <1>2. ASSUME NEW e \in Entries, RunFails(e[1], e[2])
        PROVE  Listed'
    BY <1>2 DEF RunFails, Listed
  <1>3. CASE Return
    BY <1>0, <1>3 DEF Return, Listed
  <1>4. ASSUME NEW w \in Stored, NEW i \in Written, Store(w, i)
        PROVE  Listed'
    <2>1. /\ pc = "block" /\ pc' = "invalidating" /\ pages' = pages /\ blocks' = blocks
          /\ spared' = spared
      BY <1>4 DEF Store
    <2>2. /\ walk'.page = PageOf(w) /\ walk'.at = 1 /\ walk'.stop = Len(pages[PageOf(w)])
          /\ walk'.rest = << >>
      BY <1>4 DEF Store
    <2>3. w \in Ram
      BY CodeCacheAssumption
    <2>4. pages[PageOf(w)] \in Seq(Ram)
      BY <1>0, <2>3, PageOfType DEF TypeOK
    <2>5. Slots' = pages[PageOf(w)]
      BY <2>1, <2>2, <2>4, ConcatEmptySeq DEF Slots
    <2> QED BY <1>0, <2>1, <2>2, <2>5 DEF Listed
  <1>5. CASE InvalidateBlock
    <2> DEFINE v == Walked
    <2>1. /\ pc = "invalidating" /\ walk.at <= walk.stop
          /\ blocks' = [blocks EXCEPT ![v].valid = FALSE]
          /\ pc' \in {"invalidating", "crashed"}
      BY <1>5 DEF InvalidateBlock
    <2>2. RoundKeeps(v) /\ v \in Ram /\ walk.at \in Nat \ {0} /\ walk.stop \in Nat
      BY <1>0, <1>5, <2>1, InvalidateKeeps, WalkedType DEF TypeOK
    <2>3. Slots[walk.at] = v
      BY DEF Slots, Walked
    <2> HIDE DEF v
    <2> SUFFICES ASSUME pc' = "invalidating", NEW w \in Ram \ spared', blocks'[w].valid,
                        NEW p \in AddBlockRange(w, blocks'[w].code) \cap Page
                 PROVE  IF p = walk'.page
                        THEN \E k \in walk'.at..walk'.stop : Slots'[k] = w
                        ELSE \E k \in 1..Len(pages'[p]) : pages'[p][k] = w
      BY <2>1 DEF Listed
    <2>4. w # v /\ w \notin spared /\ blocks[w] = blocks'[w]
      BY <1>0, <2>1, <2>2 DEF TypeOK, Words, Block, RoundKeeps
    <2>5. CASE p = walk.page
      <3>1. PICK k \in walk.at..walk.stop : Slots[k] = w
        BY <1>0, <2>1, <2>4, <2>5 DEF Listed
      <3>2. k \in (walk.at + 1)..walk.stop
        BY <2>2, <2>3, <2>4, <3>1
      <3>3. \E i \in (walk.at + 1)..walk.stop : Slots'[i] = w
        BY <2>2, <2>4, <3>1, <3>2 DEF RoundKeeps
      <3> QED BY <2>2, <2>5, <3>3 DEF RoundKeeps
    <2>6. CASE p # walk.page
      <3>1. PICK k \in 1..Len(pages[p]) : pages[p][k] = w
        BY <1>0, <2>1, <2>4, <2>6 DEF Listed
      <3>2. \E i \in 1..Len(pages'[p]) : pages'[p][i] = w
        BY <2>2, <2>4, <3>1 DEF RoundKeeps
      <3> QED BY <2>2, <2>6, <3>2 DEF RoundKeeps
    <2> QED BY <2>5, <2>6
  <1>6. CASE ClearPage
    <2>1. /\ pc = "invalidating" /\ walk.at > walk.stop /\ pc' = "block"
          /\ pages' = [pages EXCEPT ![walk.page] = << >>]
          /\ blocks' = blocks /\ spared' = spared
      BY <1>6 DEF ClearPage
    <2>2. walk.at \in Nat /\ walk.stop \in Nat /\ pages \in [Page -> Seq(Ram)]
      BY <1>0 DEF TypeOK
    <2>3. \A k \in walk.at..walk.stop : FALSE
      BY <2>1, <2>2
    <2> SUFFICES ASSUME NEW w \in Ram \ spared, blocks[w].valid,
                        NEW p \in AddBlockRange(w, blocks[w].code) \cap Page
                 PROVE  \E k \in 1..Len(pages'[p]) : pages'[p][k] = w
      BY <2>1 DEF Listed
    <2>4. p # walk.page
      BY <1>0, <2>1, <2>3 DEF Listed
    <2>5. pages'[p] = pages[p]
      BY <2>1, <2>2, <2>4
    <2> QED BY <1>0, <2>1, <2>4, <2>5 DEF Listed
  <1>7. CASE UNCHANGED vars
    <2>1. Slots' = Slots
      BY <1>7 DEF vars, Slots
    <2> QED BY <1>0, <1>7, <2>1 DEF vars, Listed
  <1> QED BY <1>1, <1>2, <1>3, <1>4, <1>5, <1>6, <1>7 DEF Next

LEMMA NextFresh ==
  ASSUME IInv, [Next]_vars
  PROVE  FreshOrDoomed'
PROOF
  <1>0. TypeOK /\ WalkInRange /\ Listed /\ FreshOrDoomed
    BY DEF IInv
  <1>1. ASSUME NEW e \in Entries, Run(e[1], e[2])
        PROVE  FreshOrDoomed'
    <2> DEFINE segment == e[1]
               v == e[2]
    <2>1. pc = "between" /\ pc' = "block" /\ memory' = memory
      BY <1>1 DEF Run
    <2>2. CASE blocks[v].valid
      BY <1>0, <1>1, <2>1, <2>2 DEF Run, FreshOrDoomed, Fresh
    <2>3. CASE ~blocks[v].valid
      <3> DEFINE code == CodeAt(memory, v)
                 b == [valid |-> TRUE, segment |-> segment, code |-> code]
      <3>1. CompileBlock(segment, v) /\ v \in Words
        BY <1>1, <2>3, CodeCacheAssumption DEF Run
      <3>2. /\ Compiles(memory, v)
            /\ blocks' = [blocks EXCEPT ![v] = b]
            /\ spared' = spared \ {v}
        BY <3>1 DEF CompileBlock
      <3>3. b.code = code
        OBVIOUS
      <3> HIDE DEF segment, v, b
      <3> SUFFICES ASSUME NEW w \in Words \ spared', blocks'[w].valid,
                          ~ReachesOver(w, blocks'[w].code)
                   PROVE  Fresh(w)'
        BY DEF FreshOrDoomed
      <3>4. CASE w = v
        <4>1. blocks'[w].code = code
          BY <1>0, <3>1, <3>2, <3>3, <3>4 DEF TypeOK
        <4> QED BY <2>1, <3>2, <3>4, <4>1 DEF Fresh
      <3>5. CASE w # v
        <4>1. blocks'[w] = blocks[w] /\ w \notin spared
          BY <1>0, <3>2, <3>5 DEF TypeOK
        <4>2. Fresh(w)
          BY <1>0, <2>1, <4>1 DEF FreshOrDoomed
        <4> QED BY <2>1, <4>1, <4>2 DEF Fresh
      <3> QED BY <3>4, <3>5
    <2> QED BY <2>2, <2>3
  <1>2. ASSUME NEW e \in Entries, RunFails(e[1], e[2])
        PROVE  FreshOrDoomed'
    BY <1>2 DEF RunFails, FreshOrDoomed
  <1>3. CASE Return
    BY <1>0, <1>3 DEF Return, FreshOrDoomed, Fresh
  <1>4. ASSUME NEW v \in Stored, NEW i \in Written, Store(v, i)
        PROVE  FreshOrDoomed'
    <2>1. /\ pc = "block" /\ pc' = "invalidating" /\ blocks' = blocks /\ spared' = spared
          /\ memory' = [memory EXCEPT ![v] = i] /\ walk'.page = PageOf(v)
      BY <1>4 DEF Store
    <2>2. v \in Ram /\ memory \in [Ram -> Instruction]
      BY <1>0, CodeCacheAssumption DEF TypeOK
    <2>3. memory' \in [Ram -> Instruction]
      BY <2>1, <2>2, CodeCacheAssumption
    <2> SUFFICES ASSUME NEW w \in Words \ spared, blocks[w].valid,
                        ~ReachesOver(w, blocks[w].code)
                 PROVE  \/ Fresh(w)'
                        \/ w \in Ram /\ PageOf(v) \in AddBlockRange(w, blocks[w].code)
      BY <2>1 DEF FreshOrDoomed
    <2> DEFINE code == blocks[w].code
    <2>4. Fresh(w) /\ code \in Seq(Instruction)
      BY <1>0, <2>1 DEF FreshOrDoomed, TypeOK, Block
    <2>5. CASE v \in w..(w + Len(code) - 1)
      <3>1. w \in Ram
        <4>1. RamWords \in Nat /\ Len(Rom) \in Nat
          BY CodeCacheAssumption DEF RamWords
        <4>2. w <= v /\ v < RamWords /\ v \in Int
          BY <2>2, <2>5, <4>1 DEF Ram
        <4> QED BY <4>1, <4>2 DEF Words, Ram, Bios
      <3> QED BY <2>4, <2>5, <3>1, PageReached
    <2>6. CASE v \notin w..(w + Len(code) - 1)
      <3>1. \A u \in w..(w + Len(code) - 1) : WordAt(memory', u) = WordAt(memory, u)
        BY <2>1, <2>2, <2>6 DEF WordAt
      <3>2. Compiles(memory, w) /\ code = CodeAt(memory, w)
        BY <2>4 DEF Fresh
      <3>3. Compiles(memory', w) /\ CodeAt(memory', w) = CodeAt(memory, w)
        <4> HIDE DEF code
        <4> QED BY <2>2, <2>3, <3>1, <3>2, CodeStable
      <3> QED BY <2>1, <3>2, <3>3 DEF Fresh
    <2> QED BY <2>5, <2>6
  <1>5. CASE InvalidateBlock
    <2> DEFINE v == Walked
    <2>1. /\ pc = "invalidating" /\ walk.at <= walk.stop
          /\ blocks' = [blocks EXCEPT ![v].valid = FALSE]
          /\ pc' \in {"invalidating", "crashed"} /\ memory' = memory
      BY <1>5 DEF InvalidateBlock
    <2>2. RoundKeeps(v) /\ v \in Ram
      BY <1>0, <1>5, <2>1, InvalidateKeeps, WalkedType
    <2> HIDE DEF v
    <2> SUFFICES ASSUME pc' = "invalidating", NEW w \in Words \ spared', blocks'[w].valid,
                        ~ReachesOver(w, blocks'[w].code)
                 PROVE  \/ Fresh(w)'
                        \/ w \in Ram /\ walk'.page \in AddBlockRange(w, blocks'[w].code)
      BY <2>1 DEF FreshOrDoomed
    <2>3. w # v /\ w \notin spared /\ blocks'[w] = blocks[w]
      BY <1>0, <2>1, <2>2 DEF TypeOK, Words, Block, RoundKeeps
    <2>4. Fresh(w) \/ (w \in Ram /\ walk.page \in AddBlockRange(w, blocks[w].code))
      BY <1>0, <2>1, <2>3 DEF FreshOrDoomed
    <2> QED BY <2>1, <2>2, <2>3, <2>4 DEF Fresh, RoundKeeps
  <1>6. CASE ClearPage
    <2>1. /\ pc = "invalidating" /\ walk.at > walk.stop /\ pc' = "block"
          /\ blocks' = blocks /\ spared' = spared /\ memory' = memory
      BY <1>6 DEF ClearPage
    <2>2. walk.at \in Nat /\ walk.stop \in Nat /\ walk.page \in Page
      BY <1>0 DEF TypeOK
    <2>3. \A k \in walk.at..walk.stop : FALSE
      BY <2>1, <2>2
    <2> SUFFICES ASSUME NEW w \in Words \ spared, blocks[w].valid,
                        ~ReachesOver(w, blocks[w].code)
                 PROVE  Fresh(w)'
      BY <2>1 DEF FreshOrDoomed
    <2>4. ~(w \in Ram /\ walk.page \in AddBlockRange(w, blocks[w].code))
      BY <1>0, <2>1, <2>2, <2>3 DEF Listed
    <2>5. Fresh(w)
      BY <1>0, <2>1, <2>4 DEF FreshOrDoomed
    <2> QED BY <2>1, <2>5 DEF Fresh
  <1>7. CASE UNCHANGED vars
    BY <1>0, <1>7 DEF vars, FreshOrDoomed, Fresh
  <1> QED BY <1>1, <1>2, <1>3, <1>4, <1>5, <1>6, <1>7 DEF Next

LEMMA InitInv ==
  ASSUME Init
  PROVE  IInv
PROOF
  <1>1. TypeOK
    BY InitTypes
  <1>2. \A w \in Words : blocks[w].valid = FALSE
    BY DEF Init
  <1>3. pc = "between"
    BY DEF Init
  <1> QED BY <1>1, <1>2, <1>3 DEF IInv, WalkInRange, Listed, FreshOrDoomed, Words

-----------------------------------------------------------------------------
(* The theorems.                                                            *)

THEOREM Invariance == Spec => []IInv
PROOF
  <1>1. IInv /\ [Next]_vars => IInv'
    BY NextTypes, NextWalkInRange, NextListed, NextFresh DEF IInv
  <1> QED BY <1>1, InitInv, PTL DEF Spec

\* The cache is of its type: what compiling commits fits the code buffer, and the
\* loop of InvalidateAddress stays where blocks are, whatever is erased under it.
THEOREM TypeCorrect == Spec => []TypeOK
PROOF
  <1>1. IInv => TypeOK
    BY DEF IInv
  <1> QED BY <1>1, Invariance, PTL

\* Whatever the guest stores, the blocks that it may enter are what memory holds,
\* but for those that reach over the end of a page, and those that the loop passed
\* over since it erased another one from the list that it was walking.
THEOREM NoStaleBlockHolds == Spec => []NoStaleBlock
PROOF
  <1>1. IInv => NoStaleBlock
    BY DEF IInv, FreshOrDoomed, Fresh, NoStaleBlock
  <1> QED BY <1>1, Invariance, PTL
=============================================================================
