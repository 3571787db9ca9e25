--------------------------- MODULE EmulatorProofs ---------------------------
(***************************************************************************)
(* What the operations of the scheduler do to the list of events, for lists *)
(* of every length; and the safety properties of the run loop, proved for   *)
(* every frequency, delay and bound that EmulatorAssumption admits.         *)
(***************************************************************************)
EXTENDS Emulator, FiniteSetTheorems, FunctionTheorems, TLAPS

-----------------------------------------------------------------------------
(* The scheduler.                                                           *)

\* What the lemmas say of a list: which types are in it, whether one is in it
\* at most once, at how many places, and whether it is in the order of the targets.
Types(q) == {q[i] : i \in DOMAIN q}
Single(q, t) == \A i, j \in DOMAIN q : q[i] = t /\ q[j] = t => i = j
Places(q, t) == {i \in DOMAIN q : q[i] = t}
InOrder(q, events) ==
    \A i, j \in DOMAIN q : i < j => ~Earlier(events, q[j], q[i])

\* Numbering the elements of a finite set by how many others a strict total
\* order puts before them is a bijection to 1 .. n that respects the order.
LEMMA RankIsBijection ==
  ASSUME NEW S, IsFiniteSet(S), NEW R,
         \A i \in S : <<i, i>> \notin R,
         \A i, j, k \in S : <<i, j>> \in R /\ <<j, k>> \in R => <<i, k>> \in R,
         \A i, j \in S : i # j => <<i, j>> \in R \/ <<j, i>> \in R,
         NEW rank,
         rank = [i \in S |-> Cardinality({j \in S : <<j, i>> \in R}) + 1]
  PROVE  /\ rank \in Bijection(S, 1 .. Cardinality(S))
         /\ \A i, j \in S : rank[i] < rank[j] <=> <<i, j>> \in R
PROOF
  <1> DEFINE Below(i) == {j \in S : <<j, i>> \in R}
             n == Cardinality(S)
  <1>0. n \in Nat
    BY FS_CardinalityType
  <1>1. \A i \in S : IsFiniteSet(Below(i)) /\ Cardinality(Below(i)) \in Nat
    <2> TAKE i \in S
    <2>1. Below(i) \in SUBSET S
      OBVIOUS
    <2>2. IsFiniteSet(Below(i))
      BY <2>1, FS_Subset
    <2> QED BY <2>2, FS_CardinalityType
  <1>2. \A i, j \in S : <<i, j>> \in R => Cardinality(Below(i)) < Cardinality(Below(j))
    <2> SUFFICES ASSUME NEW i \in S, NEW j \in S, <<i, j>> \in R
                 PROVE  Cardinality(Below(i)) < Cardinality(Below(j))
      OBVIOUS
    <2>1. Below(i) \in SUBSET Below(j)
      OBVIOUS
    <2>2. i \in Below(j) /\ i \notin Below(i)
      OBVIOUS
    <2>3. /\ Cardinality(Below(i)) <= Cardinality(Below(j))
          /\ Cardinality(Below(j)) = Cardinality(Below(i)) => Below(j) = Below(i)
      BY <1>1, <2>1, FS_Subset
    <2>4. Cardinality(Below(j)) # Cardinality(Below(i))
      BY <2>2, <2>3
    <2> HIDE DEF Below
    <2> QED BY <1>1, <2>3, <2>4
  <1>3. \A i \in S : Cardinality(Below(i)) < n
    <2> TAKE i \in S
    <2>1. Below(i) \in SUBSET S /\ i \in S /\ i \notin Below(i)
      OBVIOUS
    <2>2. Cardinality(Below(i)) <= n /\ (n = Cardinality(Below(i)) => S = Below(i))
      BY <2>1, FS_Subset
    <2>3. n # Cardinality(Below(i))
      BY <2>1, <2>2
    <2> HIDE DEF Below, n
    <2> QED BY <1>0, <1>1, <2>2, <2>3
  <1>4. \A i \in S : rank[i] = Cardinality(Below(i)) + 1
    OBVIOUS
  <1> HIDE DEF Below, n
  <1>5. \A i, j \in S : rank[i] < rank[j] <=> <<i, j>> \in R
    <2> SUFFICES ASSUME NEW i \in S, NEW j \in S
                 PROVE  rank[i] < rank[j] <=> <<i, j>> \in R
      OBVIOUS
    <2>1. CASE <<i, j>> \in R
      BY <2>1, <1>1, <1>2, <1>4
    <2>2. CASE i = j
      BY <2>2, <1>1, <1>4
    <2>3. CASE <<j, i>> \in R /\ i # j
      BY <2>3, <1>1, <1>2, <1>4
    <2> QED BY <2>1, <2>2, <2>3
  <1>6. rank \in [S -> 1 .. n]
    <2>1. \A i \in S : rank[i] \in 1 .. n
      BY <1>0, <1>1, <1>3, <1>4
    <2> QED BY <2>1
  <1>7. \A i, j \in S : rank[i] = rank[j] => i = j
    BY <1>5, <1>6
  <1>8. rank \in Injection(S, 1 .. n)
    BY <1>6, <1>7, Fun_IsInj
  <1>9. IsFiniteSet(1 .. n) /\ Cardinality(1 .. n) = n
    BY <1>0, FS_Interval
  <1>10. rank \in Surjection(S, 1 .. n)
    BY <1>8, <1>9, FS_Injection DEF n
  <1> QED
    BY <1>5, <1>8, <1>10, Fun_IsBij DEF n

\* Reordering a sequence by such a numbering of some of its positions
\* yields exactly the elements at these positions.
LEMMA ReorderFacts ==
  ASSUME NEW q \in Seq(EventType), NEW S \in SUBSET DOMAIN q,
         NEW rank \in Bijection(S, 1 .. Cardinality(S))
  PROVE  /\ Cardinality(S) \in Nat
         /\ Reorder(q, rank) \in Seq(EventType)
         /\ Len(Reorder(q, rank)) = Cardinality(S)
         /\ \A k \in 1 .. Cardinality(S) :
              \E i \in S : rank[i] = k /\ Reorder(q, rank)[k] = q[i]
         /\ \A i \in S : rank[i] \in 1 .. Cardinality(S) /\ Reorder(q, rank)[rank[i]] = q[i]
PROOF
  <1> DEFINE n == Cardinality(S)
             At(k) == CHOOSE i \in DOMAIN rank : rank[i] = k
  <1>1. n \in Nat
    <2>1. IsFiniteSet(DOMAIN q)
      BY FS_Interval
    <2> QED BY <2>1, FS_Subset, FS_CardinalityType
  <1>2. /\ rank \in [S -> 1 .. n]
        /\ \A a, b \in S : rank[a] = rank[b] => a = b
        /\ \A t \in 1 .. n : \E s \in S : rank[s] = t
    BY DEF Bijection, Injection, Surjection, IsInjective
  <1> HIDE DEF n
  <1>3. DOMAIN rank = S
    BY <1>2
  <1>4. \A k \in 1 .. n : At(k) \in S /\ rank[At(k)] = k
    BY <1>2, <1>3
  <1>5. Reorder(q, rank) = [k \in 1 .. n |-> q[At(k)]]
    BY <1>3 DEF Reorder, n
  <1>6. \A i \in S : q[i] \in EventType
    OBVIOUS
  <1>7. Reorder(q, rank) \in [1 .. n -> EventType]
    BY <1>4, <1>5, <1>6
  <1>8. Reorder(q, rank) \in Seq(EventType) /\ Len(Reorder(q, rank)) = n
    BY <1>1, <1>7
  <1>9. \A i \in S : rank[i] \in 1 .. n /\ At(rank[i]) = i
    BY <1>2, <1>4
  <1> HIDE DEF At
  <1>10. \A k \in 1 .. n : \E i \in S : rank[i] = k /\ Reorder(q, rank)[k] = q[i]
    BY <1>4, <1>5
  <1>11. \A i \in S : rank[i] \in 1 .. n /\ Reorder(q, rank)[rank[i]] = q[i]
    BY <1>5, <1>9
  <1> QED BY <1>1, <1>8, <1>10, <1>11 DEF n

\* Comparing targets is a strict weak order, of which Idle is the last.
LEMMA EarlierFacts ==
  ASSUME NEW events \in [EventType -> Event]
  PROVE  /\ \A a \in EventType : ~Earlier(events, a, a)
         /\ \A a, b, c \in EventType :
              Earlier(events, a, b) /\ Earlier(events, b, c) => Earlier(events, a, c)
         /\ \A a, b, c \in EventType :
              Earlier(events, a, c) => Earlier(events, a, b) \/ Earlier(events, b, c)
PROOF
  <1>1. \A a \in EventType : events[a].target \in Int
    BY DEF Event
  <1> QED BY <1>1 DEF Earlier

\* The places a stable sort gives are a strict total order of the positions.
LEMMA AheadFacts ==
  ASSUME NEW q \in Seq(EventType), NEW events \in [EventType -> Event]
  PROVE  /\ \A i \in DOMAIN q : ~Ahead(q, events, i, i)
         /\ \A i, j, k \in DOMAIN q :
              Ahead(q, events, i, j) /\ Ahead(q, events, j, k) => Ahead(q, events, i, k)
         /\ \A i, j \in DOMAIN q :
              i # j => Ahead(q, events, i, j) \/ Ahead(q, events, j, i)
PROOF
  <1>1. \A i \in DOMAIN q : q[i] \in EventType /\ i \in Int
    OBVIOUS
  <1>2. \A i \in DOMAIN q : ~Ahead(q, events, i, i)
    BY <1>1, EarlierFacts DEF Ahead
  <1>3. \A i, j, k \in DOMAIN q :
          Ahead(q, events, i, j) /\ Ahead(q, events, j, k) => Ahead(q, events, i, k)
    <2> SUFFICES ASSUME NEW i \in DOMAIN q, NEW j \in DOMAIN q, NEW k \in DOMAIN q,
                        Ahead(q, events, i, j), Ahead(q, events, j, k)
                 PROVE  Ahead(q, events, i, k)
      OBVIOUS
    <2> QED BY <1>1, EarlierFacts DEF Ahead
  <1>4. \A i, j \in DOMAIN q : i # j => Ahead(q, events, i, j) \/ Ahead(q, events, j, i)
    BY <1>1 DEF Ahead
  <1> QED BY <1>2, <1>3, <1>4

\* SortEvents loses nothing, invents nothing, and leaves the list in order; and
\* only an event that is strictly earlier overtakes the one at the front.
LEMMA SortFacts ==
  ASSUME NEW q \in Seq(EventType), NEW events \in [EventType -> Event],
         NEW sorted, sorted = SortEvents(q, events)
  PROVE  /\ sorted \in Seq(EventType)
         /\ Len(sorted) = Len(q)
         /\ Types(sorted) = Types(q)
         /\ InOrder(sorted, events)
         /\ q # << >> => sorted[1] = q[1] \/ Earlier(events, sorted[1], q[1])
         /\ \A t \in EventType : Single(q, t) => Single(sorted, t)
         /\ \A t : Cardinality(Places(sorted, t)) = Cardinality(Places(q, t))
PROOF
  <1> DEFINE S == DOMAIN q
             R == {p \in S \X S : Ahead(q, events, p[1], p[2])}
             rank == [i \in S |-> Cardinality({j \in S : Ahead(q, events, j, i)}) + 1]
  <1>1. IsFiniteSet(S) /\ S \in SUBSET DOMAIN q /\ Cardinality(S) = Len(q)
    <2>1. S = 1 .. Len(q) /\ Len(q) \in Nat /\ S \in SUBSET DOMAIN q
      OBVIOUS
    <2> HIDE DEF S
    <2>2. \A n \in Nat : IsFiniteSet(1 .. n) /\ Cardinality(1 .. n) = n
      BY FS_Interval
    <2> QED BY <2>1, <2>2
  <1>2. \A i, j \in S : <<i, j>> \in R <=> Ahead(q, events, i, j)
    OBVIOUS
  <1>3. rank = [i \in S |-> Cardinality({j \in S : <<j, i>> \in R}) + 1]
    <2>1. \A i \in S : {j \in S : Ahead(q, events, j, i)} = {j \in S : <<j, i>> \in R}
      BY <1>2
    <2> QED BY <2>1
  <1>4. sorted = Reorder(q, rank)
    BY DEF SortEvents
  <1>o. /\ \A i \in S : <<i, i>> \notin R
        /\ \A i, j, k \in S : <<i, j>> \in R /\ <<j, k>> \in R => <<i, k>> \in R
        /\ \A i, j \in S : i # j => <<i, j>> \in R \/ <<j, i>> \in R
    BY <1>2, AheadFacts
  <1>d. S = DOMAIN q
    OBVIOUS
  <1> HIDE DEF R, rank, S
  <1>5. /\ rank \in Bijection(S, 1 .. Cardinality(S))
        /\ \A i, j \in S : rank[i] < rank[j] <=> <<i, j>> \in R
    <2>1. IsFiniteSet(S)
      BY <1>1
    <2> QED BY <2>1, <1>3, <1>o, RankIsBijection
  <1>6. /\ sorted \in Seq(EventType)
        /\ Len(sorted) = Len(q)
        /\ \A k \in 1 .. Len(q) : \E i \in S : rank[i] = k /\ sorted[k] = q[i]
        /\ \A i \in S : rank[i] \in 1 .. Len(q) /\ sorted[rank[i]] = q[i]
    <2>1. S \in SUBSET DOMAIN q /\ rank \in Bijection(S, 1 .. Cardinality(S))
      BY <1>1, <1>5
    <2>2. /\ Reorder(q, rank) \in Seq(EventType)
          /\ Len(Reorder(q, rank)) = Cardinality(S)
          /\ \A k \in 1 .. Cardinality(S) :
               \E i \in S : rank[i] = k /\ Reorder(q, rank)[k] = q[i]
          /\ \A i \in S : rank[i] \in 1 .. Cardinality(S) /\ Reorder(q, rank)[rank[i]] = q[i]
      BY <2>1, ReorderFacts
    <2> QED BY <1>1, <1>4, <2>2
  <1>7. \A i, j \in S : rank[i] < rank[j] <=> Ahead(q, events, i, j)
    BY <1>2, <1>5
  <1>8. S = 1 .. Len(q) /\ DOMAIN sorted = 1 .. Len(q) /\ Len(q) \in Nat
    BY <1>6, <1>d
  <1>9. Types(sorted) = Types(q)
    <2>1. \A k \in DOMAIN sorted : \E i \in DOMAIN q : sorted[k] = q[i]
      BY <1>6, <1>8, <1>d
    <2>2. \A i \in DOMAIN q : \E k \in DOMAIN sorted : sorted[k] = q[i]
      BY <1>6, <1>8, <1>d
    <2> QED BY <2>1, <2>2 DEF Types
  <1>10. InOrder(sorted, events)
    <2> SUFFICES ASSUME NEW k \in 1 .. Len(q), NEW l \in 1 .. Len(q), k < l
                 PROVE  ~Earlier(events, sorted[l], sorted[k])
      BY <1>8 DEF InOrder
    <2>1. PICK i \in S : rank[i] = k /\ sorted[k] = q[i]
      BY <1>6
    <2>2. PICK j \in S : rank[j] = l /\ sorted[l] = q[j]
      BY <1>6
    <2>3. ~Ahead(q, events, j, i)
      BY <1>7, <2>1, <2>2
    <2> QED BY <2>1, <2>2, <2>3 DEF Ahead
  <1>11. q # << >> => sorted[1] = q[1] \/ Earlier(events, sorted[1], q[1])
    <2> SUFFICES ASSUME q # << >>
                 PROVE  sorted[1] = q[1] \/ Earlier(events, sorted[1], q[1])
      OBVIOUS
    <2>1. 1 \in S /\ 1 \in 1 .. Len(q)
      BY <1>8
    <2>2. PICK i \in S : rank[i] = 1 /\ sorted[1] = q[i]
      BY <1>6, <2>1
    <2>3. ~Ahead(q, events, 1, i)
      BY <1>6, <1>7, <2>1, <2>2
    <2>4. i = 1 \/ 1 < i
      BY <1>8
    <2> QED BY <2>2, <2>3, <2>4 DEF Ahead
  <1>12. ASSUME NEW t \in EventType, Single(q, t)
         PROVE  Single(sorted, t)
    BY <1>6, <1>8, <1>d, <1>12 DEF Single
  <1>13. ASSUME NEW t
         PROVE  Cardinality(Places(sorted, t)) = Cardinality(Places(q, t))
    <2> DEFINE A == Places(q, t)
               B == Places(sorted, t)
               f == [i \in A |-> rank[i]]
    <2>1. /\ \A i \in A : i \in S /\ q[i] = t
          /\ \A i \in S : q[i] = t => i \in A
          /\ \A k \in 1 .. Len(q) : sorted[k] = t <=> k \in B
          /\ \A k \in B : k \in 1 .. Len(q)
      BY <1>8, <1>d DEF Places
    <2>2. IsFiniteSet(A)
      BY <1>1, <1>d, FS_Subset DEF Places
    <2>3. \A i, j \in S : rank[i] = rank[j] => i = j
      BY <1>5 DEF Bijection, Injection, IsInjective
    <2> HIDE DEF A, B
    <2>4. f \in [A -> B]
      BY <1>6, <2>1
    <2>5. \A i, j \in A : f[i] = f[j] => i = j
      BY <2>1, <2>3
    <2>6. \A k \in B : \E i \in A : f[i] = k
      BY <1>6, <2>1
    <2> HIDE DEF f
    <2>7. f \in Bijection(A, B)
      BY <2>4, <2>5, <2>6 DEF Bijection, Injection, Surjection, IsInjective
    <2>8. Cardinality(A) = Cardinality(B)
      BY <2>2, <2>7, FS_Bijection DEF ExistsBijection
    <2> QED BY <2>8 DEF A, B
  <1> QED BY <1>6, <1>9, <1>10, <1>11, <1>12, <1>13

\* Without takes one type out of the list and changes nothing else.
LEMMA WithoutFacts ==
  ASSUME NEW q \in Seq(EventType), NEW type \in EventType,
         NEW events, NEW rest, rest = Without(q, type)
  PROVE  /\ rest \in Seq(EventType)
         /\ Types(rest) = Types(q) \ {type}
         /\ InOrder(q, events) => InOrder(rest, events)
         /\ q # << >> /\ q[1] # type => rest # << >> /\ rest[1] = q[1]
         /\ \A t \in EventType : Single(q, t) => Single(rest, t)
PROOF
  <1> DEFINE S == {i \in DOMAIN q : q[i] # type}
             R == {p \in S \X S : p[1] < p[2]}
             rank == [i \in S |-> Cardinality({j \in S : j < i}) + 1]
             n == Cardinality(S)
  <1>1. IsFiniteSet(S) /\ S \in SUBSET DOMAIN q /\ S \in SUBSET Int
    BY FS_Interval, FS_Subset
  <1>2. \A i, j \in S : <<i, j>> \in R <=> i < j
    OBVIOUS
  <1>3. rank = [i \in S |-> Cardinality({j \in S : <<j, i>> \in R}) + 1]
    <2>1. \A i \in S : {j \in S : j < i} = {j \in S : <<j, i>> \in R}
      BY <1>2
    <2> QED BY <2>1
  <1>4. rest = Reorder(q, rank)
    BY DEF Without
  <1>5. \A i \in DOMAIN q : i \in S <=> q[i] # type
    OBVIOUS
  <1> HIDE DEF R, rank, S
  <1>6. /\ rank \in Bijection(S, 1 .. Cardinality(S))
        /\ \A i, j \in S : rank[i] < rank[j] <=> <<i, j>> \in R
    <2>1. /\ \A i \in S : <<i, i>> \notin R
          /\ \A i, j, k \in S : <<i, j>> \in R /\ <<j, k>> \in R => <<i, k>> \in R
          /\ \A i, j \in S : i # j => <<i, j>> \in R \/ <<j, i>> \in R
      BY <1>1, <1>2
    <2> QED BY <1>1, <1>3, <2>1, RankIsBijection
  <1>7. /\ n \in Nat
        /\ rest \in Seq(EventType)
        /\ Len(rest) = n
        /\ \A k \in 1 .. n : \E i \in S : rank[i] = k /\ rest[k] = q[i]
        /\ \A i \in S : rank[i] \in 1 .. n /\ rest[rank[i]] = q[i]
    BY <1>1, <1>4, <1>6, ReorderFacts
  <1>8. \A i, j \in S : rank[i] < rank[j] <=> i < j
    BY <1>2, <1>6
  <1> HIDE DEF n
  <1>9. DOMAIN rest = 1 .. n
    BY <1>7
  <1>10. Types(rest) = Types(q) \ {type}
    BY <1>1, <1>5, <1>7, <1>9 DEF Types
  <1>11. InOrder(q, events) => InOrder(rest, events)
    <2> SUFFICES ASSUME InOrder(q, events),
                        NEW k \in 1 .. n, NEW l \in 1 .. n, k < l
                 PROVE  ~Earlier(events, rest[l], rest[k])
      BY <1>9 DEF InOrder
    <2>1. PICK i \in S : rank[i] = k /\ rest[k] = q[i]
      BY <1>7
    <2>2. PICK j \in S : rank[j] = l /\ rest[l] = q[j]
      BY <1>7
    <2>3. i < j
      BY <1>8, <2>1, <2>2
    <2> QED BY <1>1, <2>1, <2>2, <2>3 DEF InOrder
  <1>12. ASSUME q # << >>, q[1] # type
         PROVE  rest # << >> /\ rest[1] = q[1]
    <2>1. 1 \in DOMAIN q
      BY <1>12
    <2>2. 1 \in S
      BY <1>5, <1>12, <2>1
    <2>3. 1 \in 1 .. n /\ n # 0
      BY <1>7, <2>2
    <2>4. PICK i \in S : rank[i] = 1 /\ rest[1] = q[i]
      BY <1>7, <2>3
    <2>5. ~(1 < i)
      BY <1>7, <1>8, <2>2, <2>4
    <2>6. i = 1
      BY <1>1, <2>5
    <2> QED BY <1>7, <2>3, <2>4, <2>6
  <1>13. ASSUME NEW t \in EventType, Single(q, t)
         PROVE  Single(rest, t)
    BY <1>1, <1>7, <1>9, <1>13 DEF Single
  <1> QED BY <1>7, <1>10, <1>11, <1>12, <1>13

-----------------------------------------------------------------------------
\* What push_back does to a list.
LEMMA AppendFacts ==
  ASSUME NEW list \in Seq(EventType), NEW type \in EventType,
         NEW q, q = Append(list, type)
  PROVE  /\ q \in Seq(EventType) /\ q # << >> /\ Len(q) = Len(list) + 1
         /\ \A i \in DOMAIN list : i \in DOMAIN q /\ q[i] = list[i]
         /\ \A i \in DOMAIN q : i \in DOMAIN list \/ i = Len(q)
         /\ Len(q) \in DOMAIN q /\ q[Len(q)] = type
         /\ list # << >> => q[1] = list[1]
PROOF
  <1>1. q \in Seq(EventType) /\ Len(q) = Len(list) + 1 /\ Len(list) \in Nat
    OBVIOUS
  <1>2. DOMAIN q = 1 .. Len(list) + 1 /\ DOMAIN list = 1 .. Len(list)
    BY <1>1
  <1>3. \A i \in 1 .. Len(list) : q[i] = list[i]
    OBVIOUS
  <1>4. q[Len(list) + 1] = type
    OBVIOUS
  <1>5. list # << >> => 1 \in 1 .. Len(list)
    BY <1>1
  <1>6. q # << >>
    BY <1>1
  <1> QED BY <1>1, <1>2, <1>3, <1>4, <1>5, <1>6

\* AddEvent yields a scheduler.
LEMMA AddEventType ==
  ASSUME NEW s \in SchedulerState, NEW type \in EventType, NEW mode \in Mode,
         NEW ticks \in Nat, NEW r, r = AddEvent(s, type, mode, ticks)
  PROVE  r \in SchedulerState
PROOF
  <1> DEFINE e == [active |-> TRUE, mode |-> mode, target |-> ticks, period |-> ticks]
             events == [s.events EXCEPT ![type] = e]
             q == Append(s.list, type)
             sorted == SortEvents(q, events)
  <1>1. s.list \in Seq(EventType) /\ s.events \in [EventType -> Event]
    BY DEF SchedulerState
  <1>2. events \in [EventType -> Event] /\ q \in Seq(EventType) /\ Len(q) = Len(s.list) + 1
    BY <1>1 DEF Event
  <1>3. r = RecalcNextEventTarget([s EXCEPT !.events = events, !.list = sorted])
    BY DEF AddEvent
  <1> HIDE DEF q, events, sorted
  <1>4. sorted \in Seq(EventType) /\ Len(sorted) = Len(q)
    BY <1>2, SortFacts DEF sorted
  <1>5. Head(sorted) \in EventType
    BY <1>1, <1>2, <1>4
  <1>6. events[Head(sorted)].target \in Int
    BY <1>2, <1>5 DEF Event
  <1>7. r = [list |-> sorted, events |-> events, next |-> events[Head(sorted)].target]
    BY <1>3 DEF RecalcNextEventTarget, SchedulerState
  <1> QED BY <1>2, <1>4, <1>6, <1>7 DEF SchedulerState

\* AddEvent queues the event, keeps the list in order, and leaves in front what
\* was there unless something is strictly earlier.
LEMMA AddEventFacts ==
  ASSUME NEW s \in SchedulerState, NEW type \in EventType, NEW mode \in Mode,
         NEW ticks \in Nat, NEW r, r = AddEvent(s, type, mode, ticks)
  PROVE  /\ r.list # << >>
         /\ Types(r.list) = Types(s.list) \cup {type}
         /\ InOrder(r.list, r.events)
         /\ \A t \in EventType \ {type} : r.events[t] = s.events[t]
         /\ r.events[type].mode = mode
         /\ r.events[type].target = ticks /\ r.events[type].period = ticks
         /\ r.next = r.events[r.list[1]].target
         /\ s.list # << >> => \/ r.list[1] = s.list[1]
                             \/ Earlier(r.events, r.list[1], s.list[1])
         /\ \A t \in EventType \ {type} : Single(s.list, t) => Single(r.list, t)
         /\ type \notin Types(s.list) => Single(r.list, type)
         /\ \A t \in EventType \ {type} :
              Cardinality(Places(r.list, t)) = Cardinality(Places(s.list, t))
PROOF
  <1> DEFINE e == [active |-> TRUE, mode |-> mode, target |-> ticks, period |-> ticks]
             events == [s.events EXCEPT ![type] = e]
             q == Append(s.list, type)
             sorted == SortEvents(q, events)
  <1>1. s.list \in Seq(EventType) /\ s.events \in [EventType -> Event]
    BY DEF SchedulerState
  <1>2. events \in [EventType -> Event]
    BY <1>1 DEF Event
  <1>3. /\ q \in Seq(EventType) /\ q # << >> /\ Len(q) = Len(s.list) + 1
        /\ \A i \in DOMAIN s.list : i \in DOMAIN q /\ q[i] = s.list[i]
        /\ \A i \in DOMAIN q : i \in DOMAIN s.list \/ i = Len(q)
        /\ Len(q) \in DOMAIN q /\ q[Len(q)] = type
        /\ s.list # << >> => q[1] = s.list[1]
    <2> DEFINE list == s.list
    <2>1. list \in Seq(EventType) /\ q = Append(list, type)
      BY <1>1
    <2> HIDE DEF list, q
    <2>2. /\ q \in Seq(EventType) /\ q # << >> /\ Len(q) = Len(list) + 1
          /\ \A i \in DOMAIN list : i \in DOMAIN q /\ q[i] = list[i]
          /\ \A i \in DOMAIN q : i \in DOMAIN list \/ i = Len(q)
          /\ Len(q) \in DOMAIN q /\ q[Len(q)] = type
          /\ list # << >> => q[1] = list[1]
      BY <2>1, AppendFacts
    <2> QED BY <2>2 DEF list
  <1>4. r = RecalcNextEventTarget([s EXCEPT !.events = events, !.list = sorted])
    BY DEF AddEvent
  <1> HIDE DEF q, events, sorted
  <1>5. /\ sorted \in Seq(EventType)
        /\ Len(sorted) = Len(q)
        /\ Types(sorted) = Types(q)
        /\ InOrder(sorted, events)
        /\ sorted[1] = q[1] \/ Earlier(events, sorted[1], q[1])
        /\ \A t \in EventType : Single(q, t) => Single(sorted, t)
        /\ \A t : Cardinality(Places(sorted, t)) = Cardinality(Places(q, t))
    BY <1>2, <1>3, SortFacts DEF sorted
  <1>6. sorted # << >> /\ sorted[1] \in EventType /\ Head(sorted) = sorted[1]
    BY <1>1, <1>3, <1>5
  <1>7. r.list = sorted /\ r.events = events /\ r.next = events[sorted[1]].target
    BY <1>4, <1>6 DEF RecalcNextEventTarget, SchedulerState
  <1>9. Types(q) = Types(s.list) \cup {type}
    BY <1>3 DEF Types
  <1>10. \A t \in EventType \ {type} : Single(s.list, t) => Single(q, t)
    BY <1>3 DEF Single
  <1>11. type \notin Types(s.list) => Single(q, type)
    BY <1>3 DEF Single, Types
  <1>12. /\ \A t \in EventType \ {type} : events[t] = s.events[t]
         /\ events[type].mode = mode
         /\ events[type].target = ticks /\ events[type].period = ticks
    BY <1>1 DEF events
  <1>13. \A t \in EventType \ {type} : Places(q, t) = Places(s.list, t)
    BY <1>3 DEF Places
  <1> QED BY <1>3, <1>5, <1>6, <1>7, <1>9, <1>10, <1>11, <1>12, <1>13

\* Moving one target.
LEMMA MovedFacts ==
  ASSUME NEW events \in [EventType -> Event], NEW type \in EventType, NEW ticks \in Int
  PROVE  [events EXCEPT ![type].target = @ + ticks] \in [EventType -> Event]
PROOF
  <1> DEFINE e == [events[type] EXCEPT !.target = @ + ticks]
             moved == [events EXCEPT ![type].target = @ + ticks]
  <1>1. \A v \in Event : [v EXCEPT !.target = @ + ticks] \in Event
    BY DEF Event
  <1>2. e \in Event /\ moved = [events EXCEPT ![type] = e]
    BY <1>1
  <1> HIDE DEF e, moved
  <1> QED BY <1>2 DEF moved

\* RescheduleEvent moves one target and sorts again.
LEMMA RescheduleFacts ==
  ASSUME NEW s \in SchedulerState, s.list # << >>, NEW type \in EventType,
         NEW ticks \in Int, NEW r, r = RescheduleEvent(s, type, ticks)
  PROVE  /\ r \in SchedulerState
         /\ r.list # << >>
         /\ Types(r.list) = Types(s.list)
         /\ InOrder(r.list, r.events)
         /\ \A t \in EventType \ {type} : r.events[t] = s.events[t]
         /\ r.events[type].mode = s.events[type].mode
         /\ r.events[type].period = s.events[type].period
         /\ r.events[type].target = s.events[type].target + ticks
         /\ r.next = r.events[r.list[1]].target
         /\ \A t \in EventType : Single(s.list, t) => Single(r.list, t)
PROOF
  <1> DEFINE e == [s.events[type] EXCEPT !.target = @ + ticks]
             events == [s.events EXCEPT ![type].target = @ + ticks]
             sorted == SortEvents(s.list, events)
  <1>1. s.list \in Seq(EventType) /\ s.events \in [EventType -> Event]
    BY DEF SchedulerState
  <1>2. events \in [EventType -> Event]
    BY <1>1, MovedFacts
  <1>3. r = RecalcNextEventTarget([s EXCEPT !.events = events, !.list = sorted])
    BY DEF RescheduleEvent
  <1> HIDE DEF events, sorted
  <1>4. /\ sorted \in Seq(EventType)
        /\ Len(sorted) = Len(s.list)
        /\ Types(sorted) = Types(s.list)
        /\ InOrder(sorted, events)
        /\ \A t \in EventType : Single(s.list, t) => Single(sorted, t)
    BY <1>1, <1>2, SortFacts DEF sorted
  <1>5. sorted # << >> /\ sorted[1] \in EventType /\ Head(sorted) = sorted[1]
    BY <1>1, <1>4
  <1>6. events[sorted[1]].target \in Int
    BY <1>2, <1>5 DEF Event
  <1>7. r = [list |-> sorted, events |-> events, next |-> events[sorted[1]].target]
    BY <1>3, <1>5 DEF RecalcNextEventTarget, SchedulerState
  <1>8. /\ \A t \in EventType \ {type} : events[t] = s.events[t]
        /\ events[type].mode = s.events[type].mode
        /\ events[type].period = s.events[type].period
        /\ events[type].target = s.events[type].target + ticks
    <2>1. \A v \in Event : /\ [v EXCEPT !.target = @ + ticks].mode = v.mode
                           /\ [v EXCEPT !.target = @ + ticks].period = v.period
                           /\ [v EXCEPT !.target = @ + ticks].target = v.target + ticks
      BY DEF Event
    <2>2. s.events[type] \in Event /\ events[type] = e
      BY <1>1 DEF events
    <2>3. \A t \in EventType \ {type} : events[t] = s.events[t]
      BY <1>1 DEF events
    <2> QED BY <2>1, <2>2, <2>3
  <1> QED BY <1>2, <1>4, <1>5, <1>6, <1>7, <1>8 DEF SchedulerState

LEMMA RescheduleKeepsPlaces ==
  ASSUME NEW s \in SchedulerState, NEW type \in EventType, NEW ticks \in Int, NEW t
  PROVE  Cardinality(Places(RescheduleEvent(s, type, ticks).list, t)) =
           Cardinality(Places(s.list, t))
PROOF
  <1> DEFINE events == [s.events EXCEPT ![type].target = @ + ticks]
             sorted == SortEvents(s.list, events)
             r == RescheduleEvent(s, type, ticks)
  <1>1. s.list \in Seq(EventType) /\ s.events \in [EventType -> Event]
    BY DEF SchedulerState
  <1>2. events \in [EventType -> Event]
    BY <1>1, MovedFacts
  <1>3. r = RecalcNextEventTarget([s EXCEPT !.events = events, !.list = sorted])
    BY DEF RescheduleEvent
  <1> HIDE DEF events, sorted, r
  <1>4. r.list = sorted
    BY <1>3 DEF RecalcNextEventTarget, SchedulerState
  <1>5. Cardinality(Places(sorted, t)) = Cardinality(Places(s.list, t))
    BY <1>1, <1>2, SortFacts DEF sorted
  <1> QED BY <1>4, <1>5 DEF r

\* RemoveEvent takes one type out of the list.
LEMMA RemoveFacts ==
  ASSUME NEW s \in SchedulerState, NEW type \in EventType,
         s.list # << >>, s.list[1] # type, InOrder(s.list, s.events),
         NEW r, r = RemoveEvent(s, type)
  PROVE  /\ r \in SchedulerState
         /\ r.list # << >>
         /\ Types(r.list) = Types(s.list) \ {type}
         /\ InOrder(r.list, r.events)
         /\ \A t \in EventType \ {type} : r.events[t] = s.events[t]
         /\ r.next = r.events[r.list[1]].target
         /\ r.list[1] = s.list[1]
         /\ \A t \in EventType : Single(s.list, t) => Single(r.list, t)
PROOF
  <1> DEFINE events == [s.events EXCEPT ![type] = Dormant(FALSE)]
             rest == Without(s.list, type)
  <1>1. s.list \in Seq(EventType) /\ s.events \in [EventType -> Event]
    BY DEF SchedulerState
  <1>2. events \in [EventType -> Event]
    BY <1>1 DEF Event, Dormant, Mode
  <1>3. r = RecalcNextEventTarget([s EXCEPT !.events = events, !.list = rest])
    BY DEF RemoveEvent
  <1> HIDE DEF events, rest
  <1>4. /\ rest \in Seq(EventType)
        /\ Types(rest) = Types(s.list) \ {type}
        /\ InOrder(rest, s.events)
        /\ rest # << >> /\ rest[1] = s.list[1]
        /\ \A t \in EventType : Single(s.list, t) => Single(rest, t)
    BY <1>1, WithoutFacts DEF rest
  <1>5. rest[1] \in EventType /\ Head(rest) = rest[1]
    BY <1>4
  <1>6. events[rest[1]].target \in Int
    BY <1>2, <1>5 DEF Event
  <1>7. r = [list |-> rest, events |-> events, next |-> events[rest[1]].target]
    BY <1>3, <1>5 DEF RecalcNextEventTarget, SchedulerState
  <1>8. \A t \in EventType \ {type} : events[t] = s.events[t]
    BY <1>1 DEF events
  <1>9. InOrder(rest, events)
    <2>1. \A i \in DOMAIN rest : rest[i] \in EventType \ {type}
      <3>1. \A i \in DOMAIN rest : rest[i] \in Types(rest)
        BY DEF Types
      <3> QED BY <1>4, <3>1
    <2> QED BY <1>4, <1>8, <2>1 DEF InOrder, Earlier
  <1> QED BY <1>2, <1>4, <1>6, <1>7, <1>8, <1>9 DEF SchedulerState

\* pop_front takes one copy of the front, and keeps the cached target.
LEMMA PopFacts ==
  ASSUME NEW s \in SchedulerState, s.list # << >>, InOrder(s.list, s.events),
         Single(s.list, s.list[1]),
         NEW r, r = PopFront(s)
  PROVE  /\ r \in SchedulerState
         /\ Types(r.list) = Types(s.list) \ {s.list[1]}
         /\ InOrder(r.list, r.events)
         /\ \A t \in EventType \ {s.list[1]} : r.events[t] = s.events[t]
         /\ r.next = s.next
         /\ \A t \in EventType : Single(s.list, t) => Single(r.list, t)
PROOF
  <1> DEFINE rest == Tail(s.list)
             type == s.list[1]
             e == Dormant(s.events[type].active)
             events == [s.events EXCEPT ![type] = e]
  <1>1. /\ s.list \in Seq(EventType) /\ s.events \in [EventType -> Event]
        /\ s.next \in Int /\ type \in EventType /\ Head(s.list) = type
    BY DEF SchedulerState
  <1>2. /\ rest \in Seq(EventType)
        /\ Len(rest) = Len(s.list) - 1
        /\ \A i \in DOMAIN rest :
             i \in Int /\ i + 1 \in DOMAIN s.list /\ rest[i] = s.list[i + 1]
        /\ \A i \in DOMAIN s.list : i # 1 => i - 1 \in DOMAIN rest
        /\ 1 \in DOMAIN s.list
    BY <1>1
  <1>3. \A i \in DOMAIN rest : rest[i] \in EventType \ {type}
    BY <1>1, <1>2 DEF Single
  <1>4. events \in [EventType -> Event] /\ \A t \in EventType \ {type} : events[t] = s.events[t]
    BY <1>1 DEF Event, Dormant, Mode
  <1>5. r = [list |-> rest, events |-> events, next |-> s.next]
    <2>1. ~ \E i \in DOMAIN rest : rest[i] = type
      BY <1>3
    <2> QED BY <1>1, <2>1 DEF PopFront, SchedulerState
  <1> HIDE DEF rest, events
  <1>6. Types(rest) = Types(s.list) \ {type}
    <2>1. \A i \in DOMAIN s.list : i # 1 => s.list[i] = rest[i - 1]
      BY <1>1, <1>2
    <2> QED BY <1>2, <1>3, <2>1 DEF Types
  <1>7. InOrder(rest, events)
    <2> SUFFICES ASSUME NEW i \in DOMAIN rest, NEW j \in DOMAIN rest, i < j
                 PROVE  ~Earlier(events, rest[j], rest[i])
      BY DEF InOrder
    <2>1. ~Earlier(s.events, s.list[j + 1], s.list[i + 1])
      <3>1. i + 1 \in DOMAIN s.list /\ j + 1 \in DOMAIN s.list /\ i + 1 < j + 1
        BY <1>2
      <3> QED BY <3>1 DEF InOrder
    <2> QED BY <1>2, <1>3, <1>4, <2>1 DEF Earlier
  <1>8. \A t \in EventType : Single(s.list, t) => Single(rest, t)
    BY <1>1, <1>2 DEF Single
  <1> QED BY <1>1, <1>2, <1>4, <1>5, <1>6, <1>7, <1>8 DEF SchedulerState

-----------------------------------------------------------------------------
(* The run loop.                                                            *)

ModeOf(t) ==
  IF t \in {"Vblank", "Spu"} THEN "Periodic" ELSE IF t = "CdSector" THEN "Manual" ELSE "Once"

\* What the run loop keeps true of the scheduler at every step.  The cached
\* target is a lower bound of the targets only, because it is stale after a Once
\* event was popped; but the next sample is never more than a period behind it.
Consistent(s) ==
  /\ s \in SchedulerState
  /\ InOrder(s.list, s.events)
  /\ {"Idle", "Vblank", "Spu"} \subseteq Types(s.list)
  /\ \A t \in Types(s.list) : s.events[t].mode = ModeOf(t)
  /\ s.events["Vblank"].period = CyclesPerFrame
  /\ s.events["Spu"].period = SpuPeriod
  /\ \A t \in OnceTypes : Single(s.list, t)
  /\ \A t \in Types(s.list) \ {"Idle"} : s.next <= s.events[t].target
  /\ s.events["Spu"].target <= s.next + SpuPeriod
  /\ s.events["Spu"].target <= 2 * SpuPeriod

IInv == TypeOK /\ Consistent(sched) /\ pc # "crashed"

-----------------------------------------------------------------------------
\* The front of a consistent list is an event with the least target; Idle
\* never gets there, as Spu is always queued.
LEMMA FrontFacts ==
  ASSUME NEW list \in Seq(EventType), NEW events \in [EventType -> Event],
         InOrder(list, events), {"Idle", "Vblank", "Spu"} \subseteq Types(list)
  PROVE  /\ list # << >>
         /\ Head(list) = list[1]
         /\ list[1] \in Types(list)
         /\ list[1] \in EventType \ {"Idle"}
         /\ \A t \in Types(list) \ {"Idle"} : events[list[1]].target <= events[t].target
PROOF
  <1>1. \A t \in Types(list) : \E i \in DOMAIN list : i \in Nat \ {0} /\ list[i] = t
    BY DEF Types
  <1>2. PICK k \in DOMAIN list : k \in Nat \ {0} /\ list[k] = "Spu"
    BY <1>1
  <1>3. list # << >> /\ 1 \in DOMAIN list /\ list[1] \in EventType
    BY <1>2
  <1>4. \A i \in DOMAIN list : i # 1 => ~Earlier(events, list[i], list[1])
    BY <1>3 DEF InOrder
  <1>5. list[1] # "Idle"
    BY <1>2, <1>4 DEF Earlier
  <1>6. list[1] \in Types(list)
    BY <1>3 DEF Types
  <1>7. \A t \in EventType : events[t].target \in Int
    BY DEF Event
  <1>8. ASSUME NEW t \in Types(list) \ {"Idle"}
        PROVE  events[list[1]].target <= events[t].target
    <2>1. PICK i \in DOMAIN list : list[i] = t
      BY <1>1, <1>8
    <2>2. t \in EventType
      BY <2>1
    <2> QED BY <1>3, <1>4, <1>5, <1>7, <2>1, <2>2 DEF Earlier
  <1> QED BY <1>3, <1>5, <1>6, <1>8

\* The same of a consistent scheduler, with the types of its parts.
LEMMA ConsistentFacts ==
  ASSUME NEW s, Consistent(s)
  PROVE  /\ s \in SchedulerState
         /\ s.list \in Seq(EventType) /\ s.events \in [EventType -> Event] /\ s.next \in Int
         /\ \A t \in EventType : s.events[t].target \in Int
         /\ s.list # << >> /\ Head(s.list) = s.list[1]
         /\ s.list[1] \in Types(s.list) /\ s.list[1] \in EventType \ {"Idle"}
         /\ Types(s.list) \subseteq EventType
         /\ \A t \in Types(s.list) \ {"Idle"} :
              s.events[s.list[1]].target <= s.events[t].target
PROOF
  <1>1. s.list \in Seq(EventType) /\ s.events \in [EventType -> Event] /\ s.next \in Int
    BY DEF Consistent, SchedulerState
  <1>2. \A t \in EventType : s.events[t].target \in Int
    BY <1>1 DEF Event
  <1>3. Types(s.list) \subseteq EventType
    BY <1>1 DEF Types
  <1>4. InOrder(s.list, s.events) /\ {"Idle", "Vblank", "Spu"} \subseteq Types(s.list)
    BY DEF Consistent
  <1> DEFINE list == s.list
             events == s.events
  <1>5. /\ list # << >> /\ Head(list) = list[1]
        /\ list[1] \in Types(list) /\ list[1] \in EventType \ {"Idle"}
        /\ \A t \in Types(list) \ {"Idle"} : events[list[1]].target <= events[t].target
    <2>1. /\ list \in Seq(EventType) /\ events \in [EventType -> Event]
          /\ InOrder(list, events) /\ {"Idle", "Vblank", "Spu"} \subseteq Types(list)
      BY <1>1, <1>4
    <2> HIDE DEF list, events
    <2> QED BY <2>1, FrontFacts
  <1> QED BY <1>1, <1>2, <1>3, <1>5 DEF Consistent

\* Time passing brings every target nearer by the same amount.
LEMMA TickConsistent ==
  ASSUME NEW s, Consistent(s), NEW n \in Nat
  PROVE  Consistent(Tick(s, n)) /\ Tick(s, n).list = s.list
PROOF
  <1> DEFINE r == Tick(s, n)
             aged == [t \in EventType |-> IF t \in Queued(s) \ {"Idle"}
                                          THEN [s.events[t] EXCEPT !.target = @ - n]
                                          ELSE s.events[t]]
  <1>1. /\ s.list \in Seq(EventType) /\ s.events \in [EventType -> Event] /\ s.next \in Int
        /\ s \in SchedulerState /\ \A t \in EventType : s.events[t].target \in Int
        /\ Types(s.list) \subseteq EventType
    BY ConsistentFacts
  <1>2. r = [list |-> s.list, events |-> aged, next |-> s.next - n]
    <2>1. r = [s EXCEPT !.events = aged, !.next = s.next - n]
      BY DEF Tick
    <2> HIDE DEF aged, r
    <2> QED BY <1>1, <2>1 DEF SchedulerState
  <1>3. \A t \in EventType :
          /\ aged[t] \in Event
          /\ aged[t].mode = s.events[t].mode /\ aged[t].period = s.events[t].period
          /\ t \in Types(s.list) \ {"Idle"} => aged[t].target = s.events[t].target - n
    <2> SUFFICES ASSUME NEW t \in EventType
                 PROVE  /\ aged[t] \in Event
                        /\ aged[t].mode = s.events[t].mode
                        /\ aged[t].period = s.events[t].period
                        /\ t \in Types(s.list) \ {"Idle"} =>
                             aged[t].target = s.events[t].target - n
      OBVIOUS
    <2>1. s.events[t] \in Event
      BY <1>1
    <2>2. \A v \in Event : /\ [v EXCEPT !.target = @ - n] \in Event
                           /\ [v EXCEPT !.target = @ - n].mode = v.mode
                           /\ [v EXCEPT !.target = @ - n].period = v.period
                           /\ [v EXCEPT !.target = @ - n].target = v.target - n
      BY DEF Event
    <2>3. Queued(s) = Types(s.list)
      BY DEF Queued, Types
    <2> QED BY <2>1, <2>2, <2>3
  <1>4. aged \in [EventType -> Event]
    BY <1>3
  <1> HIDE DEF aged
  <1>5. InOrder(s.list, aged)
    <2> SUFFICES ASSUME NEW i \in DOMAIN s.list, NEW j \in DOMAIN s.list, i < j
                 PROVE  ~Earlier(aged, s.list[j], s.list[i])
      BY DEF InOrder
    <2>1. ~Earlier(s.events, s.list[j], s.list[i])
      BY DEF Consistent, InOrder
    <2>2. /\ s.list[i] \in Types(s.list) /\ s.list[j] \in Types(s.list)
          /\ s.list[i] \in EventType /\ s.list[j] \in EventType
      BY <1>1 DEF Types
    <2>3. CASE s.list[i] = "Idle" \/ s.list[j] = "Idle"
      BY <2>1, <2>3 DEF Earlier
    <2>4. CASE s.list[i] # "Idle" /\ s.list[j] # "Idle"
      <3>1. /\ aged[s.list[i]].target = s.events[s.list[i]].target - n
            /\ aged[s.list[j]].target = s.events[s.list[j]].target - n
        BY <1>3, <2>2, <2>4
      <3>2. ~(s.events[s.list[j]].target < s.events[s.list[i]].target)
        BY <2>1, <2>4 DEF Earlier
      <3>3. s.events[s.list[i]].target \in Int /\ s.events[s.list[j]].target \in Int
        BY <1>1, <2>2
      <3>4. ~(aged[s.list[j]].target < aged[s.list[i]].target)
        BY <3>1, <3>2, <3>3
      <3> QED BY <2>4, <3>4 DEF Earlier
    <2> QED BY <2>3, <2>4
  <1>6. r \in SchedulerState
    BY <1>1, <1>2, <1>4 DEF SchedulerState
  <1>7. "Spu" \in Types(s.list) /\ "Spu" \in EventType /\ "Vblank" \in EventType
    BY DEF Consistent, EventType
  <1>8. /\ aged["Vblank"].period = CyclesPerFrame /\ aged["Spu"].period = SpuPeriod
        /\ \A t \in Types(s.list) : aged[t].mode = ModeOf(t)
    BY <1>1, <1>3, <1>7 DEF Consistent
  <1>9. /\ \A t \in Types(s.list) \ {"Idle"} : s.next - n <= aged[t].target
        /\ aged["Spu"].target <= (s.next - n) + SpuPeriod
        /\ aged["Spu"].target <= 2 * SpuPeriod
    <2>1. SpuPeriod \in Nat
      BY EmulatorAssumption
    <2>2. /\ \A t \in Types(s.list) \ {"Idle"} : s.next <= s.events[t].target
          /\ s.events["Spu"].target <= s.next + SpuPeriod
          /\ s.events["Spu"].target <= 2 * SpuPeriod
      BY DEF Consistent
    <2>3. \A t \in Types(s.list) \ {"Idle"} :
            aged[t].target = s.events[t].target - n /\ s.events[t].target \in Int
      BY <1>1, <1>3
    <2>4. aged["Spu"].target = s.events["Spu"].target - n /\ s.events["Spu"].target \in Int
      BY <1>7, <2>3
    <2>5. \A t \in Types(s.list) \ {"Idle"} : s.next - n <= aged[t].target
      BY <1>1, <2>2, <2>3
    <2>6. aged["Spu"].target <= (s.next - n) + SpuPeriod
      BY <1>1, <2>1, <2>2, <2>4
    <2>7. aged["Spu"].target <= 2 * SpuPeriod
      BY <2>1, <2>2, <2>4
    <2> QED BY <2>5, <2>6, <2>7
  <1>10. /\ {"Idle", "Vblank", "Spu"} \subseteq Types(s.list)
         /\ \A t \in OnceTypes : Single(s.list, t)
    BY DEF Consistent
  <1> QED BY <1>2, <1>5, <1>6, <1>8, <1>9, <1>10 DEF Consistent

\* A device's event is queued no nearer than a Spu period, so that it does not
\* get in front of the event that is being fired.
LEMMA AddEventConsistent ==
  ASSUME NEW s, Consistent(s), NEW type \in EventType \ {"Idle", "Vblank", "Spu"},
         NEW d \in Nat, d >= SpuPeriod,
         type \in OnceTypes => type \notin Types(s.list),
         NEW r, r = AddEvent(s, type, ModeOf(type), d)
  PROVE  /\ Consistent(r)
         /\ Types(r.list) = Types(s.list) \cup {type}
         /\ s.list[1] # type /\ s.events[s.list[1]].target <= d => r.list[1] = s.list[1]
         /\ \A t \in EventType \ {type} :
              Cardinality(Places(r.list, t)) = Cardinality(Places(s.list, t))
PROOF
  <1>1. /\ s \in SchedulerState
        /\ s.list \in Seq(EventType) /\ s.events \in [EventType -> Event] /\ s.next \in Int
        /\ \A t \in EventType : s.events[t].target \in Int
        /\ s.list # << >> /\ s.list[1] \in Types(s.list)
        /\ s.list[1] \in EventType \ {"Idle"} /\ Types(s.list) \subseteq EventType
        /\ \A t \in Types(s.list) \ {"Idle"} :
             s.events[s.list[1]].target <= s.events[t].target
    BY ConsistentFacts
  <1>2. ModeOf(type) \in Mode /\ type \in EventType
    BY DEF ModeOf, Mode
  <1>3. /\ r \in SchedulerState
        /\ r.list # << >>
        /\ Types(r.list) = Types(s.list) \cup {type}
        /\ InOrder(r.list, r.events)
        /\ \A t \in EventType \ {type} : r.events[t] = s.events[t]
        /\ r.events[type].mode = ModeOf(type) /\ r.events[type].target = d
        /\ r.next = r.events[r.list[1]].target
        /\ r.list[1] = s.list[1] \/ Earlier(r.events, r.list[1], s.list[1])
        /\ \A t \in EventType \ {type} : Single(s.list, t) => Single(r.list, t)
        /\ type \notin Types(s.list) => Single(r.list, type)
    <2> DEFINE mode == ModeOf(type)
    <2>1. /\ s \in SchedulerState /\ type \in EventType /\ mode \in Mode /\ d \in Nat
          /\ r = AddEvent(s, type, mode, d) /\ s.list # << >>
      BY <1>1, <1>2
    <2> HIDE DEF mode
    <2>2. r \in SchedulerState
      BY <2>1, AddEventType
    <2>3. /\ r.list # << >>
          /\ Types(r.list) = Types(s.list) \cup {type}
          /\ InOrder(r.list, r.events)
      BY <2>1, AddEventFacts
    <2>4. \A t \in EventType \ {type} : r.events[t] = s.events[t]
      BY <2>1, AddEventFacts
    <2>5. /\ r.events[type].mode = mode /\ r.events[type].target = d
          /\ r.next = r.events[r.list[1]].target
          /\ r.list[1] = s.list[1] \/ Earlier(r.events, r.list[1], s.list[1])
      BY <2>1, AddEventFacts
    <2>6. /\ \A t \in EventType \ {type} : Single(s.list, t) => Single(r.list, t)
          /\ type \notin Types(s.list) => Single(r.list, type)
      BY <2>1, AddEventFacts
    <2> QED BY <2>2, <2>3, <2>4, <2>5, <2>6 DEF mode
  <1>4. /\ \A t \in EventType \ {type} : r.events[t] = s.events[t]
        /\ r.events[type].target = d /\ r.events[type].mode = ModeOf(type)
    BY <1>1, <1>3
  <1>5. SpuPeriod \in Nat
    BY EmulatorAssumption
  <1>6. "Spu" \in EventType \ {type} /\ "Vblank" \in EventType \ {type}
    BY DEF EventType
  <1>7. /\ {"Idle", "Vblank", "Spu"} \subseteq Types(s.list)
        /\ \A t \in Types(s.list) : s.events[t].mode = ModeOf(t)
        /\ s.events["Vblank"].period = CyclesPerFrame
        /\ s.events["Spu"].period = SpuPeriod
        /\ \A t \in OnceTypes : Single(s.list, t)
        /\ \A t \in Types(s.list) \ {"Idle"} : s.next <= s.events[t].target
        /\ s.events["Spu"].target <= s.next + SpuPeriod
        /\ s.events["Spu"].target <= 2 * SpuPeriod
        /\ InOrder(s.list, s.events)
    BY DEF Consistent
  <1>8. /\ r.list[1] \in Types(r.list) /\ r.list[1] \in EventType \ {"Idle"}
        /\ \A t \in Types(r.list) \ {"Idle"} : r.next <= r.events[t].target
    <2> DEFINE list == r.list
               events == r.events
    <2>1. /\ list \in Seq(EventType) /\ events \in [EventType -> Event]
          /\ InOrder(list, events) /\ {"Idle", "Vblank", "Spu"} \subseteq Types(list)
          /\ r.next = events[list[1]].target
      BY <1>3, <1>7 DEF SchedulerState
    <2> HIDE DEF list, events
    <2>2. /\ list[1] \in Types(list) /\ list[1] \in EventType \ {"Idle"}
          /\ \A t \in Types(list) \ {"Idle"} : r.next <= events[t].target
      BY <2>1, FrontFacts
    <2> QED BY <2>2 DEF list, events
  <1>9. r.events["Spu"].target = s.events["Spu"].target
    BY <1>4, <1>6
  <1>10. r.events["Spu"].target <= r.next + SpuPeriod
    <2>1. CASE r.list[1] = type
      BY <2>1, <1>1, <1>3, <1>4, <1>5, <1>6, <1>7, <1>9
    <2>2. CASE r.list[1] # type
      <3>1. r.list[1] \in Types(s.list) \ {"Idle"} /\ r.next = s.events[r.list[1]].target
        BY <2>2, <1>3, <1>4, <1>8
      <3>2. s.next <= r.next /\ r.next \in Int
        BY <3>1, <1>1, <1>7
      <3> QED BY <3>2, <1>1, <1>5, <1>6, <1>7, <1>9
    <2> QED BY <2>1, <2>2
  <1>11. Consistent(r)
    <2>1. \A t \in Types(r.list) : r.events[t].mode = ModeOf(t)
      BY <1>1, <1>3, <1>4, <1>7
    <2>2. r.events["Vblank"].period = CyclesPerFrame /\ r.events["Spu"].period = SpuPeriod
      BY <1>4, <1>6, <1>7
    <2>3. \A t \in OnceTypes : Single(r.list, t)
      BY <1>3, <1>7 DEF OnceTypes, EventType
    <2> QED BY <1>3, <1>7, <1>8, <1>9, <1>10, <2>1, <2>2, <2>3 DEF Consistent
  <1>12. ASSUME s.list[1] # type, s.events[s.list[1]].target <= d
         PROVE  r.list[1] = s.list[1]
    <2> SUFFICES ASSUME Earlier(r.events, r.list[1], s.list[1])
                 PROVE  FALSE
      BY <1>3
    <2>1. r.events[s.list[1]].target = s.events[s.list[1]].target
      BY <1>1, <1>4, <1>12
    <2>2. r.events[r.list[1]].target < s.events[s.list[1]].target
      BY <2>1, <1>1, <1>8 DEF Earlier
    <2>4. CASE r.list[1] = type
      BY <2>2, <2>4, <1>1, <1>4, <1>12
    <2>5. CASE r.list[1] # type
      <3>1. r.list[1] \in Types(s.list) \ {"Idle"} /\ r.list[1] \in EventType
        BY <2>5, <1>3, <1>8
      <3>2. r.events[r.list[1]].target = s.events[r.list[1]].target
        BY <2>5, <3>1, <1>4
      <3> QED BY <3>1, <3>2, <2>2, <1>1
    <2> QED BY <2>4, <2>5
  <1>13. \A t \in EventType \ {type} :
           Cardinality(Places(r.list, t)) = Cardinality(Places(s.list, t))
    <2> DEFINE mode == ModeOf(type)
    <2>1. /\ s \in SchedulerState /\ type \in EventType /\ mode \in Mode /\ d \in Nat
          /\ r = AddEvent(s, type, mode, d)
      BY <1>1, <1>2
    <2> HIDE DEF mode
    <2> QED BY <2>1, AddEventFacts
  <1> QED BY <1>3, <1>11, <1>12, <1>13

\* Ending the stream of sectors keeps the scheduler consistent.
LEMMA RemoveConsistent ==
  ASSUME NEW s, Consistent(s), s.list[1] # "CdSector",
         NEW r, r = RemoveEvent(s, "CdSector")
  PROVE  /\ Consistent(r)
         /\ Types(r.list) = Types(s.list) \ {"CdSector"}
         /\ r.list[1] = s.list[1] /\ r.events[r.list[1]] = s.events[s.list[1]]
PROOF
  <1>1. /\ s \in SchedulerState /\ s.next \in Int
        /\ \A t \in EventType : s.events[t].target \in Int
        /\ s.list # << >> /\ s.list[1] \in Types(s.list)
        /\ s.list[1] \in EventType \ {"Idle"} /\ Types(s.list) \subseteq EventType
        /\ \A t \in Types(s.list) \ {"Idle"} :
             s.events[s.list[1]].target <= s.events[t].target
    BY ConsistentFacts
  <1>2. /\ {"Idle", "Vblank", "Spu"} \subseteq Types(s.list)
        /\ \A t \in Types(s.list) : s.events[t].mode = ModeOf(t)
        /\ s.events["Vblank"].period = CyclesPerFrame
        /\ s.events["Spu"].period = SpuPeriod
        /\ \A t \in OnceTypes : Single(s.list, t)
        /\ \A t \in Types(s.list) \ {"Idle"} : s.next <= s.events[t].target
        /\ s.events["Spu"].target <= s.next + SpuPeriod
        /\ s.events["Spu"].target <= 2 * SpuPeriod
        /\ InOrder(s.list, s.events)
    BY DEF Consistent
  <1>3. "CdSector" \in EventType
    BY DEF EventType
  <1>4. /\ r \in SchedulerState
        /\ Types(r.list) = Types(s.list) \ {"CdSector"}
        /\ InOrder(r.list, r.events)
        /\ \A t \in EventType \ {"CdSector"} : r.events[t] = s.events[t]
        /\ r.next = r.events[r.list[1]].target
        /\ r.list[1] = s.list[1]
        /\ \A t \in EventType : Single(s.list, t) => Single(r.list, t)
    <2>1. /\ s \in SchedulerState /\ s.list # << >> /\ s.list[1] # "CdSector"
          /\ "CdSector" \in EventType /\ InOrder(s.list, s.events)
          /\ r = RemoveEvent(s, "CdSector")
      BY <1>1, <1>2, <1>3
    <2>2. r \in SchedulerState
      BY <2>1, RemoveFacts
    <2>3. Types(r.list) = Types(s.list) \ {"CdSector"}
      BY <2>1, RemoveFacts
    <2>4. /\ InOrder(r.list, r.events)
          /\ \A t \in EventType : Single(s.list, t) => Single(r.list, t)
      BY <2>1, RemoveFacts
    <2>5. /\ \A t \in EventType \ {"CdSector"} : r.events[t] = s.events[t]
          /\ r.next = r.events[r.list[1]].target
          /\ r.list[1] = s.list[1]
      BY <2>1, RemoveFacts
    <2> QED BY <2>2, <2>3, <2>4, <2>5
  <1>5. r.next = s.events[s.list[1]].target
    BY <1>1, <1>4
  <1>6. "Spu" \in EventType \ {"CdSector"} /\ "Vblank" \in EventType \ {"CdSector"}
    BY DEF EventType
  <1>7. \A t \in Types(r.list) : r.events[t] = s.events[t]
    BY <1>1, <1>4
  <1>8. \A t \in Types(r.list) \ {"Idle"} : r.next <= r.events[t].target
    BY <1>1, <1>4, <1>5, <1>7
  <1>9. r.events["Spu"] = s.events["Spu"] /\ r.events["Vblank"] = s.events["Vblank"]
    BY <1>4, <1>6
  <1>10. r.events["Spu"].target <= r.next + SpuPeriod
    <2>1. s.next <= r.next /\ r.next \in Int /\ SpuPeriod \in Nat
      BY <1>1, <1>2, <1>5, EmulatorAssumption
    <2> QED BY <2>1, <1>1, <1>2, <1>6, <1>9
  <1>11. \A t \in OnceTypes : Single(r.list, t)
    BY <1>2, <1>4 DEF OnceTypes, EventType
  <1>12. \A t \in Types(r.list) : r.events[t].mode = ModeOf(t)
    BY <1>2, <1>4, <1>7
  <1>13. {"Idle", "Vblank", "Spu"} \subseteq Types(r.list)
    BY <1>2, <1>4
  <1>14. r.events[r.list[1]] = s.events[s.list[1]]
    BY <1>1, <1>4
  <1> QED BY <1>2, <1>4, <1>14, <1>8, <1>9, <1>10, <1>11, <1>12, <1>13 DEF Consistent

\* An event that is not Spu may be moved away at any time; Spu is moved by its
\* period when it fires, and fires no more than a period early.
LEMMA RescheduleConsistent ==
  ASSUME NEW s, Consistent(s), NEW type \in {"Vblank", "Spu", "CdSector"},
         type \in Types(s.list), NEW d \in Nat,
         type = "Spu" => s.next <= 0 /\ s.list[1] = "Spu" /\ d = SpuPeriod,
         NEW r, r = RescheduleEvent(s, type, d)
  PROVE  /\ Consistent(r)
         /\ Types(r.list) = Types(s.list)
         /\ \A t \in EventType : Cardinality(Places(r.list, t)) = Cardinality(Places(s.list, t))
PROOF
  <1>1. /\ s \in SchedulerState /\ s.next \in Int /\ s.events \in [EventType -> Event]
        /\ \A t \in EventType : s.events[t].target \in Int
        /\ s.list # << >> /\ s.list[1] \in Types(s.list)
        /\ s.list[1] \in EventType \ {"Idle"} /\ Types(s.list) \subseteq EventType
        /\ \A t \in Types(s.list) \ {"Idle"} :
             s.events[s.list[1]].target <= s.events[t].target
    BY ConsistentFacts
  <1>2. /\ {"Idle", "Vblank", "Spu"} \subseteq Types(s.list)
        /\ \A t \in Types(s.list) : s.events[t].mode = ModeOf(t)
        /\ s.events["Vblank"].period = CyclesPerFrame
        /\ s.events["Spu"].period = SpuPeriod
        /\ \A t \in OnceTypes : Single(s.list, t)
        /\ \A t \in Types(s.list) \ {"Idle"} : s.next <= s.events[t].target
        /\ s.events["Spu"].target <= s.next + SpuPeriod
        /\ s.events["Spu"].target <= 2 * SpuPeriod
    BY DEF Consistent
  <1>3. type \in EventType /\ type # "Idle" /\ "Spu" \in EventType /\ d \in Int
    BY DEF EventType
  <1>4. /\ r \in SchedulerState
        /\ Types(r.list) = Types(s.list)
        /\ InOrder(r.list, r.events)
        /\ \A t \in EventType \ {type} : r.events[t] = s.events[t]
        /\ r.events[type].mode = s.events[type].mode
        /\ r.events[type].period = s.events[type].period
        /\ r.events[type].target = s.events[type].target + d
        /\ r.next = r.events[r.list[1]].target
        /\ \A t \in EventType : Single(s.list, t) => Single(r.list, t)
        /\ \A t \in EventType : Cardinality(Places(r.list, t)) = Cardinality(Places(s.list, t))
    <2>1. /\ s \in SchedulerState /\ s.list # << >> /\ type \in EventType /\ d \in Int
          /\ r = RescheduleEvent(s, type, d)
      BY <1>1, <1>3
    <2>2. r \in SchedulerState
      BY <2>1, RescheduleFacts
    <2>3. /\ Types(r.list) = Types(s.list)
          /\ InOrder(r.list, r.events)
          /\ \A t \in EventType : Single(s.list, t) => Single(r.list, t)
      BY <2>1, RescheduleFacts
    <2>4. \A t \in EventType \ {type} : r.events[t] = s.events[t]
      BY <2>1, RescheduleFacts
    <2>5. /\ r.events[type].mode = s.events[type].mode
          /\ r.events[type].period = s.events[type].period
          /\ r.events[type].target = s.events[type].target + d
          /\ r.next = r.events[r.list[1]].target
      BY <2>1, RescheduleFacts
    <2>6. ASSUME NEW t \in EventType
          PROVE  Cardinality(Places(r.list, t)) = Cardinality(Places(s.list, t))
      BY <2>1, RescheduleKeepsPlaces
    <2> QED BY <2>2, <2>3, <2>4, <2>5, <2>6
  <1>5. \A t \in EventType :
          /\ r.events[t].mode = s.events[t].mode /\ r.events[t].period = s.events[t].period
          /\ t # type => r.events[t].target = s.events[t].target
          /\ t = type => r.events[t].target = s.events[t].target + d
    BY <1>3, <1>4
  <1>6. /\ r.list[1] \in Types(r.list) /\ r.list[1] \in EventType \ {"Idle"}
        /\ \A t \in Types(r.list) \ {"Idle"} : r.next <= r.events[t].target
    <2> DEFINE list == r.list
               events == r.events
    <2>1. /\ list \in Seq(EventType) /\ events \in [EventType -> Event]
          /\ InOrder(list, events) /\ {"Idle", "Vblank", "Spu"} \subseteq Types(list)
          /\ r.next = events[list[1]].target
      BY <1>2, <1>4 DEF SchedulerState
    <2> HIDE DEF list, events
    <2>2. /\ list[1] \in Types(list) /\ list[1] \in EventType \ {"Idle"}
          /\ \A t \in Types(list) \ {"Idle"} : r.next <= events[t].target
      BY <2>1, FrontFacts
    <2> QED BY <2>2 DEF list, events
  <1>7. SpuPeriod \in Nat
    BY EmulatorAssumption
  <1>8. /\ r.list[1] \in Types(s.list) \ {"Idle"}
        /\ s.events[r.list[1]].target <= r.next /\ r.next \in Int
    BY <1>1, <1>4, <1>5, <1>6
  <1>9. /\ r.events["Spu"].target <= r.next + SpuPeriod
        /\ r.events["Spu"].target <= 2 * SpuPeriod
    <2>1. CASE type # "Spu"
      <3>1. r.events["Spu"].target = s.events["Spu"].target
        BY <2>1, <1>3, <1>5
      <3>2. s.next <= s.events[r.list[1]].target /\ s.events[r.list[1]].target \in Int
        BY <1>1, <1>2, <1>8
      <3>3. s.next <= r.next
        BY <3>2, <1>1, <1>8
      <3> QED BY <3>1, <3>3, <1>1, <1>2, <1>3, <1>7, <1>8
    <2>2. CASE type = "Spu"
      <3>1. r.events["Spu"].target = s.events["Spu"].target + SpuPeriod
        BY <2>2, <1>3, <1>5
      <3>2. s.events["Spu"].target <= r.next
        <4>1. s.events["Spu"].target <= s.events[r.list[1]].target
          BY <2>2, <1>1, <1>8
        <4>2. s.events["Spu"].target \in Int /\ s.events[r.list[1]].target \in Int
          BY <1>1, <1>3, <1>8
        <4> QED BY <4>1, <4>2, <1>8
      <3>3. s.events["Spu"].target <= SpuPeriod
        BY <2>2, <1>1, <1>2, <1>3, <1>7
      <3> QED BY <3>1, <3>2, <3>3, <1>1, <1>3, <1>7, <1>8
    <2> QED BY <2>1, <2>2
  <1>10. \A t \in OnceTypes : Single(r.list, t)
    BY <1>2, <1>4 DEF OnceTypes, EventType
  <1>11. \A t \in Types(r.list) : r.events[t].mode = ModeOf(t)
    BY <1>1, <1>2, <1>4, <1>5
  <1>12. r.events["Vblank"].period = CyclesPerFrame /\ r.events["Spu"].period = SpuPeriod
    BY <1>2, <1>5 DEF EventType
  <1> QED BY <1>2, <1>4, <1>6, <1>9, <1>10, <1>11, <1>12 DEF Consistent

\* Popping the Once event that fired, and only that, keeps the rest.
LEMMA PopConsistent ==
  ASSUME NEW s, Consistent(s), s.list[1] \in OnceTypes,
         NEW r, r = PopFront(s)
  PROVE  /\ Consistent(r)
         /\ Types(r.list) = Types(s.list) \ {s.list[1]}
PROOF
  <1>1. /\ s \in SchedulerState /\ s.list # << >> /\ Types(s.list) \subseteq EventType
        /\ s.list[1] \in EventType
    BY ConsistentFacts
  <1>2. /\ InOrder(s.list, s.events)
        /\ {"Idle", "Vblank", "Spu"} \subseteq Types(s.list)
        /\ \A t \in Types(s.list) : s.events[t].mode = ModeOf(t)
        /\ s.events["Vblank"].period = CyclesPerFrame
        /\ s.events["Spu"].period = SpuPeriod
        /\ \A t \in OnceTypes : Single(s.list, t)
        /\ \A t \in Types(s.list) \ {"Idle"} : s.next <= s.events[t].target
        /\ s.events["Spu"].target <= s.next + SpuPeriod
        /\ s.events["Spu"].target <= 2 * SpuPeriod
    BY DEF Consistent
  <1>3. /\ r \in SchedulerState
        /\ Types(r.list) = Types(s.list) \ {s.list[1]}
        /\ InOrder(r.list, r.events)
        /\ \A t \in EventType \ {s.list[1]} : r.events[t] = s.events[t]
        /\ r.next = s.next
        /\ \A t \in EventType : Single(s.list, t) => Single(r.list, t)
    BY <1>1, <1>2, PopFacts
  <1>4. \A t \in Types(r.list) : r.events[t] = s.events[t]
    BY <1>1, <1>3
  <1>5. {"Idle", "Vblank", "Spu"} \subseteq Types(r.list)
    BY <1>2, <1>3 DEF OnceTypes
  <1>6. r.events["Spu"] = s.events["Spu"] /\ r.events["Vblank"] = s.events["Vblank"]
    BY <1>4, <1>5
  <1>7. \A t \in OnceTypes : Single(r.list, t)
    BY <1>2, <1>3 DEF OnceTypes, EventType
  <1>8. \A t \in Types(r.list) : r.events[t].mode = ModeOf(t)
    BY <1>2, <1>3, <1>4
  <1>9. \A t \in Types(r.list) \ {"Idle"} : r.next <= r.events[t].target
    BY <1>2, <1>3, <1>4
  <1> QED BY <1>2, <1>3, <1>5, <1>6, <1>7, <1>8, <1>9 DEF Consistent

-----------------------------------------------------------------------------
\* Which Once events leave the scheduler from s to r.
OnlyLeaves(s, r, gone) ==
  \A t \in OnceTypes \cap Types(s.list) : t \notin Types(r.list) <=> t \in gone

\* UpdateEvents pops a Once event that is still at the front.
LEMMA AfterOnce ==
  ASSUME NEW s, Consistent(s), NEW type \in OnceTypes, s.list[1] = type,
         NEW r, r = AfterCallback(s, type)
  PROVE  /\ Consistent(r) /\ OnlyLeaves(s, r, {type})
         /\ Types(r.list) = Types(s.list) \ {type}
PROOF
  <1>1. s.list[1] \in Types(s.list)
    BY ConsistentFacts
  <1>2. s.events[type].mode = "Once"
    BY <1>1 DEF Consistent, ModeOf, OnceTypes
  <1>3. r = PopFront(s)
    BY <1>2 DEF AfterCallback
  <1>4. Consistent(r) /\ Types(r.list) = Types(s.list) \ {type}
    BY <1>3, PopConsistent
  <1> QED BY <1>4 DEF OnlyLeaves

\* ... and reschedules a periodic one by its period.
LEMMA AfterPeriodic ==
  ASSUME NEW s, Consistent(s), NEW type \in {"Vblank", "Spu"},
         s.next <= 0, s.list[1] = type,
         NEW r, r = AfterCallback(s, type)
  PROVE  /\ Consistent(r) /\ OnlyLeaves(s, r, {})
         /\ Types(r.list) = Types(s.list)
         /\ \A t \in EventType : Cardinality(Places(r.list, t)) = Cardinality(Places(s.list, t))
PROOF
  <1> DEFINE d == s.events[type].period
  <1>1. s.list[1] \in Types(s.list) /\ s.events \in [EventType -> Event]
    BY ConsistentFacts
  <1>2. s.events[type].mode = "Periodic"
    BY <1>1 DEF Consistent, ModeOf
  <1>3. r = RescheduleEvent(s, type, d)
    BY <1>2 DEF AfterCallback
  <1>4. d \in Nat /\ (type = "Spu" => d = SpuPeriod)
    BY <1>1 DEF Event, EventType, Consistent
  <1> HIDE DEF d
  <1>5. /\ Consistent(r) /\ Types(r.list) = Types(s.list)
        /\ \A t \in EventType : Cardinality(Places(r.list, t)) = Cardinality(Places(s.list, t))
    BY <1>1, <1>3, <1>4, RescheduleConsistent
  <1> QED BY <1>5 DEF OnlyLeaves

\* The callback of a stream of sectors moves its own event, and it stays there.
LEMMA AfterSector ==
  ASSUME NEW s, Consistent(s), "CdSector" \in Types(s.list), NEW d \in Nat,
         NEW r, r = AfterCallback(RescheduleEvent(s, "CdSector", d), "CdSector")
  PROVE  /\ Consistent(r) /\ OnlyLeaves(s, r, {})
         /\ Types(r.list) = Types(s.list)
         /\ Cardinality(Places(r.list, "CdSector")) = Cardinality(Places(s.list, "CdSector"))
PROOF
  <1> DEFINE type == "CdSector"
             u == RescheduleEvent(s, type, d)
  <1>1. /\ type \in {"Vblank", "Spu", "CdSector"} /\ type # "Spu"
        /\ type \in Types(s.list) /\ ModeOf(type) = "Manual"
    BY DEF ModeOf
  <1>2. r = AfterCallback(u, type)
    OBVIOUS
  <1> HIDE DEF type
  <1>3. /\ Consistent(u) /\ Types(u.list) = Types(s.list)
        /\ \A t \in EventType : Cardinality(Places(u.list, t)) = Cardinality(Places(s.list, t))
    BY <1>1, RescheduleConsistent
  <1> HIDE DEF u
  <1>4. u.events[type].mode = "Manual"
    BY <1>1, <1>3 DEF Consistent
  <1>5. r = u
    BY <1>2, <1>4 DEF AfterCallback
  <1>6. "CdSector" \in EventType
    BY DEF EventType
  <1> QED BY <1>3, <1>5, <1>6 DEF OnlyLeaves

\* StopReading leaves the Once events and the front alone.
LEMMA StopReadingFacts ==
  ASSUME NEW s, Consistent(s), s.list[1] # "CdSector",
         NEW r, r = StopReading(s)
  PROVE  /\ Consistent(r) /\ OnlyLeaves(s, r, {})
         /\ Types(r.list) = Types(s.list) \ {"CdSector"}
         /\ r.list[1] = s.list[1] /\ r.events[r.list[1]] = s.events[s.list[1]]
PROOF
  <1>1. CASE r = s /\ "CdSector" \notin Types(s.list)
    BY <1>1 DEF OnlyLeaves
  <1>2. CASE r = RemoveEvent(s, "CdSector")
    <2>1. /\ Consistent(r)
          /\ Types(r.list) = Types(s.list) \ {"CdSector"}
          /\ r.list[1] = s.list[1] /\ r.events[r.list[1]] = s.events[s.list[1]]
      BY <1>2, RemoveConsistent
    <2> QED BY <2>1 DEF OnlyLeaves, OnceTypes
  <1>3. Queued(s) = Types(s.list)
    BY DEF Queued, Types
  <1> QED BY <1>1, <1>2, <1>3 DEF StopReading

\* The event that fires, early as it may be, is due within a Spu period.
LEMMA FiringTarget ==
  ASSUME NEW s, Consistent(s), s.next <= 0
  PROVE  s.events[s.list[1]].target <= SpuPeriod
PROOF
  <1>1. /\ s.next \in Int /\ SpuPeriod \in Nat /\ "Spu" \in EventType
        /\ \A t \in EventType : s.events[t].target \in Int
        /\ s.list[1] \in EventType \ {"Idle"}
        /\ \A t \in Types(s.list) \ {"Idle"} :
             s.events[s.list[1]].target <= s.events[t].target
    BY ConsistentFacts, EmulatorAssumption DEF EventType
  <1>2. "Spu" \in Types(s.list) /\ s.events["Spu"].target <= s.next + SpuPeriod
    BY DEF Consistent
  <1> QED BY <1>1, <1>2

\* Queueing a second response leaves the event that fires at the front.
LEMMA SecondResponseFacts ==
  ASSUME NEW s, Consistent(s), s.list[1] = "CdCommand",
         s.events[s.list[1]].target <= SpuPeriod,
         "CdCommand2" \notin Types(s.list), NEW d \in Nat, d >= SpuPeriod,
         NEW r, r = AddEvent(s, "CdCommand2", "Once", d)
  PROVE  /\ Consistent(r) /\ OnlyLeaves(s, r, {}) /\ r.list[1] = "CdCommand"
         /\ Types(r.list) = Types(s.list) \cup {"CdCommand2"}
PROOF
  <1> DEFINE type == "CdCommand2"
  <1>1. /\ type \in EventType \ {"Idle", "Vblank", "Spu"} /\ type \notin Types(s.list)
        /\ ModeOf(type) = "Once" /\ s.list[1] # type
    BY DEF EventType, ModeOf
  <1>2. r = AddEvent(s, type, ModeOf(type), d)
    BY <1>1
  <1>3. s.events[s.list[1]].target <= d
    <2>1. s.events[s.list[1]].target \in Int /\ SpuPeriod \in Nat
      BY ConsistentFacts, EmulatorAssumption
    <2> QED BY <2>1
  <1> HIDE DEF type
  <1>4. /\ Consistent(r)
        /\ Types(r.list) = Types(s.list) \cup {type}
        /\ s.list[1] # type /\ s.events[s.list[1]].target <= d => r.list[1] = s.list[1]
    BY <1>1, <1>2, AddEventConsistent
  <1> QED BY <1>1, <1>3, <1>4 DEF OnlyLeaves, type

\* Whatever ExecuteCommand asks of the scheduler, the command that fires stays
\* at the front until UpdateEvents pops it.
LEMMA CommandFacts ==
  ASSUME NEW s, Consistent(s), s.next <= 0, s.list[1] = "CdCommand",
         NEW r \in CommandOutcomes(s)
  PROVE  Consistent(r) /\ OnlyLeaves(s, r, {}) /\ r.list[1] = "CdCommand"
PROOF
  <1>1. /\ Delays \subseteq Nat /\ \A d \in Delays : d >= SpuPeriod
        /\ SpuPeriod \in Nat /\ s.events[s.list[1]].target \in Int
        /\ s.events[s.list[1]].target <= SpuPeriod
        /\ Queued(s) = Types(s.list)
    BY EmulatorAssumption, ConsistentFacts, FiringTarget DEF Queued, Types
  <1>2. CASE r = s
    BY <1>2 DEF OnlyLeaves
  <1>3. ASSUME NEW d \in SectorDelays, r = AddEvent(s, "CdSector", "Manual", d)
        PROVE  Consistent(r) /\ OnlyLeaves(s, r, {}) /\ r.list[1] = "CdCommand"
    <2> DEFINE type == "CdSector"
    <2>1. /\ type \in EventType \ {"Idle", "Vblank", "Spu"} /\ type \notin OnceTypes
          /\ ModeOf(type) = "Manual" /\ s.list[1] # type
      BY DEF EventType, OnceTypes, ModeOf
    <2>2. d \in Nat /\ d >= SpuPeriod /\ s.events[s.list[1]].target <= d
      BY <1>1 DEF Delays
    <2>3. r = AddEvent(s, type, ModeOf(type), d)
      BY <1>3, <2>1
    <2> HIDE DEF type
    <2>4. /\ Consistent(r)
          /\ Types(r.list) = Types(s.list) \cup {type}
          /\ s.list[1] # type /\ s.events[s.list[1]].target <= d => r.list[1] = s.list[1]
      BY <2>1, <2>2, <2>3, AddEventConsistent
    <2> QED BY <2>1, <2>2, <2>4 DEF OnlyLeaves
  <1>4. ASSUME NEW d \in SecondDelays, "CdCommand2" \notin Queued(s),
               NEW u, u = AddEvent(s, "CdCommand2", "Once", d)
        PROVE  Consistent(u) /\ OnlyLeaves(s, u, {}) /\ u.list[1] = "CdCommand"
    BY <1>1, <1>4, SecondResponseFacts DEF Delays
  <1>5. ASSUME NEW d \in SecondDelays, "CdCommand2" \notin Queued(s),
               NEW u, u = AddEvent(s, "CdCommand2", "Once", d), r = StopReading(u)
        PROVE  Consistent(r) /\ OnlyLeaves(s, r, {}) /\ r.list[1] = "CdCommand"
    <2>1. Consistent(u) /\ OnlyLeaves(s, u, {}) /\ u.list[1] = "CdCommand"
      BY <1>4, <1>5
    <2>2. Consistent(r) /\ OnlyLeaves(u, r, {}) /\ r.list[1] = "CdCommand"
      BY <1>5, <2>1, StopReadingFacts
    <2> QED BY <2>1, <2>2 DEF OnlyLeaves
  <1>6. ASSUME NEW d \in SecondDelays, "CdCommand2" \notin Queued(s),
               NEW u, u = StopReading(s), r = AddEvent(u, "CdCommand2", "Once", d)
        PROVE  Consistent(r) /\ OnlyLeaves(s, r, {}) /\ r.list[1] = "CdCommand"
    <2>1. Consistent(u) /\ OnlyLeaves(s, u, {}) /\ u.list[1] = "CdCommand"
      BY <1>6, StopReadingFacts
    <2>2. /\ "CdCommand2" \notin Types(u.list)
          /\ u.events[u.list[1]].target <= SpuPeriod
      BY <1>1, <1>6, StopReadingFacts
    <2>3. d \in Nat /\ d >= SpuPeriod
      BY <1>1 DEF Delays
    <2>4. Consistent(r) /\ OnlyLeaves(u, r, {}) /\ r.list[1] = "CdCommand"
      BY <1>6, <2>1, <2>2, <2>3, SecondResponseFacts
    <2> QED BY <2>1, <2>4 DEF OnlyLeaves
  <1> QED BY <1>2, <1>3, <1>4, <1>5, <1>6 DEF CommandOutcomes

-----------------------------------------------------------------------------
\* The scheduler the Emulator's constructor leaves is consistent.
LEMMA BootConsistent ==
  /\ Consistent(BootScheduler(CyclesPerFrame, SpuPeriod))
  /\ Types(BootScheduler(CyclesPerFrame, SpuPeriod).list) = {"Idle", "Vblank", "Spu"}
PROOF
  <1> DEFINE idle == IdleScheduler
             once == AddEvent(idle, "Vblank", "Periodic", CyclesPerFrame)
             boot == AddEvent(once, "Spu", "Periodic", SpuPeriod)
  <1>1. CyclesPerFrame \in Nat \ {0} /\ SpuPeriod \in Nat \ {0}
    BY EmulatorAssumption
  <1>2. "Idle" \in EventType /\ "Vblank" \in EventType /\ "Spu" \in EventType
    BY DEF EventType
  <1>3. "Periodic" \in Mode /\ "Once" \in Mode
    BY DEF Mode
  <1>4. /\ idle \in SchedulerState /\ idle.list = <<"Idle">>
        /\ idle.events["Idle"].mode = "Once"
    <2>1. idle.events \in [EventType -> Event]
      BY <1>3, HorizonAssumption DEF IdleScheduler, Event, Dormant
    <2>2. <<"Idle">> \in Seq(EventType)
      BY <1>2
    <2> DEFINE events == idle.events
    <2>3. idle = [list |-> <<"Idle">>, events |-> events, next |-> Horizon]
      BY DEF IdleScheduler
    <2>4. events["Idle"].mode = "Once"
      BY <1>2 DEF IdleScheduler
    <2>5. events \in [EventType -> Event] /\ idle.events = events
      BY <2>1
    <2> HIDE DEF idle, events
    <2>6. idle \in SchedulerState /\ idle.list = <<"Idle">>
      BY <2>2, <2>3, <2>5, HorizonAssumption DEF SchedulerState
    <2> QED BY <2>4, <2>5, <2>6
  <1>5. Types(idle.list) = {"Idle"} /\ \A t \in EventType : Single(idle.list, t)
    BY <1>4 DEF Types, Single
  <1>6. BootScheduler(CyclesPerFrame, SpuPeriod) = boot
    BY DEF BootScheduler
  <1> HIDE DEF idle, once
  <1>7. once \in SchedulerState
    BY <1>1, <1>2, <1>3, <1>4, AddEventType DEF once
  <1>8. /\ Types(once.list) = Types(idle.list) \cup {"Vblank"}
        /\ \A t \in EventType \ {"Vblank"} : Single(idle.list, t) => Single(once.list, t)
        /\ \A t \in EventType \ {"Vblank"} : once.events[t] = idle.events[t]
        /\ once.events["Vblank"].mode = "Periodic"
        /\ once.events["Vblank"].period = CyclesPerFrame
        /\ once.events["Vblank"].target = CyclesPerFrame
    <2> DEFINE type == "Vblank"
               mode == "Periodic"
    <2>1. /\ idle \in SchedulerState /\ type \in EventType /\ mode \in Mode
          /\ CyclesPerFrame \in Nat /\ once = AddEvent(idle, type, mode, CyclesPerFrame)
      BY <1>1, <1>2, <1>3, <1>4 DEF once
    <2> HIDE DEF type, mode
    <2>2. Types(once.list) = Types(idle.list) \cup {type}
      BY <2>1, AddEventFacts
    <2>3. \A t \in EventType \ {type} : Single(idle.list, t) => Single(once.list, t)
      BY <2>1, AddEventFacts
    <2>4. \A t \in EventType \ {type} : once.events[t] = idle.events[t]
      BY <2>1, AddEventFacts
    <2>5. /\ once.events[type].mode = mode
          /\ once.events[type].period = CyclesPerFrame
          /\ once.events[type].target = CyclesPerFrame
      BY <2>1, AddEventFacts
    <2> QED BY <2>2, <2>3, <2>4, <2>5 DEF type, mode
  <1>9. boot \in SchedulerState
    BY <1>1, <1>2, <1>3, <1>7, AddEventType
  <1> HIDE DEF boot
  <1>10. /\ Types(boot.list) = Types(once.list) \cup {"Spu"}
         /\ \A t \in EventType \ {"Spu"} : Single(once.list, t) => Single(boot.list, t)
         /\ \A t \in EventType \ {"Spu"} : boot.events[t] = once.events[t]
         /\ InOrder(boot.list, boot.events)
         /\ boot.next = boot.events[boot.list[1]].target
         /\ boot.events["Spu"].mode = "Periodic"
         /\ boot.events["Spu"].period = SpuPeriod
         /\ boot.events["Spu"].target = SpuPeriod
    <2> DEFINE type == "Spu"
               mode == "Periodic"
    <2>1. /\ once \in SchedulerState /\ type \in EventType /\ mode \in Mode
          /\ SpuPeriod \in Nat /\ boot = AddEvent(once, type, mode, SpuPeriod)
      BY <1>1, <1>2, <1>3, <1>7 DEF boot
    <2> HIDE DEF type, mode
    <2>2. Types(boot.list) = Types(once.list) \cup {type} /\ InOrder(boot.list, boot.events)
      BY <2>1, AddEventFacts
    <2>3. \A t \in EventType \ {type} : Single(once.list, t) => Single(boot.list, t)
      BY <2>1, AddEventFacts
    <2>4. \A t \in EventType \ {type} : boot.events[t] = once.events[t]
      BY <2>1, AddEventFacts
    <2>5. /\ boot.events[type].mode = mode
          /\ boot.events[type].period = SpuPeriod
          /\ boot.events[type].target = SpuPeriod
          /\ boot.next = boot.events[boot.list[1]].target
      BY <2>1, AddEventFacts
    <2> QED BY <2>2, <2>3, <2>4, <2>5 DEF type, mode
  <1>11. Types(boot.list) = {"Idle", "Vblank", "Spu"}
    BY <1>5, <1>8, <1>10
  <1>12. /\ boot.list[1] \in Types(boot.list) /\ boot.list[1] \in EventType \ {"Idle"}
         /\ \A t \in Types(boot.list) \ {"Idle"} : boot.next <= boot.events[t].target
    <2> DEFINE list == boot.list
               events == boot.events
    <2>1. /\ list \in Seq(EventType) /\ events \in [EventType -> Event]
          /\ InOrder(list, events) /\ {"Idle", "Vblank", "Spu"} \subseteq Types(list)
          /\ boot.next = events[list[1]].target
      BY <1>9, <1>10, <1>11 DEF SchedulerState
    <2> HIDE DEF list, events
    <2>2. /\ list[1] \in Types(list) /\ list[1] \in EventType \ {"Idle"}
          /\ \A t \in Types(list) \ {"Idle"} : boot.next <= events[t].target
      BY <2>1, FrontFacts
    <2> QED BY <2>2 DEF list, events
  <1>13. \A t \in Types(boot.list) : boot.events[t].mode = ModeOf(t)
    <2>1. /\ boot.events["Vblank"] = once.events["Vblank"]
          /\ boot.events["Idle"] = idle.events["Idle"]
      BY <1>2, <1>8, <1>10
    <2> QED BY <2>1, <1>4, <1>8, <1>10, <1>11 DEF ModeOf
  <1>14. boot.events["Vblank"] = once.events["Vblank"]
    BY <1>2, <1>10
  <1>15. boot.next \in Nat
    BY <1>1, <1>8, <1>10, <1>11, <1>12, <1>14
  <1>16. boot.events["Spu"].target <= boot.next + SpuPeriod /\ SpuPeriod <= 2 * SpuPeriod
    BY <1>1, <1>10, <1>15
  <1>17. \A t \in OnceTypes : Single(boot.list, t)
    BY <1>5, <1>8, <1>10 DEF OnceTypes, EventType
  <1>18. boot.events["Vblank"].period = CyclesPerFrame
    BY <1>8, <1>14
  <1>19. Consistent(boot)
    BY <1>9, <1>10, <1>11, <1>12, <1>13, <1>16, <1>17, <1>18 DEF Consistent
  <1> QED BY <1>6, <1>11, <1>19

-----------------------------------------------------------------------------
\* A step of the machine seen from the scheduler: it stays consistent, and the
\* Once event that leaves, if one does, is the one that fires.
GoodStep ==
  /\ Consistent(sched')
  /\ sched' = sched \/ \A t \in OnceTypes \cap Types(sched.list) :
                         t \notin Types(sched'.list) <=> Fires(t)

\* Outside UpdateEvents nothing fires, and nothing leaves.
LEMMA QuietStep ==
  ASSUME pc # "events", Consistent(sched'), OnlyLeaves(sched, sched', {})
  PROVE  GoodStep
PROOF
  <1>1. \A t : ~Fires(t)
    BY DEF Fires
  <1> QED BY <1>1 DEF GoodStep, OnlyLeaves

\* Inside, the event that fires is the front and, if it is a Once event, leaves.
LEMMA FiringStep ==
  ASSUME NEW type, Fires(type), Consistent(sched'),
         OnlyLeaves(sched, sched', {type} \cap OnceTypes)
  PROVE  GoodStep
PROOF
  <1>1. \A t : Fires(t) <=> t = type
    BY DEF Fires
  <1> QED BY <1>1 DEF GoodStep, OnlyLeaves

\* Every action of the machine is a good step from a consistent scheduler.
LEMMA ActionsAreGood ==
  ASSUME Consistent(sched), Next
  PROVE  GoodStep
PROOF
  <1> DEFINE s == sched
  <1>1. /\ Delays \subseteq Nat /\ \A d \in Delays : d >= SpuPeriod
        /\ MaxTicks \in Nat
    BY EmulatorAssumption
  <1>2. /\ s.list # << >> /\ Head(s.list) = s.list[1] /\ s.next \in Int
        /\ s.list[1] \in EventType \ {"Idle"}
        /\ s.list[1] \in Types(s.list)
        /\ Queued(s) = Types(s.list)
    BY ConsistentFacts DEF Queued, Types
  <1>3. ASSUME UNCHANGED sched
        PROVE  GoodStep
    BY <1>3 DEF GoodStep
  <1>4. ASSUME NEW n \in 1 .. MaxTicks, RunTicks(n)
        PROVE  GoodStep
    <2>1. n \in Nat /\ sched' = Tick(sched, n) /\ pc # "events"
      BY <1>1, <1>4 DEF RunTicks
    <2>2. Consistent(sched') /\ sched'.list = sched.list
      BY <2>1, TickConsistent
    <2> QED BY <2>1, <2>2, QuietStep DEF OnlyLeaves
  <1>5. CASE Transmit
    <2> DEFINE type == "IoAcknowledge"
    <2>1. /\ type \in EventType \ {"Idle", "Vblank", "Spu"} /\ ModeOf(type) = "Once"
      BY DEF EventType, ModeOf
    <2>2. AckDelay \in Nat /\ AckDelay >= SpuPeriod
      BY <1>1 DEF Delays
    <2>3. /\ sched' = AddEvent(sched, type, ModeOf(type), AckDelay)
          /\ type \notin Types(sched.list) /\ pc # "events"
      BY <1>2, <1>5, <2>1 DEF Transmit
    <2> HIDE DEF type
    <2>4. Consistent(sched') /\ Types(sched'.list) = Types(sched.list) \cup {type}
      BY <2>1, <2>2, <2>3, AddEventConsistent
    <2> QED BY <2>3, <2>4, QuietStep DEF OnlyLeaves
  <1>6. ASSUME NEW d \in CommandDelays, SendCommand(d)
        PROVE  GoodStep
    <2> DEFINE type == "CdCommand"
    <2>1. /\ type \in EventType \ {"Idle", "Vblank", "Spu"} /\ ModeOf(type) = "Once"
      BY DEF EventType, ModeOf
    <2>2. d \in Nat /\ d >= SpuPeriod
      BY <1>1 DEF Delays
    <2>3. /\ sched' = AddEvent(sched, type, ModeOf(type), d)
          /\ type \notin Types(sched.list) /\ pc # "events"
      BY <1>2, <1>6, <2>1 DEF SendCommand
    <2> HIDE DEF type
    <2>4. Consistent(sched') /\ Types(sched'.list) = Types(sched.list) \cup {type}
      BY <2>1, <2>2, <2>3, AddEventConsistent
    <2> QED BY <2>3, <2>4, QuietStep DEF OnlyLeaves
  <1>7. ASSUME NEW type \in {"Vblank", "Spu"}, Fires(type),
               sched' = AfterCallback(sched, type)
        PROVE  GoodStep
    <2>1. sched.next <= 0 /\ sched.list[1] = type
      BY <1>2, <1>7 DEF Fires
    <2>2. Consistent(sched') /\ OnlyLeaves(sched, sched', {})
      BY <1>7, <2>1, AfterPeriodic
    <2>3. {type} \cap OnceTypes = {}
      BY DEF OnceTypes
    <2> QED BY <1>7, <2>2, <2>3, FiringStep
  <1>8. ASSUME NEW type \in OnceTypes, Fires(type), NEW r, Consistent(r),
               OnlyLeaves(sched, r, {}), r.list[1] = type, sched' = AfterCallback(r, type)
        PROVE  GoodStep
    <2>1. Consistent(sched') /\ OnlyLeaves(r, sched', {type})
      BY <1>8, AfterOnce
    <2>2. OnlyLeaves(sched, sched', {type})
      BY <1>8, <2>1 DEF OnlyLeaves
    <2>3. {type} \cap OnceTypes = {type}
      OBVIOUS
    <2> QED BY <1>8, <2>1, <2>2, <2>3, FiringStep
  <1>9. CASE FireIoAcknowledge
    <2>1. "IoAcknowledge" \in OnceTypes
      BY DEF OnceTypes
    <2>2. /\ Fires("IoAcknowledge") /\ sched.list[1] = "IoAcknowledge"
          /\ sched' = AfterCallback(sched, "IoAcknowledge")
      BY <1>2, <1>9 DEF FireIoAcknowledge, Fires
    <2>3. OnlyLeaves(sched, sched, {})
      BY DEF OnlyLeaves
    <2> QED BY <1>8, <2>1, <2>2, <2>3
  <1>10. CASE FireCdCommand
    <2>1. "CdCommand" \in OnceTypes
      BY DEF OnceTypes
    <2>2. Fires("CdCommand") /\ sched.next <= 0 /\ sched.list[1] = "CdCommand"
      BY <1>2, <1>10 DEF FireCdCommand, Fires
    <2>3. PICK r \in CommandOutcomes(sched) : sched' = AfterCallback(r, "CdCommand")
      BY <1>10 DEF FireCdCommand
    <2>4. Consistent(r) /\ OnlyLeaves(sched, r, {}) /\ r.list[1] = "CdCommand"
      BY <2>2, CommandFacts
    <2> QED BY <1>8, <2>1, <2>2, <2>3, <2>4
  <1>11. CASE FireCdCommand2
    <2>1. "CdCommand2" \in OnceTypes
      BY DEF OnceTypes
    <2>2. Fires("CdCommand2") /\ sched.list[1] = "CdCommand2"
      BY <1>2, <1>11 DEF FireCdCommand2, Fires
    <2>3. PICK r \in {sched, StopReading(sched)} : sched' = AfterCallback(r, "CdCommand2")
      BY <1>11 DEF FireCdCommand2
    <2>4. Consistent(r) /\ OnlyLeaves(sched, r, {}) /\ r.list[1] = "CdCommand2"
      <3>1. CASE r = sched
        BY <2>2, <3>1 DEF OnlyLeaves
      <3>2. CASE r = StopReading(sched)
        BY <2>2, <3>2, StopReadingFacts
      <3> QED BY <2>3, <3>1, <3>2
    <2> QED BY <1>8, <2>1, <2>2, <2>3, <2>4
  <1>12. CASE FireCdSector
    <2>1. /\ Fires("CdSector") /\ sched.list[1] = "CdSector"
          /\ "CdSector" \in Types(sched.list)
      BY <1>2, <1>12 DEF FireCdSector, Fires
    <2>2. PICK d \in SectorDelays :
            sched' = AfterCallback(RescheduleEvent(sched, "CdSector", d), "CdSector")
      BY <1>12 DEF FireCdSector
    <2>3. d \in Nat
      BY <1>1 DEF Delays
    <2>4. Consistent(sched') /\ OnlyLeaves(sched, sched', {})
      BY <2>1, <2>2, <2>3, AfterSector
    <2>5. {"CdSector"} \cap OnceTypes = {}
      BY DEF OnceTypes
    <2> QED BY <2>1, <2>4, <2>5, FiringStep
  <1>13. CASE Fire
    BY <1>3, <1>7, <1>9, <1>10, <1>11, <1>12, <1>13
       DEF Fire, FireVblank, FireSpu, FireIdle
  <1>14. CASE CpuStep
    BY <1>3, <1>4, <1>14 DEF CpuStep, LeaveBlock
  <1>15. CASE Guest
    BY <1>5, <1>6, <1>15 DEF Guest
  <1>16. CASE LeaveUpdate \/ NextFrame \/ Quit \/ Ended
    BY <1>3, <1>16 DEF LeaveUpdate, NextFrame, Quit, Ended, vars
  <1> QED BY <1>13, <1>14, <1>15, <1>16 DEF Next

-----------------------------------------------------------------------------
\* The strengthened invariant holds initially ...
LEMMA InitIInv == Init => IInv
PROOF
  <1> SUFFICES ASSUME Init PROVE IInv
    OBVIOUS
  <1>1. Consistent(sched)
    BY BootConsistent DEF Init
  <1>2. sched \in SchedulerState
    BY <1>1 DEF Consistent
  <1> QED BY <1>1, <1>2 DEF Init, IInv, TypeOK

\* ... and every step keeps it: Idle, the only event whose callback raises an
\* Error here, is never at the front.
LEMMA NextIInv == IInv /\ [Next]_vars => IInv'
PROOF
  <1> SUFFICES ASSUME IInv, [Next]_vars PROVE IInv'
    OBVIOUS
  <1>1. /\ Consistent(sched) /\ pc # "crashed"
        /\ pc \in {"cpu", "events", "returned", "stopped", "crashed"}
        /\ frame_finished \in BOOLEAN /\ running \in BOOLEAN
    BY DEF IInv, TypeOK
  <1>2. CASE Next
    <2>1. Consistent(sched')
      BY <1>1, <1>2, ActionsAreGood DEF GoodStep
    <2>2. sched' \in SchedulerState
      BY <2>1 DEF Consistent
    <2>3. Head(sched.list) # "Idle"
      BY <1>1, ConsistentFacts
    <2>4. ~Fires("Idle")
      BY <2>3 DEF Fires
    <2>5. /\ pc' \in {"cpu", "events", "returned", "stopped"}
          /\ frame_finished' \in BOOLEAN /\ running' \in BOOLEAN
      <3>1. CASE CpuStep \/ Guest
        BY <1>1, <3>1 DEF CpuStep, Guest, RunTicks, LeaveBlock, Transmit, SendCommand
      <3>2. CASE Fire
        BY <1>1, <2>4, <3>2 DEF Fire, FireVblank, FireSpu, FireIoAcknowledge,
                                FireCdCommand, FireCdCommand2, FireCdSector
      <3>3. CASE LeaveUpdate \/ NextFrame \/ Quit \/ Ended
        BY <1>1, <3>3 DEF LeaveUpdate, NextFrame, Quit, Ended, vars
      <3> QED BY <1>2, <3>1, <3>2, <3>3 DEF Next
    <2> QED BY <2>1, <2>2, <2>5 DEF IInv, TypeOK
  <1>3. CASE UNCHANGED vars
    BY <1>1, <1>3 DEF IInv, TypeOK, vars
  <1> QED BY <1>2, <1>3

\* In every reachable state the scheduler is consistent.
THEOREM Safety == Spec => []IInv
PROOF
  <1> QED BY InitIInv, NextIInv, PTL DEF Spec

\* Types: the fields of the scheduler and the run loop never leave their ranges.
THEOREM TypeCorrect == Spec => []TypeOK
PROOF
  <1>1. IInv => TypeOK
    BY DEF IInv
  <1> QED BY <1>1, Safety, PTL

\* RunFrame, which looks at nothing but the cached target, never overlooks an
\* event: however many are queued and however long the blocks run.
THEOREM NoEventOverlookedHolds == Spec => []NoEventOverlooked
PROOF
  <1>1. IInv => NoEventOverlooked
    BY DEF IInv, Consistent, NoEventOverlooked, Queued, Types
  <1> QED BY <1>1, Safety, PTL

\* The callback of Idle, which raises an Error, is never called.
THEOREM IdleNeverFiresHolds == Spec => []IdleNeverFires
PROOF
  <1>1. IInv => IdleNeverFires
    BY DEF IInv, IdleNeverFires
  <1> QED BY <1>1, Safety, PTL

\* A sample is never fired more than one period before it is due.
THEOREM SpuAtMostOnePeriodEarlyHolds == Spec => []SpuAtMostOnePeriodEarly
PROOF
  <1>1. IInv => SpuAtMostOnePeriodEarly
    BY DEF IInv, Consistent, SpuAtMostOnePeriodEarly
  <1> QED BY <1>1, Safety, PTL

\* What UpdateEvents pops after a callback is the Once event that fired, and
\* nothing else takes a Once event out of the list.
THEOREM OnlyTheFiredEventLeavesHolds == Spec => OnlyTheFiredEventLeaves
PROOF
  <1> DEFINE Leaves == [\A t \in OnceTypes \cap Queued(sched) :
                          t \notin Queued(sched') <=> Fires(t)]_sched
  <1>1. ASSUME IInv, [Next]_vars
        PROVE  Leaves
    <2>1. Queued(sched) = Types(sched.list) /\ Queued(sched') = Types(sched'.list)
      BY DEF Queued, Types
    <2>2. CASE Next
      <3>1. GoodStep
        BY <1>1, <2>2, ActionsAreGood DEF IInv
      <3> QED BY <2>1, <3>1 DEF GoodStep
    <2>3. CASE UNCHANGED vars
      BY <2>3 DEF vars
    <2> QED BY <1>1, <2>2, <2>3
  <1>2. IInv /\ [Next]_vars => Leaves
    BY <1>1
  <1> QED BY <1>2, Safety, PTL DEF Spec, OnlyTheFiredEventLeaves
=============================================================================
