--------------------------- MODULE EndPointProofs ----------------------------
(***************************************************************************)
(* Proofs about EndPoint, for every schedule of keys, request, body and    *)
(* length of time: what a creator sends is what its keys say, reads as it  *)
(* was meant, and stays true as time passes and keys are added.            *)
(***************************************************************************)
EXTENDS EndPoint, KeyAnswerJsonProofs, FiniteSetTheorems

(***************************************************************************)
(* The schedule.  Keys are put in order by start, and of those with one    *)
(* start by the order they were supplied in.                               *)
(***************************************************************************)
DatedKeys == [starts_at : Moments, pem : Texts]

Earlier(keys, i) == {j \in DOMAIN keys : Before(keys, j, i)}

\* A key's place is one after those before it, and keys before it have an earlier one.
LEMMA PlacesAscend ==
  ASSUME NEW keys \in Seq(DatedKeys)
  PROVE  /\ \A i \in DOMAIN keys : Place(keys, i) \in DOMAIN keys
         /\ \A i, j \in DOMAIN keys : Before(keys, i, j) => Place(keys, i) < Place(keys, j)
         /\ \A i, j \in DOMAIN keys : i = j \/ Before(keys, i, j) \/ Before(keys, j, i)
  <1>1. PICK n \in Nat : n = Len(keys) /\ DOMAIN keys = 1 .. n
    OBVIOUS
  <1>2. \A i \in 1 .. n : keys[i].starts_at \in Int
    <2>1. \A i \in 1 .. n : keys[i] \in DatedKeys
      BY <1>1
    <2>2. \A key \in DatedKeys : key.starts_at \in Int
      BY DEF DatedKeys, Moments
    <2>. QED BY <2>1, <2>2
  <1>3. \A i \in 1 .. n : i \notin Earlier(keys, i) /\ Earlier(keys, i) \subseteq (1 .. n) \ {i}
    BY <1>1, <1>2 DEF Earlier, Before
  <1>4. \A i, j \in 1 .. n : Before(keys, i, j) =>
           Earlier(keys, i) \subseteq Earlier(keys, j) /\ i \in Earlier(keys, j)
    BY <1>1, <1>2 DEF Earlier, Before
  <1>5. \A i, j \in 1 .. n : i = j \/ Before(keys, i, j) \/ Before(keys, j, i)
    BY <1>2 DEF Before
  <1>6. IsFiniteSet(1 .. n) /\ Cardinality(1 .. n) = n
    BY FS_Interval
  <1>7. \A i \in 1 .. n : Place(keys, i) = Cardinality(Earlier(keys, i)) + 1
    BY DEF Place, Earlier
  <1>8. ASSUME NEW i \in 1 .. n
        PROVE  /\ IsFiniteSet(Earlier(keys, i)) /\ Cardinality(Earlier(keys, i)) \in 0 .. n - 1
    <2>1. IsFiniteSet((1 .. n) \ {i}) /\ Cardinality((1 .. n) \ {i}) = n - 1
      BY <1>6, FS_RemoveElement
    <2>2. IsFiniteSet(Earlier(keys, i)) /\ Cardinality(Earlier(keys, i)) <= n - 1
      BY <1>3, <2>1, FS_Subset
    <2>. QED BY <2>2, FS_CardinalityType
  <1>9. ASSUME NEW i \in 1 .. n, NEW j \in 1 .. n, Before(keys, i, j)
        PROVE  Cardinality(Earlier(keys, i)) < Cardinality(Earlier(keys, j))
    <2>1. Earlier(keys, i) \in SUBSET Earlier(keys, j) /\ Earlier(keys, i) # Earlier(keys, j)
      BY <1>3, <1>4, <1>9
    <2>2. /\ Cardinality(Earlier(keys, i)) <= Cardinality(Earlier(keys, j))
          /\ Cardinality(Earlier(keys, i)) # Cardinality(Earlier(keys, j))
      BY <1>8, <2>1, FS_Subset
    <2>. QED BY <1>8, <2>2
  <1>10. \A i \in 1 .. n : Place(keys, i) \in 1 .. n
    BY <1>7, <1>8
  <1>11. \A i, j \in 1 .. n : Before(keys, i, j) => Place(keys, i) < Place(keys, j)
    BY <1>7, <1>8, <1>9
  <1>. QED BY <1>1, <1>5, <1>10, <1>11

\* The key supplied that is at a place of the schedule.
KeyAt(keys, place) == CHOOSE i \in DOMAIN keys : Place(keys, i) = place

\* The schedule holds every key, at its place, in order.
LEMMA ScheduleOrdered ==
  ASSUME NEW keys \in Seq(DatedKeys)
  PROVE  /\ \A m \in DOMAIN keys : KeyAt(keys, m) \in DOMAIN keys
                                   /\ Schedule(keys)[m] = keys[KeyAt(keys, m)]
         /\ \A i \in DOMAIN keys : \E m \in DOMAIN keys : KeyAt(keys, m) = i
         /\ \A l, m \in DOMAIN keys : l < m => Before(keys, KeyAt(keys, l), KeyAt(keys, m))
         /\ Schedule(keys) \in Seq(DatedKeys) /\ DOMAIN Schedule(keys) = DOMAIN keys
  <1>1. PICK n \in Nat : n = Len(keys) /\ DOMAIN keys = 1 .. n
    OBVIOUS
  <1>2. /\ \A i \in 1 .. n : Place(keys, i) \in 1 .. n
        /\ \A i, j \in 1 .. n : Before(keys, i, j) => Place(keys, i) < Place(keys, j)
        /\ \A i, j \in 1 .. n : i = j \/ Before(keys, i, j) \/ Before(keys, j, i)
    BY <1>1, PlacesAscend
  <1>3. PICK place \in [1 .. n -> 1 .. n] : \A i \in 1 .. n : place[i] = Place(keys, i)
    <2>. DEFINE p == [i \in 1 .. n |-> Place(keys, i)]
    <2>1. p \in [1 .. n -> 1 .. n] /\ \A i \in 1 .. n : p[i] = Place(keys, i)
      BY <1>2
    <2>. QED BY <2>1
  <1>4. \A i, j \in 1 .. n : i # j => place[i] # place[j]
    BY <1>2, <1>3
  <1>5. place \in Injection(1 .. n, 1 .. n)
    BY <1>4 DEF Injection, IsInjective
  <1>6. place \in Surjection(1 .. n, 1 .. n)
    BY <1>5, FS_Interval, FS_Injection
  <1>7. \A m \in 1 .. n : \E i \in 1 .. n : place[i] = m
    BY <1>6 DEF Surjection
  <1>8. ASSUME NEW m \in 1 .. n
        PROVE  KeyAt(keys, m) \in 1 .. n /\ Place(keys, KeyAt(keys, m)) = m
    <2>1. \E i \in 1 .. n : Place(keys, i) = m
      BY <1>3, <1>7
    <2>. QED BY <1>1, <2>1, Zenon DEF KeyAt
  <1>9. \A i \in 1 .. n : KeyAt(keys, Place(keys, i)) = i
    BY <1>2, <1>3, <1>4, <1>8
  <1>10. ASSUME NEW l \in 1 .. n, NEW m \in 1 .. n, l < m
         PROVE  Before(keys, KeyAt(keys, l), KeyAt(keys, m))
    <2>1. PICK i \in 1 .. n, j \in 1 .. n :
            i = KeyAt(keys, l) /\ j = KeyAt(keys, m) /\ Place(keys, i) = l /\ Place(keys, j) = m
      BY <1>8
    <2>2. i # j
      BY <1>10, <2>1
    <2>3. ASSUME Before(keys, j, i) PROVE FALSE
      <3>1. Place(keys, j) < Place(keys, i)
        BY <1>2, <2>3
      <3>. QED BY <1>10, <2>1, <3>1
    <2>. QED BY <1>2, <2>1, <2>2, <2>3
  <1>11. Schedule(keys) = [m \in 1 .. n |-> keys[KeyAt(keys, m)]]
    BY <1>1, Zenon DEF Schedule, KeyAt
  <1>12. \A m \in 1 .. n : keys[KeyAt(keys, m)] \in DatedKeys
    BY <1>1, <1>8
  <1>. QED BY <1>1, <1>2, <1>8, <1>9, <1>10, <1>11, <1>12

\* The rule: the latest start at or before a moment, and of those the first supplied.
Chosen(keys, i, at) ==
  /\ keys[i].starts_at <= at
  /\ \A j \in DOMAIN keys :
       \/ keys[j].starts_at > at
       \/ keys[j].starts_at < keys[i].starts_at
       \/ keys[j].starts_at = keys[i].starts_at /\ i <= j

\* key_in_force finds the key of the rule, where any key has started.
LEMMA KeyChosen ==
  ASSUME NEW keys \in Seq(DatedKeys), NEW at \in Int, Started(Schedule(keys), at) # {}
  PROVE  \E i \in DOMAIN keys : KeyInForce(Schedule(keys), at) = keys[i] /\ Chosen(keys, i, at)
  <1>1. PICK n \in Nat : n = Len(keys) /\ DOMAIN keys = 1 .. n
    OBVIOUS
  <1>2. PICK sorted : sorted = Schedule(keys)
    OBVIOUS
  <1>3. sorted \in Seq(DatedKeys) /\ DOMAIN sorted = 1 .. n
    BY <1>1, <1>2, ScheduleOrdered
  <1>4. PICK start \in [1 .. n -> Int] : \A m \in 1 .. n : start[m] = sorted[m].starts_at
    <2>1. \A key \in DatedKeys : key.starts_at \in Int
      BY DEF DatedKeys, Moments
    <2>2. \A m \in 1 .. n : sorted[m].starts_at \in Int
      BY <1>3, <2>1
    <2>. DEFINE s == [m \in 1 .. n |-> sorted[m].starts_at]
    <2>3. s \in [1 .. n -> Int] /\ \A m \in 1 .. n : s[m] = sorted[m].starts_at
      BY <2>2
    <2>. QED BY <2>3
  <1>5. PICK key \in [1 .. n -> 1 .. n] : \A m \in 1 .. n : key[m] = KeyAt(keys, m)
    <2>. DEFINE k == [m \in 1 .. n |-> KeyAt(keys, m)]
    <2>1. k \in [1 .. n -> 1 .. n] /\ \A m \in 1 .. n : k[m] = KeyAt(keys, m)
      BY <1>1, ScheduleOrdered
    <2>. QED BY <2>1
  <1>6. /\ \A m \in 1 .. n : sorted[m] = keys[key[m]]
        /\ \A i \in 1 .. n : \E m \in 1 .. n : key[m] = i
        /\ \A l, m \in 1 .. n : l < m => Before(keys, key[l], key[m])
    <2>1. ASSUME NEW m \in 1 .. n PROVE sorted[m] = keys[key[m]]
      <3>1. sorted[m] = keys[KeyAt(keys, m)]
        BY <1>1, <1>2, ScheduleOrdered
      <3>. QED BY <1>5, <3>1
    <2>2. ASSUME NEW i \in 1 .. n PROVE \E m \in 1 .. n : key[m] = i
      <3>1. PICK m \in 1 .. n : KeyAt(keys, m) = i
        BY <1>1, ScheduleOrdered
      <3>. QED BY <1>5, <3>1
    <2>3. ASSUME NEW l \in 1 .. n, NEW m \in 1 .. n, l < m PROVE Before(keys, key[l], key[m])
      <3>1. Before(keys, KeyAt(keys, l), KeyAt(keys, m))
        BY <1>1, <2>3, ScheduleOrdered
      <3>. QED BY <1>5, <3>1
    <2>. QED BY <2>1, <2>2, <2>3
  <1>7. \A m \in 1 .. n : start[m] = keys[key[m]].starts_at
    BY <1>4, <1>6
  <1>8. ASSUME NEW l \in 1 .. n, NEW m \in 1 .. n, l < m \/ l = m
        PROVE  /\ start[l] \in Int /\ start[m] \in Int /\ start[l] <= start[m]
               /\ key[l] \in Int /\ key[m] \in Int
               /\ start[l] = start[m] => key[l] <= key[m]
    <2>1. start[l] \in Int /\ start[m] \in Int /\ key[l] \in 1 .. n /\ key[m] \in 1 .. n
      OBVIOUS
    <2>2. PICK a \in Int, b \in Int, c \in Int, d \in Int :
            a = start[l] /\ b = start[m] /\ c = key[l] /\ d = key[m]
      BY <2>1
    <2>3. CASE l = m
      BY <2>2, <2>3
    <2>4. CASE l < m
      <3>1. Before(keys, key[l], key[m])
        BY <1>6, <2>4
      <3>2. keys[key[l]].starts_at = a /\ keys[key[m]].starts_at = b
        BY <1>7, <2>2
      <3>3. a < b \/ (a = b /\ c < d)
        BY <2>2, <3>1, <3>2 DEF Before
      <3>4. a <= b /\ (a = b => c <= d)
        BY <3>3
      <3>. QED BY <2>2, <3>4
    <2>. QED BY <1>8, <2>3, <2>4
  <1>. DEFINE started == Started(sorted, at)
  <1>9. \A m : m \in started <=> m \in 1 .. n /\ start[m] <= at
    <2>1. \A m : m \in started <=> m \in 1 .. n /\ sorted[m].starts_at <= at
      BY <1>3 DEF Started
    <2>2. ASSUME NEW m \in 1 .. n PROVE start[m] = sorted[m].starts_at
      BY <1>4
    <2>. HIDE DEF started
    <2>. QED BY <2>1, <2>2
  <1>10. started # {} /\ started \in SUBSET (0 .. n)
    <2>1. started # {}
      BY <1>2
    <2>2. ASSUME NEW m \in started PROVE m \in 0 .. n
      <3>1. m \in 1 .. n
        BY <1>9, <2>2
      <3>. QED BY <3>1
    <2>. HIDE DEF started
    <2>. QED BY <2>1, <2>2
  <1>11. PICK last \in started : \A m \in started : m <= last
    BY <1>10, LastNatural
  <1>12. last \in 1 .. n /\ start[last] <= at /\ \A m \in 1 .. n : start[m] <= at => m <= last
    <2>. HIDE DEF started
    <2>. QED BY <1>9, <1>11
  <1>13. last = Max(started)
    <2>. HIDE DEF started
    <2>1. \A m \in started : m \in Nat
      BY <1>9
    <2>2. Max(started) \in started /\ \A m \in started : Max(started) >= m
      <3>1. \A m \in started : last >= m
        BY <1>11, <2>1
      <3>. QED BY <3>1, Zenon DEF Max
    <2>. QED BY <1>11, <2>1, <2>2
  <1>. DEFINE same == {m \in 1 .. last : \A j \in m .. last :
                         sorted[j].starts_at = sorted[last].starts_at}
  <1>14. \A m : m \in same <=> m \in 1 .. last /\ \A j \in m .. last : start[j] = start[last]
    <2>1. \A m \in 1 .. last : \A j \in m .. last : j \in 1 .. n
      BY <1>12
    <2>2. start[last] = sorted[last].starts_at
      BY <1>4, <1>12
    <2>. QED BY <1>4, <2>1, <2>2
  <1>23. KeyInForce(sorted, at) = sorted[Min(same)]
    <2>. HIDE DEF started
    <2>1. started # {}
      BY <1>10
    <2>. QED BY <1>13, <2>1, Zenon DEF KeyInForce, started
  <1>. HIDE DEF same
  <1>24. last \in same /\ same \in SUBSET Nat
    <2>1. \A j \in last .. last : j = last
      BY <1>12
    <2>2. last \in 1 .. last
      BY <1>12
    <2>3. \A m \in 1 .. last : m \in Nat
      BY <1>12
    <2>. QED BY <1>14, <2>1, <2>2, <2>3
  <1>15. PICK first \in same : \A m \in same : first <= m
    BY <1>24, LeastNatural
  <1>16. first = Min(same)
    <2>1. Min(same) \in same /\ \A m \in same : Min(same) <= m
      BY <1>15, Zenon DEF Min
    <2>2. PICK least : least = Min(same)
      OBVIOUS
    <2>3. least \in Nat /\ first \in Nat /\ least <= first /\ first <= least
      BY <1>15, <1>24, <2>1, <2>2
    <2>. QED BY <2>2, <2>3
  <1>17. KeyInForce(sorted, at) = sorted[first]
    BY <1>16, <1>23
  <1>18. first \in 1 .. last /\ start[first] = start[last]
    <2>1. first \in 1 .. last
      BY <1>14, <1>15
    <2>2. first \in first .. last
      BY <1>12, <2>1
    <2>. QED BY <1>14, <1>15, <2>1, <2>2
  <1>19. \A m \in 1 .. last : start[m] = start[last] => first <= m
    <2>1. ASSUME NEW m \in 1 .. last, start[m] = start[last] PROVE m \in same
      <3>1. ASSUME NEW j \in m .. last PROVE start[j] = start[last]
        <4>1. j \in 1 .. n /\ m \in 1 .. n
          BY <1>12
        <4>2. (m = j \/ m < j) /\ (j = last \/ j < last)
          BY <1>12, <4>1
        <4>3. start[m] <= start[j]
          BY <1>8, <4>1, <4>2
        <4>4. start[j] <= start[last]
          BY <1>8, <1>12, <4>1, <4>2
        <4>. QED BY <1>12, <2>1, <4>1, <4>3, <4>4
      <3>. QED BY <1>14, <3>1
    <2>. QED BY <1>15, <2>1
  <1>. HIDE DEF started
  <1>20. first \in 1 .. n /\ key[first] \in 1 .. n
    BY <1>12, <1>18
  <1>21. ASSUME NEW j \in 1 .. n
         PROVE  \/ keys[j].starts_at > at
                \/ keys[j].starts_at < keys[key[first]].starts_at
                \/ keys[j].starts_at = keys[key[first]].starts_at /\ key[first] <= j
    <2>1. PICK m \in 1 .. n : key[m] = j
      BY <1>6
    <2>2. keys[j].starts_at = start[m] /\ keys[key[first]].starts_at = start[first]
      BY <1>7, <1>20, <2>1
    <2>3. CASE m > last
      BY <1>12, <2>2, <2>3
    <2>4. CASE m < first
      BY <1>8, <1>12, <1>18, <1>19, <1>20, <2>2, <2>4
    <2>5. CASE m \in first .. last
      <3>1. m = first \/ first < m
        BY <1>20, <2>5
      <3>2. m = last \/ m < last
        BY <1>12, <2>5
      <3>3. start[first] <= start[m]
        BY <1>8, <1>20, <3>1
      <3>4. start[m] <= start[last]
        BY <1>8, <1>12, <3>2
      <3>5. start[m] = start[first] /\ key[first] <= key[m]
        <4>1. start[m] = start[first]
          BY <1>12, <1>18, <1>20, <3>3, <3>4
        <4>. QED BY <1>8, <1>20, <3>1, <4>1
      <3>. QED BY <2>1, <2>2, <3>5
    <2>. QED BY <1>12, <1>20, <2>3, <2>4, <2>5
  <1>22. keys[key[first]].starts_at <= at
    BY <1>7, <1>12, <1>18, <1>20
  <1>. QED BY <1>1, <1>2, <1>6, <1>17, <1>20, <1>21, <1>22 DEF Chosen

\* And it finds none only where none has.
LEMMA NoneStarted ==
  ASSUME NEW keys \in Seq(DatedKeys), NEW at \in Int, KeyInForce(Schedule(keys), at) = None,
         NEW j \in DOMAIN keys
  PROVE  keys[j].starts_at > at
  <1>1. Started(Schedule(keys), at) = {}
    <2>1. None \notin DatedKeys
      BY KeysAssumption DEF DatedKeys, Texts
    <2>. QED BY <2>1, KeyChosen
  <1>2. PICK m \in DOMAIN keys : Schedule(keys)[m] = keys[j] /\ m \in DOMAIN Schedule(keys)
    BY ScheduleOrdered
  <1>3. ~(keys[j].starts_at <= at)
    BY <1>1, <1>2 DEF Started
  <1>4. keys[j].starts_at \in Int
    <2>1. \A key \in DatedKeys : key.starts_at \in Int
      BY DEF DatedKeys, Moments
    <2>2. keys[j] \in DatedKeys
      OBVIOUS
    <2>. QED BY <2>1, <2>2
  <1>. QED BY <1>3, <1>4

\* next_start_after finds the least of the later starts, where there is one.
LEMMA NextStart ==
  ASSUME NEW keys \in Seq(DatedKeys), NEW key \in DatedKeys,
         NEW to, to = NextStartAfter(Schedule(keys), key)
  PROVE  \/ /\ to = None
            /\ \A j \in DOMAIN keys : keys[j].starts_at <= key.starts_at
         \/ /\ \E j \in DOMAIN keys : keys[j].starts_at = to
            /\ to \in Moments /\ key.starts_at < to
            /\ \A j \in DOMAIN keys : keys[j].starts_at <= key.starts_at \/ to <= keys[j].starts_at
  <1>1. PICK sorted : sorted = Schedule(keys)
    OBVIOUS
  <1>2. DOMAIN sorted = DOMAIN keys
    BY <1>1, ScheduleOrdered
  <1>3. \A d \in DatedKeys : d.starts_at \in Moments
    BY DEF DatedKeys
  <1>4. \A j \in DOMAIN keys : keys[j] \in DatedKeys
    OBVIOUS
  <1>5. \A m \in DOMAIN keys : \E j \in DOMAIN keys : sorted[m].starts_at = keys[j].starts_at
    BY <1>1, ScheduleOrdered
  <1>6. \A j \in DOMAIN keys : \E m \in DOMAIN keys : sorted[m].starts_at = keys[j].starts_at
    <2>1. ASSUME NEW j \in DOMAIN keys
          PROVE  \E m \in DOMAIN keys : sorted[m].starts_at = keys[j].starts_at
      <3>1. PICK m \in DOMAIN keys : KeyAt(keys, m) = j
        BY ScheduleOrdered
      <3>2. sorted[m] = keys[j]
        BY <1>1, <3>1, ScheduleOrdered
      <3>. QED BY <3>2
    <2>. QED BY <2>1
  <1>7. PICK start \in Moments : start = key.starts_at
    BY <1>3
  <1>. DEFINE later == {t \in {sorted[m].starts_at : m \in DOMAIN sorted} : t > key.starts_at}
  <1>8. \A t \in later : t > start /\ \E j \in DOMAIN keys : keys[j].starts_at = t
    BY <1>2, <1>5, <1>7
  <1>9. \A j \in DOMAIN keys : keys[j].starts_at > start => keys[j].starts_at \in later
    BY <1>2, <1>6, <1>7
  <1>10. to = IF later = {} THEN None ELSE Min(later)
    BY <1>1 DEF NextStartAfter
  <1>. HIDE DEF later
  <1>11. \A j \in DOMAIN keys : keys[j].starts_at \in Moments
    BY <1>3, <1>4
  <1>12. \A t \in Moments : t \in Int /\ t + 20 \in Nat
    BY DEF Moments, BaseMoment, EarliestMoment
  <1>13. CASE later = {}
    <2>1. \A j \in DOMAIN keys : keys[j].starts_at <= start
      BY <1>7, <1>9, <1>11, <1>12, <1>13
    <2>. QED BY <1>7, <1>10, <1>13, <2>1
  <1>14. CASE later # {}
    <2>. DEFINE shifted == {t + 20 : t \in later}
    <2>1. \A t \in later : t \in Moments
      BY <1>8, <1>11
    <2>2. shifted \in SUBSET Nat /\ shifted # {}
      BY <1>12, <1>14, <2>1
    <2>3. \A t \in later : t + 20 \in shifted
      OBVIOUS
    <2>4. \A s \in shifted : \E t \in later : s = t + 20
      OBVIOUS
    <2>. HIDE DEF shifted
    <2>5. PICK s \in shifted : \A t \in shifted : s <= t
      BY <2>2, LeastNatural
    <2>6. PICK least \in later : s = least + 20
      BY <2>4
    <2>7. \A t \in later : least <= t
      <3>1. ASSUME NEW t \in later PROVE least <= t
        <4>1. t \in Int /\ least \in Int
          BY <1>12, <2>1
        <4>2. s <= t + 20
          BY <2>3, <2>5
        <4>. QED BY <2>6, <4>1, <4>2
      <3>. QED BY <3>1
    <2>8. to \in later /\ \A t \in later : to <= t
      <3>1. Min(later) \in later /\ \A t \in later : Min(later) <= t
        BY <2>7 DEF Min
      <3>. QED BY <1>10, <1>14, <3>1
    <2>9. to \in Moments /\ start < to /\ \E j \in DOMAIN keys : keys[j].starts_at = to
      BY <1>7, <1>8, <1>12, <2>1, <2>8
    <2>10. ASSUME NEW j \in DOMAIN keys
           PROVE  keys[j].starts_at <= start \/ to <= keys[j].starts_at
      BY <1>7, <1>9, <1>11, <1>12, <2>8
    <2>. QED BY <1>7, <2>9, <2>10
  <1>. QED BY <1>13, <1>14

-----------------------------------------------------------------------------
(***************************************************************************)
(* What was said stands: it is what one of the creator's keys was said to  *)
(* be, chosen by the rule at the moment asked about, and the span it was   *)
(* said to be in force for ends at the start of another key, or where none *)
(* was known when it was said, at no start up to then.                     *)
(***************************************************************************)
Within(keys, i, to, at) ==
  \A j \in DOMAIN keys :
    \/ keys[j].starts_at < keys[i].starts_at
    \/ keys[j].starts_at = keys[i].starts_at /\ i <= j
    \/ to # None /\ to <= keys[j].starts_at
    \/ to = None /\ at < keys[j].starts_at

EndsAtStart(keys, to, asked) ==
  to # None => to \in Moments /\ asked < to /\ \E j \in DOMAIN keys : keys[j].starts_at = to

SaidOf(keys, said, i, to) ==
  /\ said.body = ToJson(NewAnswer(keys[i].pem, keys[i].starts_at, to))
  /\ keys[i].pem \in Readable
  /\ said.asked \in Nat /\ said.at \in Nat /\ said.asked <= said.at
  /\ Chosen(keys, i, said.asked)
  /\ Within(keys, i, to, said.at)
  /\ EndsAtStart(keys, to, said.asked)

Stands(keys, said) == \E i \in DOMAIN keys, to \in Moments \cup {None} : SaidOf(keys, said, i, to)

SaidAlone(said) ==
  /\ said.body = ToJson(NewAnswer(PemTexts[1], None, None))
  /\ PemTexts[1] \in Readable /\ said.asked = None

AnswerStands(who, keys, present, said) ==
  /\ said.body \in Texts
  /\ who = "schedule" /\ said.status = 200 => Stands(keys, said) /\ said.at <= present
  /\ who \notin {"schedule", "anyone"} /\ said.status = 200 => SaidAlone(said)
  /\ who # "anyone" /\ said.status = 500 => \E i \in DOMAIN keys : keys[i].pem \notin Readable

\* The moment settled on is the one the date asks for, and no key had started by it where
\* none was found.
HeedsDate(keys, present, date, said) ==
  /\ said.at \in Nat /\ said.at <= present
  /\ said.status = 200 => said.asked = AskedFor(date, said.at)
  /\ said.status = 404 => \A j \in DOMAIN keys : keys[j].starts_at > AskedFor(date, said.at)

(***************************************************************************)
(* The inductive invariant.                                                *)
(***************************************************************************)
EndPointInv ==
  /\ host \in Hosts /\ now \in 0 .. Horizon
  /\ supplied \in Seq(DatedKeys) /\ Len(supplied) \in 1 .. Len(PemTexts)
  /\ supplied[1].pem = PemTexts[1]
  /\ \A i \in DOMAIN supplied : supplied[i].starts_at \in Starts
  /\ asking # None => asking.date \in Dates \cup {None}
  /\ response # None => asking # None /\ AnswerStands(host, supplied, now, response)
  /\ response # None /\ host = "schedule" => HeedsDate(supplied, now, asking.date, response)
  /\ outcome # None => /\ AnswerStands(host, supplied, now, outcome.said)
                       /\ outcome.key = RequestPublicKey(outcome.said)

\* A key is added ahead of its start and after those there are.
Adds(keys, present, key) ==
  /\ keys \in Seq(DatedKeys) /\ key \in DatedKeys /\ present \in Nat
  /\ present < key.starts_at
  /\ \A i \in DOMAIN keys : keys[i].starts_at <= key.starts_at

\* Adding a key to the schedule leaves the earlier keys in their places.
LEMMA KeyAdded ==
  ASSUME NEW keys, NEW present, NEW key, Adds(keys, present, key)
  PROVE  /\ Append(keys, key) \in Seq(DatedKeys)
         /\ DOMAIN Append(keys, key) = DOMAIN keys \cup {Len(keys) + 1}
         /\ \A i \in DOMAIN keys : Append(keys, key)[i] = keys[i] /\ i <= Len(keys) + 1
         /\ Append(keys, key)[Len(keys) + 1] = key
         /\ \A i \in DOMAIN Append(keys, key) : i \in Int
  BY DEF Adds

\* What was said stands when a key is added.
LEMMA AddedStands ==
  ASSUME NEW keys, NEW present, NEW key, Adds(keys, present, key),
         NEW said, said.at <= present, NEW i \in DOMAIN keys, NEW to \in Moments \cup {None},
         SaidOf(keys, said, i, to)
  PROVE  SaidOf(Append(keys, key), said, i, to)
  <1>. DEFINE more == Append(keys, key)
  <1>1. PICK start \in Int, from \in Int : start = key.starts_at /\ from = keys[i].starts_at
    <2>1. \A dated \in DatedKeys : dated.starts_at \in Int
      BY DEF DatedKeys, Moments
    <2>2. key \in DatedKeys /\ keys[i] \in DatedKeys
      BY DEF Adds
    <2>. QED BY <2>1, <2>2
  <1>2. /\ DOMAIN more = DOMAIN keys \cup {Len(keys) + 1}
        /\ \A j \in DOMAIN keys : more[j] = keys[j] /\ j <= Len(keys) + 1
        /\ more[Len(keys) + 1] = key /\ i \in DOMAIN more
    BY KeyAdded
  <1>3. PICK asked \in Nat, at \in Nat :
          asked = said.asked /\ at = said.at /\ asked <= at /\ at < start /\ from <= start
    <2>1. said.asked \in Nat /\ said.at \in Nat /\ said.asked <= said.at
      BY DEF SaidOf
    <2>2. PICK p \in Nat : p = present
      BY DEF Adds
    <2>3. p < start /\ from <= start
      BY <1>1, <2>2 DEF Adds
    <2>. QED BY <2>1, <2>2, <2>3
  <1>. HIDE DEF more
  <1>4. more[i] = keys[i]
    BY <1>2
  <1>5. Chosen(more, i, asked)
    <2>1. Chosen(keys, i, asked)
      BY <1>3 DEF SaidOf
    <2>2. start > asked
      BY <1>3
    <2>. QED BY <1>1, <1>2, <1>4, <2>1, <2>2 DEF Chosen
  <1>6. Within(more, i, to, at)
    <2>1. Within(keys, i, to, at)
      BY <1>3 DEF SaidOf
    <2>2. to # None => to <= start
      BY <1>1 DEF SaidOf, EndsAtStart, Adds
    <2>. QED BY <1>1, <1>2, <1>3, <1>4, <2>1, <2>2 DEF Within
  <1>7. EndsAtStart(more, to, asked)
    BY <1>2, <1>3 DEF SaidOf, EndsAtStart
  <1>. QED BY <1>3, <1>4, <1>5, <1>6, <1>7 DEF SaidOf, more

\* What an answer says stays true when a key is added after the creator's present.
LEMMA AddedAnswerStands ==
  ASSUME NEW keys, NEW present, NEW key, Adds(keys, present, key), NEW who, NEW said,
         AnswerStands(who, keys, present, said)
  PROVE  AnswerStands(who, Append(keys, key), present, said)
  <1>1. /\ DOMAIN Append(keys, key) = DOMAIN keys \cup {Len(keys) + 1}
        /\ \A i \in DOMAIN keys : Append(keys, key)[i] = keys[i]
    BY KeyAdded
  <1>2. ASSUME who = "schedule", said.status = 200
        PROVE  Stands(Append(keys, key), said) /\ said.at <= present
    <2>1. Stands(keys, said) /\ said.at <= present
      BY <1>2 DEF AnswerStands
    <2>2. PICK i \in DOMAIN keys, to \in Moments \cup {None} : SaidOf(keys, said, i, to)
      BY <2>1 DEF Stands
    <2>3. SaidOf(Append(keys, key), said, i, to)
      BY <2>1, <2>2, AddedStands
    <2>. QED BY <1>1, <2>1, <2>2, <2>3 DEF Stands
  <1>3. ASSUME who # "anyone", said.status = 500
        PROVE  \E i \in DOMAIN Append(keys, key) : Append(keys, key)[i].pem \notin Readable
    BY <1>1, <1>3 DEF AnswerStands
  <1>. QED BY <1>2, <1>3 DEF AnswerStands

\* What an answer says stays true as the creator's clock goes on.
LEMMA LaterAnswerStands ==
  ASSUME NEW keys, NEW present \in Nat, NEW later \in Nat, present <= later, NEW who, NEW said,
         AnswerStands(who, keys, present, said)
  PROVE  AnswerStands(who, keys, later, said)
  <1>1. ASSUME Stands(keys, said), said.at <= present PROVE said.at <= later
    <2>1. said.at \in Nat
      BY <1>1 DEF Stands, SaidOf
    <2>. QED BY <1>1, <2>1
  <1>. QED BY <1>1 DEF AnswerStands

\* The moment a date asks for is none later than the present.
LEMMA AskedForType ==
  ASSUME NEW at \in Nat, NEW date
  PROVE  AskedFor(date, at) \in Nat /\ AskedFor(date, at) <= at
  BY ClockAssumption DEF AskedFor

\* So a key added ahead of the present starts after it, and the answer still heeds the date.
LEMMA AddedHeeds ==
  ASSUME NEW keys, NEW present, NEW key, Adds(keys, present, key), NEW date, NEW said,
         HeedsDate(keys, present, date, said)
  PROVE  HeedsDate(Append(keys, key), present, date, said)
  <1>1. /\ DOMAIN Append(keys, key) = DOMAIN keys \cup {Len(keys) + 1}
        /\ \A i \in DOMAIN keys : Append(keys, key)[i] = keys[i]
        /\ Append(keys, key)[Len(keys) + 1] = key
    BY KeyAdded
  <1>2. key.starts_at \in Int
    <2>1. \A dated \in DatedKeys : dated.starts_at \in Int
      BY DEF DatedKeys, Moments
    <2>. QED BY <2>1 DEF Adds
  <1>3. PICK at \in Nat, moment \in Nat :
          at = said.at /\ at <= present /\ moment = AskedFor(date, at) /\ moment <= at
    BY AskedForType DEF HeedsDate
  <1>4. key.starts_at > moment
    BY <1>2, <1>3 DEF Adds
  <1>. QED BY <1>1, <1>3, <1>4 DEF HeedsDate

-----------------------------------------------------------------------------
(***************************************************************************)
(* What the creator answers.                                               *)
(***************************************************************************)
LEMMA NewAnswers ==
  ASSUME NEW pem \in Texts, NEW from \in Moments \cup {None}, NEW to \in Moments \cup {None}
  PROVE  NewAnswer(pem, from, to) \in Answers /\ ToJson(NewAnswer(pem, from, to)) \in Texts
  <1>1. <<Spki>> \in Texts
    BY DEF Texts, Spki
  <1>2. NewAnswer(pem, from, to) \in Answers
    BY <1>1 DEF NewAnswer, Answers
  <1>3. \E a \in Nat, b \in Nat, c \in Nat, d \in Nat :
          AnswerHeld(ToJson(NewAnswer(pem, from, to)), NewAnswer(pem, from, to), a, b, c, d)
    BY <1>2, AnswerWritten
  <1>. QED BY <1>2, <1>3 DEF AnswerHeld

\* A refusal says nothing of any key, so it stands whatever the schedule.
LEMMA Refused ==
  ASSUME NEW who, NEW keys, NEW present, NEW status, status # 200, status # 500
  PROVE  AnswerStands(who, keys, present, Refusal(status))
  <1>1. Refusal(status).status = status /\ Refusal(status).body = << >>
    BY DEF Refusal
  <1>2. << >> \in Texts
    BY DEF Texts
  <1>. QED BY <1>1, <1>2 DEF AnswerStands

\* The moment asked about is the one the date asks for, and none later than the present.
LEMMA MomentAsked ==
  ASSUME now \in Nat, NEW date \in Dates \cup {None}, date # JunkDate
  PROVE  /\ AskedMoment(date) \in Nat /\ AskedMoment(date) <= now
         /\ AskedMoment(date) = AskedFor(date, now)
  <1>1. CASE date \in {None, EmptyDate}
    <2>1. date \notin Nat
      BY <1>1, TextsAssumption DEF EmptyDate
    <2>. QED BY <1>1, <2>1 DEF AskedMoment, AskedFor
  <1>2. CASE date \notin {None, EmptyDate}
    <2>1. date \in Nat
      BY <1>2, AskedAssumption, ClockAssumption
    <2>2. PICK moment \in Nat : moment = date * Minute
      BY <2>1, ClockAssumption
    <2>3. \E m \in {moment, now} : \A n \in {moment, now} : m <= n
      BY <2>2
    <2>4. Min({moment, now}) \in {moment, now} /\ \A n \in {moment, now} : Min({moment, now}) <= n
      BY <2>3, Zenon DEF Min
    <2>5. PICK least : least = Min({moment, now})
      OBVIOUS
    <2>6. least \in Nat /\ least <= now /\ least = IF moment <= now THEN moment ELSE now
      BY <2>2, <2>4, <2>5
    <2>. QED BY <1>2, <2>1, <2>2, <2>5, <2>6 DEF AskedMoment, AskedFor
  <1>. QED BY <1>1, <1>2

\* An answer about a key of the schedule is one that stands, or the key cannot be read.
LEMMA KeyAnswered ==
  ASSUME NEW keys \in Seq(DatedKeys), NEW asked \in Nat, now \in Nat, asked <= now,
         NEW i \in DOMAIN keys, Chosen(keys, i, asked),
         NEW to, to = NextStartAfter(Schedule(keys), keys[i]),
         NEW result, result = PublicKeyAnswer(keys[i].pem, keys[i].starts_at, to, asked)
  PROVE  /\ AnswerStands("schedule", keys, now, result)
         /\ result.at = now /\ result.status \in {200, 500}
         /\ result.status = 200 => SaidOf(keys, result, i, to) /\ result.asked = asked
  <1>1. PICK pem \in Texts, from \in Moments :
          keys[i] = Dated(from, pem) /\ pem = keys[i].pem /\ from = keys[i].starts_at
    <2>1. keys[i] \in DatedKeys
      OBVIOUS
    <2>2. PICK key \in DatedKeys : key = keys[i]
      BY <2>1
    <2>3. key = Dated(key.starts_at, key.pem) /\ key.pem \in Texts /\ key.starts_at \in Moments
      BY DEF DatedKeys, Dated
    <2>. QED BY <2>2, <2>3
  <1>2. \A j \in DOMAIN keys : keys[j].starts_at \in Int
    <2>1. \A key \in DatedKeys : key.starts_at \in Int
      BY DEF DatedKeys, Moments
    <2>2. \A j \in DOMAIN keys : keys[j] \in DatedKeys
      OBVIOUS
    <2>. QED BY <2>1, <2>2
  <1>3. \/ to = None /\ \A j \in DOMAIN keys : keys[j].starts_at <= from
        \/ /\ to \in Moments /\ from < to /\ \E j \in DOMAIN keys : keys[j].starts_at = to
           /\ \A j \in DOMAIN keys : keys[j].starts_at <= from \/ to <= keys[j].starts_at
    <2>1. keys[i] \in DatedKeys
      OBVIOUS
    <2>. QED BY <1>1, <2>1, NextStart
  <1>4. from \in Int /\ from # None /\ asked # None /\ from <= asked
    BY <1>1, TextsAssumption DEF Moments, Chosen
  <1>5. to \in Moments \cup {None}
    BY <1>3
  <1>6. EndsAtStart(keys, to, asked)
    <2>1. SUFFICES ASSUME to # None PROVE asked < to /\ to \in Moments
                                          /\ \E j \in DOMAIN keys : keys[j].starts_at = to
      BY DEF EndsAtStart
    <2>2. PICK j \in DOMAIN keys : keys[j].starts_at = to /\ from < to /\ to \in Int
      BY <1>3, <2>1 DEF Moments
    <2>3. keys[j].starts_at > asked
      BY <1>1, <1>4, <2>2 DEF Chosen
    <2>. QED BY <1>3, <2>1, <2>2, <2>3
  <1>7. Within(keys, i, to, now)
    <2>1. ASSUME NEW j \in DOMAIN keys
          PROVE  \/ keys[j].starts_at < keys[i].starts_at
                 \/ keys[j].starts_at = keys[i].starts_at /\ i <= j
                 \/ to # None /\ to <= keys[j].starts_at
                 \/ to = None /\ now < keys[j].starts_at
      <3>1. PICK start \in Int : start = keys[j].starts_at
        BY <1>2
      <3>2. CASE start > from
        BY <1>1, <1>3, <1>4, <3>1, <3>2, TextsAssumption DEF Moments
      <3>3. CASE ~(start > from)
        BY <1>1, <1>4, <3>1, <3>3 DEF Chosen
      <3>. QED BY <3>2, <3>3
    <2>. QED BY <2>1 DEF Within
  <1>8. PICK answer \in Answers : answer = NewAnswer(pem, from, to) /\ ToJson(answer) \in Texts
    BY <1>5, NewAnswers
  <1>9. Validates(answer, asked) <=> pem \in Readable
    <2>1. /\ answer.format = <<Spki>> /\ answer.public_key = pem
          /\ answer.valid_from = from /\ answer.valid_to = to
      BY <1>8 DEF NewAnswer
    <2>2. to # None => from < to /\ asked < to
      BY <1>3, <1>6 DEF EndsAtStart
    <2>. QED BY <1>4, <2>1, <2>2 DEF Validates
  <1>10. CASE pem \in Readable
    <2>1. PublicKeyAnswer(pem, from, to, asked) =
            [status |-> 200, body |-> ToJson(answer), asked |-> asked, at |-> now]
      BY <1>8, <1>9, <1>10 DEF PublicKeyAnswer
    <2>2. PICK said : said = PublicKeyAnswer(pem, from, to, asked)
      OBVIOUS
    <2>3. said.status = 200 /\ said.body = ToJson(answer) /\ said.asked = asked /\ said.at = now
      BY <2>1, <2>2
    <2>4. SaidOf(keys, said, i, to)
      BY <1>1, <1>6, <1>7, <1>8, <1>10, <2>3 DEF SaidOf
    <2>5. Stands(keys, said) /\ said.at <= now
      BY <1>5, <2>3, <2>4 DEF Stands
    <2>6. AnswerStands("schedule", keys, now, said)
      BY <1>8, <2>3, <2>5 DEF AnswerStands
    <2>. QED BY <1>1, <2>2, <2>3, <2>4, <2>6
  <1>11. CASE pem \notin Readable
    <2>1. PublicKeyAnswer(pem, from, to, asked) = Refusal(500)
      BY <1>8, <1>9, <1>11 DEF PublicKeyAnswer
    <2>2. result.status = 500 /\ result.body = << >> /\ << >> \in Texts /\ result.at = now
      BY <1>1, <2>1 DEF Refusal, Texts
    <2>. QED BY <1>1, <1>11, <2>2 DEF AnswerStands
  <1>. QED BY <1>10, <1>11

\* The start said to come next is the end of the key's period.
LEMMA NextIsEnd ==
  ASSUME supplied \in Seq(DatedKeys), NEW i \in DOMAIN supplied,
         NEW to, to = NextStartAfter(Schedule(supplied), supplied[i])
  PROVE  to \in Moments \cup {None} /\ IsEndOf(i, to)
  <1>1. supplied[i] \in DatedKeys
    OBVIOUS
  <1>2. \A j \in DOMAIN supplied : supplied[j].starts_at \in Int
    <2>1. \A key \in DatedKeys : key.starts_at \in Int
      BY DEF DatedKeys, Moments
    <2>2. \A j \in DOMAIN supplied : supplied[j] \in DatedKeys
      OBVIOUS
    <2>. QED BY <2>1, <2>2
  <1>3. PICK from \in Int : from = supplied[i].starts_at
    BY <1>2
  <1>4. \/ to = None /\ \A j \in DOMAIN supplied : supplied[j].starts_at <= from
        \/ /\ to \in Moments /\ from < to /\ \E j \in DOMAIN supplied : supplied[j].starts_at = to
           /\ \A j \in DOMAIN supplied : supplied[j].starts_at <= from \/ to <= supplied[j].starts_at
    BY <1>1, <1>3, NextStart
  <1>5. CASE to = None /\ \A j \in DOMAIN supplied : supplied[j].starts_at <= from
    <2>1. {j \in DOMAIN supplied : supplied[j].starts_at > supplied[i].starts_at} = {}
      BY <1>2, <1>3, <1>5
    <2>. QED BY <1>5, <2>1 DEF IsEndOf
  <1>6. CASE ~(to = None /\ \A j \in DOMAIN supplied : supplied[j].starts_at <= from)
    <2>1. to \in Int
      BY <1>4, <1>6 DEF Moments
    <2>2. \E j \in DOMAIN supplied : to = supplied[j].starts_at /\ supplied[j].starts_at > supplied[i].starts_at
      BY <1>3, <1>4, <1>6, <2>1
    <2>3. \A j \in DOMAIN supplied :
            supplied[j].starts_at > supplied[i].starts_at => to <= supplied[j].starts_at
      BY <1>2, <1>3, <1>4, <1>6
    <2>. QED BY <1>4, <1>6, <2>2, <2>3 DEF IsEndOf
  <1>. QED BY <1>5, <1>6

\* Every answer of the creator with a schedule stands, heeds the date, and is about a key
\* and the end of its period.
LEMMA ScheduleAnswers ==
  ASSUME EndPointInv, host = "schedule", NEW format, NEW date \in Dates \cup {None},
         NEW said, said = PublicKeyResponseAt(format, date)
  PROVE  /\ AnswerStands(host, supplied, now, said)
         /\ HeedsDate(supplied, now, date, said)
         /\ said.status = 200 =>
              \E i \in DOMAIN supplied, to \in Moments \cup {None} :
                SaidOf(supplied, said, i, to) /\ IsEndOf(i, to)
  <1>1. now \in Nat /\ supplied \in Seq(DatedKeys)
    BY ClockAssumption DEF EndPointInv
  <1>2. \A status : Refusal(status).status = status /\ Refusal(status).at = now
    BY DEF Refusal
  <1>3. CASE ~ServesFormat(format) \/ date = JunkDate
    <2>1. said = Refusal(400)
      BY <1>3 DEF PublicKeyResponseAt
    <2>. QED BY <1>1, <1>2, <2>1, Refused DEF HeedsDate
  <1>4. CASE ServesFormat(format) /\ date # JunkDate
    <2>1. PICK asked \in Nat : asked = AskedMoment(date) /\ asked <= now /\ asked = AskedFor(date, now)
      BY <1>1, <1>4, MomentAsked
    <2>2. PICK key : key = KeyInForce(Schedule(supplied), asked)
      OBVIOUS
    <2>3. said = IF key = None THEN Refusal(404)
                 ELSE PublicKeyAnswer(key.pem, key.starts_at,
                                      NextStartAfter(Schedule(supplied), key), asked)
      BY <1>4, <2>1, <2>2 DEF PublicKeyResponseAt
    <2>4. CASE key = None
      <3>1. said = Refusal(404)
        BY <2>3, <2>4
      <3>2. said.status = 404 /\ said.at = now
        BY <1>2, <3>1
      <3>3. \A j \in DOMAIN supplied : supplied[j].starts_at > asked
        <4>1. KeyInForce(Schedule(supplied), asked) = None
          BY <2>2, <2>4
        <4>. QED BY <1>1, <4>1, NoneStarted
      <3>. QED BY <1>1, <2>1, <3>1, <3>2, <3>3, Refused DEF HeedsDate
    <2>5. CASE key # None
      <3>1. Started(Schedule(supplied), asked) # {}
        BY <2>2, <2>5 DEF KeyInForce
      <3>2. PICK i \in DOMAIN supplied : key = supplied[i] /\ Chosen(supplied, i, asked)
        BY <1>1, <2>1, <2>2, <3>1, KeyChosen
      <3>3. PICK to : to = NextStartAfter(Schedule(supplied), supplied[i])
        OBVIOUS
      <3>4. said = PublicKeyAnswer(supplied[i].pem, supplied[i].starts_at, to, asked)
        BY <2>3, <2>5, <3>2, <3>3
      <3>5. /\ AnswerStands("schedule", supplied, now, said)
            /\ said.at = now /\ said.status \in {200, 500}
            /\ said.status = 200 => SaidOf(supplied, said, i, to) /\ said.asked = asked
        BY <1>1, <2>1, <3>2, <3>3, <3>4, KeyAnswered
      <3>6. to \in Moments \cup {None} /\ IsEndOf(i, to)
        BY <1>1, <3>3, NextIsEnd
      <3>7. HeedsDate(supplied, now, date, said)
        BY <1>1, <2>1, <3>5 DEF HeedsDate
      <3>. QED BY <3>5, <3>6, <3>7
    <2>. QED BY <2>4, <2>5
  <1>. QED BY <1>3, <1>4

\* So does every answer of the creator with one key and no schedule.
LEMMA AloneAnswers ==
  ASSUME EndPointInv, host \notin {"schedule", "anyone"}, NEW format
  PROVE  AnswerStands(host, supplied, now, PublicKeyResponse(format))
  <1>1. CASE ~ServesFormat(format)
    <2>1. PublicKeyResponse(format) = Refusal(400)
      BY <1>1 DEF PublicKeyResponse
    <2>. QED BY <2>1, Refused
  <1>2. CASE ServesFormat(format)
    <2>1. PublicKeyResponse(format) = PublicKeyAnswer(PemTexts[1], None, None, None)
      BY <1>2 DEF PublicKeyResponse
    <2>2. PICK pem \in Texts : pem = PemTexts[1]
      <3>1. Len(PemTexts) \in Nat /\ Len(supplied) \in 1 .. Len(PemTexts)
        BY KeysAssumption DEF EndPointInv
      <3>2. 1 \in DOMAIN PemTexts
        BY <3>1, KeysAssumption
      <3>. QED BY <3>2, KeysAssumption DEF Texts
    <2>3. PICK answer \in Answers : answer = NewAnswer(pem, None, None) /\ ToJson(answer) \in Texts
      BY NewAnswers
    <2>4. Validates(answer, None) <=> pem \in Readable
      BY <2>3 DEF Validates, NewAnswer
    <2>5. PICK said : said = PublicKeyAnswer(pem, None, None, None)
      OBVIOUS
    <2>6. CASE pem \in Readable
      <3>1. said = [status |-> 200, body |-> ToJson(answer), asked |-> None, at |-> now]
        BY <2>3, <2>4, <2>5, <2>6 DEF PublicKeyAnswer
      <3>2. said.status = 200 /\ said.body = ToJson(answer) /\ said.asked = None
        BY <3>1
      <3>3. SaidAlone(said)
        BY <2>2, <2>3, <2>6, <3>2 DEF SaidAlone
      <3>4. AnswerStands(host, supplied, now, said)
        BY <2>3, <3>2, <3>3 DEF AnswerStands
      <3>. QED BY <2>1, <2>2, <2>5, <3>4
    <2>7. CASE pem \notin Readable
      <3>1. said = Refusal(500)
        BY <2>3, <2>4, <2>5, <2>7 DEF PublicKeyAnswer
      <3>2. said.status = 500 /\ said.body \in Texts
        BY <3>1 DEF Refusal, Texts
      <3>3. 1 \in DOMAIN supplied /\ supplied[1].pem \notin Readable
        <4>1. Len(supplied) \in 1 .. Len(PemTexts) /\ supplied \in Seq(DatedKeys)
              /\ supplied[1].pem = PemTexts[1]
          BY DEF EndPointInv
        <4>2. 1 \in DOMAIN supplied
          BY <4>1
        <4>. QED BY <2>2, <2>7, <4>1, <4>2
      <3>4. AnswerStands(host, supplied, now, said)
        BY <3>2, <3>3 DEF AnswerStands
      <3>. QED BY <2>1, <2>2, <2>5, <3>4
    <2>. QED BY <2>6, <2>7
  <1>. QED BY <1>1, <1>2

-----------------------------------------------------------------------------
(***************************************************************************)
(* The invariant holds.                                                    *)
(***************************************************************************)
LEMMA EndPointInvInit == EndPointInit => EndPointInv
  <1>. SUFFICES ASSUME EndPointInit PROVE EndPointInv
    OBVIOUS
  <1>1. PICK count \in 1 .. AtFirst : \E starts \in [1 .. count -> Starts] :
          supplied = SuppliedKeys(starts)
    BY DEF EndPointInit
  <1>11. PICK starts \in [1 .. count -> Starts] : supplied = SuppliedKeys(starts)
    BY <1>1
  <1>2. PICK most \in Nat : most = Len(PemTexts) /\ AtFirst \in 0 .. most /\ DOMAIN PemTexts = 1 .. most
    BY KeysAssumption
  <1>3. \A i \in 1 .. count : PemTexts[i] \in Texts
    BY <1>2, KeysAssumption DEF Texts
  <1>4. supplied = [i \in 1 .. count |-> Dated(starts[i], PemTexts[i])]
    BY <1>11 DEF SuppliedKeys
  <1>5. ASSUME NEW i \in 1 .. count
        PROVE  /\ Dated(starts[i], PemTexts[i]) \in DatedKeys
               /\ Dated(starts[i], PemTexts[i]).pem = PemTexts[i]
               /\ Dated(starts[i], PemTexts[i]).starts_at \in Starts
    <2>1. starts[i] \in Moments
      BY <1>11, KeysAssumption
    <2>. QED BY <1>3, <1>11, <2>1 DEF Dated, DatedKeys
  <1>6. supplied \in Seq(DatedKeys) /\ Len(supplied) = count
    BY <1>2, <1>4, <1>5
  <1>7. 1 \in 1 .. count
    BY <1>2
  <1>8. supplied[1].pem = PemTexts[1]
    BY <1>4, <1>5, <1>7
  <1>9. Len(supplied) \in 1 .. Len(PemTexts)
    BY <1>2, <1>6
  <1>10. now \in 0 .. Horizon
    BY ClockAssumption DEF EndPointInit
  <1>12. \A i \in DOMAIN supplied : supplied[i].starts_at \in Starts
    BY <1>4, <1>5
  <1>. QED BY <1>6, <1>8, <1>9, <1>10, <1>12 DEF EndPointInit, EndPointInv

\* Every step of a creator, a host and a request keeps the invariant.
LEMMA EndPointInvStep == EndPointInv /\ [EndPointNext]_endPointVars => EndPointInv'
  <1>. SUFFICES ASSUME EndPointInv, [EndPointNext]_endPointVars PROVE EndPointInv'
    OBVIOUS
  <1>1. now \in Nat /\ Horizon \in Nat
    BY ClockAssumption DEF EndPointInv
  <1>2. CASE Publish
    <2>1. PICK start, key :
            /\ start \in Starts /\ host = "schedule" /\ Len(supplied) < Len(PemTexts)
            /\ start > now /\ \A i \in DOMAIN supplied : supplied[i].starts_at <= start
            /\ key = Dated(start, PemTexts[Len(supplied) + 1])
            /\ supplied' = Append(supplied, key)
            /\ UNCHANGED <<host, now, asking, response, outcome>>
      BY <1>2 DEF Publish
    <2>2. PICK most \in Nat, count \in Nat :
            /\ most = Len(PemTexts) /\ DOMAIN PemTexts = 1 .. most
            /\ count = Len(supplied) /\ count \in 1 .. most /\ DOMAIN supplied = 1 .. count
      <3>1. PICK most \in Nat : most = Len(PemTexts) /\ DOMAIN PemTexts = 1 .. most
        BY KeysAssumption
      <3>2. PICK count \in Nat : count = Len(supplied) /\ DOMAIN supplied = 1 .. count
        BY DEF EndPointInv
      <3>3. count \in 1 .. most
        BY <3>1, <3>2 DEF EndPointInv
      <3>. QED BY <3>1, <3>2, <3>3
    <2>3. key \in DatedKeys /\ key.starts_at = start
      <3>1. start \in Moments /\ PemTexts[count + 1] \in Texts
        BY <2>1, <2>2, KeysAssumption DEF Texts
      <3>. QED BY <2>1, <2>2, <3>1 DEF Dated, DatedKeys
    <2>4. start \in Int
      BY <2>1, KeysAssumption DEF Moments
    <2>5. Adds(supplied, now, key)
      BY <1>1, <2>1, <2>3, <2>4 DEF Adds, EndPointInv
    <2>6. supplied' \in Seq(DatedKeys) /\ supplied'[1] = supplied[1] /\ Len(supplied') = count + 1
      <3>1. 1 \in DOMAIN supplied
        BY <2>2
      <3>2. supplied \in Seq(DatedKeys)
        BY DEF EndPointInv
      <3>. QED BY <2>1, <2>2, <2>3, <2>5, <3>1, <3>2, KeyAdded
    <2>7. response # None => AnswerStands(host, supplied', now, response)
      BY <2>1, <2>5, AddedAnswerStands DEF EndPointInv
    <2>8. outcome # None => AnswerStands(host, supplied', now, outcome.said)
      BY <2>1, <2>5, AddedAnswerStands DEF EndPointInv
    <2>9. Len(supplied') \in 1 .. Len(PemTexts)
      BY <2>1, <2>2, <2>6
    <2>10. \A i \in DOMAIN supplied' : supplied'[i].starts_at \in Starts
      <3>1. /\ DOMAIN supplied' = DOMAIN supplied \cup {Len(supplied) + 1}
            /\ \A i \in DOMAIN supplied : supplied'[i] = supplied[i]
            /\ supplied'[Len(supplied) + 1] = key
        BY <2>1, <2>5, KeyAdded
      <3>. QED BY <2>1, <2>3, <3>1 DEF EndPointInv
    <2>11. response # None /\ host = "schedule" => HeedsDate(supplied', now, asking.date, response)
      BY <2>1, <2>5, AddedHeeds DEF EndPointInv
    <2>. QED BY <2>1, <2>6, <2>7, <2>8, <2>9, <2>10, <2>11 DEF EndPointInv
  <1>3. CASE Tick
    <2>1. now' \in 0 .. Horizon /\ now' \in Nat /\ now <= now'
      BY <1>1, <1>3 DEF Tick
    <2>2. UNCHANGED <<host, supplied, asking, response, outcome>>
      BY <1>3 DEF Tick
    <2>3. response # None => AnswerStands(host, supplied, now', response)
      BY <1>1, <2>1, LaterAnswerStands DEF EndPointInv
    <2>4. outcome # None => AnswerStands(host, supplied, now', outcome.said)
      BY <1>1, <2>1, LaterAnswerStands DEF EndPointInv
    <2>5. response # None /\ host = "schedule" => HeedsDate(supplied, now', asking.date, response)
      BY <1>1, <2>1 DEF EndPointInv, HeedsDate
    <2>. QED BY <2>1, <2>2, <2>3, <2>4, <2>5 DEF EndPointInv
  <1>4. CASE Ask
    <2>1. PICK format, date : date \in Dates \cup {None} /\ asking' = [format |-> format, date |-> date]
      BY <1>4 DEF Ask
    <2>2. asking'.date \in Dates \cup {None}
      BY <2>1
    <2>3. response = None
      BY <1>4 DEF Ask, EndPointInv
    <2>. QED BY <1>4, <2>2, <2>3 DEF Ask, EndPointInv
  <1>5. CASE Serve
    <2>1. /\ AnswerStands(host, supplied, now, response')
          /\ host = "schedule" => HeedsDate(supplied, now, asking.date, response')
      <3>1. PICK date \in Dates \cup {None} : date = asking.date
        BY <1>5 DEF Serve, EndPointInv
      <3>2. CASE host = "schedule"
        <4>1. response' = PublicKeyResponseAt(asking.format, date)
          BY <1>5, <3>1, <3>2 DEF Serve
        <4>. QED BY <3>1, <3>2, <4>1, ScheduleAnswers
      <3>3. CASE host # "schedule"
        <4>1. response' = PublicKeyResponse(asking.format) /\ host \notin {"schedule", "anyone"}
          BY <1>5, <3>3 DEF Serve
        <4>. QED BY <3>3, <4>1, AloneAnswers
      <3>. QED BY <3>2, <3>3
    <2>. QED BY <1>5, <2>1 DEF Serve, EndPointInv
  <1>6. CASE ServeElsewhere
    <2>1. PICK said \in Elsewheres :
            response' = [status |-> said.status, body |-> said.body, asked |-> None, at |-> now]
      BY <1>6 DEF ServeElsewhere
    <2>2. host = "anyone" /\ response'.body \in Texts
      BY <1>6, <2>1, ElsewheresAssumption DEF ServeElsewhere, Texts
    <2>3. AnswerStands(host, supplied, now, response')
      BY <2>2 DEF AnswerStands
    <2>. QED BY <1>6, <2>3 DEF ServeElsewhere, EndPointInv
  <1>7. CASE ReadAnswer
    <2>1. /\ outcome'.said = response /\ outcome'.key = RequestPublicKey(response)
          /\ response # None /\ response' = None
      BY <1>7 DEF ReadAnswer
    <2>. QED BY <1>7, <2>1 DEF ReadAnswer, EndPointInv
  <1>8. CASE UNCHANGED endPointVars
    BY <1>8 DEF endPointVars, EndPointInv
  <1>. QED BY <1>2, <1>3, <1>4, <1>5, <1>6, <1>7, <1>8 DEF EndPointNext

\* Whatever the creators publish and answer, every answer on its way still stands.
THEOREM EndPointInvariance == EndPointSpec => []EndPointInv
  BY EndPointInvInit, EndPointInvStep, PTL DEF EndPointSpec

-----------------------------------------------------------------------------
(***************************************************************************)
(* Minutes and seconds.                                                    *)
(***************************************************************************)
LEMMA Multiples ==
  ASSUME NEW a \in Int, NEW b \in Int, NEW unit \in Nat \ {0}
  PROVE  /\ a * unit \in Int /\ b * unit \in Int
         /\ a < b => a * unit + unit <= b * unit
         /\ a <= b => a * unit <= b * unit
  <1>1. ASSUME NEW c \in Int, NEW d \in Int, c <= d PROVE c * unit <= d * unit
    <2>1. PICK gap \in Nat : d = c + gap
      <3>1. d - c \in Nat /\ d = c + (d - c)
        BY <1>1
      <3>. QED BY <3>1
    <2>2. gap * unit \in Nat /\ c * unit \in Int /\ d * unit = c * unit + gap * unit
      BY <2>1
    <2>. QED BY <2>2
  <1>2. a * unit \in Int /\ b * unit \in Int
    OBVIOUS
  <1>3. a < b => a * unit + unit <= b * unit
    <2>1. a + 1 <= b => (a + 1) * unit <= b * unit
      BY <1>1
    <2>2. (a + 1) * unit = a * unit + unit
      OBVIOUS
    <2>3. a < b => a + 1 <= b
      OBVIOUS
    <2>. HIDE <1>1
    <2>. QED BY <2>1, <2>2, <2>3
  <1>. QED BY <1>1, <1>2, <1>3

\* How a moment is counted in minutes, where it can be.
LEMMA Counted ==
  ASSUME NEW moment \in Int, NEW count, count = MinutesSinceBase(moment)
  PROVE  /\ count \in 0 .. MaxMinute \cup {None}
         /\ count # None /\ moment >= 0 =>
              count * Minute \in Nat /\ count * Minute <= moment /\ moment < count * Minute + Minute
         /\ count # None /\ moment < 0 => count = 0
         /\ count = None /\ moment >= 0 => MaxMinute * Minute + Minute <= moment
  <1>1. PICK unit \in Nat \ {0}, most \in Nat : unit = Minute /\ most = MaxMinute
    BY ClockAssumption
  <1>2. None \notin 0 .. most
    BY TextsAssumption
  <1>3. PICK whole \in Int : whole = moment \div unit /\ whole * unit <= moment
                             /\ moment < whole * unit + unit
    BY CutTo
  <1>4. PICK back \in Int : back = (-moment) \div unit /\ -moment < back * unit + unit
    <2>1. -moment \in Int
      OBVIOUS
    <2>. QED BY <2>1, CutTo
  <1>5. PICK minutes \in Int : minutes = IF moment < 0 THEN -back ELSE whole
    OBVIOUS
  <1>6. count = IF minutes \in 0 .. most THEN minutes ELSE None
    BY <1>1, <1>3, <1>4, <1>5 DEF MinutesSinceBase
  <1>7. CASE moment < 0
    <2>1. back >= 0
      <3>1. back < 0 => back * unit + unit <= 0 * unit
        BY Multiples
      <3>2. 0 * unit = 0
        OBVIOUS
      <3>3. ~(back * unit + unit <= 0)
        BY <1>4, <1>7, Multiples
      <3>. QED BY <3>1, <3>2, <3>3
    <2>2. minutes <= 0
      BY <1>5, <1>7, <2>1
    <2>. QED BY <1>1, <1>2, <1>6, <1>7, <2>2
  <1>8. CASE ~(moment < 0)
    <2>1. minutes = whole
      BY <1>5, <1>8
    <2>2. whole >= 0
      <3>1. whole < 0 => whole * unit + unit <= 0 * unit
        BY Multiples
      <3>2. 0 * unit = 0
        OBVIOUS
      <3>3. ~(whole * unit + unit <= 0)
        BY <1>3, <1>8, Multiples
      <3>. QED BY <3>1, <3>2, <3>3
    <2>3. whole * unit \in Nat
      BY <2>2
    <2>4. most < whole => most * unit + unit <= whole * unit
      BY Multiples
    <2>5. CASE minutes \in 0 .. most
      <3>1. count = whole /\ count # None
        BY <1>2, <1>6, <2>1, <2>5
      <3>. QED BY <1>1, <1>3, <1>8, <2>1, <2>3, <2>5, <3>1
    <2>6. CASE minutes \notin 0 .. most
      <3>1. count = None /\ most < whole
        BY <1>6, <2>1, <2>2, <2>6
      <3>2. most * unit + unit <= moment
        BY <1>3, <2>4, <3>1, Multiples
      <3>. QED BY <1>1, <1>8, <3>1, <3>2
    <2>. QED BY <2>5, <2>6
  <1>. QED BY <1>7, <1>8

\* A later moment is not counted lower.
LEMMA CountedInOrder ==
  ASSUME NEW from \in Int, NEW to \in Int, from < to,
         MinutesSinceBase(from) # None, MinutesSinceBase(to) # None
  PROVE  MinutesSinceBase(from) <= MinutesSinceBase(to)
  <1>1. PICK unit \in Nat \ {0} : unit = Minute
    BY ClockAssumption
  <1>2. PICK a \in Nat, b \in Nat : a = MinutesSinceBase(from) /\ b = MinutesSinceBase(to)
    BY Counted, ClockAssumption
  <1>3. CASE from < 0
    BY <1>2, <1>3, Counted
  <1>4. CASE ~(from < 0)
    <2>1. a * unit <= from /\ to < b * unit + unit
      BY <1>1, <1>2, <1>4, Counted
    <2>2. b < a => b * unit + unit <= a * unit
      BY Multiples
    <2>3. a * unit \in Int /\ b * unit \in Int
      BY Multiples
    <2>4. a <= b
      BY <2>1, <2>2, <2>3
    <2>. QED BY <1>2, <2>4
  <1>. QED BY <1>3, <1>4

\* The whole minutes after the one a start is counted as are none of them before it.
LEMMA StartBefore ==
  ASSUME NEW start \in Moments, NEW minute \in Nat,
         NEW count, count = MinutesSinceBase(ToSeconds(start)), count # None, count < minute
  PROVE  start <= minute * Minute
  <1>1. PICK unit \in Nat \ {0} : unit = Minute
    BY ClockAssumption
  <1>2. PICK second \in Nat \ {0} : second = Second
    BY SecondAssumption
  <1>3. PICK s \in Int : s = start
    BY DEF Moments
  <1>4. PICK q \in Int : q = s \div second /\ q * second <= s /\ s < q * second + second
    BY CutTo
  <1>5. ToSeconds(start) = q * second
    BY <1>2, <1>3, <1>4, TextsAssumption DEF ToSeconds
  <1>6. PICK m \in Int : m = q * second
    OBVIOUS
  <1>7. PICK M \in Nat : M = minute * unit
    OBVIOUS
  <1>8. m < M
    <2>1. count \in Nat
      BY <1>5, <1>6, Counted, ClockAssumption
    <2>2. CASE m < 0
      BY <2>2
    <2>3. CASE ~(m < 0)
      <3>1. m < count * unit + unit
        BY <1>1, <1>5, <1>6, <2>3, Counted
      <3>2. count * unit + unit <= M /\ count * unit \in Int
        BY <1>7, <2>1, Multiples
      <3>. QED BY <3>1, <3>2
    <2>. QED BY <2>2, <2>3
  <1>9. PICK k \in Int : M = k * second
    <2>1. PICK w \in Int : unit = w * second
      <3>1. (unit % second) = 0
        BY <1>1, <1>2, ClockAssumption
      <3>2. PICK w \in Int : w = unit \div second
        OBVIOUS
      <3>3. unit = second * w + (unit % second)
        BY <3>2
      <3>4. unit = w * second
        BY <3>1, <3>3
      <3>. QED BY <3>4
    <2>2. minute * w \in Int /\ M = (minute * w) * second
      BY <1>7, <2>1
    <2>. QED BY <2>2
  <1>10. q < k
    <2>1. k <= q => k * second <= q * second
      BY Multiples
    <2>. QED BY <1>6, <1>8, <1>9, <2>1
  <1>11. q * second + second <= k * second
    BY <1>10, Multiples
  <1>. QED BY <1>1, <1>3, <1>4, <1>6, <1>7, <1>9, <1>11

\* And those before the one an end is counted as, all of them where it cannot be
\* counted, are before it.
LEMMA EndAfter ==
  ASSUME NEW to \in Moments, 0 < to, NEW minute \in 0 .. Horizon \div Minute,
         NEW count, count = MinutesSinceBase(ToSeconds(to)), count = None \/ minute < count
  PROVE  minute * Minute < to
  <1>1. PICK unit \in Nat \ {0}, most \in Nat, horizon \in Nat :
          unit = Minute /\ most = MaxMinute /\ horizon = Horizon /\ horizon <= most * unit
    BY ClockAssumption
  <1>2. PICK second \in Nat \ {0} : second = Second
    BY SecondAssumption
  <1>3. PICK t \in Int : t = to
    BY DEF Moments
  <1>4. PICK q \in Int : q = t \div second /\ q * second <= t /\ t < q * second + second
    BY CutTo
  <1>5. ToSeconds(to) = q * second
    BY <1>2, <1>3, <1>4, TextsAssumption DEF ToSeconds
  <1>6. q >= 0
    <2>1. q < 0 => q * second + second <= 0 * second
      BY Multiples
    <2>2. 0 * second = 0 /\ q * second \in Int
      OBVIOUS
    <2>. QED BY <1>3, <1>4, <2>1, <2>2
  <1>7. PICK m \in Nat : m = q * second /\ m <= t
    BY <1>4, <1>6
  <1>8. minute \in Nat /\ minute * unit <= horizon
    <2>1. horizon \div unit \in Int /\ (horizon \div unit) * unit <= horizon
      BY CutTo
    <2>2. minute \in Nat /\ minute <= horizon \div unit
      BY <1>1, <2>1
    <2>3. minute * unit <= (horizon \div unit) * unit
      BY <2>1, <2>2, Multiples
    <2>4. minute * unit \in Int /\ (horizon \div unit) * unit \in Int
      BY <2>1, <2>2
    <2>. QED BY <2>1, <2>2, <2>3, <2>4
  <1>9. PICK M \in Nat : M = minute * unit
    BY <1>8
  <1>10. CASE count = None
    <2>1. most * unit + unit <= m
      BY <1>1, <1>5, <1>7, <1>10, Counted
    <2>2. most * unit \in Nat
      OBVIOUS
    <2>. QED BY <1>1, <1>3, <1>7, <1>8, <1>9, <2>1, <2>2
  <1>11. CASE count # None
    <2>1. PICK c \in Nat : c = count /\ c * unit <= m
      <3>1. count \in Nat
        BY <1>5, <1>7, <1>11, Counted, ClockAssumption
      <3>2. count * unit <= m
        BY <1>1, <1>5, <1>7, <1>11, Counted
      <3>. QED BY <3>1, <3>2
    <2>2. minute * unit + unit <= c * unit /\ c * unit \in Int
      BY <1>8, <1>11, <2>1, Multiples
    <2>. QED BY <1>1, <1>3, <1>7, <1>9, <2>1, <2>2
  <1>. QED BY <1>10, <1>11

-----------------------------------------------------------------------------
(***************************************************************************)
(* The request.                                                            *)
(***************************************************************************)
NoneOrMinute == 0 .. MaxMinute \cup {None}

\* A key comes of a 200 and of an answer that reads and passes its check.
LEMMA KeyRead ==
  ASSUME NEW said, said.body \in Texts, RequestPublicKey(said).failure = "none"
  PROVE  \E answer \in Answers :
           /\ said.status = 200 /\ Parse(said.body).json = TRUE /\ Parse(said.body).answer = answer
           /\ Validates(answer, None)
           /\ RequestPublicKey(said).pem = answer.public_key
           /\ RequestPublicKey(said).start = OptionMinute(answer.valid_from)
           /\ RequestPublicKey(said).end = OptionMinute(answer.valid_to)
  <1>1. PICK read : read = Parse(said.body)
    OBVIOUS
  <1>2. RequestPublicKey(said) =
          IF said.status # 200 THEN Fails("Http")
          ELSE IF ~read.json THEN Fails("Key")
          ELSE IF ~Validates(read.answer, None) THEN Fails("Key")
          ELSE [failure |-> "none", pem |-> read.answer.public_key,
                start |-> OptionMinute(read.answer.valid_from),
                end |-> OptionMinute(read.answer.valid_to)]
    BY <1>1 DEF RequestPublicKey
  <1>3. Fails("Http").failure # "none" /\ Fails("Key").failure # "none"
    BY DEF Fails
  <1>4. said.status = 200 /\ read.json /\ Validates(read.answer, None)
    BY <1>2, <1>3
  <1>5. read # NotJson
    BY <1>4 DEF NotJson
  <1>6. PICK answer \in Answers : read.json = TRUE /\ read.answer = answer
    BY <1>1, <1>5, AnswerReadings
  <1>7. RequestPublicKey(said) = [failure |-> "none", pem |-> answer.public_key,
                                  start |-> OptionMinute(answer.valid_from),
                                  end |-> OptionMinute(answer.valid_to)]
    BY <1>2, <1>4, <1>6
  <1>. QED BY <1>1, <1>4, <1>6, <1>7

\* The period of a key, in minutes, does not end before it starts.
LEMMA PeriodInOrder ==
  ASSUME NEW answer \in Answers, Validates(answer, None),
         NEW start, start = OptionMinute(answer.valid_from),
         NEW end, end = OptionMinute(answer.valid_to)
  PROVE  /\ start \in NoneOrMinute /\ end \in NoneOrMinute
         /\ start # None /\ end # None => start <= end
  <1>1. PICK from \in Moments \cup {None}, to \in Moments \cup {None} :
          from = answer.valid_from /\ to = answer.valid_to
    BY DEF Answers
  <1>2. to # None => from # None /\ from < to
    BY <1>1 DEF Validates
  <1>3. ASSUME NEW moment \in Moments \cup {None}
        PROVE  OptionMinute(moment) \in NoneOrMinute /\ (moment = None => OptionMinute(moment) = None)
    <2>1. CASE moment = None
      BY <2>1 DEF OptionMinute, NoneOrMinute
    <2>2. CASE moment # None
      BY <2>2, Counted DEF OptionMinute, NoneOrMinute, Moments
    <2>. QED BY <2>1, <2>2
  <1>4. ASSUME start # None, end # None PROVE start <= end
    <2>1. from # None /\ to # None /\ from \in Int /\ to \in Int /\ from < to
      BY <1>1, <1>2, <1>3, <1>4 DEF Moments
    <2>2. start = MinutesSinceBase(from) /\ end = MinutesSinceBase(to)
      BY <1>1, <2>1 DEF OptionMinute
    <2>. QED BY <1>4, <2>1, <2>2, CountedInOrder
  <1>. QED BY <1>1, <1>3, <1>4

-----------------------------------------------------------------------------
(***************************************************************************)
(* The properties.                                                         *)
(***************************************************************************)

\* What the variables hold, and that a key handed on can be read and does not end before
\* it starts, whatever anyone answered.
THEOREM EndPointTypesHold == EndPointSpec => []EndPointTypeOK
  <1>1. EndPointInv => EndPointTypeOK
    <2>. SUFFICES ASSUME EndPointInv PROVE EndPointTypeOK
      OBVIOUS
    <2>1. ASSUME HasKey
          PROVE  LET key == outcome.key
                 IN /\ key.pem \in Readable
                    /\ {key.start, key.end} \subseteq 0 .. MaxMinute \cup {None}
                    /\ key.start # None /\ key.end # None => key.start <= key.end
      <3>1. PICK said, key : said = outcome.said /\ key = outcome.key
        OBVIOUS
      <3>2. said.body \in Texts /\ key = RequestPublicKey(said) /\ key.failure = "none"
        BY <2>1, <3>1 DEF HasKey, EndPointInv, AnswerStands
      <3>3. PICK answer \in Answers :
              /\ Validates(answer, None) /\ key.pem = answer.public_key
              /\ key.start = OptionMinute(answer.valid_from)
              /\ key.end = OptionMinute(answer.valid_to)
        BY <3>2, KeyRead, ZenonT(30)
      <3>4. answer.public_key \in Readable
        BY <3>3 DEF Validates
      <3>5. /\ key.start \in NoneOrMinute /\ key.end \in NoneOrMinute
            /\ key.start # None /\ key.end # None => key.start <= key.end
        BY <3>3, PeriodInOrder
      <3>. QED BY <3>1, <3>3, <3>4, <3>5 DEF NoneOrMinute
    <2>. QED BY <2>1 DEF EndPointInv, EndPointTypeOK
  <1>. QED BY <1>1, EndPointInvariance, PTL

\* A text that reads, reads the same after it is written again, but for the parts of a second.
THEOREM ReadIsReread == EndPointSpec => []RereadsAsRead
  <1>1. EndPointInv => RereadsAsRead
    <2>. SUFFICES ASSUME EndPointInv, response # None, Parse(response.body).json
                  PROVE  LET answer == Parse(response.body).answer
                             again == Parse(ToJson(answer))
                         IN /\ again.json
                            /\ again.answer = [answer EXCEPT !.valid_from = ToSeconds(@),
                                                             !.valid_to = ToSeconds(@)]
      BY DEF RereadsAsRead
    <2>1. PICK text \in Texts : text = response.body
      BY DEF EndPointInv, AnswerStands
    <2>2. Parse(text) # NotJson
      BY <2>1 DEF NotJson
    <2>3. PICK answer \in Answers : answer = Parse(text).answer
      BY <2>2, AnswerReadings
    <2>4. Parse(ToJson(answer)).json = TRUE /\ Parse(ToJson(answer)).answer = CutToSeconds(answer)
      BY WrittenReadsBack
    <2>. QED BY <2>1, <2>3, <2>4 DEF CutToSeconds
  <1>. QED BY <1>1, EndPointInvariance, PTL

\* No part of a body that reads is itself read, but the part that lacks nothing but space.
THEOREM PartsAreRefused == EndPointSpec => []PartIsRefused
  <1>1. EndPointInv => PartIsRefused
    <2>. SUFFICES ASSUME EndPointInv, response # None, Parse(response.body).json,
                         NEW cut \in 0 .. Len(response.body) - 1,
                         Parse(SubSeq(response.body, 1, cut)).json
                  PROVE  \A i \in cut + 1 .. Len(response.body) : response.body[i] \in Whitespace
      BY DEF PartIsRefused
    <2>1. PICK text \in Texts : text = response.body
      BY DEF EndPointInv, AnswerStands
    <2>2. PICK n \in Nat : n = Len(text) /\ cut \in 0 .. n - 1
      BY <2>1 DEF Texts
    <2>3. PICK part : part = SubSeq(text, 1, cut)
      OBVIOUS
    <2>4. part \in Texts /\ Len(part) = cut /\ \A i \in 1 .. cut : part[i] = text[i]
      BY <2>2, <2>3 DEF Texts
    <2>5. PartOf(part, text)
      BY <2>2, <2>4 DEF PartOf
    <2>6. ASSUME NEW t \in Texts, Parse(t).json PROVE Parse(t).json = TRUE
      <3>1. Parse(t) # NotJson
        BY <2>6 DEF NotJson
      <3>. QED BY <3>1, AnswerReadings
    <2>7. Parse(part).json = TRUE /\ Parse(text).json = TRUE
      BY <2>1, <2>3, <2>4, <2>6
    <2>8. Blank(text, cut)
      BY <2>4, <2>5, <2>7, PartReadsAsWhole
    <2>. QED BY <2>1, <2>8 DEF Blank
  <1>. QED BY <1>1, EndPointInvariance, PTL

\* A text that is read as what an answer says, cut to seconds.
ReadsAs(text, answer, pem, from, to) ==
  /\ Parse(text).json = TRUE /\ Parse(text).answer = answer
  /\ answer.format = <<Spki>> /\ answer.public_key = pem
  /\ answer.valid_from = ToSeconds(from) /\ answer.valid_to = ToSeconds(to)

\* A new answer is read as it was meant.
LEMMA NewReadsBack ==
  ASSUME NEW pem \in Texts, NEW from \in Moments \cup {None}, NEW to \in Moments \cup {None}
  PROVE  \E answer \in Answers :
           ReadsAs(ToJson(NewAnswer(pem, from, to)), answer, pem, from, to)
  <1>1. PICK answer \in Answers : answer = NewAnswer(pem, from, to)
    BY NewAnswers
  <1>2. /\ answer.format = <<Spki>> /\ answer.public_key = pem
        /\ answer.valid_from = from /\ answer.valid_to = to
    BY <1>1 DEF NewAnswer
  <1>3. PICK cut \in Answers : cut = CutToSeconds(answer)
    BY CutAnswer
  <1>4. cut = [format |-> <<Spki>>, public_key |-> pem,
               valid_from |-> ToSeconds(from), valid_to |-> ToSeconds(to)]
    BY <1>2, <1>3, CutAnswer
  <1>5. /\ cut.format = <<Spki>> /\ cut.public_key = pem
        /\ cut.valid_from = ToSeconds(from) /\ cut.valid_to = ToSeconds(to)
    BY <1>4
  <1>6. Parse(ToJson(answer)).json = TRUE /\ Parse(ToJson(answer)).answer = cut
    BY <1>1, <1>3, WrittenReadsBack
  <1>. QED BY <1>1, <1>5, <1>6 DEF ReadsAs

\* Read back, a new answer is the one of the same key and the seconds of its edges.
LEMMA NewReadsExactly ==
  ASSUME NEW pem \in Texts, NEW from \in Moments \cup {None}, NEW to \in Moments \cup {None},
         NEW text, text = ToJson(NewAnswer(pem, from, to))
  PROVE  /\ Parse(text).json = TRUE
         /\ Parse(text).answer = NewAnswer(pem, ToSeconds(from), ToSeconds(to))
  <1>1. PICK answer \in Answers : answer = NewAnswer(pem, from, to)
    BY NewAnswers
  <1>2. /\ answer.format = <<Spki>> /\ answer.public_key = pem
        /\ answer.valid_from = from /\ answer.valid_to = to
    BY <1>1 DEF NewAnswer
  <1>3. CutToSeconds(answer) = NewAnswer(pem, ToSeconds(from), ToSeconds(to))
    BY <1>2, CutAnswer DEF NewAnswer
  <1>. QED BY <1>1, <1>3, WrittenReadsBack

\* The key an answer was said of, and what was said.
LEMMA StandsSaid ==
  ASSUME EndPointInv, host = "schedule", NEW said, said.status = 200,
         AnswerStands(host, supplied, now, said)
  PROVE  \E i \in DOMAIN supplied, from \in Moments, to \in Moments \cup {None}, answer \in Answers :
           /\ SaidOf(supplied, said, i, to) /\ from = supplied[i].starts_at /\ said.at <= now
           /\ ReadsAs(said.body, answer, supplied[i].pem, from, to)
  <1>1. PICK i \in DOMAIN supplied, to \in Moments \cup {None} : SaidOf(supplied, said, i, to)
    BY DEF AnswerStands, Stands
  <1>2. said.at <= now
    BY DEF AnswerStands
  <1>3. supplied[i] \in DatedKeys
    BY DEF EndPointInv
  <1>4. PICK pem \in Texts, from \in Moments : pem = supplied[i].pem /\ from = supplied[i].starts_at
    BY <1>3 DEF DatedKeys
  <1>5. said.body = ToJson(NewAnswer(pem, from, to))
    BY <1>1, <1>4 DEF SaidOf
  <1>6. PICK answer \in Answers : ReadsAs(ToJson(NewAnswer(pem, from, to)), answer, pem, from, to)
    BY NewReadsBack
  <1>. QED BY <1>1, <1>2, <1>4, <1>5, <1>6

\* A creator answers with the key in force at the moment the date asks for, the present
\* where that is yet to come, and with none only where no key had started by it.
THEOREM NoKeyBeforeItsTime == EndPointSpec => []NothingBeforeItsTime
  <1>1. EndPointInv => NothingBeforeItsTime
    <2>. SUFFICES ASSUME EndPointInv, response # None, host = "schedule"
                  PROVE  LET moment == AskedFor(asking.date, response.at)
                         IN /\ response.status = 200 =>
                                 /\ response.asked = moment
                                 /\ InForceAt(Parse(response.body).answer.public_key, moment)
                            /\ response.status = 404 =>
                                 \A i \in DOMAIN supplied : supplied[i].starts_at > moment
      BY DEF NothingBeforeItsTime
    <2>1. PICK said, moment : said = response /\ moment = AskedFor(asking.date, said.at)
      OBVIOUS
    <2>2. /\ AnswerStands(host, supplied, now, said)
          /\ HeedsDate(supplied, now, asking.date, said)
      BY <2>1 DEF EndPointInv
    <2>3. /\ said.status = 200 => said.asked = moment
          /\ said.status = 404 => \A i \in DOMAIN supplied : supplied[i].starts_at > moment
      BY <2>1, <2>2 DEF HeedsDate
    <2>4. ASSUME said.status = 200
          PROVE  InForceAt(Parse(said.body).answer.public_key, moment)
      <3>1. PICK i \in DOMAIN supplied, from \in Moments, to \in Moments \cup {None}, answer \in Answers :
              /\ SaidOf(supplied, said, i, to) /\ from = supplied[i].starts_at /\ said.at <= now
              /\ ReadsAs(said.body, answer, supplied[i].pem, from, to)
        BY <2>2, <2>4, StandsSaid
      <3>2. Chosen(supplied, i, moment)
        BY <2>3, <2>4, <3>1 DEF SaidOf
      <3>3. Parse(said.body).answer.public_key = supplied[i].pem
        BY <3>1 DEF ReadsAs
      <3>. QED BY <3>2, <3>3 DEF Chosen, InForceAt, IsInForce
    <2>. QED BY <2>1, <2>3, <2>4
  <1>. QED BY <1>1, EndPointInvariance, PTL

\* A moment is at or after the second it is in, and seconds are in the order of moments.
LEMMA SecondsInOrder ==
  ASSUME NEW a \in Moments, NEW b \in Moments
  PROVE  /\ ToSeconds(a) \in Int /\ ToSeconds(a) <= a /\ ToSeconds(a) # None
         /\ a < b => ToSeconds(a) <= ToSeconds(b)
  <1>1. PICK second \in Nat \ {0} : second = Second
    BY SecondAssumption
  <1>2. PICK x \in Int, y \in Int : x = a /\ y = b
    BY DEF Moments
  <1>3. PICK p \in Int : p = x \div second /\ p * second <= x /\ x < p * second + second
    BY CutTo
  <1>4. PICK q \in Int : q = y \div second /\ q * second <= y /\ y < q * second + second
    BY CutTo
  <1>5. a # None /\ b # None /\ ToSeconds(a) = p * second /\ ToSeconds(b) = q * second
    BY <1>1, <1>2, <1>3, <1>4, TextsAssumption DEF ToSeconds
  <1>6. PICK P \in Int, Q \in Int : P = p * second /\ Q = q * second
    OBVIOUS
  <1>7. x < y => P <= Q
    <2>1. q < p => q * second + second <= p * second
      BY Multiples
    <2>2. p <= q => p * second <= q * second
      BY Multiples
    <2>. QED BY <1>3, <1>4, <1>6, <2>1, <2>2
  <1>8. P # None
    BY TextsAssumption
  <1>. QED BY <1>2, <1>3, <1>5, <1>6, <1>7, <1>8

\* What is written as one second is in one second.
LEMMA SecondsTell ==
  ASSUME NEW a \in Moments, NEW b \in Moments, ToSeconds(a) = ToSeconds(b)
  PROVE  SameSecond(a, b)
  <1>1. PICK second \in Nat \ {0} : second = Second
    BY SecondAssumption
  <1>2. PICK x \in Int, y \in Int : x = a /\ y = b
    BY DEF Moments
  <1>3. PICK p \in Int, q \in Int : p = x \div second /\ q = y \div second
    OBVIOUS
  <1>4. a # None /\ b # None /\ ToSeconds(a) = p * second /\ ToSeconds(b) = q * second
    BY <1>1, <1>2, <1>3, TextsAssumption DEF ToSeconds
  <1>5. PICK P \in Int, Q \in Int : P = p * second /\ Q = q * second
    OBVIOUS
  <1>6. p < q => P + second <= Q
    BY <1>5, Multiples
  <1>7. q < p => Q + second <= P
    BY <1>5, Multiples
  <1>8. P = Q
    BY <1>4, <1>5
  <1>9. p = q
    BY <1>6, <1>7, <1>8
  <1>. QED BY <1>1, <1>2, <1>3, <1>9 DEF SameSecond

\* The creator's own answers pass the check without a moment, but where the start and the
\* end are written as one second.
LEMMA RefusedWhereShared ==
  ASSUME EndPointInv, host # "anyone", NEW said, said.status = 200,
         AnswerStands(host, supplied, now, said)
  PROVE  /\ Parse(said.body).json
         /\ \/ Validates(Parse(said.body).answer, None)
            \/ \E i, j \in DOMAIN supplied :
                 /\ supplied[i].starts_at \in Moments /\ supplied[j].starts_at \in Moments
                 /\ supplied[i].starts_at < supplied[j].starts_at
                 /\ ToSeconds(supplied[i].starts_at) = ToSeconds(supplied[j].starts_at)
  <1>1. CASE host = "schedule"
    <2>1. PICK i \in DOMAIN supplied, from \in Moments, to \in Moments \cup {None}, answer \in Answers :
            /\ SaidOf(supplied, said, i, to) /\ from = supplied[i].starts_at
            /\ ReadsAs(said.body, answer, supplied[i].pem, from, to)
      BY <1>1, StandsSaid
    <2>2. /\ Parse(said.body).json = TRUE /\ Parse(said.body).answer = answer
          /\ answer.format = <<Spki>> /\ answer.public_key \in Readable
          /\ answer.valid_from = ToSeconds(from) /\ answer.valid_to = ToSeconds(to)
      BY <2>1 DEF ReadsAs, SaidOf
    <2>3. CASE to = None
      <3>1. answer.valid_to = None
        BY <2>2, <2>3 DEF ToSeconds
      <3>2. Validates(answer, None)
        BY <2>2, <3>1 DEF Validates
      <3>. QED BY <2>2, <3>2
    <2>4. CASE to # None
      <3>1. PICK j \in DOMAIN supplied, asked \in Nat :
              /\ supplied[j].starts_at = to /\ to \in Moments
              /\ asked = said.asked /\ asked < to /\ from <= asked
        BY <2>1, <2>4 DEF SaidOf, EndsAtStart, Chosen
      <3>2. from < to
        BY <3>1 DEF Moments
      <3>3. /\ ToSeconds(from) \in Int /\ ToSeconds(to) \in Int /\ ToSeconds(from) # None
            /\ ToSeconds(from) <= ToSeconds(to)
        BY <3>1, <3>2, SecondsInOrder
      <3>4. CASE ToSeconds(from) = ToSeconds(to)
        BY <2>1, <2>2, <3>1, <3>2, <3>4
      <3>5. CASE ToSeconds(from) # ToSeconds(to)
        <4>1. ToSeconds(from) < ToSeconds(to)
          BY <3>3, <3>5
        <4>2. Validates(answer, None)
          BY <2>2, <3>3, <4>1 DEF Validates
        <4>. QED BY <2>2, <4>2
      <3>. QED BY <3>4, <3>5
    <2>. QED BY <2>3, <2>4
  <1>2. CASE host # "schedule"
    <2>1. SaidAlone(said)
      BY <1>2 DEF AnswerStands
    <2>2. PICK pem \in Texts : pem = PemTexts[1] /\ pem \in Readable
      BY <2>1, TextsAssumption DEF SaidAlone, Texts
    <2>3. said.body = ToJson(NewAnswer(pem, None, None))
      BY <2>1, <2>2 DEF SaidAlone
    <2>4. PICK answer \in Answers :
            ReadsAs(ToJson(NewAnswer(pem, None, None)), answer, pem, None, None)
      BY NewReadsBack
    <2>5. /\ Parse(said.body).json = TRUE /\ Parse(said.body).answer = answer
          /\ answer.format = <<Spki>> /\ answer.public_key = pem
          /\ answer.valid_to = ToSeconds(None)
      BY <2>3, <2>4 DEF ReadsAs
    <2>6. ToSeconds(None) = None
      BY DEF ToSeconds
    <2>7. Validates(answer, None)
      BY <2>2, <2>5, <2>6 DEF Validates
    <2>. QED BY <2>5, <2>7
  <1>. QED BY <1>1, <1>2

\* Where a creator's answer cannot be read as a key, two of its keys start in one second.
THEOREM FaultsAreSharedSeconds == EndPointSpec => []FaultIsASharedSecond
  <1>1. EndPointInv => FaultIsASharedSecond
    <2>. SUFFICES ASSUME EndPointInv, outcome # None, host # "anyone", outcome.key.failure = "Key"
                  PROVE  \E i, j \in DOMAIN supplied :
                           /\ supplied[i].starts_at < supplied[j].starts_at
                           /\ SameSecond(supplied[i].starts_at, supplied[j].starts_at)
      BY DEF FaultIsASharedSecond
    <2>1. PICK said, read : said = outcome.said /\ read = Parse(said.body)
      OBVIOUS
    <2>2. AnswerStands(host, supplied, now, said) /\ RequestPublicKey(said).failure = "Key"
      BY <2>1 DEF EndPointInv
    <2>3. said.status = 200 /\ ~(read.json /\ Validates(read.answer, None))
      <3>1. RequestPublicKey(said) =
              IF said.status # 200 THEN Fails("Http")
              ELSE IF ~read.json THEN Fails("Key")
              ELSE IF ~Validates(read.answer, None) THEN Fails("Key")
              ELSE [failure |-> "none", pem |-> read.answer.public_key,
                    start |-> OptionMinute(read.answer.valid_from),
                    end |-> OptionMinute(read.answer.valid_to)]
        BY <2>1 DEF RequestPublicKey
      <3>2. Fails("Http").failure = "Http"
        BY DEF Fails
      <3>. QED BY <2>2, <3>1, <3>2
    <2>4. PICK i \in DOMAIN supplied, j \in DOMAIN supplied :
            /\ supplied[i].starts_at \in Moments /\ supplied[j].starts_at \in Moments
            /\ supplied[i].starts_at < supplied[j].starts_at
            /\ ToSeconds(supplied[i].starts_at) = ToSeconds(supplied[j].starts_at)
      BY <2>1, <2>2, <2>3, RefusedWhereShared
    <2>. QED BY <2>4, SecondsTell
  <1>. QED BY <1>1, EndPointInvariance, PTL

\* A creator whose keys all start on the second sends nothing it would refuse.
THEOREM OnTheSecondNothingIsRefused ==
  ASSUME \A start \in Starts : start % Second = 0
  PROVE  EndPointSpec => []NeverSendsRefused
  <1>1. ASSUME NEW start \in Moments, start \in Starts PROVE ToSeconds(start) = start
    <2>1. PICK second \in Nat \ {0} : second = Second
      BY SecondAssumption
    <2>2. PICK x \in Int : x = start /\ x % second = 0
      BY <1>1, <2>1 DEF Moments
    <2>3. x = second * (x \div second) + (x % second)
      OBVIOUS
    <2>4. (x \div second) * second = x
      BY <2>2, <2>3
    <2>. QED BY <2>1, <2>2, <2>4, TextsAssumption DEF ToSeconds
  <1>2. EndPointInv => NeverSendsRefused
    <2>. SUFFICES ASSUME EndPointInv, response # None, response.status = 200, host # "anyone"
                  PROVE  Validates(Parse(response.body).answer, None)
      BY DEF NeverSendsRefused
    <2>1. ASSUME NEW i \in DOMAIN supplied, NEW j \in DOMAIN supplied,
                 supplied[i].starts_at \in Moments, supplied[j].starts_at \in Moments,
                 supplied[i].starts_at < supplied[j].starts_at,
                 ToSeconds(supplied[i].starts_at) = ToSeconds(supplied[j].starts_at)
          PROVE  FALSE
      <3>1. PICK a \in Moments, b \in Moments :
              a = supplied[i].starts_at /\ b = supplied[j].starts_at /\ a \in Starts /\ b \in Starts
        BY <2>1 DEF EndPointInv
      <3>2. a = b
        BY <1>1, <2>1, <3>1
      <3>3. a \in Int /\ a < a
        BY <2>1, <3>1, <3>2 DEF Moments
      <3>. QED BY <3>3
    <2>2. AnswerStands(host, supplied, now, response)
      BY DEF EndPointInv
    <2>. QED BY <2>1, <2>2, RefusedWhereShared
  <1>. QED BY <1>2, EndPointInvariance, PTL

\* What a creator sends reads as what it meant by the keys it then had, and it answers with
\* a fault only where a key of its cannot be read.
THEOREM WhatIsSentIsMeant == EndPointSpec => SentReadsAsMeant
  <1>. DEFINE Sent == response = None /\ response' # None /\ host # "anyone" =>
                /\ response'.status = 200 =>
                     /\ Parse(response'.body).json
                     /\ IsMeant(Parse(response'.body).answer, response'.asked)
                /\ response'.status = 500 => \E i \in DOMAIN supplied : supplied[i].pem \notin Readable
  <1>1. ASSUME EndPointInv, EndPointNext, response = None, response' # None, host # "anyone"
        PROVE  /\ response'.status = 200 =>
                    /\ Parse(response'.body).json
                    /\ IsMeant(Parse(response'.body).answer, response'.asked)
               /\ response'.status = 500 => \E i \in DOMAIN supplied : supplied[i].pem \notin Readable
    <2>1. Serve
      BY <1>1 DEF EndPointNext, Publish, Tick, Ask, ServeElsewhere, ReadAnswer
    <2>2. PICK said : said = response'
      OBVIOUS
    <2>5. asking.date \in Dates \cup {None}
      BY <1>1, <2>1 DEF Serve, EndPointInv
    <2>3. CASE host = "schedule"
      <3>1. said = PublicKeyResponseAt(asking.format, asking.date)
        BY <2>1, <2>2, <2>3 DEF Serve
      <3>2. /\ AnswerStands(host, supplied, now, said)
            /\ said.status = 200 =>
                 \E i \in DOMAIN supplied, to \in Moments \cup {None} :
                   SaidOf(supplied, said, i, to) /\ IsEndOf(i, to)
        BY <1>1, <2>3, <2>5, <3>1, ScheduleAnswers
      <3>3. ASSUME said.status = 200
            PROVE  Parse(said.body).json /\ IsMeant(Parse(said.body).answer, said.asked)
        <4>1. PICK i \in DOMAIN supplied, to \in Moments \cup {None} :
                SaidOf(supplied, said, i, to) /\ IsEndOf(i, to)
          BY <3>2, <3>3
        <4>2. PICK pem \in Texts, from \in Moments : pem = supplied[i].pem /\ from = supplied[i].starts_at
          <5>1. supplied[i] \in DatedKeys
            BY <1>1 DEF EndPointInv
          <5>. QED BY <5>1 DEF DatedKeys
        <4>3. said.body = ToJson(NewAnswer(pem, from, to))
          BY <4>1, <4>2 DEF SaidOf
        <4>4. PICK answer : answer = NewAnswer(pem, ToSeconds(from), ToSeconds(to))
                            /\ Parse(said.body).json = TRUE /\ Parse(said.body).answer = answer
          BY <4>3, NewReadsExactly
        <4>5. IsInForce(i, said.asked)
          BY <4>1 DEF SaidOf, Chosen, IsInForce
        <4>6. to \in {supplied[j].starts_at : j \in DOMAIN supplied} \cup {None}
          BY <4>1 DEF SaidOf, EndsAtStart
        <4>. QED BY <2>3, <4>1, <4>2, <4>4, <4>5, <4>6 DEF IsMeant
      <3>. QED BY <2>2, <2>3, <3>2, <3>3 DEF AnswerStands
    <2>4. CASE host # "schedule"
      <3>1. said = PublicKeyResponse(asking.format)
        BY <2>1, <2>2, <2>4 DEF Serve
      <3>2. AnswerStands(host, supplied, now, said)
        BY <1>1, <2>4, <3>1, AloneAnswers
      <3>3. ASSUME said.status = 200
            PROVE  Parse(said.body).json /\ IsMeant(Parse(said.body).answer, said.asked)
        <4>1. SaidAlone(said)
          BY <1>1, <2>4, <3>2, <3>3 DEF AnswerStands
        <4>2. PICK pem \in Texts : pem = PemTexts[1]
          BY <4>1, TextsAssumption DEF SaidAlone, Texts
        <4>3. said.body = ToJson(NewAnswer(pem, None, None))
          BY <4>1, <4>2 DEF SaidAlone
        <4>4. PICK answer : answer = NewAnswer(pem, ToSeconds(None), ToSeconds(None))
                            /\ Parse(said.body).json = TRUE /\ Parse(said.body).answer = answer
          BY <4>3, NewReadsExactly
        <4>5. ToSeconds(None) = None
          BY DEF ToSeconds
        <4>. QED BY <2>4, <4>2, <4>4, <4>5 DEF IsMeant
      <3>. QED BY <1>1, <2>2, <3>2, <3>3 DEF AnswerStands
    <2>. QED BY <2>3, <2>4
  <1>2. EndPointInv /\ [EndPointNext]_endPointVars => [Sent]_endPointVars
    BY <1>1
  <1>. QED BY <1>2, EndPointInvariance, PTL DEF EndPointSpec, SentReadsAsMeant

\* What was said of a key stays true at every whole minute of its period, however many
\* keys were added since and however much time has passed.
THEOREM SpansStayTrue == EndPointSpec => []SpanStaysTrue
  <1>1. EndPointInv => SpanStaysTrue
    <2>. SUFFICES ASSUME EndPointInv, HasKey, host = "schedule"
                  PROVE  LET key == outcome.key
                         IN /\ InForceAt(key.pem, outcome.said.asked)
                            /\ \A minute \in 0 .. Horizon \div Minute :
                                 /\ key.start # None /\ key.start < minute
                                 /\ IF key.end # None THEN minute < key.end
                                    ELSE minute * Minute <= outcome.said.at
                                 => InForceAt(key.pem, minute * Minute)
      BY DEF SpanStaysTrue
    <2>1. PICK said, key : said = outcome.said /\ key = outcome.key
      OBVIOUS
    <2>2. /\ AnswerStands(host, supplied, now, said) /\ said.body \in Texts
          /\ key = RequestPublicKey(said) /\ key.failure = "none"
      BY <2>1 DEF HasKey, EndPointInv, AnswerStands
    <2>3. PICK answer \in Answers :
            /\ said.status = 200 /\ Parse(said.body).answer = answer /\ key.pem = answer.public_key
            /\ key.start = OptionMinute(answer.valid_from)
            /\ key.end = OptionMinute(answer.valid_to)
      BY <2>2, KeyRead, ZenonT(30)
    <2>4. PICK i \in DOMAIN supplied, start \in Moments, to \in Moments \cup {None} :
            /\ SaidOf(supplied, said, i, to) /\ start = supplied[i].starts_at
            /\ answer.public_key = supplied[i].pem
            /\ answer.valid_from = ToSeconds(start) /\ answer.valid_to = ToSeconds(to)
      <3>1. PICK i \in DOMAIN supplied, start \in Moments, to \in Moments \cup {None}, meant \in Answers :
              /\ SaidOf(supplied, said, i, to) /\ start = supplied[i].starts_at
              /\ ReadsAs(said.body, meant, supplied[i].pem, start, to)
        BY <2>2, <2>3, StandsSaid
      <3>. QED BY <2>3, <3>1 DEF ReadsAs
    <2>5. InForceAt(key.pem, said.asked)
      BY <2>3, <2>4 DEF SaidOf, Chosen, InForceAt, IsInForce
    <2>6. PICK asked \in Nat, at \in Nat : asked = said.asked /\ at = said.at /\ asked <= at
      BY <2>4 DEF SaidOf
    <2>7. key.start = MinutesSinceBase(ToSeconds(start))
      BY <2>3, <2>4, SecondsInOrder DEF OptionMinute
    <2>8. /\ to = None => key.end = None
          /\ to # None => /\ key.end = MinutesSinceBase(ToSeconds(to)) /\ to \in Moments /\ 0 < to
      <3>1. CASE to = None
        BY <2>3, <2>4, <3>1 DEF OptionMinute, ToSeconds
      <3>2. CASE to # None
        <4>1. to \in Moments /\ to \in Int /\ asked < to
          BY <2>4, <2>6, <3>2 DEF SaidOf, EndsAtStart, Moments
        <4>2. key.end = MinutesSinceBase(ToSeconds(to))
          BY <2>3, <2>4, <4>1, SecondsInOrder DEF OptionMinute
        <4>. QED BY <2>6, <3>2, <4>1, <4>2
      <3>. QED BY <3>1, <3>2
    <2>9. ASSUME NEW minute \in 0 .. Horizon \div Minute,
                 key.start # None, key.start < minute,
                 IF key.end # None THEN minute < key.end ELSE minute * Minute <= at
          PROVE  InForceAt(key.pem, minute * Minute)
      <3>1. minute \in Nat /\ minute * Minute \in Nat
        <4>1. PICK unit \in Nat \ {0}, horizon \in Nat : unit = Minute /\ horizon = Horizon
          BY ClockAssumption
        <4>2. horizon \div unit \in Int
          OBVIOUS
        <4>3. minute \in Nat
          BY <4>1, <4>2
        <4>4. minute * unit \in Nat
          BY <4>3
        <4>. QED BY <4>1, <4>3, <4>4
      <3>2. start <= minute * Minute
        BY <2>7, <2>9, <3>1, StartBefore
      <3>3. to # None => minute * Minute < to
        BY <2>8, <2>9, EndAfter
      <3>4. to = None => minute * Minute <= at
        BY <2>8, <2>9
      <3>5. PICK moment \in Nat : moment = minute * Minute
        BY <3>1
      <3>6. \A j \in DOMAIN supplied : supplied[j].starts_at \in Int
        <4>1. \A j \in DOMAIN supplied : supplied[j] \in DatedKeys
          BY DEF EndPointInv
        <4>2. \A dated \in DatedKeys : dated.starts_at \in Int
          BY DEF DatedKeys, Moments
        <4>. QED BY <4>1, <4>2
      <3>7. ASSUME NEW j \in DOMAIN supplied
            PROVE  \/ supplied[j].starts_at > moment
                   \/ supplied[j].starts_at < supplied[i].starts_at
                   \/ supplied[j].starts_at = supplied[i].starts_at /\ i <= j
        <4>1. PICK other \in Int : other = supplied[j].starts_at
          BY <3>6
        <4>2. \/ other < start
              \/ other = start /\ i <= j
              \/ to # None /\ to <= other
              \/ to = None /\ at < other
          BY <2>4, <2>6, <4>1 DEF SaidOf, Within
        <4>3. ASSUME to # None, to <= other PROVE other > moment
          <5>1. to \in Int /\ moment < to
            BY <2>8, <3>3, <3>5, <4>3 DEF Moments
          <5>. QED BY <4>3, <5>1
        <4>4. ASSUME to = None, at < other PROVE other > moment
          <5>1. moment <= at
            BY <3>4, <3>5, <4>4
          <5>. QED BY <4>4, <5>1
        <4>. QED BY <2>4, <4>1, <4>2, <4>3, <4>4
      <3>8. InForceAt(key.pem, moment)
        BY <2>3, <2>4, <3>2, <3>5, <3>7 DEF InForceAt, IsInForce
      <3>. QED BY <3>5, <3>8
    <2>10. \A minute \in 0 .. Horizon \div Minute :
             /\ key.start # None /\ key.start < minute
             /\ IF key.end # None THEN minute < key.end ELSE minute * Minute <= at
             => InForceAt(key.pem, minute * Minute)
      BY <2>9
    <2>. QED BY <2>1, <2>5, <2>6, <2>10
  <1>. QED BY <1>1, EndPointInvariance, PTL
=============================================================================
