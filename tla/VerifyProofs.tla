---------------------------- MODULE VerifyProofs ----------------------------
(***************************************************************************)
(* Proofs about Verify, for every allowance, limit, present, schedule and  *)
(* number of verifications: the cache does not show in a verdict, retired  *)
(* keys cannot sign, and genuine identifiers are judged as they should be. *)
(***************************************************************************)
EXTENDS Verify, KeyCacheProofs, SequenceTheorems

(***************************************************************************)
(* What the results assume of creators.  A creator's keys start on whole   *)
(* minutes, the only moments that can be asked about, and no two together; *)
(* and, for the verdict on identifiers signed by a machine whose clock     *)
(* drifts, no key is in force for less than the allowance.                 *)
(***************************************************************************)
StartsOnMinutes ==
  \A schedule \in Schedules, p \in Pems :
    schedule[p] # None => \E minute \in Int : schedule[p] = minute * Resolution

StartsApart ==
  \A schedule \in Schedules, p, q \in Pems :
    p # q /\ schedule[p] # None => schedule[p] # schedule[q]

StartsSpaced ==
  \A schedule \in Schedules, p, q \in Pems :
    schedule[p] # None /\ schedule[q] # None /\ schedule[p] < schedule[q]
      => schedule[q] - schedule[p] >= Allowance * Resolution

-----------------------------------------------------------------------------
(***************************************************************************)
(* Ticks and minutes.                                                      *)
(***************************************************************************)

\* Multiplying by the ticks of a minute keeps the order.
LEMMA TicksMonotone ==
  ASSUME NEW a \in Int, NEW b \in Int
  PROVE  /\ a * Resolution \in Int
         /\ a <= b <=> a * Resolution <= b * Resolution
         /\ a < b <=> a * Resolution < b * Resolution
         /\ a < 0 <=> a * Resolution < 0
         /\ (a + 1) * Resolution = a * Resolution + Resolution
         /\ (a - 1) * Resolution = a * Resolution - Resolution
  <1>1. Resolution \in Nat /\ Resolution > 0
    BY TicksAssumption
  <1>2. a * Resolution \in Int /\ b * Resolution \in Int
    BY <1>1
  <1>3. /\ (a + 1) * Resolution = a * Resolution + Resolution
        /\ (a - 1) * Resolution = a * Resolution - Resolution
    BY <1>1
  <1>4. ASSUME NEW c \in Int, NEW d \in Int, c < d
        PROVE  c * Resolution < d * Resolution
    <2>1. (d - c) * Resolution >= 1 * Resolution
      BY <1>1, <1>4
    <2>2. (d - c) * Resolution = d * Resolution - c * Resolution
      BY <1>1
    <2>. QED BY <1>1, <2>1, <2>2
  <1>5. a < b => a * Resolution < b * Resolution
    BY <1>4
  <1>6. b < a => b * Resolution < a * Resolution
    BY <1>4
  <1>7. a = b => a * Resolution = b * Resolution
    OBVIOUS
  <1>8. a < 0 <=> a * Resolution < 0
    <2>1. a < 0 => a * Resolution < 0 * Resolution
      BY <1>4
    <2>2. 0 < a => 0 * Resolution < a * Resolution
      BY <1>4
    <2>3. 0 * Resolution = 0
      BY <1>1
    <2>. HIDE <1>4
    <2>. QED BY <1>2, <2>1, <2>2, <2>3
  <1>. QED BY <1>2, <1>3, <1>5, <1>6, <1>7, <1>8

\* A whole number of minutes is counted exactly, where it can be counted.
LEMMA WholeMinute ==
  ASSUME NEW minute \in Int
  PROVE  MinutesSinceBase(minute * Resolution)
           = IF minute \in Minutes THEN minute ELSE None
  <1>1. Resolution \in Nat /\ Resolution > 0 /\ MaxMinute \in Nat
    BY TicksAssumption, MinutesAssumption
  <1>2. minute * Resolution \in Int /\ (MaxMinute + 1) * Resolution \in Int
    BY <1>1
  <1>3. minute * Resolution <= -Resolution <=> minute <= -1
    <2>1. (-1) * Resolution = -Resolution
      BY <1>1
    <2>2. minute <= -1 <=> minute * Resolution <= (-1) * Resolution
      BY TicksMonotone
    <2>. QED BY <2>1, <2>2
  <1>4. minute * Resolution >= (MaxMinute + 1) * Resolution <=> minute >= MaxMinute + 1
    BY <1>1, TicksMonotone
  <1>5. minute * Resolution < 0 <=> minute < 0
    BY TicksMonotone
  <1>6. (minute * Resolution) \div Resolution = minute
    BY <1>1
  <1>. QED BY <1>1, <1>3, <1>4, <1>5, <1>6 DEF MinutesSinceBase, Minutes

\* A moment that can be counted is in the minute it is counted as.
LEMMA CountedMinute ==
  ASSUME NEW tick \in 0 .. (MaxMinute + 1) * Resolution - 1
  PROVE  /\ MinutesSinceBase(tick) \in Minutes
         /\ MinutesSinceBase(tick) * Resolution <= tick
         /\ tick < (MinutesSinceBase(tick) + 1) * Resolution
  <1>. DEFINE minute == tick \div Resolution
  <1>1. Resolution \in Nat /\ Resolution > 0 /\ MaxMinute \in Nat
    BY TicksAssumption, MinutesAssumption
  <1>2. (MaxMinute + 1) * Resolution \in Nat
    BY <1>1
  <1>3. tick \in Nat /\ tick < (MaxMinute + 1) * Resolution
    BY <1>2
  <1>4. minute \in Int
    BY <1>1, <1>3
  <1>5. minute * Resolution <= tick /\ tick < minute * Resolution + Resolution
    BY <1>1, <1>3
  <1>6. MinutesSinceBase(tick) = minute
    BY <1>1, <1>2, <1>3 DEF MinutesSinceBase
  <1>. HIDE DEF minute
  <1>7. minute < MaxMinute + 1
    BY <1>1, <1>3, <1>4, <1>5, TicksMonotone
  <1>8. 0 <= minute
    <2>1. minute * Resolution + Resolution > 0
      BY <1>1, <1>3, <1>4, <1>5
    <2>2. ~(minute < 0)
      <3>1. ASSUME minute < 0 PROVE FALSE
        <4>1. minute + 1 <= 0 /\ minute + 1 \in Int
          BY <1>4, <3>1
        <4>2. (minute + 1) * Resolution <= 0 * Resolution
          BY <4>1, TicksMonotone
        <4>3. (minute + 1) * Resolution = minute * Resolution + Resolution
          BY <1>4, TicksMonotone
        <4>. QED BY <1>1, <1>4, <2>1, <4>2, <4>3
      <3>. QED BY <3>1
    <2>. QED BY <1>4, <2>2
  <1>. QED BY <1>1, <1>4, <1>5, <1>6, <1>7, <1>8, TicksMonotone DEF Minutes

-----------------------------------------------------------------------------
(***************************************************************************)
(* The creator.                                                            *)
(***************************************************************************)

\* Any natural numbers there are have a least one among them.
LEMMA LeastNatural ==
  ASSUME NEW S \in SUBSET Nat, S # {}
  PROVE  \E least \in S : \A n \in S : least <= n
  <1>1. PICK least \in S : \A n \in S : <<n, least>> \notin OpToRel(<, Nat)
    BY NatLessThanWellFounded, WFMin, Zenon
  <1>2. \A n \in S : ~(n < least)
    BY <1>1 DEF OpToRel
  <1>. QED BY <1>2

\* What is assumed of the creator at hand.
Scheduled == StartsOnMinutes /\ StartsApart /\ starts \in Schedules

\* Starts are whole minutes and no two keys share one.
LEMMA StartFacts ==
  ASSUME Scheduled
  PROVE  /\ \A p \in Published : /\ p \in Pems /\ starts[p] \in Int
                                /\ \E minute \in Int : starts[p] = minute * Resolution
         /\ \A p, q \in Published : starts[p] = starts[q] => p = q
  <1>1. starts \in [Pems -> Int \cup {None}]
    BY SchedulesAssumption DEF Scheduled
  <1>2. \A p \in Published : p \in Pems /\ starts[p] # None /\ starts[p] \in Int
    BY <1>1 DEF Published
  <1>3. \A p \in Published : \E minute \in Int : starts[p] = minute * Resolution
    BY <1>2 DEF Scheduled, StartsOnMinutes
  <1>4. \A p, q \in Published : starts[p] = starts[q] => p = q
    BY <1>2 DEF Scheduled, StartsApart
  <1>. QED BY <1>2, <1>3, <1>4

\* No two keys are in force at one moment.
LEMMA OneInForce ==
  ASSUME Scheduled, NEW tick \in Int, NEW p, NEW q, InForceAt(p, tick), InForceAt(q, tick)
  PROVE  p = q
  <1>1. /\ p \in Published /\ q \in Published /\ starts[p] <= tick /\ starts[q] <= tick
        /\ starts[q] <= starts[p] \/ starts[q] > tick
        /\ starts[p] <= starts[q] \/ starts[p] > tick
    BY DEF InForceAt
  <1>2. starts[p] \in Int /\ starts[q] \in Int
    BY <1>1, StartFacts
  <1>3. starts[p] = starts[q]
    BY <1>1, <1>2
  <1>. QED BY <1>1, <1>3, StartFacts

\* A key in force at two moments is in force between them.
LEMMA InForceBetween ==
  ASSUME Scheduled, NEW p, NEW a \in Int, NEW b \in Int, NEW tick \in a .. b,
         InForceAt(p, a), InForceAt(p, b)
  PROVE  InForceAt(p, tick)
  BY StartFacts DEF InForceAt

\* A key in force when a minute begins is in force all through it.
LEMMA InForceAllMinute ==
  ASSUME Scheduled, NEW p, NEW minute \in Int, InForceAt(p, minute * Resolution)
  PROVE  InForceAt(p, (minute + 1) * Resolution - 1)
  <1>1. Resolution \in Nat /\ Resolution > 0
    BY TicksAssumption
  <1>2. /\ minute * Resolution \in Int
        /\ (minute + 1) * Resolution = minute * Resolution + Resolution
    BY TicksMonotone
  <1>3. ASSUME NEW later \in Published
        PROVE  starts[later] <= starts[p] \/ starts[later] > (minute + 1) * Resolution - 1
    <2>1. PICK start \in Int : starts[later] = start * Resolution
      BY StartFacts
    <2>2. starts[later] <= starts[p] \/ starts[later] > minute * Resolution
      BY DEF InForceAt
    <2>3. start > minute => start * Resolution >= (minute + 1) * Resolution
      <3>1. minute + 1 \in Int /\ (start > minute => minute + 1 <= start)
        OBVIOUS
      <3>. QED BY <3>1, TicksMonotone
    <2>4. start * Resolution > minute * Resolution => start > minute
      BY TicksMonotone
    <2>5. start * Resolution \in Int
      BY TicksMonotone
    <2>. QED BY <1>1, <1>2, <2>1, <2>2, <2>3, <2>4, <2>5
  <1>4. p \in Published /\ starts[p] \in Int /\ starts[p] <= minute * Resolution
    BY StartFacts DEF InForceAt
  <1>. QED BY <1>1, <1>2, <1>3, <1>4 DEF InForceAt

\* The next start is the first of the starts after a key's own.
LEMMA NextStarts ==
  ASSUME Scheduled, NEW p \in Published
  PROVE  \/ /\ NextStart(p) = None
            /\ \A q \in Published : starts[q] <= starts[p]
         \/ \E q \in Published :
              /\ starts[q] > starts[p]
              /\ NextStart(p) = MinutesSinceBase(starts[q])
              /\ \A r \in Published : starts[r] > starts[p] => starts[q] <= starts[r]
  <1>. DEFINE later == {q \in Published : starts[q] > starts[p]}
              Least(t) == t \in {starts[q] : q \in later} /\ \A q \in later : t <= starts[q]
  <1>1. \A q \in Published : starts[q] \in Int
    BY StartFacts
  <1>2. CASE later = {}
    BY <1>1, <1>2 DEF NextStart
  <1>3. CASE later # {}
    <2>. DEFINE After == {starts[q] - starts[p] : q \in later}
    <2>1. After \in SUBSET Nat /\ After # {}
      BY <1>1, <1>3
    <2>2. PICK least \in After : \A n \in After : least <= n
      BY <2>1, LeastNatural
    <2>3. PICK q \in later : least = starts[q] - starts[p]
      BY <2>2
    <2>4. \A r \in later : starts[q] <= starts[r]
      BY <1>1, <2>2, <2>3
    <2>5. Least(starts[q])
      BY <2>4
    <2>6. \A t : Least(t) => t = starts[q]
      <3>1. ASSUME NEW t, Least(t) PROVE t = starts[q]
        <4>1. PICK r \in later : t = starts[r]
          BY <3>1
        <4>. QED BY <1>1, <2>4, <3>1, <4>1
      <3>. QED BY <3>1
    <2>7. (CHOOSE t : Least(t)) = starts[q]
      BY <2>5, <2>6
    <2>8. NextStart(p) = MinutesSinceBase(CHOOSE t \in {starts[r] : r \in later} :
                                             \A r \in later : t <= starts[r])
      BY <1>3 DEF NextStart
    <2>9. NextStart(p) = MinutesSinceBase(starts[q])
      BY <2>7, <2>8
    <2>. QED BY <2>3, <2>4, <2>9
  <1>. QED BY <1>2, <1>3

-----------------------------------------------------------------------------
(***************************************************************************)
(* The inductive invariant: what is held is what the creator would answer, *)
(* and every verification has met only what the creator would answer, or   *)
(* has missed an answer.                                                   *)
(***************************************************************************)

\* What the creator states of a key's span.
StartStated(pem) == IF stating THEN MinutesSinceBase(starts[pem]) ELSE None
EndStated(pem) == IF stating THEN NextStart(pem) ELSE None

\* What is held of a key is what the creator states of it, and the key is the
\* one in force at every minute it is held for.
TrueToCreator(key) ==
  /\ key.end_point = Creator
  /\ key.pem \in Published
  /\ Stated(key) = StatedBy(key.pem, StartStated(key.pem), EndStated(key.pem))
  /\ key.explicit <=> WholeSpan(StartStated(key.pem), EndStated(key.pem))
  /\ key.open_ended <=> StartStated(key.pem) # None /\ ~key.explicit
  /\ stating => /\ starts[key.pem] <= Now
                /\ \A minute \in key.first .. key.last : InForceAt(key.pem, minute * Resolution)

\* The last key asked for is the one the creator would answer, or was missed.
Answered(v, minute) ==
  \/ answer[v] = FreshKey(minute)
  \/ missed[v] /\ \E failure \in Failures : answer[v] = Failed(failure)

\* The creator's own answer for the minute is the key that signed.
Signs(minute, pem) == Served(FreshKey(minute)) /\ FreshKey(minute).pem = pem

Near(v) == MinutesBeyond(tried[v], MinuteOf(owid[v]))

\* The identifier is being looked for beyond the edges of a key that is not its
\* own: the minutes left are some of those beyond, and no other one of them,
\* but that just asked for, is known to be its key's.
Looking(v, asked) ==
  /\ tried[v] = FreshKey(MinuteOf(owid[v]))
  /\ Served(tried[v]) /\ tried[v].pem # owid[v].pem
  /\ beyond[v] \in Seq(Minutes)
  /\ \A i \in DOMAIN beyond[v] : \E j \in DOMAIN Near(v) : Near(v)[j] = beyond[v][i]
  /\ \A minute \in asked : \E j \in DOMAIN Near(v) : Near(v)[j] = minute
  /\ ~missed[v] =>
       \A j \in DOMAIN Near(v) :
         \/ \E i \in DOMAIN beyond[v] : beyond[v][i] = Near(v)[j]
         \/ Near(v)[j] \in asked
         \/ ~Signs(Near(v)[j], owid[v].pem)

VerifierInv(v) ==
  /\ pc[v] # "idle" => owid[v] \in Owids
  /\ pc[v] = "select" => ~missed[v]
  /\ pc[v] = "judge" => Answered(v, MinuteOf(owid[v]))
  /\ pc[v] = "beyond" => Looking(v, {})
  /\ pc[v] = "compare" => \E minute \in Minutes : Answered(v, minute) /\ Looking(v, {minute})
  /\ pc[v] = "done" => /\ ~missed[v] => verdict[v] = FreshVerdict(owid[v])
                       /\ verdict[v] = "Valid" => FreshVerdict(owid[v]) = "Valid"

\* The part of the invariant that is about the creator and what is held.
TruthInv ==
  /\ CacheInv
  /\ starts \in Schedules /\ stating \in BOOLEAN
  /\ ~stating => \E p \in Pems : Published = {p}
  /\ \A key \in keys : TrueToCreator(key)

VerifyInv ==
  /\ TruthInv
  /\ pc \in [Verifiers -> {"idle", "select", "judge", "beyond", "compare", "done"}]
  /\ missed \in [Verifiers -> BOOLEAN]
  /\ DOMAIN owid = Verifiers /\ DOMAIN answer = Verifiers /\ DOMAIN tried = Verifiers
  /\ DOMAIN beyond = Verifiers /\ DOMAIN verdict = Verifiers
  /\ \A v \in Verifiers : VerifierInv(v)

-----------------------------------------------------------------------------
(***************************************************************************)
(* What the creator answers.                                               *)
(***************************************************************************)

\* The moment the creator reads a minute as.
Asked(minute) == IF minute * Resolution > Now THEN Now ELSE minute * Resolution

\* The key is what the creator answers the minute with.
AnsweredBy(pem, minute) ==
  pem \in Published /\ (stating => InForceAt(pem, Asked(minute)))

\* The edges of what is stated are minutes or nothing.
LEMMA StatedType ==
  ASSUME Scheduled, stating \in BOOLEAN, NEW p \in Published
  PROVE  StartStated(p) \in OptionMinutes /\ EndStated(p) \in OptionMinutes
  <1>1. \A q \in Published : MinutesSinceBase(starts[q]) \in OptionMinutes
    BY StartFacts, WholeMinute DEF OptionMinutes
  <1>2. None \in OptionMinutes
    BY DEF OptionMinutes
  <1>3. NextStart(p) \in OptionMinutes
    BY <1>1, <1>2, NextStarts
  <1>. QED BY <1>1, <1>2, <1>3 DEF StartStated, EndStated

\* The minutes of a span stated whole, and every minute from the start of a
\* span left open, begin with the key in force.
LEMMA StatedSpan ==
  ASSUME Scheduled, stating, NEW p \in Published, StartStated(p) # None
  PROVE  /\ StartStated(p) \in Minutes
         /\ starts[p] = StartStated(p) * Resolution
         /\ \A minute \in Minutes :
              /\ StartStated(p) <= minute
              /\ WholeSpan(StartStated(p), EndStated(p)) => minute < EndStated(p)
              => InForceAt(p, minute * Resolution)
  <1>1. PICK start \in Int : starts[p] = start * Resolution
    BY StartFacts
  <1>2. StartStated(p) = start /\ start \in Minutes
    BY <1>1, WholeMinute DEF StartStated
  <1>3. ASSUME NEW minute \in Minutes, start <= minute,
               WholeSpan(StartStated(p), EndStated(p)) => minute < EndStated(p),
               NEW q \in Published, starts[q] > starts[p]
        PROVE  starts[q] > minute * Resolution
    <2>1. MaxMinute \in Nat /\ minute \in Int /\ minute <= MaxMinute
      BY MinutesAssumption DEF Minutes
    <2>2. starts[q] \in Int /\ starts[p] \in Int
      BY StartFacts
    <2>3. PICK r \in Published :
            /\ starts[r] > starts[p] /\ EndStated(p) = MinutesSinceBase(starts[r])
            /\ starts[r] <= starts[q]
      BY <1>3, <2>2, NextStarts DEF EndStated
    <2>4. PICK next \in Int : starts[r] = next * Resolution
      BY StartFacts
    <2>5. next > start
      BY <1>1, <2>3, <2>4, TicksMonotone
    <2>6. next > minute
      <3>1. CASE next \in Minutes
        <4>1. EndStated(p) = next
          BY <2>3, <2>4, <3>1, WholeMinute
        <4>2. WholeSpan(StartStated(p), EndStated(p))
          BY <1>2, <2>5, <4>1, NoneAssumption DEF WholeSpan
        <4>. QED BY <1>3, <4>1, <4>2
      <3>2. CASE next \notin Minutes
        BY <1>2, <2>1, <2>5, <3>2 DEF Minutes
      <3>. QED BY <3>1, <3>2
    <2>7. minute * Resolution < next * Resolution /\ minute * Resolution \in Int
      BY <2>1, <2>6, TicksMonotone
    <2>. QED BY <2>2, <2>3, <2>4, <2>7, StartFacts
  <1>4. ASSUME NEW minute \in Minutes, start <= minute
        PROVE  starts[p] <= minute * Resolution
    <2>1. minute \in Int
      BY DEF Minutes
    <2>. QED BY <1>1, <1>4, <2>1, TicksMonotone
  <1>5. \A q \in Published : starts[q] \in Int
    BY StartFacts
  <1>6. ASSUME NEW minute \in Minutes, start <= minute,
               WholeSpan(StartStated(p), EndStated(p)) => minute < EndStated(p)
        PROVE  InForceAt(p, minute * Resolution)
    BY <1>3, <1>4, <1>5, <1>6 DEF InForceAt
  <1>. QED BY <1>1, <1>2, <1>6

\* What is read from an answer.
LEMMA StatedByFacts ==
  ASSUME NEW pem, NEW start \in OptionMinutes, NEW end \in OptionMinutes
  PROVE  /\ Served(StatedBy(pem, start, end))
         /\ StatedBy(pem, start, end).pem = pem
         /\ StatedBy(pem, start, end).known <=> start # None
         /\ start # None => /\ StatedBy(pem, start, end).first = start
                            /\ StatedBy(pem, start, end).last
                                  = IF WholeSpan(start, end) THEN end - 1 ELSE MaxMinute
  <1>1. CASE start = None
    <2>1. StatedBy(pem, start, end) = Unknown(pem)
      BY <1>1 DEF StatedBy, WholeSpan
    <2>. QED BY <1>1, <2>1 DEF Unknown, Served
  <1>2. CASE WholeSpan(start, end)
    <2>1. start # None /\ StatedBy(pem, start, end) = Known(pem, start, end - 1)
      BY <1>2 DEF StatedBy, WholeSpan
    <2>. QED BY <1>2, <2>1 DEF Known, Served
  <1>3. CASE start # None /\ ~WholeSpan(start, end)
    <2>1. StatedBy(pem, start, end) = Known(pem, start, MaxMinute)
      BY <1>3 DEF StatedBy
    <2>. QED BY <1>3, <2>1 DEF Known, Served
  <1>. QED BY <1>1, <1>2, <1>3

\* The creator has one answer for a minute, if any.
LEMMA OneAnswer ==
  ASSUME Scheduled, stating \in BOOLEAN, ~stating => \E p \in Pems : Published = {p},
         NEW minute \in Minutes
  PROVE  /\ AnswersTo(minute) = {<<p, StartStated(p), EndStated(p)>> :
                                   p \in {q \in Pems : AnsweredBy(q, minute)}}
         /\ \A p, q : AnsweredBy(p, minute) /\ AnsweredBy(q, minute) => p = q
         /\ \A p : AnsweredBy(p, minute) =>
              FreshKey(minute) = StatedBy(p, StartStated(p), EndStated(p))
         /\ (~ \E p : AnsweredBy(p, minute)) => FreshKey(minute) = Failed("Http")
         /\ AnswersTo(minute) = {} <=> ~ \E p : AnsweredBy(p, minute)
  <1>. DEFINE answers == {<<p, StartStated(p), EndStated(p)>> :
                            p \in {q \in Pems : AnsweredBy(q, minute)}}
  <1>1. Asked(minute) \in Int
    BY TicksMonotone, TicksAssumption DEF Asked, Minutes
  <1>2. AnswersTo(minute) = answers
    <2>1. CASE stating
      BY <2>1 DEF AnswersTo, Asked, AnsweredBy, StartStated, EndStated, InForceAt
    <2>2. CASE ~stating
      BY <2>2 DEF AnswersTo, AnsweredBy, StartStated, EndStated, Published
    <2>. QED BY <2>1, <2>2
  <1>3. \A p, q : AnsweredBy(p, minute) /\ AnsweredBy(q, minute) => p = q
    BY <1>1, OneInForce DEF AnsweredBy
  <1>4. \A p : AnsweredBy(p, minute) => p \in Pems
    BY DEF AnsweredBy, Published
  <1>5. ASSUME NEW p, AnsweredBy(p, minute)
        PROVE  FreshKey(minute) = StatedBy(p, StartStated(p), EndStated(p))
    <2>. DEFINE said == <<p, StartStated(p), EndStated(p)>>
    <2>1. answers = {said}
      BY <1>3, <1>4, <1>5
    <2>2. AnyOf(AnswersTo(minute)) = said
      BY <1>2, <2>1 DEF AnyOf
    <2>. QED BY <1>2, <2>1, <2>2 DEF FreshKey
  <1>6. (~ \E p : AnsweredBy(p, minute)) => FreshKey(minute) = Failed("Http")
    BY <1>2 DEF FreshKey
  <1>. QED BY <1>2, <1>3, <1>4, <1>5, <1>6

-----------------------------------------------------------------------------
(***************************************************************************)
(* What is held.                                                           *)
(***************************************************************************)

\* The present is a minute, and the one the present moment is in.
LEMMA NowMinuteFacts ==
  /\ NowMinute \in Minutes
  /\ \A minute \in Minutes : minute <= NowMinute <=> minute * Resolution <= Now
  <1>1. Now \in 0 .. (MaxMinute + 1) * Resolution - 1
    BY TicksAssumption
  <1>2. /\ NowMinute \in Minutes
        /\ NowMinute * Resolution <= Now
        /\ Now < (NowMinute + 1) * Resolution
    BY <1>1, CountedMinute DEF NowMinute
  <1>3. ASSUME NEW minute \in Minutes
        PROVE  minute <= NowMinute <=> minute * Resolution <= Now
    <2>1. minute \in Int /\ NowMinute \in Int /\ NowMinute + 1 \in Int /\ Now \in Int
      BY <1>1, <1>2, TicksAssumption DEF Minutes
    <2>2. minute * Resolution \in Int /\ NowMinute * Resolution \in Int
          /\ (NowMinute + 1) * Resolution \in Int
      BY <2>1, TicksMonotone
    <2>3. minute <= NowMinute <=> minute * Resolution <= NowMinute * Resolution
      BY <2>1, TicksMonotone
    <2>4. minute < NowMinute + 1 <=> minute * Resolution < (NowMinute + 1) * Resolution
      BY <2>1, TicksMonotone
    <2>. QED BY <1>2, <2>1, <2>2, <2>3, <2>4
  <1>. QED BY <1>2, <1>3

\* A key is in force at the beginning of every minute of a span.
InForceThrough(pem, first, last) ==
  \A minute \in first .. last : InForceAt(pem, minute * Resolution)

\* The span an answer is held for, taken as a new key, is what was answered.
LEMMA NewKeyIsTrue ==
  ASSUME Scheduled, stating \in BOOLEAN, Creator \in EndPoints,
         NEW minute \in Minutes, NEW pem, AnsweredBy(pem, minute),
         Holdable(minute, Recent(minute, NowMinute), StartStated(pem))
  PROVE  LET span == SpanToHold(minute, StartStated(pem), EndStated(pem), NowMinute)
         IN /\ span \in Span
            /\ TrueToCreator(NewKey(Creator, pem, span))
  <1>. DEFINE start == StartStated(pem)
              end == EndStated(pem)
              span == SpanToHold(minute, start, end, NowMinute)
              key == NewKey(Creator, pem, span)
  <1>1. pem \in Published
    BY DEF AnsweredBy
  <1>2. start \in OptionMinutes /\ end \in OptionMinutes /\ NowMinute \in Minutes
        /\ minute \in OptionMinutes
    BY <1>1, StatedType, NowMinuteFacts DEF OptionMinutes
  <1>3. span \in Span
    BY <1>2, SpanToHoldType
  <1>4. /\ key.end_point = Creator /\ key.pem = pem
        /\ key.first = span.first /\ key.last = span.last
        /\ key.explicit = span.explicit /\ key.open_ended = span.open_ended
    BY DEF NewKey
  <1>5. stating => starts[pem] <= Now
    <2>1. ASSUME stating PROVE starts[pem] <= Now
      <3>1. starts[pem] <= Asked(minute) /\ starts[pem] \in Int
        BY <1>1, <2>1, StartFacts DEF AnsweredBy, InForceAt
      <3>2. Asked(minute) \in Int /\ Asked(minute) <= Now /\ Now \in Int
        BY TicksMonotone, TicksAssumption DEF Asked, Minutes
      <3>. QED BY <3>1, <3>2
    <2>. QED BY <2>1
  <1>6. CASE WholeSpan(start, end)
    <2>1. span = [first |-> start, last |-> end - 1, explicit |-> TRUE, open_ended |-> FALSE]
      BY <1>6 DEF SpanToHold
    <2>2. start # None /\ end # None /\ start \in Minutes /\ end \in Minutes /\ stating
      BY <1>2, <1>6 DEF WholeSpan, OptionMinutes, StartStated
    <2>3. Stated(key) = StatedBy(pem, start, end)
      BY <1>4, <1>6, <2>1, <2>2 DEF Stated, StatedBy
    <2>4. InForceThrough(pem, start, end - 1)
      <3>1. \A m \in start .. end - 1 : m \in Minutes /\ start <= m /\ m < end
        BY <2>2, MinutesAssumption DEF Minutes
      <3>. QED BY <1>1, <2>2, <3>1, StatedSpan DEF InForceThrough
    <2>. HIDE DEF start, end, span
    <2>5. TrueToCreator(key)
      BY <1>1, <1>4, <1>5, <1>6, <2>1, <2>2, <2>3, <2>4
      DEF TrueToCreator, start, end, InForceThrough
    <2>. QED BY <1>3, <2>5 DEF span, start, end
  <1>7. CASE ~WholeSpan(start, end) /\ start # None
    <2>. DEFINE last == IF start > Behind(NowMinute) THEN start ELSE Behind(NowMinute)
    <2>1. span = [first |-> start, last |-> last, explicit |-> FALSE, open_ended |-> TRUE]
      BY <1>7 DEF SpanToHold
    <2>2. start \in Minutes /\ stating
      BY <1>2, <1>7 DEF OptionMinutes, StartStated
    <2>3. Stated(key) = StatedBy(pem, start, end)
      BY <1>4, <1>7, <2>1 DEF Stated, StatedBy
    <2>4. last \in Minutes
      BY <1>2, <2>2, BehindType
    <2>5. InForceThrough(pem, start, last)
      <3>. HIDE DEF last
      <3>1. \A m \in start .. last : m \in Minutes /\ start <= m
        BY <2>2, <2>4, MinutesAssumption DEF Minutes
      <3>. QED BY <1>1, <1>7, <2>2, <3>1, StatedSpan DEF InForceThrough
    <2>. HIDE DEF start, end, span, last
    <2>6. TrueToCreator(key)
      BY <1>1, <1>4, <1>5, <1>7, <2>1, <2>2, <2>3, <2>5
      DEF TrueToCreator, start, end, InForceThrough
    <2>. QED BY <1>3, <2>6 DEF span, start, end
  <1>8. CASE start = None
    <2>1. ~WholeSpan(start, end)
      BY <1>8 DEF WholeSpan
    <2>2. span = [first |-> minute, last |-> minute, explicit |-> FALSE, open_ended |-> FALSE]
      BY <1>8, <2>1 DEF SpanToHold
    <2>3. Stated(key) = StatedBy(pem, start, end)
      BY <1>4, <1>8, <2>1, <2>2 DEF Stated, StatedBy
    <2>4. stating => InForceThrough(pem, minute, minute)
      <3>1. minute \in Int /\ NowMinute \in Int /\ Behind(NowMinute) <= NowMinute
        BY <1>2, MinutesAssumption DEF Minutes, Behind
      <3>2. minute <= Behind(NowMinute)
        <4>1. ~Recent(minute, NowMinute) /\ minute # None
          BY <1>8 DEF Holdable
        <4>. QED BY <1>2, <3>1, <4>1, BehindType DEF Recent, Minutes
      <3>3. minute <= NowMinute
        BY <1>2, <3>1, <3>2, BehindType DEF Minutes
      <3>4. Asked(minute) = minute * Resolution
        BY <3>3, NowMinuteFacts, TicksAssumption, TicksMonotone DEF Asked, Minutes
      <3>5. \A m \in minute .. minute : m = minute
        BY <3>1
      <3>. QED BY <3>4, <3>5 DEF InForceThrough, AnsweredBy
    <2>. HIDE DEF start, end, span
    <2>5. TrueToCreator(key)
      BY <1>1, <1>4, <1>5, <1>8, <2>1, <2>2, <2>3, <2>4
      DEF TrueToCreator, start, end, InForceThrough
    <2>. QED BY <1>3, <2>5 DEF span, start, end
  <1>. QED BY <1>6, <1>7, <1>8

\* A key widened by a true span of its own is still true: the minutes between
\* two spans a key is in force through are minutes it is in force through.
LEMMA WidenedIsTrue ==
  ASSUME Scheduled, stating \in BOOLEAN,
         NEW key \in SoundKeys, TrueToCreator(key),
         NEW span \in Span, TrueToCreator(NewKey(Creator, key.pem, span))
  PROVE  TrueToCreator(Widened(key, span))
  <1>. DEFINE start == StartStated(key.pem)
              end == EndStated(key.pem)
              new == NewKey(Creator, key.pem, span)
              wider == Widened(key, span)
  <1>1. /\ key \in HeldKey /\ key.first \in Minutes /\ key.last \in Minutes
        /\ key.first <= key.last
        /\ span.first \in Minutes /\ span.last \in Minutes /\ span.first <= span.last
        /\ key.explicit \in BOOLEAN /\ key.open_ended \in BOOLEAN
        /\ span.explicit \in BOOLEAN /\ span.open_ended \in BOOLEAN
    BY DEF SoundKeys, Span, HeldKey
  <1>2. /\ new.pem = key.pem /\ new.first = span.first /\ new.last = span.last
        /\ new.explicit = span.explicit /\ new.open_ended = span.open_ended
    BY DEF NewKey
  <1>3. /\ key.end_point = Creator /\ key.pem \in Published
        /\ stating => starts[key.pem] <= Now
        /\ key.explicit <=> WholeSpan(start, end)
        /\ span.explicit <=> WholeSpan(start, end)
        /\ key.open_ended <=> start # None /\ ~key.explicit
        /\ span.open_ended <=> start # None /\ ~span.explicit
        /\ Stated(key) = StatedBy(key.pem, start, end)
        /\ Stated(new) = StatedBy(key.pem, start, end)
    BY <1>2 DEF TrueToCreator
  <1>4. /\ wider.end_point = key.end_point /\ wider.pem = key.pem
        /\ wider.first = IF span.first < key.first THEN span.first ELSE key.first
        /\ wider.last = IF span.last > key.last THEN span.last ELSE key.last
        /\ wider.explicit = key.explicit
        /\ wider.open_ended = key.open_ended
    BY <1>1, <1>3 DEF Widened, HeldKey
  <1>5. Stated(wider) = Stated(key)
    <2>1. start \in OptionMinutes /\ end \in OptionMinutes
      BY <1>3, StatedType
    <2>2. CASE start = None
      <3>1. ~key.explicit /\ ~key.open_ended
        BY <1>3, <2>2 DEF WholeSpan
      <3>. QED BY <1>4, <3>1 DEF Stated
    <2>3. CASE start # None
      <3>1. Stated(key).first = start /\ Stated(new).first = start
            /\ Stated(key).last = Stated(new).last
        BY <1>3, <2>1, <2>3, StatedByFacts
      <3>2. CASE key.explicit
        <4>1. /\ Stated(key) = Known(key.pem, key.first, key.last)
              /\ Stated(new) = Known(key.pem, span.first, span.last)
          BY <1>2, <1>3, <3>2 DEF Stated
        <4>2. key.first = span.first /\ key.last = span.last
          BY <3>1, <4>1 DEF Known
        <4>3. wider.first = key.first /\ wider.last = key.last
          BY <1>1, <1>4, <4>2 DEF Minutes
        <4>. QED BY <1>4, <4>3 DEF Stated
      <3>3. CASE ~key.explicit
        <4>1. key.open_ended /\ span.open_ended /\ ~span.explicit
          BY <1>3, <2>3, <3>3
        <4>2. /\ Stated(key) = Known(key.pem, key.first, MaxMinute)
              /\ Stated(new) = Known(key.pem, span.first, MaxMinute)
          BY <1>2, <3>3, <4>1 DEF Stated
        <4>3. key.first = span.first
          BY <3>1, <4>2 DEF Known
        <4>4. wider.first = key.first
          BY <1>1, <1>4, <4>3 DEF Minutes
        <4>. QED BY <1>4, <3>3, <4>1, <4>4 DEF Stated
      <3>. QED BY <3>2, <3>3
    <2>. QED BY <2>2, <2>3
  <1>6. ASSUME stating PROVE InForceThrough(key.pem, wider.first, wider.last)
    <2>1. /\ InForceThrough(key.pem, key.first, key.last)
          /\ InForceThrough(key.pem, span.first, span.last)
      BY <1>2, <1>6 DEF TrueToCreator, InForceThrough
    <2>2. /\ InForceAt(key.pem, wider.first * Resolution)
          /\ InForceAt(key.pem, wider.last * Resolution)
          /\ wider.first \in Int /\ wider.last \in Int
      BY <1>1, <1>4, <2>1 DEF InForceThrough, Minutes
    <2>. HIDE DEF wider
    <2>3. ASSUME NEW minute \in wider.first .. wider.last
          PROVE  InForceAt(key.pem, minute * Resolution)
      <3>1. minute \in Int /\ wider.first <= minute /\ minute <= wider.last
        BY <2>2
      <3>2. /\ wider.first * Resolution \in Int /\ wider.last * Resolution \in Int
            /\ minute * Resolution \in Int
            /\ wider.first * Resolution <= minute * Resolution
            /\ minute * Resolution <= wider.last * Resolution
        BY <2>2, <3>1, TicksMonotone
      <3>. QED BY <2>2, <3>2, InForceBetween
    <2>. QED BY <2>3 DEF InForceThrough
  <1>7. start = StartStated(wider.pem) /\ end = EndStated(wider.pem)
    BY <1>4
  <1>8. stating => \A minute \in wider.first .. wider.last :
                     InForceAt(wider.pem, minute * Resolution)
    BY <1>4, <1>6 DEF InForceThrough
  <1>. HIDE DEF wider, start, end
  <1>9. TrueToCreator(wider)
    BY <1>3, <1>4, <1>5, <1>7, <1>8 DEF TrueToCreator
  <1>. QED BY <1>9 DEF wider

\* Holding what the creator answered keeps what is held true.
LEMMA HoldsTheTruth ==
  ASSUME Scheduled, stating \in BOOLEAN, Creator \in EndPoints, CacheInv,
         \A key \in keys : TrueToCreator(key),
         NEW minute \in Minutes, NEW pem, AnsweredBy(pem, minute),
         Hold(Creator, minute, Recent(minute, NowMinute), pem,
              StartStated(pem), EndStated(pem), NowMinute)
  PROVE  CacheInv' /\ \A key \in keys' : TrueToCreator(key)
  <1>. DEFINE start == StartStated(pem)
              end == EndStated(pem)
              isRecent == Recent(minute, NowMinute)
              span == SpanToHold(minute, start, end, NowMinute)
  <1>1. /\ pem \in Pems /\ start \in OptionMinutes /\ end \in OptionMinutes
        /\ minute \in OptionMinutes /\ NowMinute \in Minutes /\ isRecent \in BOOLEAN
    BY StatedType, NowMinuteFacts DEF AnsweredBy, Published, OptionMinutes, Recent
  <1>2. CacheInv'
    BY <1>1, HoldKeepsInv
  <1>3. CASE ~Holdable(minute, isRecent, start)
    BY <1>2, <1>3 DEF Hold, cacheVars
  <1>4. CASE Holdable(minute, isRecent, start)
    <2>1. span \in Span /\ TrueToCreator(NewKey(Creator, pem, span))
      BY <1>4, NewKeyIsTrue
    <2>2. HoldSpan(Creator, pem, span)
      BY <1>4 DEF Hold
    <2>3. keys \subseteq SoundKeys
      BY DEF CacheInv, TypeOK, SoundKeys
    <2>. HIDE DEF span, start, end, isRecent
    <2>4. ASSUME NEW key \in keys, key.pem = pem, WidenKey(key, span)
          PROVE  \A new \in keys' : TrueToCreator(new)
      <3>1. TrueToCreator(Widened(key, span))
        BY <2>1, <2>3, <2>4, WidenedIsTrue
      <3>2. keys' \subseteq keys \cup {Widened(key, span)}
        BY <2>4 DEF WidenKey, cacheVars
      <3>. QED BY <3>1, <3>2
    <2>5. ASSUME PushKey(NewKey(Creator, pem, span))
          PROVE  \A new \in keys' : TrueToCreator(new)
      <3>1. keys' \subseteq keys \cup {NewKey(Creator, pem, span)}
        BY <2>5 DEF PushKey
      <3>. QED BY <2>1, <3>1
    <2>6. \A new \in keys' : TrueToCreator(new)
      BY <2>2, <2>4, <2>5 DEF HoldSpan, KeysOf, cacheVars
    <2>. QED BY <1>2, <2>6
  <1>. QED BY <1>3, <1>4

\* A minute answered from what is held is answered as the creator would.
LEMMA ServesTheTruth ==
  ASSUME Scheduled, stating \in BOOLEAN, ~stating => \E p \in Pems : Published = {p},
         CacheInv, \A key \in keys : TrueToCreator(key),
         NEW minute \in Minutes, NEW key \in Serving(Creator, minute, Recent(minute, NowMinute))
  PROVE  Stated(key) = FreshKey(minute)
  <1>1. /\ key \in keys /\ key.first <= minute /\ minute <= key.last
        /\ key.explicit \/ ~Recent(minute, NowMinute)
        /\ key.first \in Minutes /\ key.last \in Minutes
    BY DEF Serving, KeysOf, Covers, CacheInv, TypeOK, HeldKey
  <1>2. TrueToCreator(key)
    BY <1>1
  <1>3. minute \in Int /\ minute * Resolution \in Int /\ Now \in Int
    BY TicksMonotone, TicksAssumption DEF Minutes
  <1>4. ASSUME stating PROVE InForceAt(key.pem, Asked(minute))
    <2>1. InForceAt(key.pem, minute * Resolution) /\ starts[key.pem] <= Now
      BY <1>1, <1>2, <1>4 DEF TrueToCreator, Minutes
    <2>2. starts[key.pem] \in Int /\ key.pem \in Published
      BY <1>2, StartFacts DEF TrueToCreator
    <2>3. InForceAt(key.pem, Now) \/ ~(minute * Resolution > Now)
      BY <1>3, <2>1, <2>2, StartFacts DEF InForceAt
    <2>. QED BY <2>1, <2>3 DEF Asked
  <1>5. AnsweredBy(key.pem, minute)
    BY <1>2, <1>4 DEF AnsweredBy, TrueToCreator
  <1>6. FreshKey(minute) = StatedBy(key.pem, StartStated(key.pem), EndStated(key.pem))
    BY <1>5, OneAnswer
  <1>. QED BY <1>2, <1>6 DEF TrueToCreator

-----------------------------------------------------------------------------
(***************************************************************************)
(* A verification.                                                         *)
(***************************************************************************)

\* The minute of an identifier can be asked for.
LEMMA MinuteOfFacts ==
  ASSUME NEW o \in Owids
  PROVE  /\ o.signed \in Int
         /\ MinuteOf(o) \in Minutes
         /\ MinuteOf(o) * Resolution <= o.signed
         /\ o.signed < (MinuteOf(o) + 1) * Resolution
  <1>1. o.signed \in 0 .. (MaxMinute + 1) * Resolution - 1
    BY TicksAssumption DEF Owids
  <1>. QED BY <1>1, CountedMinute DEF MinuteOf

\* The creator's own answer, where it has one, is a key with a span.
LEMMA FreshKeyType ==
  ASSUME Scheduled, stating \in BOOLEAN, ~stating => \E p \in Pems : Published = {p},
         NEW minute \in Minutes
  PROVE  \/ FreshKey(minute) = Failed("Http") /\ ~Served(FreshKey(minute))
         \/ FreshKey(minute) \in KeyAnswer /\ Served(FreshKey(minute))
  <1>1. CASE \E p : AnsweredBy(p, minute)
    <2>1. PICK p : AnsweredBy(p, minute)
      BY <1>1
    <2>. DEFINE start == StartStated(p)
                end == EndStated(p)
    <2>2. /\ FreshKey(minute) = StatedBy(p, start, end)
          /\ p \in Pems /\ start \in OptionMinutes /\ end \in OptionMinutes
      BY <2>1, OneAnswer, StatedType DEF AnsweredBy, Published
    <2>. HIDE DEF start, end
    <2>3. /\ start # None => start \in Minutes
          /\ WholeSpan(start, end) => end - 1 \in Minutes
          /\ 0 \in Minutes /\ MaxMinute \in Minutes
      BY <2>2, MinutesAssumption DEF WholeSpan, OptionMinutes, Minutes
    <2>4. StatedBy(p, start, end) \in KeyAnswer
      <3>1. CASE start = None
        <4>1. StatedBy(p, start, end) = Unknown(p)
          BY <3>1 DEF StatedBy, WholeSpan
        <4>. QED BY <2>2, <2>3, <4>1 DEF Unknown, KeyAnswer
      <3>2. CASE WholeSpan(start, end)
        <4>1. start # None /\ StatedBy(p, start, end) = Known(p, start, end - 1)
          BY <3>2 DEF StatedBy, WholeSpan
        <4>. QED BY <2>2, <2>3, <3>2, <4>1 DEF Known, KeyAnswer
      <3>3. CASE start # None /\ ~WholeSpan(start, end)
        <4>1. StatedBy(p, start, end) = Known(p, start, MaxMinute)
          BY <3>3 DEF StatedBy
        <4>. QED BY <2>2, <2>3, <3>3, <4>1 DEF Known, KeyAnswer
      <3>. QED BY <3>1, <3>2, <3>3
    <2>. QED BY <2>2, <2>4, StatedByFacts
  <1>2. CASE ~ \E p : AnsweredBy(p, minute)
    <2>1. ~Served(Failed("Http"))
      BY DEF Served, Failed
    <2>. QED BY <1>2, <2>1, OneAnswer
  <1>. QED BY <1>1, <1>2

\* The two minutes looked at beyond a span, joined, are the pair of them.
LEMMA PairOfMinutes ==
  ASSUME NEW a \in Int, NEW b \in Int
  PROVE  <<a>> \o <<b>> = <<a, b>>
  <1>1. <<a>> \in Seq(Int) /\ <<b>> \in Seq(Int) /\ <<a, b>> \in Seq(Int)
        /\ <<a>> \o <<b>> \in Seq(Int)
    OBVIOUS
  <1>2. Len(<<a>> \o <<b>>) = 2 /\ Len(<<a, b>>) = 2
    BY <1>1
  <1>3. (<<a>> \o <<b>>)[1] = a /\ (<<a>> \o <<b>>)[2] = b
    BY <1>1
  <1>4. \A i \in 1 .. 2 : (<<a>> \o <<b>>)[i] = <<a, b>>[i]
    BY <1>3
  <1>. QED BY <1>1, <1>2, <1>4, SeqEqual

\* The minutes beyond the edges of a span are minutes, one or two or none.
LEMMA BeyondFacts ==
  ASSUME NEW key \in KeyAnswer, NEW minute
  PROVE  /\ MinutesBeyond(key, minute) \in Seq(Minutes)
         /\ \A m : (\E j \in DOMAIN MinutesBeyond(key, minute) :
                      MinutesBeyond(key, minute)[j] = m)
                   <=> /\ key.known
                       /\ \/ key.first > 0 /\ NearEdge(minute, key.first) /\ m = key.first - 1
                          \/ /\ key.last < MaxMinute /\ NearEdge(minute, key.last)
                             /\ m = key.last + 1
  <1>. DEFINE before == IF key.first > 0 /\ NearEdge(minute, key.first)
                        THEN <<key.first - 1>> ELSE << >>
              after == IF key.last < MaxMinute /\ NearEdge(minute, key.last)
                       THEN <<key.last + 1>> ELSE << >>
  <1>1. key.first \in Minutes /\ key.last \in Minutes /\ key.known \in BOOLEAN
    BY DEF KeyAnswer
  <1>2. /\ key.first > 0 => key.first - 1 \in Minutes
        /\ key.last < MaxMinute => key.last + 1 \in Minutes
    BY <1>1, MinutesAssumption DEF Minutes
  <1>3. CASE ~key.known
    BY <1>3 DEF MinutesBeyond
  <1>4. CASE key.known
    <2>1. MinutesBeyond(key, minute) = before \o after
      BY <1>4 DEF MinutesBeyond
    <2>2. CASE /\ key.first > 0 /\ NearEdge(minute, key.first)
               /\ key.last < MaxMinute /\ NearEdge(minute, key.last)
      <3>1. before = <<key.first - 1>> /\ after = <<key.last + 1>>
        BY <2>2
      <3>2. <<key.first - 1>> \o <<key.last + 1>> = <<key.first - 1, key.last + 1>>
        BY <1>1, PairOfMinutes DEF Minutes
      <3>3. MinutesBeyond(key, minute) = <<key.first - 1, key.last + 1>>
        BY <2>1, <3>1, <3>2
      <3>. HIDE DEF before, after
      <3>. QED BY <1>2, <1>4, <2>2, <3>3
    <2>3. CASE /\ key.first > 0 /\ NearEdge(minute, key.first)
               /\ ~(key.last < MaxMinute /\ NearEdge(minute, key.last))
      <3>1. before = <<key.first - 1>> /\ after = << >>
        BY <2>3
      <3>2. <<key.first - 1>> \o << >> = <<key.first - 1>>
        BY <1>1 DEF Minutes
      <3>3. MinutesBeyond(key, minute) = <<key.first - 1>>
        BY <2>1, <3>1, <3>2
      <3>. HIDE DEF before, after
      <3>. QED BY <1>2, <1>4, <2>3, <3>3
    <2>4. CASE /\ ~(key.first > 0 /\ NearEdge(minute, key.first))
               /\ key.last < MaxMinute /\ NearEdge(minute, key.last)
      <3>1. before = << >> /\ after = <<key.last + 1>>
        BY <2>4
      <3>2. << >> \o <<key.last + 1>> = <<key.last + 1>>
        BY <1>1 DEF Minutes
      <3>3. MinutesBeyond(key, minute) = <<key.last + 1>>
        BY <2>1, <3>1, <3>2
      <3>. HIDE DEF before, after
      <3>. QED BY <1>2, <1>4, <2>4, <3>3
    <2>5. CASE /\ ~(key.first > 0 /\ NearEdge(minute, key.first))
               /\ ~(key.last < MaxMinute /\ NearEdge(minute, key.last))
      <3>1. before \o after = << >>
        BY <2>5
      <3>. QED BY <1>4, <2>1, <2>5, <3>1
    <2>. QED BY <2>2, <2>3, <2>4, <2>5
  <1>. QED BY <1>3, <1>4

\* While the creator does not change, neither does what it would answer.
LEMMA SameCreator ==
  ASSUME UNCHANGED <<starts, stating>>
  PROVE  /\ Published' = Published
         /\ \A key : TrueToCreator(key)' <=> TrueToCreator(key)
         /\ \A minute : FreshKey(minute)' = FreshKey(minute)
         /\ \A o : FreshVerdict(o)' = FreshVerdict(o)
  <1>1. Published' = Published
    BY DEF Published
  <1>2. \A p, tick : InForceAt(p, tick)' <=> InForceAt(p, tick)
    BY <1>1 DEF InForceAt
  <1>3. \A p : NextStart(p)' = NextStart(p)
    BY <1>1 DEF NextStart
  <1>4. \A p : StartStated(p)' = StartStated(p) /\ EndStated(p)' = EndStated(p)
    BY <1>3 DEF StartStated, EndStated
  <1>5. \A key : TrueToCreator(key)' <=> TrueToCreator(key)
    BY <1>1, <1>2, <1>4 DEF TrueToCreator
  <1>6. \A minute : AnswersTo(minute)' = AnswersTo(minute)
    BY <1>1, <1>2, <1>3 DEF AnswersTo
  <1>7. \A minute : FreshKey(minute)' = FreshKey(minute)
    BY <1>6 DEF FreshKey
  <1>8. \A o : FreshVerdict(o)' = FreshVerdict(o)
    BY <1>7 DEF FreshVerdict
  <1>. QED BY <1>1, <1>5, <1>7, <1>8

\* A verification that a step leaves alone is where it was.
LEMMA OthersKeepInv ==
  ASSUME UNCHANGED <<starts, stating>>, NEW w \in Verifiers, VerifierInv(w),
         pc'[w] = pc[w], owid'[w] = owid[w], answer'[w] = answer[w], tried'[w] = tried[w],
         beyond'[w] = beyond[w], missed'[w] = missed[w], verdict'[w] = verdict[w]
  PROVE  VerifierInv(w)'
  <1>1. /\ \A minute : FreshKey(minute)' = FreshKey(minute)
        /\ \A o : FreshVerdict(o)' = FreshVerdict(o)
    BY SameCreator
  <1>2. \A minute : Answered(w, minute)' <=> Answered(w, minute)
    BY <1>1 DEF Answered
  <1>3. Near(w)' = Near(w)
    BY DEF Near
  <1>4. \A minute, pem : Signs(minute, pem)' <=> Signs(minute, pem)
    BY <1>1 DEF Signs
  <1>5. \A asked : Looking(w, asked)' <=> Looking(w, asked)
    BY <1>1, <1>3, <1>4 DEF Looking
  <1>. QED BY <1>1, <1>2, <1>5 DEF VerifierInv

\* A step that leaves the cache and the creator alone leaves what is held true.
LEMMA TruthUnchanged ==
  ASSUME TruthInv, UNCHANGED <<cacheVars, starts, stating>>
  PROVE  TruthInv'
  <1>1. CacheInv'
    BY UnchangedKeepsInv DEF TruthInv
  <1>. QED BY <1>1, SameCreator DEF TruthInv, cacheVars

\* However key_at_url answers, from what is held, from the creator or not at
\* all, its caller has what the creator would answer or has missed it.
LEMMA KeyAtAnswers ==
  ASSUME StartsOnMinutes, StartsApart, TruthInv,
         DOMAIN answer = Verifiers, missed \in [Verifiers -> BOOLEAN],
         UNCHANGED <<starts, stating>>,
         NEW v \in Verifiers, NEW minute \in Minutes, KeyAt(v, minute)
  PROVE  /\ TruthInv'
         /\ Answered(v, minute)'
         /\ DOMAIN answer' = Verifiers /\ missed' \in [Verifiers -> BOOLEAN]
         /\ \A w \in Verifiers \ {v} : answer'[w] = answer[w] /\ missed'[w] = missed[w]
         /\ missed[v] => missed'[v]
  <1>. DEFINE found == Serving(Creator, minute, Recent(minute, NowMinute))
  <1>1. Scheduled
    BY DEF Scheduled, TruthInv
  <1>2. FreshKey(minute)' = FreshKey(minute)
    BY SameCreator
  <1>3. CASE /\ \E key \in found : answer' = [answer EXCEPT ![v] = Stated(key)]
             /\ UNCHANGED <<cacheVars, missed>>
    <2>1. PICK key \in found : answer' = [answer EXCEPT ![v] = Stated(key)]
      BY <1>3
    <2>2. Stated(key) = FreshKey(minute)
      BY <1>1, ServesTheTruth DEF TruthInv
    <2>3. TruthInv'
      BY <1>3, TruthUnchanged
    <2>. QED BY <1>2, <1>3, <2>1, <2>2, <2>3 DEF Answered
  <1>4. CASE /\ \E said \in AnswersTo(minute) :
                  /\ answer' = [answer EXCEPT ![v] = StatedBy(said[1], said[2], said[3])]
                  /\ Hold(Creator, minute, Recent(minute, NowMinute),
                          said[1], said[2], said[3], NowMinute)
             /\ UNCHANGED missed
    <2>1. PICK said \in AnswersTo(minute) :
            /\ answer' = [answer EXCEPT ![v] = StatedBy(said[1], said[2], said[3])]
            /\ Hold(Creator, minute, Recent(minute, NowMinute),
                    said[1], said[2], said[3], NowMinute)
      BY <1>4
    <2>2. PICK p \in Pems : /\ AnsweredBy(p, minute)
                            /\ said = <<p, StartStated(p), EndStated(p)>>
      BY <1>1, OneAnswer DEF TruthInv
    <2>3. StatedBy(said[1], said[2], said[3]) = FreshKey(minute)
      BY <1>1, <2>2, OneAnswer DEF TruthInv
    <2>4. CacheInv' /\ \A key \in keys' : TrueToCreator(key)
      BY <1>1, <2>1, <2>2, HoldsTheTruth, CreatorAssumption DEF TruthInv
    <2>5. TruthInv'
      BY <2>4, SameCreator DEF TruthInv
    <2>. QED BY <1>2, <1>4, <2>1, <2>3, <2>5 DEF Answered
  <1>5. CASE /\ AnswersTo(minute) = {}
             /\ answer' = [answer EXCEPT ![v] = Failed("Http")]
             /\ UNCHANGED <<cacheVars, missed>>
    <2>1. FreshKey(minute) = Failed("Http")
      BY <1>5 DEF FreshKey
    <2>2. TruthInv'
      BY <1>5, TruthUnchanged
    <2>. QED BY <1>2, <1>5, <2>1, <2>2 DEF Answered
  <1>6. CASE /\ \E failure \in Failures : answer' = [answer EXCEPT ![v] = Failed(failure)]
             /\ missed' = [missed EXCEPT ![v] = TRUE]
             /\ UNCHANGED cacheVars
    <2>1. TruthInv'
      BY <1>6, TruthUnchanged
    <2>. QED BY <1>6, <2>1 DEF Answered
  <1>. QED BY <1>3, <1>4, <1>5, <1>6 DEF KeyAt

\* The verdict an empty cache gives, case by case.
LEMMA FreshVerdictFacts ==
  ASSUME NEW o
  PROVE  LET key == FreshKey(MinuteOf(o))
             near == MinutesBeyond(key, MinuteOf(o))
         IN /\ ~Served(key) => FreshVerdict(o) = "KeyUnavailable"
            /\ Served(key) /\ key.pem = o.pem => FreshVerdict(o) = "Valid"
            /\ Served(key) /\ (\E j \in DOMAIN near : Signs(near[j], o.pem))
                 => FreshVerdict(o) = "Valid"
            /\ Served(key) /\ key.pem # o.pem /\ (\A j \in DOMAIN near : ~Signs(near[j], o.pem))
                 => FreshVerdict(o) = IF key.known /\ ~StatesMinute(key, MinuteOf(o))
                                      THEN "KeyUnavailable" ELSE "Invalid"
  <1>. DEFINE key == FreshKey(MinuteOf(o))
              near == MinutesBeyond(key, MinuteOf(o))
              signing == \E j \in DOMAIN near : Signs(near[j], o.pem)
              other == IF key.known /\ ~StatesMinute(key, MinuteOf(o))
                       THEN "KeyUnavailable" ELSE "Invalid"
  <1>1. FreshVerdict(o) = CASE ~Served(key) -> "KeyUnavailable"
                            [] Served(key) /\ (key.pem = o.pem \/ signing) -> "Valid"
                            [] OTHER -> other
    BY DEF FreshVerdict, Signs
  <1>. HIDE DEF key, near, signing, other
  <1>2. /\ ~Served(key) => FreshVerdict(o) = "KeyUnavailable"
        /\ Served(key) /\ (key.pem = o.pem \/ signing) => FreshVerdict(o) = "Valid"
        /\ Served(key) /\ key.pem # o.pem /\ ~signing => FreshVerdict(o) = other
    BY <1>1
  <1>. QED BY <1>2 DEF key, near, signing, other

\* Nothing that failed is taken for a key.
LEMMA AnsweredFacts ==
  ASSUME NEW v, NEW minute, Answered(v, minute)
  PROVE  /\ Served(answer[v]) => answer[v] = FreshKey(minute)
         /\ ~missed[v] => answer[v] = FreshKey(minute)
  BY DEF Answered, Failed, Served

\* What is typed of the verifications.
VerifiersType ==
  /\ pc \in [Verifiers -> {"idle", "select", "judge", "beyond", "compare", "done"}]
  /\ missed \in [Verifiers -> BOOLEAN]
  /\ DOMAIN owid = Verifiers /\ DOMAIN answer = Verifiers /\ DOMAIN tried = Verifiers
  /\ DOMAIN beyond = Verifiers /\ DOMAIN verdict = Verifiers

\* A verification that begins has tried nothing.
LEMMA BeginKeepsInv ==
  ASSUME VerifyInv, NEW v \in Verifiers, Begin(v)
  PROVE  VerifyInv'
  <1>1. TruthInv'
    BY TruthUnchanged DEF VerifyInv, Begin
  <1>2. VerifiersType'
    BY DEF VerifyInv, VerifiersType, Begin
  <1>3. VerifierInv(v)'
    BY DEF VerifyInv, VerifierInv, Begin, Owids
  <1>4. ASSUME NEW w \in Verifiers \ {v} PROVE VerifierInv(w)'
    BY OthersKeepInv DEF VerifyInv, Begin
  <1>. QED BY <1>1, <1>2, <1>3, <1>4 DEF VerifyInv, VerifiersType

\* The key for the identifier's own minute is the one an empty cache would give.
LEMMA SelectKeepsInv ==
  ASSUME StartsOnMinutes, StartsApart, VerifyInv, NEW v \in Verifiers, Select(v)
  PROVE  VerifyInv'
  <1>1. pc[v] = "select" /\ owid[v] \in Owids /\ UNCHANGED <<starts, stating, owid>>
    BY DEF VerifyInv, VerifierInv, Select
  <1>2. MinuteOf(owid[v]) \in Minutes
    BY <1>1, MinuteOfFacts
  <1>3. /\ TruthInv'
        /\ Answered(v, MinuteOf(owid[v]))'
        /\ DOMAIN answer' = Verifiers /\ missed' \in [Verifiers -> BOOLEAN]
        /\ \A w \in Verifiers \ {v} : answer'[w] = answer[w] /\ missed'[w] = missed[w]
    <2>1. KeyAt(v, MinuteOf(owid[v]))
      BY DEF Select
    <2>2. MinuteOf(owid[v])' = MinuteOf(owid[v])
      BY <1>1
    <2>. QED BY <1>1, <1>2, <2>1, <2>2, KeyAtAnswers DEF VerifyInv, Answered
  <1>4. VerifiersType'
    BY <1>3 DEF VerifyInv, VerifiersType, Select
  <1>5. VerifierInv(v)'
    BY <1>1, <1>3 DEF VerifyInv, VerifierInv, Select
  <1>6. ASSUME NEW w \in Verifiers \ {v} PROVE VerifierInv(w)'
    BY <1>1, <1>3, OthersKeepInv DEF VerifyInv, Select
  <1>. QED BY <1>3, <1>4, <1>5, <1>6 DEF VerifyInv, VerifiersType

\* Checking the signature under it leaves what an empty cache would have done next.
LEMMA JudgeKeepsInv ==
  ASSUME StartsOnMinutes, StartsApart, VerifyInv, NEW v \in Verifiers, Judge(v)
  PROVE  VerifyInv'
  <1>. DEFINE minute == MinuteOf(owid[v])
  <1>1. /\ owid[v] \in Owids /\ Answered(v, minute)
        /\ UNCHANGED <<starts, stating, owid, answer, missed>>
    BY DEF VerifyInv, VerifierInv, Judge
  <1>2. minute \in Minutes
    BY <1>1, MinuteOfFacts
  <1>3. TruthInv'
    BY TruthUnchanged DEF VerifyInv, Judge
  <1>4. VerifiersType'
    BY DEF VerifyInv, VerifiersType, Judge, Ends
  <1>5. /\ Scheduled /\ stating \in BOOLEAN
        /\ ~stating => \E p \in Pems : Published = {p}
    BY DEF VerifyInv, TruthInv, Scheduled
  <1>6. /\ FreshVerdict(owid[v])' = FreshVerdict(owid[v])
        /\ FreshKey(minute)' = FreshKey(minute)
        /\ \A m, pem : Signs(m, pem)' <=> Signs(m, pem)
    BY <1>1, SameCreator DEF Signs
  <1>7. VerifierInv(v)'
    <2>1. CASE /\ ~Served(answer[v])
               /\ Ends(v, StatusOf(answer[v].failure))
               /\ UNCHANGED <<tried, beyond>>
      <3>1. pc'[v] = "done" /\ verdict'[v] = StatusOf(answer[v].failure)
        BY <2>1 DEF VerifyInv, VerifiersType, Ends
      <3>2. verdict'[v] # "Valid"
        BY <3>1 DEF StatusOf
      <3>3. ~missed[v] => verdict'[v] = FreshVerdict(owid[v])
        <4>1. ASSUME ~missed[v] PROVE verdict'[v] = FreshVerdict(owid[v])
          <5>1. answer[v] = FreshKey(minute)
            BY <1>1, <4>1, AnsweredFacts
          <5>2. answer[v] = Failed("Http")
            BY <1>2, <1>5, <2>1, <5>1, FreshKeyType
          <5>3. answer[v].failure = "Http"
            BY <5>2 DEF Failed
          <5>4. FreshVerdict(owid[v]) = "KeyUnavailable"
            BY <2>1, <5>1, FreshVerdictFacts
          <5>. QED BY <3>1, <5>3, <5>4 DEF StatusOf
        <4>. QED BY <4>1
      <3>. QED BY <1>1, <1>6, <3>1, <3>2, <3>3 DEF VerifierInv
    <2>2. CASE /\ Served(answer[v])
               /\ answer[v].pem = owid[v].pem
               /\ Ends(v, "Valid")
               /\ UNCHANGED <<tried, beyond>>
      <3>1. pc'[v] = "done" /\ verdict'[v] = "Valid"
        BY <2>2 DEF VerifyInv, VerifiersType, Ends
      <3>2. answer[v] = FreshKey(minute)
        BY <1>1, <2>2, AnsweredFacts
      <3>3. FreshVerdict(owid[v]) = "Valid"
        BY <2>2, <3>2, FreshVerdictFacts
      <3>. QED BY <1>1, <1>6, <3>1, <3>3 DEF VerifierInv
    <2>3. CASE /\ Served(answer[v])
               /\ answer[v].pem # owid[v].pem
               /\ tried' = [tried EXCEPT ![v] = answer[v]]
               /\ beyond' = [beyond EXCEPT ![v] = MinutesBeyond(answer[v], MinuteOf(owid[v]))]
               /\ pc' = [pc EXCEPT ![v] = "beyond"]
               /\ UNCHANGED verdict
      <3>. DEFINE near == MinutesBeyond(answer[v], minute)
      <3>1. answer[v] = FreshKey(minute)
        BY <1>1, <2>3, AnsweredFacts
      <3>2. near \in Seq(Minutes)
        BY <1>2, <1>5, <2>3, <3>1, FreshKeyType, BeyondFacts
      <3>3. pc'[v] = "beyond" /\ tried'[v] = answer[v] /\ beyond'[v] = near
        BY <2>3 DEF VerifyInv, VerifiersType
      <3>4. Near(v)' = near
        BY <1>1, <3>3 DEF Near
      <3>. HIDE DEF near
      <3>5. Looking(v, {})'
        BY <1>1, <1>6, <2>3, <3>1, <3>2, <3>3, <3>4 DEF Looking
      <3>. QED BY <1>1, <3>3, <3>5 DEF VerifierInv
    <2>. QED BY <2>1, <2>2, <2>3 DEF Judge
  <1>8. ASSUME NEW w \in Verifiers \ {v} PROVE VerifierInv(w)'
    BY OthersKeepInv DEF VerifyInv, Judge, Ends
  <1>. QED BY <1>3, <1>4, <1>7, <1>8 DEF VerifyInv, VerifiersType

\* The key beyond an edge is the one an empty cache would give.
LEMMA AskBeyondKeepsInv ==
  ASSUME StartsOnMinutes, StartsApart, VerifyInv, NEW v \in Verifiers, AskBeyond(v)
  PROVE  VerifyInv'
  <1>0. PICK asked, left : asked = Head(beyond[v]) /\ left = Tail(beyond[v])
    OBVIOUS
  <1>1. /\ owid[v] \in Owids /\ Looking(v, {})
        /\ UNCHANGED <<starts, stating, owid, tried, verdict>>
        /\ beyond[v] # << >> /\ KeyAt(v, asked)
        /\ pc'[v] = "compare" /\ beyond'[v] = left
    BY <1>0 DEF VerifyInv, VerifierInv, VerifiersType, AskBeyond
  <1>2. /\ beyond[v] \in Seq(Minutes) /\ asked \in Minutes /\ left \in Seq(Minutes)
        /\ \A i \in DOMAIN left : i + 1 \in DOMAIN beyond[v] /\ left[i] = beyond[v][i + 1]
        /\ \A i \in DOMAIN beyond[v] : i = 1 \/ (i - 1 \in DOMAIN left /\ left[i - 1] = beyond[v][i])
        /\ 1 \in DOMAIN beyond[v] /\ beyond[v][1] = asked
    BY <1>0, <1>1 DEF Looking
  <1>3. /\ TruthInv'
        /\ Answered(v, asked)'
        /\ DOMAIN answer' = Verifiers /\ missed' \in [Verifiers -> BOOLEAN]
        /\ \A w \in Verifiers \ {v} : answer'[w] = answer[w] /\ missed'[w] = missed[w]
        /\ missed[v] => missed'[v]
    BY <1>1, <1>2, KeyAtAnswers DEF VerifyInv, Answered
  <1>4. VerifiersType'
    BY <1>3 DEF VerifyInv, VerifiersType, AskBeyond
  <1>5. VerifierInv(v)'
    <2>1. Near(v)' = Near(v)
      BY <1>1 DEF Near
    <2>2. /\ FreshKey(MinuteOf(owid[v]))' = FreshKey(MinuteOf(owid[v]))
          /\ \A m, pem : Signs(m, pem)' <=> Signs(m, pem)
      BY <1>1, SameCreator DEF Signs
    <2>3. /\ \A i \in DOMAIN left : \E j \in DOMAIN Near(v) : Near(v)[j] = left[i]
          /\ \E j \in DOMAIN Near(v) : Near(v)[j] = asked
      BY <1>1, <1>2 DEF Looking
    <2>4. ~missed'[v] =>
            \A j \in DOMAIN Near(v) :
              \/ \E i \in DOMAIN left : left[i] = Near(v)[j]
              \/ Near(v)[j] \in {asked}
              \/ ~Signs(Near(v)[j], owid[v].pem)
      <3>1. ASSUME ~missed'[v], NEW j \in DOMAIN Near(v), NEW i \in DOMAIN beyond[v],
                   beyond[v][i] = Near(v)[j]
            PROVE  (\E k \in DOMAIN left : left[k] = Near(v)[j]) \/ Near(v)[j] = asked
        BY <1>2, <3>1
      <3>. QED BY <1>1, <1>3, <3>1 DEF Looking
    <2>5. Looking(v, {asked})'
      BY <1>1, <1>2, <2>1, <2>2, <2>3, <2>4 DEF Looking
    <2>6. asked \in Minutes /\ Answered(v, asked)' /\ Looking(v, {asked})'
      BY <1>2, <1>3, <2>5
    <2>. QED BY <1>1, <2>6 DEF VerifierInv, Answered, Looking
  <1>6. ASSUME NEW w \in Verifiers \ {v} PROVE VerifierInv(w)'
    BY <1>1, <1>3, OthersKeepInv DEF VerifyInv, AskBeyond
  <1>. QED BY <1>3, <1>4, <1>5, <1>6 DEF VerifyInv, VerifiersType

\* Comparing that key with those tried leaves what an empty cache would have done next.
LEMMA CompareKeepsInv ==
  ASSUME StartsOnMinutes, StartsApart, VerifyInv, NEW v \in Verifiers, Compare(v)
  PROVE  VerifyInv'
  <1>1. /\ owid[v] \in Owids
        /\ UNCHANGED <<starts, stating, owid, answer, tried, beyond, missed>>
    BY DEF VerifyInv, VerifierInv, Compare
  <1>2. PICK minute \in Minutes : Answered(v, minute) /\ Looking(v, {minute})
    BY DEF VerifyInv, VerifierInv, Compare
  <1>3. TruthInv'
    BY TruthUnchanged DEF VerifyInv, Compare
  <1>4. VerifiersType'
    BY DEF VerifyInv, VerifiersType, Compare, Ends
  <1>5. /\ FreshVerdict(owid[v])' = FreshVerdict(owid[v])
        /\ FreshKey(MinuteOf(owid[v]))' = FreshKey(MinuteOf(owid[v]))
        /\ \A m, pem : Signs(m, pem)' <=> Signs(m, pem)
    BY <1>1, SameCreator DEF Signs
  <1>6. VerifierInv(v)'
    <2>1. CASE NeighbourVerifies(v) /\ Ends(v, "Valid")
      <3>1. pc'[v] = "done" /\ verdict'[v] = "Valid"
        BY <2>1 DEF VerifyInv, VerifiersType, Ends
      <3>2. Signs(minute, owid[v].pem)
        BY <1>2, <2>1, AnsweredFacts DEF NeighbourVerifies, Signs
      <3>3. FreshVerdict(owid[v]) = "Valid"
        BY <1>2, <3>2, FreshVerdictFacts DEF Looking, Near
      <3>. QED BY <1>1, <1>5, <3>1, <3>3 DEF VerifierInv
    <2>2. CASE ~NeighbourVerifies(v) /\ pc' = [pc EXCEPT ![v] = "beyond"]
      <3>1. pc'[v] = "beyond"
        BY <2>2 DEF VerifyInv, VerifiersType
      <3>2. ~missed[v] => ~Signs(minute, owid[v].pem)
        BY <1>2, <2>2, AnsweredFacts DEF NeighbourVerifies, Signs, Looking
      <3>3. Near(v)' = Near(v)
        BY <1>1 DEF Near
      <3>4. Looking(v, {})'
        BY <1>1, <1>2, <1>5, <3>2, <3>3 DEF Looking
      <3>. QED BY <1>1, <3>1, <3>4 DEF VerifierInv
    <2>. QED BY <2>1, <2>2 DEF Compare
  <1>7. ASSUME NEW w \in Verifiers \ {v} PROVE VerifierInv(w)'
    BY OthersKeepInv DEF VerifyInv, Compare, Ends
  <1>. QED BY <1>3, <1>4, <1>6, <1>7 DEF VerifyInv, VerifiersType

\* A verdict given up on is the one an empty cache would give.
LEMMA ConcludeKeepsInv ==
  ASSUME StartsOnMinutes, StartsApart, VerifyInv, NEW v \in Verifiers, Conclude(v)
  PROVE  VerifyInv'
  <1>. DEFINE status == IF tried[v].known /\ ~StatesMinute(tried[v], MinuteOf(owid[v]))
                        THEN "KeyUnavailable" ELSE "Invalid"
  <1>1. /\ owid[v] \in Owids /\ Looking(v, {}) /\ beyond[v] = << >>
        /\ UNCHANGED <<starts, stating, owid, answer, tried, beyond, missed>>
        /\ pc'[v] = "done" /\ verdict'[v] = status
    BY DEF VerifyInv, VerifierInv, VerifiersType, Conclude, Ends
  <1>2. TruthInv'
    BY TruthUnchanged DEF VerifyInv, Conclude
  <1>3. VerifiersType'
    BY DEF VerifyInv, VerifiersType, Conclude, Ends
  <1>4. FreshVerdict(owid[v])' = FreshVerdict(owid[v])
    BY <1>1, SameCreator
  <1>5. ~missed[v] => FreshVerdict(owid[v]) = status
    <2>1. ASSUME ~missed[v] PROVE \A j \in DOMAIN Near(v) : ~Signs(Near(v)[j], owid[v].pem)
      BY <1>1, <2>1 DEF Looking
    <2>2. tried[v] = FreshKey(MinuteOf(owid[v])) /\ Served(tried[v]) /\ tried[v].pem # owid[v].pem
      BY <1>1 DEF Looking
    <2>. QED BY <2>1, <2>2, FreshVerdictFacts DEF Near
  <1>6. status # "Valid"
    OBVIOUS
  <1>. HIDE DEF status
  <1>7. VerifierInv(v)'
    BY <1>1, <1>4, <1>5, <1>6 DEF VerifierInv
  <1>8. ASSUME NEW w \in Verifiers \ {v} PROVE VerifierInv(w)'
    BY OthersKeepInv DEF VerifyInv, Conclude, Ends
  <1>. QED BY <1>2, <1>3, <1>7, <1>8 DEF VerifyInv, VerifiersType

-----------------------------------------------------------------------------
(***************************************************************************)
(* The invariant, and what it says of caches and held spans.               *)
(***************************************************************************)

\* An empty cache and no verification have the invariant.
LEMMA VerifyInitInv ==
  ASSUME VerifyInit
  PROVE  VerifyInv
  <1>1. CacheInv /\ keys = {}
    BY CacheInitInv DEF VerifyInit, CacheInit
  <1>2. TruthInv
    BY <1>1 DEF VerifyInit, TruthInv
  <1>3. VerifiersType
    BY DEF VerifyInit, VerifiersType
  <1>4. \A v \in Verifiers : VerifierInv(v)
    BY DEF VerifyInit, VerifierInv
  <1>. QED BY <1>2, <1>3, <1>4 DEF VerifyInv, VerifiersType

\* Every step keeps the invariant.
LEMMA VerifyStepInv ==
  ASSUME StartsOnMinutes, StartsApart, VerifyInv, [VerifyNext]_verifyVars
  PROVE  VerifyInv'
  <1>1. CASE UNCHANGED verifyVars
    <2>1. TruthInv'
      BY <1>1, TruthUnchanged DEF VerifyInv, verifyVars
    <2>2. VerifiersType'
      BY <1>1 DEF VerifyInv, VerifiersType, verifyVars
    <2>3. ASSUME NEW w \in Verifiers PROVE VerifierInv(w)'
      BY <1>1, OthersKeepInv DEF VerifyInv, verifyVars
    <2>. QED BY <2>1, <2>2, <2>3 DEF VerifyInv, VerifiersType
  <1>2. ASSUME NEW v \in Verifiers,
               Begin(v) \/ Select(v) \/ Judge(v) \/ AskBeyond(v) \/ Compare(v) \/ Conclude(v)
        PROVE  VerifyInv'
    BY <1>2, BeginKeepsInv, SelectKeepsInv, JudgeKeepsInv, AskBeyondKeepsInv,
       CompareKeepsInv, ConcludeKeepsInv
  <1>. QED BY <1>1, <1>2 DEF VerifyNext

\* What is held and what every verification has met is what the creator would
\* answer, in every state verifications reach.
THEOREM VerifyInvariant ==
  ASSUME StartsOnMinutes, StartsApart
  PROVE  VerifySpec => []VerifyInv
  <1>1. VerifyInit => VerifyInv
    BY VerifyInitInv
  <1>2. VerifyInv /\ [VerifyNext]_verifyVars => VerifyInv'
    BY VerifyStepInv
  <1>. QED BY <1>1, <1>2, PTL DEF VerifySpec

\* The cache does not show: whatever was asked for before and by whom, a
\* verification that missed no answer ends as it would have with nothing held.
THEOREM CacheHidden ==
  ASSUME StartsOnMinutes, StartsApart
  PROVE  VerifySpec => []CacheDoesNotShow
  <1>1. VerifyInv => CacheDoesNotShow
    BY DEF VerifyInv, VerifierInv, CacheDoesNotShow
  <1>. QED BY <1>1, VerifyInvariant, PTL

\* Every minute a key is held for after the one it started in begins with that
\* key in force, however far its span was widened and before its end is known.
THEOREM HeldWhileInForce ==
  ASSUME StartsOnMinutes, StartsApart
  PROVE  VerifySpec => []NoLaterKeyStarted
  <1>1. VerifyInv => NoLaterKeyStarted
    <2>1. ASSUME VerifyInv, stating, NEW key \in keys, NEW minute \in key.first + 1 .. key.last
          PROVE  InForceAt(key.pem, minute * Resolution)
      <3>1. key.first \in Int /\ key.last \in Int
        BY <2>1 DEF VerifyInv, TruthInv, CacheInv, TypeOK, HeldKey, Minutes
      <3>2. minute \in key.first .. key.last
        BY <3>1
      <3>. QED BY <2>1, <3>2 DEF VerifyInv, TruthInv, TrueToCreator
    <2>. QED BY <2>1 DEF NoLaterKeyStarted
  <1>. QED BY <1>1, VerifyInvariant, PTL

-----------------------------------------------------------------------------
(***************************************************************************)
(* What the creator's own answers let sign.                                *)
(***************************************************************************)

\* A key the creator answers a minute with, no further from an identifier's own
\* than the allowance and one more, was in force as near to its date.
LEMMA AnsweredNearby ==
  ASSUME Scheduled, stating, NEW o \in Owids, o.signed <= Now,
         NEW minute \in Minutes, AnsweredBy(o.pem, minute),
         minute - MinuteOf(o) <= Allowance + 1, MinuteOf(o) - minute <= Allowance + 1
  PROVE  SignedWithin(o, Allowance + 1)
  <1>. DEFINE own == MinuteOf(o)
              reach == (Allowance + 1) * Resolution
  <1>1. /\ own \in Int /\ minute \in Int /\ o.signed \in Int /\ Now \in Int
        /\ Resolution \in Int /\ Resolution > 0 /\ Allowance \in Int /\ reach \in Int
    BY MinuteOfFacts, TicksAssumption, MinutesAssumption, TicksMonotone DEF Minutes
  <1>2. own * Resolution <= o.signed /\ o.signed < (own + 1) * Resolution
    BY MinuteOfFacts
  <1>. HIDE DEF own
  <1>3. /\ own * Resolution \in Int /\ minute * Resolution \in Int
        /\ (own + 1) * Resolution = own * Resolution + Resolution
        /\ (minute + 1) * Resolution = minute * Resolution + Resolution
        /\ (minute - own) * Resolution = minute * Resolution - own * Resolution
        /\ (own - minute) * Resolution = own * Resolution - minute * Resolution
    BY <1>1
  <1>4. /\ minute * Resolution <= own * Resolution + reach
        /\ own * Resolution <= minute * Resolution + reach
    <2>1. minute - own <= Allowance + 1 /\ own - minute <= Allowance + 1
      BY DEF own
    <2>2. (minute - own) * Resolution <= reach /\ (own - minute) * Resolution <= reach
      BY <1>1, <2>1, TicksMonotone
    <2>. QED BY <1>1, <1>3, <2>2
  <1>5. reach >= Resolution
    BY <1>1, MinutesAssumption
  <1>. HIDE DEF reach
  <1>6. \A tick \in Int : InForceAt(o.pem, tick) /\ o.signed - reach <= tick
                          /\ tick <= o.signed + reach
                          => SignedWithin(o, Allowance + 1)
    BY <1>1 DEF SignedWithin, reach
  <1>7. CASE minute * Resolution > Now
    <2>1. InForceAt(o.pem, Now)
      BY <1>7 DEF AnsweredBy, Asked
    <2>. QED BY <1>1, <1>2, <1>3, <1>4, <1>5, <1>6, <1>7, <2>1
  <1>8. CASE ~(minute * Resolution > Now)
    <2>1. InForceAt(o.pem, minute * Resolution)
      BY <1>8 DEF AnsweredBy, Asked
    <2>2. InForceAt(o.pem, (minute + 1) * Resolution - 1)
      BY <1>1, <2>1, InForceAllMinute
    <2>3. CASE minute >= own
      <3>1. minute * Resolution >= own * Resolution
        BY <1>1, <2>3, TicksMonotone
      <3>. QED BY <1>1, <1>2, <1>3, <1>4, <1>5, <1>6, <2>1, <3>1
    <2>4. CASE minute < own
      <3>1. minute * Resolution < own * Resolution
        BY <1>1, <2>4, TicksMonotone
      <3>. QED BY <1>1, <1>2, <1>3, <1>4, <1>5, <1>6, <2>2, <3>1
    <2>. QED BY <1>1, <2>3, <2>4
  <1>. QED BY <1>7, <1>8

\* The creator's answer is a key it answers with.
LEMMA FreshKeyAnswered ==
  ASSUME Scheduled, stating \in BOOLEAN, ~stating => \E p \in Pems : Published = {p},
         NEW minute \in Minutes, Served(FreshKey(minute))
  PROVE  /\ AnsweredBy(FreshKey(minute).pem, minute)
         /\ FreshKey(minute) = StatedBy(FreshKey(minute).pem, StartStated(FreshKey(minute).pem),
                                        EndStated(FreshKey(minute).pem))
  <1>1. PICK p : AnsweredBy(p, minute)
    BY OneAnswer DEF Failed, Served
  <1>2. FreshKey(minute) = StatedBy(p, StartStated(p), EndStated(p))
    BY <1>1, OneAnswer
  <1>3. StartStated(p) \in OptionMinutes /\ EndStated(p) \in OptionMinutes
    BY <1>1, StatedType DEF AnsweredBy
  <1>4. FreshKey(minute).pem = p
    BY <1>2, <1>3, StatedByFacts
  <1>. QED BY <1>1, <1>2, <1>4

\* What an empty cache judges valid was signed about when its key was in force.
LEMMA FreshValidNearby ==
  ASSUME Scheduled, stating, NEW o \in Owids, o.signed <= Now, FreshVerdict(o) = "Valid"
  PROVE  SignedWithin(o, Allowance + 1)
  <1>. DEFINE own == MinuteOf(o)
              key == FreshKey(own)
              near == MinutesBeyond(key, own)
  <1>1. own \in Minutes /\ Allowance \in Nat /\ MaxMinute \in Nat
    BY MinuteOfFacts, MinutesAssumption
  <1>2. Served(key) /\ (key.pem = o.pem \/ \E j \in DOMAIN near : Signs(near[j], o.pem))
    <2>1. "KeyUnavailable" # "Valid" /\ "Invalid" # "Valid"
      OBVIOUS
    <2>. HIDE DEF key, near
    <2>. QED BY <2>1, FreshVerdictFacts DEF key, near
  <1>3. CASE key.pem = o.pem
    <2>1. AnsweredBy(o.pem, own)
      BY <1>1, <1>2, <1>3, FreshKeyAnswered
    <2>2. own - own <= Allowance + 1
      BY <1>1 DEF Minutes
    <2>. QED BY <1>1, <2>1, <2>2, AnsweredNearby
  <1>4. ASSUME NEW j \in DOMAIN near, Signs(near[j], o.pem)
        PROVE  SignedWithin(o, Allowance + 1)
    <2>1. key \in KeyAnswer
      BY <1>1, <1>2, FreshKeyType
    <2>2. near[j] \in Minutes
      <3>1. near \in Seq(Minutes)
        BY <2>1, BeyondFacts
      <3>. HIDE DEF near
      <3>. QED BY <1>4, <3>1
    <2>3. AnsweredBy(o.pem, near[j])
      BY <1>4, <2>2, FreshKeyAnswered DEF Signs
    <2>4. \/ NearEdge(own, key.first) /\ near[j] = key.first - 1
          \/ NearEdge(own, key.last) /\ near[j] = key.last + 1
      BY <1>4, <2>1, BeyondFacts
    <2>5. near[j] - own <= Allowance + 1 /\ own - near[j] <= Allowance + 1
      <3>1. key.first \in Int /\ key.last \in Int /\ own \in Int
        BY <1>1, <2>1 DEF KeyAnswer, Minutes
      <3>. HIDE DEF key, own, near
      <3>. QED BY <1>1, <2>4, <3>1 DEF NearEdge
    <2>. QED BY <2>2, <2>3, <2>5, AnsweredNearby
  <1>. QED BY <1>2, <1>3, <1>4

\* A key signs for no date further from its span than the allowance and the
\* minute beyond it, whatever was held, widened, missed or looked beyond.
THEOREM RetiredKeysRefused ==
  ASSUME StartsOnMinutes, StartsApart
  PROVE  VerifySpec => []RetiredKeyCannotSign
  <1>1. VerifyInv => RetiredKeyCannotSign
    <2>1. ASSUME VerifyInv, NEW v \in Verifiers, pc[v] = "done", stating,
                 verdict[v] = "Valid", owid[v].signed <= Now
          PROVE  SignedWithin(owid[v], Allowance + 1)
      <3>1. owid[v] \in Owids /\ FreshVerdict(owid[v]) = "Valid" /\ Scheduled
        BY <2>1 DEF VerifyInv, VerifierInv, TruthInv, Scheduled
      <3>. QED BY <2>1, <3>1, FreshValidNearby
    <2>. QED BY <2>1 DEF RetiredKeyCannotSign
  <1>. QED BY <1>1, VerifyInvariant, PTL

-----------------------------------------------------------------------------
(***************************************************************************)
(* Genuine identifiers.  Everything is counted in minutes: the starts are  *)
(* whole ones, and every moment compared with a start is in one.           *)
(***************************************************************************)

\* A moment is after a whole minute just where it is after that minute's start.
LEMMA InMinute ==
  ASSUME NEW tick \in Int, NEW minute \in Int,
         minute * Resolution <= tick, tick < (minute + 1) * Resolution
  PROVE  \A m \in Int : m * Resolution <= tick <=> m <= minute
  <1>1. ASSUME NEW m \in Int PROVE m * Resolution <= tick <=> m <= minute
    <2>1. m <= minute <=> m * Resolution <= minute * Resolution
      BY TicksMonotone
    <2>2. m < minute + 1 <=> m * Resolution < (minute + 1) * Resolution
      <3>1. minute + 1 \in Int
        OBVIOUS
      <3>. QED BY <3>1, TicksMonotone
    <2>3. /\ m * Resolution \in Int /\ minute * Resolution \in Int
          /\ (minute + 1) * Resolution \in Int
      BY TicksMonotone
    <2>. QED BY <2>1, <2>2, <2>3
  <1>. QED BY <1>1

\* The minute each key starts at.
IsStartMinutes(at) ==
  /\ at \in [Published -> Nat]
  /\ \A p \in Published : starts[p] = at[p] * Resolution

\* Starts at or after the base date are counted in minutes, in the same order.
LEMMA StartMinutes ==
  ASSUME Scheduled, \A p \in Published : starts[p] >= 0
  PROVE  /\ \E at : IsStartMinutes(at)
         /\ \A at : IsStartMinutes(at) =>
              \A p, q \in Published : /\ starts[p] <= starts[q] <=> at[p] <= at[q]
                                      /\ at[p] = at[q] => p = q
  <1>1. Resolution \in Nat /\ Resolution > 0
    BY TicksAssumption
  <1>2. ASSUME NEW p \in Published
        PROVE  starts[p] \div Resolution \in Nat
               /\ starts[p] = (starts[p] \div Resolution) * Resolution
    <2>1. PICK minute \in Int : starts[p] = minute * Resolution
      BY StartFacts
    <2>2. starts[p] \div Resolution = minute
      BY <1>1, <2>1
    <2>3. minute >= 0
      <3>1. minute < 0 <=> minute * Resolution < 0
        BY TicksMonotone
      <3>2. minute * Resolution >= 0 /\ minute * Resolution \in Int
        BY <2>1, StartFacts
      <3>. QED BY <3>1, <3>2
    <2>. QED BY <2>1, <2>2, <2>3
  <1>3. IsStartMinutes([p \in Published |-> starts[p] \div Resolution])
    BY <1>2 DEF IsStartMinutes
  <1>4. ASSUME NEW at, IsStartMinutes(at), NEW p \in Published, NEW q \in Published
        PROVE  (starts[p] <= starts[q] <=> at[p] <= at[q]) /\ (at[p] = at[q] => p = q)
    <2>1. at[p] \in Int /\ at[q] \in Int
          /\ starts[p] = at[p] * Resolution /\ starts[q] = at[q] * Resolution
      BY <1>4 DEF IsStartMinutes
    <2>. QED BY <2>1, TicksMonotone, StartFacts
  <1>. QED BY <1>3, <1>4

\* What the creator answers a minute with, in minutes.
LEMMA AnsweredInMinutes ==
  ASSUME Scheduled, stating, \A p \in Published : starts[p] >= 0,
         NEW at, IsStartMinutes(at), NEW minute \in Minutes, NEW p \in Published
  PROVE  LET read == IF minute > NowMinute THEN NowMinute ELSE minute
         IN AnsweredBy(p, minute) <=>
              /\ at[p] <= read
              /\ \A r \in Published : at[r] <= at[p] \/ at[r] > read
  <1>. DEFINE read == IF minute > NowMinute THEN NowMinute ELSE minute
  <1>1. /\ minute \in Int /\ NowMinute \in Int /\ Now \in Int /\ minute * Resolution \in Int
        /\ minute <= NowMinute <=> minute * Resolution <= Now
    BY NowMinuteFacts, TicksAssumption, TicksMonotone DEF Minutes
  <1>2. \A m \in Int : m * Resolution <= Asked(minute) <=> m <= read
    <2>1. CASE minute * Resolution > Now
      <3>1. Asked(minute) = Now /\ read = NowMinute
        BY <1>1, <2>1 DEF Asked
      <3>2. NowMinute * Resolution <= Now /\ Now < (NowMinute + 1) * Resolution
        BY CountedMinute, TicksAssumption DEF NowMinute
      <3>. QED BY <1>1, <3>1, <3>2, InMinute
    <2>2. CASE ~(minute * Resolution > Now)
      <3>1. Asked(minute) = minute * Resolution /\ read = minute
        BY <1>1, <2>2 DEF Asked
      <3>2. ASSUME NEW m \in Int PROVE m * Resolution <= minute * Resolution <=> m <= minute
        BY <1>1, TicksMonotone
      <3>. QED BY <3>1, <3>2
    <2>. QED BY <2>1, <2>2
  <1>3. Asked(minute) \in Int /\ read \in Int
    BY <1>1 DEF Asked
  <1>. HIDE DEF read
  <1>4. \A r \in Published : /\ at[r] \in Int /\ starts[r] \in Int
                             /\ starts[r] = at[r] * Resolution
                             /\ starts[r] <= Asked(minute) <=> at[r] <= read
                             /\ starts[r] <= starts[p] <=> at[r] <= at[p]
    BY <1>2, StartMinutes, StartFacts DEF IsStartMinutes
  <1>5. AnsweredBy(p, minute) <=>
          /\ at[p] <= read
          /\ \A r \in Published : at[r] <= at[p] \/ at[r] > read
    BY <1>3, <1>4 DEF AnsweredBy, InForceAt
  <1>. QED BY <1>5 DEF read

\* Where the key of a genuine identifier lies about its date, in minutes.
LEMMA GenuineInMinutes ==
  ASSUME Scheduled, StartsSpaced, NEW o \in Owids, Genuine(o), Started(o),
         NEW at, IsStartMinutes(at)
  PROVE  /\ o.pem \in Published
         /\ at[o.pem] <= MinuteOf(o) + Allowance
         /\ \A r \in Published : at[r] <= at[o.pem] \/ at[r] > MinuteOf(o) - Allowance
         /\ at[o.pem] <= NowMinute
         /\ \A r, s \in Published : at[r] < at[s] => at[s] - at[r] >= Allowance
  <1>. DEFINE own == MinuteOf(o)
  <1>1. /\ own \in Int /\ o.signed \in Int /\ Now \in Int /\ NowMinute \in Int
        /\ Resolution \in Int /\ Resolution > 0 /\ Allowance \in Int
        /\ Allowance * Resolution \in Int
    BY MinuteOfFacts, NowMinuteFacts, TicksAssumption, MinutesAssumption, TicksMonotone
    DEF Minutes
  <1>2. own * Resolution <= o.signed /\ o.signed < (own + 1) * Resolution
    BY MinuteOfFacts
  <1>3. PICK tick \in Int : /\ o.signed - Allowance * Resolution <= tick
                            /\ tick <= o.signed + Allowance * Resolution
                            /\ InForceAt(o.pem, tick)
    BY <1>1 DEF Genuine, SignedWithin
  <1>4. \A r \in Published : at[r] \in Int /\ starts[r] \in Int /\ starts[r] = at[r] * Resolution
    BY StartFacts DEF IsStartMinutes
  <1>5. o.pem \in Published /\ starts[o.pem] <= tick
    BY <1>3 DEF InForceAt
  <1>. HIDE DEF own
  <1>6. /\ (own - Allowance) * Resolution = own * Resolution - Allowance * Resolution
        /\ (own + Allowance + 1) * Resolution
             = (own + 1) * Resolution + Allowance * Resolution
        /\ own * Resolution \in Int /\ (own + 1) * Resolution \in Int
    BY <1>1
  <1>7. at[o.pem] <= own + Allowance
    <2>1. at[o.pem] * Resolution < (own + Allowance + 1) * Resolution
      BY <1>1, <1>2, <1>3, <1>4, <1>5, <1>6
    <2>2. own + Allowance + 1 \in Int
      BY <1>1
    <2>3. at[o.pem] < own + Allowance + 1
      BY <1>4, <1>5, <2>1, <2>2, TicksMonotone
    <2>. QED BY <1>1, <1>4, <1>5, <2>3
  <1>8. ASSUME NEW r \in Published, ~(at[r] <= at[o.pem])
        PROVE  at[r] > own - Allowance
    <2>1. starts[r] > tick
      <3>1. starts[r] <= starts[o.pem] <=> at[r] <= at[o.pem]
        BY <1>4, <1>5, TicksMonotone
      <3>. QED BY <1>3, <1>4, <1>5, <1>8, <3>1 DEF InForceAt
    <2>2. (own - Allowance) * Resolution < at[r] * Resolution
      BY <1>1, <1>2, <1>3, <1>4, <1>6, <2>1
    <2>3. own - Allowance \in Int
      BY <1>1
    <2>. QED BY <1>4, <2>2, <2>3, TicksMonotone
  <1>9. at[o.pem] <= NowMinute
    <2>1. NowMinute * Resolution <= Now /\ Now < (NowMinute + 1) * Resolution
      BY CountedMinute, TicksAssumption DEF NowMinute
    <2>2. at[o.pem] * Resolution <= Now
      BY <1>4, <1>5 DEF Started
    <2>. QED BY <1>1, <1>4, <1>5, <2>1, <2>2, InMinute
  <1>10. ASSUME NEW r \in Published, NEW s \in Published, at[r] < at[s]
         PROVE  at[s] - at[r] >= Allowance
    <2>1. starts[r] < starts[s]
      BY <1>4, <1>10, TicksMonotone
    <2>2. starts[s] - starts[r] >= Allowance * Resolution
      BY <2>1 DEF Scheduled, StartsSpaced, Published
    <2>3. (at[s] - at[r]) * Resolution = at[s] * Resolution - at[r] * Resolution
      BY <1>1, <1>4
    <2>4. Allowance * Resolution <= (at[s] - at[r]) * Resolution
      BY <1>4, <2>2, <2>3
    <2>5. at[s] - at[r] \in Int
      BY <1>4
    <2>6. Allowance <= at[s] - at[r]
      BY <1>1, <2>4, <2>5, TicksMonotone
    <2>. QED BY <1>1, <2>5, <2>6
  <1>. QED BY <1>4, <1>5, <1>7, <1>8, <1>9, <1>10 DEF own

\* A genuine identifier is valid with nothing held, wherever there is an answer.
LEMMA GenuineFresh ==
  ASSUME Scheduled, StartsSpaced, stating \in BOOLEAN,
         ~stating => \E p \in Pems : Published = {p},
         NEW o \in Owids, Genuine(o), Started(o)
  PROVE  FreshVerdict(o) = IF AnswersTo(MinuteOf(o)) = {} THEN "KeyUnavailable" ELSE "Valid"
  <1>. DEFINE own == MinuteOf(o)
              key == FreshKey(own)
              near == MinutesBeyond(key, own)
  <1>1. own \in Minutes
    BY MinuteOfFacts
  <1>2. CASE AnswersTo(own) = {}
    <2>1. ~Served(FreshKey(own))
      BY <1>1, <1>2, OneAnswer DEF Failed, Served
    <2>. QED BY <1>2, <2>1, FreshVerdictFacts
  <1>3. CASE AnswersTo(own) # {}
    <2>1. PICK p : AnsweredBy(p, own)
      BY <1>1, <1>3, OneAnswer
    <2>2. p \in Published /\ key = StatedBy(p, StartStated(p), EndStated(p))
          /\ StartStated(p) \in OptionMinutes /\ EndStated(p) \in OptionMinutes
      BY <1>1, <2>1, OneAnswer, StatedType DEF AnsweredBy
    <2>3. /\ Served(key) /\ key.pem = p
          /\ key.known <=> StartStated(p) # None
          /\ StartStated(p) # None =>
               /\ key.first = StartStated(p)
               /\ key.last = IF WholeSpan(StartStated(p), EndStated(p))
                             THEN EndStated(p) - 1 ELSE MaxMinute
      BY <2>2, StatedByFacts
    <2>4. key \in KeyAnswer
      BY <1>1, <2>3, FreshKeyType
    <2>5. CASE p = o.pem
      BY <1>3, <2>3, <2>5, FreshVerdictFacts
    <2>6. CASE p # o.pem
      <3>1. o.pem \in Published /\ \A r \in Published : starts[r] >= 0
        BY DEF Genuine, SignedWithin, InForceAt
      <3>2. stating
        BY <2>2, <2>6, <3>1
      <3>3. PICK at : IsStartMinutes(at)
        BY <3>1, StartMinutes
      <3>4. /\ at[o.pem] <= own + Allowance
            /\ \A r \in Published : at[r] <= at[o.pem] \/ at[r] > own - Allowance
            /\ at[o.pem] <= NowMinute
            /\ \A r, s \in Published : at[r] < at[s] => at[s] - at[r] >= Allowance
        BY <3>3, GenuineInMinutes
      <3>5. /\ at[p] <= own /\ at[p] <= NowMinute
            /\ \A r \in Published : at[r] <= at[p] \/ at[r] > own \/ at[r] > NowMinute
        <4>1. /\ at[p] <= (IF own > NowMinute THEN NowMinute ELSE own)
              /\ \A r \in Published :
                   at[r] <= at[p] \/ at[r] > (IF own > NowMinute THEN NowMinute ELSE own)
          BY <1>1, <2>1, <2>2, <3>1, <3>2, <3>3, AnsweredInMinutes
        <4>2. at \in [Published -> Nat] /\ own \in Int /\ NowMinute \in Int
          BY <1>1, <3>3, NowMinuteFacts DEF IsStartMinutes, Minutes
        <4>. HIDE DEF own
        <4>. QED BY <2>2, <4>1, <4>2
      <3>6. /\ \A r \in Published : at[r] \in Int /\ at[r] >= 0
            /\ own \in Int /\ NowMinute \in Int /\ Allowance \in Int /\ Allowance >= 0
            /\ MaxMinute \in Int /\ NowMinute <= MaxMinute /\ own <= MaxMinute
        BY <1>1, <3>3, NowMinuteFacts, MinutesAssumption DEF IsStartMinutes, Minutes
      <3>7. \A r, s \in Published : starts[r] <= starts[s] <=> at[r] <= at[s]
        BY <3>1, <3>3, StartMinutes
      <3>8. at[p] # at[o.pem]
        BY <2>2, <2>6, <3>1, <3>3, StartMinutes
      <3>9. \A r \in Published : at[r] <= NowMinute =>
              at[r] \in Minutes /\ MinutesSinceBase(starts[r]) = at[r]
        <4>1. \A r \in Published : starts[r] = at[r] * Resolution
          BY <3>3 DEF IsStartMinutes
        <4>. QED BY <3>6, <4>1, WholeMinute DEF Minutes
      <3>10. StartStated(p) = at[p] /\ StartStated(p) # None /\ EndStated(p) = NextStart(p)
        BY <2>2, <3>2, <3>5, <3>6, <3>9, NoneAssumption DEF StartStated, EndStated
      <3>. HIDE DEF key, own, near
      <3>11. ASSUME NEW minute \in Minutes, minute <= NowMinute, at[o.pem] <= minute,
                    \A r \in Published : at[r] <= at[o.pem] \/ at[r] > minute,
                    \/ key.first > 0 /\ NearEdge(own, key.first) /\ minute = key.first - 1
                    \/ /\ key.last < MaxMinute /\ NearEdge(own, key.last)
                       /\ minute = key.last + 1
             PROVE  FreshVerdict(o) = "Valid"
        <4>1. AnsweredBy(o.pem, minute)
          <5>1. ~(minute > NowMinute)
            BY <3>6, <3>11 DEF Minutes
          <5>. QED BY <3>1, <3>2, <3>3, <3>11, <5>1, AnsweredInMinutes
        <4>2. FreshKey(minute) = StatedBy(o.pem, StartStated(o.pem), EndStated(o.pem))
          BY <3>11, <4>1, OneAnswer
        <4>3. Signs(minute, o.pem)
          BY <3>1, <4>2, StatedType, StatedByFacts DEF Signs
        <4>4. \E j \in DOMAIN near : near[j] = minute
          BY <2>3, <2>4, <3>10, <3>11, BeyondFacts DEF near
        <4>. QED BY <2>3, <4>3, <4>4, FreshVerdictFacts DEF key, near, own
      <3>12. ASSUME at[o.pem] > at[p] PROVE FreshVerdict(o) = "Valid"
        <4>1. at[o.pem] > own
          BY <2>2, <3>1, <3>4, <3>5, <3>6, <3>12
        <4>2. PICK s \in Published :
                /\ at[s] > at[p] /\ NextStart(p) = MinutesSinceBase(starts[s])
                /\ at[s] <= at[o.pem]
          <5>1. \A r \in Published : starts[r] \in Int
            BY StartFacts
          <5>2. ~(starts[o.pem] <= starts[p])
            BY <2>2, <3>1, <3>6, <3>7, <3>12
          <5>3. PICK s \in Published :
                  /\ starts[s] > starts[p] /\ NextStart(p) = MinutesSinceBase(starts[s])
                  /\ \A r \in Published : starts[r] > starts[p] => starts[s] <= starts[r]
            BY <2>2, <3>1, <5>2, NextStarts
          <5>4. starts[s] <= starts[o.pem] /\ ~(starts[s] <= starts[p])
            BY <2>2, <3>1, <5>1, <5>2, <5>3
          <5>. QED BY <2>2, <3>1, <3>6, <3>7, <5>3, <5>4
        <4>3. at[s] > own
          BY <2>2, <3>1, <3>4, <3>5, <3>6, <4>2
        <4>4. at[s] = at[o.pem]
          BY <3>1, <3>4, <3>6, <4>2, <4>3
        <4>5. /\ at[o.pem] \in Minutes
              /\ EndStated(p) = at[o.pem]
          BY <3>1, <3>4, <3>9, <3>10, <4>2, <4>4
        <4>6. WholeSpan(StartStated(p), EndStated(p))
          BY <2>2, <3>1, <3>6, <3>10, <3>12, <4>5, NoneAssumption DEF WholeSpan
        <4>7. key.last = at[o.pem] - 1
          BY <2>3, <3>10, <4>5, <4>6
        <4>8. /\ key.last < MaxMinute /\ NearEdge(own, key.last)
              /\ at[o.pem] = key.last + 1
          BY <3>1, <3>4, <3>6, <4>1, <4>7 DEF NearEdge
        <4>9. \A r \in Published : at[r] <= at[o.pem] \/ at[r] > at[o.pem]
          BY <3>1, <3>6
        <4>10. at[o.pem] <= at[o.pem]
          BY <3>1, <3>6
        <4>. QED BY <3>4, <3>11, <4>5, <4>8, <4>9, <4>10
      <3>13. ASSUME at[o.pem] < at[p] PROVE FreshVerdict(o) = "Valid"
        <4>1. key.first = at[p]
          BY <2>3, <3>10
        <4>2. /\ key.first > 0 /\ NearEdge(own, key.first) /\ at[p] - 1 = key.first - 1
              /\ at[p] - 1 \in Minutes /\ at[p] - 1 <= NowMinute /\ at[o.pem] <= at[p] - 1
          BY <2>2, <3>1, <3>4, <3>5, <3>6, <3>13, <4>1 DEF NearEdge, Minutes
        <4>3. \A r \in Published : at[r] <= at[o.pem] \/ at[r] > at[p] - 1
          <5>1. ASSUME NEW r \in Published, ~(at[r] <= at[o.pem]), ~(at[r] > at[p] - 1)
                PROVE  FALSE
            <6>1. at[r] < at[p] /\ at[r] > own - Allowance
              BY <2>2, <3>1, <3>4, <3>6, <5>1
            <6>2. at[p] - at[r] >= Allowance
              BY <2>2, <3>4, <6>1
            <6>. QED BY <2>2, <3>5, <3>6, <6>1, <6>2
          <5>. QED BY <5>1
        <4>. QED BY <3>11, <4>2, <4>3
      <3>14. FreshVerdict(o) = "Valid"
        BY <2>2, <3>1, <3>6, <3>8, <3>12, <3>13
      <3>. QED BY <1>3, <3>14 DEF own
    <2>. QED BY <2>5, <2>6
  <1>. QED BY <1>2, <1>3

\* Where no key is in force for less than the allowance, a genuine identifier
\* under a key that has started is valid, or its key cannot be had because the
\* creator has none for its date, whatever was held and whoever else verifies.
THEOREM GenuineJudged ==
  ASSUME StartsOnMinutes, StartsApart, StartsSpaced
  PROVE  VerifySpec => []GenuineIsJudged
  <1>1. VerifyInv => GenuineIsJudged
    <2>1. ASSUME VerifyInv, NEW v \in Verifiers, pc[v] = "done", ~missed[v],
                 Genuine(owid[v]), Started(owid[v])
          PROVE  verdict[v] = IF AnswersTo(MinuteOf(owid[v])) = {}
                              THEN "KeyUnavailable" ELSE "Valid"
      <3>1. owid[v] \in Owids /\ verdict[v] = FreshVerdict(owid[v])
        BY <2>1 DEF VerifyInv, VerifierInv
      <3>2. /\ Scheduled /\ stating \in BOOLEAN
            /\ ~stating => \E p \in Pems : Published = {p}
        BY <2>1 DEF VerifyInv, TruthInv, Scheduled
      <3>. QED BY <2>1, <3>1, <3>2, GenuineFresh
    <2>. QED BY <2>1 DEF GenuineIsJudged
  <1>. QED BY <1>1, VerifyInvariant, PTL
=============================================================================
