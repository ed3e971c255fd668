--------------------------- MODULE RotationProofs ---------------------------
(***************************************************************************)
(* Proofs about Rotation: what the cache holds agrees with the creator's   *)
(* schedule whenever the drift of the clocks and the latency of an answer  *)
(* together stay within the allowance, for every allowance, limit, number  *)
(* of keys and number of requests on their way.                            *)
(***************************************************************************)
EXTENDS Rotation, KeyCacheProofs

Stages == {"idle", "asked", "answered"}

RotationTypeOK ==
  /\ start \in [Pems -> OptionMinutes]
  /\ now \in Minutes /\ creator_now \in Minutes
  /\ request \in [Requests -> [stage : Stages, minute : OptionMinutes,
                               is_recent : BOOLEAN, pem : Pems \cup {None},
                               statement : OptionMinutes \X OptionMinutes, age : Nat]]

ClocksAgree == now <= creator_now + MaxDrift /\ creator_now <= now + MaxDrift

\* No key published from now on can start at or before the minute.
Settled(minute) == minute <= creator_now \/ \E q \in Published : minute < start[q]

\* No published key later than p starts at or before the minute.
NoneLater(p, minute) ==
  \A later \in Published : start[later] <= start[p] \/ start[later] > minute

\* What is true of a key's span for the creator's schedule, held or on its way.
SpanAgrees(p, span) ==
  /\ InForce(p, span.first) /\ InForce(p, span.last)
  /\ Settled(span.last)
  /\ span.explicit => span.first = start[p] /\ IsNextStart(p, span.last + 1)

\* What an answer on its way still says truly when it arrives.
AnswerAgrees(a) ==
  /\ a.pem \in Published
  /\ start[a.pem] <= creator_now
  /\ a.age <= MaxLatency
  /\ a.minute # None /\ ~a.is_recent => InForce(a.pem, a.minute) /\ a.minute <= creator_now
  /\ \/ a.statement[1] = None
     \/ /\ a.statement[1] = start[a.pem]
        /\ IF a.statement[2] = None
           THEN NoneLater(a.pem, now - MaxDrift - a.age)
           ELSE IsNextStart(a.pem, a.statement[2])

RequestsAgree ==
  \A r \in Requests :
    /\ request[r].stage = "asked" /\ request[r].minute # None /\ ~request[r].is_recent
         => request[r].minute <= Behind(now)
    /\ request[r].stage = "asked" => request[r].age = 0
    /\ request[r].stage = "answered" => AnswerAgrees(request[r])

KeysAgree == \A key \in keys : SpanAgrees(key.pem, key)

RotationInv ==
  CacheInv /\ RotationTypeOK /\ ClocksAgree /\ RequestsAgree /\ KeysAgree

\* The assumption the argument rests on.
InTime == MaxDrift + MaxLatency <= Allowance

-----------------------------------------------------------------------------
(***************************************************************************)
(* The schedule.                                                           *)
(***************************************************************************)

\* A published key's start is a minute.
LEMMA PublishedStart ==
  ASSUME RotationTypeOK, NEW p \in Published
  PROVE  p \in Pems /\ start[p] \in Minutes
  BY DEF RotationTypeOK, Published, OptionMinutes

\* A key in force at both ends of a span is in force throughout it.
LEMMA InForceBetween ==
  ASSUME RotationTypeOK, NEW p, NEW first \in Minutes, NEW last \in Minutes,
         InForce(p, first), InForce(p, last), NEW minute \in first .. last
  PROVE  InForce(p, minute)
  <1>1. p \in Published
    BY DEF InForce
  <1>2. \A q \in Published : start[q] \in Minutes
    BY PublishedStart
  <1>. QED BY <1>1, <1>2 DEF InForce, Minutes

\* The minute before the drift allowance has passed on the creator's clock too.
LEMMA BehindPassed ==
  ASSUME RotationTypeOK, ClocksAgree, InTime
  PROVE  Behind(now) \in Minutes /\ Behind(now) <= creator_now
  <1>1. /\ now \in Minutes /\ creator_now \in Minutes
        /\ now <= creator_now + MaxDrift
    BY DEF RotationTypeOK, ClocksAgree
  <1>2. Behind(now) \in Minutes
    BY <1>1, BehindType
  <1>3. CASE now > Allowance
    BY <1>1, <1>2, <1>3, TimingAssumption, MinutesAssumption DEF Behind, InTime, Minutes
  <1>4. CASE ~(now > Allowance)
    BY <1>1, <1>2, <1>4 DEF Behind, Minutes
  <1>. QED BY <1>2, <1>3, <1>4

\* The span an answer is held for agrees with the schedule.
LEMMA HeldSpanAgrees ==
  ASSUME RotationTypeOK, ClocksAgree, InTime, NEW r \in Requests,
         request[r].stage = "answered", AnswerAgrees(request[r]),
         Holdable(request[r].minute, request[r].is_recent, request[r].statement[1])
  PROVE  SpanAgrees(request[r].pem,
                    SpanToHold(request[r].minute, request[r].statement[1],
                               request[r].statement[2], now))
  <1>. DEFINE a == request[r]
              p == request[r].pem
              from == request[r].statement[1]
              to == request[r].statement[2]
              span == SpanToHold(a.minute, from, to, now)
  <1>1. /\ a.minute \in OptionMinutes /\ from \in OptionMinutes /\ to \in OptionMinutes
        /\ a.age \in Nat /\ now \in Minutes /\ creator_now \in Minutes
    BY DEF RotationTypeOK
  <1>2. /\ p \in Published /\ start[p] \in Minutes /\ start[p] <= creator_now
        /\ \A q \in Published : start[q] \in Minutes
    BY PublishedStart DEF AnswerAgrees
  <1>3. CASE from = None
    <2>1. a.minute # None /\ ~a.is_recent
      BY <1>3 DEF Holdable
    <2>2. InForce(p, a.minute) /\ a.minute <= creator_now
      BY <2>1 DEF AnswerAgrees
    <2>3. span = [first |-> a.minute, last |-> a.minute, explicit |-> FALSE, open_ended |-> FALSE]
      BY <1>3 DEF SpanToHold, WholeSpan
    <2>. QED BY <2>2, <2>3 DEF SpanAgrees, Settled
  <1>4. CASE from # None /\ to # None
    <2>1. from = start[p] /\ IsNextStart(p, to)
      BY <1>4 DEF AnswerAgrees
    <2>2. PICK next \in Published :
            /\ to = start[next] /\ start[next] > start[p]
            /\ \A later \in Published : start[later] <= start[p] \/ start[later] >= to
      BY <1>4, <2>1 DEF IsNextStart
    <2>3. span = [first |-> from, last |-> to - 1, explicit |-> TRUE, open_ended |-> FALSE]
      BY <1>4, <2>1, <2>2 DEF SpanToHold, WholeSpan
    <2>4. start[next] \in Minutes
      BY <1>2
    <2>5. InForce(p, from) /\ InForce(p, to - 1)
      BY <1>2, <2>1, <2>2, <2>4 DEF InForce, Minutes
    <2>6. Settled(to - 1)
      BY <2>2, <2>4 DEF Settled, Minutes
    <2>7. IsNextStart(p, (to - 1) + 1)
      <3>1. (to - 1) + 1 = to
        BY <2>2, <2>4 DEF Minutes
      <3>. QED BY <2>1, <3>1
    <2>8. span.first = from /\ span.last = to - 1
      BY <2>3
    <2>. SUFFICES SpanAgrees(p, span)
      OBVIOUS
    <2>. HIDE DEF from, to, p, span
    <2>. QED BY <2>1, <2>5, <2>6, <2>7, <2>8 DEF SpanAgrees
  <1>5. CASE from # None /\ to = None
    <2>. DEFINE last == IF from > Behind(now) THEN from ELSE Behind(now)
    <2>1. from = start[p] /\ NoneLater(p, now - MaxDrift - a.age) /\ a.age <= MaxLatency
      BY <1>5 DEF AnswerAgrees
    <2>2. span = [first |-> from, last |-> last, explicit |-> FALSE, open_ended |-> TRUE]
      BY <1>5 DEF SpanToHold, WholeSpan
    <2>3. Behind(now) \in Minutes /\ Behind(now) <= creator_now
      BY BehindPassed
    <2>4. last \in Minutes /\ from <= last /\ last <= creator_now
      BY <1>2, <2>1, <2>3 DEF Minutes
    <2>5. NoneLater(p, Behind(now))
      <3>1. CASE now > Allowance
        <4>1. Behind(now) <= now - MaxDrift - a.age
          BY <1>1, <2>1, <3>1, TimingAssumption, MinutesAssumption DEF Behind, InTime, Minutes
        <4>2. now - MaxDrift - a.age \in Int
          BY <1>1, TimingAssumption DEF Minutes
        <4>. QED BY <1>2, <2>1, <2>3, <4>1, <4>2 DEF NoneLater, Minutes
      <3>2. CASE ~(now > Allowance)
        BY <1>2, <3>2 DEF NoneLater, Behind, Minutes
      <3>. QED BY <3>1, <3>2
    <2>6. InForce(p, from) /\ InForce(p, last)
      BY <1>2, <2>1, <2>3, <2>5 DEF InForce, NoneLater, Minutes
    <2>7. span.first = from /\ span.last = last /\ ~span.explicit
      BY <2>2
    <2>. SUFFICES SpanAgrees(p, span)
      OBVIOUS
    <2>. HIDE DEF from, to, p, last, span
    <2>. QED BY <2>4, <2>6, <2>7 DEF SpanAgrees, Settled
  <1>. QED BY <1>3, <1>4, <1>5

-----------------------------------------------------------------------------
(***************************************************************************)
(* What hold leaves in the cache.                                          *)
(***************************************************************************)

\* Widening a key by another span that agrees with the schedule fills the gap
\* between the two with minutes the key was in force at.
LEMMA WidenedAgrees ==
  ASSUME RotationTypeOK, NEW key \in SoundKeys, NEW span \in Span,
         SpanAgrees(key.pem, key), SpanAgrees(key.pem, span)
  PROVE  SpanAgrees(key.pem, Widened(key, span))
  <1>. DEFINE p == key.pem
              wider == Widened(key, span)
  <1>1. /\ key.first \in Minutes /\ key.last \in Minutes
        /\ span.first \in Minutes /\ span.last \in Minutes
        /\ key \in HeldKey
    BY DEF SoundKeys, HeldKey, Span
  <1>2. /\ wider.first = IF span.first < key.first THEN span.first ELSE key.first
        /\ wider.last = IF span.last > key.last THEN span.last ELSE key.last
        /\ wider.explicit => key.explicit \/ span.explicit
    BY <1>1 DEF Widened, HeldKey
  <1>3. p \in Published /\ start[p] \in Minutes /\ \A q \in Published : start[q] \in Minutes
    BY PublishedStart DEF SpanAgrees, InForce
  <1>4. InForce(p, wider.first) /\ InForce(p, wider.last)
    BY <1>1, <1>2 DEF SpanAgrees
  <1>5. Settled(wider.last)
    BY <1>1, <1>2 DEF SpanAgrees
  <1>6. ASSUME NEW a \in {key, span}, NEW b \in {key, span}, a.explicit
        PROVE  a.first <= b.first /\ b.last <= a.last
    <2>1. a.first = start[p] /\ IsNextStart(p, a.last + 1) /\ InForce(p, b.first)
          /\ InForce(p, b.last)
      BY <1>6 DEF SpanAgrees
    <2>2. a.last \in Minutes /\ b.last \in Minutes /\ b.first \in Minutes
      BY <1>1
    <2>3. a.last + 1 # None
      BY <2>2, NoneAssumption DEF Minutes
    <2>4. PICK next \in Published : a.last + 1 = start[next] /\ start[next] > start[p]
      BY <2>1, <2>3 DEF IsNextStart
    <2>5. start[next] > b.last
      BY <1>3, <2>1, <2>4 DEF InForce, Minutes
    <2>. QED BY <1>3, <2>1, <2>2, <2>4, <2>5 DEF InForce, Minutes
  <1>7. wider.explicit => wider.first = start[p] /\ IsNextStart(p, wider.last + 1)
    <2>1. CASE key.explicit
      <3>1. wider.first = key.first /\ wider.last = key.last
        BY <1>1, <1>2, <1>6, <2>1 DEF Minutes
      <3>. HIDE DEF wider
      <3>. QED BY <2>1, <3>1 DEF SpanAgrees
    <2>2. CASE span.explicit
      <3>1. wider.first = span.first /\ wider.last = span.last
        BY <1>1, <1>2, <1>6, <2>2 DEF Minutes
      <3>. HIDE DEF wider
      <3>. QED BY <2>2, <3>1 DEF SpanAgrees
    <2>. HIDE DEF wider
    <2>. QED BY <1>2, <2>1, <2>2
  <1>. SUFFICES SpanAgrees(p, wider)
    OBVIOUS
  <1>. HIDE DEF wider
  <1>. QED BY <1>4, <1>5, <1>7 DEF SpanAgrees

\* Holding a span that agrees with the schedule leaves a cache that does.
LEMMA HoldKeepsAgreement ==
  ASSUME RotationTypeOK, UNCHANGED <<start, creator_now>>,
         keys \subseteq SoundKeys, KeysAgree,
         NEW p \in Pems, NEW span \in Span, SpanAgrees(p, span),
         HoldSpan(Creator, p, span)
  PROVE  \A key \in keys' : SpanAgrees(key.pem, key)
  <1>1. CASE UNCHANGED cacheVars
    BY <1>1 DEF cacheVars, KeysAgree
  <1>2. ASSUME NEW key \in KeysOf(Creator), key.pem = p, WidenKey(key, span)
        PROVE  \A k \in keys' : SpanAgrees(k.pem, k)
    <2>1. key \in keys /\ key \in SoundKeys
      BY DEF KeysOf
    <2>2. SpanAgrees(key.pem, Widened(key, span)) /\ Widened(key, span).pem = key.pem
      BY <1>2, <2>1, WidenedAgrees, WidenedFacts DEF KeysAgree
    <2>. QED BY <1>1, <1>2, <2>1, <2>2 DEF WidenKey, KeysAgree
  <1>3. CASE PushKey(NewKey(Creator, p, span))
    <2>1. SpanAgrees(p, NewKey(Creator, p, span)) /\ NewKey(Creator, p, span).pem = p
      BY DEF SpanAgrees, NewKey
    <2>. QED BY <1>3, <2>1 DEF PushKey, KeysAgree
  <1>. QED BY <1>1, <1>2, <1>3 DEF HoldSpan

-----------------------------------------------------------------------------
(***************************************************************************)
(* The steps.                                                              *)
(***************************************************************************)

\* Publishing a key changes nothing the schedule said of settled minutes.
LEMMA PublishKeeps ==
  ASSUME RotationTypeOK, Publish
  PROVE  /\ Published \subseteq Published'
         /\ \A q \in Published : start'[q] = start[q]
         /\ \A q, minute : InForce(q, minute) /\ Settled(minute) /\ minute \in Minutes
              => InForce(q, minute)' /\ Settled(minute)'
         /\ \A q, end : IsNextStart(q, end) /\ end # None /\ q \in Published
              => IsNextStart(q, end)'
         /\ \A q \in Published, minute \in Int : NoneLater(q, minute) /\ minute <= creator_now
              => NoneLater(q, minute)'
  <1>1. PICK p \in Pems \ Published, minute \in Minutes :
          /\ minute > creator_now
          /\ \A q \in Published : minute > start[q]
          /\ start' = [start EXCEPT ![p] = minute]
    BY DEF Publish
  <1>2. creator_now' = creator_now /\ creator_now \in Minutes
    BY DEF Publish, RotationTypeOK
  <1>3. \A q \in Published : start[q] \in Minutes
    BY PublishedStart
  <1>4. minute # None
    BY NoneAssumption DEF Minutes
  <1>5. /\ Published' = Published \cup {p}
        /\ \A q \in Published : start'[q] = start[q]
        /\ start'[p] = minute
    BY <1>1, <1>4 DEF Published, RotationTypeOK
  <1>6. ASSUME NEW q, NEW m \in Minutes, InForce(q, m), Settled(m)
        PROVE  InForce(q, m)' /\ Settled(m)'
    <2>1. m < minute
      BY <1>1, <1>2, <1>3, <1>6 DEF Settled, Minutes
    <2>. QED BY <1>1, <1>2, <1>3, <1>5, <1>6, <2>1 DEF InForce, Settled
  <1>7. ASSUME NEW q \in Published, NEW end, end # None, IsNextStart(q, end)
        PROVE  IsNextStart(q, end)'
    <2>1. PICK next \in Published :
            /\ end = start[next] /\ start[next] > start[q]
            /\ \A later \in Published : start[later] <= start[q] \/ start[later] >= end
      BY <1>7 DEF IsNextStart
    <2>2. minute >= end
      BY <1>1, <1>3, <2>1 DEF Minutes
    <2>. QED BY <1>5, <2>1, <2>2 DEF IsNextStart
  <1>8. ASSUME NEW q \in Published, NEW m \in Int, NoneLater(q, m), m <= creator_now
        PROVE  NoneLater(q, m)'
    <2>1. minute > m
      BY <1>1, <1>2, <1>8 DEF Minutes
    <2>. QED BY <1>5, <1>8, <2>1 DEF NoneLater
  <1>. QED BY <1>5, <1>6, <1>7, <1>8

\* The answer a creator gives agrees with its schedule as it is given.
LEMMA AnswerStep ==
  ASSUME RotationInv, InTime, NEW r \in Requests, Answer(r)
  PROVE  RotationTypeOK' /\ RequestsAgree'
  <1>0. PICK p \in Pems, end \in OptionMinutes :
          /\ InForce(p, AskedOf(request[r].minute))
          /\ IsNextStart(p, end)
          /\ \E statement \in {<<start[p], end>>, <<None, None>>} :
               request' = [request EXCEPT ![r] =
                 [@ EXCEPT !.stage = "answered", !.pem = p, !.statement = statement]]
    BY DEF Answer
  <1>1. PICK statement \in {<<start[p], end>>, <<None, None>>} :
          request' = [request EXCEPT ![r] =
            [@ EXCEPT !.stage = "answered", !.pem = p, !.statement = statement]]
    BY <1>0
  <1>2. /\ RotationTypeOK /\ ClocksAgree /\ RequestsAgree
        /\ now' = now /\ start' = start /\ creator_now' = creator_now
        /\ request[r].stage = "asked" /\ request[r].age = 0
    BY DEF Answer, RotationInv, RequestsAgree
  <1>3. /\ p \in Published /\ start[p] \in Minutes /\ start[p] \in OptionMinutes
        /\ \A q \in Published : start[q] \in Minutes
    BY <1>0, <1>2, PublishedStart DEF InForce, OptionMinutes
  <1>4. /\ now \in Minutes /\ creator_now \in Minutes /\ request[r].minute \in OptionMinutes
        /\ request[r].is_recent \in BOOLEAN
    BY <1>2 DEF RotationTypeOK
  <1>5. start[p] <= creator_now
    BY <1>0, <1>3, <1>4 DEF InForce, AskedOf, OptionMinutes, Minutes
  <1>6. statement \in OptionMinutes \X OptionMinutes
    BY <1>1, <1>3 DEF OptionMinutes
  <1>7. RotationTypeOK'
    BY <1>1, <1>2, <1>6, ZenonT(60) DEF RotationTypeOK, Stages
  <1>8. /\ request'[r].pem = p /\ request'[r].statement = statement
        /\ request'[r].stage = "answered" /\ request'[r].minute = request[r].minute
        /\ request'[r].is_recent = request[r].is_recent /\ request'[r].age = 0
    BY <1>1, <1>2 DEF RotationTypeOK
  <1>9. ASSUME request[r].minute # None, ~request[r].is_recent
        PROVE  InForce(p, request[r].minute) /\ request[r].minute <= creator_now
    <2>1. request[r].minute \in Minutes /\ request[r].minute <= Behind(now)
      BY <1>2, <1>4, <1>9 DEF RequestsAgree, OptionMinutes
    <2>2. request[r].minute <= creator_now
      BY <1>2, <1>4, <2>1, BehindPassed DEF Minutes
    <2>3. AskedOf(request[r].minute) = request[r].minute
      BY <1>4, <1>9, <2>1, <2>2 DEF AskedOf, Minutes
    <2>. QED BY <1>0, <2>2, <2>3
  <1>10. ASSUME statement[1] # None
         PROVE  /\ statement[1] = start[p]
                /\ IF statement[2] = None THEN NoneLater(p, now - MaxDrift - 0)
                   ELSE IsNextStart(p, statement[2])
    <2>1. statement = <<start[p], end>>
      BY <1>1, <1>10
    <2>2. CASE end = None
      <3>1. \A later \in Published : start[later] <= start[p]
        BY <1>0, <1>3, <2>2, NoneAssumption DEF IsNextStart, Minutes
      <3>. QED BY <2>1, <2>2, <3>1 DEF NoneLater
    <2>3. CASE end # None
      BY <1>0, <2>1, <2>3
    <2>. QED BY <2>2, <2>3
  <1>11. AnswerAgrees(request[r])'
    BY <1>2, <1>3, <1>5, <1>8, <1>9, <1>10, TimingAssumption
       DEF AnswerAgrees, Published, InForce, NoneLater, IsNextStart
  <1>12. ASSUME NEW s \in Requests, s # r
         PROVE  request'[s] = request[s]
    BY <1>1, <1>2, <1>12 DEF RotationTypeOK
  <1>13. ASSUME NEW s \in Requests, s # r, request[s].stage = "answered", AnswerAgrees(request[s])
         PROVE  AnswerAgrees(request[s])'
    BY <1>2, <1>12, <1>13 DEF AnswerAgrees, Published, InForce, NoneLater, IsNextStart
  <1>14. RequestsAgree'
    BY <1>2, <1>8, <1>11, <1>12, <1>13 DEF RequestsAgree
  <1>. QED BY <1>7, <1>14

\* What is settled stays settled as the clocks run on.
LEMMA ClocksKeep ==
  ASSUME RotationInv, UNCHANGED start, creator_now <= creator_now', creator_now' \in Minutes
  PROVE  \A key \in keys : SpanAgrees(key.pem, key)'
  <1>1. /\ \A p, m : InForce(p, m)' <=> InForce(p, m)
        /\ \A p, m : IsNextStart(p, m)' <=> IsNextStart(p, m)
    BY DEF InForce, IsNextStart, Published
  <1>2. \A m \in Minutes : Settled(m) => Settled(m)'
    BY DEF Settled, Published, RotationInv, RotationTypeOK, Minutes
  <1>3. \A key \in keys : key.last \in Minutes
    BY DEF RotationInv, CacheInv, TypeOK, HeldKey
  <1>. QED BY <1>1, <1>2, <1>3 DEF RotationInv, KeysAgree, SpanAgrees

\* A key published ahead of the clock changes nothing that is settled.
LEMMA PublishStep ==
  ASSUME RotationInv, Publish
  PROVE  RotationTypeOK' /\ RequestsAgree' /\ KeysAgree'
  <1>1. /\ RotationTypeOK /\ ClocksAgree /\ RequestsAgree /\ KeysAgree
        /\ now' = now /\ creator_now' = creator_now /\ request' = request /\ keys' = keys
    BY DEF RotationInv, Publish, cacheVars
  <1>2. RotationTypeOK'
    BY <1>1 DEF Publish, RotationTypeOK, OptionMinutes
  <1>3. KeysAgree'
    <2>1. \A key \in keys : key.first \in Minutes /\ key.last \in Minutes /\ key.first <= key.last
      BY DEF RotationInv, CacheInv, TypeOK, HeldKey
    <2>2. ASSUME NEW key \in keys PROVE SpanAgrees(key.pem, key)'
      <3>1. SpanAgrees(key.pem, key) /\ key.pem \in Published
        BY <1>1 DEF KeysAgree, SpanAgrees, InForce
      <3>2. Settled(key.first)
        BY <1>1, <2>1, <3>1, PublishedStart DEF SpanAgrees, Settled, RotationTypeOK, Minutes
      <3>3. key.last + 1 # None
        BY <2>1, NoneAssumption DEF Minutes
      <3>. QED BY <1>1, <2>1, <3>1, <3>2, <3>3, PublishKeeps DEF SpanAgrees
    <2>. QED BY <1>1, <2>2 DEF KeysAgree
  <1>4. RequestsAgree'
    <2>1. ASSUME NEW r \in Requests, request[r].stage = "answered"
          PROVE  AnswerAgrees(request[r])'
      <3>. DEFINE a == request[r]
      <3>1. /\ AnswerAgrees(a) /\ a.minute \in OptionMinutes /\ a.age \in Nat
            /\ now \in Minutes /\ creator_now \in Minutes
        BY <1>1, <2>1 DEF RequestsAgree, RotationTypeOK
      <3>2. a.minute # None /\ ~a.is_recent => InForce(a.pem, a.minute)'
        BY <1>1, <3>1, PublishKeeps DEF AnswerAgrees, Settled, OptionMinutes
      <3>3. a.pem \in Published' /\ start'[a.pem] = start[a.pem]
        BY <1>1, <3>1, PublishKeeps DEF AnswerAgrees
      <3>4. NoneLater(a.pem, now - MaxDrift - a.age) => NoneLater(a.pem, now - MaxDrift - a.age)'
        <4>1. now - MaxDrift - a.age \in Int /\ now - MaxDrift - a.age <= creator_now
          BY <1>1, <3>1, TimingAssumption DEF ClocksAgree, Minutes
        <4>2. \A m \in Int : m <= creator_now /\ NoneLater(a.pem, m) => NoneLater(a.pem, m)'
          BY <1>1, <3>1, PublishKeeps DEF AnswerAgrees
        <4>. QED BY <1>1, <4>1, <4>2 DEF NoneLater
      <3>5. a.statement[2] # None /\ IsNextStart(a.pem, a.statement[2])
              => IsNextStart(a.pem, a.statement[2])'
        BY <1>1, <3>1, PublishKeeps DEF AnswerAgrees
      <3>. QED BY <1>1, <3>1, <3>2, <3>3, <3>4, <3>5 DEF AnswerAgrees
    <2>. QED BY <1>1, <2>1 DEF RequestsAgree
  <1>. QED BY <1>2, <1>3, <1>4

\* The verifier's clock moves only as far as latency and drift let it.
LEMMA VerifierTickStep ==
  ASSUME RotationInv, VerifierTick
  PROVE  RotationTypeOK' /\ ClocksAgree' /\ RequestsAgree' /\ KeysAgree'
  <1>1. /\ RotationTypeOK /\ ClocksAgree /\ RequestsAgree
        /\ now \in Minutes /\ now < MaxMinute /\ now' = now + 1 /\ now + 1 <= creator_now + MaxDrift
        /\ creator_now' = creator_now /\ start' = start /\ keys' = keys
        /\ creator_now \in Minutes
    BY DEF RotationInv, VerifierTick, RotationTypeOK, cacheVars
  <1>2. \A r \in Requests :
          request'[r] = IF request[r].stage = "answered"
                        THEN [request[r] EXCEPT !.age = @ + 1] ELSE request[r]
    BY DEF VerifierTick
  <1>3. RotationTypeOK'
    <2>1. now' \in Minutes
      BY <1>1, MinutesAssumption DEF Minutes
    <2>. QED BY <1>1, <2>1 DEF VerifierTick, RotationTypeOK
  <1>4. ClocksAgree'
    BY <1>1, TimingAssumption DEF ClocksAgree, Minutes
  <1>5. KeysAgree'
    BY <1>1, ClocksKeep DEF KeysAgree, Minutes
  <1>6. Behind(now) <= Behind(now')
    BY <1>1, MinutesAssumption DEF Behind, Minutes
  <1>7. ASSUME NEW r \in Requests, request[r].stage = "answered"
        PROVE  AnswerAgrees(request[r])'
    <2>1. AnswerAgrees(request[r]) /\ request[r].age \in Nat /\ request[r].age < MaxLatency
      BY <1>1, <1>7 DEF RequestsAgree, RotationTypeOK, VerifierTick
    <2>2. /\ request'[r].pem = request[r].pem /\ request'[r].statement = request[r].statement
          /\ request'[r].minute = request[r].minute
          /\ request'[r].is_recent = request[r].is_recent
          /\ request'[r].age = request[r].age + 1
      BY <1>1, <1>2, <1>7 DEF RotationTypeOK
    <2>3. now' - MaxDrift - (request[r].age + 1) = now - MaxDrift - request[r].age
      BY <1>1, <2>1, TimingAssumption DEF Minutes
    <2>4. request[r].age + 1 <= MaxLatency
      BY <2>1, TimingAssumption
    <2>5. NoneLater(request[r].pem, now - MaxDrift - request[r].age)
            => NoneLater(request[r].pem, now - MaxDrift - request[r].age)'
      BY <1>1, <2>2, <2>3 DEF NoneLater, Published
    <2>6. /\ \A p, m : InForce(p, m)' <=> InForce(p, m)
          /\ \A p, m : IsNextStart(p, m)' <=> IsNextStart(p, m)
          /\ Published' = Published
      BY <1>1 DEF InForce, IsNextStart, Published
    <2>. QED BY <1>1, <2>1, <2>2, <2>4, <2>5, <2>6 DEF AnswerAgrees
  <1>8. RequestsAgree'
    <2>1. ASSUME NEW r \in Requests, request'[r].stage = "asked"
          PROVE  request'[r] = request[r] /\ request[r].stage = "asked"
      BY <1>1, <1>2, <2>1 DEF RotationTypeOK
    <2>2. ASSUME NEW r \in Requests, request'[r].stage = "answered"
          PROVE  request[r].stage = "answered"
      BY <1>1, <1>2, <2>2 DEF RotationTypeOK
    <2>3. ASSUME NEW r \in Requests, request'[r].stage = "asked", request'[r].minute # None,
                 ~request'[r].is_recent
          PROVE  request'[r].minute <= Behind(now')
      <3>1. request[r].minute \in Minutes /\ request[r].minute <= Behind(now)
        BY <1>1, <2>1, <2>3 DEF RequestsAgree, RotationTypeOK, OptionMinutes
      <3>2. Behind(now) \in Minutes /\ Behind(now') \in Minutes
        BY <1>1, <1>3, BehindType DEF RotationTypeOK
      <3>. QED BY <1>6, <2>1, <2>3, <3>1, <3>2 DEF Minutes
    <2>. QED BY <1>1, <1>7, <2>1, <2>2, <2>3 DEF RequestsAgree, Behind
  <1>. QED BY <1>3, <1>4, <1>5, <1>8

\* The creator's clock moves only as far as drift lets it, and settles more minutes.
LEMMA CreatorTickStep ==
  ASSUME RotationInv, CreatorTick
  PROVE  RotationTypeOK' /\ ClocksAgree' /\ RequestsAgree' /\ KeysAgree'
  <1>1. /\ RotationTypeOK /\ ClocksAgree /\ RequestsAgree
        /\ creator_now \in Minutes /\ creator_now < MaxMinute /\ creator_now' = creator_now + 1
        /\ creator_now + 1 <= now + MaxDrift
        /\ now' = now /\ now \in Minutes /\ start' = start /\ keys' = keys /\ request' = request
    BY DEF RotationInv, CreatorTick, RotationTypeOK, cacheVars
  <1>2. creator_now' \in Minutes /\ creator_now <= creator_now'
    BY <1>1, MinutesAssumption DEF Minutes
  <1>3. RotationTypeOK'
    BY <1>1, <1>2 DEF RotationTypeOK
  <1>4. ClocksAgree'
    BY <1>1, TimingAssumption DEF ClocksAgree, Minutes
  <1>5. KeysAgree'
    BY <1>1, <1>2, ClocksKeep DEF KeysAgree
  <1>6. ASSUME NEW r \in Requests, AnswerAgrees(request[r])
        PROVE  AnswerAgrees(request[r])'
    <2>1. /\ \A p, m : InForce(p, m)' <=> InForce(p, m)
          /\ \A p, m : IsNextStart(p, m)' <=> IsNextStart(p, m)
          /\ Published' = Published
      BY <1>1 DEF InForce, IsNextStart, Published
    <2>2. NoneLater(request[r].pem, now - MaxDrift - request[r].age)
            => NoneLater(request[r].pem, now - MaxDrift - request[r].age)'
      BY <1>1 DEF NoneLater, Published
    <2>3. start[request[r].pem] \in Minutes
      BY <1>1, <1>6, PublishedStart DEF AnswerAgrees
    <2>4. request[r].minute # None => request[r].minute \in Minutes
      BY <1>1 DEF RotationTypeOK, OptionMinutes
    <2>. QED BY <1>1, <1>2, <1>6, <2>1, <2>2, <2>3, <2>4 DEF AnswerAgrees, Minutes
  <1>7. RequestsAgree'
    BY <1>1, <1>6 DEF RequestsAgree, Behind
  <1>. QED BY <1>3, <1>4, <1>5, <1>7

\* Asking, losing and holding an answer leave the answers on their way in agreement.
LEMMA RequestStep ==
  ASSUME RotationInv, NEW r \in Requests, Ask(r) \/ Lose(r) \/ Arrive(r)
  PROVE  RotationTypeOK' /\ RequestsAgree'
  <1>1. /\ RotationTypeOK /\ RequestsAgree
        /\ now' = now /\ creator_now' = creator_now /\ start' = start
        /\ now \in Minutes
    BY DEF RotationInv, RotationTypeOK, Ask, Lose, Arrive
  <1>2. PICK a : /\ request' = [request EXCEPT ![r] = a]
                 /\ \/ a = Idle
                    \/ \E minute \in OptionMinutes :
                         a = [Idle EXCEPT !.stage = "asked", !.minute = minute,
                                          !.is_recent = Recent(minute, now)]
    BY DEF Ask, Lose, Arrive
  <1>3. /\ a \in [stage : Stages, minute : OptionMinutes, is_recent : BOOLEAN,
                  pem : Pems \cup {None}, statement : OptionMinutes \X OptionMinutes, age : Nat]
        /\ a.stage # "answered" /\ a.age = 0
        /\ a.stage = "asked" /\ a.minute # None /\ ~a.is_recent => a.minute <= Behind(now)
    <2>1. CASE a = Idle
      BY <2>1 DEF Idle, Stages, OptionMinutes
    <2>2. ASSUME NEW minute \in OptionMinutes,
                 a = [Idle EXCEPT !.stage = "asked", !.minute = minute,
                                  !.is_recent = Recent(minute, now)]
          PROVE  <1>3
      <3>1. Recent(minute, now) \in BOOLEAN
        BY DEF Recent
      <3>2. minute # None /\ ~Recent(minute, now) => minute <= Behind(now)
        BY <1>1, BehindType DEF Recent, OptionMinutes, Minutes
      <3>3. /\ a.stage = "asked" /\ a.minute = minute /\ a.is_recent = Recent(minute, now)
            /\ a.pem = None /\ a.statement = <<None, None>> /\ a.age = 0
            /\ a = [stage |-> "asked", minute |-> minute, is_recent |-> Recent(minute, now),
                    pem |-> None, statement |-> <<None, None>>, age |-> 0]
        BY <2>2 DEF Idle
      <3>. QED BY <3>1, <3>2, <3>3 DEF Stages, OptionMinutes
    <2>. QED BY <1>2, <2>1, <2>2
  <1>4. RotationTypeOK'
    BY <1>1, <1>2, <1>3 DEF RotationTypeOK
  <1>5. request'[r] = a /\ \A s \in Requests : s # r => request'[s] = request[s]
    BY <1>1, <1>2 DEF RotationTypeOK
  <1>6. ASSUME NEW s \in Requests, s # r, AnswerAgrees(request[s])
        PROVE  AnswerAgrees(request[s])'
    BY <1>1, <1>5, <1>6 DEF AnswerAgrees, Published, InForce, NoneLater, IsNextStart
  <1>7. RequestsAgree'
    BY <1>1, <1>3, <1>5, <1>6 DEF RequestsAgree
  <1>. QED BY <1>4, <1>7

\* The step the agreement is about: an answer arrives and is held.
LEMMA ArriveStep ==
  ASSUME RotationInv, InTime, NEW r \in Requests, Arrive(r)
  PROVE  CacheInv' /\ KeysAgree'
  <1>. DEFINE a == request[r]
              span == SpanToHold(a.minute, a.statement[1], a.statement[2], now)
  <1>1. /\ RotationTypeOK /\ ClocksAgree /\ CacheInv /\ KeysAgree /\ AnswerAgrees(a)
        /\ a.stage = "answered"
        /\ Hold(Creator, a.minute, a.is_recent, a.pem, a.statement[1], a.statement[2], now)
        /\ UNCHANGED <<start, creator_now>>
    BY DEF Arrive, RotationInv, RequestsAgree
  <1>2. /\ a.minute \in OptionMinutes /\ a.is_recent \in BOOLEAN /\ a.pem \in Pems
        /\ a.statement[1] \in OptionMinutes /\ a.statement[2] \in OptionMinutes
        /\ now \in Minutes
    BY <1>1 DEF RotationTypeOK, AnswerAgrees, Published
  <1>3. CacheInv'
    BY <1>1, <1>2, CreatorAssumption, HoldKeepsInv
  <1>4. \A p, s : SpanAgrees(p, s)' <=> SpanAgrees(p, s)
    BY <1>1 DEF SpanAgrees, InForce, Settled, IsNextStart, Published
  <1>5. CASE ~Holdable(a.minute, a.is_recent, a.statement[1])
    <2>1. keys' = keys
      BY <1>1, <1>5 DEF Hold, cacheVars
    <2>. HIDE DEF a, span
    <2>. QED BY <1>1, <1>3, <1>4, <2>1 DEF KeysAgree
  <1>6. CASE Holdable(a.minute, a.is_recent, a.statement[1])
    <2>1. span \in Span /\ SpanAgrees(a.pem, span) /\ HoldSpan(Creator, a.pem, span)
      BY <1>1, <1>2, <1>6, SpanToHoldType, HeldSpanAgrees DEF Hold
    <2>2. keys \subseteq SoundKeys
      BY <1>1 DEF CacheInv, TypeOK, SoundKeys
    <2>. HIDE DEF a, span
    <2>3. \A key \in keys' : SpanAgrees(key.pem, key)
      BY <1>1, <1>2, <2>1, <2>2, HoldKeepsAgreement
    <2>. QED BY <1>3, <1>4, <2>3 DEF KeysAgree
  <1>. QED BY <1>3, <1>5, <1>6

\* A step that leaves the schedule and the creator's clock alone and the keys
\* as they were, or takes them all away, keeps what is said of them.
LEMMA QuietKeys ==
  ASSUME RotationInv, UNCHANGED <<start, creator_now>>, UNCHANGED cacheVars \/ ClearKeys
  PROVE  CacheInv' /\ KeysAgree'
  <1>1. \A p, s : SpanAgrees(p, s)' <=> SpanAgrees(p, s)
    BY DEF SpanAgrees, InForce, Settled, IsNextStart, Published
  <1>2. keys' = keys \/ keys' = {}
    BY DEF cacheVars, ClearKeys
  <1>3. KeysAgree'
    BY <1>1, <1>2 DEF RotationInv, KeysAgree
  <1>4. CacheInv'
    BY CacheStep DEF RotationInv, CacheNext
  <1>. QED BY <1>3, <1>4

\* Every step keeps the invariant.
LEMMA RotationStep ==
  ASSUME RotationInv, InTime, [RotationNext]_rotationVars
  PROVE  RotationInv'
  <1>1. CASE Publish
    <2>1. CacheInv' /\ ClocksAgree'
      BY <1>1, UnchangedKeepsInv DEF RotationInv, Publish, ClocksAgree
    <2>. QED BY <1>1, <2>1, PublishStep DEF RotationInv
  <1>2. CASE VerifierTick
    BY <1>2, UnchangedKeepsInv, VerifierTickStep DEF RotationInv, VerifierTick
  <1>3. CASE CreatorTick
    BY <1>3, UnchangedKeepsInv, CreatorTickStep DEF RotationInv, CreatorTick
  <1>4. ASSUME UNCHANGED <<start, now, creator_now, request>>
        PROVE  RotationTypeOK' /\ ClocksAgree' /\ RequestsAgree'
    BY <1>4 DEF RotationInv, RotationTypeOK, ClocksAgree, RequestsAgree, AnswerAgrees, Published,
                InForce, NoneLater, IsNextStart, Behind
  <1>5. CASE Clear
    <2>1. RotationTypeOK' /\ ClocksAgree' /\ RequestsAgree'
      BY <1>4, <1>5 DEF Clear
    <2>. QED BY <1>5, <2>1, QuietKeys DEF RotationInv, Clear
  <1>6. CASE UNCHANGED rotationVars
    <2>1. RotationTypeOK' /\ ClocksAgree' /\ RequestsAgree'
      BY <1>4, <1>6 DEF rotationVars
    <2>. QED BY <1>6, <2>1, QuietKeys DEF RotationInv, rotationVars
  <1>7. ASSUME NEW r \in Requests, Ask(r) \/ Answer(r) \/ Arrive(r) \/ Lose(r)
        PROVE  RotationInv'
    <2>1. ClocksAgree'
      BY <1>7 DEF RotationInv, ClocksAgree, Ask, Answer, Arrive, Lose
    <2>2. CASE Ask(r) \/ Lose(r)
      BY <2>1, <2>2, RequestStep, QuietKeys DEF RotationInv, Ask, Lose
    <2>3. CASE Answer(r)
      BY <2>1, <2>3, AnswerStep, QuietKeys DEF RotationInv, Answer
    <2>4. CASE Arrive(r)
      BY <2>1, <2>4, RequestStep, ArriveStep DEF RotationInv
    <2>. QED BY <1>7, <2>2, <2>3, <2>4
  <1>. QED BY <1>1, <1>2, <1>3, <1>5, <1>6, <1>7 DEF RotationNext

\* The invariant holds of every behaviour.
LEMMA RotationInvariant ==
  ASSUME InTime
  PROVE  RotationSpec => []RotationInv
  <1>1. RotationInit => RotationInv
    <2>. SUFFICES ASSUME RotationInit PROVE RotationInv
      OBVIOUS
    <2>1. keys = {} /\ held = 0
      BY DEF RotationInit, CacheInit
    <2>2. CacheInv
      BY CacheInitInv DEF RotationInit
    <2>3. 0 \in Minutes
      BY MinutesAssumption DEF Minutes
    <2>4. \A r \in Requests : request[r] = Idle
      BY DEF RotationInit
    <2>5. Idle \in [stage : Stages, minute : OptionMinutes, is_recent : BOOLEAN,
                    pem : Pems \cup {None}, statement : OptionMinutes \X OptionMinutes, age : Nat]
      BY DEF Idle, Stages, OptionMinutes
    <2>6. RotationTypeOK
      BY <2>3, <2>5 DEF RotationInit, RotationTypeOK, OptionMinutes
    <2>7. ClocksAgree
      BY TimingAssumption DEF RotationInit, ClocksAgree
    <2>8. RequestsAgree
      BY <2>4 DEF RequestsAgree, Idle
    <2>9. KeysAgree
      BY <2>1 DEF KeysAgree
    <2>. QED BY <2>2, <2>6, <2>7, <2>8, <2>9 DEF RotationInv
  <1>2. RotationInv /\ [RotationNext]_rotationVars => RotationInv'
    BY RotationStep
  <1>. QED BY <1>1, <1>2, PTL DEF RotationSpec

-----------------------------------------------------------------------------
\* Where the drift of the clocks and the latency of an answer together stay
\* within CLOCK_DRIFT_ALLOWANCE_MINUTES, every minute a key is held for is one
\* the creator's schedule has it in force at: the span from its start up to the
\* allowance behind now, and the gap a widening fills, included.
THEOREM HeldAgrees ==
  ASSUME InTime
  PROVE  RotationSpec => []HeldIsInForce
  <1>1. RotationInv => HeldIsInForce
    <2>. SUFFICES ASSUME RotationInv, NEW key \in keys, NEW minute \in key.first .. key.last
                  PROVE  InForce(key.pem, minute)
      BY DEF HeldIsInForce
    <2>1. key.first \in Minutes /\ key.last \in Minutes
      BY DEF RotationInv, CacheInv, TypeOK, HeldKey
    <2>2. InForce(key.pem, key.first) /\ InForce(key.pem, key.last) /\ RotationTypeOK
      BY DEF RotationInv, KeysAgree, SpanAgrees
    <2>. QED BY <2>1, <2>2, InForceBetween
  <1>. QED BY <1>1, RotationInvariant, PTL

\* Under the same assumption a key marked as explicit is held for exactly the
\* span its creator's schedule gives it.
THEOREM ExplicitSpansAreWhole ==
  ASSUME InTime
  PROVE  RotationSpec => []ExplicitIsWhole
  <1>1. RotationInv => ExplicitIsWhole
    BY DEF RotationInv, KeysAgree, SpanAgrees, ExplicitIsWhole
  <1>. QED BY <1>1, RotationInvariant, PTL
=============================================================================
