--------------------------- MODULE KeyCacheProofs ---------------------------
(***************************************************************************)
(* Proofs about KeyCache, for every allowance, every limit and every set   *)
(* of end points and keys.                                                 *)
(***************************************************************************)
EXTENDS KeyCache, FiniteSetTheorems, TLAPS

\* The span of a held key, without its name.
Span == {span \in [first : Minutes, last : Minutes,
                   explicit : BOOLEAN, open_ended : BOOLEAN] :
           span.first <= span.last}

SoundKeys == {key \in HeldKey : key.first <= key.last}

(***************************************************************************)
(* What the helpers of HeldKeys return.                                    *)
(***************************************************************************)

\* The saturating subtraction stays within the minutes a u32 counts.
LEMMA BehindType ==
  ASSUME NEW now \in Minutes
  PROVE  Behind(now) \in Minutes
  BY MinutesAssumption DEF Minutes, Behind

\* The span hold takes from an answer is never empty and never leaves the
\* minutes a u32 counts: no end - 1 wraps and no start passes its last.
LEMMA SpanToHoldType ==
  ASSUME NEW minute \in OptionMinutes, NEW isRecent,
         NEW start \in OptionMinutes, NEW end \in OptionMinutes,
         NEW now \in Minutes, Holdable(minute, isRecent, start)
  PROVE  SpanToHold(minute, start, end, now) \in Span
  <1>1. CASE WholeSpan(start, end)
    <2>1. start \in Minutes /\ end \in Minutes /\ end > start
      BY <1>1 DEF WholeSpan, OptionMinutes
    <2>2. end - 1 \in Minutes /\ start <= end - 1
      BY <2>1, MinutesAssumption DEF Minutes
    <2>3. SpanToHold(minute, start, end, now)
            = [first |-> start, last |-> end - 1, explicit |-> TRUE, open_ended |-> FALSE]
      BY <1>1 DEF SpanToHold
    <2>. QED BY <2>1, <2>2, <2>3 DEF Span
  <1>2. CASE ~WholeSpan(start, end) /\ start # None
    <2>. DEFINE last == IF start > Behind(now) THEN start ELSE Behind(now)
    <2>1. start \in Minutes
      BY <1>2 DEF OptionMinutes
    <2>2. last \in Minutes /\ start <= last
      BY <2>1, BehindType, MinutesAssumption DEF Minutes
    <2>3. SpanToHold(minute, start, end, now)
            = [first |-> start, last |-> last, explicit |-> FALSE, open_ended |-> TRUE]
      BY <1>2 DEF SpanToHold
    <2>. HIDE DEF last
    <2>. QED BY <2>1, <2>2, <2>3 DEF Span
  <1>3. CASE start = None
    <2>1. minute \in Minutes
      BY <1>3 DEF Holdable, OptionMinutes
    <2>2. ~WholeSpan(start, end)
      BY <1>3 DEF WholeSpan
    <2>3. SpanToHold(minute, start, end, now)
            = [first |-> minute, last |-> minute, explicit |-> FALSE, open_ended |-> FALSE]
      BY <1>3, <2>2 DEF SpanToHold
    <2>4. minute <= minute
      BY <2>1 DEF Minutes
    <2>. QED BY <2>1, <2>3, <2>4 DEF Span
  <1>. QED BY <1>1, <1>2, <1>3

\* Widening keeps the key's name and takes in both spans.
LEMMA WidenedFacts ==
  ASSUME NEW key \in SoundKeys, NEW span \in Span
  PROVE  /\ Widened(key, span) \in SoundKeys
         /\ Widened(key, span).end_point = key.end_point
         /\ Widened(key, span).pem = key.pem
         /\ Widened(key, span).first <= key.first
         /\ key.last <= Widened(key, span).last
         /\ key.explicit => Widened(key, span).explicit
  <1>. DEFINE first == IF span.first < key.first THEN span.first ELSE key.first
              last == IF span.last > key.last THEN span.last ELSE key.last
              explicit == key.explicit \/ span.explicit
              open_ended == ~explicit /\ (key.open_ended \/ span.open_ended)
  <1>1. /\ key \in HeldKey /\ key.first \in Minutes /\ key.last \in Minutes
        /\ key.first <= key.last
        /\ span.first \in Minutes /\ span.last \in Minutes
    BY DEF SoundKeys, Span, HeldKey
  <1>2. /\ first \in Minutes /\ last \in Minutes
        /\ first <= key.first /\ key.last <= last /\ first <= last
    BY <1>1 DEF Minutes
  <1>3. explicit \in BOOLEAN /\ open_ended \in BOOLEAN
    OBVIOUS
  <1>4. Widened(key, span) = [key EXCEPT !.first = first, !.last = last,
                                         !.explicit = explicit, !.open_ended = open_ended]
    BY DEF Widened
  <1>. HIDE DEF first, last, explicit, open_ended
  <1>5. /\ Widened(key, span) \in HeldKey
        /\ Widened(key, span).end_point = key.end_point
        /\ Widened(key, span).pem = key.pem
        /\ Widened(key, span).first = first
        /\ Widened(key, span).last = last
        /\ Widened(key, span).explicit = explicit
    BY <1>1, <1>2, <1>3, <1>4 DEF HeldKey
  <1>. QED BY <1>2, <1>5 DEF SoundKeys, explicit

\* A new key has the span it is made from.
LEMMA NewKeyFacts ==
  ASSUME NEW end_point \in EndPoints, NEW pem \in Pems, NEW span \in Span
  PROVE  /\ NewKey(end_point, pem, span) \in SoundKeys
         /\ NewKey(end_point, pem, span).end_point = end_point
         /\ NewKey(end_point, pem, span).pem = pem
         /\ \A other : Overlap(other, NewKey(end_point, pem, span)) <=> Overlap(other, span)
  BY DEF SoundKeys, Span, HeldKey, NewKey, Overlap

\* Overlapping is symmetric, so it does not matter which of two keys came first.
LEMMA OverlapSymmetric ==
  ASSUME NEW a \in SoundKeys, NEW b \in SoundKeys
  PROVE  Overlap(a, b) <=> Overlap(b, a)
  BY DEF SoundKeys, HeldKey, Minutes, Overlap

-----------------------------------------------------------------------------
(***************************************************************************)
(* The inductive invariant.  The four parts lean on each other: widening   *)
(* keeps the count only because the key is the one entry of its name, and  *)
(* keeps the spans apart only because both sides of an overlap are read    *)
(* alike.                                                                  *)
(***************************************************************************)
CacheInv == TypeOK /\ SpansDisjoint /\ OneSpanPerKey /\ HeldCountsKeys

\* What a step may do to the keys held before it.
StableStep == CoverageKept \/ keys' = {} \/ (held = Limit /\ held' = 1)

\* A step that leaves the cache alone keeps the invariant.
LEMMA UnchangedKeepsInv ==
  ASSUME CacheInv, UNCHANGED cacheVars
  PROVE  CacheInv' /\ StableStep
  <1>1. CacheInv'
    BY DEF CacheInv, TypeOK, SpansDisjoint, OneSpanPerKey, HeldCountsKeys, cacheVars
  <1>2. \A key \in keys : key.first <= key.first /\ key.last <= key.last
    BY DEF CacheInv, TypeOK, HeldKey, Minutes
  <1>3. CoverageKept
    BY <1>2 DEF CoverageKept, cacheVars
  <1>. QED BY <1>1, <1>3 DEF StableStep

\* Widening a held key, or refusing to, keeps the invariant.
LEMMA WidenKeepsInv ==
  ASSUME CacheInv, NEW key \in keys, NEW span \in Span, WidenKey(key, span)
  PROVE  CacheInv' /\ StableStep
  <1>. DEFINE wider == Widened(key, span)
              others == keys \ {key}
  <1>1. /\ keys \subseteq SoundKeys
        /\ held \in Nat
        /\ key \in SoundKeys
    BY DEF CacheInv, TypeOK, SoundKeys
  <1>2. /\ wider \in SoundKeys
        /\ wider.end_point = key.end_point
        /\ wider.pem = key.pem
        /\ wider.first <= key.first
        /\ key.last <= wider.last
        /\ key.explicit => wider.explicit
    BY <1>1, WidenedFacts
  <1>3. CASE \E other \in KeysOf(key.end_point) \ {key} : Overlap(other, wider)
    BY <1>3, UnchangedKeepsInv DEF WidenKey
  <1>4. CASE ~ \E other \in KeysOf(key.end_point) \ {key} : Overlap(other, wider)
    <2>1. keys' = others \cup {wider} /\ held' = held
      BY <1>4 DEF WidenKey
    <2>2. \A other \in others : other.end_point = key.end_point => ~Overlap(other, wider)
      BY <1>4 DEF KeysOf
    <2>3. TypeOK'
      BY <1>1, <1>2, <2>1 DEF TypeOK, SoundKeys
    <2>4. SpansDisjoint'
      <3>1. \A other \in others : other.end_point = wider.end_point =>
              ~Overlap(other, wider) /\ ~Overlap(wider, other)
        BY <1>1, <1>2, <2>2, OverlapSymmetric
      <3>2. \A a, b \in others : a # b /\ a.end_point = b.end_point => ~Overlap(a, b)
        BY DEF CacheInv, SpansDisjoint
      <3>. HIDE DEF wider, others
      <3>. QED BY <2>1, <3>1, <3>2 DEF SpansDisjoint
    <2>5. \A other \in others : ~(other.end_point = wider.end_point /\ other.pem = wider.pem)
      BY <1>2 DEF CacheInv, OneSpanPerKey
    <2>6. OneSpanPerKey'
      <3>1. \A a, b \in others : a.end_point = b.end_point /\ a.pem = b.pem => a = b
        BY DEF CacheInv, OneSpanPerKey
      <3>. HIDE DEF wider, others
      <3>. QED BY <2>1, <2>5, <3>1 DEF OneSpanPerKey
    <2>7. HeldCountsKeys'
      <3>1. IsFiniteSet(others) /\ Cardinality(others) = held - 1
        BY FS_RemoveElement DEF CacheInv, HeldCountsKeys
      <3>2. wider \notin others
        BY <2>5
      <3>3. IsFiniteSet(keys') /\ Cardinality(keys') = held
        <4>1. Cardinality(others \cup {wider}) = Cardinality(others) + 1
          BY <3>1, <3>2, FS_AddElement
        <4>2. IsFiniteSet(others \cup {wider})
          BY <3>1, FS_AddElement
        <4>. HIDE DEF wider, others
        <4>. QED BY <1>1, <2>1, <3>1, <4>1, <4>2
      <3>4. held <= Limit
        BY DEF CacheInv, HeldCountsKeys
      <3>. HIDE DEF wider, others
      <3>. QED BY <2>1, <3>3, <3>4 DEF HeldCountsKeys
    <2>8. CoverageKept
      <3>1. \A old \in others : old \in keys' /\ old.first <= old.first /\ old.last <= old.last
        BY <1>1, <2>1 DEF SoundKeys, HeldKey, Minutes
      <3>2. wider \in keys'
        BY <2>1
      <3>. QED BY <1>2, <3>1, <3>2 DEF CoverageKept
    <2>. QED BY <2>3, <2>4, <2>6, <2>7, <2>8 DEF CacheInv, StableStep
  <1>. QED BY <1>3, <1>4

\* Pushing a key no held key overlaps or shares a name with keeps the
\* invariant, whether or not the cache had to be emptied for it.
LEMMA PushKeepsInv ==
  ASSUME CacheInv, NEW new \in SoundKeys, PushKey(new),
         \A key \in KeysOf(new.end_point) : key.pem # new.pem /\ ~Overlap(key, new)
  PROVE  CacheInv' /\ StableStep
  <1>1. keys \subseteq SoundKeys /\ held \in Nat
    BY DEF CacheInv, TypeOK, SoundKeys
  <1>2. CASE held >= Limit
    <2>1. keys' = {new} /\ held' = 1
      BY <1>2 DEF PushKey
    <2>2. TypeOK' /\ SpansDisjoint' /\ OneSpanPerKey'
      BY <2>1 DEF TypeOK, SpansDisjoint, OneSpanPerKey, SoundKeys
    <2>3. HeldCountsKeys'
      <3>1. IsFiniteSet({new}) /\ Cardinality({new}) = 1
        BY FS_Singleton
      <3>. QED BY <2>1, <3>1, LimitAssumption DEF HeldCountsKeys
    <2>4. held = Limit
      BY <1>1, <1>2, LimitAssumption DEF CacheInv, HeldCountsKeys
    <2>. QED BY <2>1, <2>2, <2>3, <2>4 DEF CacheInv, StableStep
  <1>3. CASE ~(held >= Limit)
    <2>1. keys' = keys \cup {new} /\ held' = held + 1
      BY <1>3 DEF PushKey
    <2>2. \A key \in keys : key.end_point = new.end_point =>
            key.pem # new.pem /\ ~Overlap(key, new) /\ ~Overlap(new, key)
      BY <1>1, OverlapSymmetric DEF KeysOf
    <2>3. TypeOK'
      BY <1>1, <2>1 DEF TypeOK, SoundKeys
    <2>4. SpansDisjoint'
      BY <2>1, <2>2 DEF CacheInv, SpansDisjoint
    <2>5. OneSpanPerKey'
      BY <2>1, <2>2 DEF CacheInv, OneSpanPerKey
    <2>6. HeldCountsKeys'
      <3>1. new \notin keys
        BY <2>2
      <3>2. IsFiniteSet(keys') /\ Cardinality(keys') = held + 1
        BY <2>1, <3>1, FS_AddElement DEF CacheInv, HeldCountsKeys
      <3>. QED BY <1>1, <1>3, <2>1, <3>2, LimitAssumption DEF HeldCountsKeys
    <2>7. CoverageKept
      <3>1. \A old \in keys : old.first <= old.first /\ old.last <= old.last
        BY <1>1 DEF SoundKeys, HeldKey, Minutes
      <3>. QED BY <2>1, <3>1 DEF CoverageKept
    <2>. QED BY <2>3, <2>4, <2>5, <2>6, <2>7 DEF CacheInv, StableStep
  <1>. QED BY <1>2, <1>3

\* Whatever a creator answers, hold keeps the invariant.
LEMMA HoldKeepsInv ==
  ASSUME CacheInv, NEW end_point \in EndPoints, NEW minute \in OptionMinutes,
         NEW isRecent \in BOOLEAN, NEW pem \in Pems,
         NEW start \in OptionMinutes, NEW end \in OptionMinutes, NEW now \in Minutes,
         Hold(end_point, minute, isRecent, pem, start, end, now)
  PROVE  CacheInv' /\ StableStep
  <1>. DEFINE span == SpanToHold(minute, start, end, now)
  <1>1. CASE ~Holdable(minute, isRecent, start)
    BY <1>1, UnchangedKeepsInv DEF Hold
  <1>2. CASE Holdable(minute, isRecent, start)
    <2>1. span \in Span /\ HoldSpan(end_point, pem, span)
      BY <1>2, SpanToHoldType DEF Hold
    <2>. HIDE DEF span
    <2>2. CASE \E key \in KeysOf(end_point) : key.pem = pem /\ WidenKey(key, span)
      BY <2>1, <2>2, WidenKeepsInv DEF KeysOf
    <2>3. CASE /\ \A key \in KeysOf(end_point) : key.pem # pem /\ ~Overlap(key, span)
               /\ PushKey(NewKey(end_point, pem, span))
      <3>. DEFINE new == NewKey(end_point, pem, span)
      <3>1. /\ new \in SoundKeys /\ new.end_point = end_point /\ new.pem = pem
            /\ \A other : Overlap(other, new) <=> Overlap(other, span)
        BY <2>1, NewKeyFacts
      <3>2. PushKey(new)
        BY <2>3
      <3>3. \A key \in KeysOf(new.end_point) : key.pem # new.pem /\ ~Overlap(key, new)
        BY <2>3, <3>1
      <3>. HIDE DEF new
      <3>. QED BY <3>1, <3>2, <3>3, PushKeepsInv
    <2>4. CASE UNCHANGED cacheVars
      BY <2>4, UnchangedKeepsInv
    <2>. QED BY <2>1, <2>2, <2>3, <2>4 DEF HoldSpan
  <1>. QED BY <1>1, <1>2

\* Every step of the cache keeps the invariant and what was covered.
LEMMA CacheStep ==
  ASSUME CacheInv, [CacheNext]_cacheVars
  PROVE  CacheInv' /\ StableStep
  <1>1. CASE HoldAny
    <2>1. \A statement \in Statements :
            statement[1] \in OptionMinutes /\ statement[2] \in OptionMinutes
      BY DEF Statements
    <2>. QED BY <1>1, <2>1, HoldKeepsInv DEF HoldAny
  <1>2. CASE ClearKeys
    <2>1. IsFiniteSet({}) /\ Cardinality({}) = 0
      BY FS_EmptySet
    <2>. QED BY <1>2, <2>1, LimitAssumption
         DEF ClearKeys, CacheInv, TypeOK, SpansDisjoint, OneSpanPerKey, HeldCountsKeys,
             StableStep
  <1>3. CASE UNCHANGED cacheVars
    BY <1>3, UnchangedKeepsInv
  <1>. QED BY <1>1, <1>2, <1>3 DEF CacheNext

\* An empty cache has the invariant.
LEMMA CacheInitInv ==
  ASSUME CacheInit
  PROVE  CacheInv
  <1>1. IsFiniteSet({}) /\ Cardinality({}) = 0
    BY FS_EmptySet
  <1>. QED BY <1>1, LimitAssumption
       DEF CacheInit, CacheInv, TypeOK, SpansDisjoint, OneSpanPerKey, HeldCountsKeys

-----------------------------------------------------------------------------
\* The inductive invariant holds in every state the cache reaches.
THEOREM CacheInvariant == CacheSpec => []CacheInv
  BY CacheInitInv, CacheStep, PTL DEF CacheSpec

\* Type correctness: every held key is well formed and has a span that is not
\* empty, after any answers a creator can give.
THEOREM TypeCorrect == CacheSpec => []TypeOK
  <1>1. CacheInv => TypeOK
    BY DEF CacheInv
  <1>. QED BY <1>1, CacheInvariant, PTL

\* No minute of an end point is ever claimed by two held keys.
THEOREM DisjointSpans == CacheSpec => []SpansDisjoint
  <1>1. CacheInv => SpansDisjoint
    BY DEF CacheInv
  <1>. QED BY <1>1, CacheInvariant, PTL

\* A key is never held twice for an end point.
THEOREM UniqueKeys == CacheSpec => []OneSpanPerKey
  <1>1. CacheInv => OneSpanPerKey
    BY DEF CacheInv
  <1>. QED BY <1>1, CacheInvariant, PTL

\* The count beside the map is the number of keys in it and never passes the
\* limit, so the memory the cache takes is bounded.
THEOREM BoundedAndCounted == CacheSpec => []HeldCountsKeys
  <1>1. CacheInv => HeldCountsKeys
    BY DEF CacheInv
  <1>. QED BY <1>1, CacheInvariant, PTL

\* A held minute stays with its key until the cache is emptied.
THEOREM StableCoverage == CacheSpec => CoverageIsStable
  <1>1. CacheInv /\ [CacheNext]_cacheVars =>
          [CoverageKept \/ keys' = {} \/ (held = Limit /\ held' = 1)]_cacheVars
    BY CacheStep DEF StableStep
  <1>. QED BY <1>1, CacheInvariant, PTL DEF CacheSpec, CoverageIsStable
=============================================================================
