------------------------------ MODULE KeyCache ------------------------------
(***************************************************************************)
(* The key cache of src/src/fetch.rs as its lock shows it: every action is *)
(* one critical section of the process-wide mutex.  The creators are       *)
(* arbitrary: any answer that passes validation may arrive for any end     *)
(* point in any order, at any reading of the wall clock, so what is proved *)
(* here does not lean on a creator keeping to its own schedule.            *)
(*                                                                         *)
(* KeyFetch composes these actions with the fetches that feed them.        *)
(***************************************************************************)
EXTENDS HeldKeys, FiniteSets

CONSTANT Limit   \* MAXIMUM_CACHED_KEYS

ASSUME LimitAssumption == Limit \in Nat \ {0}

VARIABLES
  keys,   \* Cache::keys, every end point's list in one set of held keys
  held    \* Cache::held, the count kept beside them

cacheVars == <<keys, held>>

CacheInit == keys = {} /\ held = 0

KeysOf(end_point) == {key \in keys : key.end_point = end_point}

\* A mutant: a recent minute is never answered from what is held.
ServingSettled(end_point, minute, isRecent) ==
  {key \in KeysOf(end_point) : Covers(key, minute) /\ ~isRecent}

\* Cache::held_for: the held keys a minute may be answered from.
Serving(end_point, minute, isRecent) ==
  {key \in KeysOf(end_point) : Covers(key, minute) /\ (key.explicit \/ ~isRecent)}

-----------------------------------------------------------------------------
(***************************************************************************)
(* Cache::hold.                                                            *)
(***************************************************************************)

\* A mutant: widened whatever other key holds the minutes between.
WidenKeyAcross(key, span) ==
  keys' = (keys \ {key}) \cup {Widened(key, span)} /\ UNCHANGED held

\* widen: not across a minute that another key of the end point holds.
WidenKey(key, span) ==
  LET wider == Widened(key, span)
  IN IF \E other \in KeysOf(key.end_point) \ {key} : Overlap(other, wider)
     THEN UNCHANGED cacheVars
     ELSE keys' = (keys \ {key}) \cup {wider} /\ UNCHANGED held

\* The push, after emptying the whole cache where it is full.
PushKey(key) ==
  IF held >= Limit
  THEN keys' = {key} /\ held' = 1
  ELSE keys' = keys \cup {key} /\ held' = held + 1

\* A mutant: the entry to widen is looked for by its span as well as its key.
HoldSpanTouching(end_point, pem, span) ==
  \/ \E key \in KeysOf(end_point) : key.pem = pem /\ Overlap(key, span) /\ WidenKey(key, span)
  \/ /\ \A key \in KeysOf(end_point) : ~Overlap(key, span)
     /\ PushKey(NewKey(end_point, pem, span))
  \/ /\ \E key \in KeysOf(end_point) : key.pem # pem /\ Overlap(key, span)
     /\ UNCHANGED cacheVars

HoldSpan(end_point, pem, span) ==
  \/ \E key \in KeysOf(end_point) : key.pem = pem /\ WidenKey(key, span)
  \/ /\ \A key \in KeysOf(end_point) : key.pem # pem /\ ~Overlap(key, span)
     /\ PushKey(NewKey(end_point, pem, span))
  \/ /\ \A key \in KeysOf(end_point) : key.pem # pem
     /\ \E key \in KeysOf(end_point) : Overlap(key, span)
     /\ UNCHANGED cacheVars

Hold(end_point, minute, isRecent, pem, start, end, now) ==
  \/ /\ Holdable(minute, isRecent, start)
     /\ HoldSpan(end_point, pem, SpanToHold(minute, start, end, now))
  \/ /\ ~Holdable(minute, isRecent, start)
     /\ UNCHANGED cacheVars

\* A mutant: the count is not set back with the map.
ClearKeysOnly == keys' = {} /\ UNCHANGED held

\* The part of clear_cache that concerns the keys.
ClearKeys == keys' = {} /\ held' = 0

HoldAny ==
  \E end_point \in EndPoints, minute \in OptionMinutes, isRecent \in BOOLEAN,
     pem \in Pems, statement \in Statements, now \in Minutes :
    Hold(end_point, minute, isRecent, pem, statement[1], statement[2], now)

CacheNext == HoldAny \/ ClearKeys

CacheSpec == CacheInit /\ [][CacheNext]_cacheVars

-----------------------------------------------------------------------------
(***************************************************************************)
(* Properties.                                                             *)
(***************************************************************************)

\* The cache holds well-formed keys, each with a span that is not empty.
TypeOK ==
  /\ keys \subseteq {key \in HeldKey : key.first <= key.last}
  /\ held \in Nat

\* No minute of an end point is claimed by two keys, so the first key
\* held_for finds is the only one there is, whatever order the answers came
\* in and whatever widening they caused.
SpansDisjoint ==
  \A a, b \in keys : a # b /\ a.end_point = b.end_point => ~Overlap(a, b)

\* A key is held once for an end point: hold finds the one entry to widen and
\* never leaves a second, narrower one behind it.
OneSpanPerKey ==
  \A a, b \in keys : a.end_point = b.end_point /\ a.pem = b.pem => a = b

\* The count kept beside the map is the number of keys in it through every
\* push, widening, emptying and clearing, and never passes the limit.  A count
\* that drifted would empty the cache early or let it grow for ever.
HeldCountsKeys == IsFiniteSet(keys) /\ held = Cardinality(keys) /\ held <= Limit

CoverageKept ==
  \A old \in keys : \E new \in keys' :
    /\ new.end_point = old.end_point
    /\ new.pem = old.pem
    /\ new.first <= old.first
    /\ old.last <= new.last
    /\ old.explicit => new.explicit

\* A minute once attributed to a key stays attributed to it, however the spans
\* around it change, until the cache is emptied: by clear_cache, or to make
\* room for one new key when it is full.
CoverageIsStable ==
  [][\/ CoverageKept
     \/ keys' = {}
     \/ held = Limit /\ held' = 1]_cacheVars

=============================================================================
