---------------------------- MODULE KeySchedule -----------------------------
(***************************************************************************)
(* PublicKeySchedule of src/src/schedule.rs: a creator's dated keys and    *)
(* the rule for the one in force at a moment, keys that share a start      *)
(* included.                                                               *)
(***************************************************************************)
EXTENDS Integers, Sequences, SequencesExt

CONSTANT None   \* Option::None

\* DatedPublicKey.
Dated(starts_at, pem) == [starts_at |-> starts_at, pem |-> pem]

\* A mutant: the keys are taken to be in order as they were supplied.
ScheduleUnsorted(supplied) == supplied

\* Whether a key is sorted before another: by start, and else as they were supplied.
Before(supplied, i, j) ==
  \/ supplied[i].starts_at < supplied[j].starts_at
  \/ supplied[i].starts_at = supplied[j].starts_at /\ i < j

\* The place of a key, after those sorted before it.
Place(supplied, i) == Cardinality({j \in DOMAIN supplied : Before(supplied, j, i)}) + 1

\* PublicKeySchedule::new: the keys sorted by start, and stably.
Schedule(supplied) ==
  [n \in DOMAIN supplied |-> supplied[CHOOSE i \in DOMAIN supplied : Place(supplied, i) = n]]

Started(keys, at) == {i \in DOMAIN keys : keys[i].starts_at <= at}

\* key_in_force: the last key started, then back over those with its start.
KeyInForce(keys, at) ==
  LET last == Max(Started(keys, at))
      same == {i \in 1 .. last : \A j \in i .. last : keys[j].starts_at = keys[last].starts_at}
  IN IF Started(keys, at) = {} THEN None ELSE keys[Min(same)]

\* A mutant: the last start there is ends every span.
NextStartLast(keys, key) ==
  LET later == {t \in {keys[i].starts_at : i \in DOMAIN keys} : t > key.starts_at}
  IN IF later = {} THEN None ELSE Max(later)

\* next_start_after.
NextStartAfter(keys, key) ==
  LET later == {t \in {keys[i].starts_at : i \in DOMAIN keys} : t > key.starts_at}
  IN IF later = {} THEN None ELSE Min(later)
=============================================================================
