------------------------------- MODULE Verify -------------------------------
(***************************************************************************)
(* Owid::verify_status of src/src/fetch.rs: which verdict an identifier    *)
(* gets from the key selected for its date, the keys beyond the edges of   *)
(* that key's span, and the failures met on the way, with the cache of     *)
(* KeyCache between every verification of the process.                     *)
(*                                                                         *)
(* One creator has a schedule that does not change meanwhile, and time is  *)
(* short beside the schedule, so now is a constant; KeyFetch models how    *)
(* one key_at_url shares its fetch with others and Rotation models time.   *)
(* Moments are counted in ticks, several to the minute, because a schedule *)
(* has moments and an identifier and a request only minutes.  A signature  *)
(* verifies under the key that made it and under no other.                 *)
(***************************************************************************)
EXTENDS KeyCache, Sequences

CONSTANTS
  Creator,     \* the creator's key end point
  Resolution,  \* ticks to the minute
  Now,         \* the present, in ticks since the base date
  Signings,    \* the moments identifiers are signed at
  Schedules,   \* the creators considered: when each key starts, or None
  Verifiers    \* the verifications that may be under way together

ASSUME CreatorAssumption == Creator \in EndPoints
\* The present and every date can be counted in the minutes of a u32.
ASSUME TicksAssumption ==
  /\ Resolution \in Nat \ {0}
  /\ {Now} \cup Signings \subseteq 0 .. (MaxMinute + 1) * Resolution - 1
ASSUME SchedulesAssumption == Schedules \subseteq [Pems -> Int \cup {None}]

VARIABLES
  starts,   \* the creator's schedule: the moment each key starts, or None
  stating,  \* whether the creator states spans; one with no schedule does not
  pc,       \* where each verification is
  owid,     \* the identifier it verifies
  answer,   \* what its last key_at_url returned
  tried,    \* the answer for the identifier's own minute
  beyond,   \* the minutes beyond an edge still to be tried
  missed,   \* whether a request of it got no answer from the creator
  verdict   \* the SignatureStatus it ends with

verifyVars == <<cacheVars, starts, stating, pc, owid, answer, tried, beyond, missed, verdict>>

\* minutes_since_base: whole minutes, cut towards zero; none before the base
\* date or beyond the last minute.
MinutesSinceBase(tick) ==
  IF tick <= -Resolution \/ tick >= (MaxMinute + 1) * Resolution THEN None
  ELSE IF tick < 0 THEN 0 ELSE tick \div Resolution

NowMinute == MinutesSinceBase(Now)

Owids == [signed : Signings, pem : Pems]

MinuteOf(o) == MinutesSinceBase(o.signed)

Published == {p \in Pems : starts[p] # None}

-----------------------------------------------------------------------------
(***************************************************************************)
(* The creator: schedule.rs and endpoints.rs.                              *)
(***************************************************************************)

\* key_in_force: the latest key whose start is at or before the moment.
InForceAt(p, tick) ==
  /\ p \in Published
  /\ starts[p] <= tick
  /\ \A later \in Published : starts[later] <= starts[p] \/ starts[later] > tick

\* next_start_after, in minutes: the start of the next key, None for the last.
NextStart(p) ==
  LET later == {q \in Published : starts[q] > starts[p]}
  IN IF later = {} THEN None
     ELSE MinutesSinceBase(CHOOSE t \in {starts[q] : q \in later} :
                             \A q \in later : t <= starts[q])

\* public_key_response_at for a creator with a schedule, where a date after the
\* present is read as the present, and public_key_response for one without.
AnswersTo(minute) ==
  LET asked == IF minute * Resolution > Now THEN Now ELSE minute * Resolution
  IN IF stating
     THEN {<<p, MinutesSinceBase(starts[p]), NextStart(p)>> :
             p \in {q \in Pems : InForceAt(q, asked)}}
     ELSE {<<p, None, None>> : p \in Published}

-----------------------------------------------------------------------------
(***************************************************************************)
(* key_at_url, as one step.                                                *)
(***************************************************************************)
Failures == {"Http", "Key"}

Failed(failure) == [failure |-> failure]

Served(answered) == "pem" \in DOMAIN answered

KeyAt(v, minute) ==
  LET found == Serving(Creator, minute, Recent(minute, NowMinute))
  IN \/ /\ \E key \in found : answer' = [answer EXCEPT ![v] = Stated(key)]
        /\ UNCHANGED <<cacheVars, missed>>
     \/ /\ found = {}
        /\ \E said \in AnswersTo(minute) :
             /\ answer' = [answer EXCEPT ![v] = StatedBy(said[1], said[2], said[3])]
             /\ Hold(Creator, minute, Recent(minute, NowMinute), said[1], said[2], said[3],
                     NowMinute)
        /\ UNCHANGED missed
     \/ /\ found = {}
        /\ AnswersTo(minute) = {}                       \* 404: no key in force
        /\ answer' = [answer EXCEPT ![v] = Failed("Http")]
        /\ UNCHANGED <<cacheVars, missed>>
     \/ /\ found = {}                                   \* an outage, or a key that cannot be read
        /\ \E failure \in Failures : answer' = [answer EXCEPT ![v] = Failed(failure)]
        /\ missed' = [missed EXCEPT ![v] = TRUE]
        /\ UNCHANGED cacheVars

-----------------------------------------------------------------------------
(***************************************************************************)
(* verify_at_url, neighbour_verifies and SignatureStatus::of.              *)
(***************************************************************************)

\* near_edge: the distance of a minute from an edge, at most the allowance.
NearEdge(minute, edge) ==
  minute - edge <= Allowance /\ edge - minute <= Allowance

\* Mutants: the later edge is forgotten; an edge is looked beyond from anywhere.
MinutesBeyondFirst(key, minute) ==
  IF key.known /\ key.first > 0 /\ NearEdge(minute, key.first) THEN <<key.first - 1>> ELSE << >>

MinutesBeyondAny(key, minute) ==
  IF ~key.known THEN << >>
  ELSE (IF key.first > 0 THEN <<key.first - 1>> ELSE << >>)
       \o (IF key.last < MaxMinute THEN <<key.last + 1>> ELSE << >>)

\* A mutant: the first minute and the last one there is have neighbours, around the width.
MinutesBeyondAround(key, minute) ==
  IF ~key.known THEN << >>
  ELSE (IF NearEdge(minute, key.first) THEN <<(key.first - 1) % (MaxMinute + 1)>> ELSE << >>)
       \o (IF NearEdge(minute, key.last) THEN <<(key.last + 1) % (MaxMinute + 1)>> ELSE << >>)

\* The minutes just beyond the edges of a stated span the minute is near.
MinutesBeyond(key, minute) ==
  IF ~key.known THEN << >>
  ELSE (IF key.first > 0 /\ NearEdge(minute, key.first) THEN <<key.first - 1>> ELSE << >>)
       \o (IF key.last < MaxMinute /\ NearEdge(minute, key.last) THEN <<key.last + 1>>
           ELSE << >>)

StatusOf(failure) == IF failure = "Http" THEN "KeyUnavailable" ELSE "InvalidKey"

Ends(v, status) ==
  /\ verdict' = [verdict EXCEPT ![v] = status]
  /\ pc' = [pc EXCEPT ![v] = "done"]

VerifyInit ==
  /\ CacheInit
  /\ starts \in Schedules
  /\ stating \in BOOLEAN
  /\ ~stating => \E p \in Pems : Published = {p}
  /\ pc = [v \in Verifiers |-> "idle"]
  /\ owid = [v \in Verifiers |-> None]
  /\ answer = [v \in Verifiers |-> None]
  /\ tried = [v \in Verifiers |-> None]
  /\ beyond = [v \in Verifiers |-> << >>]
  /\ missed = [v \in Verifiers |-> FALSE]
  /\ verdict = [v \in Verifiers |-> None]

\* verify is called, for the first time or again.
Begin(v) ==
  /\ pc[v] \in {"idle", "done"}
  /\ \E o \in Owids : owid' = [owid EXCEPT ![v] = o]
  /\ pc' = [pc EXCEPT ![v] = "select"]
  /\ answer' = [answer EXCEPT ![v] = None]
  /\ tried' = [tried EXCEPT ![v] = None]
  /\ beyond' = [beyond EXCEPT ![v] = << >>]
  /\ missed' = [missed EXCEPT ![v] = FALSE]
  /\ verdict' = [verdict EXCEPT ![v] = None]
  /\ UNCHANGED <<cacheVars, starts, stating>>

\* The key for the identifier's own minute is asked for.
Select(v) ==
  /\ pc[v] = "select"
  /\ KeyAt(v, MinuteOf(owid[v]))
  /\ pc' = [pc EXCEPT ![v] = "judge"]
  /\ UNCHANGED <<starts, stating, owid, tried, beyond, verdict>>

\* A failure is the verdict; a key that verifies is too; any other is looked beyond.
Judge(v) ==
  /\ pc[v] = "judge"
  /\ \/ /\ ~Served(answer[v])
        /\ Ends(v, StatusOf(answer[v].failure))
        /\ UNCHANGED <<tried, beyond>>
     \/ /\ Served(answer[v])
        /\ answer[v].pem = owid[v].pem
        /\ Ends(v, "Valid")
        /\ UNCHANGED <<tried, beyond>>
     \/ /\ Served(answer[v])
        /\ answer[v].pem # owid[v].pem
        /\ tried' = [tried EXCEPT ![v] = answer[v]]
        /\ beyond' = [beyond EXCEPT ![v] = MinutesBeyond(answer[v], MinuteOf(owid[v]))]
        /\ pc' = [pc EXCEPT ![v] = "beyond"]
        /\ UNCHANGED verdict
  /\ UNCHANGED <<cacheVars, starts, stating, owid, answer, missed>>

\* The key beyond an edge is asked for.
AskBeyond(v) ==
  /\ pc[v] = "beyond"
  /\ beyond[v] # << >>
  /\ KeyAt(v, Head(beyond[v]))
  /\ beyond' = [beyond EXCEPT ![v] = Tail(@)]
  /\ pc' = [pc EXCEPT ![v] = "compare"]
  /\ UNCHANGED <<starts, stating, owid, tried, verdict>>

\* The neighbour is another key, and it verifies.
NeighbourVerifies(v) ==
  /\ Served(answer[v])
  /\ answer[v].pem # tried[v].pem
  /\ answer[v].pem = owid[v].pem

\* A neighbour that cannot be fetched, or is the key tried, is passed over.
Compare(v) ==
  /\ pc[v] = "compare"
  /\ \/ /\ NeighbourVerifies(v)
        /\ Ends(v, "Valid")
     \/ /\ ~NeighbourVerifies(v)
        /\ pc' = [pc EXCEPT ![v] = "beyond"]
        /\ UNCHANGED verdict
  /\ UNCHANGED <<cacheVars, starts, stating, owid, answer, tried, beyond, missed>>

\* Nothing verified: a key the creator says was not in force proves nothing.
Conclude(v) ==
  /\ pc[v] = "beyond"
  /\ beyond[v] = << >>
  /\ Ends(v, IF tried[v].known /\ ~StatesMinute(tried[v], MinuteOf(owid[v]))
             THEN "KeyUnavailable" ELSE "Invalid")
  /\ UNCHANGED <<cacheVars, starts, stating, owid, answer, tried, beyond, missed>>

VerifyNext ==
  \E v \in Verifiers :
    Begin(v) \/ Select(v) \/ Judge(v) \/ AskBeyond(v) \/ Compare(v) \/ Conclude(v)

VerifySpec == VerifyInit /\ [][VerifyNext]_verifyVars

-----------------------------------------------------------------------------
(***************************************************************************)
(* Properties.                                                             *)
(***************************************************************************)

\* The identifier's date is within so many minutes of a moment its key was in
\* force at, so that it was signed by a machine whose clock was no further out.
SignedWithin(o, minutes) ==
  \E tick \in o.signed - minutes * Resolution .. o.signed + minutes * Resolution :
    InForceAt(o.pem, tick)

\* A genuine identifier: its key was in force within the allowance of its date,
\* and every key the creator published starts at a minute that can be counted.
Genuine(o) ==
  /\ SignedWithin(o, Allowance)
  /\ \A p \in Published : starts[p] >= 0

\* Its key has started, so that the creator answers with it.
Started(o) == starts[o.pem] <= Now

\* A genuine identifier under a key that has started is judged valid where the
\* creator answered every request, or as one whose key cannot be had where it is
\* dated before the creator's first key: whichever keys were held before,
\* whatever other verifications hold meanwhile, and dated ahead of the present too.
GenuineIsJudged ==
  \A v \in Verifiers :
    pc[v] = "done" /\ ~missed[v] /\ Genuine(owid[v]) /\ Started(owid[v]) =>
      verdict[v] = IF AnswersTo(MinuteOf(owid[v])) = {} THEN "KeyUnavailable" ELSE "Valid"

\* A key cannot sign for a date further from its span than the allowance and the
\* minute beyond it, however keys were held, widened and looked beyond, the minutes next
\* to the first and to the last there is included.  Said of dates up to the present, since
\* the key of a later one is the present one, and of creators that state spans, since the
\* one key of a creator without a schedule is in force at every date.
RetiredKeyCannotSign ==
  \A v \in Verifiers :
    pc[v] = "done" /\ stating /\ verdict[v] = "Valid" /\ owid[v].signed <= Now =>
      SignedWithin(owid[v], Allowance + 1)

AnyOf(answers) == CHOOSE said \in answers : TRUE

\* The key the creator itself would answer for the minute, nothing being held.
FreshKey(minute) ==
  LET said == AnyOf(AnswersTo(minute))
  IN IF AnswersTo(minute) = {} THEN Failed("Http") ELSE StatedBy(said[1], said[2], said[3])

FreshVerdict(o) ==
  LET key == FreshKey(MinuteOf(o))
      near == MinutesBeyond(key, MinuteOf(o))
  IN CASE ~Served(key) -> "KeyUnavailable"
       [] Served(key) /\ (\/ key.pem = o.pem
                          \/ \E i \in DOMAIN near : /\ Served(FreshKey(near[i]))
                                                    /\ FreshKey(near[i]).pem = o.pem) -> "Valid"
       [] OTHER -> IF key.known /\ ~StatesMinute(key, MinuteOf(o)) THEN "KeyUnavailable"
                   ELSE "Invalid"

\* The cache does not show: where the creator answered every request made, the
\* verdict is the one an empty cache gives.
CacheDoesNotShow ==
  \A v \in Verifiers : pc[v] = "done" /\ ~missed[v] => verdict[v] = FreshVerdict(owid[v])

\* "A key that cannot be fetched or read is never reported as a signature that
\* does not match" (src/README.md:198): a genuine identifier under a key that has
\* started is never judged invalid, whichever requests fail.
OutageIsNotForgery ==
  \A v \in Verifiers :
    pc[v] = "done" /\ Genuine(owid[v]) /\ Started(owid[v]) => verdict[v] # "Invalid"

\* A key is held past the minute it started in "because no later key can have
\* started before then" (src/README.md:217): every later minute of a held span
\* begins with that key in force.
NoLaterKeyStarted ==
  stating =>
    \A key \in keys : \A minute \in key.first + 1 .. key.last :
      InForceAt(key.pem, minute * Resolution)
=============================================================================
