------------------------------ MODULE Rotation ------------------------------
(***************************************************************************)
(* KeyCache beside one creator that rotates its key: is what the cache     *)
(* holds what the creator's schedule says?  The creator publishes keys     *)
(* ahead of their start (src/src/schedule.rs) and answers from the         *)
(* schedule at its own clock (src/src/endpoints.rs); its clock and the     *)
(* verifier's keep within MaxDrift minutes of each other; an answer takes  *)
(* up to MaxLatency minutes to be held, and more may be on their way at    *)
(* once, to arrive in any order.                                           *)
(*                                                                         *)
(* Keys start on whole minutes here and no key comes back once left, so a  *)
(* schedule is the start of each key.                                      *)
(***************************************************************************)
EXTENDS KeyCache

CONSTANTS
  Creator,     \* the creator's key end point
  MaxDrift,    \* how far apart the two clocks may be
  MaxLatency,  \* the most minutes between an answer and its being held
  Requests     \* the requests that may be on their way at once

ASSUME CreatorAssumption == Creator \in EndPoints
ASSUME TimingAssumption == MaxDrift \in Nat /\ MaxLatency \in Nat

VARIABLES
  start,        \* the published schedule: the minute each key starts, or None
  now,          \* the verifier's clock
  creator_now,  \* the creator's clock
  request       \* each request on its way

rotationVars == <<cacheVars, start, now, creator_now, request>>

Idle == [stage |-> "idle", minute |-> None, is_recent |-> FALSE,
         pem |-> None, statement |-> <<None, None>>, age |-> 0]

RotationInit ==
  /\ CacheInit
  /\ start = [p \in Pems |-> None]
  /\ now = 0 /\ creator_now = 0
  /\ request = [r \in Requests |-> Idle]

-----------------------------------------------------------------------------
(***************************************************************************)
(* The creator: PublicKeySchedule and public_key_response_at.              *)
(***************************************************************************)

Published == {p \in Pems : start[p] # None}

\* key_in_force: the latest key whose start is at or before the minute.
InForce(p, minute) ==
  /\ p \in Published
  /\ start[p] <= minute
  /\ \A later \in Published : start[later] <= start[p] \/ start[later] > minute

\* next_start_after: the start of the key after it, None where it is the last.
IsNextStart(p, end) ==
  \/ /\ end = None
     /\ \A later \in Published : start[later] <= start[p]
  \/ \E next \in Published :
       /\ end = start[next]
       /\ start[next] > start[p]
       /\ \A later \in Published : start[later] <= start[p] \/ start[later] >= end

\* A key is added after every key published, and ahead of the creator's clock.
Publish ==
  /\ \E p \in Pems \ Published, minute \in Minutes :
       /\ minute > creator_now
       /\ \A q \in Published : minute > start[q]
       /\ start' = [start EXCEPT ![p] = minute]
  /\ UNCHANGED <<cacheVars, now, creator_now, request>>

\* A date after the creator's present is read as its present, and so is none.
AskedOf(minute) ==
  IF minute = None \/ minute > creator_now THEN creator_now ELSE minute

\* The creator answers, with the span its schedule gives the key or, as one
\* with no schedule would, with none.
Answer(r) ==
  /\ request[r].stage = "asked"
  /\ \E p \in Pems, end \in OptionMinutes :
       /\ InForce(p, AskedOf(request[r].minute))
       /\ IsNextStart(p, end)
       /\ \E statement \in {<<start[p], end>>, <<None, None>>} :
            request' = [request EXCEPT ![r] =
              [@ EXCEPT !.stage = "answered", !.pem = p, !.statement = statement]]
  /\ UNCHANGED <<cacheVars, start, now, creator_now>>

-----------------------------------------------------------------------------
(***************************************************************************)
(* The verifier: one lead of key_at_url.                                   *)
(***************************************************************************)

\* is_recent is read when the call begins.
Ask(r) ==
  /\ request[r].stage = "idle"
  /\ \E minute \in OptionMinutes :
       request' = [request EXCEPT ![r] =
         [Idle EXCEPT !.stage = "asked", !.minute = minute, !.is_recent = Recent(minute, now)]]
  /\ UNCHANGED <<cacheVars, start, now, creator_now>>

\* The answer is held with the clock read when it arrives.
Arrive(r) ==
  /\ request[r].stage = "answered"
  /\ Hold(Creator, request[r].minute, request[r].is_recent, request[r].pem,
          request[r].statement[1], request[r].statement[2], now)
  /\ request' = [request EXCEPT ![r] = Idle]
  /\ UNCHANGED <<start, now, creator_now>>

\* The request is dropped, or there was no key to answer it with.
Lose(r) ==
  /\ request[r].stage # "idle"
  /\ request' = [request EXCEPT ![r] = Idle]
  /\ UNCHANGED <<cacheVars, start, now, creator_now>>

Clear ==
  /\ ClearKeys
  /\ UNCHANGED <<start, now, creator_now, request>>

-----------------------------------------------------------------------------
(***************************************************************************)
(* The clocks run on, apart by no more than the drift, and no answer is    *)
(* older than the latency.                                                 *)
(***************************************************************************)
VerifierTick ==
  /\ now < MaxMinute
  /\ now + 1 <= creator_now + MaxDrift
  /\ \A r \in Requests : request[r].stage = "answered" => request[r].age < MaxLatency
  /\ now' = now + 1
  /\ request' = [r \in Requests |-> IF request[r].stage = "answered"
                                    THEN [request[r] EXCEPT !.age = @ + 1] ELSE request[r]]
  /\ UNCHANGED <<cacheVars, start, creator_now>>

CreatorTick ==
  /\ creator_now < MaxMinute
  /\ creator_now + 1 <= now + MaxDrift
  /\ creator_now' = creator_now + 1
  /\ UNCHANGED <<cacheVars, start, now, request>>

RotationNext ==
  \/ Publish \/ Clear \/ VerifierTick \/ CreatorTick
  \/ \E r \in Requests : Ask(r) \/ Answer(r) \/ Arrive(r) \/ Lose(r)

RotationSpec == RotationInit /\ [][RotationNext]_rotationVars

-----------------------------------------------------------------------------
(***************************************************************************)
(* Properties.                                                             *)
(***************************************************************************)

\* Every minute a held key covers is one the creator's schedule has that key in
\* force at, and no key the creator publishes later changes that: neither the
\* gap a widening fills, nor the minutes up to the drift allowance behind now
\* that a start alone is held for.
HeldIsInForce ==
  \A key \in keys : \A minute \in key.first .. key.last : InForce(key.pem, minute)

\* A key marked as explicit is held for exactly the span between the creator's
\* two starts, so the edges the neighbour check looks beyond are the creator's
\* own, and an explicit key served for a recent minute is the one in force.
ExplicitIsWhole ==
  \A key \in keys : key.explicit =>
    key.first = start[key.pem] /\ IsNextStart(key.pem, key.last + 1)
=============================================================================
