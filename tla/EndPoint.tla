------------------------------ MODULE EndPoint ------------------------------
(***************************************************************************)
(* The public key end point (src/src/endpoints.rs) and the request made of *)
(* it (request_public_key of src/src/fetch.rs).                            *)
(*                                                                         *)
(* The host is a creator with a schedule of keys, in whatever order they   *)
(* were supplied, and keys added ahead of their start; a creator with one  *)
(* key and no schedule; or anyone, answering what they choose or not at    *)
(* all.  Time passes and keys are added between a request, its answer and  *)
(* the reading of it.  Moments are ticks since the base date.              *)
(***************************************************************************)
EXTENDS KeyAnswerJson, FiniteSets

INSTANCE KeySchedule

CONSTANTS
  Hosts,       \* the hosts considered, of "schedule", "one key" and "anyone"
  Starts,      \* the moments keys start at
  PemTexts,    \* the text of each key, in the order they are supplied
  AtFirst,     \* bound on the keys supplied at first
  Dates,       \* the date parameters asked with, besides none
  Formats,     \* the format parameters asked with, besides none
  Elsewheres,  \* the answers, status and body, anyone may give
  Minute,      \* ticks to the minute
  MaxMinute,   \* u32::MAX
  Horizon      \* bound on the time that passes, in ticks

VARIABLES
  host,      \* who answers
  supplied,  \* the keys, in the order they were supplied
  now,       \* the host's clock
  asking,    \* the parameters of the request under way, until its answer is read, or None
  response,  \* the answer on its way, or None
  outcome    \* what the request came to, or None

endPointVars == <<host, supplied, now, asking, response, outcome>>

\* The date parameters that are no count of minutes.
EmptyDate == -1
JunkDate == -2

\* A minute is a number of whole seconds, and the present can be counted in minutes.
ASSUME ClockAssumption ==
  /\ Minute \in Nat \ {0} /\ Minute % Second = 0
  /\ MaxMinute \in Nat /\ Horizon \in Nat /\ Horizon <= MaxMinute * Minute
ASSUME KeysAssumption ==
  /\ Starts \subseteq Moments /\ PemTexts \in Seq(Seq(Int)) /\ AtFirst \in 0 .. Len(PemTexts)
  /\ None \notin [starts_at : Moments, pem : Seq(Int)]
\* A count of minutes that no u32 holds is a junk date.
ASSUME AskedAssumption == Dates \subseteq 0 .. MaxMinute \cup {EmptyDate, JunkDate}
ASSUME ElsewheresAssumption == \A said \in Elsewheres : said.body \in Seq(Int)

SuppliedKeys(starts) == [i \in DOMAIN starts |-> Dated(starts[i], PemTexts[i])]

EndPointInit ==
  /\ host \in Hosts
  /\ \E count \in 1 .. AtFirst : \E starts \in [1 .. count -> Starts] :
       /\ host # "schedule" => starts = <<0>>
       /\ supplied = SuppliedKeys(starts)
  /\ now = 0
  /\ asking = None /\ response = None /\ outcome = None

-----------------------------------------------------------------------------
(***************************************************************************)
(* The creator.                                                            *)
(***************************************************************************)

\* serves_format.
ServesFormat(format) == format = None \/ format = <<Spki>>

\* Besides the status and the body an answer keeps, for what is said of it, the moment the
\* creator settled on and the one it answered at.
Refusal(status) == [status |-> status, body |-> << >>, asked |-> None, at |-> now]

\* A mutant: the key asked for is the present one, whatever the date.
AskedMomentPresent(date) == now

\* public_key_answer: the answer is checked before it is sent, and a fault is the
\* host's to report.
PublicKeyAnswer(pem, from, to, asked) ==
  IF Validates(NewAnswer(pem, from, to), asked)
  THEN [status |-> 200, body |-> ToJson(NewAnswer(pem, from, to)), asked |-> asked, at |-> now]
  ELSE Refusal(500)

\* public_key_response, for a creator with one key and no schedule.
PublicKeyResponse(format) ==
  IF ServesFormat(format) THEN PublicKeyAnswer(PemTexts[1], None, None, None)
  ELSE Refusal(400)

\* The moment asked about: none later than the present.
AskedMoment(date) ==
  IF date \in {None, EmptyDate} THEN now ELSE Min({date * Minute, now})

\* public_key_response_at.
PublicKeyResponseAt(format, date) ==
  LET keys == Schedule(supplied)
      asked == AskedMoment(date)
      key == KeyInForce(keys, asked)
  IN CASE ~ServesFormat(format) \/ date = JunkDate -> Refusal(400)
       [] ServesFormat(format) /\ date # JunkDate ->
            IF key = None THEN Refusal(404)
            ELSE PublicKeyAnswer(key.pem, key.starts_at, NextStartAfter(keys, key), asked)

\* A key is added after every key there is, and ahead of its start.
Publish ==
  /\ host = "schedule"
  /\ Len(supplied) < Len(PemTexts)
  /\ \E start \in Starts :
       /\ start > now
       /\ \A i \in DOMAIN supplied : supplied[i].starts_at <= start
       /\ supplied' = Append(supplied, Dated(start, PemTexts[Len(supplied) + 1]))
  /\ UNCHANGED <<host, now, asking, response, outcome>>

Tick ==
  /\ host = "schedule"
  /\ now < Horizon
  /\ now' = now + 1
  /\ UNCHANGED <<host, supplied, asking, response, outcome>>

Serve ==
  /\ asking # None /\ response = None
  /\ host # "anyone"
  /\ response' = IF host = "schedule" THEN PublicKeyResponseAt(asking.format, asking.date)
                 ELSE PublicKeyResponse(asking.format)
  /\ UNCHANGED <<host, supplied, now, asking, outcome>>

\* An answer of anyone's choosing; the status 0 stands for none at all.
ServeElsewhere ==
  /\ asking # None /\ response = None
  /\ host = "anyone"
  /\ \E said \in Elsewheres :
       response' = [status |-> said.status, body |-> said.body, asked |-> None, at |-> now]
  /\ UNCHANGED <<host, supplied, now, asking, outcome>>

-----------------------------------------------------------------------------
(***************************************************************************)
(* The request.                                                            *)
(***************************************************************************)
Ask ==
  /\ asking = None
  /\ \E format \in Formats \cup {None}, date \in Dates \cup {None} :
       asking' = [format |-> format, date |-> date]
  /\ outcome' = None
  /\ UNCHANGED <<host, supplied, now, response>>

\* minutes_since_base: whole minutes, cut towards zero, and none where the count
\* is below zero or does not fit.
MinutesSinceBase(moment) ==
  LET minutes == IF moment < 0 THEN -((-moment) \div Minute) ELSE moment \div Minute
  IN IF minutes \in 0 .. MaxMinute THEN minutes ELSE None

OptionMinute(moment) == IF moment = None THEN None ELSE MinutesSinceBase(moment)

Fails(failure) == [failure |-> failure]

\* Mutants: any status with a body is read; an answer is not checked when read.
RequestAnyStatus(said) ==
  LET read == Parse(said.body)
  IN IF said.status = 0 \/ said.status \in 300 .. 399 THEN Fails("Http")
     ELSE IF ~read.json THEN Fails("Key")
     ELSE IF ~Validates(read.answer, None) THEN Fails("Key")
     ELSE [failure |-> "none", pem |-> read.answer.public_key,
           start |-> OptionMinute(read.answer.valid_from),
           end |-> OptionMinute(read.answer.valid_to)]

RequestUnchecked(said) ==
  LET read == Parse(said.body)
  IN IF said.status # 200 THEN Fails("Http")
     ELSE IF ~read.json THEN Fails("Key")
     ELSE [failure |-> "none", pem |-> read.answer.public_key,
           start |-> OptionMinute(read.answer.valid_from),
           end |-> OptionMinute(read.answer.valid_to)]

\* request_public_key: no answer, a redirect and every status but 200 are the key
\* being unavailable; a body that is no valid answer is a key that cannot be read.
RequestPublicKey(said) ==
  LET read == Parse(said.body)
  IN IF said.status # 200 THEN Fails("Http")
     ELSE IF ~read.json THEN Fails("Key")
     ELSE IF ~Validates(read.answer, None) THEN Fails("Key")
     ELSE [failure |-> "none", pem |-> read.answer.public_key,
           start |-> OptionMinute(read.answer.valid_from),
           end |-> OptionMinute(read.answer.valid_to)]

ReadAnswer ==
  /\ response # None
  /\ outcome' = [said |-> response, key |-> RequestPublicKey(response)]
  /\ response' = None
  /\ asking' = None
  /\ UNCHANGED <<host, supplied, now>>

EndPointNext == Publish \/ Tick \/ Ask \/ Serve \/ ServeElsewhere \/ ReadAnswer

EndPointSpec == EndPointInit /\ [][EndPointNext]_endPointVars

-----------------------------------------------------------------------------
(***************************************************************************)
(* Properties.                                                             *)
(***************************************************************************)
HasKey == outcome # None /\ outcome.key.failure = "none"

SameSecond(a, b) == a \div Second = b \div Second

\* The rule the creator's keys are chosen by, over the keys as they were supplied:
\* the latest start at or before the moment, and of those the first supplied.
IsInForce(i, at) ==
  /\ supplied[i].starts_at <= at
  /\ \A j \in DOMAIN supplied :
       \/ supplied[j].starts_at > at
       \/ supplied[j].starts_at < supplied[i].starts_at
       \/ supplied[j].starts_at = supplied[i].starts_at /\ i <= j

InForceAt(pem, at) == \E i \in DOMAIN supplied : supplied[i].pem = pem /\ IsInForce(i, at)

\* The end of a key's period: the least of the later starts, and none after the last.
IsEndOf(i, to) ==
  LET later == {j \in DOMAIN supplied : supplied[j].starts_at > supplied[i].starts_at}
  IN IF later = {} THEN to = None
     ELSE /\ \E j \in later : to = supplied[j].starts_at
          /\ \A j \in later : to <= supplied[j].starts_at

\* The moment a request with a date is about: the start of that minute where it had come
\* when the answer was given, and else the moment the answer was given at.
AskedFor(date, at) == IF date \in Nat /\ date * Minute <= at THEN date * Minute ELSE at

\* The variables hold what their comments say, and a key handed on is one that can
\* be read, whose end, where it has one, is not before its start.
EndPointTypeOK ==
  /\ host \in Hosts /\ now \in 0 .. Horizon
  /\ Len(supplied) \in 1 .. Len(PemTexts)
  /\ response # None => asking # None
  /\ HasKey =>
       LET key == outcome.key
       IN /\ key.pem \in Readable
          /\ {key.start, key.end} \subseteq 0 .. MaxMinute \cup {None}
          /\ key.start # None /\ key.end # None => key.start <= key.end

\* "A key that cannot be read" (src/src/fetch.rs:580) is no creator's key: whatever was
\* asked, and whichever key cannot be served, a creator's answer is a key, or the key
\* being unavailable, but where two starts share the second they are written as.
FaultIsASharedSecond ==
  outcome # None /\ host # "anyone" /\ outcome.key.failure = "Key" =>
    \E i, j \in DOMAIN supplied :
      /\ supplied[i].starts_at < supplied[j].starts_at
      /\ SameSecond(supplied[i].starts_at, supplied[j].starts_at)

\* What a creator said of a key stays true: the key was in force at the moment
\* asked about, and as time passes and keys are added it is the one in force at
\* every whole minute between the two it was said to start and end in, and where
\* no end was said at every one up to the answer.
SpanStaysTrue ==
  HasKey /\ host = "schedule" =>
    LET key == outcome.key
    IN /\ InForceAt(key.pem, outcome.said.asked)
       /\ \A minute \in 0 .. Horizon \div Minute :
            /\ key.start # None /\ key.start < minute
            /\ IF key.end # None THEN minute < key.end ELSE minute * Minute <= outcome.said.at
            => InForceAt(key.pem, minute * Minute)

\* No request is answered with a key whose period has not begun, and the moment settled on
\* is the one asked for where that has been, and else the present: the key answered is the
\* one in force at it, and none is answered only where no key had started by it.
NothingBeforeItsTime ==
  response # None /\ host = "schedule" =>
    LET moment == AskedFor(asking.date, response.at)
    IN /\ response.status = 200 =>
            /\ response.asked = moment
            /\ InForceAt(Parse(response.body).answer.public_key, moment)
       /\ response.status = 404 => \A i \in DOMAIN supplied : supplied[i].starts_at > moment

\* What a creator with a schedule means: the key in force, its start and its end, each cut
\* to its second.  A creator without one means its key.
IsMeant(answer, asked) ==
  IF host # "schedule" THEN answer = NewAnswer(PemTexts[1], None, None)
  ELSE \E i \in DOMAIN supplied,
          to \in {supplied[j].starts_at : j \in DOMAIN supplied} \cup {None} :
         /\ IsInForce(i, asked) /\ IsEndOf(i, to)
         /\ answer = NewAnswer(supplied[i].pem, ToSeconds(supplied[i].starts_at), ToSeconds(to))

\* What a creator sends reads as what it meant by the keys it then had, in whatever order
\* they were supplied and whatever their texts hold; and it answers with a fault only where
\* a key of its cannot be read.
SentReadsAsMeant ==
  [][response = None /\ response' # None /\ host # "anyone" =>
       /\ response'.status = 200 =>
            Parse(response'.body).json /\ IsMeant(Parse(response'.body).answer, response'.asked)
       /\ response'.status = 500 => \E i \in DOMAIN supplied : supplied[i].pem \notin Readable
    ]_endPointVars

\* "A creator never sends an answer it would itself refuse" (src/src/endpoints.rs:79):
\* what it sends passes, when it is read, the check it was put to before it was sent,
\* the moment asked about left aside.
NeverSendsRefused ==
  response # None /\ response.status = 200 /\ host # "anyone" =>
    Validates(Parse(response.body).answer, None)

\* An answer cut short is never taken for a whole one: no text but the whole of a
\* body that reads, without the space that follows it, reads.
PartIsRefused ==
  response # None /\ Parse(response.body).json =>
    \A cut \in 0 .. Len(response.body) - 1 :
      Parse(SubSeq(response.body, 1, cut)).json =>
        \A i \in cut + 1 .. Len(response.body) : response.body[i] \in Whitespace

\* What was read can be written and read again without a change but the cut to
\* seconds, whatever its texts hold: quotes, backslashes, control characters.
RereadsAsRead ==
  response # None /\ Parse(response.body).json =>
    LET answer == Parse(response.body).answer
        again == Parse(ToJson(answer))
    IN /\ again.json
       /\ again.answer = [answer EXCEPT !.valid_from = ToSeconds(@), !.valid_to = ToSeconds(@)]
=============================================================================
