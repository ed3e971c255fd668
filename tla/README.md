# owid-rust in TLA+

A verification development for the `owid` crate (`src/`): TLA+ modules for the
parts of it that keep state or decide something over several steps, TLC
configurations that check them on small instances, and TLAPS proofs of the
properties that matter most for every instance. `PROJECT.json` lists the
components, runs, mutants, theorems and hazards, and maps each definition to
the lines it stands for.

## The system

An OWID is a signed record: a version, the domain of its creator, a date in
minutes, a payload and an ECDSA signature. A verifier reads one from bytes,
fetches the creator's public key over HTTP and checks the signature.

| part | source | state | operations |
|---|---|---|---|
| key cache | `fetch.rs` 134–457 | process-wide mutex: held keys by end point, each with a span of minutes and two flags, and a count | `held_for`, `hold`, `widen`, `clear_cache` |
| shared fetches | `fetch.rs` 459–682 | the flights under way by URL (same mutex); each flight's `finished`, outcome and wakers (its own mutex) | `key_at_url`, `Finished::poll`, `Leader::drop`, `request_public_key` |
| verification | `fetch.rs` 684–822, `status.rs` | none of its own | `verify`, `verify_at_url`, `neighbour_verifies`, `verify_status`, `SignatureStatus::of` |
| public key answer | `key_answer.rs` | none | `validate`, `to_json`, `parse` |
| schedule | `schedule.rs` | the creator's dated keys, sorted once | `new`, `key_in_force`, `next_start_after`, `current` |
| creator end point | `endpoints.rs` | none | `public_key_response`, `public_key_response_at`, `public_key_answer` |
| reader | `parse.rs`, `owid.rs` | a cursor over a buffer | `parse_exact`, `parse_prefix`, `read_domain`, `read_date` |
| writer and creator | `io.rs`, `creator.rs`, `owid.rs`, `version.rs` | the bytes written so far | `write_*`, `Creator::create`, `minutes_since_base` |
| cryptography | `crypto.rs` | key material | signing and verifying by external crates |
| transport | `reqwest_fetch.rs` or the host's | a connection pool | one request, no redirects, ten seconds at most |

How they meet: a verification asks `key_at_url` for the key of the identifier's
minute and, when that key does not verify, for the keys just beyond its span.
`key_at_url` answers from the cache, waits on another caller's fetch of the same
URL, or makes the fetch itself, which it does by taking the cache's lock and
letting go of it before anything is awaited. What it fetches comes from a
creator's end point, which answers from its schedule at its own clock. So the
state is shared by every verification of the process, on every thread; the
clocks are two; and a future may be dropped at any await.

What is hard, and what would make each part right:

* *Key cache.* Answers arrive in any order, each held with the clock of its
  arrival, and spans are widened across gaps nobody asked about. Right: no
  minute has two keys, no key two spans, the count is the number of keys, a
  minute stays with its key, and a held minute is one the creator's schedule
  agrees with.
* *Shared fetches.* Two locks taken one after the other, wakers shared by the
  futures of a task, leaders dropped with others waiting, clears in between.
  Right: no wake-up lost, no entry left behind, no second fetch, the outcome
  shared, every caller answered.
* *Verification.* A minute is not a moment, a neighbour may not be served yet, a
  request may fail half way. Right: genuine identifiers are never judged forged,
  retired keys do not sign, and what was verified before does not show.
* *Reader and writer.* Frames follow each other in bytes that are still
  arriving; lengths disagree with the bytes there are. Right: a run of frames is a
  channel that loses and reorders nothing, every byte is accounted for, a reader
  waits exactly where more bytes could help, and an identifier is judged after
  the journey as it was before.
* *Schedule, end point and request.* Keys share starts or arrive unsorted, the
  schedule grows while an answer is on its way, moments are cut to seconds and
  minutes, and the JSON is read by hand. Right: what was said of a key stays true,
  nothing is served before its time, a creator sends nothing that would be
  refused, part of an answer is never taken for one, and an error page never
  for a key.

## Modules

| module | models |
|---|---|
| `HeldKeys` | the values and pure functions of the cache: spans, statements, what an answer is held for, widening |
| `KeyCache` | the cache as its lock shows it; creators and clock arbitrary. The abstract specification of the cache |
| `KeyFetch` | the calls of `key_at_url`, with tasks, wakers, drops and `clear_cache`; implements `KeyCache` |
| `KeyFetchClears` | `KeyFetch` with the clears counted, to state what `clear_cache` promises |
| `Rotation` | `KeyCache` beside one creator that rotates its key, with two clocks and answers on their way |
| `Verify` | whole verifications over `KeyCache` and a creator's schedule, with failing requests and dates within minutes |
| `OwidFormat` | the binary format: writing, the two reads, signing, verifying, creating, as functions over sequences of units |
| `FrameChannel` | the abstract specification of a run of frames: sent, then received in order |
| `Envelope` | a creator, or anyone, sending; bytes arriving one at a time; a reader taking frames. Implements `FrameChannel` |
| `KeySchedule` | the dated keys: sorting, the key in force, the next start |
| `KeyAnswerJson` | the answer's JSON: writing, reading, validating |
| `EndPoint` | a creator with a growing schedule, one with one key, or anyone; a request, its answer and the reading of it |
| `KeyCacheProofs`, `KeyFetchProofs`, `RotationProofs`, `VerifyProofs`, `EnvelopeProofs`, `EndPointProofs` | the theorems about each component's behaviours |
| `OwidFormatProofs` | about the binary format: bytes and numbers, the reads, the writes, and each as the inverse of the other |
| `KeyAnswerJsonProofs` | about the JSON: the reader undoes the writer, and no part of an answer reads as one |
| `MC*` | instances for TLC |

`KeyCache` is composed with the rest by `EXTENDS`, its definitions used as they
stand: the action `Hold` by `KeyFetch`, `Rotation` and `Verify`, `ClearKeys` by
`KeyFetch` and `Rotation`, and the operator `Serving` by `KeyFetch` and `Verify`. `Envelope` extends `OwidFormat`; `EndPoint` extends `KeyAnswerJson` and
takes in `KeySchedule`.

### How the state corresponds

* A key URL is the pair of its end point and the minute in its `date` parameter;
  a PEM is a model value, since the code only compares PEMs. `keys` is the set
  of every end point's entries. A `Vec` is a set here because its order never
  shows: no minute is covered twice (`SpansDisjoint`) and no key found twice
  (`OneSpanPerKey`), both of which are checked and proved from the same actions.
* `Hold` is the whole of `Cache::hold`: which answers are held, the span, the
  widening or the refusal to widen, the push and the emptying before it.
* `StatedBy` is what `hold` and so a leader returns; `Stated` what `held_for`
  returns for a held key.
* In `KeyFetch` a flight is named by the call that leads it, because a call
  returns when its own fetch ends and so leads at most one. `in_flight` is the
  map of the same name, `flight` the `InFlightState`s. The `pc` of a call is its
  place in `key_at_url`: `turn` (at the cache's lock), `poll` and `parked`
  (waiting), `request` (awaiting the transport), `hold`, then `remove`, `finish`
  and `wake` for the three parts of `Leader::drop`, and `done`. `cleared` is
  history, whether `clear_cache` has been called: only what `OneFetchPerUrl` and
  `StatedSpanNeedsNoRequest` are claimed up to.
* A waker is its task's: `will_wake` is true of two wakers of one task, so a task
  is in a flight's wakers once, and waking it has every parked future of the
  task polled. A task runs one future at a time (`Free`). A future moved to
  another task between polls is left out.
* Losing the future while the request is out, and a transport that panics, are
  both `DropLeader`. Between the answer and the end of `key_at_url` there is no
  await, so nothing can be dropped there. A poisoned lock is used as it is by
  the code, and is not modelled.
* Validation: `PublicKeyAnswer::validate` lets through an end only after a start,
  at the resolution of the creator's moments; cut to minutes the two may be
  equal, and either may be lost. `Statements` is that set.
* In `Rotation` a schedule is the minute each key starts; a creator adds keys
  after all it has published and ahead of its clock. `Answer` reads the schedule
  at the creator's clock, `Arrive` holds the answer at the verifier's.
* In `Verify` moments are ticks, `Resolution` to the minute; `MinutesSinceBase`
  is `minutes_since_base`, cut towards zero. `key_at_url` is one step, because
  with a fixed schedule what it returns does not depend on when within the call
  the cache is read. A signature verifies under the key that made it.

* In `OwidFormat` a unit is a byte, of few values, or the one unit that stands for
  a signature. A signature is a function of its key and of the bytes signed, so
  it verifies under that key over those bytes and nothing else; that is all that
  is assumed of ECDSA. Writes are composed by `Then`, the `?` of the code, and keep
  what was written before a refusal, as the buffer does. `ParseOne` is `parse_one`
  with its checks in their order, each name the place a field ends; `room` is what
  `try_reserve_exact` can reserve. A failed read consumes nothing.
* In `Envelope` the reader is the loop the documentation of `read_from_prefix`
  describes: it waits on `UnexpectedEnd` and on an empty buffer, and gives up on
  any other failure. `rest` is the slice handed back, `wire` what is on its way.
  Identifiers are created with every domain, payload and clock of the instance,
  the ones no creator can be made for included.
* In `KeyAnswerJson` a text is a sequence of atoms: the characters the code tells
  apart, and whole runs of those it does not. A moment's text is one atom, since
  RFC 3339 is read and written by `chrono`; `WriteMoment` cuts it to its second.
  `ReadString`, `ReadFlatObject` and `WriteString` are the loops of the code as
  recursive functions of the place in the text.
* In `EndPoint` `supplied` is the list given to `PublicKeySchedule::new`, which
  `Schedule` sorts stably: a key's `Place` is the number of keys sorted before it.
  `Serve` is the handler the documentation describes around
  `public_key_response_at` and `public_key_response`; an `Err` of theirs is a fault
  the host reports, status 500. `ServeElsewhere` is any other host, status 0 being a
  transport that got no answer. `ReadAnswer` is `request_public_key`. `asking` is
  kept until the answer is read, and an answer carries two moments that are no part
  of what is sent: the one the creator settled on (`asked`) and the one it answered
  at (`at`), for the properties to speak of.

Each module also holds a few mutants, each marked as one: the definition as a
plausible bug would have it. A mutant put in place of its definition makes the
property it is paired with in `PROJECT.json` fail. No specification uses them.

## Runs

Every run but the violations exhausts its instance.

| run | checks | instance |
|---|---|---|
| `key_cache` | `TypeOK`, `SpansDisjoint`, `OneSpanPerKey`, `HeldCountsKeys`, `CoverageIsStable` | 2 end points, 3 keys, minutes 0–2, limit 3: overlaps, gaps, refusals to widen and emptying all occur |
| `key_fetch` | `EntryIsLed`, `WaitsOnItsLeader`, `NoLostWakeup`, `SharesOutcome`, `OneFetchPerUrl`, `StatedSpanNeedsNoRequest` | 3 calls on 2 tasks, 2 URLs, so that two calls share a waker and one leads for another; one creator, which states the key's span when asked for one minute and nothing for the other; the last two properties are claimed until the cache is cleared |
| `key_fetch_live` | `FetchTypeOK`, `EveryCallReturns`, `CacheSpec` | 3 calls, an undated URL, a key whose span starts and ends in one minute; no symmetry |
| `rotation` | `HeldIsInForce`, `ExplicitIsWhole` | 3 keys, 2 requests on their way, minutes 0–4, allowance 2 = drift 1 + latency 1 |
| `verify` | `GenuineIsJudged`, `RetiredKeyCannotSign`, `CacheDoesNotShow`, `NoLaterKeyStarted` | 2 verifications at once, again and again; every schedule of 3 keys that start on whole minutes at least the allowance apart, one before the base date included; two ticks to the minute, so that dates and the present fall within one; dates in the first minute there is and in the last, 4; limit 2 |
| `envelope` | `EnvelopeTypeOK`, `Accounted`, `TwoReadsDiffer`, `WritesWhatItReserved`, `JudgedAsCreated`, `DecisionIsFinal`, `ChannelSpec`, `EveryFrameArrives` | up to 2 frames of a creator's, or any 9 units of anyone's making; bytes of 5 values, domains of at most 2, a room that is none or enough for some |
| `end_point` | `EndPointTypeOK`, `FaultIsASharedSecond`, `SpanStaysTrue`, `NothingBeforeItsTime`, `PartIsRefused`, `RereadsAsRead`, `SentReadsAsMeant` | up to 3 keys, one unreadable, in every order over 5 starts, two of which share a minute and two a second; 2 ticks to the second, 4 to the minute; 25 bodies of anyone's and 5 other answers |
| `clears_one_fetch`, `clears_fresh` | violations, see below | 3 calls, 1 clear |
| `verify_outage` | violation | as `verify`, one verification |
| `verify_short` | violation | two ticks to the minute, keys that start within a minute of each other |
| `end_point_refused` | violation | as `end_point`, creators only |

Bounds. `MaxMinute` stands for `u32::MAX` and is where minutes end, so the edges
the code guards (minute 0, the last minute, `end - 1`) are in every instance.
`Limit` stands for 1024 and is small enough for the cache to be emptied. An
allowance of one or two minutes is below the span of keys in the instances as
fifteen is in life. Three calls are enough for a leader, a waiter and a third
that comes between them; a fourth adds no new relation, and the proofs cover
any number. `MaxClears` bounds the ghost count of clears.

In `envelope` a `u16` is two units of base 5, a `u32` three and a signature one
(`ShortWidth`, `LongWidth`, `SignatureLength`), so that whole frames are a dozen
units and a payload's declared length can still exceed what there is by far.
`MaxDomain` 2 stands for 253 and domains of its length, shorter, longer, blank and
with a zero are all configured. `MaxFrames` bounds what a creator sends: two, since
what can go wrong lies between a frame and the next. `MaxUnits` bounds what anyone
sends: nine is longer than the shortest frame. In `end_point`, `Horizon` bounds time
at the third minute, past the last start; `AtFirst` and the length of `PemTexts`
bound the keys; `MaxMinute` is small enough for a moment beyond it.

Fairness. Liveness is checked under weak fairness of each call's `Work`: the
critical sections run (threads run), a request is answered or fails (the
transport is asked to give up, and `ReqwestFetch` does after ten seconds), and
a future whose task was woken is polled. Nothing obliges a new call, a spurious
poll, a drop, a clear or the clock. It follows that a started leading future is
polled to its end or dropped: a host that keeps one and never polls it makes
every waiter of the URL wait, and `EveryCallReturns` says nothing of such a host.
In `Envelope` what is on its way arrives (`Arrive`), and the reader reads a frame it
has (`Take`); nothing obliges anyone to send. No step of the others is fair.

Deadlock is checked in every run but `envelope`: the clock, clears, further requests
or verifications can always step. In `envelope` the system stops when all frames are
sent and read, or the reader has given up.

## What the violations show

* `clears_one_fetch` (`OneFetchSinceClear`). `Leader::drop` removes the URL's
  entry without looking whether it is its own (`fetch.rs` 520). After a clear, the
  old leader takes out the new one's entry and a third caller starts a second
  fetch. The `InFlight` in the entry could be compared with the leader's first.
* `clears_fresh` (`ServedOnlyFreshKeys`). A fetch that was under way at a clear
  holds its key afterwards (`fetch.rs` 672); callers that come after the clear are
  served it. `clear_cache` says they start a fresh request.
* `verify_outage` (`OutageIsNotForgery`). When the key for an identifier's own
  minute is at hand and the neighbour that signed it cannot be fetched, the
  verdict is `Invalid`. The comment of `neighbour_verifies` (`fetch.rs` 771)
  documents the step, that such a neighbour leaves the failure standing; the verdict
  that comes of it is the one the README (198) and `SignatureStatus::of` say an outage
  is never given.
* `verify_short` (`NoLaterKeyStarted`). Where a key starts and the next one starts in
  the same minute, the creator's answer states both moments, but cut to minutes they
  are equal and `hold` (`fetch.rs` 332) and `KeyAnswer::stated` take the arm for a start
  alone: the key is held from that minute to the drift allowance behind now, as one
  without an end. Identifiers of all those minutes, whose key is a later one, are
  then checked against it. `end_point` shows that a creator does give such answers:
  they pass `validate`, since the moments differ.
* `end_point_refused` (`NeverSendsRefused`). `public_key_answer` checks an answer and
  then writes its moments cut to the second (`key_answer.rs` 185). Where a key starts in
  the second another starts in, the two moments of the earlier one's answer are equal
  once written, and `validate` refuses that: every verifier reports a key that cannot be
  read. The documentation of `public_key_answer` (`endpoints.rs` 79) says that a
  creator never sends an answer it would refuse. `FaultIsASharedSecond` shows that
  a shared second is the only way to it, and `OnTheSecondNothingIsRefused` that a creator
  whose keys start on whole seconds is as documented.

Other behaviour a reader may not expect, which the properties allow for:

* An identifier dated just before a rotation, signed with the key after it and
  verified before that key starts, is `Invalid` until it does, because the creator
  reads the minute beyond the edge as its present. `GenuineIsJudged` is about keys
  that have started.
* A key that starts within a minute and not on one is out of step with the minutes
  that are asked about, and the properties of `Verify` but for the violations are
  not about such schedules; TLC finds three of them false there. The minute beyond the
  edge of the key before is answered with that key again, so an identifier of the
  new key, dated shortly before it starts by a machine whose clock is behind, is
  `Invalid` at any time later (`GenuineIsJudged`). Where the creator's first key
  starts within a minute, an identifier of that minute is `KeyUnavailable`, or
  judged, as the key was held before or not (`CacheDoesNotShow`). And the edge looked
  beyond may be up to a minute earlier than the start, so a key verifies for dates
  that much further from its span (`RetiredKeyCannotSign`).
* Where a key starts within a minute, identifiers it signs in the rest of that
  minute are `KeyUnavailable`: the minute asked about begins before the key does.
  `SpanStaysTrue` is about the whole minutes strictly between.
* `minutes_since_base` counts a date less than a minute before 2020-01-01 as minute
  0, where its documentation says `None`.
* `Creator::new` lets through a domain with a zero in it; every `create` then fails.
  `to_buffer` appends field by field and would leave part of a frame in the caller's
  buffer where it fails, but for an identifier that was read or created it never
  fails (`WritesWhatItReserved`).

## Proofs

Assumed throughout: the named `ASSUME`s (the allowance, the last minute and the
limit are natural numbers, the limit not zero; `None` is no integer, no text, no
answer, no dated key and no call or task; a byte has more than four values and widths are not zero; there are
finitely many keys; a domain is valid text, since it is a `String`; a minute is a
number of whole seconds and a second of ticks; the present can be counted in minutes,
that is, lies before the year 10186 where a `u32` of them ends; keys start at moments
that can be written, the first of which is a whole second, as chrono's is), which TLC
evaluates on its instances. What a theorem assumes beyond those it states.

* `KeyCacheProofs`: `TypeCorrect`, `DisjointSpans`, `UniqueKeys`,
  `BoundedAndCounted` and `StableCoverage`, for `CacheSpec`. The invariant
  `CacheInv` is the conjunction of the four state properties, none of which is
  inductive alone: widening replaces one key by another and so keeps the count
  only because no second key has the name, and `SpanToHoldType` (a span is never
  empty) is what makes an overlap symmetric.
* `KeyFetchProofs`: `FetchTypeCorrect`, `NoOrphanEntry`, `WaitersFollowLeaders`,
  `EveryWaiterWillBeWoken`, `OutcomeIsShared`, `ImplementsCache` and
  `SingleFlight`, for `Spec`. The invariant adds what a flight has before and
  after its end, and where a waker is between the two; one step per action. That a
  call leading has its URL's entry is kept by every step until the first clear, and
  then claimed no more (`ClearedStep`: what is cleared stays so).
  `StatedSpansAreNotAskedAgain`, again until the first clear, assumes that creators keep to their
  statements (`KeepsToItsStatements`: there is a span for each key, no two of an end
  point with a minute in common, that takes in whatever its answers may be held for)
  and that `KeysFit` the limit. `StatedInv` says that held keys lie within those spans,
  so no widening is refused and nothing is emptied, and that each whole span a call
  was told of is held; a waiting call was told by the leader of its own URL. TLC checked
  it with the property on an instance of 3 calls, 3 URLs and 2 keys that satisfies both
  assumptions, whose answers state nothing, a start alone or a whole span.
* `RotationProofs`: `HeldAgrees` and `ExplicitSpansAreWhole`, assuming `InTime`:
  drift and latency together stay within the allowance. `RotationInv` says of
  every held span and of every answer on its way that the schedule agrees and
  that no key published later can change it: a minute is `Settled` when the
  creator's clock has passed it or a later key has been published. Widening is
  sound because a key in force at both ends of a span is in force throughout
  (`InForceBetween`). `InTime` cannot be dropped: with an allowance of 1 against
  a drift of 1 and a latency of 1 TLC finds a span held past the start of the
  next key.

* `VerifyProofs`: `CacheHidden`, `HeldWhileInForce`, `RetiredKeysRefused` and
  `GenuineJudged`, assuming of the creators considered that keys start on whole
  minutes (`StartsOnMinutes`) and no two together (`StartsApart`), and the last also
  that no key is in force for less than the allowance (`StartsSpaced`: fifteen minutes).
  Without the first, see above; without the last, an identifier dated by a machine
  whose clock is off may belong to a key two spans away, which is never tried.
  `VerifyInv` joins `CacheInv`, that what is held is the truth (`TruthInv`: a held
  span is one the creator's schedule has the key in force over, with the creator's
  own edges where it is explicit) and, of each verification, that what it has tried
  so far is what an empty cache would have told it (`VerifierInv`). None of the
  properties is inductive alone: a verdict is right because the answers behind it
  were, and those because every span held by others was. That a verdict is right is
  then a fact about schedules: `FreshVerdict` is `Valid` where and only where it should be.
* `OwidFormatProofs` holds lemmas. The format's recursive functions
  (powers of the base, numbers in bytes, runs of frames) are dealt with by least
  counterexample: `RecursionExists` and `RecursionUnique` say that such a function
  exists and is the only one, and facts of every length follow by taking the first
  at which they fail. `PrefixExtends`: a framed read that did not stop early says the same of every
  longer buffer. `WritesWhatItReads`: an identifier that was read is written with the very
  bytes it was read from. `ReadsWhatItWrites`: what is written is one whole frame
  that reads as its fields, the date cut to its minute or hour.
* `EnvelopeProofs`: `EveryUnitAccounted`, `ReadsDifferInThree`, `WritesReserved`,
  `ReadIsJudgedAsCreated`, `DecisionStands`, `Types`, and `FramesAreAChannel`: that
  `Envelope` implements `FrameChannel`. `EnvelopeInv` says that the frames taken,
  written again, followed by what is left, are what arrived; and, where a creator
  sends, that what arrived followed by what is on its way is what the frames sent
  are written as, and that the frames taken are the first of those, cut to their minutes.
  Neither half holds alone: that the next frame read is the next frame sent follows
  because what is left and on its way begins with that frame's bytes, which
  `ReadsWhatItWrites` reads back, and `PrefixExtends` carries that read to the bytes
  that have arrived so far.
* `KeyAnswerJsonProofs`. The reader's and the writer's recursive functions go from
  each place of a text to later ones, so they are dealt with from the end of the text
  backwards, by the last place at which a fact fails; `StringsRead`, `ObjectRead` and
  `StringWritten` say that such a function exists and is the one the loops compute.
  `WrittenReadsBack`: what `to_json` writes of an answer `parse` reads as that
  answer, cut to seconds, whatever its texts hold. It follows the four fields through
  the text that was written, each read back at its place (`FieldReadBack`).
  `PartReadsAsWhole`: if a text and a part of it from its beginning on both read as
  answers, only white space is missing. It needs nothing of how the text came about:
  a reading that succeeds in the part succeeds in the whole with the same result and
  the same place to go on (`PartString`, `PartField`), so both come to the same last
  brace, after which the whole may hold nothing but white space.
* `EndPointProofs`: `EndPointTypesHold`, `FaultsAreSharedSeconds`, `ReadIsReread`,
  `PartsAreRefused`, `NoKeyBeforeItsTime`, `WhatIsSentIsMeant` and `SpansStayTrue`, which
  are all the properties of the run `end_point`, and `OnTheSecondNothingIsRefused`, which
  assumes that keys start on whole seconds: `NeverSendsRefused` is false without. Of the
  schedule: the places of the keys are a permutation
  (`PlacesAscend`), so what is sorted is ordered by start and then by the order
  supplied (`ScheduleOrdered`), and `key_in_force` chooses the latest start and
  of those the first supplied (`KeyChosen`). `EndPointInv` says of the answer on its way,
  and of the one that was read, that what it said stands (`Stands`): it is the writing of
  one of the creator's keys, the one the rule chooses at the moment asked about; the
  span said ends at a start the creator has, with no start of another key between, or,
  where no end was said, no key starts up to when it was said. Of the answer on its way
  it says besides that it is about the moment asked for, and that where there is no key
  none had started (`HeedsDate`). The properties are not
  inductive alone, because they speak of what a body reads as, at one moment; what stands
  can be followed while time passes and keys are added, which only ever start after the
  present (`AddedStands`). From it each property follows through `WrittenReadsBack`
  and the arithmetic of cutting moments to seconds and minutes. A form of `EndPointInv`
  was checked by TLC on the instance of `end_point` before it was proved.

Only model-checked: `EveryCallReturns` and `EveryFrameArrives` (liveness is out of
the prover's reach).

## Not modelled, and the plan

1. `Verify` over keys that start within minutes: what remains true of them.
2. A history of the statements a creator made beside `KeyCache`, to say which
   minutes of an `explicit` span were stated when a creator contradicts itself
   (`fetch.rs` 347).
3. An abstract specification of sharing (a URL, its callers and one answer) that
   `KeyFetch` without clears implements.

Limits of `Verify`: a creator whose first key starts before 2020-01-01 has that
start dropped, and with it the span (`fetch.rs` 608); `GenuineIsJudged` is stated
for creators whose starts can all be counted, on whole minutes, and keys at least the
drift allowance apart. `KeyAnswerJson` has of the four-digit escapes only the one
`write_string` writes. Not modelled at all: base 64 (`from_base64`, `as_base64`,
an external crate before and after what is modelled), ECDSA and PEM
(`crypto.rs`, external crates; exporting a key and making a random one with them),
building the HTTP client (`reqwest_fetch.rs`), the renderings of a payload and
`age_minutes`, error texts and display, the crate root, the examples.
