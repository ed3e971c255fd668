------------------------------ MODULE KeyFetch ------------------------------
(***************************************************************************)
(* key_at_url of src/src/fetch.rs: the calls that ask for keys, the fetches *)
(* they make or share, and the process-wide cache between them.            *)
(*                                                                         *)
(* A call is one run of key_at_url, from its first poll to its return or   *)
(* its being dropped.  Calls belong to tasks; a task runs one of its calls *)
(* at a time, and its waker wakes all of them.  Every action is one stretch *)
(* a call runs without another thread being able to come between: one      *)
(* critical section of the cache's mutex or of a flight's, or one wake.    *)
(*                                                                         *)
(* A call leads at most one fetch, because it returns when that fetch ends, *)
(* so a flight (Arc<InFlight>) is named by the call that leads it.         *)
(***************************************************************************)
EXTENDS KeyCache

CONSTANTS
  Calls,      \* the runs of key_at_url
  Tasks,      \* the tasks that poll them, one waker each
  Asked,      \* the key URLs asked for
  Clock,      \* the readings the wall clock may take, in minutes
  Answers     \* what the creators may answer to each URL, after validation

ASSUME AskedAssumption == Asked \subseteq Urls
ASSUME ClockAssumption == Clock \subseteq Minutes
ASSUME CallsAssumption == None \notin Calls /\ None \notin Tasks
ASSUME ResultAssumption == None \notin KeyAnswer
ASSUME AnswersAssumption == Answers \in [Asked -> SUBSET (Pems \X Statements)]

VARIABLES
  in_flight,  \* Cache::in_flight, from URL to the flight under way for it
  flight,     \* each flight's InFlightState
  pc,         \* where each call is
  url,        \* the URL a call asks for
  task,       \* the task that polls it
  is_recent,  \* is_recent, read from the clock when the call began
  waits_on,   \* the flight a waiting call holds an Arc of
  reply,      \* the answer a leader has read and not yet held
  result,     \* what the call returns; None where it was dropped
  to_wake,    \* the wakers a leader has taken and not yet woken
  woken,      \* the parked calls whose task has been woken since they parked
  clock,      \* Utc::now, in minutes since the base
  cleared     \* whether clear_cache has been called yet, for the properties to tell

callVars == <<pc, url, task, is_recent, waits_on, reply, result, to_wake>>
vars == <<keys, held, in_flight, flight, callVars, woken, clock, cleared>>

Failures == {"Http", "Key"}

Failed(failure) == [failure |-> failure]

Outcome == KeyAnswer \cup {Failed(failure) : failure \in Failures}

Pcs == {"idle", "turn", "poll", "parked", "request", "hold", "remove", "finish",
        "wake", "done"}

\* A call at one of these is suspended, or not running at all.
Suspended == {"idle", "parked", "request", "done"}

\* The stretch in which a call is the leader of its own flight.
Leading == {"request", "hold", "remove", "finish"}

Init ==
  /\ CacheInit
  /\ in_flight = [u \in Asked |-> None]
  /\ flight = [c \in Calls |-> [finished |-> FALSE, outcome |-> None, wakers |-> {}]]
  /\ pc = [c \in Calls |-> "idle"]
  /\ url = [c \in Calls |-> None]
  /\ task = [c \in Calls |-> None]
  /\ is_recent = [c \in Calls |-> FALSE]
  /\ waits_on = [c \in Calls |-> None]
  /\ reply = [c \in Calls |-> None]
  /\ result = [c \in Calls |-> None]
  /\ to_wake = [c \in Calls |-> {}]
  /\ woken = {}
  /\ clock \in Clock
  /\ cleared = FALSE

\* No other call of the task is running.
Free(t) == \A d \in Calls : task[d] = t => pc[d] \in Suspended

At(c, from) == pc[c] = from

Goes(c, to) == pc' = [pc EXCEPT ![c] = to]

-----------------------------------------------------------------------------
(***************************************************************************)
(* The start of a call, and its turn at the cache's lock.                  *)
(***************************************************************************)

\* The first poll reads the clock, before the lock is taken.
Begin(c) ==
  /\ At(c, "idle")
  /\ \E u \in Asked, t \in Tasks :
       /\ Free(t)
       /\ url' = [url EXCEPT ![c] = u]
       /\ task' = [task EXCEPT ![c] = t]
       /\ is_recent' = [is_recent EXCEPT ![c] = Recent(u.minute, clock)]
  /\ Goes(c, "turn")
  /\ UNCHANGED <<keys, held, in_flight, flight, waits_on, reply, result, to_wake,
                 woken, clock, cleared>>

\* The held keys a call may be answered from.
Found(c) ==
  IF url[c].minute = None THEN {}
  ELSE Serving(url[c].end_point, url[c].minute, is_recent[c])

\* Answered from the cache.
Serve(c) ==
  /\ At(c, "turn")
  /\ \E key \in Found(c) : result' = [result EXCEPT ![c] = Stated(key)]
  /\ Goes(c, "done")
  /\ UNCHANGED <<keys, held, in_flight, flight, url, task, is_recent, waits_on, reply,
                 to_wake, woken, clock, cleared>>

\* A mutant: fetches are shared by end point, whatever minute they ask for.
WaitForEndPoint(c) ==
  /\ At(c, "turn")
  /\ Found(c) = {}
  /\ \E u \in Asked :
       /\ u.end_point = url[c].end_point
       /\ in_flight[u] # None
       /\ waits_on' = [waits_on EXCEPT ![c] = in_flight[u]]
  /\ Goes(c, "poll")
  /\ UNCHANGED <<keys, held, in_flight, flight, url, task, is_recent, reply, result,
                 to_wake, woken, clock, cleared>>

\* Turn::Wait: another call's fetch for the URL is under way.
Wait(c) ==
  /\ At(c, "turn")
  /\ Found(c) = {}
  /\ in_flight[url[c]] # None
  /\ waits_on' = [waits_on EXCEPT ![c] = in_flight[url[c]]]
  /\ Goes(c, "poll")
  /\ UNCHANGED <<keys, held, in_flight, flight, url, task, is_recent, reply, result,
                 to_wake, woken, clock, cleared>>

\* A mutant: the entry is looked at and made under two locks.
LeadUnchecked(c) ==
  /\ At(c, "turn")
  /\ Found(c) = {}
  /\ in_flight' = [in_flight EXCEPT ![url[c]] = c]
  /\ Goes(c, "request")
  /\ UNCHANGED <<keys, held, flight, url, task, is_recent, waits_on, reply, result,
                 to_wake, woken, clock, cleared>>

\* Turn::Lead: no fetch is under way, so the call makes it.
Lead(c) ==
  /\ At(c, "turn")
  /\ Found(c) = {}
  /\ in_flight[url[c]] = None
  /\ in_flight' = [in_flight EXCEPT ![url[c]] = c]
  /\ Goes(c, "request")
  /\ UNCHANGED <<keys, held, flight, url, task, is_recent, waits_on, reply, result,
                 to_wake, woken, clock, cleared>>

-----------------------------------------------------------------------------
(***************************************************************************)
(* Waiting: Finished::poll, under the flight's lock.                       *)
(***************************************************************************)

\* Mutants: a flight with room for one waker, and a waiter that is given the
\* leader's key without the span stated for it.
PollFinishedOneWaker(c) ==
  LET f == waits_on[c]
  IN \/ /\ flight[f].finished
        /\ result' = [result EXCEPT ![c] = flight[f].outcome]
        /\ waits_on' = [waits_on EXCEPT ![c] = None]
        /\ Goes(c, IF flight[f].outcome = None THEN "turn" ELSE "done")
        /\ UNCHANGED flight
     \/ /\ ~flight[f].finished
        /\ flight' = [flight EXCEPT ![f].wakers = {task[c]}]
        /\ Goes(c, "parked")
        /\ UNCHANGED <<waits_on, result>>

PollFinishedKeyOnly(c) ==
  LET f == waits_on[c]
      outcome == flight[f].outcome
  IN \/ /\ flight[f].finished
        /\ result' = [result EXCEPT ![c] =
             IF outcome \in KeyAnswer THEN Unknown(outcome.pem) ELSE outcome]
        /\ waits_on' = [waits_on EXCEPT ![c] = None]
        /\ Goes(c, IF outcome = None THEN "turn" ELSE "done")
        /\ UNCHANGED flight
     \/ /\ ~flight[f].finished
        /\ flight' = [flight EXCEPT ![f].wakers = @ \cup {task[c]}]
        /\ Goes(c, "parked")
        /\ UNCHANGED <<waits_on, result>>

\* What one poll of the Finished future does.
PollFinished(c) ==
  LET f == waits_on[c]
      state == flight[f]
  IN \/ /\ state.finished
        /\ state.outcome # None
        /\ result' = [result EXCEPT ![c] = state.outcome]
        /\ waits_on' = [waits_on EXCEPT ![c] = None]
        /\ Goes(c, "done")
        /\ UNCHANGED flight
     \/ /\ state.finished                    \* the leader was dropped: go round again
        /\ state.outcome = None
        /\ waits_on' = [waits_on EXCEPT ![c] = None]
        /\ Goes(c, "turn")
        /\ UNCHANGED <<flight, result>>
     \/ /\ ~state.finished
        /\ flight' = [flight EXCEPT ![f].wakers = @ \cup {task[c]}]
        /\ Goes(c, "parked")
        /\ UNCHANGED <<waits_on, result>>

PollFrame ==
  UNCHANGED <<keys, held, in_flight, url, task, is_recent, reply, to_wake, clock, cleared>>

\* The poll that follows the turn at once, in the same stretch of the task.
FirstPoll(c) ==
  /\ At(c, "poll")
  /\ PollFinished(c)
  /\ PollFrame /\ UNCHANGED woken

\* The poll a wake is answered with.
WokenPoll(c) ==
  /\ At(c, "parked")
  /\ c \in woken
  /\ Free(task[c])
  /\ PollFinished(c)
  /\ woken' = woken \ {c}
  /\ PollFrame

\* An executor may poll a task that was not woken for this call.
SpuriousPoll(c) ==
  /\ At(c, "parked")
  /\ c \notin woken
  /\ Free(task[c])
  /\ PollFinished(c)
  /\ PollFrame /\ UNCHANGED woken

-----------------------------------------------------------------------------
(***************************************************************************)
(* Leading: the request, the answer held, and the Leader dropped.          *)
(***************************************************************************)

\* A 200 with an answer that passes validation.
ReplyKey(c) ==
  /\ At(c, "request")
  /\ Free(task[c])
  /\ \E answer \in Answers[url[c]] : reply' = [reply EXCEPT ![c] = answer]
  /\ Goes(c, "hold")
  /\ UNCHANGED <<keys, held, in_flight, flight, url, task, is_recent, waits_on, result,
                 to_wake, woken, clock, cleared>>

\* The transport failed, the status was not 200 or the answer could not be read.
ReplyFails(c) ==
  /\ At(c, "request")
  /\ Free(task[c])
  /\ \E failure \in Failures : result' = [result EXCEPT ![c] = Failed(failure)]
  /\ Goes(c, "remove")
  /\ UNCHANGED <<keys, held, in_flight, flight, url, task, is_recent, waits_on, reply,
                 to_wake, woken, clock, cleared>>

\* The answer is held, and the leader's outcome set, before the leader drops.
HoldReply(c) ==
  /\ At(c, "hold")
  /\ LET pem == reply[c][1]
         start == reply[c][2][1]
         end == reply[c][2][2]
     IN /\ Hold(url[c].end_point, url[c].minute, is_recent[c], pem, start, end, clock)
        /\ result' = [result EXCEPT ![c] = StatedBy(pem, start, end)]
  /\ reply' = [reply EXCEPT ![c] = None]
  /\ Goes(c, "remove")
  /\ UNCHANGED <<in_flight, flight, url, task, is_recent, waits_on, to_wake, woken, clock, cleared>>

\* The future is dropped, or the transport panics, while the request is out:
\* the Leader drops without an outcome.
DropLeader(c) ==
  /\ At(c, "request")
  /\ Free(task[c])
  /\ Goes(c, "remove")
  /\ UNCHANGED <<keys, held, in_flight, flight, url, task, is_recent, waits_on, reply,
                 result, to_wake, woken, clock, cleared>>

\* A mutant: a leader with nothing to hand on leaves its entry behind.
RemoveEntryIfDone(c) ==
  /\ At(c, "remove")
  /\ in_flight' = IF result[c] = None THEN in_flight ELSE [in_flight EXCEPT ![url[c]] = None]
  /\ Goes(c, "finish")
  /\ UNCHANGED <<keys, held, flight, url, task, is_recent, waits_on, reply, result,
                 to_wake, woken, clock, cleared>>

\* Leader::drop, first lock: the URL's entry is removed, whosever it is.
RemoveEntry(c) ==
  /\ At(c, "remove")
  /\ in_flight' = [in_flight EXCEPT ![url[c]] = None]
  /\ Goes(c, "finish")
  /\ UNCHANGED <<keys, held, flight, url, task, is_recent, waits_on, reply, result,
                 to_wake, woken, clock, cleared>>

\* A mutant: a leader with nothing to hand on wakes nobody.
FinishFlightIfDone(c) ==
  /\ At(c, "finish")
  /\ flight' = [flight EXCEPT ![c] = [finished |-> TRUE, outcome |-> result[c], wakers |-> {}]]
  /\ to_wake' = [to_wake EXCEPT ![c] = IF result[c] = None THEN {} ELSE flight[c].wakers]
  /\ Goes(c, "wake")
  /\ UNCHANGED <<keys, held, in_flight, url, task, is_recent, waits_on, reply, result,
                 woken, clock, cleared>>

\* Leader::drop, second lock: the flight ends and its wakers are taken.
FinishFlight(c) ==
  /\ At(c, "finish")
  /\ flight' = [flight EXCEPT ![c] = [finished |-> TRUE, outcome |-> result[c], wakers |-> {}]]
  /\ to_wake' = [to_wake EXCEPT ![c] = flight[c].wakers]
  /\ Goes(c, "wake")
  /\ UNCHANGED <<keys, held, in_flight, url, task, is_recent, waits_on, reply, result,
                 woken, clock, cleared>>

\* Leader::drop, no lock: one waker after another.
WakeOne(c) ==
  /\ At(c, "wake")
  /\ \E t \in to_wake[c] :
       /\ woken' = woken \cup {d \in Calls : task[d] = t /\ pc[d] = "parked"}
       /\ to_wake' = [to_wake EXCEPT ![c] = @ \ {t}]
  /\ UNCHANGED <<keys, held, in_flight, flight, pc, url, task, is_recent, waits_on, reply,
                 result, clock, cleared>>

LeaderReturns(c) ==
  /\ At(c, "wake")
  /\ to_wake[c] = {}
  /\ Goes(c, "done")
  /\ UNCHANGED <<keys, held, in_flight, flight, url, task, is_recent, waits_on, reply,
                 result, to_wake, woken, clock, cleared>>

-----------------------------------------------------------------------------
(***************************************************************************)
(* The environment.                                                        *)
(***************************************************************************)

\* A waiting call's future is dropped; its waker stays behind in the flight.
DropWaiter(c) ==
  /\ At(c, "parked")
  /\ Free(task[c])
  /\ waits_on' = [waits_on EXCEPT ![c] = None]
  /\ woken' = woken \ {c}
  /\ Goes(c, "done")
  /\ UNCHANGED <<keys, held, in_flight, flight, url, task, is_recent, reply, result,
                 to_wake, clock, cleared>>

\* A mutant: the count of held keys is not set back.
ClearCacheKeysOnly ==
  /\ ClearKeysOnly
  /\ in_flight' = [u \in Asked |-> None]
  /\ cleared' = TRUE
  /\ UNCHANGED <<flight, callVars, woken, clock>>

\* clear_cache, from any thread at any time.
ClearCache ==
  /\ ClearKeys
  /\ in_flight' = [u \in Asked |-> None]
  /\ cleared' = TRUE
  /\ UNCHANGED <<flight, callVars, woken, clock>>

\* The wall clock may be set back as well as run on.
ClockMoves ==
  /\ \E now \in Clock : clock' = now
  /\ UNCHANGED <<keys, held, in_flight, flight, callVars, woken, cleared>>

Work(c) ==
  \/ Serve(c) \/ Wait(c) \/ Lead(c)
  \/ FirstPoll(c) \/ WokenPoll(c)
  \/ ReplyKey(c) \/ ReplyFails(c)
  \/ HoldReply(c) \/ RemoveEntry(c) \/ FinishFlight(c) \/ WakeOne(c) \/ LeaderReturns(c)

\* Everything but clear_cache.
CallsNext ==
  \/ \E c \in Calls : Begin(c) \/ Work(c) \/ SpuriousPoll(c) \/ DropLeader(c) \/ DropWaiter(c)
  \/ ClockMoves

Next == CallsNext \/ ClearCache

Spec == Init /\ [][Next]_vars

\* A call that can take a step takes it: threads run, transports answer or
\* fail, and a task that was woken is polled.  Nothing obliges a spurious poll,
\* a new call, a drop, a clear or the clock.
Fairness == \A c \in Calls : WF_vars(Work(c))

FairSpec == Spec /\ Fairness

-----------------------------------------------------------------------------
(***************************************************************************)
(* Properties.                                                             *)
(***************************************************************************)

FetchTypeOK ==
  /\ in_flight \in [Asked -> Calls \cup {None}]
  /\ flight \in [Calls -> [finished : BOOLEAN, outcome : Outcome \cup {None},
                           wakers : SUBSET Tasks]]
  /\ pc \in [Calls -> Pcs]
  /\ url \in [Calls -> Asked \cup {None}]
  /\ task \in [Calls -> Tasks \cup {None}]
  /\ is_recent \in [Calls -> BOOLEAN]
  /\ waits_on \in [Calls -> Calls \cup {None}]
  /\ reply \in [Calls -> (Pems \X Statements) \cup {None}]
  /\ result \in [Calls -> Outcome \cup {None}]
  /\ to_wake \in [Calls -> SUBSET Tasks]
  /\ woken \subseteq Calls
  /\ clock \in Clock
  /\ cleared \in BOOLEAN

\* A URL's entry always belongs to a call still making that URL's fetch.  An
\* entry left behind would make every later caller of the URL wait for ever.
EntryIsLed ==
  \A u \in Asked : in_flight[u] # None =>
    LET c == in_flight[u]
    IN url[c] = u /\ pc[c] \in {"request", "hold", "remove"}

\* A waiting call waits on a call that makes or has made the fetch for the very
\* same URL, and that itself waits on nobody: no caller gets another URL's key
\* and no two callers wait on each other.
WaitsOnItsLeader ==
  \A c \in Calls : pc[c] \in {"poll", "parked"} =>
    LET f == waits_on[c]
    IN /\ f \in Calls
       /\ url[f] = url[c]
       /\ waits_on[f] = None
       /\ pc[f] \in Leading \cup {"wake", "done"}
       /\ flight[f].finished <=> pc[f] \in {"wake", "done"}

\* A parked call is always going to be woken: its task's waker is in a flight
\* whose leader has yet to take the wakers, or in the leader's hands, or has
\* been used.  It holds through drops of other waiters of the same task,
\* through dropped leaders, and through clear_cache taking the flight out of
\* the map.
NoLostWakeup ==
  \A c \in Calls : pc[c] = "parked" =>
    LET f == waits_on[c]
    IN \/ c \in woken
       \/ pc[f] \in Leading /\ task[c] \in flight[f].wakers
       \/ pc[f] = "wake" /\ task[c] \in to_wake[f]

OutcomeTaken ==
  \A c \in Calls : waits_on[c] # None /\ pc'[c] = "done" /\ result'[c] # result[c] =>
    /\ result'[c] = result[waits_on[c]]
    /\ pc[waits_on[c]] \in {"wake", "done"}

\* What a call that waited returns, when it ends with a result of its own, is what the
\* leader of its flight returns and never another flight's outcome.
SharesOutcome == [][OutcomeTaken]_vars

\* "A caller that asks for a key while another caller is already fetching it
\* waits for that fetch rather than starting a second", for as long as the
\* process has not called clear_cache.
OneFetchPerUrl ==
  ~cleared => \A c, d \in Calls :
    /\ pc[c] \in {"request", "hold", "remove"}
    /\ pc[d] \in {"request", "hold", "remove"}
    /\ url[c] = url[d]
    => c = d

\* A whole span a creator has stated, ending before the last minute.
StatesWhole(outcome, minute) ==
  /\ outcome \in KeyAnswer
  /\ outcome.known
  /\ outcome.first <= minute /\ minute <= outcome.last
  /\ outcome.last < MaxMinute

\* Once a call has had a whole span from a creator, no request is made for any
\* minute of it, recent or not, whichever URL named it: not even by a caller
\* that comes between the hold and the end of the fetch.  (Before any
\* clear_cache and within the limit, from a creator that keeps to its statements.)
StatedSpanNeedsNoRequest ==
  [][~cleared => \A c \in Calls : pc[c] = "turn" /\ pc'[c] = "request" /\ url[c].minute # None =>
       ~ \E d \in Calls : /\ url[d] # None
                          /\ url[d].end_point = url[c].end_point
                          /\ StatesWhole(result[d], url[c].minute)]_vars

\* Every call that starts returns, or is dropped: no chain of waiting, dropped
\* leaders and retries goes on for ever, and no wake-up is missed.
EveryCallReturns == \A c \in Calls : pc[c] # "idle" ~> pc[c] = "done"
=============================================================================
