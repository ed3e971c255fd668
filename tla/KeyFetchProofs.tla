--------------------------- MODULE KeyFetchProofs ---------------------------
(***************************************************************************)
(* Proofs about KeyFetch, for any number of calls, tasks, URLs and answers, *)
(* with clear_cache called at any time and the clock set to anything.      *)
(***************************************************************************)
EXTENDS KeyFetch, KeyCacheProofs

(***************************************************************************)
(* What ties a call's place to the rest of its state.                      *)
(***************************************************************************)
CallsInv ==
  \A c \in Calls :
    /\ pc[c] # "idle" => url[c] \in Asked /\ task[c] \in Tasks
    /\ pc[c] \notin {"poll", "parked"} => waits_on[c] = None
    /\ pc[c] \notin {"wake", "done"} => ~flight[c].finished
    /\ pc[c] = "wake" => flight[c].finished
    /\ flight[c].finished => flight[c].outcome = result[c]
    /\ pc[c] = "hold" => reply[c] \in Pems \X Statements

ProtocolInv == CallsInv /\ EntryIsLed /\ WaitsOnItsLeader /\ NoLostWakeup

FetchInv == CacheInv /\ FetchTypeOK /\ ProtocolInv

-----------------------------------------------------------------------------
(***************************************************************************)
(* The cache's part of each step is a step of KeyCache.                    *)
(***************************************************************************)

\* What the held keys state is a well-formed answer.
LEMMA StatedType ==
  ASSUME NEW key \in HeldKey
  PROVE  Stated(key) \in KeyAnswer
  <1>1. 0 \in Minutes /\ MaxMinute \in Minutes
    BY MinutesAssumption DEF Minutes
  <1>. QED BY <1>1 DEF HeldKey, KeyAnswer, Stated, Known, Unknown

\* So is what a creator's own answer states.
LEMMA StatedByType ==
  ASSUME NEW pem \in Pems, NEW start \in OptionMinutes, NEW end \in OptionMinutes
  PROVE  StatedBy(pem, start, end) \in KeyAnswer
  <1>1. 0 \in Minutes /\ MaxMinute \in Minutes
    BY MinutesAssumption DEF Minutes
  <1>2. CASE start = None
    BY <1>1, <1>2 DEF KeyAnswer, StatedBy, Unknown, WholeSpan
  <1>3. CASE start # None /\ WholeSpan(start, end)
    <2>1. start \in Minutes /\ end - 1 \in Minutes
      BY <1>3, MinutesAssumption DEF WholeSpan, OptionMinutes, Minutes
    <2>. QED BY <1>3, <2>1 DEF KeyAnswer, StatedBy, Known
  <1>4. CASE start # None /\ ~WholeSpan(start, end)
    <2>1. start \in Minutes
      BY <1>4 DEF OptionMinutes
    <2>. QED BY <1>1, <1>4, <2>1 DEF KeyAnswer, StatedBy, Known
  <1>. QED BY <1>2, <1>3, <1>4

\* The answer a leader is about to hold, taken apart.
LEMMA ReplyParts ==
  ASSUME FetchTypeOK, CallsInv, NEW c \in Calls, pc[c] = "hold"
  PROVE  /\ url[c].end_point \in EndPoints /\ url[c].minute \in OptionMinutes
         /\ reply[c][1] \in Pems /\ reply[c][2] \in Statements
         /\ reply[c][2][1] \in OptionMinutes /\ reply[c][2][2] \in OptionMinutes
         /\ is_recent[c] \in BOOLEAN /\ clock \in Minutes
  <1>1. url[c] \in Urls
    BY AskedAssumption DEF CallsInv
  <1>2. reply[c] \in Pems \X Statements
    BY DEF CallsInv, FetchTypeOK
  <1>. QED BY <1>1, <1>2, ClockAssumption DEF FetchTypeOK, Urls, Statements

\* Only a leader holding its answer and clear_cache touch the keys, and both do
\* to them what KeyCache allows.
LEMMA CacheStepOfFetch ==
  ASSUME FetchTypeOK, CallsInv, [Next]_vars
  PROVE  [CacheNext]_cacheVars
  <1>1. ASSUME NEW c \in Calls, HoldReply(c)
        PROVE  HoldAny
    <2>1. pc[c] = "hold"
      BY <1>1 DEF HoldReply, At
    <2>. QED BY <1>1, <2>1, ReplyParts DEF HoldReply, HoldAny
  <1>2. CASE ClearCache
    BY <1>2 DEF ClearCache, CacheNext
  <1>3. CASE ClockMoves \/ UNCHANGED vars
    BY <1>3 DEF ClockMoves, vars, cacheVars
  <1>4. ASSUME NEW c \in Calls,
               Begin(c) \/ Work(c) \/ SpuriousPoll(c) \/ DropLeader(c) \/ DropWaiter(c)
        PROVE  [CacheNext]_cacheVars
    BY <1>1, <1>4 DEF Begin, Work, Serve, Wait, Lead, FirstPoll, WokenPoll, SpuriousPoll,
       PollFrame, ReplyKey, ReplyFails, RemoveEntry, FinishFlight, WakeOne, LeaderReturns,
       DropLeader, DropWaiter, CacheNext, cacheVars
  <1>. QED BY <1>2, <1>3, <1>4 DEF Next, CallsNext

-----------------------------------------------------------------------------
(***************************************************************************)
(* Type correctness.                                                       *)
(***************************************************************************)

\* Before any call the invariant holds.
LEMMA FetchInit ==
  ASSUME Init
  PROVE  FetchInv
  <1>1. CacheInv
    BY CacheInitInv DEF Init
  <1>2. FetchTypeOK
    BY DEF Init, FetchTypeOK, Pcs
  <1>3. ProtocolInv
    BY CallsAssumption DEF Init, ProtocolInv, CallsInv, EntryIsLed, WaitsOnItsLeader, NoLostWakeup
  <1>. QED BY <1>1, <1>2, <1>3 DEF FetchInv

\* A poll leaves flights, places and results of their types.
LEMMA PollKeepsType ==
  ASSUME FetchTypeOK, NEW c \in Calls, pc[c] \in {"poll", "parked"}, CallsInv, WaitsOnItsLeader,
         PollFinished(c)
  PROVE  /\ flight' \in [Calls -> [finished : BOOLEAN, outcome : Outcome \cup {None},
                                   wakers : SUBSET Tasks]]
         /\ pc' \in [Calls -> Pcs]
         /\ waits_on' \in [Calls -> Calls \cup {None}]
         /\ result' \in [Calls -> Outcome \cup {None}]
  <1>1. waits_on[c] \in Calls /\ task[c] \in Tasks
    BY DEF WaitsOnItsLeader, CallsInv
  <1>. DEFINE f == waits_on[c]
  <1>2. flight[f].outcome \in Outcome \cup {None}
    BY <1>1 DEF FetchTypeOK
  <1>3. CASE flight[f].finished
    BY <1>1, <1>2, <1>3 DEF FetchTypeOK, PollFinished, Goes, Pcs
  <1>4. CASE ~flight[f].finished
    <2>1. flight' = [flight EXCEPT ![f].wakers = @ \cup {task[c]}]
      BY <1>4 DEF PollFinished
    <2>2. flight' \in [Calls -> [finished : BOOLEAN, outcome : Outcome \cup {None},
                                wakers : SUBSET Tasks]]
      BY <1>1, <2>1 DEF FetchTypeOK
    <2>. QED BY <1>4, <2>2 DEF FetchTypeOK, PollFinished, Goes, Pcs
  <1>. QED BY <1>3, <1>4

\* Every step keeps the types.
LEMMA TypeStep ==
  ASSUME FetchInv, [Next]_vars
  PROVE  FetchTypeOK'
  <1>. USE DEF FetchInv, ProtocolInv
  <1>1. ASSUME NEW c \in Calls, Begin(c) PROVE FetchTypeOK'
    <2>1. PICK u \in Asked, t \in Tasks :
            /\ url' = [url EXCEPT ![c] = u]
            /\ task' = [task EXCEPT ![c] = t]
            /\ is_recent' = [is_recent EXCEPT ![c] = Recent(u.minute, clock)]
      BY <1>1 DEF Begin
    <2>2. Recent(u.minute, clock) \in BOOLEAN
      BY DEF Recent
    <2>3. is_recent' \in [Calls -> BOOLEAN]
      BY <2>1, <2>2 DEF FetchTypeOK
    <2>. QED BY <1>1, <2>1, <2>3 DEF Begin, FetchTypeOK, Goes, Pcs
  <1>2. ASSUME NEW c \in Calls, Serve(c) PROVE FetchTypeOK'
    <2>1. PICK key \in Found(c) : result' = [result EXCEPT ![c] = Stated(key)]
      BY <1>2 DEF Serve
    <2>2. Stated(key) \in Outcome
      <3>1. key \in keys
        BY <2>1 DEF Found, Serving, KeysOf
      <3>2. key \in HeldKey
        BY <3>1 DEF CacheInv, TypeOK
      <3>. QED BY <3>2, StatedType DEF Outcome
    <2>. QED BY <1>2, <2>1, <2>2 DEF Serve, FetchTypeOK, Goes, Pcs
  <1>3. ASSUME NEW c \in Calls, Wait(c) \/ Lead(c) PROVE FetchTypeOK'
    <2>1. url[c] \in Asked
      <3>1. pc[c] = "turn"
        BY <1>3 DEF Wait, Lead, At
      <3>. QED BY <3>1 DEF CallsInv
    <2>2. CASE Wait(c)
      BY <2>1, <2>2 DEF Wait, FetchTypeOK, Goes, Pcs
    <2>3. CASE Lead(c)
      BY <2>1, <2>3 DEF Lead, FetchTypeOK, Goes, Pcs
    <2>. QED BY <1>3, <2>2, <2>3
  <1>4. ASSUME NEW c \in Calls, FirstPoll(c) \/ WokenPoll(c) \/ SpuriousPoll(c)
        PROVE  FetchTypeOK'
    <2>1. pc[c] \in {"poll", "parked"} /\ PollFinished(c)
      BY <1>4 DEF FirstPoll, WokenPoll, SpuriousPoll, At
    <2>2. PollFrame /\ woken' \subseteq woken
      BY <1>4 DEF FirstPoll, WokenPoll, SpuriousPoll
    <2>. QED BY <2>1, <2>2, PollKeepsType DEF PollFrame, FetchTypeOK
  <1>5. ASSUME NEW c \in Calls, ReplyKey(c) PROVE FetchTypeOK'
    <2>1. Answers[url[c]] \subseteq Pems \X Statements
      BY <1>5, AnswersAssumption DEF ReplyKey, At, CallsInv
    <2>2. PICK answer \in Answers[url[c]] : reply' = [reply EXCEPT ![c] = answer]
      BY <1>5 DEF ReplyKey
    <2>3. reply' \in [Calls -> (Pems \X Statements) \cup {None}]
      BY <2>1, <2>2 DEF FetchTypeOK
    <2>4. pc' \in [Calls -> Pcs]
      BY <1>5 DEF ReplyKey, FetchTypeOK, Goes, Pcs
    <2>. QED BY <1>5, <2>3, <2>4 DEF ReplyKey, FetchTypeOK
  <1>6. ASSUME NEW c \in Calls, ReplyFails(c) PROVE FetchTypeOK'
    BY <1>6 DEF ReplyFails, FetchTypeOK, Goes, Pcs, Outcome
  <1>7. ASSUME NEW c \in Calls, HoldReply(c) PROVE FetchTypeOK'
    <2>1. pc[c] = "hold"
      BY <1>7 DEF HoldReply, At
    <2>2. StatedBy(reply[c][1], reply[c][2][1], reply[c][2][2]) \in Outcome
      BY <2>1, ReplyParts, StatedByType DEF Outcome
    <2>. QED BY <1>7, <2>2 DEF HoldReply, FetchTypeOK, Goes, Pcs
  <1>8. ASSUME NEW c \in Calls, DropLeader(c) \/ LeaderReturns(c) PROVE FetchTypeOK'
    BY <1>8 DEF DropLeader, LeaderReturns, FetchTypeOK, Goes, Pcs
  <1>9. ASSUME NEW c \in Calls, RemoveEntry(c) PROVE FetchTypeOK'
    <2>1. url[c] \in Asked
      BY <1>9 DEF RemoveEntry, At, CallsInv
    <2>. QED BY <1>9, <2>1 DEF RemoveEntry, FetchTypeOK, Goes, Pcs
  <1>10. ASSUME NEW c \in Calls, FinishFlight(c) PROVE FetchTypeOK'
    BY <1>10 DEF FinishFlight, FetchTypeOK, Goes, Pcs
  <1>11. ASSUME NEW c \in Calls, WakeOne(c) PROVE FetchTypeOK'
    BY <1>11 DEF WakeOne, FetchTypeOK
  <1>12. ASSUME NEW c \in Calls, DropWaiter(c) PROVE FetchTypeOK'
    BY <1>12 DEF DropWaiter, FetchTypeOK, Goes, Pcs
  <1>13. CASE ClearCache \/ ClockMoves \/ UNCHANGED vars
    BY <1>13 DEF ClearCache, ClockMoves, vars, callVars, FetchTypeOK
  <1>. QED BY <1>1, <1>2, <1>3, <1>4, <1>5, <1>6, <1>7, <1>8, <1>9, <1>10, <1>11, <1>12, <1>13
       DEF Next, CallsNext, Work

-----------------------------------------------------------------------------
(***************************************************************************)
(* The protocol invariant, action by action.                               *)
(***************************************************************************)

\* A call that begins waits on nobody and leads nothing.
LEMMA BeginKeepsProtocol ==
  ASSUME FetchInv, NEW c \in Calls, Begin(c)
  PROVE  ProtocolInv'
  <1>. USE DEF FetchInv, ProtocolInv, FetchTypeOK
  <1>1. CallsInv'
    BY DEF Begin, At, Goes, CallsInv
  <1>2. EntryIsLed'
    BY DEF Begin, At, Goes, CallsInv, EntryIsLed
  <1>3. WaitsOnItsLeader'
    BY DEF Begin, At, Goes, CallsInv, EntryIsLed, WaitsOnItsLeader, Leading
  <1>4. NoLostWakeup'
    BY DEF Begin, At, Goes, CallsInv, WaitsOnItsLeader, NoLostWakeup, Leading
  <1>. QED BY <1>1, <1>2, <1>3, <1>4

\* A call answered from the cache never entered the protocol.
LEMMA ServeKeepsProtocol ==
  ASSUME FetchInv, NEW c \in Calls, Serve(c)
  PROVE  ProtocolInv'
  <1>. USE DEF FetchInv, ProtocolInv, FetchTypeOK
  <1>1. CallsInv'
    BY DEF Serve, At, Goes, CallsInv
  <1>2. EntryIsLed'
    BY DEF Serve, At, Goes, CallsInv, EntryIsLed
  <1>3. WaitsOnItsLeader'
    BY DEF Serve, At, Goes, CallsInv, EntryIsLed, WaitsOnItsLeader, Leading
  <1>4. NoLostWakeup'
    BY DEF Serve, At, Goes, CallsInv, WaitsOnItsLeader, NoLostWakeup, Leading
  <1>. QED BY <1>1, <1>2, <1>3, <1>4

\* The entry a call finds in the map is led by a call of the same URL that
\* has not finished its flight.
LEMMA WaitKeepsProtocol ==
  ASSUME FetchInv, NEW c \in Calls, Wait(c)
  PROVE  ProtocolInv'
  <1>. USE DEF FetchInv, ProtocolInv, FetchTypeOK
  <1>1. CallsInv'
    BY DEF Wait, At, Goes, CallsInv
  <1>2. EntryIsLed'
    BY DEF Wait, At, Goes, CallsInv, EntryIsLed
  <1>3. WaitsOnItsLeader'
    BY DEF Wait, At, Goes, CallsInv, EntryIsLed, WaitsOnItsLeader, Leading
  <1>4. NoLostWakeup'
    BY DEF Wait, At, Goes, CallsInv, WaitsOnItsLeader, NoLostWakeup, Leading
  <1>. QED BY <1>1, <1>2, <1>3, <1>4

\* A call that leads has a flight of its own, unused and unfinished.
LEMMA LeadKeepsProtocol ==
  ASSUME FetchInv, NEW c \in Calls, Lead(c)
  PROVE  ProtocolInv'
  <1>. USE DEF FetchInv, ProtocolInv, FetchTypeOK
  <1>1. CallsInv'
    BY DEF Lead, At, Goes, CallsInv
  <1>2. EntryIsLed'
    BY DEF Lead, At, Goes, CallsInv, EntryIsLed
  <1>3. WaitsOnItsLeader'
    BY DEF Lead, At, Goes, CallsInv, EntryIsLed, WaitsOnItsLeader, Leading
  <1>4. NoLostWakeup'
    BY DEF Lead, At, Goes, CallsInv, WaitsOnItsLeader, NoLostWakeup, Leading
  <1>. QED BY <1>1, <1>2, <1>3, <1>4

\* A poll registers the task's waker under the same lock it finds the flight
\* unfinished under, or takes the outcome and stops waiting.
LEMMA PollKeepsProtocol ==
  ASSUME FetchInv, NEW c \in Calls, pc[c] \in {"poll", "parked"}, PollFinished(c),
         PollFrame, woken' \in {woken, woken \ {c}}
  PROVE  ProtocolInv'
  <1>. USE DEF FetchInv, ProtocolInv, FetchTypeOK
  <1>. DEFINE f == waits_on[c]
  <1>1. f \in Calls /\ pc[f] \in Leading \cup {"wake", "done"} /\ f # c
    BY DEF WaitsOnItsLeader, Leading
  <1>2. CASE flight[f].finished
    <2>1. /\ flight' = flight
          /\ waits_on' = [waits_on EXCEPT ![c] = None]
          /\ \/ pc' = [pc EXCEPT ![c] = "turn"] /\ result' = result
             \/ /\ pc' = [pc EXCEPT ![c] = "done"]
                /\ result' = [result EXCEPT ![c] = flight[f].outcome]
      BY <1>2 DEF PollFinished, Goes
    <2>. HIDE DEF f
    <2>2. CallsInv'
      BY <2>1 DEF PollFrame, CallsInv
    <2>3. EntryIsLed'
      BY <2>1 DEF PollFrame, EntryIsLed
    <2>4. WaitsOnItsLeader'
      BY <2>1 DEF PollFrame, CallsInv, WaitsOnItsLeader, Leading
    <2>5. NoLostWakeup'
      BY <2>1 DEF PollFrame, WaitsOnItsLeader, NoLostWakeup, Leading
    <2>. QED BY <2>2, <2>3, <2>4, <2>5
  <1>3. CASE ~flight[f].finished
    <2>1. /\ flight' = [flight EXCEPT ![f].wakers = @ \cup {task[c]}]
          /\ pc' = [pc EXCEPT ![c] = "parked"]
          /\ waits_on' = waits_on /\ result' = result
      BY <1>3 DEF PollFinished, Goes
    <2>2. \A d \in Calls : /\ flight'[d].finished = flight[d].finished
                           /\ flight'[d].outcome = flight[d].outcome
                           /\ flight[d].wakers \subseteq flight'[d].wakers
      BY <1>1, <2>1
    <2>3. task[c] \in flight'[f].wakers /\ pc[f] \in Leading
      BY <1>1, <1>3, <2>1 DEF WaitsOnItsLeader, CallsInv
    <2>4. CallsInv'
      BY <2>1, <2>2 DEF PollFrame, CallsInv
    <2>5. EntryIsLed'
      BY <2>1 DEF PollFrame, EntryIsLed
    <2>6. WaitsOnItsLeader'
      BY <2>1, <2>2 DEF PollFrame, WaitsOnItsLeader, Leading
    <2>7. NoLostWakeup'
      BY <1>1, <2>1, <2>2, <2>3 DEF PollFrame, WaitsOnItsLeader, NoLostWakeup, Leading
    <2>. QED BY <2>4, <2>5, <2>6, <2>7
  <1>. QED BY <1>2, <1>3

\* The answer a leader reads is one its URL can have.
LEMMA ReplyKeyKeepsProtocol ==
  ASSUME FetchInv, NEW c \in Calls, ReplyKey(c)
  PROVE  ProtocolInv'
  <1>. USE DEF FetchInv, ProtocolInv, FetchTypeOK
  <1>0. reply'[c] \in Pems \X Statements
    <2>1. url[c] \in Asked
      BY DEF ReplyKey, At, CallsInv
    <2>2. Answers[url[c]] \subseteq Pems \X Statements
      BY <2>1, AnswersAssumption
    <2>. QED BY <2>2 DEF ReplyKey
  <1>1. CallsInv'
    BY <1>0 DEF ReplyKey, At, Goes, CallsInv
  <1>2. EntryIsLed'
    BY DEF ReplyKey, At, Goes, CallsInv, EntryIsLed
  <1>3. WaitsOnItsLeader'
    BY DEF ReplyKey, At, Goes, CallsInv, EntryIsLed, WaitsOnItsLeader, Leading
  <1>4. NoLostWakeup'
    BY DEF ReplyKey, At, Goes, CallsInv, WaitsOnItsLeader, NoLostWakeup, Leading
  <1>. QED BY <1>1, <1>2, <1>3, <1>4

\* A failed request changes the leader's result before its flight ends.
LEMMA ReplyFailsKeepsProtocol ==
  ASSUME FetchInv, NEW c \in Calls, ReplyFails(c)
  PROVE  ProtocolInv'
  <1>. USE DEF FetchInv, ProtocolInv, FetchTypeOK
  <1>1. CallsInv'
    BY DEF ReplyFails, At, Goes, CallsInv
  <1>2. EntryIsLed'
    BY DEF ReplyFails, At, Goes, CallsInv, EntryIsLed
  <1>3. WaitsOnItsLeader'
    BY DEF ReplyFails, At, Goes, CallsInv, EntryIsLed, WaitsOnItsLeader, Leading
  <1>4. NoLostWakeup'
    BY DEF ReplyFails, At, Goes, CallsInv, WaitsOnItsLeader, NoLostWakeup, Leading
  <1>. QED BY <1>1, <1>2, <1>3, <1>4

\* Holding the answer changes nothing a waiting call looks at.
LEMMA HoldReplyKeepsProtocol ==
  ASSUME FetchInv, NEW c \in Calls, HoldReply(c)
  PROVE  ProtocolInv'
  <1>. USE DEF FetchInv, ProtocolInv, FetchTypeOK
  <1>1. CallsInv'
    BY DEF HoldReply, At, Goes, CallsInv
  <1>2. EntryIsLed'
    BY DEF HoldReply, At, Goes, CallsInv, EntryIsLed
  <1>3. WaitsOnItsLeader'
    BY DEF HoldReply, At, Goes, CallsInv, EntryIsLed, WaitsOnItsLeader, Leading
  <1>4. NoLostWakeup'
    BY DEF HoldReply, At, Goes, CallsInv, WaitsOnItsLeader, NoLostWakeup, Leading
  <1>. QED BY <1>1, <1>2, <1>3, <1>4

\* A dropped leader still has its entry to remove and its flight to end.
LEMMA DropLeaderKeepsProtocol ==
  ASSUME FetchInv, NEW c \in Calls, DropLeader(c)
  PROVE  ProtocolInv'
  <1>. USE DEF FetchInv, ProtocolInv, FetchTypeOK
  <1>1. CallsInv'
    BY DEF DropLeader, At, Goes, CallsInv
  <1>2. EntryIsLed'
    BY DEF DropLeader, At, Goes, CallsInv, EntryIsLed
  <1>3. WaitsOnItsLeader'
    BY DEF DropLeader, At, Goes, CallsInv, EntryIsLed, WaitsOnItsLeader, Leading
  <1>4. NoLostWakeup'
    BY DEF DropLeader, At, Goes, CallsInv, WaitsOnItsLeader, NoLostWakeup, Leading
  <1>. QED BY <1>1, <1>2, <1>3, <1>4

\* The entry removed may be another leader's; the flight of that leader, and
\* the calls waiting on it, are untouched.
LEMMA RemoveEntryKeepsProtocol ==
  ASSUME FetchInv, NEW c \in Calls, RemoveEntry(c)
  PROVE  ProtocolInv'
  <1>. USE DEF FetchInv, ProtocolInv, FetchTypeOK
  <1>1. CallsInv'
    BY DEF RemoveEntry, At, Goes, CallsInv
  <1>2. EntryIsLed'
    BY DEF RemoveEntry, At, Goes, CallsInv, EntryIsLed
  <1>3. WaitsOnItsLeader'
    BY DEF RemoveEntry, At, Goes, CallsInv, EntryIsLed, WaitsOnItsLeader, Leading
  <1>4. NoLostWakeup'
    BY DEF RemoveEntry, At, Goes, CallsInv, WaitsOnItsLeader, NoLostWakeup, Leading
  <1>. QED BY <1>1, <1>2, <1>3, <1>4

\* The wakers pass from the flight into the leader's hands in one step, and
\* no call can park on the flight after it.
LEMMA FinishFlightKeepsProtocol ==
  ASSUME FetchInv, NEW c \in Calls, FinishFlight(c)
  PROVE  ProtocolInv'
  <1>. USE DEF FetchInv, ProtocolInv, FetchTypeOK
  <1>1. CallsInv'
    BY DEF FinishFlight, At, Goes, CallsInv
  <1>2. EntryIsLed'
    BY DEF FinishFlight, At, Goes, CallsInv, EntryIsLed
  <1>3. WaitsOnItsLeader'
    BY DEF FinishFlight, At, Goes, CallsInv, EntryIsLed, WaitsOnItsLeader, Leading
  <1>4. NoLostWakeup'
    BY DEF FinishFlight, At, Goes, CallsInv, WaitsOnItsLeader, NoLostWakeup, Leading
  <1>. QED BY <1>1, <1>2, <1>3, <1>4

\* A waker leaves the leader's hands as its task's parked calls are woken.
LEMMA WakeOneKeepsProtocol ==
  ASSUME FetchInv, NEW c \in Calls, WakeOne(c)
  PROVE  ProtocolInv'
  <1>. USE DEF FetchInv, ProtocolInv, FetchTypeOK
  <1>1. CallsInv'
    BY DEF WakeOne, At, Goes, CallsInv
  <1>2. EntryIsLed'
    BY DEF WakeOne, At, Goes, CallsInv, EntryIsLed
  <1>3. WaitsOnItsLeader'
    BY DEF WakeOne, At, Goes, CallsInv, EntryIsLed, WaitsOnItsLeader, Leading
  <1>4. NoLostWakeup'
    BY DEF WakeOne, At, Goes, CallsInv, WaitsOnItsLeader, NoLostWakeup, Leading
  <1>. QED BY <1>1, <1>2, <1>3, <1>4

\* A leader that has no waker left has woken every call parked on its flight.
LEMMA LeaderReturnsKeepsProtocol ==
  ASSUME FetchInv, NEW c \in Calls, LeaderReturns(c)
  PROVE  ProtocolInv'
  <1>. USE DEF FetchInv, ProtocolInv, FetchTypeOK
  <1>1. CallsInv'
    BY DEF LeaderReturns, At, Goes, CallsInv
  <1>2. EntryIsLed'
    BY DEF LeaderReturns, At, Goes, CallsInv, EntryIsLed
  <1>3. WaitsOnItsLeader'
    BY DEF LeaderReturns, At, Goes, CallsInv, EntryIsLed, WaitsOnItsLeader, Leading
  <1>4. NoLostWakeup'
    BY DEF LeaderReturns, At, Goes, CallsInv, WaitsOnItsLeader, NoLostWakeup, Leading
  <1>. QED BY <1>1, <1>2, <1>3, <1>4

\* A dropped waiter takes no other call's waker with it.
LEMMA DropWaiterKeepsProtocol ==
  ASSUME FetchInv, NEW c \in Calls, DropWaiter(c)
  PROVE  ProtocolInv'
  <1>. USE DEF FetchInv, ProtocolInv, FetchTypeOK
  <1>1. CallsInv'
    BY DEF DropWaiter, At, Goes, CallsInv
  <1>2. EntryIsLed'
    BY DEF DropWaiter, At, Goes, CallsInv, EntryIsLed
  <1>3. WaitsOnItsLeader'
    BY DEF DropWaiter, At, Goes, CallsInv, EntryIsLed, WaitsOnItsLeader, Leading
  <1>4. NoLostWakeup'
    BY DEF DropWaiter, At, Goes, CallsInv, WaitsOnItsLeader, NoLostWakeup, Leading
  <1>. QED BY <1>1, <1>2, <1>3, <1>4

\* Every step keeps the protocol invariant: clear_cache empties the map, but a
\* flight taken out of it still belongs to its leader and its waiters.
LEMMA ProtocolStep ==
  ASSUME FetchInv, [Next]_vars
  PROVE  ProtocolInv'
  <1>1. ASSUME NEW c \in Calls, FirstPoll(c) \/ WokenPoll(c) \/ SpuriousPoll(c)
        PROVE  ProtocolInv'
    <2>1. /\ pc[c] \in {"poll", "parked"} /\ PollFinished(c) /\ PollFrame
          /\ woken' \in {woken, woken \ {c}}
      BY <1>1 DEF FirstPoll, WokenPoll, SpuriousPoll, At
    <2>. QED BY <2>1, PollKeepsProtocol
  <1>2. CASE ClearCache \/ ClockMoves \/ UNCHANGED vars
    BY <1>2 DEF ClearCache, ClockMoves, vars, callVars, FetchInv, ProtocolInv, CallsInv,
       EntryIsLed, WaitsOnItsLeader, NoLostWakeup
  <1>. QED BY <1>1, <1>2, BeginKeepsProtocol, ServeKeepsProtocol, WaitKeepsProtocol,
       LeadKeepsProtocol, ReplyKeyKeepsProtocol, ReplyFailsKeepsProtocol,
       HoldReplyKeepsProtocol, DropLeaderKeepsProtocol, RemoveEntryKeepsProtocol,
       FinishFlightKeepsProtocol, WakeOneKeepsProtocol, LeaderReturnsKeepsProtocol,
       DropWaiterKeepsProtocol DEF Next, CallsNext, Work

\* Every step keeps the invariant.
LEMMA FetchStep ==
  ASSUME FetchInv, [Next]_vars
  PROVE  FetchInv'
  <1>1. CacheInv'
    BY CacheStepOfFetch, CacheStep DEF FetchInv, ProtocolInv
  <1>. QED BY <1>1, TypeStep, ProtocolStep DEF FetchInv

-----------------------------------------------------------------------------
(***************************************************************************)
(* The theorems.                                                           *)
(***************************************************************************)

\* The invariant holds whatever the calls, the creators, the clock and
\* clear_cache do.
THEOREM FetchInvariant == Spec => []FetchInv
  BY FetchInit, FetchStep, PTL DEF Spec

\* Type correctness of the calls, the flights and the map between them.
THEOREM FetchTypeCorrect == Spec => []FetchTypeOK
  <1>1. FetchInv => FetchTypeOK
    BY DEF FetchInv
  <1>. QED BY <1>1, FetchInvariant, PTL

\* No entry of the map outlives the fetch it stands for.
THEOREM NoOrphanEntry == Spec => []EntryIsLed
  <1>1. FetchInv => EntryIsLed
    BY DEF FetchInv, ProtocolInv
  <1>. QED BY <1>1, FetchInvariant, PTL

\* A call waits only for its own URL, and on a call that waits on nobody.
THEOREM WaitersFollowLeaders == Spec => []WaitsOnItsLeader
  <1>1. FetchInv => WaitsOnItsLeader
    BY DEF FetchInv, ProtocolInv
  <1>. QED BY <1>1, FetchInvariant, PTL

\* No parked call is ever forgotten, for any number of calls and tasks.
THEOREM EveryWaiterWillBeWoken == Spec => []NoLostWakeup
  <1>1. FetchInv => NoLostWakeup
    BY DEF FetchInv, ProtocolInv
  <1>. QED BY <1>1, FetchInvariant, PTL

\* The fetch protocol does nothing to the keys the cache's specification does
\* not allow, so whatever is proved of the cache holds beside it.
THEOREM ImplementsCache == Spec => CacheSpec
  <1>1. Init => CacheInit
    BY DEF Init
  <1>2. FetchInv /\ [Next]_vars => [CacheNext]_cacheVars
    BY CacheStepOfFetch DEF FetchInv, ProtocolInv
  <1>. QED BY <1>1, <1>2, FetchInvariant, PTL DEF Spec, CacheSpec

\* Every caller of one fetch is told what its leader is told.
THEOREM OutcomeIsShared == Spec => SharesOutcome
  <1>1. ASSUME FetchInv, [Next]_vars, NEW c \in Calls,
               waits_on[c] # None, pc'[c] = "done", result'[c] # result[c]
        PROVE  result'[c] = result[waits_on[c]] /\ pc[waits_on[c]] \in {"wake", "done"}
    <2>1. pc[c] \in {"poll", "parked"} /\ waits_on[c] \in Calls
      BY <1>1 DEF FetchInv, ProtocolInv, CallsInv, WaitsOnItsLeader
    <2>2. PICK d \in Calls :
            Begin(d) \/ Work(d) \/ SpuriousPoll(d) \/ DropLeader(d) \/ DropWaiter(d)
      BY <1>1 DEF Next, CallsNext, ClearCache, ClockMoves, vars, callVars
    <2>3. d = c
      BY <1>1, <2>1, <2>2 DEF FetchInv, FetchTypeOK, Work, Begin, Serve, Wait, Lead,
         FirstPoll, WokenPoll, SpuriousPoll, ReplyKey, ReplyFails, HoldReply, RemoveEntry,
         FinishFlight, WakeOne, LeaderReturns, DropLeader, DropWaiter,
         PollFinished, At, Goes
    <2>4. PollFinished(c)
      BY <1>1, <2>1, <2>2, <2>3 DEF Work, Begin, Serve, Wait, Lead, FirstPoll, WokenPoll,
         SpuriousPoll, ReplyKey, ReplyFails, HoldReply, RemoveEntry, FinishFlight, WakeOne,
         LeaderReturns, DropLeader, DropWaiter, At
    <2>5. flight[waits_on[c]].finished /\ result'[c] = flight[waits_on[c]].outcome
      BY <1>1, <2>1, <2>4 DEF PollFinished, Goes, FetchInv, FetchTypeOK
    <2>. QED BY <2>1, <2>5, <1>1 DEF FetchInv, ProtocolInv, CallsInv, WaitsOnItsLeader
  <1>2. FetchInv /\ [Next]_vars => [OutcomeTaken]_vars
    BY <1>1 DEF OutcomeTaken
  <1>. QED BY <1>2, FetchInvariant, PTL DEF Spec, SharesOutcome

-----------------------------------------------------------------------------
(***************************************************************************)
(* A process that never clears its cache: a fetch under way always has its *)
(* entry in the map, so nobody starts a second one.                        *)
(***************************************************************************)
LedIsEntered ==
  \A c \in Calls : pc[c] \in {"request", "hold", "remove"} => in_flight[url[c]] = c

\* Without clears, every step leaves a leader's URL entered for it.
LEMMA QuietStep ==
  ASSUME FetchInv, LedIsEntered, [CallsNext]_vars
  PROVE  LedIsEntered'
  <1>. USE DEF FetchInv, ProtocolInv, FetchTypeOK, LedIsEntered
  <1>1. ASSUME NEW c \in Calls, Lead(c) PROVE LedIsEntered'
    BY <1>1, CallsAssumption DEF Lead, At, Goes, CallsInv
  <1>2. ASSUME NEW c \in Calls, RemoveEntry(c) PROVE LedIsEntered'
    BY <1>2 DEF RemoveEntry, At, Goes, CallsInv
  <1>3. ASSUME NEW c \in Calls, Begin(c) PROVE LedIsEntered'
    BY <1>3 DEF Begin, At, Goes, CallsInv
  <1>4. ASSUME NEW c \in Calls,
               \/ Serve(c) \/ Wait(c) \/ ReplyKey(c) \/ ReplyFails(c) \/ HoldReply(c)
               \/ FinishFlight(c) \/ WakeOne(c) \/ LeaderReturns(c) \/ DropLeader(c)
               \/ DropWaiter(c)
        PROVE  LedIsEntered'
    BY <1>4 DEF Serve, Wait, ReplyKey, ReplyFails, HoldReply, FinishFlight, WakeOne,
       LeaderReturns, DropLeader, DropWaiter, At, Goes
  <1>5. ASSUME NEW c \in Calls, FirstPoll(c) \/ WokenPoll(c) \/ SpuriousPoll(c)
        PROVE  LedIsEntered'
    BY <1>5 DEF FirstPoll, WokenPoll, SpuriousPoll, PollFinished, PollFrame, Goes
  <1>6. CASE ClockMoves \/ UNCHANGED vars
    BY <1>6 DEF ClockMoves, vars, callVars
  <1>. QED BY <1>1, <1>2, <1>3, <1>4, <1>5, <1>6 DEF CallsNext, Work

\* The history of the clears: set by clear_cache, and by nothing else.
LEMMA ClearedStep ==
  ASSUME [Next]_vars, ~cleared'
  PROVE  ~cleared /\ [CallsNext]_vars
  <1>1. CASE ClearCache
    BY <1>1 DEF ClearCache
  <1>2. CASE ClockMoves \/ UNCHANGED vars
    BY <1>2 DEF ClockMoves, vars, CallsNext
  <1>3. ASSUME NEW c \in Calls,
               Begin(c) \/ Work(c) \/ SpuriousPoll(c) \/ DropLeader(c) \/ DropWaiter(c)
        PROVE  ~cleared /\ [CallsNext]_vars
    BY <1>3 DEF Begin, Work, Serve, Wait, Lead, FirstPoll, WokenPoll, SpuriousPoll, PollFrame,
       ReplyKey, ReplyFails, HoldReply, RemoveEntry, FinishFlight, WakeOne, LeaderReturns,
       DropLeader, DropWaiter, CallsNext
  <1>. QED BY <1>1, <1>2, <1>3 DEF Next, CallsNext

\* Until clear_cache is called, a URL is fetched by one caller at a time, however the
\* callers' turns at the lock come between each other.
THEOREM SingleFlight == Spec => []OneFetchPerUrl
  <1>. DEFINE Inv == FetchInv /\ (~cleared => LedIsEntered)
  <1>1. Init => Inv
    BY FetchInit DEF Init, LedIsEntered
  <1>2. Inv /\ [Next]_vars => Inv'
    <2>1. ASSUME FetchInv, ~cleared => LedIsEntered, [Next]_vars, ~cleared'
          PROVE  LedIsEntered'
      BY <2>1, ClearedStep, QuietStep
    <2>. QED BY <2>1, FetchStep
  <1>3. Inv => OneFetchPerUrl
    BY DEF LedIsEntered, OneFetchPerUrl
  <1>. QED BY <1>1, <1>2, <1>3, PTL DEF Spec

-----------------------------------------------------------------------------
(***************************************************************************)
(* A creator that keeps to what it states, in a process that never clears  *)
(* its cache and whose keys fit it: what was stated once is held from then *)
(* on, so no request is made for any minute of it.                         *)
(***************************************************************************)

\* A span lies within the one given for its key.
WithinSpan(spans, end_point, pem, span) ==
  spans[<<end_point, pem>>].first <= span.first /\ span.last <= spans[<<end_point, pem>>].last

\* The creators' keys are in force one at a time, each for a span that takes in every
\* one its answers may be held for, whenever a call for it begins and an answer arrives.
KeepsToSpans(spans) ==
  /\ spans \in [EndPoints \X Pems -> [first : Int, last : Int]]
  /\ \A e \in EndPoints : \A p, q \in Pems :
       p # q => \/ spans[<<e, p>>].last < spans[<<e, q>>].first
                \/ spans[<<e, q>>].last < spans[<<e, p>>].first
  /\ \A u \in Asked : \A answer \in Answers[u] : \A began, now \in Clock :
       Holdable(u.minute, Recent(u.minute, began), answer[2][1]) =>
         WithinSpan(spans, u.end_point, answer[1],
                    SpanToHold(u.minute, answer[2][1], answer[2][2], now))

KeepsToItsStatements == \E spans : KeepsToSpans(spans)

\* The keys there may be to hold, by end point, and that there is room for them all.
Answered ==
  {name \in EndPoints \X Pems :
     \E u \in Asked : \E answer \in Answers[u] : name = <<u.end_point, answer[1]>>}

KeysFit == IsFiniteSet(Answered) /\ Cardinality(Answered) <= Limit

KeysWithin(spans) ==
  \A key \in keys : /\ <<key.end_point, key.pem>> \in Answered
                    /\ WithinSpan(spans, key.end_point, key.pem, key)

\* A key held for its whole span, as it was stated, and for all of another one.
HoldsWhole(key, end_point, first, last) ==
  key.end_point = end_point /\ key.explicit /\ key.first <= first /\ last <= key.last

\* What a call was told of a whole span is held.
WholeIsHeld(c) ==
  result[c] \in KeyAnswer /\ result[c].known /\ result[c].last < MaxMinute =>
    \E key \in keys : HoldsWhole(key, url[c].end_point, result[c].first, result[c].last)

StatedInv(spans) ==
  /\ KeysWithin(spans)
  /\ \A c \in Calls :
       /\ pc[c] = "idle" => result[c] = None
       /\ pc[c] = "hold" => reply[c] \in Answers[url[c]]
       /\ pc[c] # "idle" => \E began \in Clock : is_recent[c] = Recent(url[c].minute, began)
       /\ WholeIsHeld(c)

\* The spans of two keys have no minute in common.
LEMMA SpansApart ==
  ASSUME NEW spans, KeepsToSpans(spans), NEW e \in EndPoints, NEW p \in Pems, NEW q \in Pems,
         p # q, NEW a, NEW b, a.first \in Int, a.last \in Int, b.first \in Int, b.last \in Int,
         WithinSpan(spans, e, p, a), WithinSpan(spans, e, q, b)
  PROVE  ~Overlap(a, b)
  <1>1. spans[<<e, p>>] \in [first : Int, last : Int] /\ spans[<<e, q>>] \in [first : Int, last : Int]
    BY DEF KeepsToSpans
  <1>2. PICK pf \in Int, pl \in Int, qf \in Int, ql \in Int :
          /\ pf = spans[<<e, p>>].first /\ pl = spans[<<e, p>>].last
          /\ qf = spans[<<e, q>>].first /\ ql = spans[<<e, q>>].last
    BY <1>1
  <1>3. pl < qf \/ ql < pf
    BY <1>2 DEF KeepsToSpans
  <1>4. pf <= a.first /\ a.last <= pl /\ qf <= b.first /\ b.last <= ql
    BY <1>2 DEF WithinSpan
  <1>. QED BY <1>3, <1>4 DEF Overlap

\* A span that is widened to take in another takes in nothing that neither of them
\* has beyond its edges, and is held as stated where either is.
LEMMA WidenedWithin ==
  ASSUME NEW spans, NEW key \in SoundKeys, NEW span \in Span,
         WithinSpan(spans, key.end_point, key.pem, key),
         WithinSpan(spans, key.end_point, key.pem, span)
  PROVE  /\ WithinSpan(spans, key.end_point, key.pem, Widened(key, span))
         /\ span.explicit => HoldsWhole(Widened(key, span), key.end_point, span.first, span.last)
  <1>1. /\ key \in HeldKey /\ key.first \in Minutes /\ key.last \in Minutes
        /\ span.first \in Minutes /\ span.last \in Minutes
    BY DEF SoundKeys, Span, HeldKey
  <1>2. PICK first \in Minutes, last \in Minutes :
          /\ first = IF span.first < key.first THEN span.first ELSE key.first
          /\ last = IF span.last > key.last THEN span.last ELSE key.last
    BY <1>1
  <1>3. /\ Widened(key, span).first = first /\ Widened(key, span).last = last
        /\ Widened(key, span).explicit = (key.explicit \/ span.explicit)
        /\ Widened(key, span).end_point = key.end_point
    BY <1>1, <1>2 DEF Widened, HeldKey
  <1>4. first \in {span.first, key.first} /\ last \in {span.last, key.last}
    BY <1>2
  <1>5. first <= span.first /\ span.last <= last
    BY <1>1, <1>2 DEF Minutes
  <1>6. WithinSpan(spans, key.end_point, key.pem, Widened(key, span))
    BY <1>3, <1>4 DEF WithinSpan
  <1>. QED BY <1>3, <1>5, <1>6 DEF HoldsWhole

\* There is room for one more key where not all of them are held.
LEMMA RoomForOne ==
  ASSUME CacheInv, KeysFit, NEW name \in Answered,
         \A key \in keys : <<key.end_point, key.pem>> \in Answered \ {name}
  PROVE  held < Limit
  <1>. DEFINE named == [key \in keys |-> <<key.end_point, key.pem>>]
              others == Answered \ {name}
  <1>1. named \in Injection(keys, others)
    BY DEF Injection, IsInjective, CacheInv, OneSpanPerKey
  <1>2. IsFiniteSet(Answered) /\ IsFiniteSet(others) /\ Cardinality(others) = Cardinality(Answered) - 1
    BY FS_RemoveElement DEF KeysFit
  <1>3. Cardinality(keys) <= Cardinality(others)
    BY <1>1, <1>2, FS_Injection
  <1>4. Cardinality(keys) = held /\ held \in Nat /\ Cardinality(Answered) \in Nat
    BY <1>2, FS_CardinalityType DEF CacheInv, HeldCountsKeys, TypeOK
  <1>5. Cardinality(Answered) <= Limit
    BY DEF KeysFit
  <1>. HIDE DEF named, others
  <1>. QED BY <1>2, <1>3, <1>4, <1>5, LimitAssumption

\* Widening a key with a span of its own is never refused, and loses nothing.
LEMMA WidensWithin ==
  ASSUME CacheInv, NEW spans, KeepsToSpans(spans), KeysWithin(spans),
         NEW key \in keys, NEW span \in Span,
         WithinSpan(spans, key.end_point, key.pem, span), WidenKey(key, span)
  PROVE  /\ KeysWithin(spans)' /\ CoverageKept
         /\ span.explicit =>
              \E new \in keys' : HoldsWhole(new, key.end_point, span.first, span.last)
  <1>. DEFINE wider == Widened(key, span)
  <1>1. keys \subseteq SoundKeys /\ key \in SoundKeys
    BY DEF CacheInv, TypeOK, SoundKeys
  <1>2. WithinSpan(spans, key.end_point, key.pem, key)
    BY DEF KeysWithin
  <1>3. /\ wider \in SoundKeys /\ wider.end_point = key.end_point /\ wider.pem = key.pem
        /\ wider.first <= key.first /\ key.last <= wider.last
        /\ key.explicit => wider.explicit
    BY <1>1, WidenedFacts
  <1>4. /\ WithinSpan(spans, key.end_point, key.pem, wider)
        /\ span.explicit => HoldsWhole(wider, key.end_point, span.first, span.last)
    BY <1>1, <1>2, WidenedWithin
  <1>. HIDE DEF wider
  <1>5. ASSUME NEW other \in KeysOf(key.end_point) \ {key}
        PROVE  ~Overlap(other, wider)
    <2>1. other \in keys /\ other.end_point = key.end_point /\ other.pem # key.pem
      BY <1>5 DEF KeysOf, CacheInv, OneSpanPerKey
    <2>2. /\ other.pem \in Pems /\ key.pem \in Pems /\ key.end_point \in EndPoints
          /\ other.first \in Int /\ other.last \in Int /\ wider.first \in Int /\ wider.last \in Int
      BY <1>1, <1>3, <2>1 DEF SoundKeys, HeldKey, Minutes
    <2>3. WithinSpan(spans, key.end_point, other.pem, other)
      BY <2>1 DEF KeysWithin
    <2>. QED BY <1>4, <2>1, <2>2, <2>3, SpansApart
  <1>6. keys' = (keys \ {key}) \cup {wider}
    BY <1>5 DEF WidenKey, wider
  <1>7. KeysWithin(spans)'
    BY <1>3, <1>4, <1>6 DEF KeysWithin
  <1>8. CoverageKept
    <2>1. \A old \in keys : old.first <= old.first /\ old.last <= old.last
      BY <1>1 DEF SoundKeys, HeldKey, Minutes
    <2>. QED BY <1>3, <1>6, <2>1 DEF CoverageKept
  <1>. QED BY <1>4, <1>6, <1>7, <1>8

\* A key that is pushed has room, and a minute is never refused to it.
LEMMA PushesWithin ==
  ASSUME CacheInv, KeysFit, NEW spans, KeepsToSpans(spans), KeysWithin(spans),
         NEW end_point \in EndPoints, NEW pem \in Pems, NEW span \in Span,
         <<end_point, pem>> \in Answered, WithinSpan(spans, end_point, pem, span),
         \A key \in KeysOf(end_point) : key.pem # pem, PushKey(NewKey(end_point, pem, span))
  PROVE  /\ KeysWithin(spans)' /\ CoverageKept
         /\ span.explicit =>
              \E new \in keys' : HoldsWhole(new, end_point, span.first, span.last)
  <1>. DEFINE new == NewKey(end_point, pem, span)
  <1>1. keys \subseteq SoundKeys
    BY DEF CacheInv, TypeOK, SoundKeys
  <1>2. \A key \in keys : <<key.end_point, key.pem>> \in Answered \ {<<end_point, pem>>}
    BY DEF KeysWithin, KeysOf
  <1>3. held < Limit
    BY <1>2, RoomForOne
  <1>4. keys' = keys \cup {new}
    BY <1>3, LimitAssumption DEF PushKey, CacheInv, TypeOK
  <1>5. /\ new.end_point = end_point /\ new.pem = pem /\ new.first = span.first
        /\ new.last = span.last /\ new.explicit = span.explicit
    BY DEF NewKey
  <1>. HIDE DEF new
  <1>6. KeysWithin(spans)'
    BY <1>4, <1>5 DEF KeysWithin, WithinSpan
  <1>7. CoverageKept
    <2>1. \A old \in keys : old.first <= old.first /\ old.last <= old.last
      BY <1>1 DEF SoundKeys, HeldKey, Minutes
    <2>. QED BY <1>4, <2>1 DEF CoverageKept
  <1>8. span.first <= span.first /\ span.last <= span.last
    BY DEF Span, Minutes
  <1>9. span.explicit => HoldsWhole(new, end_point, span.first, span.last)
    BY <1>5, <1>8 DEF HoldsWhole
  <1>. QED BY <1>4, <1>6, <1>7, <1>9

\* Holding an answer of such a creator loses nothing, and holds a whole span as stated.
LEMMA HoldsWithin ==
  ASSUME CacheInv, KeysFit, NEW spans, KeepsToSpans(spans), KeysWithin(spans),
         NEW u \in Asked, NEW answer \in Answers[u], NEW began \in Clock, NEW now \in Clock,
         Hold(u.end_point, u.minute, Recent(u.minute, began),
              answer[1], answer[2][1], answer[2][2], now)
  PROVE  /\ KeysWithin(spans)' /\ CoverageKept
         /\ WholeSpan(answer[2][1], answer[2][2]) =>
              \E new \in keys' : HoldsWhole(new, u.end_point, answer[2][1], answer[2][2] - 1)
  <1>. DEFINE isRecent == Recent(u.minute, began)
              start == answer[2][1]
              end == answer[2][2]
              span == SpanToHold(u.minute, start, end, now)
  <1>1. u \in Urls /\ u.end_point \in EndPoints /\ u.minute \in OptionMinutes
    BY AskedAssumption DEF Urls
  <1>2. answer \in Pems \X Statements
    BY AnswersAssumption
  <1>3. answer[1] \in Pems /\ start \in OptionMinutes /\ end \in OptionMinutes /\ now \in Minutes
    BY <1>2, ClockAssumption DEF Statements
  <1>4. <<u.end_point, answer[1]>> \in Answered
    BY <1>1, <1>3 DEF Answered
  <1>5. WholeSpan(start, end) =>
          Holdable(u.minute, isRecent, start) /\ span.explicit /\ span.first = start /\ span.last = end - 1
    BY DEF WholeSpan, Holdable, SpanToHold
  <1>6. CASE ~Holdable(u.minute, isRecent, start)
    <2>1. UNCHANGED cacheVars /\ ~WholeSpan(start, end)
      BY <1>5, <1>6 DEF Hold
    <2>2. CoverageKept
      BY <2>1 DEF CacheInv, TypeOK, HeldKey, Minutes, CoverageKept, cacheVars
    <2>. QED BY <2>1, <2>2 DEF KeysWithin, cacheVars
  <1>7. CASE Holdable(u.minute, isRecent, start)
    <2>1. span \in Span
      BY <1>1, <1>3, <1>7, SpanToHoldType
    <2>2. WithinSpan(spans, u.end_point, answer[1], span)
      BY <1>7 DEF KeepsToSpans
    <2>3. HoldSpan(u.end_point, answer[1], span)
      BY <1>7 DEF Hold
    <2>. HIDE DEF span
    <2>4. CASE \E key \in KeysOf(u.end_point) : key.pem = answer[1] /\ WidenKey(key, span)
      <3>1. PICK key \in keys : key.end_point = u.end_point /\ key.pem = answer[1] /\ WidenKey(key, span)
        BY <2>4 DEF KeysOf
      <3>2. /\ KeysWithin(spans)' /\ CoverageKept
            /\ span.explicit =>
                 \E new \in keys' : HoldsWhole(new, key.end_point, span.first, span.last)
        BY <2>1, <2>2, <3>1, WidensWithin
      <3>. QED BY <1>5, <3>1, <3>2
    <2>5. CASE /\ \A key \in KeysOf(u.end_point) : key.pem # answer[1]
               /\ PushKey(NewKey(u.end_point, answer[1], span))
      <3>1. /\ KeysWithin(spans)' /\ CoverageKept
            /\ span.explicit =>
                 \E new \in keys' : HoldsWhole(new, u.end_point, span.first, span.last)
        BY <1>1, <1>3, <1>4, <2>1, <2>2, <2>5, PushesWithin
      <3>. QED BY <1>5, <3>1
    <2>6. ASSUME \A key \in KeysOf(u.end_point) : key.pem # answer[1],
                 NEW key \in KeysOf(u.end_point), Overlap(key, span)
          PROVE  FALSE
      <3>1. key \in keys /\ key.end_point = u.end_point /\ key.pem # answer[1] /\ key \in SoundKeys
        BY <2>6 DEF KeysOf, CacheInv, TypeOK, SoundKeys
      <3>2. /\ key.pem \in Pems /\ key.first \in Int /\ key.last \in Int
            /\ span.first \in Int /\ span.last \in Int
        BY <2>1, <3>1 DEF SoundKeys, HeldKey, Span, Minutes
      <3>3. WithinSpan(spans, u.end_point, key.pem, key)
        BY <3>1 DEF KeysWithin
      <3>. QED BY <1>1, <1>3, <2>2, <2>6, <3>1, <3>2, <3>3, SpansApart
    <2>. QED BY <2>3, <2>4, <2>5, <2>6 DEF HoldSpan
  <1>. QED BY <1>6, <1>7

\* What is held whole stays so where no coverage is lost.
LEMMA WholeStays ==
  ASSUME CacheInv, CacheInv', CoverageKept, NEW c \in Calls, WholeIsHeld(c),
         result'[c] = result[c], url'[c] = url[c]
  PROVE  WholeIsHeld(c)'
  <1>1. SUFFICES ASSUME result[c] \in KeyAnswer, result[c].known, result[c].last < MaxMinute
                 PROVE  \E key \in keys' : HoldsWhole(key, url[c].end_point, result[c].first, result[c].last)
    BY DEF WholeIsHeld
  <1>2. PICK old \in keys : HoldsWhole(old, url[c].end_point, result[c].first, result[c].last)
    BY <1>1 DEF WholeIsHeld
  <1>3. PICK new \in keys' :
          /\ new.end_point = old.end_point /\ new.first <= old.first /\ old.last <= new.last
          /\ old.explicit => new.explicit
    BY DEF CoverageKept
  <1>4. /\ old.first \in Int /\ old.last \in Int /\ new.first \in Int /\ new.last \in Int
        /\ result[c].first \in Int /\ result[c].last \in Int
    BY <1>1 DEF CacheInv, TypeOK, HeldKey, KeyAnswer, Minutes
  <1>5. HoldsWhole(new, url[c].end_point, result[c].first, result[c].last)
    BY <1>2, <1>3, <1>4 DEF HoldsWhole
  <1>. QED BY <1>5

\* A failure is no answer, and neither is nothing.
LEMMA NotAnswers ==
  None \notin KeyAnswer /\ \A failure : Failed(failure) \notin KeyAnswer
  <1>1. ASSUME NEW failure, Failed(failure) \in KeyAnswer PROVE FALSE
    <2>1. DOMAIN Failed(failure) = {"failure"} /\ DOMAIN Failed(failure) = {"pem", "first", "last", "known"}
      BY <1>1 DEF Failed, KeyAnswer
    <2>. QED BY <2>1
  <1>. QED BY <1>1, ResultAssumption

\* A held key states a whole span only where it is held for one.
LEMMA ServedWhole ==
  ASSUME NEW key \in SoundKeys, Stated(key).known, Stated(key).last < MaxMinute
  PROVE  HoldsWhole(key, key.end_point, Stated(key).first, Stated(key).last)
  <1>1. key.explicit
    BY MinutesAssumption DEF Stated, Known, Unknown, SoundKeys, HeldKey
  <1>2. Stated(key).first = key.first /\ Stated(key).last = key.last
    BY <1>1 DEF Stated, Known
  <1>3. key.first <= key.first /\ key.last <= key.last
    BY DEF SoundKeys, HeldKey, Minutes
  <1>. QED BY <1>1, <1>2, <1>3 DEF HoldsWhole

\* An answer that states a whole span has both its edges.
LEMMA StatedWhole ==
  ASSUME NEW pem, NEW start \in OptionMinutes, NEW end \in OptionMinutes,
         StatedBy(pem, start, end).known, StatedBy(pem, start, end).last < MaxMinute
  PROVE  /\ WholeSpan(start, end)
         /\ StatedBy(pem, start, end).first = start /\ StatedBy(pem, start, end).last = end - 1
  <1>1. WholeSpan(start, end)
    BY MinutesAssumption DEF StatedBy, Known, Unknown
  <1>. QED BY <1>1 DEF StatedBy, Known, WholeSpan

\* What a poll hands on is what the leader of the flight, of the same URL, was told.
LEMMA PolledWhole ==
  ASSUME FetchInv, NEW c \in Calls, pc[c] \in {"poll", "parked"}, PollFinished(c),
         \A d \in Calls : WholeIsHeld(d), UNCHANGED <<keys, url>>
  PROVE  \A d \in Calls : WholeIsHeld(d)'
  <1>. DEFINE f == waits_on[c]
  <1>1. f \in Calls /\ url[f] = url[c] /\ flight[f].finished => flight[f].outcome = result[f]
    BY DEF FetchInv, ProtocolInv, CallsInv, WaitsOnItsLeader
  <1>2. f \in Calls /\ url[f] = url[c]
    BY DEF FetchInv, ProtocolInv, WaitsOnItsLeader
  <1>3. result' = result \/ result' = [result EXCEPT ![c] = result[f]]
    BY <1>1, <1>2 DEF PollFinished
  <1>4. ASSUME NEW d \in Calls PROVE WholeIsHeld(d)'
    <2>1. result'[d] \in {result[d], result[f]} /\ (result'[d] # result[d] => d = c)
      BY <1>3 DEF FetchInv, FetchTypeOK
    <2>2. WholeIsHeld(d) /\ WholeIsHeld(f)
      BY <1>2
    <2>. QED BY <1>2, <2>1, <2>2 DEF WholeIsHeld
  <1>. QED BY <1>4

\* Every step of such a process keeps the invariant.
LEMMA StatedStep ==
  ASSUME FetchInv, FetchInv', KeysFit, NEW spans, KeepsToSpans(spans), StatedInv(spans),
         [CallsNext]_vars
  PROVE  StatedInv(spans)'
  <1>. USE DEF FetchInv, FetchTypeOK
  <1>1. ASSUME NEW c \in Calls, HoldReply(c) PROVE StatedInv(spans)'
    <2>. DEFINE start == reply[c][2][1]
                end == reply[c][2][2]
    <2>1. pc[c] = "hold" /\ url[c] \in Asked /\ reply[c] \in Answers[url[c]]
      BY <1>1 DEF HoldReply, At, ProtocolInv, CallsInv, StatedInv
    <2>2. PICK began \in Clock : is_recent[c] = Recent(url[c].minute, began)
      BY <2>1 DEF StatedInv
    <2>3. Hold(url[c].end_point, url[c].minute, Recent(url[c].minute, began),
               reply[c][1], start, end, clock)
      BY <1>1, <2>2 DEF HoldReply
    <2>4. /\ KeysWithin(spans)' /\ CoverageKept
          /\ WholeSpan(start, end) =>
               \E new \in keys' : HoldsWhole(new, url[c].end_point, start, end - 1)
      BY <2>1, <2>3, HoldsWithin DEF StatedInv
    <2>5. /\ UNCHANGED <<url, is_recent>> /\ pc' = [pc EXCEPT ![c] = "remove"]
          /\ reply' = [reply EXCEPT ![c] = None]
          /\ result' = [result EXCEPT ![c] = StatedBy(reply[c][1], start, end)]
      BY <1>1 DEF HoldReply, Goes
    <2>6. start \in OptionMinutes /\ end \in OptionMinutes
      BY <2>1, ReplyParts DEF ProtocolInv
    <2>7. WholeIsHeld(c)'
      <3>1. result'[c] = StatedBy(reply[c][1], start, end)
        BY <2>5
      <3>. HIDE DEF start, end
      <3>. QED BY <2>4, <2>5, <2>6, <3>1, StatedWhole DEF WholeIsHeld
    <2>8. ASSUME NEW d \in Calls, d # c PROVE WholeIsHeld(d)'
      BY <2>4, <2>5, <2>8, WholeStays DEF StatedInv
    <2>9. ASSUME NEW d \in Calls
          PROVE  /\ pc'[d] = "idle" => result'[d] = None
                 /\ pc'[d] = "hold" => reply'[d] \in Answers[url'[d]]
                 /\ pc'[d] # "idle" => \E time \in Clock : is_recent'[d] = Recent(url'[d].minute, time)
      <3>. HIDE DEF start, end
      <3>1. CASE d = c
        BY <2>2, <2>5, <3>1
      <3>2. CASE d # c
        BY <2>5, <3>2 DEF StatedInv
      <3>. QED BY <3>1, <3>2
    <2>. QED BY <2>4, <2>7, <2>8, <2>9 DEF StatedInv
  <1>2. ASSUME NEW c \in Calls, Begin(c) PROVE StatedInv(spans)'
    <2>1. PICK u \in Asked : url' = [url EXCEPT ![c] = u]
                             /\ is_recent' = [is_recent EXCEPT ![c] = Recent(u.minute, clock)]
      BY <1>2 DEF Begin
    <2>2. /\ pc[c] = "idle" /\ pc' = [pc EXCEPT ![c] = "turn"] /\ result[c] = None
          /\ UNCHANGED <<keys, reply, result>> /\ clock \in Clock
      BY <1>2 DEF Begin, At, Goes, StatedInv
    <2>3. ASSUME NEW d \in Calls PROVE WholeIsHeld(d)'
      BY <2>1, <2>2, NotAnswers DEF WholeIsHeld, StatedInv
    <2>. QED BY <2>1, <2>2, <2>3 DEF StatedInv, KeysWithin
  <1>3. ASSUME NEW c \in Calls, Serve(c) PROVE StatedInv(spans)'
    <2>1. PICK key \in Found(c) : result' = [result EXCEPT ![c] = Stated(key)]
      BY <1>3 DEF Serve
    <2>2. key \in keys /\ key.end_point = url[c].end_point /\ key \in SoundKeys
      BY <2>1 DEF Found, Serving, KeysOf, CacheInv, TypeOK, SoundKeys
    <2>3. /\ pc[c] = "turn" /\ pc' = [pc EXCEPT ![c] = "done"]
          /\ UNCHANGED <<keys, url, is_recent, reply>>
      BY <1>3 DEF Serve, At, Goes
    <2>4. ASSUME NEW d \in Calls PROVE WholeIsHeld(d)'
      BY <2>1, <2>2, <2>3, ServedWhole DEF WholeIsHeld, StatedInv
    <2>. QED BY <2>1, <2>3, <2>4 DEF StatedInv, KeysWithin
  <1>4. ASSUME NEW c \in Calls, FirstPoll(c) \/ WokenPoll(c) \/ SpuriousPoll(c)
        PROVE  StatedInv(spans)'
    <2>1. /\ pc[c] \in {"poll", "parked"} /\ PollFinished(c)
          /\ UNCHANGED <<keys, url, is_recent, reply>>
      BY <1>4 DEF FirstPoll, WokenPoll, SpuriousPoll, At, PollFrame
    <2>2. \A d \in Calls : WholeIsHeld(d)'
      BY <2>1, PolledWhole DEF StatedInv
    <2>3. /\ \E to \in {"done", "turn", "parked"} : pc' = [pc EXCEPT ![c] = to]
          /\ \A d \in Calls : d # c => result'[d] = result[d]
      BY <2>1 DEF PollFinished, Goes
    <2>. QED BY <2>1, <2>2, <2>3 DEF StatedInv, KeysWithin
  <1>5. ASSUME NEW c \in Calls, ReplyFails(c) PROVE StatedInv(spans)'
    <2>1. /\ pc[c] = "request" /\ pc' = [pc EXCEPT ![c] = "remove"]
          /\ UNCHANGED <<keys, url, is_recent, reply>>
          /\ \E failure : result' = [result EXCEPT ![c] = Failed(failure)]
      BY <1>5 DEF ReplyFails, At, Goes
    <2>2. ASSUME NEW d \in Calls PROVE WholeIsHeld(d)'
      BY <2>1, NotAnswers DEF WholeIsHeld, StatedInv
    <2>. QED BY <2>1, <2>2 DEF StatedInv, KeysWithin
  <1>6. ASSUME NEW c \in Calls, ReplyKey(c) PROVE StatedInv(spans)'
    <2>1. /\ pc[c] = "request" /\ pc' = [pc EXCEPT ![c] = "hold"]
          /\ UNCHANGED <<keys, url, is_recent, result>>
          /\ \E answer \in Answers[url[c]] : reply' = [reply EXCEPT ![c] = answer]
      BY <1>6 DEF ReplyKey, At, Goes
    <2>2. ASSUME NEW d \in Calls PROVE WholeIsHeld(d)'
      BY <2>1 DEF WholeIsHeld, StatedInv
    <2>. QED BY <2>1, <2>2 DEF StatedInv, KeysWithin
  <1>7. ASSUME NEW c \in Calls,
               \/ Wait(c) \/ Lead(c) \/ RemoveEntry(c) \/ FinishFlight(c) \/ WakeOne(c)
               \/ LeaderReturns(c) \/ DropLeader(c) \/ DropWaiter(c)
        PROVE  StatedInv(spans)'
    <2>1. UNCHANGED <<keys, url, is_recent, reply, result>>
      BY <1>7 DEF Wait, Lead, RemoveEntry, FinishFlight, WakeOne, LeaderReturns, DropLeader,
         DropWaiter
    <2>2. \A d \in Calls : pc'[d] = pc[d] \/ (pc'[d] \notin {"idle", "hold"} /\ pc[d] # "idle")
      BY <1>7 DEF Wait, Lead, RemoveEntry, FinishFlight, WakeOne, LeaderReturns, DropLeader,
         DropWaiter, At, Goes
    <2>3. ASSUME NEW d \in Calls PROVE WholeIsHeld(d)'
      BY <2>1 DEF WholeIsHeld, StatedInv
    <2>. QED BY <2>1, <2>2, <2>3 DEF StatedInv, KeysWithin
  <1>8. CASE ClockMoves \/ UNCHANGED vars
    <2>1. UNCHANGED <<keys, url, is_recent, reply, result, pc>>
      BY <1>8 DEF ClockMoves, vars, callVars
    <2>2. ASSUME NEW d \in Calls PROVE WholeIsHeld(d)'
      BY <2>1 DEF WholeIsHeld, StatedInv
    <2>. QED BY <2>1, <2>2 DEF StatedInv, KeysWithin
  <1>. QED BY <1>1, <1>2, <1>3, <1>4, <1>5, <1>6, <1>7, <1>8 DEF CallsNext, Work

\* Where the creators keep to what they state, their keys fit the cache and clear_cache has
\* not been called: once a call was told of a whole span, no call makes a request for a minute
\* of it, recent or not, by whichever URL, and however the calls come between each other.
THEOREM StatedSpansAreNotAskedAgain ==
  ASSUME KeepsToItsStatements, KeysFit
  PROVE  Spec => StatedSpanNeedsNoRequest
  <1>1. PICK spans : KeepsToSpans(spans)
    BY DEF KeepsToItsStatements
  <1>2. Init => FetchInv /\ StatedInv(spans)
    <2>1. ASSUME Init PROVE StatedInv(spans)
      BY <2>1, NotAnswers DEF Init, CacheInit, StatedInv, KeysWithin, WholeIsHeld
    <2>. QED BY <2>1, FetchInit
  <1>. DEFINE Inv == FetchInv /\ (~cleared => StatedInv(spans))
  <1>3. Inv /\ [Next]_vars => Inv'
    <2>1. ASSUME FetchInv, ~cleared => StatedInv(spans), [Next]_vars, ~cleared'
          PROVE  StatedInv(spans)'
      BY <1>1, <2>1, ClearedStep, FetchStep, StatedStep
    <2>. QED BY <2>1, FetchStep
  <1>4. ASSUME FetchInv, StatedInv(spans), [Next]_vars, NEW c \in Calls,
               pc[c] = "turn", pc'[c] = "request", url[c].minute # None,
               NEW d \in Calls, url[d].end_point = url[c].end_point,
               StatesWhole(result[d], url[c].minute)
        PROVE  FALSE
    <2>1. Found(c) = {}
      <3>1. PICK e \in Calls :
              Begin(e) \/ Work(e) \/ SpuriousPoll(e) \/ DropLeader(e) \/ DropWaiter(e)
        BY <1>4 DEF Next, CallsNext, ClearCache, ClockMoves, vars, callVars
      <3>2. e = c
        BY <1>4, <3>1 DEF FetchInv, FetchTypeOK, Work, Begin, Serve, Wait, Lead, FirstPoll,
           WokenPoll, SpuriousPoll, ReplyKey, ReplyFails, HoldReply, RemoveEntry, FinishFlight,
           WakeOne, LeaderReturns, DropLeader, DropWaiter, PollFinished, At, Goes
      <3>3. Serve(c) \/ Wait(c) \/ Lead(c)
        BY <1>4, <3>1, <3>2 DEF Work, Begin, FirstPoll, WokenPoll, SpuriousPoll, ReplyKey,
           ReplyFails, HoldReply, RemoveEntry, FinishFlight, WakeOne, LeaderReturns, DropLeader,
           DropWaiter, At
      <3>4. ~Serve(c)
        BY <1>4 DEF Serve, Goes, FetchInv, FetchTypeOK
      <3>. QED BY <3>3, <3>4 DEF Wait, Lead
    <2>2. PICK key \in keys :
            HoldsWhole(key, url[c].end_point, result[d].first, result[d].last)
      BY <1>4 DEF StatedInv, WholeIsHeld, StatesWhole
    <2>3. /\ url[c].minute \in Int /\ key.first \in Int /\ key.last \in Int
          /\ result[d].first \in Int /\ result[d].last \in Int
      <3>1. url[c] \in Urls
        BY <1>4, AskedAssumption DEF FetchInv, ProtocolInv, CallsInv
      <3>2. url[c].minute \in Minutes
        BY <1>4, <3>1 DEF Urls, OptionMinutes
      <3>. QED BY <1>4, <3>2 DEF StatesWhole, KeyAnswer, FetchInv, CacheInv, TypeOK, HeldKey, Minutes
    <2>4. result[d].first <= url[c].minute /\ url[c].minute <= result[d].last
      BY <1>4 DEF StatesWhole
    <2>5. Covers(key, url[c].minute)
      BY <2>2, <2>3, <2>4 DEF Covers, HoldsWhole
    <2>6. key \in Found(c)
      BY <1>4, <2>2, <2>5 DEF Found, Serving, KeysOf, HoldsWhole
    <2>. QED BY <2>1, <2>6
  <1>. DEFINE Asks ==
         ~cleared => \A c \in Calls : pc[c] = "turn" /\ pc'[c] = "request" /\ url[c].minute # None =>
           ~ \E d \in Calls : /\ url[d] # None
                              /\ url[d].end_point = url[c].end_point
                              /\ StatesWhole(result[d], url[c].minute)
  <1>5. Inv /\ [Next]_vars => [Asks]_vars
    BY <1>4
  <1>6. Init => Inv
    BY <1>2
  <1>. QED BY <1>3, <1>5, <1>6, PTL DEF Spec, StatedSpanNeedsNoRequest
=============================================================================
