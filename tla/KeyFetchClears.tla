--------------------------- MODULE KeyFetchClears ---------------------------
(***************************************************************************)
(* KeyFetch with the clears of the cache counted, so that what clear_cache *)
(* promises about the callers that come after it can be stated.            *)
(***************************************************************************)
EXTENDS KeyFetch

CONSTANT MaxClears   \* bound on the clears counted

VARIABLES
  clears,   \* how many times clear_cache has been called
  asked_in, \* for each call, the number of clears when it began its fetch
  carried   \* keys put in the cache by a fetch begun before the last clear

clearsVars == <<vars, clears, asked_in, carried>>

ClearsInit ==
  /\ Init
  /\ clears = 0
  /\ asked_in = [c \in Calls |-> 0]
  /\ carried = {}

CountedClear ==
  /\ clears < MaxClears
  /\ ClearCache
  /\ clears' = clears + 1
  /\ carried' = {}
  /\ UNCHANGED asked_in

\* The keys new in the cache that a fetch begun before the last clear brings.
NewlyCarried ==
  {key \in keys' \ keys :
     \E c \in Calls : pc[c] = "hold" /\ pc'[c] = "remove" /\ asked_in[c] < clears}

CountedCall ==
  /\ CallsNext
  /\ asked_in' = [c \in Calls |-> IF pc[c] = "turn" /\ pc'[c] = "request"
                                  THEN clears ELSE asked_in[c]]
  /\ carried' = (carried \cap keys') \cup NewlyCarried
  /\ UNCHANGED clears

ClearsSpec == ClearsInit /\ [][CountedCall \/ CountedClear]_clearsVars

-----------------------------------------------------------------------------
\* "A caller that asks for a key while another caller is already fetching it
\* waits for that fetch rather than starting a second" (src/src/fetch.rs:44),
\* for the callers that come after the last clear: two fetches of a URL both
\* begun since then are never under way together.
OneFetchSinceClear ==
  \A c, d \in Calls :
    /\ pc[c] \in {"request", "hold", "remove"} /\ asked_in[c] = clears
    /\ pc[d] \in {"request", "hold", "remove"} /\ asked_in[d] = clears
    /\ url[c] = url[d]
    => c = d

\* "Only what is held is dropped, so a caller arriving afterwards starts a fresh
\* request" (src/src/fetch.rs:450): a caller is never answered from the cache
\* with a key whose fetch began before the last clear.
ServedOnlyFreshKeys ==
  [][\A c \in Calls : pc[c] = "turn" /\ pc'[c] = "done" => Found(c) \cap carried = {}]_clearsVars
=============================================================================
