----------------------------- MODULE QueryCache -----------------------------
(* One entry of the client's query cache, as frontend/src uses it: the query   *)
(* library's reducer and its rules for when a query is fetched (external,      *)
(* modelled from the options the hooks of frontend/src/api pass).  What is     *)
(* computed by the server is a value; data and answer hold at most one.        *)
EXTENDS FiniteSets

\* An entry that nothing was asked for yet.  fetch is where the request is:
\* idle, asked (the server has not computed the answer), answered (the answer
\* is under way) or paused (the browser is offline).
NoEntry == [data |-> {}, error |-> FALSE, invalid |-> FALSE, fetch |-> "idle", answer |-> {}]

Entries(values) ==
    LET held == {{}} \cup {{v} : v \in values}
    IN  [data : held, error : BOOLEAN, invalid : BOOLEAN,
         fetch : {"idle", "asked", "answered", "paused"}, answer : held]

\* A request starts, or waits for the browser to be online.  An entry that has
\* no data forgets its error.
Ask(q, online) ==
    [q EXCEPT !.fetch = IF online THEN "asked" ELSE "paused",
              !.answer = {},
              !.error = q.error /\ q.data # {}]

\* The hooks' staleTime is Infinity, or 0 where none is given: an entry is due
\* when it has no data, was invalidated, or is stale at once.
Due(q, staleAtOnce) == q.data = {} \/ q.invalid \/ staleAtOnce

\* A component mounts, the window is focused, or the browser comes online.
AskIfDue(q, staleAtOnce, online) ==
    IF q.fetch = "idle" /\ Due(q, staleAtOnce) THEN Ask(q, online) ELSE q

\* invalidateQueries: an entry no mounted component observes is only flagged; a
\* request for one that has data is started anew, and one that loads for the
\* first time keeps the request it has.
Invalidate(q, observed, online) ==
    LET flagged == [q EXCEPT !.invalid = TRUE]
    IN  IF observed /\ (q.fetch = "idle" \/ q.data # {}) THEN Ask(flagged, online) ELSE flagged

\* The server computes the answer.
Compute(q, value) == [q EXCEPT !.fetch = "answered", !.answer = {value}]

\* The answer arrives.
Settle(q) ==
    [q EXCEPT !.data = q.answer, !.error = FALSE, !.invalid = FALSE,
              !.fetch = "idle", !.answer = {}]

\* The retries are used up: what data there is stays, flagged.
Fail(q) == [q EXCEPT !.error = TRUE, !.invalid = TRUE, !.fetch = "idle", !.answer = {}]

\* setQueryData: a request under way goes on.
SetData(q, value) == [q EXCEPT !.data = {value}, !.error = FALSE, !.invalid = FALSE]

\* useQuery's isLoading: a first load under way, not one that is paused.
IsLoading(q) == q.fetch \in {"asked", "answered"} /\ q.data = {}
=============================================================================
