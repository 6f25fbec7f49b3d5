----------------------------- MODULE ReactQuery -----------------------------
(***************************************************************************)
(* What the pages use of @tanstack/react-query: one query as its page sees *)
(* it, under the library's defaults (data is stale at once; it is fetched  *)
(* when the page mounts, when the window gets the focus and when it is     *)
(* invalidated; a fetch ends after its retries).  The library is external: *)
(* these definitions are what the pages rely on.                           *)
(*                                                                         *)
(* A query is the data it holds, with the moment `at' of the database they *)
(* are of, and its fetches in flight: the code never has two.  A retry     *)
(* reads anew, so that a fetch reads once, in the attempt that succeeds.   *)
(***************************************************************************)
EXTENDS Naturals

CONSTANT None

NewFetch == [output |-> None, at |-> 0]

\* The query of a page that mounts: its client is new and its cache empty.
NewQuery == [data |-> None, at |-> 0, fetches |-> {NewFetch}]

\* A page without a query.
NoQuery == [data |-> None, at |-> 0, fetches |-> {}]

Idle(q) == q.fetches = {}

\* invalidateQueries during the first load joins it: only a fetch of a query
\* that has data is cancelled, its answer dropped, and started again.
Joins(q) == ~Idle(q) /\ q.data = None

Invalidated(q) == IF Joins(q) THEN q ELSE [q EXCEPT !.fetches = {NewFetch}]

\* A focused window starts a fetch unless one is in flight.
Focused(q) == IF Idle(q) THEN [q EXCEPT !.fetches = {NewFetch}] ELSE q

\* The server answers fetch f with the response r as of the moment n.
Answered(q, f, r, n) ==
    [q EXCEPT !.fetches = (@ \ {f}) \cup {[output |-> r, at |-> n]}]

\* Its answer arrives and becomes the data.
Settled(q, f) == [data |-> f.output, at |-> f.at, fetches |-> q.fetches \ {f}]

\* It fails for the last time; the data stay.
GivenUp(q, f) == [q EXCEPT !.fetches = @ \ {f}]
=============================================================================
