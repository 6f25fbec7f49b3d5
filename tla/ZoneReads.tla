----------------------------- MODULE ZoneReads -----------------------------
(***************************************************************************)
(* What DNSCache.GetRecords promises the query handlers of one DNS server, *)
(* without a word about how it keeps the promise: every answer is the      *)
(* whole record set of the zone at one moment, identified by its version,  *)
(* or the error of the read; it is not from the future, and not older than *)
(* any answer sent before the query arrived.  Several queries may be       *)
(* answered in one step: the callers of a shared singleflight call are.    *)
(***************************************************************************)
EXTENDS Naturals

CONSTANTS Zones, Queries, None, Failed

VARIABLES
    rows,      \* rows[z]: version of z's record set in the database
    served,    \* served[z]: newest version sent in a response
    pc,        \* pc[q] \in {"idle", "asked", "answered"}
    asked,     \* asked[q]: the zone q asks for
    floor,     \* floor[q]: no answer to q may be older than this
    answer     \* answer[q]: a version, or Failed

vars == <<rows, served, pc, asked, floor, answer>>

Init ==
    /\ rows = [z \in Zones |-> 0]
    /\ served = [z \in Zones |-> 0]
    /\ pc = [q \in Queries |-> "idle"]
    /\ asked = [q \in Queries |-> None]
    /\ floor = [q \in Queries |-> 0]
    /\ answer = [q \in Queries |-> None]

\* The database moves on to the next version of z's record set.
Commit(z) ==
    /\ rows' = [rows EXCEPT ![z] = @ + 1]
    /\ UNCHANGED <<served, pc, asked, floor, answer>>

\* A query arrives.  It may be promised more than what was served before.
Ask(q, z) ==
    /\ pc[q] = "idle"
    /\ pc' = [pc EXCEPT ![q] = "asked"]
    /\ asked' = [asked EXCEPT ![q] = z]
    /\ \E v \in served[z] .. rows[z] : floor' = [floor EXCEPT ![q] = v]
    /\ UNCHANGED <<rows, served, answer>>

\* The queries of S, all about z, get the same answer.
Answer(S, z, a) ==
    /\ \A q \in S : pc[q] = "asked" /\ asked[q] = z
    /\ a # Failed => a \in 0 .. rows[z] /\ \A q \in S : floor[q] <= a
    /\ pc' = [q \in Queries |-> IF q \in S THEN "answered" ELSE pc[q]]
    /\ answer' = [q \in Queries |-> IF q \in S THEN a ELSE answer[q]]
    /\ UNCHANGED <<rows, served, asked, floor>>

\* The response goes out: later queries may rely on it.
Send(q) ==
    LET z == asked[q] IN
    /\ pc[q] = "answered"
    /\ pc' = [pc EXCEPT ![q] = "idle"]
    /\ asked' = [asked EXCEPT ![q] = None]
    /\ floor' = [floor EXCEPT ![q] = 0]
    /\ answer' = [answer EXCEPT ![q] = None]
    /\ served' = [served EXCEPT
                    ![z] = IF answer[q] # Failed /\ answer[q] > @ THEN answer[q] ELSE @]
    /\ UNCHANGED rows

Next ==
    \/ \E z \in Zones : Commit(z)
    \/ \E q \in Queries : Send(q) \/ \E z \in Zones : Ask(q, z)
    \/ \E S \in SUBSET Queries, z \in Zones :
          \E a \in (0 .. rows[z]) \cup {Failed} : Answer(S, z, a)

Spec == Init /\ [][Next]_vars
=============================================================================
