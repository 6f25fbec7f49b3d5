---------------------------- MODULE RecordCache ----------------------------
(***************************************************************************)
(* The record cache of one DNS server process, backend/internal/dns/       *)
(* cache.go, as the query handlers of server.go use it: goroutines that    *)
(* look a zone up, miss, and share one database read per zone through      *)
(* singleflight, while the API commits changes to the zone's records and   *)
(* announces each one, and the subscriber of server.go drops the zone's    *)
(* entry when an announcement arrives.                                     *)
(*                                                                         *)
(* The record set of a zone is abstracted to a version number: every       *)
(* commit makes a new one.  What the code can tell of a record set is      *)
(* whether it is empty, so the versions at which a zone has no record are  *)
(* kept in vacant.                                                         *)
(***************************************************************************)
EXTENDS Naturals

CONSTANTS
    Zones,        \* zone names
    Queries,      \* goroutines of the DNS server that answer queries
    None,         \* no cache entry, no result yet
    Failed,       \* the error a database read returns
    MaxVersion    \* bound: commits per zone that the model explores

ASSUME SentinelsAssumption ==
    /\ None \notin Nat
    /\ Failed \notin Nat
    /\ None # Failed

ASSUME MaxVersionAssumption == MaxVersion \in Nat

VARIABLES
    rows,         \* rows[z]: version of z's record set in the database
    vacant,       \* vacant[z]: versions at which z has no record
    outstanding,  \* outstanding[z]: versions whose announcement is on its way
    cache,        \* cache[z]: version held by the LRU cache, or None
    stage,        \* stage[z]: where the singleflight call for z is
    held,         \* held[z]: what that call has obtained so far
    pc,           \* pc[q]: where goroutine q is
    asked,        \* asked[q]: the zone q looks up
    answer        \* answer[q]: what GetRecords returned to q

\* History variables: they record what happened and guard nothing.
VARIABLES
    lost,         \* lost[z]: versions whose announcement nobody heard
    overtaken,    \* overtaken[z]: versions whose announcement came while a
                  \* call held rows older than the version
    served,       \* served[z]: newest version a finished query has returned
    floor         \* floor[q]: the oldest answer q may get, fixed on arrival

database == <<rows, vacant>>
bus      == <<outstanding, lost, overtaken>>
calls    == <<stage, held>>
queries  == <<pc, asked, answer, floor, served>>
vars     == <<database, bus, cache, calls, queries>>

Stages == {"idle", "recheck", "read", "add", "return"}
PCs    == {"idle", "arrived", "joining", "waiting", "answered"}

TypeOK ==
    /\ rows \in [Zones -> Nat]
    /\ vacant \in [Zones -> SUBSET Nat]
    /\ outstanding \in [Zones -> SUBSET Nat]
    /\ lost \in [Zones -> SUBSET Nat]
    /\ overtaken \in [Zones -> SUBSET Nat]
    /\ cache \in [Zones -> Nat \cup {None}]
    /\ stage \in [Zones -> Stages]
    /\ held \in [Zones -> Nat \cup {None, Failed}]
    /\ pc \in [Queries -> PCs]
    /\ asked \in [Queries -> Zones \cup {None}]
    /\ answer \in [Queries -> Nat \cup {None, Failed}]
    /\ floor \in [Queries -> Nat]
    /\ served \in [Zones -> Nat]

\* A DNS server starts with an empty cache over whatever the database holds.
Init ==
    /\ rows = [z \in Zones |-> 0]
    /\ vacant \in [Zones -> {{}, {0}}]
    /\ outstanding = [z \in Zones |-> {}]
    /\ lost = [z \in Zones |-> {}]
    /\ overtaken = [z \in Zones |-> {}]
    /\ cache = [z \in Zones |-> None]
    /\ stage = [z \in Zones |-> "idle"]
    /\ held = [z \in Zones |-> None]
    /\ pc = [q \in Queries |-> "idle"]
    /\ asked = [q \in Queries |-> None]
    /\ answer = [q \in Queries |-> None]
    /\ floor = [q \in Queries |-> 0]
    /\ served = [z \in Zones |-> 0]

-----------------------------------------------------------------------------
(* The API and the event channel, as this process sees them.               *)

\* A handler of the API commits a change to z's records; the goroutine it
\* then starts will announce the change.  The new set may be empty.
Commit(z) ==
    /\ rows[z] < MaxVersion
    /\ rows' = [rows EXCEPT ![z] = @ + 1]
    /\ \/ UNCHANGED vacant
       \/ vacant' = [vacant EXCEPT ![z] = @ \cup {rows[z] + 1}]
    /\ outstanding' = [outstanding EXCEPT ![z] = @ \cup {rows[z] + 1}]
    /\ UNCHANGED <<lost, overtaken, cache, calls, queries>>

\* The announcement of version v of z never reaches the subscriber: the API
\* process died before publishing, the publish failed (it is only logged), or
\* the subscription was down.  Redis keeps nothing for absent subscribers.
Lose(z, v) ==
    /\ v \in outstanding[z]
    /\ outstanding' = [outstanding EXCEPT ![z] = @ \ {v}]
    /\ lost' = [lost EXCEPT ![z] = @ \cup {v}]
    /\ UNCHANGED <<overtaken, database, cache, calls, queries>>

\* A call for z has read rows older than v and has yet to store them.
Overtakes(z, v) == stage[z] = "add" /\ held[z] < v

\* Mutant: the announcement is consumed but the entry stays.
InvalidateNothing(z, v) ==
    /\ v \in outstanding[z]
    /\ outstanding' = [outstanding EXCEPT ![z] = @ \ {v}]
    /\ overtaken' = [overtaken EXCEPT ![z] = IF Overtakes(z, v) THEN @ \cup {v} ELSE @]
    /\ UNCHANGED <<lost, database, cache, calls, queries>>

\* The subscriber receives the announcement and drops the entry.  The
\* publishing goroutines are not ordered, so neither are the announcements.
InvalidateCache(z, v) ==
    /\ v \in outstanding[z]
    /\ outstanding' = [outstanding EXCEPT ![z] = @ \ {v}]
    /\ cache' = [cache EXCEPT ![z] = None]
    /\ overtaken' = [overtaken EXCEPT ![z] = IF Overtakes(z, v) THEN @ \cup {v} ELSE @]
    /\ UNCHANGED <<lost, database, calls, queries>>

\* Mutant: the cache is made without a time to live.
ExpireNever(z) == cache[z] \notin Nat \cup {None} /\ UNCHANGED vars

\* The entry of z reaches its age of 30 minutes, or is evicted for room.
Expire(z) ==
    /\ cache[z] # None
    /\ cache' = [cache EXCEPT ![z] = None]
    /\ UNCHANGED <<database, bus, calls, queries>>

-----------------------------------------------------------------------------
(* GetRecords, run by the goroutine of each query.                         *)

\* A query about z arrives and its handler starts.  What it may be told is
\* bounded by what was served before, and by the database itself when the
\* process holds nothing of the zone.
Arrive(q, z) ==
    /\ pc[q] = "idle"
    /\ pc' = [pc EXCEPT ![q] = "arrived"]
    /\ asked' = [asked EXCEPT ![q] = z]
    /\ floor' = [floor EXCEPT ![q] = IF cache[z] = None /\ held[z] = None
                                     THEN rows[z] ELSE served[z]]
    /\ UNCHANGED <<database, bus, cache, calls, answer, served>>

\* The first look at the cache: a hit is the answer.
Lookup(q) ==
    /\ pc[q] = "arrived"
    /\ IF cache[asked[q]] # None
       THEN /\ pc' = [pc EXCEPT ![q] = "answered"]
            /\ answer' = [answer EXCEPT ![q] = cache[asked[q]]]
       ELSE /\ pc' = [pc EXCEPT ![q] = "joining"]
            /\ UNCHANGED answer
    /\ UNCHANGED <<database, bus, cache, calls, asked, floor, served>>

\* group.Do: the first goroutine to miss opens the call for the zone, those
\* that come while it is open wait for its result.
Join(q) ==
    LET z == asked[q] IN
    /\ pc[q] = "joining"
    /\ pc' = [pc EXCEPT ![q] = "waiting"]
    /\ stage' = [stage EXCEPT ![z] = IF @ = "idle" THEN "recheck" ELSE @]
    /\ UNCHANGED <<database, bus, cache, held, asked, answer, floor, served>>

\* Mutant: the double check is dropped.
RecheckNothing(z) ==
    /\ stage[z] = "recheck"
    /\ stage' = [stage EXCEPT ![z] = "read"]
    /\ UNCHANGED <<database, bus, cache, held, queries>>

\* The call looks at the cache again before it reads the database.
Recheck(z) ==
    /\ stage[z] = "recheck"
    /\ IF cache[z] # None
       THEN /\ stage' = [stage EXCEPT ![z] = "return"]
            /\ held' = [held EXCEPT ![z] = cache[z]]
       ELSE /\ stage' = [stage EXCEPT ![z] = "read"]
            /\ UNCHANGED held
    /\ UNCHANGED <<database, bus, cache, queries>>

\* Mutant: the error of the read is not returned but stored like a result.
ReadIgnoringError(z) ==
    /\ stage[z] = "read"
    /\ held' \in {[held EXCEPT ![z] = r] : r \in {rows[z], Failed}}
    /\ stage' = [stage EXCEPT ![z] = "add"]
    /\ UNCHANGED <<database, bus, cache, queries>>

\* The call reads all records of the zone, or fails to.
Read(z) ==
    /\ stage[z] = "read"
    /\ \/ /\ held' = [held EXCEPT ![z] = rows[z]]
          /\ stage' = [stage EXCEPT ![z] = "add"]
       \/ /\ held' = [held EXCEPT ![z] = Failed]
          /\ stage' = [stage EXCEPT ![z] = "return"]
    /\ UNCHANGED <<database, bus, cache, queries>>

\* The call stores what it read, unless it read no record.
Add(z) ==
    /\ stage[z] = "add"
    /\ stage' = [stage EXCEPT ![z] = "return"]
    /\ cache' = [cache EXCEPT ![z] = IF held[z] \in vacant[z] THEN @ ELSE held[z]]
    /\ UNCHANGED <<database, bus, held, queries>>

\* Mutant: the result is sent to a single waiter, not broadcast.
ReturnToOne(z) ==
    /\ stage[z] = "return"
    /\ stage' = [stage EXCEPT ![z] = "idle"]
    /\ held' = [held EXCEPT ![z] = None]
    /\ \E q \in Queries :
          /\ pc[q] = "waiting" /\ asked[q] = z
          /\ pc' = [pc EXCEPT ![q] = "answered"]
          /\ answer' = [answer EXCEPT ![q] = held[z]]
    /\ UNCHANGED <<database, bus, cache, asked, floor, served>>

\* The call ends: in one critical section of singleflight its entry goes and
\* every goroutine that waits for it is released with the shared result.
Return(z) ==
    LET released == {q \in Queries : pc[q] = "waiting" /\ asked[q] = z} IN
    /\ stage[z] = "return"
    /\ stage' = [stage EXCEPT ![z] = "idle"]
    /\ held' = [held EXCEPT ![z] = None]
    /\ pc' = [q \in Queries |-> IF q \in released THEN "answered" ELSE pc[q]]
    /\ answer' = [q \in Queries |-> IF q \in released THEN held[z] ELSE answer[q]]
    /\ UNCHANGED <<database, bus, cache, asked, floor, served>>

\* The handler writes its response; the goroutine is free for another query.
Reply(q) ==
    LET z == asked[q] IN
    /\ pc[q] = "answered"
    /\ pc' = [pc EXCEPT ![q] = "idle"]
    /\ asked' = [asked EXCEPT ![q] = None]
    /\ answer' = [answer EXCEPT ![q] = None]
    /\ floor' = [floor EXCEPT ![q] = 0]
    /\ served' = [served EXCEPT
                    ![z] = IF answer[q] # Failed /\ answer[q] > @ THEN answer[q] ELSE @]
    /\ UNCHANGED <<database, bus, cache, calls>>

-----------------------------------------------------------------------------
Call(z) == Recheck(z) \/ Read(z) \/ Add(z) \/ Return(z)

Handler(q) == Lookup(q) \/ Join(q) \/ Reply(q)

Announcement(z) == \E v \in outstanding[z] : Lose(z, v) \/ InvalidateCache(z, v)

Next ==
    \/ \E z \in Zones : Commit(z) \/ Announcement(z) \/ Expire(z) \/ Call(z)
    \/ \E q \in Queries : Handler(q) \/ \E z \in Zones : Arrive(q, z)

Spec == Init /\ [][Next]_vars

(***************************************************************************)
(* Goroutines run: a handler and an open call take their next step (a read *)
(* of the database ends, with rows or with an error).  An entry lives at   *)
(* most 30 minutes.  Nothing makes a query arrive, the API commit, or an   *)
(* announcement get through.                                               *)
(***************************************************************************)
Fairness ==
    /\ \A q \in Queries : WF_vars(Handler(q))
    /\ \A z \in Zones : WF_vars(Call(z)) /\ WF_vars(Expire(z))

FairSpec == Spec /\ Fairness

-----------------------------------------------------------------------------
(* Properties                                                              *)

\* A cached record set that the database has moved past is never stale in
\* silence: every version it lacks is still to be announced, or its
\* announcement was lost, or overtook the call that stored the entry
\* (GetRecords against the subscriber's InvalidateCache).
NoSilentStaleness ==
    \A z \in Zones : cache[z] # None =>
        \A v \in (cache[z] + 1) .. rows[z] :
            v \in outstanding[z] \cup lost[z] \cup overtaken[z]

\* Time never runs backwards for the clients of one DNS server: GetRecords
\* answers with nothing older than an answer already sent when the query came,
\* nor, if the server then held nothing of the zone, than the database was.
MonotonicReads ==
    \A q \in Queries : pc[q] = "answered" /\ answer[q] # Failed =>
        answer[q] >= floor[q]

\* No wakeup is lost: a goroutine waits in group.Do only while the call it
\* waits for is open.
WaitersHaveACall ==
    \A q \in Queries : pc[q] = "waiting" => stage[asked[q]] # "idle"

\* Every query is answered, whatever the API commits, whichever reads fail and
\* however many goroutines share a call (GetRecords returns).
EveryQueryIsAnswered ==
    \A q \in Queries : pc[q] = "arrived" ~> pc[q] = "idle"

\* Once the API stops changing records the cache converges to the database,
\* even if every announcement was lost: no entry outlives its 30 minutes and no
\* call that began after the last change stores old rows.
EventuallyCurrent ==
    <>[][\A z \in Zones : ~Commit(z)]_vars
        => <>[](\A z \in Zones : cache[z] \in {None, rows[z]})

\* README.md:33, "Real-time Updates - See DNS changes instantly across all your
\* infrastructure": once every change of a zone has been announced and no
\* announcement was lost, the server no longer holds older records.
RealTimeUpdates ==
    \A z \in Zones :
        outstanding[z] \cup lost[z] = {} /\ cache[z] # None => cache[z] = rows[z]

-----------------------------------------------------------------------------
(* The inductive invariant behind NoSilentStaleness and MonotonicReads.    *)

\* The process can no longer hand out rows of z older than v.
Settled(z, v) ==
    /\ v <= rows[z]
    /\ cache[z] # None => v <= cache[z]
    /\ held[z] \in Nat => v <= held[z]

\* While a call may store rows nothing else is cached, and what a call is
\* about to return is what it cached.
CallOK(z) ==
    /\ stage[z] \in {"idle", "recheck", "read"} <=> held[z] = None
    /\ stage[z] = "add" => held[z] \in Nat
    /\ stage[z] \in {"read", "add"} => cache[z] = None
    /\ stage[z] = "return" /\ cache[z] # None => held[z] = cache[z]

\* Nothing comes from the future, and nothing held is older than served.
VersionsOK(z) ==
    /\ cache[z] # None => cache[z] <= rows[z]
    /\ held[z] \in Nat => held[z] <= rows[z]
    /\ Settled(z, served[z])

\* Every version after r is to be announced, lost or overtaken.
Explained(z, r) ==
    \A v \in (r + 1) .. rows[z] : v \in outstanding[z] \cup lost[z] \cup overtaken[z]

StalenessOK(z) ==
    /\ cache[z] # None => Explained(z, cache[z])
    /\ stage[z] = "add" => Explained(z, held[z])

QueryOK(q) ==
    /\ pc[q] # "idle" => asked[q] \in Zones
    /\ pc[q] = "waiting" => stage[asked[q]] # "idle"
    /\ pc[q] \in {"arrived", "joining", "waiting"} => Settled(asked[q], floor[q])
    /\ pc[q] = "answered" =>
          /\ answer[q] # None
          /\ answer[q] # Failed => floor[q] <= answer[q] /\ Settled(asked[q], answer[q])

Inv ==
    /\ TypeOK
    /\ \A z \in Zones : CallOK(z) /\ VersionsOK(z) /\ StalenessOK(z)
    /\ \A q \in Queries : QueryOK(q)

-----------------------------------------------------------------------------
\* What GetRecords promises its callers, whatever the cache does inside.
Reads == INSTANCE ZoneReads WITH
    pc <- [q \in Queries |-> IF pc[q] \in {"idle", "answered"} THEN pc[q] ELSE "asked"]

ImplementsZoneReads == Reads!Spec
=============================================================================
