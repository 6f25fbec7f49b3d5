------------------------- MODULE RecordCacheProofs -------------------------
(***************************************************************************)
(* Proofs about RecordCache, for any sets of zones and goroutines and any  *)
(* bound on the number of commits: Inv is inductive, and the safety        *)
(* properties follow from it.  One lemma per action, with one step per     *)
(* conjunct of Inv.                                                        *)
(***************************************************************************)
EXTENDS RecordCache, TLAPS

\* The initial states satisfy the invariant.
LEMMA InitInv == Init => Inv
<1> SUFFICES ASSUME Init PROVE Inv
  OBVIOUS
<1> USE DEF Init, database, bus, calls, queries
<1>1. TypeOK
  BY SentinelsAssumption DEF TypeOK, Stages, PCs
<1>2. ASSUME NEW z \in Zones PROVE CallOK(z) /\ VersionsOK(z) /\ StalenessOK(z)
  BY SentinelsAssumption DEF CallOK, VersionsOK, StalenessOK, Settled
<1>3. ASSUME NEW q \in Queries PROVE QueryOK(q)
  BY DEF QueryOK
<1> QED
  BY <1>1, <1>2, <1>3 DEF Inv

\* A commit adds one version to the database, and its announcement to the bus:
\* what explained an old entry still does, and the new version is outstanding.
LEMMA CommitInv ==
  ASSUME Inv, NEW z \in Zones, Commit(z) PROVE Inv'
<1> USE DEF Inv, Commit, database, bus, calls, queries
<1>1. TypeOK'
  BY DEF TypeOK
<1>2. ASSUME NEW y \in Zones PROVE (CallOK(y) /\ VersionsOK(y) /\ StalenessOK(y))'
  <2>1. CallOK(y)'
    BY DEF CallOK
  <2>2. VersionsOK(y)'
    BY SentinelsAssumption DEF VersionsOK, Settled, TypeOK
  <2>3. StalenessOK(y)'
    <3>1. ASSUME NEW r \in Nat, Explained(y, r) PROVE Explained(y, r)'
      <4> SUFFICES ASSUME NEW v \in (r + 1) .. rows'[y]
                   PROVE  v \in (outstanding[y] \cup lost[y] \cup overtaken[y])'
        BY DEF Explained
      <4>1. CASE y = z /\ v = rows[z] + 1
        BY <4>1 DEF TypeOK
      <4>2. CASE ~(y = z /\ v = rows[z] + 1)
        <5>1. v \in (r + 1) .. rows[y]
          BY <4>2 DEF TypeOK
        <5> QED
          BY <3>1, <5>1 DEF Explained, TypeOK
      <4> QED
        BY <4>1, <4>2
    <3>2. UNCHANGED <<cache, stage, held>>
      OBVIOUS
    <3>3. cache[y] # None => cache[y] \in Nat
      BY DEF TypeOK
    <3> QED
      BY <3>1, <3>2, <3>3 DEF StalenessOK, CallOK
  <2> QED BY <2>1, <2>2, <2>3
<1>3. ASSUME NEW q \in Queries PROVE QueryOK(q)'
  BY SentinelsAssumption DEF QueryOK, Settled, TypeOK
<1> QED
  BY <1>1, <1>2, <1>3

\* A lost announcement moves from outstanding to lost and still explains.
LEMMA LoseInv ==
  ASSUME Inv, NEW z \in Zones, NEW n \in outstanding[z], Lose(z, n) PROVE Inv'
<1> USE SentinelsAssumption DEF Inv, Lose, database, bus, calls, queries
<1>1. TypeOK'
  BY DEF TypeOK
<1>2. ASSUME NEW y \in Zones PROVE (CallOK(y) /\ VersionsOK(y) /\ StalenessOK(y))'
  <2>1. CallOK(y)'
    BY DEF CallOK, TypeOK, QueryOK
  <2>2. VersionsOK(y)'
    BY DEF VersionsOK, Settled, TypeOK, CallOK, QueryOK
  <2>3. StalenessOK(y)'
    BY DEF StalenessOK, Explained, TypeOK, CallOK
  <2> QED BY <2>1, <2>2, <2>3
<1>3. ASSUME NEW q \in Queries PROVE QueryOK(q)'
  BY DEF QueryOK, Settled, TypeOK, CallOK, VersionsOK, PCs
<1> QED
  BY <1>1, <1>2, <1>3

\* The entry goes, and an open call that holds older rows is overtaken.
LEMMA InvalidateCacheInv ==
  ASSUME Inv, NEW z \in Zones, NEW n \in outstanding[z], InvalidateCache(z, n) PROVE Inv'
<1> USE SentinelsAssumption DEF Inv, InvalidateCache, database, bus, calls, queries
<1>1. TypeOK'
  BY DEF TypeOK
<1>2. ASSUME NEW y \in Zones PROVE (CallOK(y) /\ VersionsOK(y) /\ StalenessOK(y))'
  <2>1. CallOK(y)'
    BY DEF CallOK, TypeOK, QueryOK
  <2>2. VersionsOK(y)'
    BY DEF VersionsOK, Settled, TypeOK, CallOK, QueryOK
  <2>3. StalenessOK(y)'
    <3>1. CASE y # z
      BY <3>1 DEF StalenessOK, Explained, TypeOK
    <3>2. CASE y = z
      <4> SUFFICES ASSUME stage[z] = "add" PROVE Explained(z, held[z])'
        BY <3>2 DEF StalenessOK, TypeOK
      <4>1. Explained(z, held[z]) /\ held[z] \in Nat
        BY DEF StalenessOK, CallOK
      <4>2. overtaken[z] \subseteq overtaken'[z] /\ lost'[z] = lost[z] /\ rows' = rows
        BY DEF TypeOK
      <4>3. n > held[z] => n \in overtaken'[z]
        BY DEF TypeOK, Overtakes
      <4> QED
        BY <4>1, <4>2, <4>3 DEF Explained, TypeOK
    <3> QED
      BY <3>1, <3>2
  <2> QED BY <2>1, <2>2, <2>3
<1>3. ASSUME NEW q \in Queries PROVE QueryOK(q)'
  BY DEF QueryOK, Settled, TypeOK, CallOK, VersionsOK, PCs
<1> QED
  BY <1>1, <1>2, <1>3

\* An expired entry needs no explanation.
LEMMA ExpireInv ==
  ASSUME Inv, NEW z \in Zones, Expire(z) PROVE Inv'
<1> USE SentinelsAssumption DEF Inv, Expire, database, bus, calls, queries
<1>1. TypeOK'
  BY DEF TypeOK
<1>2. ASSUME NEW y \in Zones PROVE (CallOK(y) /\ VersionsOK(y) /\ StalenessOK(y))'
  <2>1. CallOK(y)'
    BY DEF CallOK, TypeOK, QueryOK
  <2>2. VersionsOK(y)'
    BY DEF VersionsOK, Settled, TypeOK, CallOK, QueryOK
  <2>3. StalenessOK(y)'
    BY DEF StalenessOK, Explained, TypeOK, CallOK
  <2> QED BY <2>1, <2>2, <2>3
<1>3. ASSUME NEW q \in Queries PROVE QueryOK(q)'
  BY DEF QueryOK, Settled, TypeOK, CallOK, VersionsOK, PCs
<1> QED
  BY <1>1, <1>2, <1>3

\* The floor of a new query is a version the process has settled.
LEMMA ArriveInv ==
  ASSUME Inv, NEW p \in Queries, NEW z \in Zones, Arrive(p, z) PROVE Inv'
<1> USE SentinelsAssumption DEF Inv, Arrive, database, bus, calls, queries
<1>1. TypeOK'
  BY DEF TypeOK, PCs
<1>2. ASSUME NEW y \in Zones PROVE (CallOK(y) /\ VersionsOK(y) /\ StalenessOK(y))'
  <2>1. CallOK(y)'
    BY DEF CallOK, TypeOK, QueryOK
  <2>2. VersionsOK(y)'
    BY DEF VersionsOK, Settled, TypeOK, CallOK, QueryOK
  <2>3. StalenessOK(y)'
    BY DEF StalenessOK, Explained, TypeOK, CallOK
  <2> QED BY <2>1, <2>2, <2>3
<1>3. ASSUME NEW q \in Queries PROVE QueryOK(q)'
  BY DEF QueryOK, Settled, TypeOK, CallOK, VersionsOK, PCs
<1> QED
  BY <1>1, <1>2, <1>3

\* A hit is settled: it is not newer than what an open call holds.
LEMMA LookupInv ==
  ASSUME Inv, NEW p \in Queries, Lookup(p) PROVE Inv'
<1> USE SentinelsAssumption DEF Inv, Lookup, database, bus, calls, queries
<1>0. asked[p] \in Zones
  BY DEF QueryOK
<1>1. TypeOK'
  <2>1. CASE cache[asked[p]] = None
    BY <2>1 DEF TypeOK, PCs
  <2>2. CASE cache[asked[p]] # None
    <3>1. cache[asked[p]] \in Nat
      BY <1>0, <2>2 DEF TypeOK
    <3> QED
      BY <2>2, <3>1 DEF TypeOK, PCs
  <2> QED
    BY <2>1, <2>2
<1>2. ASSUME NEW y \in Zones PROVE (CallOK(y) /\ VersionsOK(y) /\ StalenessOK(y))'
  <2>1. CallOK(y)'
    BY DEF CallOK, TypeOK, QueryOK
  <2>2. VersionsOK(y)'
    BY DEF VersionsOK, Settled, TypeOK, CallOK, QueryOK
  <2>3. StalenessOK(y)'
    BY DEF StalenessOK, Explained, TypeOK, CallOK
  <2> QED BY <2>1, <2>2, <2>3
<1>3. ASSUME NEW q \in Queries PROVE QueryOK(q)'
  <2>1. CASE q # p
    BY <2>1 DEF QueryOK, Settled, TypeOK
  <2>2. CASE q = p /\ cache[asked[p]] = None
    BY <2>2, <1>0 DEF QueryOK, Settled, TypeOK
  <2>3. CASE q = p /\ cache[asked[p]] # None
    <3>1. cache[asked[p]] \in Nat
      BY <1>0, <2>3 DEF TypeOK
    <3>2. held[asked[p]] \in Nat => cache[asked[p]] <= held[asked[p]]
      BY <1>0, <2>3, <3>1 DEF CallOK, TypeOK, Stages
    <3>3. Settled(asked[p], cache[asked[p]])
      BY <1>0, <2>3, <3>1, <3>2 DEF VersionsOK, Settled, TypeOK
    <3> QED
      BY <1>0, <2>3, <3>1, <3>3 DEF QueryOK, Settled, TypeOK
  <2> QED
    BY <2>1, <2>2, <2>3
<1> QED
  BY <1>1, <1>2, <1>3

\* A goroutine that joins finds the call open, or opens it.
LEMMA JoinInv ==
  ASSUME Inv, NEW p \in Queries, Join(p) PROVE Inv'
<1> USE SentinelsAssumption DEF Inv, Join, database, bus, calls, queries
<1>1. TypeOK'
  BY DEF TypeOK, Stages, PCs
<1>2. ASSUME NEW y \in Zones PROVE (CallOK(y) /\ VersionsOK(y) /\ StalenessOK(y))'
  <2>1. CallOK(y)'
    BY DEF CallOK, TypeOK, QueryOK
  <2>2. VersionsOK(y)'
    BY DEF VersionsOK, Settled, TypeOK, CallOK, QueryOK
  <2>3. StalenessOK(y)'
    BY DEF StalenessOK, Explained, TypeOK, CallOK
  <2> QED BY <2>1, <2>2, <2>3
<1>3. ASSUME NEW q \in Queries PROVE QueryOK(q)'
  BY DEF QueryOK, Settled, TypeOK, CallOK, VersionsOK, PCs
<1> QED
  BY <1>1, <1>2, <1>3

\* The call either holds the entry or finds none and will read.
LEMMA RecheckInv ==
  ASSUME Inv, NEW z \in Zones, Recheck(z) PROVE Inv'
<1> USE SentinelsAssumption DEF Inv, Recheck, database, bus, calls, queries
<1>1. TypeOK'
  BY DEF TypeOK, Stages
<1>2. ASSUME NEW y \in Zones PROVE (CallOK(y) /\ VersionsOK(y) /\ StalenessOK(y))'
  <2>1. CallOK(y)'
    BY DEF CallOK, TypeOK, QueryOK
  <2>2. VersionsOK(y)'
    BY DEF VersionsOK, Settled, TypeOK, CallOK, QueryOK
  <2>3. StalenessOK(y)'
    BY DEF StalenessOK, Explained, TypeOK, CallOK
  <2> QED BY <2>1, <2>2, <2>3
<1>3. ASSUME NEW q \in Queries PROVE QueryOK(q)'
  BY DEF QueryOK, Settled, TypeOK, CallOK, VersionsOK, PCs
<1> QED
  BY <1>1, <1>2, <1>3

\* Rows read now are as new as anything that was ever served.
LEMMA ReadInv ==
  ASSUME Inv, NEW z \in Zones, Read(z) PROVE Inv'
<1> USE SentinelsAssumption DEF Inv, Read, database, bus, calls, queries
<1>1. TypeOK'
  BY DEF TypeOK, Stages
<1>2. ASSUME NEW y \in Zones PROVE (CallOK(y) /\ VersionsOK(y) /\ StalenessOK(y))'
  <2>1. CallOK(y)'
    BY DEF CallOK, TypeOK, QueryOK
  <2>2. VersionsOK(y)'
    BY DEF VersionsOK, Settled, TypeOK, CallOK, QueryOK
  <2>3. StalenessOK(y)'
    BY DEF StalenessOK, Explained, TypeOK, CallOK
  <2> QED BY <2>1, <2>2, <2>3
<1>3. ASSUME NEW q \in Queries PROVE QueryOK(q)'
  <2>1. ASSUME NEW y \in Zones, NEW v \in Nat, Settled(y, v) PROVE Settled(y, v)'
    BY <2>1 DEF Settled, TypeOK
  <2>2. UNCHANGED <<pc, asked, answer, floor>> /\ \A y \in Zones : stage[y] # "idle" => stage'[y] # "idle"
    BY DEF TypeOK
  <2> QED
    BY <2>1, <2>2 DEF QueryOK, TypeOK
<1> QED
  BY <1>1, <1>2, <1>3

\* The entry is what the call holds, and inherits its explanation.
LEMMA AddInv ==
  ASSUME Inv, NEW z \in Zones, Add(z) PROVE Inv'
<1> USE SentinelsAssumption DEF Inv, Add, database, bus, calls, queries
<1>1. TypeOK'
  <2>1. held[z] \in Nat
    BY DEF CallOK
  <2> QED
    BY <2>1 DEF TypeOK, Stages
<1>2. ASSUME NEW y \in Zones PROVE (CallOK(y) /\ VersionsOK(y) /\ StalenessOK(y))'
  <2>1. CallOK(y)'
    BY DEF CallOK, TypeOK, QueryOK
  <2>2. VersionsOK(y)'
    BY DEF VersionsOK, Settled, TypeOK, CallOK, QueryOK
  <2>3. StalenessOK(y)'
    BY DEF StalenessOK, Explained, TypeOK, CallOK
  <2> QED BY <2>1, <2>2, <2>3
<1>3. ASSUME NEW q \in Queries PROVE QueryOK(q)'
  BY DEF QueryOK, Settled, TypeOK, CallOK, VersionsOK, PCs
<1> QED
  BY <1>1, <1>2, <1>3

\* Each waiter gets a result that is settled and not below its floor.
LEMMA ReturnInv ==
  ASSUME Inv, NEW z \in Zones, Return(z) PROVE Inv'
<1> USE SentinelsAssumption DEF Inv, Return, database, bus, calls, queries
<1>1. TypeOK'
  BY DEF TypeOK, Stages, PCs
<1>2. ASSUME NEW y \in Zones PROVE (CallOK(y) /\ VersionsOK(y) /\ StalenessOK(y))'
  <2>1. CallOK(y)'
    BY DEF CallOK, TypeOK, QueryOK
  <2>2. VersionsOK(y)'
    BY DEF VersionsOK, Settled, TypeOK, CallOK, QueryOK
  <2>3. StalenessOK(y)'
    BY DEF StalenessOK, Explained, TypeOK, CallOK
  <2> QED BY <2>1, <2>2, <2>3
<1>3. ASSUME NEW q \in Queries PROVE QueryOK(q)'
  BY DEF QueryOK, Settled, TypeOK, CallOK, VersionsOK, PCs
<1> QED
  BY <1>1, <1>2, <1>3

\* The version sent is settled, so served stays settled.
LEMMA ReplyInv ==
  ASSUME Inv, NEW p \in Queries, Reply(p) PROVE Inv'
<1> USE SentinelsAssumption DEF Inv, Reply, database, bus, calls, queries
<1>1. TypeOK'
  <2>1. asked[p] \in Zones /\ answer[p] \in Nat \cup {Failed}
    BY DEF TypeOK, QueryOK
  <2> QED
    BY <2>1 DEF TypeOK, PCs
<1>2. ASSUME NEW y \in Zones PROVE (CallOK(y) /\ VersionsOK(y) /\ StalenessOK(y))'
  <2>1. CallOK(y)'
    BY DEF CallOK, TypeOK, QueryOK
  <2>2. VersionsOK(y)'
    BY DEF VersionsOK, Settled, TypeOK, CallOK, QueryOK
  <2>3. StalenessOK(y)'
    BY DEF StalenessOK, Explained, TypeOK, CallOK
  <2> QED BY <2>1, <2>2, <2>3
<1>3. ASSUME NEW q \in Queries PROVE QueryOK(q)'
  BY DEF QueryOK, Settled, TypeOK, CallOK, VersionsOK, PCs
<1> QED
  BY <1>1, <1>2, <1>3

-----------------------------------------------------------------------------
\* Every step of the process, the API and the event channel keeps the invariant.
LEMMA NextInv == Inv /\ [Next]_vars => Inv'
<1> SUFFICES ASSUME Inv, [Next]_vars PROVE Inv'
  OBVIOUS
<1>1. CASE UNCHANGED vars
  BY <1>1 DEF vars, database, bus, calls, queries, Inv, TypeOK, CallOK, VersionsOK,
              StalenessOK, QueryOK, Settled, Explained
<1>2. ASSUME NEW z \in Zones, Commit(z) PROVE Inv'
  BY <1>2, CommitInv
<1>3. ASSUME NEW z \in Zones, Announcement(z) PROVE Inv'
  BY <1>3, LoseInv, InvalidateCacheInv DEF Announcement
<1>4. ASSUME NEW z \in Zones, Expire(z) PROVE Inv'
  BY <1>4, ExpireInv
<1>5. ASSUME NEW z \in Zones, Call(z) PROVE Inv'
  BY <1>5, RecheckInv, ReadInv, AddInv, ReturnInv DEF Call
<1>6. ASSUME NEW q \in Queries, Handler(q) PROVE Inv'
  BY <1>6, LookupInv, JoinInv, ReplyInv DEF Handler
<1>7. ASSUME NEW q \in Queries, NEW z \in Zones, Arrive(q, z) PROVE Inv'
  BY <1>7, ArriveInv
<1> QED
  BY <1>1, <1>2, <1>3, <1>4, <1>5, <1>6, <1>7 DEF Next

\* The inductive invariant holds in every reachable state.
THEOREM Invariance == Spec => []Inv
<1>1. Init => Inv
  BY InitInv
<1>2. Inv /\ [Next]_vars => Inv'
  BY NextInv
<1> QED
  BY <1>1, <1>2, PTL DEF Spec

\* The variables keep their types: in particular nothing but a version is ever
\* cached, so an error never enters the cache.
THEOREM TypeCorrectness == Spec => []TypeOK
<1>1. Inv => TypeOK
  BY DEF Inv
<1> QED
  BY <1>1, Invariance, PTL

\* A stale entry is always explained by an announcement that is outstanding,
\* was lost, or overtook the call that stored the entry.
THEOREM StalenessIsExplained == Spec => []NoSilentStaleness
<1>1. Inv => NoSilentStaleness
  BY DEF Inv, StalenessOK, Explained, NoSilentStaleness
<1> QED
  BY <1>1, Invariance, PTL

\* GetRecords never answers with rows older than the floor of its caller.
THEOREM ReadsAreMonotonic == Spec => []MonotonicReads
<1>1. Inv => MonotonicReads
  <2> SUFFICES ASSUME Inv, NEW q \in Queries, pc[q] = "answered", answer[q] # Failed
               PROVE  answer[q] >= floor[q]
    BY DEF MonotonicReads
  <2>1. floor[q] <= answer[q] /\ answer[q] \in Nat /\ floor[q] \in Nat
    BY DEF Inv, QueryOK, TypeOK
  <2> QED
    BY <2>1
<1> QED
  BY <1>1, Invariance, PTL

\* A goroutine that waits in group.Do waits for a call that is open.
THEOREM NoLostWakeup == Spec => []WaitersHaveACall
<1>1. Inv => WaitersHaveACall
  BY DEF Inv, QueryOK, WaitersHaveACall
<1> QED
  BY <1>1, Invariance, PTL

-----------------------------------------------------------------------------
\* Every step of the detailed process is a step of ZoneReads or none at all.
LEMMA StepRefinement == Inv /\ [Next]_vars => [Reads!Next]_(Reads!vars)
<1> SUFFICES ASSUME Inv, [Next]_vars PROVE [Reads!Next]_(Reads!vars)
  OBVIOUS
<1> USE DEF database, bus, calls, queries
<1>1. CASE UNCHANGED vars
  BY <1>1 DEF vars, Reads!vars
<1>2. ASSUME NEW z \in Zones, Commit(z) PROVE Reads!Next
  BY <1>2 DEF Commit, Reads!Next, Reads!Commit
<1>3. ASSUME NEW z \in Zones, Announcement(z) PROVE UNCHANGED Reads!vars
  BY <1>3 DEF Announcement, Lose, InvalidateCache, Reads!vars
<1>4. ASSUME NEW z \in Zones, Expire(z) PROVE UNCHANGED Reads!vars
  BY <1>4 DEF Expire, Reads!vars
<1>5. ASSUME NEW z \in Zones, Recheck(z) \/ Read(z) \/ Add(z) PROVE UNCHANGED Reads!vars
  BY <1>5 DEF Recheck, Read, Add, Reads!vars
<1>6. ASSUME NEW z \in Zones, Return(z) PROVE Reads!Next
  <2>1. PICK S \in SUBSET Queries : S = {q \in Queries : pc[q] = "waiting" /\ asked[q] = z}
    OBVIOUS
  <2>2. PICK a \in Nat \cup {Failed} : a = held[z]
    BY <1>6 DEF Inv, CallOK, TypeOK, Return
  <2>3. a # Failed => a \in 0 .. rows[z] /\ \A q \in S : floor[q] <= a
    BY <2>1, <2>2 DEF Inv, VersionsOK, QueryOK, Settled, TypeOK
  <2>4. Reads!Answer(S, z, a)
    BY <1>6, <2>1, <2>2, <2>3 DEF Inv, TypeOK, Return, Reads!Answer
  <2> QED
    BY <2>3, <2>4 DEF Reads!Next
<1>7. ASSUME NEW q \in Queries, NEW z \in Zones, Arrive(q, z) PROVE Reads!Next
  <2>1. served[z] \in 0 .. rows[z] /\ rows[z] \in Nat
    BY DEF Inv, VersionsOK, Settled, TypeOK
  <2>2. PICK v \in Nat :
           v = IF cache[z] = None /\ held[z] = None THEN rows[z] ELSE served[z]
    BY DEF Inv, TypeOK
  <2>3. v \in served[z] .. rows[z] /\ floor' = [floor EXCEPT ![q] = v]
    BY <1>7, <2>1, <2>2 DEF Inv, TypeOK, Arrive
  <2>4. Reads!Ask(q, z)
    BY <1>7, <2>3 DEF Inv, TypeOK, Arrive, Reads!Ask
  <2> QED
    BY <2>4 DEF Reads!Next
<1>8. ASSUME NEW q \in Queries, Lookup(q) PROVE [Reads!Next]_(Reads!vars)
  <2>1. asked[q] \in Zones
    BY <1>8 DEF Inv, QueryOK, Lookup
  <2>2. CASE cache[asked[q]] = None
    BY <1>8, <2>2 DEF Inv, TypeOK, Lookup, Reads!vars
  <2>3. CASE cache[asked[q]] # None
    <3>1. PICK z \in Zones : z = asked[q]
      BY <2>1
    <3>2. PICK a \in Nat : a = cache[z]
      BY <2>3, <3>1 DEF Inv, TypeOK
    <3>3. a \in 0 .. rows[z] /\ floor[q] <= a
      BY <1>8, <2>3, <3>1, <3>2 DEF Inv, TypeOK, VersionsOK, QueryOK, Settled, Lookup
    <3>4. Reads!Answer({q}, z, a)
      BY <1>8, <2>3, <3>1, <3>2, <3>3 DEF Inv, TypeOK, Lookup, Reads!Answer
    <3>5. PICK S \in SUBSET Queries : S = {q}
      OBVIOUS
    <3> QED
      BY <3>3, <3>4, <3>5 DEF Reads!Next
  <2> QED
    BY <2>2, <2>3
<1>9. ASSUME NEW q \in Queries, Join(q) PROVE UNCHANGED Reads!vars
  BY <1>9 DEF Inv, TypeOK, Join, Reads!vars
<1>10. ASSUME NEW q \in Queries, Reply(q) PROVE Reads!Next
  BY <1>10 DEF Inv, TypeOK, Reply, Reads!Next, Reads!Send
<1> QED
  BY <1>1, <1>2, <1>3, <1>4, <1>5, <1>6, <1>7, <1>8, <1>9, <1>10
     DEF Next, Call, Handler

\* The cache, its shared calls and its invalidations implement what GetRecords
\* promises: one record set per answer, no travel back in time.
THEOREM Refinement == Spec => ImplementsZoneReads
<1>1. Init => Reads!Init
  BY DEF Init, Reads!Init
<1>2. Inv /\ [Next]_vars => [Reads!Next]_(Reads!vars)
  BY StepRefinement
<1> QED
  BY <1>1, <1>2, Invariance, PTL DEF Spec, ImplementsZoneReads, Reads!Spec
=============================================================================
