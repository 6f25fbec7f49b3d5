------------------------- MODULE ControlPlaneProofs -------------------------
(***************************************************************************)
(* Proofs about ControlPlane, for any tables, names and owners, any number *)
(* of handlers and replicas and any bound on the requests: Inv is          *)
(* inductive, no statement brings a deleted row back, and ZoneTables is    *)
(* implemented.  One lemma per action, with one step per conjunct of Inv.  *)
(***************************************************************************)
EXTENDS ControlPlane, TLAPS

\* The initial states satisfy the invariant.
LEMMA InitInv == Init => Inv
<1> SUFFICES ASSUME Init PROVE Inv
  OBVIOUS
<1> USE NoneAssumption, MaxRequestsAssumption DEF Init
<1>1. TypeOK
  BY DEF TypeOK, PCs
<1>2. ASSUME NEW h \in Handlers PROVE HandlerOK(h) /\ DeletesAll(h)
  BY DEF HandlerOK, DeletesAll
<1>3. ASSUME NEW r \in Records PROVE home[r] # None => r \in used
  OBVIOUS
<1>4. OrphansAreLate /\ EventsMatchChanges
  BY DEF OrphansAreLate, EventsMatchChanges, Announcing
<1>5. NumbersOK /\ \A h \in Handlers : FoundOK(h)
  BY DEF NumbersOK, FoundOK
<1> QED
  BY <1>1, <1>2, <1>3, <1>4, <1>5 DEF Inv

\* A request that begins has a number and a zone; no table changes.
LEMMA BeginInv ==
  ASSUME Inv, NEW h \in Handlers, NEW z \in Zones, NEW s \in Records \cup {None},
         NEW next \in {"insert", "update", "delete", "del_zone"},
         next \in {"update", "delete"} => s \in used /\ home[s] = z,
         Begin(h, next, z, s)
  PROVE  Inv'
<1> USE NoneAssumption, MaxRequestsAssumption
    DEF Inv, Begin, tables, request, history
<1>1. TypeOK'
  BY DEF TypeOK, PCs
<1>2. ASSUME NEW g \in Handlers PROVE HandlerOK(g)'
  BY DEF TypeOK, HandlerOK
<1>3. ASSUME NEW g \in Handlers PROVE DeletesAll(g)'
  BY DEF TypeOK, DeletesAll, HandlerOK, SameKey
<1>4. ASSUME NEW r \in Records, home'[r] # None PROVE r \in used'
  BY <1>4
<1>5. OrphansAreLate'
  BY DEF TypeOK, OrphansAreLate, HandlerOK
<1>6. EventsMatchChanges'
  BY DEF TypeOK, EventsMatchChanges, Announcing, HandlerOK
<1>7. NumbersOK'
  <2>1. requests' = requests + 1 /\ requests \in Nat
    BY DEF TypeOK
  <2>2. \A g \in Handlers : no[g] \in Nat /\ no'[g] = IF g = h THEN requests + 1 ELSE no[g]
    BY DEF TypeOK
  <2>3. bus' = bus /\ \A e \in bus : e.no \in Nat /\ e.no <= requests
    BY <2>1 DEF TypeOK, Events, NumbersOK
  <2>4. published' = published /\ dropped' = dropped /\ published \cup dropped \subseteq Nat
    BY DEF TypeOK
  <2>5. \A g \in Handlers : no[g] <= requests
    BY <2>1, <2>2 DEF NumbersOK
  <2> HIDE DEF Begin
  <2> QED
    BY <2>1, <2>2, <2>3, <2>4, <2>5 DEF NumbersOK
<1>8. ASSUME NEW g \in Handlers PROVE FoundOK(g)'
  <2>1. doomed[g] # {} => g # h
    BY DEF HandlerOK
  <2> QED
    BY <2>1 DEF TypeOK, FoundOK, HandlerOK, SameKey
<1> QED
  BY <1>1, <1>2, <1>3, <1>4, <1>5, <1>6, <1>7, <1>8

\* A request that ends without having changed anything leaves nothing behind.
LEMMA ForgetInv ==
  ASSUME Inv, NEW h \in Handlers, Finish(h),
         pc[h] \notin {"announce_record", "announce_zone"},
         UNCHANGED <<tables, delegated, bus, check, requests, history>>
  PROVE  Inv'
<1> USE NoneAssumption, MaxRequestsAssumption
    DEF Inv, Finish, tables, request, history
<1>1. TypeOK'
  BY DEF TypeOK, PCs
<1>2. ASSUME NEW g \in Handlers PROVE HandlerOK(g)'
  BY DEF TypeOK, HandlerOK
<1>3. ASSUME NEW g \in Handlers PROVE DeletesAll(g)'
  BY DEF TypeOK, DeletesAll, HandlerOK, SameKey
<1>4. ASSUME NEW r \in Records, home'[r] # None PROVE r \in used'
  BY <1>4
<1>5. OrphansAreLate'
  BY DEF TypeOK, OrphansAreLate, HandlerOK
<1>6. EventsMatchChanges'
  BY DEF TypeOK, EventsMatchChanges, Announcing, HandlerOK
<1>7. NumbersOK'
  BY DEF TypeOK, NumbersOK, HandlerOK
<1>8. ASSUME NEW g \in Handlers PROVE FoundOK(g)'
  BY DEF TypeOK, FoundOK, HandlerOK, SameKey
<1> QED
  BY <1>1, <1>2, <1>3, <1>4, <1>5, <1>6, <1>7, <1>8

\* A step outside the database and the handlers disturbs nothing.
LEMMA QuietInv ==
  ASSUME Inv, TypeOK', UNCHANGED <<tables, bus, request, requests, history>> PROVE Inv'
<1> USE DEF Inv, tables, request, history
<1>1. ASSUME NEW h \in Handlers PROVE HandlerOK(h)' /\ DeletesAll(h)' /\ FoundOK(h)'
  BY DEF HandlerOK, DeletesAll, FoundOK, SameKey
<1>2. OrphansAreLate'
  BY DEF OrphansAreLate
<1>3. EventsMatchChanges'
  BY DEF EventsMatchChanges, Announcing
<1>4. NumbersOK'
  BY DEF TypeOK, NumbersOK
<1> QED
  BY <1>1, <1>2, <1>3, <1>4

\* A refusal changes no table.
LEMMA CreateZoneInv ==
  ASSUME Inv, NEW h \in Handlers, NEW z \in Zones, CreateZone(h, z) PROVE Inv'
<1> USE NoneAssumption, MaxRequestsAssumption
    DEF Inv, CreateZone, tables, request, history
<1>1. TypeOK'
  BY DEF TypeOK, PCs, Events, Names, HandlerOK
<1>2. ASSUME NEW g \in Handlers PROVE HandlerOK(g)'
  BY DEF TypeOK, HandlerOK
<1>3. ASSUME NEW g \in Handlers PROVE DeletesAll(g)'
  BY DEF TypeOK, DeletesAll, HandlerOK, SameKey
<1>4. ASSUME NEW r \in Records, home'[r] # None PROVE r \in used'
  BY <1>4 DEF TypeOK, HandlerOK
<1>5. OrphansAreLate'
  BY DEF TypeOK, OrphansAreLate, HandlerOK, DeletesAll, SameKey
<1>6. EventsMatchChanges'
  BY DEF TypeOK, EventsMatchChanges, Announcing, HandlerOK
<1>7. NumbersOK'
  BY DEF TypeOK, NumbersOK, HandlerOK
<1>8. ASSUME NEW g \in Handlers PROVE FoundOK(g)'
  BY DEF TypeOK, FoundOK, HandlerOK, SameKey
<1> QED
  BY <1>1, <1>2, <1>3, <1>4, <1>5, <1>6, <1>7, <1>8

\* The transaction opens.
LEMMA DeleteZoneRowInv ==
  ASSUME Inv, NEW h \in Handlers, DeleteZoneRow(h) PROVE Inv'
<1> USE NoneAssumption, MaxRequestsAssumption
    DEF Inv, DeleteZoneRow, Go, tables, request, history
<1>1. TypeOK'
  BY DEF TypeOK, PCs, Events, Names, HandlerOK
<1>2. ASSUME NEW g \in Handlers PROVE HandlerOK(g)'
  BY DEF TypeOK, HandlerOK
<1>3. ASSUME NEW g \in Handlers PROVE DeletesAll(g)'
  BY DEF TypeOK, DeletesAll, HandlerOK, SameKey
<1>4. ASSUME NEW r \in Records, home'[r] # None PROVE r \in used'
  BY <1>4 DEF TypeOK, HandlerOK
<1>5. OrphansAreLate'
  BY DEF TypeOK, OrphansAreLate, HandlerOK, DeletesAll, SameKey
<1>6. EventsMatchChanges'
  BY DEF TypeOK, EventsMatchChanges, Announcing, HandlerOK
<1>7. NumbersOK'
  BY DEF TypeOK, NumbersOK, HandlerOK
<1>8. ASSUME NEW g \in Handlers PROVE FoundOK(g)'
  BY DEF TypeOK, FoundOK, HandlerOK, SameKey
<1> QED
  BY <1>1, <1>2, <1>3, <1>4, <1>5, <1>6, <1>7, <1>8

\* All records of the zone are in the transaction.
LEMMA DeleteZoneRecordsInv ==
  ASSUME Inv, NEW h \in Handlers, DeleteZoneRecords(h) PROVE Inv'
<1> USE NoneAssumption, MaxRequestsAssumption
    DEF Inv, DeleteZoneRecords, Go, tables, request, history
<1>1. TypeOK'
  BY DEF TypeOK, PCs, Events, Names, HandlerOK
<1>2. ASSUME NEW g \in Handlers PROVE HandlerOK(g)'
  BY DEF TypeOK, HandlerOK
<1>3. ASSUME NEW g \in Handlers PROVE DeletesAll(g)'
  BY DEF TypeOK, DeletesAll, HandlerOK, SameKey
<1>4. ASSUME NEW r \in Records, home'[r] # None PROVE r \in used'
  BY <1>4 DEF TypeOK, HandlerOK
<1>5. OrphansAreLate'
  BY DEF TypeOK, OrphansAreLate, HandlerOK, DeletesAll, SameKey
<1>6. EventsMatchChanges'
  BY DEF TypeOK, EventsMatchChanges, Announcing, HandlerOK
<1>7. NumbersOK'
  BY DEF TypeOK, NumbersOK, HandlerOK
<1>8. ASSUME NEW g \in Handlers PROVE FoundOK(g)'
  BY DEF TypeOK, FoundOK, HandlerOK, SameKey
<1> QED
  BY <1>1, <1>2, <1>3, <1>4, <1>5, <1>6, <1>7, <1>8

\* What the transaction leaves behind was inserted too late.
LEMMA CommitDeleteInv ==
  ASSUME Inv, NEW h \in Handlers, CommitDelete(h) PROVE Inv'
<1> USE NoneAssumption, MaxRequestsAssumption
    DEF Inv, CommitDelete, Go, tables, request, history
<1>1. TypeOK'
  <2>1. no[h] \in 1 .. MaxRequests
    BY DEF TypeOK, HandlerOK
  <2>2. zone[h] \in Zones
    BY DEF TypeOK, HandlerOK
  <2>3. row' \in [Zones -> {"none", "inactive", "active"}]
    BY <2>2 DEF TypeOK
  <2>4. applied' \in SUBSET (1 .. MaxRequests)
    BY <2>1 DEF TypeOK
  <2> QED
    BY <2>3, <2>4 DEF TypeOK, PCs
<1>2. ASSUME NEW g \in Handlers PROVE HandlerOK(g)'
  BY DEF TypeOK, HandlerOK
<1>3. ASSUME NEW g \in Handlers PROVE DeletesAll(g)'
  BY DEF TypeOK, DeletesAll, HandlerOK, SameKey
<1>4. ASSUME NEW r \in Records, home'[r] # None PROVE r \in used'
  BY <1>4 DEF TypeOK, HandlerOK
<1>5. OrphansAreLate'
  BY DEF TypeOK, OrphansAreLate, HandlerOK, DeletesAll, SameKey
<1>6. EventsMatchChanges'
  BY DEF TypeOK, EventsMatchChanges, Announcing, HandlerOK
<1>7. NumbersOK'
  BY DEF TypeOK, NumbersOK, HandlerOK
<1>8. ASSUME NEW g \in Handlers PROVE FoundOK(g)'
  BY DEF TypeOK, FoundOK, HandlerOK, SameKey
<1> QED
  BY <1>1, <1>2, <1>3, <1>4, <1>5, <1>6, <1>7, <1>8

\* A record inserted behind a transaction, or without its zone, is late.
LEMMA InsertRecordInv ==
  ASSUME Inv, NEW h \in Handlers, NEW s \in Records, InsertRecord(h, s) PROVE Inv'
<1> USE NoneAssumption, MaxRequestsAssumption
    DEF Inv, InsertRecord, Apply, Go, tables, request, history
<1>1. TypeOK'
  <2>1. no[h] \in 1 .. MaxRequests
    BY DEF TypeOK, HandlerOK
  <2>2. applied' \in SUBSET (1 .. MaxRequests)
    BY <2>1 DEF TypeOK
  <2>3. home' \in [Records -> Zones \cup {None}]
    BY DEF TypeOK
  <2>4. used' \in SUBSET Records /\ late' \in SUBSET used'
    BY DEF TypeOK
  <2> QED
    BY <2>2, <2>3, <2>4 DEF TypeOK, PCs
<1>2. ASSUME NEW g \in Handlers PROVE HandlerOK(g)'
  BY DEF TypeOK, HandlerOK
<1>3. ASSUME NEW g \in Handlers PROVE DeletesAll(g)'
  BY DEF TypeOK, DeletesAll, HandlerOK, SameKey
<1>4. ASSUME NEW r \in Records, home'[r] # None PROVE r \in used'
  BY <1>4 DEF TypeOK, HandlerOK
<1>5. OrphansAreLate'
  BY DEF TypeOK, OrphansAreLate, HandlerOK, DeletesAll, SameKey
<1>6. EventsMatchChanges'
  BY DEF TypeOK, EventsMatchChanges, Announcing, HandlerOK
<1>7. NumbersOK'
  BY DEF TypeOK, NumbersOK, HandlerOK
<1>8. ASSUME NEW g \in Handlers PROVE FoundOK(g)'
  BY DEF TypeOK, FoundOK, HandlerOK, SameKey
<1> QED
  BY <1>1, <1>2, <1>3, <1>4, <1>5, <1>6, <1>7, <1>8

\* No table changes.
LEMMA UpdateRecordInv ==
  ASSUME Inv, NEW h \in Handlers, UpdateRecord(h) PROVE Inv'
<1> USE NoneAssumption, MaxRequestsAssumption
    DEF Inv, UpdateRecord, Apply, Go, tables, request, history
<1>1. TypeOK'
  <2>1. no[h] \in 1 .. MaxRequests
    BY DEF TypeOK, HandlerOK
  <2>2. applied' \in SUBSET (1 .. MaxRequests)
    BY <2>1 DEF TypeOK
  <2> QED
    BY <2>2 DEF TypeOK, PCs
<1>2. ASSUME NEW g \in Handlers PROVE HandlerOK(g)'
  BY DEF TypeOK, HandlerOK
<1>3. ASSUME NEW g \in Handlers PROVE DeletesAll(g)'
  BY DEF TypeOK, DeletesAll, HandlerOK, SameKey
<1>4. ASSUME NEW r \in Records, home'[r] # None PROVE r \in used'
  BY <1>4 DEF TypeOK, HandlerOK
<1>5. OrphansAreLate'
  BY DEF TypeOK, OrphansAreLate, HandlerOK, DeletesAll, SameKey
<1>6. EventsMatchChanges'
  BY DEF TypeOK, EventsMatchChanges, Announcing, HandlerOK
<1>7. NumbersOK'
  BY DEF TypeOK, NumbersOK, HandlerOK
<1>8. ASSUME NEW g \in Handlers PROVE FoundOK(g)'
  BY DEF TypeOK, FoundOK, HandlerOK, SameKey
<1> QED
  BY <1>1, <1>2, <1>3, <1>4, <1>5, <1>6, <1>7, <1>8

\* A record that goes leaves no orphan.
LEMMA DeleteRecordInv ==
  ASSUME Inv, NEW h \in Handlers, DeleteRecord(h) PROVE Inv'
<1> USE NoneAssumption, MaxRequestsAssumption
    DEF Inv, DeleteRecord, Apply, Go, tables, request, history
<1>1. TypeOK'
  <2>1. no[h] \in 1 .. MaxRequests
    BY DEF TypeOK, HandlerOK
  <2>2. applied' \in SUBSET (1 .. MaxRequests)
    BY <2>1 DEF TypeOK
  <2>3. home' \in [Records -> Zones \cup {None}]
    BY DEF TypeOK
  <2> QED
    BY <2>2, <2>3 DEF TypeOK, PCs
<1>2. ASSUME NEW g \in Handlers PROVE HandlerOK(g)'
  BY DEF TypeOK, HandlerOK
<1>3. ASSUME NEW g \in Handlers PROVE DeletesAll(g)'
  BY DEF TypeOK, DeletesAll, HandlerOK, SameKey
<1>4. ASSUME NEW r \in Records, home'[r] # None PROVE r \in used'
  BY <1>4 DEF TypeOK, HandlerOK
<1>5. OrphansAreLate'
  BY DEF TypeOK, OrphansAreLate, HandlerOK, DeletesAll, SameKey
<1>6. EventsMatchChanges'
  BY DEF TypeOK, EventsMatchChanges, Announcing, HandlerOK
<1>7. NumbersOK'
  BY DEF TypeOK, NumbersOK, HandlerOK
<1>8. ASSUME NEW g \in Handlers PROVE FoundOK(g)'
  BY DEF TypeOK, FoundOK, HandlerOK, SameKey
<1> QED
  BY <1>1, <1>2, <1>3, <1>4, <1>5, <1>6, <1>7, <1>8

\* What a handler announces is an event under the number of its request.
LEMMA AnnouncementType ==
  ASSUME Inv, NEW h \in Announcing
  PROVE  Announcement(h) \in Events /\ Announcement(h).no = no[h] /\ no[h] \in Nat \ {0}
<1> USE MaxRequestsAssumption DEF Inv, Announcing
<1>1. no[h] \in 0 .. MaxRequests /\ no[h] # 0 /\ zone[h] \in Zones
  BY DEF TypeOK, HandlerOK
<1>2. NameOf[zone[h]] \in Names
  BY <1>1 DEF Names
<1> QED
  BY <1>1, <1>2 DEF Announcement, Events

\* The number of the request passes from the handler to the event.
LEMMA StartPublishInv ==
  ASSUME Inv, NEW h \in Handlers, StartPublish(h) PROVE Inv'
<1> USE NoneAssumption, MaxRequestsAssumption
    DEF Inv, StartPublish, Finish, tables, request, history
<1> DEFINE d == Announcement(h)
<1>0. h \in Announcing /\ d \in Events /\ d.no = no[h] /\ no[h] \in Nat \ {0} /\ bus' = bus \cup {d}
  BY AnnouncementType DEF Announcing
<1> HIDE DEF d
<1>1. TypeOK'
  BY <1>0 DEF TypeOK, PCs
<1>2. ASSUME NEW g \in Handlers PROVE HandlerOK(g)'
  BY DEF TypeOK, HandlerOK
<1>3. ASSUME NEW g \in Handlers PROVE DeletesAll(g)'
  BY DEF TypeOK, DeletesAll, HandlerOK, SameKey
<1>4. ASSUME NEW r \in Records, home'[r] # None PROVE r \in used'
  BY <1>4 DEF TypeOK, HandlerOK
<1>5. OrphansAreLate'
  BY DEF TypeOK, OrphansAreLate, HandlerOK, DeletesAll, SameKey
<1>6. EventsMatchChanges'
  <2> DEFINE E == {e.no : e \in {e \in bus : e.no # 0}}
             H == {no[g] : g \in Announcing}
  <2>1. applied = published \cup dropped \cup E \cup H
    BY DEF EventsMatchChanges
  <2>3. E' = E \cup {no[h]}
    BY <1>0
  <2>4. H = H' \cup {no[h]}
    BY <1>0 DEF TypeOK, Announcing
  <2>5. applied' = published' \cup dropped' \cup E' \cup H'
    BY <2>1, <2>3, <2>4
  <2> QED
    BY <2>5 DEF EventsMatchChanges
<1>7. NumbersOK'
  <2>1. \A g \in Handlers : no'[g] = IF g = h THEN 0 ELSE no[g]
    BY DEF TypeOK
  <2> QED
    BY <1>0, <2>1 DEF NumbersOK
<1>8. ASSUME NEW g \in Handlers PROVE FoundOK(g)'
  BY DEF TypeOK, FoundOK, HandlerOK, SameKey
<1> QED
  BY <1>1, <1>2, <1>3, <1>4, <1>5, <1>6, <1>7, <1>8

\* The number passes from the event to what was published, or dropped.
LEMMA PublishEventInv ==
  ASSUME Inv, NEW d \in bus, PublishEvent(d) PROVE Inv'
<1> USE NoneAssumption, MaxRequestsAssumption
    DEF Inv, PublishEvent, tables, request, history
<1>1. TypeOK'
  <2>1. d.no \in 0 .. MaxRequests
    BY DEF TypeOK, Events
  <2>2. {d.no} \ {0} \in SUBSET (1 .. MaxRequests)
    BY <2>1
  <2>3. published' \in SUBSET (1 .. MaxRequests) /\ dropped' \in SUBSET (1 .. MaxRequests)
    BY <2>2 DEF TypeOK
  <2> QED
    BY <2>3 DEF TypeOK
<1>2. ASSUME NEW g \in Handlers PROVE HandlerOK(g)'
  BY DEF TypeOK, HandlerOK
<1>3. ASSUME NEW g \in Handlers PROVE DeletesAll(g)'
  BY DEF TypeOK, DeletesAll, HandlerOK, SameKey
<1>4. ASSUME NEW r \in Records, home'[r] # None PROVE r \in used'
  BY <1>4 DEF TypeOK, HandlerOK
<1>5. OrphansAreLate'
  BY DEF TypeOK, OrphansAreLate, HandlerOK, DeletesAll, SameKey
<1>6. EventsMatchChanges'
  BY DEF TypeOK, EventsMatchChanges, Announcing, HandlerOK
<1>7. NumbersOK'
  <2>1. published' \cup dropped' = published \cup dropped \cup ({d.no} \ {0})
    OBVIOUS
  <2>2. bus' = bus \ {d} /\ no' = no /\ requests' = requests
    OBVIOUS
  <2> HIDE DEF PublishEvent
  <2> QED
    BY <2>1, <2>2 DEF NumbersOK
<1>8. ASSUME NEW g \in Handlers PROVE FoundOK(g)'
  BY DEF TypeOK, FoundOK, HandlerOK, SameKey
<1> QED
  BY <1>1, <1>2, <1>3, <1>4, <1>5, <1>6, <1>7, <1>8

\* The number of a change that was made passes to what was dropped.
LEMMA CrashInv ==
  ASSUME Inv, NEW h \in Handlers, Crash(h) PROVE Inv'
<1> USE NoneAssumption, MaxRequestsAssumption
    DEF Inv, Crash, Finish, tables, request, history
<1>1. TypeOK'
  <2>1. pc[h] \in {"announce_record", "announce_zone"} => no[h] \in 1 .. MaxRequests
    BY DEF TypeOK, HandlerOK
  <2>2. dropped' \in SUBSET (1 .. MaxRequests)
    BY <2>1 DEF TypeOK
  <2> QED
    BY <2>2 DEF TypeOK, PCs
<1>2. ASSUME NEW g \in Handlers PROVE HandlerOK(g)'
  BY DEF TypeOK, HandlerOK
<1>3. ASSUME NEW g \in Handlers PROVE DeletesAll(g)'
  BY DEF TypeOK, DeletesAll, HandlerOK, SameKey
<1>4. ASSUME NEW r \in Records, home'[r] # None PROVE r \in used'
  BY <1>4 DEF TypeOK, HandlerOK
<1>5. OrphansAreLate'
  BY DEF TypeOK, OrphansAreLate, HandlerOK, DeletesAll, SameKey
<1>6. EventsMatchChanges'
  BY DEF TypeOK, EventsMatchChanges, Announcing, HandlerOK
<1>7. NumbersOK'
  BY DEF TypeOK, NumbersOK, HandlerOK
<1>8. ASSUME NEW g \in Handlers PROVE FoundOK(g)'
  BY DEF TypeOK, FoundOK, HandlerOK, SameKey
<1> QED
  BY <1>1, <1>2, <1>3, <1>4, <1>5, <1>6, <1>7, <1>8

\* A row that is gone stays gone.
LEMMA ActivateInv ==
  ASSUME Inv, NEW p \in Replicas, NEW z \in Zones, Activate(p, z) PROVE Inv'
<1> USE NoneAssumption, MaxRequestsAssumption
    DEF Inv, Activate, Proceed, tables, request, history
<1>1. TypeOK'
  BY DEF TypeOK, PCs, Events, Names, HandlerOK
<1>2. ASSUME NEW g \in Handlers PROVE HandlerOK(g)'
  BY DEF TypeOK, HandlerOK
<1>3. ASSUME NEW g \in Handlers PROVE DeletesAll(g)'
  BY DEF TypeOK, DeletesAll, HandlerOK, SameKey
<1>4. ASSUME NEW r \in Records, home'[r] # None PROVE r \in used'
  BY <1>4 DEF TypeOK, HandlerOK
<1>5. OrphansAreLate'
  BY DEF TypeOK, OrphansAreLate, HandlerOK, DeletesAll, SameKey
<1>6. EventsMatchChanges'
  BY DEF TypeOK, EventsMatchChanges, Announcing, HandlerOK
<1>7. NumbersOK'
  BY DEF TypeOK, NumbersOK, HandlerOK
<1>8. ASSUME NEW g \in Handlers PROVE FoundOK(g)'
  BY DEF TypeOK, FoundOK, HandlerOK, SameKey
<1> QED
  BY <1>1, <1>2, <1>3, <1>4, <1>5, <1>6, <1>7, <1>8

\* The event of a check bears no number of a request.
LEMMA AnnounceZoneInv ==
  ASSUME Inv, NEW p \in Replicas, NEW z \in Zones, AnnounceZone(p, z) PROVE Inv'
<1> USE NoneAssumption, MaxRequestsAssumption
    DEF Inv, AnnounceZone, Proceed, tables, request, history
<1>1. TypeOK'
  BY DEF TypeOK, PCs, Events, Names, HandlerOK
<1>2. ASSUME NEW g \in Handlers PROVE HandlerOK(g)'
  BY DEF TypeOK, HandlerOK
<1>3. ASSUME NEW g \in Handlers PROVE DeletesAll(g)'
  BY DEF TypeOK, DeletesAll, HandlerOK, SameKey
<1>4. ASSUME NEW r \in Records, home'[r] # None PROVE r \in used'
  BY <1>4 DEF TypeOK, HandlerOK
<1>5. OrphansAreLate'
  BY DEF TypeOK, OrphansAreLate, HandlerOK, DeletesAll, SameKey
<1>6. EventsMatchChanges'
  BY DEF TypeOK, EventsMatchChanges, Announcing, HandlerOK
<1>7. NumbersOK'
  BY DEF TypeOK, NumbersOK, HandlerOK
<1>8. ASSUME NEW g \in Handlers PROVE FoundOK(g)'
  BY DEF TypeOK, FoundOK, HandlerOK, SameKey
<1> QED
  BY <1>1, <1>2, <1>3, <1>4, <1>5, <1>6, <1>7, <1>8

\* The invariant is inductive.
LEMMA NextInv == Inv /\ [Next]_vars => Inv'
<1> SUFFICES ASSUME Inv, [Next]_vars PROVE Inv'
  OBVIOUS
<1>1. ASSUME NEW h \in Handlers, Arrive(h) PROVE Inv'
  <2>1. ASSUME NEW z \in Zones, CreateZone(h, z) PROVE Inv'
    BY <2>1, CreateZoneInv
  <2>2. ASSUME NEW z \in Zones, FindZoneToDelete(h, z) PROVE Inv'
    BY <2>2, BeginInv DEF FindZoneToDelete
  <2>3. ASSUME NEW z \in Zones, FindZone(h, z) PROVE Inv'
    BY <2>3, BeginInv DEF FindZone
  <2>4. ASSUME NEW r \in Records, NEW next \in {"update", "delete"}, FindRecord(h, r, next)
        PROVE  Inv'
    <3>1. home[r] \in Zones
      BY <2>4 DEF FindRecord, Inv, TypeOK
    <3> QED
      BY <2>4, <3>1, BeginInv DEF FindRecord, Inv
  <2> QED
    BY <1>1, <2>1, <2>2, <2>3, <2>4 DEF Arrive
<1>2. ASSUME NEW h \in Handlers, Statement(h) PROVE Inv'
  BY <1>2, DeleteZoneRowInv, DeleteZoneRecordsInv, CommitDeleteInv, UpdateRecordInv,
     DeleteRecordInv, InsertRecordInv DEF Statement
<1>3. ASSUME NEW h \in Handlers, Refuse(h) \/ Fail(h) PROVE Inv'
  BY <1>3, ForgetInv DEF Refuse, Fail
<1>4. ASSUME NEW h \in Handlers, StartPublish(h) \/ Crash(h) PROVE Inv'
  BY <1>4, StartPublishInv, CrashInv
<1>5. ASSUME NEW d \in bus, PublishEvent(d) PROVE Inv'
  BY <1>5, PublishEventInv
<1>6. ASSUME NEW p \in Replicas, NEW z \in Zones, CheckZone(p, z) PROVE Inv'
  <2>1. CASE LookupNS(p, z)
    <3>1. check' \in [Replicas -> [Zones -> {"idle", "lookup", "update", "announce"}]]
      <4>1. ASSUME NEW next \in {"idle", "update"}, Proceed(p, z, next)
            PROVE  check' \in [Replicas -> [Zones -> {"idle", "lookup", "update", "announce"}]]
        BY <4>1 DEF Proceed, Inv, TypeOK
      <4> QED
        BY <2>1, <4>1 DEF LookupNS
    <3>2. TypeOK'
      BY <2>1, <3>1 DEF LookupNS, Proceed, Inv, TypeOK, request, history
    <3> QED
      BY <2>1, <3>2, QuietInv DEF LookupNS, Proceed, tables
  <2> QED
    BY <1>6, <2>1, ActivateInv, AnnounceZoneInv DEF CheckZone
<1>7. ASSUME NEW name \in Names, Delegate(name) PROVE Inv'
  <2>1. TypeOK'
    BY <1>7 DEF Delegate, Inv, TypeOK, tables, request, history
  <2> QED
    BY <1>7, <2>1, QuietInv DEF Delegate
<1>8. ASSUME NEW p \in Replicas, Check(p) \/ CrashChecker(p) PROVE Inv'
  <2>1. check' \in [Replicas -> [Zones -> {"idle", "lookup", "update", "announce"}]]
    BY <1>8 DEF Check, CrashChecker, Inv, TypeOK
  <2>2. TypeOK'
    BY <1>8, <2>1 DEF Check, CrashChecker, Inv, TypeOK, tables, request, history
  <2> QED
    BY <1>8, <2>2, QuietInv DEF Check, CrashChecker
<1>9. CASE UNCHANGED vars
  BY <1>9 DEF Inv, TypeOK, HandlerOK, DeletesAll, SameKey, OrphansAreLate, EventsMatchChanges, Announcing, NumbersOK, FoundOK,
             vars, tables, request, history
<1> QED
  BY <1>1, <1>2, <1>3, <1>4, <1>5, <1>6, <1>7, <1>8, <1>9 DEF Next, Handle

\* Every behaviour of the API keeps the invariant.
THEOREM Invariance == Spec => []Inv
  BY InitInv, NextInv, PTL DEF Spec

\* Every variable keeps its type.
THEOREM TypeCorrectness == Spec => []TypeOK
<1>1. Inv => TypeOK
  BY DEF Inv
<1> QED
  BY <1>1, Invariance, PTL

\* A record without a zone was inserted behind the deletion of its zone, by a
\* handler that had found the zone: zone.go:102-116 against dns_record.go:42-67.
THEOREM OrphansWereLate == Spec => []OrphansAreLate
<1>1. Inv => OrphansAreLate
  BY DEF Inv
<1> QED
  BY <1>1, Invariance, PTL

\* The announcements match what was committed: zone.go:113-124, event.go:27-38.
THEOREM AnnouncementsMatch == Spec => []EventsMatchChanges
<1>1. Inv => EventsMatchChanges
  BY DEF Inv
<1> QED
  BY <1>1, Invariance, PTL

\* No statement brings back a row that is gone: the checker and the update handler
\* write rows that they read before, api/server.go:304 and dns_record.go:143.
THEOREM DeletionIsFinal == Spec => DeletedStaysDeleted
<1> DEFINE Stays == /\ \A z \in Zones : row[z] = "none" => row'[z] = "none"
                    /\ \A r \in used : home[r] = None => home'[r] = None
<1>1. Inv /\ [Next]_vars => [Stays]_vars
  <2> SUFFICES ASSUME Inv, Next PROVE Stays
    BY DEF vars
  <2> USE DEF Inv, TypeOK, tables
  <2>1. ASSUME NEW h \in Handlers, Arrive(h) PROVE Stays
    BY <2>1 DEF Arrive, CreateZone, FindZoneToDelete, FindZone, FindRecord, Begin
  <2>2. ASSUME NEW h \in Handlers, Statement(h) PROVE Stays
    BY <2>2 DEF Statement, DeleteZoneRow, DeleteZoneRecords, CommitDelete, UpdateRecord,
                DeleteRecord, InsertRecord, Apply, Go
  <2>3. ASSUME NEW h \in Handlers, Refuse(h) \/ Fail(h) \/ StartPublish(h) \/ Crash(h)
        PROVE  Stays
    BY <2>3 DEF Refuse, Fail, StartPublish, Crash
  <2>4. ASSUME NEW p \in Replicas, NEW z \in Zones, CheckZone(p, z) PROVE Stays
    BY <2>4 DEF CheckZone, LookupNS, Activate, AnnounceZone, Proceed
  <2>5. ASSUME (\E d \in bus : PublishEvent(d)) \/ (\E name \in Names : Delegate(name))
               \/ (\E p \in Replicas : Check(p) \/ CrashChecker(p))
        PROVE  Stays
    BY <2>5 DEF PublishEvent, Delegate, Check, CrashChecker
  <2> QED
    BY <2>1, <2>2, <2>3, <2>4, <2>5 DEF Next, Handle
<1> QED
  BY <1>1, Invariance, PTL DEF Spec, DeletedStaysDeleted

-----------------------------------------------------------------------------
(* The refinement of ZoneTables.                                           *)

\* Nothing is owed under the number of a request that goes on.
LEMMA NumberIsFresh ==
  ASSUME Inv, NEW h \in Handlers, pc[h] \notin {"idle", "refused"}, h \notin Announcing
  PROVE  no[h] \in (1 .. MaxRequests) \ (published \cup dropped \cup {e.no : e \in Owed})
<1> USE MaxRequestsAssumption DEF Inv
<1>1. no[h] \in 1 .. MaxRequests
  BY DEF TypeOK, HandlerOK
<1>2. no[h] \notin published \cup dropped
  BY <1>1 DEF NumbersOK
<1>3. ASSUME NEW e \in Owed PROVE e.no # no[h]
  <2>1. CASE e \in bus
    BY <1>1, <2>1 DEF NumbersOK
  <2>2. ASSUME NEW g \in Announcing, e = Announcement(g) PROVE e.no # no[h]
    BY <1>1, <2>2, AnnouncementType DEF Announcing, NumbersOK
  <2> QED
    BY <2>1, <2>2 DEF Owed
<1> QED
  BY <1>1, <1>2, <1>3

\* A step that changes no announcement in the making leaves what is owed.
LEMMA OwedStays ==
  ASSUME bus' = bus, Announcing' = Announcing,
         \A h \in Announcing : pc'[h] = pc[h] /\ zone'[h] = zone[h] /\ no'[h] = no[h]
  PROVE  Owed' = Owed
<1>1. \A h \in Announcing : Announcement(h)' = Announcement(h)
  BY DEF Announcement
<1> QED
  BY <1>1 DEF Owed

\* A handler that has changed the database owes an announcement.
LEMMA OweStep ==
  ASSUME Inv, NEW h \in Handlers, pc[h] \notin {"idle", "refused"}, h \notin Announcing,
         NEW next \in {"announce_record", "announce_zone"},
         Go(h, next), UNCHANGED <<bus, published, dropped>>
  PROVE  Tables!Owe(IF next = "announce_zone" THEN "zone_delete" ELSE "dns_record", zone[h])
<1> DEFINE type == IF next = "announce_zone" THEN "zone_delete" ELSE "dns_record"
           d == [type |-> type, name |-> NameOf[zone[h]], no |-> no[h]]
<1>1. Announcing' = Announcing \cup {h}
  BY DEF Announcing, Go, Inv, TypeOK
<1>2. \A g \in Announcing : Announcement(g)' = Announcement(g)
  BY DEF Announcement, Announcing, Go, Inv, TypeOK
<1>3. Announcement(h)' = d
  BY DEF Announcement, Go, Inv, TypeOK
<1> HIDE DEF d
<1>4. Owed' = Owed \cup {d}
  BY <1>1, <1>2, <1>3 DEF Owed
<1>5. no[h] \in (1 .. MaxRequests) \ (published \cup dropped \cup {e.no : e \in Owed})
  BY NumberIsFresh
<1> QED
  BY <1>4, <1>5 DEF Tables!Owe, d

\* The goroutine takes over what the handler owes.
LEMMA StartPublishOwes ==
  ASSUME Inv, NEW h \in Handlers, StartPublish(h) PROVE Owed' = Owed
<1>1. Announcing' = Announcing \ {h} /\ h \in Announcing
  BY DEF Announcing, StartPublish, Finish, Inv, TypeOK
<1>2. \A g \in Announcing \ {h} : Announcement(g)' = Announcement(g)
  BY DEF Announcement, Announcing, StartPublish, Finish, Inv, TypeOK
<1>3. bus' = bus \cup {Announcement(h)} /\ Announcement(h).no # 0
  BY <1>1, AnnouncementType DEF StartPublish
<1> QED
  BY <1>1, <1>2, <1>3 DEF Owed

\* A published event, or one that is lost, is not owed any more.
LEMMA PublishStep ==
  ASSUME Inv, NEW d \in bus, PublishEvent(d) PROVE [Tables!Next]_(Tables!vars)
<1> USE DEF PublishEvent, tables, request
<1>1. Announcing' = Announcing /\ \A h \in Announcing : Announcement(h)' = Announcement(h)
  BY DEF Announcing, Announcement
<1>2. Deleting' = Deleting
  BY DEF Deleting
<1>3. CASE d.no = 0
  <2>1. Owed' = Owed
    BY <1>1, <1>3 DEF Owed
  <2> QED
    BY <1>2, <1>3, <2>1 DEF Tables!vars
<1>4. CASE d.no # 0
  <2>1. \A h \in Announcing : Announcement(h) # d
    BY AnnouncementType DEF Inv, NumbersOK, Announcing
  <2>2. d \in Owed /\ Owed' = Owed \ {d}
    BY <1>1, <1>4, <2>1 DEF Owed
  <2>3. Tables!Publish(d)
    BY <1>2, <1>4, <2>2 DEF Tables!Publish
  <2> QED
    BY <2>2, <2>3 DEF Tables!Next
<1> QED
  BY <1>3, <1>4

\* A request that ends before it has changed the database has at most opened a
\* transaction.
LEMMA ForgetStep ==
  ASSUME Inv, NEW h \in Handlers, Finish(h), h \notin Announcing,
         UNCHANGED <<tables, bus, history>>
  PROVE  Tables!Next
<1> USE DEF tables, history
<1>1. Owed' = Owed
  <2>1. Announcing' = Announcing
    BY DEF Announcing, Finish, Inv, TypeOK
  <2> QED
    BY <2>1, OwedStays DEF Announcing, Finish, Inv, TypeOK
<1>2. Deleting' = [Deleting EXCEPT ![h] = None]
  BY DEF Deleting, Finish, Inv, TypeOK
<1>3. Tables!AbortDelete(h)
  BY <1>1, <1>2 DEF Tables!AbortDelete
<1> QED
  BY <1>3 DEF Tables!Next

\* A process that dies loses the announcement that it owes.
LEMMA CrashStep ==
  ASSUME Inv, NEW h \in Handlers, Crash(h) PROVE Tables!Next
<1> USE DEF tables, history
<1>1. CASE h \notin Announcing
  BY <1>1, ForgetStep DEF Crash, Announcing
<1>2. CASE h \in Announcing
  <2> DEFINE d == Announcement(h)
  <2>1. Announcing' = Announcing \ {h}
    BY DEF Announcing, Crash, Finish, Inv, TypeOK
  <2>2. \A g \in Announcing \ {h} : Announcement(g)' = Announcement(g) /\ Announcement(g) # d
    <3>1. ASSUME NEW g \in Announcing \ {h} PROVE Announcement(g).no # d.no
      BY <1>2, <3>1, AnnouncementType DEF Inv, NumbersOK, Announcing
    <3> QED
      BY <3>1 DEF Announcement, Announcing, Crash, Finish, Inv, TypeOK
  <2>3. d \notin bus /\ d.no = no[h]
    BY <1>2, AnnouncementType DEF Inv, NumbersOK, Announcing
  <2>4. d \in Owed /\ Owed' = Owed \ {d}
    <3> HIDE DEF d
    <3>1. bus' = bus
      BY DEF Crash
    <3>2. d \in Owed
      BY <1>2 DEF Owed, d
    <3> QED
      BY <2>1, <2>2, <2>3, <3>1, <3>2 DEF Owed, d
  <2>5. Deleting' = Deleting
    BY <1>2 DEF Deleting, Announcing, Crash, Finish, Inv, TypeOK
  <2>6. Tables!Publish(d)
    BY <1>2, <2>3, <2>4, <2>5 DEF Tables!Publish, Crash, Announcing
  <2> QED
    BY <2>4, <2>6 DEF Tables!Next
<1> QED
  BY <1>1, <1>2

\* Until it has changed the database a request is seen by no reader, but for the
\* transaction that it opens.
LEMMA QuietRequestStep ==
  ASSUME Inv, NEW h \in Handlers, h \notin Announcing, pc[h] # "commit",
         NEW next \in PCs \ {"commit", "announce_record", "announce_zone"},
         pc' = [pc EXCEPT ![h] = next],
         \A g \in Handlers \ {h} : zone'[g] = zone[g] /\ no'[g] = no[g],
         UNCHANGED <<tables, bus, history>>
  PROVE  UNCHANGED Tables!vars
<1>1. Announcing' = Announcing
  BY DEF Announcing, Inv, TypeOK
<1>2. Owed' = Owed
  BY <1>1, OwedStays DEF Announcing, Inv, TypeOK
<1>3. Deleting' = Deleting
  BY DEF Deleting, Inv, TypeOK
<1> QED
  BY <1>2, <1>3 DEF Tables!vars, tables, history

\* The commit is the deletion of the zone and of its records.
LEMMA CommitStep ==
  ASSUME Inv, NEW h \in Handlers, CommitDelete(h) PROVE Tables!Next
<1> DEFINE z == zone[h]
           left == late \ doomed[h]
<1>1. z \in Zones /\ z # None
  BY NoneAssumption DEF Inv, HandlerOK, CommitDelete
<1>2. Deleting[h] = z /\ Deleting' = [Deleting EXCEPT ![h] = None]
  BY DEF CommitDelete, Go, Deleting, Inv, TypeOK
<1>3. home' = [r \in Records |->
                 IF home[r] # None /\ Tables!SameKey(home[r], z) /\ r \notin left
                 THEN None ELSE home[r]]
  <2>1. ASSUME NEW r \in Records, home[r] # None
        PROVE  r \in doomed[h] <=> Tables!SameKey(home[r], z) /\ r \notin left
    BY <2>1 DEF Inv, DeletesAll, FoundOK, CommitDelete, SameKey, Tables!SameKey
  <2> QED
    BY <2>1 DEF CommitDelete
<1>4. Tables!Owe("zone_delete", z)
  BY OweStep DEF CommitDelete, Announcing
<1>5. left \in SUBSET late
  OBVIOUS
<1> HIDE DEF left
<1>6. Tables!DeleteZone(h, z)
  BY <1>1, <1>2, <1>3, <1>4, <1>5 DEF CommitDelete, Tables!DeleteZone
<1> QED
  BY <1>1, <1>6 DEF Tables!Next

\* A statement that changes a record is the whole change.
LEMMA RecordStep ==
  ASSUME Inv, NEW h \in Handlers, UpdateRecord(h) \/ DeleteRecord(h) \/ \E r \in Records : InsertRecord(h, r)
  PROVE  Tables!Next
<1> DEFINE z == zone[h]
<1>1. pc[h] \in {"insert", "update", "delete"} /\ h \notin Announcing
  BY DEF UpdateRecord, DeleteRecord, InsertRecord, Announcing
<1>2. z \in Zones
  BY <1>1 DEF Inv, HandlerOK
<1>3. Apply(h)
  BY DEF UpdateRecord, DeleteRecord, InsertRecord
<1>4. Deleting' = Deleting
  BY <1>1, <1>3 DEF Apply, Go, Deleting, Inv, TypeOK
<1>5. Tables!Owe("dns_record", z)
  BY <1>1, <1>3, OweStep DEF Apply
<1>6. CASE UpdateRecord(h)
  <2>1. rec[h] \in used /\ rec[h] \in Records /\ home[rec[h]] \in {z, None}
    BY <1>6 DEF UpdateRecord, Inv, TypeOK, FoundOK, HandlerOK
  <2>2. Tables!UpdateRecord(rec[h], z)
    BY <1>3, <1>4, <1>5, <1>6, <2>1 DEF UpdateRecord, Apply, Tables!UpdateRecord
  <2> QED
    BY <1>2, <2>1, <2>2 DEF Tables!Next
<1>7. CASE DeleteRecord(h)
  <2>1. rec[h] \in used /\ rec[h] \in Records /\ home[rec[h]] \in {z, None}
    BY <1>7 DEF DeleteRecord, Inv, TypeOK, FoundOK, HandlerOK
  <2>2. Tables!DeleteRecord(rec[h], z)
    BY <1>3, <1>4, <1>5, <1>7, <2>1 DEF DeleteRecord, Apply, Tables!DeleteRecord
  <2> QED
    BY <1>2, <2>1, <2>2 DEF Tables!Next
<1>8. ASSUME NEW r \in Records, InsertRecord(h, r) PROVE Tables!Next
  <2>1. ASSUME NEW g \in Handlers
        PROVE  pc[g] = "commit" /\ SameKey(zone[g], z)
               <=> Deleting[g] # None /\ Tables!SameKey(Deleting[g], z)
    BY NoneAssumption DEF Deleting, Inv, HandlerOK, SameKey, Tables!SameKey
  <2>2. Tables!InsertRecord(r, z)
    BY <1>3, <1>4, <1>5, <1>8, <2>1 DEF InsertRecord, Apply, Tables!InsertRecord
  <2> QED
    BY <1>2, <2>2 DEF Tables!Next
<1> QED
  BY <1>6, <1>7, <1>8

\* Every step of the API is a step of ZoneTables or none at all.
LEMMA StepRefinement == Inv /\ [Next]_vars => [Tables!Next]_(Tables!vars)
<1> SUFFICES ASSUME Inv, [Next]_vars PROVE [Tables!Next]_(Tables!vars)
  OBVIOUS
<1>1. ASSUME UNCHANGED <<tables, bus, request, history>> PROVE UNCHANGED Tables!vars
  BY <1>1 DEF Tables!vars, Deleting, Owed, Announcing, Announcement, tables, request, history
<1>2. CASE UNCHANGED vars
  BY <1>1, <1>2 DEF vars
<1>3. ASSUME NEW h \in Handlers, Arrive(h) PROVE UNCHANGED Tables!vars
  <2>1. h \notin Announcing /\ pc[h] # "commit"
    BY <1>3 DEF Arrive, CreateZone, FindZoneToDelete, FindZone, FindRecord, Begin, Announcing
  <2>2. ASSUME NEW z \in Zones, CreateZone(h, z) PROVE UNCHANGED Tables!vars
    <3>1. pc' = [pc EXCEPT ![h] = "refused"] /\ UNCHANGED <<tables, bus, history>>
      BY <2>2 DEF CreateZone
    <3>2. \A g \in Handlers \ {h} : zone'[g] = zone[g] /\ no'[g] = no[g]
      BY <2>2 DEF CreateZone, Inv, TypeOK
    <3> QED
      BY <2>1, <3>1, <3>2, QuietRequestStep DEF PCs
  <2>3. ASSUME NEW next \in {"insert", "update", "delete", "del_zone"}, NEW z, NEW r,
               Begin(h, next, z, r)
        PROVE  UNCHANGED Tables!vars
    <3>1. pc' = [pc EXCEPT ![h] = next] /\ UNCHANGED <<tables, bus, history>>
      BY <2>3 DEF Begin
    <3>2. \A g \in Handlers \ {h} : zone'[g] = zone[g] /\ no'[g] = no[g]
      BY <2>3 DEF Begin, Inv, TypeOK
    <3> QED
      BY <2>1, <3>1, <3>2, QuietRequestStep DEF PCs
  <2> QED
    BY <1>3, <2>2, <2>3 DEF Arrive, FindZoneToDelete, FindZone, FindRecord
<1>4. ASSUME NEW h \in Handlers, Refuse(h) \/ Fail(h) PROVE Tables!Next
  BY <1>4, ForgetStep DEF Refuse, Fail, Announcing
<1>5. ASSUME NEW h \in Handlers, Crash(h) PROVE Tables!Next
  BY <1>5, CrashStep
<1>6. ASSUME NEW h \in Handlers, StartPublish(h) PROVE UNCHANGED Tables!vars
  <2>1. Deleting' = Deleting
    BY <1>6 DEF StartPublish, Finish, Deleting, Inv, TypeOK
  <2> QED
    BY <1>6, <2>1, StartPublishOwes DEF StartPublish, Tables!vars, tables, history
<1>7. ASSUME NEW h \in Handlers, DeleteZoneRow(h) PROVE UNCHANGED Tables!vars
  <2>1. pc' = [pc EXCEPT ![h] = "del_records"] /\ UNCHANGED <<zone, no, tables, bus, history>>
    BY <1>7 DEF DeleteZoneRow, Go
  <2> QED
    BY <1>7, <2>1, QuietRequestStep DEF DeleteZoneRow, PCs, Announcing
<1>8. ASSUME NEW h \in Handlers, DeleteZoneRecords(h) PROVE Tables!Next
  <2>1. pc[h] = "del_records" /\ pc' = [pc EXCEPT ![h] = "commit"] /\ UNCHANGED <<zone, no, bus>>
    BY <1>8 DEF DeleteZoneRecords, Go
  <2>2. Owed' = Owed
    BY <2>1, OwedStays DEF Announcing, Inv, TypeOK
  <2>3. zone[h] \in Zones /\ Deleting[h] = None /\ Deleting' = [Deleting EXCEPT ![h] = zone[h]]
    BY <2>1 DEF Deleting, Inv, TypeOK, HandlerOK
  <2>4. Tables!StartDelete(h, zone[h])
    BY <1>8, <2>2, <2>3 DEF DeleteZoneRecords, Tables!StartDelete, tables, history
  <2> QED
    BY <2>3, <2>4 DEF Tables!Next
<1>9. ASSUME NEW h \in Handlers, Statement(h) PROVE [Tables!Next]_(Tables!vars)
  BY <1>7, <1>8, <1>9, CommitStep, RecordStep DEF Statement
<1>10. ASSUME NEW d \in bus, PublishEvent(d) PROVE [Tables!Next]_(Tables!vars)
  BY <1>10, PublishStep
<1>11. ASSUME NEW p \in Replicas, NEW z \in Zones, CheckZone(p, z)
       PROVE  [Tables!Next]_(Tables!vars)
  <2>1. CASE LookupNS(p, z)
    BY <1>1, <2>1 DEF LookupNS, Proceed, tables
  <2>2. CASE Activate(p, z)
    <3>1. Owed' = Owed /\ Deleting' = Deleting
      BY <2>2 DEF Activate, Proceed, request, Owed, Announcing, Announcement, Deleting
    <3>2. CASE row[z] # "none" /\ row' = [row EXCEPT ![z] = "active"]
      <4>1. Tables!ActivateZone(z)
        BY <2>2, <3>1, <3>2 DEF Activate, Proceed, history, Tables!ActivateZone
      <4> QED
        BY <4>1 DEF Tables!Next
    <3>3. CASE row' = row
      BY <2>2, <3>1, <3>3 DEF Activate, Proceed, history, Tables!vars
    <3> QED
      BY <2>2, <3>2, <3>3 DEF Activate, Inv, TypeOK
  <2>3. CASE AnnounceZone(p, z)
    <3>1. {e \in bus : e.no # 0}' = {e \in bus : e.no # 0}
      BY <2>3 DEF AnnounceZone
    <3>2. Owed' = Owed /\ Deleting' = Deleting
      BY <2>3, <3>1 DEF AnnounceZone, Proceed, request, Owed, Announcing, Announcement, Deleting
    <3> QED
      BY <2>3, <3>2 DEF AnnounceZone, Proceed, history, Tables!vars
  <2> QED
    BY <1>11, <2>1, <2>2, <2>3 DEF CheckZone
<1>12. ASSUME (\E name \in Names : Delegate(name))
              \/ (\E p \in Replicas : Check(p) \/ CrashChecker(p))
       PROVE  UNCHANGED Tables!vars
  BY <1>1, <1>12 DEF Delegate, Check, CrashChecker
<1> QED
  BY <1>2, <1>3, <1>4, <1>5, <1>6, <1>9, <1>10, <1>11, <1>12 DEF Next, Handle

\* The statements, transactions, failures and goroutines of zone.go:97-125,
\* dns_record.go:29-175 and event.go:27-38 amount to what ZoneTables promises: a
\* zone and its records go at once, and each change is announced once at most.
THEOREM Refinement == Spec => ImplementsZoneTables
<1>1. Init => Tables!Init
  BY DEF Init, Tables!Init, Owed, Deleting, Announcing
<1>2. Inv /\ [Next]_vars => [Tables!Next]_(Tables!vars)
  BY StepRefinement
<1> QED
  BY <1>1, <1>2, Invariance, PTL DEF Spec, ImplementsZoneTables, Tables!Spec
=============================================================================
