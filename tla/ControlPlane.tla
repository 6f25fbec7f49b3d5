---------------------------- MODULE ControlPlane ----------------------------
(***************************************************************************)
(* The API server's side of a zone's life: the handlers of backend/        *)
(* internal/handlers/zone.go and dns_record.go, the zone checker of        *)
(* api/server.go, and the events of event.go.  A handler is a sequence of  *)
(* database statements, each of which may fail, with other handlers and    *)
(* other replicas in between; only DeleteZone uses a transaction.  What    *)
(* was changed is announced by a goroutine that the handler starts last.   *)
(*                                                                         *)
(* A row that a transaction has deleted and not yet committed is locked:   *)
(* statements that write it wait.  Reads see what is committed.  The       *)
(* columns of a record other than its zone are left out.                   *)
(***************************************************************************)
EXTENDS Naturals

CONSTANTS
    Zones,        \* ids of rows of the zones table
    NameOf,       \* NameOf[z]: zone name of row z
    OwnerOf,      \* OwnerOf[z]: user id of row z
    Records,      \* ids that rows of the dns_records table get
    Handlers,     \* requests the API handles at the same time
    Replicas,     \* API processes, each with a zone checker
    None,
    MaxRequests   \* bound: requests that change something

ASSUME NoneAssumption == None \notin Zones \cup Records
ASSUME MaxRequestsAssumption == MaxRequests \in Nat

Names == {NameOf[z] : z \in Zones}

VARIABLES
    row,          \* row[z]: "none", "inactive" or "active"
    home,         \* home[r]: zone row that record r belongs to, None if r is no row
    delegated,    \* names whose NS records name our servers
    bus           \* events that goroutines are about to publish

VARIABLES         \* of handler h
    pc,           \* where it is
    zone,         \* the zone row it found, or the record's
    rec,          \* the record row it found
    doomed,       \* records that its open transaction has deleted
    no            \* number of its request

VARIABLES
    check,        \* check[p][z]: where replica p's goroutine that checks z is
    requests,     \* number of requests so far
    used          \* ids that records have had: ids are never given twice

\* History variables: they record what happened and guard nothing.
VARIABLES
    late,         \* records inserted after their zone's records were deleted
    applied,      \* requests whose change is in the database
    published,    \* requests whose change was announced
    dropped       \* requests whose announcement was lost

tables  == <<row, home, used>>
request == <<pc, zone, rec, doomed, no>>
history == <<late, applied, published, dropped>>
vars    == <<tables, delegated, bus, request, check, requests, history>>

PCs == {"idle", "refused", "insert", "update", "delete", "del_zone", "del_records", "commit",
        "announce_record", "announce_zone"}

Events == [type : {"dns_record", "zone_create", "zone_delete"}, name : Names,
           no : 0 .. MaxRequests]

TypeOK ==
    /\ row \in [Zones -> {"none", "inactive", "active"}]
    /\ home \in [Records -> Zones \cup {None}]
    /\ delegated \in SUBSET Names
    /\ bus \in SUBSET Events
    /\ pc \in [Handlers -> PCs]
    /\ zone \in [Handlers -> Zones \cup {None}]
    /\ rec \in [Handlers -> Records \cup {None}]
    /\ doomed \in [Handlers -> SUBSET Records]
    /\ no \in [Handlers -> 0 .. MaxRequests]
    /\ check \in [Replicas -> [Zones -> {"idle", "lookup", "update", "announce"}]]
    /\ requests \in 0 .. MaxRequests
    /\ used \in SUBSET Records
    /\ late \in SUBSET used
    /\ applied \in SUBSET (1 .. MaxRequests)
    /\ published \in SUBSET (1 .. MaxRequests)
    /\ dropped \in SUBSET (1 .. MaxRequests)

\* Zones and records of earlier deployments are in the database, at most one
\* active zone of each name among them.
Init ==
    /\ row \in [Zones -> {"none", "inactive", "active"}]
    /\ \A y, z \in Zones : row[y] = "active" /\ row[z] = "active" /\ NameOf[y] = NameOf[z] => y = z
    /\ home \in [Records -> Zones \cup {None}]
    /\ \A r \in Records : home[r] # None => row[home[r]] # "none"
    /\ used = {r \in Records : home[r] # None}
    /\ delegated = {}
    /\ bus = {}
    /\ pc = [h \in Handlers |-> "idle"]
    /\ zone = [h \in Handlers |-> None]
    /\ rec = [h \in Handlers |-> None]
    /\ doomed = [h \in Handlers |-> {}]
    /\ no = [h \in Handlers |-> 0]
    /\ check = [p \in Replicas |-> [z \in Zones |-> "idle"]]
    /\ requests = 0
    /\ late = {} /\ applied = {} /\ published = {} /\ dropped = {}

-----------------------------------------------------------------------------
(* Steps that handlers share.                                              *)

\* A request comes in: h has found zone row z and record row r and goes on at
\* the statement called next.  What is not found ends the request.
Begin(h, next, z, r) ==
    /\ pc[h] = "idle"
    /\ requests < MaxRequests
    /\ requests' = requests + 1
    /\ no' = [no EXCEPT ![h] = requests + 1]
    /\ pc' = [pc EXCEPT ![h] = next]
    /\ zone' = [zone EXCEPT ![h] = z]
    /\ rec' = [rec EXCEPT ![h] = r]
    /\ UNCHANGED <<tables, delegated, bus, doomed, check, history>>

\* h is done; its request is forgotten.
Finish(h) ==
    /\ pc' = [pc EXCEPT ![h] = "idle"]
    /\ zone' = [zone EXCEPT ![h] = None]
    /\ rec' = [rec EXCEPT ![h] = None]
    /\ doomed' = [doomed EXCEPT ![h] = {}]
    /\ no' = [no EXCEPT ![h] = 0]

\* The statement at which h is went through; what follows is at next.
Go(h, next) ==
    /\ pc' = [pc EXCEPT ![h] = next]
    /\ UNCHANGED <<zone, rec, no>>

\* The statement fails: the error is returned, an open transaction rolled back.  One
\* that took effect although its answer was lost is the statement and then Crash:
\* the request is forgotten and its change announced to nobody.
Fail(h) ==
    /\ pc[h] \in {"insert", "update", "delete", "del_zone", "del_records", "commit"}
    /\ Finish(h)
    /\ UNCHANGED <<tables, delegated, bus, check, requests, history>>

\* The rows that open transactions have deleted.
LockedZone(z)   == \E h \in Handlers : pc[h] \in {"del_records", "commit"} /\ zone[h] = z
LockedRecord(r) == \E h \in Handlers : r \in doomed[h]

\* Zone rows of one user and name: DeleteZone tells their records not apart.
SameKey(y, z) == NameOf[y] = NameOf[z] /\ OwnerOf[y] = OwnerOf[z]

-----------------------------------------------------------------------------
(* ZoneHandler                                                             *)

Taken(name) == \E z \in Zones : row[z] = "active" /\ NameOf[z] = name

\* CreateZone, for the name of row z: the error of First, also the one for no
\* row found, refuses the request, and so does a row that is found.  The insert
\* after the two checks is never reached.
CreateZone(h, z) ==
    /\ pc[h] = "idle"
    /\ \/ ~Taken(NameOf[z]) /\ pc' = [pc EXCEPT ![h] = "refused"]
       \/ Taken(NameOf[z])  /\ pc' = [pc EXCEPT ![h] = "refused"]
    /\ zone' = [zone EXCEPT ![h] = z]
    /\ UNCHANGED <<tables, delegated, bus, rec, doomed, no, check, requests, history>>

Refuse(h) ==
    /\ pc[h] = "refused"
    /\ Finish(h)
    /\ UNCHANGED <<tables, delegated, bus, check, requests, history>>

FindZoneToDelete(h, z) == row[z] # "none" /\ Begin(h, "del_zone", z, None)

\* Mutant: the zone row is deleted outside the transaction.
DeleteZoneRowAtOnce(h) ==
    /\ pc[h] = "del_zone"
    /\ ~LockedZone(zone[h])
    /\ row' = [row EXCEPT ![zone[h]] = "none"]
    /\ Go(h, "del_records")
    /\ UNCHANGED <<home, used, delegated, bus, doomed, check, requests, history>>

\* Begin, and the delete of the zone row: it may be gone by now.
DeleteZoneRow(h) ==
    /\ pc[h] = "del_zone"
    /\ ~LockedZone(zone[h])
    /\ Go(h, "del_records")
    /\ UNCHANGED <<tables, delegated, bus, doomed, check, requests, history>>

\* Mutant: the error of the second delete is ignored.
DeleteZoneRecordsOrNot(h) ==
    LET all == {r \in Records : home[r] # None /\ SameKey(home[r], zone[h])} IN
    /\ pc[h] = "del_records"
    /\ \A r \in all : ~LockedRecord(r)
    /\ doomed' \in {[doomed EXCEPT ![h] = all], doomed}
    /\ Go(h, "commit")
    /\ UNCHANGED <<tables, delegated, bus, check, requests, history>>

\* The delete of the records that the same user has under the zone's name.
DeleteZoneRecords(h) ==
    LET all == {r \in Records : home[r] # None /\ SameKey(home[r], zone[h])} IN
    /\ pc[h] = "del_records"
    /\ \A r \in all : ~LockedRecord(r)
    /\ doomed' = [doomed EXCEPT ![h] = all]
    /\ Go(h, "commit")
    /\ UNCHANGED <<tables, delegated, bus, check, requests, history>>

\* Mutant: the error of Commit is ignored.
CommitOrNot(h) ==
    /\ pc[h] = "commit"
    /\ \/ /\ row' = [row EXCEPT ![zone[h]] = "none"]
          /\ home' = [r \in Records |-> IF r \in doomed[h] THEN None ELSE home[r]]
          /\ applied' = applied \cup {no[h]}
       \/ UNCHANGED <<row, home, applied>>
    /\ doomed' = [doomed EXCEPT ![h] = {}]
    /\ Go(h, "announce_zone")
    /\ UNCHANGED <<delegated, bus, check, requests, used, late, published, dropped>>

\* Both deletes take effect together.
CommitDelete(h) ==
    /\ pc[h] = "commit"
    /\ row' = [row EXCEPT ![zone[h]] = "none"]
    /\ home' = [r \in Records |-> IF r \in doomed[h] THEN None ELSE home[r]]
    /\ applied' = applied \cup {no[h]}
    /\ doomed' = [doomed EXCEPT ![h] = {}]
    /\ Go(h, "announce_zone")
    /\ UNCHANGED <<delegated, bus, check, requests, used, late, published, dropped>>

-----------------------------------------------------------------------------
(* DNSRecordHandler                                                        *)

FindZone(h, z) == row[z] # "none" /\ Begin(h, "insert", z, None)

\* The statement of h has changed the database.
Apply(h) ==
    /\ applied' = applied \cup {no[h]}
    /\ Go(h, "announce_record")
    /\ UNCHANGED <<row, delegated, bus, doomed, check, requests, published, dropped>>

\* The record is inserted, whatever became of the zone that was found: nothing
\* ties the two tables together.
InsertRecord(h, r) ==
    /\ pc[h] = "insert"
    /\ r \notin used
    /\ used' = used \cup {r}
    /\ home' = [home EXCEPT ![r] = zone[h]]
    /\ late' = IF \/ row[zone[h]] = "none"
                  \/ \E g \in Handlers : pc[g] = "commit" /\ SameKey(zone[g], zone[h])
               THEN late \cup {r} ELSE late
    /\ Apply(h)

FindRecord(h, r, next) ==
    /\ home[r] # None
    /\ next \in {"update", "delete"}
    /\ Begin(h, next, home[r], r)

\* The update writes columns, none that matters here, of a row that may be gone.
UpdateRecord(h) ==
    /\ pc[h] = "update"
    /\ ~LockedRecord(rec[h])
    /\ Apply(h)
    /\ UNCHANGED <<home, used, late>>

DeleteRecord(h) ==
    /\ pc[h] = "delete"
    /\ ~LockedRecord(rec[h])
    /\ home' = [home EXCEPT ![rec[h]] = None]
    /\ Apply(h)
    /\ UNCHANGED <<used, late>>

-----------------------------------------------------------------------------
(* Events                                                                  *)

\* The event that h is about to publish.
Announcement(h) ==
    [type |-> IF pc[h] = "announce_zone" THEN "zone_delete" ELSE "dns_record",
     name |-> NameOf[zone[h]], no |-> no[h]]

\* The handler starts the goroutine that will publish, and returns.
StartPublish(h) ==
    /\ pc[h] \in {"announce_record", "announce_zone"}
    /\ bus' = bus \cup {Announcement(h)}
    /\ Finish(h)
    /\ UNCHANGED <<tables, delegated, check, requests, history>>

\* The goroutine publishes, or fails to, or dies with its process.
PublishEvent(e) ==
    /\ bus' = bus \ {e}
    /\ \/ published' = published \cup ({e.no} \ {0}) /\ UNCHANGED dropped
       \/ dropped' = dropped \cup ({e.no} \ {0}) /\ UNCHANGED published
    /\ UNCHANGED <<tables, delegated, request, check, requests, late, applied>>

\* The process of h dies, between any two steps; its transaction is rolled back.
Crash(h) ==
    /\ pc[h] # "idle"
    /\ Finish(h)
    /\ dropped' = IF pc[h] \in {"announce_record", "announce_zone"}
                  THEN dropped \cup {no[h]} ELSE dropped
    /\ UNCHANGED <<tables, delegated, bus, check, requests, late, applied, published>>

-----------------------------------------------------------------------------
(* The zone checker, run by every replica at its start and every 5 minutes *)

\* The owner of a name changes its NS records at the registrar.
Delegate(name) ==
    /\ delegated' \in {delegated \cup {name}, delegated \ {name}} \ {delegated}
    /\ UNCHANGED <<tables, bus, request, check, requests, history>>

\* Mutant: the query asks for the zones that are active.
CheckActive(p) ==
    LET due == {z \in Zones : row[z] = "active" /\ check[p][z] = "idle"} IN
    /\ due # {}
    /\ check' = [check EXCEPT ![p] = [z \in Zones |-> IF z \in due THEN "lookup" ELSE @[z]]]
    /\ UNCHANGED <<tables, delegated, bus, request, requests, history>>

\* The inactive zones are read, and a goroutine started for each.
Check(p) ==
    LET due == {z \in Zones : row[z] = "inactive" /\ check[p][z] = "idle"} IN
    /\ due # {}
    /\ check' = [check EXCEPT ![p] = [z \in Zones |-> IF z \in due THEN "lookup" ELSE @[z]]]
    /\ UNCHANGED <<tables, delegated, bus, request, requests, history>>

Proceed(p, z, next) ==
    /\ check' = [check EXCEPT ![p][z] = next]
    /\ UNCHANGED <<home, used, delegated, request, requests, history>>

\* LookupNS names one of our servers, or does not, or fails.
LookupNS(p, z) ==
    /\ check[p][z] = "lookup"
    /\ \/ NameOf[z] \in delegated /\ Proceed(p, z, "update")
       \/ Proceed(p, z, "idle")
    /\ UNCHANGED <<row, bus>>

\* Mutant: Save instead of Update, which inserts a row that is gone.
ActivateOrInsert(p, z) ==
    /\ check[p][z] = "update"
    /\ ~LockedZone(z)
    /\ row' \in {[row EXCEPT ![z] = "active"], row}
    /\ Proceed(p, z, "announce")
    /\ UNCHANGED bus

\* The row, if it is still there, is made active; or the update fails, and the
\* goroutine goes on all the same.
Activate(p, z) ==
    /\ check[p][z] = "update"
    /\ ~LockedZone(z)
    /\ row' \in {[row EXCEPT ![z] = IF @ = "none" THEN @ ELSE "active"], row}
    /\ Proceed(p, z, "announce")
    /\ UNCHANGED bus

AnnounceZone(p, z) ==
    /\ check[p][z] = "announce"
    /\ bus' = bus \cup {[type |-> "zone_create", name |-> NameOf[z], no |-> 0]}
    /\ Proceed(p, z, "idle")
    /\ UNCHANGED row

\* The process dies with all its goroutines; a new one will check again.
CrashChecker(p) ==
    /\ \E z \in Zones : check[p][z] # "idle"
    /\ check' = [check EXCEPT ![p] = [z \in Zones |-> "idle"]]
    /\ UNCHANGED <<tables, delegated, bus, request, requests, history>>

-----------------------------------------------------------------------------
Arrive(h) ==
    \/ \E z \in Zones : CreateZone(h, z) \/ FindZoneToDelete(h, z) \/ FindZone(h, z)
    \/ \E r \in Records, next \in {"update", "delete"} : FindRecord(h, r, next)

Statement(h) ==
    \/ DeleteZoneRow(h) \/ DeleteZoneRecords(h) \/ CommitDelete(h)
    \/ UpdateRecord(h) \/ DeleteRecord(h)
    \/ \E r \in Records : InsertRecord(h, r)

Handle(h) == Refuse(h) \/ Statement(h) \/ Fail(h) \/ StartPublish(h)

CheckZone(p, z) == LookupNS(p, z) \/ Activate(p, z) \/ AnnounceZone(p, z)

Next ==
    \/ \E h \in Handlers : Arrive(h) \/ Handle(h) \/ Crash(h)
    \/ \E e \in bus : PublishEvent(e)
    \/ \E name \in Names : Delegate(name)
    \/ \E p \in Replicas : Check(p) \/ CrashChecker(p) \/ \E z \in Zones : CheckZone(p, z)

Spec == Init /\ [][Next]_vars

(***************************************************************************)
(* Handlers and goroutines run, statements end, and the ticker of each     *)
(* replica makes it check again.                                           *)
(***************************************************************************)
Fairness ==
    /\ \A h \in Handlers : WF_vars(Handle(h))
    /\ \A p \in Replicas : WF_vars(Check(p)) /\ \A z \in Zones : WF_vars(CheckZone(p, z))

FairSpec == Spec /\ Fairness

-----------------------------------------------------------------------------
(* Properties                                                              *)

\* A record without a zone was inserted by a CreateDNSRecord that had found the
\* zone, after a DeleteZone had deleted the zone's records: no other order of the
\* handlers, and no failure between the two deletes, leaves a record behind.
OrphansAreLate ==
    \A r \in Records : home[r] # None /\ row[home[r]] = "none" => r \in late

\* Handlers that have changed the database and not yet started a goroutine.
Announcing == {h \in Handlers : pc[h] \in {"announce_record", "announce_zone"}}

\* What is announced is in the database before, and what is in the database is
\* announced, about to be, or its announcement was lost with the process.
EventsMatchChanges ==
    applied = published \cup dropped
              \cup {e.no : e \in {e \in bus : e.no # 0}}
              \cup {no[h] : h \in Announcing}

\* A zone that was deleted never comes back, and neither does a record, although
\* the checker and the update handler write rows they found earlier.
DeletedStaysDeleted ==
    [][/\ \A z \in Zones : row[z] = "none" => row'[z] = "none"
       /\ \A r \in used : home[r] = None => home'[r] = None]_vars

\* A check of zone z ends without having activated it.
Stumbles(z) ==
    \E p \in Replicas :
        /\ check[p][z] \in {"lookup", "update"}
        /\ check'[p][z] \in {"idle", "announce"}
        /\ row'[z] = "inactive"

\* Checks are repeated: once a zone's name is delegated for good, and lookups,
\* updates and processes do not fail forever, the zone is activated or deleted.
ActivationIsRetried ==
    \A z \in Zones :
        <>[](NameOf[z] \in delegated) /\ <>[][~Stumbles(z)]_vars => <>[](row[z] # "inactive")

\* The zone whose deletion h is about to commit, and the changes still to announce.
Deleting == [h \in Handlers |-> IF pc[h] = "commit" THEN zone[h] ELSE None]
Owed     == {e \in bus : e.no # 0} \cup {Announcement(h) : h \in Announcing}

Tables == INSTANCE ZoneTables WITH
              Numbers <- 1 .. MaxRequests, deleting <- Deleting, owed <- Owed

\* To the reader of the tables a request is one step: the API with its statements,
\* transactions, failures and goroutines implements ZoneTables.
ImplementsZoneTables == Tables!Spec

\* zone.go:34, "check whether an active one of this zone name exists", :40, "zone
\* name already exists": CreateZone refuses a name only when it is taken.
RefusedOnlyIfTaken ==
    [][\A h \in Handlers : pc[h] # "refused" /\ pc'[h] = "refused" => Taken(NameOf[zone'[h]])]_vars

\* zone.go:34: a name has one active zone at most.
OneActivePerName ==
    \A y, z \in Zones : row[y] = "active" /\ row[z] = "active" /\ NameOf[y] = NameOf[z] => y = z

\* api/server.go:307, "the event is published only when active".
AnnouncedWhenActive ==
    [][\A p \in Replicas, z \in Zones :
          check[p][z] = "update" /\ check'[p][z] = "announce" => row'[z] = "active"]_vars

-----------------------------------------------------------------------------
(* The inductive invariant behind OrphansAreLate, EventsMatchChanges and   *)
(* ImplementsZoneTables.                                                   *)

HandlerOK(h) ==
    /\ pc[h] \notin {"idle", "refused"} => zone[h] \in Zones /\ no[h] # 0
    /\ pc[h] \in {"update", "delete"} => rec[h] \in Records
    /\ pc[h] # "commit" => doomed[h] = {}

\* What a transaction about to commit leaves behind was inserted too late.
DeletesAll(h) ==
    pc[h] = "commit" =>
        \A r \in Records : home[r] # None /\ SameKey(home[r], zone[h]) => r \in doomed[h] \cup late

\* A request is told from all others by its number as long as anyone has it.
NumbersOK ==
    /\ \A h \in Handlers : no[h] # 0 =>
          /\ no[h] <= requests /\ no[h] \notin published \cup dropped
          /\ \A g \in Handlers \ {h} : no[g] # no[h]
          /\ \A e \in bus : e.no # no[h]
    /\ \A e \in bus : e.no # 0 =>
          /\ e.no <= requests /\ e.no \notin published \cup dropped
          /\ \A d \in bus \ {e} : d.no # e.no
    /\ \A n \in published \cup dropped : n <= requests

\* The rows that h has found or deleted are gone, or where it has found them.
FoundOK(h) ==
    /\ \A r \in doomed[h] : r \in used /\ (home[r] = None \/ SameKey(home[r], zone[h]))
    /\ pc[h] \in {"update", "delete"} => rec[h] \in used /\ home[rec[h]] \in {zone[h], None}

Inv ==
    /\ TypeOK
    /\ \A h \in Handlers : HandlerOK(h) /\ DeletesAll(h)
    /\ \A r \in Records : home[r] # None => r \in used
    /\ OrphansAreLate
    /\ EventsMatchChanges
    /\ NumbersOK
    /\ \A h \in Handlers : FoundOK(h)
=============================================================================
