----------------------------- MODULE ZoneTables -----------------------------
(***************************************************************************)
(* What the API promises of the tables it keeps and of the announcements   *)
(* of their changes, without a word about requests, statements and         *)
(* goroutines.  A zone goes at once, with all its records but those that   *)
(* were inserted while it was going, or after.  Every change leaves one    *)
(* announcement, of the right kind and name, that is published or dropped  *)
(* once; nothing is announced that did not happen.                         *)
(***************************************************************************)
EXTENDS Naturals

CONSTANTS Zones, NameOf, OwnerOf, Records, Handlers, None, Numbers

VARIABLES
    row,        \* row[z]: "none", "inactive" or "active"
    home,       \* home[r]: the zone of record r, None if there is no record r
    used,       \* ids that records have had
    late,       \* records that came too late to go with their zone
    deleting,   \* deleting[h]: the zone that h is about to delete, or None
    owed,       \* announcements of changes that were made
    published,  \* numbers of the announcements that were published
    dropped     \* numbers of the announcements that were lost

vars == <<row, home, used, late, deleting, owed, published, dropped>>

SameKey(y, z) == NameOf[y] = NameOf[z] /\ OwnerOf[y] = OwnerOf[z]

Init ==
    /\ row \in [Zones -> {"none", "inactive", "active"}]
    /\ home \in [Records -> Zones \cup {None}]
    /\ \A r \in Records : home[r] # None => row[home[r]] # "none"
    /\ used = {r \in Records : home[r] # None}
    /\ late = {}
    /\ deleting = [h \in Handlers |-> None]
    /\ owed = {} /\ published = {} /\ dropped = {}

\* A change to zone z is made that is to be announced, under a number of its own.
Owe(type, z) ==
    /\ \E n \in Numbers \ (published \cup dropped \cup {e.no : e \in owed}) :
          owed' = owed \cup {[type |-> type, name |-> NameOf[z], no |-> n]}
    /\ UNCHANGED <<published, dropped>>

ActivateZone(z) ==
    /\ row[z] # "none"
    /\ row' = [row EXCEPT ![z] = "active"]
    /\ UNCHANGED <<home, used, late, deleting, owed, published, dropped>>

\* From here on a record of the zone may come too late to go with it.
StartDelete(h, z) ==
    /\ deleting[h] = None
    /\ deleting' = [deleting EXCEPT ![h] = z]
    /\ UNCHANGED <<row, home, used, late, owed, published, dropped>>

AbortDelete(h) ==
    /\ deleting' = [deleting EXCEPT ![h] = None]
    /\ UNCHANGED <<row, home, used, late, owed, published, dropped>>

\* The zone goes, and with it all records of its name and owner but late ones.
DeleteZone(h, z) ==
    /\ deleting[h] = z
    /\ deleting' = [deleting EXCEPT ![h] = None]
    /\ row' = [row EXCEPT ![z] = "none"]
    /\ \E left \in SUBSET late :
          home' = [r \in Records |->
                     IF home[r] # None /\ SameKey(home[r], z) /\ r \notin left
                     THEN None ELSE home[r]]
    /\ Owe("zone_delete", z)
    /\ UNCHANGED <<used, late>>

InsertRecord(r, z) ==
    /\ r \notin used
    /\ used' = used \cup {r}
    /\ home' = [home EXCEPT ![r] = z]
    /\ late' = IF \/ row[z] = "none"
                  \/ \E h \in Handlers : deleting[h] # None /\ SameKey(deleting[h], z)
               THEN late \cup {r} ELSE late
    /\ Owe("dns_record", z)
    /\ UNCHANGED <<row, deleting>>

\* The record may be gone by now: a change that changes nothing is announced too.
UpdateRecord(r, z) ==
    /\ r \in used
    /\ home[r] \in {z, None}
    /\ Owe("dns_record", z)
    /\ UNCHANGED <<row, home, used, late, deleting>>

DeleteRecord(r, z) ==
    /\ r \in used
    /\ home[r] \in {z, None}
    /\ home' = [home EXCEPT ![r] = None]
    /\ Owe("dns_record", z)
    /\ UNCHANGED <<row, used, late, deleting>>

\* An announcement is published, or lost with the process that owes it.
Publish(e) ==
    /\ owed' = owed \ {e}
    /\ \/ published' = published \cup {e.no} /\ UNCHANGED dropped
       \/ dropped' = dropped \cup {e.no} /\ UNCHANGED published
    /\ UNCHANGED <<row, home, used, late, deleting>>

Next ==
    \/ \E h \in Handlers : AbortDelete(h) \/ \E z \in Zones : StartDelete(h, z) \/ DeleteZone(h, z)
    \/ \E z \in Zones : ActivateZone(z)
    \/ \E r \in Records, z \in Zones : InsertRecord(r, z) \/ UpdateRecord(r, z) \/ DeleteRecord(r, z)
    \/ \E e \in owed : Publish(e)

Spec == Init /\ [][Next]_vars
=============================================================================
