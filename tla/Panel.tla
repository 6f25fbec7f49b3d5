------------------------------- MODULE Panel --------------------------------
(***************************************************************************)
(* The web panel in one browser tab: the zones page and the zone pages,    *)
(* between which the user moves at any moment, over tables that other tabs *)
(* change too.                                                             *)
(***************************************************************************)
EXTENDS ZonesPage, ZonePage

\* Rows have ids of their own.  A record may have outlived its zone (ControlPlane).
GoodTables ==
    /\ \A r, s \in zones \cup records : r.id = s.id => r = s
    /\ zones \cap records = {}
    /\ used = {r.id : r \in zones \cup records}

Init ==
    /\ zones \in SUBSET Zone
    /\ records \in SUBSET DNSRecord
    /\ used \in SUBSET Ids
    /\ GoodTables
    /\ now = 0
    /\ page = "away"
    /\ attached = TRUE
    /\ query = NoQuery
    /\ dialog = NoDialog
    /\ createForm = "invalid"
    /\ editForm = NoRow
    /\ editing = None
    /\ zoneForm = "invalid"
    /\ calls = [c \in Calls |-> None]
    /\ confirmed = 0
    /\ excuses = {}

\* Links of the navigation, the browser's back button, an address typed in.
Navigate == \E p \in Pages : Mount(p)

Server ==
    \/ \E c \in Calls : Grant(c)
    \/ Elsewhere

Answer(c) == Fail(c) \/ ZonesPageAnswer(c) \/ ZonePageAnswer(c)

Next ==
    \/ Navigate \/ Focus \/ Fetching
    \/ Server
    \/ ZonesPageStep \/ ZonePageStep
    \/ \E c \in Calls : Answer(c)

Spec == Init /\ [][Next]_vars

\* Requests end, with an answer or without; nothing is asked of the user.
FairSpec ==
    /\ Spec
    /\ WF_vars(Fetching)
    /\ \A c \in Calls : WF_vars(Answer(c))

-----------------------------------------------------------------------------
\* Properties.

\* A list at rest shows every change whose success the page was told (the
\* invalidations in the success handlers of zone.tsx and zones.tsx), unless one
\* came during the first load, which the invalidation joins, or to a page whose
\* client App had replaced, or was a new zone, or the fetch after it failed.
ListIsCurrent ==
    query.data # None /\ Idle(query) /\ excuses = {} => query.at >= confirmed

\* An update goes to the row in whose dialog its content was typed, or read, and
\* an open edit dialog shows that row and no other, although all rows share one
\* form and one editingRecord (zone.tsx 359-377).
EditsStayTheirs ==
    /\ \A c \in Calls : calls[c] # None /\ calls[c].method = "updateDNSRecord" =>
           calls[c].input.id = calls[c].input.content
    /\ dialog.kind = "edit" =>
           editing = dialog.of /\ editForm.id = dialog.of /\ editForm.content = dialog.of

\* While a page is mounted its list never shows an earlier state of the tables
\* than it showed before: an answer that a later fetch overtook is dropped.
ListNeverGoesBack ==
    [][query.data # None /\ query'.data # None => query'.at >= query.at]_vars

\* What the open dialog holds of the user's.
InputOf(kind) ==
    CASE kind = "create" -> createForm
      [] kind = "createZone" -> zoneForm
      [] kind = "edit" -> editForm
      [] OTHER -> None

KindOf(method) ==
    CASE method = "createZone" -> "createZone"
      [] method = "createDNSRecord" -> "create"
      [] method = "updateDNSRecord" -> "edit"
      [] OTHER -> "none"

\* Unless the page is left, the answer to a request leaves the open dialog and
\* what is typed in it alone, except for the success of a request that dialogs of
\* that kind send (the two close buttons of zone.tsx, 131 and 156, and that of
\* create-zone-dialog.tsx).
AnswersKeepOtherInput ==
    [][\A c \in Calls :
          calls[c] # None /\ calls'[c] = None =>
              \/ Navigate
              \/ calls[c].done /\ KindOf(calls[c].method) = dialog.kind
              \/ UNCHANGED <<dialog, InputOf(dialog.kind)>>]_vars

\* The page made a change that its list owes to the user: the answer is on its
\* way, or it came and the list does not show the change, without an excuse.
Owing ==
    \/ \E c \in Calls : calls[c] # None /\ calls[c].done
    \/ /\ query.data = None \/ query.at < confirmed
       /\ confirmed > 0
       /\ excuses = {}

\* Once the user stops making changes, none stays owed: each is shown, or the
\* page is left, or an answer or a fetch fails.
OwnChangesAreShown == Owing ~> ~Owing

-----------------------------------------------------------------------------
\* The inductive invariant.

\* A fetch has read what the page was told of before it began, and no less than
\* the list shows.
FetchesOK ==
    /\ \A f, g \in query.fetches : f = g
    /\ \A f \in query.fetches : f.output # None =>
           /\ query.data # None => f.at >= query.at
           /\ excuses = {} => f.at >= confirmed

\* Nobody has seen a change that is not committed.
TimesOK ==
    /\ query.at <= now
    /\ \A f \in query.fetches : f.at <= now
    /\ confirmed <= now
    /\ \A c \in Calls : calls[c] # None => calls[c].at <= now

\* A list is of the page's kind, and a zone page's of its zone; where there is no
\* page there is nothing in flight.
ListIsOfItsPage ==
    /\ page = "away" => query = NoQuery /\ \A c \in Calls : calls[c] = None
    /\ \A l \in {query.data} \cup {f.output : f \in query.fetches} :
          l # None =>
              IF page = "zones" THEN l \in ListZonesResponse
              ELSE /\ l \in ListDNSRecordsByZoneNameResponse
                   /\ \A r \in l.records : r.zoneName = page

\* A dialog is of the page shown, and if it is of a row the list shows the row.
DialogOK ==
    /\ dialog.kind \in {"createZone", "deleteZone"} => page = "zones"
    /\ dialog.kind \in {"create", "edit", "delete"} => page \in Names
    /\ dialog.kind \in {"edit", "delete", "deleteZone"} => dialog.of \in Shown
    /\ dialog.kind \notin {"edit", "delete", "deleteZone"} => dialog.of = None

Inv ==
    /\ TypeOK
    /\ FetchesOK
    /\ TimesOK
    /\ ListIsOfItsPage
    /\ DialogOK
    /\ ListIsCurrent
    /\ EditsStayTheirs
=============================================================================
