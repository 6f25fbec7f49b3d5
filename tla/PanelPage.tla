----------------------------- MODULE PanelPage ------------------------------
(***************************************************************************)
(* What the pages of the web panel share: the tables behind the API, the   *)
(* page that is mounted in one browser tab, its list query, its dialogs    *)
(* and the mutations in flight.  ZonesPage and ZonePage add what is        *)
(* particular to each page, Panel puts them together.                      *)
(*                                                                         *)
(* The API is what its messages say: a request is carried out whole at one *)
(* moment, or refused for whatever reason, and an answer may be lost on    *)
(* the way.  ControlPlane has the steps of the handlers.  (At this commit  *)
(* its CreateZone refuses every name; the pages do not rely on that.)      *)
(***************************************************************************)
EXTENDS ApiMessages, Naturals

CONSTANTS
    Calls,       \* mutations that can be in flight at the same time (a bound)
    MaxCommits   \* bound: changes of the tables

INSTANCE ReactQuery

VARIABLES
    zones,       \* the user's zone rows
    records,     \* the user's record rows
    used,        \* ids that were ever given to a row
    now,         \* number of changes committed so far

    page,        \* the page shown: "zones", a zone's name, or "away": no page with a list
    attached,    \* the page's query is in the client that useQueryClient returns
    query,       \* the list query of the page
    dialog,      \* the open dialog and the row whose it is, if any
    createForm,  \* what is typed in the dialog for a new record
    editForm,    \* the form of the edit dialogs: the row's id, the content, its state
    editing,     \* editingRecord of the zone page
    zoneForm,    \* what is typed in the dialog for a new zone
    calls        \* mutations of the page in flight

\* History variables: they record what happened and guard nothing.
VARIABLES
    confirmed,   \* latest change whose success the mounted page was told
    excuses      \* why the list may be behind it

tables == <<zones, records, used, now>>
forms  == <<createForm, editForm, editing, zoneForm>>
vars   == <<tables, page, attached, query, dialog, forms, calls, confirmed, excuses>>

Pages   == Names \cup {"away", "zones"}
\* Whether a form's schema admits what it holds.  Blank forms it does not, and a
\* form that is not shown counts as invalid.
Inputs  == {"valid", "invalid"}
Excuses == {"joined", "detached", "created", "failed"}
Kinds   == {"none", "createZone", "deleteZone", "create", "edit", "delete"}

NoDialog  == [kind |-> "none", of |-> None]
NoRow == [id |-> None, content |-> None, state |-> "invalid"]

\* The API as the panel's clients call it.
Methods == [
    createZone |-> ZoneService.createZone,
    deleteZone |-> ZoneService.deleteZone,
    createDNSRecord |-> DNSRecordService.createDNSRecord,
    updateDNSRecord |-> DNSRecordService.updateDNSRecord,
    deleteDNSRecord |-> DNSRecordService.deleteDNSRecord]

\* A mutation in flight: the request, whether the API has done it, and as which
\* change.
CallOf(m) ==
    [method : {m}, input : Methods[m].input,
     done : BOOLEAN, at : 0 .. MaxCommits]

Call ==
    CallOf("createZone") \cup CallOf("deleteZone") \cup CallOf("createDNSRecord")
        \cup CallOf("updateDNSRecord") \cup CallOf("deleteDNSRecord")

Lists == ListZonesResponse \cup ListDNSRecordsByZoneNameResponse

Fetch == [output : Lists \cup {None}, at : 0 .. MaxCommits]
Query == [data : Lists \cup {None}, at : 0 .. MaxCommits, fetches : SUBSET Fetch]

\* None is none of the values in whose place it stands, and no zone has the name
\* of a page.
ASSUME PanelAssumption ==
    /\ MaxCommits \in Nat
    /\ None \notin Ids \cup Lists \cup Call
    /\ {"away", "zones"} \cap Names = {}

TypeOK ==
    /\ zones \in SUBSET Zone
    /\ records \in SUBSET DNSRecord
    /\ used \in SUBSET Ids
    /\ now \in 0 .. MaxCommits
    /\ page \in Pages
    /\ attached \in BOOLEAN
    /\ query \in Query
    /\ dialog \in [kind : Kinds, of : Ids \cup {None}]
    /\ createForm \in Inputs
    /\ editForm \in [id : Ids \cup {None}, content : Contents \cup {None}, state : Inputs]
    /\ editing \in Ids \cup {None}
    /\ zoneForm \in Inputs
    /\ calls \in [Calls -> Call \cup {None}]
    /\ confirmed \in 0 .. MaxCommits
    /\ excuses \in SUBSET Excuses

-----------------------------------------------------------------------------
\* The page and its query.

\* App makes a client at each render, and every navigation renders it: a page
\* mounts with an empty cache.  What the last page had in flight goes on, but
\* its answer reaches no page: what it changes is a change from elsewhere.
Mount(p) ==
    /\ page' = p
    /\ attached' = TRUE
    /\ query' = IF p = "away" THEN NoQuery ELSE NewQuery
    /\ dialog' = NoDialog
    /\ createForm' = "invalid"
    /\ editForm' = NoRow
    /\ editing' = None
    /\ zoneForm' = "invalid"
    /\ calls' = [c \in Calls |-> None]
    /\ confirmed' = 0
    /\ excuses' = {}
    /\ UNCHANGED tables

\* The ids of the rows that the page p shows of the data; none while it has none.
IdsOf(p, data) ==
    IF data = None THEN {}
    ELSE IF p = "zones" THEN {z.id : z \in data.zones}
    ELSE {r.id : r \in data.records}

Shown == IdsOf(page, query.data)

\* The answer to the list request of the page, were it made now.
ListOf(p) ==
    IF p = "zones" THEN [zones |-> zones]
    ELSE [records |-> {r \in records : r.zoneName = p}]

\* The query function's request is answered from the tables.
Read(f) ==
    /\ f.output = None
    /\ query' = Answered(query, f, ListOf(page), now)
    /\ UNCHANGED <<tables, page, attached, dialog, forms, calls, confirmed, excuses>>

\* Mutant: the dialog of a row that is gone stays open.
SettleKeepingDialog(f) ==
    /\ f.output # None
    /\ query' = Settled(query, f)
    /\ UNCHANGED <<tables, page, attached, dialog, forms, calls, confirmed, excuses>>

\* The answer arrives and the list is rendered from it: a row that is gone
\* takes the dialog it contains with it, whose state stays in the page.
Settle(f) ==
    /\ f.output # None
    /\ query' = Settled(query, f)
    /\ dialog' = IF dialog.of \in {None} \cup IdsOf(page, f.output) THEN dialog ELSE NoDialog
    /\ UNCHANGED <<tables, page, attached, forms, calls, confirmed, excuses>>

GiveUp(f) ==
    /\ f.output = None
    /\ query' = GivenUp(query, f)
    /\ excuses' = excuses \cup {"failed"}
    /\ UNCHANGED <<tables, page, attached, dialog, forms, calls, confirmed>>

Fetching == \E f \in query.fetches : Read(f) \/ Settle(f) \/ GiveUp(f)

\* The window gets the focus; the client of a detached page is not mounted.
Focus ==
    /\ page # "away"
    /\ attached
    /\ Idle(query)
    /\ query' = Focused(query)
    /\ excuses' = {}
    /\ UNCHANGED <<tables, page, attached, dialog, forms, calls, confirmed>>

\* Mutant: the fetch in flight is not cancelled.
InvalidateBesides ==
    /\ query' = [query EXCEPT !.fetches = @ \cup {NewFetch}]
    /\ excuses' = {}

\* Mutant: a fetch in flight is taken for a fetch of the change.
InvalidateIdle ==
    /\ query' = IF Idle(query) THEN Invalidated(query) ELSE query
    /\ excuses' = {}

\* A success handler invalidates the page's list.  Called on a client that does
\* not have the query it does nothing.
Invalidate ==
    IF ~attached
    THEN query' = query /\ excuses' = excuses \cup {"detached"}
    ELSE /\ query' = Invalidated(query)
         /\ excuses' = IF Joins(query) THEN excuses \cup {"joined"} ELSE {}

-----------------------------------------------------------------------------
\* Mutations.

Pending(m) == \E c \in Calls : calls[c] # None /\ calls[c].method = m

\* useMutation's mutate.  The buttons that call it are disabled while one of
\* the same page is pending.
Mutate(c, m, input) ==
    /\ calls[c] = None
    /\ ~Pending(m)
    /\ calls' = [calls EXCEPT ![c] =
                    [method |-> m, input |-> input, done |-> FALSE, at |-> 0]]

CreateZone(name) ==
    /\ \E id \in Ids \ used :
          /\ zones' = zones \cup {[id |-> id, zoneName |-> name]}
          /\ used' = used \cup {id}
    /\ UNCHANGED records

DeleteZone(id) ==
    \E z \in zones :
        /\ z.id = id
        /\ zones' = zones \ {z}
        /\ records' = {r \in records : r.zoneName # z.zoneName}
        /\ UNCHANGED used

CreateDNSRecord(name) ==
    /\ \E z \in zones : z.zoneName = name
    /\ \E id \in Ids \ used :
          /\ records' = records \cup {[id |-> id, zoneName |-> name]}
          /\ used' = used \cup {id}
    /\ UNCHANGED zones

UpdateDNSRecord(id) ==
    /\ \E r \in records : r.id = id
    /\ UNCHANGED <<zones, records, used>>

DeleteDNSRecord(id) ==
    /\ \E r \in records : r.id = id
    /\ records' = {r \in records : r.id # id}
    /\ UNCHANGED <<zones, used>>

\* The API carries out a request.
Commit(m, input) ==
    /\ now < MaxCommits
    /\ now' = now + 1
    /\ \/ m = "createZone" /\ CreateZone(input.zoneName)
       \/ m = "deleteZone" /\ DeleteZone(input.id)
       \/ m = "createDNSRecord" /\ CreateDNSRecord(input.zoneName)
       \/ m = "updateDNSRecord" /\ UpdateDNSRecord(input.id)
       \/ m = "deleteDNSRecord" /\ DeleteDNSRecord(input.id)

tab == <<page, attached, query, dialog, forms, confirmed, excuses>>

Grant(c) ==
    /\ calls[c] # None /\ ~calls[c].done
    /\ Commit(calls[c].method, calls[c].input)
    /\ calls' = [calls EXCEPT ![c].done = TRUE, ![c].at = now + 1]
    /\ UNCHANGED tab

\* The API refuses, or what it answers is lost.  No page handles onError: the
\* failure only enables the button again.
Fail(c) ==
    /\ calls[c] # None
    /\ calls' = [calls EXCEPT ![c] = None]
    /\ UNCHANGED <<tables, tab>>

\* The answer of a call of the mounted page arrives.
Arrives(c, m) ==
    /\ calls[c] # None
    /\ calls[c].method = m
    /\ calls[c].done
    /\ calls' = [calls EXCEPT ![c] = None]
    /\ confirmed' = IF calls[c].at > confirmed THEN calls[c].at ELSE confirmed

\* The same user in another tab, or on a page that was left.
Elsewhere ==
    /\ \E m \in DOMAIN Methods : \E input \in Methods[m].input : Commit(m, input)
    /\ UNCHANGED <<tab, calls>>

-----------------------------------------------------------------------------
\* Dialogs are modal: one is open at a time, and the page behind it is inert.

Opened(kind, of) == dialog = NoDialog /\ dialog' = [kind |-> kind, of |-> of]

Closed(kind) == dialog.kind = kind /\ dialog' = NoDialog

\* A success handler clicks the close button of the dialog of its kind, which
\* is there if one is open, whichever it was that sent the request.
ClickClose(kind) == dialog' = IF dialog.kind = kind THEN NoDialog ELSE dialog
=============================================================================
