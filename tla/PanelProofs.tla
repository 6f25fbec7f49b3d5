---------------------------- MODULE PanelProofs -----------------------------
(***************************************************************************)
(* Proofs about Panel, for any ids, zone names, calls in flight and number *)
(* of changes: Inv is inductive, and with it a list never goes back and    *)
(* answers leave other dialogs alone.  The lemmas follow the parts of a    *)
(* step: the query, the calls, the forms and dialogs; then one for each    *)
(* action.                                                                 *)
(***************************************************************************)
EXTENDS Panel, TLAPS

\* The initial states satisfy the invariant.
LEMMA InitInv == Init => Inv
<1> SUFFICES ASSUME Init PROVE Inv
  OBVIOUS
<1> USE PanelAssumption DEF Init, NoQuery, NoDialog, NoRow
<1>1. TypeOK
  BY DEF TypeOK, Pages, Kinds, Inputs, Query, Fetch
<1>2. FetchesOK /\ TimesOK /\ ListIsOfItsPage
  BY DEF FetchesOK, TimesOK, ListIsOfItsPage
<1>3. DialogOK /\ ListIsCurrent /\ EditsStayTheirs
  BY DEF DialogOK, ListIsCurrent, EditsStayTheirs
<1> QED
  BY <1>1, <1>2, <1>3 DEF Inv

-----------------------------------------------------------------------------
\* Parts of a step.

\* The rows shown have ids.
LEMMA ShownIds == TypeOK /\ ListIsOfItsPage => Shown \subseteq Ids
BY DEF TypeOK, ListIsOfItsPage, Shown, IdsOf, NoQuery, ListZonesResponse,
       ListDNSRecordsByZoneNameResponse, Zone, DNSRecord

\* What is in no form, dialog or call is kept by a step that leaves the query alone.
LEMMA QueryKept ==
  ASSUME Inv, UNCHANGED <<now, page, query, confirmed, excuses>>
  PROVE  /\ FetchesOK' /\ ListIsCurrent'
         /\ calls' = calls => ListIsOfItsPage'
BY DEF Inv, FetchesOK, ListIsOfItsPage, ListIsCurrent

\* A step of the forms and dialogs.
LEMMA FormStep ==
  ASSUME Inv,
         dialog' \in [kind : Kinds, of : Ids \cup {None}],
         createForm' \in Inputs,
         editForm' \in [id : Ids \cup {None}, content : Contents \cup {None}, state : Inputs],
         editing' \in Ids \cup {None},
         zoneForm' \in Inputs,
         attached' \in BOOLEAN,
         DialogOK', EditsStayTheirs',
         UNCHANGED <<tables, page, query, calls, confirmed, excuses>>
  PROVE  Inv'
<1>1. TypeOK'
  BY DEF Inv, TypeOK, tables
<1>2. TimesOK'
  BY DEF Inv, TimesOK, tables
<1> QED
  BY <1>1, <1>2, QueryKept DEF Inv, tables

\* What the methods that the pages call take.
LEMMA MethodInputs ==
    /\ DOMAIN Methods = {"createZone", "deleteZone", "createDNSRecord", "updateDNSRecord",
                         "deleteDNSRecord"}
    /\ Methods["createZone"].input = CreateZoneRequest
    /\ Methods["deleteZone"].input = DeleteZoneRequest
    /\ Methods["createDNSRecord"].input = CreateDNSRecordRequest
    /\ Methods["updateDNSRecord"].input = UpdateDNSRecordRequest
    /\ Methods["deleteDNSRecord"].input = DeleteDNSRecordRequest
BY DEF Methods, ZoneService, DNSRecordService

\* A request that is sent is one its method takes, and an update is of the row
\* whose content it has.
LEMMA MutateStep ==
  ASSUME Inv, NEW c \in Calls, NEW m \in DOMAIN Methods, NEW input \in Methods[m].input,
         Mutate(c, m, input),
         m = "updateDNSRecord" => input.id = input.content,
         dialog.kind # "none",
         dialog' \in {dialog, NoDialog},
         UNCHANGED <<tables, page, attached, query, forms, confirmed, excuses>>
  PROVE  Inv'
<1> USE PanelAssumption DEF Inv
<1> DEFINE call == [method |-> m, input |-> input, done |-> FALSE, at |-> 0]
<1>1. call \in CallOf(m)
  BY DEF CallOf
<1>2. call \in Call
  BY <1>1, MethodInputs DEF Call
<1>3. calls' = [calls EXCEPT ![c] = call]
  BY DEF Mutate
<1>4. call.at = 0 /\ call.method = m /\ call.input = input
  OBVIOUS
<1> HIDE DEF call
<1>5. TypeOK'
  BY <1>2, <1>3 DEF TypeOK, tables, forms, NoDialog, Kinds
<1>6. TimesOK'
  BY <1>3, <1>4 DEF TypeOK, TimesOK, tables
<1>7. DialogOK'
  BY DEF DialogOK, NoDialog, Shown
<1>8. EditsStayTheirs'
  BY <1>3, <1>4 DEF EditsStayTheirs, TypeOK, NoDialog, forms
<1>9. ListIsOfItsPage'
  BY DEF ListIsOfItsPage, DialogOK, TypeOK, Kinds
<1>10. FetchesOK' /\ ListIsCurrent'
  BY QueryKept DEF tables
<1> QED
  BY <1>5, <1>6, <1>7, <1>8, <1>9, <1>10

\* An invalidation starts a fetch that reads what was confirmed, or leaves an
\* excuse; the list stays.
LEMMA InvalidateStep ==
  ASSUME Inv, Invalidate, confirmed' \in 0 .. now, page # "away", UNCHANGED <<now, page>>
  PROVE  /\ query' \in Query /\ excuses' \in SUBSET Excuses
         /\ query'.data = query.data /\ query'.at = query.at
         /\ \A f \in query'.fetches : f.at <= now
         /\ FetchesOK' /\ ListIsOfItsPage' /\ ListIsCurrent'
<1> USE PanelAssumption DEF Inv
<1>1. query \in Query /\ now \in 0 .. MaxCommits
  BY DEF TypeOK
<1>2. CASE query' = query /\ excuses' # {}
  <2>1. query' \in Query /\ excuses' \in SUBSET Excuses
    BY <1>1, <1>2 DEF Invalidate, TypeOK, Excuses
  <2> QED
    BY <1>2, <2>1 DEF FetchesOK, ListIsOfItsPage, ListIsCurrent, TimesOK
<1>3. CASE query' = [query EXCEPT !.fetches = {NewFetch}] /\ excuses' = {} /\ ~Joins(query) /\ attached
  <2>1. /\ query'.data = query.data /\ query'.at = query.at
        /\ query'.fetches = {NewFetch} /\ query' \in Query
    BY <1>1, <1>3 DEF Query, Fetch, NewFetch
  <2>2. NewFetch.output = None /\ NewFetch.at = 0
    BY DEF NewFetch
  <2>3. FetchesOK'
    BY <2>1, <2>2 DEF FetchesOK
  <2>4. ListIsCurrent'
    BY <2>1 DEF ListIsCurrent, Idle
  <2>5. ListIsOfItsPage'
    BY <2>1, <2>2 DEF ListIsOfItsPage
  <2>6. \A f \in query'.fetches : f.at <= now
    BY <1>1, <2>1, <2>2
  <2>7. excuses' \in SUBSET Excuses
    BY <1>3
  <2> QED
    BY <2>1, <2>3, <2>4, <2>5, <2>6, <2>7
<1> QED
  BY <1>2, <1>3 DEF Invalidate, Invalidated

\* The answer to a call of the page: it is of a change that is committed.
LEMMA ArrivesStep ==
  ASSUME Inv, NEW c \in Calls, NEW m, Arrives(c, m)
  PROVE  /\ calls' \in [Calls -> Call \cup {None}]
         /\ \A d \in Calls : calls'[d] # None => calls'[d] = calls[d] /\ calls[d] # None
         /\ confirmed' \in 0 .. now
         /\ page # "away"
<1> USE PanelAssumption DEF Inv, Arrives
<1>1. calls[c] \in Call /\ calls[c] # None
  BY DEF TypeOK
<1>2. calls[c].at \in 0 .. MaxCommits /\ calls[c].at <= now
  BY <1>1 DEF TimesOK, Call, CallOf
<1>3. confirmed' \in 0 .. now
  BY <1>2 DEF TypeOK, TimesOK
<1>4. page # "away"
  BY <1>1 DEF ListIsOfItsPage
<1> QED
  BY <1>3, <1>4 DEF TypeOK

\* A success handler that invalidates the list, and changes forms and dialog.
LEMMA SuccessStep ==
  ASSUME Inv, NEW c \in Calls, NEW m, Arrives(c, m), Invalidate,
         dialog' \in {dialog, NoDialog},
         createForm' \in Inputs,
         editForm' \in [id : Ids \cup {None}, content : Contents \cup {None}, state : Inputs],
         editing' \in Ids \cup {None},
         dialog'.kind = "edit" => UNCHANGED <<editForm, editing>>,
         UNCHANGED <<tables, page, attached, zoneForm>>
  PROVE  Inv'
<1> USE PanelAssumption DEF Inv, tables
<1>1. /\ calls' \in [Calls -> Call \cup {None}]
      /\ \A d \in Calls : calls'[d] # None => calls'[d] = calls[d] /\ calls[d] # None
      /\ confirmed' \in 0 .. now
      /\ page # "away"
  BY ArrivesStep
<1>2. /\ query' \in Query /\ excuses' \in SUBSET Excuses
      /\ query'.data = query.data /\ query'.at = query.at
      /\ \A f \in query'.fetches : f.at <= now
      /\ FetchesOK' /\ ListIsOfItsPage' /\ ListIsCurrent'
  BY <1>1, InvalidateStep
<1>3. TypeOK'
  BY <1>1, <1>2 DEF TypeOK, NoDialog, Kinds
<1>4. TimesOK'
  BY <1>1, <1>2 DEF TypeOK, TimesOK
<1>5. DialogOK'
  BY <1>2 DEF DialogOK, NoDialog, Shown
<1>6. EditsStayTheirs'
  BY <1>1 DEF EditsStayTheirs, NoDialog
<1> QED
  BY <1>2, <1>3, <1>4, <1>5, <1>6

-----------------------------------------------------------------------------
\* The query.

\* An answer is of this moment, which is after all the page was told of.
LEMMA ReadInv ==
  ASSUME Inv, NEW f \in query.fetches, Read(f)
  PROVE  Inv'
<1> USE PanelAssumption DEF Inv, Read, tables, forms
<1> DEFINE g == [output |-> ListOf(page), at |-> now]
<1>1. page # "away"
  BY DEF ListIsOfItsPage, NoQuery
<1>2. /\ ListOf(page) \in Lists
      /\ IF page = "zones" THEN ListOf(page) \in ListZonesResponse
         ELSE /\ ListOf(page) \in ListDNSRecordsByZoneNameResponse
              /\ \A r \in ListOf(page).records : r.zoneName = page
  BY DEF TypeOK, ListOf, Lists, ListZonesResponse, ListDNSRecordsByZoneNameResponse
<1>3. query \in Query /\ now \in 0 .. MaxCommits
  BY DEF TypeOK
<1>4. g \in Fetch /\ g.output = ListOf(page) /\ g.at = now
  BY <1>2, <1>3 DEF Fetch
<1>5. query' = [query EXCEPT !.fetches = (@ \ {f}) \cup {g}]
  BY DEF Answered
<1> HIDE DEF g
<1>6. /\ query'.data = query.data /\ query'.at = query.at
      /\ query' \in Query
      /\ query'.fetches = {g}
  BY <1>3, <1>4, <1>5 DEF Query, FetchesOK
<1>7. TypeOK'
  BY <1>6 DEF TypeOK
<1>8. FetchesOK'
  BY <1>3, <1>4, <1>6 DEF FetchesOK, TimesOK, TypeOK
<1>9. TimesOK'
  BY <1>3, <1>4, <1>6 DEF TimesOK
<1>10. ListIsOfItsPage'
  <2>1. query'.data # None =>
           IF page = "zones" THEN query.data \in ListZonesResponse
           ELSE /\ query.data \in ListDNSRecordsByZoneNameResponse
                /\ \A r \in query.data.records : r.zoneName = page
    BY <1>6 DEF ListIsOfItsPage
  <2> QED
    BY <1>1, <1>2, <1>4, <1>6, <2>1 DEF ListIsOfItsPage
<1>11. DialogOK'
  BY <1>6 DEF DialogOK, Shown
<1>12. ListIsCurrent'
  BY <1>6 DEF ListIsCurrent, Idle
<1>13. EditsStayTheirs'
  BY DEF EditsStayTheirs
<1> QED
  BY <1>7, <1>8, <1>9, <1>10, <1>11, <1>12, <1>13

\* The list is the answer, and a dialog of a row that it lacks is gone.
LEMMA SettleInv ==
  ASSUME Inv, NEW f \in query.fetches, Settle(f)
  PROVE  Inv'
<1> USE PanelAssumption DEF Inv, Settle, tables, forms
<1>1. query \in Query /\ f \in Fetch /\ f.output \in Lists
  BY DEF TypeOK, Query, Fetch
<1>2. /\ query'.data = f.output /\ query'.at = f.at
      /\ query'.fetches = {}
      /\ query' \in Query
  BY <1>1 DEF Settled, Query, Fetch, FetchesOK
<1>3. dialog' \in {dialog, NoDialog}
  OBVIOUS
<1>4. TypeOK'
  BY <1>2, <1>3 DEF TypeOK, NoDialog, Kinds
<1>5. FetchesOK' /\ TimesOK'
  BY <1>2 DEF FetchesOK, TimesOK
<1>6. ListIsOfItsPage'
  BY <1>2 DEF ListIsOfItsPage, NoQuery
<1>7. DialogOK'
  <2>1. dialog.kind \in {"edit", "delete", "deleteZone"} => dialog.of # None
    BY ShownIds DEF DialogOK
  <2> QED
    BY <1>2, <2>1 DEF DialogOK, NoDialog, Shown
<1>8. ListIsCurrent'
  BY <1>2 DEF ListIsCurrent, FetchesOK
<1>9. EditsStayTheirs'
  BY <1>3 DEF EditsStayTheirs, NoDialog
<1> QED
  BY <1>4, <1>5, <1>6, <1>7, <1>8, <1>9

\* A fetch that fails leaves the list and an excuse.
LEMMA GiveUpInv ==
  ASSUME Inv, NEW f \in query.fetches, GiveUp(f)
  PROVE  Inv'
<1> USE PanelAssumption DEF Inv, GiveUp, tables, forms
<1>1. query \in Query
  BY DEF TypeOK
<1>2. /\ query'.data = query.data /\ query'.at = query.at
      /\ query'.fetches \subseteq query.fetches
      /\ query' \in Query
  BY <1>1 DEF GivenUp, Query
<1>3. excuses' # {} /\ excuses' \in SUBSET Excuses
  BY DEF TypeOK, Excuses
<1>4. TypeOK'
  BY <1>2, <1>3 DEF TypeOK
<1>5. FetchesOK' /\ TimesOK'
  BY <1>2, <1>3 DEF FetchesOK, TimesOK
<1>6. ListIsOfItsPage'
  BY <1>2 DEF ListIsOfItsPage, NoQuery
<1>7. DialogOK' /\ ListIsCurrent'
  BY <1>2, <1>3 DEF DialogOK, Shown, ListIsCurrent
<1>8. EditsStayTheirs'
  BY DEF EditsStayTheirs
<1> QED
  BY <1>4, <1>5, <1>6, <1>7, <1>8

\* The fetch that a focus starts has read nothing yet.
LEMMA FocusInv ==
  ASSUME Inv, Focus
  PROVE  Inv'
<1> USE PanelAssumption DEF Inv, Focus, tables, forms
<1>1. query \in Query
  BY DEF TypeOK
<1>2. NewFetch \in Fetch /\ NewFetch.output = None /\ NewFetch.at = 0
  BY DEF NewFetch, Fetch
<1>3. /\ query'.data = query.data /\ query'.at = query.at
      /\ query'.fetches = {NewFetch}
      /\ query' \in Query
  BY <1>1, <1>2 DEF Focused, Query
<1>4. TypeOK'
  BY <1>3 DEF TypeOK
<1>5. FetchesOK' /\ TimesOK'
  BY <1>2, <1>3 DEF FetchesOK, TimesOK, TypeOK
<1>6. ListIsOfItsPage'
  BY <1>2, <1>3 DEF ListIsOfItsPage
<1>7. DialogOK' /\ ListIsCurrent'
  BY <1>3 DEF DialogOK, Shown, ListIsCurrent, Idle
<1>8. EditsStayTheirs'
  BY DEF EditsStayTheirs
<1> QED
  BY <1>4, <1>5, <1>6, <1>7, <1>8

\* A page that mounts knows nothing yet.
LEMMA MountInv ==
  ASSUME Inv, NEW p \in Pages, Mount(p)
  PROVE  Inv'
<1> USE PanelAssumption DEF Inv, Mount, tables
<1>1. NewFetch \in Fetch /\ NewFetch.output = None /\ NewFetch.at = 0
  BY DEF NewFetch, Fetch
<1>2. /\ query' \in Query
      /\ query'.data = None /\ query'.at = 0
      /\ query'.fetches \subseteq {NewFetch}
      /\ page' = "away" => query' = NoQuery
  BY <1>1 DEF NewQuery, NoQuery, Query
<1>3. TypeOK'
  BY <1>2 DEF TypeOK, NoDialog, NoRow, Kinds, Inputs
<1>4. FetchesOK' /\ TimesOK'
  BY <1>1, <1>2 DEF FetchesOK, TimesOK, TypeOK
<1>5. ListIsOfItsPage'
  BY <1>1, <1>2 DEF ListIsOfItsPage
<1>6. DialogOK' /\ ListIsCurrent' /\ EditsStayTheirs'
  BY <1>2 DEF DialogOK, ListIsCurrent, EditsStayTheirs, NoDialog
<1> QED
  BY <1>3, <1>4, <1>5, <1>6

-----------------------------------------------------------------------------
\* The tables and the answers.

\* A change is later than all that was seen, and the rows keep their types.
LEMMA CommitStep ==
  ASSUME TypeOK, NEW m, NEW input, Commit(m, input),
         m = "createZone" => input \in CreateZoneRequest,
         m = "createDNSRecord" => input \in CreateDNSRecordRequest
  PROVE  /\ zones' \in SUBSET Zone /\ records' \in SUBSET DNSRecord /\ used' \in SUBSET Ids
         /\ now' = now + 1 /\ now' \in 0 .. MaxCommits
<1> USE PanelAssumption DEF TypeOK, Commit
<1>1. now' = now + 1 /\ now' \in 0 .. MaxCommits
  OBVIOUS
<1>2. CASE m = "createZone" /\ CreateZone(input.zoneName)
  BY <1>1, <1>2 DEF CreateZone, CreateZoneRequest, Zone
<1>3. CASE m = "deleteZone" /\ DeleteZone(input.id)
  BY <1>1, <1>3 DEF DeleteZone
<1>4. CASE m = "createDNSRecord" /\ CreateDNSRecord(input.zoneName)
  BY <1>1, <1>4 DEF CreateDNSRecord, CreateDNSRecordRequest, DNSRecord
<1>5. CASE m = "updateDNSRecord" /\ UpdateDNSRecord(input.id)
  BY <1>1, <1>5 DEF UpdateDNSRecord
<1>6. CASE m = "deleteDNSRecord" /\ DeleteDNSRecord(input.id)
  BY <1>1, <1>6 DEF DeleteDNSRecord
<1> QED
  BY <1>2, <1>3, <1>4, <1>5, <1>6

\* A change leaves what the tab has as it was.
LEMMA TablesStep ==
  ASSUME Inv,
         zones' \in SUBSET Zone, records' \in SUBSET DNSRecord, used' \in SUBSET Ids,
         now' = now + 1, now' \in 0 .. MaxCommits,
         calls' \in [Calls -> Call \cup {None}],
         \A c \in Calls : calls'[c] # None =>
            /\ calls[c] # None
            /\ calls'[c].at <= now'
            /\ calls'[c].method = calls[c].method
            /\ calls'[c].input = calls[c].input,
         UNCHANGED tab
  PROVE  Inv'
<1> USE PanelAssumption DEF Inv, tab, forms
<1>1. TypeOK'
  BY DEF TypeOK
<1>2. FetchesOK' /\ ListIsCurrent' /\ DialogOK'
  BY DEF FetchesOK, ListIsCurrent, DialogOK, Shown
<1>3. TimesOK'
  <2>1. \A f \in query.fetches : f.at \in 0 .. MaxCommits
    BY DEF TypeOK, Query, Fetch
  <2>2. query.at \in 0 .. MaxCommits
    BY DEF TypeOK, Query
  <2> QED
    BY <2>1, <2>2 DEF TypeOK, TimesOK
<1>4. ListIsOfItsPage'
  BY DEF ListIsOfItsPage
<1>5. EditsStayTheirs'
  BY DEF EditsStayTheirs
<1> QED
  BY <1>1, <1>2, <1>3, <1>4, <1>5

\* The API carries out a request of the page.
LEMMA GrantInv ==
  ASSUME Inv, NEW c \in Calls, Grant(c)
  PROVE  Inv'
<1> USE PanelAssumption DEF Grant
<1>1. calls[c] \in Call /\ calls[c] # None
  BY DEF Inv, TypeOK
<1>2. /\ calls[c].method \in DOMAIN Methods
      /\ calls[c].method = "createZone" => calls[c].input \in CreateZoneRequest
      /\ calls[c].method = "createDNSRecord" => calls[c].input \in CreateDNSRecordRequest
  BY <1>1, MethodInputs DEF Call, CallOf
<1>3. /\ zones' \in SUBSET Zone /\ records' \in SUBSET DNSRecord /\ used' \in SUBSET Ids
      /\ now' = now + 1 /\ now' \in 0 .. MaxCommits
  BY <1>2, CommitStep DEF Inv
<1> DEFINE call == [calls[c] EXCEPT !.done = TRUE, !.at = now + 1]
<1>4. /\ call \in Call /\ call.at = now + 1
      /\ call.method = calls[c].method /\ call.input = calls[c].input
  BY <1>1, <1>3 DEF Call, CallOf
<1>5. calls' = [calls EXCEPT ![c] = call]
  BY <1>1 DEF Inv, TypeOK, Call, CallOf
<1> HIDE DEF call
<1>6. calls' \in [Calls -> Call \cup {None}]
  BY <1>4, <1>5 DEF Inv, TypeOK
<1>7. \A d \in Calls : calls[d] # None => calls[d].at \in 0 .. MaxCommits /\ calls[d].at <= now
  BY DEF Inv, TypeOK, TimesOK, Call, CallOf
<1>8. \A d \in Calls : calls'[d] # None =>
         /\ calls[d] # None
         /\ calls'[d].at <= now'
         /\ calls'[d].method = calls[d].method
         /\ calls'[d].input = calls[d].input
  BY <1>1, <1>3, <1>4, <1>5, <1>7 DEF Inv, TypeOK
<1> QED
  BY <1>3, <1>6, <1>8, TablesStep

\* Another tab changes the tables.
LEMMA ElsewhereInv ==
  ASSUME Inv, Elsewhere
  PROVE  Inv'
<1> USE PanelAssumption
<1>1. PICK m \in DOMAIN Methods : \E input \in Methods[m].input : Commit(m, input)
  BY DEF Elsewhere
<1>2. PICK input \in Methods[m].input : Commit(m, input)
  BY <1>1
<1>3. /\ zones' \in SUBSET Zone /\ records' \in SUBSET DNSRecord /\ used' \in SUBSET Ids
      /\ now' = now + 1 /\ now' \in 0 .. MaxCommits
  BY <1>2, CommitStep, MethodInputs DEF Inv
<1>4. \A d \in Calls : calls[d] # None => calls[d].at \in 0 .. MaxCommits /\ calls[d].at <= now
  BY DEF Inv, TypeOK, TimesOK, Call, CallOf
<1>5. calls' = calls /\ UNCHANGED tab /\ calls \in [Calls -> Call \cup {None}]
  BY DEF Elsewhere, Inv, TypeOK
<1>6. \A d \in Calls : calls'[d] # None => calls'[d].at <= now'
  BY <1>3, <1>4, <1>5 DEF Inv, TypeOK
<1> QED
  BY <1>3, <1>5, <1>6, TablesStep

\* A failure only makes the call end.
LEMMA FailInv ==
  ASSUME Inv, NEW c \in Calls, Fail(c)
  PROVE  Inv'
<1> USE PanelAssumption DEF Inv, Fail, tables, tab, forms
<1>1. TypeOK'
  BY DEF TypeOK
<1>2. FetchesOK' /\ ListIsCurrent' /\ DialogOK'
  BY DEF FetchesOK, ListIsCurrent, DialogOK, Shown
<1>3. TimesOK' /\ ListIsOfItsPage' /\ EditsStayTheirs'
  BY DEF TypeOK, TimesOK, ListIsOfItsPage, EditsStayTheirs
<1> QED
  BY <1>1, <1>2, <1>3

-----------------------------------------------------------------------------
\* The zones page.

\* The dialog for a new zone is of no row.
LEMMA OpenCreateZoneInv ==
  ASSUME Inv, OpenCreateZone
  PROVE  Inv'
<1> USE PanelAssumption DEF OpenCreateZone, Opened, Closed, forms
<1>1. /\ dialog' \in [kind : Kinds, of : Ids \cup {None}]
      /\ createForm' \in Inputs /\ zoneForm' \in Inputs
      /\ editForm' \in [id : Ids \cup {None}, content : Contents \cup {None}, state : Inputs]
      /\ editing' \in Ids \cup {None}
      /\ attached' \in BOOLEAN
  BY ShownIds DEF Inv, TypeOK, Inputs, Kinds, NoDialog, FormOf, Contents
<1>2. DialogOK'
  BY DEF Inv, DialogOK, NoDialog, Shown
<1>3. EditsStayTheirs'
  BY DEF Inv, EditsStayTheirs, NoDialog, FormOf
<1> QED
  BY <1>1, <1>2, <1>3, FormStep

\* A closed dialog is of no row.
LEMMA CloseCreateZoneInv ==
  ASSUME Inv, CloseCreateZone
  PROVE  Inv'
<1> USE PanelAssumption DEF CloseCreateZone, Opened, Closed, forms
<1>1. /\ dialog' \in [kind : Kinds, of : Ids \cup {None}]
      /\ createForm' \in Inputs /\ zoneForm' \in Inputs
      /\ editForm' \in [id : Ids \cup {None}, content : Contents \cup {None}, state : Inputs]
      /\ editing' \in Ids \cup {None}
      /\ attached' \in BOOLEAN
  BY ShownIds DEF Inv, TypeOK, Inputs, Kinds, NoDialog, FormOf, Contents
<1>2. DialogOK'
  BY DEF Inv, DialogOK, NoDialog, Shown
<1>3. EditsStayTheirs'
  BY DEF Inv, EditsStayTheirs, NoDialog, FormOf
<1> QED
  BY <1>1, <1>2, <1>3, FormStep

\* What is typed stays in the form for zones.
LEMMA TypeZoneInv ==
  ASSUME Inv, TypeZone
  PROVE  Inv'
<1> USE PanelAssumption DEF TypeZone, Opened, Closed, forms
<1>1. /\ dialog' \in [kind : Kinds, of : Ids \cup {None}]
      /\ createForm' \in Inputs /\ zoneForm' \in Inputs
      /\ editForm' \in [id : Ids \cup {None}, content : Contents \cup {None}, state : Inputs]
      /\ editing' \in Ids \cup {None}
      /\ attached' \in BOOLEAN
  BY ShownIds DEF Inv, TypeOK, Inputs, Kinds, NoDialog, FormOf, Contents
<1>2. DialogOK'
  BY DEF Inv, DialogOK, NoDialog, Shown
<1>3. EditsStayTheirs'
  BY DEF Inv, EditsStayTheirs, NoDialog, FormOf
<1> QED
  BY <1>1, <1>2, <1>3, FormStep

\* The dialog is of a zone that is shown.
LEMMA OpenDeleteZoneInv ==
  ASSUME Inv, OpenDeleteZone
  PROVE  Inv'
<1> USE PanelAssumption DEF OpenDeleteZone, Opened, Closed, forms
<1>1. /\ dialog' \in [kind : Kinds, of : Ids \cup {None}]
      /\ createForm' \in Inputs /\ zoneForm' \in Inputs
      /\ editForm' \in [id : Ids \cup {None}, content : Contents \cup {None}, state : Inputs]
      /\ editing' \in Ids \cup {None}
      /\ attached' \in BOOLEAN
  BY ShownIds DEF Inv, TypeOK, Inputs, Kinds, NoDialog, FormOf, Contents
<1>2. DialogOK'
  BY DEF Inv, DialogOK, NoDialog, Shown
<1>3. EditsStayTheirs'
  BY DEF Inv, EditsStayTheirs, NoDialog, FormOf
<1> QED
  BY <1>1, <1>2, <1>3, FormStep

\* A closed dialog is of no row.
LEMMA CancelDeleteZoneInv ==
  ASSUME Inv, CancelDeleteZone
  PROVE  Inv'
<1> USE PanelAssumption DEF CancelDeleteZone, Opened, Closed, forms
<1>1. /\ dialog' \in [kind : Kinds, of : Ids \cup {None}]
      /\ createForm' \in Inputs /\ zoneForm' \in Inputs
      /\ editForm' \in [id : Ids \cup {None}, content : Contents \cup {None}, state : Inputs]
      /\ editing' \in Ids \cup {None}
      /\ attached' \in BOOLEAN
  BY ShownIds DEF Inv, TypeOK, Inputs, Kinds, NoDialog, FormOf, Contents
<1>2. DialogOK'
  BY DEF Inv, DialogOK, NoDialog, Shown
<1>3. EditsStayTheirs'
  BY DEF Inv, EditsStayTheirs, NoDialog, FormOf
<1> QED
  BY <1>1, <1>2, <1>3, FormStep

\* Only the page's client is another.
LEMMA ClickZonesAgainInv ==
  ASSUME Inv, ClickZonesAgain
  PROVE  Inv'
<1> USE PanelAssumption DEF ClickZonesAgain, Opened, Closed, forms
<1>1. /\ dialog' \in [kind : Kinds, of : Ids \cup {None}]
      /\ createForm' \in Inputs /\ zoneForm' \in Inputs
      /\ editForm' \in [id : Ids \cup {None}, content : Contents \cup {None}, state : Inputs]
      /\ editing' \in Ids \cup {None}
      /\ attached' \in BOOLEAN
  BY ShownIds DEF Inv, TypeOK, Inputs, Kinds, NoDialog, FormOf, Contents
<1>2. DialogOK'
  BY DEF Inv, DialogOK, NoDialog, Shown
<1>3. EditsStayTheirs'
  BY DEF Inv, EditsStayTheirs, NoDialog, FormOf
<1> QED
  BY <1>1, <1>2, <1>3, FormStep

\* The request is for a name.
LEMMA SubmitZoneInv ==
  ASSUME Inv, NEW c \in Calls, SubmitZone(c)
  PROVE  Inv'
<1>1. PICK name \in Names : Mutate(c, "createZone", [zoneName |-> name])
  BY DEF SubmitZone
<1>2. [zoneName |-> name] \in Methods["createZone"].input
  BY MethodInputs DEF CreateZoneRequest
<1> QED
  BY <1>1, <1>2, MethodInputs, MutateStep DEF SubmitZone, tab

\* The request is for the zone whose dialog was open.
LEMMA ConfirmDeleteZoneInv ==
  ASSUME Inv, NEW c \in Calls, ConfirmDeleteZone(c)
  PROVE  Inv'
<1>1. dialog.of \in Ids
  BY ShownIds DEF ConfirmDeleteZone, Closed, Inv, DialogOK
<1>2. [id |-> dialog.of] \in Methods["deleteZone"].input
  BY <1>1, MethodInputs DEF DeleteZoneRequest
<1> QED
  BY <1>2, MethodInputs, MutateStep DEF ConfirmDeleteZone, Closed

\* The new zone is not in the list, which has an excuse for it.
LEMMA CreateZoneSucceededInv ==
  ASSUME Inv, NEW c \in Calls, CreateZoneSucceeded(c)
  PROVE  Inv'
<1> USE PanelAssumption DEF Inv, CreateZoneSucceeded, ClickClose, tables
<1>1. /\ calls' \in [Calls -> Call \cup {None}]
      /\ \A d \in Calls : calls'[d] # None => calls'[d] = calls[d] /\ calls[d] # None
      /\ confirmed' \in 0 .. now
      /\ page # "away"
  BY ArrivesStep
<1>2. excuses' # {} /\ excuses' \in SUBSET Excuses
  BY DEF TypeOK, Excuses
<1>3. TypeOK'
  BY <1>1, <1>2 DEF TypeOK, NoDialog, Kinds, Inputs
<1>4. FetchesOK' /\ ListIsCurrent'
  BY <1>2 DEF FetchesOK, ListIsCurrent
<1>5. TimesOK' /\ ListIsOfItsPage'
  BY <1>1 DEF TypeOK, TimesOK, ListIsOfItsPage
<1>6. DialogOK' /\ EditsStayTheirs'
  BY <1>1 DEF DialogOK, EditsStayTheirs, NoDialog, Shown
<1> QED
  BY <1>3, <1>4, <1>5, <1>6

\* The list is invalidated.
LEMMA DeleteZoneSucceededInv ==
  ASSUME Inv, NEW c \in Calls, DeleteZoneSucceeded(c)
  PROVE  Inv'
BY SuccessStep DEF DeleteZoneSucceeded, Inv, TypeOK, forms

\* The page of a zone of the list mounts.
LEMMA FollowZoneInv ==
  ASSUME Inv, FollowZone
  PROVE  Inv'
<1>1. PICK z \in query.data.zones : Mount(z.zoneName)
  BY DEF FollowZone
<1>2. query.data \in ListZonesResponse
  BY DEF FollowZone, Inv, ListIsOfItsPage
<1>3. z.zoneName \in Pages
  BY <1>2 DEF ListZonesResponse, Zone, Pages
<1> QED
  BY <1>1, <1>3, MountInv

-----------------------------------------------------------------------------
\* The page of a zone.

\* The dialog for a new record is of no row.
LEMMA OpenCreateInv ==
  ASSUME Inv, OpenCreate
  PROVE  Inv'
<1> USE PanelAssumption DEF OpenCreate, Opened, Closed, forms
<1>1. /\ dialog' \in [kind : Kinds, of : Ids \cup {None}]
      /\ createForm' \in Inputs /\ zoneForm' \in Inputs
      /\ editForm' \in [id : Ids \cup {None}, content : Contents \cup {None}, state : Inputs]
      /\ editing' \in Ids \cup {None}
      /\ attached' \in BOOLEAN
  BY ShownIds DEF Inv, TypeOK, Inputs, Kinds, NoDialog, FormOf, Contents
<1>2. DialogOK'
  BY DEF Inv, DialogOK, NoDialog, Shown
<1>3. EditsStayTheirs'
  BY DEF Inv, EditsStayTheirs, NoDialog, FormOf
<1> QED
  BY <1>1, <1>2, <1>3, FormStep

\* A closed dialog is of no row.
LEMMA CloseCreateInv ==
  ASSUME Inv, CloseCreate
  PROVE  Inv'
<1> USE PanelAssumption DEF CloseCreate, Opened, Closed, forms
<1>1. /\ dialog' \in [kind : Kinds, of : Ids \cup {None}]
      /\ createForm' \in Inputs /\ zoneForm' \in Inputs
      /\ editForm' \in [id : Ids \cup {None}, content : Contents \cup {None}, state : Inputs]
      /\ editing' \in Ids \cup {None}
      /\ attached' \in BOOLEAN
  BY ShownIds DEF Inv, TypeOK, Inputs, Kinds, NoDialog, FormOf, Contents
<1>2. DialogOK'
  BY DEF Inv, DialogOK, NoDialog, Shown
<1>3. EditsStayTheirs'
  BY DEF Inv, EditsStayTheirs, NoDialog, FormOf
<1> QED
  BY <1>1, <1>2, <1>3, FormStep

\* What is typed stays in the form for records.
LEMMA TypeRecordInv ==
  ASSUME Inv, TypeRecord
  PROVE  Inv'
<1> USE PanelAssumption DEF TypeRecord, Opened, Closed, forms
<1>1. /\ dialog' \in [kind : Kinds, of : Ids \cup {None}]
      /\ createForm' \in Inputs /\ zoneForm' \in Inputs
      /\ editForm' \in [id : Ids \cup {None}, content : Contents \cup {None}, state : Inputs]
      /\ editing' \in Ids \cup {None}
      /\ attached' \in BOOLEAN
  BY ShownIds DEF Inv, TypeOK, Inputs, Kinds, NoDialog, FormOf, Contents
<1>2. DialogOK'
  BY DEF Inv, DialogOK, NoDialog, Shown
<1>3. EditsStayTheirs'
  BY DEF Inv, EditsStayTheirs, NoDialog, FormOf
<1> QED
  BY <1>1, <1>2, <1>3, FormStep

\* The form is filled from the row whose dialog opens.
LEMMA OpenEditInv ==
  ASSUME Inv, OpenEdit
  PROVE  Inv'
<1> USE PanelAssumption DEF OpenEdit, Opened, Closed, forms
<1>1. /\ dialog' \in [kind : Kinds, of : Ids \cup {None}]
      /\ createForm' \in Inputs /\ zoneForm' \in Inputs
      /\ editForm' \in [id : Ids \cup {None}, content : Contents \cup {None}, state : Inputs]
      /\ editing' \in Ids \cup {None}
      /\ attached' \in BOOLEAN
  BY ShownIds DEF Inv, TypeOK, Inputs, Kinds, NoDialog, FormOf, Contents
<1>2. DialogOK'
  BY DEF Inv, DialogOK, NoDialog, Shown
<1>3. EditsStayTheirs'
  BY DEF Inv, EditsStayTheirs, NoDialog, FormOf
<1> QED
  BY <1>1, <1>2, <1>3, FormStep

\* A closed dialog is of no row.
LEMMA CloseEditInv ==
  ASSUME Inv, CloseEdit
  PROVE  Inv'
<1> USE PanelAssumption DEF CloseEdit, Opened, Closed, forms
<1>1. /\ dialog' \in [kind : Kinds, of : Ids \cup {None}]
      /\ createForm' \in Inputs /\ zoneForm' \in Inputs
      /\ editForm' \in [id : Ids \cup {None}, content : Contents \cup {None}, state : Inputs]
      /\ editing' \in Ids \cup {None}
      /\ attached' \in BOOLEAN
  BY ShownIds DEF Inv, TypeOK, Inputs, Kinds, NoDialog, FormOf, Contents
<1>2. DialogOK'
  BY DEF Inv, DialogOK, NoDialog, Shown
<1>3. EditsStayTheirs'
  BY DEF Inv, EditsStayTheirs, NoDialog, FormOf
<1> QED
  BY <1>1, <1>2, <1>3, FormStep

\* What is typed is of the row whose dialog is open.
LEMMA TypeContentInv ==
  ASSUME Inv, TypeContent
  PROVE  Inv'
<1> USE PanelAssumption DEF TypeContent, Opened, Closed, forms
<1>1. /\ dialog' \in [kind : Kinds, of : Ids \cup {None}]
      /\ createForm' \in Inputs /\ zoneForm' \in Inputs
      /\ editForm' \in [id : Ids \cup {None}, content : Contents \cup {None}, state : Inputs]
      /\ editing' \in Ids \cup {None}
      /\ attached' \in BOOLEAN
  BY ShownIds DEF Inv, TypeOK, Inputs, Kinds, NoDialog, FormOf, Contents
<1>2. DialogOK'
  BY DEF Inv, DialogOK, NoDialog, Shown
<1>3. EditsStayTheirs'
  BY DEF Inv, EditsStayTheirs, NoDialog, FormOf
<1> QED
  BY <1>1, <1>2, <1>3, FormStep

\* The dialog is of a record that is shown.
LEMMA OpenDeleteInv ==
  ASSUME Inv, OpenDelete
  PROVE  Inv'
<1> USE PanelAssumption DEF OpenDelete, Opened, Closed, forms
<1>1. /\ dialog' \in [kind : Kinds, of : Ids \cup {None}]
      /\ createForm' \in Inputs /\ zoneForm' \in Inputs
      /\ editForm' \in [id : Ids \cup {None}, content : Contents \cup {None}, state : Inputs]
      /\ editing' \in Ids \cup {None}
      /\ attached' \in BOOLEAN
  BY ShownIds DEF Inv, TypeOK, Inputs, Kinds, NoDialog, FormOf, Contents
<1>2. DialogOK'
  BY DEF Inv, DialogOK, NoDialog, Shown
<1>3. EditsStayTheirs'
  BY DEF Inv, EditsStayTheirs, NoDialog, FormOf
<1> QED
  BY <1>1, <1>2, <1>3, FormStep

\* A closed dialog is of no row.
LEMMA CancelDeleteInv ==
  ASSUME Inv, CancelDelete
  PROVE  Inv'
<1> USE PanelAssumption DEF CancelDelete, Opened, Closed, forms
<1>1. /\ dialog' \in [kind : Kinds, of : Ids \cup {None}]
      /\ createForm' \in Inputs /\ zoneForm' \in Inputs
      /\ editForm' \in [id : Ids \cup {None}, content : Contents \cup {None}, state : Inputs]
      /\ editing' \in Ids \cup {None}
      /\ attached' \in BOOLEAN
  BY ShownIds DEF Inv, TypeOK, Inputs, Kinds, NoDialog, FormOf, Contents
<1>2. DialogOK'
  BY DEF Inv, DialogOK, NoDialog, Shown
<1>3. EditsStayTheirs'
  BY DEF Inv, EditsStayTheirs, NoDialog, FormOf
<1> QED
  BY <1>1, <1>2, <1>3, FormStep

\* The request is for the page's zone.
LEMMA SubmitRecordInv ==
  ASSUME Inv, NEW c \in Calls, SubmitRecord(c)
  PROVE  Inv'
<1>1. page \in Names
  BY DEF SubmitRecord, Inv, DialogOK
<1>2. [zoneName |-> page] \in Methods["createDNSRecord"].input
  BY <1>1, MethodInputs DEF CreateDNSRecordRequest
<1> QED
  BY <1>2, MethodInputs, MutateStep DEF SubmitRecord, tab

\* The update is of the row whose content the form holds.
LEMMA SubmitEditInv ==
  ASSUME Inv, NEW c \in Calls, SubmitEdit(c)
  PROVE  Inv'
<1>1. dialog.of \in Ids
  BY ShownIds DEF SubmitEdit, Inv, DialogOK
<1>2. editForm.id = dialog.of /\ editForm.content = dialog.of
  BY DEF SubmitEdit, Inv, EditsStayTheirs
<1>3. [id |-> editForm.id, content |-> editForm.content] \in Methods["updateDNSRecord"].input
  BY <1>1, <1>2, MethodInputs DEF UpdateDNSRecordRequest, Contents
<1> QED
  BY <1>2, <1>3, MethodInputs, MutateStep DEF SubmitEdit, tab

\* The request is for the record whose dialog was open.
LEMMA ConfirmDeleteInv ==
  ASSUME Inv, NEW c \in Calls, ConfirmDelete(c)
  PROVE  Inv'
<1>1. dialog.of \in Ids
  BY ShownIds DEF ConfirmDelete, Closed, Inv, DialogOK
<1>2. [id |-> dialog.of] \in Methods["deleteDNSRecord"].input
  BY <1>1, MethodInputs DEF DeleteDNSRecordRequest
<1> QED
  BY <1>2, MethodInputs, MutateStep DEF ConfirmDelete, Closed

\* The form is reset and the list invalidated.
LEMMA CreateSucceededInv ==
  ASSUME Inv, NEW c \in Calls, CreateSucceeded(c)
  PROVE  Inv'
<1>1. createForm' \in Inputs /\ dialog' \in {dialog, NoDialog}
  BY DEF CreateSucceeded, ClickClose, Inputs
<1> QED
  BY <1>1, SuccessStep DEF CreateSucceeded, Inv, TypeOK

\* No edit dialog stays open for the form that is reset.
LEMMA EditSucceededInv ==
  ASSUME Inv, NEW c \in Calls, EditSucceeded(c)
  PROVE  Inv'
<1> USE PanelAssumption
<1>1. /\ editForm' \in [id : Ids \cup {None}, content : Contents \cup {None}, state : Inputs]
      /\ editing' \in Ids \cup {None}
  BY DEF EditSucceeded, FormOf, Inv, TypeOK, Contents, Inputs
<1>2. dialog' \in {dialog, NoDialog} /\ dialog'.kind # "edit"
  BY DEF EditSucceeded, ClickClose, NoDialog
<1> QED
  BY <1>1, <1>2, SuccessStep DEF EditSucceeded, Inv, TypeOK

\* The list is invalidated.
LEMMA DeleteSucceededInv ==
  ASSUME Inv, NEW c \in Calls, DeleteSucceeded(c)
  PROVE  Inv'
BY SuccessStep DEF DeleteSucceeded, Inv, TypeOK, forms

-----------------------------------------------------------------------------
\* Every step keeps the invariant.
LEMMA NextInv == Inv /\ [Next]_vars => Inv'
<1> SUFFICES ASSUME Inv, [Next]_vars PROVE Inv'
  OBVIOUS
<1>1. CASE Navigate
  BY <1>1, MountInv DEF Navigate
<1>2. CASE Focus
  BY <1>2, FocusInv
<1>3. CASE Fetching
  BY <1>3, ReadInv, SettleInv, GiveUpInv DEF Fetching
<1>4. CASE Server
  BY <1>4, GrantInv, ElsewhereInv DEF Server
<1>5. CASE ZonesPageStep
  BY <1>5, OpenCreateZoneInv, CloseCreateZoneInv, TypeZoneInv, SubmitZoneInv,
     OpenDeleteZoneInv, CancelDeleteZoneInv, ConfirmDeleteZoneInv, FollowZoneInv,
     ClickZonesAgainInv DEF ZonesPageStep
<1>6. CASE ZonePageStep
  BY <1>6, OpenCreateInv, CloseCreateInv, TypeRecordInv, SubmitRecordInv, OpenEditInv,
     CloseEditInv, TypeContentInv, SubmitEditInv, OpenDeleteInv, CancelDeleteInv,
     ConfirmDeleteInv DEF ZonePageStep
<1>7. ASSUME NEW c \in Calls, Answer(c) PROVE Inv'
  BY <1>7, FailInv, CreateZoneSucceededInv, DeleteZoneSucceededInv, CreateSucceededInv,
     EditSucceededInv, DeleteSucceededInv DEF Answer, ZonesPageAnswer, ZonePageAnswer
<1>8. CASE UNCHANGED vars
  BY <1>8 DEF vars, tables, forms, Inv, TypeOK, FetchesOK, TimesOK, ListIsOfItsPage,
              DialogOK, Shown, ListIsCurrent, EditsStayTheirs
<1> QED
  BY <1>1, <1>2, <1>3, <1>4, <1>5, <1>6, <1>7, <1>8 DEF Next

\* The invariant holds, for any ids, names, calls and number of changes.
THEOREM InvHolds == Spec => []Inv
<1> QED
  BY InitInv, NextInv, PTL DEF Spec

\* Every variable keeps its type.
THEOREM TypesHold == Spec => []TypeOK
<1>1. Inv => TypeOK
  BY DEF Inv
<1> QED
  BY <1>1, InvHolds, PTL

\* A list at rest shows what the page was told of, unless there is an excuse.
THEOREM ListIsCurrentHolds == Spec => []ListIsCurrent
<1>1. Inv => ListIsCurrent
  BY DEF Inv
<1> QED
  BY <1>1, InvHolds, PTL

\* An update goes to the row whose content it has, though all rows share a form.
THEOREM EditsStayTheirsHold == Spec => []EditsStayTheirs
<1>1. Inv => EditsStayTheirs
  BY DEF Inv
<1> QED
  BY <1>1, InvHolds, PTL

\* The data of the list change with an answer only, which is of a later moment, and
\* with a page that mounts, which has none.
THEOREM ListNeverGoesBackHolds == Spec => ListNeverGoesBack
<1> DEFINE Forward == query.data # None /\ query'.data # None => query'.at >= query.at
<1>1. ASSUME Inv, Next PROVE Forward
  <2>1. query \in Query /\ query.at \in 0 .. MaxCommits
    BY <1>1 DEF Inv, TypeOK, Query
  <2>2. ASSUME query'.at = query.at PROVE Forward
    BY <2>1, <2>2, PanelAssumption
  <2>3. ASSUME NEW p, Mount(p) PROVE Forward
    BY <2>3 DEF Mount, NewQuery, NoQuery
  <2>4. ASSUME NEW f \in query.fetches, Settle(f) PROVE Forward
    BY <1>1, <2>4 DEF Settle, Settled, Inv, FetchesOK
  <2>5. ASSUME NEW f \in query.fetches, Read(f) \/ GiveUp(f) PROVE query'.at = query.at
    BY <2>1, <2>5 DEF Read, GiveUp, Answered, GivenUp, Query
  <2>6. CASE Focus
    BY <2>1, <2>2, <2>6 DEF Focus, Focused, Query
  <2>7. ASSUME Invalidate PROVE query'.at = query.at
    BY <2>1, <2>7 DEF Invalidate, Invalidated, Query
  <2>8. ASSUME UNCHANGED query PROVE query'.at = query.at
    BY <2>8
  <2>9. CASE Server
    BY <2>2, <2>8, <2>9 DEF Server, Grant, Elsewhere, tab
  <2>10. CASE ZonesPageStep
    <3>1. CASE FollowZone
      BY <2>3, <3>1 DEF FollowZone
    <3>2. CASE ~FollowZone
      BY <2>2, <2>8, <2>10, <3>2
         DEF ZonesPageStep, OpenCreateZone, CloseCreateZone, TypeZone, OpenDeleteZone,
             CancelDeleteZone, ClickZonesAgain, SubmitZone, ConfirmDeleteZone, tab
    <3> QED
      BY <3>1, <3>2
  <2>11. CASE ZonePageStep
    BY <2>2, <2>8, <2>11
       DEF ZonePageStep, OpenCreate, CloseCreate, TypeRecord, OpenEdit, CloseEdit,
           TypeContent, OpenDelete, CancelDelete, SubmitRecord, SubmitEdit, ConfirmDelete, tab
  <2>12. ASSUME NEW c \in Calls, Answer(c) PROVE Forward
    BY <2>2, <2>7, <2>8, <2>12
       DEF Answer, Fail, ZonesPageAnswer, CreateZoneSucceeded, DeleteZoneSucceeded,
           ZonePageAnswer, CreateSucceeded, EditSucceeded, DeleteSucceeded, tab
  <2> HIDE DEF Forward
  <2> QED
    BY <1>1, <2>2, <2>3, <2>4, <2>5, <2>6, <2>9, <2>10, <2>11, <2>12
       DEF Next, Navigate, Fetching
<1>2. Inv /\ [Next]_vars => [Forward]_vars
  BY <1>1
<1> QED
  BY <1>2, InvHolds, PTL DEF Spec, ListNeverGoesBack

\* What an answer to call c leaves alone, in a step that ends the call.
Considerate(c) ==
    calls[c] # None /\ calls'[c] = None =>
        \/ Navigate
        \/ calls[c].done /\ KindOf(calls[c].method) = dialog.kind
        \/ UNCHANGED <<dialog, InputOf(dialog.kind)>>

\* A step that touches no dialog and no form.
LEMMA FormsKept ==
  ASSUME NEW c \in Calls, UNCHANGED <<dialog, forms>>
  PROVE  Considerate(c)
BY DEF Considerate, InputOf, forms

\* A request begins, or none changes: no call ends.
LEMMA NoneEnds ==
  ASSUME Inv, NEW c \in Calls, NEW d \in Calls, calls[d] = None,
         \A e \in Calls : e # d => calls'[e] = calls[e]
  PROVE  Considerate(c)
BY DEF Considerate

LEMMA CallsKept ==
  ASSUME NEW c \in Calls, UNCHANGED calls
  PROVE  Considerate(c)
BY DEF Considerate

\* A call that succeeds is the one that ends, and dialogs of other kinds stay.
LEMMA SuccessKeeps ==
  ASSUME Inv, NEW c \in Calls, NEW d \in Calls, NEW m, Arrives(d, m),
         KindOf(m) = dialog.kind \/ UNCHANGED <<dialog, InputOf(dialog.kind)>>
  PROVE  Considerate(c)
<1>1. calls \in [Calls -> Call \cup {None}]
  BY DEF Inv, TypeOK
<1>2. calls'[c] = None /\ calls[c] # None => c = d
  BY <1>1 DEF Arrives
<1> QED
  BY <1>2 DEF Considerate, Arrives

\* The success handlers touch the form and the dialog of their kind only.
LEMMA AnswerKeeps ==
  ASSUME Inv, NEW c \in Calls, NEW d \in Calls, Answer(d)
  PROVE  Considerate(c)
<1>1. CASE Fail(d)
  BY <1>1, FormsKept DEF Fail, tab
<1>2. CASE CreateZoneSucceeded(d)
  <2>1. KindOf("createZone") = "createZone"
    BY DEF KindOf
  <2>2. dialog.kind # "createZone" => UNCHANGED <<dialog, InputOf(dialog.kind)>>
    BY <1>2 DEF CreateZoneSucceeded, ClickClose, InputOf
  <2> QED
    BY <1>2, <2>1, <2>2, SuccessKeeps DEF CreateZoneSucceeded
<1>3. CASE CreateSucceeded(d)
  <2>1. KindOf("createDNSRecord") = "create"
    BY DEF KindOf
  <2>2. dialog.kind # "create" => UNCHANGED <<dialog, InputOf(dialog.kind)>>
    BY <1>3 DEF CreateSucceeded, ClickClose, InputOf
  <2> QED
    BY <1>3, <2>1, <2>2, SuccessKeeps DEF CreateSucceeded
<1>4. CASE EditSucceeded(d)
  <2>1. KindOf("updateDNSRecord") = "edit"
    BY DEF KindOf
  <2>2. dialog.kind # "edit" => UNCHANGED <<dialog, InputOf(dialog.kind)>>
    BY <1>4 DEF EditSucceeded, ClickClose, InputOf
  <2> QED
    BY <1>4, <2>1, <2>2, SuccessKeeps DEF EditSucceeded
<1>5. CASE DeleteZoneSucceeded(d) \/ DeleteSucceeded(d)
  BY <1>5, FormsKept DEF DeleteZoneSucceeded, DeleteSucceeded
<1> QED
  BY <1>1, <1>2, <1>3, <1>4, <1>5 DEF Answer, ZonesPageAnswer, ZonePageAnswer

\* A zone's link leads to a page.
LEMMA FollowNavigates == Inv /\ FollowZone => Navigate
<1> SUFFICES ASSUME Inv, FollowZone PROVE Navigate
  OBVIOUS
<1>1. query.data \in ListZonesResponse
  BY DEF FollowZone, Inv, ListIsOfItsPage
<1>2. \A z \in query.data.zones : z.zoneName \in Pages
  BY <1>1 DEF ListZonesResponse, Zone, Pages
<1> QED
  BY <1>2 DEF FollowZone, Navigate

\* Dialogs and what is typed in them are left alone by the answers to other
\* requests.
THEOREM AnswersKeepOtherInputHolds == Spec => AnswersKeepOtherInput
<1>1. ASSUME Inv, Next, NEW c \in Calls PROVE Considerate(c)
  <2>1. CASE Navigate \/ FollowZone
    BY <1>1, <2>1, FollowNavigates DEF Considerate
  <2>2. CASE Focus \/ Fetching \/ Elsewhere
    BY <2>2, CallsKept
       DEF Focus, Fetching, Read, Settle, GiveUp, Elsewhere, tab
  <2>3. ASSUME NEW d \in Calls, Grant(d) PROVE Considerate(c)
    BY <1>1, <2>3, FormsKept DEF Grant, tab
  <2>4. calls \in [Calls -> Call \cup {None}]
    BY <1>1 DEF Inv, TypeOK
  <2>5. CASE ZonesPageStep /\ ~FollowZone
    <3>1. ASSUME NEW d \in Calls, SubmitZone(d) \/ ConfirmDeleteZone(d)
          PROVE  Considerate(c)
      BY <1>1, <2>4, <3>1, NoneEnds DEF SubmitZone, ConfirmDeleteZone, Mutate
    <3> QED
      BY <2>5, <3>1, CallsKept
         DEF ZonesPageStep, OpenCreateZone, CloseCreateZone, TypeZone, OpenDeleteZone,
             CancelDeleteZone, ClickZonesAgain
  <2>6. CASE ZonePageStep
    <3>1. ASSUME NEW d \in Calls, SubmitRecord(d) \/ SubmitEdit(d) \/ ConfirmDelete(d)
          PROVE  Considerate(c)
      BY <1>1, <2>4, <3>1, NoneEnds DEF SubmitRecord, SubmitEdit, ConfirmDelete, Mutate
    <3> QED
      BY <2>6, <3>1, CallsKept
         DEF ZonePageStep, OpenCreate, CloseCreate, TypeRecord, OpenEdit, CloseEdit,
             TypeContent, OpenDelete, CancelDelete
  <2>7. ASSUME NEW d \in Calls, Answer(d) PROVE Considerate(c)
    BY <1>1, <2>7, AnswerKeeps
  <2> QED
    BY <1>1, <2>1, <2>2, <2>3, <2>5, <2>6, <2>7 DEF Next, Server
<1>2. Inv /\ [Next]_vars => [\A c \in Calls : Considerate(c)]_vars
  BY <1>1
<1> QED
  BY <1>2, InvHolds, PTL DEF Spec, AnswersKeepOtherInput, Considerate
=============================================================================
