----------------------------- MODULE ZonesPage ------------------------------
(***************************************************************************)
(* The list of zones, frontend/app/routes/dash/zones.tsx, with the dialog  *)
(* for a new zone, components/dialogs/create-zone-dialog.tsx.              *)
(***************************************************************************)
EXTENDS PanelPage

\* The dialog's form is not reset when the dialog closes or opens.
OpenCreateZone ==
    /\ page = "zones"
    /\ Opened("createZone", None)
    /\ UNCHANGED <<tables, page, attached, query, forms, calls, confirmed, excuses>>

CloseCreateZone ==
    /\ Closed("createZone")
    /\ UNCHANGED <<tables, page, attached, query, forms, calls, confirmed, excuses>>

TypeZone ==
    /\ dialog.kind = "createZone"
    /\ zoneForm' \in {"valid", "invalid"}
    /\ UNCHANGED <<tables, page, attached, query, dialog, createForm, editForm, editing,
                   calls, confirmed, excuses>>

\* The schema admits a domain name only; without one the form shows a message.
SubmitZone(c) ==
    /\ dialog.kind = "createZone"
    /\ zoneForm = "valid"
    /\ \E name \in Names : Mutate(c, "createZone", [zoneName |-> name])
    /\ UNCHANGED <<tables, tab>>

\* Success resets the form and closes the dialog, and does not invalidate the
\* list.
CreateZoneSucceeded(c) ==
    /\ Arrives(c, "createZone")
    /\ zoneForm' = "invalid"
    /\ ClickClose("createZone")
    /\ excuses' = excuses \cup {"created"}
    /\ UNCHANGED <<tables, page, attached, query, createForm, editForm, editing>>

OpenDeleteZone ==
    /\ page = "zones"
    /\ \E id \in Shown : Opened("deleteZone", id)
    /\ UNCHANGED <<tables, page, attached, query, forms, calls, confirmed, excuses>>

CancelDeleteZone ==
    /\ Closed("deleteZone")
    /\ UNCHANGED <<tables, page, attached, query, forms, calls, confirmed, excuses>>

\* Confirm closes the dialog and sends the request.
ConfirmDeleteZone(c) ==
    /\ Mutate(c, "deleteZone", [id |-> dialog.of])
    /\ Closed("deleteZone")
    /\ UNCHANGED <<tables, page, attached, query, forms, confirmed, excuses>>

DeleteZoneSucceeded(c) ==
    /\ Arrives(c, "deleteZone")
    /\ Invalidate
    /\ UNCHANGED <<tables, page, attached, dialog, forms>>

\* The link of a zone in the list.
FollowZone ==
    /\ page = "zones"
    /\ dialog = NoDialog
    /\ query.data # None
    /\ \E z \in query.data.zones : Mount(z.zoneName)

\* The Zones link of the navigation, on the zones page: the page stays mounted
\* and App renders again, with a new client that lacks the page's query.
ClickZonesAgain ==
    /\ page = "zones"
    /\ dialog = NoDialog
    /\ attached' = FALSE
    /\ UNCHANGED <<tables, page, query, dialog, forms, calls, confirmed, excuses>>

ZonesPageStep ==
    \/ OpenCreateZone \/ CloseCreateZone \/ TypeZone
    \/ OpenDeleteZone \/ CancelDeleteZone
    \/ FollowZone \/ ClickZonesAgain
    \/ \E c \in Calls : SubmitZone(c) \/ ConfirmDeleteZone(c)

ZonesPageAnswer(c) == CreateZoneSucceeded(c) \/ DeleteZoneSucceeded(c)
=============================================================================
