------------------------------ MODULE ZonePage ------------------------------
(***************************************************************************)
(* The records of one zone, frontend/app/routes/dash/zone.tsx: a dialog    *)
(* for a new record, and for each row a dialog to edit and one to delete   *)
(* it.  All rows share one edit form and one mutation of each kind.        *)
(***************************************************************************)
EXTENDS PanelPage

\* The create dialog's onOpenChange resets the form, at both ends.
OpenCreate ==
    /\ page \in Names
    /\ Opened("create", None)
    /\ createForm' = "invalid"
    /\ UNCHANGED <<tables, page, attached, query, editForm, editing, zoneForm, calls,
                   confirmed, excuses>>

CloseCreate ==
    /\ Closed("create")
    /\ createForm' = "invalid"
    /\ UNCHANGED <<tables, page, attached, query, editForm, editing, zoneForm, calls,
                   confirmed, excuses>>

TypeRecord ==
    /\ dialog.kind = "create"
    /\ createForm' \in {"valid", "invalid"}
    /\ UNCHANGED <<tables, page, attached, query, dialog, editForm, editing, zoneForm,
                   calls, confirmed, excuses>>

\* handleSubmit calls onSubmit if the schema admits the values: a name and a
\* type, a content of 2 to 255 characters, a TTL of 300 to 86400.
SubmitRecord(c) ==
    /\ dialog.kind = "create"
    /\ createForm = "valid"
    /\ Mutate(c, "createDNSRecord", [zoneName |-> page])
    /\ UNCHANGED <<tables, tab>>

CreateSucceeded(c) ==
    /\ Arrives(c, "createDNSRecord")
    /\ createForm' = "invalid"
    /\ ClickClose("create")
    /\ Invalidate
    /\ UNCHANGED <<tables, page, attached, editForm, editing, zoneForm>>

\* What the form holds of a row when its dialog opens; the row may hold what
\* the schema does not admit.
FormOf(id, state) == [id |-> id, content |-> id, state |-> state]

\* Mutant: a form that was filled once is not filled again.
OpenEditKeepingForm ==
    /\ page \in Names
    /\ \E id \in Shown, state \in {"valid", "invalid"} :
          /\ Opened("edit", id)
          /\ editing' = id
          /\ editForm' = IF editForm.id = None THEN FormOf(id, state) ELSE editForm
    /\ UNCHANGED <<tables, page, attached, query, createForm, zoneForm, calls, confirmed,
                   excuses>>

OpenEdit ==
    /\ page \in Names
    /\ \E id \in Shown, state \in {"valid", "invalid"} :
          /\ Opened("edit", id)
          /\ editing' = id
          /\ editForm' = FormOf(id, state)
    /\ UNCHANGED <<tables, page, attached, query, createForm, zoneForm, calls, confirmed,
                   excuses>>

\* reset() goes back to the values the form was last reset to.
CloseEdit ==
    /\ Closed("edit")
    /\ editing' = None
    /\ editForm' = FormOf(editForm.id, "invalid")
    /\ UNCHANGED <<tables, page, attached, query, createForm, zoneForm, calls, confirmed,
                   excuses>>

\* What is typed is meant for the row in whose dialog it is typed.
TypeContent ==
    /\ dialog.kind = "edit"
    /\ \E state \in {"valid", "invalid"} :
          editForm' = [editForm EXCEPT !.content = dialog.of, !.state = state]
    /\ UNCHANGED <<tables, page, attached, query, dialog, createForm, editing, zoneForm,
                   calls, confirmed, excuses>>

SubmitEdit(c) ==
    /\ dialog.kind = "edit"
    /\ editForm.state = "valid"
    /\ Mutate(c, "updateDNSRecord", [id |-> editForm.id, content |-> editForm.content])
    /\ UNCHANGED <<tables, tab>>

\* Mutant: the close button that is clicked is that of any dialog.
EditSucceededClosingAny(c) ==
    /\ Arrives(c, "updateDNSRecord")
    /\ editForm' = FormOf(editForm.id, "invalid")
    /\ editing' = None
    /\ dialog' = NoDialog
    /\ Invalidate
    /\ UNCHANGED <<tables, page, attached, createForm, zoneForm>>

\* Success resets the form and closes the edit dialog that is open, also that
\* of another row than the one that was updated.
EditSucceeded(c) ==
    /\ Arrives(c, "updateDNSRecord")
    /\ editForm' = FormOf(editForm.id, "invalid")
    /\ editing' = None
    /\ ClickClose("edit")
    /\ Invalidate
    /\ UNCHANGED <<tables, page, attached, createForm, zoneForm>>

OpenDelete ==
    /\ page \in Names
    /\ \E id \in Shown : Opened("delete", id)
    /\ UNCHANGED <<tables, page, attached, query, forms, calls, confirmed, excuses>>

CancelDelete ==
    /\ Closed("delete")
    /\ UNCHANGED <<tables, page, attached, query, forms, calls, confirmed, excuses>>

\* Mutant: the id is taken from the dialog that is closed.
ConfirmDeleteClosed(c) ==
    /\ Closed("delete")
    /\ Mutate(c, "deleteDNSRecord", [id |-> dialog'.of])
    /\ UNCHANGED <<tables, page, attached, query, forms, confirmed, excuses>>

ConfirmDelete(c) ==
    /\ Mutate(c, "deleteDNSRecord", [id |-> dialog.of])
    /\ Closed("delete")
    /\ UNCHANGED <<tables, page, attached, query, forms, confirmed, excuses>>

\* Mutant: the list is not invalidated.
DeleteSucceededSilently(c) ==
    /\ Arrives(c, "deleteDNSRecord")
    /\ UNCHANGED <<tables, page, attached, query, dialog, forms, excuses>>

DeleteSucceeded(c) ==
    /\ Arrives(c, "deleteDNSRecord")
    /\ Invalidate
    /\ UNCHANGED <<tables, page, attached, dialog, forms>>

ZonePageStep ==
    \/ OpenCreate \/ CloseCreate \/ TypeRecord
    \/ OpenEdit \/ CloseEdit \/ TypeContent
    \/ OpenDelete \/ CancelDelete
    \/ \E c \in Calls : SubmitRecord(c) \/ SubmitEdit(c) \/ ConfirmDelete(c)

ZonePageAnswer(c) == CreateSucceeded(c) \/ EditSucceeded(c) \/ DeleteSucceeded(c)
=============================================================================
