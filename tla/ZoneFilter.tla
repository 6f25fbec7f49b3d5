----------------------------- MODULE ZoneFilter -----------------------------
(***************************************************************************)
(* The Bloom filter of active zones in one DNS server process, backend/    *)
(* internal/dns/server.go: the goroutine of NewServer that fills it, the   *)
(* subscriber that adds a zone on zone_create and schedules a rebuild on   *)
(* zone_delete, and the rebuilds, which run in the subscriber at every     *)
(* Threshold-th deletion and in the callbacks of a 10 second timer.  The   *)
(* lock of the server covers only the assignment of the filter pointer.    *)
(*                                                                         *)
(* A filter is the set of names put into it; a query may find more names   *)
(* there than were put, never fewer, so missing names are what matters.    *)
(***************************************************************************)
EXTENDS Naturals

CONSTANTS
    Zones,        \* zone names
    Callbacks,    \* timer callbacks that may run at the same time (a bound)
    Boot,         \* the goroutine of NewServer
    Sub,          \* the subscriber
    None,         \* no name
    Threshold,    \* deletions that force a rebuild (10 in the code)
    MaxChanges    \* bound: zone changes the API makes

ASSUME ThresholdAssumption == Threshold \in Nat \ {0}
ASSUME MaxChangesAssumption == MaxChanges \in Nat
ASSUME NamesAssumption ==
    /\ None \notin Zones
    /\ Boot \notin Callbacks
    /\ Sub \notin Callbacks
    /\ Boot # Sub

VARIABLES
    active,       \* names of the zones that are active in the database
    changes,      \* number of changes the API has made
    bus           \* events on their way to the subscriber

VARIABLES
    filter,       \* names in the filter that s.bloomFilter points to
    detached,     \* adders whose pointer is to an earlier filter
    adding,       \* adding[p]: the name p is in the middle of adding, or None
    seen,         \* seen[p]: what the filter held when p began to add
    boot,         \* "load" until the boot goroutine has read the database
    toAdd,        \* names it has read and not yet begun to add
    sub,          \* where the subscriber is
    count,        \* its copy of pendingRebuilds
    pending,      \* s.pendingRebuilds
    armed,        \* s.rebuildTimer is running
    stage,        \* stage[r]: where rebuild r is
    names         \* names[r]: the names r has read

\* History variables: they record what happened and guard nothing.
VARIABLES
    recent,       \* recent[r]: zones activated since r read the database
    reasons,      \* reasons[z]: why the filter lost or never got active zone z
    owed,         \* a zone_delete was handled since a rebuild last read the zones
    missed        \* and a rebuild has tried since, but could not read them

database == <<active, changes>>
adders   == <<filter, detached, adding, seen>>
rebuilds == <<stage, names, recent>>
timer    == <<count, pending, armed>>
debt     == <<owed, missed>>
vars     == <<database, bus, adders, boot, toAdd, sub, timer, rebuilds, reasons, debt>>

Adders     == {Boot, Sub}
Rebuilders == Callbacks \cup {Sub}
Events     == [type : {"zone_create", "zone_delete"}, zone : Zones, no : 1 .. MaxChanges]
Reasons    == {"unheard", "unread", "raced", "overwritten"}

TypeOK ==
    /\ active \in SUBSET Zones
    /\ changes \in 0 .. MaxChanges
    /\ bus \in SUBSET Events
    /\ filter \in SUBSET Zones
    /\ detached \in SUBSET Adders
    /\ adding \in [Adders -> Zones \cup {None}]
    /\ seen \in [Adders -> SUBSET Zones]
    /\ boot \in {"load", "run"}
    /\ toAdd \in SUBSET Zones
    /\ sub \in {"idle", "adding", "count", "decide", "rebuild", "arm"}
    /\ count \in Nat
    /\ pending \in Nat
    /\ armed \in BOOLEAN
    /\ stage \in [Rebuilders -> {"idle", "load", "swap", "reset"}]
    /\ names \in [Rebuilders -> SUBSET Zones]
    /\ recent \in [Rebuilders -> SUBSET Zones]
    /\ reasons \in [Zones -> SUBSET Reasons]
    /\ owed \in BOOLEAN /\ missed \in BOOLEAN

\* The database is kept from earlier deployments.  A new process has an empty
\* filter, a goroutine about to fill it, and no timer.
Init ==
    /\ active \in SUBSET Zones
    /\ changes = 0
    /\ bus = {}
    /\ filter = {} /\ detached = {}
    /\ adding = [p \in Adders |-> None]
    /\ seen = [p \in Adders |-> {}]
    /\ boot = "load" /\ toAdd = {}
    /\ sub = "idle" /\ count = 0 /\ pending = 0 /\ armed = FALSE
    /\ stage = [r \in Rebuilders |-> "idle"]
    /\ names = [r \in Rebuilders |-> {}]
    /\ recent = [r \in Rebuilders |-> {}]
    /\ reasons = [z \in Zones |-> {}]
    /\ owed = FALSE /\ missed = FALSE

-----------------------------------------------------------------------------
(* The API and the event channel, as this process sees them.               *)

\* The API makes one more change, and a goroutine will publish an event on it.
Change(type, z) ==
    /\ changes < MaxChanges
    /\ changes' = changes + 1
    /\ bus' = bus \cup {[type |-> type, zone |-> z, no |-> changes + 1]}

\* The zone checker activates z.
Activate(z) ==
    /\ z \notin active
    /\ active' = active \cup {z}
    /\ recent' = [r \in Rebuilders |-> IF stage[r] = "swap" THEN recent[r] \cup {z}
                                                             ELSE recent[r]]
    /\ Change("zone_create", z)
    /\ UNCHANGED <<adders, boot, toAdd, sub, timer, stage, names, reasons, debt>>

\* The zone checker announces z without activating it: another replica has,
\* the update failed, or the row is gone.
Announce(z) ==
    /\ Change("zone_create", z)
    /\ UNCHANGED <<active, adders, boot, toAdd, sub, timer, rebuilds, reasons, debt>>

\* A zone of this name is deleted; another active one may bear the same name.
Delete(z) ==
    /\ \/ UNCHANGED <<active, reasons>>
       \/ /\ active' = active \ {z}
          /\ reasons' = [reasons EXCEPT ![z] = {}]
    /\ Change("zone_delete", z)
    /\ UNCHANGED <<adders, boot, toAdd, sub, timer, rebuilds, debt>>

\* Note why the active zones of Z are missing in the filter.
Blame(Z, why) ==
    reasons' = [z \in Zones |-> IF z \in filter' THEN {}
                                ELSE IF z \in Z \cap active THEN reasons[z] \cup {why}
                                ELSE reasons[z]]

\* An event reaches nobody: the API process died before it published, the
\* publish failed, or the subscription was down or fell behind.
Lose(e) ==
    /\ bus' = bus \ {e}
    /\ UNCHANGED <<database, adders, boot, toAdd, sub, timer, rebuilds, debt>>
    /\ Blame(IF e.type = "zone_create" THEN {e.zone} ELSE {}, "unheard")

-----------------------------------------------------------------------------
(* AddString: the words of the bit set are read and written back without a *)
(* lock, and the pointer to the filter was read before.                    *)

BeginAdd(p, z) ==
    /\ adding' = [adding EXCEPT ![p] = z]
    /\ seen' = [seen EXCEPT ![p] = filter]

\* The bits of the name are set.  In the filter in use, names that the other
\* adder added meanwhile may be undone; in an earlier filter nobody looks.
EndAdd(p) ==
    /\ adding' = [adding EXCEPT ![p] = None]
    /\ IF p \in detached
       THEN /\ UNCHANGED filter
            /\ Blame({adding[p]}, "overwritten")
       ELSE \E undone \in SUBSET (filter \ (seen[p] \cup {adding[p]})) :
            /\ filter' = (filter \ undone) \cup {adding[p]}
            /\ Blame(undone, "raced")

-----------------------------------------------------------------------------
(* The goroutine of NewServer.                                             *)

\* It reads the names of the active zones, or fails to and gives up.
BootLoad ==
    /\ boot = "load"
    /\ boot' = "run"
    /\ \/ /\ toAdd' = active
          /\ UNCHANGED reasons
       \/ /\ UNCHANGED <<toAdd, filter>>
          /\ Blame(IF Boot \in detached THEN {} ELSE active, "unread")
    /\ UNCHANGED <<database, bus, adders, sub, timer, rebuilds, debt>>

BootBeginAdd(z) ==
    /\ z \in toAdd
    /\ adding[Boot] = None
    /\ BeginAdd(Boot, z)
    /\ toAdd' = toAdd \ {z}
    /\ UNCHANGED <<database, bus, filter, detached, boot, sub, timer, rebuilds, reasons, debt>>

BootEndAdd ==
    /\ adding[Boot] # None
    /\ EndAdd(Boot)
    /\ UNCHANGED <<database, bus, detached, seen, boot, toAdd, sub, timer, rebuilds, debt>>

-----------------------------------------------------------------------------
(* The subscriber.                                                         *)

\* zone_create: the name goes into the filter that is in use now.
ReceiveCreate(e) ==
    /\ sub = "idle"
    /\ e.type = "zone_create"
    /\ bus' = bus \ {e}
    /\ sub' = "adding"
    /\ BeginAdd(Sub, e.zone)
    /\ detached' = detached \ {Sub}
    /\ UNCHANGED <<database, filter, boot, toAdd, timer, rebuilds, reasons, debt>>

SubEndAdd ==
    /\ sub = "adding"
    /\ sub' = "idle"
    /\ EndAdd(Sub)
    /\ UNCHANGED <<database, bus, detached, seen, boot, toAdd, timer, rebuilds, debt>>

\* zone_delete: pendingRebuilds++ reads the counter ...
ReceiveDelete(e) ==
    /\ sub = "idle"
    /\ e.type = "zone_delete"
    /\ bus' = bus \ {e}
    /\ sub' = "count"
    /\ count' = pending
    /\ owed' = TRUE /\ missed' = FALSE
    /\ UNCHANGED <<database, adders, boot, toAdd, pending, armed, rebuilds, reasons>>

\* Mutant: the counter counts down from zero.
StoreCountDown ==
    /\ sub = "count"
    /\ sub' = "decide"
    /\ count' = count - 1
    /\ pending' = count - 1
    /\ UNCHANGED <<database, bus, adders, boot, toAdd, armed, rebuilds, reasons, debt>>

\* ... and writes it: a reset by a callback in between is undone.
StoreCount ==
    /\ sub = "count"
    /\ sub' = "decide"
    /\ count' = count + 1
    /\ pending' = count + 1
    /\ UNCHANGED <<database, bus, adders, boot, toAdd, armed, rebuilds, reasons, debt>>

\* The number it decides on is what it wrote, or what it reads back.
Decide ==
    /\ sub = "decide"
    /\ \E c \in {count, pending} :
          IF c >= Threshold
          THEN sub' = "rebuild" /\ stage' = [stage EXCEPT ![Sub] = "load"]
          ELSE sub' = "arm" /\ UNCHANGED stage
    /\ UNCHANGED <<database, bus, adders, boot, toAdd, timer, names, recent, reasons, debt>>

\* Mutant: a timer that runs is stopped and none is started in its place.
ArmOrStop ==
    /\ sub = "arm"
    /\ sub' = "idle"
    /\ armed' = ~armed
    /\ UNCHANGED <<database, bus, adders, boot, toAdd, count, pending, rebuilds, reasons, debt>>

\* The timer, if it runs, is stopped, and a new one started.
Arm ==
    /\ sub = "arm"
    /\ sub' = "idle"
    /\ armed' = TRUE
    /\ UNCHANGED <<database, bus, adders, boot, toAdd, count, pending, rebuilds, reasons, debt>>

-----------------------------------------------------------------------------
(* rebuildBloomFilter and the reset of the counter after it.               *)

\* The timer runs out and a callback starts.
Fire(c) ==
    /\ armed
    /\ armed' = FALSE
    /\ stage[c] = "idle"
    /\ stage' = [stage EXCEPT ![c] = "load"]
    /\ UNCHANGED <<database, bus, adders, boot, toAdd, sub, count, pending, names, recent,
                   reasons, debt>>

\* Mutant: the rebuild empties the filter in use before it reads the zones.
LoadIntoUse(r) ==
    /\ stage[r] = "load"
    /\ \/ /\ stage' = [stage EXCEPT ![r] = "swap"]
          /\ names' = [names EXCEPT ![r] = active]
          /\ owed' = FALSE /\ missed' = FALSE
       \/ /\ stage' = [stage EXCEPT ![r] = "reset"]
          /\ missed' = owed
          /\ UNCHANGED <<names, owed>>
    /\ filter' = {}
    /\ UNCHANGED <<database, bus, detached, adding, seen, boot, toAdd, sub, timer, recent,
                   reasons>>

\* The names of the active zones are read; or the read fails and the rebuild
\* gives up, with nothing in the code to try it again.
Load(r) ==
    /\ stage[r] = "load"
    /\ \/ /\ stage' = [stage EXCEPT ![r] = "swap"]
          /\ names' = [names EXCEPT ![r] = active]
          /\ owed' = FALSE /\ missed' = FALSE
       \/ /\ stage' = [stage EXCEPT ![r] = "reset"]
          /\ missed' = owed
          /\ UNCHANGED <<names, owed>>
    /\ UNCHANGED <<database, bus, adders, boot, toAdd, sub, timer, recent, reasons>>

\* The new filter replaces the one in use, with all that was added to that.
Swap(r) ==
    /\ stage[r] = "swap"
    /\ stage' = [stage EXCEPT ![r] = "reset"]
    /\ filter' = names[r]
    /\ detached' = Adders
    /\ names' = [names EXCEPT ![r] = {}]
    /\ recent' = [recent EXCEPT ![r] = {}]
    /\ Blame(filter \cap recent[r], "overwritten")
    /\ UNCHANGED <<database, bus, adding, seen, boot, toAdd, sub, timer, debt>>

\* The counter is reset, also after a rebuild that gave up.
Reset(r) ==
    /\ stage[r] = "reset"
    /\ stage' = [stage EXCEPT ![r] = "idle"]
    /\ pending' = 0
    /\ sub' = IF r = Sub THEN "arm" ELSE sub
    /\ UNCHANGED <<database, bus, adders, boot, toAdd, count, armed, names, recent, reasons,
                   debt>>

\* The process dies and is started again: its filter is empty, and is owed no
\* rebuild to lose deleted zones.
Restart ==
    /\ filter' = {} /\ detached' = {}
    /\ adding' = [p \in Adders |-> None]
    /\ seen' = [p \in Adders |-> {}]
    /\ boot' = "load" /\ toAdd' = {}
    /\ sub' = "idle" /\ count' = 0 /\ pending' = 0 /\ armed' = FALSE
    /\ stage' = [r \in Rebuilders |-> "idle"]
    /\ names' = [r \in Rebuilders |-> {}]
    /\ recent' = [r \in Rebuilders |-> {}]
    /\ reasons' = [z \in Zones |-> {}]
    /\ owed' = FALSE /\ missed' = FALSE
    /\ UNCHANGED <<database, bus>>

-----------------------------------------------------------------------------
Api(z) == Activate(z) \/ Announce(z) \/ Delete(z)

Booting == BootLoad \/ BootEndAdd \/ \E z \in Zones : BootBeginAdd(z)

Handling == SubEndAdd \/ StoreCount \/ Decide \/ Arm

Receive == \E e \in bus : ReceiveCreate(e) \/ ReceiveDelete(e)

Rebuild(r) == Load(r) \/ Swap(r) \/ Reset(r)

Next ==
    \/ \E z \in Zones : Api(z)
    \/ \E e \in bus : Lose(e)
    \/ Booting \/ Receive \/ Handling
    \/ \E c \in Callbacks : Fire(c)
    \/ \E r \in Rebuilders : Rebuild(r)
    \/ Restart

Spec == Init /\ [][Next]_vars

(***************************************************************************)
(* Goroutines run, a read of the database ends, and a timer that is left   *)
(* alone runs out.  Nothing makes the API act or an event get through.     *)
(***************************************************************************)
Fairness ==
    /\ WF_vars(Booting) /\ WF_vars(Handling)
    /\ WF_vars(\E c \in Callbacks : Fire(c))
    /\ \A r \in Rebuilders : WF_vars(Rebuild(r))

FairSpec == Spec /\ Fairness

-----------------------------------------------------------------------------
(* Properties                                                              *)

\* The name of z is on its way into the filter in use.
OnItsWay(z) ==
    \/ \E e \in bus : e.type = "zone_create" /\ e.zone = z
    \/ adding[Sub] = z
    \/ Boot \notin detached /\ (boot = "load" \/ z \in toAdd \cup {adding[Boot]})

\* An active zone that the filter does not know, whose queries the server thus
\* answers with NXDOMAIN, is on its way into the filter, or was forgotten for one
\* of four reasons: its event was lost, the boot goroutine failed to read the
\* zones, an unlocked AddString undid it, or a rebuild that had read the zones
\* before z was activated replaced the filter that z was added to.
AbsenceIsExplained ==
    \A z \in active \ filter : OnItsWay(z) \/ reasons[z] # {}

\* server.go:219, "check with the bloom filter whether the zone exists": once
\* its event was heard, and nothing else went wrong, an active zone is found.
HeardZonesAreFound ==
    \A z \in active \ filter : OnItsWay(z) \/ reasons[z] \ {"overwritten"} # {}

\* A deletion that was handled, and after which the zones were not read, has a
\* rebuild coming: the timer runs, a callback or the subscriber is about to read,
\* or the subscriber is on its way to arm the timer (Stop and AfterFunc never drop
\* the last one).  The one exception is a rebuild whose read failed: it gives up.
RebuildIsScheduled ==
    owed => \/ missed
            \/ armed
            \/ sub \in {"count", "decide", "rebuild", "arm"}
            \/ \E c \in Callbacks : stage[c] = "load"

\* After every deletion that is handled the zones are read again, unless the
\* process dies (its successor's filter is empty) or a rebuild after it tries to
\* read them and fails: that one is not repeated (server.go:114-117).
RebuildFollows == owed ~> (~owed \/ missed)

-----------------------------------------------------------------------------
(* The inductive invariant behind AbsenceIsExplained.                      *)

\* z will be added by the subscriber, or is known to be forgotten.
Announced(z) ==
    \/ \E e \in bus : e.type = "zone_create" /\ e.zone = z
    \/ adding[Sub] = z
    \/ reasons[z] # {}

\* What a rebuild did not read was activated since, and announced since.
RebuildOK(r) ==
    /\ active \subseteq names[r] \cup recent[r] \/ stage[r] # "swap"
    /\ recent[r] = {} \/ stage[r] = "swap"
    /\ \A z \in (recent[r] \cap active) \ filter : Announced(z)

\* The subscriber does one thing at a time.
SubscriberOK ==
    /\ sub = "adding" <=> adding[Sub] # None
    /\ sub = "rebuild" <=> stage[Sub] # "idle"

Inv ==
    /\ TypeOK
    /\ SubscriberOK
    /\ \A r \in Rebuilders : RebuildOK(r)
    /\ AbsenceIsExplained
    /\ RebuildIsScheduled
=============================================================================
