-------------------------- MODULE ZoneFilterProofs --------------------------
(***************************************************************************)
(* Proofs about ZoneFilter, for any set of zones, any number of timer      *)
(* callbacks at work together, any threshold and any bound on the changes: *)
(* Inv is inductive, and with it every absence from the filter is          *)
(* explained, and every deletion that was handled is followed by a read of *)
(* the zones, has one coming, or lost it to a failed read.  One lemma per  *)
(* action, with one step per conjunct of Inv.                              *)
(***************************************************************************)
EXTENDS ZoneFilter, TLAPS

\* The initial states satisfy the invariant.
LEMMA InitInv == Init => Inv
<1> SUFFICES ASSUME Init PROVE Inv
  OBVIOUS
<1> USE NamesAssumption, MaxChangesAssumption DEF Init, Adders, Rebuilders
<1>1. TypeOK
  <2>1. adding \in [Adders -> Zones \cup {None}] /\ seen \in [Adders -> SUBSET Zones]
    OBVIOUS
  <2>2. /\ stage \in [Rebuilders -> {"idle", "load", "swap", "reset"}]
        /\ names \in [Rebuilders -> SUBSET Zones]
        /\ recent \in [Rebuilders -> SUBSET Zones]
    OBVIOUS
  <2>3. reasons \in [Zones -> SUBSET Reasons]
    OBVIOUS
  <2>4. active \in SUBSET Zones /\ changes \in 0 .. MaxChanges /\ bus \in SUBSET Events
    OBVIOUS
  <2> QED
    BY <2>1, <2>2, <2>3, <2>4 DEF TypeOK
<1>2. SubscriberOK /\ \A r \in Rebuilders : RebuildOK(r)
  BY DEF SubscriberOK, RebuildOK
<1>3. AbsenceIsExplained /\ RebuildIsScheduled
  BY DEF AbsenceIsExplained, OnItsWay, RebuildIsScheduled
<1> QED
  BY <1>1, <1>2, <1>3 DEF Inv

\* The new zone is announced, and recent for every rebuild that has read.
LEMMA ActivateInv ==
  ASSUME Inv, NEW y \in Zones, Activate(y) PROVE Inv'
<1> USE NamesAssumption, MaxChangesAssumption
    DEF Inv, Activate, Change, database, adders, rebuilds, timer, debt, Adders, Rebuilders
<1>1. TypeOK'
  BY DEF TypeOK, Events, Reasons
<1>2. SubscriberOK'
  BY DEF TypeOK, SubscriberOK, Events
<1>a. Announced(y)'
  <2>1. [type |-> "zone_create", zone |-> y, no |-> changes + 1] \in bus'
    OBVIOUS
  <2> QED
    BY <2>1 DEF Announced
<1>b. ASSUME NEW z \in Zones, Announced(z) PROVE Announced(z)'
  BY <1>b DEF Announced
<1>3. ASSUME NEW r \in Rebuilders PROVE RebuildOK(r)'
  BY <1>a, <1>b DEF TypeOK, RebuildOK
<1>4. AbsenceIsExplained'
  <2>1. OnItsWay(y)'
    <3>1. [type |-> "zone_create", zone |-> y, no |-> changes + 1] \in bus'
      OBVIOUS
    <3> QED
      BY <3>1 DEF OnItsWay
  <2>2. ASSUME NEW z \in Zones, OnItsWay(z) PROVE OnItsWay(z)'
    BY <2>2 DEF OnItsWay
  <2> QED
    BY <2>1, <2>2 DEF TypeOK, AbsenceIsExplained
<1>5. RebuildIsScheduled'
  BY DEF TypeOK, SubscriberOK, RebuildIsScheduled
<1> QED
  BY <1>1, <1>2, <1>3, <1>4, <1>5

\* One more event explains no less.
LEMMA AnnounceInv ==
  ASSUME Inv, NEW y \in Zones, Announce(y) PROVE Inv'
<1> USE NamesAssumption, MaxChangesAssumption
    DEF Inv, Announce, Change, database, adders, rebuilds, timer, debt, Adders, Rebuilders
<1>1. TypeOK'
  BY DEF TypeOK, Events, Reasons
<1>2. SubscriberOK'
  BY DEF TypeOK, SubscriberOK, Events
<1>3. ASSUME NEW r \in Rebuilders PROVE RebuildOK(r)'
  BY DEF TypeOK, RebuildOK, Announced
<1>4. AbsenceIsExplained'
  BY DEF TypeOK, AbsenceIsExplained, OnItsWay, RebuildOK, Announced
<1>5. RebuildIsScheduled'
  BY DEF TypeOK, SubscriberOK, RebuildIsScheduled
<1> QED
  BY <1>1, <1>2, <1>3, <1>4, <1>5

\* What is not active needs no explanation.
LEMMA DeleteInv ==
  ASSUME Inv, NEW y \in Zones, Delete(y) PROVE Inv'
<1> USE NamesAssumption, MaxChangesAssumption
    DEF Inv, Delete, Change, database, adders, rebuilds, timer, debt, Adders, Rebuilders
<1>1. TypeOK'
  BY DEF TypeOK, Events, Reasons
<1>2. SubscriberOK'
  BY DEF TypeOK, SubscriberOK, Events
<1>3. ASSUME NEW r \in Rebuilders PROVE RebuildOK(r)'
  BY DEF TypeOK, RebuildOK, Announced
<1>4. AbsenceIsExplained'
  BY DEF TypeOK, AbsenceIsExplained, OnItsWay, RebuildOK, Announced
<1>5. RebuildIsScheduled'
  BY DEF TypeOK, SubscriberOK, RebuildIsScheduled
<1> QED
  BY <1>1, <1>2, <1>3, <1>4, <1>5

\* A lost zone_create becomes a reason.
LEMMA LoseInv ==
  ASSUME Inv, NEW d \in bus, Lose(d) PROVE Inv'
<1> USE NamesAssumption, MaxChangesAssumption
    DEF Inv, Lose, Blame, database, adders, rebuilds, timer, debt, Adders, Rebuilders
<1>1. TypeOK'
  BY DEF TypeOK, Events, Reasons
<1>2. SubscriberOK'
  BY DEF TypeOK, SubscriberOK, Events
<1>3. ASSUME NEW r \in Rebuilders PROVE RebuildOK(r)'
  BY DEF TypeOK, RebuildOK, Announced
<1>4. AbsenceIsExplained'
  BY DEF TypeOK, AbsenceIsExplained, OnItsWay, RebuildOK, Announced
<1>5. RebuildIsScheduled'
  BY DEF TypeOK, SubscriberOK, RebuildIsScheduled
<1> QED
  BY <1>1, <1>2, <1>3, <1>4, <1>5

\* The boot goroutine holds every active name, or a reason is noted.
LEMMA BootLoadInv ==
  ASSUME Inv, BootLoad PROVE Inv'
<1> USE NamesAssumption, MaxChangesAssumption
    DEF Inv, BootLoad, Blame, database, adders, rebuilds, timer, debt, Adders, Rebuilders
<1>1. TypeOK'
  BY DEF TypeOK, Events, Reasons
<1>2. SubscriberOK'
  BY DEF TypeOK, SubscriberOK, Events
<1>3. ASSUME NEW r \in Rebuilders PROVE RebuildOK(r)'
  BY DEF TypeOK, RebuildOK, Announced
<1>4. AbsenceIsExplained'
  <2> SUFFICES ASSUME NEW z \in active \ filter, ~OnItsWay(z)'
               PROVE  reasons'[z] # {}
    BY DEF AbsenceIsExplained
  <2>1. z \in Zones /\ reasons[z] \subseteq reasons'[z]
    BY DEF TypeOK
  <2>2. CASE OnItsWay(z)
    <3>1. Boot \notin detached /\ z \notin toAdd'
      BY <2>2 DEF OnItsWay
    <3> QED
      BY <2>1, <3>1
  <2>3. CASE ~OnItsWay(z)
    BY <2>1, <2>3 DEF AbsenceIsExplained
  <2> QED
    BY <2>2, <2>3
<1>5. RebuildIsScheduled'
  BY DEF TypeOK, SubscriberOK, RebuildIsScheduled
<1> QED
  BY <1>1, <1>2, <1>3, <1>4, <1>5

\* The name stays on its way.
LEMMA BootBeginAddInv ==
  ASSUME Inv, NEW y \in Zones, BootBeginAdd(y) PROVE Inv'
<1> USE NamesAssumption, MaxChangesAssumption
    DEF Inv, BootBeginAdd, BeginAdd, database, adders, rebuilds, timer, debt, Adders, Rebuilders
<1>1. TypeOK'
  BY DEF TypeOK, Events, Reasons
<1>2. SubscriberOK'
  BY DEF TypeOK, SubscriberOK, Events
<1>3. ASSUME NEW r \in Rebuilders PROVE RebuildOK(r)'
  BY DEF TypeOK, RebuildOK, Announced
<1>4. AbsenceIsExplained'
  BY DEF TypeOK, AbsenceIsExplained, OnItsWay, RebuildOK, Announced
<1>5. RebuildIsScheduled'
  BY DEF TypeOK, SubscriberOK, RebuildIsScheduled
<1> QED
  BY <1>1, <1>2, <1>3, <1>4, <1>5

\* The name arrives; names that the race undid have a reason.
LEMMA BootEndAddInv ==
  ASSUME Inv, BootEndAdd PROVE Inv'
<1> USE NamesAssumption, MaxChangesAssumption
    DEF Inv, BootEndAdd, EndAdd, Blame, database, adders, rebuilds, timer, debt, Adders, Rebuilders
<1>1. TypeOK'
  BY DEF TypeOK, Events, Reasons
<1>2. SubscriberOK'
  BY DEF TypeOK, SubscriberOK, Events
<1>3. ASSUME NEW r \in Rebuilders PROVE RebuildOK(r)'
  <2>1. ASSUME NEW z \in (recent[r] \cap active) \ filter', z # adding[Boot] PROVE Announced(z)'
    <3>1. z \in Zones /\ (z \in filter => reasons'[z] # {})
      BY <2>1 DEF TypeOK
    <3>2. adding[Boot] # z /\ reasons[z] \subseteq reasons'[z]
      BY <2>1 DEF TypeOK
    <3> QED
      BY <2>1, <3>1, <3>2 DEF TypeOK, RebuildOK, Announced
  <2>2. ASSUME NEW z \in active \ filter', z = adding[Boot] PROVE Announced(z)'
    <3>1. "overwritten" \in reasons'[z]
      BY <2>2 DEF TypeOK
    <3> QED
      BY <3>1 DEF Announced
  <2>3. RebuildOK(r) /\ UNCHANGED <<active, stage, names, recent>>
    OBVIOUS
  <2> HIDE DEF BootEndAdd, EndAdd, Blame
  <2> QED
    BY <2>1, <2>2, <2>3 DEF RebuildOK
<1>4. AbsenceIsExplained'
  BY DEF TypeOK, AbsenceIsExplained, OnItsWay, RebuildOK, Announced
<1>5. RebuildIsScheduled'
  BY DEF TypeOK, SubscriberOK, RebuildIsScheduled
<1> QED
  BY <1>1, <1>2, <1>3, <1>4, <1>5

\* The name passes from the event to the subscriber.
LEMMA ReceiveCreateInv ==
  ASSUME Inv, NEW d \in bus, ReceiveCreate(d) PROVE Inv'
<1> USE NamesAssumption, MaxChangesAssumption
    DEF Inv, ReceiveCreate, BeginAdd, database, adders, rebuilds, timer, debt, Adders, Rebuilders
<1>1. TypeOK'
  BY DEF TypeOK, Events, Reasons
<1>2. SubscriberOK'
  BY DEF TypeOK, SubscriberOK, Events
<1>a. adding[Sub] = None /\ adding'[Sub] = d.zone /\ adding'[Boot] = adding[Boot]
  BY DEF TypeOK, SubscriberOK
<1>b. ASSUME NEW z \in Zones, Announced(z) PROVE Announced(z)'
  <2>1. CASE z = d.zone
    BY <2>1, <1>a DEF Announced
  <2>2. CASE z # d.zone
    BY <2>2, <1>a, <1>b DEF Announced
  <2> QED
    BY <2>1, <2>2
<1>3. ASSUME NEW r \in Rebuilders PROVE RebuildOK(r)'
  BY <1>b DEF TypeOK, RebuildOK
<1>4. AbsenceIsExplained'
  <2>1. ASSUME NEW z \in Zones, OnItsWay(z) PROVE OnItsWay(z)'
    <3>1. CASE z = d.zone
      BY <3>1, <1>a DEF OnItsWay
    <3>2. CASE z # d.zone
      BY <3>2, <2>1, <1>a DEF OnItsWay
    <3> QED
      BY <3>1, <3>2
  <2> QED
    BY <2>1 DEF TypeOK, AbsenceIsExplained
<1>5. RebuildIsScheduled'
  BY DEF TypeOK, SubscriberOK, RebuildIsScheduled
<1> QED
  BY <1>1, <1>2, <1>3, <1>4, <1>5

\* The name arrives, or went into a filter that was replaced.
LEMMA SubEndAddInv ==
  ASSUME Inv, SubEndAdd PROVE Inv'
<1> USE NamesAssumption, MaxChangesAssumption
    DEF Inv, SubEndAdd, EndAdd, Blame, database, adders, rebuilds, timer, debt, Adders, Rebuilders
<1>0. adding[Sub] \in Zones
  BY DEF TypeOK, SubscriberOK
<1>1. TypeOK'
  <2>1. CASE Sub \in detached
    BY <1>0, <2>1 DEF TypeOK, Reasons
  <2>2. CASE Sub \notin detached
    BY <1>0, <2>2 DEF TypeOK, Reasons
  <2> QED
    BY <2>1, <2>2
<1>2. SubscriberOK'
  BY DEF TypeOK, SubscriberOK, Events
<1>3. ASSUME NEW r \in Rebuilders PROVE RebuildOK(r)'
  <2>1. ASSUME NEW z \in (recent[r] \cap active) \ filter', z # adding[Sub] PROVE Announced(z)'
    <3>1. z \in Zones /\ (z \in filter => reasons'[z] # {})
      BY <2>1 DEF TypeOK
    <3>2. adding[Sub] # z /\ reasons[z] \subseteq reasons'[z]
      BY <2>1 DEF TypeOK
    <3> QED
      BY <2>1, <3>1, <3>2 DEF TypeOK, RebuildOK, Announced
  <2>2. ASSUME NEW z \in active \ filter', z = adding[Sub] PROVE Announced(z)'
    <3>1. "overwritten" \in reasons'[z]
      BY <2>2 DEF TypeOK
    <3> QED
      BY <3>1 DEF Announced
  <2>3. RebuildOK(r) /\ UNCHANGED <<active, stage, names, recent>>
    OBVIOUS
  <2> HIDE DEF SubEndAdd, EndAdd, Blame
  <2> QED
    BY <2>1, <2>2, <2>3 DEF RebuildOK
<1>4. AbsenceIsExplained'
  BY DEF TypeOK, AbsenceIsExplained, OnItsWay, RebuildOK, Announced
<1>5. RebuildIsScheduled'
  BY DEF TypeOK, SubscriberOK, RebuildIsScheduled
<1> QED
  BY <1>1, <1>2, <1>3, <1>4, <1>5

\* The subscriber is on its way to arm the timer.
LEMMA ReceiveDeleteInv ==
  ASSUME Inv, NEW d \in bus, ReceiveDelete(d) PROVE Inv'
<1> USE NamesAssumption, MaxChangesAssumption
    DEF Inv, ReceiveDelete, database, adders, rebuilds, timer, debt, Adders, Rebuilders
<1>1. TypeOK'
  BY DEF TypeOK, Events, Reasons
<1>2. SubscriberOK'
  BY DEF TypeOK, SubscriberOK, Events
<1>3. ASSUME NEW r \in Rebuilders PROVE RebuildOK(r)'
  BY DEF TypeOK, RebuildOK, Announced
<1>4. AbsenceIsExplained'
  BY DEF TypeOK, AbsenceIsExplained, OnItsWay, RebuildOK, Announced
<1>5. RebuildIsScheduled'
  BY DEF TypeOK, SubscriberOK, RebuildIsScheduled
<1> QED
  BY <1>1, <1>2, <1>3, <1>4, <1>5

\* Only the counter changes.
LEMMA StoreCountInv ==
  ASSUME Inv, StoreCount PROVE Inv'
<1> USE NamesAssumption, MaxChangesAssumption
    DEF Inv, StoreCount, database, adders, rebuilds, timer, debt, Adders, Rebuilders
<1>1. TypeOK'
  BY DEF TypeOK, Events, Reasons
<1>2. SubscriberOK'
  BY DEF TypeOK, SubscriberOK, Events
<1>3. ASSUME NEW r \in Rebuilders PROVE RebuildOK(r)'
  BY DEF TypeOK, RebuildOK, Announced
<1>4. AbsenceIsExplained'
  BY DEF TypeOK, AbsenceIsExplained, OnItsWay, RebuildOK, Announced
<1>5. RebuildIsScheduled'
  BY DEF TypeOK, SubscriberOK, RebuildIsScheduled
<1> QED
  BY <1>1, <1>2, <1>3, <1>4, <1>5

\* The subscriber rebuilds or goes on to arm the timer.
LEMMA DecideInv ==
  ASSUME Inv, Decide PROVE Inv'
<1> USE NamesAssumption, MaxChangesAssumption
    DEF Inv, Decide, database, adders, rebuilds, timer, debt, Adders, Rebuilders
<1>1. TypeOK'
  BY DEF TypeOK, Events, Reasons
<1>2. SubscriberOK'
  BY DEF TypeOK, SubscriberOK, Events
<1>3. ASSUME NEW r \in Rebuilders PROVE RebuildOK(r)'
  <2>1. CASE r = Sub
    BY <2>1 DEF TypeOK, SubscriberOK, RebuildOK, Announced
  <2>2. CASE r # Sub
    BY <2>2 DEF TypeOK, RebuildOK, Announced
  <2> QED
    BY <2>1, <2>2
<1>4. AbsenceIsExplained'
  BY DEF TypeOK, AbsenceIsExplained, OnItsWay, RebuildOK, Announced
<1>5. RebuildIsScheduled'
  BY DEF TypeOK, SubscriberOK, RebuildIsScheduled
<1> QED
  BY <1>1, <1>2, <1>3, <1>4, <1>5

\* The timer runs.
LEMMA ArmInv ==
  ASSUME Inv, Arm PROVE Inv'
<1> USE NamesAssumption, MaxChangesAssumption
    DEF Inv, Arm, database, adders, rebuilds, timer, debt, Adders, Rebuilders
<1>1. TypeOK'
  BY DEF TypeOK, Events, Reasons
<1>2. SubscriberOK'
  BY DEF TypeOK, SubscriberOK, Events
<1>3. ASSUME NEW r \in Rebuilders PROVE RebuildOK(r)'
  BY DEF TypeOK, RebuildOK, Announced
<1>4. AbsenceIsExplained'
  BY DEF TypeOK, AbsenceIsExplained, OnItsWay, RebuildOK, Announced
<1>5. RebuildIsScheduled'
  BY DEF TypeOK, SubscriberOK, RebuildIsScheduled
<1> QED
  BY <1>1, <1>2, <1>3, <1>4, <1>5

\* The callback is about to read the zones.
LEMMA FireInv ==
  ASSUME Inv, NEW c \in Callbacks, Fire(c) PROVE Inv'
<1> USE NamesAssumption, MaxChangesAssumption
    DEF Inv, Fire, database, adders, rebuilds, timer, debt, Adders, Rebuilders
<1>1. TypeOK'
  BY DEF TypeOK, Events, Reasons
<1>2. SubscriberOK'
  BY DEF TypeOK, SubscriberOK, Events
<1>3. ASSUME NEW r \in Rebuilders PROVE RebuildOK(r)'
  BY DEF TypeOK, RebuildOK, Announced
<1>4. AbsenceIsExplained'
  BY DEF TypeOK, AbsenceIsExplained, OnItsWay, RebuildOK, Announced
<1>5. RebuildIsScheduled'
  BY DEF TypeOK, SubscriberOK, RebuildIsScheduled
<1> QED
  BY <1>1, <1>2, <1>3, <1>4, <1>5

\* Every active name is read and nothing is owed any more, or the rebuild that
\* was owed is known to have failed.
LEMMA LoadInv ==
  ASSUME Inv, NEW p \in Rebuilders, Load(p) PROVE Inv'
<1> USE NamesAssumption, MaxChangesAssumption
    DEF Inv, Load, database, adders, rebuilds, timer, debt, Adders, Rebuilders
<1>1. TypeOK'
  BY DEF TypeOK, Events, Reasons
<1>2. SubscriberOK'
  BY DEF TypeOK, SubscriberOK, Events
<1>3. ASSUME NEW r \in Rebuilders PROVE RebuildOK(r)'
  BY DEF TypeOK, RebuildOK, Announced
<1>4. AbsenceIsExplained'
  BY DEF TypeOK, AbsenceIsExplained, OnItsWay, RebuildOK, Announced
<1>5. RebuildIsScheduled'
  BY DEF TypeOK, SubscriberOK, RebuildIsScheduled
<1> QED
  BY <1>1, <1>2, <1>3, <1>4, <1>5

\* What the new filter lacks was activated since it was read: it is announced,
\* or it was in the old filter and has a reason now.
LEMMA SwapInv ==
  ASSUME Inv, NEW p \in Rebuilders, Swap(p) PROVE Inv'
<1> USE NamesAssumption, MaxChangesAssumption
    DEF Inv, Swap, Blame, database, adders, rebuilds, timer, debt, Adders, Rebuilders
<1>1. TypeOK'
  BY DEF TypeOK, Events, Reasons
<1>2. SubscriberOK'
  BY DEF TypeOK, SubscriberOK, Events
<1>3. ASSUME NEW r \in Rebuilders PROVE RebuildOK(r)'
  BY DEF TypeOK, RebuildOK, Announced
<1>4. AbsenceIsExplained'
  BY DEF TypeOK, AbsenceIsExplained, OnItsWay, RebuildOK, Announced
<1>5. RebuildIsScheduled'
  BY DEF TypeOK, SubscriberOK, RebuildIsScheduled
<1> QED
  BY <1>1, <1>2, <1>3, <1>4, <1>5

\* Only the counter changes.
LEMMA ResetInv ==
  ASSUME Inv, NEW p \in Rebuilders, Reset(p) PROVE Inv'
<1> USE NamesAssumption, MaxChangesAssumption
    DEF Inv, Reset, database, adders, rebuilds, timer, debt, Adders, Rebuilders
<1>1. TypeOK'
  BY DEF TypeOK, Events, Reasons
<1>2. SubscriberOK'
  BY DEF TypeOK, SubscriberOK, Events
<1>3. ASSUME NEW r \in Rebuilders PROVE RebuildOK(r)'
  BY DEF TypeOK, RebuildOK, Announced
<1>4. AbsenceIsExplained'
  BY DEF TypeOK, AbsenceIsExplained, OnItsWay, RebuildOK, Announced
<1>5. RebuildIsScheduled'
  BY DEF TypeOK, SubscriberOK, RebuildIsScheduled
<1> QED
  BY <1>1, <1>2, <1>3, <1>4, <1>5

\* A new process will read every active name.
LEMMA RestartInv ==
  ASSUME Inv, Restart PROVE Inv'
<1> USE NamesAssumption, MaxChangesAssumption
    DEF Inv, Restart, database, adders, rebuilds, timer, debt, Adders, Rebuilders
<1>1. TypeOK'
  BY DEF TypeOK, Events, Reasons
<1>2. SubscriberOK'
  BY DEF TypeOK, SubscriberOK, Events
<1>3. ASSUME NEW r \in Rebuilders PROVE RebuildOK(r)'
  BY DEF TypeOK, RebuildOK, Announced
<1>4. AbsenceIsExplained'
  BY DEF TypeOK, AbsenceIsExplained, OnItsWay, RebuildOK, Announced
<1>5. RebuildIsScheduled'
  BY DEF TypeOK, SubscriberOK, RebuildIsScheduled
<1> QED
  BY <1>1, <1>2, <1>3, <1>4, <1>5

-----------------------------------------------------------------------------
\* Every step of the process, the API and the event channel keeps the invariant.
LEMMA NextInv == Inv /\ [Next]_vars => Inv'
<1> SUFFICES ASSUME Inv, [Next]_vars PROVE Inv'
  OBVIOUS
<1>1. CASE UNCHANGED vars
  BY <1>1 DEF vars, database, adders, rebuilds, timer, debt, Inv, TypeOK, SubscriberOK, RebuildOK,
              Announced, AbsenceIsExplained, OnItsWay, RebuildIsScheduled
<1>2. ASSUME NEW y \in Zones, Api(y) PROVE Inv'
  BY <1>2, ActivateInv, AnnounceInv, DeleteInv DEF Api
<1>3. ASSUME NEW d \in bus, Lose(d) PROVE Inv'
  BY <1>3, LoseInv
<1>4. CASE Booting
  BY <1>4, BootLoadInv, BootBeginAddInv, BootEndAddInv DEF Booting
<1>5. CASE Receive
  BY <1>5, ReceiveCreateInv, ReceiveDeleteInv DEF Receive
<1>6. CASE Handling
  BY <1>6, SubEndAddInv, StoreCountInv, DecideInv, ArmInv DEF Handling
<1>7. ASSUME NEW c \in Callbacks, Fire(c) PROVE Inv'
  BY <1>7, FireInv
<1>8. ASSUME NEW p \in Rebuilders, Rebuild(p) PROVE Inv'
  BY <1>8, LoadInv, SwapInv, ResetInv DEF Rebuild
<1>9. CASE Restart
  BY <1>9, RestartInv
<1> QED
  BY <1>1, <1>2, <1>3, <1>4, <1>5, <1>6, <1>7, <1>8, <1>9 DEF Next

\* The inductive invariant holds in every reachable state.
THEOREM Invariance == Spec => []Inv
<1>1. Init => Inv
  BY InitInv
<1>2. Inv /\ [Next]_vars => Inv'
  BY NextInv
<1> QED
  BY <1>1, <1>2, PTL DEF Spec

\* The variables keep their types.
THEOREM TypeCorrectness == Spec => []TypeOK
<1>1. Inv => TypeOK
  BY DEF Inv
<1> QED
  BY <1>1, Invariance, PTL

\* The filter forgets an active zone for the four known reasons and no other,
\* however many rebuilds overlap.
THEOREM ForgottenForAReason == Spec => []AbsenceIsExplained
<1>1. Inv => AbsenceIsExplained
  BY DEF Inv
<1> QED
  BY <1>1, Invariance, PTL

\* A deletion that was handled, and not yet followed by a read of the zones, has
\* a rebuild coming unless one has failed to read them.
THEOREM DeletionIsScheduled == Spec => []RebuildIsScheduled
<1>1. Inv => RebuildIsScheduled
  BY DEF Inv
<1> QED
  BY <1>1, Invariance, PTL
=============================================================================
