-------------------------- MODULE AlertGroupProofs --------------------------
(***************************************************************************)
(* Handlers that run one at a time, for every number of keys, intakes and  *)
(* payloads: each leaves the group's status in agreement with its          *)
(* children and no second open alert or group, and never opens a resolved  *)
(* alert again.  With a reopen policy the identity lock keeps overlapping  *)
(* handlers from inserting twice.  What else they do to each other's       *)
(* copies is left to the model checker.                                    *)
(***************************************************************************)
EXTENDS AlertGroup, TLAPS, FiniteSetTheorems, WellFoundedInduction

-----------------------------------------------------------------------------
(* Rows *)

\* The bound, the ids and the handlers.
LEMMA Numbers ==
  /\ MaxEvents \in Nat /\ 0 \notin Groups /\ 0 \notin Alerts
  /\ Queue \in Procs /\ Reminder \in Procs /\ Queue # Reminder
  /\ \A i \in Intakes : i \in Procs /\ i # Queue /\ i # Reminder
<1>1. MaxEvents \in Nat
  BY AlertAssumption
<1>2. Queue # Reminder /\ \A i \in Intakes : i # Queue /\ i # Reminder
  BY AlertAssumption
<1> QED BY <1>1, <1>2 DEF Groups, Alerts, Procs

\* ORDER BY id DESC LIMIT 1: a set of rows has a newest one.
LEMMA NewestRow ==
  ASSUME NEW S \in SUBSET (1 .. MaxEvents)
  PROVE  /\ S = {} => Newest(S) = 0
         /\ S # {} => Newest(S) \in S /\ Newest(S) # 0
<1> DEFINE T == {n \in Nat : MaxEvents - n \in S}
<1>a. MaxEvents \in Nat
  BY AlertAssumption
<1>0. MaxEvents \in Nat /\ \A l \in S : l \in Nat /\ l <= MaxEvents /\ l # 0
  BY <1>a
<1>1. ASSUME S # {} PROVE \E l \in S : \A m \in S : m <= l
  <2>1. T \in SUBSET Nat /\ T # {}
    <3>1. PICK l \in S : TRUE
      BY <1>1
    <3>2. MaxEvents - l \in Nat /\ MaxEvents - (MaxEvents - l) = l
      BY <1>0
    <3> QED BY <3>2, <3>1
  <2>2. PICK n \in T : \A k \in T : <<k, n>> \notin OpToRel(<, Nat)
    BY <2>1, WFMin, NatLessThanWellFounded, Zenon
  <2>3. ASSUME NEW k \in T, k < n PROVE <<k, n>> \in OpToRel(<, Nat)
    BY <2>3, <2>1, Zenon DEF OpToRel
  <2>4. \A k \in T : ~ (k < n)
    BY <2>2, <2>3, Zenon
  <2>5. MaxEvents - n \in S
    BY <2>2
  <2>6. ASSUME NEW m \in S PROVE m <= MaxEvents - n
    <3>1. MaxEvents - m \in Nat /\ MaxEvents - (MaxEvents - m) = m /\ m \in Nat
      BY <1>0
    <3>2. MaxEvents - m \in T
      BY <3>1
    <3>3. ~ (MaxEvents - m < n) /\ n \in Nat
      BY <3>2, <2>4, <2>1
    <3> QED BY <3>1, <3>3, <1>0
  <2> QED BY <2>5, <2>6
<1> QED BY <1>1, <1>0 DEF Newest

\* MaxInFlight = 1: a handler begins only when no other is under way.
LEMMA StartsAlone ==
  ASSUME MaxInFlight = 1, MayStart \/ MayAct
  PROVE  Quiet
<1>1. IsFiniteSet(Procs)
  <2>1. IsFiniteSet(Intakes \cup {Queue}) /\ IsFiniteSet((Intakes \cup {Queue}) \cup {Reminder})
    BY AlertAssumption, FS_AddElement
  <2> QED BY <2>1 DEF Procs
<1>2. ASSUME MayStart PROVE Quiet
  <2> DEFINE B == {p \in Procs : Busy(p)}
  <2>1. IsFiniteSet(B)
    BY <1>1, FS_Subset
  <2>2. Cardinality(B) \in Nat /\ (Cardinality(B) = 0 <=> B = {})
    BY <2>1, FS_CardinalityType, FS_EmptySet
  <2>3. Cardinality(B) < 1
    BY <1>2 DEF MayStart
  <2>4. B = {}
    BY <2>2, <2>3
  <2> QED BY <2>4 DEF Quiet
<1> QED BY <1>2 DEF MayAct

\* The statuses of children; AlertStatuses without "none".
LEMMA ChildStatus ==
  ASSUME TypeOK, NEW g
  PROVE  ChildStatuses(g) \subseteq {"firing", "silenced", "resolved"}
BY DEF TypeOK, AlertRow, AlertStatuses, ChildStatuses, Children

\* recalculate_alert_group makes a group agree with its children, whatever its
\* status was, and does not undo an acknowledgement.
LEMMA RecalculatedAgrees ==
  ASSUME NEW s \in GroupStatuses, NEW C \in SUBSET {"firing", "silenced", "resolved"}, C # {}
  PROVE  LET n == Recalculated(s, C)
         IN  /\ n \in GroupStatuses
             /\ n # "none"
             /\ n = "resolved" <=> C = {"resolved"}
             /\ n = "firing" => "firing" \in C /\ s # "acknowledged"
             /\ n = "silenced" => "silenced" \in C /\ "firing" \notin C
<1>1. CASE C = {"resolved"}
  BY <1>1 DEF Recalculated, GroupStatuses
<1>2. CASE C # {"resolved"}
  <2>1. "firing" \in C \/ "silenced" \in C
    BY <1>2
  <2> QED BY <1>2, <2>1 DEF Recalculated, GroupStatuses
<1> QED BY <1>1, <1>2

\* An idle handler, an unused alert and an unused group are well typed.
LEMMA Blanks ==
  /\ NoGroup \in GroupRow /\ NoGroup.status = "none"
  /\ NoAlert \in AlertRow /\ NoAlert.status = "none"
  /\ IdleProc \in Handler /\ IdleProc.pc = "idle" /\ IdleProc.group = 0 /\ IdleProc.alert = 0
  /\ IdleProc.event = "firing" /\ NoGroup.due = 0
<1>0. Keys # {}
  BY AlertAssumption
<1>1. (CHOOSE k \in Keys : TRUE) \in Keys
  BY <1>0
<1>2. NoGroup \in GroupRow /\ NoGroup.status = "none"
  BY DEF NoGroup, GroupRow, GroupStatuses
<1>3. NoAlert \in AlertRow /\ NoAlert.status = "none"
  BY <1>1 DEF NoAlert, AlertRow, AlertStatuses
<1>4. IdleProc \in Handler /\ IdleProc.pc = "idle" /\ IdleProc.group = 0 /\ IdleProc.alert = 0
  BY <1>1, <1>2 DEF IdleProc, Handler, Stages, AlertStatuses
<1>5. IdleProc.event = "firing" /\ NoGroup.due = 0
  BY DEF IdleProc, NoGroup
<1> QED BY <1>2, <1>3, <1>4, <1>5

-----------------------------------------------------------------------------
(* Steps that change no status *)

\* What such a step leaves alone.
LEMMA SameStatuses ==
  ASSUME UNCHANGED alert, \A g \in Groups : group'[g].status = group[g].status
  PROVE  /\ \A g : ChildStatuses(g)' = ChildStatuses(g)
         /\ \A a \in Alerts : OpenAlert(a)' <=> OpenAlert(a)
         /\ \A g \in Groups : (OpenGroup(g)' <=> OpenGroup(g)) /\ (Agrees(g)' <=> Agrees(g))
<1>1. \A g : ChildStatuses(g)' = ChildStatuses(g)
  BY DEF ChildStatuses, Children
<1>2. \A a \in Alerts : OpenAlert(a)' <=> OpenAlert(a)
  BY DEF OpenAlert
<1> QED BY <1>1, <1>2 DEF OpenGroup, Agrees

\* An idle handler has nothing to agree with.
LEMMA IdleAgrees ==
  ASSUME NEW p, proc[p].pc = "idle"
  PROVE  HandlerAgrees(p)
BY DEF HandlerAgrees

\* The stages in which a group may disagree with its children.
UpdateStages == {"saveGroup", "saveAlert", "count", "recalculate"}

\* A step of handler p while no other is under way, after which it has r.
Steps(p, r) ==
  /\ \A q \in Procs : q # p => ~Busy(q)
  /\ proc' = [proc EXCEPT ![p] = r]
  /\ todo' \in [Groups -> Dues \cup {0}] /\ (p = Queue \/ UNCHANGED todo)
  /\ events' \in 0 .. MaxEvents

\* Such a step leaves the others idle.
LEMMA StepsAlone ==
  ASSUME AlertInv, NEW p \in Procs, NEW r \in Handler, Steps(p, r)
  PROVE  /\ proc' \in [Procs -> Handler] /\ proc'[p] = r
         /\ \A q \in Procs : q # p => proc'[q] = proc[q] /\ proc[q].pc = "idle" /\ ~Busy(q)'
         /\ \A q, s \in Procs : Busy(q)' /\ Busy(s)' => q = s
<1>1. /\ proc' \in [Procs -> Handler] /\ proc'[p] = r
      /\ \A q \in Procs : q # p => proc'[q] = proc[q] /\ proc[q].pc = "idle"
  BY DEF Steps, AlertInv, TypeOK, Busy
<1>2. ASSUME NEW q \in Procs, q # p PROVE ~Busy(q)'
  <2>1. ~Busy(q) /\ proc'[q].pc = "idle"
    BY <1>1, <1>2 DEF Steps
  <2>2. CASE q = Queue
    BY <1>2, <2>1, <2>2 DEF Steps, Busy
  <2>3. CASE q # Queue
    BY <2>1, <2>3 DEF Busy
  <2> QED BY <2>2, <2>3
<1> QED BY <1>1, <1>2

\* What a step may not do to a row: a resolved alert stays so.
Kept == \A a \in Alerts : alert[a].status = "resolved" => alert'[a].status = "resolved"

\* Alert and group rows keep their statuses: the invariant holds if p still
\* agrees with them and does not leave a group it was updating.
LEMMA KeepStep ==
  ASSUME AlertInv, NEW p \in Procs, NEW r \in Handler, Steps(p, r),
         UNCHANGED <<alert, acked>>, group' \in [Groups -> GroupRow],
         \A g \in Groups : group'[g].status = group[g].status,
         proc[p].pc \in UpdateStages => r.pc \in UpdateStages /\ r.group = proc[p].group,
         HandlerAgrees(p)'
  PROVE  AlertInv' /\ Kept
<1>1. TypeOK'
  BY StepsAlone DEF Steps, AlertInv, TypeOK
<1>2. StatusAgrees'
  <2> SUFFICES ASSUME NEW g \in Groups
               PROVE  /\ Agrees(g)' \/ \E q \in Procs : Updating(q, g)'
                      /\ acked'[g] => group'[g].status # "firing"
    BY DEF StatusAgrees
  <2>1. acked'[g] => group'[g].status # "firing"
    BY DEF AlertInv, StatusAgrees
  <2>2. CASE Agrees(g)
    BY <2>1, <2>2, SameStatuses
  <2>3. ASSUME NEW q \in Procs, Updating(q, g) PROVE Updating(q, g)'
    <3>1. q = p
      BY <2>3, StepsAlone DEF Updating
    <3> QED BY <2>3, <3>1, StepsAlone DEF Updating, UpdateStages
  <2> QED BY <2>1, <2>2, <2>3 DEF AlertInv, StatusAgrees
<1>3. NoDuplicates'
  BY SameStatuses DEF AlertInv, NoDuplicates
<1>4. \A q \in Procs : HandlerAgrees(q)'
  BY StepsAlone DEF HandlerAgrees
<1>5. Sequential'
  BY <1>4, StepsAlone DEF AlertInv, Sequential
<1>6. Kept
  BY DEF Kept
<1> QED BY <1>1, <1>2, <1>3, <1>5, <1>6 DEF AlertInv

\* A busy handler is the only one.
LEMMA OnlyBusy ==
  ASSUME AlertInv, NEW p \in Procs, Busy(p)
  PROVE  \A q \in Procs : q # p => ~Busy(q)
BY DEF AlertInv, Sequential

\* A handler that ends.
LEMMA ReturnStep ==
  ASSUME AlertInv, NEW p \in Procs, proc[p].pc \notin UpdateStages \cup {"idle"}, Return(p),
         UNCHANGED <<alert, acked, todo>>, group' \in [Groups -> GroupRow], events' \in 0 .. MaxEvents,
         \A g \in Groups : group'[g].status = group[g].status
  PROVE  AlertInv' /\ Kept
<1>1. Steps(p, IdleProc)
  BY OnlyBusy DEF Steps, Return, Busy, AlertInv, TypeOK
<1>2. HandlerAgrees(p)'
  BY <1>1, StepsAlone, Blanks DEF HandlerAgrees
<1> QED BY <1>1, <1>2, KeepStep, Blanks

\* A copy is saved over a row with the same status.
LEMMA SameSave ==
  ASSUME AlertInv, NEW g \in Groups, NEW row \in GroupRow, SaveRow(g, row), row.status = group[g].status
  PROVE  group' \in [Groups -> GroupRow] /\ \A h \in Groups : group'[h].status = group[h].status
BY DEF AlertInv, TypeOK, SaveRow

\* clear_alert_group_notification, mark_alert_group_notification_sent and a new
\* due time change no status.
LEMMA Columns ==
  ASSUME NEW row \in GroupRow
  PROVE  /\ Cleared(row) \in GroupRow /\ Cleared(row).status = row.status
         /\ Sent(row) \in GroupRow /\ Sent(row).status = row.status
         /\ [row EXCEPT !.notified = TRUE] \in GroupRow /\ [row EXCEPT !.notified = TRUE].status = row.status
         /\ \A d \in Dues : [row EXCEPT !.due = d] \in GroupRow /\ [row EXCEPT !.due = d].status = row.status
         /\ \A s \in GroupStatuses : [row EXCEPT !.status = s] \in GroupRow /\ [row EXCEPT !.status = s].status = s
BY DEF GroupRow, Cleared, Sent

\* schedule_alert_group_notification of a copy with the row's status.
LEMMA SameSchedule ==
  ASSUME AlertInv, NEW g \in Groups, NEW row \in GroupRow, Schedule(g, row), row.status = group[g].status
  PROVE  group' \in [Groups -> GroupRow] /\ \A h \in Groups : group'[h].status = group[h].status
<1>1. CASE UNCHANGED group
  BY <1>1 DEF AlertInv, TypeOK
<1>2. ASSUME NEW d \in Dues, SaveRow(g, [row EXCEPT !.due = d])
      PROVE  group' \in [Groups -> GroupRow] /\ \A h \in Groups : group'[h].status = group[h].status
  BY <1>2, SameSave, Columns
<1> QED BY <1>1, <1>2 DEF Schedule

\* What a busy handler has.
LEMMA BusyHandler ==
  ASSUME AlertInv, NEW p \in Procs
  PROVE  /\ proc[p] \in Handler /\ HandlerAgrees(p)
         /\ proc[p].group \in Groups \cup {0} /\ proc[p].alert \in Alerts \cup {0}
         /\ proc[p].copy \in GroupRow /\ proc[p].sending \in GroupRow
         /\ proc[p].pc # "idle" => Busy(p)
         /\ events \in 0 .. MaxEvents /\ todo \in [Groups -> Dues \cup {0}]
BY DEF AlertInv, TypeOK, Handler, Sequential, Busy

\* The last statement of a handler: the notification branches of a payload, the
\* worker's mark and clear, a delivery that is given up.
LEMMA LastStep ==
  ASSUME AlertInv, NEW p \in Procs, Return(p),
         \/ Enqueue(p) \/ Notice(p) \/ EnqueueNew(p) \/ Send(p) \/ Deliver(p) \/ DeliverRaises(p) \/ Mark(p)
         \/ FindGroup(p) \/ (p = Queue /\ Clear)
  PROVE  AlertInv' /\ Kept
<1> DEFINE g == proc[p].group
           kept == group' \in [Groups -> GroupRow] /\ \A h \in Groups : group'[h].status = group[h].status
<1>1. /\ proc[p].pc \notin UpdateStages \cup {"idle"} /\ UNCHANGED <<alert, acked, todo>>
      /\ events' \in 0 .. MaxEvents
  <2>1. events' \in {events, events + 1} /\ (events' # events => events < MaxEvents)
    BY DEF Enqueue, Notice, EnqueueNew, Send, Deliver, DeliverRaises, Mark, FindGroup, Clear
  <2>2. events \in 0 .. MaxEvents /\ MaxEvents \in Nat
    BY AlertAssumption, BusyHandler
  <2>3. events' \in 0 .. MaxEvents
    BY <2>1, <2>2
  <2> QED BY <2>3 DEF Enqueue, Notice, EnqueueNew, Send, Deliver, DeliverRaises, Mark, FindGroup, Clear, UpdateStages
<1>2. proc[p].pc \notin {"group", "add"} =>
        g \in Groups /\ proc[p].copy \in GroupRow /\ proc[p].copy.status = group[g].status
  BY <1>1, BusyHandler DEF HandlerAgrees, UpdateStages
<1>3. UNCHANGED group => kept
  BY DEF AlertInv, TypeOK
<1>4. CASE Enqueue(p)
  BY <1>2, <1>3, <1>4, SameSave, SameSchedule, Columns, <1>1, ReturnStep DEF Enqueue
<1>5. CASE Notice(p)
  BY <1>2, <1>3, <1>5, SameSave, <1>1, ReturnStep DEF Notice
<1>6. CASE EnqueueNew(p)
  BY <1>2, <1>3, <1>6, SameSave, SameSchedule, Columns, <1>1, ReturnStep DEF EnqueueNew
<1>7. CASE Send(p) \/ DeliverRaises(p) \/ FindGroup(p)
  BY <1>3, <1>7, <1>1, ReturnStep DEF Send, DeliverRaises, FindGroup
<1>8. CASE Deliver(p)
  <2>1. proc[p].pc = "deliver" => proc[p].sending \in GroupRow /\ proc[p].sending.status = group[g].status
    BY BusyHandler DEF HandlerAgrees
  <2> QED BY <1>2, <1>3, <1>8, <2>1, SameSave, Columns, <1>1, ReturnStep DEF Deliver
<1>9. CASE Mark(p)
  <2>1. CASE p = Queue
    BY <1>2, <1>9, <2>1, SameSave, Columns, <1>1, ReturnStep DEF Mark
  <2>2. CASE p # Queue
    BY <1>2, <1>9, <2>2, SameSave, Columns, <1>1, ReturnStep DEF Mark
  <2> QED BY <2>1, <2>2
<1>10. CASE p = Queue /\ Clear
  BY <1>2, <1>10, SameSave, Columns, <1>1, ReturnStep DEF Clear
<1> QED BY <1>4, <1>5, <1>6, <1>7, <1>8, <1>9, <1>10

\* find_existing_alert: a payload arrives.
LEMMA ArriveStep ==
  ASSUME AlertInv, MaxInFlight = 1, NEW i \in Intakes, NEW k \in Keys, NEW e \in Payloads, Arrive(i, k, e)
  PROVE  AlertInv' /\ Kept
<1> DEFINE ids == {b \in Alerts : OpenAlert(b) /\ alert[b].key = k}
           a == Newest(ids)
           st == IF a = 0 THEN "none" ELSE alert[a].status
           r == [IdleProc EXCEPT !.pc = "group", !.key = k, !.event = e, !.alert = a, !.status = st]
<1>0. i \in Procs /\ i # Queue /\ e \in {"firing", "resolved"} /\ MaxEvents \in Nat
  BY AlertAssumption DEF Procs
<1>1. /\ ids = {} => a = 0
      /\ ids # {} => a \in ids /\ a # 0
  BY NewestRow DEF Alerts
<1>2. a \in Alerts \cup {0} /\ st \in AlertStatuses
  BY <1>1 DEF AlertInv, TypeOK, AlertRow, AlertStatuses
<1>3. r \in Handler /\ r.pc = "group" /\ r.key = k /\ r.event = e /\ r.alert = a /\ r.status = st /\ r.group = 0
  <2> HIDE DEF a, st
  <2> QED BY <1>0, <1>2, Blanks DEF Handler, Stages
<1>4. proc' = [proc EXCEPT ![i] = r] /\ UNCHANGED <<alert, group, todo, acked>>
  BY DEF Arrive
<1>5. Steps(i, r)
  <2>1. Quiet
    BY StartsAlone DEF Arrive
  <2>2. events' \in 0 .. MaxEvents
    BY <1>0 DEF Arrive, AlertInv, TypeOK
  <2> QED BY <1>4, <2>1, <2>2 DEF Steps, Quiet, AlertInv, TypeOK
<1>6. /\ a # 0 => OpenAlert(a) /\ alert[a].status # "none" /\ alert[a].status = st
      /\ a = 0 => \A b \in Alerts : OpenAlert(b) => alert[b].key # k
  BY <1>1 DEF OpenAlert
<1> HIDE DEF r, a, st, ids
<1>7. HandlerAgrees(i)'
  <2>1. proc'[i] = r
    BY <1>3, <1>5, <1>0, StepsAlone
  <2> QED BY <1>0, <1>3, <1>4, <1>6, <2>1 DEF HandlerAgrees, OpenAlert
<1>8. proc[i].pc = "idle"
  BY DEF Arrive
<1> QED BY <1>0, <1>3, <1>4, <1>5, <1>7, <1>8, KeepStep DEF AlertInv, TypeOK, UpdateStages

\* An open alert is in an open group, and no group but that one is open.
LEMMA GroupOfAlert ==
  ASSUME AlertInv, NEW a \in Alerts, OpenAlert(a), Agrees(alert[a].group)
  PROVE  /\ alert[a].group \in Groups /\ OpenGroup(alert[a].group)
         /\ alert[a].status \in ChildStatuses(alert[a].group)
<1>1. alert[a].group \in Groups /\ alert[a].status # "none"
  BY DEF AlertInv, TypeOK, AlertRow, Sequential, OpenAlert
<1>2. alert[a].status \in ChildStatuses(alert[a].group)
  BY <1>1 DEF ChildStatuses, Children
<1> QED BY <1>1, <1>2 DEF Agrees, OpenAlert, OpenGroup

\* The lookup of the group.
LEMMA FindGroupStep ==
  ASSUME AlertInv, NEW i \in Intakes, FindGroup(i)
  PROVE  AlertInv' /\ Kept
<1> DEFINE p == proc[i]
           open == {h \in Groups : OpenGroup(h)}
<1>0. /\ i \in Procs /\ i # Queue /\ p \in Handler /\ p.pc = "group" /\ Busy(i) /\ HandlerAgrees(i)
      /\ UNCHANGED <<alert, group, todo, events, acked>> /\ events \in 0 .. MaxEvents
      /\ group \in [Groups -> GroupRow]
  BY Numbers, BusyHandler DEF FindGroup, AlertInv, TypeOK
<1>1. \A h \in Groups : Agrees(h)
  <2>1. \A q \in Procs, h \in Groups : ~Updating(q, h)
    BY <1>0, OnlyBusy DEF Updating, Busy
  <2> QED BY <2>1 DEF AlertInv, StatusAgrees
<1>2. CASE Return(i)
  BY <1>0, <1>2, LastStep
<1>3. ASSUME NEW r \in Handler, proc' = [proc EXCEPT ![i] = r], r.pc \notin UpdateStages, HandlerAgrees(i)'
      PROVE  AlertInv' /\ Kept
  <2>1. Steps(i, r)
    BY <1>0, <1>3, OnlyBusy DEF Steps, AlertInv, TypeOK
  <2> QED BY <1>0, <1>3, <2>1, KeepStep DEF UpdateStages
<1>4. ASSUME p.alert # 0,
             LET g == alert[p.alert].group
                 c == IF g = 0 THEN NoGroup ELSE group[g]
             IN  proc' = [proc EXCEPT ![i] = [[p EXCEPT !.group = g, !.copy = c] EXCEPT !.pc = "updateAlert"]]
      PROVE  AlertInv' /\ Kept
  <2>1. PICK a \in Alerts : /\ a = p.alert /\ OpenAlert(a) /\ p.status = alert[a].status /\ p.status # "none"
                            /\ p.event \in {"firing", "resolved"} /\ a # 0
    BY <1>0, <1>4 DEF HandlerAgrees, Handler
  <2>2. PICK g \in Groups : OpenGroup(g) /\ g = alert[a].group /\ ChildStatuses(g) # {} /\ g # 0
    <3>1. Agrees(alert[a].group)
      BY <1>1, <2>1 DEF AlertInv, TypeOK, AlertRow, Sequential, OpenAlert
    <3> QED BY <2>1, <3>1, GroupOfAlert, Numbers
  <2> DEFINE r == [[p EXCEPT !.group = g, !.copy = group[g]] EXCEPT !.pc = "updateAlert"]
  <2>3. proc' = [proc EXCEPT ![i] = r]
    BY <1>4, <2>1, <2>2
  <2>4. /\ r \in Handler /\ r.pc = "updateAlert" /\ r.alert = a /\ r.status = p.status /\ r.event = p.event
        /\ r.group = g /\ r.copy = group[g]
    BY <1>0, <2>1, <2>2 DEF Handler, Stages
  <2> HIDE DEF r
  <2>5. group[g].status = "silenced" => "firing" \notin ChildStatuses(g)
    BY <1>1, <2>2 DEF Agrees
  <2>6. HandlerAgrees(i)'
    <3>1. ChildStatuses(g)' = ChildStatuses(g) /\ OpenAlert(a)' /\ OpenGroup(g)'
      BY <1>0, <2>1, <2>2, SameStatuses
    <3>2. proc'[i] = r
      BY <1>0, <2>3 DEF AlertInv, TypeOK
    <3> QED BY <1>0, <2>1, <2>2, <2>4, <2>5, <3>1, <3>2 DEF HandlerAgrees
  <2> QED BY <1>3, <2>3, <2>4, <2>6 DEF UpdateStages
<1>5. ASSUME p.alert = 0, p.event = "firing", NEW s \in {"firing", "silenced"},
             LET g == Newest(open)
                 c == IF g = 0 THEN NoGroup ELSE group[g]
             IN  proc' = [proc EXCEPT ![i] = [[p EXCEPT !.group = g, !.copy = c] EXCEPT !.pc = "add", !.event = s]]
      PROVE  AlertInv' /\ Kept
  <2>1. PICK g \in Groups \cup {0} : g = Newest(open)
    BY NewestRow DEF Groups
  <2>2. \A h \in Groups : OpenGroup(h) <=> h = g
    <3>1. (open = {} => g = 0) /\ (open # {} => g \in open)
      BY <2>1, NewestRow DEF Groups
    <3> QED BY <3>1, Numbers DEF AlertInv, NoDuplicates
  <2>3. PICK c \in GroupRow : c = IF g = 0 THEN NoGroup ELSE group[g]
    BY <1>0, <2>1, Blanks
  <2> DEFINE r == [[p EXCEPT !.group = g, !.copy = c] EXCEPT !.pc = "add", !.event = s]
  <2>4. proc' = [proc EXCEPT ![i] = r]
    BY <1>5, <2>1, <2>3
  <2>5. /\ r \in Handler /\ r.pc = "add" /\ r.alert = 0 /\ r.key = p.key /\ r.event = s
        /\ r.group = g /\ r.copy = c
    BY <1>0, <1>5 DEF Handler, Stages
  <2> HIDE DEF r
  <2>6. \A a \in Alerts : OpenAlert(a) => alert[a].key # p.key
    BY <1>0, <1>5 DEF HandlerAgrees
  <2>7. HandlerAgrees(i)'
    <3>1. proc'[i] = r
      BY <1>0, <2>4 DEF AlertInv, TypeOK
    <3>2. /\ \A a \in Alerts : OpenAlert(a)' <=> OpenAlert(a)
          /\ \A h \in Groups : OpenGroup(h)' <=> OpenGroup(h)
      BY <1>0, SameStatuses
    <3> QED BY <1>0, <2>2, <2>3, <2>5, <2>6, <3>1, <3>2 DEF HandlerAgrees
  <2> QED BY <1>3, <2>4, <2>5, <2>7 DEF UpdateStages
<1> QED BY <1>2, <1>4, <1>5 DEF FindGroup

\* A handler that goes on to its next statement.
LEMMA MoveStep ==
  ASSUME AlertInv, NEW p \in Procs, NEW r \in Handler, proc[p].pc # "idle",
         proc' = [proc EXCEPT ![p] = r], UNCHANGED <<alert, acked, todo, events>>,
         group' \in [Groups -> GroupRow], \A g \in Groups : group'[g].status = group[g].status,
         proc[p].pc \in UpdateStages => r.pc \in UpdateStages /\ r.group = proc[p].group,
         HandlerAgrees(p)'
  PROVE  AlertInv' /\ Kept
<1>1. Steps(p, r)
  BY OnlyBusy, BusyHandler DEF Steps
<1> QED BY <1>1, KeepStep

\* Only the statement changes.
LEMMA GotoFields ==
  ASSUME AlertInv, NEW p \in Procs, NEW pc \in Stages, Goto(p, pc)
  PROVE  \E r \in Handler :
           /\ proc' = [proc EXCEPT ![p] = r] /\ proc'[p] = r /\ r.pc = pc
           /\ r.key = proc[p].key /\ r.event = proc[p].event /\ r.alert = proc[p].alert /\ r.status = proc[p].status
           /\ r.group = proc[p].group /\ r.copy = proc[p].copy /\ r.sending = proc[p].sending
<1> DEFINE r == [proc[p] EXCEPT !.pc = pc]
<1>1. /\ r \in Handler /\ r.pc = pc
      /\ r.key = proc[p].key /\ r.event = proc[p].event /\ r.alert = proc[p].alert /\ r.status = proc[p].status
      /\ r.group = proc[p].group /\ r.copy = proc[p].copy /\ r.sending = proc[p].sending
  BY DEF AlertInv, TypeOK, Handler
<1>2. proc' = [proc EXCEPT ![p] = r] /\ proc'[p] = r
  BY DEF Goto, AlertInv, TypeOK
<1> HIDE DEF r
<1> QED BY <1>1, <1>2

\* The saves of the copies between the update of the alert and the count.
LEMMA SaveStep ==
  ASSUME AlertInv, NEW i \in Intakes, SaveGroup(i) \/ SaveAlert(i)
  PROVE  AlertInv' /\ Kept
<1>0. i \in Procs /\ proc[i] \in Handler /\ HandlerAgrees(i) /\ proc[i].pc \in {"saveGroup", "saveAlert"}
  BY Numbers, BusyHandler DEF SaveGroup, SaveAlert
<1>1. PICK a \in Alerts, g \in Groups :
        /\ a = proc[i].alert /\ g = proc[i].group /\ a # 0 /\ g # 0
        /\ g = alert[a].group /\ proc[i].status = alert[a].status /\ proc[i].status # "none"
        /\ OpenGroup(g) /\ ChildStatuses(g) # {} /\ proc[i].copy.status = group[g].status
        /\ group[g].status = "silenced" => "firing" \notin ChildStatuses(g)
  BY <1>0, Numbers DEF HandlerAgrees, Handler
<1>2. /\ UNCHANGED <<todo, events, acked>>
      /\ group' \in [Groups -> GroupRow] /\ \A h \in Groups : group'[h].status = group[h].status
      /\ alert' = alert
  <2>1. CASE SaveGroup(i)
    BY <1>0, <1>1, <2>1, SameSave DEF SaveGroup, Handler
  <2>2. CASE SaveAlert(i)
    BY <1>1, <2>2 DEF SaveAlert, AlertInv, TypeOK, AlertRow
  <2> QED BY <2>1, <2>2
<1>3. PICK pc \in {"saveAlert", "count"} : Goto(i, pc)
  BY DEF SaveGroup, SaveAlert
<1>4. PICK r \in Handler :
        /\ proc' = [proc EXCEPT ![i] = r] /\ proc'[i] = r /\ r.pc = pc
        /\ r.event = proc[i].event /\ r.alert = proc[i].alert /\ r.status = proc[i].status
        /\ r.group = proc[i].group /\ r.copy = proc[i].copy
  BY <1>0, <1>3, GotoFields DEF Stages
<1>5. HandlerAgrees(i)'
  <2>1. ChildStatuses(g)' = ChildStatuses(g) /\ OpenGroup(g)'
    BY <1>1, <1>2, SameStatuses
  <2> QED BY <1>1, <1>2, <1>3, <1>4, <2>1, SMTT(30) DEF HandlerAgrees
<1> QED BY <1>0, <1>2, <1>3, <1>4, <1>5, MoveStep DEF UpdateStages

\* The SELECT of the children, by a payload or by the queue worker.
LEMMA CountStep ==
  ASSUME AlertInv, NEW p \in Procs, Count(p)
  PROVE  AlertInv' /\ Kept
<1>0. proc[p] \in Handler /\ HandlerAgrees(p) /\ proc[p].pc = "count" /\ UNCHANGED <<alert, group, todo, events, acked>>
  BY BusyHandler DEF Count
<1>1. PICK g \in Groups :
        /\ g = proc[p].group /\ g # 0
        /\ OpenGroup(g) /\ ChildStatuses(g) # {} /\ proc[p].copy.status = group[g].status
        /\ group[g].status = "silenced" => "firing" \notin ChildStatuses(g)
  BY <1>0 DEF HandlerAgrees, Handler
<1>2. PICK s \in GroupStatuses : s = Recalculated(group[g].status, ChildStatuses(g))
  <2>1. group[g].status \in GroupStatuses
    BY DEF AlertInv, TypeOK, GroupRow
  <2> QED BY <1>1, <2>1, ChildStatus, RecalculatedAgrees DEF AlertInv
<1> DEFINE c == [proc[p].copy EXCEPT !.status = s]
           r == [proc[p] EXCEPT !.pc = "recalculate", !.copy = c]
<1>3. c \in GroupRow /\ c.status = s
  BY <1>0, Columns DEF Handler
<1>4. proc' = [proc EXCEPT ![p] = r]
  BY <1>1, <1>2 DEF Count
<1> HIDE DEF c
<1>5. r \in Handler /\ r.pc = "recalculate" /\ r.group = g /\ r.copy = c
  BY <1>0, <1>1, <1>3 DEF Handler, Stages
<1> HIDE DEF r
<1>6. HandlerAgrees(p)'
  <2>1. ChildStatuses(g)' = ChildStatuses(g) /\ OpenGroup(g)'
    BY <1>0, <1>1, SameStatuses
  <2>2. proc'[p] = r
    BY <1>4 DEF AlertInv, TypeOK
  <2> QED BY <1>0, <1>1, <1>2, <1>3, <1>5, <2>1, <2>2 DEF HandlerAgrees
<1> QED BY <1>0, <1>1, <1>4, <1>5, <1>6, MoveStep DEF UpdateStages, AlertInv, TypeOK

\* _handle_existing_alert goes on to notify_alert of a recovery.
LEMMA NoticeStep ==
  ASSUME AlertInv, NEW i \in Intakes, Enqueue(i), ~Return(i)
  PROVE  AlertInv' /\ Kept
<1>0. i \in Procs /\ proc[i] \in Handler /\ HandlerAgrees(i) /\ proc[i].pc = "enqueue"
  BY Numbers, BusyHandler DEF Enqueue
<1>1. PICK g \in Groups : g = proc[i].group /\ g # 0 /\ proc[i].copy.status = group[g].status
  BY <1>0 DEF HandlerAgrees, Handler
<1>2. PICK c \in GroupRow : c = Cleared(proc[i].copy) /\ c.status = group[g].status
  <2>1. proc[i].copy \in GroupRow
    BY <1>0, BusyHandler
  <2>2. Cleared(proc[i].copy) \in GroupRow /\ Cleared(proc[i].copy).status = group[g].status
    BY <1>1, <2>1, Columns
  <2> QED BY <2>2
<1> DEFINE r == [proc[i] EXCEPT !.pc = "notice", !.copy = c]
<1>3. proc' = [proc EXCEPT ![i] = r] /\ SaveRow(g, c) /\ UNCHANGED <<alert, todo, events, acked>>
  BY <1>1, <1>2 DEF Enqueue
<1>4. r \in Handler /\ r.pc = "notice" /\ r.group = g /\ r.copy = c
  BY <1>0, <1>1 DEF Handler, Stages
<1> HIDE DEF r
<1>5. group' \in [Groups -> GroupRow] /\ \A h \in Groups : group'[h].status = group[h].status
  BY <1>2, <1>3, SameSave
<1>6. HandlerAgrees(i)'
  <2>1. proc'[i] = r
    BY <1>0, <1>3 DEF AlertInv, TypeOK
  <2> QED BY <1>1, <1>2, <1>4, <1>5, <2>1 DEF HandlerAgrees
<1> QED BY <1>0, <1>3, <1>4, <1>5, <1>6, MoveStep DEF UpdateStages

\* No handler is in the middle of an update: every group agrees.
LEMMA AllAgree ==
  ASSUME AlertInv, \A q \in Procs : proc[q].pc \notin UpdateStages
  PROVE  \A g \in Groups : Agrees(g)
<1>1. \A q \in Procs, g \in Groups : ~Updating(q, g)
  BY DEF Updating, UpdateStages
<1> QED BY <1>1 DEF AlertInv, StatusAgrees

\* A handler that begins, with a copy of the group it read: the queue worker's
\* selected group, or a reminder.
LEMMA BeginStep ==
  ASSUME AlertInv, NEW p \in Procs, NEW g \in Groups, NEW pc \in {"count", "clear", "send"},
         \A q \in Procs : q # p => ~Busy(q), proc[p].pc = "idle",
         pc = "count" => group[g].status = "firing",
         proc' = [proc EXCEPT ![p] = [IdleProc EXCEPT !.pc = pc, !.group = g, !.copy = group[g]]],
         todo' \in [Groups -> Dues \cup {0}], p = Queue \/ UNCHANGED todo,
         UNCHANGED <<alert, group, events, acked>>
  PROVE  AlertInv' /\ Kept
<1> DEFINE r == [IdleProc EXCEPT !.pc = pc, !.group = g, !.copy = group[g]]
<1>0. group[g] \in GroupRow /\ group' \in [Groups -> GroupRow] /\ g # 0
  BY Numbers DEF AlertInv, TypeOK
<1>1. r \in Handler /\ r.pc = pc /\ r.group = g /\ r.copy = group[g]
  BY <1>0, Blanks DEF Handler, Stages
<1>2. proc' = [proc EXCEPT ![p] = r]
  OBVIOUS
<1> HIDE DEF r
<1>3. Steps(p, r)
  BY <1>2, BusyHandler DEF Steps
<1>4. proc'[p] = r
  BY <1>1, <1>3, StepsAlone
<1>5. Agrees(g)
  <2>1. \A q \in Procs : proc[q].pc = "idle"
    BY DEF Busy
  <2> QED BY <2>1, AllAgree DEF UpdateStages
<1>6. ChildStatuses(g)' = ChildStatuses(g) /\ (OpenGroup(g)' <=> OpenGroup(g))
  BY SameStatuses
<1>7. pc = "count" => OpenGroup(g) /\ ChildStatuses(g) # {} /\ group[g].status # "silenced"
  BY <1>5 DEF Agrees, OpenGroup
<1>8. HandlerAgrees(p)'
  BY <1>0, <1>1, <1>4, <1>6, <1>7 DEF HandlerAgrees
<1> QED BY <1>0, <1>1, <1>3, <1>8, KeepStep DEF UpdateStages

\* list_due_alert_group_notifications.
LEMMA SelectDueStep ==
  ASSUME AlertInv, MaxInFlight = 1, SelectDue
  PROVE  AlertInv' /\ Kept
<1>1. Quiet
  BY StartsAlone DEF SelectDue
<1>2. Queue \in Procs /\ proc[Queue] \in Handler /\ proc[Queue].pc = "idle"
  BY <1>1, Numbers, BusyHandler DEF Quiet, Busy
<1>3. proc' = [proc EXCEPT ![Queue] = proc[Queue]] /\ UNCHANGED <<alert, group, events, acked, proc>>
  BY <1>2 DEF SelectDue, AlertInv, TypeOK
<1>4. todo' \in [Groups -> Dues \cup {0}]
  BY DEF SelectDue, AlertInv, TypeOK, GroupRow
<1>5. Steps(Queue, proc[Queue])
  BY <1>1, <1>2, <1>3, <1>4, BusyHandler DEF Steps, Quiet
<1>6. HandlerAgrees(Queue)'
  BY <1>2, <1>3 DEF HandlerAgrees
<1>7. group' \in [Groups -> GroupRow] /\ \A h \in Groups : group'[h].status = group[h].status
  BY <1>3 DEF AlertInv, TypeOK
<1> QED BY <1>2, <1>3, <1>5, <1>6, <1>7, KeepStep DEF UpdateStages

\* The queue worker reloads a selected group.
LEMMA ReloadStep ==
  ASSUME AlertInv, NEW g \in Groups, Reload(g)
  PROVE  AlertInv' /\ Kept
<1>1. /\ Queue \in Procs /\ proc[Queue].pc = "idle" /\ Busy(Queue)
      /\ UNCHANGED <<alert, group, events, acked>>
  BY Numbers DEF Reload, Busy
<1>2. \A q \in Procs : q # Queue => ~Busy(q)
  BY <1>1, OnlyBusy
<1>3. todo' \in [Groups -> Dues \cup {0}]
  BY DEF Reload, AlertInv, TypeOK
<1>4. CASE NextGroup
  <2>1. Steps(Queue, IdleProc)
    BY <1>1, <1>2, <1>3, <1>4, BusyHandler DEF Steps, NextGroup
  <2>2. HandlerAgrees(Queue)'
    BY <1>1, <2>1, StepsAlone, Blanks DEF HandlerAgrees
  <2>3. group' \in [Groups -> GroupRow] /\ \A h \in Groups : group'[h].status = group[h].status
    BY <1>1 DEF AlertInv, TypeOK
  <2> QED BY <1>1, <2>1, <2>2, <2>3, Blanks, KeepStep DEF UpdateStages
<1>5. ASSUME NEW pc \in {"count", "clear"}, pc = "count" => group[g].status = "firing",
             proc' = [proc EXCEPT ![Queue] = [IdleProc EXCEPT !.pc = pc, !.group = g, !.copy = group[g]]]
      PROVE  AlertInv' /\ Kept
  BY <1>1, <1>2, <1>3, <1>5, BeginStep
<1> QED BY <1>4, <1>5 DEF Reload

\* The reminder worker begins.
LEMMA RemindStep ==
  ASSUME AlertInv, MaxInFlight = 1, NEW g \in Groups, Remind(g)
  PROVE  AlertInv' /\ Kept
<1>1. Quiet
  BY StartsAlone DEF Remind
<1>2. \A q \in Procs : q # Reminder => ~Busy(q)
  BY <1>1 DEF Quiet
<1>3. Reminder \in Procs /\ todo \in [Groups -> Dues \cup {0}]
  BY Numbers DEF AlertInv, TypeOK
<1> QED BY <1>2, <1>3, BeginStep DEF Remind

\* notify_alert reads the row and calls the channels.
LEMMA SendStep ==
  ASSUME AlertInv, NEW w \in {Queue, Reminder}, Send(w) \/ Deliver(w), ~Return(w)
  PROVE  AlertInv' /\ Kept
<1>0. /\ w \in Procs /\ proc[w] \in Handler /\ HandlerAgrees(w) /\ proc[w].pc \in {"send", "deliver"}
      /\ proc[w].copy \in GroupRow /\ proc[w].sending \in GroupRow /\ UNCHANGED <<alert, todo, events, acked>>
  BY Numbers, BusyHandler DEF Send, Deliver
<1>1. PICK g \in Groups : g = proc[w].group /\ g # 0 /\ proc[w].copy.status = group[g].status
  BY <1>0 DEF HandlerAgrees, Handler
<1>2. ASSUME NEW r \in Handler, proc' = [proc EXCEPT ![w] = r], r.pc \in {"deliver", "mark", "clear"},
             r.group = g, r.copy = proc[w].copy, r.pc = "deliver" => r.sending.status = group[g].status,
             group' \in [Groups -> GroupRow], \A h \in Groups : group'[h].status = group[h].status
      PROVE  AlertInv' /\ Kept
  <2>1. proc'[w] = r
    BY <1>0, <1>2 DEF AlertInv, TypeOK
  <2>2. HandlerAgrees(w)'
    BY <1>1, <1>2, <2>1 DEF HandlerAgrees
  <2> QED BY <1>0, <1>2, <2>2, MoveStep DEF UpdateStages
<1>3. UNCHANGED group => group' \in [Groups -> GroupRow] /\ \A h \in Groups : group'[h].status = group[h].status
  BY DEF AlertInv, TypeOK
<1>4. CASE proc' = [proc EXCEPT ![w] = [@ EXCEPT !.pc = "deliver", !.sending = group[g]]] /\ UNCHANGED group
  <2> DEFINE r == [proc[w] EXCEPT !.pc = "deliver", !.sending = group[g]]
  <2>1. proc' = [proc EXCEPT ![w] = r]
    BY <1>0, <1>4 DEF AlertInv, TypeOK
  <2>2. group[g] \in GroupRow
    BY DEF AlertInv, TypeOK
  <2>3. r \in Handler /\ r.pc = "deliver" /\ r.group = g /\ r.copy = proc[w].copy /\ r.sending = group[g]
    BY <1>0, <1>1, <2>2 DEF Handler, Stages
  <2> HIDE DEF r
  <2> QED BY <1>2, <1>3, <1>4, <2>1, <2>3
<1>5. CASE Goto(w, "clear") /\ UNCHANGED group
  <2>1. PICK r \in Handler : /\ proc' = [proc EXCEPT ![w] = r] /\ r.pc = "clear"
                             /\ r.group = proc[w].group /\ r.copy = proc[w].copy
    BY <1>0, <1>5, GotoFields DEF Stages
  <2> QED BY <1>1, <1>2, <1>3, <1>5, <2>1
<1>6. ASSUME NEW pc \in {"mark", "clear"},
             proc' = [proc EXCEPT ![w] = [proc[w] EXCEPT !.pc = pc, !.sending = NoGroup]],
             group' \in [Groups -> GroupRow], \A h \in Groups : group'[h].status = group[h].status
      PROVE  AlertInv' /\ Kept
  <2> DEFINE r == [proc[w] EXCEPT !.pc = pc, !.sending = NoGroup]
  <2>1. r \in Handler /\ r.pc = pc /\ r.group = g /\ r.copy = proc[w].copy
    BY <1>0, <1>1, Blanks DEF Handler, Stages
  <2>2. proc' = [proc EXCEPT ![w] = r]
    BY <1>6
  <2> HIDE DEF r
  <2> QED BY <1>2, <1>6, <2>1, <2>2
<1>7. CASE Send(w)
  BY <1>1, <1>4, <1>5, <1>7 DEF Send
<1>8. CASE Deliver(w)
  <2>1. proc[w].sending.status = group[g].status
    BY <1>0, <1>1, <1>8 DEF HandlerAgrees, Deliver
  <2>2. /\ [proc[w].sending EXCEPT !.notified = TRUE] \in GroupRow
        /\ [proc[w].sending EXCEPT !.notified = TRUE].status = group[g].status
    BY <1>0, <2>1, Columns
  <2>3. SaveRow(g, [proc[w].sending EXCEPT !.notified = TRUE]) =>
          group' \in [Groups -> GroupRow] /\ \A h \in Groups : group'[h].status = group[h].status
    BY <2>2, SameSave
  <2> QED BY <1>1, <1>3, <1>6, <1>8, <2>3 DEF Deliver
<1> QED BY <1>7, <1>8

-----------------------------------------------------------------------------
(* Steps that change a status *)

\* What is left to show when handler p changes statuses.
LEMMA ChangeStep ==
  ASSUME AlertInv, NEW p \in Procs, NEW r \in Handler, Steps(p, r),
         alert' \in [Alerts -> AlertRow], group' \in [Groups -> GroupRow], acked' \in [Groups -> BOOLEAN],
         \A g \in Groups : Agrees(g)' \/ Updating(p, g)',
         \A g \in Groups : acked'[g] => group'[g].status # "firing",
         \A a \in Alerts : alert'[a].status # "none" => alert'[a].group # 0,
         NoDuplicates', HandlerAgrees(p)', Kept
  PROVE  AlertInv' /\ Kept
<1>1. TypeOK'
  BY StepsAlone DEF Steps, TypeOK
<1>2. StatusAgrees'
  BY DEF StatusAgrees
<1>3. \A q \in Procs : HandlerAgrees(q)'
  BY StepsAlone DEF HandlerAgrees
<1>4. Sequential'
  BY <1>3, StepsAlone DEF Sequential
<1> QED BY <1>1, <1>2, <1>4 DEF AlertInv

\* The statuses of children after the status of one alert has changed.
LEMMA OneStatus ==
  ASSUME AlertInv, NEW a \in Alerts, NEW s \in AlertStatuses \ {"none"}, alert[a].status # "none",
         alert' = [alert EXCEPT ![a].status = s]
  PROVE  /\ alert' \in [Alerts -> AlertRow]
         /\ \A b \in Alerts : alert'[b].group = alert[b].group /\ alert'[b].key = alert[b].key
         /\ alert'[a].status = s /\ \A b \in Alerts : b # a => alert'[b] = alert[b]
         /\ \A g : g # alert[a].group => ChildStatuses(g)' = ChildStatuses(g)
         /\ s \in ChildStatuses(alert[a].group)'
         /\ \A t : t \in ChildStatuses(alert[a].group)' => t = s \/ t \in ChildStatuses(alert[a].group)
<1>1. /\ alert' \in [Alerts -> AlertRow]
      /\ \A b \in Alerts : alert'[b].group = alert[b].group /\ alert'[b].key = alert[b].key
      /\ alert'[a].status = s /\ \A b \in Alerts : b # a => alert'[b] = alert[b]
  BY DEF AlertInv, TypeOK, AlertRow
<1>2. \A g : Children(g)' = Children(g)
  BY <1>1 DEF Children
<1>3. ASSUME NEW g, g # alert[a].group PROVE ChildStatuses(g)' = ChildStatuses(g)
  <2>1. \A b \in Children(g) : b \in Alerts /\ b # a
    BY <1>3 DEF Children
  <2>2. \A b \in Children(g) : alert'[b].status = alert[b].status
    BY <1>1, <2>1
  <2> QED BY <1>2, <2>2 DEF ChildStatuses
<1>4. PICK g : g = alert[a].group
  OBVIOUS
<1>5. s \in ChildStatuses(g)'
  <2>1. a \in Children(g)
    BY <1>4 DEF Children
  <2> QED BY <1>1, <1>2, <2>1 DEF ChildStatuses
<1>6. ASSUME NEW t \in ChildStatuses(g)' PROVE t = s \/ t \in ChildStatuses(g)
  <2>1. PICK b \in Children(g) : t = alert'[b].status
    BY <1>2 DEF ChildStatuses
  <2>2. b \in Alerts
    BY DEF Children
  <2>3. CASE b = a
    BY <1>1, <2>1, <2>3
  <2>4. CASE b # a
    BY <1>1, <2>1, <2>2, <2>4 DEF ChildStatuses
  <2> QED BY <2>3, <2>4
<1>7. g = alert[a].group /\ (\A t : t \in ChildStatuses(g)' => t = s \/ t \in ChildStatuses(g))
  BY <1>4, <1>6
<1>8. s \in ChildStatuses(alert[a].group)'
  <2>1. alert'[a].group = g
    BY <1>1, <1>4
  <2> QED BY <1>5, <2>1
<1>9. \A t : t \in ChildStatuses(alert[a].group)' => t = s \/ t \in ChildStatuses(alert[a].group)
  <2>1. alert'[a].group = g
    BY <1>1, <1>4
  <2> QED BY <1>7, <2>1
<1> QED BY <1>1, <1>3, <1>8, <1>9

\* update_alert_from_payload of an open alert.
LEMMA UpdateAlertStep ==
  ASSUME AlertInv, NEW i \in Intakes, UpdateAlert(i)
  PROVE  AlertInv' /\ Kept
<1>0. /\ i \in Procs /\ proc[i] \in Handler /\ HandlerAgrees(i) /\ proc[i].pc = "updateAlert" /\ Busy(i)
      /\ UNCHANGED <<group, todo, events, acked>>
  BY Numbers, BusyHandler DEF UpdateAlert
<1>1. PICK a \in Alerts, g \in Groups :
        /\ a = proc[i].alert /\ g = proc[i].group /\ a # 0 /\ g # 0
        /\ g = alert[a].group /\ proc[i].status = alert[a].status /\ OpenAlert(a)
        /\ proc[i].event \in {"firing", "resolved"}
        /\ OpenGroup(g) /\ ChildStatuses(g) # {} /\ proc[i].copy.status = group[g].status
        /\ group[g].status = "silenced" => "firing" \notin ChildStatuses(g)
  BY <1>0, Numbers DEF HandlerAgrees, Handler
<1>2. PICK s \in {"firing", "silenced", "resolved"} :
        s = PayloadStatus(proc[i].status, proc[i].event) /\ (s = "firing" => alert[a].status = "firing")
  BY <1>1 DEF PayloadStatus, OpenAlert, AlertInv, TypeOK, AlertRow, AlertStatuses
<1>3. s \in AlertStatuses \ {"none"} /\ alert[a].status # "none" /\ alert' = [alert EXCEPT ![a].status = s]
  BY <1>1, <1>2 DEF UpdateAlert, OpenAlert, AlertStatuses
<1> DEFINE r == [proc[i] EXCEPT !.pc = "saveGroup", !.status = s]
<1>4. proc' = [proc EXCEPT ![i] = r]
  BY <1>2 DEF UpdateAlert
<1>5. /\ r \in Handler /\ r.pc = "saveGroup" /\ r.status = s /\ r.alert = a /\ r.group = g
      /\ r.event = proc[i].event /\ r.copy = proc[i].copy
  BY <1>0, <1>1, <1>3 DEF Handler, Stages
<1> HIDE DEF r
<1>6. Steps(i, r)
  BY <1>0, <1>4, OnlyBusy, BusyHandler DEF Steps
<1>7. proc'[i] = r
  BY <1>0, <1>5, <1>6, StepsAlone
<1>8. /\ alert' \in [Alerts -> AlertRow]
      /\ \A b \in Alerts : alert'[b].group = alert[b].group /\ alert'[b].key = alert[b].key
      /\ alert'[a].status = s /\ \A b \in Alerts : b # a => alert'[b] = alert[b]
      /\ \A h : h # g => ChildStatuses(h)' = ChildStatuses(h)
      /\ s \in ChildStatuses(g)'
      /\ \A t : t \in ChildStatuses(g)' => t = s \/ t \in ChildStatuses(g)
  <2>1. alert'[a].group = g
    BY <1>1, <1>3, OneStatus
  <2> QED BY <1>1, <1>3, <2>1, OneStatus
<1>9. \A h \in Groups : Agrees(h)' \/ Updating(i, h)'
  <2> SUFFICES ASSUME NEW h \in Groups, h # g PROVE Agrees(h)'
    BY <1>5, <1>7 DEF Updating
  <2>1. Agrees(h)
    <3>1. \A q \in Procs : proc[q].pc \notin UpdateStages
      BY <1>0, OnlyBusy DEF Busy, UpdateStages
    <3> QED BY <3>1, AllAgree
  <2> QED BY <1>0, <1>8, <2>1 DEF Agrees
<1>10. NoDuplicates'
  <2>1. \A b \in Alerts : OpenAlert(b)' => OpenAlert(b)
    BY <1>1, <1>8 DEF OpenAlert
  <2>2. \A h \in Groups : OpenGroup(h)' <=> OpenGroup(h)
    BY <1>0 DEF OpenGroup
  <2> QED BY <1>8, <2>1, <2>2 DEF AlertInv, NoDuplicates
<1>11. HandlerAgrees(i)'
  <2>1. group[g].status = "silenced" => "firing" \notin ChildStatuses(g)'
    <3>1. alert[a].status = "firing" => "firing" \in ChildStatuses(g)
      BY <1>1, <1>3 DEF ChildStatuses, Children
    <3> QED BY <1>1, <1>2, <1>8, <3>1
  <2>2. OpenGroup(g)' /\ ChildStatuses(g)' # {}
    BY <1>0, <1>1, <1>8 DEF OpenGroup
  <2> QED BY <1>0, <1>1, <1>2, <1>3, <1>5, <1>7, <1>8, <2>1, <2>2 DEF HandlerAgrees
<1>12. \A b \in Alerts : alert'[b].status # "none" => alert'[b].group # 0
  BY <1>1, <1>8 DEF AlertInv, Sequential
<1>13. group' \in [Groups -> GroupRow] /\ acked' \in [Groups -> BOOLEAN] /\ \A h \in Groups : acked'[h] => group'[h].status # "firing"
  BY <1>0 DEF AlertInv, TypeOK, StatusAgrees
<1>14. Kept
  BY <1>0, <1>1, <1>8 DEF Kept, OpenAlert
<1> QED BY <1>0, <1>5, <1>6, <1>8, <1>9, <1>10, <1>11, <1>12, <1>13, <1>14, ChangeStep

\* recalculate_alert_group saves the status it has counted.
LEMMA RecalculateStep ==
  ASSUME AlertInv, NEW p \in Procs, Recalculate(p)
  PROVE  AlertInv' /\ Kept
<1>0. /\ proc[p] \in Handler /\ HandlerAgrees(p) /\ proc[p].pc = "recalculate" /\ Busy(p)
      /\ UNCHANGED <<alert, todo, events, acked>> /\ proc[p].copy \in GroupRow
  BY BusyHandler DEF Recalculate
<1>1. PICK g \in Groups :
        /\ g = proc[p].group /\ g # 0 /\ OpenGroup(g) /\ ChildStatuses(g) # {}
        /\ group[g].status = "silenced" => "firing" \notin ChildStatuses(g)
        /\ proc[p].copy.status = Recalculated(group[g].status, ChildStatuses(g))
  BY <1>0 DEF HandlerAgrees, Handler
<1>2. PICK c \in GroupRow : c = proc[p].copy
  BY <1>0
<1>3. PICK pc \in {"enqueue", "send", "clear"} : Goto(p, pc) /\ SaveRow(g, c)
  BY <1>1, <1>2 DEF Recalculate
<1>4. PICK r \in Handler :
        /\ proc' = [proc EXCEPT ![p] = r] /\ proc'[p] = r /\ r.pc = pc /\ r.group = g /\ r.copy = c
  BY <1>0, <1>1, <1>2, <1>3, GotoFields DEF Stages
<1>5. /\ c.status # "none" /\ (c.status = "resolved" <=> ChildStatuses(g) = {"resolved"})
      /\ c.status = "firing" => "firing" \in ChildStatuses(g) /\ group[g].status # "acknowledged"
      /\ c.status = "silenced" => "silenced" \in ChildStatuses(g) /\ "firing" \notin ChildStatuses(g)
  <2>1. group[g].status \in GroupStatuses
    BY DEF AlertInv, TypeOK, GroupRow
  <2>2. ChildStatuses(g) \in SUBSET {"firing", "silenced", "resolved"}
    BY ChildStatus DEF AlertInv
  <2> QED BY <1>1, <1>2, <2>1, <2>2, RecalculatedAgrees
<1>6. Steps(p, r)
  BY <1>0, <1>4, OnlyBusy, BusyHandler DEF Steps
<1>7. /\ group' \in [Groups -> GroupRow] /\ group'[g] = c
      /\ \A h \in Groups : h # g => group'[h] = group[h]
  BY <1>3 DEF SaveRow, AlertInv, TypeOK
<1>8. \A h : ChildStatuses(h)' = ChildStatuses(h)
  BY <1>0 DEF ChildStatuses, Children
<1>9. ASSUME NEW h \in Groups PROVE Agrees(h)'
  <2>1. CASE h = g
    BY <1>1, <1>5, <1>7, <1>8, <2>1 DEF Agrees
  <2>2. CASE h # g
    <3>1. \A q \in Procs : ~Updating(q, h)
      <4> SUFFICES ASSUME NEW q \in Procs, Updating(q, h) PROVE FALSE
        OBVIOUS
      <4>1. CASE q = p
        BY <1>1, <2>2, <4>1 DEF Updating
      <4>2. CASE q # p
        BY <1>0, <4>2, OnlyBusy DEF Updating, Busy
      <4> QED BY <4>1, <4>2
    <3>2. Agrees(h)
      BY <3>1 DEF AlertInv, StatusAgrees
    <3> QED BY <1>7, <1>8, <2>2, <3>2 DEF Agrees
  <2> QED BY <2>1, <2>2
<1>10. \A h \in Groups : acked'[h] => group'[h].status # "firing"
  <2> SUFFICES ASSUME acked[g], c.status = "firing" PROVE FALSE
    BY <1>0, <1>7 DEF AlertInv, StatusAgrees
  <2>1. group[g].status \notin {"firing", "none", "resolved", "silenced", "acknowledged"}
    BY <1>1, <1>5 DEF AlertInv, StatusAgrees, OpenGroup
  <2> QED BY <2>1 DEF AlertInv, TypeOK, GroupRow, GroupStatuses
<1>11. NoDuplicates'
  <2>1. \A b \in Alerts : OpenAlert(b)' <=> OpenAlert(b)
    BY <1>0 DEF OpenAlert
  <2>2. \A h \in Groups : OpenGroup(h)' => OpenGroup(h)
    BY <1>1, <1>7 DEF OpenGroup
  <2> QED BY <1>0, <2>1, <2>2 DEF AlertInv, NoDuplicates
<1>12. HandlerAgrees(p)'
  BY <1>1, <1>4, <1>7, <1>3 DEF HandlerAgrees
<1>13. alert' \in [Alerts -> AlertRow] /\ acked' \in [Groups -> BOOLEAN] /\ \A b \in Alerts : alert'[b].status # "none" => alert'[b].group # 0
  BY <1>0 DEF AlertInv, TypeOK, Sequential
<1>14. Kept
  BY <1>0, <1>5, <1>7 DEF Kept
<1> QED BY <1>6, <1>7, <1>9, <1>10, <1>11, <1>12, <1>13, <1>14, ChangeStep

\* _upsert_alert inserts an alert and recalculates its group: the open group, or
\* a new or resolved one if none is open.
LEMMA InsertChildStep ==
  ASSUME AlertInv, NEW i \in Intakes, proc[i].pc = "add", NEW g \in Groups, NEW row \in GroupRow,
         UNCHANGED <<todo, events>>, InsertChild(i, g, row),
         \/ OpenGroup(g) /\ row.status = group[g].status
         \/ row.status \in {"firing", "silenced"} /\ \A h \in Groups : ~OpenGroup(h)
  PROVE  AlertInv' /\ Kept
<1>0. i \in Procs /\ proc[i] \in Handler /\ HandlerAgrees(i) /\ Busy(i) /\ g # 0
  BY Numbers, BusyHandler
<1>1. PICK e \in {"firing", "silenced"} :
        e = proc[i].event /\ \A b \in Alerts : OpenAlert(b) => alert[b].key # proc[i].key
  BY <1>0 DEF HandlerAgrees
<1> DEFINE again == row.status = "acknowledged" /\ proc[i].event = "firing"
           base(keep) == IF again /\ ~keep THEN "firing" ELSE row.status
           new(keep) == [row EXCEPT !.status = Recalculated(base(keep), ChildStatuses(g) \cup {proc[i].event})]
<1>2. PICK a \in Alerts, keep \in BOOLEAN :
        /\ keep => again
        /\ alert[a].status = "none"
        /\ alert' = [alert EXCEPT ![a] = [key |-> proc[i].key, status |-> e, group |-> g]]
        /\ SaveRow(g, new(keep))
        /\ proc' = [proc EXCEPT ![i] = [proc[i] EXCEPT !.pc = "enqueueNew", !.group = g, !.copy = new(keep)]]
        /\ acked' = [acked EXCEPT ![g] = @ /\ (keep \/ e # "firing")]
  BY <1>1 DEF InsertChild, IsNextAlert
<1> DEFINE C == ChildStatuses(g) \cup {e}
<1>3. PICK s \in GroupStatuses :
        /\ s = base(keep) /\ (s = row.status \/ (e = "firing" /\ ~keep)) /\ (keep => s = "acknowledged")
  BY <1>1, <1>2 DEF GroupRow, GroupStatuses
<1>4. PICK n \in GroupStatuses :
        /\ n = Recalculated(s, C) /\ n # "none" /\ (n = "resolved" <=> C = {"resolved"})
        /\ n = "firing" => "firing" \in C /\ s # "acknowledged"
        /\ n = "silenced" => "silenced" \in C /\ "firing" \notin C
  <2>1. C \in SUBSET {"firing", "silenced", "resolved"} /\ C # {}
    BY ChildStatus DEF AlertInv
  <2> QED BY <1>3, <2>1, RecalculatedAgrees
<1>5. PICK c \in GroupRow : c = new(keep) /\ c.status = n
  <2>1. [row EXCEPT !.status = n] \in GroupRow /\ [row EXCEPT !.status = n].status = n
    BY Columns
  <2>2. new(keep) = [row EXCEPT !.status = n]
    BY <1>1, <1>3, <1>4
  <2> QED BY <2>1, <2>2
<1> DEFINE r == [proc[i] EXCEPT !.pc = "enqueueNew", !.group = g, !.copy = c]
<1>6. proc' = [proc EXCEPT ![i] = r] /\ SaveRow(g, c)
  BY <1>2, <1>5
<1>7. r \in Handler /\ r.pc = "enqueueNew" /\ r.group = g /\ r.copy = c
  BY <1>0 DEF Handler, Stages
<1> HIDE DEF r, new, base
<1>8. Steps(i, r)
  BY <1>0, <1>6, OnlyBusy, BusyHandler DEF Steps
<1>9. proc'[i] = r
  BY <1>0, <1>7, <1>8, StepsAlone
<1>10. /\ group' \in [Groups -> GroupRow] /\ group'[g] = c
       /\ \A h \in Groups : h # g => group'[h] = group[h]
  BY <1>6 DEF SaveRow, AlertInv, TypeOK
<1>11. /\ alert' \in [Alerts -> AlertRow]
       /\ alert'[a].key = proc[i].key /\ alert'[a].status = e /\ alert'[a].group = g
       /\ \A b \in Alerts : b # a => alert'[b] = alert[b]
  <2>1. proc[i].key \in Keys /\ e \in AlertStatuses
    BY <1>0 DEF Handler, AlertStatuses
  <2>2. [key |-> proc[i].key, status |-> e, group |-> g] \in AlertRow
    BY <2>1 DEF AlertRow
  <2> QED BY <1>2, <2>2 DEF AlertInv, TypeOK
<1>12. ChildStatuses(g)' = C /\ \A h \in Groups : h # g => ChildStatuses(h)' = ChildStatuses(h)
  <2>1. Children(g)' = Children(g) \cup {a} /\ \A h \in Groups : h # g => Children(h)' = Children(h)
    BY <1>2, <1>11 DEF Children
  <2>2. \A h : \A b \in Children(h) : b \in Alerts /\ b # a
    BY <1>2 DEF Children
  <2>3. \A h : \A b \in Children(h) : alert'[b].status = alert[b].status
    BY <1>11, <2>2
  <2>4. ChildStatuses(g)' = C
    BY <1>11, <2>1, <2>3 DEF ChildStatuses
  <2> QED BY <2>1, <2>3, <2>4 DEF ChildStatuses
<1> HIDE DEF C
<1>13. \A h \in Groups : Agrees(h)
  <2>1. \A q \in Procs : proc[q].pc \notin UpdateStages
    BY <1>0, OnlyBusy DEF Busy, UpdateStages
  <2> QED BY <2>1, AllAgree
<1>14. ASSUME NEW h \in Groups PROVE Agrees(h)'
  <2>1. CASE h = g
    <3>1. e \in C /\ e # "resolved"
      BY DEF C
    <3> QED BY <1>4, <1>5, <1>10, <1>12, <2>1, <3>1 DEF Agrees
  <2>2. CASE h # g
    BY <1>10, <1>12, <1>13, <2>2 DEF Agrees
  <2> QED BY <2>1, <2>2
<1>15. \A h \in Groups : acked'[h] => group'[h].status # "firing"
  <2>1. acked'[g] <=> acked[g] /\ (keep \/ e # "firing")
    BY <1>2 DEF AlertInv, TypeOK
  <2>2. \A h \in Groups : h # g => acked'[h] = acked[h]
    BY <1>2 DEF AlertInv, TypeOK
  <2>3. ASSUME acked[g], keep \/ e # "firing", n = "firing" PROVE FALSE
    <3>1. ~keep /\ e = "silenced"
      BY <1>3, <1>4, <2>3
    <3>2. "firing" \in ChildStatuses(g) /\ s = row.status /\ s # "acknowledged"
      BY <1>3, <1>4, <2>3, <3>1 DEF C
    <3>3. group[g].status \notin {"none", "resolved", "silenced", "firing"}
      BY <1>13, <2>3, <3>2 DEF Agrees, AlertInv, StatusAgrees
    <3>4. group[g].status = "acknowledged"
      BY <3>3 DEF AlertInv, TypeOK, GroupRow, GroupStatuses
    <3> QED BY <3>2, <3>4 DEF OpenGroup
  <2>4. \A h \in Groups : h # g => (acked[h] => group[h].status # "firing")
    BY DEF AlertInv, StatusAgrees
  <2> QED BY <1>5, <1>10, <2>1, <2>2, <2>3, <2>4
<1>16. NoDuplicates'
  <2>1. \A x, y \in Alerts : OpenAlert(x)' /\ OpenAlert(y)' /\ alert'[x].key = alert'[y].key => x = y
    <3>1. \A b \in Alerts : b # a => (OpenAlert(b)' <=> OpenAlert(b)) /\ alert'[b].key = alert[b].key
      BY <1>11 DEF OpenAlert
    <3>2. \A b \in Alerts : OpenAlert(b)' /\ alert'[b].key = proc[i].key => b = a
      BY <1>1, <3>1
    <3> QED BY <1>11, <3>1, <3>2 DEF AlertInv, NoDuplicates
  <2>2. \A h \in Groups : OpenGroup(h)' => h = g
    <3>1. \A h \in Groups : OpenGroup(h) => h = g
      BY DEF AlertInv, NoDuplicates
    <3> QED BY <1>10, <3>1 DEF OpenGroup
  <2> QED BY <2>1, <2>2 DEF NoDuplicates
<1>17. HandlerAgrees(i)'
  BY <1>0, <1>7, <1>9, <1>10 DEF HandlerAgrees
<1>18. \A b \in Alerts : alert'[b].status # "none" => alert'[b].group # 0
  BY <1>0, <1>11 DEF AlertInv, Sequential
<1>19. acked' \in [Groups -> BOOLEAN]
  BY <1>2 DEF AlertInv, TypeOK
<1>20. Kept
  BY <1>2, <1>11 DEF Kept
<1> QED BY <1>0, <1>7, <1>8, <1>10, <1>11, <1>14, <1>15, <1>16, <1>17, <1>18, <1>19, <1>20, ChangeStep

\* The group the transaction uses: with or without a reopen policy, it is the
\* open one, if any.
LEMMA AddChildStep ==
  ASSUME AlertInv, NEW i \in Intakes, AddChild(i) \/ AddChildLocked(i)
  PROVE  AlertInv' /\ Kept
<1>0. /\ i \in Procs /\ proc[i] \in Handler /\ HandlerAgrees(i) /\ proc[i].pc = "add"
      /\ proc[i].event \in {"firing", "silenced"} /\ UNCHANGED <<todo, events>>
      /\ proc[i].group \in Groups \cup {0} /\ proc[i].copy \in GroupRow /\ group \in [Groups -> GroupRow]
      /\ \A g \in Groups : OpenGroup(g) <=> g = proc[i].group
  BY Numbers, BusyHandler DEF AddChild, AddChildLocked, HandlerAgrees, AlertInv, TypeOK
<1>1. CASE Return(i) /\ UNCHANGED <<alert, group, acked>>
  BY <1>0, <1>1, ReturnStep, BusyHandler DEF UpdateStages
<1>2. ASSUME InsertGroup(i), \A h \in Groups : ~OpenGroup(h) PROVE AlertInv' /\ Kept
  <2>1. PICK g \in Groups : InsertChild(i, g, [NoGroup EXCEPT !.status = proc[i].event])
    BY <1>2 DEF InsertGroup
  <2>2. proc[i].event \in GroupStatuses
    BY <1>0 DEF GroupStatuses
  <2>3. /\ [NoGroup EXCEPT !.status = proc[i].event] \in GroupRow
        /\ [NoGroup EXCEPT !.status = proc[i].event].status = proc[i].event
    BY <2>2, Blanks, Columns
  <2> QED BY <1>0, <1>2, <2>1, <2>3, InsertChildStep
<1>3. CASE AddChild(i)
  <2>1. ASSUME proc[i].group # 0, InsertChild(i, proc[i].group, proc[i].copy) PROVE AlertInv' /\ Kept
    <3>1. OpenGroup(proc[i].group) /\ proc[i].copy.status = group[proc[i].group].status /\ proc[i].group \in Groups
      BY <1>0, <2>1 DEF HandlerAgrees
    <3> QED BY <1>0, <2>1, <3>1, InsertChildStep
  <2>2. ASSUME proc[i].group = 0, InsertGroup(i) PROVE AlertInv' /\ Kept
    BY <1>0, <1>2, <2>2, Numbers
  <2> QED BY <1>3, <2>1, <2>2 DEF AddChild
<1>4. CASE AddChildLocked(i)
  <2>1. PICK open : open = Newest({g \in Groups : OpenGroup(g)})
    OBVIOUS
  <2>2. /\ open = 0 => \A h \in Groups : ~OpenGroup(h)
        /\ open # 0 => open \in Groups /\ OpenGroup(open) /\ group[open] \in GroupRow
    BY <1>0, <2>1, NewestRow DEF Groups
  <2>3. ASSUME open # 0, InsertChild(i, open, group[open]) PROVE AlertInv' /\ Kept
    BY <1>0, <2>2, <2>3, InsertChildStep
  <2>4. ASSUME open = 0, NEW g \in Groups, InsertChild(i, g, Restarted) PROVE AlertInv' /\ Kept
    <3>1. Restarted \in GroupRow /\ Restarted.status = "firing"
      BY Blanks, Columns DEF Restarted, GroupStatuses
    <3> QED BY <1>0, <2>2, <2>4, <3>1, InsertChildStep
  <2> QED BY <1>1, <1>2, <1>4, <2>1, <2>2, <2>3, <2>4 DEF AddChildLocked
<1> QED BY <1>3, <1>4

\* What is left to show when an operator acts: no handler is under way.
LEMMA OperatorStep ==
  ASSUME AlertInv, Quiet, UNCHANGED <<proc, todo, events>>,
         alert' \in [Alerts -> AlertRow], group' \in [Groups -> GroupRow], acked' \in [Groups -> BOOLEAN],
         \A g \in Groups : Agrees(g)',
         \A g \in Groups : acked'[g] => group'[g].status # "firing",
         \A a \in Alerts : alert'[a].status # "none" => alert'[a].group # 0,
         NoDuplicates', Kept
  PROVE  AlertInv' /\ Kept
<1>1. Queue \in Procs /\ proc[Queue] \in Handler /\ proc[Queue].pc = "idle"
  BY Numbers, BusyHandler DEF Quiet, Busy
<1>2. proc' = [proc EXCEPT ![Queue] = proc[Queue]]
  BY <1>1 DEF AlertInv, TypeOK
<1>3. Steps(Queue, proc[Queue])
  BY <1>2, BusyHandler, Numbers DEF Steps, Quiet
<1>4. HandlerAgrees(Queue)'
  BY <1>1 DEF HandlerAgrees
<1> QED BY <1>1, <1>3, <1>4, ChangeStep

\* acknowledge_alert.
LEMMA AcknowledgeStep ==
  ASSUME AlertInv, MaxInFlight = 1, NEW g \in Groups, Acknowledge(g)
  PROVE  AlertInv' /\ Kept
<1>0. Quiet /\ OpenGroup(g) /\ UNCHANGED <<alert, proc, todo, events>> /\ acked' = [acked EXCEPT ![g] = TRUE]
  BY StartsAlone DEF Acknowledge
<1>1. \A h \in Groups : Agrees(h)
  BY <1>0, AllAgree DEF Quiet, Busy, UpdateStages
<1>2. PICK c \in GroupRow : c = [Cleared(group[g]) EXCEPT !.status = "acknowledged"] /\ c.status = "acknowledged"
  <2>1. Cleared(group[g]) \in GroupRow /\ "acknowledged" \in GroupStatuses
    BY Columns DEF AlertInv, TypeOK, GroupStatuses
  <2>2. /\ [Cleared(group[g]) EXCEPT !.status = "acknowledged"] \in GroupRow
        /\ [Cleared(group[g]) EXCEPT !.status = "acknowledged"].status = "acknowledged"
    BY <2>1, Columns
  <2> QED BY <2>2
<1>3. /\ group' \in [Groups -> GroupRow] /\ group'[g].status = "acknowledged"
      /\ \A h \in Groups : h # g => group'[h] = group[h]
  BY <1>2 DEF Acknowledge, SaveRow, AlertInv, TypeOK
<1>4. \A h : ChildStatuses(h)' = ChildStatuses(h)
  BY <1>0 DEF ChildStatuses, Children
<1>5. ASSUME NEW h \in Groups PROVE Agrees(h)'
  <2>1. CASE h = g
    <3>1. ChildStatuses(g) # {} /\ ChildStatuses(g) # {"resolved"}
      BY <1>0, <1>1 DEF Agrees, OpenGroup
    <3> QED BY <1>3, <1>4, <2>1, <3>1 DEF Agrees
  <2>2. CASE h # g
    BY <1>1, <1>3, <1>4, <2>2 DEF Agrees
  <2> QED BY <2>1, <2>2
<1>6. /\ acked' \in [Groups -> BOOLEAN] /\ \A h \in Groups : acked'[h] => group'[h].status # "firing"
      /\ alert' \in [Alerts -> AlertRow] /\ \A a \in Alerts : alert'[a].status # "none" => alert'[a].group # 0
  BY <1>0, <1>3 DEF AlertInv, TypeOK, StatusAgrees, Sequential
<1>7. NoDuplicates'
  <2>1. \A h \in Groups : OpenGroup(h)' => OpenGroup(h)
    BY <1>0, <1>3 DEF OpenGroup
  <2> QED BY <1>0, <2>1 DEF AlertInv, NoDuplicates, OpenAlert
<1>8. Kept
  BY <1>0, <1>3 DEF Kept
<1> QED BY <1>0, <1>3, <1>5, <1>6, <1>7, <1>8, OperatorStep

\* resolve_alert: the group and all its children.
LEMMA ResolveStep ==
  ASSUME AlertInv, MaxInFlight = 1, NEW g \in Groups, Resolve(g)
  PROVE  AlertInv' /\ Kept
<1>0. Quiet /\ OpenGroup(g) /\ UNCHANGED <<proc, todo, events>> /\ acked' = [acked EXCEPT ![g] = FALSE]
  BY StartsAlone DEF Resolve
<1>1. \A h \in Groups : Agrees(h)
  BY <1>0, AllAgree DEF Quiet, Busy, UpdateStages
<1>2. PICK c \in GroupRow : c = [Cleared(group[g]) EXCEPT !.status = "resolved"] /\ c.status = "resolved"
  <2>1. Cleared(group[g]) \in GroupRow /\ "resolved" \in GroupStatuses
    BY Columns DEF AlertInv, TypeOK, GroupStatuses
  <2>2. /\ [Cleared(group[g]) EXCEPT !.status = "resolved"] \in GroupRow
        /\ [Cleared(group[g]) EXCEPT !.status = "resolved"].status = "resolved"
    BY <2>1, Columns
  <2> QED BY <2>2
<1>3. /\ group' \in [Groups -> GroupRow] /\ group'[g].status = "resolved"
      /\ \A h \in Groups : h # g => group'[h] = group[h]
  BY <1>2 DEF Resolve, SaveRow, AlertInv, TypeOK
<1>4. /\ alert' \in [Alerts -> AlertRow]
      /\ \A a \in Alerts : alert'[a].key = alert[a].key /\ alert'[a].group = alert[a].group
      /\ \A a \in Children(g) : alert'[a].status = "resolved"
      /\ \A a \in Alerts : a \notin Children(g) => alert'[a] = alert[a]
  <2>1. \A a \in Alerts : /\ [alert[a] EXCEPT !.status = "resolved"] \in AlertRow
                          /\ [alert[a] EXCEPT !.status = "resolved"].status = "resolved"
                          /\ [alert[a] EXCEPT !.status = "resolved"].key = alert[a].key
                          /\ [alert[a] EXCEPT !.status = "resolved"].group = alert[a].group
    BY DEF AlertInv, TypeOK, AlertRow, AlertStatuses
  <2>2. \A a \in Alerts : alert[a] \in AlertRow
    BY DEF AlertInv, TypeOK
  <2>3. \A a \in Children(g) : a \in Alerts
    BY DEF Children
  <2>4. alert' = [a \in Alerts |-> IF a \in Children(g) THEN [alert[a] EXCEPT !.status = "resolved"] ELSE alert[a]]
    BY DEF Resolve
  <2> QED BY <2>1, <2>2, <2>3, <2>4
<1>5. /\ ChildStatuses(g)' = {"resolved"}
      /\ \A h \in Groups : h # g => ChildStatuses(h)' = ChildStatuses(h)
  <2>1. \A h : Children(h)' = Children(h)
    <3>1. \A a \in Alerts : alert'[a].status # "none" <=> alert[a].status # "none"
      BY <1>4 DEF Children
    <3> QED BY <1>4, <3>1 DEF Children
  <2>2. Children(g) # {}
    BY <1>0, <1>1 DEF Agrees, OpenGroup, ChildStatuses
  <2>3. ChildStatuses(g)' = {"resolved"}
    BY <1>4, <2>1, <2>2 DEF ChildStatuses
  <2>4. \A h \in Groups : h # g => \A a \in Children(h) : a \in Alerts /\ a \notin Children(g)
    BY DEF Children
  <2>5. \A h \in Groups : h # g => \A a \in Children(h) : alert'[a].status = alert[a].status
    BY <1>4, <2>4
  <2> QED BY <2>1, <2>3, <2>5 DEF ChildStatuses
<1>6. ASSUME NEW h \in Groups PROVE Agrees(h)'
  <2>1. CASE h = g
    BY <1>3, <1>5, <2>1 DEF Agrees
  <2>2. CASE h # g
    BY <1>1, <1>3, <1>5, <2>2 DEF Agrees
  <2> QED BY <2>1, <2>2
<1>7. /\ acked' \in [Groups -> BOOLEAN] /\ \A h \in Groups : acked'[h] => group'[h].status # "firing"
  BY <1>0, <1>3 DEF AlertInv, TypeOK, StatusAgrees
<1>8. \A a \in Alerts : /\ alert'[a].status # "none" => alert[a].status # "none" /\ alert'[a].group # 0
                        /\ OpenAlert(a)' => OpenAlert(a)
  BY <1>4 DEF Children, OpenAlert, AlertInv, Sequential
<1>9. NoDuplicates'
  <2>1. \A h \in Groups : OpenGroup(h)' => OpenGroup(h)
    BY <1>0, <1>3 DEF OpenGroup
  <2> QED BY <1>4, <1>8, <2>1 DEF AlertInv, NoDuplicates
<1>10. Kept
  BY <1>3, <1>4 DEF Kept
<1> QED BY <1>0, <1>3, <1>4, <1>6, <1>7, <1>8, <1>9, <1>10, OperatorStep

-----------------------------------------------------------------------------
(* The theorems *)

LEMMA InitAlert == Init => AlertInv
<1> SUFFICES ASSUME Init PROVE AlertInv
  OBVIOUS
<1>1. /\ \A a \in Alerts : alert[a] = NoAlert
      /\ \A g \in Groups : group[g] = NoGroup /\ todo[g] = 0 /\ acked[g] = FALSE
      /\ \A p \in Procs : proc[p] = IdleProc
  BY DEF Init
<1>2. TypeOK
  BY Blanks, Numbers DEF Init, TypeOK
<1>3. \A g : ChildStatuses(g) = {}
  BY <1>1, Blanks DEF ChildStatuses, Children
<1>4. StatusAgrees
  BY <1>1, <1>3, Blanks DEF StatusAgrees, Agrees
<1>5. NoDuplicates
  BY <1>1, Blanks DEF NoDuplicates, OpenAlert, OpenGroup
<1>6. Sequential
  <2>1. \A p \in Procs : ~Busy(p) /\ HandlerAgrees(p)
    BY <1>1, Blanks DEF Busy, HandlerAgrees
  <2> QED BY <1>1, <2>1, Blanks DEF Sequential
<1> QED BY <1>2, <1>4, <1>5, <1>6 DEF AlertInv

LEMMA AlertStep ==
  ASSUME MaxInFlight = 1, AlertInv, [Next]_vars
  PROVE  AlertInv' /\ Kept
<1>1. ASSUME NEW i \in Intakes, NEW k \in Keys, NEW e \in Payloads, Arrive(i, k, e) PROVE AlertInv' /\ Kept
  BY <1>1, ArriveStep
<1>2. ASSUME NEW i \in Intakes, IntakeStep(i) PROVE AlertInv' /\ Kept
  <2>0. i \in Procs
    BY Numbers
  <2>1. CASE FindGroup(i)
    BY <2>1, FindGroupStep
  <2>2. CASE UpdateAlert(i)
    BY <2>2, UpdateAlertStep
  <2>3. CASE SaveGroup(i) \/ SaveAlert(i)
    BY <2>3, SaveStep
  <2>4. CASE Count(i)
    BY <2>0, <2>4, CountStep
  <2>5. CASE Recalculate(i)
    BY <2>0, <2>5, RecalculateStep
  <2>6. CASE Enqueue(i)
    BY <2>0, <2>6, LastStep, NoticeStep
  <2>7. CASE Notice(i) \/ EnqueueNew(i)
    <3>1. Return(i)
      BY <2>7 DEF Notice, EnqueueNew
    <3> QED BY <2>0, <2>7, <3>1, LastStep
  <2>8. CASE AddChild(i) \/ AddChildLocked(i)
    BY <2>8, AddChildStep
  <2> QED BY <1>2, <2>1, <2>2, <2>3, <2>4, <2>5, <2>6, <2>7, <2>8 DEF IntakeStep
<1>3. ASSUME NEW g \in Groups, Acknowledge(g) \/ Resolve(g) PROVE AlertInv' /\ Kept
  BY <1>3, AcknowledgeStep, ResolveStep
<1>4. ASSUME NEW w \in {Queue, Reminder}, Send(w) \/ Deliver(w) \/ DeliverRaises(w) \/ Mark(w)
      PROVE  AlertInv' /\ Kept
  <2>0. w \in Procs
    BY Numbers
  <2>1. CASE Send(w) \/ Deliver(w)
    BY <2>0, <2>1, LastStep, SendStep
  <2>2. CASE DeliverRaises(w) \/ Mark(w)
    <3>1. Return(w)
      BY <2>2 DEF DeliverRaises, Mark
    <3> QED BY <2>0, <2>2, <3>1, LastStep
  <2> QED BY <1>4, <2>1, <2>2
<1>5. CASE QueueStep
  <2>0. Queue \in Procs
    BY Numbers
  <2>1. CASE SelectDue
    BY <2>1, SelectDueStep
  <2>2. ASSUME NEW g \in Groups, Reload(g) PROVE AlertInv' /\ Kept
    BY <2>2, ReloadStep
  <2>3. CASE Count(Queue)
    BY <2>0, <2>3, CountStep
  <2>4. CASE Recalculate(Queue)
    BY <2>0, <2>4, RecalculateStep
  <2>5. CASE Clear
    <3>1. Return(Queue)
      BY <2>5 DEF Clear, NextGroup, Return
    <3> QED BY <2>0, <2>5, <3>1, LastStep
  <2> QED BY <1>4, <1>5, <2>1, <2>2, <2>3, <2>4, <2>5 DEF QueueStep
<1>6. CASE ReminderStep
  <2>1. ASSUME NEW g \in Groups, Remind(g) PROVE AlertInv' /\ Kept
    BY <2>1, RemindStep
  <2> QED BY <1>4, <1>6, <2>1 DEF ReminderStep, ReminderRuns
<1>7. CASE UNCHANGED vars
  <2>0. /\ \A g : ChildStatuses(g)' = ChildStatuses(g)
        /\ \A a \in Alerts : OpenAlert(a)' <=> OpenAlert(a)
        /\ \A g \in Groups : (OpenGroup(g)' <=> OpenGroup(g)) /\ (Agrees(g)' <=> Agrees(g))
    BY <1>7, SameStatuses DEF vars
  <2>1. AlertInv'
    <3>1. TypeOK' /\ NoDuplicates'
      BY <1>7, <2>0 DEF vars, AlertInv, TypeOK, NoDuplicates
    <3>2. \A p, g : Updating(p, g)' <=> Updating(p, g)
      BY <1>7 DEF vars, Updating
    <3>3. StatusAgrees'
      BY <1>7, <2>0, <3>2 DEF vars, AlertInv, StatusAgrees
    <3>4. \A p \in Procs : (Busy(p)' <=> Busy(p)) /\ (HandlerAgrees(p)' <=> HandlerAgrees(p))
      <4>1. ASSUME NEW p \in Procs PROVE HandlerAgrees(p)' <=> HandlerAgrees(p)
        BY <1>7 DEF vars, HandlerAgrees, OpenAlert, OpenGroup, ChildStatuses, Children
      <4> QED BY <1>7, <4>1 DEF vars, Busy
    <3>5. Sequential'
      BY <1>7, <3>4 DEF vars, AlertInv, Sequential
    <3> QED BY <3>1, <3>3, <3>5 DEF AlertInv
  <2>2. Kept
    BY <1>7 DEF vars, Kept
  <2> QED BY <2>1, <2>2
<1> QED BY <1>1, <1>2, <1>3, <1>5, <1>6, <1>7 DEF Next

\* Handlers that run one at a time (_upsert_alert, acknowledge_alert,
\* resolve_alert, the queue and reminder workers), with or without a reopen
\* policy and whatever deliveries fail, leave every group's status in agreement
\* with its alerts, one open alert per key and one open group.
THEOREM AlertInvariant ==
  ASSUME MaxInFlight = 1
  PROVE  Spec => []AlertInv
<1>1. AlertInv /\ [Next]_vars => AlertInv'
  BY AlertStep
<1> QED BY <1>1, InitAlert, PTL DEF Spec

\* update_alert_from_payload reaches open alerts only: a resolved one is final.
THEOREM ResolvedFinalHolds ==
  ASSUME MaxInFlight = 1
  PROVE  Spec => ResolvedFinal
<1>1. AlertInv /\ [Next]_vars =>
        [\A a \in Alerts : alert[a].status = "resolved" => alert'[a].status = "resolved"]_vars
  BY AlertStep DEF Kept
<1> QED BY <1>1, AlertInvariant, PTL DEF Spec, ResolvedFinal

-----------------------------------------------------------------------------
(* Overlapping handlers *)

\* A status of an open row.
OpenStatus(s) == s \notin {"none", "resolved"}

\* A step that opens and closes no group.
GroupsKept ==
  /\ group' \in [Groups -> GroupRow]
  /\ \A g \in Groups : (OpenGroup(g)' <=> OpenGroup(g)) /\ (group'[g].due # 0 => OpenGroup(g))

\* A step that opens and closes no alert.
AlertsKept ==
  /\ alert' \in [Alerts -> AlertRow]
  /\ \A a \in Alerts : /\ OpenAlert(a)' <=> OpenAlert(a)
                       /\ alert'[a].key = alert[a].key /\ alert'[a].group = alert[a].group

\* What the invariant says of one handler.
LEMMA OverlapHandler ==
  ASSUME OverlapInv, NEW p \in Procs
  PROVE  /\ proc[p] \in Handler /\ HandlerOpen(p)
         /\ proc[p].group \in Groups \cup {0} /\ proc[p].alert \in Alerts \cup {0}
         /\ proc[p].copy \in GroupRow /\ proc[p].sending \in GroupRow
         /\ events \in 0 .. MaxEvents /\ todo \in [Groups -> Dues \cup {0}] /\ acked \in [Groups -> BOOLEAN]
         /\ group \in [Groups -> GroupRow] /\ alert \in [Alerts -> AlertRow]
BY DEF OverlapInv, TypeOK, Handler

\* Rows that a step leaves alone.
LEMMA RowsKept ==
  ASSUME OverlapInv
  PROVE  (UNCHANGED alert => AlertsKept) /\ (UNCHANGED group => GroupsKept)
BY DEF OverlapInv, TypeOK, OpenTogether, AlertsKept, GroupsKept, OpenAlert, OpenGroup

\* A copy of an open group is saved over an open group.
LEMMA OpenSave ==
  ASSUME OverlapInv, NEW g \in Groups, OpenGroup(g), NEW row \in GroupRow, OpenStatus(row.status), SaveRow(g, row)
  PROVE  GroupsKept
<1>1. /\ group' \in [Groups -> GroupRow] /\ group'[g] = row
      /\ \A h \in Groups : h # g => group'[h] = group[h]
  BY DEF SaveRow, OverlapInv, TypeOK
<1> QED BY <1>1 DEF GroupsKept, OpenGroup, OpenStatus, OverlapInv, OpenTogether

\* schedule_alert_group_notification of such a copy.
LEMMA OpenSchedule ==
  ASSUME OverlapInv, NEW g \in Groups, OpenGroup(g), NEW row \in GroupRow, OpenStatus(row.status), Schedule(g, row)
  PROVE  GroupsKept
<1>1. CASE UNCHANGED group
  BY <1>1, RowsKept
<1>2. ASSUME NEW d \in Dues, SaveRow(g, [row EXCEPT !.due = d]) PROVE GroupsKept
  BY <1>2, OpenSave, Columns
<1> QED BY <1>1, <1>2 DEF Schedule

\* A step of one handler that opens and closes nothing.
LEMMA OverlapKeep ==
  ASSUME OverlapInv, NEW p \in Procs, NEW r \in Handler, proc' = [proc EXCEPT ![p] = r],
         AlertsKept, GroupsKept, UNCHANGED acked,
         todo' \in [Groups -> Dues \cup {0}], events' \in 0 .. MaxEvents, HandlerOpen(p)'
  PROVE  OverlapInv'
<1>1. TypeOK'
  BY DEF OverlapInv, TypeOK, AlertsKept, GroupsKept
<1>2. NoDuplicates'
  BY DEF OverlapInv, NoDuplicates, AlertsKept, GroupsKept
<1>3. OpenTogether'
  <2>1. \A a \in Alerts : alert[a].group \in Groups \cup {0}
    BY DEF OverlapInv, TypeOK, AlertRow
  <2>3. ASSUME NEW a \in Alerts, OpenAlert(a)' PROVE alert'[a].group # 0 /\ OpenGroup(alert[a].group)'
    <3>1. PICK g \in Groups : g = alert[a].group /\ g # 0 /\ OpenGroup(g)
      BY <2>1, <2>3 DEF OverlapInv, OpenTogether, AlertsKept
    <3>2. alert'[a].group = g /\ OpenGroup(g)'
      BY <3>1 DEF AlertsKept, GroupsKept
    <3> QED BY <3>1, <3>2
  <2>4. \A g \in Groups : OpenGroup(g)' => \E a \in Alerts : OpenAlert(a)' /\ alert'[a].group = g
    BY DEF OverlapInv, OpenTogether, AlertsKept, GroupsKept
  <2>5. \A g \in Groups : group'[g].due # 0 => OpenGroup(g)'
    BY DEF GroupsKept
  <2> QED BY <2>3, <2>4, <2>5 DEF OpenTogether
<1>4. ASSUME NEW q \in Procs PROVE HandlerOpen(q)'
  <2>1. CASE q = p
    BY <2>1
  <2>2. CASE q # p
    <3>1. proc'[q] = proc[q]
      BY <2>2 DEF OverlapInv, TypeOK
    <3>2. PICK a \in Alerts \cup {0}, g \in Groups \cup {0} : a = proc[q].alert /\ g = proc[q].group
      BY OverlapHandler
    <3>3. (a # 0 /\ OpenAlert(a) => OpenAlert(a)') /\ (g # 0 /\ OpenGroup(g) => OpenGroup(g)')
      BY DEF AlertsKept, GroupsKept
    <3>4. HandlerOpen(q)
      BY OverlapHandler
    <3> QED BY <3>1, <3>2, <3>3, <3>4 DEF HandlerOpen
  <2> QED BY <2>1, <2>2
<1> QED BY <1>1, <1>2, <1>3, <1>4 DEF OverlapInv

\* A handler that ends.
LEMMA OverlapReturn ==
  ASSUME OverlapInv, NEW p \in Procs, Return(p), UNCHANGED <<alert, acked>>, GroupsKept,
         todo' \in [Groups -> Dues \cup {0}], events' \in 0 .. MaxEvents
  PROVE  OverlapInv'
<1>1. proc'[p] = IdleProc
  BY DEF Return, OverlapInv, TypeOK
<1>2. HandlerOpen(p)'
  BY <1>1, Blanks DEF HandlerOpen
<1> QED BY <1>2, RowsKept, OverlapKeep, Blanks DEF Return

\* Only the record of handler p changes, and it is about the same open rows.
LEMMA OverlapMove ==
  ASSUME OverlapInv, NEW p \in Procs, NEW r \in Handler, proc' = [proc EXCEPT ![p] = r],
         AlertsKept, GroupsKept, UNCHANGED <<acked, todo, events>>, HandlerOpen(p)'
  PROVE  OverlapInv'
BY OverlapHandler, OverlapKeep

\* Goto keeps the fields.
LEMMA OverlapGoto ==
  ASSUME OverlapInv, NEW p \in Procs, NEW pc \in Stages \ {"idle", "deliver", "group", "updateAlert"}, Goto(p, pc),
         proc[p].pc \notin {"idle", "group", "add"},
         pc \in {"saveGroup", "saveAlert"} => proc[p].alert # 0,
         AlertsKept, GroupsKept, UNCHANGED <<acked, todo, events>>
  PROVE  OverlapInv'
<1> DEFINE r == [proc[p] EXCEPT !.pc = pc]
<1>1. /\ r \in Handler /\ r.pc = pc
      /\ r.event = proc[p].event /\ r.alert = proc[p].alert /\ r.status = proc[p].status
      /\ r.group = proc[p].group /\ r.copy = proc[p].copy
  BY OverlapHandler DEF Handler
<1>2. proc' = [proc EXCEPT ![p] = r] /\ proc'[p] = r
  BY DEF Goto, OverlapInv, TypeOK
<1> HIDE DEF r
<1>3. PICK a \in Alerts \cup {0}, g \in Groups : a = proc[p].alert /\ g = proc[p].group /\ g # 0
  BY OverlapHandler DEF HandlerOpen
<1>4. (a # 0 /\ OpenAlert(a) => OpenAlert(a)') /\ (OpenGroup(g) => OpenGroup(g)')
  BY DEF AlertsKept, GroupsKept
<1>5. HandlerOpen(p)'
  BY <1>1, <1>2, <1>3, <1>4, OverlapHandler DEF HandlerOpen
<1> QED BY <1>1, <1>2, <1>5, OverlapMove

\* The group of a handler past its lookups, and its copy.
LEMMA OpenCopy ==
  ASSUME OverlapInv, NEW p \in Procs, proc[p].pc \notin {"idle", "group", "add"}
  PROVE  /\ proc[p].group \in Groups /\ proc[p].group # 0 /\ OpenGroup(proc[p].group)
         /\ proc[p].copy \in GroupRow /\ OpenStatus(proc[p].copy.status)
         /\ proc[p].pc = "deliver" => proc[p].sending \in GroupRow /\ OpenStatus(proc[p].sending.status)
BY OverlapHandler DEF HandlerOpen, OpenStatus

\* The steps that end a handler.
LEMMA OverlapLast ==
  ASSUME OverlapInv, NEW p \in Procs, Return(p),
         \/ Enqueue(p) \/ Notice(p) \/ EnqueueNew(p) \/ Send(p) \/ Deliver(p) \/ DeliverRaises(p) \/ Mark(p)
         \/ FindGroup(p) \/ (p = Queue /\ Clear)
  PROVE  OverlapInv'
<1> DEFINE g == proc[p].group
<1>1. UNCHANGED <<alert, acked, todo>> /\ events' \in 0 .. MaxEvents /\ todo' \in [Groups -> Dues \cup {0}]
  <2>1. events' \in {events, events + 1} /\ (events' # events => events < MaxEvents)
    BY DEF Enqueue, Notice, EnqueueNew, Send, Deliver, DeliverRaises, Mark, FindGroup, Clear
  <2>2. events \in 0 .. MaxEvents /\ MaxEvents \in Nat /\ todo \in [Groups -> Dues \cup {0}]
    BY Numbers, OverlapHandler
  <2>3. events' \in 0 .. MaxEvents
    BY <2>1, <2>2
  <2>4. UNCHANGED <<alert, acked, todo>>
    BY DEF Enqueue, Notice, EnqueueNew, Send, Deliver, DeliverRaises, Mark, FindGroup, Clear
  <2> QED BY <2>2, <2>3, <2>4
<1>2. GroupsKept
  <2>1. CASE Enqueue(p)
    BY <2>1, OpenCopy, OpenSave, OpenSchedule, Columns, RowsKept DEF Enqueue
  <2>2. CASE Notice(p)
    BY <2>2, OpenCopy, OpenSave, RowsKept DEF Notice
  <2>3. CASE EnqueueNew(p)
    BY <2>3, OpenCopy, OpenSave, OpenSchedule, Columns, RowsKept DEF EnqueueNew
  <2>4. CASE Send(p) \/ DeliverRaises(p) \/ FindGroup(p)
    BY <2>4, RowsKept DEF Send, DeliverRaises, FindGroup
  <2>5. CASE Deliver(p)
    BY <2>5, OpenCopy, OpenSave, Columns, RowsKept, ZenonT(60) DEF Deliver
  <2>6. CASE Mark(p)
    <3>1. CASE p = Queue
      BY <2>6, <3>1, OpenCopy, OpenSave, Columns, ZenonT(60) DEF Mark
    <3>2. CASE p # Queue
      BY <2>6, <3>2, OpenCopy, OpenSave, Columns, ZenonT(60) DEF Mark
    <3> QED BY <3>1, <3>2
  <2>7. CASE p = Queue /\ Clear
    BY <2>7, OpenCopy, OpenSave, Columns, ZenonT(60) DEF Clear
  <2> QED BY <2>1, <2>2, <2>3, <2>4, <2>5, <2>6, <2>7
<1> QED BY <1>1, <1>2, OverlapReturn

\* A payload arrives and finds the open alert of its key.
LEMMA OverlapArrive ==
  ASSUME OverlapInv, "resolved" \notin Payloads, NEW i \in Intakes, NEW k \in Keys, NEW e \in Payloads, Arrive(i, k, e)
  PROVE  OverlapInv'
<1> DEFINE ids == {b \in Alerts : OpenAlert(b) /\ alert[b].key = k}
           a == Newest(ids)
           st == IF a = 0 THEN "none" ELSE alert[a].status
           r == [IdleProc EXCEPT !.pc = "group", !.key = k, !.event = e, !.alert = a, !.status = st]
<1>0. i \in Procs /\ e = "firing" /\ MaxEvents \in Nat
  BY AlertAssumption, Numbers
<1>1. (ids = {} => a = 0) /\ (ids # {} => a \in ids /\ a # 0)
  BY NewestRow DEF Alerts
<1>2. a \in Alerts \cup {0} /\ st \in AlertStatuses /\ (a # 0 => OpenAlert(a) /\ st \notin {"none", "resolved"})
  BY <1>1 DEF OverlapInv, TypeOK, AlertRow, AlertStatuses, OpenAlert
<1>3. r \in Handler /\ r.pc = "group" /\ r.event = "firing" /\ r.alert = a /\ r.status = st /\ r.group = 0
  <2> HIDE DEF a, st
  <2> QED BY <1>0, <1>2, Blanks DEF Handler, Stages
<1>4. proc' = [proc EXCEPT ![i] = r] /\ UNCHANGED <<alert, group, todo, acked>> /\ events' \in 0 .. MaxEvents
  <2>1. events' \in 0 .. MaxEvents
    BY <1>0, OverlapHandler DEF Arrive
  <2> QED BY <2>1 DEF Arrive
<1> HIDE DEF r, a, st
<1>5. HandlerOpen(i)'
  <2>1. proc'[i] = r
    BY <1>0, <1>4 DEF OverlapInv, TypeOK
  <2> QED BY <1>2, <1>3, <1>4, <2>1 DEF HandlerOpen, OpenAlert
<1> QED BY <1>0, <1>3, <1>4, <1>5, RowsKept, OverlapKeep, OverlapHandler

\* The group of an open alert is open; a new alert's group is looked up again
\* under the lock.
LEMMA OverlapFind ==
  ASSUME OverlapInv, NEW i \in Intakes, FindGroup(i)
  PROVE  OverlapInv'
<1> DEFINE p == proc[i]
<1>0. /\ i \in Procs /\ p \in Handler /\ HandlerOpen(i) /\ p.pc = "group" /\ UNCHANGED <<alert, group, todo, events, acked>>
      /\ AlertsKept /\ GroupsKept /\ group \in [Groups -> GroupRow] /\ p.event = "firing"
  BY Numbers, OverlapHandler, RowsKept DEF FindGroup, HandlerOpen
<1>1. CASE Return(i)
  BY <1>0, <1>1, OverlapLast
<1>2. ASSUME p.alert # 0,
             LET g == alert[p.alert].group
                 c == IF g = 0 THEN NoGroup ELSE group[g]
             IN  proc' = [proc EXCEPT ![i] = [[p EXCEPT !.group = g, !.copy = c] EXCEPT !.pc = "updateAlert"]]
      PROVE  OverlapInv'
  <2>1. PICK a \in Alerts : a = p.alert /\ a # 0 /\ OpenAlert(a) /\ OpenStatus(p.status)
    BY <1>0, <1>2 DEF HandlerOpen, Handler, OpenStatus
  <2>2. PICK g \in Groups : g = alert[a].group /\ g # 0 /\ OpenGroup(g)
    BY <2>1, Numbers DEF OverlapInv, OpenTogether, TypeOK, AlertRow
  <2> DEFINE r == [[p EXCEPT !.group = g, !.copy = group[g]] EXCEPT !.pc = "updateAlert"]
  <2>3. proc' = [proc EXCEPT ![i] = r]
    BY <1>2, <2>1, <2>2
  <2>4. /\ r \in Handler /\ r.pc = "updateAlert" /\ r.alert = a /\ r.status = p.status /\ r.event = "firing"
        /\ r.group = g /\ r.copy = group[g]
    BY <1>0, <2>1, <2>2 DEF Handler, Stages
  <2> HIDE DEF r
  <2>5. proc'[i] = r /\ OpenAlert(a)' /\ OpenGroup(g)'
    BY <1>0, <2>1, <2>2, <2>3 DEF OverlapInv, TypeOK, AlertsKept, GroupsKept
  <2>6. HandlerOpen(i)'
    BY <2>1, <2>2, <2>4, <2>5 DEF HandlerOpen, OpenStatus, OpenGroup
  <2> QED BY <1>0, <2>3, <2>4, <2>6, OverlapMove
<1>3. ASSUME p.alert = 0, NEW s \in {"firing", "silenced"},
             LET g == Newest({h \in Groups : OpenGroup(h)})
                 c == IF g = 0 THEN NoGroup ELSE group[g]
             IN  proc' = [proc EXCEPT ![i] = [[p EXCEPT !.group = g, !.copy = c] EXCEPT !.pc = "add", !.event = s]]
      PROVE  OverlapInv'
  <2>1. PICK g \in Groups \cup {0} : g = Newest({h \in Groups : OpenGroup(h)})
    BY NewestRow DEF Groups
  <2>2. PICK c \in GroupRow : c = IF g = 0 THEN NoGroup ELSE group[g]
    BY <1>0, <2>1, Blanks
  <2> DEFINE r == [[p EXCEPT !.group = g, !.copy = c] EXCEPT !.pc = "add", !.event = s]
  <2>3. proc' = [proc EXCEPT ![i] = r]
    BY <1>3, <2>1, <2>2
  <2>4. r \in Handler /\ r.pc = "add" /\ r.alert = 0 /\ r.event = s
    BY <1>0, <1>3 DEF Handler, Stages
  <2> HIDE DEF r
  <2>5. proc'[i] = r
    BY <1>0, <2>3 DEF OverlapInv, TypeOK
  <2>6. HandlerOpen(i)'
    BY <2>4, <2>5 DEF HandlerOpen
  <2> QED BY <1>0, <2>3, <2>4, <2>6, OverlapMove
<1> QED BY <1>0, <1>1, <1>2, <1>3 DEF FindGroup

\* An open alert gets another open status.
LEMMA OpenUpdate ==
  ASSUME OverlapInv, NEW a \in Alerts, OpenAlert(a), NEW s \in AlertStatuses, OpenStatus(s),
         alert' = [alert EXCEPT ![a].status = s]
  PROVE  AlertsKept
<1>1. /\ alert' \in [Alerts -> AlertRow]
      /\ \A b \in Alerts : alert'[b].group = alert[b].group /\ alert'[b].key = alert[b].key
      /\ alert'[a].status = s /\ \A b \in Alerts : b # a => alert'[b] = alert[b]
  BY DEF OverlapInv, TypeOK, AlertRow
<1> QED BY <1>1 DEF AlertsKept, OpenAlert, OpenStatus

\* The statements of _handle_existing_alert from the update to the count.
LEMMA OverlapExisting ==
  ASSUME OverlapInv, NEW i \in Intakes, UpdateAlert(i) \/ SaveGroup(i) \/ SaveAlert(i)
  PROVE  OverlapInv'
<1>0. /\ i \in Procs /\ proc[i] \in Handler /\ HandlerOpen(i) /\ proc[i].pc \in {"updateAlert", "saveGroup", "saveAlert"}
      /\ UNCHANGED <<acked, todo, events>>
  BY Numbers, OverlapHandler DEF UpdateAlert, SaveGroup, SaveAlert
<1>1. PICK a \in Alerts, g \in Groups :
        /\ a = proc[i].alert /\ g = proc[i].group /\ a # 0 /\ g # 0 /\ OpenAlert(a) /\ OpenGroup(g)
        /\ proc[i].status \in AlertStatuses /\ OpenStatus(proc[i].status)
        /\ proc[i].copy \in GroupRow /\ OpenStatus(proc[i].copy.status)
  BY <1>0 DEF HandlerOpen, Handler, OpenStatus
<1>2. CASE SaveGroup(i)
  <2>1. GroupsKept /\ AlertsKept /\ Goto(i, "saveAlert")
    BY <1>1, <1>2, OpenSave, RowsKept DEF SaveGroup
  <2> QED BY <1>0, <1>1, <2>1, OverlapGoto DEF Stages
<1>3. CASE SaveAlert(i)
  <2>1. GroupsKept /\ AlertsKept /\ Goto(i, "count")
    BY <1>1, <1>3, OpenUpdate, RowsKept DEF SaveAlert
  <2> QED BY <1>0, <1>1, <2>1, OverlapGoto DEF Stages
<1>4. CASE UpdateAlert(i)
  <2>1. PICK s \in AlertStatuses : s = PayloadStatus(proc[i].status, proc[i].event) /\ OpenStatus(s)
    <3>1. proc[i].event = "firing"
      BY <1>0, <1>4 DEF UpdateAlert, HandlerOpen
    <3> QED BY <1>1, <3>1 DEF PayloadStatus, OpenStatus, AlertStatuses
  <2>2. GroupsKept /\ AlertsKept
    BY <1>1, <1>4, <2>1, OpenUpdate, RowsKept DEF UpdateAlert
  <2> DEFINE r == [proc[i] EXCEPT !.pc = "saveGroup", !.status = s]
  <2>3. proc' = [proc EXCEPT ![i] = r]
    BY <1>4, <2>1 DEF UpdateAlert
  <2>4. /\ r \in Handler /\ r.pc = "saveGroup" /\ r.status = s /\ r.alert = a /\ r.group = g
        /\ r.event = proc[i].event /\ r.copy = proc[i].copy
    BY <1>0, <1>1 DEF Handler, Stages
  <2> HIDE DEF r
  <2>5. proc'[i] = r /\ OpenAlert(a)' /\ OpenGroup(g)'
    BY <1>0, <1>1, <2>2, <2>3 DEF OverlapInv, TypeOK, AlertsKept, GroupsKept
  <2>6. HandlerOpen(i)'
    BY <1>0, <1>1, <2>1, <2>4, <2>5 DEF HandlerOpen, OpenStatus
  <2> QED BY <1>0, <2>2, <2>3, <2>4, <2>6, OverlapMove
<1> QED BY <1>2, <1>3, <1>4

\* recalculate_alert_group: a group with an open child stays open, whatever
\* status the copy had.
LEMMA OverlapCount ==
  ASSUME OverlapInv, NEW p \in Procs, Count(p) \/ Recalculate(p)
  PROVE  OverlapInv'
<1>0. /\ proc[p] \in Handler /\ HandlerOpen(p) /\ proc[p].pc \in {"count", "recalculate"}
      /\ UNCHANGED <<alert, acked, todo, events>> /\ AlertsKept
  BY OverlapHandler, RowsKept DEF Count, Recalculate
<1>1. PICK g \in Groups :
        /\ g = proc[p].group /\ g # 0 /\ OpenGroup(g) /\ proc[p].copy \in GroupRow /\ OpenStatus(proc[p].copy.status)
  BY <1>0, OpenCopy
<1>2. CASE Recalculate(p)
  <2>1. PICK pc \in {"enqueue", "send", "clear"} : Goto(p, pc) /\ SaveRow(g, proc[p].copy)
    BY <1>1, <1>2 DEF Recalculate
  <2>2. GroupsKept
    BY <1>1, <2>1, OpenSave
  <2> QED BY <1>0, <2>1, <2>2, OverlapGoto DEF Stages
<1>3. CASE Count(p)
  <2>1. PICK s \in GroupStatuses : s = Recalculated(proc[p].copy.status, ChildStatuses(g)) /\ OpenStatus(s)
    <3>1. PICK a \in Alerts : OpenAlert(a) /\ alert[a].group = g
      BY <1>1 DEF OverlapInv, OpenTogether
    <3>2. alert[a].status \in ChildStatuses(g) /\ alert[a].status # "resolved"
      BY <3>1 DEF ChildStatuses, Children, OpenAlert
    <3>3. ChildStatuses(g) \in SUBSET {"firing", "silenced", "resolved"} /\ ChildStatuses(g) # {}
      BY <3>2, ChildStatus DEF OverlapInv
    <3>4. proc[p].copy.status \in GroupStatuses
      BY <1>1 DEF GroupRow
    <3>5. /\ Recalculated(proc[p].copy.status, ChildStatuses(g)) \in GroupStatuses
          /\ Recalculated(proc[p].copy.status, ChildStatuses(g)) # "none"
          /\ Recalculated(proc[p].copy.status, ChildStatuses(g)) = "resolved" <=> ChildStatuses(g) = {"resolved"}
      BY <3>3, <3>4, RecalculatedAgrees
    <3> QED BY <3>2, <3>5 DEF OpenStatus
  <2> DEFINE c == [proc[p].copy EXCEPT !.status = s]
             r == [proc[p] EXCEPT !.pc = "recalculate", !.copy = c]
  <2>2. c \in GroupRow /\ c.status = s
    BY <1>1, Columns
  <2>3. proc' = [proc EXCEPT ![p] = r] /\ UNCHANGED group
    BY <1>1, <1>3, <2>1 DEF Count
  <2> HIDE DEF c
  <2>4. /\ r \in Handler /\ r.pc = "recalculate" /\ r.group = g /\ r.copy = c
        /\ r.event = proc[p].event /\ r.alert = proc[p].alert /\ r.status = proc[p].status
    BY <1>0, <1>1, <2>2 DEF Handler, Stages
  <2> HIDE DEF r
  <2>5. GroupsKept /\ proc'[p] = r
    BY <2>3, RowsKept DEF OverlapInv, TypeOK
  <2>6. PICK a \in Alerts \cup {0} : a = proc[p].alert
    BY <1>0 DEF Handler
  <2>7. (a # 0 /\ OpenAlert(a) => OpenAlert(a)') /\ OpenGroup(g)'
    BY <1>0, <1>1, <2>5 DEF AlertsKept, GroupsKept
  <2>8. HandlerOpen(p)'
    BY <1>0, <1>1, <2>1, <2>2, <2>4, <2>5, <2>6, <2>7 DEF HandlerOpen, OpenStatus
  <2> QED BY <1>0, <2>3, <2>4, <2>5, <2>8, OverlapMove
<1> QED BY <1>2, <1>3

\* A group that only firing payloads reach is not resolved by one.
LEMMA OverlapEnqueue ==
  ASSUME OverlapInv, NEW i \in Intakes, Enqueue(i)
  PROVE  OverlapInv'
<1>1. i \in Procs /\ proc[i].event # "resolved"
  BY Numbers, OverlapHandler DEF HandlerOpen
<1>2. Return(i)
  BY <1>1 DEF Enqueue
<1> QED BY <1>1, <1>2, OverlapLast

\* A handler that begins with a copy of an open group.
LEMMA OverlapBegin ==
  ASSUME OverlapInv, NEW p \in Procs, NEW g \in Groups, OpenGroup(g), NEW pc \in {"count", "clear", "send"},
         proc' = [proc EXCEPT ![p] = [IdleProc EXCEPT !.pc = pc, !.group = g, !.copy = group[g]]],
         todo' \in [Groups -> Dues \cup {0}], UNCHANGED <<alert, group, events, acked>>
  PROVE  OverlapInv'
<1> DEFINE r == [IdleProc EXCEPT !.pc = pc, !.group = g, !.copy = group[g]]
<1>0. group[g] \in GroupRow /\ g # 0 /\ AlertsKept /\ GroupsKept
  BY Numbers, RowsKept DEF OverlapInv, TypeOK
<1>1. r \in Handler /\ r.pc = pc /\ r.group = g /\ r.copy = group[g] /\ r.event = "firing" /\ r.alert = 0
  BY <1>0, Blanks DEF Handler, Stages
<1>2. proc' = [proc EXCEPT ![p] = r]
  OBVIOUS
<1> HIDE DEF r
<1>3. proc'[p] = r /\ OpenGroup(g)'
  BY <1>0, <1>2 DEF OverlapInv, TypeOK, GroupsKept
<1>4. HandlerOpen(p)'
  BY <1>0, <1>1, <1>3 DEF HandlerOpen, OpenGroup
<1> QED BY <1>0, <1>1, <1>2, <1>4, OverlapKeep, OverlapHandler

\* The queue worker selects and reloads: a queued group is open.
LEMMA OverlapQueue ==
  ASSUME OverlapInv, SelectDue \/ \E g \in Groups : Reload(g) \/ Remind(g)
  PROVE  OverlapInv'
<1>0. Queue \in Procs /\ Reminder \in Procs /\ proc[Queue] \in Handler /\ HandlerOpen(Queue)
  BY Numbers, OverlapHandler
<1>1. CASE SelectDue
  <2>1. proc' = [proc EXCEPT ![Queue] = proc[Queue]] /\ UNCHANGED <<alert, group, events, acked, proc>>
    BY <1>0, <1>1 DEF SelectDue, OverlapInv, TypeOK
  <2>2. todo' \in [Groups -> Dues \cup {0}]
    BY <1>1 DEF SelectDue, OverlapInv, TypeOK, GroupRow
  <2>3. HandlerOpen(Queue)'
    BY <1>0, <2>1 DEF HandlerOpen, OpenAlert, OpenGroup
  <2> QED BY <1>0, <2>1, <2>2, <2>3, RowsKept, OverlapKeep, OverlapHandler
<1>2. ASSUME NEW g \in Groups, Reload(g) PROVE OverlapInv'
  <2>1. UNCHANGED <<alert, group, events, acked>> /\ todo' \in [Groups -> Dues \cup {0}]
    BY <1>2 DEF Reload, OverlapInv, TypeOK
  <2>2. CASE NextGroup
    <3>1. Return(Queue)
      BY <2>2 DEF NextGroup, Return
    <3> QED BY <1>0, <2>1, <3>1, RowsKept, OverlapReturn, OverlapHandler
  <2>3. group[g].status = "firing" \/ group[g].due # 0 => OpenGroup(g)
    BY DEF OverlapInv, OpenTogether, OpenGroup
  <2>4. ASSUME NEW pc \in {"count", "clear"}, group[g].status = "firing" \/ group[g].due # 0,
               proc' = [proc EXCEPT ![Queue] = [IdleProc EXCEPT !.pc = pc, !.group = g, !.copy = group[g]]]
        PROVE  OverlapInv'
    BY <1>0, <2>1, <2>3, <2>4, OverlapBegin
  <2> QED BY <1>2, <2>2, <2>4 DEF Reload
<1>3. ASSUME NEW g \in Groups, Remind(g) PROVE OverlapInv'
  <2>1. OpenGroup(g)
    BY <1>3 DEF Remind, OpenGroup
  <2> QED BY <1>0, <1>3, <2>1, OverlapBegin, OverlapHandler DEF Remind
<1> QED BY <1>1, <1>2, <1>3

\* notify_alert reads an open row and saves it.
LEMMA OverlapSend ==
  ASSUME OverlapInv, NEW w \in {Queue, Reminder}, Send(w) \/ Deliver(w)
  PROVE  OverlapInv'
<1>0. /\ w \in Procs /\ proc[w] \in Handler /\ HandlerOpen(w) /\ proc[w].pc \in {"send", "deliver"}
      /\ UNCHANGED <<alert, todo, events, acked>> /\ AlertsKept
  BY Numbers, OverlapHandler, RowsKept DEF Send, Deliver
<1>1. PICK g \in Groups :
        /\ g = proc[w].group /\ g # 0 /\ OpenGroup(g) /\ proc[w].copy \in GroupRow /\ OpenStatus(proc[w].copy.status)
        /\ proc[w].pc = "deliver" => proc[w].sending \in GroupRow /\ OpenStatus(proc[w].sending.status)
  BY <1>0, OpenCopy
<1>2. ASSUME NEW pc \in {"deliver", "mark", "clear"}, NEW row \in GroupRow, pc = "deliver" => OpenStatus(row.status),
             proc' = [proc EXCEPT ![w] = [proc[w] EXCEPT !.pc = pc, !.sending = row]], GroupsKept
      PROVE  OverlapInv'
  <2> DEFINE r == [proc[w] EXCEPT !.pc = pc, !.sending = row]
  <2>1. /\ r \in Handler /\ r.pc = pc /\ r.group = g /\ r.copy = proc[w].copy /\ r.sending = row
        /\ r.event = proc[w].event /\ r.alert = proc[w].alert /\ r.status = proc[w].status
    BY <1>0, <1>1 DEF Handler, Stages
  <2>2. proc' = [proc EXCEPT ![w] = r]
    BY <1>2
  <2> HIDE DEF r
  <2>3. proc'[w] = r /\ OpenGroup(g)'
    BY <1>0, <1>1, <1>2, <2>2 DEF OverlapInv, TypeOK, GroupsKept
  <2>4. PICK a \in Alerts \cup {0} : a = proc[w].alert
    BY <1>0 DEF Handler
  <2>5. a # 0 /\ OpenAlert(a) => OpenAlert(a)'
    BY <1>0 DEF AlertsKept
  <2>6. HandlerOpen(w)'
    BY <1>0, <1>1, <1>2, <2>1, <2>3, <2>4, <2>5 DEF HandlerOpen, OpenStatus
  <2> QED BY <1>0, <1>2, <2>1, <2>2, <2>6, OverlapMove
<1>3. CASE Return(w)
  BY <1>0, <1>3, OverlapLast
<1>4. CASE Send(w)
  <2>1. GroupsKept
    BY <1>4, RowsKept DEF Send
  <2>2. CASE Goto(w, "clear")
    BY <1>0, <2>1, <2>2, OverlapGoto DEF Stages
  <2>3. group[g] \in GroupRow /\ OpenStatus(group[g].status)
    BY <1>1 DEF OverlapInv, TypeOK, OpenGroup, OpenStatus
  <2>4. CASE proc' = [proc EXCEPT ![w] = [@ EXCEPT !.pc = "deliver", !.sending = group[g]]]
    <3>1. proc' = [proc EXCEPT ![w] = [proc[w] EXCEPT !.pc = "deliver", !.sending = group[g]]]
      BY <1>0, <2>4 DEF OverlapInv, TypeOK
    <3> QED BY <1>2, <2>1, <2>3, <3>1
  <2> QED BY <1>1, <1>3, <1>4, <2>2, <2>4 DEF Send
<1>5. CASE Deliver(w)
  <2>1. /\ [proc[w].sending EXCEPT !.notified = TRUE] \in GroupRow
        /\ OpenStatus([proc[w].sending EXCEPT !.notified = TRUE].status)
    BY <1>1, <1>5, Columns DEF Deliver
  <2>2. SaveRow(g, [proc[w].sending EXCEPT !.notified = TRUE]) => GroupsKept
    BY <1>1, <2>1, OpenSave
  <2> QED BY <1>1, <1>2, <1>3, <1>5, <2>2, RowsKept, Blanks DEF Deliver
<1> QED BY <1>4, <1>5

\* A step that may open alerts and groups and closes none, after which handler p
\* has r.
LEMMA OverlapOpens ==
  ASSUME OverlapInv, NEW p \in Procs, NEW r \in Handler, proc' = [proc EXCEPT ![p] = r],
         alert' \in [Alerts -> AlertRow], group' \in [Groups -> GroupRow], acked' \in [Groups -> BOOLEAN],
         UNCHANGED <<todo, events>>, NoDuplicates', OpenTogether',
         \A a \in Alerts : OpenAlert(a) => OpenAlert(a)', \A g \in Groups : OpenGroup(g) => OpenGroup(g)',
         HandlerOpen(p)'
  PROVE  OverlapInv'
<1>1. TypeOK'
  BY DEF OverlapInv, TypeOK
<1>2. ASSUME NEW q \in Procs PROVE HandlerOpen(q)'
  <2>1. CASE q = p
    BY <2>1
  <2>2. CASE q # p
    <3>1. proc'[q] = proc[q]
      BY <2>2 DEF OverlapInv, TypeOK
    <3>2. PICK a \in Alerts \cup {0}, g \in Groups \cup {0} : a = proc[q].alert /\ g = proc[q].group
      BY OverlapHandler
    <3>3. (a # 0 /\ OpenAlert(a) => OpenAlert(a)') /\ (g # 0 /\ OpenGroup(g) => OpenGroup(g)')
      OBVIOUS
    <3>4. HandlerOpen(q)
      BY OverlapHandler
    <3> QED BY <3>1, <3>2, <3>3, <3>4 DEF HandlerOpen
  <2> QED BY <2>1, <2>2
<1> QED BY <1>1, <1>2 DEF OverlapInv

\* The transaction under lock_grouping_identity: no open alert has the key, and
\* g is the open group or none is open.
LEMMA OverlapInsert ==
  ASSUME OverlapInv, NEW i \in Intakes, NEW g \in Groups, NEW row \in GroupRow,
         UNCHANGED <<todo, events>>, InsertChild(i, g, row),
         \A b \in Alerts : OpenAlert(b) => alert[b].key # proc[i].key,
         OpenGroup(g) \/ \A h \in Groups : ~OpenGroup(h)
  PROVE  OverlapInv'
<1>0. i \in Procs /\ proc[i] \in Handler /\ HandlerOpen(i) /\ g # 0
  BY Numbers, OverlapHandler
<1>1. PICK e \in {"firing", "silenced"} : e = proc[i].event
  BY <1>0 DEF HandlerOpen, Handler
<1> DEFINE again == row.status = "acknowledged" /\ proc[i].event = "firing"
           base(keep) == IF again /\ ~keep THEN "firing" ELSE row.status
           new(keep) == [row EXCEPT !.status = Recalculated(base(keep), ChildStatuses(g) \cup {proc[i].event})]
<1>2. PICK a \in Alerts, keep \in BOOLEAN :
        /\ alert[a].status = "none"
        /\ alert' = [alert EXCEPT ![a] = [key |-> proc[i].key, status |-> e, group |-> g]]
        /\ SaveRow(g, new(keep))
        /\ proc' = [proc EXCEPT ![i] = [proc[i] EXCEPT !.pc = "enqueueNew", !.group = g, !.copy = new(keep)]]
        /\ acked' = [acked EXCEPT ![g] = @ /\ (keep \/ proc[i].event # "firing")]
  BY <1>1 DEF InsertChild, IsNextAlert
<1> DEFINE C == ChildStatuses(g) \cup {e}
<1>3. PICK s \in GroupStatuses : s = base(keep)
  BY DEF GroupRow, GroupStatuses
<1>4. PICK n \in GroupStatuses : n = Recalculated(s, C) /\ OpenStatus(n)
  <2>1. C \in SUBSET {"firing", "silenced", "resolved"} /\ C # {} /\ C # {"resolved"}
    BY ChildStatus DEF OverlapInv
  <2>2. /\ Recalculated(s, C) \in GroupStatuses /\ Recalculated(s, C) # "none"
        /\ Recalculated(s, C) = "resolved" <=> C = {"resolved"}
    BY <1>3, <2>1, RecalculatedAgrees
  <2> QED BY <2>1, <2>2 DEF OpenStatus
<1>5. PICK c \in GroupRow : c = new(keep) /\ OpenStatus(c.status)
  <2>1. [row EXCEPT !.status = n] \in GroupRow /\ [row EXCEPT !.status = n].status = n
    BY Columns
  <2>2. new(keep) = [row EXCEPT !.status = n]
    BY <1>1, <1>3, <1>4
  <2> QED BY <1>4, <2>1, <2>2
<1> DEFINE r == [proc[i] EXCEPT !.pc = "enqueueNew", !.group = g, !.copy = c]
<1>6. proc' = [proc EXCEPT ![i] = r] /\ SaveRow(g, c)
  BY <1>2, <1>5
<1>7. /\ r \in Handler /\ r.pc = "enqueueNew" /\ r.group = g /\ r.copy = c
      /\ r.event = proc[i].event /\ r.alert = proc[i].alert /\ r.status = proc[i].status
  BY <1>0 DEF Handler, Stages
<1> HIDE DEF r, new, base, C
<1>8. proc'[i] = r
  BY <1>0, <1>6 DEF OverlapInv, TypeOK
<1>9. /\ group' \in [Groups -> GroupRow] /\ group'[g] = c
      /\ \A h \in Groups : h # g => group'[h] = group[h]
  BY <1>6 DEF SaveRow, OverlapInv, TypeOK
<1>10. /\ alert' \in [Alerts -> AlertRow]
       /\ alert'[a].key = proc[i].key /\ alert'[a].status = e /\ alert'[a].group = g
       /\ \A b \in Alerts : b # a => alert'[b] = alert[b]
  <2>1. proc[i].key \in Keys /\ e \in AlertStatuses
    BY <1>0 DEF Handler, AlertStatuses
  <2>2. [key |-> proc[i].key, status |-> e, group |-> g] \in AlertRow
    BY <2>1 DEF AlertRow
  <2> QED BY <1>2, <2>2 DEF OverlapInv, TypeOK
<1>11. /\ ~OpenAlert(a) /\ OpenAlert(a)'
       /\ \A b \in Alerts : b # a => (OpenAlert(b)' <=> OpenAlert(b))
  BY <1>2, <1>10 DEF OpenAlert
<1>12. OpenGroup(g)' /\ \A h \in Groups : h # g => (OpenGroup(h)' <=> OpenGroup(h))
  BY <1>5, <1>9 DEF OpenGroup, OpenStatus
<1>13. NoDuplicates'
  <2>1. \A b \in Alerts : OpenAlert(b)' /\ alert'[b].key = proc[i].key => b = a
    BY <1>10, <1>11
  <2>2. \A x, y \in Alerts : OpenAlert(x)' /\ OpenAlert(y)' /\ alert'[x].key = alert'[y].key => x = y
    BY <1>10, <1>11, <2>1 DEF OverlapInv, NoDuplicates
  <2>3. \A h \in Groups : OpenGroup(h)' => h = g
    BY <1>12 DEF OverlapInv, NoDuplicates
  <2> QED BY <2>2, <2>3 DEF NoDuplicates
<1>14. OpenTogether'
  <2>1. ASSUME NEW b \in Alerts, OpenAlert(b)' PROVE alert'[b].group # 0 /\ OpenGroup(alert[b].group)'
    <3>1. CASE b = a
      BY <1>0, <1>10, <1>12, <3>1
    <3>2. CASE b # a
      <4>1. PICK h \in Groups : h = alert[b].group /\ h # 0 /\ OpenGroup(h)
        BY <1>11, <2>1, <3>2, Numbers DEF OverlapInv, OpenTogether, TypeOK, AlertRow
      <4>2. alert'[b].group = h /\ OpenGroup(h)'
        BY <1>10, <1>12, <3>2, <4>1
      <4> QED BY <4>1, <4>2
    <3> QED BY <3>1, <3>2
  <2>2. ASSUME NEW h \in Groups, OpenGroup(h)' PROVE \E b \in Alerts : OpenAlert(b)' /\ alert'[b].group = h
    <3>1. CASE h = g
      BY <1>10, <1>11, <3>1
    <3>2. CASE h # g
      <4>1. PICK b \in Alerts : OpenAlert(b) /\ alert[b].group = h
        BY <1>12, <2>2, <3>2 DEF OverlapInv, OpenTogether
      <4> QED BY <1>10, <1>11, <4>1
    <3> QED BY <3>1, <3>2
  <2>3. \A h \in Groups : group'[h].due # 0 => OpenGroup(h)'
    BY <1>9, <1>12 DEF OverlapInv, OpenTogether
  <2> QED BY <2>1, <2>2, <2>3 DEF OpenTogether
<1>15. HandlerOpen(i)'
  <2>1. PICK b \in Alerts \cup {0} : b = proc[i].alert
    BY <1>0 DEF Handler
  <2>2. b # 0 /\ OpenAlert(b) => OpenAlert(b)'
    BY <1>11
  <2> QED BY <1>0, <1>1, <1>5, <1>7, <1>8, <1>12, <2>1, <2>2 DEF HandlerOpen, OpenStatus
<1>16. acked' \in [Groups -> BOOLEAN]
  BY <1>2 DEF OverlapInv, TypeOK
<1> QED BY <1>0, <1>6, <1>7, <1>9, <1>10, <1>11, <1>12, <1>13, <1>14, <1>15, <1>16, OverlapOpens

LEMMA OverlapAdd ==
  ASSUME OverlapInv, Reopen, NEW i \in Intakes, AddChild(i) \/ AddChildLocked(i)
  PROVE  OverlapInv'
<1>0. /\ i \in Procs /\ proc[i] \in Handler /\ HandlerOpen(i) /\ AddChildLocked(i) /\ UNCHANGED <<todo, events>>
      /\ proc[i].event \in {"firing", "silenced"} /\ group \in [Groups -> GroupRow]
  BY Numbers, OverlapHandler DEF AddChild, AddChildLocked, HandlerOpen, Handler
<1>1. CASE Return(i) /\ UNCHANGED <<alert, group, acked>>
  BY <1>0, <1>1, OverlapReturn, OverlapHandler, RowsKept
<1>2. PICK open : open = Newest({g \in Groups : OpenGroup(g)})
  OBVIOUS
<1>3. /\ open = 0 => \A h \in Groups : ~OpenGroup(h)
      /\ open # 0 => open \in Groups /\ OpenGroup(open) /\ group[open] \in GroupRow
  BY <1>0, <1>2, NewestRow DEF Groups
<1>4. ASSUME ~(Return(i) /\ UNCHANGED <<alert, group, acked>>)
      PROVE  /\ \A b \in Alerts : OpenAlert(b) => alert[b].key # proc[i].key
             /\ \/ open # 0 /\ InsertChild(i, open, group[open])
                \/ open = 0 /\ \E g \in Groups : InsertChild(i, g, Restarted)
                \/ open = 0 /\ InsertGroup(i)
  BY <1>0, <1>2, <1>4 DEF AddChildLocked
<1>5. Restarted \in GroupRow
  BY Blanks, Columns DEF Restarted, GroupStatuses
<1>6. [NoGroup EXCEPT !.status = proc[i].event] \in GroupRow
  BY <1>0, Blanks, Columns DEF GroupStatuses
<1> QED BY <1>0, <1>1, <1>3, <1>4, <1>5, <1>6, OverlapInsert DEF InsertGroup

\* Operators act while no handler is under way.
LEMMA OverlapOperator ==
  ASSUME OverlapInv, AloneActs, NEW g \in Groups, Acknowledge(g) \/ Resolve(g)
  PROVE  OverlapInv'
<1>0. /\ OpenGroup(g) /\ UNCHANGED <<proc, todo, events>> /\ \A p \in Procs : proc[p].pc = "idle"
      /\ acked' \in [Groups -> BOOLEAN]
  BY DEF Acknowledge, Resolve, MayAct, Quiet, Busy, OverlapInv, TypeOK
<1>1. \A p \in Procs : HandlerOpen(p)'
  BY <1>0 DEF OverlapInv, HandlerOpen
<1>2. CASE Acknowledge(g)
  <2>1. Cleared(group[g]) \in GroupRow /\ "acknowledged" \in GroupStatuses
    BY Columns DEF OverlapInv, TypeOK, GroupStatuses
  <2>2. /\ [Cleared(group[g]) EXCEPT !.status = "acknowledged"] \in GroupRow
        /\ OpenStatus([Cleared(group[g]) EXCEPT !.status = "acknowledged"].status)
    BY <2>1, Columns DEF OpenStatus
  <2>3. GroupsKept /\ AlertsKept
    BY <1>0, <1>2, <2>2, OpenSave, RowsKept DEF Acknowledge
  <2>4. proc' = [proc EXCEPT ![Queue] = proc[Queue]] /\ Queue \in Procs /\ proc[Queue] \in Handler
    BY <1>0, Numbers DEF OverlapInv, TypeOK
  <2>5. TypeOK'
    BY <1>0, <2>3 DEF OverlapInv, TypeOK, GroupsKept, AlertsKept
  <2>6. NoDuplicates'
    BY <2>3 DEF OverlapInv, NoDuplicates, AlertsKept, GroupsKept
  <2>7. OpenTogether'
    <3>1. alert' = alert
      BY <1>2 DEF Acknowledge
    <3>2. \A a \in Alerts : alert[a].group \in Groups \cup {0}
      BY DEF OverlapInv, TypeOK, AlertRow
    <3>3. ASSUME NEW a \in Alerts, OpenAlert(a)' PROVE alert'[a].group # 0 /\ OpenGroup(alert[a].group)'
      <4>1. PICK h \in Groups : h = alert[a].group /\ h # 0 /\ OpenGroup(h)
        BY <2>3, <3>2, <3>3 DEF OverlapInv, OpenTogether, AlertsKept
      <4>2. alert'[a].group = h /\ OpenGroup(h)'
        BY <2>3, <3>1, <4>1 DEF GroupsKept
      <4> QED BY <4>1, <4>2
    <3>4. \A h \in Groups : OpenGroup(h)' => \E a \in Alerts : OpenAlert(a)' /\ alert'[a].group = h
      BY <2>3, <3>1 DEF OverlapInv, OpenTogether, AlertsKept, GroupsKept
    <3>5. \A h \in Groups : group'[h].due # 0 => OpenGroup(h)'
      BY <2>3 DEF GroupsKept
    <3> QED BY <3>3, <3>4, <3>5 DEF OpenTogether
  <2> QED BY <1>1, <2>5, <2>6, <2>7 DEF OverlapInv
<1>3. CASE Resolve(g)
  <2>1. PICK c \in GroupRow : c = [Cleared(group[g]) EXCEPT !.status = "resolved"] /\ c.status = "resolved" /\ c.due = 0
    <3>1. Cleared(group[g]) \in GroupRow /\ Cleared(group[g]).due = 0
      BY DEF OverlapInv, TypeOK, GroupRow, Cleared
    <3>2. /\ [Cleared(group[g]) EXCEPT !.status = "resolved"] \in GroupRow
          /\ [Cleared(group[g]) EXCEPT !.status = "resolved"].status = "resolved"
          /\ [Cleared(group[g]) EXCEPT !.status = "resolved"].due = 0
      BY <3>1 DEF GroupRow, GroupStatuses
    <3> QED BY <3>2
  <2>2. /\ group' \in [Groups -> GroupRow] /\ group'[g] = c
        /\ \A h \in Groups : h # g => group'[h] = group[h]
    BY <1>3, <2>1 DEF Resolve, SaveRow, OverlapInv, TypeOK
  <2>3. /\ alert' \in [Alerts -> AlertRow]
        /\ \A a \in Alerts : alert'[a].key = alert[a].key /\ alert'[a].group = alert[a].group
        /\ \A a \in Children(g) : alert'[a].status = "resolved"
        /\ \A a \in Alerts : a \notin Children(g) => alert'[a] = alert[a]
    <3>1. \A a \in Alerts : /\ [alert[a] EXCEPT !.status = "resolved"] \in AlertRow
                            /\ [alert[a] EXCEPT !.status = "resolved"].status = "resolved"
                            /\ [alert[a] EXCEPT !.status = "resolved"].key = alert[a].key
                            /\ [alert[a] EXCEPT !.status = "resolved"].group = alert[a].group
      BY DEF OverlapInv, TypeOK, AlertRow, AlertStatuses
    <3>2. \A a \in Alerts : alert[a] \in AlertRow
      BY DEF OverlapInv, TypeOK
    <3>3. \A a \in Children(g) : a \in Alerts
      BY DEF Children
    <3>4. alert' = [a \in Alerts |-> IF a \in Children(g) THEN [alert[a] EXCEPT !.status = "resolved"] ELSE alert[a]]
      BY <1>3 DEF Resolve
    <3> QED BY <3>1, <3>2, <3>3, <3>4
  <2>4. \A a \in Alerts : OpenAlert(a)' <=> OpenAlert(a) /\ alert[a].group # g
    BY <2>3 DEF OpenAlert, Children
  <2>5. \A h \in Groups : OpenGroup(h)' <=> OpenGroup(h) /\ h # g
    BY <2>1, <2>2 DEF OpenGroup
  <2>6. TypeOK'
    BY <1>0, <2>2, <2>3 DEF OverlapInv, TypeOK
  <2>7. NoDuplicates'
    BY <2>3, <2>4, <2>5 DEF OverlapInv, NoDuplicates
  <2>8. OpenTogether'
    <3>1. ASSUME NEW a \in Alerts, OpenAlert(a)' PROVE alert'[a].group # 0 /\ OpenGroup(alert[a].group)'
      <4>1. PICK h \in Groups : h = alert[a].group /\ h # 0 /\ OpenGroup(h) /\ h # g
        BY <2>4, <3>1 DEF OverlapInv, OpenTogether, TypeOK, AlertRow
      <4>2. alert'[a].group = h /\ OpenGroup(h)'
        BY <2>3, <2>5, <4>1
      <4> QED BY <4>1, <4>2
    <3>2. \A h \in Groups : OpenGroup(h)' => \E a \in Alerts : OpenAlert(a)' /\ alert'[a].group = h
      BY <2>3, <2>4, <2>5 DEF OverlapInv, OpenTogether
    <3>3. \A h \in Groups : group'[h].due # 0 => OpenGroup(h)'
      BY <2>1, <2>2, <2>5 DEF OverlapInv, OpenTogether
    <3> QED BY <3>1, <3>2, <3>3 DEF OpenTogether
  <2> QED BY <1>1, <2>6, <2>7, <2>8 DEF OverlapInv
<1> QED BY <1>2, <1>3

LEMMA InitOverlap == Init => OverlapInv
<1> SUFFICES ASSUME Init PROVE OverlapInv
  OBVIOUS
<1>1. /\ \A a \in Alerts : alert[a] = NoAlert
      /\ \A g \in Groups : group[g] = NoGroup
      /\ \A p \in Procs : proc[p] = IdleProc
  BY DEF Init
<1>2. TypeOK
  BY InitAlert DEF AlertInv
<1>3. NoDuplicates /\ OpenTogether
  BY <1>1, Blanks DEF NoDuplicates, OpenTogether, OpenAlert, OpenGroup
<1>4. \A p \in Procs : HandlerOpen(p)
  BY <1>1, Blanks DEF HandlerOpen
<1> QED BY <1>2, <1>3, <1>4 DEF OverlapInv

LEMMA OverlapStep ==
  ASSUME Reopen, AloneActs, "resolved" \notin Payloads, OverlapInv, [Next]_vars
  PROVE  OverlapInv'
<1>1. ASSUME NEW i \in Intakes, IntakeStep(i) PROVE OverlapInv'
  <2>0. i \in Procs
    BY Numbers
  <2>1. CASE FindGroup(i)
    BY <2>1, OverlapFind
  <2>2. CASE UpdateAlert(i) \/ SaveGroup(i) \/ SaveAlert(i)
    BY <2>2, OverlapExisting
  <2>3. CASE Count(i) \/ Recalculate(i)
    BY <2>0, <2>3, OverlapCount
  <2>4. CASE Enqueue(i)
    BY <2>4, OverlapEnqueue
  <2>5. CASE Notice(i) \/ EnqueueNew(i)
    <3>1. Return(i)
      BY <2>5 DEF Notice, EnqueueNew
    <3> QED BY <2>0, <2>5, <3>1, OverlapLast
  <2>6. CASE AddChild(i) \/ AddChildLocked(i)
    BY <2>6, OverlapAdd
  <2> QED BY <1>1, <2>1, <2>2, <2>3, <2>4, <2>5, <2>6 DEF IntakeStep
<1>2. ASSUME NEW w \in {Queue, Reminder}, Send(w) \/ Deliver(w) \/ DeliverRaises(w) \/ Mark(w)
      PROVE  OverlapInv'
  <2>0. w \in Procs
    BY Numbers
  <2>1. CASE DeliverRaises(w) \/ Mark(w)
    <3>1. Return(w)
      BY <2>1 DEF DeliverRaises, Mark
    <3> QED BY <2>0, <2>1, <3>1, OverlapLast
  <2> QED BY <1>2, <2>1, OverlapSend
<1>3. CASE QueueStep
  <2>0. Queue \in Procs
    BY Numbers
  <2>1. CASE Clear
    <3>1. Return(Queue)
      BY <2>1 DEF Clear, NextGroup, Return
    <3> QED BY <2>0, <2>1, <3>1, OverlapLast
  <2>2. CASE Count(Queue) \/ Recalculate(Queue)
    BY <2>0, <2>2, OverlapCount
  <2> QED BY <1>2, <1>3, <2>1, <2>2, OverlapQueue DEF QueueStep
<1>4. CASE ReminderStep
  BY <1>2, <1>4, OverlapQueue DEF ReminderStep, ReminderRuns
<1>5. CASE UNCHANGED vars
  <2>1. AlertsKept /\ GroupsKept /\ proc' = [proc EXCEPT ![Queue] = proc[Queue]] /\ Queue \in Procs
    BY <1>5, RowsKept, Numbers DEF vars, OverlapInv, TypeOK
  <2>2. HandlerOpen(Queue)'
    <3>1. HandlerOpen(Queue)
      BY <2>1, OverlapHandler
    <3> QED BY <1>5, <3>1 DEF vars, HandlerOpen, OpenAlert, OpenGroup
  <2> QED BY <1>5, <2>1, <2>2, OverlapMove, OverlapHandler DEF vars
<1> QED BY <1>1, <1>3, <1>4, <1>5, OverlapArrive, OverlapOperator DEF Next

\* lock_grouping_identity: with a reopen policy, any number of firing payloads
\* and workers that overlap leave one open alert per key and one open group,
\* although each of them saves rows it read earlier.  Alerts are resolved by
\* operators, who act between handlers.
THEOREM NoDuplicatesHolds ==
  ASSUME Reopen, AloneActs, "resolved" \notin Payloads
  PROVE  Spec => []NoDuplicates
<1>1. OverlapInv /\ [Next]_vars => OverlapInv'
  BY OverlapStep
<1>2. OverlapInv => NoDuplicates
  BY DEF OverlapInv
<1> QED BY <1>1, <1>2, InitOverlap, PTL DEF Spec
=============================================================================
