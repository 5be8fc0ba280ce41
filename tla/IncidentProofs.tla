--------------------------- MODULE IncidentProofs ---------------------------
(***************************************************************************)
(* For every number of incidents, groups, links and requests: the locks of *)
(* link_alert_group keep the links unique and a group out of two open      *)
(* incidents, a status changes along STATUS_TRANSITIONS although it is     *)
(* validated before the transaction, a reopened group resumes the incident *)
(* it is linked to, and requests deadlock only over a link found late.     *)
(***************************************************************************)
EXTENDS Incident, TLAPS, WellFoundedInduction

-----------------------------------------------------------------------------
(* Rows *)

\* ORDER BY id DESC LIMIT 1: a set of links has a newest one.
LEMMA NewestLink ==
  ASSUME NEW S \in SUBSET Links, S # {}
  PROVE  NewestOf(S) \in S /\ NewestOf(S) # 0
<1> DEFINE T == {n \in Nat : MaxLinks - n \in S}
<1>0. MaxLinks \in Nat /\ \A l \in S : l \in Nat /\ l <= MaxLinks /\ l # 0
  BY IncidentAssumption DEF Links
<1>1. T \in SUBSET Nat /\ T # {}
  <2>1. PICK l \in S : TRUE
    OBVIOUS
  <2>2. MaxLinks - l \in Nat /\ MaxLinks - (MaxLinks - l) = l
    BY <1>0
  <2> QED BY <2>2, <2>1
<1>2. PICK n \in T : \A k \in T : <<k, n>> \notin OpToRel(<, Nat)
  BY <1>1, WFMin, NatLessThanWellFounded, Zenon
<1>3. ASSUME NEW k \in T, k < n PROVE <<k, n>> \in OpToRel(<, Nat)
  BY <1>3, <1>1, Zenon DEF OpToRel
<1>4. \A k \in T : ~ (k < n)
  BY <1>2, <1>3, Zenon
<1>5. MaxLinks - n \in S
  BY <1>2
<1>6. ASSUME NEW m \in S PROVE m <= MaxLinks - n
  <2>1. MaxLinks - m \in Nat /\ MaxLinks - (MaxLinks - m) = m /\ m \in Nat
    BY <1>0
  <2>2. MaxLinks - m \in T
    BY <2>1
  <2>3. ~ (MaxLinks - m < n) /\ n \in Nat
    BY <2>2, <1>4, <1>1
  <2> QED BY <2>1, <2>3, <1>0
<1>7. \E l \in S : \A m \in S : m <= l
  BY <1>5, <1>6
<1> QED BY <1>7, <1>0 DEF NewestOf

\* active_link_for_group finds a link exactly when the group has an open one.
LEMMA ActiveLink ==
  ASSUME NEW g
  PROVE  /\ ActiveLinkForGroup(g) = 0 <=> OpenLinks(g) = {}
         /\ ActiveLinkForGroup(g) # 0 => ActiveLinkForGroup(g) \in OpenLinks(g)
<1>1. OpenLinks(g) \in SUBSET Links
  BY DEF OpenLinks
<1>2. ActiveLinkForGroup(g) = NewestOf(OpenLinks(g))
  BY DEF ActiveLinkForGroup, OpenLinks
<1>3. CASE OpenLinks(g) = {}
  BY <1>2, <1>3 DEF NewestOf
<1>4. CASE OpenLinks(g) # {}
  BY <1>1, <1>2, <1>4, NewestLink
<1> QED BY <1>3, <1>4

\* STATUS_TRANSITIONS: every target is a status, and only a closed incident
\* leaves the terminal statuses.
LEMMA Transitions ==
  ASSUME NEW s \in Statuses, NEW t \in StatusTransitions[s]
  PROVE  t \in Statuses /\ (s \in TerminalStatuses => s = "closed")
BY DEF Statuses, StatusTransitions, TerminalStatuses

\* The statuses, and investigating as one a reopened alert group leads to.
LEMMA StatusNames ==
  /\ "absent" \notin Statuses
  /\ "declared" \in Statuses /\ "investigating" \in Statuses
  /\ "primary" \notin Statuses /\ "related" \notin Statuses /\ "reopen" \notin Statuses /\ "none" \notin Statuses
BY DEF Statuses, StatusTransitions

\* An idle request, an unused incident and an unused link are well typed.
LEMMA Blanks == /\ Idle \in RequestState /\ Idle.pc = "idle" /\ Idle.incident = 0 /\ Idle.linked = 0
                /\ NoIncident \in IncidentRow
                /\ NoLink \in LinkRow
<1>1. (CHOOSE g \in Groups : TRUE) \in Groups
  BY IncidentAssumption
<1> QED BY <1>1, StatusNames DEF Idle, RequestState, NoIncident, IncidentRow, NoLink, LinkRow

-----------------------------------------------------------------------------
(* The invariant *)

LEMMA InitIncident == Init => IncidentInv
<1> SUFFICES ASSUME Init PROVE IncidentInv
  OBVIOUS
<1>1. TypeOK
  BY Blanks DEF Init, TypeOK
<1>2. \A l \in Links : ~Active(l)
  BY DEF Init, Active, NoLink
<1>3. LinksUnique /\ OneOpenUnlessReopened /\ LinksResolve
  BY <1>2 DEF LinksUnique, OneOpenUnlessReopened, LinksResolve, OpenLinks
<1>4. VersionsKnown
  BY DEF Init, VersionsKnown, NoIncident
<1>5. LocksHeld /\ OnlyLocks /\ InsertAllowed /\ LinkRead
  BY Blanks, IncidentAssumption DEF Init, LocksHeld, HoldsLocks, OnlyLocks, InsertAllowed, LinkRead
<1> QED BY <1>1, <1>3, <1>4, <1>5 DEF IncidentInv

\* Links and incidents that a step leaves alone keep their invariants, whatever
\* the requests do.
LEMMA RowsKept ==
  ASSUME IncidentInv, UNCHANGED <<incident, link, reopened>>
  PROVE  LinksUnique' /\ OneOpenUnlessReopened' /\ LinksResolve'
BY DEF IncidentInv, LinksUnique, OneOpenUnlessReopened, LinksResolve, OpenLinks, Active, Open

\* What a change of incidents may do: none disappears, and one that is opened
\* again is remembered.
Lawful ==
  /\ reopened \subseteq reopened' /\ reopened' \subseteq Incidents
  /\ incident' \in [Incidents -> IncidentRow]
  /\ \A i \in Incidents : incident[i].status # "absent" =>
       incident'[i].status # "absent" /\ (Open(i)' => Open(i) \/ i \in reopened')

\* Such a change leaves the links as good as they were.
LEMMA LawfulChange ==
  ASSUME IncidentInv, Lawful, UNCHANGED link
  PROVE  /\ LinksUnique' /\ OneOpenUnlessReopened' /\ LinksResolve'
         /\ \A g \in Groups : \A l \in OpenLinks(g)' : l \in OpenLinks(g) \/ link[l].incident \in reopened'
<1>1. LinksUnique'
  BY DEF IncidentInv, LinksUnique, Active
<1>2. LinksResolve'
  BY DEF IncidentInv, TypeOK, LinkRow, LinksResolve, Active, Lawful
<1>3. ASSUME NEW g \in Groups, NEW l \in OpenLinks(g)'
      PROVE  l \in OpenLinks(g) \/ link[l].incident \in reopened'
  <2>1. l \in Links /\ Active(l) /\ link[l].group = g /\ Open(link[l].incident)'
    BY <1>3 DEF OpenLinks, Active
  <2>2. link[l].incident \in Incidents /\ incident[link[l].incident].status # "absent"
    BY <2>1 DEF IncidentInv, TypeOK, LinkRow, LinksResolve
  <2> QED BY <2>1, <2>2 DEF Lawful, OpenLinks, Open
<1>4. OneOpenUnlessReopened'
  <2> SUFFICES ASSUME NEW g \in Groups, NEW l \in OpenLinks(g)', NEW m \in OpenLinks(g)'
               PROVE  \/ link[l].incident = link[m].incident
                      \/ {link[l].incident, link[m].incident} \cap reopened' # {}
    BY DEF OneOpenUnlessReopened
  <2>1. CASE l \in OpenLinks(g) /\ m \in OpenLinks(g)
    BY <2>1 DEF IncidentInv, OneOpenUnlessReopened, Lawful
  <2>2. CASE link[l].incident \in reopened' \/ link[m].incident \in reopened'
    BY <2>2
  <2> QED BY <1>3, <2>1, <2>2
<1> QED BY <1>1, <1>2, <1>3, <1>4

\* A change that leaves the rows alone is lawful.
LEMMA NoChangeLawful ==
  ASSUME IncidentInv, UNCHANGED <<incident, reopened>>
  PROVE  Lawful
BY DEF IncidentInv, TypeOK, Lawful, Open

\* What a reopen has read stays as good under such a change.
LEMMA LinkReadKept ==
  ASSUME IncidentInv, Lawful, UNCHANGED link,
         \A q \in Requests : proc'[q].pc \in {"lockLinked", "commit"} =>
           /\ proc[q].pc \in {"lockLinked", "commit"}
           /\ proc'[q].group = proc[q].group /\ proc'[q].linked = proc[q].linked
  PROVE  LinkRead'
<1> SUFFICES ASSUME NEW q \in Requests, proc'[q].pc \in {"lockLinked", "commit"},
                    NEW l \in OpenLinks(proc[q].group)'
             PROVE  \/ link[l].incident = proc[q].linked
                    \/ {link[l].incident, proc[q].linked} \cap reopened' # {}
  BY DEF LinkRead, OpenLinks, Active, Open
<1>1. proc[q].group \in Groups
  BY DEF IncidentInv, TypeOK, RequestState
<1>2. l \in OpenLinks(proc[q].group) \/ link[l].incident \in reopened'
  BY <1>1, LawfulChange
<1>3. CASE l \in OpenLinks(proc[q].group)
  BY <1>3 DEF IncidentInv, LinkRead, Lawful
<1> QED BY <1>2, <1>3

\* A request that ends, with its locks, disturbs no other.
LEMMA EndStep ==
  ASSUME IncidentInv, NEW p \in Requests, proc[p].pc # "transition",
         lock' = Released(p), End(p), UNCHANGED <<incident, link, group, reopened>>
  PROVE  IncidentInv'
<1> USE Blanks, IncidentAssumption
<1>1. TypeOK'
  BY DEF IncidentInv, TypeOK, End, Released
<1>2. LinksUnique' /\ OneOpenUnlessReopened' /\ LinksResolve'
  BY RowsKept
<1>3. VersionsKnown'
  BY DEF IncidentInv, TypeOK, IncidentRow, VersionsKnown, End
<1>4. LocksHeld'
  <2> SUFFICES ASSUME NEW q \in Requests, q # p, proc'[q] = proc[q]
               PROVE  HoldsLocks(q)'
    BY DEF LocksHeld, HoldsLocks, End, IncidentInv, TypeOK
  <2> QED BY DEF IncidentInv, TypeOK, RequestState, LocksHeld, HoldsLocks, Released
<1>5. InsertAllowed'
  BY DEF IncidentInv, TypeOK, InsertAllowed, End, LinkedTo, HasPrimary, OpenLinks, Active, Open
<1>6. OnlyLocks'
  BY DEF IncidentInv, TypeOK, End, OnlyLocks, HoldsOnly, Released
<1>7. LinkRead'
  BY NoChangeLawful, LinkReadKept DEF IncidentInv, TypeOK, End
<1> QED BY <1>1, <1>2, <1>3, <1>4, <1>5, <1>6, <1>7 DEF IncidentInv

\* What a request may have read when it begins its transaction.
Begun(p, r) ==
  /\ proc[p].pc = "idle" /\ proc' = [proc EXCEPT ![p] = r]
  /\ UNCHANGED <<incident, link, group, lock, reopened>>
  /\ r.linked = 0 /\ (r.incident # 0 => incident[r.incident].status # "absent")
  /\ \/ r.pc = "lockIncident" /\ r.incident # 0 /\ r.arg \in {"primary", "related", "reopen"}
     \/ r.pc = "lockGroup" /\ r.incident = 0 /\ r.arg = "reopen"

\* The incident a group is linked to exists.
LEMMA LinkedRow ==
  ASSUME IncidentInv, NEW g
  PROVE  /\ LinkedIncident(g) \in Incidents \cup {0}
         /\ LinkedIncident(g) # 0 => incident[LinkedIncident(g)].status # "absent"
         /\ LinkedIncident(g) = 0 => OpenLinks(g) = {}
         /\ LinkedIncident(g) # 0 => \E l \in OpenLinks(g) : link[l].incident = LinkedIncident(g)
<1> DEFINE l == ActiveLinkForGroup(g)
<1>1. CASE l = 0
  BY <1>1, ActiveLink DEF LinkedIncident
<1>2. CASE l # 0
  <2>1. l \in OpenLinks(g) /\ l \in Links /\ Active(l) /\ LinkedIncident(g) = link[l].incident
    BY <1>2, ActiveLink DEF OpenLinks, LinkedIncident
  <2> HIDE DEF l
  <2>2. link[l].incident \in Incidents /\ incident[link[l].incident].status # "absent" /\ link[l].incident # 0
    BY <2>1 DEF IncidentInv, LinksResolve, TypeOK, LinkRow
  <2> QED BY <2>1, <2>2
<1> QED BY <1>1, <1>2

\* link_alert_group and restart_resolved_group read before their transaction.
LEMMA BeginStep ==
  ASSUME IncidentInv, NEW p \in Requests, NEW g \in Groups,
         BeginReopen(p, g) \/ \E i \in Incidents, relation \in {"primary", "related"} : BeginLink(p, i, g, relation)
  PROVE  IncidentInv'
<1>1. ASSUME BeginReopen(p, g) PROVE \E r \in RequestState : Begun(p, r)
  <2> DEFINE i == LinkedIncident(g)
             r == [Idle EXCEPT !.pc = IF i = 0 THEN "lockGroup" ELSE "lockIncident",
                               !.group = g, !.arg = "reopen", !.incident = i]
  <2>1. i \in Incidents \cup {0} /\ (i # 0 => incident[i].status # "absent")
    BY LinkedRow
  <2> HIDE DEF i
  <2>2. /\ r \in RequestState /\ r.linked = 0 /\ r.incident = i /\ r.arg = "reopen"
        /\ r.pc = IF i = 0 THEN "lockGroup" ELSE "lockIncident"
    BY <2>1, Blanks DEF RequestState
  <2>3. Begun(p, r)
    BY <1>1, <2>1, <2>2 DEF BeginReopen, Begun, i
  <2> QED BY <2>2, <2>3
<1>2. ASSUME NEW i \in Incidents, NEW relation \in {"primary", "related"}, BeginLink(p, i, g, relation)
      PROVE  \E r \in RequestState : Begun(p, r)
  <2> DEFINE r == [Idle EXCEPT !.pc = "lockIncident", !.incident = i, !.group = g, !.arg = relation]
  <2>1. r \in RequestState /\ r.linked = 0 /\ r.incident = i /\ r.arg = relation /\ r.pc = "lockIncident"
    BY Blanks DEF RequestState
  <2>2. /\ proc[p].pc = "idle" /\ proc' = [proc EXCEPT ![p] = r]
        /\ UNCHANGED <<incident, link, group, lock, reopened>> /\ incident[i].status # "absent"
    BY <1>2 DEF BeginLink, Open
  <2>3. i # 0
    BY IncidentAssumption DEF Incidents
  <2> HIDE DEF r
  <2>4. Begun(p, r)
    BY <2>1, <2>2, <2>3 DEF Begun
  <2> QED BY <2>1, <2>4
<1>3. PICK r \in RequestState : Begun(p, r)
  BY <1>1, <1>2
<1>4. TypeOK'
  BY <1>3 DEF IncidentInv, TypeOK, Begun
<1>5. LinksUnique' /\ OneOpenUnlessReopened' /\ LinksResolve'
  BY <1>3, RowsKept DEF Begun
<1>6. VersionsKnown'
  BY <1>3 DEF IncidentInv, TypeOK, IncidentRow, VersionsKnown, Begun
<1>7. LocksHeld'
  BY <1>3 DEF IncidentInv, TypeOK, LocksHeld, HoldsLocks, Begun
<1>8. InsertAllowed'
  BY <1>3 DEF IncidentInv, TypeOK, InsertAllowed, Begun, LinkedTo, HasPrimary, OpenLinks, Active, Open
<1>9. OnlyLocks'
  BY <1>3 DEF IncidentInv, TypeOK, OnlyLocks, HoldsOnly, Begun
<1>10. LinkRead'
  BY <1>3, NoChangeLawful, LinkReadKept DEF IncidentInv, TypeOK, Begun
<1> QED BY <1>4, <1>5, <1>6, <1>7, <1>8, <1>9, <1>10 DEF IncidentInv

\* A request that goes on, taking the lock of x or none.
Advances(p, x, pc) ==
  /\ proc' = [proc EXCEPT ![p].pc = pc]
  /\ UNCHANGED <<incident, link, group, reopened>>
  /\ FreeFor(p, x) /\ lock' = Locked(p, x)

\* SELECT ... FOR UPDATE of the incident and of the group.
LEMMA LockStep ==
  ASSUME IncidentInv, NEW p \in Requests,
         \/ LockIncident(p) \/ LockGroup(p) \/ LockLinked(p)
         \/ Restart(p) /\ group[proc[p].group] = "resolved"
  PROVE  IncidentInv'
<1> USE IncidentAssumption
<1>1. PICK x \in Incidents \cup Groups, pc \in {"lockGroup", "check", "resume", "commit"} :
        /\ Advances(p, x, pc)
        /\ pc = "lockGroup" => proc[p].pc = "lockIncident" /\ x = proc[p].incident
        /\ pc \in {"check", "resume"} => proc[p].pc = "lockGroup" /\ x = proc[p].group
        /\ pc = "check" => proc[p].arg # "reopen"
        /\ pc = "resume" => proc[p].arg = "reopen" /\ group[x] = "resolved"
        /\ pc = "commit" => proc[p].pc = "lockLinked" /\ x = proc[p].linked
  <2>1. /\ proc[p].group \in Groups /\ proc[p].incident \in Incidents \cup {0}
        /\ proc[p].linked \in Incidents \cup {0}
        /\ proc[p].pc = "lockIncident" => proc[p].incident # 0
        /\ proc[p].pc = "lockLinked" => proc[p].linked # 0
    BY DEF IncidentInv, TypeOK, RequestState, LocksHeld, HoldsLocks
  <2>2. CASE LockIncident(p)
    BY <2>1, <2>2 DEF LockIncident, Advances
  <2>3. CASE LockGroup(p)
    BY <2>1, <2>3 DEF LockGroup, Advances
  <2>4. CASE LockLinked(p)
    BY <2>1, <2>4 DEF LockLinked, Advances
  <2>5. CASE Restart(p) /\ group[proc[p].group] = "resolved"
    BY <2>1, <2>5 DEF Restart, Advances
  <2> QED BY <2>2, <2>3, <2>4, <2>5
<1>2. TypeOK'
  BY <1>1 DEF IncidentInv, TypeOK, Advances, Locked, RequestState
<1>3. LinksUnique' /\ OneOpenUnlessReopened' /\ LinksResolve'
  BY <1>1, RowsKept DEF Advances
<1>4. VersionsKnown'
  BY <1>1 DEF IncidentInv, TypeOK, IncidentRow, RequestState, VersionsKnown, Advances
<1>5. LocksHeld'
  <2> SUFFICES ASSUME NEW q \in Requests PROVE HoldsLocks(q)'
    BY DEF LocksHeld
  <2>1. CASE q = p
    BY <1>1, <2>1 DEF IncidentInv, TypeOK, RequestState, LocksHeld, HoldsLocks, Advances, Locked, FreeFor
  <2>2. CASE q # p
    BY <1>1, <2>2 DEF IncidentInv, TypeOK, RequestState, LocksHeld, HoldsLocks, Advances, Locked, FreeFor
  <2> QED BY <2>1, <2>2
<1>6. InsertAllowed'
  BY <1>1 DEF IncidentInv, TypeOK, RequestState, InsertAllowed, Advances, LinkedTo, HasPrimary, OpenLinks, Active, Open
<1>7. OnlyLocks'
  <2> SUFFICES ASSUME NEW q \in Requests, NEW y \in Incidents \cup Groups, lock'[y] = q
               PROVE  HoldsOnly(q, y)'
    BY DEF OnlyLocks
  <2>1. CASE q = p /\ y = x
    BY <1>1, <2>1 DEF IncidentInv, TypeOK, RequestState, HoldsOnly, Advances
  <2>2. CASE q = p /\ y # x
    BY <1>1, <2>2 DEF IncidentInv, TypeOK, RequestState, OnlyLocks, HoldsOnly, Advances, Locked
  <2>3. CASE q # p
    BY <1>1, <2>3 DEF IncidentInv, TypeOK, RequestState, OnlyLocks, HoldsOnly, Advances, Locked
  <2> QED BY <2>1, <2>2, <2>3
<1>8. LinkRead'
  BY <1>1, NoChangeLawful, LinkReadKept DEF IncidentInv, TypeOK, RequestState, Advances
<1> QED BY <1>2, <1>3, <1>4, <1>5, <1>6, <1>7, <1>8 DEF IncidentInv

\* The tests under the locks.
LEMMA CheckStep ==
  ASSUME IncidentInv, NEW p \in Requests, CheckLink(p)
  PROVE  IncidentInv'
<1>1. CASE lock' = Released(p) /\ End(p)
  BY <1>1, EndStep DEF CheckLink
<1>2. ASSUME MayLink(proc[p].incident, proc[p].group, proc[p].arg), UNCHANGED lock,
             proc' = [proc EXCEPT ![p].pc = "insert"]
      PROVE  IncidentInv'
  <2> USE <1>2 DEF CheckLink
  <2>1. TypeOK'
    BY DEF IncidentInv, TypeOK, RequestState
  <2>2. LinksUnique' /\ OneOpenUnlessReopened' /\ LinksResolve'
    BY RowsKept
  <2>3. VersionsKnown'
    BY DEF IncidentInv, TypeOK, IncidentRow, RequestState, VersionsKnown
  <2>4. LocksHeld'
    BY DEF IncidentInv, TypeOK, RequestState, LocksHeld, HoldsLocks
  <2>5. OpenLinks(proc[p].group) = {}
    <3>1. CASE ActiveLinkForGroup(proc[p].group) = 0
      BY <3>1, ActiveLink
    <3>2. CASE ActiveLinkForGroup(proc[p].group) # 0
      BY <3>2, ActiveLink DEF MayLink, LinkedTo, OpenLinks
    <3> QED BY <3>1, <3>2
  <2>6. InsertAllowed'
    <3> SUFFICES ASSUME NEW q \in Requests, proc'[q].pc = "insert"
                 PROVE  /\ ~LinkedTo(proc[q].incident, proc[q].group)
                        /\ ~(proc[q].arg = "primary" /\ HasPrimary(proc[q].incident))
                        /\ \A l \in OpenLinks(proc[q].group) : link[l].incident \in reopened
      BY DEF IncidentInv, TypeOK, RequestState, InsertAllowed, LinkedTo, HasPrimary, OpenLinks, Active, Open
    <3>1. CASE q = p
      BY <3>1, <2>5 DEF MayLink
    <3>2. CASE q # p
      BY <3>2 DEF IncidentInv, InsertAllowed, TypeOK
    <3> QED BY <3>1, <3>2
  <2>7. OnlyLocks'
    BY DEF IncidentInv, TypeOK, RequestState, OnlyLocks, HoldsOnly
  <2>8. LinkRead'
    BY NoChangeLawful, LinkReadKept DEF IncidentInv, TypeOK, RequestState
  <2> QED BY <2>1, <2>2, <2>3, <2>4, <2>6, <2>7, <2>8 DEF IncidentInv
<1> QED BY <1>1, <1>2 DEF CheckLink

\* create_incident, update_incident and assign_incident.
LEMMA IncidentRowStep ==
  ASSUME IncidentInv, NEW i \in Incidents, CreateIncident(i) \/ UpdateIncident(i)
  PROVE  IncidentInv'
<1>1. PICK r \in IncidentRow :
        /\ incident' = [incident EXCEPT ![i] = r] /\ UNCHANGED <<link, group, lock, proc, reopened>>
        /\ r.current = {}
        /\ \/ incident[i].status = "absent" /\ r.status = "declared"
           \/ incident[i].status # "absent" /\ r.status = incident[i].status
  <2>1. CASE CreateIncident(i)
    <3> DEFINE r == [incident[i] EXCEPT !.status = "declared"]
    <3>1. incident[i].status = "absent" /\ incident[i].current = {} /\ incident[i] \in IncidentRow
      BY <2>1 DEF CreateIncident, IsNextIncident, IncidentInv, TypeOK, VersionsKnown
    <3>2. incident' = [incident EXCEPT ![i] = r] /\ r \in IncidentRow /\ r.status = "declared" /\ r.current = {}
      BY <2>1, <3>1, StatusNames DEF CreateIncident, IncidentInv, TypeOK, IncidentRow
    <3> HIDE DEF r
    <3> QED BY <2>1, <3>1, <3>2 DEF CreateIncident
  <2>2. CASE UpdateIncident(i)
    <3> DEFINE r == [incident[i] EXCEPT !.current = {}]
    <3>1. incident[i] \in IncidentRow /\ incident[i].status # "absent"
      BY <2>2 DEF UpdateIncident, IncidentInv, TypeOK
    <3>2. /\ incident' = [incident EXCEPT ![i] = r] /\ r \in IncidentRow
          /\ r.status = incident[i].status /\ r.current = {}
      BY <2>2, <3>1 DEF UpdateIncident, IncidentInv, TypeOK, IncidentRow
    <3> HIDE DEF r
    <3> QED BY <2>2, <3>1, <3>2 DEF UpdateIncident
  <2> QED BY <2>1, <2>2
<1>2. TypeOK'
  BY <1>1 DEF IncidentInv, TypeOK
<1>3. Lawful
  BY <1>1 DEF Lawful, IncidentInv, TypeOK, IncidentRow, Open
<1>4. LinksUnique' /\ OneOpenUnlessReopened' /\ LinksResolve'
  BY <1>1, <1>3, LawfulChange
<1>5. VersionsKnown'
  BY <1>1 DEF IncidentInv, TypeOK, IncidentRow, VersionsKnown
<1>6. LocksHeld'
  BY <1>1 DEF IncidentInv, TypeOK, IncidentRow, RequestState, LocksHeld, HoldsLocks
<1>7. InsertAllowed'
  BY <1>1, <1>3, LawfulChange
     DEF IncidentInv, TypeOK, RequestState, InsertAllowed, LinkedTo, HasPrimary, Active, Lawful
<1>8. OnlyLocks' /\ LinkRead'
  BY <1>1, <1>3, LinkReadKept DEF IncidentInv, OnlyLocks, HoldsOnly
<1> QED BY <1>2, <1>4, <1>5, <1>6, <1>7, <1>8 DEF IncidentInv

\* transition_incident reads the row and validates the status.
LEMMA BeginTransitionStep ==
  ASSUME IncidentInv, NEW c \in Requests, NEW i \in Incidents, NEW new \in Statuses, BeginTransition(c, i, new)
  PROVE  IncidentInv'
<1> DEFINE r == [Idle EXCEPT !.pc = "transition", !.incident = i, !.arg = new]
           row == [incident[i] EXCEPT !.current = @ \cup {c}]
<1>0. i # 0
  BY IncidentAssumption DEF Incidents
<1>1. r \in RequestState /\ r.pc = "transition" /\ r.incident = i /\ r.arg = new /\ r.linked = 0
  BY Blanks DEF RequestState
<1>2. proc' = [proc EXCEPT ![c] = r]
  BY DEF BeginTransition
<1>3. /\ row \in IncidentRow /\ row.status = incident[i].status /\ row.current = incident[i].current \cup {c}
      /\ incident' = [incident EXCEPT ![i] = row]
  BY DEF BeginTransition, IncidentInv, TypeOK, IncidentRow
<1>4. /\ proc[c].pc = "idle" /\ incident[i].status # "absent" /\ new \in StatusTransitions[incident[i].status]
      /\ UNCHANGED <<link, group, lock, reopened>>
  BY DEF BeginTransition
<1> HIDE DEF r, row
<1>5. TypeOK'
  BY <1>1, <1>2, <1>3, <1>4 DEF IncidentInv, TypeOK
<1>6. Lawful
  BY <1>3, <1>4 DEF Lawful, IncidentInv, TypeOK, Open
<1>7. LinksUnique' /\ OneOpenUnlessReopened' /\ LinksResolve'
  BY <1>4, <1>6, LawfulChange
<1>8. VersionsKnown'
  <2> SUFFICES ASSUME NEW j \in Incidents, NEW d \in incident'[j].current
               PROVE  /\ incident'[j].status # "absent"
                      /\ proc'[d].pc = "transition" /\ proc'[d].incident = j
                      /\ proc'[d].arg \in StatusTransitions[incident'[j].status]
    BY DEF VersionsKnown
  <2>0. d \in Requests
    BY <1>5 DEF TypeOK, IncidentRow
  <2>1. CASE d = c /\ j = i
    BY <2>1, <1>1, <1>2, <1>3, <1>4 DEF IncidentInv, TypeOK
  <2>2. CASE ~(d = c /\ j = i)
    BY <2>0, <2>2, <1>1, <1>2, <1>3, <1>4 DEF IncidentInv, TypeOK, VersionsKnown
  <2> QED BY <2>1, <2>2
<1>9. LocksHeld'
  <2> SUFFICES ASSUME NEW q \in Requests PROVE HoldsLocks(q)'
    BY DEF LocksHeld
  <2>1. CASE q = c
    BY <2>1, <1>0, <1>1, <1>2, <1>3, <1>4 DEF IncidentInv, TypeOK, HoldsLocks
  <2>2. CASE q # c
    BY <2>2, <1>2, <1>3, <1>4 DEF IncidentInv, TypeOK, RequestState, LocksHeld, HoldsLocks
  <2> QED BY <2>1, <2>2
<1>10. InsertAllowed'
  BY <1>1, <1>2, <1>4, <1>6, LawfulChange
     DEF IncidentInv, TypeOK, RequestState, InsertAllowed, LinkedTo, HasPrimary, Active, Lawful
<1>11. OnlyLocks'
  BY <1>1, <1>2, <1>4 DEF IncidentInv, TypeOK, OnlyLocks, HoldsOnly
<1>12. LinkRead'
  BY <1>1, <1>2, <1>4, <1>6, LinkReadKept DEF IncidentInv, TypeOK
<1> QED BY <1>5, <1>7, <1>8, <1>9, <1>10, <1>11, <1>12 DEF IncidentInv

\* compare_and_swap on row_version.
LEMMA TransitionStep ==
  ASSUME IncidentInv, NEW c \in Requests, Transition(c)
  PROVE  IncidentInv'
<1> USE Blanks
<1>1. PICK i \in Incidents : i = proc[c].incident /\ i # 0
  BY DEF Transition, IncidentInv, LocksHeld, HoldsLocks, TypeOK, RequestState
<1>2. proc[c].pc = "transition" /\ End(c) /\ UNCHANGED <<link, group, lock>>
  BY DEF Transition
<1>3. /\ \/ UNCHANGED <<incident, reopened>>
         \/ /\ incident' = [incident EXCEPT ![i] = [status |-> proc[c].arg, current |-> {}]]
            /\ reopened' = IF incident[i].status = "closed" THEN reopened \cup {i} ELSE reopened
            /\ proc[c].arg \in StatusTransitions[incident[i].status]
            /\ proc[c].arg \in Statuses
            /\ incident[i].status \in TerminalStatuses => incident[i].status = "closed"
      /\ \A j \in Incidents : c \notin incident'[j].current
  <2>1. CASE Matches(c, i)
    <3>1. /\ incident[i].status \in Statuses
          /\ proc[c].arg \in StatusTransitions[incident[i].status]
      BY <2>1 DEF Matches, IncidentInv, TypeOK, IncidentRow, VersionsKnown
    <3>2. \A j \in Incidents : j # i => c \notin incident[j].current
      BY <1>1 DEF IncidentInv, VersionsKnown
    <3>3. /\ incident' = [incident EXCEPT ![i] = [status |-> proc[c].arg, current |-> {}]]
          /\ reopened' = IF incident[i].status = "closed" THEN reopened \cup {i} ELSE reopened
      BY <1>1, <2>1 DEF Transition, Swapped
    <3>4. \A j \in Incidents : c \notin incident'[j].current
      BY <3>2, <3>3 DEF IncidentInv, TypeOK
    <3> QED BY <3>1, <3>3, <3>4, Transitions
  <2>2. CASE ~Matches(c, i)
    BY <1>1, <2>2 DEF Transition, Matches, IncidentInv, VersionsKnown
  <2> QED BY <2>1, <2>2
<1>4. TypeOK'
  BY <1>2, <1>3, SMTT(30) DEF IncidentInv, TypeOK, IncidentRow, End
<1>5. Lawful
  BY <1>3, <1>4, StatusNames DEF Lawful, IncidentInv, TypeOK, IncidentRow, Open
<1>6. LinksUnique' /\ OneOpenUnlessReopened' /\ LinksResolve'
  BY <1>2, <1>5, LawfulChange
<1>7. VersionsKnown'
  BY <1>2, <1>3, <1>4 DEF IncidentInv, TypeOK, IncidentRow, VersionsKnown, End
<1>8. LocksHeld'
  BY <1>2, <1>3, StatusNames DEF IncidentInv, TypeOK, RequestState, LocksHeld, HoldsLocks, End
<1>9. InsertAllowed'
  BY <1>2, <1>5, LawfulChange
     DEF IncidentInv, TypeOK, RequestState, InsertAllowed, LinkedTo, HasPrimary, Active, Lawful, End
<1>10. OnlyLocks'
  BY <1>2 DEF IncidentInv, TypeOK, OnlyLocks, HoldsOnly, End
<1>11. LinkRead'
  BY <1>2, <1>5, LinkReadKept DEF IncidentInv, TypeOK, End
<1> QED BY <1>4, <1>6, <1>7, <1>8, <1>9, <1>10, <1>11 DEF IncidentInv

\* The row a link is written to was not a link before.
LEMMA NextLinkUnused ==
  ASSUME NEW l \in Links, IsNextLink(l)
  PROVE  ~Active(l)
BY DEF IsNextLink, Active

\* create_incident_from_alert_group: no other incident of the group is open,
\* and the new incident has no link yet.
LEMMA CreateFromGroupStep ==
  ASSUME IncidentInv, NEW i \in Incidents, NEW g \in Groups, NEW l \in Links, CreateFromGroup(i, g, l)
  PROVE  IncidentInv'
<1> DEFINE row == [incident[i] EXCEPT !.status = "declared"]
           new == [incident |-> i, group |-> g, relation |-> "primary"]
<1>0. i # 0
  BY IncidentAssumption DEF Incidents
<1>1. incident[i].status = "absent" /\ incident[i].current = {} /\ lock[g] = Nobody
  BY DEF CreateFromGroup, IsNextIncident, IncidentInv, VersionsKnown
<1>2. /\ row \in IncidentRow /\ row.status = "declared" /\ row.current = {}
      /\ incident' = [incident EXCEPT ![i] = row]
  BY <1>1, StatusNames DEF CreateFromGroup, IncidentInv, TypeOK, IncidentRow
<1>3. /\ new \in LinkRow /\ new.incident = i /\ new.group = g /\ new.relation = "primary"
      /\ link' = [link EXCEPT ![l] = new]
      /\ UNCHANGED <<group, lock, proc, reopened>>
  BY DEF CreateFromGroup, LinkRow
<1> HIDE DEF row, new
<1>4. ~Active(l) /\ OpenLinks(g) = {}
  BY ActiveLink, NextLinkUnused DEF CreateFromGroup
<1>5. /\ \A m \in Links : m # l => link'[m] = link[m]
      /\ link'[l] = new
      /\ \A j \in Incidents : j # i => incident'[j] = incident[j]
      /\ incident'[i] = row
  BY <1>2, <1>3 DEF IncidentInv, TypeOK
<1>6. \A m \in Links : m # l /\ Active(m)' =>
        /\ Active(m) /\ link[m].incident \in Incidents /\ link[m].incident # i /\ link[m].incident # 0
        /\ incident[link[m].incident].status # "absent" /\ incident'[link[m].incident] = incident[link[m].incident]
  BY <1>1, <1>5 DEF IncidentInv, TypeOK, LinkRow, LinksResolve, Active
<1>7. TypeOK'
  BY <1>2, <1>3 DEF IncidentInv, TypeOK
<1>8. LinksUnique'
  BY <1>3, <1>5, <1>6 DEF IncidentInv, LinksUnique, Active
<1>9. LinksResolve'
  BY <1>0, <1>2, <1>3, <1>5, <1>6 DEF LinksResolve
<1>10. \A h \in Groups : \A m \in OpenLinks(h)' : m \in OpenLinks(h) \/ (m = l /\ h = g)
  BY <1>3, <1>5, <1>6 DEF OpenLinks, Open
<1>11. OneOpenUnlessReopened'
  <2> SUFFICES ASSUME NEW h \in Groups, NEW m \in OpenLinks(h)', NEW n \in OpenLinks(h)'
               PROVE  \/ link'[m].incident = link'[n].incident
                      \/ {link'[m].incident, link'[n].incident} \cap reopened # {}
    BY <1>3 DEF OneOpenUnlessReopened
  <2>1. CASE m = l \/ n = l
    <3>1. h = g
      BY <2>1, <1>4, <1>10 DEF OpenLinks
    <3> QED BY <3>1, <1>4, <1>10
  <2>2. CASE m # l /\ n # l
    <3>1. m \in OpenLinks(h) /\ n \in OpenLinks(h) /\ link'[m] = link[m] /\ link'[n] = link[n]
      BY <2>2, <1>10, <1>5 DEF OpenLinks
    <3> QED BY <3>1 DEF IncidentInv, OneOpenUnlessReopened
  <2> QED BY <2>1, <2>2
<1>12. VersionsKnown'
  BY <1>2, <1>3, <1>5 DEF IncidentInv, TypeOK, VersionsKnown
<1>13. LocksHeld'
  BY <1>2, <1>3, <1>5 DEF IncidentInv, TypeOK, RequestState, LocksHeld, HoldsLocks
<1>14. InsertAllowed'
  <2> SUFFICES ASSUME NEW q \in Requests, proc[q].pc = "insert",
                      NEW j, NEW h, j = proc'[q].incident, h = proc'[q].group
               PROVE  /\ ~LinkedTo(j, h)'
                      /\ ~(proc'[q].arg = "primary" /\ HasPrimary(j)')
                      /\ \A m \in OpenLinks(h)' : link'[m].incident \in reopened
    BY <1>3 DEF InsertAllowed
  <2>1. /\ j # i /\ h # g /\ h \in Groups /\ proc'[q] = proc[q]
        /\ ~LinkedTo(j, h)
        /\ ~(proc[q].arg = "primary" /\ HasPrimary(j))
        /\ \A m \in OpenLinks(h) : link[m].incident \in reopened
    BY <1>0, <1>1, <1>3, IncidentAssumption
       DEF IncidentInv, TypeOK, RequestState, LocksHeld, HoldsLocks, InsertAllowed
  <2>2. ~LinkedTo(j, h)'
    BY <1>3, <1>5, <1>6, <2>1 DEF LinkedTo
  <2>3. ~(proc'[q].arg = "primary" /\ HasPrimary(j)')
    BY <1>3, <1>5, <1>6, <2>1 DEF HasPrimary
  <2>4. \A m \in OpenLinks(h)' : link'[m].incident \in reopened
    BY <1>4, <1>5, <1>10, <2>1 DEF OpenLinks
  <2> QED BY <2>2, <2>3, <2>4
<1>15. OnlyLocks'
  BY <1>3 DEF IncidentInv, OnlyLocks, HoldsOnly
<1>16. LinkRead'
  <2> SUFFICES ASSUME NEW q \in Requests, proc[q].pc \in {"lockLinked", "commit"},
                      NEW h, h = proc[q].group, NEW m \in OpenLinks(h)'
               PROVE  \/ link'[m].incident = proc[q].linked
                      \/ {link'[m].incident, proc[q].linked} \cap reopened # {}
    BY <1>3 DEF LinkRead
  <2>1. h # g /\ h \in Groups
    BY <1>1, IncidentAssumption DEF IncidentInv, TypeOK, RequestState, LocksHeld, HoldsLocks
  <2>2. m \in OpenLinks(h) /\ link'[m] = link[m]
    BY <2>1, <1>4, <1>5, <1>10 DEF OpenLinks
  <2> QED BY <2>2 DEF IncidentInv, LinkRead
<1> QED BY <1>7, <1>8, <1>9, <1>11, <1>12, <1>13, <1>14, <1>15, <1>16 DEF IncidentInv

\* create_link and the commit: nobody else could link the incident or the group.
LEMMA MakeLinkStep ==
  ASSUME IncidentInv, NEW c \in Requests, NEW l \in Links, MakeLink(c, l)
  PROVE  IncidentInv'
<1> DEFINE new == [incident |-> proc[c].incident, group |-> proc[c].group, relation |-> proc[c].arg]
<1> USE Blanks
<1>1. PICK i \in Incidents, g \in Groups, a \in {"primary", "related"} :
        /\ i = proc[c].incident /\ g = proc[c].group /\ a = proc[c].arg
        /\ i # 0 /\ incident[i].status # "absent" /\ lock[i] = c /\ lock[g] = c
        /\ ~LinkedTo(i, g) /\ ~(a = "primary" /\ HasPrimary(i))
        /\ \A m \in OpenLinks(g) : link[m].incident \in reopened
  BY DEF MakeLink, IncidentInv, TypeOK, RequestState, LocksHeld, HoldsLocks, InsertAllowed
<1>2. /\ new \in LinkRow /\ new.incident = i /\ new.group = g /\ new.relation = a
      /\ link' = [link EXCEPT ![l] = new]
      /\ lock' = Released(c) /\ End(c) /\ proc[c].pc = "insert"
      /\ UNCHANGED <<incident, group, reopened>>
  BY <1>1 DEF MakeLink, LinkRow
<1> HIDE DEF new
<1>3. /\ ~Active(l)
      /\ \A m \in Links : m # l => link'[m] = link[m]
      /\ link'[l] = new
  BY <1>2, NextLinkUnused DEF MakeLink, IncidentInv, TypeOK
<1>4. /\ \A q \in Requests : q # c => proc'[q] = proc[q]
      /\ proc'[c] = Idle
  BY <1>2 DEF IncidentInv, TypeOK, End
<1>5. TypeOK'
  BY <1>2 DEF IncidentInv, TypeOK, End, Released
<1>6. LinksUnique'
  BY <1>1, <1>2, <1>3 DEF IncidentInv, LinksUnique, Active, LinkedTo, HasPrimary
<1>7. LinksResolve'
  BY <1>1, <1>2, <1>3 DEF IncidentInv, LinksResolve, Active
<1>8. \A h \in Groups : \A m \in OpenLinks(h)' : m \in OpenLinks(h) \/ (m = l /\ h = g)
  BY <1>2, <1>3 DEF OpenLinks, Open, Active
<1>9. OneOpenUnlessReopened'
  <2> SUFFICES ASSUME NEW h \in Groups, NEW m \in OpenLinks(h)', NEW n \in OpenLinks(h)'
               PROVE  \/ link'[m].incident = link'[n].incident
                      \/ {link'[m].incident, link'[n].incident} \cap reopened # {}
    BY <1>2 DEF OneOpenUnlessReopened
  <2>1. CASE m = l /\ n = l
    BY <2>1
  <2>2. CASE (m = l) # (n = l)
    <3>1. h = g
      BY <2>2, <1>3, <1>8 DEF OpenLinks
    <3>2. \A k \in OpenLinks(g)' : k # l => link'[k].incident \in reopened
      BY <1>1, <1>3, <1>8 DEF OpenLinks
    <3> QED BY <2>2, <3>1, <3>2
  <2>3. CASE m # l /\ n # l
    <3>1. m \in OpenLinks(h) /\ n \in OpenLinks(h) /\ link'[m] = link[m] /\ link'[n] = link[n]
      BY <2>3, <1>8, <1>3 DEF OpenLinks
    <3> QED BY <3>1 DEF IncidentInv, OneOpenUnlessReopened
  <2> QED BY <2>1, <2>2, <2>3
<1>10. VersionsKnown'
  BY <1>2, <1>4 DEF IncidentInv, TypeOK, IncidentRow, VersionsKnown
<1>11. LocksHeld'
  BY <1>2, <1>4, IncidentAssumption DEF IncidentInv, TypeOK, RequestState, LocksHeld, HoldsLocks, Released
<1>12. InsertAllowed'
  <2> SUFFICES ASSUME NEW q \in Requests, proc'[q].pc = "insert",
                      NEW j, NEW h, j = proc'[q].incident, h = proc'[q].group
               PROVE  /\ ~LinkedTo(j, h)'
                      /\ ~(proc'[q].arg = "primary" /\ HasPrimary(j)')
                      /\ \A m \in OpenLinks(h)' : link'[m].incident \in reopened
    BY <1>2, <1>4 DEF InsertAllowed
  <2>1. /\ j # i /\ h # g /\ h \in Groups /\ proc'[q] = proc[q]
        /\ ~LinkedTo(j, h)
        /\ ~(proc[q].arg = "primary" /\ HasPrimary(j))
        /\ \A m \in OpenLinks(h) : link[m].incident \in reopened
    BY <1>1, <1>4 DEF IncidentInv, TypeOK, RequestState, LocksHeld, HoldsLocks, InsertAllowed
  <2>2. ~LinkedTo(j, h)'
    BY <1>2, <1>3, <2>1 DEF LinkedTo, Active
  <2>3. ~(proc'[q].arg = "primary" /\ HasPrimary(j)')
    BY <1>2, <1>3, <2>1 DEF HasPrimary
  <2>4. \A m \in OpenLinks(h)' : link'[m].incident \in reopened
    BY <1>3, <1>8, <2>1 DEF OpenLinks
  <2> QED BY <2>2, <2>3, <2>4
<1>13. OnlyLocks'
  BY <1>2, <1>4, IncidentAssumption DEF IncidentInv, TypeOK, OnlyLocks, HoldsOnly, Released
<1>14. LinkRead'
  <2> SUFFICES ASSUME NEW q \in Requests, proc'[q].pc \in {"lockLinked", "commit"},
                      NEW h, h = proc'[q].group, NEW m \in OpenLinks(h)'
               PROVE  \/ link'[m].incident = proc'[q].linked
                      \/ {link'[m].incident, proc'[q].linked} \cap reopened # {}
    BY <1>2 DEF LinkRead
  <2>1. q # c /\ proc'[q] = proc[q]
    BY <1>4
  <2>2. h # g /\ h \in Groups
    BY <1>1, <2>1 DEF IncidentInv, TypeOK, RequestState, LocksHeld, HoldsLocks
  <2>3. m \in OpenLinks(h) /\ link'[m] = link[m]
    BY <2>2, <1>3, <1>8 DEF OpenLinks
  <2> QED BY <2>1, <2>3 DEF IncidentInv, LinkRead
<1> QED BY <1>5, <1>6, <1>7, <1>9, <1>10, <1>11, <1>12, <1>13, <1>14 DEF IncidentInv

\* unlink_alert_group only takes links away.
LEMMA UnlinkStep ==
  ASSUME IncidentInv, NEW l \in Links, Unlink(l)
  PROVE  IncidentInv'
<1> DEFINE gone == [NoLink EXCEPT !.relation = "removed"]
<1>1. /\ gone \in LinkRow /\ gone.relation = "removed"
      /\ link' = [link EXCEPT ![l] = gone]
      /\ UNCHANGED <<incident, group, lock, proc, reopened>>
  BY Blanks DEF Unlink, LinkRow
<1> HIDE DEF gone
<1>2. /\ \A m \in Links : m # l => link'[m] = link[m]
      /\ link'[l] = gone
  BY <1>1 DEF IncidentInv, TypeOK
<1>3. \A m \in Links : Active(m)' => m # l /\ link'[m] = link[m] /\ Active(m)
  BY <1>1, <1>2 DEF Active
<1>4. TypeOK'
  BY <1>1 DEF IncidentInv, TypeOK
<1>5. LinksUnique' /\ LinksResolve'
  BY <1>1, <1>3 DEF IncidentInv, LinksUnique, LinksResolve
<1>6. \A h \in Groups : \A m \in OpenLinks(h)' : m \in OpenLinks(h) /\ link'[m] = link[m]
  BY <1>1, <1>3 DEF OpenLinks, Open
<1>7. OneOpenUnlessReopened'
  BY <1>1, <1>6 DEF IncidentInv, OneOpenUnlessReopened
<1>8. VersionsKnown' /\ LocksHeld'
  BY <1>1 DEF IncidentInv, VersionsKnown, LocksHeld, HoldsLocks
<1>9. InsertAllowed'
  BY <1>1, <1>2, <1>3, <1>6 DEF IncidentInv, TypeOK, RequestState, InsertAllowed, LinkedTo, HasPrimary
<1>10. OnlyLocks'
  BY <1>1 DEF IncidentInv, OnlyLocks, HoldsOnly
<1>11. LinkRead'
  BY <1>1, <1>6 DEF IncidentInv, TypeOK, RequestState, LinkRead
<1> QED BY <1>4, <1>5, <1>7, <1>8, <1>9, <1>10, <1>11 DEF IncidentInv

\* A group resolves; nobody who needs it resolved or locked is disturbed.
LEMMA ResolveStep ==
  ASSUME IncidentInv, NEW g \in Groups, Resolve(g)
  PROVE  IncidentInv'
<1>1. TypeOK'
  BY DEF Resolve, IncidentInv, TypeOK
<1>2. LinksUnique' /\ OneOpenUnlessReopened' /\ LinksResolve'
  BY RowsKept DEF Resolve
<1>3. VersionsKnown' /\ LocksHeld'
  BY DEF Resolve, IncidentInv, TypeOK, RequestState, VersionsKnown, LocksHeld, HoldsLocks
<1>4. InsertAllowed'
  BY DEF Resolve, IncidentInv, InsertAllowed, LinkedTo, HasPrimary, OpenLinks, Active, Open
<1>5. OnlyLocks' /\ LinkRead'
  BY NoChangeLawful, LinkReadKept DEF Resolve, IncidentInv, OnlyLocks, HoldsOnly
<1> QED BY <1>1, <1>2, <1>3, <1>4, <1>5 DEF IncidentInv

\* _resume_linked_incident reads the link again, under the lock of the group.
LEMMA ReadLinkStep ==
  ASSUME IncidentInv, NEW p \in Requests, ReadLink(p)
  PROVE  IncidentInv'
<1>1. PICK g \in Groups : g = proc[p].group
  BY DEF IncidentInv, TypeOK, RequestState
<1>2. PICK i \in Incidents \cup {0} :
        /\ i = LinkedIncident(g) /\ (i # 0 => incident[i].status # "absent")
        /\ i = 0 => OpenLinks(g) = {}
        /\ i # 0 => \E l \in OpenLinks(g) : link[l].incident = i
  BY LinkedRow
<1>3. PICK pc \in {"commit", "lockLinked"} :
        /\ pc = "lockLinked" <=> i # 0
        /\ proc[p].pc = "resume" /\ UNCHANGED <<incident, link, group, lock, reopened>>
        /\ proc' = [proc EXCEPT ![p] = [proc[p] EXCEPT !.pc = pc, !.linked = i]]
  BY <1>1, <1>2 DEF ReadLink
<1>4. \A l \in OpenLinks(g) : link[l].incident = i \/ {link[l].incident, i} \cap reopened # {}
  BY <1>2 DEF IncidentInv, OneOpenUnlessReopened
<1>6. /\ \A q \in Requests : q # p => proc'[q] = proc[q]
      /\ proc'[p] = [proc[p] EXCEPT !.pc = pc, !.linked = i]
      /\ proc'[p].pc = pc /\ proc'[p].linked = i /\ proc'[p].group = g
      /\ proc'[p].incident = proc[p].incident /\ proc'[p].arg = proc[p].arg
  BY <1>1, <1>3 DEF IncidentInv, TypeOK, RequestState
<1>7. TypeOK'
  BY <1>3 DEF IncidentInv, TypeOK, RequestState
<1>8. LinksUnique' /\ OneOpenUnlessReopened' /\ LinksResolve'
  BY <1>3, RowsKept
<1>9. VersionsKnown'
  BY <1>3, <1>6 DEF IncidentInv, TypeOK, IncidentRow, VersionsKnown
<1>10. LocksHeld'
  <2> SUFFICES ASSUME NEW q \in Requests PROVE HoldsLocks(q)'
    BY DEF LocksHeld
  <2>1. CASE q = p
    BY <2>1, <1>1, <1>2, <1>3, <1>6 DEF IncidentInv, LocksHeld, HoldsLocks
  <2>2. CASE q # p
    BY <2>2, <1>3, <1>6 DEF IncidentInv, LocksHeld, HoldsLocks
  <2> QED BY <2>1, <2>2
<1>11. InsertAllowed'
  BY <1>3, <1>6 DEF IncidentInv, InsertAllowed, LinkedTo, HasPrimary, OpenLinks, Active, Open
<1>12. OnlyLocks'
  BY <1>3, <1>6 DEF IncidentInv, OnlyLocks, HoldsOnly
<1>13. LinkRead'
  BY <1>3, <1>4, <1>6 DEF IncidentInv, LinkRead, OpenLinks, Active, Open
<1> QED BY <1>7, <1>8, <1>9, <1>10, <1>11, <1>12, <1>13 DEF IncidentInv

\* The reopen commits: the linked incident is investigated again.
LEMMA CommitReopenStep ==
  ASSUME IncidentInv, NEW p \in Requests, CommitReopen(p)
  PROVE  IncidentInv'
<1> USE Blanks
<1>1. PICK g \in Groups : g = proc[p].group /\ lock[g] = p
  BY DEF CommitReopen, IncidentInv, TypeOK, RequestState, LocksHeld, HoldsLocks
<1>2. /\ group' = [group EXCEPT ![g] = "firing"] /\ lock' = Released(p) /\ End(p) /\ proc[p].pc = "commit"
      /\ UNCHANGED <<link, reopened>>
  BY <1>1 DEF CommitReopen
<1>3. \/ UNCHANGED incident
      \/ \E i \in Incidents :
           /\ incident[i].status \in {"resolved", "monitoring"}
           /\ incident' = [incident EXCEPT ![i] = [status |-> "investigating", current |-> {}]]
  <2>1. proc[p].linked \in Incidents \cup {0}
    BY DEF IncidentInv, TypeOK, RequestState
  <2> QED BY <2>1 DEF CommitReopen, Resumed, Swapped
<1>4. TypeOK'
  BY <1>2, <1>3, StatusNames DEF IncidentInv, TypeOK, IncidentRow, End, Released
<1>5. Lawful
  BY <1>2, <1>3, <1>4 DEF Lawful, IncidentInv, TypeOK, IncidentRow, Open, TerminalStatuses
<1>6. LinksUnique' /\ OneOpenUnlessReopened' /\ LinksResolve'
  BY <1>2, <1>5, LawfulChange
<1>7. VersionsKnown'
  BY <1>2, <1>3 DEF IncidentInv, TypeOK, IncidentRow, VersionsKnown, End
<1>8. LocksHeld'
  <2> SUFFICES ASSUME NEW q \in Requests, q # p, proc'[q] = proc[q]
               PROVE  HoldsLocks(q)'
    BY <1>2 DEF LocksHeld, HoldsLocks, End, IncidentInv, TypeOK
  <2>1. /\ proc[q].incident # 0 => incident'[proc[q].incident].status # "absent"
        /\ proc[q].linked # 0 => incident'[proc[q].linked].status # "absent"
    BY <1>3 DEF IncidentInv, TypeOK, RequestState, LocksHeld, HoldsLocks
  <2>2. proc[q].pc \in {"check", "insert", "resume", "lockLinked", "commit"} => proc[q].group # g
    BY <1>1 DEF IncidentInv, LocksHeld, HoldsLocks
  <2> QED BY <1>2, <2>1, <2>2, IncidentAssumption
          DEF IncidentInv, TypeOK, RequestState, LocksHeld, HoldsLocks, Released
<1>9. InsertAllowed'
  BY <1>2, <1>5, LawfulChange
     DEF IncidentInv, TypeOK, RequestState, InsertAllowed, LinkedTo, HasPrimary, Active, Lawful, End
<1>10. OnlyLocks'
  BY <1>2, IncidentAssumption DEF IncidentInv, TypeOK, OnlyLocks, HoldsOnly, Released, End
<1>11. LinkRead'
  BY <1>2, <1>5, LinkReadKept DEF IncidentInv, TypeOK, End
<1> QED BY <1>4, <1>6, <1>7, <1>8, <1>9, <1>10, <1>11 DEF IncidentInv

-----------------------------------------------------------------------------
(* The theorems *)

\* Every step keeps the invariant.
LEMMA IncidentStep == IncidentInv /\ [Next]_vars => IncidentInv'
<1> SUFFICES ASSUME IncidentInv, [Next]_vars PROVE IncidentInv'
  OBVIOUS
<1>1. ASSUME NEW i \in Incidents, CreateIncident(i) \/ UpdateIncident(i) PROVE IncidentInv'
  BY <1>1, IncidentRowStep
<1>2. ASSUME NEW i \in Incidents, NEW g \in Groups, NEW l \in Links, CreateFromGroup(i, g, l) PROVE IncidentInv'
  BY <1>2, CreateFromGroupStep
<1>3. ASSUME NEW p \in Requests, NEW i \in Incidents, NEW new \in Statuses, BeginTransition(p, i, new)
      PROVE  IncidentInv'
  BY <1>3, BeginTransitionStep
<1>4. ASSUME NEW p \in Requests, NEW i \in Incidents, NEW g \in Groups, NEW relation \in {"primary", "related"},
             BeginLink(p, i, g, relation)
      PROVE  IncidentInv'
  BY <1>4, BeginStep
<1>5. ASSUME NEW p \in Requests, NEW g \in Groups, BeginReopen(p, g) PROVE IncidentInv'
  BY <1>5, BeginStep
<1>6. ASSUME NEW p \in Requests, Transition(p) PROVE IncidentInv'
  BY <1>6, TransitionStep
<1>7. ASSUME NEW p \in Requests, LockIncident(p) \/ LockGroup(p) \/ LockLinked(p) PROVE IncidentInv'
  BY <1>7, LockStep
<1>8. ASSUME NEW p \in Requests, CheckLink(p) PROVE IncidentInv'
  BY <1>8, CheckStep
<1>9. ASSUME NEW p \in Requests, Restart(p) PROVE IncidentInv'
  <2>1. CASE group[proc[p].group] = "resolved"
    BY <1>9, <2>1, LockStep
  <2>2. CASE group[proc[p].group] # "resolved"
    BY <1>9, <2>2, EndStep DEF Restart
  <2> QED BY <2>1, <2>2
<1>10. ASSUME NEW p \in Requests, ReadLink(p) \/ CommitReopen(p) PROVE IncidentInv'
  BY <1>10, ReadLinkStep, CommitReopenStep
<1>11. ASSUME NEW p \in Requests, BreakDeadlock(p) PROVE IncidentInv'
  <2>1. proc[p].pc # "transition"
    BY <1>11 DEF BreakDeadlock, Deadlocked, Cycle, Waits
  <2> QED BY <1>11, <2>1, EndStep DEF BreakDeadlock
<1>12. ASSUME NEW p \in Requests, NEW l \in Links, MakeLink(p, l) PROVE IncidentInv'
  BY <1>12, MakeLinkStep
<1>13. ASSUME NEW l \in Links, Unlink(l) PROVE IncidentInv'
  BY <1>13, UnlinkStep
<1>14. ASSUME NEW g \in Groups, Resolve(g) PROVE IncidentInv'
  BY <1>14, ResolveStep
<1>15. CASE UNCHANGED vars
  BY <1>15 DEF vars, IncidentInv, TypeOK, LinksUnique, OneOpenUnlessReopened, LinksResolve, VersionsKnown,
               LocksHeld, HoldsLocks, OnlyLocks, HoldsOnly, InsertAllowed, LinkRead, LinkedTo, HasPrimary,
               OpenLinks, Active, Open
<1> QED BY <1>1, <1>2, <1>3, <1>4, <1>5, <1>6, <1>7, <1>8, <1>9, <1>10, <1>11, <1>12, <1>13, <1>14, <1>15 DEF Next

\* The links of every incident and group, under any interleaving of requests
\* and of the database's deadlock victims (link_alert_group,
\* create_incident_from_alert_group, restart_resolved_group).
THEOREM IncidentInvariant == Spec => []IncidentInv
BY InitIncident, IncidentStep, PTL DEF Spec

\* A step changes a status only along STATUS_TRANSITIONS or to investigating.
LEMMA StatusStep ==
  ASSUME IncidentInv, [Next]_vars, NEW i \in Incidents,
         incident[i].status # "absent", incident[i].status # incident'[i].status
  PROVE  \/ incident'[i].status \in StatusTransitions[incident[i].status]
         \/ incident[i].status \in {"resolved", "monitoring"} /\ incident'[i].status = "investigating"
<1>1. ASSUME NEW j \in Incidents, CreateIncident(j) \/ UpdateIncident(j) \/
             \E g \in Groups, l \in Links : CreateFromGroup(j, g, l)
      PROVE  FALSE
  BY <1>1 DEF CreateIncident, UpdateIncident, CreateFromGroup, IsNextIncident, IncidentInv, TypeOK, IncidentRow
<1>2. ASSUME NEW p \in Requests, NEW j \in Incidents, NEW new \in Statuses, BeginTransition(p, j, new)
      PROVE  FALSE
  BY <1>2 DEF BeginTransition, IncidentInv, TypeOK, IncidentRow
<1>3. ASSUME NEW c \in Requests, Transition(c)
      PROVE  incident'[i].status \in StatusTransitions[incident[i].status]
  <2>1. PICK j \in Incidents : j = proc[c].incident
    BY <1>3 DEF Transition, IncidentInv, LocksHeld, HoldsLocks, TypeOK, RequestState
  <2>2. j = i /\ Matches(c, i) /\ incident'[i].status = proc[c].arg
    BY <1>3, <2>1 DEF Transition, Swapped, IncidentInv, TypeOK, IncidentRow
  <2> QED BY <2>2 DEF Matches, IncidentInv, VersionsKnown
<1>4. ASSUME NEW p \in Requests, CommitReopen(p)
      PROVE  incident[i].status \in {"resolved", "monitoring"} /\ incident'[i].status = "investigating"
  <2>1. PICK j \in Incidents : incident' = Resumed(j)
    BY <1>4 DEF CommitReopen, Resumed, IncidentInv, TypeOK, RequestState
  <2> QED BY <2>1 DEF Resumed, Swapped, IncidentInv, TypeOK, IncidentRow
<1> QED BY <1>1, <1>2, <1>3, <1>4
        DEF Next, vars, BeginLink, BeginReopen, LockIncident, LockGroup, CheckLink, Restart, ReadLink, LockLinked,
            BreakDeadlock, MakeLink, Unlink, Resolve

\* A status validated before the transaction is still the one that changes:
\* STATUS_TRANSITIONS is kept (transition_incident, compare_and_swap).
THEOREM StatusGraphHolds == Spec => StatusGraph
<1>1. IncidentInv /\ [Next]_vars =>
        [\A i \in Incidents :
           incident[i].status \notin {"absent", incident'[i].status} =>
             \/ incident'[i].status \in StatusTransitions[incident[i].status]
             \/ incident[i].status \in {"resolved", "monitoring"} /\ incident'[i].status = "investigating"]_vars
  BY StatusStep
<1> QED BY <1>1, IncidentInvariant, PTL DEF Spec, StatusGraph

\* The step that makes a resolved group fire again resumes its open incidents.
LEMMA ResumesStep ==
  ASSUME IncidentInv, [Next]_vars, NEW g \in Groups, group[g] = "resolved", group'[g] = "firing",
         NEW l \in OpenLinks(g)
  PROVE  \/ incident'[link[l].incident].status \notin {"resolved", "monitoring"}
         \/ \E p \in Requests : /\ proc[p].pc = "commit" /\ proc[p].group = g
                                /\ {link[l].incident, proc[p].linked} \cap reopened # {}
<1>1. PICK p \in Requests : CommitReopen(p) /\ proc[p].group = g
  <2>1. ASSUME NEW p \in Requests, CommitReopen(p) PROVE proc[p].group = g
    BY <2>1 DEF CommitReopen, IncidentInv, TypeOK
  <2>2. ASSUME NEW h \in Groups, Resolve(h) PROVE FALSE
    BY <2>2 DEF Resolve, IncidentInv, TypeOK
  <2> QED BY <2>1, <2>2
          DEF Next, vars, CreateIncident, UpdateIncident, CreateFromGroup, BeginTransition, BeginLink, BeginReopen,
              Transition, LockIncident, LockGroup, CheckLink, Restart, ReadLink, LockLinked, BreakDeadlock,
              MakeLink, Unlink
<1>2. proc[p].pc = "commit" /\ incident' = Resumed(proc[p].linked)
  BY <1>1 DEF CommitReopen
<1>3. link[l].incident \in Incidents /\ link[l].incident # 0
  BY DEF OpenLinks, IncidentInv, LinksResolve, TypeOK, LinkRow
<1>4. CASE link[l].incident = proc[p].linked
  BY <1>2, <1>3, <1>4 DEF Resumed, Swapped, IncidentInv, TypeOK
<1>5. CASE {link[l].incident, proc[p].linked} \cap reopened # {}
  BY <1>1, <1>2, <1>5
<1> QED BY <1>1, <1>2, <1>4, <1>5 DEF IncidentInv, LinkRead

\* A reopened group never commits beside an open incident of its own that is
\* resolved or monitored, although the link was read before the wait for the
\* incident's lock (restart_resolved_group, _resume_linked_incident).
THEOREM ResumesIncidentHolds == Spec => ResumesIncident
<1>1. IncidentInv /\ [Next]_vars =>
        [\A g \in Groups : group[g] = "resolved" /\ group'[g] = "firing" =>
           \A l \in OpenLinks(g) :
             \/ incident'[link[l].incident].status \notin {"resolved", "monitoring"}
             \/ \E p \in Requests : /\ proc[p].pc = "commit" /\ proc[p].group = g
                                    /\ {link[l].incident, proc[p].linked} \cap reopened # {}]_vars
  BY ResumesStep
<1> QED BY <1>1, IncidentInvariant, PTL DEF Spec, ResumesIncident

\* Incident before AlertGroup: whoever is waited for holds its incident already,
\* so it waits for a group; whoever holds that group waits for nothing but a
\* link it found late.
LEMMA WaitOrder ==
  ASSUME IncidentInv, NEW ps \in SUBSET Requests, Cycle(ps)
  PROVE  \E p \in ps : LateLink(p)
<1> SUFFICES ASSUME \A p \in ps : ~LateLink(p) PROVE FALSE
  OBVIOUS
<1> USE IncidentAssumption
<1>1. ASSUME NEW p \in ps, NEW q \in ps, Waits(p, q)
      PROVE  proc[p].pc = "lockIncident" /\ proc[q].pc = "lockGroup"
  <2>1. /\ proc[p] \in RequestState /\ proc[q] \in RequestState
        /\ HoldsLocks(p) /\ HoldsLocks(q) /\ p # q
        /\ ~LateLink(p) /\ ~LateLink(q)
        /\ \A x \in Incidents \cup Groups : lock[x] = q => HoldsOnly(q, x)
    BY <1>1 DEF IncidentInv, TypeOK, LocksHeld, OnlyLocks, Waits
  <2>2. proc[p].pc \in {"lockIncident", "lockGroup"}
    BY <1>1, <2>1 DEF Waits, LateLink, HoldsLocks, RequestState
  <2>3. PICK r \in ps : Waits(q, r)
    BY <1>1 DEF Cycle
  <2>4. proc[q].pc \in {"lockIncident", "lockGroup"}
    BY <2>1, <2>3 DEF Waits, LateLink, HoldsLocks, RequestState
  <2>5. /\ proc[p].pc = "lockIncident" => proc[p].incident \in Incidents /\ HoldsOnly(q, proc[p].incident)
        /\ proc[p].pc = "lockGroup" => proc[p].group \in Groups /\ HoldsOnly(q, proc[p].group)
    BY <1>1, <2>1, <2>2 DEF Waits, HoldsLocks, RequestState
  <2>6. proc[q].incident \in Incidents \cup {0}
    BY <2>1 DEF RequestState
  <2>7. proc[q].pc = "lockGroup" /\ proc[p].pc # "lockGroup"
    <3>1. CASE proc[p].pc = "lockIncident"
      BY <3>1, <2>4, <2>5 DEF HoldsOnly
    <3>2. CASE proc[p].pc = "lockGroup"
      <4>1. proc[p].group = proc[q].incident
        BY <3>2, <2>4, <2>5 DEF HoldsOnly
      <4>2. proc[p].group \notin Incidents \cup {0}
        BY <3>2, <2>5 DEF Incidents
      <4> QED BY <4>1, <4>2, <2>6
    <3> QED BY <3>1, <3>2, <2>2
  <2> QED BY <2>2, <2>7
<1>2. PICK p \in ps : TRUE
  BY DEF Cycle
<1>3. PICK q \in ps, r \in ps : Waits(p, q) /\ Waits(q, r)
  BY <1>2 DEF Cycle
<1> QED BY <1>1, <1>3

\* Linking and reopening wait for each other only where a reopen met a link made
\* after it had looked for one (link_alert_group, restart_resolved_group).
THEOREM DeadlockNeedsLateLinkHolds == Spec => []DeadlockNeedsLateLink
<1>1. IncidentInv => DeadlockNeedsLateLink
  BY WaitOrder DEF DeadlockNeedsLateLink
<1> QED BY <1>1, IncidentInvariant, PTL
=============================================================================
