------------------------------ MODULE Incident ------------------------------
(***************************************************************************)
(* Operational incidents: app/services/incidents/core.py,                  *)
(* app/modules/db/incident_core_repo.py and the part of the alert group    *)
(* reopen that touches them (app/services/alerts/reopen.py).               *)
(*                                                                         *)
(* An incident row is changed by compare_and_swap on row_version; links    *)
(* are made under row locks (PostgreSQL's SELECT ... FOR UPDATE), first    *)
(* the incident's, then the alert group's.  A request reads and validates, *)
(* then opens a transaction whose statements are steps of their own,       *)
(* because each may wait for a lock.                                       *)
(*                                                                         *)
(* row_version is only compared with the version a request has seen, so an *)
(* incident keeps the set of requests whose version is still the current    *)
(* one; a compare_and_swap empties it.                                     *)
(***************************************************************************)
EXTENDS Naturals, FiniteSets

CONSTANTS
  Groups,        \* alert groups, all of one team
  Requests,      \* requests under way: incident API calls and alert intakes
  Nobody,        \* a free lock
  MaxIncidents,  \* bound on the incidents
  MaxLinks       \* bound on the links

ASSUME IncidentAssumption ==
  /\ Nobody \notin Requests
  /\ Groups # {} /\ Groups \cap (0 .. MaxIncidents) = {}
  /\ {MaxIncidents, MaxLinks} \subseteq Nat

VARIABLES
  incident,    \* workflow_status and the requests that know its row_version
  link,        \* IncidentAlertGroupLink rows, in the order of their ids
  group,       \* status of the alert groups
  lock,        \* who holds the row lock of an incident or a group
  proc,        \* per request: its next statement and what it has read
  reopened     \* history: incidents that were closed and opened again

vars == <<incident, link, group, lock, proc, reopened>>

Incidents == 1 .. MaxIncidents
Links == 1 .. MaxLinks

\* TERMINAL_STATUSES.
TerminalStatuses == {"closed", "cancelled"}

\* STATUS_TRANSITIONS.
StatusTransitions ==
  [declared      |-> {"investigating", "cancelled"},
   investigating |-> {"identified", "monitoring", "resolved", "cancelled"},
   identified    |-> {"investigating", "monitoring", "resolved", "cancelled"},
   monitoring    |-> {"investigating", "resolved", "cancelled"},
   resolved      |-> {"investigating", "closed"},
   closed        |-> {"investigating"},
   cancelled     |-> {}]

Statuses == DOMAIN StatusTransitions

Idle == [pc |-> "idle", incident |-> 0, group |-> CHOOSE g \in Groups : TRUE, arg |-> "none",
         linked |-> 0]

NoIncident == [status |-> "absent", current |-> {}]

NoLink == [incident |-> 0, group |-> CHOOSE g \in Groups : TRUE, relation |-> "none"]

IncidentRow == [status : Statuses \cup {"absent"}, current : SUBSET Requests]

LinkRow == [incident : Incidents \cup {0}, group : Groups,
            relation : {"primary", "related", "removed", "none"}]

RequestState ==
  [pc : {"idle", "transition", "lockIncident", "lockGroup", "check", "insert",
         "resume", "lockLinked", "commit"},
   incident : Incidents \cup {0}, group : Groups,
   arg : Statuses \cup {"primary", "related", "reopen", "none"},
   linked : Incidents \cup {0}]

TypeOK ==
  /\ incident \in [Incidents -> IncidentRow]
  /\ link \in [Links -> LinkRow]
  /\ group \in [Groups -> {"firing", "resolved"}]
  /\ lock \in [Incidents \cup Groups -> Requests \cup {Nobody}]
  /\ proc \in [Requests -> RequestState]
  /\ reopened \subseteq Incidents

Init ==
  /\ incident = [i \in Incidents |-> NoIncident]
  /\ link = [l \in Links |-> NoLink]
  /\ group \in [Groups -> {"firing", "resolved"}]
  /\ lock = [x \in Incidents \cup Groups |-> Nobody]
  /\ proc = [p \in Requests |-> Idle]
  /\ reopened = {}

-----------------------------------------------------------------------------
(* Rows *)

Open(i) == incident[i].status \notin TerminalStatuses \cup {"absent"}

Active(l) == link[l].relation \in {"primary", "related"}

NewestOf(ls) == IF ls = {} THEN 0 ELSE CHOOSE l \in ls : \A m \in ls : m <= l

\* active_link_for_group; 0 if there is none.
ActiveLinkForGroup(g) ==
  NewestOf({l \in Links : Active(l) /\ link[l].group = g /\ Open(link[l].incident)})

\* active_link, active_primary_link.
LinkedTo(i, g) == \E l \in Links : Active(l) /\ link[l].incident = i /\ link[l].group = g
HasPrimary(i) == \E l \in Links : link[l].incident = i /\ link[l].relation = "primary"

IsNextIncident(i) == incident[i].status = "absent" /\ \A j \in 1 .. i - 1 : incident[j].status # "absent"
IsNextLink(l) == link[l].relation = "none" /\ \A m \in 1 .. l - 1 : link[m].relation # "none"

FreeFor(p, x) == lock[x] \in {Nobody, p}

\* The transaction ends: its locks are free.
Released(p) == [x \in DOMAIN lock |-> IF lock[x] = p THEN Nobody ELSE lock[x]]

End(p) == proc' = [proc EXCEPT ![p] = Idle]

-----------------------------------------------------------------------------
(* The incident API *)

\* create_incident.
CreateIncident(i) ==
  /\ IsNextIncident(i)
  /\ incident' = [incident EXCEPT ![i].status = "declared"]
  /\ UNCHANGED <<link, group, lock, proc, reopened>>

\* create_incident_from_alert_group: a new incident and its primary link, or nothing.
CreateFromGroup(i, g, l) ==
  /\ IsNextIncident(i) /\ IsNextLink(l)
  /\ lock[g] = Nobody
  /\ ActiveLinkForGroup(g) = 0
  /\ incident' = [incident EXCEPT ![i].status = "declared"]
  /\ link' = [link EXCEPT ![l] = [incident |-> i, group |-> g, relation |-> "primary"]]
  /\ UNCHANGED <<group, lock, proc, reopened>>

\* transition_incident: the read and the test of the status; the request carries
\* a version it knows, here the current one (an older one always conflicts).
BeginTransition(c, i, new) ==
  /\ proc[c].pc = "idle"
  /\ incident[i].status # "absent" /\ new \in StatusTransitions[incident[i].status]
  /\ incident' = [incident EXCEPT ![i].current = @ \cup {c}]
  /\ proc' = [proc EXCEPT ![c] = [Idle EXCEPT !.pc = "transition", !.incident = i, !.arg = new]]
  /\ UNCHANGED <<link, group, lock, reopened>>

\* Variant of compare_and_swap without the version in its WHERE.
MatchesAlways(c, i) == TRUE

\* row_version = expected_version.
Matches(c, i) == c \in incident[i].current

Swapped(i, new) == [incident EXCEPT ![i] = [status |-> new, current |-> {}]]

\* compare_and_swap; the UPDATE waits for the row.
Transition(c) ==
  LET i == proc[c].incident
  IN  /\ proc[c].pc = "transition" /\ lock[i] = Nobody
      /\ \/ /\ Matches(c, i)
            /\ incident' = Swapped(i, proc[c].arg)
            /\ reopened' = IF incident[i].status = "closed" THEN reopened \cup {i} ELSE reopened
         \/ ~Matches(c, i) /\ UNCHANGED <<incident, reopened>>
      /\ End(c)
      /\ UNCHANGED <<link, group, lock>>

\* update_incident and assign_incident: other columns, the same compare_and_swap.
UpdateIncident(i) ==
  /\ incident[i].status # "absent" /\ lock[i] = Nobody
  /\ incident[i].current # {}
  /\ incident' = [incident EXCEPT ![i].current = {}]
  /\ UNCHANGED <<link, group, lock, proc, reopened>>

\* link_alert_group: the tests before the transaction.
BeginLink(c, i, g, relation) ==
  /\ proc[c].pc = "idle" /\ Open(i)
  /\ proc' = [proc EXCEPT ![c] =
       [Idle EXCEPT !.pc = "lockIncident", !.incident = i, !.group = g, !.arg = relation]]
  /\ UNCHANGED <<incident, link, group, lock, reopened>>

\* Variant that locks the incident only.
LockedIncidentOnly(p, x) == IF x \in Groups THEN lock ELSE [lock EXCEPT ![x] = p]

\* SELECT ... FOR UPDATE.
Locked(p, x) == [lock EXCEPT ![x] = p]

\* lock_incident, in link_alert_group and in restart_resolved_group.
LockIncident(p) ==
  /\ proc[p].pc = "lockIncident" /\ FreeFor(p, proc[p].incident)
  /\ lock' = Locked(p, proc[p].incident)
  /\ proc' = [proc EXCEPT ![p].pc = "lockGroup"]
  /\ UNCHANGED <<incident, link, group, reopened>>

\* lock_alert_group.
LockGroup(c) ==
  /\ proc[c].pc = "lockGroup" /\ proc[c].arg # "reopen" /\ FreeFor(c, proc[c].group)
  /\ lock' = Locked(c, proc[c].group)
  /\ proc' = [proc EXCEPT ![c].pc = "check"]
  /\ UNCHANGED <<incident, link, group, reopened>>

\* Variant that does not look for a link the incident has already.
MayLinkAgain(i, g, relation) ==
  /\ ActiveLinkForGroup(g) # 0 => link[ActiveLinkForGroup(g)].incident = i
  /\ ~(relation = "primary" /\ HasPrimary(i))

\* The tests under the locks: an existing link is returned, the rest conflicts.
MayLink(i, g, relation) ==
  /\ ~LinkedTo(i, g)
  /\ ActiveLinkForGroup(g) # 0 => link[ActiveLinkForGroup(g)].incident = i
  /\ ~(relation = "primary" /\ HasPrimary(i))

CheckLink(c) ==
  LET p == proc[c]
  IN  /\ p.pc = "check"
      /\ \/ /\ MayLink(p.incident, p.group, p.arg)
            /\ proc' = [proc EXCEPT ![c].pc = "insert"] /\ UNCHANGED lock
         \/ /\ ~MayLink(p.incident, p.group, p.arg)
            /\ lock' = Released(c) /\ End(c)
      /\ UNCHANGED <<incident, link, group, reopened>>

\* create_link and the commit.
MakeLink(c, l) ==
  LET p == proc[c]
  IN  /\ p.pc = "insert" /\ IsNextLink(l)
      /\ link' = [link EXCEPT ![l] = [incident |-> p.incident, group |-> p.group, relation |-> p.arg]]
      /\ lock' = Released(c)
      /\ End(c)
      /\ UNCHANGED <<incident, group, reopened>>

\* unlink_alert_group; no query reads the rest of a removed row.
Unlink(l) ==
  /\ Active(l)
  /\ link' = [link EXCEPT ![l] = [NoLink EXCEPT !.relation = "removed"]]
  /\ UNCHANGED <<incident, group, lock, proc, reopened>>

-----------------------------------------------------------------------------
(* The alert group *)

Resolve(g) ==
  /\ group[g] = "firing" /\ lock[g] = Nobody
  /\ group' = [group EXCEPT ![g] = "resolved"]
  /\ UNCHANGED <<incident, link, lock, proc, reopened>>

\* The incident of active_link_for_group; 0 if there is none.
LinkedIncident(g) == IF ActiveLinkForGroup(g) = 0 THEN 0 ELSE link[ActiveLinkForGroup(g)].incident

\* Variant that locks the group at once.
BeginReopenGroupFirst(p, g) ==
  /\ proc[p].pc = "idle" /\ group[g] = "resolved"
  /\ proc' = [proc EXCEPT ![p] =
       [Idle EXCEPT !.pc = "lockGroup", !.group = g, !.arg = "reopen", !.incident = LinkedIncident(g)]]
  /\ UNCHANGED <<incident, link, group, lock, reopened>>

\* restart_resolved_group: the linked incident is read, to be locked first.
BeginReopen(p, g) ==
  LET i == LinkedIncident(g)
  IN  /\ proc[p].pc = "idle" /\ group[g] = "resolved"
      /\ proc' = [proc EXCEPT ![p] =
           [Idle EXCEPT !.pc = IF i = 0 THEN "lockGroup" ELSE "lockIncident",
                        !.group = g, !.arg = "reopen", !.incident = i]]
      /\ UNCHANGED <<incident, link, group, lock, reopened>>

\* lock_alert_group; a group that changed ends the transaction.
Restart(p) ==
  LET g == proc[p].group
  IN  /\ proc[p].pc = "lockGroup" /\ proc[p].arg = "reopen" /\ FreeFor(p, g)
      /\ \/ /\ group[g] = "resolved"
            /\ lock' = Locked(p, g)
            /\ proc' = [proc EXCEPT ![p].pc = "resume"]
         \/ /\ group[g] # "resolved"
            /\ lock' = Released(p) /\ End(p)
      /\ UNCHANGED <<incident, link, group, reopened>>

\* Variant that resumes the incident locked before the group.
ReadLinkAtStart(p) ==
  /\ proc[p].pc = "resume"
  /\ proc' = [proc EXCEPT ![p].pc = IF proc[p].incident = 0 THEN "commit" ELSE "lockLinked",
                          ![p].linked = proc[p].incident]
  /\ UNCHANGED <<incident, link, group, lock, reopened>>

\* _resume_linked_incident: the link is read again ...
ReadLink(p) ==
  LET i == LinkedIncident(proc[p].group)
  IN  /\ proc[p].pc = "resume"
      /\ proc' = [proc EXCEPT ![p] = [@ EXCEPT !.pc = IF i = 0 THEN "commit" ELSE "lockLinked", !.linked = i]]
      /\ UNCHANGED <<incident, link, group, lock, reopened>>

\* ... its incident locked, which may be another than the one locked before ...
LockLinked(p) ==
  /\ proc[p].pc = "lockLinked" /\ FreeFor(p, proc[p].linked)
  /\ lock' = Locked(p, proc[p].linked)
  /\ proc' = [proc EXCEPT ![p].pc = "commit"]
  /\ UNCHANGED <<incident, link, group, reopened>>

\* The incident an alert group's reopen leaves.
Resumed(i) ==
  IF i # 0 /\ incident[i].status \in {"resolved", "monitoring"} THEN Swapped(i, "investigating") ELSE incident

\* ... and the transaction, with the group firing, commits.
CommitReopen(p) ==
  /\ proc[p].pc = "commit"
  /\ incident' = Resumed(proc[p].linked)
  /\ group' = [group EXCEPT ![proc[p].group] = "firing"]
  /\ lock' = Released(p)
  /\ End(p)
  /\ UNCHANGED <<link, reopened>>

Waits(p, q) ==
  /\ p # q
  /\ \/ proc[p].pc = "lockIncident" /\ lock[proc[p].incident] = q
     \/ proc[p].pc = "lockGroup" /\ lock[proc[p].group] = q
     \/ proc[p].pc = "lockLinked" /\ lock[proc[p].linked] = q

\* Requests that wait for each other, in one cycle or several.
Cycle(ps) ==
  ps # {} /\ \A p \in ps : (\E q \in ps : Waits(p, q)) /\ (\E q \in ps : Waits(q, p))

Deadlocked(p) == \E ps \in SUBSET Requests : p \in ps /\ Cycle(ps)

\* The database ends a cycle of waiting transactions by rolling one back.
BreakDeadlock(p) ==
  /\ Deadlocked(p)
  /\ lock' = Released(p)
  /\ End(p)
  /\ UNCHANGED <<incident, link, group, reopened>>

-----------------------------------------------------------------------------

Next ==
  \/ \E i \in Incidents : CreateIncident(i) \/ UpdateIncident(i)
  \/ \E i \in Incidents, g \in Groups, l \in Links : CreateFromGroup(i, g, l)
  \/ \E p \in Requests, i \in Incidents, new \in Statuses : BeginTransition(p, i, new)
  \/ \E p \in Requests, i \in Incidents, g \in Groups, relation \in {"primary", "related"} :
       BeginLink(p, i, g, relation)
  \/ \E p \in Requests, g \in Groups : BeginReopen(p, g)
  \/ \E p \in Requests :
       \/ Transition(p) \/ LockIncident(p) \/ LockGroup(p) \/ CheckLink(p)
       \/ Restart(p) \/ ReadLink(p) \/ LockLinked(p) \/ CommitReopen(p) \/ BreakDeadlock(p)
  \/ \E p \in Requests, l \in Links : MakeLink(p, l)
  \/ \E l \in Links : Unlink(l)
  \/ \E g \in Groups : Resolve(g)

Spec == Init /\ [][Next]_vars

-----------------------------------------------------------------------------
(* Properties *)

OpenLinks(g) == {l \in Links : Active(l) /\ link[l].group = g /\ Open(link[l].incident)}

\* The locks of link_alert_group keep a group from two open incidents, unless
\* one of them was closed and then opened again by transition_incident.
OneOpenUnlessReopened ==
  \A g \in Groups : \A l, m \in OpenLinks(g) :
    link[l].incident = link[m].incident \/ {link[l].incident, link[m].incident} \cap reopened # {}

\* An incident has one active primary link and one active link per group.
LinksUnique ==
  \A l, m \in Links : l # m /\ Active(l) /\ Active(m) /\ link[l].incident = link[m].incident =>
    /\ link[l].group # link[m].group
    /\ ~(link[l].relation = "primary" /\ link[m].relation = "primary")

\* An active link is of an incident that exists.
LinksResolve ==
  \A l \in Links : Active(l) => link[l].incident # 0 /\ incident[link[l].incident].status # "absent"

\* A version that still matches was read with the status the transition was
\* validated against.
VersionsKnown ==
  \A i \in Incidents : \A c \in incident[i].current :
    /\ incident[i].status # "absent"
    /\ proc[c].pc = "transition" /\ proc[c].incident = i
    /\ proc[c].arg \in StatusTransitions[incident[i].status]

\* A request works on an incident that exists and holds the locks its
\* transaction has taken so far; a group being reopened stays resolved.
HoldsLocks(p) ==
  LET r == proc[p]
      reopening == r.pc \in {"resume", "lockLinked", "commit"}
  IN  /\ r.incident # 0 => incident[r.incident].status # "absent"
      /\ r.incident = 0 => r.pc = "idle" \/ ((r.pc = "lockGroup" \/ reopening) /\ r.arg = "reopen")
      /\ r.pc = "transition" => r.arg \in Statuses
      /\ r.pc \in {"lockIncident", "lockGroup"} => r.arg \in {"primary", "related", "reopen"}
      /\ r.pc \in {"check", "insert"} => r.arg \in {"primary", "related"}
      /\ (r.pc \in {"lockGroup", "check", "insert"} \/ reopening) /\ r.incident # 0 => lock[r.incident] = p
      /\ r.pc \in {"check", "insert"} \/ reopening => lock[r.group] = p
      /\ reopening => group[r.group] = "resolved"
      /\ r.linked # 0 => r.pc \in {"lockLinked", "commit"} /\ incident[r.linked].status # "absent"
      /\ r.pc = "lockLinked" => r.linked # 0
      /\ r.pc = "commit" /\ r.linked # 0 => lock[r.linked] = p

\* A request holds no other locks.
HoldsOnly(p, x) ==
  LET r == proc[p]
  IN  \/ x = r.incident /\ r.pc \in {"lockGroup", "check", "insert", "resume", "lockLinked", "commit"}
      \/ x = r.group /\ r.pc \in {"check", "insert", "resume", "lockLinked", "commit"}
      \/ x = r.linked /\ r.pc = "commit"

LocksHeld == \A p \in Requests : HoldsLocks(p)
OnlyLocks == \A p \in Requests, x \in Incidents \cup Groups : lock[x] = p => HoldsOnly(p, x)

\* What link_alert_group tested still holds when it inserts, except that an
\* incident may have been opened again.
InsertAllowed ==
  \A p \in Requests : proc[p].pc = "insert" =>
    /\ ~LinkedTo(proc[p].incident, proc[p].group)
    /\ ~(proc[p].arg = "primary" /\ HasPrimary(proc[p].incident))
    /\ \A l \in OpenLinks(proc[p].group) : link[l].incident \in reopened

\* The incident _resume_linked_incident has read is the group's open one, unless
\* it or the open one was closed and opened again.
LinkRead ==
  \A p \in Requests : proc[p].pc \in {"lockLinked", "commit"} =>
    \A l \in OpenLinks(proc[p].group) :
      link[l].incident = proc[p].linked \/ {link[l].incident, proc[p].linked} \cap reopened # {}

\* The links of incident_core_repo.py, made under the locks of link_alert_group.
IncidentInv ==
  /\ TypeOK /\ LinksUnique /\ OneOpenUnlessReopened /\ LinksResolve /\ VersionsKnown /\ LocksHeld /\ InsertAllowed
  /\ OnlyLocks /\ LinkRead

\* A status changes along STATUS_TRANSITIONS, or to investigating when a linked
\* group fires again, although it was validated before the transaction.
StatusGraph ==
  [][\A i \in Incidents :
       incident[i].status \notin {"absent", incident'[i].status} =>
         \/ incident'[i].status \in StatusTransitions[incident[i].status]
         \/ incident[i].status \in {"resolved", "monitoring"} /\ incident'[i].status = "investigating"]_vars

\* When a reopened group is committed no open incident it is linked to stays
\* resolved or monitored, whatever was linked, unlinked or moved on since the
\* request looked; unless that incident, or the one the request had read, was
\* closed and opened again.
ResumesIncident ==
  [][\A g \in Groups : group[g] = "resolved" /\ group'[g] = "firing" =>
       \A l \in OpenLinks(g) :
         \/ incident'[link[l].incident].status \notin {"resolved", "monitoring"}
         \/ \E p \in Requests : /\ proc[p].pc = "commit" /\ proc[p].group = g
                                /\ {link[l].incident, proc[p].linked} \cap reopened # {}]_vars

\* A reopen whose link changed after restart_resolved_group read it: it waits for
\* an incident while it holds the group.
LateLink(p) == proc[p].pc = "lockLinked" /\ proc[p].linked # proc[p].incident

\* Incident before AlertGroup: requests wait for each other only where a reopen
\* met a link that was made after it had looked for one.
DeadlockNeedsLateLink ==
  \A ps \in SUBSET Requests : Cycle(ps) => \E p \in ps : LateLink(p)
=============================================================================
