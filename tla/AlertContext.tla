----------------------------- MODULE AlertContext -----------------------------
(***************************************************************************)
(* What the alert lifecycle derives from the service graph after it has    *)
(* committed a change of an alert group (services/alerts/actions.py and    *)
(* lifecycle.py): correlations with other groups (alerts/correlation.py),  *)
(* the stored status of business services (business_services/status.py)    *)
(* and the impact of the group on them (business_services/impact.py).      *)
(*                                                                         *)
(* The refreshes follow the commit, one transaction or statement after the *)
(* other, on the copy of the group the request holds; an exception in one  *)
(* is logged and the request goes on, and the request may die in between.  *)
(* A silence or a maintenance window changes the status of a group with no *)
(* refresh at all (services/silences.py, alerts/maintenance_state.py), and *)
(* so does an edit of the catalogue.  A correlation looks for the other    *)
(* groups before it writes, without a lock; a business service is          *)
(* calculated under the lock of its row, also by the views that list it.   *)
(*                                                                         *)
(* A statement sees what is committed (READ COMMITTED); the application    *)
(* sets no isolation level, and MySQL's REPEATABLE READ would let a        *)
(* calculation under the lock read an older snapshot.  The only edit is    *)
(* the removal of a dependency.  The groups are of one team, the services  *)
(* have no environment, and no status is set by hand.  A group is "active" *)
(* while it is firing or acknowledged: no refresh tells the two apart.     *)
(***************************************************************************)
EXTENDS ServiceImpact

CONSTANTS
    Groups,      \* alert groups
    OnService,   \* OnService[g]: the service of group g
    Requests,    \* API requests and payloads in flight
    Severity,    \* Severity[g]: the severity of its alerts
    Catalogs,    \* service rows and dependencies to begin with
    MinScore,    \* MIN_CORRELATION_SCORE
    Removable,   \* bound: positions of the dependencies that edits remove
    MaxEvents,   \* bound: changes, edits, refreshes that raise and requests that die
    MaxTime      \* bound: clock, in units of the propagation delay

VARIABLES
    group,       \* AlertGroup: status ("suppressed": silenced or maintenance), last_seen_at
    row,         \* AlertGroupCorrelation: the active rows
    stored,      \* BusinessService.status
    impact,      \* BusinessServiceIncidentImpact: the active rows
    req,         \* per request: its next refresh and its copy of the group
    events,      \* changes, edits and failures so far
    raced,       \* history: groups whose refreshes overlapped and were not repeated since
    missed,      \* history: correlations and impacts not refreshed since the group changed
    behind,      \* history: business services not calculated since they should have been
    cut          \* history: impacts an edit has put out of the reach of their group

vars == <<service, deps, group, row, stored, impact, req, events, raced, missed, behind, cut>>

Relations == {"component_alert", "dependency_upstream_alert"}
Refreshed == {"correlate", "impacts"}
Idle == [pc |-> "idle", group |-> CHOOSE g \in Groups : TRUE, status |-> "none",
         new |-> FALSE, found |-> {}, todo |-> {}]

TypeOK ==
    /\ \A g \in Groups : group[g].status \in {"none", "active", "suppressed", "resolved"}
    /\ row \subseteq [root : Groups, related : Groups,
                      type : {"possible_root_cause", "possible_downstream_impact"}]
    /\ stored \in [Businesses -> {"unknown", "operational", "degraded",
                                  "partial_outage", "major_outage"}]
    /\ impact \subseteq Businesses \X Groups \X Relations
    /\ \A q \in Requests : req[q].pc \in {"idle", "correlate", "record", "business", "impacts",
                                       "write", "again", "rerecord"}
    /\ missed \subseteq Groups \X Refreshed /\ behind \subseteq Businesses

\* _load_alert_stats: the worst open group on each service
AlertScore ==
    [s \in Services |->
       Max({0} \cup {SeverityScore(Severity[g]) :
                       g \in {h \in Groups : OnService[h] = s /\ group[h].status = "active"}})]

-----------------------------------------------------------------------------
(* correlation.py *)

RECURSIVE Walk(_, _, _, _)
\* _collect_dependency_paths: a depth-first search that keeps the first path to
\* a service
Walk(paths, s, depth, direction) ==
    LET Here(d) == IF direction = "upstream" THEN d.from ELSE d.to
        There(d) == IF direction = "upstream" THEN d.to ELSE d.from
        Follow(acc, d) ==
          IF ~d.correlation \/ Here(d) # s \/ \E i \in DOMAIN acc : acc[i].service = There(d) THEN acc
          ELSE Walk(Append(acc, [service |-> There(d), depth |-> depth,
                                 direction |-> direction, dep |-> d]),
                    There(d), depth + 1, direction)
    IN  IF depth > MaxDepth THEN paths ELSE FoldLeft(Follow, paths, deps)

\* paths_by_service_id: per service the shorter of the two directions
PathsTo(s, t) ==
    LET all == Walk(<< >>, s, 1, "upstream") \o Walk(<< >>, s, 1, "downstream")
        found == {i \in DOMAIN all : all[i].service = t}
    IN  {all[i] : i \in {i \in found :
                           \A j \in found : all[i].depth < all[j].depth
                                            \/ (all[i].depth = all[j].depth /\ i <= j)}}

SeverityRank(severity) ==
    CASE severity = "info" -> 10 [] severity = "warning" -> 30 [] severity = "critical" -> 60

Distance(m, n) == Max({m - n, n - m})

\* _dependency_score, of group h seen from group g
Score(g, h, path) ==
    LET up == path.direction = "upstream"
        delta == Distance(group[g].seen, group[h].seen)
        worse(a, b) == SeverityRank(Severity[a]) >= SeverityRank(Severity[b])
        sum == 50
          + (IF up THEN 20 ELSE 10)
          + (IF path.depth = 1 THEN 15 ELSE IF path.depth = 2 THEN 8 ELSE Max({0, 6 - path.depth}))
          + (IF path.dep.type = "hard" THEN 10 ELSE 0)
          + (CASE path.dep.criticality = "important" -> 10
               [] path.dep.criticality = "optional" -> -10
               [] OTHER -> 0)
          + (IF delta <= 1 THEN 15 ELSE IF delta <= 2 THEN 5 ELSE -20)
          + (IF (up /\ worse(h, g)) \/ (~up /\ worse(g, h)) THEN 5 ELSE 0)
    IN  Max({0, Min({sum, 100})})

\* _relation_type_for_direction, _root_and_related_groups
RowFor(g, h, path) ==
    IF path.direction = "upstream"
    THEN [root |-> h, related |-> g, type |-> "possible_root_cause"]
    ELSE [root |-> g, related |-> h, type |-> "possible_downstream_impact"]

\* The rows _upsert_correlation writes for group g
Found(g) ==
    UNION {{RowFor(g, h, p) : p \in {x \in PathsTo(OnService[g], OnService[h]) :
                                       Score(g, h, x) >= MinScore}} :
             h \in {k \in Groups \ {g} : group[k].status = "active"}}

\* A plausible slip: only the rows in which the group is the symptom end.
TouchingRelated(g) == {r \in row : r.related = g}

\* _deactivate_stale_correlations: the rows it looks at
Touching(g) == {r \in row : r.root = g \/ r.related = g}

-----------------------------------------------------------------------------
(* business_services/impact.py *)

\* refresh_business_impacts_for_group: what it writes for an active group
Affected(g) ==
    {<<b, g, IF s = OnService[g] THEN "component_alert" ELSE "dependency_upstream_alert">> :
       <<b, s>> \in {x \in Businesses \X Impacted(OnService[g]) : x[2] \in DOMAIN Component[x[1]]}}

ImpactsOf(g) == {i \in impact : i[2] = g}

\* refresh_business_services_for_technical_service: the business services with a
\* component that the group's service can impair
Dependent(g) == {b \in Businesses : DOMAIN Component[b] \cap Impacted(OnService[g]) # {}}

-----------------------------------------------------------------------------

Init ==
    /\ \E c \in Catalogs : service = c.service /\ deps = c.deps
    /\ group = [g \in Groups |-> [status |-> "none", seen |-> 0]]
    /\ row = {}
    /\ stored = [b \in Businesses |-> Calculated(b, [s \in Services |-> 0])]
    /\ impact = {}
    /\ req = [q \in Requests |-> Idle]
    /\ events = 0
    /\ raced = {} /\ missed = {} /\ behind = {} /\ cut = {}

-----------------------------------------------------------------------------
(* The committed change of a group *)

\* Groups that may be left with an old picture when group g changes now: g when
\* another request still refreshes it, and g and the other group when a request
\* has looked for correlations and not written them
Overlapping(g) ==
    UNION {IF req[p].pc \in {"record", "rerecord"} THEN {g, req[p].group}
           ELSE IF req[p].pc # "idle" /\ req[p].group = g THEN {g} ELSE {} : p \in Requests}

\* Request q has committed group g with status s and goes on to the refreshes.
Committed(q, g, s, new) ==
    /\ req[q].pc = "idle" /\ events < MaxEvents
    /\ events' = events + 1
    /\ req' = [req EXCEPT ![q] = [pc |-> "correlate", group |-> g, status |-> s,
                                  new |-> new, found |-> {}, todo |-> {}]]
    /\ raced' = (raced \ {g}) \cup Overlapping(g)
                \cup (IF \E p \in Requests : req[p].pc # "idle" THEN raced ELSE {})
    /\ UNCHANGED <<service, deps, row, stored, impact, missed, behind, cut>>

\* A payload with a new alert opens or reopens the group, or ends its silence; the
\* new alert may itself be silenced.  The clock moves with repeated payloads.
Open(q, g, s) ==
    /\ group[g].status \in {"none", "resolved"} \/ (group[g].status = "suppressed" /\ s = "active")
    /\ group' = [group EXCEPT ![g] = [status |-> s, seen |-> Max({group[h].seen : h \in Groups})]]
    /\ Committed(q, g, s, TRUE)

\* A repeated payload of an open group, much later than the others
Repeat(q, g) ==
    /\ group[g].status \notin {"none", "resolved"}
    /\ group' = [group EXCEPT ![g].seen = MaxTime]
    /\ Committed(q, g, group[g].status, FALSE)

Acknowledge(q, g) ==
    /\ group[g].status \notin {"none", "resolved"}
    /\ group' = [group EXCEPT ![g].status = "active"]
    /\ Committed(q, g, "active", FALSE)

Resolve(q, g) ==
    /\ group[g].status \notin {"none", "resolved"}
    /\ group' = [group EXCEPT ![g].status = "resolved"]
    /\ Committed(q, g, "resolved", FALSE)

\* Group g has changed and nothing is refreshed.
Unrefreshed(g) ==
    /\ events < MaxEvents
    /\ events' = events + 1
    /\ raced' = raced \cup Overlapping(g)
    /\ missed' = missed \cup ({g} \X Refreshed)
    /\ behind' = behind \cup Dependent(g)
    /\ UNCHANGED <<service, deps, row, stored, impact, req, cut>>

\* A silence is applied to the alerts of the group, or a maintenance window begins.
Suppress(g) ==
    /\ group[g].status = "active"
    /\ group' = [group EXCEPT ![g].status = "suppressed"]
    /\ Unrefreshed(g)

\* The silence is released or the window ends.
Release(g) ==
    /\ group[g].status = "suppressed"
    /\ group' = [group EXCEPT ![g].status = "active"]
    /\ Unrefreshed(g)

\* delete_service_dependency: nothing is refreshed.
Edit(i) ==
    /\ events < MaxEvents
    /\ events' = events + 1
    /\ deps' = RemoveAt(deps, i)
    /\ raced' = raced \cup {req[q].group : q \in {p \in Requests : req[p].pc # "idle"}}
    /\ missed' = Groups \X Refreshed
    /\ behind' = Businesses
    /\ cut' = cut \cup UNION {Affected(g) \ Affected(g)' : g \in Groups}
    /\ UNCHANGED <<service, group, row, stored, impact, req>>

-----------------------------------------------------------------------------
(* The refreshes *)

Goto(q, pc, todo) ==
    req' = [req EXCEPT ![q] = IF pc = "idle" THEN Idle ELSE [@ EXCEPT !.pc = pc, !.found = {}, !.todo = todo]]

\* The handler of a new alert correlates a second time at its end.
AfterImpacts(q) == IF req[q].new THEN "again" ELSE "idle"

Done(q, step) == missed' = missed \ {<<req[q].group, step>>}

\* refresh_alert_group_correlations, with the request's copy of the group: it
\* collects the paths and the active groups ...
Correlate(q) ==
    /\ req[q].pc \in {"correlate", "again"}
    /\ req' = [req EXCEPT ![q] = [@ EXCEPT
                 !.pc = IF @ = "correlate" THEN "record" ELSE "rerecord",
                 !.found = IF req[q].status = "active" THEN Found(req[q].group) ELSE {}]]
    /\ UNCHANGED <<service, deps, group, row, stored, impact, events, raced, missed, behind, cut>>

\* ... and writes what it found and ends the other rows of the group.
Record(q) ==
    /\ req[q].pc \in {"record", "rerecord"}
    /\ row' = (row \ Touching(req[q].group)) \cup req[q].found
    /\ Goto(q, IF req[q].pc = "record" THEN "business" ELSE "idle", {})
    /\ Done(q, "correlate")
    /\ UNCHANGED <<service, deps, group, stored, impact, events, raced, behind, cut>>

\* refresh_business_services_for_technical_service: apply_business_service_status
\* of every business service with a component the group's service can impair
RefreshBusiness(q) ==
    LET bs == Dependent(req[q].group)
    IN  /\ req[q].pc = "business"
        /\ stored' = [b \in Businesses |-> IF b \in bs THEN Calculated(b, AlertScore) ELSE stored[b]]
        /\ Goto(q, "impacts", {})
        /\ behind' = behind \ bs
        /\ UNCHANGED <<service, deps, group, row, impact, events, raced, missed, cut>>

\* The views that list or show a business service calculate it first.
View(b) ==
    /\ stored' = [stored EXCEPT ![b] = Calculated(b, AlertScore)]
    /\ behind' = behind \ {b}
    /\ UNCHANGED <<service, deps, group, row, impact, req, events, raced, missed, cut>>

\* refresh_business_impacts_for_group: an inactive copy, or nothing to write,
\* ends all impacts of the group; otherwise the impacts are written one by one,
\* and one that is not among them is left as it is
PlanImpacts(q) ==
    LET g == req[q].group
        todo == IF req[q].status = "active" THEN Affected(g) ELSE {}
    IN  /\ req[q].pc = "impacts"
        /\ impact' = IF todo = {} THEN impact \ ImpactsOf(g) ELSE impact
        /\ cut' = IF todo = {} THEN cut \ ImpactsOf(g) ELSE cut
        /\ Goto(q, IF todo = {} THEN AfterImpacts(q) ELSE "write", todo)
        /\ IF todo = {} THEN Done(q, "impacts") ELSE missed' = missed
        /\ UNCHANGED <<service, deps, group, row, stored, events, raced, behind>>

\* _upsert_business_impact; the writes commute, so one order stands for all
WriteImpact(q) ==
    LET i == CHOOSE x \in req[q].todo : TRUE
        rest == req[q].todo \ {i}
    IN  /\ req[q].pc = "write"
        /\ impact' = impact \cup {i}
        /\ Goto(q, IF rest = {} THEN AfterImpacts(q) ELSE "write", rest)
        /\ IF rest = {} THEN Done(q, "impacts") ELSE missed' = missed
        /\ UNCHANGED <<service, deps, group, row, stored, events, raced, behind, cut>>

\* The refreshes of request q that steps at the stages pcs would have done are lost.
Lost(q, pcs) ==
    LET g == req[q].group
    IN  /\ req[q].pc # "idle" /\ events < MaxEvents
        /\ events' = events + 1
        /\ missed' = missed \cup {<<g, step>> : step \in pcs \cap Refreshed}
        /\ behind' = behind \cup (IF "business" \in pcs THEN Dependent(g) ELSE {})
        /\ UNCHANGED <<service, deps, group, row, stored, impact, raced, cut>>

\* A refresh raises: its transaction is rolled back, impacts written so far stay,
\* the exception is logged and the request goes on.
Raise(q) ==
    CASE req[q].pc \in {"correlate", "record"} -> Lost(q, {"correlate"}) /\ Goto(q, "business", {})
      [] req[q].pc = "business" -> Lost(q, {"business"}) /\ Goto(q, "impacts", {})
      [] req[q].pc \in {"impacts", "write"} -> Lost(q, {"impacts"}) /\ Goto(q, AfterImpacts(q), {})
      [] OTHER -> Lost(q, {}) /\ Goto(q, "idle", {})

\* The process ends between the commit and the last refresh.
Die(q) ==
    /\ Lost(q, CASE req[q].pc \in {"correlate", "record"} -> {"correlate", "business", "impacts"}
                 [] req[q].pc = "business" -> {"business", "impacts"}
                 [] req[q].pc \in {"impacts", "write"} -> {"impacts"}
                 [] OTHER -> {})
    /\ Goto(q, "idle", {})

Change(q) ==
    \E g \in Groups :
      \/ \E s \in {"active", "suppressed"} : Open(q, g, s)
      \/ Repeat(q, g) \/ Acknowledge(q, g) \/ Resolve(q, g)

Refresh(q) ==
    \/ Correlate(q) \/ Record(q) \/ RefreshBusiness(q) \/ PlanImpacts(q) \/ WriteImpact(q)
    \/ Raise(q) \/ Die(q)

Next ==
    \/ \E q \in Requests : Change(q) \/ Refresh(q)
    \/ \E g \in Groups : Suppress(g) \/ Release(g)
    \/ \E i \in Removable \cap DOMAIN deps : Edit(i)
    \/ \E b \in Businesses : View(b)

Spec == Init /\ [][Next]_vars

-----------------------------------------------------------------------------
(* Properties *)

Quiet == \A q \in Requests : req[q].pc = "idle"

Busy(g, step) ==
    \/ g \in raced \/ <<g, step>> \in missed
    \/ \E q \in Requests : req[q].pc # "idle" /\ req[q].group = g

Qualifies(g, h) ==
    \E p \in PathsTo(OnService[g], OnService[h]) : Score(g, h, p) >= MinScore

\* Two open groups are correlated by one active row at most, whatever cycles
\* and directions join their services, by exactly one when each would find the
\* other, and groups that are not open by none (_deactivate_stale_correlations).
CorrelationAgrees ==
    \A g, h \in Groups :
      g # h /\ ~Busy(g, "correlate") /\ ~Busy(h, "correlate") =>
        LET n == Cardinality({r \in row : {r.root, r.related} = {g, h}})
            open == {group[g].status, group[h].status} = {"active"}
        IN  /\ n <= 1
            /\ open /\ Qualifies(g, h) /\ Qualifies(h, g) => n = 1
            /\ ~open \/ (~Qualifies(g, h) /\ ~Qualifies(h, g)) => n = 0

\* A group that is over has no active impact on a business service; an open one
\* has those its service reaches over the graph and, until it is over, those an
\* edit has put out of its reach, which no refresh ends.
ImpactsAgree ==
    \A g \in Groups : ~Busy(g, "impacts") =>
      IF group[g].status = "active"
      THEN Affected(g) \subseteq ImpactsOf(g) /\ ImpactsOf(g) \subseteq Affected(g) \cup cut
      ELSE ImpactsOf(g) = {}

\* What the documentation says: an impact that no longer reaches the business
\* service ends with the next refresh of its group.
ImpactEnds ==
    \A g \in Groups : ~Busy(g, "impacts") => ImpactsOf(g) \subseteq Affected(g)

\* The stored status of a business service is the one a reader would calculate,
\* also after overlapping requests: the search for the services to refresh
\* reaches whatever the search for upstream impact reaches.  Left out are the
\* services a silence, a window, an edit or a lost refresh has left behind and
\* nobody has looked at since.
BusinessCurrent ==
    (\A q \in Requests : req[q].pc \notin {"correlate", "record", "business"})
    => \A b \in Businesses \ behind : stored[b] = Calculated(b, AlertScore)

\* An answer that does not say depth_limited is the one without a limit, and the
\* blast radius of a service is the set whose business services are refreshed.
FlagsHonest ==
    Quiet => \A s \in Services :
      LET here == Impact(s, AlertScore)
          full == Compute(s, {}, 2 * MaxDepth + 1, AlertScore)
      IN  /\ ~here.limited => here.score = full.score /\ here.cycle = full.cycle
          /\ BlastRadius(s) = Impacted(s) \ {s}

\* When no handler is at work and no refresh was left out, lost or overtaken since
\* the last change of a group or of the catalogue, what correlation.py and
\* business_services/impact.py have stored is what they would find now; business
\* statuses are current, impact flags honest.
ContextInv ==
    TypeOK /\ CorrelationAgrees /\ ImpactsAgree /\ BusinessCurrent /\ FlagsHonest

\* An alert group that opens never lowers the impact score of a service, as long
\* as no own status is unknown (an unknown status gives way to a smaller upstream
\* impact and is then passed on no more).
WorseNeverHelps ==
    [][/\ AlertScore' # AlertScore
       /\ \A s \in Services : service[s].status # "unknown"
       /\ \A s \in Services : AlertScore'[s] >= AlertScore[s]
       => \A s \in Services : Impact(s, AlertScore').score >= Impact(s, AlertScore).score]_vars

=============================================================================
