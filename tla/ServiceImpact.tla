---------------------------- MODULE ServiceImpact ----------------------------
(***************************************************************************)
(* How bad a service is off: Service Impact v2 (services/service_catalog/  *)
(* impact.py, impact_scoring.py) over the dependency graph, and the status *)
(* of a business service (services/business_services/status.py) that is    *)
(* made of services.  A service has its own status, the open alert groups  *)
(* on it, and what its upstream services pass on, weakened by the kind of  *)
(* each dependency.  The traversal goes up to a depth and stops at cycles. *)
(*                                                                         *)
(* Texts, root cause lists and paths of the explanation are left out.      *)
(* No service depends on itself (views/services/dependencies.py).         *)
(* Multipliers and scores are in hundredths.                               *)
(***************************************************************************)
EXTENDS Integers, Sequences, FiniteSetsExt, SequencesExt

CONSTANTS
    Services,    \* the services of one group of teams
    Businesses,  \* business services
    Component,   \* Component[b]: per service of b, criticality multiplier times weight
    MaxDepth     \* how far dependencies are followed (5 in the code)

VARIABLES
    service,     \* Service: status and enabled
    deps         \* ServiceDependency: the enabled rows, in the order of the table

-----------------------------------------------------------------------------
(* impact_scoring.py *)

\* Python's round(n / d): half to even
Rounded(n, d) ==
    LET q == n \div d
        r == n % d
    IN  IF 2 * r > d \/ (2 * r = d /\ q % 2 = 1) THEN q + 1 ELSE q

\* STATUS_IMPACT_SCORE
StatusScore(status) ==
    CASE status \in {"operational", "disabled"} -> 0
      [] status \in {"maintenance", "unknown"} -> 20
      [] status = "degraded" -> 40
      [] status = "partial_outage" -> 65
      [] status = "major_outage" -> 100

\* status_from_impact_score
StatusOf(score, unknown) ==
    IF unknown /\ score < 25 THEN "unknown"
    ELSE IF score >= 80 THEN "major_outage"
    ELSE IF score >= 55 THEN "partial_outage"
    ELSE IF score >= 25 THEN "degraded"
    ELSE "operational"

\* STATUS_RANK, for max_status
Rank(status) ==
    CASE status = "disabled" -> -1
      [] status \in {"operational", "unknown"} -> 0
      [] status = "maintenance" -> 1
      [] status = "degraded" -> 2
      [] status = "partial_outage" -> 3
      [] status = "major_outage" -> 4

\* SEVERITY_IMPACT_SCORE: a group without an explicit priority
SeverityScore(severity) ==
    CASE severity = "info" -> 5 [] severity = "warning" -> 40 [] severity = "critical" -> 80

\* DEPENDENCY_IMPACT_MULTIPLIER, dependency_impact_multiplier
Multiplier(d) ==
    LET row == CASE d.type = "hard" -> <<100, 85, 65>>
                 [] d.type = "soft" -> <<75, 55, 30>>
                 [] d.type = "external" -> <<60, 40, 20>>
                 [] d.type = "informational" -> <<0, 0, 0>>
    IN  CASE d.criticality = "required" -> row[1]
          [] d.criticality = "important" -> row[2]
          [] d.criticality = "optional" -> row[3]

\* propagate_dependency_impact
Propagated(d, up) ==
    LET score == Rounded(Max({StatusScore(up.status), up.score}) * Multiplier(d), 100)
    IN  IF up.status \in {"operational", "maintenance", "disabled"} \/ Multiplier(d) = 0
        THEN [status |-> "operational", score |-> 0]
        ELSE [status |-> StatusOf(score, up.status = "unknown"), score |-> score]

-----------------------------------------------------------------------------
(* impact.py *)

Impactful(status) == status \in {"degraded", "partial_outage", "major_outage", "unknown"}

\* _primary_reason_from_scores
Reason(own, ownScore, alertScore, depScore) ==
    IF depScore > 0 /\ depScore >= ownScore /\ depScore >= alertScore
    THEN "upstream_dependency"
    ELSE IF own = "maintenance" /\ ownScore >= alertScore THEN "maintenance"
    ELSE IF Impactful(own) /\ ownScore >= alertScore THEN "own_status"
    ELSE IF alertScore > 0 THEN "alert_group"
    ELSE "none"

\* _status_for_reason
StatusFor(reason, own, depStatus, score) ==
    CASE reason = "maintenance" -> "maintenance"
      [] reason = "own_status" -> own
      [] reason = "upstream_dependency" ->
           IF Impactful(depStatus) THEN depStatus ELSE StatusOf(score, FALSE)
      [] reason = "alert_group" -> StatusOf(score, FALSE)
      [] reason = "none" -> "operational"

\* A plausible slip: the last impaired dependency counts, not the worst.
WorseLast(best, p) == p

\* The better claim of two dependencies on the status of their service
Worse(best, p) ==
    IF p.score > best.score THEN p
    ELSE IF p.score = best.score
    THEN [best EXCEPT !.status = IF Rank(p.status) > Rank(@) THEN p.status ELSE @]
    ELSE best

\* A plausible slip: what an upstream service left out is forgotten.
JoinedForgetful(acc, d, up) ==
    LET p == Propagated(d, up)
    IN  [acc EXCEPT !.cycle = @ \/ up.cycle,
                    !.best = IF Impactful(p.status) \/ p.score > 0 THEN Worse(@, p) ELSE @]

\* One turn of the loop over the dependencies of a service
Joined(acc, d, up) ==
    LET p == Propagated(d, up)
    IN  [acc EXCEPT !.cycle = @ \/ up.cycle,
                    !.limited = @ \/ up.limited,
                    !.best = IF Impactful(p.status) \/ p.score > 0 THEN Worse(@, p) ELSE @]

RECURSIVE Compute(_, _, _, _)
\* _compute_service_impact: of service s, reached over the services of path, with
\* depth dependencies still to follow, when alert[s] is the worst open group's score
Compute(s, path, depth, alert) ==
    LET own == IF service[s].status = "disabled" THEN "unknown" ELSE service[s].status
        result(best) ==
          LET score == Max({StatusScore(own), alert[s], best.score})
              reason == Reason(own, StatusScore(own), alert[s], best.score)
          IN  [status |-> StatusFor(reason, own, best.status, score), score |-> score]
        Follow(acc, d) ==
          IF d.from # s THEN acc
          ELSE IF d.to \in path THEN [acc EXCEPT !.cycle = TRUE]
          ELSE Joined(acc, d, Compute(d.to, path \cup {s}, depth - 1, alert))
        none == [status |-> "operational", score |-> 0]
        start == [best |-> none, cycle |-> FALSE, limited |-> FALSE]
        acc == FoldLeft(Follow, start, deps)
        flags(r, c, l) == [status |-> r.status, score |-> r.score, cycle |-> c, limited |-> l]
    IN  IF ~service[s].enabled
        THEN flags([status |-> "disabled", score |-> 0], FALSE, FALSE)
        ELSE IF depth <= 0 THEN flags(result(none), FALSE, TRUE)
        ELSE flags(result(acc.best), acc.cycle, acc.limited)

Impact(s, alert) == Compute(s, {}, MaxDepth, alert)

RECURSIVE Visit(_, _, _, _)
\* _blast_radius: the services that depend on s, directly or through others
Visit(seen, s, path, depth) ==
    LET Follow(acc, d) ==
          IF d.to # s \/ d.from \in path THEN acc
          ELSE Visit(acc \cup {d.from}, d.from, path \cup {d.from}, depth - 1)
    IN  IF depth <= 0 THEN seen ELSE FoldLeft(Follow, seen, deps)

BlastRadius(s) == Visit({}, s, {s}, MaxDepth)

-----------------------------------------------------------------------------
(* business_services/status.py *)

Rows == Range(deps)

\* A plausible slip: the breadth-first search stops one level early.
ReachedEarly(n, s) ==
    LET level[i \in 0..n] ==
          IF i <= 1 THEN {s}
          ELSE level[i - 1] \cup {d.from : d \in {e \in Rows : e.to \in level[i - 1]}}
    IN  level[n]

\* The loop over the frontier: the services n dependencies or less below s
Reached(n, s) ==
    LET level[i \in 0..n] ==
          IF i = 0 THEN {s}
          ELSE level[i - 1] \cup {d.from : d \in {e \in Rows : e.to \in level[i - 1]}}
    IN  level[n]

\* impacted_service_ids_for_technical_service
Impacted(s) == Reached(MaxDepth, s)

\* component_impact_score: a score of 0 is replaced by the score of the status,
\* and a status that TECHNICAL_STATUS_SCORE does not list counts 20
ComponentScore(b, s, alert) ==
    LET item == Impact(s, alert)
        base == IF item.score # 0 THEN item.score
                ELSE IF item.status = "disabled" THEN 20 ELSE 0
    IN  Rounded(base * Component[b][s], 100)

\* combined_impact_score, exact for up to two components
Combined(scores) ==
    LET Left(n, sc) == n * (100 - sc)
        k == Len(scores)
    IN  IF k = 0 THEN 0 ELSE Rounded(100 ^ k - FoldLeft(Left, 1, scores), 100 ^ (k - 1))

\* calculate_business_service_status
Calculated(b, alert) ==
    LET members == SetToSeq(DOMAIN Component[b])
    IN  IF members = << >> THEN "unknown"
        ELSE StatusOf(Combined([i \in DOMAIN members |->
                                  ComponentScore(b, members[i], alert)]), FALSE)
=============================================================================
