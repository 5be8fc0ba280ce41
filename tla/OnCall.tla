------------------------------- MODULE OnCall -------------------------------
(***************************************************************************)
(* Who is on call in one layer of a rotation, computed twice by the code:  *)
(* for an instant when somebody has to be paged (services/oncall.py), and  *)
(* for a range when the calendar is drawn (services/calendar_service.py).  *)
(* Both use the slots of services/rotation_schedule.py.                    *)
(*                                                                         *)
(* Time is counted in units (the code's are minutes); a day has Day of     *)
(* them and a week Week days.  Local time is UTC until Shift and differs   *)
(* from it by delta afterwards, which is a change to or from daylight      *)
(* saving time: local times are skipped or come twice.                     *)
(***************************************************************************)
EXTENDS Integers, Sequences, FiniteSetsExt

CONSTANTS
    Day,      \* units of a day
    Week,     \* days of a week
    Horizon,  \* bound: the range a calendar is drawn for is 0..Horizon-1
    Shift,    \* instant of the clock change
    Change,   \* units the clock is put forward or back
    Anyday,   \* a restriction without a weekday
    Users,    \* people on call
    Layers    \* the layers a calendar is drawn for

VARIABLES
    delta,    \* what the clock change adds to local time
    layer,    \* the layer: anchor, cadence, members and restrictions
    active,   \* the instants of the layer's active windows
    cursor,   \* how far the calendar is drawn
    shown     \* shown[t]: who the calendar shows at instant t

vars == <<delta, layer, active, cursor, shown>>

Nobody == "nobody"
Instants == 0..(Horizon - 1)
Deltas == {-Change, 0, Change}

\* RotationLayerMember: a membership period covers from <= t < to; active is the
\* flag of the row and of its user.  add_rotation_layer_member clears it at once
\* in a period that it ends at a later date.
Periods == [user : Users, from : Nat, to : Nat, active : BOOLEAN]

\* RotationLayerRestriction, the times in units since midnight
Restrictions == [weekday : 0..(Week - 1) \cup {Anyday},
                 start : 0..(Day - 1), end : 0..(Day - 1)]

\* RotationLayer with its members in order of position; a calendar layer hands
\* over every so many days at the same local time, any other after a duration.
LayerRows == [start : Nat, calendar : BOOLEAN, interval : Nat \ {0},
              members : Seq(Periods), restrictions : SUBSET Restrictions]

OnCallAssumption ==
    /\ {Day, Week} \subseteq Nat \ {0} /\ {Horizon, Shift, Change} \subseteq Nat
    /\ Change <= Day
    /\ Layers \subseteq LayerRows
    /\ \A l \in Layers : l.calendar => \E n \in 1..l.interval : l.interval = n * Day

TypeOK ==
    /\ delta \in Deltas
    /\ layer \in Layers
    /\ active \subseteq Instants
    /\ cursor \in 0..Horizon
    /\ shown \in [Instants -> Users \cup {Nobody}]

-----------------------------------------------------------------------------
(* Clocks: zoneinfo conversions, the first of two readings when ambiguous *)

ToLocal(t) == t + (IF t < Shift THEN 0 ELSE delta)
ToUtc(l) == IF l < Shift + Max({delta, 0}) THEN l ELSE l - delta

Weekday(l) == (l \div Day) % Week
TimeOfDay(l) == l % Day

-----------------------------------------------------------------------------
(* rotation_schedule.py *)

NotStarted == -100

\* layer_slot_index
SlotIndex(at) ==
    IF at < ToUtc(layer.start) THEN NotStarted
    ELSE IF layer.calendar THEN (ToLocal(at) - layer.start) \div layer.interval
    ELSE (at - ToUtc(layer.start)) \div layer.interval

\* A plausible slip: the boundary of the current slot, in UTC steps.
NextBoundaryFixed(at) ==
    ToUtc(layer.start) + layer.interval * (SlotIndex(at) + 1)

\* next_layer_boundary_utc
NextBoundary(at) ==
    IF at < ToUtc(layer.start) THEN ToUtc(layer.start)
    ELSE IF layer.calendar
    THEN ToUtc(layer.start + layer.interval * (SlotIndex(at) + 1))
    ELSE ToUtc(layer.start) + layer.interval * (SlotIndex(at) + 1)

\* get_effective_layer_members_at
Present(at) ==
    {i \in DOMAIN layer.members : layer.members[i].from <= at /\ at < layer.members[i].to}

\* The position with n smaller ones in the set
Nth(positions, n) == CHOOSE i \in positions : Cardinality({j \in positions : j < i}) = n

\* The member whose turn it is
UserOf(positions, at) ==
    IF positions = {} \/ SlotIndex(at) = NotStarted THEN Nobody
    ELSE layer.members[Nth(positions, SlotIndex(at) % Cardinality(positions))].user

-----------------------------------------------------------------------------
(* oncall.py *)

\* _restriction_matches
Matches(r, l) ==
    LET now == TimeOfDay(l)
        today == r.weekday \in {Anyday, Weekday(l)}
        sinceYesterday == r.weekday \in {Anyday, (Weekday(l) - 1) % Week}
    IN  IF r.start = r.end THEN today
        ELSE IF r.start < r.end THEN today /\ r.start <= now /\ now < r.end
        ELSE (today /\ now >= r.start) \/ (sinceYesterday /\ now < r.end)

\* is_layer_active_now
ActiveAt(at) == layer.restrictions = {} \/ \E r \in layer.restrictions : Matches(r, ToLocal(at))

\* list_rotation_layer_members, which asks for active rows and users
OnDuty(at) == {i \in Present(at) : layer.members[i].active}

\* get_scheduled_oncall_user and get_scheduled_oncall_user_for_layer
OnCallUser(at) == IF ActiveAt(at) THEN UserOf(OnDuty(at), at) ELSE Nobody

-----------------------------------------------------------------------------
(* calendar_service.py *)

\* restriction_window_for_day, before it is clipped to the range
WindowOf(r, day) ==
    LET midnight == day * Day
        last == IF r.start = r.end THEN midnight + Day
                ELSE IF r.start < r.end THEN midnight + r.end
                ELSE midnight + Day + r.end
        first == IF r.start = r.end THEN midnight ELSE midnight + r.start
    IN  <<ToUtc(first), ToUtc(last)>>

\* iter_local_days
Days == (ToLocal(0) \div Day) - 1 .. (ToLocal(Horizon) \div Day) + 1

\* get_layer_active_windows and merge_windows: the instants the windows of the
\* range cover; a merged window is a maximal run of them
Covered ==
    {t \in Instants :
       layer.restrictions # {} =>
         \E r \in layer.restrictions, d \in Days :
           /\ r.weekday \in {Anyday, d % Week}
           /\ WindowOf(r, d)[1] <= t /\ t < WindowOf(r, d)[2]}

\* get_layer_user_at, on the periods of list_rotation_layer_member_periods
UserAt(at) == UserOf(Present(at), at)

WindowEnd(at) == Min({t \in at..Horizon : t \notin active})

\* get_next_layer_member_boundary
MemberBoundary(at, fallback) ==
    Min({fallback} \cup {b \in UNION {{layer.members[i].from, layer.members[i].to} :
                                        i \in DOMAIN layer.members} :
                           at < b /\ b < fallback})

\* build_layer_candidate_events: where the segment that begins at `at` ends
SegmentEnd(at, end) ==
    LET next == Min({NextBoundary(at), MemberBoundary(at, end), end})
    IN  IF next <= at THEN Min({at + layer.interval, end}) ELSE next

\* build_layer_candidate_events: one turn of its loop over the windows
Segment ==
    /\ cursor < Horizon
    /\ LET from == Max({cursor, ToUtc(layer.start)})
           at == Min({t \in active : t >= from} \cup {Horizon})
           end == SegmentEnd(at, WindowEnd(at))
       IN  /\ shown' = [t \in Instants |->
                          IF at <= t /\ t < end THEN UserAt(at) ELSE shown[t]]
           /\ cursor' = end
    /\ UNCHANGED <<delta, layer, active>>

-----------------------------------------------------------------------------

Init ==
    /\ delta \in Deltas
    /\ layer \in Layers
    /\ active = Covered
    /\ cursor = 0
    /\ shown = [t \in Instants |-> Nobody]

Spec == Init /\ [][Segment]_vars

-----------------------------------------------------------------------------
(* Properties *)

\* The first local time the clock change repeats or skips
Span == IF delta < 0 THEN Shift - Change ELSE Shift

\* The time of day of l lies inside the hour that is repeated or skipped.
Changed(l) == delta # 0 /\ \E x \in 1..(Change - 1) : (Span + x) % Day = l % Day

\* No handoff and no edge of a restriction lies inside the changed hour.
Clean ==
    /\ layer.calendar => ~Changed(layer.start)
    /\ \A r \in layer.restrictions :
         IF r.start = r.end THEN ~Changed(0) ELSE ~Changed(r.start) /\ ~Changed(r.end)

\* The calendar tells the truth: whom it shows at an instant is whom a page at
\* that instant goes to, across handoffs, changes of members, overnight
\* restrictions, week ends and a clock change, unless a period that is not
\* active covers the instant.
CalendarAgrees ==
    cursor = Horizon /\ Clean =>
      \A t \in Instants : OnDuty(t) = Present(t) => shown[t] = OnCallUser(t)
=============================================================================
