----------------------------- MODULE MCServices -----------------------------
(***************************************************************************)
(* Three services that share no state, explored side by side: silences,    *)
(* responder requests and the on-call calendar.  Only one of them moves in *)
(* a behaviour, because a step of one can neither enable nor disable a     *)
(* step of another; the states each one reaches are those it reaches       *)
(* alone.                                                                  *)
(***************************************************************************)
EXTENDS Integers

CONSTANTS Silences, Alerts, Requests, Intake, Job, MaxCalls, MaxDeaths
CONSTANTS Slots, Clients, MaxAnswers
CONSTANTS Day, Week, Horizon, Shift, Change, Anyday, Users, Layers

VARIABLES
    part,                                                     \* the service that moves
    silence, app, alert, group, proc, raced, calls, deaths,   \* Silence
    request, due, client, expiring, asked,                    \* Responder
    delta, layer, active, cursor, shown                       \* OnCall

S == INSTANCE Silence
R == INSTANCE Responder WITH row <- request, job <- expiring, calls <- asked,
                             MaxCalls <- MaxAnswers
O == INSTANCE OnCall

ASSUME HandlerAssumption == S!SilenceAssumption
ASSUME CalendarAssumption == O!OnCallAssumption

\* The layers of the run: two members, one of them for a part of the range or
\* moved to the first position at a later date, in every cadence and with every
\* restriction
Member(u, f, t, a) == [user |-> u, from |-> f, to |-> t, active |-> a]

SampleRosters ==
    {<<Member("alice", 0, Horizon, TRUE), Member("bob", f, t, TRUE)>> :
       f \in {0, Day + 1}, t \in {Day + 2, Horizon}}
    \cup {<<Member("bob", Day + 1, Horizon, TRUE), Member("alice", 0, Horizon, TRUE),
             Member("bob", 0, Day + 1, FALSE)>>}

SampleRestrictions ==
    [weekday : 0..(Week - 1) \cup {Anyday}, start : 0..(Day - 1), end : 0..(Day - 1)]

SampleLayers ==
    {[start |-> s, calendar |-> c[1], interval |-> c[2], members |-> m, restrictions |-> rs] :
       s \in {1, Day + 1}, c \in {<<TRUE, Day>>, <<TRUE, 2 * Day>>, <<FALSE, 3>>},
       m \in SampleRosters, rs \in {{}} \cup {{r} : r \in SampleRestrictions}}

silenceVars == <<silence, app, alert, group, proc, raced, calls, deaths>>
responderVars == <<request, due, client, expiring, asked>>
calendarVars == <<delta, layer, active, cursor, shown>>
vars == <<part, silenceVars, responderVars, calendarVars>>

-----------------------------------------------------------------------------

\* One initial state of a service with many, for the behaviours in which it rests
NoSilences == silence = [s \in Silences |-> S!NoSilence] /\ S!Init
PlainLayer ==
    /\ delta = 0
    /\ layer = CHOOSE l \in Layers : TRUE
    /\ active = {} /\ cursor = 0 /\ shown = [t \in O!Instants |-> O!Nobody]

Init ==
    /\ part \in {"silences", "responders", "calendar"}
    /\ R!Init
    /\ IF part = "silences" THEN S!Init ELSE NoSilences
    /\ IF part = "calendar" THEN O!Init ELSE PlainLayer

Silencing(A) ==
    part = "silences" /\ A /\ UNCHANGED <<part, responderVars, calendarVars>>
Answering(A) ==
    part = "responders" /\ A /\ UNCHANGED <<part, silenceVars, calendarVars>>
Drawing(A) ==
    part = "calendar" /\ A /\ UNCHANGED <<part, silenceVars, responderVars>>

Next ==
    \/ Silencing(S!Next)
    \/ Answering(R!Next)
    \/ Drawing(O!Segment)

\* The fairness of Silence
Fairness ==
    /\ \A r \in Requests : WF_vars(Silencing(S!RequestStep(r)))
    /\ WF_vars(Silencing(S!JobStep))
    /\ WF_vars(Silencing(S!IntakeStep))

Spec == Init /\ [][Next]_vars /\ Fairness

-----------------------------------------------------------------------------
(* Properties *)

\* Silence!SilenceInv: handlers of silences.py that do not overlap leave an alert
\* silenced while another silence holds it, and page a firing group that none does.
SilenceInv == S!SilenceInv

\* Silence!SilencedReleased: an alert no silence holds any more does not stay
\* silenced for ever, also when the API request that had to release it died.
SilencedReleased == S!SilencedReleased

\* Responder!AnswerStands: the expiry job of responders.py never takes an answer
\* back that came while it had the request in hand.
AnswerStands == R!AnswerStands

\* OnCall!CalendarAgrees: the person calendar_service.py shows at an instant is
\* the one oncall.py pages at that instant, where only active periods cover it.
CalendarAgrees == part = "calendar" => O!CalendarAgrees
=============================================================================
