----------------------------- MODULE HoldProofs -----------------------------
(***************************************************************************)
(* Shelves, maintenance windows and the escalation timer, for any number   *)
(* of windows, rules and commands: a group is in maintenance only while an *)
(* application holds it there, the expiry job ends no running shelf, and   *)
(* nothing restarts the timer while a window still pauses the group.       *)
(***************************************************************************)
EXTENDS Hold, TLAPS

-----------------------------------------------------------------------------
(* Updates of a group row *)

\* A row keeps its status, and its timer runs only if it ran or nothing pauses it.
Keeps(g, new, paused) ==
  /\ new \in Row /\ new.status = g.status
  /\ new.timer = "running" => g.timer = "running" \/ ~paused

\* clear_alert_group_notification, pause_notification_lifecycle and the other
\* assignments of one column.
LEMMA Columns ==
  ASSUME NEW g \in Row
  PROVE  /\ Unqueued(g) \in Row /\ Unqueued(g).status = g.status /\ Unqueued(g).timer = g.timer
         /\ Pause(g) \in Row /\ Pause(g).status = g.status /\ Pause(g).timer = "none"
         /\ [g EXCEPT !.timer = "none"] \in Row /\ [g EXCEPT !.timer = "none"].status = g.status
         /\ [g EXCEPT !.timer = "none"].timer = "none"
         /\ \A b \in BOOLEAN : /\ [g EXCEPT !.pending = b] \in Row /\ [g EXCEPT !.pending = b].status = g.status
                               /\ [g EXCEPT !.pending = b].timer = g.timer
         /\ [g EXCEPT !.suppressed = FALSE] \in Row /\ [g EXCEPT !.suppressed = FALSE].status = g.status
         /\ [g EXCEPT !.suppressed = FALSE].timer = g.timer
         /\ \A s \in Statuses : /\ [g EXCEPT !.status = s] \in Row /\ [g EXCEPT !.status = s].status = s
                                /\ [g EXCEPT !.status = s].timer = g.timer
BY DEF Row, Unqueued, Pause

\* get_next_escalation_at.
LEMMA RestartedRow ==
  ASSUME NEW g \in Row, NEW paused \in BOOLEAN
  PROVE  /\ Restarted(g, paused) \in Row /\ Restarted(g, paused).status = g.status
         /\ Restarted(g, paused).timer = "running" => ~paused
BY DEF Row, Restarted

\* resume_notification_lifecycle.
LEMMA ResumeKeeps ==
  ASSUME NEW g \in Row, NEW suppressed \in BOOLEAN, NEW paused \in BOOLEAN
  PROVE  Keeps(g, Resume(g, suppressed, paused), paused)
<1>1. CASE g.suppressed /\ ~suppressed
  <2>1. PICK h \in Row : /\ h = Restarted(g, paused) /\ h.status = g.status
                         /\ h.timer = "running" => ~paused
    BY RestartedRow
  <2>2. Resume(g, suppressed, paused) = [h EXCEPT !.suppressed = FALSE]
    BY <1>1, <2>1 DEF Resume
  <2>3. PICK n \in Row : n = [h EXCEPT !.suppressed = FALSE] /\ n.status = h.status /\ n.timer = h.timer
    BY <2>1, Columns
  <2>4. Keeps(g, n, paused)
    BY <2>1, <2>3 DEF Keeps
  <2> QED BY <2>2, <2>3, <2>4
<1>2. CASE ~(g.suppressed /\ ~suppressed)
  BY <1>2 DEF Resume, Keeps
<1> QED BY <1>1, <1>2

\* schedule_group_notification.
LEMMA ScheduleKeeps ==
  ASSUME NEW g \in Row, NEW suppressed \in BOOLEAN, NEW paused \in BOOLEAN
  PROVE  Keeps(g, Schedule(g, suppressed, paused), paused)
<1>1. CASE Shelved
  <2>1. PICK h \in Row : h = Unqueued(g) /\ h.status = g.status
    BY Columns
  <2>2. Schedule(g, suppressed, paused) = [h EXCEPT !.timer = "none"]
    BY <1>1, <2>1 DEF Schedule
  <2> QED BY <2>1, <2>2, Columns DEF Keeps
<1>2. CASE ~Shelved /\ suppressed
  BY <1>2, Columns DEF Schedule, Keeps
<1>3. CASE ~Shelved /\ ~suppressed
  <2>1. PICK h \in Row : h = Resume(g, suppressed, paused) /\ Keeps(g, h, paused)
    BY ResumeKeeps DEF Keeps
  <2>2. PICK b \in BOOLEAN : b = (g.status = "firing")
    OBVIOUS
  <2>3. Schedule(g, suppressed, paused) = [h EXCEPT !.pending = b]
    BY <1>3, <2>1, <2>2 DEF Schedule
  <2>4. PICK n \in Row : n = [h EXCEPT !.pending = b] /\ n.status = h.status /\ n.timer = h.timer
    BY <2>1, Columns
  <2>5. Keeps(g, n, paused)
    BY <2>1, <2>4 DEF Keeps
  <2> QED BY <2>3, <2>4, <2>5
<1> QED BY <1>1, <1>2, <1>3

\* _recompute_group_effects: the status follows from the effects that are left,
\* and an effect that pauses escalation stops the timer.
LEMMA RecomputedRow ==
  ASSUME NEW g \in Row, NEW B, NEW fallback \in {"firing", "acknowledged"}, NEW notify \in BOOLEAN
  PROVE  LET new == Recomputed(g, B, fallback, notify)
         IN  /\ new \in Row
             /\ new.status = StatusUnder(g, Incident \in B, fallback)
             /\ B \cap PausedBehaviours # {} => new.timer # "running"
<1> DEFINE suppress == Suppress \in B
           incident == Incident \in B
           pause == B \cap PausedBehaviours # {}
           moved == [g EXCEPT !.status = StatusUnder(g, incident, fallback)]
           flow == IF suppress THEN Pause(moved) ELSE Resume(moved, FALSE, pause)
           timed == IF pause \/ flow.status = "firing" THEN Restarted(flow, pause) ELSE flow
           queued == IF incident THEN [Unqueued(timed) EXCEPT !.timer = "none"] ELSE timed
           new == Recomputed(g, B, fallback, notify)
<1>1. PICK s \in Statuses : s = StatusUnder(g, incident, fallback)
  BY DEF StatusUnder, Statuses, Row
<1>2. moved \in Row /\ moved.status = s
  BY <1>1, Columns
<1>3. suppress \in BOOLEAN /\ incident \in BOOLEAN /\ pause \in BOOLEAN
  OBVIOUS
<1> HIDE DEF suppress, incident, pause, moved
<1>4. flow \in Row /\ flow.status = s
  <2>1. Resume(moved, FALSE, pause) \in Row /\ Resume(moved, FALSE, pause).status = s
    BY <1>2, <1>3, ResumeKeeps DEF Keeps
  <2> QED BY <1>2, <2>1, <1>3, Columns
<1> HIDE DEF flow
<1>5. timed \in Row /\ timed.status = s /\ (pause => timed.timer # "running")
  BY <1>3, <1>4, RestartedRow
<1> HIDE DEF timed
<1>6. queued \in Row /\ queued.status = s /\ (pause => queued.timer # "running")
  <2>1. PICK h \in Row : h = Unqueued(timed) /\ h.status = s
    BY <1>3, <1>5, Columns
  <2>2. [h EXCEPT !.timer = "none"] \in Row /\ [h EXCEPT !.timer = "none"].status = s /\ [h EXCEPT !.timer = "none"].timer = "none"
    BY <1>3, <2>1, Columns
  <2> QED BY <1>5, <2>1, <2>2
<1> HIDE DEF queued
<1>7. new = IF notify /\ queued.status = "firing" /\ ~suppress /\ ~incident
            THEN Schedule(queued, FALSE, pause) ELSE queued
  BY DEF Recomputed, queued, timed, flow, moved, pause, incident, suppress
<1>8. Keeps(queued, Schedule(queued, FALSE, pause), pause)
  BY <1>3, <1>6, ScheduleKeeps
<1>9. new \in Row /\ new.status = s /\ (pause => new.timer # "running")
  BY <1>6, <1>7, <1>8 DEF Keeps
<1> QED BY <1>1, <1>9 DEF pause, incident

-----------------------------------------------------------------------------
(* The applications in force *)

\* A window's application is put first.
LEMMA Prepend ==
  ASSUME NEW h \in Seq(Windows), IsInjective(h), NEW w \in Windows, w \notin ToSet(h)
  PROVE  /\ <<w>> \o h \in Seq(Windows) /\ IsInjective(<<w>> \o h)
         /\ ToSet(<<w>> \o h) = ToSet(h) \cup {w}
<1> DEFINE n == <<w>> \o h
<1>1. /\ n \in Seq(Windows) /\ Len(n) = Len(h) + 1 /\ Len(h) \in Nat /\ DOMAIN n = 1 .. Len(n) /\ DOMAIN h = 1 .. Len(h)
      /\ n[1] = w /\ \A i \in 1 .. Len(h) : n[i + 1] = h[i]
  OBVIOUS
<1> HIDE DEF n
<1>2. \A j \in 1 .. Len(n) : j # 1 => j - 1 \in 1 .. Len(h) /\ n[j] = h[j - 1]
  BY <1>1
<1>3. \A i \in 1 .. Len(h) : h[i] # w
  BY <1>1 DEF ToSet
<1>4. IsInjective(n)
  <2> SUFFICES ASSUME NEW a \in 1 .. Len(n), NEW b \in 1 .. Len(n), n[a] = n[b] PROVE a = b
    BY <1>1 DEF IsInjective
  <2>1. CASE a = 1 \/ b = 1
    BY <1>1, <1>2, <1>3, <2>1
  <2>2. CASE a # 1 /\ b # 1
    <3>1. a - 1 \in 1 .. Len(h) /\ b - 1 \in 1 .. Len(h) /\ h[a - 1] = h[b - 1]
      BY <1>2, <2>2
    <3>2. \A i, j \in 1 .. Len(h) : h[i] = h[j] => i = j
      BY <1>1 DEF IsInjective
    <3>3. a - 1 = b - 1
      BY <3>1, <3>2
    <3>4. Len(n) \in Nat
      BY <1>1
    <3> QED BY <3>3, <3>4
  <2> QED BY <2>1, <2>2
<1>5. ASSUME NEW x \in ToSet(n) PROVE x \in ToSet(h) \cup {w}
  <2>1. PICK j \in 1 .. Len(n) : x = n[j]
    BY <1>1 DEF ToSet
  <2>2. CASE j = 1
    BY <1>1, <2>1, <2>2
  <2>3. CASE j # 1
    BY <1>1, <1>2, <2>1, <2>3 DEF ToSet
  <2> QED BY <2>2, <2>3
<1>6. ToSet(h) \cup {w} \subseteq ToSet(n)
  <2>1. \A i \in 1 .. Len(h) : i + 1 \in 1 .. Len(n)
    BY <1>1
  <2>2. 1 \in 1 .. Len(n)
    BY <1>1
  <2> QED BY <1>1, <2>1, <2>2 DEF ToSet
<1> QED BY <1>1, <1>4, <1>5, <1>6 DEF n

\* What a concatenation holds.
LEMMA Joined ==
  ASSUME NEW a \in Seq(Windows), NEW b \in Seq(Windows)
  PROVE  /\ a \o b \in Seq(Windows) /\ Len(a \o b) = Len(a) + Len(b)
         /\ \A j \in 1 .. Len(b) : (a \o b)[Len(a) + j] = b[j]
OBVIOUS

\* Its front is the first one.
LEMMA JoinedFront ==
  ASSUME NEW a \in Seq(Windows), NEW b \in Seq(Windows)
  PROVE  \A i \in 1 .. Len(a) : (a \o b)[i] = a[i]
OBVIOUS

\* It is taken out again.
LEMMA HeldRemoved ==
  ASSUME NEW h \in Seq(Windows), IsInjective(h), NEW w \in ToSet(h),
         NEW n, n = RemoveAt(h, CHOOSE i \in DOMAIN h : h[i] = w)
  PROVE  n \in Seq(Windows) /\ IsInjective(n) /\ ToSet(n) = ToSet(h) \ {w}
<1>0. Len(h) \in Nat /\ DOMAIN h = 1 .. Len(h)
  OBVIOUS
<1>1. PICK k \in 1 .. Len(h) : k = (CHOOSE i \in DOMAIN h : h[i] = w) /\ h[k] = w
  BY <1>0 DEF ToSet
<1> DEFINE a == SubSeq(h, 1, k - 1)
           b == SubSeq(h, k + 1, Len(h))
           L == Len(h)
<1>2. k \in Nat /\ L \in Nat /\ 1 <= k /\ k <= L
  BY <1>0, <1>1
<1>a. a \in Seq(Windows) /\ Len(a) = k - 1
  BY <1>0, <1>1
<1>b. b \in Seq(Windows) /\ Len(b) = L - k
  BY <1>0, <1>1
<1>c. \A i \in 1 .. k - 1 : a[i] = h[i]
  BY <1>0, <1>1
<1>d. \A i \in 1 .. L - k : b[i] = h[i + k]
  BY <1>0, <1>1
<1>4. n = a \o b
  BY <1>1 DEF RemoveAt, a, b
<1> HIDE DEF a, b, L
<1>5. n \in Seq(Windows) /\ Len(n) = L - 1 /\ DOMAIN n = 1 .. L - 1
  <2>1. n \in Seq(Windows) /\ Len(n) = Len(a) + Len(b)
    <3>1. a \o b \in Seq(Windows) /\ Len(a \o b) = Len(a) + Len(b)
      BY <1>a, <1>b, Joined
    <3> QED BY <1>4, <3>1, Zenon
  <2>2. Len(n) = L - 1
    BY <1>2, <1>a, <1>b, <2>1
  <2> QED BY <2>1, <2>2
<1> DEFINE place(x) == IF x < k THEN x ELSE x + 1
<1>6. ASSUME NEW i \in 1 .. L - 1 PROVE place(i) \in 1 .. L /\ place(i) # k /\ n[i] = h[place(i)]
  <2>0. i \in Nat /\ 1 <= i /\ i <= L - 1
    BY <1>2, <1>6
  <2>1. CASE i < k
    <3>1. i \in 1 .. Len(a) /\ i \in 1 .. k - 1
      BY <1>2, <1>a, <2>0, <2>1
    <3>2. n[i] = a[i]
      <4>1. \A y \in 1 .. Len(a) : (a \o b)[y] = a[y]
        BY <1>a, <1>b, JoinedFront
      <4> QED BY <1>4, <3>1, <4>1, Zenon
    <3>3. i \in 1 .. L /\ i # k
      BY <1>2, <2>0, <2>1
    <3> QED BY <1>c, <2>1, <3>1, <3>2, <3>3
  <2>2. CASE ~(i < k)
    <3> DEFINE j == i - (k - 1)
    <3>1. j \in 1 .. Len(b) /\ j \in 1 .. L - k /\ j + k = i + 1 /\ i = Len(a) + j
      BY <1>2, <1>a, <1>b, <2>0, <2>2
    <3> HIDE DEF j
    <3>2. n[Len(a) + j] = b[j]
      <4>1. \A y \in 1 .. Len(b) : (a \o b)[Len(a) + y] = b[y]
        BY <1>a, <1>b, Joined
      <4>2. \A y \in 1 .. Len(b) : n[Len(a) + y] = b[y]
        BY <1>4, <4>1, Zenon
      <4> QED BY <3>1, <4>2, Zenon
    <3>3. i + 1 \in 1 .. L /\ i + 1 # k
      BY <1>2, <2>0, <2>2
    <3>4. n[i] = h[i + 1]
      BY <1>d, <3>1, <3>2
    <3> QED BY <2>2, <3>3, <3>4
  <2> QED BY <2>1, <2>2
<1>7. ASSUME NEW j \in 1 .. L, j # k PROVE \E i \in 1 .. L - 1 : place(i) = j
  <2>0. j \in Nat /\ 1 <= j /\ j <= L
    BY <1>2, <1>7
  <2>1. CASE j < k
    <3>1. j \in 1 .. L - 1 /\ place(j) = j
      BY <1>2, <2>0, <2>1
    <3> QED BY <3>1
  <2>2. CASE ~(j < k)
    <3>1. j - 1 \in 1 .. L - 1 /\ place(j - 1) = j
      BY <1>2, <1>7, <2>0, <2>2
    <3> QED BY <3>1
  <2> QED BY <2>1, <2>2
<1>8. ASSUME NEW i \in 1 .. L - 1, NEW j \in 1 .. L - 1, place(i) = place(j) PROVE i = j
  BY <1>2, <1>8
<1> HIDE DEF place
<1>9. DOMAIN h = 1 .. L
  BY <1>0 DEF L
<1>10. \A i, j \in 1 .. L : h[i] = h[j] => i = j
  BY <1>9 DEF IsInjective
<1>11. IsInjective(n)
  <2> SUFFICES ASSUME NEW i \in 1 .. L - 1, NEW j \in 1 .. L - 1, n[i] = n[j] PROVE i = j
    BY <1>5 DEF IsInjective
  <2>1. place(i) = place(j)
    BY <1>6, <1>10
  <2> QED BY <1>8, <2>1
<1>12. ASSUME NEW x PROVE x \in ToSet(n) <=> x \in ToSet(h) /\ x # w
  <2>1. ASSUME NEW i \in 1 .. L - 1, x = n[i] PROVE x \in ToSet(h) /\ x # w
    <3>1. place(i) \in 1 .. L /\ place(i) # k /\ x = h[place(i)]
      BY <1>6, <2>1
    <3>2. k \in 1 .. L /\ h[k] = w
      BY <1>1 DEF L
    <3> QED BY <1>9, <1>10, <3>1, <3>2 DEF ToSet
  <2>2. ASSUME NEW j \in 1 .. L, x = h[j], x # w PROVE x \in ToSet(n)
    <3>1. PICK i \in 1 .. L - 1 : place(i) = j
      BY <1>1, <1>7, <2>2
    <3>2. x = n[i]
      BY <1>6, <2>2, <3>1
    <3> QED BY <1>5, <3>2 DEF ToSet
  <2> QED BY <1>5, <1>9, <2>1, <2>2 DEF ToSet
<1>13. ToSet(n) = ToSet(h) \ {w}
  BY <1>12, Zenon
<1> QED BY <1>5, <1>11, <1>13

\* _original_status_for_group.
LEMMA OriginalStatus ==
  ASSUME HoldInv, group.status # "resolved"
  PROVE  Original(group) \in {"firing", "acknowledged"}
<1>1. CASE group.status # "maintenance"
  BY <1>1 DEF Original, HoldInv, TypeOK, Row, Statuses
<1>2. CASE group.status = "maintenance" /\ latest # NoWindow
  <2>1. latest \in Windows /\ applied[latest].prev \in {"firing", "acknowledged"}
    BY <1>2 DEF HoldInv, TypeOK, Application, MaintenanceHeld
  <2> QED BY <1>2, <2>1 DEF Original
<1>3. CASE group.status = "maintenance" /\ latest = NoWindow
  BY <1>3 DEF Original
<1> QED BY <1>1, <1>2, <1>3

\* With no application in force nothing pauses the group.
LEMMA NothingHeld ==
  ASSUME NEW h \in Seq(Windows), ToSet(h) = {}
  PROVE  h = <<>>
<1>1. Len(h) \in Nat /\ DOMAIN h = 1 .. Len(h)
  OBVIOUS
<1>2. Len(h) = 0
  <2> SUFFICES ASSUME Len(h) # 0 PROVE FALSE
    OBVIOUS
  <2>1. 1 \in DOMAIN h
    BY <1>1
  <2> QED BY <2>1 DEF ToSet
<1> QED BY <1>2

\* What reconciling a window must leave true of the group and its applications.
Reconciled ==
  /\ group' \in Row /\ applied' \in [Windows -> Application]
  /\ held' \in Seq(Windows) /\ IsInjective(held') /\ MaintenanceHeld'
  /\ latest' \in Windows \cup {NoWindow}
  /\ group.timer # "running" /\ group'.timer = "running" => ~Paused'

\* The applications in force are those of known windows.
LEMMA HeldWindows ==
  ASSUME HoldInv
  PROVE  /\ ToSet(held) \subseteq Windows
         /\ \A x \in ToSet(held) : applied[x].behaviour \in PausedBehaviours
<1>1. DOMAIN held = 1 .. Len(held) /\ \A i \in 1 .. Len(held) : held[i] \in Windows
  BY DEF HoldInv, TypeOK
<1>2. ToSet(held) \subseteq Windows
  BY <1>1 DEF ToSet
<1> QED BY <1>2 DEF HoldInv, TypeOK, MaintenanceHeld, Application

\* _apply_window_to_group.
LEMMA ApplyReconciles ==
  ASSUME HoldInv, NEW w \in Windows, Applies(w), Apply(w)
  PROVE  Reconciled
<1> DEFINE before == applied[w]
           prev == IF before.prev = "none" THEN Original(group) ELSE before.prev
           now == [behaviour |-> window[w].behaviour, retained |-> FALSE, prev |-> prev]
           kept == {applied[x].behaviour : x \in ToSet(held) \ {w}}
           notify == /\ before.behaviour \in {Suppress, Incident}
                     /\ window[w].behaviour \notin {Suppress, Incident}
           B == kept \cup {now.behaviour}
<1>1. /\ group \in Row /\ applied \in [Windows -> Application] /\ held \in Seq(Windows) /\ IsInjective(held)
      /\ before \in Application /\ window[w].behaviour \in PausedBehaviours /\ group.status # "resolved"
  BY DEF HoldInv, TypeOK, Applies, WindowRow, PausedBehaviours
<1>2. prev \in {"firing", "acknowledged"}
  <2>1. Original(group) \in {"firing", "acknowledged"}
    BY <1>1, OriginalStatus
  <2> QED BY <1>1, <2>1 DEF Application
<1>3. /\ applied' = [applied EXCEPT ![w] = now]
      /\ group' = Recomputed(group, B, prev, notify)
      /\ held' = (IF w \in ToSet(held) THEN held ELSE <<w>> \o held)
      /\ latest' = (IF w \in ToSet(held) THEN latest ELSE w)
  BY DEF Apply
<1> HIDE DEF prev
<1>4. now \in Application /\ now.behaviour = window[w].behaviour /\ now.prev = prev
  BY <1>1, <1>2 DEF Application
<1>5. notify \in BOOLEAN
  OBVIOUS
<1> HIDE DEF now, before, notify, kept
<1>6. /\ group' \in Row /\ group'.status = StatusUnder(group, Incident \in B, prev)
      /\ B \cap PausedBehaviours # {} => group'.timer # "running"
  BY <1>1, <1>2, <1>3, <1>5, RecomputedRow
<1>7. group'.timer # "running"
  BY <1>1, <1>4, <1>6
<1>8. held' \in Seq(Windows) /\ IsInjective(held') /\ ToSet(held') = ToSet(held) \cup {w}
  <2>1. CASE w \in ToSet(held)
    BY <1>1, <1>3, <2>1
  <2>2. CASE w \notin ToSet(held)
    BY <1>1, <1>3, <2>2, Prepend
  <2> QED BY <2>1, <2>2
<1>9. applied' \in [Windows -> Application] /\ applied'[w] = now /\ \A x \in Windows \ {w} : applied'[x] = applied[x]
  BY <1>1, <1>3, <1>4
<1>10. \A x \in ToSet(held') : applied'[x].prev # "none" /\ applied'[x].behaviour # "none"
  <2> SUFFICES ASSUME NEW x \in ToSet(held')
               PROVE  applied'[x].prev # "none" /\ applied'[x].behaviour # "none"
    OBVIOUS
  <2>1. CASE x = w
    BY <1>1, <1>2, <1>4, <1>9, <2>1 DEF PausedBehaviours, Behaviours, Suppress, PauseOnly, Incident, NoIncident
  <2>2. CASE x # w
    BY <1>8, <1>9, <2>2, HeldWindows DEF HoldInv, MaintenanceHeld
  <2> QED BY <2>1, <2>2
<1>11. ASSUME group'.status = "maintenance" PROVE \E x \in ToSet(held') : applied'[x].behaviour = Incident
  <2>1. Incident \in B
    BY <1>2, <1>6, <1>11 DEF StatusUnder
  <2>2. CASE Incident = now.behaviour
    BY <1>8, <1>9, <2>2
  <2>3. CASE Incident \in kept
    <3>1. PICK x \in ToSet(held) \ {w} : Incident = applied[x].behaviour
      BY <2>3 DEF kept
    <3> QED BY <1>8, <1>9, <3>1, HeldWindows
  <2> QED BY <2>1, <2>2, <2>3
<1>12. latest' \in Windows \cup {NoWindow} /\ (latest' # NoWindow => applied'[latest'].prev # "none")
  <2>1. applied'[w].prev # "none"
    BY <1>2, <1>4, <1>9
  <2>2. latest' = w \/ latest' = latest
    BY <1>3
  <2>3. latest \in Windows \cup {NoWindow} /\ (latest # NoWindow => applied[latest].prev # "none")
    BY DEF HoldInv, TypeOK, MaintenanceHeld
  <2> QED BY <1>9, <2>1, <2>2, <2>3
<1>13. MaintenanceHeld'
  BY <1>10, <1>11, <1>12 DEF MaintenanceHeld
<1> QED BY <1>6, <1>7, <1>8, <1>9, <1>12, <1>13 DEF Reconciled

\* _release_application.
LEMMA ReleaseReconciles ==
  ASSUME HoldInv, NEW w \in Windows, w \in ToSet(held), Release(w)
  PROVE  Reconciled
<1> DEFINE B == {applied[x].behaviour : x \in ToSet(held) \ {w}}
           fallback == applied[w].prev
           notify == applied[w].behaviour \in {Suppress, Incident}
           now == [applied[w] EXCEPT !.retained = FALSE]
<1>1. /\ group \in Row /\ applied \in [Windows -> Application] /\ held \in Seq(Windows) /\ IsInjective(held)
      /\ applied[w] \in Application
  BY DEF HoldInv, TypeOK
<1>2. fallback \in {"firing", "acknowledged"} /\ notify \in BOOLEAN
  BY <1>1 DEF HoldInv, MaintenanceHeld, Application
<1>3. group' = Recomputed(group, B, fallback, notify) /\ applied' = [applied EXCEPT ![w] = now]
  BY DEF Release
<1>4. now \in Application /\ now.behaviour = applied[w].behaviour /\ now.prev = applied[w].prev
  BY <1>1 DEF Application
<1> HIDE DEF now, fallback, notify, B
<1>5. /\ group' \in Row /\ group'.status = StatusUnder(group, Incident \in B, fallback)
      /\ B \cap PausedBehaviours # {} => group'.timer # "running"
  BY <1>1, <1>2, <1>3, RecomputedRow
<1>6. held' \in Seq(Windows) /\ IsInjective(held') /\ ToSet(held') = ToSet(held) \ {w}
  BY <1>1, HeldRemoved DEF Release
<1>7. applied' \in [Windows -> Application] /\ \A x \in Windows \ {w} : applied'[x] = applied[x]
  BY <1>1, <1>3, <1>4
<1>8. ASSUME NEW x \in ToSet(held') PROVE applied'[x].prev # "none" /\ applied'[x].behaviour # "none"
  BY <1>6, <1>7, HeldWindows DEF HoldInv, MaintenanceHeld
<1>9. ASSUME group'.status = "maintenance" PROVE \E x \in ToSet(held') : applied'[x].behaviour = Incident
  <2>1. Incident \in B
    BY <1>2, <1>5, <1>9 DEF StatusUnder
  <2>2. PICK x \in ToSet(held) \ {w} : Incident = applied[x].behaviour
    BY <2>1 DEF B
  <2> QED BY <1>6, <1>7, <2>2, HeldWindows
<1>10. MaintenanceHeld' /\ latest' \in Windows \cup {NoWindow}
  <2>1. latest' = latest /\ latest \in Windows \cup {NoWindow} /\ (latest # NoWindow => applied[latest].prev # "none")
    BY DEF Release, HoldInv, TypeOK, MaintenanceHeld
  <2>2. applied'[w] = now
    BY <1>1, <1>3
  <2> QED BY <1>4, <1>7, <1>8, <1>9, <2>1, <2>2 DEF MaintenanceHeld
<1>11. ASSUME group'.timer = "running" PROVE ~Paused'
  <2>1. B \cap PausedBehaviours = {}
    BY <1>5, <1>11
  <2>2. ToSet(held') = {}
    BY <1>6, <2>1, HeldWindows DEF B
  <2>3. held' = <<>>
    BY <1>6, <2>2, NothingHeld
  <2> QED BY <2>2, <2>3 DEF Paused, Effective
<1> QED BY <1>5, <1>6, <1>7, <1>10, <1>11 DEF Reconciled

\* reconcile_maintenance_window.
LEMMA ReconcileReconciles ==
  ASSUME HoldInv, NEW w \in Windows, NEW force, Reconcile(w, force)
  PROVE  Reconciled
<1>1. CASE Applies(w) /\ Apply(w)
  BY <1>1, ApplyReconciles
<1>2. CASE w \in ToSet(held) /\ Release(w)
  BY <1>2, ReleaseReconciles
<1>3. CASE w \in ToSet(held) /\ Retain(w)
  <2> DEFINE now == [applied[w] EXCEPT !.retained = TRUE]
  <2>1. applied \in [Windows -> Application] /\ group \in Row /\ held \in Seq(Windows) /\ IsInjective(held)
    BY DEF HoldInv, TypeOK
  <2>2. now \in Application /\ now.behaviour = applied[w].behaviour /\ now.prev = applied[w].prev
    BY <2>1 DEF Application
  <2>3. applied' = [applied EXCEPT ![w] = now] /\ group' = group /\ held' = held /\ latest' = latest
    BY <1>3 DEF Retain
  <2> HIDE DEF now
  <2>4. /\ applied' \in [Windows -> Application]
        /\ \A x \in Windows : applied'[x].behaviour = applied[x].behaviour /\ applied'[x].prev = applied[x].prev
    BY <2>1, <2>2, <2>3
  <2>5. latest \in Windows \cup {NoWindow}
    BY DEF HoldInv, TypeOK
  <2>6. MaintenanceHeld'
    BY <2>3, <2>4, <2>5, HeldWindows DEF HoldInv, MaintenanceHeld
  <2> QED BY <2>1, <2>3, <2>4, <2>5, <2>6 DEF Reconciled
<1>4. CASE UNCHANGED <<group, applied, held, latest>>
  <2>1. MaintenanceHeld'
    BY <1>4 DEF HoldInv, MaintenanceHeld
  <2> QED BY <1>4, <2>1 DEF Reconciled, HoldInv, TypeOK
<1> QED BY <1>1, <1>2, <1>3, <1>4 DEF Reconcile

-----------------------------------------------------------------------------
(* The steps *)

\* The timer is started only when nothing pauses the group.
TimerRule == group.timer # "running" /\ group'.timer = "running" => ~Paused'

\* A step that only updates the row, and the bookkeeping of shelves and requests.
LEMMA RowStep ==
  ASSUME HoldInv, UNCHANGED <<window, applied, held, latest>>, Keeps(group, group', Paused)
  PROVE  group' \in Row /\ MaintenanceHeld' /\ TimerRule
<1>1. Paused' = Paused
  BY DEF Paused, Effective, RepresentativeIn, Active
<1>2. group' \in Row /\ group'.status = group.status
      /\ (group'.timer = "running" => group.timer = "running" \/ ~Paused)
  BY DEF Keeps
<1>3. MaintenanceHeld'
  BY <1>2 DEF HoldInv, MaintenanceHeld
<1> QED BY <1>1, <1>2, <1>3 DEF TimerRule

\* _restart_after_unshelve.
LEMMA RestartKeeps ==
  ASSUME NEW g \in Row
  PROVE  Keeps(g, RestartAfterUnshelve(g), Paused)
<1>0. Paused \in BOOLEAN
  BY DEF Paused
<1>1. CASE g.status # "firing"
  BY <1>1 DEF RestartAfterUnshelve, Keeps
<1>2. CASE g.status = "firing"
  <2>1. PICK t \in Row : /\ t = Restarted(g, Paused) /\ t.status = g.status
                         /\ t.timer = "running" => ~Paused
    BY <1>0, RestartedRow
  <2>2. CASE Suppressed
    BY <1>2, <2>1, <2>2, Columns DEF RestartAfterUnshelve, Keeps
  <2>3. CASE ~Suppressed
    <3>1. PICK h \in Row : h = Resume(t, FALSE, Paused) /\ Keeps(t, h, Paused)
      BY <1>0, ResumeKeeps DEF Keeps
    <3>2. RestartAfterUnshelve(g) = [h EXCEPT !.pending = TRUE]
      BY <1>2, <2>1, <2>3, <3>1 DEF RestartAfterUnshelve
    <3>3. PICK n \in Row : n = [h EXCEPT !.pending = TRUE] /\ n.status = h.status /\ n.timer = h.timer
      BY Columns
    <3> QED BY <2>1, <3>1, <3>2, <3>3 DEF Keeps
  <2> QED BY <2>2, <2>3
<1> QED BY <1>1, <1>2

\* maybe_escalate_alert_by_policy.
LEMMA EscalatedRow ==
  ASSUME NEW g \in Row
  PROVE  Escalated(g) \in Row /\ Escalated(g).status = g.status
<1>0. Rules \in Nat \ {0} /\ Repeats \in Nat /\ g.rule \in 1 .. Rules /\ g.cycle \in 0 .. Repeats
  BY HoldAssumption DEF Row
<1>1. CASE g.timer # "due"
  BY <1>1 DEF Escalated
<1>2. CASE g.timer = "due" /\ NextRule(g) = <<>>
  BY <1>2, Columns DEF Escalated
<1>3. CASE g.timer = "due" /\ NextRule(g) # <<>>
  <2>1. PICK r \in 1 .. Rules, c \in 0 .. Repeats : NextRule(g)[1] = r /\ NextRule(g)[2] = c
    <3>1. CASE g.rule < Rules
      <4>1. g.rule + 1 \in 1 .. Rules /\ NextRule(g) = <<g.rule + 1, g.cycle>>
        BY <1>0, <3>1 DEF NextRule
      <4> QED BY <1>0, <4>1
    <3>2. CASE ~(g.rule < Rules)
      <4>1. g.cycle < Repeats
        BY <1>3, <3>2 DEF NextRule
      <4>2. 1 \in 1 .. Rules /\ g.cycle + 1 \in 0 .. Repeats /\ NextRule(g) = <<1, g.cycle + 1>>
        BY <1>0, <3>2, <4>1 DEF NextRule
      <4> QED BY <4>2
    <3> QED BY <3>1, <3>2
  <2>2. Escalated(g) = [g EXCEPT !.rule = r, !.cycle = c, !.timer = "running"]
    BY <1>3, <2>1 DEF Escalated
  <2> QED BY <2>2 DEF Row
<1> QED BY <1>1, <1>2, <1>3

\* send_unacked_reminders.
LEMMA RemindedKeeps ==
  ASSUME NEW g \in Row
  PROVE  Keeps(g, Reminded(g), Paused)
<1>0. Paused \in BOOLEAN
  BY DEF Paused
<1>1. CASE Shelved
  <2>1. PICK h \in Row : h = Unqueued(g) /\ h.status = g.status
    BY Columns
  <2>2. Reminded(g) = [h EXCEPT !.timer = "none"]
    BY <1>1, <2>1 DEF Reminded
  <2> QED BY <2>1, <2>2, Columns DEF Keeps
<1>2. CASE ~Shelved /\ Suppressed
  BY <1>2, Columns DEF Reminded, Keeps
<1>3. CASE ~Shelved /\ ~Suppressed /\ g.suppressed
  <2>1. PICK h \in Row : h = Resume(g, FALSE, Paused) /\ Keeps(g, h, Paused)
    BY <1>0, ResumeKeeps DEF Keeps
  <2>2. Keeps(h, Schedule(h, FALSE, Paused), Paused) /\ Reminded(g) = Schedule(h, FALSE, Paused)
    BY <1>0, <1>3, <2>1, ScheduleKeeps DEF Reminded
  <2> QED BY <2>1, <2>2 DEF Keeps
<1>4. CASE ~Shelved /\ ~Suppressed /\ ~g.suppressed /\ Paused
  BY <1>4 DEF Reminded, Keeps
<1>5. CASE ~Shelved /\ ~Suppressed /\ ~g.suppressed /\ ~Paused
  BY <1>5, EscalatedRow DEF Reminded, Keeps
<1> QED BY <1>0, <1>1, <1>2, <1>3, <1>4, <1>5

\* A step that leaves the shelf and the request alone, given its effect on the row.
LEMMA BookkeepingStays ==
  ASSUME HoldInv, UNCHANGED <<shelf, request, expiry, commands>>, window' = window,
         group' \in Row, applied' \in [Windows -> Application],
         held' \in Seq(Windows), IsInjective(held'), latest' \in Windows \cup {NoWindow}, MaintenanceHeld'
  PROVE  HoldInv'
<1>1. TypeOK'
  BY DEF HoldInv, TypeOK, NoRequest
<1>2. ExpiryAgrees'
  BY DEF HoldInv, ExpiryAgrees, Shelved
<1> QED BY <1>1, <1>2 DEF HoldInv

\* What a window command or the clock does to a window the group does not see yet.
LEMMA WindowStep ==
  ASSUME HoldInv, NEW w \in Windows, NEW new \in WindowRow, window' = [window EXCEPT ![w] = new],
         UNCHANGED <<group, applied, held, latest, shelf, expiry>>,
         request' \in {NoRequest} \cup [window : Windows, kind : {"save", "delete"}],
         commands' \in 0 .. MaxCommands
  PROVE  HoldInv' /\ TimerRule
<1>1. window' \in [Windows -> WindowRow]
  BY DEF HoldInv, TypeOK
<1>2. TypeOK'
  BY <1>1 DEF HoldInv, TypeOK, NoRequest
<1>3. MaintenanceHeld' /\ ExpiryAgrees'
  BY DEF HoldInv, MaintenanceHeld, ExpiryAgrees, Shelved
<1> QED BY <1>2, <1>3 DEF HoldInv, TimerRule

\* update_maintenance_window, cancel_maintenance_window, delete_maintenance_window.
LEMMA CommandKeeps ==
  ASSUME HoldInv, NEW w \in Windows, Update(w) \/ Cancel(w) \/ Delete(w)
  PROVE  HoldInv' /\ TimerRule
<1>0. window[w] \in WindowRow /\ commands \in Nat /\ MaxCommands \in Nat
  BY HoldAssumption DEF HoldInv, TypeOK
<1>1. ASSUME NEW new \in WindowRow, NEW kind \in {"save", "delete"}, Command(w, new, kind)
      PROVE  HoldInv' /\ TimerRule
  <2>1. request' \in [window : Windows, kind : {"save", "delete"}] /\ commands' \in 0 .. MaxCommands
    BY <1>0, <1>1 DEF Command, Bounded
  <2>2. window' = [window EXCEPT ![w] = new] /\ UNCHANGED <<group, applied, held, latest, shelf, expiry>>
    BY <1>1 DEF Command
  <2> QED BY <1>1, <2>1, <2>2, WindowStep
<1>2. \A b \in Behaviours : [window[w] EXCEPT !.behaviour = b] \in WindowRow
  BY <1>0 DEF WindowRow
<1>3. \A r \in BOOLEAN : [window[w] EXCEPT !.reactivate = r] \in WindowRow
  BY <1>0 DEF WindowRow
<1>4. [window[w] EXCEPT !.enabled = FALSE] \in WindowRow
  BY <1>0 DEF WindowRow
<1>5. [window[w] EXCEPT !.enabled = FALSE, !.deleted = TRUE] \in WindowRow
  BY <1>0 DEF WindowRow
<1>6. CASE Update(w)
  <2>1. CASE \E b \in Behaviours : Command(w, [window[w] EXCEPT !.behaviour = b], "save")
    BY <1>1, <1>2, <2>1
  <2>2. CASE \E r \in BOOLEAN : Command(w, [window[w] EXCEPT !.reactivate = r], "save")
    BY <1>1, <1>3, <2>2
  <2> QED BY <1>6, <2>1, <2>2 DEF Update
<1>7. CASE Cancel(w)
  BY <1>1, <1>4, <1>7 DEF Cancel
<1>8. CASE Delete(w)
  BY <1>1, <1>5, <1>8 DEF Delete
<1> QED BY <1>6, <1>7, <1>8

\* The occurrences of a window begin and end with the clock.
LEMMA OccurrenceKeeps ==
  ASSUME HoldInv, NEW w \in Windows, Ends(w) \/ Recurs(w)
  PROVE  HoldInv' /\ TimerRule
<1>0. /\ window[w] \in WindowRow /\ window \in [Windows -> WindowRow] /\ commands \in 0 .. MaxCommands
      /\ MaxCommands \in Nat /\ request \in {NoRequest} \cup [window : Windows, kind : {"save", "delete"}]
  BY HoldAssumption DEF HoldInv, TypeOK
<1>1. CASE Ends(w)
  <2>1. [window[w] EXCEPT !.phase = "idle"] \in WindowRow
    BY <1>0 DEF WindowRow
  <2>2. window' = [window EXCEPT ![w] = [window[w] EXCEPT !.phase = "idle"]]
    BY <1>0, <1>1 DEF Ends
  <2>3. UNCHANGED <<group, applied, held, latest, shelf, request, expiry, commands>>
    BY <1>1 DEF Ends
  <2> QED BY <1>0, <2>1, <2>2, <2>3, WindowStep
<1>2. CASE Recurs(w)
  <2>1. [window[w] EXCEPT !.phase = "active"] \in WindowRow
    BY <1>0 DEF WindowRow
  <2>2. window' = [window EXCEPT ![w] = [window[w] EXCEPT !.phase = "active"]]
    BY <1>0, <1>2 DEF Recurs
  <2>3. UNCHANGED <<group, applied, held, latest, shelf, request, expiry>> /\ commands' \in 0 .. MaxCommands
    BY <1>0, <1>2 DEF Recurs, Bounded
  <2> QED BY <1>0, <2>1, <2>2, <2>3, WindowStep
<1> QED BY <1>1, <1>2

\* process_maintenance_lifecycle, _reconcile_after_command and a request that dies.
LEMMA LifecycleKeeps ==
  ASSUME HoldInv, (\E w \in Windows : Lifecycle(w)) \/ ReconcileAfterCommand \/ RequestDies
  PROVE  HoldInv' /\ TimerRule
<1>1. CASE \E w \in Windows : Lifecycle(w)
  <2>1. PICK w \in Windows : Lifecycle(w)
    BY <1>1
  <2>2. Reconcile(w, FALSE) /\ UNCHANGED <<window, shelf, request, expiry, commands>>
    BY <2>1 DEF Lifecycle
  <2>3. Reconciled
    BY <2>2, ReconcileReconciles
  <2> QED BY <2>2, <2>3, BookkeepingStays DEF Reconciled, TimerRule
<1>2. CASE ReconcileAfterCommand
  <2>0. request.window \in Windows
    BY <1>2 DEF ReconcileAfterCommand, HoldInv, TypeOK
  <2>1. PICK w \in Windows : w = request.window
    BY <2>0
  <2>2. PICK f : f = (request.kind = "delete")
    OBVIOUS
  <2>3. Reconcile(w, f)
    BY <1>2, <2>1, <2>2 DEF ReconcileAfterCommand
  <2>4. Reconciled
    BY <2>3, ReconcileReconciles
  <2>5. request' = NoRequest /\ UNCHANGED <<window, shelf, expiry, commands>>
    BY <1>2 DEF ReconcileAfterCommand
  <2>6. TypeOK'
    BY <2>4, <2>5 DEF HoldInv, TypeOK, Reconciled, NoRequest
  <2>7. ExpiryAgrees'
    BY <2>5 DEF HoldInv, ExpiryAgrees, Shelved
  <2> QED BY <2>4, <2>6, <2>7 DEF Reconciled, TimerRule, HoldInv
<1>3. CASE RequestDies
  <2>1. request' = NoRequest /\ UNCHANGED <<group, window, applied, held, latest, shelf, expiry, commands>>
    BY <1>3 DEF RequestDies
  <2>2. TypeOK'
    BY <2>1 DEF HoldInv, TypeOK, NoRequest
  <2>3. MaintenanceHeld' /\ ExpiryAgrees'
    BY <2>1 DEF HoldInv, MaintenanceHeld, ExpiryAgrees, Shelved
  <2> QED BY <2>1, <2>2, <2>3 DEF HoldInv, TimerRule
<1> QED BY <1>1, <1>2, <1>3

\* A step on the row and the shelf.
LEMMA ShelfStep ==
  ASSUME HoldInv, UNCHANGED <<window, applied, held, latest, request, commands>>,
         group' \in Row, MaintenanceHeld',
         shelf' \in [no : 0..MaxShelves, state : {"none", "active", "due"}],
         expiry' \in 0 .. MaxShelves, ExpiryAgrees'
  PROVE  HoldInv'
<1>1. TypeOK'
  BY DEF HoldInv, TypeOK, NoRequest
<1> QED BY <1>1 DEF HoldInv

\* unshelve_alert_group ends the shelf and restarts the group.
LEMMA EndShelfKeeps ==
  ASSUME HoldInv, EndShelf, UNCHANGED <<window, applied, held, latest, request, commands>>,
         expiry' \in {0, expiry}
  PROVE  HoldInv' /\ TimerRule
<1>0. /\ shelf \in [no : 0..MaxShelves, state : {"none", "active", "due"}] /\ group \in Row
      /\ expiry \in 0 .. MaxShelves /\ MaxShelves \in Nat /\ expiry <= shelf.no
  BY HoldAssumption DEF HoldInv, TypeOK, ExpiryAgrees
<1>1. Keeps(group, group', Paused)
  BY <1>0, RestartKeeps DEF EndShelf
<1>2. group' \in Row /\ MaintenanceHeld' /\ TimerRule
  BY <1>1, RowStep
<1>3. shelf' \in [no : 0..MaxShelves, state : {"none", "active", "due"}] /\ shelf'.no = shelf.no /\ shelf'.state = "none"
  BY <1>0 DEF EndShelf
<1>4. expiry' \in 0 .. MaxShelves /\ expiry' <= shelf'.no
  BY <1>0, <1>3
<1>5. ExpiryAgrees'
  BY <1>3, <1>4 DEF ExpiryAgrees, Shelved
<1> QED BY <1>2, <1>3, <1>4, <1>5, ShelfStep

\* shelve_alert_group, unshelve_alert_group and process_due_shelves.
LEMMA ShelvingKeeps ==
  ASSUME HoldInv, Shelve \/ ShelfDue \/ Unshelve \/ SelectDueShelf \/ ExpireShelf
  PROVE  HoldInv' /\ TimerRule
<1>0. /\ shelf \in [no : 0..MaxShelves, state : {"none", "active", "due"}] /\ group \in Row
      /\ expiry \in 0 .. MaxShelves /\ MaxShelves \in Nat /\ expiry <= shelf.no /\ shelf.no \in 0 .. MaxShelves
  BY HoldAssumption DEF HoldInv, TypeOK, ExpiryAgrees
<1>s. ASSUME group' = group, UNCHANGED <<window, applied, held, latest>> PROVE group' \in Row /\ MaintenanceHeld' /\ TimerRule
  BY <1>0, <1>s DEF HoldInv, MaintenanceHeld, TimerRule
<1>1. CASE Shelve
  <2>1. PICK h \in Row : h = Unqueued(group) /\ h.status = group.status
    BY <1>0, Columns
  <2>2. group' = [h EXCEPT !.timer = "none"]
    BY <1>1, <2>1 DEF Shelve
  <2>3. Keeps(group, group', Paused)
    BY <2>1, <2>2, Columns DEF Keeps
  <2>4. UNCHANGED <<window, applied, held, latest, request, expiry, commands>>
    BY <1>1 DEF Shelve
  <2>5. group' \in Row /\ MaintenanceHeld' /\ TimerRule
    BY <2>3, <2>4, RowStep
  <2>6. shelf' = [no |-> shelf.no + 1, state |-> "active"] /\ shelf.no + 1 \in 0 .. MaxShelves
    BY <1>0, <1>1 DEF Shelve
  <2>7. shelf' \in [no : 0..MaxShelves, state : {"none", "active", "due"}] /\ shelf'.no = shelf.no + 1
    BY <2>6
  <2>8. expiry' <= shelf'.no /\ expiry' # shelf'.no
    BY <1>0, <2>4, <2>7
  <2>9. ExpiryAgrees'
    BY <2>8 DEF ExpiryAgrees
  <2> QED BY <1>0, <2>4, <2>5, <2>7, <2>9, ShelfStep
<1>2. CASE ShelfDue
  <2>1. UNCHANGED <<group, window, applied, held, latest, request, expiry, commands>>
    BY <1>2 DEF ShelfDue
  <2>2. shelf' \in [no : 0..MaxShelves, state : {"none", "active", "due"}] /\ shelf'.no = shelf.no /\ shelf'.state = "due"
    BY <1>0, <1>2 DEF ShelfDue
  <2>3. ExpiryAgrees'
    BY <1>0, <2>1, <2>2 DEF ExpiryAgrees, Shelved
  <2> QED BY <1>0, <1>s, <2>1, <2>2, <2>3, ShelfStep
<1>3. CASE Unshelve
  BY <1>3, EndShelfKeeps DEF Unshelve
<1>4. CASE SelectDueShelf
  <2>1. UNCHANGED <<group, window, applied, held, latest, shelf, request, commands>> /\ expiry' = shelf.no /\ shelf.state = "due"
    BY <1>4 DEF SelectDueShelf
  <2>2. ExpiryAgrees'
    BY <1>0, <2>1 DEF ExpiryAgrees, Shelved
  <2> QED BY <1>0, <1>s, <2>1, <2>2, ShelfStep
<1>5. CASE ExpireShelf
  <2>1. expiry' = 0 /\ UNCHANGED <<window, applied, held, latest, request, commands>>
    BY <1>5 DEF ExpireShelf
  <2>2. CASE IsExpected
    BY <1>5, <2>1, <2>2, EndShelfKeeps DEF ExpireShelf
  <2>3. CASE ~IsExpected
    <3>1. UNCHANGED <<shelf, group>>
      BY <1>5, <2>3 DEF ExpireShelf
    <3>2. ExpiryAgrees'
      BY <1>0, <2>1, <3>1 DEF ExpiryAgrees
    <3>3. expiry' \in 0 .. MaxShelves
      BY <1>0, <2>1
    <3> QED BY <1>0, <1>s, <2>1, <3>1, <3>2, <3>3, ShelfStep
  <2> QED BY <2>2, <2>3
<1> QED BY <1>1, <1>2, <1>3, <1>4, <1>5

\* acknowledge_alert and resolve_alert.
LEMMA ResponderKeeps ==
  ASSUME HoldInv, Acknowledge \/ Resolve
  PROVE  HoldInv' /\ TimerRule
<1>0. /\ shelf \in [no : 0..MaxShelves, state : {"none", "active", "due"}] /\ group \in Row
      /\ expiry \in 0 .. MaxShelves /\ expiry <= shelf.no
  BY DEF HoldInv, TypeOK, ExpiryAgrees
<1>1. PICK h \in Row : h = Unqueued(group) /\ h.timer = group.timer
  BY <1>0, Columns
<1>2. PICK s \in Statuses \ {"maintenance"} : group' = [h EXCEPT !.status = s]
  BY <1>1 DEF Acknowledge, Resolve, Statuses
<1>3. group' \in Row /\ group'.status = s /\ group'.timer = group.timer
  BY <1>1, <1>2, Columns
<1>4. UNCHANGED <<window, applied, held, latest, request, expiry, commands>>
  BY DEF Acknowledge, Resolve
<1>5. MaintenanceHeld' /\ TimerRule
  BY <1>2, <1>3, <1>4 DEF HoldInv, MaintenanceHeld, TimerRule
<1>6. /\ shelf' \in [no : 0..MaxShelves, state : {"none", "active", "due"}]
      /\ shelf'.no = shelf.no /\ (shelf' = shelf \/ shelf'.state = "none")
  BY <1>0 DEF Acknowledge, Resolve
<1>7. ExpiryAgrees'
  BY <1>4, <1>6 DEF HoldInv, ExpiryAgrees, Shelved
<1> QED BY <1>0, <1>3, <1>4, <1>5, <1>6, <1>7, ShelfStep

\* process_due_alert_group_notifications, the clock and send_unacked_reminders.
LEMMA QueueKeeps ==
  ASSUME HoldInv, SendPage \/ TimerDue \/ Remind
  PROVE  HoldInv' /\ TimerRule
<1>0. group \in Row /\ Paused \in BOOLEAN
  BY DEF HoldInv, TypeOK, Paused
<1>1. UNCHANGED <<window, applied, held, latest, shelf, request, expiry, commands>>
  BY DEF SendPage, TimerDue, Remind
<1>2. Keeps(group, group', Paused)
  <2>1. CASE SendPage
    <3>1. CASE Shelved
      BY <1>0, <2>1, <3>1, Columns DEF SendPage, Keeps
    <3>2. CASE ~Shelved /\ Suppressed
      BY <1>0, <2>1, <3>2, Columns DEF SendPage, Keeps
    <3>3. CASE ~Shelved /\ ~Suppressed
      <4>1. PICK h \in Row : h = Resume(group, FALSE, Paused) /\ Keeps(group, h, Paused)
        BY <1>0, ResumeKeeps DEF Keeps
      <4>2. group' = Unqueued(h)
        BY <2>1, <3>3, <4>1 DEF SendPage
      <4>3. PICK n \in Row : n = Unqueued(h) /\ n.status = h.status /\ n.timer = h.timer
        BY Columns
      <4> QED BY <4>1, <4>2, <4>3 DEF Keeps
    <3> QED BY <3>1, <3>2, <3>3
  <2>2. CASE TimerDue
    BY <1>0, <2>2 DEF TimerDue, Keeps, Row
  <2>3. CASE Remind
    BY <1>0, <2>3, RemindedKeeps DEF Remind
  <2> QED BY <2>1, <2>2, <2>3
<1>3. group' \in Row /\ MaintenanceHeld' /\ TimerRule
  BY <1>1, <1>2, RowStep
<1>4. /\ applied' \in [Windows -> Application] /\ held' \in Seq(Windows) /\ IsInjective(held')
      /\ latest' \in Windows \cup {NoWindow}
  BY <1>1 DEF HoldInv, TypeOK
<1> QED BY <1>1, <1>3, <1>4, BookkeepingStays

-----------------------------------------------------------------------------
(* The specification *)

LEMMA InitHolds == Init => HoldInv
<1> SUFFICES ASSUME Init PROVE HoldInv
  OBVIOUS
<1>0. Rules \in Nat \ {0} /\ Repeats \in Nat /\ MaxShelves \in Nat /\ MaxCommands \in Nat
  BY HoldAssumption
<1>1. group \in Row /\ group.status = "firing"
  BY <1>0 DEF Init, Row, Statuses
<1>2. window \in [Windows -> WindowRow]
  <2>1. PICK there \in SUBSET Windows, r \in BOOLEAN,
             b \in {f \in [Windows -> PausedBehaviours] : IsInjective(f)} :
          window = [w \in Windows |->
                      [phase |-> "active", enabled |-> w \in there, deleted |-> w \notin there,
                       behaviour |-> b[w], reactivate |-> r]]
    BY Zenon DEF Init
  <2>2. \A w \in Windows : [phase |-> "active", enabled |-> w \in there, deleted |-> w \notin there,
                            behaviour |-> b[w], reactivate |-> r] \in WindowRow
    BY <2>1 DEF WindowRow, PausedBehaviours
  <2> QED BY <2>1, <2>2
<1>3. applied \in [Windows -> Application]
  BY DEF Init, Application
<1>4. held = <<>> /\ held \in Seq(Windows) /\ IsInjective(held) /\ ToSet(held) = {}
  BY DEF Init, IsInjective, ToSet
<1>5. /\ shelf \in [no : 0..MaxShelves, state : {"none", "active", "due"}] /\ request \in {NoRequest}
      /\ expiry = 0 /\ expiry \in 0 .. MaxShelves /\ commands \in 0 .. MaxCommands /\ shelf.no \in 0 .. MaxShelves
  BY <1>0 DEF Init
<1>6. latest = NoWindow /\ TypeOK
  <2>1. latest = NoWindow
    BY DEF Init
  <2> QED BY <1>1, <1>2, <1>3, <1>4, <1>5, <2>1 DEF TypeOK
<1>7. MaintenanceHeld
  BY <1>1, <1>4, <1>6 DEF MaintenanceHeld
<1>8. ExpiryAgrees
  BY <1>0, <1>5 DEF ExpiryAgrees
<1> QED BY <1>6, <1>7, <1>8 DEF HoldInv

\* Every step keeps the invariant and starts the timer only where nothing pauses.
LEMMA StepKeeps == HoldInv /\ [Next]_vars => HoldInv' /\ TimerRule
<1> SUFFICES ASSUME HoldInv, [Next]_vars PROVE HoldInv' /\ TimerRule
  OBVIOUS
<1>1. ASSUME NEW w \in Windows, Update(w) \/ Cancel(w) \/ Delete(w) PROVE HoldInv' /\ TimerRule
  BY <1>1, CommandKeeps
<1>2. ASSUME NEW w \in Windows, Ends(w) \/ Recurs(w) PROVE HoldInv' /\ TimerRule
  BY <1>2, OccurrenceKeeps
<1>3. ASSUME (\E w \in Windows : Lifecycle(w)) \/ ReconcileAfterCommand \/ RequestDies PROVE HoldInv' /\ TimerRule
  BY <1>3, LifecycleKeeps
<1>4. CASE Shelve \/ ShelfDue \/ Unshelve \/ SelectDueShelf \/ ExpireShelf
  BY <1>4, ShelvingKeeps
<1>5. CASE Acknowledge \/ Resolve
  BY <1>5, ResponderKeeps
<1>6. CASE SendPage \/ TimerDue \/ Remind
  BY <1>6, QueueKeeps
<1>7. CASE UNCHANGED vars
  <2>1. UNCHANGED <<group, window, applied, held, latest, shelf, request, expiry, commands>>
    BY <1>7 DEF vars
  <2>2. MaintenanceHeld'
    BY <2>1 DEF HoldInv, MaintenanceHeld
  <2>3. /\ group' \in Row /\ applied' \in [Windows -> Application]
        /\ held' \in Seq(Windows) /\ IsInjective(held') /\ latest' \in Windows \cup {NoWindow}
    BY <2>1 DEF HoldInv, TypeOK
  <2> QED BY <2>1, <2>2, <2>3, BookkeepingStays DEF TimerRule
<1> QED BY <1>1, <1>2, <1>3, <1>4, <1>5, <1>6, <1>7, Zenon DEF Next

\* The shelf the expiry job ends is one that is over.
LEMMA ExpiryEndsNoRunningShelf ==
  ASSUME HoldInv, ExpireShelf, Shelved
  PROVE  Shelved'
<1>1. ~IsExpected
  BY DEF ExpireShelf, IsExpected, HoldInv, ExpiryAgrees
<1> QED BY <1>1 DEF ExpireShelf, Shelved

\* Every recorded window effect has a status to go back to, a group is in
\* maintenance only while an application holds it there, and the expiry job
\* never has a running shelf in hand, for any number of windows and commands.
THEOREM HoldInvariant == Spec => []HoldInv
<1>1. HoldInv /\ [Next]_vars => HoldInv'
  BY StepKeeps
<1> QED BY <1>1, InitHolds, PTL DEF Spec

\* process_due_shelves never ends a shelf that is still running, however the
\* operator shelves again between the job's selection and its update.
THEOREM ShelfKeptHolds == Spec => ShelfKept
<1>1. HoldInv /\ [Next]_vars => [ExpireShelf => (Shelved => Shelved')]_vars
  BY ExpiryEndsNoRunningShelf
<1> QED BY <1>1, HoldInvariant, PTL DEF Spec, ShelfKept

\* Nothing starts the escalation timer - a release, an unshelve, a resume, an
\* escalation - while a maintenance window still pauses the group.
THEOREM TimerRespectsHoldsHolds == Spec => TimerRespectsHolds
<1>1. HoldInv /\ [Next]_vars => [group.timer # "running" /\ group.timer' = "running" => ~Paused']_vars
  BY StepKeeps DEF TimerRule
<1> QED BY <1>1, HoldInvariant, PTL DEF Spec, TimerRespectsHolds
=============================================================================
