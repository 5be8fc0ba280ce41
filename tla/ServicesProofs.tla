---------------------------- MODULE ServicesProofs ----------------------------
(***************************************************************************)
(* The services of MCServices: whoever the calendar shows is paged, for    *)
(* every length of the day and of the clock change and every layer; the    *)
(* expiry job takes no answer back; silences hold what they silenced.      *)
(***************************************************************************)
EXTENDS MCServices, Sequences, TLAPS, WellFoundedInduction

-----------------------------------------------------------------------------
(* Arithmetic *)

\* Floor division and its remainder.
LEMMA DivMod ==
  ASSUME NEW a \in Int, NEW n \in Nat \ {0}
  PROVE  /\ a \div n \in Int /\ a % n \in 0 .. n - 1
         /\ a = n * (a \div n) + (a % n)
OBVIOUS

\* Multiples are at least n apart.
LEMMA Products ==
  ASSUME NEW n \in Nat \ {0}, NEW p \in Int, NEW q \in Int, p < q
  PROVE  n * p + n <= n * q
OBVIOUS

\* There is one quotient and one remainder.
LEMMA DivUnique ==
  ASSUME NEW a \in Int, NEW n \in Nat \ {0}, NEW q \in Int, NEW r \in 0 .. n - 1, a = n * q + r
  PROVE  a \div n = q /\ a % n = r
<1>1. a \div n \in Int /\ a % n \in 0 .. n - 1 /\ a = n * (a \div n) + (a % n)
  BY DivMod
<1> DEFINE p == a \div n
<1> HIDE DEF p
<1>2. ~(p < q)
  <2> SUFFICES ASSUME p < q PROVE FALSE
    OBVIOUS
  <2>1. n * p + n <= n * q
    BY <1>1, Products DEF p
  <2> QED BY <1>1, <2>1 DEF p
<1>3. ~(q < p)
  <2> SUFFICES ASSUME q < p PROVE FALSE
    OBVIOUS
  <2>1. n * q + n <= n * p
    BY <1>1, Products DEF p
  <2> QED BY <1>1, <2>1 DEF p
<1>4. p = q
  BY <1>1, <1>2, <1>3 DEF p
<1> QED BY <1>1, <1>4 DEF p

\* The multiples of n around a number.
LEMMA Between ==
  ASSUME NEW a \in Int, NEW n \in Nat \ {0}, NEW q, q = a \div n
  PROVE  q \in Int /\ n * q <= a /\ a < n * q + n
BY DivMod

\* A number between two multiples of n has the quotient of the first.
LEMMA QuotientOf ==
  ASSUME NEW a \in Int, NEW n \in Nat \ {0}, NEW q \in Int, n * q <= a, a < n * q + n
  PROVE  a \div n = q
<1>1. n * q \in Int
  OBVIOUS
<1>2. a = n * q + (a - n * q) /\ a - n * q \in 0 .. n - 1
  BY <1>1
<1> DEFINE r == a - n * q
<1>3. r \in 0 .. n - 1 /\ a = n * q + r
  BY <1>2
<1> HIDE DEF r
<1> QED BY <1>3, DivUnique

\* Adding multiples of n changes no remainder.
LEMMA SameRemainder ==
  ASSUME NEW a \in Int, NEW k \in Int, NEW n \in Nat \ {0}
  PROVE  (a + k * n) % n = a % n
<1>1. a \div n \in Int /\ a % n \in 0 .. n - 1 /\ a = n * (a \div n) + (a % n)
  BY DivMod
<1> DEFINE q == a \div n
           r == a % n
<1>2. q \in Int /\ r \in 0 .. n - 1 /\ a = n * q + r
  BY <1>1
<1> HIDE DEF q, r
<1>3. a + k * n = n * (q + k) + r
  BY <1>2
<1>4. (a + k * n) % n = r
  BY <1>2, <1>3, DivUnique
<1> QED BY <1>4 DEF r

\* The remainder of the number before: weekday of yesterday.
LEMMA RemainderBefore ==
  ASSUME NEW a \in Int, NEW n \in Nat \ {0}
  PROVE  ((a % n) - 1) % n = (a - 1) % n
<1>1. a \div n \in Int /\ a % n \in 0 .. n - 1 /\ a = n * (a \div n) + (a % n)
  BY DivMod
<1> DEFINE q == a \div n
           r == a % n
<1>2. q \in Int /\ r \in 0 .. n - 1 /\ a = n * q + r
  BY <1>1
<1> HIDE DEF q, r
<1>3. a - 1 = (r - 1) + q * n
  BY <1>2
<1>4. ((r - 1) + q * n) % n = (r - 1) % n
  <2>1. \A b \in Int : (b + q * n) % n = b % n
    BY <1>2, SameRemainder
  <2>2. r - 1 \in Int
    BY <1>2
  <2> QED BY <2>1, <2>2, Zenon
<1>5. (a - 1) % n = (r - 1) % n
  BY <1>3, <1>4, Zenon
<1> QED BY <1>5, Zenon DEF r

\* A set of instants has a first one.
LEMMA FirstInstant ==
  ASSUME NEW T \in SUBSET Nat, T # {}
  PROVE  O!Min(T) \in T /\ \A y \in T : O!Min(T) <= y
<1>1. PICK x \in T : \A y \in T : <<y, x>> \notin OpToRel(<, Nat)
  BY WFMin, NatLessThanWellFounded, Zenon
<1>2. ASSUME NEW y \in T, y < x PROVE <<y, x>> \in OpToRel(<, Nat)
  BY <1>2, Zenon DEF OpToRel
<1>3. \A y \in T : ~ (y < x)
  BY <1>1, <1>2, Zenon
<1>4. \A y \in T : x <= y
  BY <1>3, SMT
<1> QED BY <1>4 DEF O!Min

\* max() of two numbers.
LEMMA Greater ==
  ASSUME NEW a \in Int, NEW b \in Int
  PROVE  O!Max({a, b}) = IF a >= b THEN a ELSE b
BY DEF O!Max

-----------------------------------------------------------------------------
(* Clocks *)

\* The numbers the clocks are made of.
LEMMA Units ==
  ASSUME delta \in O!Deltas
  PROVE  /\ Day \in Nat \ {0} /\ Week \in Nat \ {0} /\ Horizon \in Nat
         /\ Shift \in Nat /\ Change \in Nat /\ Change <= Day
         /\ delta \in Int /\ delta \in {-Change, 0, Change}
BY CalendarAssumption DEF O!OnCallAssumption, O!Deltas

\* The conversions in a form without a maximum.
LEMMA Clocks ==
  ASSUME delta \in O!Deltas, NEW l \in Int
  PROVE  /\ O!ToLocal(l) \in Int /\ O!ToUtc(l) \in Int
         /\ O!ToLocal(l) = IF l < Shift THEN l ELSE l + delta
         /\ O!ToUtc(l) = IF l < Shift + (IF delta >= 0 THEN delta ELSE 0) THEN l ELSE l - delta
<1>1. O!Max({delta, 0}) = IF delta >= 0 THEN delta ELSE 0
  BY Units, Greater
<1> QED BY <1>1, Units DEF O!ToLocal, O!ToUtc

\* A local time outside the changed hour is reached at the instant ToUtc names and
\* not before (local_datetime_to_utc_naive).
LEMMA Edge ==
  ASSUME delta \in O!Deltas, NEW e \in Int, ~O!Changed(e), NEW t \in Int
  PROVE  t >= O!ToUtc(e) <=> O!ToLocal(t) >= e
<1>1. delta = 0 \/ ~(O!Span < e /\ e < O!Span + Change)
  <2> SUFFICES ASSUME delta # 0, O!Span < e, e < O!Span + Change PROVE FALSE
    OBVIOUS
  <2>1. O!Span \in Int
    BY Units DEF O!Span
  <2>2. e - O!Span \in 1 .. (Change - 1) /\ O!Span + (e - O!Span) = e
    BY <2>1, Units
  <2>3. O!Changed(e)
    BY <2>2 DEF O!Changed
  <2> QED BY <2>3
<1>2. delta = 0 \/ delta = Change \/ delta = -Change
  BY Units
<1> QED BY <1>1, <1>2, Units, Clocks DEF O!Span

\* The changed hour is the same every day.
LEMMA EveryDay ==
  ASSUME delta \in O!Deltas, NEW e \in Int, NEW k \in Int, ~O!Changed(e)
  PROVE  ~O!Changed(e + k * Day)
BY Units, SameRemainder DEF O!Changed

-----------------------------------------------------------------------------
(* Restrictions: the windows of the calendar are the instants that match *)

\* The columns of a layer.
LEMMA LayerColumns ==
  ASSUME layer \in Layers
  PROVE  /\ layer.start \in Nat /\ layer.interval \in Nat \ {0}
         /\ layer.members \in Seq(O!Periods) /\ layer.restrictions \subseteq O!Restrictions
         /\ layer.calendar => \E n \in 1 .. layer.interval : layer.interval = n * Day
<1>1. layer \in O!LayerRows
  BY CalendarAssumption DEF O!OnCallAssumption
<1>2. layer.calendar => \E n \in 1 .. layer.interval : layer.interval = n * Day
  BY CalendarAssumption DEF O!OnCallAssumption
<1> QED BY <1>1, <1>2 DEF O!LayerRows

\* The window of day d in local time.
First(r, d) == d * Day + (IF r.start = r.end THEN 0 ELSE r.start)
Last(r, d) == d * Day + (IF r.start = r.end THEN Day ELSE IF r.start < r.end THEN r.end ELSE Day + r.end)

\* An instant lies in the window of a day when its local time does
\* (restriction_window_for_day).
LEMMA InWindow ==
  ASSUME delta \in O!Deltas, layer \in Layers, O!Clean,
         NEW r \in layer.restrictions, NEW d \in Int, NEW t \in Int
  PROVE  O!WindowOf(r, d)[1] <= t /\ t < O!WindowOf(r, d)[2]
           <=> First(r, d) <= O!ToLocal(t) /\ O!ToLocal(t) < Last(r, d)
<1>1. Day \in Nat \ {0} /\ r.start \in 0 .. Day - 1 /\ r.end \in 0 .. Day - 1
  BY Units, LayerColumns DEF O!Restrictions
<1>2. First(r, d) \in Int /\ Last(r, d) \in Int
  BY <1>1 DEF First, Last
<1>3. O!WindowOf(r, d) = <<O!ToUtc(First(r, d)), O!ToUtc(Last(r, d))>>
  <2> DEFINE last == IF r.start = r.end THEN d * Day + Day
                     ELSE IF r.start < r.end THEN d * Day + r.end ELSE d * Day + Day + r.end
             first == IF r.start = r.end THEN d * Day ELSE d * Day + r.start
  <2>1. last = Last(r, d) /\ first = First(r, d)
    BY <1>1 DEF First, Last
  <2>2. O!WindowOf(r, d) = <<O!ToUtc(first), O!ToUtc(last)>>
    BY DEF O!WindowOf
  <2> HIDE DEF first, last
  <2> QED BY <2>1, <2>2
<1>4. ~O!Changed(First(r, d)) /\ ~O!Changed(Last(r, d))
  <2>1. CASE r.start = r.end
    <3>1. ~O!Changed(0)
      BY <2>1 DEF O!Clean
    <3>2. ~O!Changed(0 + d * Day) /\ ~O!Changed(0 + (d + 1) * Day)
      BY <3>1, EveryDay
    <3>3. First(r, d) = 0 + d * Day /\ Last(r, d) = 0 + (d + 1) * Day
      BY <1>1, <2>1 DEF First, Last
    <3> QED BY <3>2, <3>3
  <2>2. CASE r.start # r.end
    <3>1. ~O!Changed(r.start) /\ ~O!Changed(r.end)
      BY <2>2 DEF O!Clean
    <3>2. \A k \in Int : ~O!Changed(r.start + k * Day) /\ ~O!Changed(r.end + k * Day)
      <4>1. r.start \in Int /\ r.end \in Int
        BY <1>1
      <4>2. \A e, k \in Int : ~O!Changed(e) => ~O!Changed(e + k * Day)
        BY EveryDay
      <4> QED BY <3>1, <4>1, <4>2, Zenon
    <3>3. /\ First(r, d) = r.start + d * Day
          /\ Last(r, d) = IF r.start < r.end THEN r.end + d * Day ELSE r.end + (d + 1) * Day
      BY <1>1, <2>2 DEF First, Last
    <3>4. d + 1 \in Int
      OBVIOUS
    <3> QED BY <3>2, <3>3, <3>4
  <2> QED BY <2>1, <2>2
<1>5. t >= O!ToUtc(First(r, d)) <=> O!ToLocal(t) >= First(r, d)
  BY <1>2, <1>4, Edge
<1>6. t >= O!ToUtc(Last(r, d)) <=> O!ToLocal(t) >= Last(r, d)
  BY <1>2, <1>4, Edge
<1>7. /\ O!ToLocal(t) \in Int /\ O!ToUtc(First(r, d)) \in Int /\ O!ToUtc(Last(r, d)) \in Int
  BY <1>2, Clocks
<1> QED BY <1>2, <1>3, <1>5, <1>6, <1>7

\* The day whose window holds a local time is that of the time, or for an overnight
\* restriction the day before (_restriction_matches).
LEMMA WhichDay ==
  ASSUME delta \in O!Deltas, NEW r \in O!Restrictions, NEW d \in Int, NEW l \in Int,
         NEW today \in Int, today = l \div Day, NEW m \in Int, m = l % Day
  PROVE  First(r, d) <= l /\ l < Last(r, d)
           <=> IF r.start = r.end THEN d = today
               ELSE IF r.start < r.end THEN d = today /\ r.start <= m /\ m < r.end
               ELSE (d = today /\ m >= r.start) \/ (d = today - 1 /\ m < r.end)
<1>1. Day \in Nat \ {0} /\ r.start \in 0 .. Day - 1 /\ r.end \in 0 .. Day - 1
  BY Units DEF O!Restrictions
<1>2. l = Day * today + m /\ m \in 0 .. Day - 1
  BY <1>1, DivMod
<1>3. CASE d < today - 1
  <2>1. Day * d + Day <= Day * (today - 1)
    BY <1>1, <1>3, Products
  <2>2. Day * (today - 1) = Day * today - Day
    BY <1>1
  <2> QED BY <1>1, <1>2, <1>3, <2>1, <2>2 DEF First, Last
<1>4. CASE d = today - 1
  <2>1. d * Day = Day * today - Day
    BY <1>1, <1>4
  <2> QED BY <1>1, <1>2, <1>4, <2>1 DEF First, Last
<1>5. CASE d = today
  <2>1. d * Day = Day * today
    BY <1>1, <1>5
  <2> QED BY <1>1, <1>2, <1>5, <2>1 DEF First, Last
<1>6. CASE d > today
  <2>1. Day * today + Day <= Day * d
    BY <1>1, <1>6, Products
  <2> QED BY <1>1, <1>2, <1>6, <2>1 DEF First, Last
<1> QED BY <1>3, <1>4, <1>5, <1>6

\* Quotients are monotonic.
LEMMA Quotients ==
  ASSUME NEW a \in Int, NEW b \in Int, NEW n \in Nat \ {0}, NEW k \in Int, a <= b + k * n
  PROVE  a \div n <= (b \div n) + k
<1> DEFINE p == a \div n
           q == b \div n
<1>1. p \in Int /\ a % n \in 0 .. n - 1 /\ a = n * p + (a % n)
  BY DivMod
<1>2. q \in Int /\ b % n \in 0 .. n - 1 /\ b = n * q + (b % n)
  BY DivMod
<1> HIDE DEF p, q
<1>3. ~(q + k < p)
  <2> SUFFICES ASSUME q + k < p PROVE FALSE
    OBVIOUS
  <2>1. n * (q + k) + n <= n * p
    BY <1>1, <1>2, Products
  <2>2. n * (q + k) = n * q + k * n
    BY <1>2
  <2> QED BY <1>1, <1>2, <2>1, <2>2
<1>4. p <= q + k
  BY <1>1, <1>2, <1>3
<1> QED BY <1>4 DEF p, q

\* The days of the range hold the day of every instant, and the day before unless
\* the clock goes back over midnight right after the range began.
LEMMA DaysSuffice ==
  ASSUME delta \in O!Deltas, NEW t \in O!Instants, NEW today \in Int, today = O!ToLocal(t) \div Day
  PROVE  /\ today \in O!Days
         /\ today - 1 \in O!Days \/ (delta < 0 /\ today = -1 /\ O!Span <= O!ToLocal(t) /\ Shift > 0)
<1> DEFINE l == O!ToLocal(t)
           lo == O!ToLocal(0)
           hi == O!ToLocal(Horizon)
<1>1. t \in Nat /\ t < Horizon /\ Horizon \in Nat
  BY Units DEF O!Instants
<1>2. /\ l = (IF t < Shift THEN t ELSE t + delta) /\ lo = (IF 0 < Shift THEN 0 ELSE delta)
      /\ hi = (IF Horizon < Shift THEN Horizon ELSE Horizon + delta)
  BY <1>1, Units, Clocks
<1>3. l \in Int /\ lo \in Int /\ hi \in Int
  BY <1>1, <1>2, Units
<1> HIDE DEF l, lo, hi
<1>4. /\ lo <= l + 1 * Day /\ l <= hi + 1 * Day
      /\ lo <= l + 0 * Day \/ (delta < 0 /\ Shift > 0 /\ lo = 0 /\ l < 0 /\ Shift - Change <= l)
  BY <1>1, <1>2, <1>3, Units
<1>5. (lo \div Day) <= (l \div Day) + 1 /\ (l \div Day) <= (hi \div Day) + 1
  BY <1>3, <1>4, Units, Quotients
<1>6. lo <= l + 0 * Day => (lo \div Day) <= (l \div Day) + 0
  BY <1>3, Units, Quotients
<1>7. today = l \div Day /\ O!Days = (lo \div Day) - 1 .. (hi \div Day) + 1
  BY DEF l, lo, hi, O!Days
<1>8. (lo \div Day) \in Int /\ (hi \div Day) \in Int
  BY <1>3, Units, DivMod
<1>9. today \in O!Days
  BY <1>5, <1>7, <1>8
<1>10. CASE lo <= l + 0 * Day
  <2>1. today - 1 \in O!Days
    BY <1>5, <1>6, <1>7, <1>8, <1>10
  <2> QED BY <1>9, <2>1
<1>11. CASE delta < 0 /\ Shift > 0 /\ lo = 0 /\ l < 0 /\ Shift - Change <= l
  <2>1. -Day <= l
    BY <1>3, <1>11, Units
  <2>2. l = Day * (-1) + (l + Day) /\ l + Day \in 0 .. Day - 1
    BY <1>3, <1>11, <2>1, Units
  <2>3. l \div Day = -1
    BY <1>3, <2>2, Units, DivUnique
  <2> QED BY <1>7, <1>9, <1>11, <2>3 DEF O!Span, l
<1> QED BY <1>4, <1>10, <1>11

\* get_layer_active_windows finds the instants at which the layer is active
\* (is_layer_active_now).
LEMMA WindowsMatch ==
  ASSUME delta \in O!Deltas, layer \in Layers, O!Clean, NEW t \in O!Instants
  PROVE  t \in O!Covered <=> \/ layer.restrictions = {}
                             \/ \E r \in layer.restrictions : O!Matches(r, O!ToLocal(t))
<1> DEFINE l == O!ToLocal(t)
           today == l \div Day
           m == l % Day
<1>0. t \in Int
  BY Units DEF O!Instants
<1>1. l \in Int
  BY <1>0, Clocks
<1>2. today \in Int /\ m \in 0 .. Day - 1 /\ l = Day * today + m
  BY <1>1, Units, DivMod
<1>3. \A d \in O!Days : d \in Int
  BY DEF O!Days
<1> HIDE DEF l, today, m
<1>4. ASSUME NEW r \in layer.restrictions
      PROVE  O!Matches(r, l) <=> \E d \in O!Days : /\ r.weekday \in {Anyday, d % Week}
                                                   /\ O!WindowOf(r, d)[1] <= t /\ t < O!WindowOf(r, d)[2]
  <2>0. r \in O!Restrictions /\ r.start \in 0 .. Day - 1 /\ r.end \in 0 .. Day - 1
    BY LayerColumns, Units DEF O!Restrictions
  <2>1. \A d \in O!Days : O!WindowOf(r, d)[1] <= t /\ t < O!WindowOf(r, d)[2]
                            <=> First(r, d) <= l /\ l < Last(r, d)
    BY <1>0, <1>3, InWindow DEF l
  <2>2. \A d \in O!Days :
          First(r, d) <= l /\ l < Last(r, d)
            <=> IF r.start = r.end THEN d = today
                ELSE IF r.start < r.end THEN d = today /\ r.start <= m /\ m < r.end
                ELSE (d = today /\ m >= r.start) \/ (d = today - 1 /\ m < r.end)
    <3> SUFFICES ASSUME NEW d \in O!Days
                 PROVE  First(r, d) <= l /\ l < Last(r, d)
                          <=> IF r.start = r.end THEN d = today
                              ELSE IF r.start < r.end THEN d = today /\ r.start <= m /\ m < r.end
                              ELSE (d = today /\ m >= r.start) \/ (d = today - 1 /\ m < r.end)
      OBVIOUS
    <3>1. d \in Int /\ today = l \div Day /\ m = l % Day /\ m \in Int
      BY <1>2, <1>3 DEF today, m
    <3> QED BY <1>1, <1>2, <2>0, <3>1, WhichDay
  <2>3. O!TimeOfDay(l) = m /\ O!Weekday(l) = today % Week /\ (O!Weekday(l) - 1) % Week = (today - 1) % Week
    BY <1>2, Units, RemainderBefore DEF O!TimeOfDay, O!Weekday, today, m
  <2>4. today \in O!Days
    BY <1>2, DaysSuffice DEF today, l
  <2>5. r.start > r.end /\ m < r.end => today - 1 \in O!Days
    <3> SUFFICES ASSUME r.start > r.end, m < r.end, today - 1 \notin O!Days PROVE FALSE
      OBVIOUS
    <3>1. delta < 0 /\ today = -1 /\ O!Span <= l /\ Shift > 0
      BY <1>2, DaysSuffice DEF today, l
    <3>2. O!Span = Shift - Change /\ delta # 0 /\ l = m - Day
      BY <1>2, <3>1, Units DEF O!Span
    <3> DEFINE x == r.end - Day - (Shift - Change)
    <3>3. x \in 1 .. (Change - 1) /\ O!Span + x = r.end + (-1) * Day
      BY <1>1, <1>2, <2>0, <3>1, <3>2, Units
    <3>4. (r.end + (-1) * Day) % Day = r.end % Day
      <4>1. \A a, k \in Int : (a + k * Day) % Day = a % Day
        BY Units, SameRemainder
      <4>2. r.end \in Int /\ -1 \in Int
        BY <2>0
      <4> QED BY <4>1, <4>2, Zenon
    <3>5. O!Changed(r.end)
      BY <3>2, <3>3, <3>4 DEF O!Changed
    <3>6. ~O!Changed(r.end)
      BY <2>0 DEF O!Clean
    <3> QED BY <3>5, <3>6
  <2>6. CASE r.start = r.end
    BY <2>1, <2>2, <2>3, <2>4, <2>6 DEF O!Matches
  <2>7. CASE r.start < r.end
    BY <2>0, <2>1, <2>2, <2>3, <2>4, <2>7 DEF O!Matches
  <2>8. CASE r.start > r.end
    BY <2>0, <2>1, <2>2, <2>3, <2>4, <2>5, <2>8 DEF O!Matches
  <2> QED BY <2>0, <2>6, <2>7, <2>8
<1> QED BY <1>4 DEF O!Covered, l

-----------------------------------------------------------------------------
(* Segments: nobody else's turn begins inside one *)

\* The slot lasts until the next boundary, which lies ahead (layer_slot_index,
\* next_layer_boundary_utc).
LEMMA SlotLasts ==
  ASSUME delta \in O!Deltas, layer \in Layers, O!Clean,
         NEW at \in Nat, at >= O!ToUtc(layer.start)
  PROVE  /\ O!NextBoundary(at) \in Nat /\ O!NextBoundary(at) > at
         /\ \A t \in Nat : at <= t /\ t < O!NextBoundary(at) => O!SlotIndex(t) = O!SlotIndex(at)
<1> DEFINE n == layer.interval
           s == layer.start
           u == O!ToUtc(layer.start)
<1>0. n \in Nat \ {0} /\ s \in Int /\ u \in Int /\ at >= u
  BY LayerColumns, Clocks
<1>1. CASE layer.calendar
  <2>0. ~O!Changed(s)
    BY <1>1 DEF O!Clean
  <2> DEFINE q == (O!ToLocal(at) - s) \div n
             a == O!ToLocal(at) - s
             e == s + n * q
             f == s + n * (q + 1)
  <2>1. a \in Int
    BY <1>0, Clocks
  <2>2. O!SlotIndex(at) = q /\ O!NextBoundary(at) = O!ToUtc(f)
    BY <1>0, <1>1 DEF O!SlotIndex, O!NextBoundary
  <2>3. PICK k \in Nat : n = k * Day
    BY <1>1, LayerColumns
  <2>4. \A t \in Nat : at <= t => O!SlotIndex(t) = (O!ToLocal(t) - s) \div n
    BY <1>0, <1>1 DEF O!SlotIndex
  <2>5. O!ToLocal(at) = s + a /\ q = a \div n
    BY <1>0, Clocks
  <2> HIDE DEF n, s, u, a, q
  <2>6. q \in Int /\ n * q <= a /\ a < n * q + n
    BY <1>0, <2>1, <2>5, Between
  <2>7. e \in Int /\ f \in Int /\ f = e + n /\ e = s + (k * q) * Day /\ f = s + (k * (q + 1)) * Day
    <3>1. k \in Int /\ Day \in Int
      BY Units
    <3>2. n * q = (k * q) * Day /\ n * (q + 1) = (k * (q + 1)) * Day
      BY <2>3, <2>6, <3>1
    <3>3. n * q \in Int /\ n * (q + 1) = n * q + n
      BY <1>0, <2>6
    <3> QED BY <1>0, <3>2, <3>3
  <2>8. ~O!Changed(e) /\ ~O!Changed(f)
    <3>1. k * q \in Int /\ k * (q + 1) \in Int
      BY <2>6
    <3>2. \A j \in Int : ~O!Changed(s + j * Day)
      BY <1>0, <2>0, EveryDay
    <3> QED BY <2>7, <3>1, <3>2
  <2>9. n * q = e - s
    BY <1>0, <2>6, <2>7
  <2> HIDE DEF e, f
  <2>10. \A t \in Int : /\ t >= O!ToUtc(e) <=> O!ToLocal(t) >= e
                        /\ t >= O!ToUtc(f) <=> O!ToLocal(t) >= f
    BY <2>7, <2>8, Edge
  <2>11. O!ToUtc(e) \in Int /\ O!ToUtc(f) \in Int /\ \A t \in Int : O!ToLocal(t) \in Int
    BY <2>7, Clocks
  <2>12. at >= O!ToUtc(e) /\ ~(at >= O!ToUtc(f))
    <3>1. O!ToLocal(at) >= e /\ ~(O!ToLocal(at) >= f)
      BY <1>0, <2>1, <2>5, <2>6, <2>7, <2>9
    <3> QED BY <2>10, <3>1
  <2>13. ASSUME NEW t \in Nat, at <= t, t < O!NextBoundary(at) PROVE O!SlotIndex(t) = q
    <3>1. t >= O!ToUtc(e) /\ ~(t >= O!ToUtc(f))
      BY <2>2, <2>11, <2>12, <2>13
    <3>2. O!ToLocal(t) >= e /\ ~(O!ToLocal(t) >= f) /\ O!ToLocal(t) \in Int
      BY <2>10, <2>11, <3>1
    <3> DEFINE c == O!ToLocal(t) - s
    <3>3. c \in Int /\ n * q <= c /\ c < n * q + n
      BY <1>0, <2>7, <2>9, <3>2
    <3>4. O!SlotIndex(t) = c \div n
      BY <2>4, <2>13
    <3> HIDE DEF c
    <3> QED BY <1>0, <2>6, <3>3, <3>4, QuotientOf
  <2> QED BY <2>2, <2>11, <2>12, <2>13
<1>2. CASE ~layer.calendar
  <2> DEFINE q == (at - u) \div n
             a == at - u
  <2>1. a \in Int
    BY <1>0
  <2>2. O!SlotIndex(at) = q /\ O!NextBoundary(at) = u + n * (q + 1)
    BY <1>0, <1>2 DEF O!SlotIndex, O!NextBoundary
  <2>3. \A t \in Nat : at <= t => O!SlotIndex(t) = (t - u) \div n
    BY <1>0, <1>2 DEF O!SlotIndex
  <2>4. at = u + a /\ q = a \div n
    BY <1>0
  <2> HIDE DEF n, s, u, a, q
  <2>5. q \in Int /\ n * q <= a /\ a < n * q + n
    BY <1>0, <2>1, <2>4, Between
  <2>6. n * (q + 1) = n * q + n /\ n * q \in Int
    BY <1>0, <2>5
  <2>7. ASSUME NEW t \in Nat, at <= t, t < O!NextBoundary(at) PROVE O!SlotIndex(t) = q
    <3> DEFINE c == t - u
    <3>1. c \in Int /\ n * q <= c /\ c < n * q + n
      BY <1>0, <2>1, <2>2, <2>4, <2>5, <2>6, <2>7
    <3>2. O!SlotIndex(t) = c \div n
      BY <2>3, <2>7
    <3> HIDE DEF c
    <3> QED BY <1>0, <2>5, <3>1, <3>2, QuotientOf
  <2> QED BY <1>0, <2>1, <2>2, <2>4, <2>5, <2>6, <2>7
<1> QED BY <1>1, <1>2

\* The members on the roster stay the same until one begins or ends
\* (get_next_layer_member_boundary).
LEMMA MembersLast ==
  ASSUME layer \in Layers, NEW at \in Nat, NEW end \in Nat, at < end
  PROVE  /\ O!MemberBoundary(at, end) \in Nat /\ O!MemberBoundary(at, end) <= end
         /\ O!MemberBoundary(at, end) > at
         /\ \A t \in Nat : at <= t /\ t < O!MemberBoundary(at, end) => O!Present(t) = O!Present(at)
<1> DEFINE edges == UNION {{layer.members[i].from, layer.members[i].to} : i \in DOMAIN layer.members}
           ahead == {b \in edges : at < b /\ b < end}
           T == {end} \cup ahead
<1>1. \A i \in DOMAIN layer.members : layer.members[i].from \in Nat /\ layer.members[i].to \in Nat
  <2> SUFFICES ASSUME NEW i \in DOMAIN layer.members
               PROVE  layer.members[i].from \in Nat /\ layer.members[i].to \in Nat
    OBVIOUS
  <2>1. layer.members[i] \in O!Periods
    BY LayerColumns
  <2> QED BY <2>1 DEF O!Periods
<1>2. edges \subseteq Nat /\ \A i \in DOMAIN layer.members : layer.members[i].from \in edges /\ layer.members[i].to \in edges
  BY <1>1
<1>3. O!MemberBoundary(at, end) = O!Min(T)
  BY DEF O!MemberBoundary
<1> HIDE DEF edges
<1>4. T \in SUBSET Nat /\ T # {} /\ \A b \in T : b > at
  BY <1>2
<1>5. O!Min(T) \in T /\ \A y \in T : O!Min(T) <= y
  BY <1>4, FirstInstant
<1>6. ASSUME NEW t \in Nat, at <= t, t < O!Min(T) PROVE O!Present(t) = O!Present(at)
  <2>1. ASSUME NEW b \in edges PROVE b <= at <=> b <= t
    BY <1>2, <1>4, <1>5, <1>6, <2>1
  <2>2. \A i \in DOMAIN layer.members :
          /\ layer.members[i].from <= at <=> layer.members[i].from <= t
          /\ layer.members[i].to <= at <=> layer.members[i].to <= t
    BY <1>2, <2>1
  <2>3. \A i \in DOMAIN layer.members : at < layer.members[i].to <=> t < layer.members[i].to
    BY <1>1, <2>2
  <2> QED BY <2>2, <2>3 DEF O!Present
<1>7. O!Min(T) <= end /\ O!Min(T) \in Nat /\ O!Min(T) > at
  BY <1>4, <1>5
<1> QED BY <1>3, <1>6, <1>7

\* The window goes on until the first instant that is not active (merge_windows).
LEMMA WindowLasts ==
  ASSUME delta \in O!Deltas, active \subseteq O!Instants, NEW at \in 0 .. Horizon
  PROVE  /\ O!WindowEnd(at) \in at .. Horizon
         /\ at \in active => O!WindowEnd(at) > at
         /\ \A t \in Nat : at <= t /\ t < O!WindowEnd(at) => t \in active
<1> DEFINE T == {t \in at .. Horizon : t \notin active}
<1>1. Horizon \in T /\ T \in SUBSET Nat
  BY Units DEF O!Instants
<1>2. O!Min(T) \in T /\ \A y \in T : O!Min(T) <= y
  BY <1>1, FirstInstant
<1>3. O!WindowEnd(at) = O!Min(T)
  BY DEF O!WindowEnd
<1>4. ASSUME NEW t \in Nat, at <= t, t < O!Min(T) PROVE t \in active
  <2>1. t \in at .. Horizon
    BY <1>2, <1>4, Units
  <2>2. t \notin T
    BY <1>1, <1>2, <1>4
  <2> QED BY <2>1, <2>2
<1>5. O!Min(T) \in at .. Horizon /\ O!Min(T) \notin active
  BY <1>2
<1> QED BY <1>3, <1>4, <1>5

\* Whom a page would go to if every period that covers the instant were active.
Due(t) == IF O!ActiveAt(t) THEN O!UserAt(t) ELSE O!Nobody

\* Nobody is on call outside the windows or before the layer starts, and inside them
\* the member whose turn it is (get_scheduled_oncall_user).
LEMMA TurnOf ==
  ASSUME delta \in O!Deltas, layer \in Layers, O!Clean, NEW t \in O!Instants
  PROVE  /\ t \notin O!Covered \/ t < O!ToUtc(layer.start) => Due(t) = O!Nobody
         /\ t \in O!Covered => Due(t) = O!UserAt(t)
<1>1. t < O!ToUtc(layer.start) => O!UserAt(t) = O!Nobody
  BY DEF O!UserAt, O!UserOf, O!SlotIndex
<1> QED BY <1>1, WindowsMatch DEF Due, O!ActiveAt

\* What has been drawn up to the cursor is whose turn it is, and nothing has been
\* drawn after it.
Picture ==
  /\ cursor \in 0 .. Horizon
  /\ \A t \in O!Instants : shown[t] = IF t < cursor THEN Due(t) ELSE O!Nobody

\* One turn of the loop draws one segment right (build_layer_candidate_events).
LEMMA SegmentRight ==
  ASSUME delta \in O!Deltas, layer \in Layers, O!Clean, active = O!Covered, Picture, O!Segment
  PROVE  /\ cursor' \in 0 .. Horizon
         /\ \A t \in O!Instants : shown'[t] = IF t < cursor' THEN Due(t) ELSE O!Nobody
<1> DEFINE u == O!ToUtc(layer.start)
           from == O!Max({cursor, u})
           T == {t \in active : t >= from} \cup {Horizon}
           at == O!Min(T)
           end == O!SegmentEnd(at, O!WindowEnd(at))
<1>0. /\ Horizon \in Nat /\ u \in Int /\ cursor \in Nat /\ cursor < Horizon
      /\ active \subseteq O!Instants /\ layer.interval \in Nat \ {0}
      /\ \A t \in O!Instants : t \in Nat /\ t < Horizon
  <2>1. Horizon \in Nat /\ \A t \in O!Instants : t \in Nat /\ t < Horizon
    BY Units DEF O!Instants
  <2>2. cursor \in Nat /\ cursor < Horizon
    BY <2>1 DEF Picture, O!Segment
  <2>3. active \subseteq O!Instants
    BY DEF O!Covered
  <2>4. layer.start \in Nat /\ layer.interval \in Nat \ {0}
    BY LayerColumns
  <2>5. O!ToUtc(layer.start) \in Int
    <3>1. layer.start \in Int
      BY <2>4
    <3> QED BY <3>1, Clocks
  <2> QED BY <2>1, <2>2, <2>3, <2>4, <2>5
<1>1. /\ cursor' = end
      /\ \A t \in O!Instants : shown'[t] = IF at <= t /\ t < end THEN O!UserAt(at) ELSE shown[t]
  BY DEF O!Segment
<1> HIDE DEF u, end
<1>2. from \in Nat /\ from >= cursor /\ from >= u /\ (from = cursor \/ from = u)
  <2>1. from = IF cursor >= u THEN cursor ELSE u
    BY <1>0, Greater
  <2> HIDE DEF from
  <2> QED BY <1>0, <2>1
<1> HIDE DEF from
<1>3. T \in SUBSET Nat /\ T # {}
  BY <1>0
<1>4. at \in T /\ \A y \in T : at <= y
  BY <1>3, FirstInstant
<1>5. at \in 0 .. Horizon /\ (at < Horizon => at \in active /\ at >= from)
  BY <1>0, <1>3, <1>4
<1>6. ASSUME NEW t \in O!Instants, t < at, t >= cursor PROVE Due(t) = O!Nobody
  <2>1. t \notin active \/ ~(t >= from)
    BY <1>0, <1>4, <1>5, <1>6
  <2>2. t \notin active \/ t < u
    BY <1>0, <1>2, <1>6, <2>1
  <2> QED BY <2>2, TurnOf DEF u
<1> HIDE DEF at, T
<1> DEFINE w == O!WindowEnd(at)
           next == O!Min({O!NextBoundary(at), O!MemberBoundary(at, w), w})
<1>7. /\ w \in at .. Horizon /\ (at \in active => w > at)
      /\ \A t \in Nat : at <= t /\ t < w => t \in active
  BY <1>0, <1>5, WindowLasts
<1>8. end = IF next <= at THEN O!Min({at + layer.interval, w}) ELSE next
  BY DEF end, O!SegmentEnd
<1>9. O!NextBoundary(at) \in Nat /\ O!NextBoundary(at) > at
  <2>1. CASE at >= u
    BY <1>5, <2>1, SlotLasts DEF u
  <2>2. CASE at < u
    BY <1>0, <1>5, <2>2 DEF O!NextBoundary, u
  <2> QED BY <1>0, <1>5, <2>1, <2>2
<1> HIDE DEF w
<1>10. CASE at = Horizon
  <2>1. w = Horizon
    BY <1>0, <1>7, <1>10
  <2>2. O!MemberBoundary(at, w) = Horizon
    <3> DEFINE ahead == {b \in UNION {{layer.members[i].from, layer.members[i].to} : i \in DOMAIN layer.members} :
                           at < b /\ b < w}
    <3>1. O!MemberBoundary(at, w) = O!Min({w} \cup ahead)
      BY DEF O!MemberBoundary
    <3>2. {w} \cup ahead \in SUBSET Nat /\ \A b \in ahead : FALSE
      <4>1. \A i \in DOMAIN layer.members : layer.members[i].from \in Nat /\ layer.members[i].to \in Nat
        <5> SUFFICES ASSUME NEW i \in DOMAIN layer.members
                     PROVE  layer.members[i].from \in Nat /\ layer.members[i].to \in Nat
          OBVIOUS
        <5>1. layer.members[i] \in O!Periods
          BY LayerColumns
        <5> QED BY <5>1 DEF O!Periods
      <4>2. \A b \in ahead : b \in Nat /\ at < b /\ b < w
        BY <4>1
      <4> QED BY <1>0, <1>10, <2>1, <4>2
    <3> HIDE DEF ahead
    <3>3. O!Min({w} \cup ahead) \in {w} \cup ahead
      BY <3>2, FirstInstant
    <3> QED BY <2>1, <3>1, <3>2, <3>3
  <2>3. next \in Nat /\ next <= Horizon
    <3> DEFINE three == {O!NextBoundary(at), O!MemberBoundary(at, w), w}
    <3>1. three \in SUBSET Nat /\ Horizon \in three
      BY <1>0, <1>9, <2>1, <2>2
    <3> HIDE DEF three
    <3>2. O!Min(three) \in three /\ \A y \in three : O!Min(three) <= y
      BY <3>1, FirstInstant
    <3> QED BY <3>1, <3>2 DEF three
  <2>4. O!Min({at + layer.interval, w}) = Horizon
    <3> DEFINE two == {at + layer.interval, w}
    <3>1. two \in SUBSET Nat /\ \A y \in two : Horizon <= y
      BY <1>0, <1>10, <2>1
    <3>2. Horizon \in two
      BY <2>1
    <3> HIDE DEF two
    <3>3. O!Min(two) \in two /\ O!Min(two) <= Horizon
      BY <3>1, <3>2, FirstInstant
    <3>4. O!Min(two) \in Nat /\ Horizon <= O!Min(two)
      BY <3>1, <3>3
    <3>5. O!Min(two) = Horizon
      BY <1>0, <3>3, <3>4
    <3> QED BY <3>5 DEF two
  <2> HIDE DEF next
  <2>5. end = Horizon
    BY <1>8, <1>10, <2>3, <2>4
  <2>6. ASSUME NEW t \in O!Instants PROVE shown'[t] = Due(t)
    <3>1. t < at /\ shown'[t] = shown[t]
      BY <1>0, <1>1, <1>10, <2>5
    <3>2. CASE t < cursor
      BY <3>1, <3>2 DEF Picture
    <3>3. CASE t >= cursor
      BY <1>0, <1>6, <3>1, <3>3 DEF Picture
    <3> QED BY <1>0, <3>2, <3>3
  <2> QED BY <1>0, <1>1, <2>5, <2>6
<1>11. CASE at < Horizon
  <2>1. at \in active /\ at >= u /\ at >= cursor /\ at \in Nat /\ w \in Nat /\ at < w /\ w <= Horizon
    BY <1>0, <1>2, <1>5, <1>7, <1>11
  <2>2. /\ O!MemberBoundary(at, w) \in Nat /\ O!MemberBoundary(at, w) <= w /\ O!MemberBoundary(at, w) > at
        /\ \A t \in Nat : at <= t /\ t < O!MemberBoundary(at, w) => O!Present(t) = O!Present(at)
    BY <2>1, MembersLast
  <2>3. \A t \in Nat : at <= t /\ t < O!NextBoundary(at) => O!SlotIndex(t) = O!SlotIndex(at)
    BY <2>1, SlotLasts DEF u
  <2>4. next \in Nat /\ next > at /\ next <= w /\ next <= O!NextBoundary(at) /\ next <= O!MemberBoundary(at, w)
    <3> DEFINE three == {O!NextBoundary(at), O!MemberBoundary(at, w), w}
    <3>1. three \in SUBSET Nat /\ three # {} /\ \A y \in three : y > at
      BY <1>9, <2>1, <2>2
    <3>2. O!Min(three) \in three /\ \A y \in three : O!Min(three) <= y
      BY <3>1, FirstInstant
    <3>3. O!NextBoundary(at) \in three /\ O!MemberBoundary(at, w) \in three /\ w \in three
      OBVIOUS
    <3> HIDE DEF three
    <3>4. O!Min(three) \in Nat /\ O!Min(three) > at
      BY <3>1, <3>2
    <3> QED BY <3>2, <3>3, <3>4 DEF three
  <2> HIDE DEF next
  <2>5. end = next
    BY <1>8, <2>1, <2>4
  <2>6. ASSUME NEW t \in O!Instants, at <= t, t < end PROVE Due(t) = O!UserAt(at)
    <3>1. O!Present(t) = O!Present(at) /\ O!SlotIndex(t) = O!SlotIndex(at) /\ t \in active
      BY <1>0, <1>7, <1>9, <2>1, <2>2, <2>3, <2>4, <2>5, <2>6
    <3>2. O!UserAt(t) = O!UserAt(at)
      BY <3>1 DEF O!UserAt, O!UserOf
    <3> QED BY <3>1, <3>2, TurnOf
  <2>7. ASSUME NEW t \in O!Instants PROVE shown'[t] = IF t < end THEN Due(t) ELSE O!Nobody
    <3>1. CASE at <= t /\ t < end
      BY <1>1, <2>6, <3>1
    <3>2. CASE t < at /\ t < cursor
      <4>1. shown'[t] = shown[t] /\ t < end
        BY <1>0, <1>1, <2>1, <2>4, <2>5, <3>2
      <4> QED BY <3>2, <4>1 DEF Picture
    <3>3. CASE t < at /\ ~(t < cursor)
      <4>1. shown'[t] = shown[t] /\ t < end /\ t >= cursor
        BY <1>0, <1>1, <2>1, <2>4, <2>5, <3>3
      <4> QED BY <1>6, <3>3, <4>1 DEF Picture
    <3>4. CASE ~(t < end)
      <4>1. shown'[t] = shown[t] /\ ~(t < cursor)
        BY <1>0, <1>1, <2>1, <2>4, <2>5, <3>4
      <4> QED BY <3>4, <4>1 DEF Picture
    <3> QED BY <1>0, <2>1, <3>1, <3>2, <3>3, <3>4
  <2> QED BY <1>0, <1>1, <2>1, <2>4, <2>5, <2>7
<1> QED BY <1>5, <1>10, <1>11, Units

\* Nothing a page depends on changes while the calendar is drawn.
LEMMA SameLayer ==
  ASSUME UNCHANGED <<delta, layer>>
  PROVE  /\ O!Clean' <=> O!Clean
         /\ O!Covered' = O!Covered
         /\ \A t \in O!Instants : Due(t)' = Due(t)
<1>1. delta' = delta /\ layer' = layer
  OBVIOUS
<1>2. O!Clean' <=> O!Clean
  BY <1>1, Zenon DEF O!Clean, O!Changed, O!Span
<1>3. ASSUME NEW l PROVE O!ToLocal(l)' = O!ToLocal(l) /\ O!ToUtc(l)' = O!ToUtc(l)
  BY <1>1, Zenon DEF O!ToLocal, O!ToUtc, O!Max
<1>4. O!Days' = O!Days
  BY <1>1, Zenon DEF O!Days, O!ToLocal
<1>5. ASSUME NEW r, NEW d PROVE O!WindowOf(r, d)' = O!WindowOf(r, d)
  BY <1>1, Zenon DEF O!WindowOf, O!ToUtc, O!Max
<1>6. O!Covered' = O!Covered
  BY <1>1, <1>4, <1>5, Zenon DEF O!Covered
<1>7. ASSUME NEW t PROVE O!SlotIndex(t)' = O!SlotIndex(t) /\ O!Present(t)' = O!Present(t)
  BY <1>1, Zenon DEF O!SlotIndex, O!Present, O!ToLocal, O!ToUtc, O!Max
<1>8. ASSUME NEW t PROVE O!UserAt(t)' = O!UserAt(t)
  BY <1>1, <1>7, SMT DEF O!UserAt, O!UserOf
<1>9. ASSUME NEW t PROVE Due(t)' = Due(t)
  BY <1>1, <1>8, Zenon DEF Due, O!ActiveAt, O!Matches, O!Weekday, O!TimeOfDay, O!ToLocal
<1> QED BY <1>2, <1>6, <1>9

\* The calendar as it is drawn; the windows were computed for this layer.
CalendarDrawn ==
  part = "calendar" =>
    /\ delta \in O!Deltas /\ layer \in Layers /\ active = O!Covered
    /\ O!Clean => Picture

LEMMA CalendarBegins == Init => CalendarDrawn
<1> SUFFICES ASSUME Init, part = "calendar" PROVE CalendarDrawn
  BY DEF CalendarDrawn
<1>1. O!Init
  BY DEF Init
<1>2. delta \in O!Deltas /\ layer \in Layers /\ active = O!Covered /\ cursor = 0
      /\ shown = [t \in O!Instants |-> O!Nobody]
  BY <1>1 DEF O!Init
<1>3. Horizon \in Nat
  BY <1>2, Units
<1>4. \A t \in O!Instants : ~(t < 0)
  BY <1>3 DEF O!Instants
<1>5. Picture
  BY <1>2, <1>3, <1>4 DEF Picture
<1> QED BY <1>2, <1>5 DEF CalendarDrawn

LEMMA CalendarGoesOn == CalendarDrawn /\ [Next]_vars => CalendarDrawn'
<1> SUFFICES ASSUME CalendarDrawn, [Next]_vars, part' = "calendar" PROVE CalendarDrawn'
  BY DEF CalendarDrawn
<1>1. part = "calendar" /\ (O!Segment \/ UNCHANGED calendarVars)
  BY DEF Next, vars, Silencing, Answering, Drawing, calendarVars
<1>2. delta \in O!Deltas /\ layer \in Layers /\ active = O!Covered /\ (O!Clean => Picture)
  BY <1>1 DEF CalendarDrawn
<1>3. UNCHANGED <<delta, layer>> /\ active' = active
  BY <1>1 DEF O!Segment, calendarVars
<1>4. /\ O!Clean' <=> O!Clean
      /\ O!Covered' = O!Covered
      /\ \A t \in O!Instants : Due(t)' = Due(t)
  BY <1>3, SameLayer
<1>5. ASSUME O!Clean PROVE Picture'
  <2>1. CASE O!Segment
    <3>1. /\ cursor' \in 0 .. Horizon
          /\ \A t \in O!Instants : shown'[t] = IF t < cursor' THEN Due(t) ELSE O!Nobody
      BY <1>2, <1>5, <2>1, SegmentRight
    <3> QED BY <1>4, <3>1, Zenon DEF Picture
  <2>2. CASE UNCHANGED calendarVars
    <3>1. cursor' = cursor /\ shown' = shown
      BY <2>2 DEF calendarVars
    <3> QED BY <1>2, <1>4, <1>5, <3>1, Zenon DEF Picture
  <2> QED BY <1>1, <2>1, <2>2
<1> QED BY <1>2, <1>3, <1>4, <1>5 DEF CalendarDrawn

\* The person calendar_service.py shows at an instant is the one oncall.py pages at
\* that instant: for every layer, every length of a day, of a week and of the range,
\* and every clock change of at most a day that cuts no handoff and no edge of a
\* restriction, at every instant that no inactive period covers.
THEOREM CalendarAgreesHolds == Spec => []CalendarAgrees
<1>1. CalendarDrawn => CalendarAgrees
  <2> SUFFICES ASSUME CalendarDrawn, part = "calendar", cursor = Horizon, O!Clean, NEW t \in O!Instants,
                      O!OnDuty(t) = O!Present(t)
               PROVE  shown[t] = O!OnCallUser(t)
    BY DEF CalendarAgrees, O!CalendarAgrees
  <2>1. Picture /\ delta \in O!Deltas
    BY DEF CalendarDrawn
  <2>2. t < Horizon
    BY <2>1, Units DEF O!Instants
  <2>3. O!OnCallUser(t) = Due(t)
    BY DEF O!OnCallUser, O!UserAt, Due
  <2> QED BY <2>1, <2>2, <2>3 DEF Picture
<1> QED BY <1>1, CalendarBegins, CalendarGoesOn, PTL DEF Spec

-----------------------------------------------------------------------------
(* Responder requests *)

\* The rows of the requests, and what the API requests in flight have to write.
ClientRows == {R!Free, [kind |-> "create"]} \cup [kind : {"answer"}, slot : Slots, status : R!Answers]
RequestRows == request \in [Slots -> R!Statuses] /\ client \in [Clients -> ClientRows]

LEMMA RequestsBegin == Init => RequestRows
BY DEF Init, R!Init, RequestRows, ClientRows, R!Statuses

\* What a handler of responders.py changes: only an answer somebody gave, which
\* uses up the API request, changes a request that is not merely requested.
LEMMA RequestStep ==
  ASSUME RequestRows, R!Next
  PROVE  /\ RequestRows'
         /\ \A s \in Slots : request[s] \in {"accepted", "declined", "resolved"}
                             /\ request'[s] # request[s] => client' # client
<1> USE DEF RequestRows, ClientRows, R!Statuses
<1>1. ASSUME NEW c \in Clients, R!AskForHelp(c)
      PROVE  client' \in [Clients -> ClientRows] /\ request' = request
  BY <1>1 DEF R!AskForHelp, R!Call
<1>2. ASSUME NEW c \in Clients, R!Answer(c)
      PROVE  client' \in [Clients -> ClientRows] /\ request' = request
  <2>1. PICK s \in Slots, status \in R!Answers : R!Call(c, [kind |-> "answer", slot |-> s, status |-> status])
    BY <1>2 DEF R!Answer
  <2> QED BY <2>1 DEF R!Call
<1>3. ASSUME NEW c \in Clients, R!Create(c)
      PROVE  /\ client' \in [Clients -> ClientRows] /\ request' \in [Slots -> R!Statuses]
             /\ \A s \in Slots : request[s] # "none" => request'[s] = request[s]
  BY <1>3 DEF R!Create
<1>4. ASSUME NEW c \in Clients, R!WriteAnswer(c)
      PROVE  client' \in [Clients -> ClientRows] /\ request' \in [Slots -> R!Statuses] /\ client' # client
  <2>1. client[c] \in ClientRows /\ client[c].kind = "answer"
    BY <1>4 DEF R!WriteAnswer
  <2>2. client[c] \in [kind : {"answer"}, slot : Slots, status : R!Answers] /\ client[c] # R!Free
    BY <2>1 DEF R!Free
  <2>3. client[c].status \in R!Statuses
    BY <2>2 DEF R!Answers
  <2>4. client' = [client EXCEPT ![c] = R!Free]
        /\ request' = [request EXCEPT ![client[c].slot] = client[c].status]
    BY <1>4 DEF R!WriteAnswer
  <2>5. client'[c] = R!Free
    BY <2>4
  <2> QED BY <2>2, <2>3, <2>4, <2>5
<1>5. ASSUME NEW s \in Slots, R!TimeOut(s) PROVE client' = client /\ request' = request
  BY <1>5 DEF R!TimeOut
<1>6. ASSUME NEW s \in Slots, R!Expire(s)
      PROVE  /\ client' = client /\ request' \in [Slots -> R!Statuses]
             /\ \A x \in Slots : request[x] # "requested" => request'[x] = request[x]
  BY <1>6 DEF R!Expire, R!MayExpire
<1>7. ASSUME R!Select PROVE client' = client /\ request' = request
  BY <1>7 DEF R!Select
<1> QED BY <1>1, <1>2, <1>3, <1>4, <1>5, <1>6, <1>7 DEF R!Next

\* The expiry job of responders.py never takes an answer back that came while it
\* had the request in hand, for any number of requests and people.
THEOREM AnswerStandsHolds == Spec => AnswerStands
<1>1. ASSUME RequestRows, [Next]_vars
      PROVE  /\ RequestRows'
             /\ [\A s \in Slots : request[s] \in {"accepted", "declined", "resolved"}
                                  /\ request'[s] # request[s] => client' # client]_(R!vars)
  <2>1. CASE R!Next
    BY <1>1, <2>1, RequestStep
  <2>2. CASE UNCHANGED responderVars
    BY <1>1, <2>2 DEF responderVars, R!vars, RequestRows
  <2> QED BY <1>1, <2>1, <2>2 DEF Next, vars, Silencing, Answering, Drawing
<1> QED BY <1>1, RequestsBegin, PTL DEF Spec, AnswerStands, R!AnswerStands

-----------------------------------------------------------------------------
(* Silences *)

AlertStates == {"none", "firing", "silenced", "resolved"}
Silenced == {a \in Alerts : alert[a] = "silenced"}
WriteStages == {"writeRelease", "writeApply", "writeOrphans", "create", "enqueue"}
SilenceStages == {"reconcile", "writeRelease", "saveScheduled", "apply", "writeApply"}

\* An alert that does not exist has no application and no handler has read it.
NothingBefore ==
  /\ \A a \in Alerts : alert[a] = "none" => \A s \in Silences : app[s][a] = "none"
  /\ \A p \in S!Procs : \A a \in proc[p].apps : alert[a] # "none"

\* The group's status is the one recalculate_alert_group gives it, unless the intake
\* saved an old copy.
GroupAgrees == ~raced => group.status = S!Recalculated("none", alert)

\* What a handler has read and will write from is still what the tables hold.
Fresh(h) ==
  /\ h.pc = "writeRelease" => h.kept = S!HeldByOthers(CHOOSE s \in h.todo : TRUE) /\ h.seen = Silenced
  /\ h.pc = "writeApply" => h.seen = Silenced
  /\ h.pc = "writeOrphans" =>
       \A a \in h.apps : alert[a] = "silenced" /\ \A s \in Silences : ~S!Applied(s, a)
  /\ h.pc = "enqueue" => h.copy.status = group.status

\* While handlers do not overlap, one at a time is between its reads and its
\* transaction, and what it read is fresh.
OneReads ==
  ~raced => /\ \A p, q \in S!Procs : S!Reading(p) /\ S!Reading(q) => p = q
            /\ \A p \in S!Procs : Fresh(proc[p])

\* A handler at work on a silence has one; the intake only creates alerts.
Staged(p, h) ==
  /\ h.pc \in SilenceStages => h.todo # {}
  /\ p = Intake => h.pc \in {"idle", "create", "enqueue"}

SilenceIInv ==
  /\ SilenceInv
  /\ NothingBefore /\ GroupAgrees /\ OneReads
  /\ \A p \in S!Procs : Staged(p, proc[p])

\* recalculate_alert_group: a group without alerts keeps its status, one with a
\* firing alert fires, one with a silenced alert is open.
LEMMA GroupStatus ==
  ASSUME NEW f \in [Alerts -> AlertStates], NEW old
  PROVE  /\ (\A a \in Alerts : f[a] = "none") => S!Recalculated(old, f) = old
         /\ (\E a \in Alerts : f[a] # "none") =>
              /\ S!Recalculated(old, f) = S!Recalculated("none", f)
              /\ S!Recalculated(old, f) \in AlertStates \ {"none"}
              /\ S!Recalculated(old, f) = "firing" <=> \E a \in Alerts : f[a] = "firing"
              /\ (\E a \in Alerts : f[a] = "silenced") => S!Recalculated(old, f) # "resolved"
<1> DEFINE present == {f[a] : a \in Alerts} \ {"none"}
<1>1. S!Recalculated(old, f) = CASE present = {} -> old
                                 [] present = {"resolved"} -> "resolved"
                                 [] "firing" \in present -> "firing"
                                 [] OTHER -> "silenced"
  BY DEF S!Recalculated
<1>2. S!Recalculated("none", f) = CASE present = {} -> "none"
                                 [] present = {"resolved"} -> "resolved"
                                 [] "firing" \in present -> "firing"
                                 [] OTHER -> "silenced"
  BY DEF S!Recalculated
<1>3. /\ (\A a \in Alerts : f[a] = "none") => present = {}
      /\ (\E a \in Alerts : f[a] # "none") => present # {}
      /\ "firing" \in present <=> \E a \in Alerts : f[a] = "firing"
      /\ (\E a \in Alerts : f[a] = "silenced") => "silenced" \in present
  BY Zenon
<1> HIDE DEF present
<1>4. present = {"resolved"} => "firing" \notin present /\ "silenced" \notin present
  OBVIOUS
<1>5. CASE present = {}
  BY <1>1, <1>3, <1>5
<1>6. CASE present = {"resolved"}
  BY <1>1, <1>2, <1>3, <1>4, <1>6 DEF AlertStates
<1>7. CASE present # {} /\ present # {"resolved"} /\ "firing" \in present
  BY <1>1, <1>2, <1>3, <1>7 DEF AlertStates
<1>8. CASE present # {} /\ present # {"resolved"} /\ "firing" \notin present
  BY <1>1, <1>2, <1>3, <1>8 DEF AlertStates
<1> QED BY <1>5, <1>6, <1>7, <1>8

\* What the invariant says of the group: it fires when an alert does, and an open
\* group is one with a silenced alert.
LEMMA GroupOpen ==
  ASSUME SilenceIInv
  PROVE  /\ alert \in [Alerts -> AlertStates] /\ group.status \in AlertStates
         /\ ~raced =>
              /\ (\A a \in Alerts : alert[a] = "none") => group.status = "none"
              /\ group.status = "firing" <=> \E a \in Alerts : alert[a] = "firing"
              /\ (\E a \in Alerts : alert[a] = "silenced") => group.status \in {"firing", "silenced"}
<1>0. alert \in [Alerts -> AlertStates] /\ group.status \in AlertStates
  BY DEF SilenceIInv, SilenceInv, S!SilenceInv, S!TypeOK, S!GroupRows, AlertStates
<1> SUFFICES ASSUME ~raced
             PROVE  /\ (\A a \in Alerts : alert[a] = "none") => group.status = "none"
                    /\ group.status = "firing" <=> \E a \in Alerts : alert[a] = "firing"
                    /\ (\E a \in Alerts : alert[a] = "silenced") => group.status \in {"firing", "silenced"}
  BY <1>0
<1>1. alert \in [Alerts -> AlertStates] /\ group.status = S!Recalculated("none", alert)
  BY <1>0 DEF SilenceIInv, GroupAgrees
<1>2. /\ (\A a \in Alerts : alert[a] = "none") => group.status = "none"
      /\ (\E a \in Alerts : alert[a] # "none") =>
           /\ group.status \in AlertStates \ {"none"}
           /\ group.status = "firing" <=> \E a \in Alerts : alert[a] = "firing"
           /\ (\E a \in Alerts : alert[a] = "silenced") => group.status # "resolved"
  BY <1>1, GroupStatus
<1> QED BY <1>1, <1>2 DEF AlertStates

\* Alerts and group that stay agree as before.
LEMMA GroupStays == GroupAgrees /\ alert' = alert /\ group' = group /\ (raced => raced') => GroupAgrees'
BY Zenon DEF GroupAgrees, S!Recalculated

\* A transaction that changes alerts leaves the group right
\* (_pause_group_after_silencing, _restart_group_after_unsilencing): one that comes
\* to fire is queued again.
LEMMA GroupSettles ==
  ASSUME SilenceIInv, NEW f \in [Alerts -> AlertStates],
         \A a \in Alerts : f[a] = "none" <=> alert[a] = "none",
         ~raced => \A a \in Alerts : f[a] = "firing" => alert[a] \in {"firing", "silenced"},
         group' = S!Settled(f), alert' = f, raced' = raced, ~raced => ~S!Enqueuing
  PROVE  /\ group' \in [status : AlertStates, queued : BOOLEAN, paged : BOOLEAN]
         /\ GroupAgrees' /\ S!FiringIsPaged'
<1> DEFINE status == S!Recalculated(group.status, f)
           paused == group.status = "firing" /\ status = "silenced"
           restarted == group.status = "silenced" /\ status = "firing"
<1>1. group' = [status |-> status,
                queued |-> restarted \/ (group.queued /\ ~paused),
                paged |-> group.paged /\ ~paused /\ ~restarted]
  BY DEF S!Settled
<1>2. /\ alert \in [Alerts -> AlertStates] /\ group.status \in AlertStates
      /\ ~raced =>
           /\ (\A a \in Alerts : alert[a] = "none") => group.status = "none"
           /\ group.status = "firing" <=> \E a \in Alerts : alert[a] = "firing"
           /\ (\E a \in Alerts : alert[a] = "silenced") => group.status \in {"firing", "silenced"}
  BY GroupOpen
<1>3. /\ (\A a \in Alerts : f[a] = "none") => status = group.status
      /\ (\E a \in Alerts : f[a] # "none") =>
           /\ status = S!Recalculated("none", f)
           /\ status \in AlertStates \ {"none"}
           /\ status = "firing" <=> \E a \in Alerts : f[a] = "firing"
  BY GroupStatus
<1>4. (\A a \in Alerts : f[a] = "none") => S!Recalculated("none", f) = "none"
  BY GroupStatus
<1> HIDE DEF status
<1>5. status \in AlertStates
  BY <1>2, <1>3
<1>6. GroupAgrees'
  <2>1. group'.status = status
    BY <1>1
  <2>2. ~raced => status = S!Recalculated("none", f)
    BY <1>2, <1>3, <1>4
  <2>3. GroupAgrees' <=> (~raced' => group'.status = S!Recalculated("none", alert'))
    BY DEF GroupAgrees, S!Recalculated
  <2> QED BY <2>1, <2>2, <2>3
<1>7. ASSUME ~raced, status = "firing" PROVE group.status \in {"firing", "silenced"}
  <2>1. \E a \in Alerts : f[a] = "firing"
    BY <1>2, <1>3, <1>7
  <2> QED BY <1>2, <1>7, <2>1
<1>8. ASSUME ~raced, group.status = "firing" PROVE group.queued \/ group.paged
  BY <1>8 DEF SilenceIInv, SilenceInv, S!SilenceInv, S!FiringIsPaged
<1>9. ASSUME ~raced, status = "firing" PROVE group'.queued \/ group'.paged
  <2>1. ~paused
    BY <1>9
  <2>2. CASE group.status = "silenced"
    <3>1. restarted
      BY <1>9, <2>2
    <3> HIDE DEF paused, restarted
    <3>2. group'.queued = (restarted \/ (group.queued /\ ~paused))
      BY <1>1
    <3> QED BY <3>1, <3>2, Zenon
  <2>3. CASE group.status = "firing"
    <3>1. ~restarted /\ (group.queued \/ group.paged)
      BY <1>8, <1>9, <2>3
    <3> HIDE DEF paused, restarted
    <3>2. group'.queued = (restarted \/ (group.queued /\ ~paused)) /\ group'.paged = (group.paged /\ ~paused /\ ~restarted)
      BY <1>1
    <3> QED BY <2>1, <3>1, <3>2, Zenon
  <2> QED BY <1>7, <1>9, <2>2, <2>3
<1>10. S!FiringIsPaged'
  BY <1>1, <1>9 DEF S!FiringIsPaged
<1>11. group' \in [status : AlertStates, queued : BOOLEAN, paged : BOOLEAN]
  <2> HIDE DEF paused, restarted
  <2>1. (restarted \/ (group.queued /\ ~paused)) \in BOOLEAN /\ (group.paged /\ ~paused /\ ~restarted) \in BOOLEAN
    BY Zenon
  <2> QED BY <1>1, <1>5, <2>1
<1> QED BY <1>6, <1>10, <1>11

\* The conjuncts of the invariant.
LEMMA SilenceParts ==
  ASSUME SilenceIInv
  PROVE  /\ silence \in [Silences -> S!SilenceRows]
         /\ app \in [Silences -> [Alerts -> {"none", "new", "existing", "released"}]]
         /\ group \in [status : AlertStates, queued : BOOLEAN, paged : BOOLEAN]
         /\ proc \in [S!Procs -> S!Handlers] /\ raced \in BOOLEAN
         /\ calls \in 0 .. MaxCalls /\ deaths \in 0 .. MaxDeaths
         /\ S!HeldStaysSilenced /\ S!FiringIsPaged
         /\ NothingBefore /\ GroupAgrees /\ OneReads
         /\ \A p \in S!Procs : Staged(p, proc[p])
BY DEF SilenceIInv, SilenceInv, S!SilenceInv, S!TypeOK, S!GroupRows, AlertStates

\* While handlers do not overlap, the intake is not at its queue when another one
\* writes.
LEMMA WriterAlone ==
  ASSUME SilenceIInv, NEW p \in S!Procs, p # Intake, S!Reading(p)
  PROVE  ~raced => ~S!Enqueuing
BY SilenceParts DEF OneReads, S!Reading, S!Enqueuing, S!Procs

\* A step in which a handler reads, or only the stage it is at changes: the tables
\* stay, and a handler that is about to write has read them alone.
LEMMA HandlerReads ==
  ASSUME SilenceIInv, NEW p \in S!Procs, NEW h \in S!Handlers,
         proc' = [proc EXCEPT ![p] = h], UNCHANGED <<app, alert, group>>,
         silence' \in [Silences -> S!SilenceRows],
         calls' \in 0 .. MaxCalls, deaths' \in 0 .. MaxDeaths,
         raced' = raced \/ S!Overlaps(p),
         \A a \in h.apps : alert[a] # "none", p = Intake => proc[p].pc # "enqueue",
         Staged(p, h), Fresh(h), h.pc \in WriteStages => S!Overlaps(p)
  PROVE  SilenceIInv'
<1>0. /\ proc \in [S!Procs -> S!Handlers] /\ raced \in BOOLEAN
      /\ S!HeldStaysSilenced /\ S!FiringIsPaged
      /\ NothingBefore /\ GroupAgrees /\ OneReads
      /\ \A q \in S!Procs : Staged(q, proc[q])
      /\ app' = app /\ alert' = alert /\ group' = group
  BY SilenceParts
<1>1. /\ proc' \in [S!Procs -> S!Handlers] /\ proc'[p] = h
      /\ \A q \in S!Procs : q # p => proc'[q] = proc[q]
  BY <1>0
<1>2. raced' \in BOOLEAN /\ (raced => raced')
  BY <1>0, Zenon DEF S!Overlaps
<1>3. S!TypeOK'
  BY <1>0, <1>1, <1>2, SilenceParts DEF S!TypeOK, AlertStates, SilenceIInv, SilenceInv, S!SilenceInv
<1>4. S!HeldStaysSilenced' /\ S!FiringIsPaged'
  <2>1. S!Enqueuing => S!Enqueuing'
    BY <1>1 DEF S!Enqueuing, S!Procs
  <2> QED BY <1>0, <1>2, <2>1 DEF S!HeldStaysSilenced, S!FiringIsPaged, S!Applied
<1>5. NothingBefore'
  BY <1>0, <1>1 DEF NothingBefore
<1>6. GroupAgrees'
  BY <1>0, <1>2, GroupStays
<1>7. \A q \in S!Procs : Staged(q, proc[q])'
  BY <1>0, <1>1 DEF Staged
<1>8. ASSUME ~raced', NEW q \in S!Procs PROVE Fresh(proc[q])'
  <2>1. Fresh(proc'[q])
    BY <1>0, <1>1, <1>2, <1>8 DEF OneReads
  <2>2. Silenced' = Silenced
    BY <1>0 DEF Silenced
  <2>3. ASSUME NEW s, NEW a PROVE S!Applied(s, a)' <=> S!Applied(s, a)
    BY <1>0 DEF S!Applied
  <2>4. ASSUME NEW s PROVE S!HeldByOthers(s)' = S!HeldByOthers(s)
    BY <2>3, Zenon DEF S!HeldByOthers
  <2> QED BY <1>0, <2>1, <2>2, <2>3, <2>4, Zenon DEF Fresh
<1>9. ASSUME ~raced', NEW q \in S!Procs, NEW r \in S!Procs, S!Reading(q)', S!Reading(r)' PROVE q = r
  <2>1. \A x \in S!Procs : x # p => (S!Reading(x)' <=> S!Reading(x))
    BY <1>1 DEF S!Reading
  <2>2. S!Reading(q) /\ S!Reading(r) => q = r
    BY <1>0, <1>2, <1>9 DEF OneReads
  <2>3. S!Reading(p)' => \A x \in S!Procs \ {p} : ~S!Reading(x)
    <3> SUFFICES ASSUME S!Reading(p)' PROVE \A x \in S!Procs \ {p} : ~S!Reading(x)
      OBVIOUS
    <3>1. S!Overlaps(p)
      BY <1>1 DEF S!Reading, WriteStages
    <3> QED BY <1>9, <3>1 DEF S!Overlaps
  <2> QED BY <1>9, <2>1, <2>2, <2>3
<1>10. OneReads'
  BY <1>8, <1>9 DEF OneReads
<1> QED BY <1>3, <1>4, <1>5, <1>6, <1>7, <1>10 DEF SilenceIInv, SilenceInv, S!SilenceInv

\* A transaction: the handler that writes was the only one between its reads and its
\* writes, unless handlers overlapped, so that no other handler's reads go stale.
LEMMA HandlerWrites ==
  ASSUME SilenceIInv, NEW p \in S!Procs, S!Reading(p), NEW h \in S!Handlers,
         proc' = [proc EXCEPT ![p] = h], h.apps = {}, Staged(p, h),
         h.pc \notin WriteStages \/ (h.pc = "enqueue" /\ h.copy.status = group'.status),
         silence' \in [Silences -> S!SilenceRows],
         app' \in [Silences -> [Alerts -> {"none", "new", "existing", "released"}]],
         alert' \in [Alerts -> AlertStates],
         group' \in [status : AlertStates, queued : BOOLEAN, paged : BOOLEAN],
         UNCHANGED <<raced, calls, deaths>>,
         GroupAgrees', S!FiringIsPaged', S!HeldStaysSilenced',
         \A a \in Alerts : alert[a] # "none" => alert'[a] # "none",
         \A a \in Alerts : alert'[a] = "none" => \A s \in Silences : app'[s][a] = "none"
  PROVE  SilenceIInv'
<1>0. /\ proc \in [S!Procs -> S!Handlers] /\ raced \in BOOLEAN
      /\ NothingBefore /\ OneReads
      /\ \A q \in S!Procs : Staged(q, proc[q])
      /\ raced' = raced /\ calls' = calls /\ deaths' = deaths
      /\ calls \in 0 .. MaxCalls /\ deaths \in 0 .. MaxDeaths
  BY SilenceParts
<1>1. /\ proc' \in [S!Procs -> S!Handlers] /\ proc'[p] = h
      /\ \A q \in S!Procs : q # p => proc'[q] = proc[q]
  BY <1>0
<1>2. S!TypeOK'
  BY <1>0, <1>1 DEF S!TypeOK, S!GroupRows, AlertStates
<1>3. NothingBefore'
  <2>1. \A q \in S!Procs : \A a \in proc[q].apps : a \in Alerts
    BY <1>0 DEF S!Handlers
  <2> QED BY <1>0, <1>1, <2>1 DEF NothingBefore
<1>4. \A q \in S!Procs : Staged(q, proc[q])'
  BY <1>0, <1>1 DEF Staged
<1>5. ASSUME ~raced, NEW q \in S!Procs, S!Reading(q)' PROVE q = p /\ h.pc = "enqueue"
  <2>1. q # p => ~S!Reading(q)
    BY <1>0, <1>5 DEF OneReads
  <2> QED BY <1>1, <1>5, <2>1 DEF S!Reading, WriteStages
<1>6. OneReads'
  <2>1. ASSUME ~raced, NEW q \in S!Procs PROVE Fresh(proc[q])'
    <3>1. proc'[q].pc \notin {"writeRelease", "writeApply", "writeOrphans"}
      BY <1>1, <1>5, <2>1 DEF S!Reading
    <3>2. proc'[q].pc = "enqueue" => proc'[q].copy.status = group'.status
      BY <1>1, <1>5, <2>1 DEF S!Reading, WriteStages
    <3> QED BY <3>1, <3>2 DEF Fresh
  <2> QED BY <1>0, <1>5, <2>1 DEF OneReads
<1> QED BY <1>2, <1>3, <1>4, <1>6 DEF SilenceIInv, SilenceInv, S!SilenceInv

\* A handler at work on a silence has read its row.
LEMMA SilenceInHand ==
  ASSUME SilenceIInv, NEW p \in S!Procs, proc[p].pc \in SilenceStages
  PROVE  /\ S!TheSilence(p) \in proc[p].todo /\ S!TheSilence(p) \in Silences
         /\ proc[p] \in S!Handlers /\ proc[p].row \in S!SilenceRows
<1>1. proc[p] \in S!Handlers /\ proc[p].todo # {}
  BY SilenceParts DEF Staged
<1>2. proc[p].todo \subseteq Silences /\ proc[p].row \in S!SilenceRows
  BY <1>1 DEF S!Handlers
<1>3. S!TheSilence(p) \in proc[p].todo
  BY <1>1 DEF S!TheSilence
<1> QED BY <1>1, <1>2, <1>3

\* silence.save() leaves a row.
LEMMA SavedRow ==
  ASSUME silence \in [Silences -> S!SilenceRows], NEW s \in Silences,
         NEW row \in S!SilenceRows, NEW b \in BOOLEAN
  PROVE  S!Saved(s, [row EXCEPT !.reconciled = b]) \in [Silences -> S!SilenceRows]
<1>1. silence[s].phase \in {"absent", "scheduled", "active", "ended"}
  BY DEF S!SilenceRows
<1>2. [[row EXCEPT !.reconciled = b] EXCEPT !.phase = silence[s].phase] \in S!SilenceRows
  BY <1>1 DEF S!SilenceRows
<1> QED BY <1>2 DEF S!Saved

\* Where a handler starts and ends.
LEMMA IdleHandler == S!Idle \in S!Handlers /\ S!NoSilence \in S!SilenceRows
BY DEF S!Idle, S!Handlers, S!Stages, S!NoSilence, S!SilenceRows, S!NoGroup, S!GroupRows

\* release_silence_applications.
LEMMA WriteReleaseKeeps ==
  ASSUME SilenceIInv, NEW p \in Requests \cup {Job}, S!WriteRelease(p)
  PROVE  SilenceIInv'
<1> DEFINE s == S!TheSilence(p)
           r == proc[p]
           freed == {a \in r.apps : a \in r.seen /\ a \notin r.kept}
           alerts == [a \in Alerts |-> IF a \in freed THEN "firing" ELSE alert[a]]
           rest == IF p = Job THEN [r EXCEPT !.pc = "ends", !.todo = @ \ {s}, !.apps = {}, !.kept = {},
                                             !.seen = {}, !.row = S!NoSilence]
                   ELSE IF S!Active(r.row) THEN [r EXCEPT !.pc = "apply", !.apps = {}, !.kept = {}, !.seen = {}]
                   ELSE IF S!Scheduled(r.row)
                   THEN [r EXCEPT !.pc = "saveScheduled", !.apps = {}, !.kept = {}, !.seen = {}]
                   ELSE S!Idle
<1>1. /\ r.pc = "writeRelease"
      /\ \/ UNCHANGED <<app, alert, group>>
         \/ /\ app' = [app EXCEPT ![s] = [a \in Alerts |-> IF a \in r.apps THEN "released" ELSE @[a]]]
            /\ alert' = alerts
            /\ group' = S!Settled(alerts)
      /\ silence' = S!Saved(s, [r.row EXCEPT !.reconciled = TRUE])
      /\ proc' = [proc EXCEPT ![p] = rest]
      /\ UNCHANGED <<raced, calls, deaths>>
  BY DEF S!WriteRelease
<1>2. p \in S!Procs /\ p # Intake
  BY HandlerAssumption DEF S!SilenceAssumption, S!Procs
<1>3. s \in r.todo /\ s \in Silences /\ r \in S!Handlers /\ r.row \in S!SilenceRows
  BY <1>1, <1>2, SilenceInHand DEF SilenceStages
<1>4. r.apps \subseteq Alerts /\ \A a \in r.apps : alert[a] # "none"
  BY <1>2, <1>3, SilenceParts DEF S!Handlers, NothingBefore
<1>5. ASSUME ~raced PROVE r.kept = S!HeldByOthers(s) /\ r.seen = Silenced
  BY <1>1, <1>2, <1>5, SilenceParts DEF OneReads, Fresh, S!TheSilence
<1> HIDE DEF s
<1>6. rest \in S!Handlers /\ rest.apps = {} /\ rest.pc \notin WriteStages /\ Staged(p, rest)
  <2>1. CASE p = Job
    <3>1. rest = [r EXCEPT !.pc = "ends", !.todo = @ \ {s}, !.apps = {}, !.kept = {},
                           !.seen = {}, !.row = S!NoSilence]
      BY <2>1
    <3> HIDE DEF r, rest
    <3>2. rest \in S!Handlers /\ rest.apps = {} /\ rest.pc = "ends"
      BY <1>3, <3>1, IdleHandler DEF S!Handlers, S!Stages
    <3> QED BY <1>2, <3>2 DEF WriteStages, SilenceStages, Staged
  <2>2. CASE p # Job /\ S!Active(r.row)
    BY <1>2, <1>3, <2>2 DEF S!Handlers, S!Stages, WriteStages, SilenceStages, Staged
  <2>3. CASE p # Job /\ ~S!Active(r.row) /\ S!Scheduled(r.row)
    BY <1>2, <1>3, <2>3 DEF S!Handlers, S!Stages, WriteStages, SilenceStages, Staged
  <2>4. CASE p # Job /\ ~S!Active(r.row) /\ ~S!Scheduled(r.row)
    BY <1>2, <2>4, IdleHandler DEF S!Idle, WriteStages, SilenceStages, Staged
  <2> QED BY <2>1, <2>2, <2>3, <2>4
<1> HIDE DEF rest
<1>7. silence' \in [Silences -> S!SilenceRows]
  BY <1>1, <1>3, SavedRow, SilenceParts
<1>8. S!Reading(p) /\ raced' = raced /\ (~raced => ~S!Enqueuing)
  <2>1. S!Reading(p) /\ raced' = raced
    BY <1>1 DEF S!Reading
  <2> QED BY <1>2, <2>1, WriterAlone
<1>9. /\ app \in [Silences -> [Alerts -> {"none", "new", "existing", "released"}]]
      /\ alert \in [Alerts -> AlertStates]
      /\ group \in [status : AlertStates, queued : BOOLEAN, paged : BOOLEAN]
      /\ S!HeldStaysSilenced /\ S!FiringIsPaged /\ NothingBefore /\ GroupAgrees
  BY SilenceParts, GroupOpen
<1>10. CASE UNCHANGED <<app, alert, group>>
  <2>1. app' = app /\ alert' = alert /\ group' = group
    BY <1>10
  <2>2. GroupAgrees'
    BY <1>8, <1>9, <2>1, GroupStays
  <2>3. S!FiringIsPaged' /\ S!HeldStaysSilenced'
    BY <1>8, <1>9, <2>1 DEF S!FiringIsPaged, S!HeldStaysSilenced, S!Applied
  <2>4. \A a \in Alerts : alert'[a] = "none" => \A t \in Silences : app'[t][a] = "none"
    BY <1>9, <2>1 DEF NothingBefore
  <2> QED BY <1>1, <1>2, <1>6, <1>7, <1>8, <1>9, <2>1, <2>2, <2>3, <2>4, HandlerWrites
<1>11. CASE /\ app' = [app EXCEPT ![s] = [a \in Alerts |-> IF a \in r.apps THEN "released" ELSE @[a]]]
            /\ alert' = alerts /\ group' = S!Settled(alerts)
  <2>1. /\ alerts \in [Alerts -> AlertStates]
        /\ \A a \in Alerts : alerts[a] = "none" <=> alert[a] = "none"
    BY <1>4, <1>9 DEF AlertStates
  <2>2. ~raced => \A a \in Alerts : alerts[a] = "firing" => alert[a] \in {"firing", "silenced"}
    BY <1>5 DEF Silenced
  <2>3. /\ app' \in [Silences -> [Alerts -> {"none", "new", "existing", "released"}]]
        /\ \A a \in Alerts : app'[s][a] = IF a \in r.apps THEN "released" ELSE app[s][a]
        /\ \A t \in Silences : t # s => app'[t] = app[t]
    BY <1>3, <1>9, <1>11
  <2>4. ASSUME ~raced, NEW a \in Alerts, alert'[a] = "firing", NEW t \in Silences PROVE ~S!Applied(t, a)'
    <3>1. CASE alert[a] = "firing"
      <4>1. ~S!Applied(t, a)
        BY <1>9, <2>4, <3>1 DEF S!HeldStaysSilenced
      <4> QED BY <2>3, <4>1 DEF S!Applied
    <3>2. CASE alert[a] # "firing"
      <4>1. a \in r.apps /\ a \notin r.kept
        BY <1>11, <2>4, <3>2
      <4>2. t # s => ~S!Applied(t, a)
        BY <1>5, <2>4, <4>1 DEF S!HeldByOthers
      <4> QED BY <2>3, <4>1, <4>2 DEF S!Applied
    <3> QED BY <3>1, <3>2
  <2>5. S!HeldStaysSilenced'
    BY <1>8, <2>4 DEF S!HeldStaysSilenced
  <2>6. /\ group' \in [status : AlertStates, queued : BOOLEAN, paged : BOOLEAN]
        /\ GroupAgrees' /\ S!FiringIsPaged'
    <3> HIDE DEF alerts
    <3> QED BY <1>8, <1>11, <2>1, <2>2, GroupSettles
  <2>7. \A a \in Alerts : alert'[a] = "none" => \A t \in Silences : app'[t][a] = "none"
    BY <1>4, <1>9, <1>11, <2>1, <2>3 DEF NothingBefore
  <2> HIDE DEF alerts, r, freed
  <2>8. alert' \in [Alerts -> AlertStates] /\ \A a \in Alerts : alert[a] # "none" => alert'[a] # "none"
    BY <1>11, <2>1
  <2> QED BY <1>1, <1>2, <1>6, <1>7, <1>8, <2>3, <2>5, <2>6, <2>7, <2>8, HandlerWrites
<1> QED BY <1>1, <1>10, <1>11

\* apply_silence_to_existing_alerts: its transaction.
LEMMA WriteApplyKeeps ==
  ASSUME SilenceIInv, NEW p \in Requests \cup {Job}, S!WriteApply(p)
  PROVE  SilenceIInv'
<1> DEFINE s == S!TheSilence(p)
           r == proc[p]
           new == {a \in r.apps : r.row.match /\ ~S!Applied(s, a)}
           alerts == [a \in Alerts |-> IF a \in new \ r.seen THEN "silenced" ELSE alert[a]]
           rest == IF p = Job THEN [S!Idle EXCEPT !.pc = "starts", !.todo = r.todo \ {s}] ELSE S!Idle
<1>1. /\ r.pc = "writeApply"
      /\ app' = [app EXCEPT ![s] = [a \in Alerts |-> IF a \in new THEN "existing" ELSE @[a]]]
      /\ alert' = alerts
      /\ group' = S!Settled(alerts)
      /\ silence' = S!Saved(s, [r.row EXCEPT !.reconciled = TRUE])
      /\ proc' = [proc EXCEPT ![p] = rest]
      /\ UNCHANGED <<raced, calls, deaths>>
  BY DEF S!WriteApply
<1>2. p \in S!Procs /\ p # Intake
  BY HandlerAssumption DEF S!SilenceAssumption, S!Procs
<1>3. s \in r.todo /\ s \in Silences /\ r \in S!Handlers /\ r.row \in S!SilenceRows
  BY <1>1, <1>2, SilenceInHand DEF SilenceStages
<1>4. new \subseteq Alerts /\ \A a \in new : alert[a] # "none"
  BY <1>2, <1>3, SilenceParts DEF S!Handlers, NothingBefore
<1>5. ASSUME ~raced PROVE r.seen = Silenced
  BY <1>1, <1>2, <1>5, SilenceParts DEF OneReads, Fresh
<1>6. rest \in S!Handlers /\ rest.apps = {} /\ rest.pc \notin WriteStages /\ Staged(p, rest)
  BY <1>2, <1>3, IdleHandler DEF S!Handlers, S!Stages, S!Idle, WriteStages, SilenceStages, Staged
<1> HIDE DEF s, new, rest
<1>7. silence' \in [Silences -> S!SilenceRows]
  BY <1>1, <1>3, SavedRow, SilenceParts
<1>8. S!Reading(p) /\ raced' = raced /\ (~raced => ~S!Enqueuing)
  <2>1. S!Reading(p) /\ raced' = raced
    BY <1>1 DEF S!Reading
  <2> QED BY <1>2, <2>1, WriterAlone
<1>9. /\ app \in [Silences -> [Alerts -> {"none", "new", "existing", "released"}]]
      /\ alert \in [Alerts -> AlertStates]
      /\ S!HeldStaysSilenced /\ NothingBefore
  BY SilenceParts, GroupOpen
<1>10. /\ alerts \in [Alerts -> AlertStates]
       /\ \A a \in Alerts : alerts[a] = "none" <=> alert[a] = "none"
       /\ \A a \in Alerts : alerts[a] = "firing" => alert[a] = "firing"
  BY <1>4, <1>9 DEF AlertStates
<1>11. /\ app' \in [Silences -> [Alerts -> {"none", "new", "existing", "released"}]]
       /\ \A a \in Alerts : app'[s][a] = IF a \in new THEN "existing" ELSE app[s][a]
       /\ \A t \in Silences : t # s => app'[t] = app[t]
  BY <1>1, <1>3, <1>9
<1>12. ASSUME ~raced, NEW a \in Alerts, alert'[a] = "firing", NEW t \in Silences PROVE ~S!Applied(t, a)'
  <2>1. alert[a] = "firing"
    BY <1>1, <1>10, <1>12
  <2>2. ~S!Applied(t, a)
    BY <1>9, <1>12, <2>1 DEF S!HeldStaysSilenced
  <2>3. a \notin new
    BY <1>1, <1>5, <1>12, <2>1 DEF Silenced
  <2> QED BY <1>11, <2>2, <2>3 DEF S!Applied
<1>13. S!HeldStaysSilenced'
  BY <1>8, <1>12 DEF S!HeldStaysSilenced
<1>14. \A a \in Alerts : alert'[a] = "none" => \A t \in Silences : app'[t][a] = "none"
  BY <1>1, <1>4, <1>9, <1>10, <1>11 DEF NothingBefore
<1> HIDE DEF alerts, r
<1>15. /\ group' \in [status : AlertStates, queued : BOOLEAN, paged : BOOLEAN]
       /\ GroupAgrees' /\ S!FiringIsPaged'
  BY <1>1, <1>8, <1>10, GroupSettles
<1>16. alert' \in [Alerts -> AlertStates] /\ \A a \in Alerts : alert[a] # "none" => alert'[a] # "none"
  BY <1>1, <1>10
<1> QED BY <1>1, <1>2, <1>6, <1>7, <1>8, <1>11, <1>13, <1>14, <1>15, <1>16, HandlerWrites

\* reconcile_orphan_silenced_alerts: its transaction.
LEMMA WriteOrphansKeeps ==
  ASSUME SilenceIInv, S!WriteOrphans
  PROVE  SilenceIInv'
<1> DEFINE r == proc[Job]
           alerts == [a \in Alerts |-> IF a \in r.apps /\ S!Matching = {} THEN "firing" ELSE alert[a]]
           rest == [S!Idle EXCEPT !.pc = "starts", !.todo = S!DueStarts]
<1>1. /\ r.pc = "writeOrphans"
      /\ app' = [s \in Silences |-> [a \in Alerts |->
           IF a \in r.apps /\ s \in S!Matching THEN "new" ELSE app[s][a]]]
      /\ alert' = alerts
      /\ group' = S!Settled(alerts)
      /\ proc' = [proc EXCEPT ![Job] = rest]
      /\ UNCHANGED <<silence, raced, calls, deaths>>
  BY DEF S!WriteOrphans
<1>2. Job \in S!Procs /\ Job # Intake
  BY HandlerAssumption DEF S!SilenceAssumption, S!Procs
<1>3. r \in S!Handlers /\ r.apps \subseteq Alerts /\ \A a \in r.apps : alert[a] # "none"
  BY <1>2, SilenceParts DEF S!Handlers, NothingBefore
<1>4. ASSUME ~raced, NEW a \in r.apps
      PROVE  alert[a] = "silenced" /\ \A s \in Silences : ~S!Applied(s, a)
  BY <1>1, <1>2, <1>4, SilenceParts DEF OneReads, Fresh
<1>5. rest \in S!Handlers /\ rest.apps = {} /\ rest.pc \notin WriteStages /\ Staged(Job, rest)
  BY <1>2, IdleHandler DEF S!Handlers, S!Stages, S!Idle, S!DueStarts, WriteStages, SilenceStages, Staged
<1> HIDE DEF rest
<1>6. S!Reading(Job) /\ raced' = raced /\ (~raced => ~S!Enqueuing)
  <2>1. S!Reading(Job) /\ raced' = raced
    BY <1>1 DEF S!Reading
  <2> QED BY <1>2, <2>1, WriterAlone
<1>7. /\ app \in [Silences -> [Alerts -> {"none", "new", "existing", "released"}]]
      /\ alert \in [Alerts -> AlertStates] /\ silence \in [Silences -> S!SilenceRows]
      /\ S!HeldStaysSilenced /\ NothingBefore
  BY SilenceParts, GroupOpen
<1>8. /\ alerts \in [Alerts -> AlertStates]
      /\ \A a \in Alerts : alerts[a] = "none" <=> alert[a] = "none"
  BY <1>3, <1>7 DEF AlertStates
<1>9. ~raced => \A a \in Alerts : alerts[a] = "firing" => alert[a] \in {"firing", "silenced"}
  BY <1>4
<1>10. /\ app' \in [Silences -> [Alerts -> {"none", "new", "existing", "released"}]]
       /\ \A s \in Silences, a \in Alerts :
            app'[s][a] = IF a \in r.apps /\ s \in S!Matching THEN "new" ELSE app[s][a]
  BY <1>1, <1>7
<1>11. ASSUME ~raced, NEW a \in Alerts, alert'[a] = "firing", NEW s \in Silences PROVE ~S!Applied(s, a)'
  <2>1. CASE a \in r.apps
    <3>1. alert[a] = "silenced" /\ ~S!Applied(s, a)
      BY <1>4, <1>11, <2>1
    <3>2. S!Matching = {}
      BY <1>1, <1>11, <3>1
    <3> QED BY <1>10, <3>1, <3>2 DEF S!Applied
  <2>2. CASE a \notin r.apps
    <3>1. ~S!Applied(s, a)
      BY <1>1, <1>7, <1>11, <2>2 DEF S!HeldStaysSilenced
    <3> QED BY <1>10, <2>2, <3>1 DEF S!Applied
  <2> QED BY <2>1, <2>2
<1>12. S!HeldStaysSilenced'
  BY <1>6, <1>11 DEF S!HeldStaysSilenced
<1>13. \A a \in Alerts : alert'[a] = "none" => \A s \in Silences : app'[s][a] = "none"
  BY <1>1, <1>3, <1>7, <1>8, <1>10 DEF NothingBefore
<1> HIDE DEF alerts, r
<1>14. /\ group' \in [status : AlertStates, queued : BOOLEAN, paged : BOOLEAN]
       /\ GroupAgrees' /\ S!FiringIsPaged'
  BY <1>1, <1>6, <1>8, <1>9, GroupSettles
<1>15. alert' \in [Alerts -> AlertStates] /\ \A a \in Alerts : alert[a] # "none" => alert'[a] # "none"
  BY <1>1, <1>8
<1> QED BY <1>1, <1>2, <1>5, <1>6, <1>7, <1>10, <1>12, <1>13, <1>14, <1>15, HandlerWrites

\* The new alert and record_new_alert_silences.
LEMMA CreateAlertKeeps ==
  ASSUME SilenceIInv, NEW a \in Alerts, S!CreateAlert(a)
  PROVE  SilenceIInv'
<1> DEFINE found == proc[Intake].todo
           status == IF found = {} THEN "firing" ELSE "silenced"
           alerts == [alert EXCEPT ![a] = status]
           new == S!Recalculated(group.status, alerts)
           row == [status |-> new, queued |-> group.queued, paged |-> group.paged /\ new # "silenced"]
           h == IF status = "silenced" /\ new = "firing" THEN S!Idle
                ELSE [S!Idle EXCEPT !.pc = "enqueue", !.copy = row]
<1>1. /\ proc[Intake].pc = "create" /\ alert[a] = "none"
      /\ alert' = alerts
      /\ app' = [s \in Silences |-> IF s \in found THEN [app[s] EXCEPT ![a] = "new"] ELSE app[s]]
      /\ group' = row /\ proc' = [proc EXCEPT ![Intake] = h]
      /\ UNCHANGED <<silence, raced, calls, deaths>>
  BY DEF S!CreateAlert
<1>2. Intake \in S!Procs
  BY DEF S!Procs
<1>3. /\ app \in [Silences -> [Alerts -> {"none", "new", "existing", "released"}]]
      /\ alert \in [Alerts -> AlertStates] /\ silence \in [Silences -> S!SilenceRows]
      /\ group \in [status : AlertStates, queued : BOOLEAN, paged : BOOLEAN]
      /\ S!HeldStaysSilenced /\ S!FiringIsPaged /\ NothingBefore
      /\ ~raced => (group.status = "firing" <=> \E x \in Alerts : alert[x] = "firing")
      /\ proc \in [S!Procs -> S!Handlers]
  BY SilenceParts, GroupOpen
<1>4. /\ alerts \in [Alerts -> AlertStates] /\ alerts[a] = status
      /\ \A x \in Alerts : x # a => alerts[x] = alert[x]
  BY <1>3 DEF AlertStates
<1>5. /\ new = S!Recalculated("none", alerts) /\ new \in AlertStates
      /\ new = "firing" <=> \E x \in Alerts : alerts[x] = "firing"
  <2>1. \E x \in Alerts : alerts[x] # "none"
    BY <1>4
  <2> HIDE DEF alerts
  <2> QED BY <1>4, <2>1, GroupStatus
<1> HIDE DEF alerts, new
<1>6. GroupAgrees'
  <2>1. group'.status = new
    BY <1>1
  <2>2. GroupAgrees' <=> (~raced' => group'.status = S!Recalculated("none", alert'))
    BY DEF GroupAgrees, S!Recalculated
  <2> QED BY <1>1, <1>5, <2>1, <2>2
<1>7. group' \in [status : AlertStates, queued : BOOLEAN, paged : BOOLEAN]
  <2>1. (group.paged /\ new # "silenced") \in BOOLEAN
    BY Zenon
  <2> QED BY <1>1, <1>3, <1>5, <2>1
<1>8. ASSUME ~raced, new = "firing" PROVE (group'.queued \/ group'.paged \/ S!Enqueuing')
  <2>1. group'.queued = group.queued /\ group'.paged = (group.paged /\ new # "silenced")
    BY <1>1
  <2>2. CASE status # "firing"
    <3>1. PICK x \in Alerts : alerts[x] = "firing"
      BY <1>5, <1>8
    <3>2. alert[x] = "firing"
      BY <1>4, <2>2, <3>1
    <3>3. ~S!Enqueuing
      BY <1>1 DEF S!Enqueuing
    <3>4. group.queued \/ group.paged
      BY <1>3, <1>8, <3>2, <3>3 DEF S!FiringIsPaged
    <3> QED BY <1>8, <2>1, <3>4
  <2>3. CASE status = "firing"
    <3>1. proc'[Intake] = [S!Idle EXCEPT !.pc = "enqueue", !.copy = row]
      BY <1>1, <1>2, <1>3, <2>3
    <3>2. proc'[Intake].pc = "enqueue" /\ proc'[Intake].copy.queued = group.queued
      BY <3>1 DEF S!Idle
    <3> HIDE DEF row, h
    <3> QED BY <2>1, <3>2 DEF S!Enqueuing
  <2> QED BY <2>2, <2>3
<1>9. S!FiringIsPaged'
  <2>1. group'.status = new
    BY <1>1
  <2> QED BY <1>1, <1>8, <2>1 DEF S!FiringIsPaged
<1>10. /\ app' \in [Silences -> [Alerts -> {"none", "new", "existing", "released"}]]
       /\ \A s \in Silences, x \in Alerts :
            app'[s][x] = IF s \in found /\ x = a THEN "new" ELSE app[s][x]
  BY <1>1, <1>3
<1>11. ASSUME ~raced, NEW x \in Alerts, alert'[x] = "firing", NEW s \in Silences PROVE ~S!Applied(s, x)'
  <2>1. CASE x = a
    <3>1. found = {} /\ app[s][a] = "none"
      BY <1>1, <1>3, <1>4, <1>11, <2>1 DEF NothingBefore
    <3> QED BY <1>10, <2>1, <3>1 DEF S!Applied
  <2>2. CASE x # a
    <3>1. ~S!Applied(s, x)
      BY <1>1, <1>3, <1>4, <1>11, <2>2 DEF S!HeldStaysSilenced
    <3> QED BY <1>10, <2>2, <3>1 DEF S!Applied
  <2> QED BY <2>1, <2>2
<1>12. S!HeldStaysSilenced'
  BY <1>1, <1>11 DEF S!HeldStaysSilenced
<1>13. \A x \in Alerts : alert'[x] = "none" => \A s \in Silences : app'[s][x] = "none"
  BY <1>1, <1>3, <1>4, <1>10 DEF NothingBefore
<1>14. alert' \in [Alerts -> AlertStates] /\ \A x \in Alerts : alert[x] # "none" => alert'[x] # "none"
  BY <1>1, <1>4
<1>15. /\ h.apps = {} /\ Staged(Intake, h) /\ h \in S!Handlers
       /\ h.pc \notin WriteStages \/ (h.pc = "enqueue" /\ h.copy.status = group'.status)
  <2>1. row \in S!GroupRows /\ row = group'
    BY <1>1, <1>7 DEF S!GroupRows, AlertStates
  <2> HIDE DEF row
  <2> QED BY <2>1, IdleHandler DEF S!Idle, S!Handlers, S!Stages, WriteStages, SilenceStages, Staged
<1>16. S!Reading(Intake)
  BY <1>1 DEF S!Reading
<1> HIDE DEF found, status, row, h
<1> QED BY <1>1, <1>2, <1>3, <1>6, <1>7, <1>9, <1>10, <1>12, <1>13, <1>14, <1>15, <1>16, HandlerWrites

\* The intake's queue entry: its copy of the group is as the group is, unless
\* handlers overlapped.
LEMMA EnqueueKeeps ==
  ASSUME SilenceIInv, S!Enqueue
  PROVE  SilenceIInv'
<1> DEFINE copy == proc[Intake].copy
           firing == copy.status = "firing"
           row == [copy EXCEPT !.queued = firing]
<1>1. /\ proc[Intake].pc = "enqueue" /\ proc' = [proc EXCEPT ![Intake] = S!Idle]
      /\ group' = IF firing /\ copy.queued THEN group ELSE row
      /\ silence' = silence /\ app' = app /\ alert' = alert /\ UNCHANGED <<raced, calls, deaths>>
  BY DEF S!Enqueue, S!Return
<1>2. Intake \in S!Procs
  BY DEF S!Procs
<1>3. /\ app \in [Silences -> [Alerts -> {"none", "new", "existing", "released"}]]
      /\ alert \in [Alerts -> AlertStates] /\ silence \in [Silences -> S!SilenceRows]
      /\ group \in [status : AlertStates, queued : BOOLEAN, paged : BOOLEAN]
      /\ S!HeldStaysSilenced /\ S!FiringIsPaged /\ NothingBefore /\ GroupAgrees
      /\ proc[Intake] \in S!Handlers
  BY <1>2, SilenceParts, GroupOpen
<1>4. copy \in [status : AlertStates, queued : BOOLEAN, paged : BOOLEAN]
  BY <1>3 DEF S!Handlers, S!GroupRows, AlertStates
<1>5. ~raced => copy.status = group.status
  BY <1>1, <1>2, SilenceParts DEF OneReads, Fresh
<1> HIDE DEF copy
<1>6. firing \in BOOLEAN
  BY Zenon
<1>7. /\ row \in [status : AlertStates, queued : BOOLEAN, paged : BOOLEAN]
      /\ row.status = copy.status /\ row.queued = firing
  <2> HIDE DEF firing
  <2> QED BY <1>4, <1>6
<1>8. /\ group' \in [status : AlertStates, queued : BOOLEAN, paged : BOOLEAN]
      /\ ~raced => group'.status = group.status
  <2> HIDE DEF row
  <2> QED BY <1>1, <1>3, <1>5, <1>7
<1>9. GroupAgrees'
  <2>1. GroupAgrees' <=> (~raced' => group'.status = S!Recalculated("none", alert'))
    BY DEF GroupAgrees, S!Recalculated
  <2> QED BY <1>1, <1>3, <1>8, <2>1 DEF GroupAgrees
<1>10. ASSUME ~raced, group'.status = "firing" PROVE group'.queued \/ group'.paged
  <2>1. copy.status = "firing" /\ group.status = "firing"
    BY <1>5, <1>8, <1>10
  <2>2. CASE copy.queued
    <3>1. group' = group /\ ~S!Enqueuing
      BY <1>1, <2>1, <2>2 DEF S!Enqueuing, copy
    <3> QED BY <1>3, <1>10, <2>1, <3>1 DEF S!FiringIsPaged
  <2>3. CASE ~copy.queued
    <3>1. group' = row /\ firing
      BY <1>1, <2>1, <2>3
    <3> HIDE DEF row, firing
    <3> QED BY <1>7, <3>1
  <2> QED BY <2>2, <2>3
<1>11. S!FiringIsPaged' /\ S!HeldStaysSilenced'
  BY <1>1, <1>3, <1>10 DEF S!FiringIsPaged, S!HeldStaysSilenced, S!Applied
<1>12. S!Idle \in S!Handlers /\ S!Idle.apps = {} /\ S!Idle.pc \notin WriteStages /\ Staged(Intake, S!Idle)
  BY IdleHandler DEF S!Idle, WriteStages, SilenceStages, Staged
<1>13. S!Reading(Intake) /\ \A a \in Alerts : alert'[a] = "none" => \A s \in Silences : app'[s][a] = "none"
  BY <1>1, <1>3 DEF S!Reading, NothingBefore
<1> HIDE DEF row, firing
<1> QED BY <1>1, <1>2, <1>3, <1>8, <1>9, <1>11, <1>12, <1>13, HandlerWrites

\* A resolved payload: whoever was about to write counts as overlapped.
LEMMA ResolveKeeps ==
  ASSUME SilenceIInv, NEW a \in Alerts, S!Resolve(a)
  PROVE  SilenceIInv'
<1> DEFINE alerts == [alert EXCEPT ![a] = "resolved"]
           new == S!Recalculated(group.status, alerts)
<1>1. /\ alert[a] \in {"firing", "silenced"}
      /\ alert' = alerts /\ group' = [group EXCEPT !.status = new]
      /\ raced' = (raced \/ \E q \in S!Procs : S!Reading(q))
      /\ silence' = silence /\ app' = app /\ proc' = proc /\ calls' = calls /\ deaths' = deaths
  BY DEF S!Resolve
<1>2. /\ alert \in [Alerts -> AlertStates] /\ raced \in BOOLEAN
      /\ group \in [status : AlertStates, queued : BOOLEAN, paged : BOOLEAN]
      /\ S!HeldStaysSilenced /\ S!FiringIsPaged /\ NothingBefore /\ OneReads
      /\ ~raced => (group.status = "firing" <=> \E x \in Alerts : alert[x] = "firing")
      /\ \A q \in S!Procs : Staged(q, proc[q])
  BY SilenceParts, GroupOpen
<1>3. /\ alerts \in [Alerts -> AlertStates] /\ alerts[a] = "resolved"
      /\ \A x \in Alerts : x # a => alerts[x] = alert[x]
  BY <1>2 DEF AlertStates
<1>4. /\ new = S!Recalculated("none", alerts) /\ new \in AlertStates
      /\ new = "firing" <=> \E x \in Alerts : alerts[x] = "firing"
  <2>1. \E x \in Alerts : alerts[x] # "none"
    BY <1>3
  <2> HIDE DEF alerts
  <2> QED BY <1>3, <2>1, GroupStatus
<1> HIDE DEF alerts, new
<1>5. raced' \in BOOLEAN /\ (raced => raced')
  BY <1>1, Zenon
<1>6. S!TypeOK'
  <2>1. group' \in [status : AlertStates, queued : BOOLEAN, paged : BOOLEAN]
    BY <1>1, <1>2, <1>4
  <2> QED BY <1>1, <1>3, <1>5, <2>1, SilenceParts DEF S!TypeOK, S!GroupRows, AlertStates
<1>7. GroupAgrees'
  <2>1. group'.status = new
    BY <1>1, <1>2
  <2>2. GroupAgrees' <=> (~raced' => group'.status = S!Recalculated("none", alert'))
    BY DEF GroupAgrees, S!Recalculated
  <2> QED BY <1>1, <1>4, <2>1, <2>2
<1>8. \A x \in Alerts : alert'[x] = "firing" => alert[x] = "firing"
  BY <1>1, <1>3
<1>9. S!HeldStaysSilenced'
  BY <1>1, <1>2, <1>5, <1>8 DEF S!HeldStaysSilenced, S!Applied
<1>10. S!FiringIsPaged'
  <2>1. group'.status = new /\ group'.queued = group.queued /\ group'.paged = group.paged
    BY <1>1, <1>2
  <2>2. ~raced /\ new = "firing" => group.status = "firing"
    BY <1>1, <1>2, <1>4, <1>8
  <2>3. S!Enqueuing' <=> S!Enqueuing
    BY <1>1 DEF S!Enqueuing
  <2> QED BY <1>2, <1>5, <2>1, <2>2, <2>3 DEF S!FiringIsPaged
<1>11. NothingBefore'
  <2>1. \A x \in Alerts : alert'[x] = "none" => alert[x] = "none"
    BY <1>1, <1>3
  <2>2. \A q \in S!Procs : proc[q].apps \subseteq Alerts
    BY SilenceParts DEF S!Handlers
  <2> QED BY <1>1, <1>2, <2>1, <2>2 DEF NothingBefore
<1>12. \A q \in S!Procs : Staged(q, proc[q])'
  BY <1>1, <1>2 DEF Staged
<1>13. OneReads'
  <2> SUFFICES ASSUME ~raced' PROVE /\ \A p, q \in S!Procs : S!Reading(p)' /\ S!Reading(q)' => p = q
                                    /\ \A p \in S!Procs : Fresh(proc[p])'
    BY DEF OneReads
  <2>1. \A q \in S!Procs : S!Reading(q)' <=> S!Reading(q)
    BY <1>1 DEF S!Reading
  <2>2. ASSUME NEW q \in S!Procs PROVE ~S!Reading(q)
    BY <1>1, <2>2
  <2>3. ASSUME NEW q \in S!Procs PROVE Fresh(proc[q])'
    <3>1. proc'[q].pc \notin {"writeRelease", "writeApply", "writeOrphans", "enqueue"}
      BY <1>1, <2>2, <2>3 DEF S!Reading
    <3> QED BY <3>1 DEF Fresh
  <2> QED BY <2>1, <2>2, <2>3
<1> QED BY <1>6, <1>7, <1>9, <1>10, <1>11, <1>12, <1>13 DEF SilenceIInv, SilenceInv, S!SilenceInv

\* The clock and the notification queue: no handler, application or alert moves.
LEMMA RowsStay ==
  ASSUME SilenceIInv, UNCHANGED <<app, alert, proc, raced, calls, deaths>>,
         silence' \in [Silences -> S!SilenceRows],
         group' \in [status : AlertStates, queued : BOOLEAN, paged : BOOLEAN],
         group'.status = group.status, S!FiringIsPaged'
  PROVE  SilenceIInv'
<1>1. /\ app' = app /\ alert' = alert /\ proc' = proc /\ raced' = raced /\ calls' = calls /\ deaths' = deaths
      /\ S!HeldStaysSilenced /\ NothingBefore /\ GroupAgrees /\ OneReads
      /\ \A q \in S!Procs : Staged(q, proc[q])
  BY SilenceParts
<1>2. S!TypeOK'
  BY <1>1, SilenceParts, GroupOpen DEF S!TypeOK, S!GroupRows, AlertStates
<1>3. S!HeldStaysSilenced' /\ NothingBefore' /\ \A q \in S!Procs : Staged(q, proc[q])'
  BY <1>1 DEF S!HeldStaysSilenced, S!Applied, NothingBefore, Staged
<1>4. GroupAgrees'
  <2>1. GroupAgrees' <=> (~raced' => group'.status = S!Recalculated("none", alert'))
    BY DEF GroupAgrees, S!Recalculated
  <2> QED BY <1>1, <2>1 DEF GroupAgrees
<1>5. OneReads'
  <2>1. ASSUME NEW s, NEW a PROVE S!Applied(s, a)' <=> S!Applied(s, a)
    BY <1>1 DEF S!Applied
  <2>2. ASSUME NEW s PROVE S!HeldByOthers(s)' = S!HeldByOthers(s)
    BY <2>1, Zenon DEF S!HeldByOthers
  <2>3. Silenced' = Silenced
    BY <1>1 DEF Silenced
  <2>4. ASSUME NEW q \in S!Procs, Fresh(proc[q]) PROVE Fresh(proc[q])'
    BY <1>1, <2>1, <2>2, <2>3, <2>4, Zenon DEF Fresh
  <2>5. \A q \in S!Procs : S!Reading(q)' <=> S!Reading(q)
    BY <1>1 DEF S!Reading
  <2> QED BY <1>1, <2>4, <2>5 DEF OneReads
<1> QED BY <1>2, <1>3, <1>4, <1>5 DEF SilenceIInv, SilenceInv, S!SilenceInv

\* The row of a new silence.
LEMMA CreatedRow ==
  ASSUME NEW phase \in {"scheduled", "active"}, NEW existing \in BOOLEAN, NEW reactivate \in BOOLEAN
  PROVE  S!Created(phase, existing, reactivate) \in S!SilenceRows
<1> DEFINE reconciled == phase = "active" /\ existing
<1>1. reconciled \in BOOLEAN
  BY Zenon
<1>2. S!Created(phase, existing, reactivate) =
        [phase |-> phase, enabled |-> TRUE, match |-> TRUE, existing |-> existing,
         reactivate |-> reactivate, reconciled |-> reconciled]
  BY Zenon DEF S!Created
<1> HIDE DEF reconciled
<1> QED BY <1>1, <1>2 DEF S!SilenceRows

\* The silence API saves a row and goes on to reconcile it.
LEMMA SaveKeeps ==
  ASSUME SilenceIInv, NEW r \in Requests, NEW s \in Silences, NEW row \in S!SilenceRows, S!Save(r, s, row)
  PROVE  SilenceIInv'
<1> DEFINE h == [S!Idle EXCEPT !.pc = "reconcile", !.todo = {s}, !.row = row]
<1>1. /\ calls < MaxCalls /\ calls' = calls + 1
      /\ silence' = [silence EXCEPT ![s] = row]
      /\ proc' = [proc EXCEPT ![r] = h]
      /\ UNCHANGED <<app, alert, group, raced, deaths>>
  BY DEF S!Save
<1>2. r \in S!Procs /\ r # Intake /\ MaxCalls \in Nat
  BY HandlerAssumption DEF S!SilenceAssumption, S!Procs
<1>3. /\ silence' \in [Silences -> S!SilenceRows]
      /\ calls' \in 0 .. MaxCalls /\ deaths' \in 0 .. MaxDeaths
  BY <1>1, <1>2, SilenceParts
<1>4. h \in S!Handlers /\ h.apps = {} /\ h.pc = "reconcile" /\ h.todo # {}
  BY IdleHandler DEF S!Idle, S!Handlers, S!Stages
<1> HIDE DEF h
<1>5. Staged(r, h) /\ Fresh(h) /\ h.pc \notin WriteStages
  BY <1>2, <1>4 DEF Staged, Fresh, WriteStages
<1> QED BY <1>1, <1>2, <1>3, <1>4, <1>5, HandlerReads

\* create_silence, enable_silence, disable_silence and update_silence save rows.
LEMMA ApiKeeps ==
  ASSUME SilenceIInv, NEW r \in Requests, NEW s \in Silences,
         S!Create(r, s) \/ S!SetEnabled(r, s) \/ S!Update(r, s)
  PROVE  SilenceIInv'
<1>1. silence[s] \in S!SilenceRows
  BY SilenceParts
<1>2. ASSUME S!Create(r, s) PROVE SilenceIInv'
  <2>1. PICK phase \in {"scheduled", "active"}, existing \in BOOLEAN, reactivate \in BOOLEAN :
          S!Save(r, s, [S!Created(phase, existing, reactivate) EXCEPT !.reconciled = FALSE])
    BY <1>2 DEF S!Create
  <2>2. S!Created(phase, existing, reactivate) \in S!SilenceRows
    BY CreatedRow
  <2>3. [S!Created(phase, existing, reactivate) EXCEPT !.reconciled = FALSE] \in S!SilenceRows
    BY <2>2 DEF S!SilenceRows
  <2> QED BY <2>1, <2>3, SaveKeeps
<1>3. ASSUME S!SetEnabled(r, s) PROVE SilenceIInv'
  <2>1. [silence[s] EXCEPT !.enabled = ~@, !.reconciled = FALSE] \in S!SilenceRows
    BY <1>1 DEF S!SilenceRows
  <2> QED BY <1>3, <2>1, SaveKeeps DEF S!SetEnabled
<1>4. ASSUME S!Update(r, s) PROVE SilenceIInv'
  <2>1. /\ [silence[s] EXCEPT !.match = ~@, !.reconciled = FALSE] \in S!SilenceRows
        /\ [silence[s] EXCEPT !.reactivate = ~@, !.reconciled = FALSE] \in S!SilenceRows
        /\ [silence[s] EXCEPT !.existing = ~@, !.reconciled = FALSE] \in S!SilenceRows
    BY <1>1 DEF S!SilenceRows
  <2> QED BY <1>4, <2>1, SaveKeeps DEF S!Update
<1> QED BY <1>2, <1>3, <1>4

\* reconcile_silence reads the applications to release.
LEMMA ReconcileKeeps ==
  ASSUME SilenceIInv, NEW r \in Requests, S!Reconcile(r)
  PROVE  SilenceIInv'
<1> DEFINE s == S!TheSilence(r)
           row == proc[r].row
           apps == {a \in Alerts : IF S!Active(row) THEN S!Invalid(s, a) ELSE S!Applied(s, a)}
           next == IF S!Active(row) /\ apps = {} THEN "apply" ELSE "writeRelease"
           h == [proc[r] EXCEPT !.pc = next, !.apps = apps, !.seen = Silenced, !.kept = S!HeldByOthers(s)]
<1>1. r \in S!Procs /\ r # Intake
  BY HandlerAssumption DEF S!SilenceAssumption, S!Procs
<1>2. proc \in [S!Procs -> S!Handlers] /\ silence \in [Silences -> S!SilenceRows] /\ NothingBefore
      /\ calls \in 0 .. MaxCalls /\ deaths \in 0 .. MaxDeaths
  BY SilenceParts
<1>3. /\ proc[r].pc = "reconcile" /\ proc' = [proc EXCEPT ![r] = h]
      /\ S!Overlaps(r) /\ UNCHANGED <<silence, app, alert, group, calls, deaths>>
  BY <1>1, <1>2 DEF S!Reconcile, Silenced, S!Handlers
<1>4. s \in proc[r].todo /\ s \in Silences /\ proc[r] \in S!Handlers
  BY <1>1, <1>3, SilenceInHand DEF SilenceStages
<1>5. apps \subseteq Alerts /\ \A a \in apps : alert[a] # "none"
  BY <1>2, <1>4 DEF S!Invalid, S!Applied, NothingBefore
<1> HIDE DEF apps, row
<1>6. Silenced \subseteq Alerts /\ S!HeldByOthers(s) \subseteq Alerts /\ next \in {"apply", "writeRelease"}
  BY DEF Silenced, S!HeldByOthers
<1> HIDE DEF next
<1>7. /\ h \in S!Handlers /\ h.apps = apps /\ h.pc = next /\ h.todo = proc[r].todo
      /\ h.kept = S!HeldByOthers(s) /\ h.seen = Silenced
  BY <1>4, <1>5, <1>6 DEF S!Handlers, S!Stages
<1>8. s = CHOOSE x \in h.todo : TRUE
  BY <1>7 DEF S!TheSilence
<1> HIDE DEF h, s
<1>9. Staged(r, h) /\ Fresh(h)
  BY <1>1, <1>4, <1>6, <1>7, <1>8 DEF Staged, Fresh
<1> QED BY <1>1, <1>2, <1>3, <1>5, <1>7, <1>9, HandlerReads

\* apply_silence_to_existing_alerts reads the alerts to silence.
LEMMA SelectKeeps ==
  ASSUME SilenceIInv, NEW p \in Requests \cup {Job}, NEW row \in S!SilenceRows,
         proc[p].todo # {}, S!Select(p, row), S!Overlaps(p),
         UNCHANGED <<silence, app, alert, group, calls, deaths>>
  PROVE  SilenceIInv'
<1> DEFINE open == group.status \in {"firing", "silenced"}
           apps == IF open THEN {a \in Alerts : alert[a] \in {"firing", "silenced"}} ELSE {}
           h == [proc[p] EXCEPT !.pc = "writeApply", !.row = row, !.apps = apps, !.seen = Silenced]
<1>1. p \in S!Procs /\ p # Intake
  BY HandlerAssumption DEF S!SilenceAssumption, S!Procs
<1>2. proc[p] \in S!Handlers /\ silence \in [Silences -> S!SilenceRows]
      /\ calls \in 0 .. MaxCalls /\ deaths \in 0 .. MaxDeaths
  BY <1>1, SilenceParts
<1>3. proc' = [proc EXCEPT ![p] = h]
  BY DEF S!Select, Silenced
<1>4. apps \subseteq Alerts /\ Silenced \subseteq Alerts /\ \A a \in apps : alert[a] # "none"
  BY DEF Silenced
<1> HIDE DEF apps
<1>5. /\ h \in S!Handlers /\ h.apps = apps /\ h.pc = "writeApply" /\ h.todo = proc[p].todo
      /\ h.seen = Silenced
  BY <1>2, <1>4 DEF S!Handlers, S!Stages
<1> HIDE DEF h
<1>6. Staged(p, h) /\ Fresh(h)
  BY <1>1, <1>5 DEF Staged, Fresh
<1> QED BY <1>1, <1>2, <1>3, <1>4, <1>5, <1>6, HandlerReads

\* A handler goes to a stage at which it has read nothing yet.
LEMMA HandlerMoves ==
  ASSUME SilenceIInv, NEW p \in S!Procs, NEW h \in S!Handlers, proc' = [proc EXCEPT ![p] = h],
         h.pc \in {"idle", "starts", "ends"}, h.apps = {}, p # Intake,
         UNCHANGED <<silence, app, alert, group, raced, calls>>, deaths' \in 0 .. MaxDeaths
  PROVE  SilenceIInv'
<1>1. Staged(p, h) /\ Fresh(h) /\ h.pc \notin WriteStages
  BY DEF Staged, Fresh, WriteStages, SilenceStages
<1>2. silence' \in [Silences -> S!SilenceRows] /\ calls' \in 0 .. MaxCalls
  BY SilenceParts
<1> QED BY <1>1, <1>2, HandlerReads

\* What the job goes on with.
LEMMA JobGoesOn ==
  /\ S!FromEnds \in S!Handlers /\ S!FromEnds.pc \in {"idle", "ends"} /\ S!FromEnds.apps = {}
  /\ S!FromStarts \in S!Handlers /\ S!FromStarts.pc \in {"idle", "starts", "ends"} /\ S!FromStarts.apps = {}
<1>1. S!DueEnds \subseteq Silences /\ S!DueStarts \subseteq Silences
  BY DEF S!DueEnds, S!DueStarts
<1>2. S!FromEnds \in S!Handlers /\ S!FromEnds.pc \in {"idle", "ends"} /\ S!FromEnds.apps = {}
  BY <1>1, IdleHandler DEF S!FromEnds, S!Idle, S!Handlers, S!Stages
<1> QED BY <1>1, <1>2, IdleHandler DEF S!FromStarts, S!Idle, S!Handlers, S!Stages

\* process_silence_lifecycle: the selects.
LEMMA JobKeeps ==
  ASSUME SilenceIInv, S!JobStart \/ S!Starts \/ S!Ends
  PROVE  SilenceIInv'
<1>1. Job \in S!Procs /\ Job # Intake
  BY HandlerAssumption DEF S!SilenceAssumption, S!Procs
<1>2. /\ proc \in [S!Procs -> S!Handlers] /\ silence \in [Silences -> S!SilenceRows]
      /\ NothingBefore /\ calls \in 0 .. MaxCalls /\ deaths \in 0 .. MaxDeaths
      /\ proc[Job] \in S!Handlers
  BY <1>1, SilenceParts
<1>3. ASSUME UNCHANGED <<silence, app, alert, group, calls, deaths, raced>>,
             proc' = [proc EXCEPT ![Job] = S!FromStarts] \/ proc' = [proc EXCEPT ![Job] = S!FromEnds]
      PROVE  SilenceIInv'
  BY <1>1, <1>2, <1>3, JobGoesOn, HandlerMoves
<1>4. ASSUME S!JobStart PROVE SilenceIInv'
  <2>1. CASE S!Orphans # {} /\ S!Overlaps(Job)
             /\ proc' = [proc EXCEPT ![Job].pc = "writeOrphans", ![Job].apps = S!Orphans]
    <3> DEFINE h == [proc[Job] EXCEPT !.pc = "writeOrphans", !.apps = S!Orphans]
    <3>1. proc' = [proc EXCEPT ![Job] = h]
      BY <1>1, <1>2, <2>1 DEF S!Handlers
    <3>2. S!Orphans \subseteq Alerts
      BY DEF S!Orphans
    <3>3. h \in S!Handlers /\ h.apps = S!Orphans /\ h.pc = "writeOrphans"
      BY <1>2, <3>2 DEF S!Handlers, S!Stages
    <3>4. \A a \in S!Orphans : alert[a] = "silenced" /\ \A s \in Silences : ~S!Applied(s, a)
      BY DEF S!Orphans
    <3> HIDE DEF h
    <3>5. Staged(Job, h) /\ Fresh(h) /\ \A a \in h.apps : alert[a] # "none"
      BY <1>1, <3>3, <3>4 DEF Staged, Fresh, SilenceStages
    <3>6. UNCHANGED <<silence, app, alert, group, calls, deaths>>
      BY <1>4 DEF S!JobStart
    <3> QED BY <1>1, <1>2, <2>1, <3>1, <3>3, <3>5, <3>6, HandlerReads
  <2>2. CASE proc' = [proc EXCEPT ![Job] = S!FromStarts] /\ UNCHANGED raced
    BY <1>3, <1>4, <2>2 DEF S!JobStart
  <2> QED BY <1>4, <2>1, <2>2 DEF S!JobStart
<1>5. ASSUME S!Starts PROVE SilenceIInv'
  <2>1. CASE proc[Job].todo # {} /\ S!Select(Job, silence[S!TheSilence(Job)]) /\ S!Overlaps(Job)
    <3>1. S!TheSilence(Job) \in Silences
      BY <1>2, <2>1 DEF S!TheSilence, S!Handlers
    <3>2. silence[S!TheSilence(Job)] \in S!SilenceRows
      BY <1>2, <3>1
    <3>3. UNCHANGED <<silence, app, alert, group, calls, deaths>>
      BY <1>5 DEF S!Starts
    <3> QED BY <2>1, <3>2, <3>3, SelectKeeps
  <2>2. CASE proc' = [proc EXCEPT ![Job] = S!FromEnds] /\ UNCHANGED raced
    BY <1>3, <1>5, <2>2 DEF S!Starts
  <2> QED BY <1>5, <2>1, <2>2 DEF S!Starts
<1>6. ASSUME S!Ends PROVE SilenceIInv'
  <2> DEFINE s == S!TheSilence(Job)
             apps == {a \in Alerts : S!Applied(s, a)}
             h == [proc[Job] EXCEPT !.pc = "writeRelease", !.row = silence[s], !.apps = apps,
                                    !.seen = Silenced, !.kept = S!HeldByOthers(s)]
  <2>1. CASE proc[Job].todo # {} /\ proc' = [proc EXCEPT ![Job] = h] /\ S!Overlaps(Job)
    <3>1. s \in Silences
      BY <1>2, <2>1 DEF S!TheSilence, S!Handlers
    <3>2. silence[s] \in S!SilenceRows /\ apps \subseteq Alerts /\ \A a \in apps : alert[a] # "none"
      BY <1>2, <3>1 DEF S!Applied, NothingBefore
    <3>3. Silenced \subseteq Alerts /\ S!HeldByOthers(s) \subseteq Alerts
      BY DEF Silenced, S!HeldByOthers
    <3> HIDE DEF apps
    <3>4. /\ h \in S!Handlers /\ h.apps = apps /\ h.pc = "writeRelease" /\ h.todo = proc[Job].todo
          /\ h.kept = S!HeldByOthers(s) /\ h.seen = Silenced
      BY <1>2, <3>2, <3>3 DEF S!Handlers, S!Stages
    <3>5. s = CHOOSE x \in h.todo : TRUE
      BY <3>4 DEF S!TheSilence
    <3> HIDE DEF h, s
    <3>6. Staged(Job, h) /\ Fresh(h)
      BY <1>1, <2>1, <3>4, <3>5 DEF Staged, Fresh
    <3>7. UNCHANGED <<silence, app, alert, group, calls, deaths>>
      BY <1>6 DEF S!Ends
    <3> QED BY <1>1, <1>2, <2>1, <3>2, <3>4, <3>6, <3>7, HandlerReads
  <2>2. CASE proc' = [proc EXCEPT ![Job] = S!Idle] /\ UNCHANGED raced
    <3>1. S!Idle.pc = "idle" /\ S!Idle.apps = {}
      BY DEF S!Idle
    <3>2. UNCHANGED <<silence, app, alert, group, calls, deaths>>
      BY <1>6 DEF S!Ends
    <3> QED BY <1>1, <1>2, <2>2, <3>1, <3>2, IdleHandler, HandlerMoves
  <2> QED BY <1>6, <2>1, <2>2 DEF S!Ends, S!Return, Silenced
<1> QED BY <1>4, <1>5, <1>6

\* Its second half, when the silence applies to existing alerts.
LEMMA ApplyKeeps ==
  ASSUME SilenceIInv, NEW r \in Requests, S!Apply(r)
  PROVE  SilenceIInv'
<1>1. r \in S!Procs /\ r # Intake
  BY HandlerAssumption DEF S!SilenceAssumption, S!Procs
<1>2. proc[r].pc = "apply" /\ UNCHANGED <<silence, app, alert, group, calls, deaths>>
  BY DEF S!Apply
<1>3. proc[r].todo # {} /\ proc[r].row \in S!SilenceRows
  BY <1>1, <1>2, SilenceInHand DEF SilenceStages
<1>4. CASE S!Select(r, proc[r].row) /\ S!Overlaps(r)
  BY <1>2, <1>3, <1>4, SelectKeeps
<1>5. CASE S!Return(r) /\ UNCHANGED raced
  <2>1. S!Idle.pc = "idle" /\ S!Idle.apps = {} /\ proc' = [proc EXCEPT ![r] = S!Idle]
    BY <1>5 DEF S!Idle, S!Return
  <2>2. deaths' \in 0 .. MaxDeaths
    BY <1>2, SilenceParts
  <2> QED BY <1>1, <1>2, <1>5, <2>1, <2>2, IdleHandler, HandlerMoves
<1> QED BY <1>4, <1>5 DEF S!Apply

\* A silence that has not started is saved once more.
LEMMA SaveScheduledKeeps ==
  ASSUME SilenceIInv, NEW r \in Requests, S!SaveScheduled(r)
  PROVE  SilenceIInv'
<1>1. r \in S!Procs /\ r # Intake
  BY HandlerAssumption DEF S!SilenceAssumption, S!Procs
<1>2. /\ proc[r].pc = "saveScheduled" /\ proc' = [proc EXCEPT ![r] = S!Idle]
      /\ silence' = S!Saved(S!TheSilence(r), [proc[r].row EXCEPT !.reconciled = FALSE])
      /\ UNCHANGED <<app, alert, group, raced, calls, deaths>>
  BY DEF S!SaveScheduled, S!Return
<1>3. S!TheSilence(r) \in Silences /\ proc[r].row \in S!SilenceRows
  BY <1>1, <1>2, SilenceInHand DEF SilenceStages
<1>4. silence' \in [Silences -> S!SilenceRows]
  BY <1>2, <1>3, SavedRow, SilenceParts
<1>5. calls' \in 0 .. MaxCalls /\ deaths' \in 0 .. MaxDeaths
  BY <1>2, SilenceParts
<1>6. S!Idle.apps = {} /\ S!Idle.pc \notin WriteStages /\ Staged(r, S!Idle) /\ Fresh(S!Idle)
  BY <1>1 DEF S!Idle, WriteStages, SilenceStages, Staged, Fresh
<1> QED BY <1>1, <1>2, <1>4, <1>5, <1>6, IdleHandler, HandlerReads

\* A request that dies has written what it wrote.
LEMMA DieKeeps ==
  ASSUME SilenceIInv, NEW r \in Requests, S!Die(r)
  PROVE  SilenceIInv'
<1>1. r \in S!Procs /\ r # Intake /\ MaxDeaths \in Nat
  BY HandlerAssumption DEF S!SilenceAssumption, S!Procs
<1>2. /\ S!Idle.pc = "idle" /\ S!Idle.apps = {} /\ proc' = [proc EXCEPT ![r] = S!Idle]
      /\ deaths < MaxDeaths /\ deaths' = deaths + 1
      /\ UNCHANGED <<silence, app, alert, group, raced, calls>>
  BY DEF S!Idle, S!Return, S!Die
<1>3. deaths' \in 0 .. MaxDeaths
  BY <1>1, <1>2, SilenceParts
<1> QED BY <1>1, <1>2, <1>3, IdleHandler, HandlerMoves

\* find_active_silences for a new alert.
LEMMA ArriveKeeps ==
  ASSUME SilenceIInv, S!Arrive
  PROVE  SilenceIInv'
<1> DEFINE h == [S!Idle EXCEPT !.pc = "create", !.todo = S!Matching]
<1>1. proc' = [proc EXCEPT ![Intake] = h] /\ S!Overlaps(Intake) /\ proc[Intake].pc = "idle"
      /\ UNCHANGED <<silence, app, alert, group, calls, deaths>>
  BY DEF S!Arrive
<1>2. h \in S!Handlers /\ h.pc = "create" /\ h.apps = {}
  BY IdleHandler DEF S!Idle, S!Handlers, S!Stages, S!Matching
<1> HIDE DEF h
<1>3. Intake \in S!Procs /\ Staged(Intake, h) /\ Fresh(h)
  BY <1>2 DEF S!Procs, Staged, Fresh, SilenceStages
<1>4. /\ silence' \in [Silences -> S!SilenceRows]
      /\ calls' \in 0 .. MaxCalls /\ deaths' \in 0 .. MaxDeaths
  BY <1>1, SilenceParts
<1> QED BY <1>1, <1>2, <1>3, <1>4, HandlerReads

\* The notification queue pages the group or clears its entry.
LEMMA PageKeeps ==
  ASSUME SilenceIInv, S!Page
  PROVE  SilenceIInv'
<1> DEFINE paged == group.paged \/ group.status = "firing"
<1>1. /\ group' = [group EXCEPT !.queued = FALSE, !.paged = paged]
      /\ UNCHANGED <<silence, app, alert, proc, raced, calls, deaths>>
  BY DEF S!Page
<1>2. /\ group \in [status : AlertStates, queued : BOOLEAN, paged : BOOLEAN]
      /\ silence' \in [Silences -> S!SilenceRows]
  BY <1>1, SilenceParts
<1>3. paged \in BOOLEAN /\ (group.status = "firing" => paged)
  BY Zenon
<1> HIDE DEF paged
<1>4. /\ group' \in [status : AlertStates, queued : BOOLEAN, paged : BOOLEAN]
      /\ group'.status = group.status /\ group'.paged = paged
  BY <1>1, <1>2, <1>3
<1>5. S!FiringIsPaged'
  BY <1>3, <1>4 DEF S!FiringIsPaged
<1> QED BY <1>1, <1>2, <1>4, <1>5, RowsStay

\* Time: a silence begins or ends.
LEMMA TimeKeeps ==
  ASSUME SilenceIInv, NEW s \in Silences, S!Begin(s) \/ S!Finish(s)
  PROVE  SilenceIInv'
<1>1. UNCHANGED <<app, alert, group, proc, raced, calls, deaths>>
  BY DEF S!Begin, S!Finish
<1>2. silence \in [Silences -> S!SilenceRows]
      /\ group \in [status : AlertStates, queued : BOOLEAN, paged : BOOLEAN] /\ S!FiringIsPaged
  BY SilenceParts
<1>3. silence' \in [Silences -> S!SilenceRows]
  BY <1>2 DEF S!Begin, S!Finish, S!SilenceRows
<1>4. S!FiringIsPaged'
  BY <1>1, <1>2 DEF S!FiringIsPaged, S!Enqueuing
<1> QED BY <1>1, <1>2, <1>3, <1>4, RowsStay

\* No alert, no handler at work.
LEMMA SilencesBegin ==
  ASSUME S!Init
  PROVE  SilenceIInv
<1>1. /\ silence \in [Silences -> {S!NoSilence} \cup {S!Created("active", e, TRUE) : e \in BOOLEAN}]
      /\ app = [s \in Silences |-> [a \in Alerts |-> "none"]]
      /\ alert = [a \in Alerts |-> "none"]
      /\ group = S!NoGroup
      /\ proc = [p \in S!Procs |-> S!Idle]
      /\ raced = FALSE /\ calls = 0 /\ deaths = 0
  BY DEF S!Init
<1>2. MaxCalls \in Nat /\ MaxDeaths \in Nat
  BY HandlerAssumption DEF S!SilenceAssumption
<1>3. silence \in [Silences -> S!SilenceRows]
  <2>1. \A e \in BOOLEAN : S!Created("active", e, TRUE) \in S!SilenceRows
    BY CreatedRow
  <2> QED BY <1>1, <2>1, IdleHandler
<1>4. S!TypeOK
  <2>1. app \in [Silences -> [Alerts -> {"none", "new", "existing", "released"}]]
    BY <1>1
  <2>2. alert \in [Alerts -> {"none", "firing", "silenced", "resolved"}]
    BY <1>1
  <2>3. group \in S!GroupRows
    BY <1>1 DEF S!NoGroup, S!GroupRows
  <2>4. S!Idle \in S!Handlers
    BY IdleHandler
  <2>5. proc \in [S!Procs -> S!Handlers]
    BY <1>1, <2>4, Zenon
  <2>6. raced \in BOOLEAN
    BY <1>1
  <2>7. calls \in 0 .. MaxCalls /\ deaths \in 0 .. MaxDeaths
    BY <1>1, <1>2
  <2> QED BY <1>3, <2>1, <2>2, <2>3, <2>5, <2>6, <2>7 DEF S!TypeOK
<1>5. \A p \in S!Procs : proc[p] = S!Idle
  BY <1>1
<1>6. S!Idle.pc = "idle" /\ S!Idle.apps = {}
  BY DEF S!Idle
<1>7. S!HeldStaysSilenced /\ S!FiringIsPaged
  BY <1>1 DEF S!HeldStaysSilenced, S!FiringIsPaged, S!NoGroup
<1>8. NothingBefore
  BY <1>1, <1>5, <1>6 DEF NothingBefore
<1>9. GroupAgrees
  <2>1. alert \in [Alerts -> AlertStates] /\ \A a \in Alerts : alert[a] = "none"
    BY <1>1 DEF AlertStates
  <2> QED BY <1>1, <2>1, GroupStatus DEF GroupAgrees, S!NoGroup
<1>10. OneReads /\ \A p \in S!Procs : Staged(p, proc[p])
  BY <1>5, <1>6 DEF OneReads, S!Reading, Fresh, Staged, SilenceStages
<1> QED BY <1>4, <1>7, <1>8, <1>9, <1>10 DEF SilenceIInv, SilenceInv, S!SilenceInv

\* One case per handler of silences.py, per step of the intake and of the queue.
LEMMA SilencesGoOn ==
  ASSUME SilenceIInv, [S!Next]_(S!vars)
  PROVE  SilenceIInv'
<1>1. ASSUME NEW r \in Requests, S!RequestStep(r) PROVE SilenceIInv'
  BY <1>1, ReconcileKeeps, WriteReleaseKeeps, SaveScheduledKeeps, ApplyKeeps, WriteApplyKeeps DEF S!RequestStep
<1>2. ASSUME S!JobStep PROVE SilenceIInv'
  BY <1>2, JobKeeps, WriteOrphansKeeps, WriteReleaseKeeps, WriteApplyKeeps DEF S!JobStep
<1>3. ASSUME UNCHANGED S!vars PROVE SilenceIInv'
  <2>1. UNCHANGED <<silence, app, alert, group, proc, raced, calls, deaths>>
    BY <1>3 DEF S!vars
  <2>2. silence' \in [Silences -> S!SilenceRows] /\ S!FiringIsPaged
        /\ group' \in [status : AlertStates, queued : BOOLEAN, paged : BOOLEAN]
    BY <2>1, SilenceParts
  <2>3. S!FiringIsPaged'
    BY <2>1, <2>2 DEF S!FiringIsPaged, S!Enqueuing
  <2> QED BY <2>1, <2>2, <2>3, RowsStay
<1> QED BY <1>1, <1>2, <1>3, ApiKeeps, ArriveKeeps, CreateAlertKeeps, EnqueueKeeps, ResolveKeeps,
           PageKeeps, TimeKeeps, DieKeeps DEF S!Next, S!IntakeStep

\* Handlers of silences.py that do not overlap leave an alert silenced while another
\* silence holds it and page a firing group, for any number of silences, alerts and
\* requests, deaths of requests included.
THEOREM SilenceInvHolds == Spec => []SilenceInv
<1>1. Init => SilenceIInv
  BY SilencesBegin DEF Init, NoSilences
<1>2. ASSUME SilenceIInv, [Next]_vars PROVE SilenceIInv'
  <2>1. S!Next \/ UNCHANGED silenceVars
    BY <1>2 DEF Next, vars, Silencing, Answering, Drawing
  <2>2. UNCHANGED silenceVars => UNCHANGED S!vars
    BY DEF silenceVars, S!vars
  <2> QED BY <1>2, <2>1, <2>2, SilencesGoOn
<1>3. SilenceIInv => SilenceInv
  BY DEF SilenceIInv
<1> QED BY <1>1, <1>2, <1>3, PTL DEF Spec

=============================================================================
