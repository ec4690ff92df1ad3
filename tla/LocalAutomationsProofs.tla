----------------------- MODULE LocalAutomationsProofs -----------------------
(***************************************************************************)
(* Theorems about the local automations scheduler, for every value of the  *)
(* constants: its types, that a task is not executed twice at a time, that *)
(* no save loses an edit, that the history is true, that the next time is  *)
(* the earliest one the schedule names, and that an occurrence is executed *)
(* at most once.                                                           *)
(*                                                                         *)
(* The last is not inductive.  FiredOK strengthens it: what was executed   *)
(* is past, and if it is still the next time of a task its execution      *)
(* holds it, so the tick passes over it.  The tick is a fold over the      *)
(* tasks; what its accumulator keeps is shown by the first element at      *)
(* which it would be lost (TickKeeps), which needs no induction theorem.   *)
(***************************************************************************)
EXTENDS LocalAutomations, FiniteSums, SequenceTheorems

-----------------------------------------------------------------------------
(* Days and times of day.                                                  *)

\* Two multiples differ by as much as their factors.
LEMMA MultiplesOrdered ==
    ASSUME NEW L \in Nat \ {0}, NEW a \in Int, NEW b \in Int, a < b
    PROVE  a * L + L <= b * L
  <1>1. PICK k \in Nat : b = a + 1 + k
    <2>1. b - a - 1 \in Nat /\ b = a + 1 + (b - a - 1)
      OBVIOUS
    <2> QED
      BY <2>1
  <1>2. b * L = a * L + L + k * L
    BY <1>1
  <1>3. k * L \in Nat /\ a * L \in Int
    OBVIOUS
  <1> QED
    BY <1>2, <1>3

\* The day a moment is on.
LEMMA DayBounds ==
    ASSUME NEW t \in Nat
    PROVE  /\ DayOf(t) \in Nat
           /\ DayOf(t) * DayLength \in Nat
           /\ DayOf(t) * DayLength <= t
           /\ t < DayOf(t) * DayLength + DayLength
           /\ t = DayOf(t) * DayLength + (t % DayLength)
           /\ t % DayLength \in 0..(DayLength - 1)
  <1>1. DayLength \in Nat \ {0}
    BY LocalAssumption
  <1>2. /\ t % DayLength \in 0..(DayLength - 1)
        /\ t \div DayLength \in Nat
        /\ t = DayLength * (t \div DayLength) + (t % DayLength)
    BY <1>1
  <1>3. (t \div DayLength) * DayLength \in Nat
    BY <1>1, <1>2
  <1>4. (t \div DayLength) * DayLength = DayLength * (t \div DayLength)
    BY <1>1, <1>2
  <1> QED
    BY <1>1, <1>2, <1>3, <1>4 DEF DayOf

\* A moment is on the day its time of day is added to.
LEMMA DayOfTime ==
    ASSUME NEW day \in Int, NEW time \in 0..(DayLength - 1),
           NEW t \in Nat, t = day * DayLength + time
    PROVE  DayOf(t) = day /\ t % DayLength = time
  <1> DEFINE L == DayLength
             d == DayOf(t)
  <1>1. L \in Nat \ {0} /\ time \in Int /\ 0 <= time /\ time < L
    BY LocalAssumption
  <1>2. d \in Nat /\ d * L <= t /\ t < d * L + L /\ t = d * L + (t % L) /\ t % L \in Int
    BY DayBounds
  <1>3. day * L \in Int
    BY <1>1
  <1>4. ~(d < day)
    <2> SUFFICES ASSUME d < day PROVE FALSE
      OBVIOUS
    <2>1. d * L + L <= day * L
      BY <1>1, <1>2, MultiplesOrdered
    <2> QED
      BY <1>1, <1>2, <1>3, <2>1
  <1>5. ~(day < d)
    <2> SUFFICES ASSUME day < d PROVE FALSE
      OBVIOUS
    <2>1. day * L + L <= d * L
      BY <1>1, <1>2, MultiplesOrdered
    <2> QED
      BY <1>1, <1>2, <1>3, <2>1
  <1>6. d = day
    BY <1>2, <1>4, <1>5
  <1> QED
    BY <1>1, <1>2, <1>3, <1>6

\* A time of day on a later day is to come, on an earlier day it is gone.
LEMMA OtherDays ==
    ASSUME NEW time \in 0..(DayLength - 1), NEW from \in Nat, NEW day \in Int
    PROVE  /\ day * DayLength + time \in Int
           /\ day > DayOf(from) => day * DayLength + time > from
           /\ day < DayOf(from) => day * DayLength + time < from
  <1> DEFINE L == DayLength
             d == DayOf(from)
  <1>1. L \in Nat \ {0} /\ time \in Int /\ 0 <= time /\ time < L
    BY LocalAssumption
  <1>2. d \in Nat /\ d * L \in Nat /\ d * L <= from /\ from < d * L + L
    BY DayBounds
  <1>3. day * L \in Int
    BY <1>1
  <1>4. ASSUME day > d PROVE d * L + L <= day * L
    BY <1>1, <1>2, <1>4, MultiplesOrdered
  <1>5. ASSUME day < d PROVE day * L + L <= d * L
    BY <1>1, <1>2, <1>5, MultiplesOrdered
  <1> QED
    BY <1>1, <1>2, <1>3, <1>4, <1>5

\* The next time of a daily schedule.
LEMMA DailyNext ==
    ASSUME NEW s, s.kind = "daily", s.time \in 0..(DayLength - 1), NEW from \in Nat
    PROVE  \E day \in {DayOf(from), DayOf(from) + 1} :
              /\ NextRunTime(s, from) = day * DayLength + s.time
              /\ NextRunTime(s, from) \in Nat
              /\ NextRunTime(s, from) > from
              /\ day # DayOf(from) => ~AtTimeOfDay(s.time, DayOf(from), from)
  <1> DEFINE d == DayOf(from)
  <1>1. d \in Nat
    BY DayBounds
  <1>2. NextRunTime(s, from) =
            (IF AtTimeOfDay(s.time, d, from) THEN d ELSE d + 1) * DayLength + s.time
    BY DEF NextRunTime
  <1>3. CASE AtTimeOfDay(s.time, d, from)
    <2>1. NextRunTime(s, from) = d * DayLength + s.time
      BY <1>2, <1>3
    <2>2. d * DayLength + s.time \in Int /\ d * DayLength + s.time > from
      BY <1>1, <1>3, OtherDays DEF AtTimeOfDay
    <2> QED
      BY <2>1, <2>2
  <1>4. CASE ~AtTimeOfDay(s.time, d, from)
    <2>1. NextRunTime(s, from) = (d + 1) * DayLength + s.time
      BY <1>2, <1>4
    <2> DEFINE e == d + 1
    <2>2. e \in Int /\ e > d
      BY <1>1
    <2> HIDE DEF e
    <2>3. e * DayLength + s.time \in Int /\ e * DayLength + s.time > from
      BY <2>2, OtherDays
    <2> QED
      BY <1>4, <2>1, <2>3 DEF e
  <1> QED
    BY <1>3, <1>4

\* The next time of a weekly schedule, if one of its days is found.
LEMMA WeeklyNext ==
    ASSUME NEW s, s.kind = "weekly", s.time \in 0..(DayLength - 1), NEW from \in Nat,
           Weekdays(s, from) # {}
    PROVE  \E day \in Weekdays(s, from) :
              /\ NextRunTime(s, from) = day * DayLength + s.time
              /\ NextRunTime(s, from) \in Nat
              /\ NextRunTime(s, from) > from
              /\ \A other \in Weekdays(s, from) : day <= other
  <1> DEFINE days == Weekdays(s, from)
             day == Min(days)
  <1>1. DayOf(from) \in Nat
    BY DayBounds
  <1>2. days \subseteq DayOf(from)..(DayOf(from) + 14) /\ IsFiniteSet(days) /\ days \subseteq Int
    <2>1. days \subseteq DayOf(from)..(DayOf(from) + 14)
      BY DEF Weekdays
    <2>2. IsFiniteSet(DayOf(from)..(DayOf(from) + 14))
      BY <1>1, FS_Interval
    <2> QED
      BY <1>1, <2>1, <2>2, FS_Subset
  <1>3. day \in days /\ \A other \in days : day <= other
    <2> HIDE DEF days
    <2>1. \E m \in days : \A y \in days : m <= y
      BY <1>2, FiniteExtremes DEF days
    <2> QED
      BY <2>1 DEF Min
  <1>4. NextRunTime(s, from) = day * DayLength + s.time
    BY DEF NextRunTime
  <1>5. day \in Int /\ AtTimeOfDay(s.time, day, from)
    BY <1>2, <1>3 DEF Weekdays
  <1> HIDE DEF day
  <1>6. day * DayLength + s.time \in Int /\ day * DayLength + s.time > from
    BY <1>5, OtherDays DEF AtTimeOfDay
  <1> QED
    BY <1>3, <1>4, <1>6

\* What computeNextRunTime returns is a time that is to come, if any.
LEMMA NextTime ==
    ASSUME NEW s, IsSchedule(s), NEW from \in Nat, NextRunTime(s, from) # Undefined
    PROVE  NextRunTime(s, from) \in Nat /\ NextRunTime(s, from) > from
  <1>1. CASE s.kind = "once" /\ s.at \in Int
    BY <1>1 DEF NextRunTime
  <1>2. CASE s.kind = "interval" /\ s.every \in Nat \ {0}
    BY <1>2 DEF NextRunTime
  <1>3. CASE s.kind = "daily" /\ s.time \in 0..(DayLength - 1)
    BY <1>3, DailyNext
  <1>4. CASE s.kind = "weekly" /\ s.time \in 0..(DayLength - 1)
    <2>1. CASE Weekdays(s, from) = {}
      BY <1>4, <2>1 DEF NextRunTime
    <2>2. CASE Weekdays(s, from) # {}
      BY <1>4, <2>2, WeeklyNext
    <2> QED
      BY <2>1, <2>2
  <1> QED
    BY <1>1, <1>2, <1>3, <1>4 DEF IsSchedule

\* The days of a weekly schedule come every week.
LEMMA WeekHasDay ==
    ASSUME NEW d \in Nat, NEW w \in 0..6
    PROVE  \E day \in (d + 1)..(d + 7) : day % 7 = w
  <1> DEFINE q == d \div 7
             r == d % 7
  <1>1. q \in Nat /\ r \in 0..6 /\ d = 7 * q + r
    OBVIOUS
  <1> HIDE DEF q, r
  <1>2. CASE w > r
    <2>1. d + (w - r) \in (d + 1)..(d + 7) /\ (d + (w - r)) % 7 = w
      BY <1>1, <1>2
    <2> QED
      BY <2>1
  <1>3. CASE w <= r
    <2>1. d + (7 + w - r) \in (d + 1)..(d + 7) /\ (d + (7 + w - r)) % 7 = w
      BY <1>1, <1>3
    <2> QED
      BY <2>1
  <1> QED
    BY <1>1, <1>2, <1>3

\* So one is found.
LEMMA WeekdaysExist ==
    ASSUME NEW s, s.time \in 0..(DayLength - 1), s.days # {}, s.days \subseteq 0..7,
           NEW from \in Nat
    PROVE  Weekdays(s, from) # {}
  <1> DEFINE d == DayOf(from)
  <1>1. d \in Nat
    BY DayBounds
  <1>2. PICK w \in DaysOf(s) : w \in 0..6
    BY DEF DaysOf
  <1>3. PICK day \in (d + 1)..(d + 7) : day % 7 = w
    BY <1>1, <1>2, WeekHasDay
  <1>4. day \in d..(d + 14) /\ day \in Int /\ day > d
    BY <1>1, <1>3
  <1>5. AtTimeOfDay(s.time, day, from)
    BY <1>4, OtherDays DEF AtTimeOfDay
  <1> QED
    BY <1>2, <1>3, <1>4, <1>5 DEF Weekdays

\* A moment of a calendar that comes before a time of day of the same calendar is on
\* an earlier day, and on one that is still to come.
LEMMA MomentBetween ==
    ASSUME NEW time \in 0..(DayLength - 1), NEW from \in Nat, NEW t \in Nat, t > from,
           t % DayLength = time, NEW day \in Int, t < day * DayLength + time
    PROVE  DayOf(t) \in DayOf(from)..(day - 1) /\ AtTimeOfDay(time, DayOf(t), from)
  <1> DEFINE L == DayLength
             e == DayOf(t)
  <1>1. L \in Nat \ {0} /\ time \in Int /\ 0 <= time /\ time < L
    BY LocalAssumption
  <1>2. e \in Nat /\ e * L \in Nat /\ t = e * L + time
    BY DayBounds
  <1>3. AtTimeOfDay(time, e, from)
    BY <1>2 DEF AtTimeOfDay
  <1>4. DayOf(from) \in Nat /\ ~(e < DayOf(from))
    <2>1. e < DayOf(from) => e * L + time < from
      BY <1>2, OtherDays
    <2> QED
      BY <1>2, <2>1, DayBounds
  <1>5. e < day
    <2> SUFFICES ASSUME ~(e < day) PROVE FALSE
      OBVIOUS
    <2>1. day * L \in Int
      BY <1>1
    <2>2. CASE e = day
      BY <1>2, <2>2
    <2>3. CASE day < e
      <3>1. day * L + L <= e * L
        BY <1>1, <1>2, <2>3, MultiplesOrdered
      <3> QED
        BY <1>1, <1>2, <2>1, <3>1
    <2> QED
      BY <1>2, <2>2, <2>3
  <1> QED
    BY <1>2, <1>3, <1>4, <1>5

\* The next time of a calendar schedule is on the calendar, and no earlier time is.
LEMMA CalendarNext ==
    ASSUME NEW s, IsSchedule(s), s.kind \in {"daily", "weekly"}, NamesDays(s), NEW from \in Nat
    PROVE  /\ NextRunTime(s, from) \in Nat
           /\ NextRunTime(s, from) > from
           /\ OnCalendar(s, NextRunTime(s, from))
           /\ \A t \in (from + 1)..(NextRunTime(s, from) - 1) : ~OnCalendar(s, t)
  <1> DEFINE next == NextRunTime(s, from)
             d == DayOf(from)
  <1>1. s.time \in 0..(DayLength - 1) /\ d \in Nat
    BY DayBounds DEF IsSchedule
  <1>2. CASE s.kind = "daily"
    <2>1. PICK day \in {d, d + 1} :
              /\ next = day * DayLength + s.time
              /\ next \in Nat
              /\ next > from
              /\ day # d => ~AtTimeOfDay(s.time, d, from)
      BY <1>1, <1>2, DailyNext
    <2> HIDE DEF next
    <2>2. OnCalendar(s, next)
      <3>1. day \in Int
        BY <1>1
      <3>2. next % DayLength = s.time
        BY <1>1, <2>1, <3>1, DayOfTime
      <3> QED
        BY <1>2, <3>2 DEF OnCalendar
    <2>3. ASSUME NEW t \in (from + 1)..(next - 1), OnCalendar(s, t) PROVE FALSE
      <3>1. t \in Nat /\ t > from /\ t < day * DayLength + s.time /\ day \in Int
        BY <1>1, <2>1, <2>3
      <3>2. t % DayLength = s.time
        BY <2>3 DEF OnCalendar
      <3>3. DayOf(t) \in d..(day - 1) /\ AtTimeOfDay(s.time, DayOf(t), from)
        BY <1>1, <3>1, <3>2, MomentBetween
      <3>4. day = d + 1 /\ DayOf(t) = d
        BY <1>1, <2>1, <3>3
      <3> QED
        BY <1>1, <2>1, <3>3, <3>4
    <2> QED
      BY <2>1, <2>2, <2>3 DEF next
  <1>3. CASE s.kind = "weekly"
    <2>1. Weekdays(s, from) # {}
      BY <1>1, <1>3, WeekdaysExist DEF NamesDays
    <2>2. PICK day \in Weekdays(s, from) :
              /\ next = day * DayLength + s.time
              /\ next \in Nat
              /\ next > from
              /\ \A other \in Weekdays(s, from) : day <= other
      BY <1>1, <1>3, <2>1, WeeklyNext
    <2> HIDE DEF next
    <2>3. day \in d..(d + 14) /\ day % 7 \in DaysOf(s)
      BY DEF Weekdays
    <2>4. OnCalendar(s, next)
      <3>1. day \in Int
        BY <1>1, <2>3
      <3>2. next % DayLength = s.time /\ DayOf(next) = day
        BY <1>1, <2>2, <3>1, DayOfTime
      <3> QED
        BY <2>3, <3>2 DEF OnCalendar
    <2>5. ASSUME NEW t \in (from + 1)..(next - 1), OnCalendar(s, t) PROVE FALSE
      <3>1. t \in Nat /\ t > from /\ t < day * DayLength + s.time /\ day \in Int
        BY <1>1, <2>2, <2>3, <2>5
      <3>2. t % DayLength = s.time /\ DayOf(t) % 7 \in DaysOf(s)
        BY <1>3, <2>5 DEF OnCalendar
      <3>3. DayOf(t) \in d..(day - 1) /\ AtTimeOfDay(s.time, DayOf(t), from)
        BY <1>1, <3>1, <3>2, MomentBetween
      <3>4. DayOf(t) \in d..(d + 14) /\ ~(day <= DayOf(t))
        BY <1>1, <2>3, <3>3
      <3>5. DayOf(t) \in Weekdays(s, from)
        BY <3>2, <3>3, <3>4 DEF Weekdays
      <3> QED
        BY <2>2, <3>4, <3>5
    <2> QED
      BY <2>2, <2>4, <2>5 DEF next
  <1> QED
    BY <1>2, <1>3

-----------------------------------------------------------------------------
(* The loop of a tick, which folds LoopStep over the indices of the file.  *)
(* As with sums, the recursive function inside the fold exists and what a  *)
(* step keeps the loop keeps, by a minimal counterexample.                 *)

Indices == [i \in DOMAIN file.automations |-> i]

\* What the recursive function inside FoldLeft is, on the indices in D.
Loop(base, D, iter) ==
    iter = [s \in SUBSET D |->
        IF s = {} THEN base ELSE LoopStep(iter[s \ {Max(s)}], Indices[Max(s)])]

\* The index the loop looks at last.
LEMMA MaxIn ==
    ASSUME NEW D, IsFiniteSet(D), D \subseteq Int, NEW s \in SUBSET D, s # {}
    PROVE  Max(s) \in s
  <1>1. IsFiniteSet(s) /\ s \subseteq Int
    BY FS_Subset
  <1>2. \E m \in s : \A y \in s : m >= y
    BY <1>1, FiniteExtremes
  <1> QED
    BY <1>2 DEF Max

\* Two such functions agree.
LEMMA LoopsAgree ==
    ASSUME NEW base, NEW C, IsFiniteSet(C), C \subseteq Int, NEW D, NEW iter, NEW other,
           Loop(base, C, iter), Loop(base, D, other), NEW s \in SUBSET C, s \in SUBSET D
    PROVE  iter[s] = other[s]
  <1> DEFINE T == {u \in SUBSET s : iter[u] # other[u]}
  <1>1. SUFFICES ASSUME T # {} PROVE FALSE
    OBVIOUS
  <1>2. T \subseteq SUBSET C
    OBVIOUS
  <1>3. \E u \in T : \A v \in T : v \subseteq u => v = u
    <2> HIDE DEF T
    <2> QED
      BY ONLY <1>1, <1>2, SmallestSubset, IsFiniteSet(C)
  <1>4. PICK u \in T : \A v \in T : v \subseteq u => v = u
    BY <1>3
  <1>5. u \in SUBSET C /\ u \in SUBSET D /\ iter[u] # other[u] /\ u \subseteq s
    BY <1>4
  <1>6. u # {}
    BY <1>5 DEF Loop
  <1> DEFINE v == u \ {Max(u)}
  <1>7. Max(u) \in u
    BY <1>5, <1>6, MaxIn
  <1>8. iter[v] = other[v]
    BY <1>4, <1>5, <1>7
  <1>9. /\ iter[u] = LoopStep(iter[v], Indices[Max(u)])
        /\ other[u] = LoopStep(other[v], Indices[Max(u)])
    BY <1>5, <1>6 DEF Loop
  <1> QED
    BY <1>5, <1>8, <1>9

\* There is one.
LEMMA LoopExists ==
    ASSUME NEW base, NEW S, IsFiniteSet(S), S \subseteq Int
    PROVE  \E iter : Loop(base, S, iter)
  <1> DEFINE T == {s \in SUBSET S : ~ \E iter : Loop(base, s, iter)}
  <1>1. SUFFICES ASSUME T # {} PROVE FALSE
    OBVIOUS
  <1>2. \E m \in T : \A v \in T : v \subseteq m => v = m
    <2>1. T \subseteq SUBSET S
      OBVIOUS
    <2> HIDE DEF T
    <2> QED
      BY ONLY <1>1, <2>1, SmallestSubset, IsFiniteSet(S)
  <1>3. PICK m \in T : \A v \in T : v \subseteq m => v = m
    BY <1>2
  <1> DEFINE G(v) == CHOOSE iter : Loop(base, v, iter)
             Rest(u) == u \ {Max(u)}
  <1>4. ASSUME NEW v \in SUBSET m
        PROVE  /\ IsFiniteSet(v) /\ v \subseteq Int
               /\ v # {} => Max(v) \in v
               /\ v # m => Loop(base, v, G(v))
    <2>1. IsFiniteSet(v) /\ v \subseteq Int
      BY <1>3, FS_Subset
    <2>2. v # {} => Max(v) \in v
      BY <2>1, MaxIn
    <2>3. ASSUME v # m PROVE Loop(base, v, G(v))
      <3>1. v \in SUBSET S /\ v \notin T
        BY <1>3, <2>3
      <3>2. \E iter : Loop(base, v, iter)
        BY <3>1
      <3> QED
        BY <3>2
    <2> QED
      BY <2>1, <2>2, <2>3
  <1> HIDE DEF G
  <1> DEFINE h == [u \in SUBSET m |-> IF u = {} THEN base
                        ELSE LoopStep(G(Rest(u))[Rest(u)], Indices[Max(u)])]
  <1>5. ASSUME NEW u \in SUBSET m, u # {} PROVE h[Rest(u)] = G(Rest(u))[Rest(u)]
    <2> DEFINE v == Rest(u)
               w == Rest(v)
    <2>1. v \in SUBSET m /\ v # m
      BY <1>4, <1>5
    <2>2. Loop(base, v, G(v)) /\ IsFiniteSet(v) /\ v \subseteq Int
      BY <2>1, <1>4
    <2>3. CASE v = {}
      <3>1. h[v] = base
        BY <2>1, <2>3
      <3>2. G(v)[v] = base
        BY <2>2, <2>3 DEF Loop
      <3> QED
        BY <3>1, <3>2
    <2>4. CASE v # {}
      <3>1. w \in SUBSET m /\ w # m /\ w \in SUBSET v
        BY <1>4, <2>1, <2>4
      <3>2. Loop(base, w, G(w)) /\ IsFiniteSet(w) /\ w \subseteq Int
        BY <3>1, <1>4
      <3> HIDE DEF w
      <3>3. G(w)[w] = G(v)[w]
        <4> HIDE DEF v
        <4>1. w \in SUBSET w /\ w \in SUBSET v
          BY <3>1
        <4> QED
          BY <3>2, <2>2, <4>1, LoopsAgree
      <3>4. h[v] = LoopStep(G(w)[w], Indices[Max(v)])
        BY <2>1, <2>4 DEF w
      <3>5. G(v)[v] = LoopStep(G(v)[w], Indices[Max(v)])
        <4> HIDE DEF v
        <4> QED
          BY <2>2, <2>4 DEF Loop, w
      <3> QED
        BY <3>3, <3>4, <3>5
    <2> QED
      BY <2>3, <2>4
  <1>6. Loop(base, m, h)
    <2>1. ASSUME NEW u \in SUBSET m
          PROVE  h[u] = IF u = {} THEN base ELSE LoopStep(h[Rest(u)], Indices[Max(u)])
      <3>1. CASE u = {}
        BY <3>1
      <3>2. CASE u # {}
        <4>1. h[Rest(u)] = G(Rest(u))[Rest(u)]
          BY <1>5, <3>2
        <4>2. h[u] = LoopStep(G(Rest(u))[Rest(u)], Indices[Max(u)])
          BY <3>2
        <4> QED
          BY <3>2, <4>1, <4>2
      <3> QED
        BY <3>1, <3>2
    <2>2. h = [u \in SUBSET m |-> h[u]]
      OBVIOUS
    <2> HIDE DEF h
    <2> QED
      BY <2>1, <2>2 DEF Loop
  <1> QED
    BY <1>3, <1>6

\* The fold of a tick is its value on all indices.
LEMMA TickIsLoop ==
    ASSUME NEW base, IsFiniteSet(DOMAIN Indices), DOMAIN Indices \subseteq Int
    PROVE  \E iter : /\ Loop(base, DOMAIN Indices, iter)
                     /\ FoldLeft(LoopStep, base, Indices) = iter[DOMAIN Indices]
  <1> DEFINE iter == CHOOSE iter : Loop(base, DOMAIN Indices, iter)
  <1>1. FoldLeft(LoopStep, base, Indices) = iter[DOMAIN Indices]
    BY DEF FoldLeft, MapThenFoldSet, Loop
  <1>2. Loop(base, DOMAIN Indices, iter)
    BY LoopExists
  <1> QED
    BY <1>1, <1>2

-----------------------------------------------------------------------------
(* The entries of the file.                                                *)

TaskRecords == [id : Tasks, schedule : Schedules \cup {PresetSchedule}, enabled : BOOLEAN,
                due : Nat \cup {Undefined}, status : RunStatuses \cup {"none"}]

LogRecords == [run : Nat, task : Tasks, status : RunStatuses]

ExecutionRecords(count) ==
    [run : 1..count, task : Tasks, schedule : Schedules \cup {PresetSchedule}, due : Int]

\* A function on an interval is a sequence.
LEMMA FunctionIsSeq ==
    ASSUME NEW S, NEW n \in Nat, NEW f \in [1..n -> S]
    PROVE  f \in Seq(S) /\ Len(f) = n /\ DOMAIN f = 1..n
  OBVIOUS

\* An update of one task leaves the others and the order.
LEMMA UpdatedIs ==
    ASSUME NEW tasks \in Seq(TaskRecords), NEW id, NEW change,
           \A a \in ToSet(tasks) : change[a] \in TaskRecords
    PROVE  /\ Updated(tasks, id, change) \in Seq(TaskRecords)
           /\ Len(Updated(tasks, id, change)) = Len(tasks)
           /\ \A i \in 1..Len(tasks) : Updated(tasks, id, change)[i] =
                IF tasks[i].id = id THEN change[tasks[i]] ELSE tasks[i]
  <1> DEFINE new == Updated(tasks, id, change)
  <1>1. /\ Len(tasks) \in Nat /\ DOMAIN tasks = 1..Len(tasks)
        /\ \A i \in 1..Len(tasks) : tasks[i] \in TaskRecords /\ tasks[i] \in ToSet(tasks)
    BY LenProperties, ElementOfSeq DEF ToSet
  <1>2. new = [i \in 1..Len(tasks) |->
                  IF tasks[i].id = id THEN change[tasks[i]] ELSE tasks[i]]
    BY <1>1 DEF Updated
  <1> HIDE DEF new
  <1>3. new \in [1..Len(tasks) -> TaskRecords]
    BY <1>1, <1>2
  <1>4. new \in Seq(TaskRecords) /\ Len(new) = Len(tasks)
    BY <1>1, <1>3, FunctionIsSeq
  <1> QED
    BY <1>2, <1>4 DEF new

\* The history is cut at its end.
LEMMA TruncatedIs ==
    ASSUME NEW S, NEW runs \in Seq(S)
    PROVE  /\ Truncated(runs) \in Seq(S)
           /\ Len(Truncated(runs)) <= HistoryLength
           /\ Len(Truncated(runs)) <= Len(runs)
           /\ \A i \in 1..Len(Truncated(runs)) : Truncated(runs)[i] = runs[i]
  <1>1. HistoryLength \in Nat \ {0} /\ Len(runs) \in Nat
    BY LocalAssumption
  <1>2. CASE Len(runs) > HistoryLength
    <2> DEFINE cut == SubSeq(runs, 1, HistoryLength)
    <2>1. \A i \in 1..HistoryLength : runs[i] \in S
      BY <1>1, <1>2, ElementOfSeq
    <2>2. /\ cut \in Seq(S)
          /\ Len(cut) = HistoryLength
          /\ \A i \in 1..HistoryLength : cut[i] = runs[i]
      BY <1>1, <2>1, SubSeqProperties
    <2>3. Truncated(runs) = cut
      BY <1>2 DEF Truncated
    <2> HIDE DEF cut
    <2> QED
      BY <1>1, <1>2, <2>2, <2>3
  <1>3. CASE ~(Len(runs) > HistoryLength)
    <2>1. Truncated(runs) = runs
      BY <1>3 DEF Truncated
    <2> QED
      BY <1>1, <1>3, <2>1
  <1> QED
    BY <1>2, <1>3

\* One entry is put before the others.
LEMMA PrependIs ==
    ASSUME NEW S, NEW x \in S, NEW s \in Seq(S)
    PROVE  /\ <<x>> \o s \in Seq(S)
           /\ Len(<<x>> \o s) = Len(s) + 1
           /\ (<<x>> \o s)[1] = x
           /\ \A i \in 2..(Len(s) + 1) : (<<x>> \o s)[i] = s[i - 1]
  <1>1. <<x>> \in Seq(S) /\ Len(<<x>>) = 1 /\ <<x>>[1] = x /\ Len(s) \in Nat
    OBVIOUS
  <1> QED
    BY <1>1, ConcatProperties

-----------------------------------------------------------------------------
(* The parts of the invariant, of any file, executions and history.        *)

IsFile(f) == f = [automations |-> f.automations, runs |-> f.runs]

\* The tasks b are the tasks a, but for their next times and statuses.
SameTasks(a, b) ==
    /\ b \in Seq(TaskRecords)
    /\ Len(b) = Len(a)
    /\ \A i \in 1..Len(a) : /\ b[i].id = a[i].id
                            /\ b[i].schedule = a[i].schedule
                            /\ b[i].enabled = a[i].enabled

LogOK(runs, exs, count) ==
    /\ runs \in Seq(LogRecords)
    /\ Len(runs) <= HistoryLength
    /\ \A i \in 1..Len(runs) :
        /\ runs[i].run <= count
        /\ runs[i].status = "running" /\ runs[i].run > lastCrash /\ runs[i].run \notin lost =>
                \E e \in exs : e.run = runs[i].run

ExecutionsOK(exs, count) ==
    /\ exs \subseteq ExecutionRecords(count)
    /\ \A e, f \in exs : e.task = f.task => e = f

\* Occurrences that were executed are past, and one that is still the next time of a
\* task is what its execution holds.
FiredOK(tasks, exs, done) ==
    /\ done \subseteq Tasks \X Nat
    /\ \A p \in done : p[2] <= now
    /\ \A i \in 1..Len(tasks) :
        <<tasks[i].id, tasks[i].due>> \in done =>
            \E e \in exs : e.task = tasks[i].id /\ e.due = tasks[i].due

-----------------------------------------------------------------------------
(* The beginning of an execution.                                          *)

IsWorld(w) == w = [file |-> w.file, executions |-> w.executions,
                   runCount |-> w.runCount, fired |-> w.fired]

\* What a tick has done so far, and what run-now does: the tasks are those of the
\* file, executions are added, and none for an occurrence that had one.
WorldOK(w) ==
    /\ IsWorld(w) /\ IsFile(w.file)
    /\ SameTasks(file.automations, w.file.automations)
    /\ LogOK(w.file.runs, w.executions, w.runCount)
    /\ ExecutionsOK(w.executions, w.runCount)
    /\ FiredOK(w.file.automations, w.executions, w.fired)
    /\ w.runCount \in Nat /\ w.runCount >= runCount
    /\ executions \subseteq w.executions
    /\ \A e \in w.executions \ executions :
            e.due # Undefined => <<e.task, e.due>> \notin fired

\* With more executions the history and the occurrences stay explained.
LEMMA LogGrows ==
    ASSUME NEW runs, NEW exs, NEW count \in Nat, LogOK(runs, exs, count),
           NEW more, exs \subseteq more, NEW higher \in Nat, count <= higher
    PROVE  LogOK(runs, more, higher)
  <1>1. \A i \in 1..Len(runs) : runs[i].run \in Nat
    <2>1. runs \in Seq(LogRecords)
      BY DEF LogOK
    <2>2. \A i \in 1..Len(runs) : runs[i] \in LogRecords
      BY <2>1, ElementOfSeq
    <2> QED
      BY <2>2 DEF LogRecords
  <1>2. \A i \in 1..Len(runs) : runs[i].run <= higher
    BY <1>1 DEF LogOK
  <1> QED
    BY <1>2 DEF LogOK

\* An occurrence may be noted as executed by an execution of its task.
LEMMA FiredGrows ==
    ASSUME NEW tasks, NEW exs, NEW done, FiredOK(tasks, exs, done),
           NEW more, exs \subseteq more, NEW e \in more,
           NEW pair \in Tasks \X Nat, pair[2] <= now, pair = <<e.task, e.due>>
    PROVE  FiredOK(tasks, more, done \cup {pair})
  BY DEF FiredOK

\* More executions contradict nothing noted.
LEMMA FiredStays ==
    ASSUME NEW tasks, NEW exs, NEW done, FiredOK(tasks, exs, done), NEW more, exs \subseteq more
    PROVE  FiredOK(tasks, more, done)
  BY DEF FiredOK

\* What is noted depends on the ids and next times of the tasks only.
LEMMA FiredSame ==
    ASSUME NEW tasks, NEW exs, NEW done, FiredOK(tasks, exs, done), NEW other,
           Len(other) = Len(tasks),
           \A i \in 1..Len(tasks) : other[i].id = tasks[i].id /\ other[i].due = tasks[i].due
    PROVE  FiredOK(other, exs, done)
  BY DEF FiredOK

\* The beginning of an execution of a task that has none.
LEMMA BegunOK ==
    ASSUME now \in Nat, runCount \in Nat, file.automations \in Seq(TaskRecords),
           NEW w, WorldOK(w), NEW t \in TaskRecords, ~Executing(w, t.id), NEW occurrence \in Int,
           occurrence # Undefined =>
                /\ occurrence \in Nat /\ occurrence <= now
                /\ <<t.id, occurrence>> \notin fired
    PROVE  /\ WorldOK(Begun(w, t, occurrence))
           /\ w.executions \subseteq Begun(w, t, occurrence).executions
           /\ w.runCount <= Begun(w, t, occurrence).runCount
           /\ \A tasks : FiredOK(tasks, w.executions, w.fired) =>
                FiredOK(tasks, Begun(w, t, occurrence).executions, Begun(w, t, occurrence).fired)
  <1> DEFINE b == Begun(w, t, occurrence)
             run == w.runCount + 1
             old == w.file.automations
             marked == [a \in ToSet(old) |-> [a EXCEPT !.status = "running"]]
             e == [run |-> run, task |-> t.id, schedule |-> t.schedule, due |-> occurrence]
             entry == [run |-> run, task |-> t.id, status |-> "running"]
  <1>1. /\ b.file.automations = Updated(old, t.id, marked)
        /\ b.file.runs = Truncated(<<entry>> \o w.file.runs)
        /\ b.executions = w.executions \cup {e}
        /\ b.runCount = run
        /\ b.fired = IF occurrence = Undefined THEN w.fired
                     ELSE w.fired \cup {<<t.id, occurrence>>}
    BY DEF Begun
  <1>0. IsWorld(b) /\ IsFile(b.file)
    BY DEF Begun, IsWorld, IsFile
  <1> HIDE DEF b
  <1>2. /\ w.runCount \in Nat /\ run \in Nat /\ run > w.runCount /\ run > 0
        /\ t.id \in Tasks /\ t.schedule \in Schedules \cup {PresetSchedule}
    BY DEF WorldOK, TaskRecords
  <1>3. /\ e \in ExecutionRecords(run) /\ e.task = t.id /\ e.run = run /\ e.due = occurrence
        /\ entry \in LogRecords /\ entry.run = run
    BY <1>2 DEF ExecutionRecords, LogRecords, RunStatuses
  <1> HIDE DEF e, entry, run
  <1>4. /\ SameTasks(file.automations, b.file.automations)
        /\ Len(b.file.automations) = Len(old)
        /\ \A i \in 1..Len(old) : /\ b.file.automations[i].id = old[i].id
                                  /\ b.file.automations[i].due = old[i].due
    <2>1. /\ old \in Seq(TaskRecords) /\ Len(old) = Len(file.automations)
          /\ \A i \in 1..Len(old) : old[i] \in TaskRecords
      BY ElementOfSeq DEF WorldOK, SameTasks
    <2>2. \A a \in ToSet(old) : /\ marked[a] = [a EXCEPT !.status = "running"]
                                /\ a \in TaskRecords
      <3>1. DOMAIN old = 1..Len(old)
        BY <2>1, LenProperties
      <3> QED
        BY <2>1, <3>1 DEF ToSet
    <2>3. \A a \in ToSet(old) : /\ marked[a] \in TaskRecords
                                /\ marked[a].id = a.id
                                /\ marked[a].schedule = a.schedule
                                /\ marked[a].enabled = a.enabled
                                /\ marked[a].due = a.due
      <3> SUFFICES ASSUME NEW a \in ToSet(old)
                   PROVE  LET m == [a EXCEPT !.status = "running"]
                          IN m \in TaskRecords /\ m.id = a.id /\ m.schedule = a.schedule
                             /\ m.enabled = a.enabled /\ m.due = a.due
        BY <2>2, Zenon
      <3>1. a \in TaskRecords
        BY <2>2
      <3> QED
        BY <3>1 DEF TaskRecords, RunStatuses
    <2> HIDE DEF marked
    <2>4. /\ b.file.automations \in Seq(TaskRecords)
          /\ Len(b.file.automations) = Len(old)
          /\ \A i \in 1..Len(old) : b.file.automations[i] =
                IF old[i].id = t.id THEN marked[old[i]] ELSE old[i]
      BY <1>1, <2>1, <2>3, UpdatedIs
    <2>5. \A i \in 1..Len(old) : old[i] \in ToSet(old)
      BY <2>1, LenProperties DEF ToSet
    <2>6. \A i \in 1..Len(old) : /\ b.file.automations[i].id = old[i].id
                                  /\ b.file.automations[i].schedule = old[i].schedule
                                  /\ b.file.automations[i].enabled = old[i].enabled
                                  /\ b.file.automations[i].due = old[i].due
      BY <2>3, <2>4, <2>5
    <2>7. SameTasks(file.automations, old)
      BY DEF WorldOK
    <2> QED
      BY <2>1, <2>4, <2>6, <2>7 DEF SameTasks
  <1>5. LogOK(b.file.runs, b.executions, b.runCount)
    <2> DEFINE runs == w.file.runs
               long == <<entry>> \o runs
    <2>1. LogOK(runs, b.executions, b.runCount)
      <3>1. w.runCount <= run /\ w.executions \subseteq b.executions
        BY <1>1, <1>2
      <3> QED
        BY <1>1, <1>2, <3>1, LogGrows DEF WorldOK
    <2>2. /\ long \in Seq(LogRecords) /\ Len(long) = Len(runs) + 1 /\ long[1] = entry
          /\ \A i \in 2..(Len(runs) + 1) : long[i] = runs[i - 1]
          /\ Len(runs) \in Nat
      BY <1>3, <2>1, PrependIs, LenProperties DEF LogOK
    <2>5. b.file.runs = Truncated(long)
      BY <1>1
    <2> HIDE DEF long, runs
    <2>3. \A i \in 1..Len(long) :
            /\ long[i].run <= b.runCount
            /\ long[i].status = "running" /\ long[i].run > lastCrash
                    /\ long[i].run \notin lost =>
                    \E x \in b.executions : x.run = long[i].run
      <3> SUFFICES ASSUME NEW i \in 1..Len(long)
                   PROVE  /\ long[i].run <= b.runCount
                          /\ long[i].status = "running" /\ long[i].run > lastCrash
                                /\ long[i].run \notin lost =>
                                \E x \in b.executions : x.run = long[i].run
        OBVIOUS
      <3>1. CASE i = 1
        BY <1>1, <1>2, <1>3, <2>2, <3>1
      <3>2. CASE i # 1
        <4>1. i - 1 \in 1..Len(runs) /\ long[i] = runs[i - 1]
          BY <2>2, <3>2
        <4> QED
          BY <2>1, <4>1 DEF LogOK
      <3> QED
        BY <3>1, <3>2
    <2>4. /\ b.file.runs \in Seq(LogRecords) /\ Len(b.file.runs) <= HistoryLength
          /\ Len(b.file.runs) <= Len(long) /\ Len(b.file.runs) \in Nat
          /\ \A i \in 1..Len(b.file.runs) : b.file.runs[i] = long[i]
      BY <2>2, <2>5, TruncatedIs, LenProperties
    <2> QED
      <3>1. \A i \in 1..Len(b.file.runs) : i \in 1..Len(long)
        BY <2>2, <2>4
      <3>2. \A i \in 1..Len(b.file.runs) :
              /\ b.file.runs[i].run <= b.runCount
              /\ b.file.runs[i].status = "running" /\ b.file.runs[i].run > lastCrash
                      /\ b.file.runs[i].run \notin lost =>
                      \E x \in b.executions : x.run = b.file.runs[i].run
        BY <2>3, <2>4, <3>1
      <3> QED
        BY <2>4, <3>2 DEF LogOK
  <1>6. ExecutionsOK(b.executions, b.runCount)
    <2>1. w.executions \subseteq ExecutionRecords(run)
      <3>1. w.executions \subseteq ExecutionRecords(w.runCount)
        BY DEF WorldOK, ExecutionsOK
      <3>2. 1..w.runCount \subseteq 1..run
        BY <1>2
      <3> QED
        BY <3>1, <3>2 DEF ExecutionRecords
    <2>2. \A f \in w.executions : f.task # t.id
      BY DEF Executing
    <2> QED
      BY <1>1, <1>3, <2>1, <2>2 DEF WorldOK, ExecutionsOK
  <1>7. ASSUME NEW tasks, FiredOK(tasks, w.executions, w.fired)
        PROVE  FiredOK(tasks, b.executions, b.fired)
    <2>1. CASE occurrence = Undefined
      BY <1>1, <1>7, <2>1, FiredStays
    <2>2. CASE occurrence # Undefined
      <3> DEFINE pair == <<t.id, occurrence>>
      <3>1. /\ pair \in Tasks \X Nat /\ pair[2] <= now /\ pair = <<e.task, e.due>>
            /\ e \in b.executions /\ w.executions \subseteq b.executions
            /\ b.fired = w.fired \cup {pair}
        BY <1>1, <1>2, <1>3, <2>2
      <3> HIDE DEF pair
      <3> QED
        BY <1>7, <3>1, FiredGrows
    <2> QED
      BY <2>1, <2>2
  <1>8. FiredOK(b.file.automations, b.executions, b.fired)
    <2>1. FiredOK(old, b.executions, b.fired)
      BY <1>7 DEF WorldOK
    <2> QED
      BY <1>4, <2>1, FiredSame
  <1>9. /\ b.runCount \in Nat /\ b.runCount >= runCount /\ w.runCount <= b.runCount
        /\ w.executions \subseteq b.executions /\ executions \subseteq b.executions
    BY <1>1, <1>2 DEF WorldOK
  <1>10. \A f \in b.executions \ executions : f.due # Undefined => <<f.task, f.due>> \notin fired
    BY <1>1, <1>3 DEF WorldOK
  <1>11. WorldOK(b)
    BY <1>0, <1>4, <1>5, <1>6, <1>8, <1>9, <1>10 DEF WorldOK
  <1> QED
    BY <1>7, <1>9, <1>11 DEF b

-----------------------------------------------------------------------------
(* The tick.                                                               *)

\* What the loop of a tick keeps: both the snapshot and the file explain what was
\* executed before the tick and in it.
TickOK(acc) ==
    /\ acc = [snapshot |-> acc.snapshot, world |-> acc.world]
    /\ IsFile(acc.snapshot)
    /\ WorldOK(acc.world)
    /\ SameTasks(file.automations, acc.snapshot.automations)
    /\ acc.snapshot.runs = file.runs
    /\ FiredOK(acc.snapshot.automations, executions, fired)
    /\ FiredOK(acc.snapshot.automations, acc.world.executions, acc.world.fired)

\* A snapshot in which one task gets a next time.
LEMMA DatedIs ==
    ASSUME NEW snapshot, IsFile(snapshot), snapshot.automations \in Seq(TaskRecords),
           NEW i \in 1..Len(snapshot.automations), NEW due \in Nat \cup {Undefined}
    PROVE  LET dated == [snapshot EXCEPT !.automations[i].due = due]
           IN /\ IsFile(dated)
              /\ dated.runs = snapshot.runs
              /\ SameTasks(snapshot.automations, dated.automations)
              /\ \A j \in 1..Len(snapshot.automations) : dated.automations[j].due =
                    IF j = i THEN due ELSE snapshot.automations[j].due
  <1> DEFINE old == snapshot.automations
             new == [old EXCEPT ![i].due = due]
             dated == [snapshot EXCEPT !.automations[i].due = due]
  <1>1. dated = [automations |-> new, runs |-> snapshot.runs]
    <2>1. dated = [snapshot EXCEPT !.automations = new]
      OBVIOUS
    <2> HIDE DEF new
    <2> QED
      BY <2>1 DEF IsFile
  <1>2. dated.automations = new /\ dated.runs = snapshot.runs /\ IsFile(dated)
    <2> HIDE DEF dated, new
    <2> QED
      BY <1>1 DEF IsFile
  <1>3. /\ Len(old) \in Nat /\ DOMAIN old = 1..Len(old)
        /\ \A j \in 1..Len(old) : old[j] \in TaskRecords
    BY LenProperties, ElementOfSeq
  <1> DEFINE changed == [old[i] EXCEPT !.due = due]
  <1>4. /\ changed \in TaskRecords /\ changed.id = old[i].id /\ changed.due = due
        /\ changed.schedule = old[i].schedule /\ changed.enabled = old[i].enabled
    BY <1>3 DEF TaskRecords
  <1>5. \A j \in 1..Len(old) : new[j] = IF j = i THEN changed ELSE old[j]
    BY <1>3
  <1>6. new \in [1..Len(old) -> TaskRecords]
    <2>1. DOMAIN new = 1..Len(old) /\ new = [j \in 1..Len(old) |-> new[j]]
      BY <1>3
    <2> HIDE DEF new, changed
    <2> QED
      BY <1>3, <1>4, <1>5, <2>1
  <1>7. new \in Seq(TaskRecords) /\ Len(new) = Len(old)
    <2> HIDE DEF new
    <2> QED
      BY <1>3, <1>6, FunctionIsSeq
  <1> HIDE DEF new, changed, dated
  <1>8. SameTasks(old, new)
    BY <1>4, <1>5, <1>7 DEF SameTasks
  <1>9. \A j \in 1..Len(old) : new[j].due = IF j = i THEN due ELSE old[j].due
    BY <1>4, <1>5
  <1> QED
    BY <1>2, <1>8, <1>9 DEF dated

\* Sameness composes.
LEMMA SameTrans ==
    ASSUME NEW a, NEW b, NEW c, SameTasks(a, b), SameTasks(b, c)
    PROVE  SameTasks(a, c)
  BY DEF SameTasks

\* A next time that is to come was not executed.
LEMMA FiredDated ==
    ASSUME now \in Nat, NEW tasks, NEW other, NEW exs, NEW done, FiredOK(tasks, exs, done),
           SameTasks(tasks, other),
           \A j \in 1..Len(tasks) : \/ other[j].due = tasks[j].due
                                    \/ other[j].due \notin Nat
                                    \/ other[j].due > now
    PROVE  FiredOK(other, exs, done)
  <1> SUFFICES ASSUME NEW j \in 1..Len(other), <<other[j].id, other[j].due>> \in done
               PROVE  \E e \in exs : e.task = other[j].id /\ e.due = other[j].due
    BY DEF FiredOK
  <1>1. j \in 1..Len(tasks) /\ other[j].id = tasks[j].id
    BY DEF SameTasks
  <1>2. other[j].due \in Nat /\ other[j].due <= now
    BY DEF FiredOK
  <1>3. other[j].due = tasks[j].due
    BY <1>1, <1>2
  <1> QED
    BY <1>1, <1>3 DEF FiredOK

\* One task of the loop.
LEMMA LoopStepOK ==
    ASSUME now \in Nat, runCount \in Nat, file.automations \in Seq(TaskRecords),
           LogOK(file.runs, executions, runCount),
           NEW acc, TickOK(acc), NEW i \in 1..Len(file.automations)
    PROVE  TickOK(LoopStep(acc, i))
  <1> DEFINE t == acc.snapshot.automations[i]
             w == acc.world
             tasks == acc.snapshot.automations
             next == NextRunTime(t.schedule, now)
             dated == [acc.snapshot EXCEPT !.automations[i].due = next]
  <1>1. /\ tasks \in Seq(TaskRecords) /\ i \in 1..Len(tasks) /\ t \in TaskRecords
        /\ SameTasks(file.automations, tasks)
    BY ElementOfSeq DEF TickOK, SameTasks
  <1>2. /\ t.id \in Tasks /\ t.schedule \in Schedules \cup {PresetSchedule}
        /\ t.due \in Nat \cup {Undefined}
    BY <1>1 DEF TaskRecords
  <1>3. next = Undefined \/ (next \in Nat /\ next > now)
    BY <1>2, NextTime, LocalAssumption
  <1> DEFINE changed == [acc EXCEPT !.snapshot = dated, !.world.file = dated]
             begun == [acc EXCEPT !.world = Execute(w, t, t.due)]
  <1>4. LoopStep(acc, i) = IF ~t.enabled THEN acc
                           ELSE IF t.due = Undefined THEN changed
                           ELSE IF HasCome(t) THEN begun ELSE acc
    BY DEF LoopStep
  <1>5. ASSUME t.due = Undefined PROVE TickOK(changed)
    <2>0. /\ IsFile(acc.snapshot) /\ acc.snapshot.runs = file.runs
          /\ next \in Nat \cup {Undefined}
          /\ FiredOK(tasks, executions, fired) /\ FiredOK(tasks, w.executions, w.fired)
          /\ acc = [snapshot |-> acc.snapshot, world |-> w] /\ IsWorld(w)
      BY <1>3 DEF TickOK, WorldOK
    <2>1. /\ IsFile(dated) /\ dated.runs = file.runs
          /\ SameTasks(tasks, dated.automations)
          /\ \A j \in 1..Len(tasks) :
                dated.automations[j].due = IF j = i THEN next ELSE tasks[j].due
      <3> HIDE DEF next
      <3> QED
        BY <1>1, <2>0, DatedIs
    <2> HIDE DEF dated, next
    <2> DEFINE world == [file |-> dated, executions |-> w.executions,
                         runCount |-> w.runCount, fired |-> w.fired]
    <2>2. changed = [snapshot |-> dated, world |-> world]
      <3> DEFINE new == [w EXCEPT !.file = dated]
      <3>1. changed = [acc EXCEPT !.snapshot = dated, !.world = new]
        OBVIOUS
      <3>2. new = world
        <4> HIDE DEF w
        <4> QED
          BY <2>0 DEF IsWorld
      <3> HIDE DEF new, world, w, changed
      <3> QED
        BY <2>0, <3>1, <3>2
    <2>3. SameTasks(file.automations, dated.automations)
      BY <1>1, <2>1, SameTrans
    <2>4. next \notin Nat \/ next > now
      BY <1>3 DEF Undefined
    <2>5. /\ FiredOK(dated.automations, executions, fired)
          /\ FiredOK(dated.automations, w.executions, w.fired)
      <3> DEFINE other == dated.automations
                 exs == w.executions
                 done == w.fired
      <3>1. /\ SameTasks(tasks, other) /\ FiredOK(tasks, exs, done)
            /\ FiredOK(tasks, executions, fired)
            /\ \A j \in 1..Len(tasks) : \/ other[j].due = tasks[j].due
                                         \/ other[j].due \notin Nat
                                         \/ other[j].due > now
        BY <2>0, <2>1, <2>4
      <3> HIDE DEF tasks, other, exs, done
      <3>2. FiredOK(other, executions, fired)
        BY <3>1, FiredDated
      <3>3. FiredOK(other, exs, done)
        BY <3>1, FiredDated
      <3> QED
        BY <3>2, <3>3 DEF other, exs, done
    <2>7. LogOK(dated.runs, w.executions, w.runCount)
      BY <2>1, LogGrows DEF TickOK, WorldOK
    <2>8. /\ world.file = dated /\ world.executions = w.executions
          /\ world.runCount = w.runCount /\ world.fired = w.fired /\ IsWorld(world)
      BY DEF IsWorld
    <2> HIDE DEF world
    <2>9. WorldOK(world)
      BY <2>1, <2>3, <2>5, <2>7, <2>8 DEF TickOK, WorldOK
    <2>10. changed.snapshot = dated /\ changed.world = world
      BY <2>2
    <2> HIDE DEF changed
    <2> QED
      BY <2>1, <2>2, <2>3, <2>5, <2>8, <2>9, <2>10 DEF TickOK
  <1>6. ASSUME t.due # Undefined, HasCome(t) PROVE TickOK(begun)
    <2> DEFINE world == Execute(w, t, t.due)
    <2>1. begun = [snapshot |-> acc.snapshot, world |-> world]
      <3> HIDE DEF world
      <3> QED
        BY DEF TickOK, world
    <2>3. WorldOK(world) /\ FiredOK(tasks, world.executions, world.fired)
      <3>1. CASE Executing(w, t.id)
        <4>1. world = w
          BY <3>1 DEF Execute
        <4> QED
          BY <4>1 DEF TickOK
      <3>2. CASE ~Executing(w, t.id)
        <4>1. world = Begun(w, t, t.due)
          BY <3>2 DEF Execute
        <4>2. t.due \in Nat /\ t.due <= now
          BY <1>2, <1>6 DEF HasCome
        <4>3. <<t.id, t.due>> \notin fired
          <5> SUFFICES ASSUME <<t.id, t.due>> \in fired PROVE FALSE
            OBVIOUS
          <5>1. \E e \in executions : e.task = t.id
            BY <1>1 DEF TickOK, FiredOK
          <5> QED
            BY <3>2, <5>1 DEF Executing, TickOK, WorldOK
        <4>4. WorldOK(w) /\ FiredOK(tasks, w.executions, w.fired)
          BY DEF TickOK
        <4>5. t.due \in Int
          BY <4>2
        <4> HIDE DEF w, t, world, tasks
        <4> QED
          BY <1>1, <3>2, <4>1, <4>2, <4>3, <4>4, <4>5, BegunOK
      <3> QED
        BY <3>1, <3>2
    <2>4. begun.snapshot = acc.snapshot /\ begun.world = world
      BY <2>1
    <2> HIDE DEF begun, world
    <2> QED
      BY <2>1, <2>3, <2>4 DEF TickOK
  <1> HIDE DEF changed, begun
  <1> QED
    BY <1>4, <1>5, <1>6

\* So the whole loop keeps it.
LEMMA TickKeeps ==
    ASSUME now \in Nat, runCount \in Nat, file.automations \in Seq(TaskRecords),
           LogOK(file.runs, executions, runCount), NEW base, TickOK(base)
    PROVE  TickOK(FoldLeft(LoopStep, base, Indices))
  <1> DEFINE D == DOMAIN Indices
  <1>1. /\ D = 1..Len(file.automations) /\ IsFiniteSet(D) /\ D \subseteq Int
        /\ \A i \in D : Indices[i] = i
    <2>1. Len(file.automations) \in Nat /\ DOMAIN file.automations = 1..Len(file.automations)
      BY LenProperties
    <2>2. D = 1..Len(file.automations) /\ \A i \in D : Indices[i] = i
      BY <2>1 DEF Indices
    <2> QED
      BY <2>1, <2>2, FS_Interval
  <1>2. PICK iter : Loop(base, D, iter) /\ FoldLeft(LoopStep, base, Indices) = iter[D]
    BY <1>1, TickIsLoop
  <1> DEFINE T == {u \in SUBSET D : ~TickOK(iter[u])}
  <1>3. SUFFICES ASSUME T # {} PROVE FALSE
    <2>1. D \in SUBSET D
      OBVIOUS
    <2> HIDE DEF D
    <2> QED
      BY <1>2, <2>1
  <1>4. \E u \in T : \A v \in T : v \subseteq u => v = u
    <2>1. T \subseteq SUBSET D
      OBVIOUS
    <2> HIDE DEF T
    <2> QED
      BY ONLY <1>1, <1>3, <2>1, SmallestSubset
  <1>5. PICK u \in T : \A v \in T : v \subseteq u => v = u
    BY <1>4
  <1>6. u \in SUBSET D /\ ~TickOK(iter[u])
    BY <1>5
  <1>7. u # {}
    BY <1>2, <1>6 DEF Loop
  <1> DEFINE last == Max(u)
             v == u \ {last}
  <1>8. last \in u /\ last \in D
    BY <1>1, <1>6, <1>7, MaxIn
  <1>9. TickOK(iter[v])
    BY <1>5, <1>6, <1>8
  <1>10. iter[u] = LoopStep(iter[v], last)
    <2>1. iter[u] = LoopStep(iter[u \ {Max(u)}], Indices[Max(u)])
      <3> HIDE DEF D
      <3> QED
        BY <1>2, <1>6, <1>7 DEF Loop
    <2> QED
      BY <1>1, <1>8, <2>1
  <1>11. last \in 1..Len(file.automations)
    BY <1>1, <1>8
  <1> HIDE DEF last, v
  <1>12. TickOK(LoopStep(iter[v], last))
    BY <1>9, <1>11, LoopStepOK
  <1> QED
    BY <1>6, <1>10, <1>12

-----------------------------------------------------------------------------
(* The inductive invariant.                                                *)

\* The tasks are what the user last asked for: EditsKept, of any list of tasks.
Kept(tasks, asked) ==
    /\ \A i, j \in 1..Len(tasks) : tasks[i].id = tasks[j].id => i = j
    /\ \A i \in 1..Len(tasks) :
        asked[tasks[i].id] = [schedule |-> tasks[i].schedule, enabled |-> tasks[i].enabled]
    /\ \A t \in Tasks : asked[t] # Absent => \E i \in 1..Len(tasks) : tasks[i].id = t

Asked == [schedule : Schedules \cup {PresetSchedule}, enabled : BOOLEAN] \cup {Absent}

Rest ==
    /\ now \in 0..MaxTime
    /\ up \in BOOLEAN
    /\ stuck \subseteq Tasks
    /\ ~up => executions = {} /\ stuck = {}
    /\ saved \in [Tasks -> Asked]
    /\ runCount \in Nat /\ lastCrash \in 0..runCount /\ lost \subseteq 1..runCount
    /\ manual \in 0..MaxManual /\ edits \in 0..MaxEdits /\ faults \in 0..MaxFaults

IInv ==
    /\ Rest
    /\ IsFile(file) /\ file.automations \in Seq(TaskRecords)
    /\ Kept(file.automations, saved)
    /\ LogOK(file.runs, executions, runCount)
    /\ ExecutionsOK(executions, runCount)
    /\ FiredOK(file.automations, executions, fired)

\* What the proofs need of the numbers and of the entries of the file.
LEMMA IInvFacts ==
    ASSUME IInv
    PROVE  /\ now \in Nat /\ runCount \in Nat /\ lastCrash \in Nat /\ lastCrash <= runCount
           /\ Len(file.automations) \in Nat
           /\ DOMAIN file.automations = 1..Len(file.automations)
           /\ \A i \in 1..Len(file.automations) :
                /\ file.automations[i] \in TaskRecords
                /\ file.automations[i] \in ToSet(file.automations)
           /\ \A a \in ToSet(file.automations) : a \in TaskRecords
           /\ Ids(file.automations) = {file.automations[i].id : i \in 1..Len(file.automations)}
  <1>1. now \in Nat /\ runCount \in Nat /\ lastCrash \in Nat /\ lastCrash <= runCount
    BY LocalAssumption DEF IInv, Rest
  <1>2. /\ Len(file.automations) \in Nat
        /\ DOMAIN file.automations = 1..Len(file.automations)
        /\ \A i \in 1..Len(file.automations) : file.automations[i] \in TaskRecords
    BY LenProperties, ElementOfSeq DEF IInv
  <1> QED
    BY <1>1, <1>2 DEF ToSet, Ids

\* A schedule the user saved is none that is absent.
LEMMA NotAbsent ==
    ASSUME NEW schedule \in Schedules \cup {PresetSchedule}, NEW enabled \in BOOLEAN
    PROVE  [schedule |-> schedule, enabled |-> enabled] # Absent
  <1>1. schedule.kind # "none"
    BY LocalAssumption DEF IsSchedule
  <1>2. schedule # [kind |-> "none"]
    BY <1>1
  <1> QED
    BY <1>2 DEF Absent

\* The same tasks are kept as well.
LEMMA SameIsKept ==
    ASSUME NEW a, NEW b, NEW asked, SameTasks(a, b), Kept(a, asked)
    PROVE  Kept(b, asked)
  BY DEF SameTasks, Kept

\* The invariant gives the properties of the runs.
LEMMA IInvImplies ==
    ASSUME IInv
    PROVE  TypeOK /\ OneExecution /\ EditsKept /\ RunningIsRunning /\ NextIsEarliest
  <1>1. TypeOK
    <2>1. file.runs \in Seq(LogRecords) /\ Len(file.runs) <= HistoryLength
      BY DEF IInv, LogOK
    <2>2. executions \subseteq ExecutionRecords(runCount) /\ fired \subseteq Tasks \X Nat
      BY DEF IInv, ExecutionsOK, FiredOK
    <2> QED
      BY <2>1, <2>2 DEF IInv, Rest, TypeOK, TaskRecords, LogRecords, ExecutionRecords, Asked
  <1>2. OneExecution
    BY DEF IInv, ExecutionsOK, OneExecution
  <1>3. EditsKept
    <2>1. \A i \in 1..Len(file.automations) :
            /\ file.automations[i].id \in Tasks
            /\ saved[file.automations[i].id] # Absent
      <3> SUFFICES ASSUME NEW i \in 1..Len(file.automations)
                   PROVE  /\ file.automations[i].id \in Tasks
                          /\ saved[file.automations[i].id] # Absent
        OBVIOUS
      <3>1. file.automations[i] \in TaskRecords
        BY IInvFacts
      <3>2. /\ file.automations[i].id \in Tasks
            /\ file.automations[i].schedule \in Schedules \cup {PresetSchedule}
            /\ file.automations[i].enabled \in BOOLEAN
        BY <3>1 DEF TaskRecords
      <3>3. saved[file.automations[i].id] = [schedule |-> file.automations[i].schedule,
                                             enabled |-> file.automations[i].enabled]
        BY DEF IInv, Kept
      <3> QED
        BY <3>2, <3>3, NotAbsent
    <2>2. Ids(file.automations) = {t \in Tasks : saved[t] # Absent}
      BY <2>1, IInvFacts DEF IInv, Kept
    <2> QED
      BY <2>2, IInvFacts DEF IInv, Kept, EditsKept
  <1>4. RunningIsRunning
    <2>1. DOMAIN file.runs = 1..Len(file.runs)
      BY LenProperties DEF IInv, LogOK
    <2> QED
      BY <2>1 DEF IInv, LogOK, RunningIsRunning
  <1>5. NextIsEarliest
    <2>1. now \in Nat
      BY IInvFacts
    <2>2. \A s \in Calendars : IsSchedule(s) /\ s.kind \in {"daily", "weekly"} /\ NamesDays(s)
      BY LocalAssumption
    <2> QED
      BY <2>1, <2>2, CalendarNext DEF NextIsEarliest
  <1> QED
    BY <1>1, <1>2, <1>3, <1>4, <1>5

\* The first state.
LEMMA InitIInv == Init => IInv
  <1> SUFFICES ASSUME Init PROVE IInv
    OBVIOUS
  <1>1. /\ file.automations = << >> /\ file.runs = << >> /\ IsFile(file)
    BY DEF Init, EmptyFile, IsFile
  <1>2. Rest
    BY LocalAssumption DEF Init, Rest, Asked
  <1>3. << >> \in Seq(TaskRecords) /\ << >> \in Seq(LogRecords) /\ Len(<< >>) = 0
    OBVIOUS
  <1>4. Kept(<< >>, saved)
    BY <1>3 DEF Init, Kept
  <1>5. LogOK(<< >>, {}, 0)
    BY <1>3, LocalAssumption DEF LogOK
  <1>6. ExecutionsOK({}, 0) /\ FiredOK(<< >>, {}, {})
    BY <1>3 DEF ExecutionsOK, FiredOK
  <1> QED
    BY <1>1, <1>2, <1>3, <1>4, <1>5, <1>6 DEF Init, IInv

-----------------------------------------------------------------------------
(* The steps.                                                              *)

\* No execution is added for an occurrence that had one.
OnceStep == \A e \in executions' \ executions :
                e.due # Undefined => <<e.task, e.due>> \notin fired

\* The world a tick or a run-now begins with.
LEMMA WorldStarts == IInv => WorldOK(World)
  <1> SUFFICES ASSUME IInv PROVE WorldOK(World)
    OBVIOUS
  <1> DEFINE w == [file |-> file, executions |-> executions, runCount |-> runCount,
                   fired |-> fired]
  <1>1. /\ w.file = file /\ w.executions = executions /\ w.runCount = runCount
        /\ w.fired = fired /\ IsWorld(w) /\ World = w
    BY DEF IsWorld, World
  <1> HIDE DEF w
  <1>2. SameTasks(file.automations, file.automations)
    BY DEF IInv, SameTasks
  <1> QED
    BY <1>1, <1>2, IInvFacts DEF IInv, WorldOK

\* Tick and run-now: the file, the executions and the history become such a world.
LEMMA BecomeKeeps ==
    ASSUME IInv, NEW w, WorldOK(w), Become(w), up, UNCHANGED <<now, up, stuck, saved, lastCrash, lost, edits, faults>>,
           manual' \in 0..MaxManual
    PROVE  IInv' /\ OnceStep
  <1>1. /\ file' = w.file /\ executions' = w.executions /\ runCount' = w.runCount
        /\ fired' = w.fired /\ now' = now /\ up' = up /\ saved' = saved /\ lastCrash' = lastCrash
        /\ edits' = edits /\ faults' = faults /\ stuck' = stuck /\ lost' = lost
    BY DEF Become
  <1>2. Rest'
    <2>1. runCount' \in Nat /\ lastCrash' \in 0..runCount' /\ lost' \subseteq 1..runCount'
      BY <1>1, IInvFacts DEF WorldOK, IInv, Rest
    <2> QED
      BY <1>1, <2>1 DEF IInv, Rest
  <1>3. IsFile(file') /\ file'.automations \in Seq(TaskRecords)
    BY <1>1 DEF WorldOK, SameTasks
  <1>4. Kept(file'.automations, saved')
    BY <1>1, SameIsKept DEF IInv, WorldOK
  <1>5. LogOK(file.runs, executions, runCount)'
    BY <1>1 DEF WorldOK, LogOK
  <1>6. ExecutionsOK(executions', runCount')
    BY <1>1 DEF WorldOK
  <1>7. FiredOK(file.automations, executions, fired)'
    BY <1>1 DEF WorldOK, FiredOK
  <1>8. OnceStep
    BY <1>1 DEF WorldOK, OnceStep
  <1> QED
    BY <1>2, <1>3, <1>4, <1>5, <1>6, <1>7, <1>8 DEF IInv

\* The tick.
LEMMA TickStep == IInv /\ SchedulerTick => IInv' /\ OnceStep
  <1> SUFFICES ASSUME IInv, SchedulerTick PROVE IInv' /\ OnceStep
    OBVIOUS
  <1> DEFINE base == [snapshot |-> file, world |-> World]
             last == FoldLeft(LoopStep, base, Indices)
  <1>1. WorldOK(World)
    BY WorldStarts
  <1>2. TickOK(base)
    <2>1. base.snapshot = file /\ base.world = World
      OBVIOUS
    <2>2. SameTasks(file.automations, file.automations)
      BY DEF IInv, SameTasks
    <2>3. World.executions = executions /\ World.fired = fired
      BY DEF World
    <2>4. base = [snapshot |-> base.snapshot, world |-> base.world]
      OBVIOUS
    <2> HIDE DEF base
    <2> QED
      BY <1>1, <2>1, <2>2, <2>3, <2>4 DEF IInv, TickOK
  <1>3. TickOK(last)
    <2> HIDE DEF base
    <2> QED
      BY <1>2, TickKeeps, IInvFacts DEF IInv
  <1>4. WorldOK(last.world)
    BY <1>3 DEF TickOK
  <1>5. /\ up /\ Become(last.world) /\ UNCHANGED <<now, up, stuck, saved, lastCrash, lost, manual, edits, faults>>
    BY DEF SchedulerTick, Indices, counters
  <1> HIDE DEF last
  <1> QED
    BY <1>4, <1>5, BecomeKeeps DEF IInv, Rest

\* A manual execution.
LEMMA RunNowStep ==
    ASSUME IInv, NEW id \in Tasks, RunNow(id)
    PROVE  IInv' /\ OnceStep
  <1>1. PICK i \in 1..Len(file.automations) : Become(Execute(World, file.automations[i], Undefined))
    BY IInvFacts DEF RunNow
  <1> DEFINE t == file.automations[i]
             w == Execute(World, t, Undefined)
  <1>2. WorldOK(World) /\ t \in TaskRecords /\ Undefined \in Int
    BY WorldStarts, IInvFacts DEF Undefined
  <1>3. WorldOK(w)
    <2>1. CASE Executing(World, t.id)
      BY <1>2, <2>1 DEF Execute
    <2>2. CASE ~Executing(World, t.id)
      <3>1. w = Begun(World, t, Undefined)
        BY <2>2 DEF Execute
      <3> HIDE DEF w, t
      <3>2. WorldOK(Begun(World, t, Undefined))
        BY <1>2, <2>2, IInvFacts, BegunOK DEF IInv
      <3> QED
        BY <3>1, <3>2
    <2> QED
      BY <2>1, <2>2
  <1>4. /\ up /\ UNCHANGED <<now, up, stuck, saved, lastCrash, lost, edits, faults>>
        /\ manual' \in 0..MaxManual /\ Become(w)
    BY <1>1, LocalAssumption DEF RunNow, IInv, Rest
  <1> HIDE DEF w
  <1> QED
    BY <1>3, <1>4, BecomeKeeps

\* The end of an execution in the history.
LEMMA LogEndOK ==
    ASSUME NEW runs, NEW exs, NEW count, LogOK(runs, exs, count), NEW e,
           NEW outcome \in {"succeeded", "failed"}
    PROVE  LogOK(LogEnd(runs, e, outcome), exs \ {e}, count)
  <1> DEFINE new == LogEnd(runs, e, outcome)
  <1>1. /\ Len(runs) \in Nat /\ DOMAIN runs = 1..Len(runs) /\ Len(runs) <= HistoryLength
        /\ \A i \in 1..Len(runs) : runs[i] \in LogRecords
    <2>1. runs \in Seq(LogRecords) /\ Len(runs) <= HistoryLength
      BY DEF LogOK
    <2> QED
      BY <2>1, LenProperties, ElementOfSeq
  <1> DEFINE ended(i) == [runs[i] EXCEPT !.status = outcome]
  <1>2. new = [i \in 1..Len(runs) |-> IF runs[i].run = e.run THEN ended(i) ELSE runs[i]]
    BY <1>1 DEF LogEnd
  <1>3. \A i \in 1..Len(runs) : /\ ended(i) \in LogRecords /\ ended(i).run = runs[i].run
                                /\ ended(i).status = outcome
    BY <1>1 DEF LogRecords, RunStatuses
  <1> HIDE DEF new, ended
  <1>4. new \in [1..Len(runs) -> LogRecords]
    BY <1>1, <1>2, <1>3
  <1>5. new \in Seq(LogRecords) /\ Len(new) = Len(runs)
    BY <1>1, <1>4, FunctionIsSeq
  <1>6. ASSUME NEW i \in 1..Len(new)
        PROVE  /\ new[i].run <= count
               /\ new[i].status = "running" /\ new[i].run > lastCrash
                    /\ new[i].run \notin lost =>
                    \E x \in exs \ {e} : x.run = new[i].run
    <2>1. i \in 1..Len(runs)
      BY <1>5
    <2>2. CASE runs[i].run = e.run
      <3>1. new[i] = ended(i)
        BY <1>2, <2>1, <2>2
      <3>2. new[i].run = runs[i].run /\ new[i].status # "running"
        BY <1>3, <2>1, <3>1
      <3> QED
        BY <2>1, <3>2 DEF LogOK
    <2>3. CASE runs[i].run # e.run
      <3>1. new[i] = runs[i]
        BY <1>2, <2>1, <2>3
      <3> QED
        BY <2>1, <2>3, <3>1 DEF LogOK
    <2> QED
      BY <2>2, <2>3
  <1>7. LogOK(new, exs \ {e}, count)
    BY <1>1, <1>5, <1>6 DEF LogOK
  <1> QED
    BY <1>7 DEF new

\* The end of an execution: the task gets a next time that is to come.
LEMMA FinishStep ==
    ASSUME IInv, NEW e \in executions, NEW outcome \in {"succeeded", "failed"},
           Finish(e, outcome)
    PROVE  IInv' /\ OnceStep
  <1> DEFINE tasks == file.automations
             next == NextRunTime(e.schedule, now + 1)
             change == [a \in ToSet(tasks) |-> AfterRun(a, e, outcome)]
             new == Updated(tasks, e.task, change)
             runs == LogEnd(file.runs, e, outcome)
  <1>1. /\ file' = [automations |-> new, runs |-> runs]
        /\ executions' = executions \ {e}
        /\ now' = now /\ up' = up /\ saved' = saved /\ fired' = fired /\ runCount' = runCount
        /\ lastCrash' = lastCrash /\ manual' = manual /\ edits' = edits /\ faults' = faults
        /\ stuck' = stuck /\ lost' = lost
    BY DEF Finish, counters
  <1>2. e.schedule \in Schedules \cup {PresetSchedule} /\ e.task \in Tasks
    BY DEF IInv, ExecutionsOK, ExecutionRecords
  <1>3. next \in Nat \cup {Undefined} /\ (next \notin Nat \/ next > now)
    <2>1. now \in Nat /\ now + 1 \in Nat
      BY IInvFacts
    <2>2. IsSchedule(e.schedule)
      BY <1>2, LocalAssumption
    <2> DEFINE from == now + 1
    <2> HIDE DEF from
    <2>3. NextRunTime(e.schedule, from) = Undefined
            \/ (NextRunTime(e.schedule, from) \in Nat /\ NextRunTime(e.schedule, from) > from)
      BY <2>1, <2>2, NextTime DEF from
    <2> QED
      BY <2>1, <2>3 DEF from, Undefined
  <1>4. \A a \in ToSet(tasks) : /\ change[a] \in TaskRecords
                                /\ change[a].id = a.id /\ change[a].schedule = a.schedule
                                /\ change[a].enabled = a.enabled /\ change[a].due = next
    <2> HIDE DEF next
    <2> SUFFICES ASSUME NEW a \in ToSet(tasks)
                 PROVE  /\ change[a] \in TaskRecords
                        /\ change[a].id = a.id /\ change[a].schedule = a.schedule
                        /\ change[a].enabled = a.enabled /\ change[a].due = next
      OBVIOUS
    <2> DEFINE marked == [a EXCEPT !.status = outcome]
               dated == [marked EXCEPT !.due = next]
    <2>1. a \in TaskRecords
      BY IInvFacts
    <2>2. change[a] = [a EXCEPT !.status = outcome, !.due = next]
      BY DEF AfterRun, next
    <2>3. change[a] = dated
      BY <2>2
    <2>4. marked \in TaskRecords /\ marked.id = a.id /\ marked.schedule = a.schedule
            /\ marked.enabled = a.enabled
      BY <2>1 DEF TaskRecords, RunStatuses
    <2> HIDE DEF marked, change
    <2>5. dated \in TaskRecords /\ dated.id = marked.id /\ dated.schedule = marked.schedule
            /\ dated.enabled = marked.enabled /\ dated.due = next
      BY <1>3, <2>4 DEF TaskRecords
    <2> HIDE DEF dated
    <2> QED
      BY <2>3, <2>4, <2>5
  <1> HIDE DEF change, next
  <1>5. /\ new \in Seq(TaskRecords) /\ Len(new) = Len(tasks)
        /\ \A i \in 1..Len(tasks) : new[i] =
              IF tasks[i].id = e.task THEN change[tasks[i]] ELSE tasks[i]
    BY <1>4, UpdatedIs DEF IInv
  <1>6. /\ SameTasks(tasks, new)
        /\ \A i \in 1..Len(tasks) : IF tasks[i].id = e.task THEN new[i].due = next
                                    ELSE new[i].due = tasks[i].due
    <2>1. \A i \in 1..Len(tasks) : tasks[i] \in ToSet(tasks)
      BY IInvFacts
    <2> HIDE DEF new
    <2> QED
      BY <1>4, <1>5, <2>1 DEF SameTasks
  <1> HIDE DEF new, runs
  <1>7. file'.automations = new /\ file'.runs = runs /\ IsFile(file')
    BY <1>1 DEF IsFile
  <1>8. Kept(file'.automations, saved')
    BY <1>1, <1>6, <1>7, SameIsKept DEF IInv
  <1>9. LogOK(file.runs, executions, runCount)'
    <2>1. LogOK(runs, executions \ {e}, runCount)
      BY LogEndOK DEF IInv, runs
    <2> QED
      BY <1>1, <1>7, <2>1 DEF LogOK
  <1>10. ExecutionsOK(executions', runCount')
    BY <1>1 DEF IInv, ExecutionsOK
  <1>11. FiredOK(file.automations, executions, fired)'
    <2>1. ASSUME NEW i \in 1..Len(new), <<new[i].id, new[i].due>> \in fired
          PROVE  \E x \in executions \ {e} : x.task = new[i].id /\ x.due = new[i].due
      <3>1. i \in 1..Len(tasks) /\ new[i].id = tasks[i].id
        BY <1>6 DEF SameTasks
      <3>2. new[i].due \in Nat /\ new[i].due <= now
        BY <2>1 DEF IInv, FiredOK
      <3>3. tasks[i].id # e.task /\ new[i].due = tasks[i].due
        BY <1>3, <1>6, <3>1, <3>2, IInvFacts
      <3> QED
        BY <2>1, <3>1, <3>3 DEF IInv, FiredOK
    <2> QED
      BY <1>1, <1>7, <2>1 DEF IInv, FiredOK
  <1>12. Rest' /\ OnceStep
    BY <1>1 DEF IInv, Rest, OnceStep
  <1> QED
    BY <1>5, <1>7, <1>8, <1>9, <1>10, <1>11, <1>12 DEF IInv

\* Time passes.
LEMMA ClockStep == IInv /\ Clock => IInv' /\ OnceStep
  <1> SUFFICES ASSUME IInv, Clock PROVE IInv' /\ OnceStep
    OBVIOUS
  <1>1. /\ now' = now + 1 /\ now' \in 0..MaxTime /\ file' = file /\ executions' = executions
        /\ up' = up /\ saved' = saved /\ fired' = fired /\ runCount' = runCount
        /\ lastCrash' = lastCrash /\ manual' = manual /\ edits' = edits /\ faults' = faults
        /\ stuck' = stuck /\ lost' = lost
    BY IInvFacts, LocalAssumption DEF Clock, IInv, Rest, counters
  <1>2. FiredOK(file.automations, executions, fired)'
    BY <1>1, IInvFacts DEF IInv, FiredOK
  <1>3. LogOK(file.runs, executions, runCount)'
    BY <1>1 DEF IInv, LogOK
  <1>4. Rest' /\ OnceStep
    BY <1>1 DEF IInv, Rest, OnceStep
  <1> QED
    BY <1>1, <1>2, <1>3, <1>4 DEF IInv

\* A write that fails leaves the file, or one without tasks and runs.
LEMMA CutOffKeeps ==
    ASSUME IInv, UNCHANGED <<file, saved>> \/ CutOff
    PROVE  /\ IsFile(file') /\ file'.automations \in Seq(TaskRecords)
           /\ Kept(file'.automations, saved') /\ saved' \in [Tasks -> Asked]
           /\ file'.runs \in Seq(LogRecords) /\ Len(file'.runs) <= HistoryLength
           /\ \A i \in 1..Len(file'.runs) :
                i \in 1..Len(file.runs) /\ file'.runs[i] = file.runs[i]
           /\ \A i \in 1..Len(file'.automations) :
                /\ i \in 1..Len(file.automations)
                /\ file'.automations[i] = file.automations[i]
  <1>1. CASE UNCHANGED <<file, saved>>
    BY <1>1 DEF IInv, Rest, LogOK
  <1>2. CASE CutOff
    <2>1. file'.automations = << >> /\ file'.runs = << >> /\ IsFile(file')
      BY <1>2 DEF CutOff, EmptyFile, IsFile
    <2>2. << >> \in Seq(TaskRecords) /\ << >> \in Seq(LogRecords) /\ Len(<< >>) = 0
      OBVIOUS
    <2>3. Kept(<< >>, saved')
      BY <1>2, <2>2 DEF CutOff, Kept
    <2>4. saved' \in [Tasks -> Asked]
      BY <1>2 DEF CutOff, Asked
    <2> QED
      BY <2>1, <2>2, <2>3, <2>4, LocalAssumption
  <1> QED
    BY <1>1, <1>2

\* The server stops: nothing is executed, and no run is given out any more.
LEMMA CrashStep == IInv /\ Crash => IInv' /\ OnceStep
  <1> SUFFICES ASSUME IInv, Crash PROVE IInv' /\ OnceStep
    OBVIOUS
  <1>1. /\ executions' = {} /\ stuck' = {} /\ fired' = {}
        /\ lastCrash' = runCount /\ runCount' = runCount /\ lost' = lost
        /\ up' = FALSE /\ now' = now /\ manual' = manual /\ edits' = edits
        /\ faults' \in 0..MaxFaults
    BY LocalAssumption DEF Crash, IInv, Rest
  <1>2. UNCHANGED <<file, saved>> \/ CutOff
    BY DEF Crash
  <1>3. LogOK(file.runs, executions, runCount)'
    <2>1. ASSUME NEW i \in 1..Len(file'.runs)
          PROVE  file'.runs[i].run <= runCount /\ ~(file'.runs[i].run > lastCrash')
      <3>1. i \in 1..Len(file.runs) /\ file'.runs[i] = file.runs[i]
        BY <1>2, CutOffKeeps
      <3>2. file.runs[i] \in LogRecords /\ file.runs[i].run <= runCount
        BY <3>1, ElementOfSeq DEF IInv, LogOK
      <3>3. file.runs[i].run \in Nat
        BY <3>2 DEF LogRecords
      <3> QED
        BY <1>1, <3>1, <3>2, <3>3, IInvFacts
    <2> QED
      BY <1>1, <1>2, <2>1, CutOffKeeps DEF LogOK
  <1>4. /\ ExecutionsOK(executions', runCount')
        /\ FiredOK(file.automations, executions, fired)'
    BY <1>1 DEF ExecutionsOK, FiredOK
  <1>5. Rest' /\ OnceStep
    <2>1. runCount' \in Nat /\ lastCrash' \in 0..runCount'
      BY <1>1, IInvFacts
    <2> QED
      BY <1>1, <1>2, <2>1, CutOffKeeps DEF IInv, Rest, OnceStep
  <1> QED
    BY <1>2, <1>3, <1>4, <1>5, CutOffKeeps DEF IInv

\* A step whose writes fail starts no execution and loses none.
LEMMA FailureKeeps ==
    ASSUME IInv, up, WriteFails,
           UNCHANGED <<now, up, executions, fired, runCount, lastCrash, lost>>,
           stuck' \subseteq Tasks, manual' \in 0..MaxManual, edits' \in 0..MaxEdits
    PROVE  IInv' /\ OnceStep
  <1>1. /\ UNCHANGED <<file, saved>> \/ CutOff
        /\ faults' \in 0..MaxFaults
    BY LocalAssumption DEF WriteFails, IInv, Rest
  <1>2. LogOK(file.runs, executions, runCount)'
    BY <1>1, CutOffKeeps DEF IInv, LogOK
  <1>3. FiredOK(file.automations, executions, fired)'
    BY <1>1, CutOffKeeps DEF IInv, FiredOK
  <1>4. Rest' /\ OnceStep /\ ExecutionsOK(executions', runCount')
    BY <1>1, CutOffKeeps DEF IInv, Rest, OnceStep
  <1> QED
    BY <1>1, <1>2, <1>3, <1>4, CutOffKeeps DEF IInv

\* A tick whose writes fail.
LEMMA TickFailsStep == IInv /\ TickFails => IInv' /\ OnceStep
  <1> SUFFICES ASSUME IInv, TickFails PROVE IInv' /\ OnceStep
    OBVIOUS
  <1>1. \A i \in DOMAIN file.automations : file.automations[i].id \in Tasks
    BY IInvFacts DEF TaskRecords
  <1>2. PICK started \in SUBSET DOMAIN file.automations :
            stuck' = stuck \cup {file.automations[i].id : i \in started}
    BY DEF TickFails
  <1>3. stuck' \subseteq Tasks
    BY <1>1, <1>2 DEF IInv, Rest
  <1> QED
    BY <1>3, FailureKeeps DEF TickFails, IInv, Rest

\* A manual execution whose first write fails.
LEMMA RunNowFailsStep ==
    ASSUME IInv, NEW id \in Tasks, RunNowFails(id)
    PROVE  IInv' /\ OnceStep
  <1>1. stuck' \subseteq Tasks /\ manual' \in 0..MaxManual
    BY LocalAssumption DEF RunNowFails, IInv, Rest
  <1> QED
    BY <1>1, FailureKeeps DEF RunNowFails, IInv, Rest

\* A route whose write fails.
LEMMA EditFailsStep == IInv /\ EditFails => IInv' /\ OnceStep
  <1> SUFFICES ASSUME IInv, EditFails PROVE IInv' /\ OnceStep
    OBVIOUS
  <1>1. stuck' \subseteq Tasks /\ edits' \in 0..MaxEdits
    BY LocalAssumption DEF EditFails, IInv, Rest
  <1> QED
    BY <1>1, FailureKeeps DEF EditFails, IInv, Rest

\* An execution whose end cannot be written: its occurrence is one that may be executed.
LEMMA FinishFailsStep ==
    ASSUME IInv, NEW e \in executions, FinishFails(e)
    PROVE  IInv' /\ OnceStep
  <1>1. /\ executions' = executions \ {e} /\ lost' = lost \cup {e.run}
        /\ fired' = fired \ {<<e.task, e.due>>}
        /\ UNCHANGED <<file, saved>> \/ CutOff
        /\ faults' \in 0..MaxFaults
        /\ now' = now /\ up' = up /\ stuck' = stuck /\ runCount' = runCount
        /\ lastCrash' = lastCrash /\ manual' = manual /\ edits' = edits
    BY LocalAssumption DEF FinishFails, WriteFails, IInv, Rest
  <1>2. e.run \in 1..runCount
    BY DEF IInv, ExecutionsOK, ExecutionRecords
  <1>3. LogOK(file.runs, executions, runCount)'
    <2>1. ASSUME NEW i \in 1..Len(file'.runs), file'.runs[i].status = "running",
                 file'.runs[i].run > lastCrash', file'.runs[i].run \notin lost'
          PROVE  \E x \in executions' : x.run = file'.runs[i].run
      <3>1. i \in 1..Len(file.runs) /\ file'.runs[i] = file.runs[i]
        BY <1>1, CutOffKeeps
      <3>2. PICK x \in executions : x.run = file.runs[i].run
        BY <1>1, <2>1, <3>1 DEF IInv, LogOK
      <3> QED
        BY <1>1, <2>1, <3>1, <3>2
    <2>2. \A i \in 1..Len(file'.runs) : file'.runs[i].run <= runCount'
      BY <1>1, CutOffKeeps DEF IInv, LogOK
    <2> QED
      BY <1>1, <2>1, <2>2, CutOffKeeps DEF LogOK
  <1>4. FiredOK(file.automations, executions, fired)'
    <2>1. ASSUME NEW i \in 1..Len(file'.automations),
                 <<file'.automations[i].id, file'.automations[i].due>> \in fired'
          PROVE  \E x \in executions' : /\ x.task = file'.automations[i].id
                                         /\ x.due = file'.automations[i].due
      <3>1. /\ i \in 1..Len(file.automations)
            /\ file'.automations[i] = file.automations[i]
        BY <1>1, CutOffKeeps
      <3>2. PICK x \in executions : /\ x.task = file.automations[i].id
                                    /\ x.due = file.automations[i].due
        BY <1>1, <2>1, <3>1 DEF IInv, FiredOK
      <3>3. x # e
        BY <1>1, <2>1, <3>1, <3>2
      <3> QED
        BY <1>1, <3>1, <3>2, <3>3
    <2> QED
      BY <1>1, <2>1 DEF IInv, FiredOK
  <1>5. Rest' /\ OnceStep /\ ExecutionsOK(executions', runCount')
    BY <1>1, <1>2, CutOffKeeps DEF IInv, Rest, OnceStep, ExecutionsOK
  <1> QED
    BY <1>1, <1>3, <1>4, <1>5, CutOffKeeps DEF IInv

\* The server starts: tasks without a next time, or with one long past, get another.
LEMMA StartStep == IInv /\ StartScheduler => IInv' /\ OnceStep
  <1> SUFFICES ASSUME IInv, StartScheduler PROVE IInv' /\ OnceStep
    OBVIOUS
  <1> DEFINE tasks == file.automations
             late(i) == tasks[i].enabled /\ (tasks[i].due = Undefined \/ tasks[i].due < now - Grace)
             next(i) == NextRunTime(tasks[i].schedule, now)
             dated(i) == [tasks[i] EXCEPT !.due = next(i)]
             new == [i \in 1..Len(tasks) |-> IF late(i) THEN dated(i) ELSE tasks[i]]
  <1>1. /\ ~up /\ up' = TRUE
        /\ now' = now /\ saved' = saved /\ fired' = fired /\ runCount' = runCount
        /\ executions' = executions
        /\ lastCrash' = lastCrash /\ manual' = manual /\ edits' = edits /\ faults' = faults
        /\ stuck' = stuck /\ lost' = lost
        /\ file' = [automations |-> new, runs |-> file.runs]
    <2> DEFINE full == [i \in DOMAIN tasks |->
                  LET a == tasks[i]
                  IN IF a.enabled /\ (a.due = Undefined \/ a.due < now - Grace)
                     THEN [a EXCEPT !.due = NextRunTime(a.schedule, now)] ELSE a]
    <2>1. file' = [file EXCEPT !.automations = full]
      BY DEF StartScheduler
    <2>2. full = new
      BY IInvFacts
    <2> HIDE DEF full, new
    <2>3. file' = [automations |-> new, runs |-> file.runs]
      BY <2>1, <2>2 DEF IInv, IsFile
    <2> QED
      BY <2>3 DEF StartScheduler, counters
  <1>2. ASSUME NEW i \in 1..Len(tasks)
        PROVE  /\ tasks[i] \in TaskRecords
               /\ next(i) \in Nat \cup {Undefined}
               /\ next(i) \notin Nat \/ next(i) > now
    <2>1. tasks[i] \in TaskRecords /\ now \in Nat
      BY IInvFacts
    <2>2. tasks[i].schedule \in Schedules \cup {PresetSchedule}
      BY <2>1 DEF TaskRecords
    <2>3. next(i) = Undefined \/ (next(i) \in Nat /\ next(i) > now)
      BY <2>1, <2>2, NextTime, LocalAssumption
    <2> QED
      BY <2>1, <2>3 DEF Undefined
  <1> HIDE DEF next
  <1>3. \A i \in 1..Len(tasks) :
            /\ dated(i) \in TaskRecords /\ dated(i).id = tasks[i].id
            /\ dated(i).schedule = tasks[i].schedule /\ dated(i).enabled = tasks[i].enabled
            /\ dated(i).due = next(i)
    BY <1>2 DEF TaskRecords
  <1> HIDE DEF dated, late
  <1>4. new \in [1..Len(tasks) -> TaskRecords] /\ Len(tasks) \in Nat
    BY <1>2, <1>3, IInvFacts
  <1>5. new \in Seq(TaskRecords) /\ Len(new) = Len(tasks)
    <2> HIDE DEF new
    <2> QED
      BY <1>4, FunctionIsSeq
  <1>6. /\ SameTasks(tasks, new)
        /\ \A i \in 1..Len(tasks) : new[i].due = tasks[i].due \/ new[i].due = next(i)
    <2>1. \A i \in 1..Len(tasks) : new[i] = dated(i) \/ new[i] = tasks[i]
      OBVIOUS
    <2> HIDE DEF new
    <2> QED
      BY <1>3, <1>5, <2>1 DEF SameTasks
  <1> HIDE DEF new
  <1>7. file'.automations = new /\ file'.runs = file.runs /\ IsFile(file')
    BY <1>1 DEF IsFile
  <1>8. Kept(file'.automations, saved')
    BY <1>1, <1>6, <1>7, SameIsKept DEF IInv
  <1>9. FiredOK(file.automations, executions, fired)'
    <2>1. \A i \in 1..Len(tasks) : \/ new[i].due = tasks[i].due
                                   \/ new[i].due \notin Nat
                                   \/ new[i].due > now
      BY <1>2, <1>6
    <2>2. FiredOK(tasks, executions, fired) /\ now \in Nat
      BY IInvFacts DEF IInv
    <2> HIDE DEF tasks
    <2>3. FiredOK(new, executions, fired)
      BY <1>6, <2>1, <2>2, FiredDated
    <2> QED
      BY <1>1, <1>7, <2>3 DEF FiredOK
  <1>10. LogOK(file.runs, executions, runCount)'
    BY <1>1, <1>7 DEF IInv, LogOK
  <1>11. Rest' /\ OnceStep /\ ExecutionsOK(executions', runCount')
    BY <1>1 DEF IInv, Rest, OnceStep
  <1> QED
    BY <1>5, <1>7, <1>8, <1>9, <1>10, <1>11 DEF IInv

\* The routes: whatever they make of the tasks, if it is what the user asked for and
\* the next times are old ones or to come.
LEMMA EditKeeps ==
    ASSUME IInv, NEW new \in Seq(TaskRecords), Edit(new),
           saved' \in [Tasks -> Asked], Kept(new, saved'),
           \A i \in 1..Len(new) :
                \/ \E j \in 1..Len(file.automations) : /\ new[i].id = file.automations[j].id
                                                       /\ new[i].due = file.automations[j].due
                \/ new[i].due \notin Nat
                \/ new[i].due > now
    PROVE  IInv' /\ OnceStep
  <1>1. /\ file' = [automations |-> new, runs |-> file.runs]
        /\ now' = now /\ up' = up /\ fired' = fired /\ runCount' = runCount
        /\ executions' = executions /\ lastCrash' = lastCrash /\ manual' = manual
        /\ stuck' = stuck /\ lost' = lost /\ faults' = faults /\ edits' \in 0..MaxEdits
    BY LocalAssumption DEF Edit, IInv, IsFile, Rest
  <1>2. file'.automations = new /\ file'.runs = file.runs /\ IsFile(file')
    BY <1>1 DEF IsFile
  <1>3. FiredOK(file.automations, executions, fired)'
    <2>1. ASSUME NEW i \in 1..Len(new), <<new[i].id, new[i].due>> \in fired
          PROVE  \E x \in executions : x.task = new[i].id /\ x.due = new[i].due
      <3>1. new[i].due \in Nat /\ new[i].due <= now
        BY <2>1 DEF IInv, FiredOK
      <3>2. PICK j \in 1..Len(file.automations) : /\ new[i].id = file.automations[j].id
                                                  /\ new[i].due = file.automations[j].due
        BY <3>1, IInvFacts
      <3> QED
        BY <2>1, <3>2 DEF IInv, FiredOK
    <2> QED
      BY <1>1, <1>2, <2>1 DEF IInv, FiredOK
  <1>4. LogOK(file.runs, executions, runCount)'
    BY <1>1, <1>2 DEF IInv, LogOK
  <1>5. Rest' /\ OnceStep /\ ExecutionsOK(executions', runCount')
    BY <1>1 DEF IInv, Rest, OnceStep
  <1> QED
    BY <1>1, <1>2, <1>3, <1>4, <1>5 DEF IInv

\* The next time a route gives a task is to come, if there is one.
LEMMA DueOfIs ==
    ASSUME IInv, NEW schedule \in Schedules \cup {PresetSchedule}, NEW enabled \in BOOLEAN
    PROVE  /\ DueOf(schedule, enabled) \in Nat \cup {Undefined}
           /\ DueOf(schedule, enabled) \notin Nat \/ DueOf(schedule, enabled) > now
  <1>1. NextRunTime(schedule, now) = Undefined
          \/ (NextRunTime(schedule, now) \in Nat /\ NextRunTime(schedule, now) > now)
    BY IInvFacts, NextTime, LocalAssumption
  <1> QED
    BY <1>1 DEF DueOf, Undefined

\* A change makes of the task with that id what the user asked for.
ChangeOK(change, id, schedule, enabled) ==
    \A a \in ToSet(file.automations) :
        /\ change[a] \in TaskRecords
        /\ change[a].id = a.id
        /\ change[a].due \notin Nat \/ change[a].due > now
        /\ a.id = id => change[a].schedule = schedule /\ change[a].enabled = enabled

\* A task gets another schedule, is switched on or off.
LEMMA ChangeKeeps ==
    ASSUME IInv, NEW id \in Tasks, id \in Ids(file.automations), NEW change,
           NEW schedule \in Schedules \cup {PresetSchedule}, NEW enabled \in BOOLEAN,
           ChangeOK(change, id, schedule, enabled),
           Edit(Updated(file.automations, id, change)),
           saved' = [saved EXCEPT ![id] = [schedule |-> schedule, enabled |-> enabled]]
    PROVE  IInv' /\ OnceStep
  <1> DEFINE tasks == file.automations
             new == Updated(tasks, id, change)
             asked == [schedule |-> schedule, enabled |-> enabled]
  <1>1. /\ Len(tasks) \in Nat
        /\ \A i \in 1..Len(tasks) : /\ tasks[i] \in ToSet(tasks)
                                    /\ tasks[i] \in TaskRecords
                                    /\ tasks[i].id \in Tasks
        /\ \E i \in 1..Len(tasks) : tasks[i].id = id
    BY IInvFacts DEF TaskRecords
  <1>2. /\ new \in Seq(TaskRecords) /\ Len(new) = Len(tasks)
        /\ \A i \in 1..Len(tasks) : new[i] =
              IF tasks[i].id = id THEN change[tasks[i]] ELSE tasks[i]
    BY UpdatedIs DEF IInv, ChangeOK
  <1> HIDE DEF new
  <1>3. \A i \in 1..Len(tasks) : new[i].id = tasks[i].id
    BY <1>1, <1>2 DEF ChangeOK
  <1>4. /\ saved' \in [Tasks -> Asked] /\ saved'[id] = asked
        /\ \A t \in Tasks : t # id => saved'[t] = saved[t]
    <2>1. asked \in Asked /\ saved \in [Tasks -> Asked]
      BY DEF Asked, IInv, Rest
    <2> HIDE DEF asked
    <2>2. saved' = [saved EXCEPT ![id] = asked]
      BY DEF asked
    <2> QED
      BY <2>1, <2>2
  <1>5. Kept(new, saved')
    <2>1. \A i \in 1..Len(new) :
            saved'[new[i].id] = [schedule |-> new[i].schedule, enabled |-> new[i].enabled]
      <3> SUFFICES ASSUME NEW i \in 1..Len(new)
                   PROVE  saved'[new[i].id] = [schedule |-> new[i].schedule,
                                               enabled |-> new[i].enabled]
        OBVIOUS
      <3>1. CASE tasks[i].id = id
        BY <1>1, <1>2, <1>3, <1>4, <3>1 DEF ChangeOK
      <3>2. CASE tasks[i].id # id
        BY <1>1, <1>2, <1>4, <3>2 DEF IInv, Kept
      <3> QED
        BY <3>1, <3>2
    <2>2. \A i, j \in 1..Len(new) : new[i].id = new[j].id => i = j
      BY <1>2, <1>3 DEF IInv, Kept
    <2>3. \A t \in Tasks : saved'[t] # Absent => \E i \in 1..Len(new) : new[i].id = t
      <3> SUFFICES ASSUME NEW t \in Tasks, saved'[t] # Absent
                   PROVE  \E i \in 1..Len(new) : new[i].id = t
        OBVIOUS
      <3>1. \E i \in 1..Len(tasks) : tasks[i].id = t
        <4>1. CASE t = id
          BY <1>1, <4>1
        <4>2. CASE t # id
          BY <1>4, <4>2 DEF IInv, Kept
        <4> QED
          BY <4>1, <4>2
      <3> QED
        BY <1>2, <1>3, <3>1
    <2> QED
      BY <2>1, <2>2, <2>3 DEF Kept
  <1>6. \A i \in 1..Len(new) :
            \/ \E j \in 1..Len(tasks) : new[i].id = tasks[j].id /\ new[i].due = tasks[j].due
            \/ new[i].due \notin Nat
            \/ new[i].due > now
    BY <1>1, <1>2 DEF ChangeOK
  <1>7. Edit(new)
    BY DEF new
  <1> QED
    BY <1>2, <1>4, <1>5, <1>6, <1>7, EditKeeps

\* A task the user adds, before the others.
LEMMA AddKeeps ==
    ASSUME IInv, NEW id \in Tasks, id \notin Ids(file.automations),
           NEW schedule \in Schedules \cup {PresetSchedule}, NEW enabled \in BOOLEAN,
           NEW task \in TaskRecords, task.id = id, task.schedule = schedule,
           task.enabled = enabled, task.due \notin Nat \/ task.due > now,
           Edit(<<task>> \o file.automations),
           saved' = [saved EXCEPT ![id] = [schedule |-> schedule, enabled |-> enabled]]
    PROVE  IInv' /\ OnceStep
  <1> DEFINE tasks == file.automations
             new == <<task>> \o tasks
             asked == [schedule |-> schedule, enabled |-> enabled]
  <1>1. /\ Len(tasks) \in Nat
        /\ \A i \in 1..Len(tasks) : tasks[i] \in TaskRecords /\ tasks[i].id \in Tasks
        /\ \A i \in 1..Len(tasks) : tasks[i].id # id
    BY IInvFacts DEF TaskRecords
  <1>2. /\ new \in Seq(TaskRecords) /\ Len(new) = Len(tasks) + 1 /\ new[1] = task
        /\ \A i \in 2..(Len(tasks) + 1) : new[i] = tasks[i - 1]
    BY PrependIs DEF IInv
  <1> HIDE DEF new
  <1>3. \A i \in 1..Len(new) : \/ i = 1 /\ new[i] = task
                               \/ i - 1 \in 1..Len(tasks) /\ new[i] = tasks[i - 1]
    BY <1>1, <1>2
  <1>4. /\ saved' \in [Tasks -> Asked] /\ saved'[id] = asked
        /\ \A t \in Tasks : t # id => saved'[t] = saved[t]
    <2>1. asked \in Asked /\ saved \in [Tasks -> Asked]
      BY DEF Asked, IInv, Rest
    <2> HIDE DEF asked
    <2>2. saved' = [saved EXCEPT ![id] = asked]
      BY DEF asked
    <2> QED
      BY <2>1, <2>2
  <1>5. Kept(new, saved')
    <2>1. \A i \in 1..Len(new) :
            saved'[new[i].id] = [schedule |-> new[i].schedule, enabled |-> new[i].enabled]
      <3> SUFFICES ASSUME NEW i \in 1..Len(new)
                   PROVE  saved'[new[i].id] = [schedule |-> new[i].schedule,
                                               enabled |-> new[i].enabled]
        OBVIOUS
      <3>1. CASE new[i] = task
        BY <1>4, <3>1
      <3>2. CASE i - 1 \in 1..Len(tasks) /\ new[i] = tasks[i - 1]
        BY <1>1, <1>4, <3>2 DEF IInv, Kept
      <3> QED
        BY <1>3, <3>1, <3>2
    <2>2. ASSUME NEW i \in 1..Len(new), NEW j \in 1..Len(new), new[i].id = new[j].id
          PROVE  i = j
      <3>1. CASE i = 1
        BY <1>1, <1>2, <1>3, <2>2, <3>1
      <3>2. CASE j = 1
        BY <1>1, <1>2, <1>3, <2>2, <3>2
      <3>3. CASE i # 1 /\ j # 1
        <4>1. /\ i - 1 \in 1..Len(tasks) /\ new[i] = tasks[i - 1]
              /\ j - 1 \in 1..Len(tasks) /\ new[j] = tasks[j - 1]
          BY <1>3, <3>3
        <4>2. i - 1 = j - 1
          BY <2>2, <4>1 DEF IInv, Kept
        <4> QED
          BY <4>2
      <3> QED
        BY <3>1, <3>2, <3>3
    <2>3. ASSUME NEW t \in Tasks, saved'[t] # Absent
          PROVE  \E i \in 1..Len(new) : new[i].id = t
      <3>1. CASE t = id
        BY <1>1, <1>2, <3>1
      <3>2. CASE t # id
        <4>1. PICK i \in 1..Len(tasks) : tasks[i].id = t
          BY <1>4, <2>3, <3>2 DEF IInv, Kept
        <4>2. i + 1 \in 2..(Len(tasks) + 1) /\ (i + 1) - 1 = i
          BY <1>1
        <4> QED
          BY <1>2, <4>1, <4>2
      <3> QED
        BY <3>1, <3>2
    <2> QED
      BY <2>1, <2>2, <2>3 DEF Kept
  <1>6. \A i \in 1..Len(new) :
            \/ \E j \in 1..Len(tasks) : new[i].id = tasks[j].id /\ new[i].due = tasks[j].due
            \/ new[i].due \notin Nat
            \/ new[i].due > now
    BY <1>3
  <1>7. Edit(new)
    BY DEF new
  <1> QED
    BY <1>2, <1>4, <1>5, <1>6, <1>7, EditKeeps

\* The save route.
LEMMA SaveStep ==
    ASSUME IInv, NEW id \in Tasks, NEW schedule \in Schedules, NEW enabled \in BOOLEAN,
           Save(id, schedule, enabled)
    PROVE  IInv' /\ OnceStep
  <1> DEFINE tasks == file.automations
             due == DueOf(schedule, enabled)
  <1>1. schedule \in Schedules \cup {PresetSchedule}
    OBVIOUS
  <1>2. due \in Nat \cup {Undefined} /\ (due \notin Nat \/ due > now)
    BY <1>1, DueOfIs
  <1>3. saved' = [saved EXCEPT ![id] = [schedule |-> schedule, enabled |-> enabled]]
    BY DEF Save
  <1>4. CASE id \in Ids(tasks)
    <2> DEFINE change == [a \in ToSet(tasks) |->
                    [a EXCEPT !.schedule = schedule, !.enabled = enabled, !.due = due]]
    <2>1. Edit(Updated(tasks, id, change))
      BY <1>4 DEF Save
    <2> HIDE DEF due
    <2>2. ASSUME NEW a \in ToSet(tasks)
          PROVE  /\ change[a] \in TaskRecords
                 /\ change[a].id = a.id
                 /\ change[a].due \notin Nat \/ change[a].due > now
                 /\ a.id = id => change[a].schedule = schedule /\ change[a].enabled = enabled
      <3> DEFINE b == [a EXCEPT !.schedule = schedule]
                 c == [b EXCEPT !.enabled = enabled]
                 d == [c EXCEPT !.due = due]
      <3>1. a \in TaskRecords
        BY IInvFacts
      <3>2. change[a] = d
        OBVIOUS
      <3>3. b \in TaskRecords /\ b.id = a.id /\ b.schedule = schedule
        BY <1>1, <3>1 DEF TaskRecords
      <3> HIDE DEF b, change
      <3>4. c \in TaskRecords /\ c.id = b.id /\ c.schedule = b.schedule /\ c.enabled = enabled
        BY <3>3 DEF TaskRecords
      <3> HIDE DEF c
      <3>5. /\ d \in TaskRecords /\ d.id = c.id /\ d.schedule = c.schedule
            /\ d.enabled = c.enabled /\ d.due = due
        BY <1>2, <3>4 DEF TaskRecords
      <3> HIDE DEF d
      <3> QED
        BY <1>2, <3>2, <3>3, <3>4, <3>5
    <2> HIDE DEF change
    <2>3. ChangeOK(change, id, schedule, enabled)
      BY <2>2 DEF ChangeOK
    <2> QED
      BY <1>1, <1>3, <1>4, <2>1, <2>3, ChangeKeeps
  <1>5. CASE id \notin Ids(tasks)
    <2> DEFINE task == [id |-> id, schedule |-> schedule, enabled |-> enabled,
                        due |-> due, status |-> "none"]
    <2>1. Edit(<<task>> \o tasks)
      BY <1>5 DEF Save
    <2> HIDE DEF due
    <2>2. /\ task \in TaskRecords /\ task.id = id /\ task.schedule = schedule
          /\ task.enabled = enabled /\ task.due = due
      BY <1>1, <1>2 DEF TaskRecords
    <2> HIDE DEF task
    <2> QED
      BY <1>1, <1>2, <1>3, <1>5, <2>1, <2>2, AddKeeps
  <1> QED
    BY <1>4, <1>5

\* The toggle route: the schedule stays.
LEMMA ToggleStep ==
    ASSUME IInv, NEW id \in Tasks, NEW enabled \in BOOLEAN, Toggle(id, enabled)
    PROVE  IInv' /\ OnceStep
  <1> DEFINE tasks == file.automations
             change == [a \in ToSet(tasks) |->
                    [a EXCEPT !.enabled = enabled, !.due = DueOf(a.schedule, enabled)]]
  <1>1. PICK k \in 1..Len(tasks) : tasks[k].id = id
    BY IInvFacts DEF Toggle
  <1> DEFINE schedule == tasks[k].schedule
  <1>2. /\ tasks[k] \in ToSet(tasks) /\ schedule \in Schedules \cup {PresetSchedule}
        /\ saved[id] = [schedule |-> schedule, enabled |-> tasks[k].enabled]
        /\ \A a \in ToSet(tasks) : a.id = id => a = tasks[k]
    BY <1>1, IInvFacts DEF TaskRecords, IInv, Kept, ToSet
  <1>3. saved' = [saved EXCEPT ![id] = [schedule |-> schedule, enabled |-> enabled]]
    <2> DEFINE old == saved[id]
               new == [old EXCEPT !.enabled = enabled]
    <2>1. saved' = [saved EXCEPT ![id] = new]
      BY DEF Toggle
    <2>2. new = [schedule |-> schedule, enabled |-> enabled]
      <3> HIDE DEF schedule
      <3> QED
        BY <1>2
    <2> HIDE DEF new
    <2> QED
      BY <2>1, <2>2
  <1>4. Edit(Updated(tasks, id, change))
    BY DEF Toggle
  <1>5. ASSUME NEW a \in ToSet(tasks)
        PROVE  /\ change[a] \in TaskRecords
               /\ change[a].id = a.id
               /\ change[a].due \notin Nat \/ change[a].due > now
               /\ a.id = id => change[a].schedule = schedule /\ change[a].enabled = enabled
    <2> DEFINE due == DueOf(a.schedule, enabled)
               b == [a EXCEPT !.enabled = enabled]
               c == [b EXCEPT !.due = due]
    <2>1. a \in TaskRecords
      BY IInvFacts
    <2>2. due \in Nat \cup {Undefined} /\ (due \notin Nat \/ due > now)
      <3>1. a.schedule \in Schedules \cup {PresetSchedule}
        BY <2>1 DEF TaskRecords
      <3> QED
        BY <3>1, DueOfIs
    <2> HIDE DEF due
    <2>3. change[a] = c
      BY DEF due
    <2>4. b \in TaskRecords /\ b.id = a.id /\ b.schedule = a.schedule /\ b.enabled = enabled
      BY <2>1 DEF TaskRecords
    <2> HIDE DEF b, change
    <2>5. /\ c \in TaskRecords /\ c.id = b.id /\ c.schedule = b.schedule
          /\ c.enabled = b.enabled /\ c.due = due
      BY <2>2, <2>4 DEF TaskRecords
    <2> HIDE DEF c
    <2> QED
      BY <1>2, <2>2, <2>3, <2>4, <2>5
  <1>6. id \in Ids(tasks)
    BY DEF Toggle
  <1> HIDE DEF change, schedule
  <1>7. ChangeOK(change, id, schedule, enabled)
    BY <1>5 DEF ChangeOK
  <1> QED
    BY <1>2, <1>3, <1>4, <1>6, <1>7, ChangeKeeps

\* The delete route.
LEMMA DeleteStep ==
    ASSUME IInv, NEW id \in Tasks, Delete(id)
    PROVE  IInv' /\ OnceStep
  <1> DEFINE tasks == file.automations
  <1>1. PICK k \in 1..Len(tasks) : tasks[k].id = id /\ Edit(RemoveAt(tasks, k))
    BY IInvFacts DEF Delete
  <1> DEFINE before == SubSeq(tasks, 1, k - 1)
             after == SubSeq(tasks, k + 1, Len(tasks))
             new == RemoveAt(tasks, k)
             old(i) == IF i < k THEN i ELSE i + 1
  <1>2. /\ Len(tasks) \in Nat
        /\ \A i \in 1..Len(tasks) : tasks[i] \in TaskRecords /\ tasks[i].id \in Tasks
    BY IInvFacts DEF TaskRecords
  <1>3. /\ before \in Seq(TaskRecords) /\ Len(before) = k - 1
        /\ \A i \in 1..(k - 1) : before[i] = tasks[i]
    <2>1. \A i \in 1..(k - 1) : tasks[i] \in TaskRecords
      BY <1>2
    <2>2. /\ before \in Seq(TaskRecords)
          /\ Len(before) = IF 1 <= k - 1 THEN k - 1 - 1 + 1 ELSE 0
          /\ \A i \in 1..(k - 1 - 1 + 1) : before[i] = tasks[1 + i - 1]
      BY <2>1, SubSeqProperties
    <2> HIDE DEF before
    <2> QED
      BY <2>2
  <1>4. /\ after \in Seq(TaskRecords) /\ Len(after) = Len(tasks) - k
        /\ \A i \in 1..(Len(tasks) - k) : after[i] = tasks[k + i]
    <2>1. \A i \in (k + 1)..Len(tasks) : tasks[i] \in TaskRecords
      BY <1>2
    <2>2. /\ after \in Seq(TaskRecords)
          /\ Len(after) = IF k + 1 <= Len(tasks) THEN Len(tasks) - (k + 1) + 1 ELSE 0
          /\ \A i \in 1..(Len(tasks) - (k + 1) + 1) : after[i] = tasks[(k + 1) + i - 1]
      BY <1>2, <2>1, SubSeqProperties
    <2> HIDE DEF after
    <2> QED
      BY <1>2, <2>2
  <1>5. /\ new \in Seq(TaskRecords) /\ Len(new) = Len(tasks) - 1
        /\ \A i \in 1..(Len(tasks) - 1) : new[i] = tasks[old(i)] /\ old(i) \in 1..Len(tasks)
    <2> HIDE DEF before, after
    <2>1. new = before \o after
      BY DEF RemoveAt, before, after
    <2> HIDE DEF new
    <2>2. /\ new \in Seq(TaskRecords) /\ Len(new) = Len(before) + Len(after)
          /\ \A i \in 1..(Len(before) + Len(after)) :
                new[i] = IF i <= Len(before) THEN before[i] ELSE after[i - Len(before)]
      BY <1>3, <1>4, <2>1, ConcatProperties
    <2>3. Len(before) + Len(after) = Len(tasks) - 1 /\ Len(new) = Len(tasks) - 1
      BY <1>2, <1>3, <1>4, <2>2
    <2>4. ASSUME NEW i \in 1..(Len(tasks) - 1)
          PROVE  new[i] = tasks[old(i)] /\ old(i) \in 1..Len(tasks)
      <3>1. CASE i < k
        <4>1. i \in 1..(k - 1) /\ i <= Len(before) /\ i \in 1..(Len(before) + Len(after))
          BY <1>2, <1>3, <2>3, <3>1
        <4>2. new[i] = before[i] /\ before[i] = tasks[i]
          BY <1>3, <2>2, <4>1
        <4>3. old(i) = i /\ i \in 1..Len(tasks)
          BY <1>2, <3>1
        <4> QED
          BY <4>2, <4>3
      <3>2. CASE ~(i < k)
        <4>1. i - (k - 1) \in 1..(Len(tasks) - k) /\ k + (i - (k - 1)) = i + 1
          BY <1>2, <3>2
        <4>2. ~(i <= Len(before)) /\ i \in 1..(Len(before) + Len(after))
                /\ Len(before) = k - 1
          BY <1>2, <1>3, <2>3, <3>2
        <4>3. new[i] = after[i - (k - 1)] /\ after[i - (k - 1)] = tasks[i + 1]
          BY <1>4, <2>2, <4>1, <4>2
        <4>4. old(i) = i + 1 /\ i + 1 \in 1..Len(tasks)
          BY <1>2, <3>2
        <4> QED
          BY <4>3, <4>4
      <3> QED
        BY <3>1, <3>2
    <2> HIDE DEF old
    <2> QED
      BY <2>2, <2>3, <2>4
  <1> HIDE DEF new
  <1>6. \A i, j \in 1..(Len(tasks) - 1) : old(i) = old(j) => i = j
    BY <1>2
  <1>7. \A i \in 1..(Len(tasks) - 1) : old(i) # k
    BY <1>2
  <1>8. \A j \in 1..Len(tasks) : j # k => \E i \in 1..(Len(tasks) - 1) : old(i) = j
    <2> SUFFICES ASSUME NEW j \in 1..Len(tasks), j # k
                 PROVE  \E i \in 1..(Len(tasks) - 1) : old(i) = j
      OBVIOUS
    <2>1. CASE j < k
      BY <1>2, <2>1
    <2>2. CASE j > k
      <3>1. j - 1 \in 1..(Len(tasks) - 1) /\ old(j - 1) = j
        BY <1>2, <2>2
      <3> QED
        BY <3>1
    <2> QED
      BY <2>1, <2>2
  <1> HIDE DEF old
  <1>9. /\ saved' \in [Tasks -> Asked] /\ saved'[id] = Absent
        /\ \A t \in Tasks : t # id => saved'[t] = saved[t]
    <2>1. saved' = [saved EXCEPT ![id] = Absent]
      BY DEF Delete
    <2>2. Absent \in Asked /\ saved \in [Tasks -> Asked]
      BY DEF Asked, IInv, Rest
    <2> QED
      BY <2>1, <2>2
  <1>10. \A i \in 1..Len(new) : new[i].id # id
    BY <1>1, <1>2, <1>5, <1>7 DEF IInv, Kept
  <1>11. Kept(new, saved')
    <2>1. \A i \in 1..Len(new) :
            saved'[new[i].id] = [schedule |-> new[i].schedule, enabled |-> new[i].enabled]
      <3> SUFFICES ASSUME NEW i \in 1..Len(new)
                   PROVE  saved'[new[i].id] = [schedule |-> new[i].schedule,
                                               enabled |-> new[i].enabled]
        OBVIOUS
      <3>1. new[i] = tasks[old(i)] /\ old(i) \in 1..Len(tasks)
        BY <1>5
      <3>2. saved'[new[i].id] = saved[new[i].id]
        BY <1>2, <1>9, <1>10, <3>1
      <3> QED
        BY <3>1, <3>2 DEF IInv, Kept
    <2>2. \A i, j \in 1..Len(new) : new[i].id = new[j].id => i = j
      BY <1>5, <1>6 DEF IInv, Kept
    <2>3. ASSUME NEW t \in Tasks, saved'[t] # Absent
          PROVE  \E i \in 1..Len(new) : new[i].id = t
      <3>1. PICK j \in 1..Len(tasks) : tasks[j].id = t
        BY <1>9, <2>3 DEF IInv, Kept
      <3>2. j # k
        BY <1>1, <1>9, <2>3, <3>1
      <3>3. PICK i \in 1..(Len(tasks) - 1) : old(i) = j
        BY <1>8, <3>2
      <3> QED
        BY <1>5, <3>1, <3>3
    <2> QED
      BY <2>1, <2>2, <2>3 DEF Kept
  <1>12. \A i \in 1..Len(new) :
            \/ \E j \in 1..Len(tasks) : new[i].id = tasks[j].id /\ new[i].due = tasks[j].due
            \/ new[i].due \notin Nat
            \/ new[i].due > now
    BY <1>5
  <1>13. Edit(new)
    BY <1>1 DEF new
  <1> QED
    BY <1>5, <1>9, <1>11, <1>12, <1>13, EditKeeps

\* The preset route: what is missing is appended.
LEMMA ImportStep == IInv /\ ImportPresets => IInv' /\ OnceStep
  <1> SUFFICES ASSUME IInv, ImportPresets PROVE IInv' /\ OnceStep
    OBVIOUS
  <1> DEFINE tasks == file.automations
             missing == Presets \ Ids(tasks)
             next == NextRunTime(PresetSchedule, now)
             entry(id) == [id |-> id, schedule |-> PresetSchedule, enabled |-> TRUE,
                           due |-> next, status |-> "none"]
             n == Cardinality(missing)
             asked == [schedule |-> PresetSchedule, enabled |-> TRUE]
  <1>1. PICK order \in SetToSeqs(missing) :
            Edit(tasks \o [i \in DOMAIN order |-> entry(order[i])])
    BY DEF ImportPresets
  <1> DEFINE added == [i \in DOMAIN order |-> entry(order[i])]
             new == tasks \o added
  <1>2. /\ Len(tasks) \in Nat
        /\ \A i \in 1..Len(tasks) : tasks[i] \in TaskRecords /\ tasks[i].id \in Tasks
        /\ \A i \in 1..Len(tasks) : tasks[i].id \notin missing
        /\ missing \subseteq Tasks
    BY IInvFacts, LocalAssumption DEF TaskRecords
  <1>3. IsFiniteSet(missing) /\ n \in Nat
    BY LocalAssumption, FS_Subset, FS_CardinalityType
  <1>4. /\ order \in [1..n -> missing] /\ DOMAIN order = 1..n
        /\ \A i, j \in 1..n : order[i] = order[j] => i = j
        /\ \A id \in missing : \E i \in 1..n : order[i] = id
    <2> HIDE DEF missing
    <2>1. /\ order \in [1..n -> missing] /\ DOMAIN order = 1..n
          /\ \A i, j \in 1..n : order[i] = order[j] => i = j
      BY DEF SetToSeqs
    <2>2. order \in Injection(1..n, missing)
      BY <2>1 DEF Injection, IsInjective
    <2>3. Cardinality(1..n) = n
      BY <1>3, FS_Interval
    <2>4. order \in Surjection(1..n, missing)
      BY <1>3, <2>2, <2>3, FS_Injection
    <2> QED
      BY <2>1, <2>4 DEF Surjection
  <1>5. next \in Nat \cup {Undefined} /\ (next \notin Nat \/ next > now)
    <2>1. PresetSchedule \in Schedules \cup {PresetSchedule}
      OBVIOUS
    <2>2. IsSchedule(PresetSchedule) /\ now \in Nat
      BY <2>1, IInvFacts, LocalAssumption
    <2> QED
      BY <2>2, NextTime DEF Undefined
  <1> HIDE DEF next
  <1>6. \A id \in missing : /\ entry(id) \in TaskRecords /\ entry(id).id = id
                            /\ entry(id).schedule = PresetSchedule /\ entry(id).enabled = TRUE
                            /\ entry(id).due = next
    BY <1>2, <1>5 DEF TaskRecords
  <1> HIDE DEF entry, missing, n
  <1>7. /\ added \in Seq(TaskRecords) /\ Len(added) = n
        /\ \A i \in 1..n : added[i] = entry(order[i])
    <2>1. added \in [1..n -> TaskRecords] /\ \A i \in 1..n : added[i] = entry(order[i])
      BY <1>4, <1>6
    <2> HIDE DEF added
    <2> QED
      BY <1>3, <2>1, FunctionIsSeq
  <1>8. /\ new \in Seq(TaskRecords) /\ Len(new) = Len(tasks) + n
        /\ \A i \in 1..(Len(tasks) + n) :
              new[i] = IF i <= Len(tasks) THEN tasks[i] ELSE added[i - Len(tasks)]
    <2> HIDE DEF added
    <2> QED
      BY <1>7, ConcatProperties DEF IInv
  <1>9. Edit(new)
    BY <1>1
  <1> HIDE DEF new, added
  <1>10. \A i \in 1..Len(new) :
            \/ i \in 1..Len(tasks) /\ new[i] = tasks[i]
            \/ i - Len(tasks) \in 1..n /\ new[i] = entry(order[i - Len(tasks)])
    <2> SUFFICES ASSUME NEW i \in 1..Len(new)
                 PROVE  \/ i \in 1..Len(tasks) /\ new[i] = tasks[i]
                        \/ i - Len(tasks) \in 1..n /\ new[i] = entry(order[i - Len(tasks)])
      OBVIOUS
    <2>1. CASE i <= Len(tasks)
      BY <1>2, <1>3, <1>8, <2>1
    <2>2. CASE ~(i <= Len(tasks))
      <3>1. i - Len(tasks) \in 1..n
        BY <1>2, <1>3, <1>8, <2>2
      <3> QED
        BY <1>7, <1>8, <2>2, <3>1
    <2> QED
      BY <2>1, <2>2
  <1>11. /\ saved' \in [Tasks -> Asked]
         /\ \A t \in missing : saved'[t] = asked
         /\ \A t \in Tasks \ missing : saved'[t] = saved[t]
    <2>1. saved' = [t \in Tasks |-> IF t \in missing THEN asked ELSE saved[t]]
      BY DEF ImportPresets, missing
    <2>2. asked \in Asked /\ saved \in [Tasks -> Asked]
      BY DEF Asked, IInv, Rest
    <2> HIDE DEF asked
    <2> QED
      BY <1>2, <2>1, <2>2
  <1>12. Kept(new, saved')
    <2>1. ASSUME NEW i \in 1..Len(new)
          PROVE  saved'[new[i].id] = [schedule |-> new[i].schedule, enabled |-> new[i].enabled]
      <3>1. CASE i \in 1..Len(tasks) /\ new[i] = tasks[i]
        BY <1>2, <1>11, <3>1 DEF IInv, Kept
      <3>2. CASE i - Len(tasks) \in 1..n /\ new[i] = entry(order[i - Len(tasks)])
        <4>1. order[i - Len(tasks)] \in missing
          BY <1>4, <3>2
        <4>2. /\ new[i].id \in missing
              /\ new[i].schedule = PresetSchedule /\ new[i].enabled = TRUE
          BY <1>6, <3>2, <4>1
        <4>3. saved'[new[i].id] = asked
          BY <1>11, <4>2
        <4> QED
          BY <4>2, <4>3, Zenon
      <3> QED
        BY <1>10, <3>1, <3>2
    <2>2. ASSUME NEW i \in 1..Len(new), NEW j \in 1..Len(new), new[i].id = new[j].id
          PROVE  i = j
      <3> DEFINE a == i - Len(tasks)
                 b == j - Len(tasks)
      <3>1. CASE i \in 1..Len(tasks) /\ j \in 1..Len(tasks) /\ new[i] = tasks[i] /\ new[j] = tasks[j]
        BY <2>2, <3>1 DEF IInv, Kept
      <3>2. ASSUME a \in 1..n, new[i] = entry(order[a]) PROVE new[i].id \in missing
        BY <1>4, <1>6, <3>2
      <3>3. ASSUME b \in 1..n, new[j] = entry(order[b]) PROVE new[j].id \in missing
        BY <1>4, <1>6, <3>3
      <3>4. CASE a \in 1..n /\ b \in 1..n /\ new[i] = entry(order[a]) /\ new[j] = entry(order[b])
        <4>1. order[a] = order[b]
          BY <1>4, <1>6, <2>2, <3>4
        <4>2. a = b
          <5> HIDE DEF a, b
          <5> QED
            BY <1>4, <3>4, <4>1
        <4> QED
          BY <1>2, <4>2
      <3> HIDE DEF a, b
      <3> QED
        BY <1>2, <1>10, <2>2, <3>1, <3>2, <3>3, <3>4 DEF a, b
    <2>3. ASSUME NEW t \in Tasks, saved'[t] # Absent
          PROVE  \E i \in 1..Len(new) : new[i].id = t
      <3>1. CASE t \in missing
        <4>1. PICK i \in 1..n : order[i] = t
          BY <1>4, <3>1
        <4>2. /\ Len(tasks) + i \in 1..Len(new) /\ ~(Len(tasks) + i <= Len(tasks))
              /\ (Len(tasks) + i) - Len(tasks) = i
          BY <1>2, <1>3, <1>8
        <4>3. new[Len(tasks) + i] = entry(order[i])
          BY <1>7, <1>8, <4>2
        <4> QED
          BY <1>6, <3>1, <4>1, <4>2, <4>3
      <3>2. CASE t \notin missing
        <4>1. PICK i \in 1..Len(tasks) : tasks[i].id = t
          BY <1>11, <2>3, <3>2 DEF IInv, Kept
        <4>2. i \in 1..Len(new) /\ i <= Len(tasks)
          BY <1>2, <1>3, <1>8
        <4> QED
          BY <1>8, <4>1, <4>2
      <3> QED
        BY <3>1, <3>2
    <2> QED
      BY <2>1, <2>2, <2>3 DEF Kept
  <1>13. \A i \in 1..Len(new) :
            \/ \E j \in 1..Len(tasks) : new[i].id = tasks[j].id /\ new[i].due = tasks[j].due
            \/ new[i].due \notin Nat
            \/ new[i].due > now
    <2> SUFFICES ASSUME NEW i \in 1..Len(new)
                 PROVE  \/ \E j \in 1..Len(tasks) : /\ new[i].id = tasks[j].id
                                                    /\ new[i].due = tasks[j].due
                        \/ new[i].due \notin Nat
                        \/ new[i].due > now
      OBVIOUS
    <2>1. CASE i \in 1..Len(tasks) /\ new[i] = tasks[i]
      BY <2>1
    <2>2. CASE i - Len(tasks) \in 1..n /\ new[i] = entry(order[i - Len(tasks)])
      <3>1. order[i - Len(tasks)] \in missing
        BY <1>4, <2>2
      <3>2. new[i].due = next
        BY <1>6, <2>2, <3>1
      <3> QED
        BY <1>5, <3>2
    <2> QED
      BY <1>10, <2>1, <2>2
  <1> QED
    BY <1>8, <1>9, <1>11, <1>12, <1>13, EditKeeps

\* Every step.
LEMMA NextIInv == IInv /\ [Next]_localVars => IInv' /\ OnceStep
  <1> SUFFICES ASSUME IInv, [Next]_localVars PROVE IInv' /\ OnceStep
    OBVIOUS
  <1>1. CASE SchedulerTick
    BY <1>1, TickStep
  <1>2. CASE \E e \in executions, outcome \in {"succeeded", "failed"} : Finish(e, outcome)
    BY <1>2, FinishStep
  <1>3. ASSUME NEW id \in Tasks, RunNow(id) PROVE IInv' /\ OnceStep
    BY <1>3, RunNowStep
  <1>4. ASSUME NEW id \in Tasks, Delete(id) PROVE IInv' /\ OnceStep
    BY <1>4, DeleteStep
  <1>5. ASSUME NEW id \in Tasks, NEW enabled \in BOOLEAN, Toggle(id, enabled)
        PROVE  IInv' /\ OnceStep
    BY <1>5, ToggleStep
  <1>6. ASSUME NEW id \in Tasks, NEW enabled \in BOOLEAN, NEW schedule \in Schedules,
               Save(id, schedule, enabled)
        PROVE  IInv' /\ OnceStep
    BY <1>6, SaveStep
  <1>7. CASE ImportPresets
    BY <1>7, ImportStep
  <1>8. CASE Clock
    BY <1>8, ClockStep
  <1>9. CASE Crash
    BY <1>9, CrashStep
  <1>10. CASE StartScheduler
    BY <1>10, StartStep
  <1>11. CASE UNCHANGED localVars
    <2>1. /\ now' = now /\ up' = up /\ file' = file /\ executions' = executions
          /\ saved' = saved /\ fired' = fired /\ runCount' = runCount /\ lastCrash' = lastCrash
          /\ manual' = manual /\ edits' = edits /\ faults' = faults
          /\ stuck' = stuck /\ lost' = lost
      BY <1>11 DEF localVars, counters
    <2>2. LogOK(file.runs, executions, runCount)'
      BY <2>1 DEF IInv, LogOK
    <2>3. FiredOK(file.automations, executions, fired)'
      BY <2>1 DEF IInv, FiredOK
    <2> QED
      BY <2>1, <2>2, <2>3 DEF IInv, Rest, OnceStep
  <1>12. CASE TickFails
    BY <1>12, TickFailsStep
  <1>13. CASE \E e \in executions : FinishFails(e)
    BY <1>13, FinishFailsStep
  <1>14. ASSUME NEW id \in Tasks, RunNowFails(id) PROVE IInv' /\ OnceStep
    BY <1>14, RunNowFailsStep
  <1>15. CASE EditFails
    BY <1>15, EditFailsStep
  <1> QED
    BY <1>1, <1>2, <1>3, <1>4, <1>5, <1>6, <1>7, <1>8, <1>9, <1>10, <1>11, <1>12, <1>13,
       <1>14, <1>15 DEF Next

\* What the scheduler of the OpenWork server keeps in every state it reaches.
THEOREM LocalInvariant == Spec => []IInv
  <1>1. IInv /\ [Next]_localVars => IInv'
    BY NextIInv
  <1> QED
    BY InitIInv, <1>1, PTL DEF Spec

\* Types, and that nothing is executed while the server is down.
THEOREM LocalTypes == Spec => []TypeOK
  BY LocalInvariant, IInvImplies, PTL

\* However ticks, manual runs, edits, ends and stops interleave, a task is never
\* executed twice at a time (executeTask, local-automations-scheduler.ts).
THEOREM NoTwoExecutions == Spec => []OneExecution
  BY LocalInvariant, IInvImplies, PTL

\* No tick and no end of an execution undoes an edit: the file has each task once, as
\* the user last asked it to be.
THEOREM EditsAreKept == Spec => []EditsKept
  BY LocalInvariant, IInvImplies, PTL

\* What the history calls running is running, or was when the server stopped, or its end
\* could not be written.
THEOREM HistoryIsTrue == Spec => []RunningIsRunning
  BY LocalInvariant, IInvImplies, PTL

\* The next time computeNextRunTime gives a daily or weekly schedule is the earliest of
\* its calendar that is to come, whatever the time of day, the days and the moment.
THEOREM EarliestTime == Spec => []NextIsEarliest
  BY LocalInvariant, IInvImplies, PTL

\* An occurrence is executed once while the server is up, unless the end of its execution
\* cannot be written, although the next time of a task changes only when its execution
\* ends and ticks and edits come in between.
THEOREM OccurrencesOnce == Spec => OccurrenceOnce
  <1>1. IInv /\ [Next]_localVars => IInv' /\ [OnceStep]_localVars
    BY NextIInv
  <1> QED
    BY InitIInv, <1>1, PTL DEF Spec, OccurrenceOnce, OnceStep
=============================================================================
