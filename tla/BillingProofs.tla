---------------------------- MODULE BillingProofs ----------------------------
(***************************************************************************)
(* Theorems about Billing, for every calendar and any set of               *)
(* subscriptions.                                                          *)
(***************************************************************************)
EXTENDS Billing, FiniteSetTheorems, WellFoundedInduction, TLAPS

LEMMA TypeInit == Init => TypeOK
BY CalendarAssumption, BoundsAssumption DEF Init, TypeOK, Days

LEMMA TypeStep == TypeOK /\ [Next]_vars => TypeOK'
<1> SUFFICES ASSUME TypeOK, [Next]_vars PROVE TypeOK'
  OBVIOUS
<1> USE CalendarAssumption, BoundsAssumption DEF TypeOK, Days
<1>1. CASE ReadClock
  BY <1>1, NoDayAssumption DEF ReadClock, clock, history
<1>2. CASE ListSubs
  BY <1>2 DEF ListSubs, clock, history, Live
<1>3. ASSUME NEW row \in todo, CheckRow(row) PROVE TypeOK'
  BY <1>3 DEF CheckRow, clock
<1>4. CASE Sleep
  BY <1>4 DEF Sleep, clock, history
<1>5. CASE Wake
  BY <1>5 DEF Wake, Due, clock, history
<1>6. CASE FiveMinutes
  BY <1>6 DEF FiveMinutes, checker, history
<1>7. CASE Midnight
  <2>1. day' \in 0 .. LastDay
    BY <1>7 DEF Midnight
  <2>4. past5' \in BOOLEAN
    BY <1>7 DEF Midnight
  <2>2. calm' \in 0 .. CalmCap
    BY <1>7 DEF Midnight
  <2>3. UNCHANGED <<subs, pc, read, todo, wake, crashes, reset, reminded>>
    BY <1>7 DEF Midnight, checker, history
  <2> QED
    BY <2>1, <2>4, <2>2, <2>3
<1>8. ASSUME NEW s \in Ids, NEW d \in BillingDays \cup {NoBilling}, SetBilling(s, d)
      PROVE  TypeOK'
  BY <1>8 DEF SetBilling, clock, checker
<1>9. CASE Crash
  BY <1>9 DEF Crash, clock, history
<1>10. CASE Start
  BY <1>10 DEF Start, clock, history
<1>11. CASE UNCHANGED vars
  BY <1>11 DEF vars, clock, checker, history
<1> QED
  BY <1>1, <1>2, <1>3, <1>4, <1>5, <1>6, <1>7, <1>8, <1>9, <1>10, <1>11 DEF Next, Checker

(***************************************************************************)
(* The types of Billing, over any calendar.                                *)
(***************************************************************************)
THEOREM TypeCorrect == Spec => []TypeOK
BY TypeInit, TypeStep, PTL DEF Spec

-----------------------------------------------------------------------------
(***************************************************************************)
(* The invariant about the timer.  A sleeping goroutine's timer is set to  *)
(* today or tomorrow and later than its last check; while nothing disturbs *)
(* it, a check in progress is about today, and so is the last one of a     *)
(* goroutine that sleeps until tomorrow.                                   *)
(***************************************************************************)
TimerInv ==
    /\ pc = "down" => calm = 0
    /\ pc = "clock" => read = NoDay \/ read < day
    /\ pc \in {"list", "send", "sleep"} => read <= day
    /\ pc \in {"list", "send"} /\ calm >= 1 => read = day
    /\ pc = "sleep" => /\ wake \in {day, day + 1} /\ read < wake
                       /\ wake = day + 1 /\ calm >= 1 => read = day

LEMMA TimerStep == TypeOK /\ TimerInv /\ [Next]_vars => TimerInv'
<1> SUFFICES ASSUME TypeOK, TimerInv, [Next]_vars PROVE TimerInv'
  OBVIOUS
<1> USE NoDayAssumption, CalendarAssumption, BoundsAssumption DEF TypeOK, TimerInv, Days
<1>1. CASE Checker
  BY <1>1 DEF Checker, ReadClock, ListSubs, CheckRow, Sleep, Wake, Due, clock, history
<1>2. CASE FiveMinutes
  BY <1>2 DEF FiveMinutes, checker, history
<1>3. CASE Midnight
  BY <1>3 DEF Midnight, Due, checker, history
<1>4. ASSUME NEW s \in Ids, NEW d \in BillingDays \cup {NoBilling}, SetBilling(s, d)
      PROVE  TimerInv'
  BY <1>4 DEF SetBilling, clock, checker
<1>5. CASE Crash \/ Start
  BY <1>5 DEF Crash, Start, clock, history
<1>6. CASE UNCHANGED vars
  BY <1>6 DEF vars, clock, checker, history
<1> QED
  BY <1>1, <1>2, <1>3, <1>4, <1>5, <1>6 DEF Next

LEMMA TimerAlways == Spec => [](TypeOK /\ TimerInv)
<1>1. Init => TimerInv
  BY DEF Init, TimerInv
<1> QED
  BY <1>1, TypeInit, TypeStep, TimerStep, PTL DEF Spec

(***************************************************************************)
(* No day is checked twice by one run of the process.                      *)
(***************************************************************************)
THEOREM CheckedOncePerRun == Spec => []OncePerRun
<1>1. TypeOK /\ TimerInv => OncePerRun
  BY NoDayAssumption DEF TypeOK, TimerInv, OncePerRun, Days
<1> QED
  BY <1>1, TimerAlways, PTL

(***************************************************************************)
(* No undisturbed day ends unchecked.                                      *)
(***************************************************************************)
THEOREM CalmDaysAreChecked == Spec => CalmDaysChecked
<1>1. TypeOK /\ TimerInv /\ [Next]_vars => [CalmDayIsRead]_vars
  <2> SUFFICES ASSUME TypeOK, TimerInv, Next, day' # day, calm >= 1 PROVE read = day
    BY DEF CalmDayIsRead, vars, clock
  <2>1. Midnight
    BY DEF Next, Checker, ReadClock, ListSubs, CheckRow, Sleep, Wake, FiveMinutes,
           SetBilling, Crash, Start, clock
  <2> QED
    BY <2>1 DEF Midnight, Due, TypeOK, TimerInv, Days
<1> QED
  BY <1>1, TimerAlways, PTL DEF Spec, CalmDaysChecked

-----------------------------------------------------------------------------
RowOf(s) == [id |-> s, day |-> subs[s]]

(***************************************************************************)
(* The invariant about reminders, for an undisturbed process.  A check in  *)
(* progress works from the rows as they stand and has reminded those it is *)
(* done with; a finished one has reminded all that reset tomorrow; before  *)
(* and during the next day's check those are the ones that reset today.    *)
(***************************************************************************)
CheckInProgress ==
    pc = "send" /\ calm >= 1 =>
        /\ \A row \in todo : row.id \in Live /\ row.day = subs[row.id]
        /\ \A s \in Live :
              RowOf(s) \notin todo /\ subs[s] = DayOfMonth[day + 1] => reminded[s] = day

CheckDone ==
    pc = "sleep" /\ calm >= 1 /\ wake = day + 1 =>
        \A s \in Live : subs[s] = DayOfMonth[day + 1] => reminded[s] = day

RemindedYesterday ==
    calm >= 2 /\ (pc = "sleep" => wake = day) =>
        \A s \in Live : subs[s] = DayOfMonth[day] => reminded[s] = day - 1

RemindInv == CheckInProgress /\ CheckDone /\ RemindedYesterday

LEMMA TomorrowDiffers ==
    ASSUME TypeOK PROVE DayOfMonth[day + 1] # DayOfMonth[day]
<1>1. day \in 0 .. LastDay /\ day \in Days
  BY DEF TypeOK, Days
<1>2. DayOfMonth[day] \in 1 .. 31
  BY <1>1, CalendarAssumption
<1>3. \/ DayOfMonth[day + 1] = DayOfMonth[day] + 1
      \/ DayOfMonth[day + 1] = 1 /\ DayOfMonth[day] > 1
  BY <1>1, CalendarAssumption
<1> QED
  BY <1>2, <1>3

LEMMA RemindStep == TypeOK /\ TimerInv /\ RemindInv /\ [Next]_vars => RemindInv'
<1> SUFFICES ASSUME TypeOK, TimerInv, RemindInv, [Next]_vars PROVE RemindInv'
  OBVIOUS
<1> USE DEF RemindInv, CheckInProgress, CheckDone, RemindedYesterday
<1>0. calm \in Nat /\ day \in Nat /\ wake \in Nat
  BY BoundsAssumption, CalendarAssumption DEF TypeOK, Days
<1>1. CASE ReadClock
  BY <1>1 DEF ReadClock, clock, history, Live
<1>2. CASE ListSubs
  <2>1. calm' >= 1 => calm' = calm /\ todo' = {RowOf(s) : s \in Live}
    BY <1>2 DEF ListSubs, RowOf
  <2>2. UNCHANGED <<subs, day, reminded, Live>> /\ pc = "list" /\ pc' = "send"
    BY <1>2 DEF ListSubs, clock, history, Live
  <2>3. \A s \in Live : RowOf(s)' = RowOf(s)
    BY <2>2 DEF RowOf
  <2>4. CheckInProgress'
    <3> SUFFICES ASSUME calm' >= 1 PROVE CheckInProgress'
      OBVIOUS
    <3>1. \A row \in todo' : row.id \in Live /\ row.day = subs[row.id]
      BY <2>1 DEF RowOf
    <3>2. \A s \in Live : RowOf(s) \in todo'
      BY <2>1
    <3> QED
      BY <2>2, <2>3, <3>1, <3>2
  <2>5. RemindedYesterday'
    <3>1. calm' >= 2 => calm' = calm
      BY <1>0, <1>2 DEF ListSubs
    <3> QED
      BY <2>2, <3>1
  <2> QED
    BY <2>2, <2>4, <2>5
<1>3. ASSUME NEW row \in todo, CheckRow(row) PROVE RemindInv'
  <2>1. /\ UNCHANGED <<subs, day, pc, calm, Live>> /\ pc = "send"
        /\ todo' = todo \ {row}
        /\ reminded' = IF ~ ResetsToday(row) /\ ResetsTomorrow(row)
                       THEN [reminded EXCEPT ![row.id] = read] ELSE reminded
    BY <1>3 DEF CheckRow, clock, Live
  <2> SUFFICES ASSUME calm >= 1 PROVE RemindInv'
    BY <1>0, <2>1
  <2>2. read = day /\ row.id \in Live /\ row.id \in Ids /\ row.day = subs[row.id]
    BY <2>1 DEF TimerInv, Live
  <2>3. row = RowOf(row.id)
    BY <2>2 DEF RowOf, TypeOK
  <2>4. \A s \in Live : reminded'[s] # reminded[s] => s = row.id /\ row.day # DayOfMonth[day]
    BY <2>1, <2>2 DEF ResetsToday, TypeOK, Live
  <2>5. subs[row.id] = DayOfMonth[day + 1] => reminded'[row.id] = day
    BY <2>1, <2>2, TomorrowDiffers DEF ResetsToday, ResetsTomorrow, TypeOK
  <2>6. \A s \in Live : RowOf(s)' = RowOf(s)
    BY <2>1 DEF RowOf
  <2>7. \A s \in Live : RowOf(s) = row => s = row.id
    BY DEF RowOf
  <2>8. CheckInProgress'
    <3>1. \A r \in todo' : r.id \in Live' /\ r.day = subs'[r.id]
      BY <2>1
    <3>2. ASSUME NEW s \in Live', RowOf(s)' \notin todo', subs'[s] = DayOfMonth[day' + 1]
          PROVE  reminded'[s] = day'
      <4>1. CASE s = row.id
        BY <2>1, <2>5, <3>2, <4>1
      <4>2. CASE s # row.id
        <5>1. RowOf(s) \notin todo
          BY <2>1, <2>6, <2>7, <3>2, <4>2
        <5>2. reminded'[s] = reminded[s]
          BY <2>1, <2>4, <3>2, <4>2
        <5> QED
          BY <2>1, <3>2, <5>1, <5>2
      <4> QED
        BY <4>1, <4>2
    <3> QED
      BY <3>1, <3>2
  <2> QED
    BY <2>1, <2>2, <2>4, <2>8
<1>4. CASE Sleep
  BY <1>0, <1>4 DEF Sleep, clock, history, Live
<1>5. CASE Wake
  BY <1>5 DEF Wake, Due, clock, history, Live
<1>6. CASE FiveMinutes
  BY <1>6 DEF FiveMinutes, checker, history, Live, RowOf
<1>7. CASE Midnight
  <2>1. /\ day' = day + 1 /\ UNCHANGED <<subs, pc, wake, reminded, Live>>
        /\ pc # "sleep" => calm' = 0
        /\ calm' >= 2 => calm >= 1
    BY <1>0, <1>7 DEF Midnight, checker, history, Live
  <2>2. pc = "sleep" => wake = day + 1
    BY <1>7 DEF Midnight, Due, TimerInv, TypeOK
  <2> QED
    BY <1>0, <2>1, <2>2
<1>8. ASSUME NEW s \in Ids, NEW d \in BillingDays \cup {NoBilling}, SetBilling(s, d)
      PROVE  RemindInv'
  BY <1>8 DEF SetBilling
<1>9. CASE Crash \/ Start
  BY <1>9 DEF Crash, Start, TimerInv
<1>10. CASE UNCHANGED vars
  BY <1>10 DEF vars, clock, checker, history, Live, RowOf
<1> QED
  BY <1>1, <1>2, <1>3, <1>4, <1>5, <1>6, <1>7, <1>8, <1>9, <1>10 DEF Next, Checker

(***************************************************************************)
(* In any calendar the reminder of a reset comes the day before it, unless *)
(* a restart, an edit, a failed listing or a midnight spent in a check     *)
(* comes in between.                                                       *)
(***************************************************************************)
THEOREM ResetsAreReminded == Spec => RemindersPrecedeResets
<1>1. Init => RemindInv
  BY DEF Init, RemindInv, CheckInProgress, CheckDone, RemindedYesterday
<1>2. TypeOK /\ TimerInv /\ RemindInv /\ [Next]_vars => [ResetWasReminded]_vars
  <2> SUFFICES ASSUME TypeOK, TimerInv, RemindInv, Next,
                      NEW s \in Ids, reset[s] # day, reset'[s] = day, calm >= 2
               PROVE  reminded[s] = day - 1
    BY DEF ResetWasReminded
  <2>1. calm \in Nat /\ day \in Nat
    BY BoundsAssumption, CalendarAssumption DEF TypeOK, Days
  <2>2. PICK row \in todo : CheckRow(row)
    BY <2>1, NoDayAssumption
       DEF Next, Checker, ReadClock, ListSubs, Sleep, Wake, FiveMinutes, Midnight,
           SetBilling, Crash, Start, history, TypeOK
  <2>3. pc = "send" /\ read = day /\ row.id \in Live /\ row.day = subs[row.id]
    BY <2>1, <2>2 DEF CheckRow, TimerInv, RemindInv, CheckInProgress
  <2>4. row.id = s /\ ResetsToday(row)
    BY <2>2 DEF CheckRow, TypeOK
  <2> QED
    BY <2>3, <2>4 DEF ResetsToday, RemindInv, RemindedYesterday
<1> QED
  BY <1>1, <1>2, RemindStep, TimerAlways, PTL DEF Spec, RemindersPrecedeResets

-----------------------------------------------------------------------------
(***************************************************************************)
(* The invariant about resets.  A check in progress has announced those it *)
(* is done with, and whatever was announced of a row as it stands lies in  *)
(* the past; of the days that passed undisturbed, every one on which a row *)
(* resets was announced.                                                   *)
(***************************************************************************)
ResetInProgress ==
    pc = "send" /\ calm >= 1 =>
        \A s \in Live : RowOf(s) \notin todo /\ subs[s] = DayOfMonth[day] => reset[s] = day

ResetIsPast == \A s \in Ids : reset[s] # NoDay => reset[s] <= day

\* A day that the process was up for and that is over for the check.
Over(d) == d <= day /\ calm > day - d /\ (d = day => pc = "sleep" /\ wake = day + 1)

ResetsKept ==
    \A s \in Live, d \in Days :
        Over(d) /\ subs[s] = DayOfMonth[d] => reset[s] # NoDay /\ reset[s] >= d

CalmIsPast == calm <= day

ResetInv == ResetInProgress /\ ResetIsPast /\ ResetsKept /\ CalmIsPast

LEMMA ResetStep ==
    TypeOK /\ TimerInv /\ CheckInProgress /\ ResetInv /\ [Next]_vars => ResetInv'
<1> SUFFICES ASSUME TypeOK, TimerInv, CheckInProgress, ResetInv, [Next]_vars PROVE ResetInv'
  OBVIOUS
<1> USE DEF ResetInv, ResetInProgress, ResetIsPast, ResetsKept, CalmIsPast, Over
<1>0. calm \in Nat /\ day \in Nat /\ wake \in Nat /\ Days \subseteq Nat /\ NoDay \notin Days
  BY BoundsAssumption, CalendarAssumption, NoDayAssumption DEF TypeOK, Days
<1>a. \A s \in Ids : reset[s] \in Days \cup {NoDay}
  BY DEF TypeOK
<1>1. CASE ReadClock
  BY <1>1 DEF ReadClock, clock, history, Live
<1>2. CASE ListSubs
  <2>1. UNCHANGED <<subs, day, wake, reset, Live>> /\ pc = "list" /\ pc' = "send"
    BY <1>2 DEF ListSubs, clock, history, Live
  <2>2. calm' >= 1 => calm' = calm /\ todo' = {RowOf(s) : s \in Live}
    BY <1>2 DEF ListSubs, RowOf
  <2>3. \A s \in Live : RowOf(s)' = RowOf(s)
    BY <2>1 DEF RowOf
  <2>4. calm' \in Nat /\ calm' <= calm
    BY <1>0, <1>2 DEF ListSubs
  <2> QED
    BY <1>0, <2>1, <2>2, <2>3, <2>4
<1>3. ASSUME NEW row \in todo, CheckRow(row) PROVE ResetInv'
  <2>1. /\ UNCHANGED <<subs, day, pc, wake, calm, Live>> /\ pc = "send"
        /\ todo' = todo \ {row}
        /\ reset' = IF ResetsToday(row) THEN [reset EXCEPT ![row.id] = read] ELSE reset
        /\ row.id \in Ids /\ read \in Days /\ read <= day
    BY <1>3, NoDayAssumption DEF CheckRow, clock, Live, TypeOK, TimerInv
  <2>2. ResetIsPast'
    <3>1. \A s \in Ids : reset'[s] = reset[s] \/ reset'[s] = read
      BY <2>1 DEF TypeOK
    <3>2. ASSUME NEW s \in Ids, reset'[s] # NoDay PROVE reset'[s] <= day'
      BY <2>1, <3>1, <3>2
    <3> QED
      BY <3>2
  <2> SUFFICES ASSUME calm >= 1 PROVE ResetInProgress' /\ ResetsKept'
    BY <1>0, <2>1, <2>2
  <2>3. read = day /\ row.id \in Live /\ row.day = subs[row.id]
    BY <2>1 DEF TimerInv, CheckInProgress
  <2>4. row = RowOf(row.id)
    BY <2>3 DEF RowOf, TypeOK
  <2>5. \A s \in Live : RowOf(s)' = RowOf(s) /\ (RowOf(s) = row => s = row.id)
    BY <2>1 DEF RowOf
  <2>6. \A s \in Live : reset'[s] # reset[s] => s = row.id /\ reset'[s] = day
    BY <2>1, <2>3 DEF TypeOK, Live
  <2>7. subs[row.id] = DayOfMonth[day] => reset'[row.id] = day
    BY <2>1, <2>3 DEF ResetsToday, TypeOK
  <2>8. ResetInProgress'
    <3> SUFFICES ASSUME NEW s \in Live, RowOf(s) \notin todo \ {row}, subs[s] = DayOfMonth[day]
                 PROVE  reset'[s] = day
      BY <2>1, <2>5
    <3>1. CASE s = row.id
      BY <2>7, <3>1
    <3>2. CASE s # row.id
      BY <2>1, <2>5, <2>6, <3>2
    <3> QED
      BY <3>1, <3>2
  <2>9. ResetsKept'
    BY <1>0, <2>1, <2>6
  <2> QED
    BY <2>8, <2>9
<1>4. CASE Sleep
  <2>1. /\ UNCHANGED <<subs, day, calm, reset, Live>> /\ todo = {} /\ pc = "send"
        /\ pc' = "sleep" /\ wake' = day + 1
    BY <1>4 DEF Sleep, clock, history, Live
  <2>2. calm >= 1 => \A s \in Live : subs[s] = DayOfMonth[day] => reset[s] = day
    BY <2>1
  <2>3. ResetsKept'
    <3> SUFFICES ASSUME NEW s \in Live, NEW d \in Days, Over(d)', subs[s] = DayOfMonth[d]
                 PROVE  reset[s] # NoDay /\ reset[s] >= d
      BY <2>1
    <3>1. CASE d = day
      BY <1>0, <2>1, <2>2, <3>1
    <3>2. CASE d # day
      BY <1>0, <2>1, <3>2
    <3> QED
      BY <3>1, <3>2
  <2> QED
    BY <2>1, <2>3
<1>5. CASE Wake
  BY <1>5 DEF Wake, Due, clock, history, Live
<1>6. CASE FiveMinutes
  BY <1>6 DEF FiveMinutes, checker, history, Live, RowOf
<1>7. CASE Midnight
  <2>1. /\ day' = day + 1 /\ UNCHANGED <<subs, pc, wake, reset, Live>>
        /\ pc # "sleep" => calm' = 0
        /\ calm' \in Nat /\ calm' <= calm + 1
    BY <1>0, <1>7 DEF Midnight, checker, history, Live
  <2>2. pc = "sleep" => wake = day + 1
    BY <1>7 DEF Midnight, Due, TimerInv, TypeOK
  <2>3. ResetIsPast'
    <3> SUFFICES ASSUME NEW s \in Ids, reset[s] # NoDay PROVE reset[s] <= day + 1
      BY <2>1
    <3>1. reset[s] \in Nat /\ reset[s] <= day
      BY <1>0, <1>a
    <3> QED
      BY <1>0, <3>1
  <2>4. ResetsKept'
    <3> SUFFICES ASSUME NEW s \in Live, NEW d \in Days, Over(d)', subs[s] = DayOfMonth[d]
                 PROVE  reset[s] # NoDay /\ reset[s] >= d
      BY <2>1
    <3>1. pc = "sleep" /\ d # day + 1
      BY <1>0, <2>1, <2>2
    <3> QED
      BY <1>0, <2>1, <2>2, <3>1
  <2> QED
    BY <1>0, <2>1, <2>3, <2>4
<1>8. ASSUME NEW s \in Ids, NEW d \in BillingDays \cup {NoBilling}, SetBilling(s, d)
      PROVE  ResetInv'
  <2>1. calm' = 0 /\ UNCHANGED <<day, pc>> /\ \A x \in Ids : reset'[x] \in {reset[x], NoDay}
    BY <1>8 DEF SetBilling, clock, checker, TypeOK
  <2> QED
    BY <1>0, <2>1
<1>9. CASE Crash \/ Start
  <2>1. calm' = 0 /\ UNCHANGED <<day, reset>>
    BY <1>9 DEF Crash, Start, TimerInv, clock, history
  <2> QED
    BY <1>0, <2>1
<1>10. CASE UNCHANGED vars
  BY <1>10 DEF vars, clock, checker, history, Live, RowOf
<1> QED
  BY <1>1, <1>2, <1>3, <1>4, <1>5, <1>6, <1>7, <1>8, <1>9, <1>10 DEF Next, Checker

LEMMA ResetsAlways == Spec => [](TypeOK /\ TimerInv /\ ResetInv)
<1>1. Init => RemindInv /\ ResetInv
  BY BoundsAssumption, CalendarAssumption
     DEF Init, RemindInv, CheckInProgress, CheckDone, RemindedYesterday, ResetInv,
         ResetInProgress, ResetIsPast, ResetsKept, CalmIsPast, Over, Days
<1>2. RemindInv => CheckInProgress
  BY DEF RemindInv
<1> QED
  BY <1>1, <1>2, RemindStep, ResetStep, TimerAlways, PTL DEF Spec

\* The calendar: two days that follow each other, ...
LEMMA NextDay ==
    ASSUME NEW d \in Days
    PROVE  /\ d \in Nat /\ d + 1 \in 0 .. LastDay + 1 /\ LastDay \in Nat
           /\ DayOfMonth[d] \in 1 .. 31 /\ DayOfMonth[d + 1] \in 1 .. 31
           /\ \/ DayOfMonth[d + 1] = DayOfMonth[d] + 1 /\ MonthOf[d + 1] = MonthOf[d]
              \/ /\ DayOfMonth[d + 1] = 1 /\ DayOfMonth[d] > 1
                 /\ MonthOf[d + 1] # MonthOf[d]
BY CalendarAssumption DEF Days

\* ... a day e earlier in the month of d, and a day e later in it.
LEMMA SameMonth ==
    ASSUME NEW d \in 0 .. LastDay + 1, NEW e \in 0 .. LastDay + 1
    PROVE  /\ e <= d /\ DayOfMonth[d] - (d - e) >= 1
                => DayOfMonth[e] = DayOfMonth[d] - (d - e) /\ MonthOf[e] = MonthOf[d]
           /\ d <= e /\ DayOfMonth[d] + (e - d) <= 28
                => DayOfMonth[e] = DayOfMonth[d] + (e - d)
<1>0. DayOfMonth[d] \in 1 .. 31 /\ LastDay \in Nat
  BY CalendarAssumption
<1>1. ASSUME e <= d, DayOfMonth[d] - (d - e) >= 1
      PROVE  DayOfMonth[e] = DayOfMonth[d] - (d - e) /\ MonthOf[e] = MonthOf[d]
  <2>1. PICK n \in 0 .. 30 : n = d - e
    BY <1>0, <1>1
  <2>2. d - n = e /\ d - n >= 0 /\ DayOfMonth[d] - n >= 1
    BY <1>0, <1>1, <2>1
  <2>3. DayOfMonth[d - n] = DayOfMonth[d] - n /\ MonthOf[d - n] = MonthOf[d]
    BY <2>1, <2>2, MonthsAssumption
  <2> QED
    BY <2>1, <2>2, <2>3
<1>2. ASSUME d <= e, DayOfMonth[d] + (e - d) <= 28
      PROVE  DayOfMonth[e] = DayOfMonth[d] + (e - d)
  <2>1. PICK n \in 0 .. 30 : n = e - d
    BY <1>0, <1>2
  <2>2. d + n = e /\ d + n <= LastDay + 1 /\ DayOfMonth[d] + n <= 28
    BY <1>0, <1>2, <2>1
  <2> QED
    BY <2>1, <2>2, MonthsAssumption
<1> QED
  BY <1>1, <1>2

\* Only Midnight moves the date.
LEMMA OnlyMidnight == ASSUME Next, day' # day PROVE Midnight
BY DEF Next, Checker, ReadClock, ListSubs, CheckRow, Sleep, Wake, FiveMinutes,
       SetBilling, Crash, Start, clock

\* What a midnight that finds the goroutine asleep knows of the day that ends.
LEMMA DayIsOver ==
    ASSUME TypeOK, TimerInv, ResetInv, Midnight, pc = "sleep",
           NEW s \in Live, NEW d \in Days, d <= day, calm > day - d,
           subs[s] = DayOfMonth[d]
    PROVE  reset[s] \in Days /\ reset[s] >= d /\ reset[s] <= day
<1>1. wake = day + 1
  BY DEF Midnight, Due, TimerInv, TypeOK
<1>2. Over(d)
  BY <1>1 DEF Over
<1> QED
  BY <1>2, NoDayAssumption DEF ResetInv, ResetsKept, ResetIsPast, Live, TypeOK

(***************************************************************************)
(* In any calendar and for every billing day that all months have, an      *)
(* owner whose subscription stood unchanged for an undisturbed month was   *)
(* told of a reset in it.                                                  *)
(***************************************************************************)
THEOREM EveryMonthHasReset ==
    ASSUME BillingDays \subseteq 1 .. 28 PROVE Spec => MonthlyReset
<1>1. TypeOK /\ TimerInv /\ ResetInv /\ [Next]_vars => [MonthHadReset]_vars
  <2> SUFFICES ASSUME TypeOK, TimerInv, ResetInv, Next, NEW s \in Live, day' # day,
                      MonthOf[day'] # MonthOf[day], calm >= DayOfMonth[day], pc = "sleep"
               PROVE  reset[s] # NoDay /\ MonthOf[reset[s]] = MonthOf[day]
    BY DEF MonthHadReset
  <2> DEFINE due == day - DayOfMonth[day] + subs[s]
  <2>1. Midnight
    BY OnlyMidnight
  <2>2. day \in Days /\ day < LastDay /\ day' = day + 1 /\ calm \in Nat /\ calm <= day
    BY <2>1, BoundsAssumption DEF Midnight, TypeOK, ResetInv, CalmIsPast
  <2>3. subs[s] \in 1 .. 28
    BY DEF Live, TypeOK
  <2>4. DayOfMonth[day + 1] = 1 /\ DayOfMonth[day] > 1
    BY <2>2, NextDay
  <2>5. DayOfMonth[day] >= 28
    <3>1. day \in 0 .. LastDay + 1 /\ day + 1 \in 0 .. LastDay + 1 /\ day <= day + 1
      BY <2>2, NextDay DEF Days
    <3>2. DayOfMonth[day] + (day + 1 - day) <= 28
             => DayOfMonth[day + 1] = DayOfMonth[day] + (day + 1 - day)
      BY <3>1, SameMonth
    <3> QED
      BY <2>2, <2>4, <3>2, NextDay
  <2>6. /\ due \in Days /\ due <= day /\ calm > day - due
        /\ DayOfMonth[day] - (day - due) = subs[s]
    <3>1. day \in Nat /\ LastDay \in Nat
      BY <2>2, NextDay
    <3>2. PICK length \in 28 .. 31, due0 \in 1 .. 28 : length = DayOfMonth[day] /\ due0 = subs[s]
      BY <2>2, <2>3, <2>5, NextDay
    <3>3. calm >= length /\ due = day - length + due0
      BY <3>2
    <3> HIDE DEF due
    <3>4. due \in Days /\ due <= day
      BY <2>2, <3>1, <3>3 DEF Days
    <3>5. calm > day - due /\ length - (day - due) = due0
      BY <2>2, <3>1, <3>3
    <3> QED
      BY <3>2, <3>4, <3>5
  <2>7. DayOfMonth[due] = subs[s]
    BY <2>2, <2>3, <2>6, SameMonth, NextDay DEF Days
  <2>8. reset[s] \in Days /\ reset[s] >= due /\ reset[s] <= day
    BY <2>1, <2>6, <2>7, DayIsOver
  <2>9. DayOfMonth[day] - (day - reset[s]) >= 1
    <3>1. /\ day \in Nat /\ due \in Nat /\ reset[s] \in Nat /\ subs[s] >= 1
          /\ DayOfMonth[day] \in Nat
      BY <2>2, <2>3, <2>6, <2>8, NextDay DEF Days
    <3> HIDE DEF due
    <3> QED
      BY <2>6, <2>8, <3>1
  <2>10. day \in 0 .. LastDay + 1 /\ reset[s] \in 0 .. LastDay + 1
    BY <2>2, <2>8, NextDay DEF Days
  <2>11. MonthOf[reset[s]] = MonthOf[day]
    BY <2>8, <2>9, <2>10, SameMonth
  <2> QED
    BY <2>8, <2>11, NoDayAssumption DEF Days
<1> QED
  BY <1>1, ResetsAlways, PTL DEF Spec, MonthlyReset

-----------------------------------------------------------------------------
\* A set of numbers with an element has a least one.
LEMMA LeastExists ==
    ASSUME NEW S \in SUBSET Nat, S # {}
    PROVE  \E m \in S : \A n \in S : m <= n
<1> DEFINE T == {0 .. n : n \in S}
           R == StrictSubsetOrdering(Nat)
<1>1. T \subseteq FiniteSubsetsOf(Nat) /\ T # {}
  <2>1. ASSUME NEW n \in S PROVE 0 .. n \in FiniteSubsetsOf(Nat)
    <3>1. n \in Nat /\ IsFiniteSet(0 .. n)
      BY FS_Interval
    <3> QED
      BY <3>1 DEF FiniteSubsetsOf
  <2> QED
    BY <2>1
<1>2. IsWellFoundedOn(R, FiniteSubsetsOf(Nat))
  BY FS_StrictSubsetOrderingWellFounded
<1>3. PICK x \in T : \A y \in T : ~ (<<y, x>> \in R)
  <2> HIDE DEF R, T
  <2> QED
    BY <1>1, <1>2, WFMin
<1>4. PICK m \in S : x = 0 .. m
  BY <1>3
<1>5. ASSUME NEW n \in S, n < m PROVE FALSE
  <2>1. 0 .. n \subseteq 0 .. m /\ m \in 0 .. m /\ m \notin 0 .. n
    BY <1>5
  <2>2. <<0 .. n, 0 .. m>> \in R
    BY <2>1 DEF StrictSubsetOrdering
  <2> QED
    BY <1>3, <1>4, <2>2
<1> QED
  BY <1>5

\* Where the next month begins.
LEMMA NextMonth ==
    ASSUME NEW d \in Days
    PROVE  \/ FirstOfNextMonth(d) = LastDay + 2
           \/ /\ FirstOfNextMonth(d) \in d + 1 .. LastDay + 1
              /\ DayOfMonth[FirstOfNextMonth(d)] = 1
<1> DEFINE S == {x \in d + 1 .. LastDay + 1 : DayOfMonth[x] = 1} \cup {LastDay + 2}
<1>1. d \in Nat /\ LastDay \in Nat
  BY CalendarAssumption DEF Days
<1>2. S \in SUBSET Nat /\ S # {}
  BY <1>1
<1>3. \E m \in S : \A n \in S : m <= n
  BY <1>2, LeastExists
<1>4. Min(S) \in S
  BY <1>3 DEF Min
<1> QED
  BY <1>4 DEF FirstOfNextMonth

(***************************************************************************)
(* For a billing day that all months have, the date on the page is a day   *)
(* with that number.                                                       *)
(***************************************************************************)
LEMMA DateHasBillingDay ==
    ASSUME NEW today \in Days, NEW d \in Days, NEW b \in 1 .. 28,
           NextResetDate(today, b) = d
    PROVE  d > today /\ DayOfMonth[d] = b
<1> DEFINE candidate == today - DayOfMonth[today] + b
           f == FirstOfNextMonth(today)
<1>1. /\ today \in Nat /\ LastDay \in Nat /\ d \in Nat /\ d <= LastDay
      /\ DayOfMonth[today] \in 1 .. 31
  BY NextDay DEF Days
<1>2. CASE candidate > today
  <2>1. d = candidate
    BY <1>1, <1>2 DEF NextResetDate
  <2>2. PICK m \in 1 .. 31 : m = DayOfMonth[today]
    BY <1>1
  <2>3. today <= d /\ d > today /\ m + (d - today) = b
    BY <1>1, <1>2, <2>1, <2>2
  <2>4. today \in 0 .. LastDay + 1 /\ d \in 0 .. LastDay + 1
    BY <1>1 DEF Days
  <2>5. DayOfMonth[d] = m + (d - today)
    BY <2>2, <2>3, <2>4, SameMonth
  <2> QED
    BY <2>3, <2>5
<1>3. CASE candidate <= today
  <2>1. d = f + b - 1
    BY <1>1, <1>3 DEF NextResetDate
  <2>2. f \in today + 1 .. LastDay + 1 /\ DayOfMonth[f] = 1
    BY <1>1, <2>1, NextMonth
  <2>3. f \in 0 .. LastDay + 1 /\ d \in 0 .. LastDay + 1 /\ f <= d /\ 1 + (d - f) = b
    BY <1>1, <2>1, <2>2
  <2>4. DayOfMonth[d] = 1 + (d - f)
    BY <2>2, <2>3, SameMonth
  <2> QED
    BY <1>1, <2>2, <2>3, <2>4
<1> QED
  BY <1>1, <1>2, <1>3

(***************************************************************************)
(* In any calendar and for every billing day that all months have, the     *)
(* check announces a reset on the date the page showed.                    *)
(***************************************************************************)
THEOREM PageDatesAreKept ==
    ASSUME BillingDays \subseteq 1 .. 28 PROVE Spec => DatesAreKept
<1>1. TypeOK /\ TimerInv /\ ResetInv /\ [Next]_vars => [DateIsKept]_vars
  <2> SUFFICES ASSUME TypeOK, TimerInv, ResetInv, Next, NEW s \in Live, NEW shown \in Days,
                      day' # day, pc = "sleep", shown < day, calm > day - shown,
                      NextResetDate(shown, subs[s]) = day
               PROVE  reset[s] = day
    BY DEF DateIsKept
  <2>1. Midnight
    BY OnlyMidnight
  <2>2. day \in Days /\ day \in Nat /\ shown \in Nat /\ calm \in Nat
    BY CalendarAssumption, BoundsAssumption DEF TypeOK, Days
  <2>3. subs[s] \in 1 .. 28
    BY DEF Live, TypeOK
  <2>4. DayOfMonth[day] = subs[s]
    BY <2>2, <2>3, DateHasBillingDay
  <2>5. reset[s] \in Days /\ reset[s] >= day /\ reset[s] <= day
    BY <2>1, <2>2, <2>4, DayIsOver
  <2> QED
    BY <2>2, <2>5, CalendarAssumption DEF Days
<1> QED
  BY <1>1, ResetsAlways, PTL DEF Spec, DatesAreKept

(***************************************************************************)
(* "Today!" (app.js:135-136) is never shown: the date on the page is at    *)
(* least a day ahead, on the billing day itself a month, as the candidate  *)
(* that app.js:34 compares with now is the midnight which that day begins  *)
(* with.  On that day the check tells the owner that the subscription has  *)
(* reset today (scheduler.go:190-191).                                     *)
(***************************************************************************)
THEOREM PageNeverSaysToday ==
    ASSUME NEW today \in Days, NEW b \in 1 .. 31
    PROVE  DaysUntilReset(today, b) > 0
<1> DEFINE candidate == today - DayOfMonth[today] + b
           f == FirstOfNextMonth(today)
<1>1. /\ today \in Nat /\ LastDay \in Nat /\ today <= LastDay
      /\ DayOfMonth[today] \in 1 .. 31 /\ candidate \in Int
  BY NextDay DEF Days
<1>2. CASE candidate > today
  BY <1>1, <1>2 DEF DaysUntilReset, NextResetDate
<1>3. CASE candidate <= today
  <2>1. f \in Nat /\ f > today
    BY <1>1, NextMonth
  <2>2. DaysUntilReset(today, b) = f + b - 1 - today
    BY <1>1, <1>3, <2>1 DEF DaysUntilReset, NextResetDate
  <2> QED
    BY <1>1, <2>1, <2>2
<1> QED
  BY <1>1, <1>2, <1>3
=============================================================================
