------------------------------- MODULE Billing -------------------------------
(***************************************************************************)
(* The daily billing check of service/scheduler.go: once at startup, then  *)
(* at 00:05 of every following day, it tells owners that a subscription    *)
(* resets today or tomorrow.  It reads the clock several times, and        *)
(* midnight may pass between any two of its steps.  The page computes the  *)
(* date of the next reset for itself (web/js/app.js).                      *)
(*                                                                         *)
(* Days are numbered from 0; DayOfMonth and MonthOf are the local calendar *)
(* (time.Date and AddDate normalise, so "tomorrow" is the next number).    *)
(***************************************************************************)
EXTENDS Integers, FiniteSetsExt

CONSTANTS
    Ids,            \* subscriptions
    LastDay,        \* bound on time
    DayOfMonth,     \* calendar: day of the month of each day
    MonthOf,        \* calendar: month of each day
    BillingDays,    \* billing days an owner may enter (handlers.go: 1 to 31)
    NoBilling,      \* "there is no such subscription"
    NoDay,          \* "the clock was not read yet"
    MaxCrashes,     \* bound on process exits
    CalmCap,        \* bound on the history variable calm
    DbFaults        \* may listing the subscriptions fail?

Days == 0 .. LastDay

ASSUME CalendarAssumption ==
    /\ LastDay \in Nat
    /\ DayOfMonth \in [0 .. LastDay + 1 -> 1 .. 31]
    /\ MonthOf \in [0 .. LastDay + 1 -> Nat]
    /\ \A d \in Days : \/ /\ DayOfMonth[d + 1] = DayOfMonth[d] + 1
                          /\ MonthOf[d + 1] = MonthOf[d]
                       \/ /\ DayOfMonth[d + 1] = 1 /\ DayOfMonth[d] > 1
                          /\ MonthOf[d + 1] # MonthOf[d]
\* Months have no gaps and at least 28 days.
ASSUME MonthsAssumption ==
    \A d \in 0 .. LastDay + 1, n \in 0 .. 30 :
        /\ (d + n <= LastDay + 1 /\ DayOfMonth[d] + n <= 28)
              => DayOfMonth[d + n] = DayOfMonth[d] + n
        /\ (d - n >= 0 /\ DayOfMonth[d] - n >= 1)
              => DayOfMonth[d - n] = DayOfMonth[d] - n /\ MonthOf[d - n] = MonthOf[d]
ASSUME BillingAssumption == BillingDays \subseteq 1 .. 31 /\ NoBilling \notin BillingDays
ASSUME NoDayAssumption == NoDay \notin Nat
ASSUME BoundsAssumption == MaxCrashes \in Nat /\ CalmCap \in Nat /\ DbFaults \in BOOLEAN

VARIABLES
    subs,       \* table subscriptions: billing_day by id
    day,        \* the wall clock: today ...
    past5,      \* ... and whether it is 00:05 or later
    pc,         \* where the billing goroutine is
    read,       \* the day its last check read from the clock
    todo,       \* rows that check has not come to
    wake,       \* the day whose 00:05 its timer is set to
    crashes,
    reset,      \* history: the day the last alert about a row as it stands
                \*   said that it has reset ...
    reminded,   \* ... and said that it resets tomorrow
    calm        \* history: midnights passed since the last disturbance

checker == <<pc, read, todo, wake>>
clock   == <<day, past5>>
history == <<reset, reminded>>
vars    == <<subs, clock, checker, crashes, history, calm>>

Live == {s \in Ids : subs[s] # NoBilling}

Init ==
    /\ subs \in [Ids -> BillingDays \cup {NoBilling}]
    /\ day = 0 /\ past5 \in BOOLEAN
    /\ pc = "clock" /\ read = NoDay /\ todo = {} /\ wake = 0
    /\ crashes = 0
    /\ reset = [s \in Ids |-> NoDay] /\ reminded = [s \in Ids |-> NoDay]
    /\ calm = 0

-----------------------------------------------------------------------------
(* check, and the loop of runBillingCheck around it.                       *)

\* now := time.Now()
ReadClock ==
    /\ pc = "clock"
    /\ pc' = "list"
    /\ read' = day
    /\ UNCHANGED <<subs, clock, todo, wake, crashes, history, calm>>

\* ListAllSubscriptions; on an error the whole check is given up.
ListSubs ==
    /\ pc = "list"
    /\ pc' = "send"
    /\ \/ todo' = {[id |-> s, day |-> subs[s]] : s \in Live} /\ UNCHANGED calm
       \/ DbFaults /\ todo' = {} /\ calm' = 0
    /\ UNCHANGED <<subs, clock, read, wake, crashes, history>>

ResetsToday(row)    == row.day = DayOfMonth[read]
\* Mutant: tomorrow is today plus one, at the end of a month too.
NextDayNumber(row)  == row.day = DayOfMonth[read] + 1
ResetsTomorrow(row) == row.day = DayOfMonth[read + 1]

\* One turn of the loop: at most one of the two messages goes out.
CheckRow(row) ==
    /\ pc = "send"
    /\ row \in todo
    /\ todo' = todo \ {row}
    /\ reset' = IF ResetsToday(row) THEN [reset EXCEPT ![row.id] = read] ELSE reset
    /\ reminded' = IF ~ ResetsToday(row) /\ ResetsTomorrow(row)
                   THEN [reminded EXCEPT ![row.id] = read] ELSE reminded
    /\ UNCHANGED <<subs, clock, pc, read, wake, crashes, calm>>

\* Mutants: the timer is set to 00:05 of today; of the day after tomorrow.
SleepFor(days) ==
    /\ pc = "send" /\ todo = {}
    /\ pc' = "sleep"
    /\ wake' = day + days
    /\ UNCHANGED <<subs, clock, read, todo, crashes, history, calm>>
SleepForNone == SleepFor(0)
SleepForTwo == SleepFor(2)

\* The clock is read again to set the timer for 00:05 of the next day.
Sleep ==
    /\ pc = "send" /\ todo = {}
    /\ pc' = "sleep"
    /\ wake' = day + 1
    /\ UNCHANGED <<subs, clock, read, todo, crashes, history, calm>>

Due == pc = "sleep" /\ wake = day /\ past5

Wake ==
    /\ Due
    /\ pc' = "clock"
    /\ UNCHANGED <<subs, clock, read, todo, wake, crashes, history, calm>>

Checker == ReadClock \/ ListSubs \/ (\E row \in todo : CheckRow(row)) \/ Sleep \/ Wake

-----------------------------------------------------------------------------
(* The page.  Date counts on from the first of the month, so day 31 of a   *)
(* shorter month is a day of the next one.                                 *)

\* A month that begins after the calendar ends begins right after it.
FirstOfNextMonth(today) ==
    Min({d \in today + 1 .. LastDay + 1 : DayOfMonth[d] = 1} \cup {LastDay + 2})

\* Mutant: the next month is thirty days away.
ThirtyDaysOn(today, billingDay) ==
    LET candidate == today - DayOfMonth[today] + billingDay
    IN  IF candidate <= today THEN candidate + 30 ELSE candidate

\* The candidate is the midnight that day begins with, so today is over.
NextResetDate(today, billingDay) ==
    LET candidate == today - DayOfMonth[today] + billingDay
    IN  IF candidate <= today THEN FirstOfNextMonth(today) + billingDay - 1 ELSE candidate

\* renderSubs: zero is shown as "Today!".
DaysUntilReset(today, billingDay) == NextResetDate(today, billingDay) - today

-----------------------------------------------------------------------------
(* Time.  A timer that is due fires, and a check that starts reads the     *)
(* clock, before midnight; what follows waits for peers that answer when   *)
(* they like, so it may take any time.                                     *)

FiveMinutes ==
    /\ ~ past5 /\ past5' = TRUE
    /\ UNCHANGED <<subs, day, checker, crashes, history, calm>>

Midnight ==
    /\ day < LastDay
    /\ past5 /\ ~ Due /\ pc # "clock"
    /\ day' = day + 1 /\ past5' = FALSE
    /\ calm' = IF pc # "sleep" THEN 0 ELSE IF calm < CalmCap THEN calm + 1 ELSE calm
    /\ UNCHANGED <<subs, checker, crashes, history>>

-----------------------------------------------------------------------------
(* The owner's requests; the process exits and starts again.               *)

\* A row is created, edited or deleted.
SetBilling(s, d) ==
    /\ subs[s] # d
    /\ subs' = [subs EXCEPT ![s] = d]
    /\ calm' = 0 /\ reset' = [reset EXCEPT ![s] = NoDay] /\ reminded' = [reminded EXCEPT ![s] = NoDay]
    /\ UNCHANGED <<clock, checker, crashes>>

Crash ==
    /\ crashes < MaxCrashes /\ pc # "down"
    /\ crashes' = crashes + 1
    /\ pc' = "down" /\ todo' = {} /\ calm' = 0
    /\ UNCHANGED <<subs, clock, read, wake, history>>

Start ==
    /\ pc = "down"
    /\ pc' = "clock" /\ read' = NoDay
    /\ UNCHANGED <<subs, clock, todo, wake, crashes, history, calm>>

Next ==
    \/ Checker
    \/ FiveMinutes \/ Midnight
    \/ \E s \in Ids, d \in BillingDays \cup {NoBilling} : SetBilling(s, d)
    \/ Crash \/ Start

Spec == Init /\ [][Next]_vars

\* The goroutine runs, its calls return, and time passes.
FairSpec == Spec /\ WF_vars(Checker) /\ WF_vars(FiveMinutes) /\ WF_vars(Midnight)

-----------------------------------------------------------------------------
(* Properties.                                                             *)

TypeOK ==
    /\ subs \in [Ids -> BillingDays \cup {NoBilling}]
    /\ day \in Days /\ past5 \in BOOLEAN
    /\ pc \in {"clock", "list", "send", "sleep", "down"}
    /\ read \in Days \cup {NoDay}
    /\ pc \in {"list", "send", "sleep"} => read # NoDay
    /\ todo \subseteq [id : Ids, day : BillingDays]
    /\ wake \in 0 .. LastDay + 1
    /\ crashes \in 0 .. MaxCrashes
    /\ reset \in [Ids -> Days \cup {NoDay}] /\ reminded \in [Ids -> Days \cup {NoDay}]
    /\ calm \in 0 .. CalmCap

(***************************************************************************)
(* One run of the process never checks the same day twice, so it sends no  *)
(* alert of scheduler.go:190-195 twice, wherever midnight falls.           *)
(***************************************************************************)
OncePerRun == pc = "clock" => read # day

(***************************************************************************)
(* A day that began with the process up and asleep is not over before a    *)
(* check has read it from the clock (scheduler.go:50-59).                  *)
(***************************************************************************)
CalmDayIsRead == day' # day /\ calm >= 1 => read = day
CalmDaysChecked == [][CalmDayIsRead]_vars

(***************************************************************************)
(* A reset is never announced out of the blue: if nothing disturbed the    *)
(* day before, its reminder went out then (scheduler.go:179, 193), across  *)
(* the end of a month too.                                                 *)
(***************************************************************************)
ResetWasReminded ==
    \A s \in Ids : reset[s] # day /\ reset'[s] = day /\ calm >= 2
        => reminded[s] = day - 1
RemindersPrecedeResets == [][ResetWasReminded]_vars

(***************************************************************************)
(* "Automatic daily check for resets": no day passes unchecked with the    *)
(* process up from its first moment to its last (README.md:8).             *)
(***************************************************************************)
DayIsChecked == day' # day /\ pc = "sleep" /\ read # NoDay => read = day
DailyCheck == [][DayIsChecked]_vars

(***************************************************************************)
(* "notifies on reset day": an owner whose subscription stood unchanged    *)
(* for a whole undisturbed month was told of a reset in it (README.md:8).  *)
(***************************************************************************)
MonthHadReset ==
    \A s \in Live :
        day' # day /\ MonthOf[day'] # MonthOf[day] /\ calm >= DayOfMonth[day] /\ pc = "sleep"
            => reset[s] # NoDay /\ MonthOf[reset[s]] = MonthOf[day]
MonthlyReset == [][MonthHadReset]_vars

(***************************************************************************)
(* The page does not promise what the check does not know: the date it     *)
(* shows for a reset (app.js:27-38) is a day on which the check announces  *)
(* that reset, if nothing disturbs it between the two.                     *)
(***************************************************************************)
DateIsKept ==
    \A s \in Live, shown \in Days :
        (/\ day' # day /\ pc = "sleep"
         /\ shown < day /\ calm > day - shown
         /\ NextResetDate(shown, subs[s]) = day)
            => reset[s] = day
DatesAreKept == [][DateIsKept]_vars
=============================================================================
