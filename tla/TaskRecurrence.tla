----------------------------- MODULE TaskRecurrence ----------------------------
(***************************************************************************)
(* The dates of a repeating task (agent/lib/shared-task-recurrence.ts).    *)
(*                                                                         *)
(* A date is the number of its day, counted from 1 January of FirstYear.   *)
(* The code compares dates as text and computes with JavaScript's Date;    *)
(* from the year 100 to 9999 both agree with the number. Whoever is the    *)
(* assignee says "done"; between two days the task may have changed hands. *)
(* The assignee may also move the date of the occurrence at hand. Today is *)
(* one day for all; the code asks the time zone of whoever says "done".    *)
(***************************************************************************)
EXTENDS Integers, Sequences, FiniteSetsExt

CONSTANTS
    Doers,              \* people the task may belong to
    FirstYear,          \* of the calendar
    Anchors,            \* first dates of the rules
    RecurrenceDays,     \* days on which something may happen
    Intervals,          \* of the rules
    SearchSteps,        \* of the search for the next date: 1000 in the code
    MaxDateMoves        \* bound: dates moved by hand

ASSUME RecurrenceConstants ==
    /\ FirstYear \in Nat \ {0}
    /\ Anchors \subseteq Nat \ {0} /\ RecurrenceDays \subseteq Nat \ {0} /\ RecurrenceDays # {}
    /\ Intervals \subseteq Nat \ {0} /\ SearchSteps \in Nat \ {0} /\ MaxDateMoves \in Nat

-----------------------------------------------------------------------------
\* The calendar. Months are counted from 0, January of FirstYear.
BeforeMonth == <<0, 31, 59, 90, 120, 151, 181, 212, 243, 273, 304, 334>>

\* The leap days up to the end of a year.
LeapDays(year) == (year \div 4) - (year \div 100) + (year \div 400)

\* The year of the last February that is over when a month begins.
LastFebruary(month) == FirstYear + (month \div 12) - IF month % 12 < 2 THEN 1 ELSE 0

\* How many days pass before a month begins.
DaysBefore(month) ==
    365 * (month \div 12) + BeforeMonth[(month % 12) + 1]
    + LeapDays(LastFebruary(month)) - LeapDays(FirstYear - 1)

MonthEnd(month) == DaysBefore(month + 1)
MonthLength(month) == MonthEnd(month) - DaysBefore(month)
MonthOf(day) == CHOOSE month \in 0..(day \div 28) : DaysBefore(month) < day /\ day <= MonthEnd(month)
DayOfMonth(day) == day - DaysBefore(MonthOf(day))

-----------------------------------------------------------------------------
VARIABLES
    today,          \* the day in the zone of the family
    rule,           \* recurrence_unit, recurrence_interval and recurrence_anchor_on
    dueOn,          \* shared_tasks.due_on
    occurrence,     \* shared_tasks.occurrence_index
    marked,         \* who marked the task today: shared_ritual_occurrences
    dateMoves       \* counter of the bound

recurrenceVars == <<today, rule, dueOn, occurrence, marked, dateMoves>>

CalendarUnits == {"daily", "weekly", "monthly"}
RecurrenceRules == [unit : CalendarUnits \cup {"after_completion"}, interval : Intervals, anchor : Anchors]

RecurrenceTypeOK ==
    /\ today \in RecurrenceDays
    /\ rule \in RecurrenceRules
    /\ dueOn \in Nat \ {0} /\ occurrence \in Nat
    /\ marked \subseteq Doers /\ dateMoves \in 0..MaxDateMoves

\* createTask: the first date is the anchor.
RecurrenceInit ==
    /\ today = Min(RecurrenceDays)
    /\ rule \in RecurrenceRules
    /\ dueOn = rule.anchor /\ occurrence = 0
    /\ marked = {} /\ dateMoves = 0

-----------------------------------------------------------------------------
\* addTo: a short month cuts the day.
AddMonths(date, months) ==
    LET month == MonthOf(date) + months
    IN  DaysBefore(month) + Min({DayOfMonth(date), MonthLength(month)})
AddTo(date, unit, amount) ==
    CASE unit = "monthly" -> AddMonths(date, amount)
      [] unit = "weekly"  -> date + 7 * amount
      [] OTHER            -> date + amount

\* An estimate from below of how many occurrences have passed.
Passed(unit, anchor) ==
    IF unit = "monthly" THEN MonthOf(today) - MonthOf(anchor)
    ELSE (today - anchor) \div (IF unit = "weekly" THEN 7 ELSE 1)
Elapsed_All(unit, interval, anchor) ==
    IF today <= anchor THEN 0 ELSE Passed(unit, anchor) \div interval
Elapsed(unit, interval, anchor) ==
    IF today <= anchor THEN 0 ELSE Max({0, Passed(unit, anchor) \div interval - 1})

\* The estimate is followed by a search; without a date in its range the call would fail.
FirstSearched == Max({occurrence, Elapsed(rule.unit, rule.interval, rule.anchor)}) + 1
NextIndex ==
    Min({index \in FirstSearched..(FirstSearched + SearchSteps) :
            AddTo(rule.anchor, rule.unit, rule.interval * index) > today})

-----------------------------------------------------------------------------
\* advanceRecurringTask: the second "done" of the same person on a day moves nothing.
CompleteOccurrence(who) ==
    /\ IF who \in marked THEN UNCHANGED <<dueOn, occurrence>>
       ELSE IF rule.unit = "after_completion"
         THEN dueOn' = AddTo(today, "daily", rule.interval) /\ occurrence' = occurrence + 1
         ELSE /\ dueOn' = AddTo(rule.anchor, rule.unit, rule.interval * NextIndex)
              /\ occurrence' = NextIndex
    /\ marked' = marked \cup {who}
    /\ UNCHANGED <<today, rule, dateMoves>>

\* mutateTaskPlan: the anchor of the rule stays.
MoveDate ==
    /\ dateMoves < MaxDateMoves /\ dateMoves' = dateMoves + 1
    /\ dueOn' \in RecurrenceDays
    /\ UNCHANGED <<today, rule, occurrence, marked>>

DaysPass ==
    /\ today' \in {day \in RecurrenceDays : day > today}
    /\ marked' = {}
    /\ UNCHANGED <<rule, dueOn, occurrence, dateMoves>>

RecurrenceNext == (\E who \in Doers : CompleteOccurrence(who)) \/ MoveDate \/ DaysPass

-----------------------------------------------------------------------------
\* The dates of a rule, told without counting: the day of the anchor, or the last one
\* of a shorter month, in every interval-th month; every interval-th week or day.
OnRule(day) ==
    /\ day >= rule.anchor
    /\ IF rule.unit = "monthly"
         THEN /\ (MonthOf(day) - MonthOf(rule.anchor)) % rule.interval = 0
              /\ \/ DayOfMonth(day) = DayOfMonth(rule.anchor)
                 \/ /\ day = MonthEnd(MonthOf(day))
                    /\ DayOfMonth(day) < DayOfMonth(rule.anchor)
         ELSE (day - rule.anchor) % (rule.interval * IF rule.unit = "weekly" THEN 7 ELSE 1) = 0

\* However long a task was left alone and however its date was moved, "done" leads to
\* the nearest date of its rule that is still ahead and follows the occurrence done:
\* no date is skipped, none is in the past, and a month too short for the day of the
\* rule does not shift the dates behind it.
NextDateIsNearest ==
    [][occurrence' # occurrence /\ rule.unit \in CalendarUnits =>
          LET doneOn == AddTo(rule.anchor, rule.unit, rule.interval * occurrence)
              ahead(day) == today < day /\ doneOn < day /\ OnRule(day)
          IN  /\ ahead(dueOn')
              /\ \A day \in today..(dueOn' - 1) : ~ahead(day)]_recurrenceVars

=============================================================================
