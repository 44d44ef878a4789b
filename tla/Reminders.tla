------------------------------- MODULE Reminders -------------------------------
(***************************************************************************)
(* Reminders: their life in the database, the minute dispatcher that sends *)
(* them, and the shared task a reminder may be linked to.                  *)
(*                                                                         *)
(*   agent/lib/reminders/reminder-repository.ts                            *)
(*   agent/lib/reminders/reminder-dispatch-repository.ts                   *)
(*   agent/lib/reminders/reminder-dispatcher.ts                            *)
(*   agent/lib/reminders/task-reminder-link.ts                             *)
(*   agent/lib/shared-task-transition.ts                                   *)
(*                                                                         *)
(* A dispatcher leases what is due and carries the jobs of its batch one   *)
(* after another; an old batch may still be running when the next minute   *)
(* claims again, so a reminder can have several jobs, told apart by token. *)
(***************************************************************************)
EXTENDS Integers, FiniteSets

CONSTANTS
    Reminders,              \* the reminders of the household
    ReminderTokens,         \* lease tokens that can be in use at once
    ReminderAttempts,       \* REMINDER_DISPATCH_MAX_SAFE_ATTEMPTS
    MaxArms,                \* bound: times a reminder is set to a new time
    MaxTaskMoves,           \* bound: changes of the linked task
    MaxReminderChanges,     \* bound: changes by people: of a reminder, of
                            \* membership, audience and quiet hours
    MaxReminderFaults       \* bound: crashes and failed calls

ASSUME ReminderConstants ==
    /\ ReminderTokens \in Nat /\ MaxReminderChanges \in Nat /\ MaxTaskMoves \in Nat
    /\ MaxReminderFaults \in Nat /\ ReminderAttempts \in Nat \ {0} /\ MaxArms \in Nat \ {0}

VARIABLES
    reminder,       \* rows of reminders
    job,            \* jobs of the running dispatchers, by reminder and token
    posted,         \* history: messages sent, by reminder and arm
    receipt,        \* proactive_deliveries: the record of a delivery, by reminder and
                    \* arm, and what became of its copy in the journal of the group
    household,      \* membership, proof of the audience and quiet hours
    task,           \* the linked task, and whether its assignee is the author
    changes, mishaps   \* counters of the bounds

remindersVars == <<reminder, job, posted, receipt, household, task,
                   changes, mishaps>>

Tokens == 1..ReminderTokens
Arms   == 1..MaxArms
Unleased == 0
Jobs == [at : {"none", "claimed", "linked", "proven", "marked", "sent", "failing", "journal"},
         arm : 0..MaxArms, group : BOOLEAN]

RemindersTypeOK ==
    /\ reminder \in [Reminders ->
           [status : {"none", "active", "leased", "paused", "completed", "failed"},
            attempts : 0..ReminderAttempts, lease : 0..ReminderTokens, expired : BOOLEAN,
            started : BOOLEAN, due : BOOLEAN, arm : 0..MaxArms, repeats : BOOLEAN,
            link : {"group", "execution", "response"}]]
    \* the CHECK of the table: a lease and nothing else has a token, and only a
    \* lease can have a dispatch that started
    /\ \A r \in Reminders : /\ (reminder[r].lease # Unleased) = (reminder[r].status = "leased")
                            /\ reminder[r].started => reminder[r].status = "leased"
    /\ job \in [Reminders -> [Tokens -> Jobs]]
    /\ posted \in [Reminders -> [Arms -> 0..2]]
    /\ receipt \in [Reminders -> [Arms -> {"none", "recorded", "shown", "interrupted"}]]
    /\ household \in [member : BOOLEAN, proven : BOOLEAN, quiet : BOOLEAN]
    /\ task \in [status : {"open", "proposed", "accepted", "closed", "declined"},
                 holder : BOOLEAN, moves : 0..MaxTaskMoves]
    /\ changes \in 0..MaxReminderChanges
    /\ mishaps \in 0..MaxReminderFaults

NoReminder == [status |-> "none", attempts |-> 0, lease |-> Unleased, expired |-> FALSE,
               started |-> FALSE, due |-> FALSE, arm |-> 0, repeats |-> FALSE, link |-> "group"]
NoJob == [at |-> "none", arm |-> 0, group |-> FALSE]

RemindersInit ==
    /\ reminder = [r \in Reminders |-> NoReminder]
    /\ job = [r \in Reminders |-> [t \in Tokens |-> NoJob]]
    /\ posted = [r \in Reminders |-> [a \in Arms |-> 0]]
    /\ receipt = [r \in Reminders |-> [a \in Arms |-> "none"]]
    /\ household = [member |-> TRUE, proven |-> TRUE, quiet |-> FALSE]
    \* a task its author asked another to take, or one the author carries out
    /\ task \in {[status |-> "proposed", holder |-> FALSE, moves |-> 0],
                 [status |-> "accepted", holder |-> TRUE, moves |-> 0]}
    /\ changes = 0 /\ mishaps = 0

Change == changes < MaxReminderChanges /\ changes' = changes + 1
Mishap == mishaps < MaxReminderFaults /\ mishaps' = mishaps + 1

\* linkedTaskActive. A reminder of the group has no task; one linked to a task,
\* for carrying it out or for its answer, goes to its author's own chat.
LinkActive(link) == CASE link = "group" -> TRUE
                      [] link = "execution" -> task.status = "accepted" /\ task.holder
                      [] link = "response" -> task.status = "proposed" /\ ~task.holder
LeftQueue_KeepsLease(row, status) == [row EXCEPT !.status = status, !.expired = FALSE, !.started = FALSE]
LeftQueue(row, status) ==
    [row EXCEPT !.status = status, !.lease = Unleased, !.expired = FALSE, !.started = FALSE]

-----------------------------------------------------------------------------
(* What a person does with a reminder. *)

CreateReminder(r, repeats, link) ==
    /\ reminder[r].arm = 0 /\ household.member /\ LinkActive(link)
    /\ reminder' = [reminder EXCEPT ![r] = [NoReminder EXCEPT !.status = "active", !.arm = 1,
                                               !.repeats = repeats, !.link = link]]
    /\ UNCHANGED <<job, posted, receipt, household, task, changes, mishaps>>

\* A new time, or switching it on or off. What is being sent cannot be changed.
Retimed(row, retime, enable) ==
    [row EXCEPT !.status = CASE enable = "off" -> "paused"
                             [] enable = "on" -> "active"
                             [] OTHER -> @,
                !.attempts = IF retime \/ enable = "on" THEN 0 ELSE @,
                !.due = IF retime THEN FALSE ELSE @,
                !.arm = IF retime \/ enable = "on" THEN @ + 1 ELSE @]
UpdateReminder(r, retime, enable) ==
    LET row == reminder[r]
    IN  /\ row.status \notin {"none", "leased"} /\ household.member /\ Change
        /\ retime \/ enable # "keep"
        /\ (retime \/ enable = "on") => row.arm < MaxArms
        /\ (enable = "on" /\ row.status = "completed") => retime
        /\ enable # "off" => LinkActive(row.link)
        /\ reminder' = [reminder EXCEPT ![r] = Retimed(row, retime, enable)]
        /\ UNCHANGED <<job, posted, receipt, household, task, mishaps>>

DeleteReminder(r) ==
    /\ reminder[r].status \notin {"none", "leased"} /\ household.member /\ Change
    /\ reminder' = [reminder EXCEPT ![r] = [NoReminder EXCEPT !.arm = reminder[r].arm]]
    /\ UNCHANGED <<job, posted, receipt, household, task, mishaps>>

-----------------------------------------------------------------------------
(* claimDue: one transaction. *)

\* mutant: an expired lease is tried again even if its dispatch was marked
Recovered_TriesAgain(row) ==
    IF row.status = "leased" /\ row.expired
    THEN LeftQueue(row, IF row.attempts >= ReminderAttempts THEN "failed" ELSE "active") ELSE row
\* An expired lease: ambiguous once the dispatch was marked, else another attempt.
Recovered(row) ==
    IF row.status = "leased" /\ row.expired
    THEN LeftQueue(row, IF row.started \/ row.attempts >= ReminderAttempts THEN "failed" ELSE "active")
    ELSE row
\* A removed member, a task that is over, quiet hours.
Revoked(row) == IF row.status = "active" /\ ~household.member
                THEN [row EXCEPT !.status = "failed"] ELSE row
Unlinked(row) == IF row.status = "active" /\ ~LinkActive(row.link)
                 THEN [row EXCEPT !.status = "paused"] ELSE row
Deferred(row) == IF row.status = "active" /\ row.due /\ household.quiet
                 THEN [row EXCEPT !.due = FALSE] ELSE row
Swept(row) == Deferred(Unlinked(Revoked(Recovered(row))))

FreeTokens(r) == {t \in Tokens : job[r][t].at = "none"}
Claimable(r) ==
    LET row == Swept(reminder[r])
    IN  row.status = "active" /\ row.due /\ row.attempts < ReminderAttempts /\ FreeTokens(r) # {}
NewToken(r) == CHOOSE t \in FreeTokens(r) : TRUE

ClaimDue ==
    /\ reminder' = [r \in Reminders |->
           IF Claimable(r)
           THEN [Swept(reminder[r]) EXCEPT !.status = "leased", !.attempts = @ + 1,
                     !.lease = NewToken(r), !.expired = FALSE, !.started = FALSE]
           ELSE Swept(reminder[r])]
    /\ job' = [r \in Reminders |->
           IF Claimable(r)
           THEN [job[r] EXCEPT ![NewToken(r)] = 
                   [at |-> "claimed", arm |-> reminder[r].arm,
                    group |-> reminder[r].link = "group"]]
           ELSE job[r]]
    /\ UNCHANGED <<posted, receipt, household, task, changes, mishaps>>

-----------------------------------------------------------------------------
(* A job of the batch. *)

Holds(r, t) == reminder[r].status = "leased" /\ reminder[r].lease = t
JobTo(r, t, at) == job' = [job EXCEPT ![r][t].at = at]
JobEnds(r, t) == job' = [job EXCEPT ![r][t] = NoJob]

\* checkLinkedReminderBeforeDispatch: a denial fails the reminder.
CheckLink(r, t) ==
    /\ job[r][t].at = "claimed"
    /\ IF Holds(r, t) /\ ~LinkActive(reminder[r].link)
       THEN JobTo(r, t, "failing") ELSE JobTo(r, t, "linked")
    /\ UNCHANGED <<reminder, posted, receipt, household, task, changes, mishaps>>

\* holdUnprovenDestination: an audience in doubt waits and costs no attempt.
Held(row) == [LeftQueue(row, "active") EXCEPT !.attempts = IF @ > 0 THEN @ - 1 ELSE 0, !.due = FALSE]
CheckAudience(r, t) ==
    /\ job[r][t].at = "linked"
    /\ IF Holds(r, t) /\ ~household.proven
       THEN /\ reminder' = [reminder EXCEPT ![r] = Held(@)]
            /\ JobEnds(r, t)
       ELSE JobTo(r, t, "proven") /\ UNCHANGED reminder
    /\ UNCHANGED <<posted, receipt, household, task, changes, mishaps>>

\* The marker: from here on the lease is ambiguous. A stale job ends without a trace.
MarkDispatchStarted(r, t) ==
    /\ job[r][t].at = "proven"
    /\ IF Holds(r, t) /\ ~reminder[r].started /\ LinkActive(reminder[r].link)
       THEN /\ reminder' = [reminder EXCEPT ![r].started = TRUE]
            /\ JobTo(r, t, "marked")
       ELSE JobEnds(r, t) /\ UNCHANGED reminder
    /\ UNCHANGED <<posted, receipt, household, task, changes, mishaps>>

Posted(r, t) == [posted EXCEPT ![r][job[r][t].arm] = IF @ < 2 THEN @ + 1 ELSE @]
DeliverReminder(r, t) ==
    /\ job[r][t].at = "marked"
    /\ posted' = Posted(r, t)
    /\ JobTo(r, t, "sent")
    /\ UNCHANGED <<reminder, receipt, household, task, changes, mishaps>>

\* Telegram refuses, or accepts and the answer is lost.
DeliveryFails(r, t) ==
    /\ job[r][t].at = "marked" /\ Mishap
    /\ \E accepted \in BOOLEAN : posted' = IF accepted THEN Posted(r, t) ELSE posted
    /\ JobTo(r, t, "failing")
    /\ UNCHANGED <<reminder, receipt, household, task, changes>>

FailReminder(r, t) ==
    /\ job[r][t].at = "failing"
    /\ reminder' = IF Holds(r, t) THEN [reminder EXCEPT ![r] = LeftQueue(@, "failed")] ELSE reminder
    /\ JobEnds(r, t)
    /\ UNCHANGED <<posted, receipt, household, task, changes, mishaps>>

\* complete: the receipt and the row commit together. A repeating reminder waits
\* for its next time, or is paused when its task is over.
NextOccurrence(row) ==
    [LeftQueue(row, IF LinkActive(row.link) THEN "active" ELSE "paused")
        EXCEPT !.attempts = 0, !.due = FALSE, !.arm = @ + 1]
CompletedRow(row) ==
    IF row.repeats /\ row.arm < MaxArms THEN NextOccurrence(row) ELSE LeftQueue(row, "completed")
Completes(r, t) ==
    /\ Holds(r, t) /\ reminder[r].started
    /\ receipt' = [receipt EXCEPT ![r][job[r][t].arm] = "recorded"]
    /\ reminder' = [reminder EXCEPT ![r] = CompletedRow(@)]

Recorded_Overlooked(r, t) == FALSE
\* A retry that finds its own message recorded has nothing left to do.
Recorded(r, t) == receipt[r][job[r][t].arm] # "none"
ToJournal(r, t) == IF job[r][t].group THEN JobTo(r, t, "journal") ELSE JobEnds(r, t)
CompleteReminder(r, t) ==
    /\ job[r][t].at = "sent"
    /\ \/ Completes(r, t) /\ ToJournal(r, t)
       \/ /\ ~(Holds(r, t) /\ reminder[r].started)
          /\ IF Recorded(r, t) THEN ToJournal(r, t) ELSE JobEnds(r, t)
          /\ UNCHANGED <<reminder, receipt>>
    /\ UNCHANGED <<posted, household, task, changes, mishaps>>

\* The connection breaks after the commit: the dispatcher tries once more.
AcknowledgementLost(r, t) ==
    /\ job[r][t].at = "sent" /\ Mishap
    /\ Completes(r, t)
    /\ UNCHANGED <<job, posted, household, task, changes>>

\* The receipt cannot be written: the lease is left to expire, or, when the error
\* is not one of the connection, the reminder fails.
Interrupted(r, t) ==
    receipt' = [receipt EXCEPT ![r][job[r][t].arm] = IF @ = "recorded" THEN "interrupted" ELSE @]
GiveUpBookkeeping(r, t) ==
    /\ job[r][t].at = "sent" /\ Mishap
    /\ Interrupted(r, t)
    /\ JobEnds(r, t) \/ JobTo(r, t, "failing")
    /\ UNCHANGED <<reminder, posted, household, task, changes>>

\* recordAgentResponse; its failure is reported when the batch is over.
JournalReminder(r, t) ==
    /\ job[r][t].at = "journal"
    /\ \/ receipt' = [receipt EXCEPT ![r][job[r][t].arm] = "shown"] /\ UNCHANGED mishaps
       \/ Mishap /\ Interrupted(r, t)
    /\ JobEnds(r, t)
    /\ UNCHANGED <<reminder, posted, household, task, changes>>

\* The process dies with every batch it was carrying.
Carried(r, arm) == \E t \in Tokens : job[r][t].at # "none" /\ job[r][t].arm = arm
DispatcherDies ==
    /\ \E r \in Reminders, a \in Arms : Carried(r, a)
    /\ Mishap
    /\ receipt' = [r \in Reminders |-> [a \in Arms |->
           IF receipt[r][a] = "recorded" /\ Carried(r, a) THEN "interrupted" ELSE receipt[r][a]]]
    /\ job' = [r \in Reminders |-> [t \in Tokens |-> NoJob]]
    /\ UNCHANGED <<reminder, posted, household, task, changes>>

-----------------------------------------------------------------------------
(* The linked task, applyTaskStatus, and the household. *)

Ended == {"closed", "declined"}

\* An answered request takes back a lease that has not been sent, an ended task
\* pauses what waits, a reopened one returns what still lies ahead.
Answered(row, to) ==
    IF task.status = "proposed" /\ to # "proposed" /\ row.link = "response"
       /\ (row.status \in {"active", "failed"} \/ (row.status = "leased" /\ ~row.started))
    THEN LeftQueue(row, "paused") ELSE row
Finished(row, to) ==
    IF row.link # "group" /\ to \in Ended /\ row.status \in {"active", "failed"}
    THEN [row EXCEPT !.status = "paused"] ELSE row
Reopened(row, to) ==
    IF row.link # "group" /\ task.status = "closed" /\ to \in {"accepted", "proposed"}
       /\ row.status = "paused" /\ ~row.due
    THEN [row EXCEPT !.status = "active"] ELSE row

\* nextSharedTaskStatus and the transfer to another person. holder: the author of
\* the reminder is the assignee of the task, otherwise its creator.
TaskMoves == {<<"proposed", "accepted">>, <<"accepted", "accepted">>, <<"proposed", "declined">>,
              <<"proposed", "closed">>, <<"accepted", "closed">>, <<"accepted", "open">>, <<"open", "accepted">>,
              <<"closed", "accepted">>, <<"closed", "proposed">>}
TaskMove(to) ==
    /\ task.moves < MaxTaskMoves
    /\ <<task.status, to>> \in TaskMoves
    /\ reminder' = [r \in Reminders |-> Reopened(Finished(Answered(reminder[r], to), to), to)]
    /\ \E holder \in CASE task.status = "open" -> BOOLEAN
                       [] to = "open" -> {FALSE}
                       [] task.status = to -> {~task.holder}
                       [] OTHER -> {task.holder} :
           task' = [status |-> to, holder |-> holder, moves |-> task.moves + 1]
    /\ UNCHANGED <<job, posted, receipt, household, changes, mishaps>>

\* What a change took away, except a membership, may come back.
HouseholdChanges ==
    /\ \/ Change /\ household' = [household EXCEPT !.member = FALSE]
       \/ Change /\ household.proven /\ household' = [household EXCEPT !.proven = FALSE]
       \/ Change /\ ~household.quiet /\ household' = [household EXCEPT !.quiet = TRUE]
       \/ /\ household' \in {[household EXCEPT !.proven = TRUE], [household EXCEPT !.quiet = FALSE]}
          /\ UNCHANGED changes
    /\ UNCHANGED <<reminder, job, posted, receipt, task, mishaps>>

ReminderTime(r) ==
    /\ \/ /\ reminder[r].status \in {"active", "paused"} /\ ~reminder[r].due
          /\ reminder' = [reminder EXCEPT ![r].due = TRUE]
       \/ /\ reminder[r].status = "leased" /\ ~reminder[r].expired
          /\ reminder' = [reminder EXCEPT ![r].expired = TRUE]
    /\ UNCHANGED <<job, posted, receipt, household, task, changes, mishaps>>

-----------------------------------------------------------------------------
ReminderJob(r, t) ==
    \/ CheckLink(r, t) \/ CheckAudience(r, t) \/ MarkDispatchStarted(r, t)
    \/ DeliverReminder(r, t) \/ FailReminder(r, t) \/ CompleteReminder(r, t)
    \/ JournalReminder(r, t)
ReminderFault(r, t) ==
    DeliveryFails(r, t) \/ AcknowledgementLost(r, t) \/ GiveUpBookkeeping(r, t)
ReminderPerson(r) ==
    \/ \E repeats \in BOOLEAN, link \in {"group", "execution", "response"} :
           CreateReminder(r, repeats, link)
    \/ \E retime \in BOOLEAN, enable \in {"on", "off", "keep"} : UpdateReminder(r, retime, enable)
    \/ DeleteReminder(r)

RemindersNext ==
    \/ ClaimDue \/ DispatcherDies \/ HouseholdChanges
    \/ \E to \in {"open", "proposed", "accepted", "closed", "declined"} : TaskMove(to)
    \/ \E r \in Reminders :
           \/ ReminderPerson(r) \/ ReminderTime(r)
           \/ \E t \in Tokens : ReminderJob(r, t) \/ ReminderFault(r, t)

RemindersSpec == RemindersInit /\ [][RemindersNext]_remindersVars

\* The minute schedule fires, a batch is carried on, and time passes.
RemindersFairness ==
    /\ WF_remindersVars(ClaimDue)
    /\ \A r \in Reminders : WF_remindersVars(ReminderTime(r))
    /\ \A r \in Reminders, t \in Tokens : WF_remindersVars(ReminderJob(r, t))

-----------------------------------------------------------------------------
(* Properties. *)

\* However a dispatcher crashes, stalls or retries, a reminder is sent at most
\* once for each time a person or its schedule set it to.
ReminderSentOnce == \A r \in Reminders, a \in Arms : posted[r][a] <= 1

\* A group delivery that was recorded also reaches the journal of its chat unless
\* the dispatcher was interrupted. A lost acknowledgement does not stop it.
RecordedReachesTimeline ==
    \A r \in Reminders, a \in Arms :
        receipt[r][a] = "recorded" /\ reminder[r].link = "group" /\ reminder[r].status # "none" =>
            \E t \in Tokens : job[r][t].arm = a /\ job[r][t].at \in {"sent", "journal"}

\* Nothing stays in the queue for ever: what is due is sent, failed or paused,
\* unless its audience cannot be proven or the quiet hours never end.
RemindersLeaveQueue ==
    \A r \in Reminders :
        []<>(reminder[r].status \notin {"active", "leased"} \/ ~household.proven \/ household.quiet)

=============================================================================
