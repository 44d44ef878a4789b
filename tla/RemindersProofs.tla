---------------------------- MODULE RemindersProofs ----------------------------
(***************************************************************************)
(* Proofs about Reminders for any number of reminders, of overlapping      *)
(* batches, of attempts and of changes: the rows keep their shape, and a   *)
(* reminder is sent at most once for each time it was set to.              *)
(***************************************************************************)
EXTENDS Reminders, TLAPS

(***************************************************************************)
(* A reminder rests when no dispatcher may send what it is set to now: its *)
(* dispatch was marked, or it left the queue when its time had come.  What *)
(* has left the queue comes back with a new arm (a new time, the next      *)
(* occurrence, a switch by its author) or, when its task is reopened, only *)
(* while its time still lies ahead.  So an arm that may have been sent     *)
(* rests until the row moves on to the next arm.                           *)
(***************************************************************************)
RowType ==
    [status : {"none", "active", "leased", "paused", "completed", "failed"},
     attempts : 0..ReminderAttempts, lease : 0..ReminderTokens, expired : BOOLEAN,
     started : BOOLEAN, due : BOOLEAN, arm : 0..MaxArms, repeats : BOOLEAN,
     link : {"group", "execution", "response"}]
RowOK(row) ==
    /\ row \in RowType
    /\ (row.lease # Unleased) = (row.status = "leased")
    /\ row.started => row.status = "leased"
    /\ row.status # "none" => row.arm # 0
    /\ row.status = "leased" => row.due
ReminderRests(row) ==
    \/ row.status = "none"
    \/ row.status = "leased" /\ row.started
    \/ row.status \in {"failed", "paused", "completed"} /\ row.due
\* What a step that leases and marks nothing may do to a row.
Moves(row, new) ==
    /\ row.arm <= new.arm
    /\ new.status = "leased" => /\ row.status = "leased" /\ new.arm = row.arm
                                /\ new.lease = row.lease /\ new.started = row.started
    /\ (new.arm = row.arm /\ ReminderRests(row)) => ReminderRests(new)
    /\ row.arm # 0 /\ new.status # "none" => row.status # "none" /\ new.link = row.link

LEMMA RowFields ==
    ASSUME NEW row \in RowType
    PROVE  /\ row.status \in {"none", "active", "leased", "paused", "completed", "failed"}
           /\ row.attempts \in 0..ReminderAttempts /\ row.lease \in 0..ReminderTokens
           /\ row.expired \in BOOLEAN /\ row.started \in BOOLEAN /\ row.due \in BOOLEAN
           /\ row.arm \in 0..MaxArms /\ row.repeats \in BOOLEAN
           /\ row.link \in {"group", "execution", "response"}
  BY DEF RowType

LEMMA MovesTransitive ==
    ASSUME NEW a, NEW b, NEW c, RowOK(a), RowOK(b), RowOK(c), Moves(a, b), Moves(b, c)
    PROVE  Moves(a, c)
<1>1. a.arm \in Nat /\ b.arm \in Nat /\ c.arm \in Nat
  BY ReminderConstants DEF RowOK, RowType
<1>2. QED
  BY <1>1 DEF Moves

LEMMA LeftQueueMoves ==
    ASSUME NEW row, RowOK(row), row.status # "none",
           NEW status \in {"active", "paused", "completed", "failed"},
           ReminderRests(row) /\ status = "active" => FALSE
    PROVE  RowOK(LeftQueue(row, status)) /\ Moves(row, LeftQueue(row, status))
<1> DEFINE new == LeftQueue(row, status)
<1>1. /\ new.status = status /\ new.lease = Unleased /\ new.expired = FALSE /\ new.started = FALSE
      /\ new.due = row.due /\ new.arm = row.arm /\ new.link = row.link
  BY DEF LeftQueue, RowOK, RowType
<1>2. new \in RowType
  <2>1. 0 \in 0..ReminderTokens
    BY ReminderConstants
  <2>2. QED
    BY <2>1 DEF LeftQueue, RowOK, RowType, Unleased
<1>3. RowOK(new)
  BY <1>1, <1>2 DEF RowOK
<1>4. Moves(row, new)
  BY <1>1, ReminderConstants DEF Moves, ReminderRests, RowOK, RowType
<1>5. QED
  BY <1>3, <1>4

LEMMA StatusMoves ==
    ASSUME NEW row, RowOK(row), row.status \notin {"none", "leased"},
           NEW status \in {"active", "paused", "completed", "failed"},
           status = "active" => ~ReminderRests(row)
    PROVE  /\ RowOK([row EXCEPT !.status = status])
           /\ Moves(row, [row EXCEPT !.status = status])
<1> DEFINE new == [row EXCEPT !.status = status]
<1>1. /\ new.status = status /\ new.lease = row.lease /\ new.started = row.started
      /\ new.due = row.due /\ new.arm = row.arm /\ new.link = row.link
  BY DEF RowOK, RowType
<1>2. new \in RowType
  BY DEF RowOK, RowType
<1>3. RowOK(new)
  BY <1>1, <1>2 DEF RowOK
<1>4. Moves(row, new)
  BY <1>1, ReminderConstants DEF Moves, ReminderRests, RowOK, RowType
<1>5. QED
  BY <1>3, <1>4

LEMMA SameMoves ==
    ASSUME NEW row, RowOK(row)
    PROVE  Moves(row, row)
  BY ReminderConstants DEF Moves, RowOK, RowType

\* The statements of claimDue that come before the lease.
LEMMA SweptMoves ==
    ASSUME NEW row, RowOK(row)
    PROVE  RowOK(Swept(row)) /\ Moves(row, Swept(row))
<1> DEFINE a == Recovered(row)
<1> DEFINE b == Revoked(a)
<1> DEFINE c == Unlinked(b)
<1> DEFINE d == Deferred(c)
<1>1. RowOK(a) /\ Moves(row, a)
  <2>1. CASE row.status = "leased" /\ row.expired
    <3> DEFINE status == IF row.started \/ row.attempts >= ReminderAttempts THEN "failed" ELSE "active"
    <3>1. status \in {"active", "failed"} /\ (ReminderRests(row) /\ status = "active" => FALSE)
      BY <2>1 DEF ReminderRests
    <3>2. a = LeftQueue(row, status)
      BY <2>1 DEF Recovered
    <3>3. QED
      BY <2>1, <3>1, <3>2, LeftQueueMoves
  <2>2. CASE ~(row.status = "leased" /\ row.expired)
    BY <2>2, SameMoves DEF Recovered
  <2>3. QED
    BY <2>1, <2>2
<1>2. RowOK(b) /\ Moves(a, b)
  BY <1>1, StatusMoves, SameMoves DEF Revoked, ReminderRests
<1>3. RowOK(c) /\ Moves(b, c)
  BY <1>2, StatusMoves, SameMoves DEF Unlinked, ReminderRests
<1>4. RowOK(d) /\ Moves(c, d)
  <2>1. CASE c.status = "active" /\ c.due /\ household.quiet
    <3>1. d = [c EXCEPT !.due = FALSE]
      BY <2>1 DEF Deferred
    <3>2. /\ d.status = c.status /\ d.lease = c.lease /\ d.started = c.started /\ d.arm = c.arm
          /\ d.link = c.link
      BY <3>1, <1>3 DEF RowOK, RowType
    <3>3. d \in RowType
      BY <3>1, <1>3 DEF RowOK, RowType
    <3>4. RowOK(d)
      BY <2>1, <3>2, <3>3, <1>3 DEF RowOK
    <3>5. Moves(c, d)
      BY <2>1, <3>2, <1>3, ReminderConstants DEF Moves, ReminderRests, RowOK, RowType
    <3>6. QED
      BY <3>4, <3>5
  <2>2. CASE ~(c.status = "active" /\ c.due /\ household.quiet)
    BY <2>2, <1>3, SameMoves DEF Deferred
  <2>3. QED
    BY <2>1, <2>2
<1>5. d = Swept(row)
  BY DEF Swept
<1>6. Moves(row, b)
  BY <1>1, <1>2, MovesTransitive
<1>7. Moves(row, c)
  BY <1>2, <1>3, <1>6, MovesTransitive
<1>8. QED
  BY <1>3, <1>4, <1>5, <1>7, MovesTransitive

LEMMA SweptArm ==
    ASSUME NEW row, RowOK(row)
    PROVE  Swept(row).arm = row.arm
<1>1. \A x \in RowType : \A status \in {"active", "paused", "failed"} :
          /\ LeftQueue(x, status) \in RowType /\ LeftQueue(x, status).arm = x.arm
          /\ [x EXCEPT !.status = status] \in RowType /\ [x EXCEPT !.status = status].arm = x.arm
          /\ [x EXCEPT !.due = FALSE].arm = x.arm
  <2>1. 0 \in 0..ReminderTokens
    BY ReminderConstants
  <2>2. ASSUME NEW x \in RowType, NEW status \in {"active", "paused", "failed"}
        PROVE  LeftQueue(x, status) \in RowType /\ LeftQueue(x, status).arm = x.arm
    BY <2>1 DEF RowType, LeftQueue, Unleased
  <2>3. ASSUME NEW x \in RowType, NEW status \in {"active", "paused", "failed"}
        PROVE  /\ [x EXCEPT !.status = status] \in RowType /\ [x EXCEPT !.status = status].arm = x.arm
               /\ [x EXCEPT !.due = FALSE].arm = x.arm
    BY DEF RowType
  <2>4. QED
    BY <2>2, <2>3
<1>2. Recovered(row) \in RowType /\ Recovered(row).arm = row.arm
  BY <1>1 DEF Recovered, RowOK
<1>3. Revoked(Recovered(row)) \in RowType /\ Revoked(Recovered(row)).arm = row.arm
  BY <1>1, <1>2 DEF Revoked
<1>4. /\ Unlinked(Revoked(Recovered(row))) \in RowType
      /\ Unlinked(Revoked(Recovered(row))).arm = row.arm
  BY <1>1, <1>3 DEF Unlinked
<1>5. QED
  BY <1>1, <1>4 DEF Swept, Deferred

\* An answered, ended or reopened task: what waited pauses, what was marked stays.
LEMMA TaskMovesRow ==
    ASSUME NEW row, RowOK(row), NEW to
    PROVE  /\ RowOK(Reopened(Finished(Answered(row, to), to), to))
           /\ Moves(row, Reopened(Finished(Answered(row, to), to), to))
<1> DEFINE a == Answered(row, to)
<1> DEFINE b == Finished(a, to)
<1> DEFINE c == Reopened(b, to)
<1>1. RowOK(a) /\ Moves(row, a)
  <2>1. CASE a = row
    BY <2>1, SameMoves
  <2>2. CASE a # row
    <3>1. a = LeftQueue(row, "paused") /\ row.status # "none"
      BY <2>2 DEF Answered
    <3>2. QED
      BY <3>1, LeftQueueMoves
  <2>3. QED
    BY <2>1, <2>2
<1>2. RowOK(b) /\ Moves(a, b)
  <2>1. CASE b = a
    BY <2>1, <1>1, SameMoves
  <2>2. CASE b # a
    <3>1. b = [a EXCEPT !.status = "paused"] /\ a.status \notin {"none", "leased"}
      BY <2>2 DEF Finished
    <3>2. QED
      BY <1>1, <3>1, StatusMoves
  <2>3. QED
    BY <2>1, <2>2
<1>3. RowOK(c) /\ Moves(b, c)
  <2>1. CASE c = b
    BY <2>1, <1>2, SameMoves
  <2>2. CASE c # b
    <3>1. c = [b EXCEPT !.status = "active"] /\ b.status = "paused" /\ ~b.due
      BY <2>2 DEF Reopened
    <3>2. ~ReminderRests(b)
      BY <3>1 DEF ReminderRests
    <3>3. QED
      BY <1>2, <3>1, <3>2, StatusMoves
  <2>3. QED
    BY <2>1, <2>2
<1>4. Moves(row, b)
  BY <1>1, <1>2, MovesTransitive
<1>5. QED
  BY <1>2, <1>3, <1>4, MovesTransitive

\* A change of its time, on or off: only a new arm wakes a reminder that rests.
LEMMA RetimedMoves ==
    ASSUME NEW row, RowOK(row), row.status \notin {"none", "leased"},
           NEW retime \in BOOLEAN, NEW enable \in {"on", "off", "keep"},
           retime \/ enable # "keep", (retime \/ enable = "on") => row.arm < MaxArms
    PROVE  RowOK(Retimed(row, retime, enable)) /\ Moves(row, Retimed(row, retime, enable))
<1> DEFINE new == Retimed(row, retime, enable)
<1>1. /\ new.lease = row.lease /\ new.started = row.started /\ new.link = row.link
      /\ new.status = CASE enable = "off" -> "paused" [] enable = "on" -> "active"
                        [] OTHER -> row.status
      /\ new.arm = IF retime \/ enable = "on" THEN row.arm + 1 ELSE row.arm
      /\ new.due = IF retime THEN FALSE ELSE row.due
  BY DEF Retimed, RowOK, RowType
<1>2. /\ new.status \in {"active", "paused", "completed", "failed"}
      /\ enable = "off" => new.status = "paused"
  BY <1>1, RowFields DEF RowOK
<1>3. new.arm \in 0..MaxArms /\ row.arm \in 0..MaxArms /\ row.arm \in Nat /\ new.arm # 0
  BY <1>1, ReminderConstants, RowFields DEF RowOK
<1>4. new \in RowType
  <2>1. 0 \in 0..ReminderAttempts
    BY ReminderConstants
  <2>2. QED
    BY <1>1, <1>2, <1>3, <2>1 DEF Retimed, RowOK, RowType
<1>5. RowOK(new)
  BY <1>1, <1>2, <1>3, <1>4 DEF RowOK
<1>6. CASE retime \/ enable = "on"
  BY <1>1, <1>2, <1>3, <1>5, <1>6 DEF Moves
<1>7. CASE ~(retime \/ enable = "on")
  <2>1. new.arm = row.arm /\ new.due = row.due /\ new.status = "paused"
    BY <1>1, <1>2, <1>7
  <2>2. QED
    BY <1>1, <1>3, <1>5, <2>1 DEF Moves, ReminderRests
<1>8. QED
  BY <1>6, <1>7

LEMMA NoReminderOK == RowOK(NoReminder)
<1>1. 0 \in 0..ReminderTokens /\ 0 \in 0..ReminderAttempts /\ 0 \in 0..MaxArms
  BY ReminderConstants
<1>2. QED
  BY <1>1 DEF RowOK, RowType, NoReminder, Unleased

LEMMA CreatedMoves ==
    ASSUME NEW row, RowOK(row), row.arm = 0, NEW repeats \in BOOLEAN,
           NEW link \in {"group", "execution", "response"},
           NEW new, new = [NoReminder EXCEPT !.status = "active", !.arm = 1,
                                             !.repeats = repeats, !.link = link]
    PROVE  RowOK(new) /\ Moves(row, new)
<1>1. 0 \in 0..ReminderTokens /\ 0 \in 0..ReminderAttempts /\ 1 \in 0..MaxArms
  BY ReminderConstants
<1>2. new \in RowType
  BY <1>1 DEF RowType, NoReminder, Unleased
<1>3. new.status = "active" /\ new.arm = 1 /\ new.lease = Unleased /\ ~new.started
  BY DEF NoReminder
<1>4. QED
  BY <1>2, <1>3 DEF RowOK, Moves

LEMMA DeletedMoves ==
    ASSUME NEW row, RowOK(row), NEW new, new = [NoReminder EXCEPT !.arm = row.arm]
    PROVE  RowOK(new) /\ Moves(row, new)
<1>1. row.arm \in 0..MaxArms /\ row.arm \in Int
  BY ReminderConstants, RowFields DEF RowOK
<1>2. 0 \in 0..ReminderTokens /\ 0 \in 0..ReminderAttempts
  BY ReminderConstants
<1>3. new \in RowType
  BY <1>1, <1>2 DEF RowType, NoReminder, Unleased
<1>4. new.status = "none" /\ new.arm = row.arm /\ new.lease = Unleased /\ ~new.started
  BY DEF NoReminder
<1>5. QED
  BY <1>1, <1>3, <1>4 DEF RowOK, Moves, ReminderRests

\* Delivered: over, or waiting for the next occurrence under a new arm.
LEMMA CompletedMoves ==
    ASSUME NEW row, RowOK(row), row.status = "leased", row.started
    PROVE  RowOK(CompletedRow(row)) /\ Moves(row, CompletedRow(row))
<1>1. CASE row.repeats /\ row.arm < MaxArms
  <2> DEFINE status == IF LinkActive(row.link) THEN "active" ELSE "paused"
  <2> DEFINE new == CompletedRow(row)
  <2>1. new = [LeftQueue(row, status) EXCEPT !.attempts = 0, !.due = FALSE, !.arm = @ + 1]
    BY <1>1 DEF CompletedRow, NextOccurrence
  <2>2. /\ new.status = status /\ new.arm = row.arm + 1 /\ new.lease = Unleased /\ ~new.started
        /\ new.link = row.link
    BY <2>1 DEF LeftQueue, RowOK, RowType
  <2>3. row.arm \in Nat /\ row.arm + 1 \in 0..MaxArms
    BY <1>1, ReminderConstants, RowFields DEF RowOK
  <2>4. 0 \in 0..ReminderTokens /\ 0 \in 0..ReminderAttempts
    BY ReminderConstants
  <2>6. status \in {"active", "paused"}
    OBVIOUS
  <2> HIDE DEF status, new
  <2>5. new \in RowType
    <3>1. LeftQueue(row, status) \in RowType /\ LeftQueue(row, status).arm = row.arm
      BY <2>4, <2>6 DEF LeftQueue, RowOK, RowType, Unleased
    <3>2. QED
      BY <2>1, <2>3, <2>4, <3>1 DEF RowType
  <2>7. new.status \in {"active", "paused"} /\ new.arm # 0 /\ new.arm # row.arm /\ row.arm <= new.arm
    BY <2>2, <2>3, <2>6
  <2>8. RowOK(new)
    BY <2>2, <2>5, <2>7 DEF RowOK
  <2>9. Moves(row, new)
    BY <2>2, <2>7 DEF Moves
  <2>10. QED
    BY <2>8, <2>9 DEF new
<1>2. CASE ~(row.repeats /\ row.arm < MaxArms)
  BY <1>2, LeftQueueMoves DEF CompletedRow
<1>3. QED
  BY <1>1, <1>2

\* An audience in doubt: the lease is given back before anything was marked.
LEMMA HeldMoves ==
    ASSUME NEW row, RowOK(row), row.status = "leased", ~row.started
    PROVE  RowOK(Held(row)) /\ Moves(row, Held(row))
<1> DEFINE new == Held(row)
<1>1. /\ new.status = "active" /\ new.lease = Unleased /\ new.started = FALSE
      /\ new.arm = row.arm /\ new.link = row.link
  BY DEF Held, LeftQueue, RowOK, RowType
<1>2. (IF row.attempts > 0 THEN row.attempts - 1 ELSE 0) \in 0..ReminderAttempts
  BY ReminderConstants, RowFields DEF RowOK
<1>3. 0 \in 0..ReminderTokens
  BY ReminderConstants
<1>4. new \in RowType
  BY <1>2, <1>3 DEF Held, LeftQueue, RowOK, RowType, Unleased
<1>5. row.arm \in Int /\ row.arm # 0
  BY ReminderConstants, RowFields DEF RowOK
<1>6. QED
  BY <1>1, <1>4, <1>5 DEF RowOK, Moves, ReminderRests

LEMMA TimeMoves ==
    ASSUME NEW row, RowOK(row),
           NEW new, \/ row.status \in {"active", "paused"} /\ new = [row EXCEPT !.due = TRUE]
                    \/ row.status = "leased" /\ new = [row EXCEPT !.expired = TRUE]
    PROVE  RowOK(new) /\ Moves(row, new)
<1>1. /\ new.status = row.status /\ new.lease = row.lease /\ new.started = row.started
      /\ new.arm = row.arm /\ (row.due => new.due) /\ new.link = row.link
  BY DEF RowOK, RowType
<1>2. new \in RowType
  BY DEF RowOK, RowType
<1>3. row.arm \in Int
  BY ReminderConstants, RowFields DEF RowOK
<1>4. QED
  BY <1>1, <1>2, <1>3 DEF RowOK, Moves, ReminderRests

(***************************************************************************)
(* The invariant relates the row of one reminder, its jobs and what was    *)
(* sent of it.                                                             *)
(***************************************************************************)
HoldsRow(row, t) == row.status = "leased" /\ row.lease = t
Early == {"claimed", "linked", "proven"}
MayBeSent(row, jobs, sent) ==
    \E a \in Arms : /\ a = row.arm
                    /\ sent[a] > 0 \/ \E t \in Tokens : jobs[t].at = "marked" /\ jobs[t].arm = a

Fits(row, jobs, sent) ==
    /\ RowOK(row)
    /\ jobs \in [Tokens -> Jobs]
    /\ sent \in [Arms -> 0..1]
    \* a job was leased for an arm the row has reached, and its lease for the present one
    /\ \A t \in Tokens : jobs[t].at # "none" =>
           /\ jobs[t].arm # 0 /\ jobs[t].arm <= row.arm
           /\ HoldsRow(row, t) => jobs[t].arm = row.arm
           /\ HoldsRow(row, t) /\ jobs[t].at \in Early => ~row.started
           /\ row.status # "none" => jobs[t].group = (row.link = "group")
    \* behind the marker there is one job, and it has not sent
    /\ \A t \in Tokens : jobs[t].at = "marked" => sent[jobs[t].arm] = 0
    /\ \A t, u \in Tokens : jobs[t].at = "marked" /\ jobs[u].at = "marked"
                            /\ jobs[t].arm = jobs[u].arm => t = u
    /\ \A a \in Arms : a > row.arm => sent[a] = 0
    /\ MayBeSent(row, jobs, sent) => ReminderRests(row)

\* What a step that leases, marks and sends nothing may do to the jobs.
CalmJob(old, new) ==
    new.at # "none" => /\ old.at # "none" /\ new.arm = old.arm /\ new.group = old.group
                       /\ new.at = "marked" => old.at = "marked"
                       /\ new.at \in Early => old.at \in Early
Calm(jobs, new) == \A t \in Tokens : CalmJob(jobs[t], new[t])

LEMMA ArmTypes ==
    /\ Arms \subseteq Nat /\ Arms \subseteq 0..MaxArms /\ 0 \notin Arms
    /\ \A a \in 0..MaxArms : a \in Nat /\ (a # 0 => a \in Arms)
  BY ReminderConstants DEF Arms

LEMMA CalmStep ==
    ASSUME NEW row, NEW jobs, NEW sent, Fits(row, jobs, sent),
           NEW new, RowOK(new), Moves(row, new),
           NEW moved \in [Tokens -> Jobs], Calm(jobs, moved)
    PROVE  Fits(new, moved, sent)
<1>1. /\ row.arm \in Nat /\ new.arm \in Nat /\ row.arm <= new.arm
  BY ArmTypes, RowFields DEF Fits, RowOK, Moves
<1>2. \A t \in Tokens : /\ jobs[t].arm \in Nat /\ moved[t].arm \in Nat
                        /\ moved[t].at # "none" => /\ jobs[t].at # "none"
                                                   /\ moved[t].arm = jobs[t].arm
                                                   /\ moved[t].group = jobs[t].group
                        /\ moved[t].at = "marked" => jobs[t].at = "marked"
                        /\ moved[t].at \in Early => jobs[t].at \in Early
  BY ArmTypes DEF Fits, Jobs, Calm, CalmJob, Early
<1>3. \A t \in Tokens : HoldsRow(new, t) =>
          HoldsRow(row, t) /\ new.arm = row.arm /\ new.started = row.started
  BY DEF HoldsRow, Moves
<1>4. \A t \in Tokens : moved[t].at # "none" =>
           /\ moved[t].arm # 0 /\ moved[t].arm <= new.arm
           /\ HoldsRow(new, t) => moved[t].arm = new.arm
           /\ HoldsRow(new, t) /\ moved[t].at \in Early => ~new.started
           /\ new.status # "none" => moved[t].group = (new.link = "group")
  BY <1>1, <1>2, <1>3 DEF Fits, Moves
<1>5. \A t \in Tokens : moved[t].at = "marked" => sent[moved[t].arm] = 0
  BY <1>2 DEF Fits
<1>6. \A t, u \in Tokens : moved[t].at = "marked" /\ moved[u].at = "marked"
                           /\ moved[t].arm = moved[u].arm => t = u
  BY <1>2 DEF Fits
<1>7. \A a \in Arms : a > new.arm => sent[a] = 0
  BY <1>1, ArmTypes DEF Fits
<1>8. ASSUME MayBeSent(new, moved, sent) PROVE ReminderRests(new)
  <2>1. PICK a \in Arms : /\ a = new.arm
                          /\ sent[a] > 0 \/ \E t \in Tokens : moved[t].at = "marked" /\ moved[t].arm = a
    BY <1>8 DEF MayBeSent
  <2>2. sent[a] \in 0..1 /\ a \in Nat
    BY ArmTypes DEF Fits
  <2>3. new.arm = row.arm
    <3>1. CASE sent[a] > 0
      <4>1. ~(a > row.arm)
        BY <2>2, <3>1 DEF Fits
      <4>2. QED
        BY <1>1, <2>1, <2>2, <4>1
    <3>2. CASE \E t \in Tokens : moved[t].at = "marked" /\ moved[t].arm = a
      <4>1. PICK t \in Tokens : moved[t].at = "marked" /\ moved[t].arm = a
        BY <3>2
      <4>2. jobs[t].arm <= row.arm /\ jobs[t].arm = a
        BY <1>2, <4>1 DEF Fits
      <4>3. QED
        BY <1>1, <2>1, <4>2
    <3>3. QED
      BY <2>1, <3>1, <3>2
  <2>4. MayBeSent(row, jobs, sent)
    BY <1>2, <2>1, <2>3 DEF MayBeSent
  <2>5. QED
    BY <2>3, <2>4 DEF Fits, Moves
<1>9. sent \in [Arms -> 0..1]
  BY DEF Fits
<1>10. QED
  BY <1>4, <1>5, <1>6, <1>7, <1>8, <1>9 DEF Fits

Leased(row, t) == [row EXCEPT !.status = "leased", !.attempts = @ + 1, !.lease = t,
                              !.expired = FALSE, !.started = FALSE]

\* A lease: the reminder was active and had a free token.
LEMMA LeaseFits ==
    ASSUME NEW row, NEW jobs, NEW sent, Fits(row, jobs, sent),
           row.status = "active", row.due, row.attempts < ReminderAttempts,
           NEW t \in Tokens, jobs[t].at = "none",
           NEW claim \in Jobs, claim.at = "claimed", claim.arm = row.arm,
           claim.group = (row.link = "group"),
           NEW moved, moved = [jobs EXCEPT ![t] = claim]
    PROVE  Fits(Leased(row, t), moved, sent)
<1> DEFINE new == Leased(row, t)
<1>1. /\ new.status = "leased" /\ new.lease = t /\ ~new.started /\ new.arm = row.arm
      /\ new.due = row.due /\ new.link = row.link
  BY DEF Leased, Fits, RowOK, RowType
<1>2. t # Unleased /\ t \in 0..ReminderTokens
  BY ReminderConstants DEF Tokens, Unleased
<1>3. row.attempts + 1 \in 0..ReminderAttempts
  BY ReminderConstants, RowFields DEF Fits, RowOK
<1>4. new \in RowType
  BY <1>2, <1>3 DEF Leased, Fits, RowOK, RowType
<1> HIDE DEF new
<1>5. RowOK(new)
  BY <1>1, <1>2, <1>4 DEF Fits, RowOK
<1>6. row.arm \in Arms /\ row.arm \in 0..MaxArms /\ row.arm \in Nat
  BY ArmTypes, RowFields DEF Fits, RowOK
<1>8. moved \in [Tokens -> Jobs]
  BY DEF Fits
<1>9. /\ moved[t].at = "claimed" /\ moved[t].arm = row.arm
      /\ moved[t].group = (row.link = "group")
      /\ \A u \in Tokens : u # t => moved[u] = jobs[u]
  BY DEF Fits
<1>10. ~ReminderRests(row)
  BY DEF ReminderRests
<1>11. ~MayBeSent(new, moved, sent)
  BY <1>1, <1>9, <1>10 DEF Fits, MayBeSent
<1>12. \A u \in Tokens : moved[u].at # "none" =>
           /\ moved[u].arm # 0 /\ moved[u].arm <= new.arm
           /\ HoldsRow(new, u) => moved[u].arm = new.arm
           /\ HoldsRow(new, u) /\ moved[u].at \in Early => ~new.started
           /\ new.status # "none" => moved[u].group = (new.link = "group")
  <2>1. SUFFICES ASSUME NEW u \in Tokens, moved[u].at # "none"
                 PROVE  /\ moved[u].arm # 0 /\ moved[u].arm <= row.arm
                        /\ u = t => moved[u].arm = row.arm
                        /\ moved[u].group = (row.link = "group")
    BY <1>1 DEF HoldsRow
  <2>2. CASE u = t
    BY <1>6, <1>9, <2>2, ArmTypes
  <2>3. CASE u # t
    BY <1>9, <2>1, <2>3 DEF Fits
  <2>4. QED
    BY <2>2, <2>3
<1>13. /\ \A u \in Tokens : moved[u].at = "marked" => sent[moved[u].arm] = 0
       /\ \A u, v \in Tokens : moved[u].at = "marked" /\ moved[v].at = "marked"
                               /\ moved[u].arm = moved[v].arm => u = v
  BY <1>9 DEF Fits
<1>14. sent \in [Arms -> 0..1] /\ \A a \in Arms : a > new.arm => sent[a] = 0
  BY <1>1 DEF Fits
<1>15. QED
  BY <1>5, <1>8, <1>11, <1>12, <1>13, <1>14 DEF Fits, new

\* The marker: the row did not rest, so nothing of its arm was marked or sent.
LEMMA MarkFits ==
    ASSUME NEW row, NEW jobs, NEW sent, Fits(row, jobs, sent),
           NEW t \in Tokens, jobs[t].at = "proven", HoldsRow(row, t), ~row.started,
           NEW new, new = [row EXCEPT !.started = TRUE],
           NEW moved, moved = [jobs EXCEPT ![t].at = "marked"]
    PROVE  Fits(new, moved, sent)
<1>1. /\ new.status = "leased" /\ new.lease = t /\ new.started /\ new.arm = row.arm
      /\ new.due = row.due /\ row.status = "leased" /\ row.lease = t
      /\ new.link = row.link
  BY DEF Fits, RowOK, RowType, HoldsRow
<1>2. new \in RowType
  BY DEF Fits, RowOK, RowType
<1>3. RowOK(new)
  BY <1>1, <1>2 DEF Fits, RowOK
<1>4. row.arm \in Arms /\ row.arm \in Nat
  BY <1>1, ArmTypes, RowFields DEF Fits, RowOK
<1>5. /\ moved \in [Tokens -> Jobs]
      /\ moved[t].at = "marked" /\ moved[t].arm = row.arm /\ moved[t].group = jobs[t].group
      /\ \A u \in Tokens : u # t => moved[u] = jobs[u]
  BY <1>1 DEF Fits, Jobs
<1>6. ~ReminderRests(row)
  BY <1>1 DEF ReminderRests
<1>7. /\ sent[row.arm] = 0
      /\ \A u \in Tokens : ~(jobs[u].at = "marked" /\ jobs[u].arm = row.arm)
  BY <1>4, <1>6 DEF Fits, MayBeSent
<1>8. \A u \in Tokens : moved[u].at # "none" =>
           /\ moved[u].arm # 0 /\ moved[u].arm <= new.arm
           /\ HoldsRow(new, u) => moved[u].arm = new.arm
           /\ HoldsRow(new, u) /\ moved[u].at \in Early => ~new.started
           /\ new.status # "none" => moved[u].group = (new.link = "group")
  BY <1>1, <1>4, <1>5, ArmTypes DEF Fits, HoldsRow, Early
<1>9. /\ \A u \in Tokens : moved[u].at = "marked" => sent[moved[u].arm] = 0
      /\ \A u, v \in Tokens : moved[u].at = "marked" /\ moved[v].at = "marked"
                              /\ moved[u].arm = moved[v].arm => u = v
  BY <1>5, <1>7 DEF Fits
<1>10. ReminderRests(new)
  BY <1>1 DEF ReminderRests
<1>11. sent \in [Arms -> 0..1] /\ \A a \in Arms : a > new.arm => sent[a] = 0
  BY <1>1 DEF Fits
<1>12. QED
  BY <1>3, <1>5, <1>8, <1>9, <1>10, <1>11 DEF Fits

\* The one request to Telegram, whatever is known of its result.
LEMMA SendFits ==
    ASSUME NEW row, NEW jobs, NEW sent, Fits(row, jobs, sent),
           NEW t \in Tokens, jobs[t].at = "marked", NEW at \in {"sent", "failing"},
           NEW moved, moved = [jobs EXCEPT ![t].at = at],
           NEW now, \/ now = sent
                    \/ now = [sent EXCEPT ![jobs[t].arm] = IF @ < 2 THEN @ + 1 ELSE @]
    PROVE  Fits(row, moved, now)
<1> DEFINE a == jobs[t].arm
<1>1. a \in Arms /\ a \in Nat /\ row.arm \in Nat /\ a <= row.arm /\ sent[a] = 0
  BY ArmTypes, RowFields DEF Fits, RowOK, Jobs
<1>2. /\ now \in [Arms -> 0..1]
      /\ \A b \in Arms : b # a => now[b] = sent[b]
  BY <1>1 DEF Fits
<1>3. /\ moved \in [Tokens -> Jobs]
      /\ moved[t].at = at /\ moved[t].arm = a /\ moved[t].group = jobs[t].group
      /\ \A u \in Tokens : u # t => moved[u] = jobs[u]
  BY DEF Fits, Jobs
<1>4. \A u \in Tokens : u # t => ~(jobs[u].at = "marked" /\ jobs[u].arm = a)
  BY DEF Fits
<1>5. \A u \in Tokens : moved[u].at # "none" =>
           /\ moved[u].arm # 0 /\ moved[u].arm <= row.arm
           /\ HoldsRow(row, u) => moved[u].arm = row.arm
           /\ HoldsRow(row, u) /\ moved[u].at \in Early => ~row.started
           /\ row.status # "none" => moved[u].group = (row.link = "group")
  BY <1>3 DEF Fits, Early
<1>6. \A u \in Tokens : moved[u].at = "marked" => now[moved[u].arm] = 0
  <2>1. SUFFICES ASSUME NEW u \in Tokens, moved[u].at = "marked" PROVE now[moved[u].arm] = 0
    OBVIOUS
  <2>2. u # t /\ moved[u] = jobs[u] /\ jobs[u].at = "marked" /\ jobs[u].arm # a
    BY <1>3, <1>4, <2>1
  <2>3. jobs[u].arm \in Arms
    BY <2>2, ArmTypes DEF Fits, Jobs
  <2>4. QED
    BY <1>2, <2>2, <2>3 DEF Fits
<1>7. \A u, v \in Tokens : moved[u].at = "marked" /\ moved[v].at = "marked"
                           /\ moved[u].arm = moved[v].arm => u = v
  BY <1>3 DEF Fits
<1>8. \A b \in Arms : b > row.arm => now[b] = 0
  BY <1>1, <1>2, ArmTypes DEF Fits
<1>9. ASSUME MayBeSent(row, moved, now) PROVE ReminderRests(row)
  <2>1. PICK b \in Arms : /\ b = row.arm
                          /\ now[b] > 0 \/ \E u \in Tokens : moved[u].at = "marked" /\ moved[u].arm = b
    BY <1>9 DEF MayBeSent
  <2>2. MayBeSent(row, jobs, sent)
    BY <1>1, <1>2, <1>3, <2>1 DEF MayBeSent
  <2>3. QED
    BY <2>2 DEF Fits
<1>10. RowOK(row)
  BY DEF Fits
<1>11. QED
  BY <1>2, <1>3, <1>5, <1>6, <1>7, <1>8, <1>9, <1>10 DEF Fits

(***************************************************************************)
(* The invariant of the specification.                                     *)
(***************************************************************************)
Placed ==
    /\ reminder \in [Reminders -> RowType]
    /\ job \in [Reminders -> [Tokens -> Jobs]]
    /\ posted \in [Reminders -> [Arms -> 0..1]]
    /\ \A r \in Reminders : Fits(reminder[r], job[r], posted[r])
OtherTypes ==
    /\ receipt \in [Reminders -> [Arms -> {"none", "recorded", "shown", "interrupted"}]]
    /\ household \in [member : BOOLEAN, proven : BOOLEAN, quiet : BOOLEAN]
    /\ task \in [status : {"open", "proposed", "accepted", "closed", "declined"},
                 holder : BOOLEAN, moves : 0..MaxTaskMoves]
    /\ changes \in 0..MaxReminderChanges
    /\ mishaps \in 0..MaxReminderFaults

\* A row that was ever set keeps its link until it is deleted, for good.
LinkKept(row, new) ==
    /\ row.arm <= new.arm
    /\ row.arm # 0 /\ new.status # "none" => row.status # "none" /\ new.link = row.link
LinksKept == \A r \in Reminders : LinkKept(reminder[r], reminder'[r])
ArmsKept == Placed' /\ LinksKept

LEMMA RowArm == \A row : RowOK(row) => row.arm \in Nat
  BY ArmTypes DEF RowOK, RowType

\* A step that concerns one reminder.
LEMMA OneReminder ==
    ASSUME Placed, NEW r \in Reminders, NEW row, NEW jobs, NEW sent, Fits(row, jobs, sent),
           LinkKept(reminder[r], row),
           reminder' = [reminder EXCEPT ![r] = row] \/ (reminder' = reminder /\ row = reminder[r]),
           job' = [job EXCEPT ![r] = jobs] \/ (job' = job /\ jobs = job[r]),
           posted' = [posted EXCEPT ![r] = sent] \/ (posted' = posted /\ sent = posted[r])
    PROVE  ArmsKept
<1>1. row \in RowType /\ jobs \in [Tokens -> Jobs] /\ sent \in [Arms -> 0..1]
  BY DEF Fits, RowOK
<1>2. reminder' \in [Reminders -> RowType]
  BY <1>1 DEF Placed
<1>3. job' \in [Reminders -> [Tokens -> Jobs]]
  BY <1>1 DEF Placed
<1>4. posted' \in [Reminders -> [Arms -> 0..1]]
  BY <1>1 DEF Placed
<1>5. reminder'[r] = row /\ job'[r] = jobs /\ posted'[r] = sent
  BY DEF Placed
<1>6. \A q \in Reminders : q # r =>
          reminder'[q] = reminder[q] /\ job'[q] = job[q] /\ posted'[q] = posted[q]
  BY DEF Placed
<1>7. \A q \in Reminders : Fits(reminder'[q], job'[q], posted'[q])
  BY <1>5, <1>6 DEF Placed
<1>8. LinksKept
  BY <1>5, <1>6, RowArm DEF LinksKept, LinkKept, Placed, Fits
<1>9. QED
  BY <1>2, <1>3, <1>4, <1>7, <1>8 DEF Placed, ArmsKept

LEMMA MovesKeepLink == \A row, new : Moves(row, new) => LinkKept(row, new)
  BY DEF Moves, LinkKept

LEMMA CalmSame == ASSUME NEW jobs PROVE Calm(jobs, jobs)
  BY DEF Calm, CalmJob

\* A step by which a person, the clock or a task moves one row.
LEMMA RowStep ==
    ASSUME Placed, NEW r \in Reminders, NEW row, RowOK(row), Moves(reminder[r], row),
           reminder' = [reminder EXCEPT ![r] = row], UNCHANGED <<job, posted>>
    PROVE  ArmsKept
<1>1. Fits(reminder[r], job[r], posted[r]) /\ job[r] \in [Tokens -> Jobs]
  BY DEF Placed
<1>2. Fits(row, job[r], posted[r])
  BY <1>1, CalmSame, CalmStep
<1>3. QED
  BY <1>2, OneReminder, MovesKeepLink

\* A job that goes on or ends without marking or sending.
LEMMA JobStep ==
    ASSUME Placed, NEW r \in Reminders, NEW t \in Tokens, job[r][t].at # "none",
           NEW row, RowOK(row), Moves(reminder[r], row),
           reminder' = [reminder EXCEPT ![r] = row] \/ (reminder' = reminder /\ row = reminder[r]),
           \/ JobEnds(r, t)
           \/ \E at \in {"claimed", "linked", "proven", "sent", "failing", "journal"} :
                  JobTo(r, t, at) /\ (at \in Early => job[r][t].at \in Early)
           \/ UNCHANGED job,
           UNCHANGED posted
    PROVE  ArmsKept
<1>1. Fits(reminder[r], job[r], posted[r]) /\ job[r] \in [Tokens -> Jobs]
  BY DEF Placed
<1>2. PICK jobs \in [Tokens -> Jobs] :
          Calm(job[r], jobs) /\ (job' = [job EXCEPT ![r] = jobs] \/ (job' = job /\ jobs = job[r]))
  <2>1. CASE JobEnds(r, t)
    <3> DEFINE jobs == [job[r] EXCEPT ![t] = NoJob]
    <3>1. NoJob \in Jobs
      BY ReminderConstants DEF NoJob, Jobs
    <3>2. jobs \in [Tokens -> Jobs] /\ Calm(job[r], jobs)
      BY <1>1, <3>1 DEF Calm, CalmJob, NoJob
    <3>3. job' = [job EXCEPT ![r] = jobs]
      BY <2>1 DEF JobEnds
    <3>4. QED
      BY <3>2, <3>3
  <2>2. ASSUME NEW at \in {"claimed", "linked", "proven", "sent", "failing", "journal"},
               JobTo(r, t, at), at \in Early => job[r][t].at \in Early
        PROVE  \E jobs \in [Tokens -> Jobs] : Calm(job[r], jobs) /\ job' = [job EXCEPT ![r] = jobs]
    <3> DEFINE jobs == [job[r] EXCEPT ![t].at = at]
    <3>1. jobs \in [Tokens -> Jobs]
      BY <1>1 DEF Jobs
    <3>2. /\ jobs[t].at = at /\ jobs[t].arm = job[r][t].arm /\ jobs[t].group = job[r][t].group
          /\ \A u \in Tokens : u # t => jobs[u] = job[r][u]
      BY <1>1 DEF Jobs
    <3>3. Calm(job[r], jobs)
      BY <2>2, <3>2 DEF Calm, CalmJob
    <3>4. job' = [job EXCEPT ![r] = jobs]
      BY <2>2 DEF JobTo
    <3>5. QED
      BY <3>1, <3>3, <3>4
  <2>3. CASE UNCHANGED job
    BY <1>1, <2>3, CalmSame
  <2>4. QED
    BY <2>1, <2>2, <2>3
<1>3. Fits(row, jobs, posted[r])
  BY <1>1, <1>2, CalmStep
<1>4. QED
  BY <1>2, <1>3, OneReminder, MovesKeepLink

-----------------------------------------------------------------------------
(* One lemma for each kind of step. *)

LEMMA PersonPlaced ==
    ASSUME Placed, NEW r \in Reminders, ReminderPerson(r) \/ ReminderTime(r)
    PROVE  ArmsKept
<1>0. RowOK(reminder[r]) /\ reminder \in [Reminders -> RowType]
  BY DEF Placed, Fits
<1>1. ASSUME NEW repeats \in BOOLEAN, NEW link \in {"group", "execution", "response"},
             CreateReminder(r, repeats, link)
      PROVE  ArmsKept
  <2> DEFINE new == [NoReminder EXCEPT !.status = "active", !.arm = 1,
                                       !.repeats = repeats, !.link = link]
  <2>1. reminder[r].arm = 0 /\ reminder' = [reminder EXCEPT ![r] = new] /\ UNCHANGED <<job, posted>>
    BY <1>1 DEF CreateReminder
  <2>2. RowOK(new) /\ Moves(reminder[r], new)
    BY <1>0, <2>1, CreatedMoves
  <2>3. QED
    BY <2>1, <2>2, RowStep
<1>2. ASSUME NEW retime \in BOOLEAN, NEW enable \in {"on", "off", "keep"},
             UpdateReminder(r, retime, enable)
      PROVE  ArmsKept
  <2> DEFINE new == Retimed(reminder[r], retime, enable)
  <2>1. /\ reminder[r].status \notin {"none", "leased"}
        /\ retime \/ enable # "keep"
        /\ (retime \/ enable = "on") => reminder[r].arm < MaxArms
        /\ reminder' = [reminder EXCEPT ![r] = new] /\ UNCHANGED <<job, posted>>
    BY <1>2 DEF UpdateReminder
  <2>2. RowOK(new) /\ Moves(reminder[r], new)
    BY <1>0, <2>1, RetimedMoves
  <2>3. QED
    BY <2>1, <2>2, RowStep
<1>3. CASE DeleteReminder(r)
  <2> DEFINE new == [NoReminder EXCEPT !.arm = reminder[r].arm]
  <2>1. reminder' = [reminder EXCEPT ![r] = new] /\ UNCHANGED <<job, posted>>
    BY <1>3 DEF DeleteReminder
  <2>2. RowOK(new) /\ Moves(reminder[r], new)
    BY <1>0, DeletedMoves
  <2>3. QED
    BY <2>1, <2>2, RowStep
<1>4. CASE ReminderTime(r)
  <2>1. PICK new : /\ \/ reminder[r].status \in {"active", "paused"} /\ new = [reminder[r] EXCEPT !.due = TRUE]
                      \/ reminder[r].status = "leased" /\ new = [reminder[r] EXCEPT !.expired = TRUE]
                   /\ reminder' = [reminder EXCEPT ![r] = new]
                   /\ UNCHANGED <<job, posted>>
    BY <1>4 DEF ReminderTime
  <2>2. RowOK(new) /\ Moves(reminder[r], new)
    BY <1>0, <2>1, TimeMoves
  <2>3. QED
    BY <2>1, <2>2, RowStep
<1>5. QED
  BY <1>1, <1>2, <1>3, <1>4 DEF ReminderPerson

LEMMA TaskPlaced ==
    ASSUME Placed, NEW to, TaskMove(to)
    PROVE  ArmsKept
<1>1. ASSUME NEW r \in Reminders
      PROVE  /\ reminder'[r] \in RowType /\ Fits(reminder'[r], job[r], posted[r])
             /\ LinkKept(reminder[r], reminder'[r])
  <2>1. reminder'[r] = Reopened(Finished(Answered(reminder[r], to), to), to)
    BY DEF TaskMove
  <2>2. Fits(reminder[r], job[r], posted[r]) /\ job[r] \in [Tokens -> Jobs]
    BY DEF Placed
  <2>3. RowOK(reminder'[r]) /\ Moves(reminder[r], reminder'[r])
    BY <2>1, <2>2, TaskMovesRow DEF Fits
  <2>4. QED
    BY <2>2, <2>3, CalmSame, CalmStep, MovesKeepLink DEF RowOK
<1>2. reminder' = [r \in Reminders |-> reminder'[r]] /\ UNCHANGED <<job, posted>>
  BY DEF TaskMove
<1>3. reminder' \in [Reminders -> RowType]
  BY <1>1, <1>2
<1>4. QED
  BY <1>1, <1>2, <1>3 DEF Placed, ArmsKept, LinksKept

LEMMA ClaimPlaced == ASSUME Placed, ClaimDue PROVE ArmsKept
<1>1. ASSUME NEW r \in Reminders
      PROVE  /\ reminder'[r] \in RowType /\ job'[r] \in [Tokens -> Jobs]
             /\ Fits(reminder'[r], job'[r], posted[r])
             /\ LinkKept(reminder[r], reminder'[r])
  <2> DEFINE row == Swept(reminder[r])
  <2>1. Fits(reminder[r], job[r], posted[r]) /\ job[r] \in [Tokens -> Jobs]
    BY DEF Placed
  <2>2. RowOK(row) /\ Moves(reminder[r], row)
    BY <2>1, SweptMoves DEF Fits
  <2>3. Fits(row, job[r], posted[r])
    BY <2>1, <2>2, CalmSame, CalmStep
  <2>4. CASE Claimable(r)
    <3> DEFINE t == NewToken(r)
    <3>1. t \in Tokens /\ job[r][t].at = "none"
      BY <2>4 DEF Claimable, NewToken, FreeTokens
    <3>2. /\ reminder'[r] = Leased(row, t)
          /\ job'[r] = [job[r] EXCEPT ![t] = [at |-> "claimed", arm |-> reminder[r].arm,
                                              group |-> reminder[r].link = "group"]]
      BY <2>4 DEF ClaimDue, Leased
    <3>3. row.status = "active" /\ row.due /\ row.attempts < ReminderAttempts
      BY <2>4 DEF Claimable
    <3>4. row.arm = reminder[r].arm
      BY SweptArm, <2>1 DEF Fits
    <3>5. PICK claim \in Jobs : /\ claim.at = "claimed" /\ claim.arm = row.arm
                                /\ claim.group = (row.link = "group")
                                /\ job'[r] = [job[r] EXCEPT ![t] = claim]
      <4> DEFINE claim == [at |-> "claimed", arm |-> reminder[r].arm,
                           group |-> reminder[r].link = "group"]
      <4>1. reminder[r].arm \in 0..MaxArms
        BY <2>1, RowFields DEF Fits, RowOK
      <4>2. claim \in Jobs
        BY <4>1 DEF Jobs
      <4>3. claim.at = "claimed" /\ claim.arm = row.arm /\ claim.group = (row.link = "group")
        <5>1. row.status # "none" /\ reminder[r].arm # 0 => row.link = reminder[r].link
          BY <2>2 DEF Moves
        <5>2. row.arm # 0 /\ row.status # "none"
          BY <2>2, <3>3 DEF RowOK
        <5>3. QED
          BY <3>4, <5>1, <5>2
      <4>4. job'[r] = [job[r] EXCEPT ![t] = claim]
        BY <3>2
      <4>5. QED
        BY <4>2, <4>3, <4>4
    <3> HIDE DEF row, t
    <3>6. Fits(reminder'[r], job'[r], posted[r])
      BY <2>3, <3>1, <3>2, <3>3, <3>5, LeaseFits
    <3>7. LinkKept(reminder[r], reminder'[r])
      <4>1. /\ Leased(row, t).arm = row.arm /\ Leased(row, t).link = row.link
        BY <2>2 DEF Leased, RowOK, RowType
      <4>2. row.status # "none"
        BY <3>3
      <4>3. LinkKept(reminder[r], row)
        BY <2>2, MovesKeepLink
      <4>4. QED
        BY <3>2, <4>1, <4>2, <4>3 DEF LinkKept
    <3>8. QED
      BY <3>6, <3>7 DEF Fits, RowOK
  <2>5. CASE ~Claimable(r)
    <3>1. reminder'[r] = row /\ job'[r] = job[r]
      BY <2>5 DEF ClaimDue
    <3> HIDE DEF row
    <3>2. QED
      BY <2>1, <2>2, <2>3, <3>1, MovesKeepLink DEF RowOK
  <2>6. QED
    BY <2>4, <2>5
<1>2. /\ reminder' = [r \in Reminders |-> reminder'[r]]
      /\ job' = [r \in Reminders |-> job'[r]]
      /\ posted' = posted
  BY DEF ClaimDue
<1>3. reminder' \in [Reminders -> RowType] /\ job' \in [Reminders -> [Tokens -> Jobs]]
  BY <1>1, <1>2
<1>4. QED
  BY <1>1, <1>2, <1>3 DEF Placed, ArmsKept, LinksKept

LEMMA JobPlaced ==
    ASSUME Placed, NEW r \in Reminders, NEW t \in Tokens, ReminderJob(r, t) \/ ReminderFault(r, t)
    PROVE  ArmsKept
<1> DEFINE row == reminder[r]
<1>0. /\ Fits(row, job[r], posted[r]) /\ RowOK(row) /\ Moves(row, row)
      /\ reminder \in [Reminders -> RowType] /\ job \in [Reminders -> [Tokens -> Jobs]]
      /\ posted \in [Reminders -> [Arms -> 0..1]]
  BY SameMoves DEF Placed, Fits
<1>1. CASE CheckLink(r, t)
  BY <1>0, <1>1, JobStep DEF CheckLink, Early
<1>2. CASE CheckAudience(r, t)
  <2>1. CASE Holds(r, t) /\ ~household.proven
    <3>1. row.status = "leased" /\ ~row.started
      BY <1>0, <1>2, <2>1 DEF Holds, HoldsRow, CheckAudience, Fits, Early
    <3>2. RowOK(Held(row)) /\ Moves(row, Held(row))
      BY <1>0, <3>1, HeldMoves
    <3>3. /\ reminder' = [reminder EXCEPT ![r] = Held(row)] /\ JobEnds(r, t) /\ UNCHANGED posted
          /\ job[r][t].at # "none"
      BY <1>2, <2>1 DEF CheckAudience
    <3>4. QED
      BY <3>2, <3>3, JobStep
  <2>2. CASE ~(Holds(r, t) /\ ~household.proven)
    BY <1>0, <1>2, <2>2, JobStep DEF CheckAudience, Early
  <2>3. QED
    BY <2>1, <2>2
<1>3. CASE MarkDispatchStarted(r, t)
  <2>1. CASE Holds(r, t) /\ ~reminder[r].started /\ LinkActive(reminder[r].link)
    <3> DEFINE new == [row EXCEPT !.started = TRUE]
    <3> DEFINE moved == [job[r] EXCEPT ![t].at = "marked"]
    <3>1. job[r][t].at = "proven" /\ HoldsRow(row, t) /\ ~row.started
      BY <1>3, <2>1 DEF MarkDispatchStarted, Holds, HoldsRow
    <3>2. Fits(new, moved, posted[r])
      BY <1>0, <3>1, MarkFits
    <3>3. /\ reminder' = [reminder EXCEPT ![r] = new] /\ job' = [job EXCEPT ![r] = moved]
          /\ posted' = posted
      BY <1>3, <2>1 DEF MarkDispatchStarted, JobTo
    <3>4. LinkKept(row, new)
      <4>1. new.arm = row.arm /\ new.link = row.link /\ new.status = row.status
        BY <1>0 DEF RowOK, RowType
      <4>2. QED
        BY <1>0, <4>1, RowArm DEF LinkKept
    <3>5. QED
      BY <3>2, <3>3, <3>4, OneReminder
  <2>2. CASE ~(Holds(r, t) /\ ~reminder[r].started /\ LinkActive(reminder[r].link))
    BY <1>0, <1>3, <2>2, JobStep DEF MarkDispatchStarted
  <2>3. QED
    BY <2>1, <2>2
<1>4. CASE DeliverReminder(r, t) \/ DeliveryFails(r, t)
  <2>1. PICK at \in {"sent", "failing"} :
            /\ job' = [job EXCEPT ![r][t].at = at]
            /\ posted' \in {posted, Posted(r, t)}
            /\ job[r][t].at = "marked" /\ reminder' = reminder
    BY <1>4 DEF DeliverReminder, DeliveryFails, JobTo
  <2> DEFINE moved == [job[r] EXCEPT ![t].at = at]
  <2>2. PICK now : /\ \/ now = posted[r]
                      \/ now = [posted[r] EXCEPT ![job[r][t].arm] = IF @ < 2 THEN @ + 1 ELSE @]
                   /\ posted' = [posted EXCEPT ![r] = now] \/ (posted' = posted /\ now = posted[r])
    BY <2>1 DEF Posted
  <2>3. Fits(row, moved, now)
    BY <1>0, <2>1, <2>2, SendFits
  <2>4. job' = [job EXCEPT ![r] = moved]
    BY <2>1
  <2>5. QED
    BY <1>0, <2>1, <2>2, <2>3, <2>4, OneReminder, MovesKeepLink
<1>5. CASE FailReminder(r, t)
  <2>1. job[r][t].at # "none" /\ JobEnds(r, t) /\ UNCHANGED posted
    BY <1>5 DEF FailReminder
  <2>2. CASE Holds(r, t)
    <3>1. reminder' = [reminder EXCEPT ![r] = LeftQueue(row, "failed")] /\ row.status # "none"
      BY <1>5, <2>2 DEF FailReminder, Holds
    <3>2. RowOK(LeftQueue(row, "failed")) /\ Moves(row, LeftQueue(row, "failed"))
      BY <1>0, <3>1, LeftQueueMoves
    <3>3. QED
      BY <2>1, <3>1, <3>2, JobStep
  <2>3. CASE ~Holds(r, t)
    <3>1. reminder' = reminder
      BY <1>5, <2>3 DEF FailReminder
    <3>2. QED
      BY <1>0, <2>1, <3>1, JobStep
  <2>4. QED
    BY <2>2, <2>3
<1>6. CASE CompleteReminder(r, t) \/ AcknowledgementLost(r, t)
  <2>1. /\ job[r][t].at = "sent" /\ UNCHANGED posted
        /\ JobEnds(r, t) \/ JobTo(r, t, "journal") \/ UNCHANGED job
        /\ Completes(r, t) \/ UNCHANGED reminder
    BY <1>6 DEF CompleteReminder, AcknowledgementLost, ToJournal
  <2>2. CASE UNCHANGED reminder
    BY <1>0, <2>1, <2>2, JobStep DEF Early
  <2>3. CASE Completes(r, t)
    <3>1. /\ reminder' = [reminder EXCEPT ![r] = CompletedRow(row)]
          /\ row.status = "leased" /\ row.started
      BY <2>3 DEF Completes, Holds
    <3>2. RowOK(CompletedRow(row)) /\ Moves(row, CompletedRow(row))
      BY <1>0, <3>1, CompletedMoves
    <3>3. QED
      BY <2>1, <3>1, <3>2, JobStep DEF Early
  <2>4. QED
    BY <2>1, <2>2, <2>3
<1>7. CASE GiveUpBookkeeping(r, t)
  BY <1>0, <1>7, JobStep DEF GiveUpBookkeeping, Early
<1>8. CASE JournalReminder(r, t)
  BY <1>0, <1>8, JobStep DEF JournalReminder
<1>9. QED
  BY <1>1, <1>2, <1>3, <1>4, <1>5, <1>6, <1>7, <1>8 DEF ReminderJob, ReminderFault

\* The process dies: every job is gone, every row stays.
LEMMA DiesPlaced == ASSUME Placed, DispatcherDies PROVE ArmsKept
<1>1. /\ job' = [r \in Reminders |-> [t \in Tokens |-> NoJob]]
      /\ UNCHANGED <<reminder, posted>>
  BY DEF DispatcherDies
<1>2. NoJob \in Jobs
  BY ReminderConstants DEF NoJob, Jobs
<1>3. ASSUME NEW r \in Reminders
      PROVE  job'[r] \in [Tokens -> Jobs] /\ Fits(reminder[r], job'[r], posted[r])
  <2>1. job'[r] = [t \in Tokens |-> NoJob]
    BY <1>1
  <2>2. job'[r] \in [Tokens -> Jobs] /\ Calm(job[r], job'[r])
    BY <1>2, <2>1 DEF Calm, CalmJob, NoJob
  <2>3. Fits(reminder[r], job[r], posted[r]) /\ RowOK(reminder[r]) /\ Moves(reminder[r], reminder[r])
    BY SameMoves DEF Placed, Fits
  <2>4. QED
    BY <2>2, <2>3, CalmStep
<1>4. job' \in [Reminders -> [Tokens -> Jobs]]
  BY <1>1, <1>2
<1>5. LinksKept
  BY <1>1, RowArm DEF Placed, Fits, LinksKept, LinkKept
<1>6. QED
  BY <1>1, <1>3, <1>4, <1>5 DEF Placed, ArmsKept

LEMMA PlacedStep == Placed /\ [RemindersNext]_remindersVars => ArmsKept
<1> SUFFICES ASSUME Placed, [RemindersNext]_remindersVars PROVE ArmsKept
  OBVIOUS
<1>1. CASE UNCHANGED <<reminder, job, posted>>
  <2>1. LinksKept
    BY <1>1, RowArm DEF Placed, Fits, LinksKept, LinkKept
  <2>2. QED
    BY <1>1, <2>1 DEF Placed, ArmsKept
<1>2. CASE HouseholdChanges
  BY <1>1, <1>2 DEF HouseholdChanges
<1>3. CASE UNCHANGED remindersVars
  BY <1>1, <1>3 DEF remindersVars
<1>4. QED
  BY <1>2, <1>3, ClaimPlaced, DiesPlaced, TaskPlaced, PersonPlaced, JobPlaced DEF RemindersNext

LEMMA PlacedInit == RemindersInit => Placed
<1> SUFFICES ASSUME RemindersInit PROVE Placed
  OBVIOUS
<1>1. NoReminder \in RowType /\ NoJob \in Jobs
  BY NoReminderOK, ReminderConstants DEF RowOK, NoJob, Jobs
<1>2. ASSUME NEW r \in Reminders PROVE Fits(reminder[r], job[r], posted[r])
  <2>1. /\ reminder[r] = NoReminder /\ job[r] = [t \in Tokens |-> NoJob]
        /\ posted[r] = [a \in Arms |-> 0]
    BY DEF RemindersInit
  <2>2. posted[r] \in [Arms -> 0..1] /\ job[r] \in [Tokens -> Jobs]
    BY <1>1, <2>1
  <2>3. \A t \in Tokens : job[r][t].at = "none"
    BY <2>1 DEF NoJob
  <2>4. ReminderRests(reminder[r])
    BY <2>1 DEF ReminderRests, NoReminder
  <2>5. QED
    BY <2>1, <2>2, <2>3, <2>4, NoReminderOK DEF Fits
<1>3. QED
  BY <1>1, <1>2 DEF Placed, RemindersInit

-----------------------------------------------------------------------------
(* The other variables. *)

LEMMA ReceiptTyped ==
    ASSUME OtherTypes, NEW r \in Reminders, NEW t \in Tokens, ReminderJob(r, t) \/ ReminderFault(r, t)
    PROVE  receipt' \in [Reminders -> [Arms -> {"none", "recorded", "shown", "interrupted"}]]
<1> DEFINE a == job[r][t].arm
<1>0. receipt \in [Reminders -> [Arms -> {"none", "recorded", "shown", "interrupted"}]]
  BY DEF OtherTypes
<1>1. ASSUME NEW x \in {"none", "recorded", "shown", "interrupted"},
             receipt' = [receipt EXCEPT ![r][a] = x]
      PROVE  receipt' \in [Reminders -> [Arms -> {"none", "recorded", "shown", "interrupted"}]]
  <2>1. [receipt[r] EXCEPT ![a] = x] \in [Arms -> {"none", "recorded", "shown", "interrupted"}]
    BY <1>0
  <2>2. QED
    BY <1>0, <1>1, <2>1
<1>2. CASE UNCHANGED receipt
  BY <1>0, <1>2
<1>3. CASE CompleteReminder(r, t) \/ AcknowledgementLost(r, t)
  BY <1>1, <1>2, <1>3 DEF CompleteReminder, AcknowledgementLost, Completes
<1>4. CASE Interrupted(r, t)
  <2>1. CASE a \in Arms
    <3>1. (IF receipt[r][a] = "recorded" THEN "interrupted" ELSE receipt[r][a])
          \in {"none", "recorded", "shown", "interrupted"}
      BY <1>0, <2>1
    <3>2. QED
      BY <1>0, <1>1, <1>4, <3>1 DEF Interrupted
  <2>2. CASE a \notin Arms
    BY <1>0, <1>4, <2>2 DEF Interrupted
  <2>3. QED
    BY <2>1, <2>2
<1>5. CASE JournalReminder(r, t)
  BY <1>1, <1>4, <1>5 DEF JournalReminder
<1>6. CASE GiveUpBookkeeping(r, t)
  BY <1>4, <1>6 DEF GiveUpBookkeeping
<1>7. CASE \/ CheckLink(r, t) \/ CheckAudience(r, t) \/ MarkDispatchStarted(r, t)
           \/ DeliverReminder(r, t) \/ FailReminder(r, t) \/ DeliveryFails(r, t)
  BY <1>2, <1>7 DEF CheckLink, CheckAudience, MarkDispatchStarted, DeliverReminder, FailReminder,
                    DeliveryFails
<1>8. QED
  BY <1>3, <1>5, <1>6, <1>7 DEF ReminderJob, ReminderFault

LEMMA CountersTyped ==
    ASSUME OtherTypes
    PROVE  /\ Change => changes' \in 0..MaxReminderChanges
           /\ Mishap => mishaps' \in 0..MaxReminderFaults
           /\ UNCHANGED changes => changes' \in 0..MaxReminderChanges
           /\ UNCHANGED mishaps => mishaps' \in 0..MaxReminderFaults
  BY ReminderConstants DEF OtherTypes, Change, Mishap

LEMMA OtherTypesStep == OtherTypes /\ [RemindersNext]_remindersVars => OtherTypes'
<1> SUFFICES ASSUME OtherTypes, [RemindersNext]_remindersVars PROVE OtherTypes'
  OBVIOUS
<1>0. ASSUME UNCHANGED <<household, task>>,
             changes' \in 0..MaxReminderChanges, mishaps' \in 0..MaxReminderFaults,
             receipt' \in [Reminders -> [Arms -> {"none", "recorded", "shown", "interrupted"}]]
      PROVE  OtherTypes'
  BY <1>0 DEF OtherTypes
<1>1. CASE ClaimDue
  BY <1>0, <1>1 DEF ClaimDue, OtherTypes
<1>2. CASE DispatcherDies
  <2>1. receipt' \in [Reminders -> [Arms -> {"none", "recorded", "shown", "interrupted"}]]
    BY <1>2 DEF DispatcherDies, OtherTypes
  <2>2. QED
    BY <1>0, <1>2, <2>1, CountersTyped DEF DispatcherDies
<1>3. CASE HouseholdChanges
  <2>1. changes' \in 0..MaxReminderChanges
    BY <1>3, CountersTyped DEF HouseholdChanges
  <2>2. PICK field \in {"member", "proven", "quiet"}, x \in {TRUE, FALSE} :
            household' = [household EXCEPT ![field] = x]
    BY <1>3 DEF HouseholdChanges
  <2>3. household' \in [member : BOOLEAN, proven : BOOLEAN, quiet : BOOLEAN]
    BY <2>2 DEF OtherTypes
  <2>4. UNCHANGED <<receipt, task, mishaps>>
    BY <1>3 DEF HouseholdChanges
  <2>5. QED
    BY <2>1, <2>3, <2>4 DEF OtherTypes
<1>4. ASSUME NEW to \in {"open", "proposed", "accepted", "closed", "declined"}, TaskMove(to)
      PROVE  OtherTypes'
  <2>1. task.moves + 1 \in 0..MaxTaskMoves
    BY <1>4, ReminderConstants DEF TaskMove, OtherTypes
  <2>2. PICK holder \in BOOLEAN :
            task' = [status |-> to, holder |-> holder, moves |-> task.moves + 1]
    <3>1. /\ BOOLEAN \subseteq BOOLEAN /\ {FALSE} \subseteq BOOLEAN
          /\ {~task.holder} \subseteq BOOLEAN /\ {task.holder} \subseteq BOOLEAN
      BY DEF OtherTypes
    <3>2. QED
      BY <1>4, <3>1 DEF TaskMove
  <2>3. task' \in [status : {"open", "proposed", "accepted", "closed", "declined"},
                   holder : BOOLEAN, moves : 0..MaxTaskMoves]
    BY <2>1, <2>2
  <2>4. UNCHANGED <<receipt, household, changes, mishaps>>
    BY <1>4 DEF TaskMove
  <2>5. QED
    BY <2>3, <2>4 DEF OtherTypes
<1>5. ASSUME NEW r \in Reminders, ReminderPerson(r) \/ ReminderTime(r) PROVE OtherTypes'
  <2>1. UNCHANGED <<household, task, receipt, mishaps>> /\ (Change \/ UNCHANGED changes)
    BY <1>5 DEF ReminderPerson, ReminderTime, CreateReminder, UpdateReminder, DeleteReminder
  <2>2. QED
    BY <1>0, <2>1, CountersTyped DEF OtherTypes
<1>6. ASSUME NEW r \in Reminders, NEW t \in Tokens, ReminderJob(r, t) \/ ReminderFault(r, t)
      PROVE  OtherTypes'
  <2>1. UNCHANGED <<household, task, changes>> /\ (Mishap \/ UNCHANGED mishaps)
    BY <1>6 DEF ReminderJob, ReminderFault, CheckLink, CheckAudience, MarkDispatchStarted,
        DeliverReminder, FailReminder, CompleteReminder, JournalReminder, DeliveryFails,
        AcknowledgementLost, GiveUpBookkeeping
  <2>2. QED
    BY <1>0, <1>6, <2>1, CountersTyped, ReceiptTyped
<1>7. CASE UNCHANGED remindersVars
  BY <1>0, <1>7 DEF remindersVars, OtherTypes
<1>8. QED
  BY <1>1, <1>2, <1>3, <1>4, <1>5, <1>6, <1>7 DEF RemindersNext

LEMMA OtherTypesInit == RemindersInit => OtherTypes
<1> SUFFICES ASSUME RemindersInit PROVE OtherTypes
  OBVIOUS
<1>1. 0 \in 0..MaxTaskMoves /\ 0 \in 0..MaxReminderChanges /\ 0 \in 0..MaxReminderFaults
  BY ReminderConstants
<1>2. task \in [status : {"open", "proposed", "accepted", "closed", "declined"},
                holder : BOOLEAN, moves : 0..MaxTaskMoves]
  <2>1. PICK status \in {"proposed", "accepted"}, holder \in {TRUE, FALSE} :
            task = [status |-> status, holder |-> holder, moves |-> 0]
    BY DEF RemindersInit
  <2>2. QED
    BY <1>1, <2>1
<1>3. household \in [member : BOOLEAN, proven : BOOLEAN, quiet : BOOLEAN]
  <2>1. [member |-> TRUE, proven |-> TRUE, quiet |-> FALSE]
        \in [member : BOOLEAN, proven : BOOLEAN, quiet : BOOLEAN]
    OBVIOUS
  <2>2. QED
    BY <2>1 DEF RemindersInit
<1>4. receipt \in [Reminders -> [Arms -> {"none", "recorded", "shown", "interrupted"}]]
  BY DEF RemindersInit
<1>5. changes \in 0..MaxReminderChanges /\ mishaps \in 0..MaxReminderFaults
  BY <1>1 DEF RemindersInit
<1>6. QED
  BY <1>2, <1>3, <1>4, <1>5 DEF OtherTypes

-----------------------------------------------------------------------------
LEMMA RemindersInvInit == RemindersInit => Placed /\ OtherTypes
  BY PlacedInit, OtherTypesInit
LEMMA RemindersInvStep ==
    (Placed /\ OtherTypes) /\ [RemindersNext]_remindersVars => (Placed /\ OtherTypes)'
  BY PlacedStep, OtherTypesStep DEF ArmsKept

LEMMA RemindersInvTypes == Placed /\ OtherTypes => RemindersTypeOK
<1> SUFFICES ASSUME Placed, OtherTypes PROVE RemindersTypeOK
  OBVIOUS
<1>1. posted \in [Reminders -> [Arms -> 0..2]]
  BY DEF Placed
<1>2. \A r \in Reminders : RowOK(reminder[r])
  BY DEF Placed, Fits
<1>3. reminder \in [Reminders -> RowType] /\ job \in [Reminders -> [Tokens -> Jobs]]
  BY DEF Placed
<1>4. \A r \in Reminders : /\ (reminder[r].lease # Unleased) = (reminder[r].status = "leased")
                           /\ reminder[r].started => reminder[r].status = "leased"
  BY <1>2 DEF RowOK
<1>5. QED
  BY <1>1, <1>3, <1>4, Zenon DEF OtherTypes, RowType, RemindersTypeOK

LEMMA RemindersInvOnce == Placed => ReminderSentOnce
  BY DEF Placed, ReminderSentOnce

\* Every row keeps its shape and the CHECK of the table: a token exactly while it is
\* leased, and a started dispatch only under a lease.
THEOREM RemindersTypeCorrect == RemindersSpec => []RemindersTypeOK
  BY RemindersInvInit, RemindersInvStep, RemindersInvTypes, PTL DEF RemindersSpec

\* However many batches overlap, crash, lose their lease or retry, and whatever its
\* task and its author do meanwhile, a reminder is sent at most once for each time
\* it was set to.
THEOREM ReminderSentOnceCorrect == RemindersSpec => []ReminderSentOnce
  BY RemindersInvInit, RemindersInvStep, RemindersInvOnce, PTL DEF RemindersSpec

-----------------------------------------------------------------------------
(* The journal of the group. *)

ReceiptReached ==
    \A r \in Reminders, a \in Arms : receipt[r][a] # "none" => a <= reminder[r].arm

\* The job that has recorded a delivery and has not yet ended.
Recording(r, t, a) == job[r][t].arm = a /\ job[r][t].at \in {"sent", "journal"}

\* A receipt is written for the arm of a job, and recorded by the one that goes on.
LEMMA ReceiptWritten ==
    ASSUME Placed, OtherTypes, [RemindersNext]_remindersVars,
           NEW r \in Reminders, NEW a \in Arms, receipt'[r][a] # receipt[r][a]
    PROVE  \E t \in Tokens : job[r][t].arm = a /\ job[r][t].at # "none"
<1>0. receipt \in [Reminders -> [Arms -> {"none", "recorded", "shown", "interrupted"}]]
  BY DEF OtherTypes
<1>1. ASSUME NEW q \in Reminders, NEW t \in Tokens, ReminderJob(q, t) \/ ReminderFault(q, t)
      PROVE  \E u \in Tokens : job[r][u].arm = a /\ job[r][u].at # "none"
  <2>1. PICK x : receipt' = [receipt EXCEPT ![q][job[q][t].arm] = x]
    BY <1>0, <1>1 DEF ReminderJob, ReminderFault, CheckLink, CheckAudience, MarkDispatchStarted,
        DeliverReminder, FailReminder, CompleteReminder, JournalReminder, DeliveryFails,
        AcknowledgementLost, GiveUpBookkeeping, Completes, Interrupted
  <2>2. q = r /\ job[q][t].arm = a
    BY <1>0, <2>1
  <2>3. job[q][t].at # "none"
    BY <1>1 DEF ReminderJob, ReminderFault, CheckLink, CheckAudience, MarkDispatchStarted,
        DeliverReminder, FailReminder, CompleteReminder, JournalReminder, DeliveryFails,
        AcknowledgementLost, GiveUpBookkeeping
  <2>4. QED
    BY <2>2, <2>3
<1>2. CASE DispatcherDies
  <2>1. receipt'[r][a] = IF receipt[r][a] = "recorded" /\ Carried(r, a)
                         THEN "interrupted" ELSE receipt[r][a]
    BY <1>2 DEF DispatcherDies
  <2>2. QED
    BY <2>1 DEF Carried
<1>3. CASE UNCHANGED receipt
  BY <1>3
<1>4. ASSUME ~UNCHANGED receipt
      PROVE  \/ DispatcherDies
             \/ \E q \in Reminders, t \in Tokens : ReminderJob(q, t) \/ ReminderFault(q, t)
  BY <1>4 DEF RemindersNext, remindersVars, ClaimDue, HouseholdChanges, TaskMove, ReminderPerson,
      ReminderTime, CreateReminder, UpdateReminder, DeleteReminder
<1>5. QED
  BY <1>1, <1>2, <1>3, <1>4

\* A job of the group that has recorded its delivery goes on to the journal.
LEMMA RecordingGoesOn ==
    ASSUME Placed, OtherTypes, [RemindersNext]_remindersVars,
           NEW r \in Reminders, NEW a \in Arms, NEW t \in Tokens,
           Recording(r, t, a), receipt[r][a] = "recorded", receipt'[r][a] = "recorded",
           job[r][t].group
    PROVE  Recording(r, t, a)'
<1>0. /\ receipt \in [Reminders -> [Arms -> {"none", "recorded", "shown", "interrupted"}]]
      /\ job \in [Reminders -> [Tokens -> Jobs]]
  BY DEF OtherTypes, Placed
<1>1. CASE job'[r][t] = job[r][t]
  BY <1>1 DEF Recording
<1>2. ASSUME NEW q \in Reminders, NEW u \in Tokens, ReminderJob(q, u) \/ ReminderFault(q, u)
      PROVE  Recording(r, t, a)'
  <2>1. CASE q # r \/ u # t
    <3>1. PICK j : job' = [job EXCEPT ![q][u] = j] \/ job' = job
      BY <1>2 DEF ReminderJob, ReminderFault, CheckLink, CheckAudience, MarkDispatchStarted,
          DeliverReminder, FailReminder, CompleteReminder, JournalReminder, DeliveryFails,
          AcknowledgementLost, GiveUpBookkeeping, ToJournal, JobTo, JobEnds
    <3>2. job'[r][t] = job[r][t]
      BY <1>0, <2>1, <3>1
    <3>3. QED
      BY <1>1, <3>2
  <2>2. CASE q = r /\ u = t /\ CompleteReminder(q, u)
    <3>1. JobTo(r, t, "journal")
      BY <2>2 DEF CompleteReminder, Recorded, ToJournal, Recording
    <3>2. job'[r][t].at = "journal" /\ job'[r][t].arm = job[r][t].arm
      BY <1>0, <3>1 DEF JobTo, Jobs
    <3>3. QED
      BY <3>2 DEF Recording
  <2>3. CASE q = r /\ u = t /\ (JournalReminder(q, u) \/ GiveUpBookkeeping(q, u))
    <3>1. receipt'[r][a] # "recorded"
      BY <1>0, <2>3 DEF JournalReminder, GiveUpBookkeeping, Interrupted, Recording
    <3>2. QED
      BY <3>1
  <2>4. CASE q = r /\ u = t /\ AcknowledgementLost(q, u)
    BY <1>1, <2>4 DEF AcknowledgementLost
  <2>5. QED
    BY <1>2, <2>1, <2>2, <2>3, <2>4 DEF ReminderJob, ReminderFault, CheckLink, CheckAudience,
       MarkDispatchStarted, DeliverReminder, FailReminder, DeliveryFails, Recording
<1>3. CASE DispatcherDies
  <2>1. Carried(r, a)
    BY DEF Carried, Recording
  <2>2. receipt'[r][a] = "interrupted"
    BY <1>3, <2>1 DEF DispatcherDies
  <2>3. QED
    BY <2>2
<1>4. CASE ClaimDue
  <2>1. CASE Claimable(r)
    <3>1. NewToken(r) \in FreeTokens(r)
      BY <2>1 DEF Claimable, NewToken
    <3>2. NewToken(r) # t
      BY <3>1 DEF FreeTokens, Recording
    <3>3. job'[r][t] = job[r][t]
      BY <1>0, <1>4, <2>1, <3>2 DEF ClaimDue
    <3>4. QED
      BY <1>1, <3>3
  <2>2. CASE ~Claimable(r)
    BY <1>1, <1>4, <2>2 DEF ClaimDue
  <2>3. QED
    BY <2>1, <2>2
<1>5. CASE UNCHANGED job
  BY <1>1, <1>5
<1>6. ASSUME ~UNCHANGED job
      PROVE  \/ DispatcherDies \/ ClaimDue
             \/ \E q \in Reminders, u \in Tokens : ReminderJob(q, u) \/ ReminderFault(q, u)
  BY <1>6 DEF RemindersNext, remindersVars, HouseholdChanges, TaskMove, ReminderPerson,
      ReminderTime, CreateReminder, UpdateReminder, DeleteReminder
<1>7. QED
  BY <1>2, <1>3, <1>4, <1>5, <1>6

\* The step that records a delivery leaves its job on the way to the journal.
LEMMA RecordingBegins ==
    ASSUME Placed, OtherTypes, [RemindersNext]_remindersVars,
           NEW r \in Reminders, NEW a \in Arms,
           receipt[r][a] # "recorded", receipt'[r][a] = "recorded",
           \A t \in Tokens : job[r][t].at # "none" => job[r][t].group
    PROVE  \E t \in Tokens : Recording(r, t, a)'
<1>0. /\ receipt \in [Reminders -> [Arms -> {"none", "recorded", "shown", "interrupted"}]]
      /\ job \in [Reminders -> [Tokens -> Jobs]]
  BY DEF OtherTypes, Placed
<1>1. ASSUME NEW q \in Reminders, NEW t \in Tokens,
             CompleteReminder(q, t) \/ AcknowledgementLost(q, t), Completes(q, t)
      PROVE  \E u \in Tokens : Recording(r, u, a)'
  <2>1. q = r /\ job[q][t].arm = a
    BY <1>0, <1>1 DEF Completes
  <2>2. job[r][t].at = "sent" /\ job[r][t].group
    BY <1>1, <2>1 DEF CompleteReminder, AcknowledgementLost
  <2>3. JobTo(r, t, "journal") \/ UNCHANGED job
    BY <1>1, <2>1, <2>2 DEF CompleteReminder, AcknowledgementLost, ToJournal
  <2>4. job'[r][t].at \in {"sent", "journal"} /\ job'[r][t].arm = a
    BY <1>0, <2>1, <2>2, <2>3 DEF JobTo, Jobs
  <2>5. QED
    BY <2>4 DEF Recording
<1>2. ASSUME NEW q \in Reminders, NEW t \in Tokens, Interrupted(q, t) PROVE FALSE
  BY <1>0, <1>2 DEF Interrupted
<1>3. ASSUME NEW q \in Reminders, NEW t \in Tokens,
             receipt' = [receipt EXCEPT ![q][job[q][t].arm] = "shown"]
      PROVE  FALSE
  BY <1>0, <1>3
<1>4. ASSUME NEW q \in Reminders, NEW t \in Tokens, ReminderJob(q, t) \/ ReminderFault(q, t)
      PROVE  (CompleteReminder(q, t) \/ AcknowledgementLost(q, t)) /\ Completes(q, t)
  <2>1. ~UNCHANGED receipt
    OBVIOUS
  <2>2. QED
    BY <1>2, <1>3, <1>4, <2>1 DEF ReminderJob, ReminderFault, CheckLink, CheckAudience,
       MarkDispatchStarted, DeliverReminder, FailReminder, CompleteReminder, JournalReminder,
       DeliveryFails, AcknowledgementLost, GiveUpBookkeeping
<1>5. ~DispatcherDies
  <2>1. SUFFICES ASSUME DispatcherDies PROVE FALSE
    OBVIOUS
  <2>2. receipt'[r][a] = IF receipt[r][a] = "recorded" /\ Carried(r, a)
                         THEN "interrupted" ELSE receipt[r][a]
    BY <2>1 DEF DispatcherDies
  <2>3. QED
    BY <2>2
<1>6. \E q \in Reminders, t \in Tokens : ReminderJob(q, t) \/ ReminderFault(q, t)
  <2>1. ~UNCHANGED receipt
    OBVIOUS
  <2>2. QED
    BY <1>5, <2>1 DEF RemindersNext, remindersVars, ClaimDue, HouseholdChanges, TaskMove,
       ReminderPerson, ReminderTime, CreateReminder, UpdateReminder, DeleteReminder
<1>7. QED
  BY <1>1, <1>4, <1>6

LEMMA TimelineStep ==
    Placed /\ OtherTypes /\ ReceiptReached /\ RecordedReachesTimeline
    /\ [RemindersNext]_remindersVars
    => ReceiptReached' /\ RecordedReachesTimeline'
<1> SUFFICES ASSUME Placed, OtherTypes, ReceiptReached, RecordedReachesTimeline,
                    [RemindersNext]_remindersVars
             PROVE  ReceiptReached' /\ RecordedReachesTimeline'
  OBVIOUS
<1>1. ArmsKept
  BY PlacedStep
<1>2. ASSUME NEW r \in Reminders, NEW a \in Arms, receipt'[r][a] # "none"
      PROVE  a <= reminder[r].arm /\ a <= reminder'[r].arm /\ reminder[r].arm # 0
  <2>1. reminder[r].arm \in Nat /\ reminder'[r].arm \in Nat /\ a \in Nat /\ a # 0
    BY <1>1, RowArm, ArmTypes DEF ArmsKept, Placed, Fits
  <2>2. a <= reminder[r].arm
    <3>1. CASE receipt[r][a] # "none"
      BY <3>1 DEF ReceiptReached
    <3>2. CASE receipt[r][a] = "none"
      <4>1. PICK t \in Tokens : job[r][t].arm = a /\ job[r][t].at # "none"
        BY <1>2, <3>2, ReceiptWritten
      <4>2. QED
        BY <4>1 DEF Placed, Fits
    <3>3. QED
      BY <3>1, <3>2
  <2>3. reminder[r].arm <= reminder'[r].arm
    BY <1>1 DEF ArmsKept, LinksKept, LinkKept
  <2>4. QED
    BY <2>1, <2>2, <2>3
<1>3. ReceiptReached'
  BY <1>2 DEF ReceiptReached
<1>4. ASSUME NEW r \in Reminders, NEW a \in Arms, receipt'[r][a] = "recorded",
             reminder'[r].link = "group", reminder'[r].status # "none"
      PROVE  \E t \in Tokens : Recording(r, t, a)'
  <2>1. reminder[r].link = "group" /\ reminder[r].status # "none"
    BY <1>1, <1>2, <1>4 DEF ArmsKept, LinksKept, LinkKept
  <2>2. \A t \in Tokens : job[r][t].at # "none" => job[r][t].group
    BY <2>1 DEF Placed, Fits
  <2>3. CASE receipt[r][a] = "recorded"
    <3>1. PICK t \in Tokens : Recording(r, t, a)
      BY <2>1, <2>3 DEF RecordedReachesTimeline, Recording
    <3>2. job[r][t].group
      BY <2>2, <3>1 DEF Recording
    <3>3. QED
      BY <1>4, <2>3, <3>1, <3>2, RecordingGoesOn
  <2>4. CASE receipt[r][a] # "recorded"
    BY <1>4, <2>2, <2>4, RecordingBegins
  <2>5. QED
    BY <2>3, <2>4
<1>5. RecordedReachesTimeline'
  BY <1>4 DEF RecordedReachesTimeline, Recording
<1>6. QED
  BY <1>3, <1>5

LEMMA TimelineInit == RemindersInit => ReceiptReached /\ RecordedReachesTimeline
  BY DEF RemindersInit, ReceiptReached, RecordedReachesTimeline

\* A group delivery whose receipt is committed is on its way to the journal of the
\* chat until the journal shows it, or its dispatcher was interrupted: the retry
\* after a lost acknowledgement finds its own receipt and goes on.
THEOREM RecordedReachesTimelineCorrect == RemindersSpec => []RecordedReachesTimeline
  BY RemindersInvInit, RemindersInvStep, TimelineInit, TimelineStep, PTL DEF RemindersSpec

=============================================================================
