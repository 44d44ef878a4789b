------------------------------ MODULE AgentSchedule ------------------------------
(***************************************************************************)
(* One user-defined agent schedule: its lease, its runs, and the Eve turns *)
(* the dispatcher starts for them.                                         *)
(*                                                                         *)
(*   agent/lib/agent-schedules/agent-schedule-dispatch-repository.ts       *)
(*   agent/lib/agent-schedules/agent-schedule-dispatch-state.ts            *)
(*   agent/lib/agent-schedules/agent-schedule-dispatcher.ts                *)
(*   agent/lib/agent-schedules/agent-schedule-run-completion.ts            *)
(*   agent/lib/agent-schedules/agent-schedule-run-failure.ts               *)
(*   agent/lib/agent-schedules/agent-schedule-repository.ts                *)
(*   agent/channels/telegram.ts   events of a scheduled session            *)
(*                                                                         *)
(* A claim of the schedule is numbered; the number stands for its lease    *)
(* token, for the application session it creates and for the Eve session   *)
(* it starts.  The minute cron starts a dispatcher although an earlier one *)
(* still works through its batch, so claims are concurrent processes.      *)
(***************************************************************************)
EXTENDS Integers, FiniteSets

CONSTANTS
    MaxClaims,      \* bound: leases taken of the schedule
    MaxMoves,       \* bound: occurrences set by hand (run now, a new date)
    MaxFaults,      \* bound: crashes, database errors, lost answers
    MaxAttempts,    \* AGENT_SCHEDULE_DISPATCH_MAX_SAFE_ATTEMPTS
    Recurring,      \* daily or weekly, as opposed to once
    External        \* an external group with a history window

ASSUME BoundsAssumption ==
    /\ MaxClaims \in Nat
    /\ MaxMoves \in Nat
    /\ MaxFaults \in Nat
    /\ MaxAttempts \in Nat \ {0}
ASSUME KindAssumption == Recurring \in BOOLEAN /\ External \in BOOLEAN

VARIABLES
    schedule,   \* agent_schedules: status, lease, attempts, next occurrence
    run,        \* agent_schedule_runs, by occurrence
    snapshots,  \* agent_schedule_history_snapshots: occurrences with a copy
    latest,     \* the newest occurrence anybody has set
    claims,     \* leases taken so far
    job,        \* the dispatcher's work on each claim
    session,    \* conversation_sessions of kind 'scheduled'
    turn,       \* the Eve turn each claim started
    outbox,     \* telegram_final_deliveries of that turn
    handed,     \* history: turns Eve accepted for each occurrence
    delivered,  \* history: answers Telegram shows for each occurrence
    notices,    \* history: failure messages Telegram shows
    receipts,   \* proactive_deliveries
    authority,  \* membership and trust zone of the destination still hold
    proven,     \* the audience of the destination is proved
    faults      \* faults so far

dbVars   == <<schedule, run, snapshots, latest>>
chatVars == <<outbox, handed, delivered, notices, receipts>>
envVars  == <<authority, proven>>
vars == <<dbVars, claims, job, session, turn, chatVars, envVars, faults>>

Claims      == 1..MaxClaims
Token       == 0..MaxClaims
NoToken     == 0
Occurrences == 1..(1 + MaxMoves + MaxClaims)
ScheduleStatuses == {"active", "leased", "paused", "completed", "failed", "deleted"}
Terminal    == {"completed", "failed", "ambiguous"}
RunStatuses == {"absent", "claimed", "dispatching", "running"} \cup Terminal
JobSteps    == {"none", "history", "prepare", "begin", "send", "mark", "failHistory",
                "failHandoff", "discard", "done"}
TurnSteps   == {"none", "accepted", "thinking", "sending", "telegram", "receipt",
                "answered", "ended", "dead"}

\* Types, with the CHECK of migrations/029: a lease exactly while leased.
TypeOK ==
    /\ schedule \in [status : ScheduleStatuses, token : Token, live : BOOLEAN,
                     started : BOOLEAN, attempts : 0..MaxAttempts, next : Occurrences]
    /\ schedule.status = "leased" <=> schedule.token # NoToken
    /\ schedule.live \/ schedule.started => schedule.status = "leased"
    /\ run \in [Occurrences -> [status : RunStatuses, token : Token, session : Token,
                                eve : Token]]
    /\ snapshots \subseteq Occurrences
    /\ latest \in Occurrences
    /\ claims \in Token
    /\ job \in [Claims -> [at : JobSteps, occurrence : Occurrences, session : Token]]
    /\ session \in [Claims -> [status : {"none", "open", "retired"},
                               occurrence : Occurrences, eve : Token]]
    /\ turn \in [Claims -> TurnSteps]
    /\ outbox \in [Claims -> {"none", "started", "delivered", "ambiguous", "failed"}]
    /\ handed \in [Occurrences -> Nat]
    /\ delivered \in [Occurrences -> Nat]
    /\ notices \in [Occurrences -> Nat]
    /\ receipts \subseteq Occurrences
    /\ authority \in BOOLEAN /\ proven \in BOOLEAN
    /\ faults \in 0..MaxFaults

NoRun == [status |-> "absent", token |-> NoToken, session |-> 0, eve |-> 0]

\* A schedule just created, due at its first occurrence.
Init ==
    /\ schedule = [status |-> "active", token |-> NoToken, live |-> FALSE,
                   started |-> FALSE, attempts |-> 0, next |-> 1]
    /\ run = [o \in Occurrences |-> NoRun]
    /\ snapshots = {} /\ latest = 1 /\ claims = 0
    /\ job = [k \in Claims |-> [at |-> "none", occurrence |-> 1, session |-> 0]]
    /\ session = [k \in Claims |-> [status |-> "none", occurrence |-> 1, eve |-> 0]]
    /\ turn = [k \in Claims |-> "none"]
    /\ outbox = [k \in Claims |-> "none"]
    /\ handed = [o \in Occurrences |-> 0]
    /\ delivered = [o \in Occurrences |-> 0]
    /\ notices = [o \in Occurrences |-> 0]
    /\ receipts = {}
    /\ authority = TRUE /\ proven = TRUE
    /\ faults = 0

Fault == faults < MaxFaults /\ faults' = faults + 1
Goto(k, step) == job' = [job EXCEPT ![k].at = step]
TurnGoto(k, step) == turn' = [turn EXCEPT ![k] = step]

-----------------------------------------------------------------------------
(* The tables a transaction changes together, and what it makes of them. *)

DB == [schedule |-> schedule, run |-> run, snapshots |-> snapshots, latest |-> latest]
Commit(d) == /\ schedule' = d.schedule
             /\ run' = d.run
             /\ snapshots' = d.snapshots
             /\ latest' = d.latest

\* Mutation of Unleased: the token is not cleared.
Unleased_KeepsToken(s, status) == [s EXCEPT !.status = status, !.live = FALSE, !.started = FALSE]

Unleased(s, status) ==
    [s EXCEPT !.status = status, !.token = NoToken, !.live = FALSE, !.started = FALSE]

\* Mutation of FailWith: the history copies of the lost runs are kept.
FailWith_KeepsHistory(d, lost, status) ==
    [d EXCEPT !.schedule = Unleased(d.schedule, "failed"),
              !.run = [o \in Occurrences |->
                  IF o \in lost THEN [d.run[o] EXCEPT !.status = status] ELSE d.run[o]]]

\* The runs in `lost` end in `status` and the schedule fails with them.
FailWith(d, lost, status) ==
    [d EXCEPT !.schedule = Unleased(d.schedule, "failed"),
              !.run = [o \in Occurrences |->
                  IF o \in lost THEN [d.run[o] EXCEPT !.status = status] ELSE d.run[o]],
              !.snapshots = @ \ lost]

Waiting(d) == {o \in Occurrences : d.run[o].status = "claimed"}
Expired(s) == s.status = "leased" /\ ~s.live

\* Mutation of InHandoff: an unfinished handoff does not expire.
InHandoff_Never(d) == {}

\* Mutation of InHandoff: the sweep expires a run that is marked running, too.
InHandoff_Running(d) == {o \in Occurrences : /\ d.run[o].token = d.schedule.token
                                             /\ d.run[o].status \in {"dispatching", "running"}}

\* "Only an unfinished Eve handoff expires".
InHandoff(d) == {o \in Occurrences : /\ d.run[o].token = d.schedule.token
                                     /\ d.run[o].status = "dispatching"}

ExpireHandoff(d) ==
    IF Expired(d.schedule) /\ d.schedule.started /\ InHandoff(d) # {}
    THEN FailWith(d, InHandoff(d), "ambiguous")
    ELSE d

\* Mutation of Unstarted: a lease that reached Eve is recovered like any other.
Unstarted_Any(s) == Expired(s)

\* "Crashes before handoff are safe to recover, but only for bounded attempts."
Unstarted(s) == Expired(s) /\ ~s.started

RecoverLease(d) ==
    IF ~Unstarted(d.schedule) THEN d
    ELSE IF d.schedule.attempts >= MaxAttempts THEN FailWith(d, Waiting(d), "failed")
    ELSE [d EXCEPT !.schedule = Unleased(d.schedule, "active")]

RevokeDestination(d) ==
    IF d.schedule.status = "active" /\ ~authority THEN FailWith(d, Waiting(d), "failed") ELSE d

\* Mutation of Reclaimable: an occurrence that failed is tried again.
Reclaimable_Failed(r) == r.status \in {"absent", "claimed", "failed"}

\* "The same scheduled occurrence may be reclaimed only before Eve handoff starts."
Reclaimable(r) == r.status \in {"absent", "claimed"}

Attempted(s) == [s EXCEPT !.attempts = @ + 1]
Leased(s, k) == [s EXCEPT !.status = "leased", !.token = k, !.live = TRUE]

\* Lease k of a due schedule, or a conflict with a run that was handed off.
TakeLease(d, k) ==
    LET o == d.schedule.next IN
    IF d.schedule.status # "active" \/ d.schedule.attempts >= MaxAttempts THEN d
    ELSE IF Reclaimable(d.run[o])
    THEN [d EXCEPT !.schedule = Leased(Attempted(d.schedule), k),
                   !.run[o] = [d.run[o] EXCEPT !.status = "claimed", !.token = k]]
    ELSE FailWith([d EXCEPT !.schedule = Attempted(d.schedule)], {}, "failed")

\* `finishActiveAgentScheduleRun`: the running run of this application and Eve session.
Active(d, k) == {o \in Occurrences : /\ d.run[o].session = job[k].session
                                     /\ d.run[o].eve = k
                                     /\ d.run[o].status = "running"
                                     /\ d.schedule.status = "leased"}

\* `nextOccurrence` lies behind everything that was ever due.
Reopen(d, ok) ==
    IF Recurring
    THEN [d EXCEPT !.schedule = Unleased([d.schedule EXCEPT !.attempts = 0, !.next = d.latest + 1],
                                         "active"),
                   !.latest = d.latest + 1]
    ELSE [d EXCEPT !.schedule = Unleased(d.schedule, IF ok THEN "completed" ELSE "failed")]

Finish(d, k, ok) ==
    IF Active(d, k) = {} THEN d
    ELSE Reopen([d EXCEPT !.run = [o \in Occurrences |->
                              IF o \in Active(d, k)
                              THEN [d.run[o] EXCEPT !.status = IF ok THEN "completed" ELSE "failed"]
                              ELSE d.run[o]],
                          !.snapshots = @ \ Active(d, k)], ok)

\* turn.completed closes a run nothing else has closed.
SealTurn(k) == Finish(DB, k, FALSE)

\* `isAgentScheduleDeliveryAuthorized`.
Authorized(d, k) == authority /\ Active(d, k) # {}

-----------------------------------------------------------------------------
(* The minute dispatcher: agent-schedule-dispatcher.ts. *)

\* `claimDue`, one transaction; whether the schedule is due is up to the clock.
ClaimDue ==
    /\ LET swept == RevokeDestination(RecoverLease(ExpireHandoff(DB)))
           k == claims + 1
       IN  \/ /\ Commit(swept)
              /\ UNCHANGED <<claims, job>>
           \/ /\ k \in Claims
              /\ Commit(TakeLease(swept, k))
              /\ IF schedule'.token = k
                 THEN /\ claims' = k
                      /\ job' = [job EXCEPT
                             ![k].at = IF External THEN "history" ELSE "prepare",
                             ![k].occurrence = swept.schedule.next]
                 ELSE UNCHANGED <<claims, job>>
    /\ UNCHANGED <<session, turn, chatVars, envVars, faults>>

\* Ten minutes pass.
LeaseExpires ==
    /\ schedule.live
    /\ schedule' = [schedule EXCEPT !.live = FALSE]
    /\ UNCHANGED <<run, snapshots, latest, claims, job, session, turn, chatVars, envVars, faults>>

\* A copy of the group's history for the run; a failure fails the claim.
PrepareHistory(k) ==
    LET o == job[k].occurrence IN
    /\ job[k].at = "history"
    /\ \/ /\ o \in snapshots
          /\ Goto(k, "prepare")
          /\ UNCHANGED snapshots
       \/ /\ o \notin snapshots
          /\ authority /\ run[o].status = "claimed" /\ schedule.status = "leased"
          /\ snapshots' = snapshots \cup {o}
          /\ Goto(k, "prepare")
       \/ /\ Goto(k, "failHistory")
          /\ UNCHANGED snapshots
    /\ UNCHANGED <<schedule, run, latest, claims, session, turn, chatVars, envVars, faults>>

\* `prepareTurn` for the conversation `schedule:<run id>`: every claim of a run finds
\* the session an earlier claim of it prepared.
PrepareSession(k) ==
    LET open == {s \in Claims : /\ session[s].status = "open"
                                /\ session[s].occurrence = job[k].occurrence}
    IN
    /\ job[k].at = "prepare"
    /\ \/ \E s \in open :
             /\ job' = [job EXCEPT ![k].at = "begin", ![k].session = s]
             /\ UNCHANGED session
       \/ /\ open = {}
          /\ session' = [session EXCEPT ![k].status = "open",
                                        ![k].occurrence = job[k].occurrence]
          /\ job' = [job EXCEPT ![k].at = "begin", ![k].session = k]
       \/ /\ Goto(k, "done")
          /\ UNCHANGED session
    /\ UNCHANGED <<dbVars, claims, turn, chatVars, envVars, faults>>

Holds(k) == schedule.status = "leased" /\ schedule.token = k /\ ~schedule.started

\* A hold does not count as an attempt.
Refunded(s) == [s EXCEPT !.attempts = IF @ > 0 THEN @ - 1 ELSE 0]

\* What `beginAgentScheduleDispatch` commits; unchanged when it throws LEASE_STALE.
Begun(k) ==
    LET o == job[k].occurrence IN
    IF ~Holds(k) THEN DB
    ELSE IF ~proven
    THEN [DB EXCEPT !.schedule = Unleased(Refunded(schedule), "active")]
    ELSE IF External /\ ~authority THEN FailWith(DB, {o} \cap Waiting(DB), "failed")
    ELSE IF run[o].status = "claimed" /\ run[o].token = k
    THEN [DB EXCEPT !.schedule.started = TRUE,
                    !.run[o] = [run[o] EXCEPT !.status = "dispatching", !.session = job[k].session]]
    ELSE DB

BeginDispatch(k) ==
    /\ job[k].at = "begin"
    /\ Commit(Begun(k))
    /\ Goto(k, IF Begun(k).schedule.started /\ ~schedule.started THEN "send" ELSE "discard")
    /\ UNCHANGED <<claims, session, turn, chatVars, envVars, faults>>

\* The transaction fails, or only its acknowledgement is lost.
BeginFails(k) ==
    /\ job[k].at = "begin"
    /\ Fault
    /\ Commit(DB) \/ Commit(Begun(k))
    /\ Goto(k, "discard")
    /\ UNCHANGED <<claims, session, turn, chatVars, envVars>>

\* `retireUnstartedScheduledSession`, by session id alone.
Discard(k) ==
    LET s == job[k].session IN
    /\ job[k].at = "discard"
    /\ IF session[s].status = "open" /\ session[s].eve = 0
       THEN session' = [session EXCEPT ![s].status = "retired"]
       ELSE UNCHANGED session
    /\ Goto(k, "done")
    /\ UNCHANGED <<dbVars, claims, turn, chatVars, envVars, faults>>

\* Eve accepts the turn, refuses it, or accepts it while the answer is lost.
Send(k) ==
    /\ job[k].at = "send"
    /\ \/ /\ turn' = [turn EXCEPT ![k] = "accepted"]
          /\ handed' = [handed EXCEPT ![job[k].occurrence] = @ + 1]
          /\ \/ Goto(k, "mark") /\ UNCHANGED faults
             \/ Goto(k, "failHandoff") /\ Fault
       \/ /\ Goto(k, "failHandoff") /\ Fault
          /\ UNCHANGED <<turn, handed>>
    /\ UNCHANGED <<dbVars, claims, session, outbox, delivered, notices, receipts, envVars>>

\* `markAgentScheduleRunning`: its write, and the cases it accepts without one.
Markable(k) == /\ run[job[k].occurrence].token = k
               /\ run[job[k].occurrence].session = job[k].session
               /\ run[job[k].occurrence].status = "dispatching"
AlreadyMarked(k) == /\ run[job[k].occurrence].token = k
                    /\ run[job[k].occurrence].session = job[k].session
                    /\ \/ run[job[k].occurrence].status \in Terminal
                       \/ /\ run[job[k].occurrence].status = "running"
                          /\ run[job[k].occurrence].eve = k
Running(k) == [run[job[k].occurrence] EXCEPT !.status = "running", !.eve = k]
Marked(k) ==
    IF Markable(k)
    THEN [DB EXCEPT !.run[job[k].occurrence] = Running(k)]
    ELSE DB

MarkRunning(k) ==
    /\ job[k].at = "mark"
    /\ Commit(Marked(k))
    /\ Goto(k, IF Markable(k) \/ AlreadyMarked(k) THEN "done" ELSE "failHandoff")
    /\ UNCHANGED <<claims, session, turn, chatVars, envVars, faults>>

\* The connection stays lost through every retry, or the write fails otherwise.
MarkFails(k) ==
    /\ job[k].at = "mark"
    /\ Fault
    /\ \/ (Commit(DB) \/ Commit(Marked(k))) /\ Goto(k, "done")
       \/ Commit(DB) /\ Goto(k, "failHandoff")
    /\ UNCHANGED <<claims, session, turn, chatVars, envVars>>

ClaimFailed(k) == schedule.status = "leased" /\ schedule.token = k

\* `failClaim`; a stale one throws, and the session is then left alone.
FailClaim(k) ==
    LET o == job[k].occurrence
        own == IF run[o].token = k THEN {o} ELSE {}
    IN
    /\ job[k].at \in {"failHistory", "failHandoff"}
    /\ IF ClaimFailed(k)
       THEN /\ Commit(FailWith(DB, own, "failed"))
            /\ Goto(k, IF job[k].at = "failHandoff" THEN "discard" ELSE "done")
       ELSE Commit(DB) /\ Goto(k, "done")
    /\ UNCHANGED <<claims, session, turn, chatVars, envVars, faults>>

\* The dispatcher dies, or a write of `failClaim` or of the session fails.
JobDies(k) ==
    /\ job[k].at \notin {"none", "done"}
    /\ Fault
    /\ Goto(k, "done")
    /\ UNCHANGED <<dbVars, claims, session, turn, chatVars, envVars>>

-----------------------------------------------------------------------------
(* The Eve turn of a claim: channels/telegram.ts.  A handler that throws is *)
(* logged and its event swallowed (scripts/apply-eve-patches.ts).           *)

\* turn.started binds the session; a session that is retired stays unbound.
TurnStarts(k) ==
    LET s == job[k].session IN
    /\ turn[k] = "accepted"
    /\ IF session[s].status = "open" /\ session[s].eve <= k
       THEN session' = [session EXCEPT ![s].eve = k]
       ELSE UNCHANGED session
    /\ TurnGoto(k, "thinking")
    /\ UNCHANGED <<dbVars, claims, job, chatVars, envVars, faults>>

\* `isCurrentEveSession`.
Current(k) == session[job[k].session].status = "open" /\ session[job[k].session].eve = k

\* The session of a turn that ends is retired with it.
RetireOpen(k, open) ==
    session' = [s \in Claims |-> IF s \in open /\ session[s].status = "open" /\ session[s].eve <= k
                                THEN [session[s] EXCEPT !.status = "retired", !.eve = k]
                                ELSE session[s]]

\* `authorizeDelivery`.
MayDeliver(k) == Authorized(DB, k)

\* message.completed up to the send: no answer, a replaced session, or no authority.
AnswerWithheld(k) ==
    /\ turn[k] = "thinking"
    /\ TurnGoto(k, "answered")
    /\ UNCHANGED <<dbVars, claims, job, session, chatVars, envVars, faults>>

\* The audience is unproved: the delivery is suspended and the run closed.
AnswerSuspended(k) ==
    /\ turn[k] = "thinking"
    /\ Current(k) /\ ~proven
    /\ outbox' = [outbox EXCEPT ![k] = IF @ = "none" THEN "failed" ELSE @]
    /\ Commit(SealTurn(k))
    /\ TurnGoto(k, "answered")
    /\ UNCHANGED <<claims, job, session, handed, delivered, notices, receipts, envVars, faults>>

AnswerAuthorized(k) ==
    /\ turn[k] = "thinking"
    /\ Current(k) /\ proven /\ MayDeliver(k)
    /\ TurnGoto(k, "sending")
    /\ UNCHANGED <<dbVars, claims, job, session, chatVars, envVars, faults>>

\* Mutation of Unsent: a delivery under way is started again.
Unsent_Started(k) == outbox[k] \in {"none", "started"}

Unsent(k) == outbox[k] = "none"

\* The outbox (module FinalDelivery): start, or the answer a settled row gives.
StartDelivery(k) ==
    /\ turn[k] = "sending"
    /\ \/ /\ Unsent(k)
          /\ outbox' = [outbox EXCEPT ![k] = "started"]
          /\ TurnGoto(k, "telegram")
          /\ UNCHANGED dbVars
       \/ /\ outbox[k] = "delivered"
          /\ TurnGoto(k, "receipt")
          /\ UNCHANGED <<dbVars, outbox>>
       \/ /\ ~Unsent(k) /\ outbox[k] # "delivered"
          /\ outbox' = [outbox EXCEPT ![k] = IF @ = "started" THEN "ambiguous" ELSE @]
          /\ Commit(SealTurn(k))
          /\ TurnGoto(k, "answered")
    /\ UNCHANGED <<claims, job, session, handed, delivered, notices, receipts, envVars, faults>>

\* Telegram accepts the answer, rejects it, or its reply is lost.
TelegramReplies(k) ==
    /\ turn[k] = "telegram"
    /\ \E shown \in BOOLEAN, reply \in {"delivered", "failed", "ambiguous"} :
          /\ reply = "delivered" => shown
          /\ reply = "failed" => ~shown
          /\ delivered' = [delivered EXCEPT ![job[k].occurrence] = IF shown THEN @ + 1 ELSE @]
          /\ outbox' = [outbox EXCEPT ![k] = reply]
          /\ IF reply = "delivered"
             THEN TurnGoto(k, "receipt") /\ UNCHANGED dbVars
             ELSE TurnGoto(k, "answered") /\ Commit(SealTurn(k))
    /\ UNCHANGED <<claims, job, session, handed, notices, receipts, envVars, faults>>

\* `completeDeliveredRun`: the receipt stands even when the run does not.
CompleteDelivered(k) ==
    LET o == job[k].occurrence IN
    /\ turn[k] = "receipt"
    /\ receipts' = IF run[o].status = "absent" THEN receipts ELSE receipts \cup {o}
    /\ Commit(Finish(DB, k, TRUE))
    /\ TurnGoto(k, "answered")
    /\ UNCHANGED <<claims, job, session, outbox, handed, delivered, notices, envVars, faults>>

\* turn.completed.
TurnCompletes(k) ==
    /\ turn[k] = "answered"
    /\ Commit(SealTurn(k))
    /\ RetireOpen(k, {job[k].session})
    /\ TurnGoto(k, "ended")
    /\ UNCHANGED <<claims, job, chatVars, envVars, faults>>

\* A notice needs live authority and a run this very event closes.
Notifiable(d, k) == Authorized(d, k)

\* Failure messages go to private chats only.
Notice(k, shown) ==
    notices' = [notices EXCEPT ![job[k].occurrence] = IF shown /\ ~External THEN @ + 1 ELSE @]

\* turn.failed: the run is closed; a final send that may be visible mutes the notice.
TurnFails(k) ==
    /\ turn[k] \in {"thinking", "answered"}
    /\ Notice(k, Notifiable(DB, k) /\ outbox[k] \in {"none", "failed"})
    /\ Commit(SealTurn(k))
    /\ RetireOpen(k, {job[k].session})
    /\ TurnGoto(k, "ended")
    /\ UNCHANGED <<claims, job, outbox, handed, delivered, receipts, envVars, faults>>

\* "A terminal Eve event may beat the dispatcher's post-receive running marker."
Promoted(k) ==
    LET r == run[job[k].occurrence] IN
    IF schedule.status = "leased" /\ r.status = "dispatching" /\ r.eve = 0 /\ r.session # 0
    THEN [DB EXCEPT !.run[job[k].occurrence] = Running(k)]
    ELSE DB

\* session.failed finds the run, then the session, through the continuation token;
\* without a session to retire there is no notice.
SessionFails(k) ==
    LET open == {s \in Claims : /\ session[s].status = "open"
                                /\ session[s].occurrence = job[k].occurrence}
    IN
    /\ turn[k] \in {"accepted", "thinking", "answered", "ended"}
    /\ Fault
    /\ Notice(k, Notifiable(Promoted(k), k) /\ \E s \in open : session[s].eve <= k)
    /\ Commit(Finish(Promoted(k), k, FALSE))
    /\ RetireOpen(k, open)
    /\ TurnGoto(k, "dead")
    /\ UNCHANGED <<claims, job, outbox, handed, delivered, receipts, envVars>>

\* A handler's database call fails and the event is swallowed.
HandlerThrows(k) ==
    /\ Fault
    /\ \/ turn[k] \in {"sending", "receipt"} /\ TurnGoto(k, "answered") /\ Commit(DB)
       \/ turn[k] = "answered" /\ TurnGoto(k, "ended") /\ (Commit(DB) \/ Commit(SealTurn(k)))
    /\ UNCHANGED <<claims, job, session, chatVars, envVars>>

\* The process dies inside message.completed, perhaps with an answer Telegram has
\* accepted, and Eve replays the event.
HandlerReplayed(k) ==
    /\ turn[k] \in {"sending", "telegram", "receipt"}
    /\ Fault
    /\ \E accepted \in BOOLEAN :
          /\ accepted => turn[k] = "telegram"
          /\ delivered' = [delivered EXCEPT ![job[k].occurrence] = IF accepted THEN @ + 1 ELSE @]
    /\ TurnGoto(k, "thinking")
    /\ UNCHANGED <<dbVars, claims, job, session, outbox, handed, notices, receipts, envVars>>

-----------------------------------------------------------------------------
(* People: agent-schedule-repository.ts; groups, memberships, audiences. *)

\* Mutation of Editable: a lease does not refuse an edit.
Editable_Leased == schedule.status # "deleted"

\* Every edit is refused while the schedule is leased.
Editable == schedule.status \notin {"leased", "deleted"}

\* `update`: another date, on or off.  A new date may be one that was due before.
Update ==
    /\ Editable
    /\ \E enabled \in {"keep", "on", "off"}, moved \in BOOLEAN, next \in 1..latest + 1 :
          /\ next > latest => latest <= MaxMoves
          /\ ~moved => next = schedule.next
          /\ schedule' = [schedule EXCEPT
                 !.status = CASE enabled = "on" -> "active"
                              [] enabled = "off" -> "paused"
                              [] OTHER -> @,
                 !.next = next,
                 !.attempts = IF moved \/ enabled = "on" THEN 0 ELSE @]
          /\ latest' = IF next > latest THEN next ELSE latest
    /\ UNCHANGED <<run, snapshots, claims, job, session, turn, chatVars, envVars, faults>>

\* `runNow`: the next occurrence is this instant.
RunNow ==
    /\ Editable /\ latest <= MaxMoves
    /\ schedule' = [schedule EXCEPT !.status = "active", !.next = latest + 1, !.attempts = 0]
    /\ latest' = latest + 1
    /\ UNCHANGED <<run, snapshots, claims, job, session, turn, chatVars, envVars, faults>>

\* `delete`: runs and their history copies go with the schedule.
Delete ==
    /\ Editable
    /\ schedule' = [schedule EXCEPT !.status = "deleted"]
    /\ run' = [o \in Occurrences |-> NoRun]
    /\ snapshots' = {}
    /\ UNCHANGED <<latest, claims, job, session, turn, chatVars, envVars, faults>>

\* A member leaves or returns, a group changes its type, an audience its proof.
AuthorityChanges ==
    /\ \/ authority' = ~authority /\ UNCHANGED proven
       \/ proven' = ~proven /\ UNCHANGED authority
    /\ UNCHANGED <<dbVars, claims, job, session, turn, chatVars, faults>>

-----------------------------------------------------------------------------

Dispatcher(k) ==
    \/ PrepareHistory(k) \/ PrepareSession(k) \/ BeginDispatch(k) \/ Discard(k)
    \/ Send(k) \/ MarkRunning(k) \/ FailClaim(k)

Turn(k) ==
    \/ TurnStarts(k) \/ AnswerWithheld(k) \/ AnswerSuspended(k) \/ AnswerAuthorized(k)
    \/ StartDelivery(k) \/ TelegramReplies(k) \/ CompleteDelivered(k)
    \/ TurnCompletes(k) \/ TurnFails(k)

Faulty(k) ==
    \/ BeginFails(k) \/ MarkFails(k) \/ JobDies(k)
    \/ SessionFails(k) \/ HandlerThrows(k) \/ HandlerReplayed(k)

People == Update \/ RunNow \/ Delete \/ AuthorityChanges

Next ==
    \/ ClaimDue \/ LeaseExpires \/ People
    \/ \E k \in Claims : Dispatcher(k) \/ Turn(k) \/ Faulty(k)

Spec == Init /\ [][Next]_vars

\* Fairness: the minute cron, the clock, the steps of a dispatcher that lives, and an
\* Eve turn that ends.  A dispatcher and a turn have no two steps enabled for ever.
LiveSpec ==
    /\ Spec
    /\ WF_vars(ClaimDue) /\ WF_vars(LeaseExpires)
    /\ \A k \in Claims : WF_vars(Dispatcher(k)) /\ WF_vars(Turn(k))

-----------------------------------------------------------------------------
(* Safety. *)

ActiveRuns == {o \in Occurrences : run[o].status \in {"dispatching", "running"}}

\* A run Eve may be working on holds the schedule's lease, and the lease knows it was
\* started: no sweep of the dispatcher can give the schedule to a second run meanwhile
\* (claimDue, beginAgentScheduleDispatch, finishActiveAgentScheduleRun).
ActiveRunHoldsLease ==
    \A o \in ActiveRuns :
        schedule.status = "leased" /\ schedule.token = run[o].token /\ schedule.started

\* An occurrence enters Eve at most once, however often it is claimed ("retrying would
\* duplicate side effects").
HandedOnce == \A o \in Occurrences : handed[o] <= 1

\* An occurrence is answered at most once, over replays, lost replies and reclaims; its
\* failure is told at most once, whatever mixture of turn.failed and session.failed
\* reports it; and its run completes only with an answer Telegram shows and a receipt.
OutcomeIsTold ==
    \A o \in Occurrences :
        /\ delivered[o] <= 1 /\ notices[o] <= 1
        /\ run[o].status = "completed" => o \in receipts /\ delivered[o] > 0

\* From the authorization of an answer to its receipt, three awaits later, the run it
\* answers stays its own: still running under the lease and marked with this turn, with
\* no failure told of it, whatever other claims, sweeps, edits and revocations commit
\* meanwhile.  Nothing rereads the run before the answer is shown (message.completed).
AnswerKeepsRun ==
    \A k \in Claims :
        turn[k] \in {"sending", "telegram", "receipt"} =>
            LET o == job[k].occurrence IN
            /\ run[o].status = "running" /\ run[o].eve = k
            /\ schedule.token = run[o].token
            /\ notices[o] = 0

\* The copy of the group's history that a turn reads, made for a claim before the
\* handoff, is there for as long as Eve may work on the run, although stale claims, sweeps
\* and late events end other runs meanwhile; with its run the copy goes (claimDue,
\* failClaim, finishActiveAgentScheduleRun, readChunk).
HistoryServesRun ==
    /\ \A o \in snapshots : run[o].status \notin Terminal
    /\ External => ActiveRuns \subseteq snapshots

\* A run that ended is never reopened; only deleting the schedule removes it.
EndedForever ==
    [][\A o \in Occurrences :
         run[o].status \in Terminal => run'[o].status \in {run[o].status, "absent"}]_vars

\* An edit never moves a schedule away from a run that Eve may be working on: the next
\* occurrence and the status of the schedule change only when that run ends.
ScheduleWaitsForRun ==
    [][\A o \in ActiveRuns :
         run'[o].status \in {"dispatching", "running"} =>
             /\ schedule'.next = schedule.next
             /\ schedule'.status = schedule.status]_vars

-----------------------------------------------------------------------------
(* Liveness, and what the code or its comments say and the model does not show. *)

\* The turn of a claim is over and nothing is left to close its run.
Stranded(k) ==
    /\ turn[k] \in {"ended", "dead"}
    /\ run[job[k].occurrence].status = "running"
    /\ run[job[k].occurrence].token = k

\* A lease ends unless its turn was over before the run was marked running, or the
\* event that closes the run was swallowed.
LeaseEndsUnlessStranded ==
    \A k \in Claims : (schedule.token = k) ~> (schedule.token # k \/ Stranded(k))

\* "A terminal Eve event may beat the dispatcher's post-receive running marker", and
\* "tolerating an already-terminal event race": a lease always ends.
LeaseEnds == \A k \in Claims : (schedule.token = k) ~> (schedule.token # k)

=============================================================================
