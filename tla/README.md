# Homka: models, checks and proofs

Homka is a family assistant in Telegram. Updates of the Bot API arrive at a webhook, are stored in
PostgreSQL, are handed one by one to the agent runtime Eve, and the answer of the turn is sent back
to the chat. Beside that path run minute-cron jobs (scheduled runs, reminders, errands, videos,
memory review, initiative), external sandboxes, shared tasks of the household, and the installation
of new releases on the server.

This directory holds TLA+ specifications of its core, the configurations that model-check them with
TLC, and proofs that TLAPS checks. Every definition is translated from the source; `PROJECT.json`
maps each one to the lines it stands for.

1. [Inventory](#1-inventory)
2. [How the project is built](#2-how-the-project-is-built)
3. [The modules and the code](#3-the-modules-and-the-code)
4. [The runs](#4-the-runs)
5. [Bounds](#5-bounds)
6. [Fairness](#6-fairness)
7. [Proofs](#7-proofs)
8. [Model-checked only](#8-model-checked-only)
9. [What the code does that nobody wrote down](#9-what-the-code-does-that-nobody-wrote-down)
10. [Not modelled](#10-not-modelled)

## 1. Inventory

State lives in PostgreSQL unless said otherwise; "process" means the one Node process of the agent.
Paths are under `src/agent/` unless they begin with `src/`. The last column names the module that
models the part, or says that none does.

| Component | State | Operations | Interacts with | Hard behaviour | What makes it correct | Module |
|---|---|---|---|---|---|---|
| Telegram ingress (`lib/telegram-ingress-*`, `telegram-durable-ingress.ts`, `telegram-session-boundary.ts`) | `telegram_ingress_updates`, `eve_session_event_cursors`; process: drain loops, `staleLeasesRelease` | enqueue, claimNext, claimFollowing, barriers, complete, fail, renewLease, releaseStaleLeases | webhook, poller, Eve, speech provider, group migration | crashes, leases that run out under a live loop, lost turn boundaries, series | each update enters Eve at most once, in order, alone; is billed once; is eventually settled | `TelegramIngress`, `IngressOrder` |
| Media admission (`acceptMedia` of the same repository) | tombstones of unauthorized albums, audit rows | acceptMedia, enqueue | webhook retries, media policy | a retry after a policy change | no update is both refused and queued | none, see 9 |
| Final delivery (`lib/telegram-final-delivery*.ts`, `channels/telegram.ts`) | `telegram_final_deliveries`, `telegram_final_delivery_chunks` | start, confirmChunk, complete, fail, suspend | Eve redelivery, Telegram (no idempotency key), turn.failed | overlap of executions, unknown outcome of a send | no chunk twice, no gap, an honest outcome | `FinalDelivery` |
| Scheduled runs (`lib/agent-schedules/`) | `agent_schedules`, `agent_schedule_runs` | create, pause, resume, claimDue, begin, markRunning, complete, fail, expire, hold | minute cron, Eve, final delivery | dispatch after a crash, a completion that beats the dispatcher | an occurrence runs once; its outcome is told once | `AgentSchedule` |
| Sessions (`lib/sessions/`) | `conversation_sessions`, generations, routes | prepare, rotate, park, complete, fail, retire | ingress, Eve, approvals | rotation against a running or parked turn | one canonical session per conversation | `Conversations` |
| Approvals (`lib/telegram-hitl/`, `channels/hitl-approval-timeout.ts`) | `telegram_hitl_approvals` | register, claimCallback, authorizeReply, claimExpired, completeTimeout, failTimeout, clear | parked turns of Eve, presses, the sweep | two presses, a press against the timeout | one decision per confirmation; a refused action never runs | `Conversations` |
| Reminders (`lib/reminders/`) | `reminders`, `proactive_deliveries` | create, update, delete, claimDue, hold, markDispatchStarted, complete, fail | minute cron, Telegram, shared tasks, journal | lost acknowledgements, retries, edits that race the dispatcher | no reminder twice, none lost silently | `Reminders` |
| Errands (`lib/errands/`) | `errands`, `errand_research_runs`, `errand_deliveries` | create, research, result, send, cancel, deliver, settle | Eve replays, paid search, Telegram | a paid call with an unknown result, an answer after the attempt was closed | paid once, handed over once, never denied | `Errands` |
| Memory review (`lib/memory-review/`) | `memory_review_lanes`, `memory_review_batches` | observe, prepare, claim, dispatch, finish, skip, give back | ingress, Eve, minute cron | a chain of batches whose head is lost | every message is passed, none twice | `MemoryReview` |
| Videos (`lib/video-generation/`, `workspaces/workspace-file-sender.ts`) | `video_generation_operations`, the month's account, file receipts | start, poll, settle, deliver, cancel | provider, object storage, Telegram | a paid call with an unknown result, two passes over one order | paid from a hold, shown once | `VideoGeneration` |
| Shared tasks (`lib/shared-task-*.ts`) | `shared_tasks`, events, operation keys | claim, accept, decline, complete, cancel, reopen, update, transfer, release, batches | planner turns of several people | overlapping transactions, repeated calls, locks in opposite orders | a task changes hands by consent, a call counts once | `SharedTasks`, `TaskRecurrence` |
| Software updates (`lib/software-updates/`, `src/scripts/production-deploy*`) | `software_update_proposals`; controller: flags, services, database | check, offer, press, claim, deploy, fail, recover | systemd timer, owner's press | failure or crash between any two commands | installed by consent, once; a failure leaves what worked working | `SoftwareUpdates` |
| Sandbox runner (`src/services/sandbox-runner/`) | process: activity counts, creation gates; Docker containers | use, create, wake, stop, sweep, replace | Docker, Eve tools | the sweep against new work, creation that fails half-way | a container in use is kept, no creation hands over an unseeded one | `SandboxRunner` |
| Spaces (`lib/spaces/`) | spaces, audiences, membership proofs | prove audience, authorize delivery | Telegram membership | a proof that is stale when used | nothing is delivered to an unproved audience | a switch in `AgentSchedule`, `Reminders`, `VideoGeneration` |
| Group migration (`lib/telegram-group-migration/`) | all chat-keyed tables | detect, re-key, retire | ingress | updates of both chats in flight | nothing of the old chat is replayed in the new one | `Migrate` and `RetireMigratedChatIngress` of `TelegramIngress`; see 9 |
| Initiative, seen deliveries (`lib/initiative/`, `lib/proactive-deliveries/`) | daily claims, unseen-delivery cursor | plan, claim, deliver | cron, Telegram | two passes that overlap | see 9 | none |
| Memory (`lib/memory-*.ts`) | claims, sources, threads, conflicts, undo log | remember, supersede, undo, confirm, forget | review, tools | none across two transactions | provenance stays complete | none |
| Joint decisions, relay, shopping, grocery | per-feature rows | create, vote, forward, check off | presses of several people | one transaction each, behind a version or an operation key | one outcome per operation | none |
| Attachments, workspaces, images | files, receipts | import, open, send | object storage, Telegram | as a video's file | one receipt per file | the receipt, in `VideoGeneration` |
| Google workspace, provider catalogue, model transport | OAuth states, catalogue revisions | connect, refresh, publish | providers | token refresh | external | none |
| Tools, tool policy, prompts, skills | per-feature rows | CRUD with authorization | model | none of their own | authorization | none |

## 2. How the project is built

The order followed what a person would notice first when it goes wrong: a request executed twice, an
answer sent twice or lost, a schedule that fires twice or never again; then a decision ignored,
something paid twice, a task that changes hands behind somebody's back, a release nobody wanted.

| Module | Abstract specification or composition | Its proofs |
|---|---|---|
| `TelegramIngress` | refines `IngressOrder` (one instance per chat, property `InOrder`) | `TelegramIngressProofs` |
| `FinalDelivery` | | `FinalDeliveryProofs` |
| `AgentSchedule` | contains the outbox of `FinalDelivery` as the answer it asks it for | `AgentScheduleProofs` |
| `Conversations` (sessions and approvals) | | `ConversationsProofs` |
| `Reminders` | `Household` | `RemindersProofs` |
| `Errands` | `Household` | `HouseholdProofs` |
| `MemoryReview` | `Household` | `HouseholdProofs` |
| `VideoGeneration` | `Household` | `VideoGenerationProofs` |
| `SharedTasks`, `TaskRecurrence`, `SoftwareUpdates`, `SandboxRunner` | `Backstage` | `BackstageProofs` |

`Household` and `Backstage` put components side by side that share no row: a variable chosen at the
start (`schedule`, `moving`) says which of them moves, the others rest in an initial state. The
product of their behaviours would add interleavings that touch nothing in common. The proofs use the
composition step by step: a step of the composed module is a step or a stutter of each part.

An `MC` module gives constants values a configuration cannot write (functions, symmetry sets). No
module declares a RECURSIVE operator.

## 3. The modules and the code

`PROJECT.json` ("map") gives the lines of every definition. One action is one database transaction,
one external call, or one step of a handler between two awaits; a crash, an expired lease or another
process can fall between any two of them. Mutated forms of a definition (names with an underscore,
`AtHead_PastLeased`) stand before it; they take no part in any behaviour and exist so that each
property can be shown to depend on the code.

**`TelegramIngress`.** `status`, `attempt`, `live`, `dispatched`, `voice` are columns of
`telegram_ingress_updates`: `live` says that `lease_expires_at` lies in the future, and `attempt`
doubles as the lease token, because one UPDATE renews both. `cursor` is `eve_session_event_cursors`,
counted in turn boundaries instead of events. `pc[d]` is where the drain loop `d` of
`telegram-durable-ingress.ts` stands, `held[d]` and `token[d]` are the leases in its memory,
`release` is the promise `staleLeasesRelease`. `current`, `turns` and `ended` are Eve: the session
of a chat, its queued turns, and how many have emitted their boundary. Actions bear the names of
the repository methods. `ClaimNext` is the candidate query with its anti-join and the UPDATE it
feeds; `BeginDispatch` is the barrier; `CompleteWithSession` moves row and cursor in one transaction.
The approvals' state of a chat, whether a message addresses the agent and whether a voice is
authorized are nondeterministic choices. `rekeyQueue` and `release` of the repository are not
called outside tests and are left out, which is why the component counts as partly modelled.

**`IngressOrder`** is what a chat is promised: an update waits, enters alone and in order, settles.
`Phase` maps the columns to it; `InOrder` is the refinement.

**`FinalDelivery`.** `row` and `receipts` are the outbox tables, `pc[e]`, `output[e]`, `ordinal[e]`,
`definitive[e]` one execution of message.completed, `shown` what Telegram displays, `notice` an
execution of turn.failed. A text is one of three renderings (the answer, the form of it that a
release before v0.14 stored, another answer), each with a number of chunks.

**`AgentSchedule`.** `schedule` and `run` are the rows of `agent_schedules` and
`agent_schedule_runs`, `snapshots` the history copies of a group. What a transaction makes of these
tables is a function on the record `DB` (`ExpireHandoff`, `RecoverLease`, `RevokeDestination`,
`TakeLease`, `Begun`, `Marked`, `Finish`), so that `claimDue`, which runs four of them in one
transaction, is their composition. `job[k]` is the dispatcher's work on claim `k`, `session[k]` the
application session that claim prepared, `turn[k]` the events of the Eve turn it started. A number
names a claim, its lease token and its Eve session; that is sound because each is issued by one
claim, while `job[k].session` may be an earlier claim's number. Dates are ordinals: a recurrence
moves to an occurrence that was never due before, an edit may return to one that was.

**`Conversations`** holds the sessions of one chat and the confirmations their turns wait for.
`session` is `conversation_sessions` by generation, `base` and `alias` the routes to them, `row` and
`leased` are `telegram_hitl_approvals`, `prompt` what the chat sees of a step with confirmations,
`turn[s]` the Eve root of a session, `press`, `sweep` and `serving` where a callback, the minute
sweep and a message stand; `ran` is history (which gated actions were executed), `late` the number of rows of a
step already overdue, `policy` the audience. `PlainMessage` is the preparation of a turn
with all its rotations; `TurnStep` and `TurnChoice` are the event handlers of a turn (input.requested,
turn.completed, turn.failed, turn.cancelled); `PersonStep` is a press or a text answer. Errors in an
event handler of Eve are logged and swallowed, except in input.requested; the model does the same.
A press by the wrong person and a failed edit of a message change no state and are left out.

**`Reminders`.** `reminder[r]` is a row, `job[r][t]` the work of one dispatcher batch under lease
token `t`, `receipt` the rows of `proactive_deliveries`, `posted` what Telegram took, by *arm*: a
number for each time the reminder was set to. `household` is what the delivery checks (membership,
proof, quiet hours), `task` a linked task, whose end pauses or completes its reminders. `claimDue`'s
statements are one step.

**`Errands`.** `errand` and `delivery` are rows, `research` the run of a paid search,
`caller[c]` a tool call that asks for it, `courier[w]` an execution of the delivery; `paid`,
`handed` and `confirmed` count what the outside world saw. Research and its result belong to
version 1 of an errand in preparation.

**`MemoryReview`.** One lane. `lane` is its cursor, the id of its newest batch, and the batches by predecessor,
`said` the messages, `turn[i]` the turn of a batch, `reviewer[w]` a dispatcher. A batch rides on an
interactive turn or is reviewed in the background; `Tick` is the dispatcher's minute, with the
counting of lost heads and the skip of stale ones.

**`VideoGeneration`.** `order` and `charge` are the operation and its place on the month's account,
`calls[o]` the tool call that pays, `production` and `ordered` the provider, `lease`, `saved` and
`fileReceipt` the completion queue and the file, `pass[p]` one pass of the minute schedule or of a
status request, `shown` the chat.

**`SharedTasks`.** `sharedTask` and `offerStands` are rows, `worker[w]` a transaction: it takes the
advisory lock of its operation key, locks the rows of a batch in the order of their ids, decides, and
commits with the last lock. `taskCall[k]` is what Eve asked under key `k`, `recorded` the operation
rows, `unanswered` the calls whose answer Eve has not heard and may repeat, `applied` how often the
changes of a key were committed. A batch does the same to two tasks; rows begin as created by one
author; an optional version may be outdated.

**`TaskRecurrence`.** Days of the Gregorian calendar, counted from 1 January of `FirstYear`, whose
months are computed in closed form, so that the module knows every year; it speaks of the code from
the year 100 to 9999, where dates of text and of JavaScript agree with the number. `NextIndex` estimates how
many occurrences have gone by and searches on from there, as `shared-task-recurrence.ts` does;
`NextDateIsNearest` compares it with the dates of the rule told by a quantifier (`OnRule`).

**`SoftwareUpdates`.** `proposal[v]` and `check[c]` are the offer of a release to its owner,
`deploy` the controller of `production-deploy.sh` with its flags, `site` the services and the
migration of the server, `begun` and `consent` history. `StepFails` runs the handler of
failure with all its branches; `ControllerDies` is a crash, after which the lease runs out.

**`SandboxRunner`.** One session. `box` is its container, `registry` the process's memory (the count
of its calls, last use, the gate of its creation and the tail of the line of creations), `use[c]`,
`stop` and `sweep[s]` where a call, a stop request and a sweep stand between two awaits. `muddled`
and `leftover` are history: a stop request forgot calls that still run; a half-seeded container
was left behind. Both appear in `SandboxKept` as the exceptions the code really has.

## 4. The runs

| Run | Instance | Shows |
|---|---|---|
| `ingress_faults` | a voice and two texts of one chat by two authors, 2 loops, no series, 2 faults among crash, expiry, db_error, dispatch_error, migration, release_error (1 418 049 states) | `TypeOK`, `EntersEveOnce`, `BilledOnce`, and the refinement `InOrder` |
| `ingress_series` | 3 texts of one author, 2 loops, series of 2, boundaries lost, 3 rotations | `TurnsKeepApart`: a message is completed by its own turn |
| `ingress_settles` | a text and an unparsable update behind it, a press in another chat, one loop of each pool, 1 fault among crash, db_error, late_arrival, rotation_error, boundaries lost, 2 rotations; `FairSpec` (171 505 states) | `EveryUpdateSettles`, `PressNotStarved` |
| `delivery_replays` | 3 executions of message.completed, 1 of turn.failed, 1 to 3 chunks | `TypeOK`, `SentOnce`, `ReceiptsAreTrue`, `SentAsIntended`, `NoNoticeBelowAnswer` |
| `schedule_runs` | recurring, private chat, 2 claims, 1 edit of the date, 1 fault, 2 attempts (1 260 732 states) | `TypeOK`, `ActiveRunHoldsLease`, `HandedOnce`, `OutcomeIsTold`, `ScheduleWaitsForRun`, `AnswerKeepsRun` |
| `schedule_settles` | one-shot, external group, 2 claims, 1 fault; `LiveSpec` | `HistoryServesRun`, `LeaseEndsUnlessStranded` |
| `conversations` | a group, 2 generations, 1 step of 2 confirmations, a sweep of one row at a time, 2 messages, 1 change of the audience, 1 fault (782 452 states) | `ConversationsTypeOK`, `RefusedStaysUnexecuted`, `DecisionIsFinal`, `OverdueSettles` |
| `household` | a reminder with 2 batches, 2 attempts, 2 arms, a task; an errand with 2 callers, 2 couriers, 3 changes, 3 faults; a lane with 2 dispatchers, 2 messages, 4 batches, 1 failure; 2 videos on an account for 1, 2 passes, 2 failures (506 276 states) | `HouseholdTypesOK`, `ReminderSentOnce`, `RecordedReachesTimeline`, `ErrandDoneOnce`, `ErrandIsAccountedFor`, `ReviewStrandsAndRepeatsNothing`, `PaidFromHold`, `VideoShownOnce`, `QueuesDrain` |
| `backstage` | 2 tasks of 2 people, 2 transactions, 2 calls, 1 fault; dates over a quarter with short months and at a leap February; 2 releases, 2 owners, 2 faults; a sandbox with 2 calls, 1 sweep, 1 stop, 1 fault (200 780 states) | `BackstageTypesOK`, `SandboxKept`, `TasksChangeByConsent`, `NextDateIsNearest`, `InstalledByConsent`, `FailedIsRestored`, `NothingHangs` |

Three runs show a disagreement between the code and what the repository says of it:

- `ingress_stale_boundary` (`OwnBoundary`): a crash during a turn fails the update without moving the
  cursor and without rotating the session; the next message is completed by the boundary of the
  interrupted turn, while its own still runs.
- `schedule_eternal_lease` (`LeaseEnds`): a turn that ends before `markAgentScheduleRunning` leaves a
  run that is then set to running and that nothing closes. The schedule stays leased and refuses every edit.
- `conversations_frozen` (`DecisionReachesEve`): a text answer to a question consumes its row and
  sets the task to running; the preparation of the same message then refuses the task because it is no
  longer pending, so Eve never hears the answer and the turn stays parked.

## 5. Bounds

- Updates: two of one chat show any order and any shared turn; a third lets a row wait behind a
  settled and an open one and lets a series stop short. Chats share no row, so a second chat appears only
  where the callback pool needs a chat that is free.
- Loops: two message loops suffice for every conflict of leases; they are interchangeable and the
  safety runs use that symmetry (liveness runs use none). `MaxFaults` = 2 covers a fault during the
  recovery from a fault. A lost boundary is counted not by `MaxFaults` but by `MaxRotations`; there
  the bound is at least the number of turns that can be queued, so that it never blocks a rotation.
- Executions: three, so that a replay meets one that died and one that still runs. They are
  interchangeable. Chunks: 3, 2 and 1, so that the renderings differ in length and the longest one has a middle.
- Claims: two overlapping leases of a run, which is what a dispatcher that outlives its lease needs.
  `MaxMoves` = 1 lets an edit move the schedule once forwards and any number of times to a date that
  was due before. `MaxAttempts` = 2 makes both branches of the recovery reachable. `MaxFaults` = 1.
- Conversations: two generations, so that a prompt can outlive the session that asked; two
  confirmations of a step and a sweep that takes one row (the code takes five), so that a step is
  split over sweeps as a step of six is.
- Household and Backstage: two of each actor that can overlap (batches, callers, couriers,
  dispatchers, passes, transactions, owners), one of the controller, which is one systemd unit, and one
  sweep of the sandbox (two overlap when a sweep outlasts its minute; see below). `PassSize` = 1 lets
  two messages make a chain; an account with room for one of two videos makes the limit bite.
- Dates: anchors on the 15th, 30th and 31st, today on either side of short months, intervals 1 and 2,
  February of 2027 with 28 days and of 2028 with 29. The search looks at 3 indices after its first
  (`SearchSteps`; 1000 in the code); `SearchFindsDate` shows that one is enough. Nothing bounds the due dates.
- Larger instances were explored once and kept out of the list for their time: the sandbox with two
  calls of three uses each and two sweeps (1 171 530 states), three calls on shared tasks (618 000),
  a video account with three failures (567 139), memory review with batches of two and three
  messages (473 000) and with two failures (868 000). They hold.
- All runs but those of the ingress say `CHECK_DEADLOCK FALSE`: a settled delivery, a deleted
  schedule or a closed errand has nothing left to do, and the bounds end every run of people's
  actions. In the ingress a new loop can always start, and deadlock is checked.

## 6. Fairness

Only weak fairness is assumed, and never of faults, of people, of the provider's good will or of
`LoseBoundary`.

- `TelegramIngress!Fairness`: the poller (`scripts/telegram-ingress-worker.ts`) requests a drain
  every five seconds, so a loop that is off starts again (`ScheduleDrain`); an awaited call of the loop
  returns or throws (`LoopStep`); a lease nobody renews runs out, since `lease_expires_at` is a time
  (`Holder(u) = {} /\ LeaseExpires(u)`). Nothing is assumed of Eve's turns: a loop waits as long as
  the session stream has events (`waitForSessionBoundary` restarts its idle window at each).
  `EveryUpdateSettles` therefore carries the condition `TurnsFallSilent`: a turn that does not end
  falls silent at some time. `PressNotStarved` holds without it, which is what the callback pool is for.
- `AgentSchedule!LiveSpec`: the minute cron (`ClaimDue`), the clock (`LeaseExpires`), the next step of
  a dispatcher and of an Eve turn.
- `ConversationsFairness`: the next event of a turn, a press that is under way, the clock, the minute
  sweep, a lease that runs out. Not that a person presses: `OverdueSettles` needs only the clock and the sweep.
- `RemindersFairness`: the minute cron, the clock, the next step of a batch. `ErrandsFairness`: the
  minute's closing of abandoned attempts, their age, the next step of a courier.
- `MemoryReviewFairness`: a dispatcher whose bounds have run out (`LateTick`), its next step, and that
  Eve starts and ends the turns it has; a pending question is answered or times out.
- `VideosFairness`: the next step of a pass, a lease that lapses, a provider that decides.
- `SharedTasksFairness`: a transaction proceeds when it can. PostgreSQL would abort one of two
  transactions that wait for each other; the model has no such rescue, so `NothingHangs` shows that
  the circle cannot form: rows are locked in the order of their ids.
- `UpdatesFairness`: the minute timer and the commands of the controller, and the clock of its lease.
  `SandboxFairness`: some call, the stop request, the sweep and the clock go on.

In a composed module the parts that rest have no fair step enabled in their initial state, so their
fairness asks for nothing there.

## 7. Proofs

TLAPS checks the following for every value of the constants, from the named assumptions of each
module (`BoundsAssumption` and its like: bounds are naturals, shapes are among those listed, a null
value is none of the real ones). TLC evaluates each assumption in the runs. The theorems below are
the ones `PROJECT.json` lists; the lemmas they rest on stand before them in the same module.

| Module | Theorem | States | Invariant it rests on |
|---|---|---|---|
| `TelegramIngressProofs` | `TypeCorrect` | `TypeOK` | `TypeInv`: a loop past `cursor` has a session, and one at `finish` has seen a boundary that exists |
| | `EntersEveOnceCorrect` | `EntersEveOnce` | `EnterInv`: what entered Eve is marked; a loop at `dispatch` has marked its first row and nobody has used the mark; no other loop is there with that row |
| | `BilledOnceCorrect` | `BilledOnce` | `BillInv`: the same for the provider, and `HoldsWhatItWorksOn`: a loop that prepares, transcribes or waits holds exactly one row |
| | `LeaseExclusiveCorrect` | no row has two owners | `LeaseInv`: tokens never exceed the attempts of their row, and two loops hold different tokens |
| | `SettlementIsFinal` | settled stays settled | none beyond the types |
| | `InOrderCorrect` | `Orderly => (Spec => InOrder)` | `OrderInv`: see below |
| | `TurnsKeepApartCorrect` | `Steady => (Spec => []TurnsKeepApart)` | `SessionInv`: see below |
| `FinalDeliveryProofs` | `TypeCorrect`, `SettlementIsFinal` | `TypeOK`; an outcome stays | none |
| | `SentOnceCorrect`, `SentInOrderCorrect` | `SentOnce`; what is shown is a prefix | `Inv`: a claimed row is no longer pending; one executor at most has ever claimed; it has sent nothing at or past its ordinal |
| | `SentAsIntendedCorrect`, `OneUnreceiptedCorrect`, `DeliveredIsShownCorrect`, `ReceiptsAreTrueCorrect`, `NoNoticeBelowAnswerCorrect` | the properties of these names | `SpeaksInv`: the receipts are the chunks sent, but for the one at hand; what an executor knows to be definitive is so |
| `AgentScheduleProofs` | `TypeCorrect`, `ActiveRunHoldsLeaseCorrect` | `TypeOK`, `ActiveRunHoldsLease` | `Sound`: see below |
| | `EndedForeverCorrect`, `ScheduleWaitsForRunCorrect` | an ended run stays so; `ScheduleWaitsForRun` | `Sound` and `Follows`, what a transaction may make of the tables |
| | `AnswerKeepsRunCorrect` | `AnswerKeepsRun` | `AnswerInv`: see below |
| | `HandedOnceCorrect` | `HandedOnce` | an Eve session belongs to one occurrence; `HandedFrom`: an occurrence that may still be claimed was never handed over, and no job is about to |
| | `OutcomeIsToldCorrect` | `OutcomeIsTold` | `SpokenBy`: turn step, outbox row and what the chat shows agree; a notice goes with the event that ends the run |
| | `HistoryServesRunCorrect` | `HistoryServesRun` | `HistoryInv`: see below |
| `ConversationsProofs` | `ConversationsTypeCorrect` | `ConversationsTypeOK` | `TypeInv`: the shapes, `UsedSessions`, `GroupKinds` |
| | `DecisionIsFinalCorrect`, `RefusedStaysUnexecutedCorrect` | `DecisionIsFinal`, `RefusedStaysUnexecuted` | `Cards`: what a prompt shows, what its rows hold and what its turn may still run, per prompt and per turn |
| `RemindersProofs` | `RemindersTypeCorrect` | types | `Placed` |
| | `ReminderSentOnceCorrect` | `ReminderSentOnce` | an arm that may have been sent rests until the row moves on to the next |
| | `RecordedReachesTimelineCorrect` | `RecordedReachesTimeline` | `ReceiptReached` |
| `VideoGenerationProofs` | `VideosTypeCorrect`, `PaidFromHoldCorrect`, `VideoShownOnceCorrect` | types, `PaidFromHold`, `VideoShownOnce` | `MoneyInv` (an order is unasked, pending behind a hold, or judged) and `FilesInv` (one sender behind a receipt) |
| `HouseholdProofs` | `ErrandsTypeCorrect`, `ErrandDoneOnceCorrect`, `ErrandIsAccountedForCorrect` | types, `ErrandDoneOnce`, `ErrandIsAccountedFor` | `ResearchInv` (one asker behind `started`), `DeliveryInv` (one carrier behind `sending`; the attempt mirrors the errand) |
| | `MemoryReviewInvariant`, `MemoryReviewTypeCorrect`, `ReviewStrandsAndRepeatsNothingCorrect` | types, `ReviewStrandsAndRepeatsNothing` | `ReviewInv`: see below |
| | `HouseholdTypesCorrect`, `HouseholdKeepsPromises` | `HouseholdTypesOK`; the composed module keeps the promises of its parts | each step is a step or a stutter of every part |
| `BackstageProofs` | `TasksTypeCorrect`, `TasksInvariant`, `TasksConsentCorrect` | types, `TasksChangeByConsent` | `TasksInv`: a key runs once at a time, a locked row stays as it was allowed, an offer that stands is the assignee's |
| | `UpdatesTypeCorrect`, `UpdatesInvariant`, `ReleaseNeedsConsent`, `FailureIsHarmless` | types, `InstalledByConsent`, `FailedIsRestored` | `LeasedToController`, `FlagsTellStage`, `ConsentStands`, `BegunIsPast`, `UpgradesOnly`, `FoundStands` |
| | `SandboxTypeCorrect`, `SandboxInvariant`, `CreationsTakeTurns`, `SandboxKeptCorrect` | types, one creation at a time, `SandboxKept` | `SandboxInv`: the count is exact unless muddled, the creations stand in one line, the builder holds the lock |
| | `TransactionsNeverInCircle`, `TurnIsPassedOn` | among any transactions one waits for none of the others; a line of creations has a head | `TasksInv`: who locks its second row holds the one with the lesser id; `SandboxInv`: the places in line |
| | `RecurrenceTypeCorrect`, `NextDateIsNearestCorrect`, `SearchFindsDate` | `RecurrenceTypeOK`, `NextDateIsNearest`, an index found at the first or second attempt | the types; see below |
| | `BackstageTypesCorrect`, `BackstageKeepsPromises` | `BackstageTypesOK`; the composed module keeps what is proved of its parts | each step is a step or a stutter of every part |

**Permissions.** `EntersEveOnce` is not inductive: nothing in it forbids a state in which the row was
handed to Eve and a loop stands at `dispatch` with it. The strengthening says where the one
permission to enter is at each moment: in the unset mark, in the loop that set it, or spent.
`SentOnce`, `HandedOnce`, `PaidFromHold`, `VideoShownOnce`, `ErrandDoneOnce` and `ReminderSentOnce`
are the same argument with the outbox row, the status `dispatching`, the started order, the file
receipt, the research run and the arm as the permission. It shows what the code's leases are for: in
videos and errands the durable barriers alone carry safety, and no lease is mentioned in the invariants.

**Order.** `InOrder` needs `OrderInv`: a loop that owns a row holds every open row before it
(`Fronted`), a marked open row is the first open one (`EnteredFirst`), rows arrive in order, and,
where no loop dies or stalls, each row in processing has its loop (`Attended`). The hypothesis
`Orderly` says what the order really depends on: updates of a chat are committed in the order of
their ids, and either series are not formed or no loop dies, stalls or loses a statement. Without
the first a later message that was already claimed goes first; without the second a follower that a
dead loop left in processing is passed by (section 9). `TurnsKeepApart` needs `SessionInv`: loops
hold rows of different chats, the turn a loop waits for is the last of the current session and the
only one past its cursor, a session not yet current is empty. Its hypothesis `Steady` admits lost
boundaries, migrations and rejected releases of leases only: `ingress_stale_boundary` shows a crash
breaking it.

**Leases.** `ActiveRunHoldsLease` needs `Sound` because a sweep fails the runs of a token, while the
property speaks of every active run. The invariant closes the gap: the lease is the newest claim, a
token names one occurrence, hence one active run at most exists, and a run under a lease has not
ended. `Sound` and `Follows` are proved once for each function on the tables and composed along
`claimDue`; each action then only commits one of these functions.

**Answers and copies.** Between the authorization of an answer and its receipt nothing rereads the
run, so `AnswerKeepsRun` must follow from what the others cannot do. A running run belongs to the turn
it was marked with and that turn's dispatcher is done (`MarkedByDispatcher`), so no dispatcher fails it; the sweep
and `failClaim` end runs of other states or tokens; a lease over a started run is not taken over; and
an event of another turn does not find the run by its session (`TurnLeaves`). `HistoryInv` carries the
copy of the history the same way: what ends drops it (`EndedKeepNone`), whoever prepared has it
(`PreparedHaveCopy`), and every function on the tables takes from the copies only those of
runs it ends (`OnlyEnds`), so an active run keeps its own (`ActiveHaveCopy`).

**Decisions.** A decision is final because three things agree for each prompt (`CardOK`): what the
message shows, what the rows hold, and what the turn may still be answered. Most steps of the module
touch one of them, if any, and are dealt with by lemmas about quiet steps.

**Locks.** `TasksChangeByConsent` looks at one commit, but what a transaction decided lies several steps
back, at the lock. `LocksKept` carries it: a row that was found allowed stays so while it is held, since
only its holder writes it. In the sandbox the line of creations is a promise chain of JavaScript; the
invariant gives each call a place in it by a function `f` on the calls. From both follows the safety
that `NothingHangs` rests on there. `TransactionsNeverInCircle`: a transaction waits for a key, whose
holder waits for rows only, or for a row, whose holder waits for a later one at most; among those who
lock, whoever wants the last of the rows wanted waits for none of the others. `TurnIsPassedOn`: the call
with the least place is behind nobody, and the place of a call that leaves passes to the next.

**Dates.** The proof rests on lemmas about the calendar for every year: the days before a month grow
with the month by 28 to 31, every day lies in one month, and `MonthOf` finds it. Hence the dates of a
rule grow with their index and are exactly the days on the rule (`OnRule`), though a short month cuts
them; and the estimate of `nextOccurrenceOn` is never too high and at most one index short, though it
ignores the days of the month. The least index found is therefore the nearest date. The lemmas on
quotients and remainders stand first, because the provers know little of division.

**Chains.** `SavedFromOnce` and `ChainIsWhole` need each other, and neither is inductive. `LaneInv`
says what a lane looks like: rows reach forward and do not overlap, what the cursor has passed ends at
or before it, what it has not is chained to it, and only the row at the cursor is ever handed to a
dispatcher (`HandedOut`). The last part is what keeps the chain whole: a row can become `ambiguous`
or `failed` only after it was handed out, hence only at the cursor, where it blocks the lane; it is
also why `NextPlaceIsFree` holds. `TurnsFit` ties the turns to it: what a turn may read and what it
saved are messages of its own row, and a row something was saved from is never released (`Keeps`).
`KindsFit` is needed because `session.failed` looks at the turn to tell whether the row is a
background one. `Advanced`, `CoveredThrough` and `Portions` are recursive functions over the lane:
`WalkExists` and `WalkEnds` show that a walk which only goes forward exists and where it stops, by
the least place at which it would not. Each transaction of the repository is then a composition of
a few changes (`ChangedRow`, `ReleasedRow`, `AdvancedLane`, `InsertedLane`), each of which keeps `LaneInv`.

## 8. Model-checked only

- Liveness: `EveryUpdateSettles`, `PressNotStarved`, `LeaseEndsUnlessStranded`, `OverdueSettles`,
  `QueuesDrain`, `NothingHangs`. Fairness is built on ENABLED, which the prover does not support.
  `TransactionsNeverInCircle` and `TurnIsPassedOn` prove the safety that `NothingHangs` rests on for
  tasks and the sandbox: nobody waits in a circle, and no turn is lost. Every invariant and every
  action property of the runs is proved.

## 9. What the code does that nobody wrote down

The three violations of section 4 contradict a line of the repository. What follows was met while
modelling. Unless noted, the models contain it: the properties are stated so that they hold beside it.

**Ingress.** The anti-join of `claimNext` is a barrier only against rows that are committed: when the
earlier update of a chat is committed after the later one was claimed, both are inside Eve. A crash
right after a series was leased leaves its followers in processing and the head reclaimable;
`claimFollowing` (`telegram-ingress-repository.ts:296`) then passes them by and a later message enters
first. A failed rotation lets the next message take an earlier boundary, as does an error of the event
stream that is no lost boundary (`telegram-session-boundary.ts:65`). `staleLeasesRelease ??= ...` keeps
a rejected promise, so one database error after a start stops every loop at that promise until the
process is restarted; `EveryUpdateSettles` is checked without this error, which refutes it. Media
admission is not modelled: `acceptMedia` (`telegram-ingress-repository.ts:72`) decides by the policy of the moment,
so two webhook requests for one update on either side of a policy change may meet a refusal and an
acceptance.

**Outbox.** A rejection after the first chunk fails the row although a chunk is visible, so a failure
notice may follow it (`telegram-final-delivery.ts:108` against the comment at `channels/telegram.ts:484`).

**Schedules.** `prepareTurn` gives every claim of a run the same session; the dispatcher of an
expired claim retires it under the turn of the next (`agent-schedule-dispatcher.ts:147`). A held
schedule that is moved leaves a claimed run behind (`agent-schedule-dispatch-state.ts:47`). The
`RETURNING ... IS NOT DISTINCT` at line 53 of that file, as at `reminder-dispatch-repository.ts:146`,
compares with the row after the update. Not modelled: `spaces/closed-rollback.ts`, which runs with the
application stopped and can pause a leased schedule, after which the completion compares a token that
is gone (`agent-schedule-run-completion.ts:126`); and the runs of a chat that
`telegram-group-migration/retire-ingress.ts:20` retires.

**Conversations.** The sweep may split a step of several confirmations (it takes five rows, and rows
of one step can differ in `created_at`): Eve never merges partial answers and the turn stays parked.
A crash between `claimCallback` and the answer to Eve loses the press, since the update is not
dispatched twice and the sweep ignores a consumed row; the replay branch of `claimCallback` cannot be
reached. `turn.completed` reads `awaiting` and writes it back later, so a decision in between leaves
`pending_operation` set for ever (against `approval-timeout-repository.ts:124`). The sweep answers Eve
with cancel before it settles, so a press in between is recorded as approved though the turn was
cancelled. An approver who cannot be proved closes the rows without an answer to Eve. `turn.failed`
on a task just retired throws in `requestRotation` and skips the clearing of its rows; `turn.cancelled`
clears rows and leaves `pending_operation`.

**Reminders.** The audience is proved in one transaction and the dispatch marked in the next (line 309).
A linked task that ends while its reminder is leased leaves it `failed` instead of paused. Reopening
a task also reactivates a reminder its author paused by hand. An update of the recurrence alone keeps
the old date.

**Videos.** A refusal at the last check before a send, even for a passing reason or a lapsed lease,
marks the receipt failed, so the next attempt reads PREVIOUSLY_FAILED and the order ends `failed` though
nothing was sent (`workspace-file-sender.ts:69`). A crash between `fail` and `settle 0` keeps the
hold; an order whose id could not be stored keeps it too. A send that outlives its lease lets a second
pass call the delivery failed though the file arrived. `cancel_delivery` cannot recall a send in flight.

**Memory review.** A batch that is deleted takes the source set of its turn with it, which is why
nothing is saved twice. A batch that ended without its sources stands in the middle of the chain and
blocks every interactive preparation (unique predecessor) until the head finishes. A skipped batch loses
its messages without a note to the owner. A batch bound to its session but not to its turn is refused by
`failRunning` (`memory-review-terminal-repository.ts:498`) and waits for the hour. Not modelled: the
lookup of provenance before the lane's lock; a write of the owner, which does not look at the source set
again.

**Shared tasks.** The second "done" of another person on the same day advances the task again (against
the comment at `shared-task-recurrence.ts:119`). Completing an occurrence clears a pending transfer
without a word. `accept_transfer` and `decline_transfer` check no version. The creator of an open task
cannot cancel it. An occurrence done after its date was moved ahead may get an earlier date.
`AGENT_TASK_RECURRENCE_EXHAUSTED` cannot be reached (`SearchFindsDate`). A moved date leaves the anchor
of the rule.

**Software updates.** A stale checker may offer an older release after a newer one was decided; only
`require_upgrade_from_current` stops it. A press that races `markDeliveryFailure` gets STATE_CONFLICT,
and its decision stands. `deliverProposal` swallows its failures, so the comment at
`release-checker.ts:77` is not true. After a crash with a live lease a second approved proposal may be
claimed, and two rows are `deploying`. After an ambiguous release a later failure before its migration restarts
the old version on the migrated database and reports that the current version works. A crash
between the stop and the migration leaves the services stopped and nothing restarts them; a later
failed validation tells the owner that the current version works (hence `found` in `FailedIsRestored`).
Not modelled: `TimeoutStopSec` (90 s) is shorter than the recovery can take; pruning at the claim may delete the
only backup of an ambiguous release; a failed pruning of images after success reports "ambiguous".

**Sandbox.** `forget`, at a stop request, drops the counts of calls that run, and until they end the
sweep may stop a container in use (against `docker-sandbox-lifecycle.ts:12`; `muddled`).
`requireRunningContainer` reads the count before it awaits, so a restart by one call can kill the
command of another. The removal of orphans removes whatever bears the name, perhaps a container made
anew. Seeds that fail and whose clean-up fails leave a container that is accepted later
(`leftover`). Two calls may wake one container, and the second gets Docker's 304 as an error. A
container never started has finished in the year 1 and only the activity gate keeps it.
A change of policy removes the container under running commands.

**Not modelled at all.** The daily limit of the initiative is read in one statement and claimed in
another (`initiative/daily-overview-repository.ts:62`), so two kinds of messages that claim at once exceed it,
against "none of them can be got around" (`daily-overview-dispatch.ts:8`); a partner's alert around
midnight may come twice. The cursor of seen deliveries is a sequence number
(`proactive-delivery-repository.ts:219`): a delivery that took its number earlier and commits later is
never seen. The migration of a group is one transaction of the operator with the writers paused, which refuses while
anything is leased or running; completed and failed reminders keep the old chat (`reconcile.ts:71`).

## 10. Not modelled

- Texts, formatting, prompts, the model and its tools: no control of the modelled parts depends on them.
- Time: a lease or a due date passes at any moment. Whether ten minutes are enough is not a question
  these models answer; that the code is right when they are not is. Two bounds are taken as above
  anything real: an hour for the work of a memory batch's turn (`started_at` is not renewed when a
  person answers, `memory-review-terminal-repository.ts:227`, so a resumed turn may be closed under way,
  which the model lets happen as one of its failures), and the deployment's lease (60 min) above
  systemd's `TimeoutStartSec` (45 min).
- The contents of a membership proof. A proof holds or fails at any step (`proven`, `authority`).
- Taken as one step though the code awaits in between: the route and the rows of a prompt
  (`input-request.ts:275`; before they are complete the prompt has no buttons, and of a repeated
  request the sweep may take any part of the rows anyway), and the restart of the runner
  (`main.ts:44` removes the containers while calls in flight end).
- Within modelled parts: a press whose delivery ends at `approval.settled` because other prompts of the
  session are open (`telegram-session-boundary.ts:81`; the model's loop waits for the boundary of the
  turn); route aliases other than those of prompts, and the removal of the alias of a settled prompt by
  a reply to it (`approval-repository.ts:377`); capacity and retention leases of sessions;
  `share_answer` of errands; month change, overbilling, a provider that reports two costs for one job
  (`AGENT_VIDEO_COST_CONFLICT`) and orders older than the queue of videos; owner's alerts and personal
  lanes of memory review; ideas, rituals, plans, lists and mixed batches of shared tasks, and the time
  zone of whoever says "done" (one day for the whole family; the code takes that of the acting person);
  the first installation, one-time bridges and validation against GitHub of updates; the window of an
  orderly shutdown and one-shot containers of the sandbox.
- The components with status `not_modelled` in `PROJECT.json`, each with its reason: they are single
  transactions over data, configuration, or I/O with an external service.
- Coverage: the mapped lines are about a tenth of the repository's. The rest is tools that call one
  repository method each, prompts, parsing, rendering, SQL over memory and its ranking, and clients of
  external services; little of it has a state another actor can change between two of its steps.
  
