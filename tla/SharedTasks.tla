------------------------------- MODULE SharedTasks ------------------------------
(***************************************************************************)
(* The tasks people of a family share: who asked, who carries a task out,  *)
(* to whom it is being handed over.                                        *)
(*                                                                         *)
(*   agent/lib/shared-task-repository.ts    one call of the planner tool   *)
(*   agent/lib/shared-task-batch.ts         several changes of one call    *)
(*   agent/lib/shared-task-transition.ts    locking a row, its status      *)
(*   agent/lib/shared-task-handover.ts      transfer and release           *)
(*                                                                         *)
(* Every call runs in one transaction: it takes the key of the operation,  *)
(* reads each task, locks its row, compares the version and changes it.    *)
(* Eve repeats a call whose answer it did not get, under the same key.     *)
(*                                                                         *)
(* A call that is not allowed when it starts changes nothing and is left   *)
(* out: if nobody wrote the task meanwhile it is refused, and if somebody  *)
(* did its version conflicts.                                              *)
(***************************************************************************)
EXTENDS Integers, Sequences

CONSTANTS
    People,             \* Telegram users of the family
    NoPerson,             \* no assignee
    TaskCount,          \* tasks are 1..TaskCount, in the order of their ids
    TaskWorkers,        \* transactions that may run at once
    MaxTaskCalls,       \* bound: calls of the planner tool
    MaxTaskFaults       \* bound: crashes and lost answers

ASSUME SharedTaskConstants ==
    /\ People # {} /\ NoPerson \notin People
    /\ TaskCount \in Nat /\ MaxTaskCalls \in Nat /\ MaxTaskFaults \in Nat

Tasks == 1..TaskCount
TaskKeys == 1..MaxTaskCalls     \* operation keys, in the order of the calls

VARIABLES
    sharedTask,     \* the rows of shared_tasks
    offerStands,    \* history: the offer was made by the present assignee
    taskCall,       \* who asks for which changes under a key, while it may still run
    issued,         \* calls issued
    recorded,       \* keys in shared_task_operations
    applied,        \* history: how often the changes of a key were committed
    unanswered,     \* keys Eve will repeat
    worker,         \* the transactions
    slips           \* counter of the bound of faults

tasksVars == <<sharedTask, offerStands, taskCall, issued, recorded, applied, unanswered, worker, slips>>

StatusActions == {"claim", "accept", "decline", "complete", "cancel", "reopen"}
Changes == [task : Tasks, action : {"transfer"}, to : People]
           \cup [task : Tasks, to : {NoPerson},
                 action : StatusActions \cup {"update", "release", "accept_transfer", "decline_transfer"}]
TaskRows == [status : {"open", "proposed", "accepted", "completed", "cancelled", "declined"},
             author : People, holder : People \cup {NoPerson}, offered : People \cup {NoPerson},
             repeats : BOOLEAN]

\* current: tasks of the call nobody changed since it was issued; held: rows it locked;
\* behind: tasks others changed since it began, which it may have read before.
NoCall == [who |-> NoPerson, changes |-> <<>>, current |-> {}]
NoWorker == [at |-> "idle", key |-> 0, next |-> 1, held |-> {}, behind |-> {}, failed |-> FALSE]

\* The rows keep three CHECKs of the table, and no row is locked twice.
SharedTasksTypeOK ==
    /\ sharedTask \in [Tasks -> TaskRows]
    /\ \A t \in Tasks : LET row == sharedTask[t]
                        IN  /\ (row.status = "open") = (row.holder = NoPerson)
                            /\ row.offered # NoPerson => row.status = "accepted" /\ row.offered # row.holder
    /\ offerStands \in [Tasks -> BOOLEAN]
    /\ issued \in 0..MaxTaskCalls /\ slips \in 0..MaxTaskFaults
    /\ recorded \subseteq TaskKeys /\ unanswered \subseteq TaskKeys
    /\ applied \in [TaskKeys -> 0..2]
    /\ \A k \in TaskKeys : /\ taskCall[k].who \in People \cup {NoPerson}
                           /\ taskCall[k].changes \in Seq(Changes)
                           /\ taskCall[k].current \subseteq Tasks
    /\ \A w \in TaskWorkers :
           /\ worker[w].at \in {"idle", "keyed", "locking"}
           /\ worker[w].held \cup worker[w].behind \subseteq Tasks
           /\ \A v \in TaskWorkers : v # w => worker[v].held \cap worker[w].held = {}

\* createTask: open, the author's own, or proposed to somebody else.
CreatedTask(author, holder, repeats) ==
    [status |-> IF holder = NoPerson THEN "open" ELSE IF holder = author THEN "accepted" ELSE "proposed",
     author |-> author, holder |-> holder, offered |-> NoPerson, repeats |-> repeats]

\* The first task repeats and may be on offer already; the others are their author's own.
SharedTasksInit ==
    /\ \E author \in {CHOOSE p \in People : TRUE}, holder, offered \in People \cup {NoPerson} :
           /\ offered # NoPerson => holder = author /\ offered # author
           /\ sharedTask = [t \in Tasks |->
                  IF t = 1 THEN [CreatedTask(author, holder, TRUE) EXCEPT !.offered = offered]
                           ELSE CreatedTask(author, author, FALSE)]
    /\ offerStands = [t \in Tasks |-> sharedTask[t].offered # NoPerson]
    /\ taskCall = [k \in TaskKeys |-> NoCall]
    /\ issued = 0 /\ recorded = {} /\ unanswered = {}
    /\ applied = [k \in TaskKeys |-> 0]
    /\ worker = [w \in TaskWorkers |-> NoWorker]
    /\ slips = 0

Slip == slips < MaxTaskFaults /\ slips' = slips + 1

-----------------------------------------------------------------------------
(* What a person may do with a task, and what becomes of its row. *)

ClosedStatuses == {"completed", "cancelled", "declined"}

\* nextSharedTaskStatus, applyTaskHandover and mutateTaskPlan. current: the caller
\* gave the version the row still has, which a handover and an update require.
Allowed(row, who, action, current) ==
    CASE action = "claim"   -> row.status = "open"
      [] action \in {"accept", "decline"} -> row.status = "proposed" /\ row.holder = who
      [] action = "complete" -> row.status = "accepted" /\ row.holder = who
      [] action = "cancel"  -> row.status \in {"proposed", "accepted"} /\ who \in {row.author, row.holder}
      [] action = "reopen"  -> row.status \in {"completed", "cancelled"} /\ who \in {row.author, row.holder}
      [] action = "update"  -> row.status \notin ClosedStatuses /\ row.holder \in {who, NoPerson} /\ current
      [] action \in {"transfer", "release"} -> row.status = "accepted" /\ row.holder = who /\ current
      [] action = "accept_transfer" -> row.offered = who
      [] action = "decline_transfer" -> row.offered # NoPerson /\ who \in {row.offered, row.holder}

NextStatus(row, who, action) ==
    CASE action \in {"claim", "accept"} -> "accepted"
      [] action = "decline" -> "declined"
      [] action = "cancel"  -> "cancelled"
      \* a repeating task goes on with its next occurrence
      [] action = "complete" -> IF row.repeats THEN "accepted" ELSE "completed"
      [] action = "reopen"  -> IF row.holder = who THEN "accepted" ELSE "proposed"
      [] action = "release" -> "open"
      [] OTHER -> row.status

NextHolder(row, who, action) ==
    CASE action = "claim" -> who
      [] action = "release" -> NoPerson
      [] action = "accept_transfer" -> row.offered
      [] OTHER -> row.holder

\* Whatever ends the present assignee's turn takes the offer with it.
EndsOffer == {"complete", "cancel", "decline", "release", "accept_transfer", "decline_transfer"}
NextOffered_SurvivesRelease(row, change) ==
    CASE change.action = "transfer" -> change.to
      [] change.action \in EndsOffer \ {"release"} -> NoPerson
      [] OTHER -> row.offered
NextOffered(row, change) ==
    CASE change.action = "transfer" -> change.to
      [] change.action \in EndsOffer -> NoPerson
      [] OTHER -> row.offered

Changed(row, who, change) ==
    [row EXCEPT !.status = NextStatus(row, who, change.action),
                !.holder = NextHolder(row, who, change.action),
                !.offered = NextOffered(row, change)]

-----------------------------------------------------------------------------
(* A call of the planner tool. *)

\* The transactions are alike: the first idle one takes a call.
IdleWorker(w) == /\ worker[w].at = "idle"
                 /\ w = CHOOSE v \in TaskWorkers : worker[v].at = "idle"

KeysInUse == {worker[w].key : w \in TaskWorkers} \cup unanswered

\* executionOrder: the rows of a batch are taken in the order of their ids.
IdOrder_AsGiven(changes) == changes
IdOrder(changes) ==
    IF Len(changes) = 2 /\ changes[1].task > changes[2].task
      THEN <<changes[2], changes[1]>> ELSE changes

MayAsk(who) == {c \in Changes : Allowed(sharedTask[c.task], who, c.action, TRUE) /\ c.to # who}
\* A batch does the same to two tasks.
CallsOf(who) ==
    {<<c>> : c \in MayAsk(who)}
    \cup {p \in MayAsk(who) \X MayAsk(who) : /\ p[1].task # p[2].task
                                            /\ p[1].action = p[2].action
                                            /\ p[1].action \in StatusActions}

\* Its key is new, so that it waits for nobody and finds nothing recorded.
IssueCall(w) ==
    /\ IdleWorker(w) /\ issued < MaxTaskCalls
    /\ issued' = issued + 1
    /\ \E who \in People : \E changes \in CallsOf(who) :
           taskCall' = [taskCall EXCEPT ![issued + 1] =
               [who |-> who, changes |-> changes, current |-> {changes[i].task : i \in DOMAIN changes}]]
    /\ worker' = [worker EXCEPT ![w].at = "locking", ![w].key = issued + 1]
    /\ UNCHANGED <<sharedTask, offerStands, recorded, applied, unanswered, slips>>

\* Eve runs the step again; the first run may still be under way.
RepeatCall(w) ==
    /\ IdleWorker(w)
    /\ \E k \in unanswered : /\ unanswered' = unanswered \ {k}
                             /\ worker' = [worker EXCEPT ![w].at = "keyed", ![w].key = k]
    /\ UNCHANGED <<sharedTask, offerStands, taskCall, issued, recorded, applied, slips>>

\* A call nobody runs or will repeat is forgotten.
Forgotten(calls) == [k \in TaskKeys |-> IF k \in KeysInUse' THEN calls[k] ELSE NoCall]

\* The advisory lock of the key, then the operations already recorded under it.
AnsweredBefore_Unread(key) == FALSE
AnsweredBefore(key) == key \in recorded
TakeKey(w) ==
    /\ worker[w].at = "keyed"
    /\ \A v \in TaskWorkers : worker[v].at = "locking" => worker[v].key # worker[w].key
    /\ worker' = [worker EXCEPT ![w] =
           IF AnsweredBefore(@.key) THEN NoWorker ELSE [@ EXCEPT !.at = "locking"]]
    /\ UNCHANGED <<sharedTask, offerStands, issued, recorded, applied, unanswered, slips>>
    /\ taskCall' = Forgotten(taskCall)

-----------------------------------------------------------------------------
(* lockTaskForChange: the version is read, then the row is locked and compared. *)

CallOf(w) == taskCall[worker[w].key]
NextChange(w) == IdOrder(CallOf(w).changes)[worker[w].next]
AtLast(w) == worker[w].next = Len(CallOf(w).changes)
RowFree(w) == /\ worker[w].at = "locking"
              /\ \A v \in TaskWorkers \ {w} : NextChange(w).task \notin worker[v].held

\* The rights are checked on the locked row.
StillAllowed(w) ==
    Allowed(sharedTask[NextChange(w).task], CallOf(w).who, NextChange(w).action,
            NextChange(w).task \in CallOf(w).current)
\* The version may differ from the one read before the lock, if others changed the row
\* since the call began, and from the one the caller gave, which most actions may do.
Outdated(w) ==
    \/ NextChange(w).task \in worker[w].behind
    \/ /\ NextChange(w).action \notin {"accept_transfer", "decline_transfer"}
       /\ NextChange(w).task \notin CallOf(w).current

\* A refused change of a batch gives its row back and the next one is tried, so that
\* all refusals are told.
LockTask(w) ==
    /\ RowFree(w) /\ ~AtLast(w)
    /\ \E fine \in BOOLEAN :
           /\ IF fine THEN StillAllowed(w) ELSE ~StillAllowed(w) \/ Outdated(w)
           /\ worker' = [worker EXCEPT
                  ![w].next = @ + 1,
                  ![w].held = IF fine THEN @ \cup {NextChange(w).task} ELSE @,
                  ![w].failed = @ \/ ~fine]
    /\ UNCHANGED <<sharedTask, offerStands, taskCall, issued, recorded, applied, unanswered, slips>>

\* With the last row the changes and the operation are committed together, or nothing is.
CommitCall(w) ==
    LET changes == CallOf(w).changes
        tasks == {changes[i].task : i \in DOMAIN changes}
        changeOf(t) == CHOOSE c \in {changes[i] : i \in DOMAIN changes} : c.task = t
        k == worker[w].key
    IN  /\ RowFree(w) /\ AtLast(w) /\ ~worker[w].failed /\ StillAllowed(w)
        /\ sharedTask' = [t \in Tasks |-> IF t \in tasks THEN Changed(sharedTask[t], CallOf(w).who, changeOf(t))
                                                         ELSE sharedTask[t]]
        /\ offerStands' = [t \in Tasks |->
               \/ t \in tasks /\ changeOf(t).action = "transfer"
               \/ /\ offerStands[t] /\ sharedTask'[t].holder = sharedTask[t].holder
                  /\ sharedTask'[t].offered # NoPerson]
        /\ recorded' = recorded \cup {k}
        /\ applied' = [applied EXCEPT ![k] = IF @ < 2 THEN @ + 1 ELSE @]
        /\ worker' = [v \in TaskWorkers |->
               IF v = w THEN NoWorker
               ELSE IF worker[v].at = "locking" THEN [worker[v] EXCEPT !.behind = @ \cup tasks] ELSE worker[v]]
        /\ \/ UNCHANGED <<unanswered, slips>>
           \/ Slip /\ unanswered' = unanswered \cup {k}
        /\ taskCall' = Forgotten([j \in TaskKeys |-> [taskCall[j] EXCEPT !.current = @ \ tasks]])
        /\ UNCHANGED issued

RefuseCall(w) ==
    /\ RowFree(w) /\ AtLast(w) /\ (worker[w].failed \/ ~StillAllowed(w) \/ Outdated(w))
    /\ worker' = [worker EXCEPT ![w] = NoWorker]
    /\ UNCHANGED <<sharedTask, offerStands, issued, recorded, applied, unanswered, slips>>
    /\ taskCall' = Forgotten(taskCall)

\* A crash rolls the transaction back, or Eve gives the run up while it goes on.
CallSlips(w) ==
    /\ worker[w].at # "idle" /\ Slip
    /\ unanswered' = unanswered \cup {worker[w].key}
    /\ worker' = [worker EXCEPT ![w] = NoWorker] \/ UNCHANGED worker
    /\ UNCHANGED <<sharedTask, offerStands, taskCall, issued, recorded, applied>>

-----------------------------------------------------------------------------
TransactionStep(w) == TakeKey(w) \/ LockTask(w) \/ CommitCall(w) \/ RefuseCall(w)

SharedTasksNext == \E w \in TaskWorkers :
    IssueCall(w) \/ RepeatCall(w) \/ TransactionStep(w) \/ CallSlips(w)

\* A statement is executed as soon as the locks it waits for are free.
SharedTasksFairness == \A w \in TaskWorkers : WF_tasksVars(TransactionStep(w))

-----------------------------------------------------------------------------
\* Nobody becomes or stops being responsible for a task without a word of their own:
\* the assignee changes when the new one takes a free task, when the old one lets it
\* go, or when the new one accepts what the present one offers; a task becomes
\* accepted only by its assignee. And the changes of a call are committed once,
\* however often Eve repeats it.
TasksChangeByConsent ==
    [][\A w \in TaskWorkers : worker[w].at = "locking" /\ applied'[worker[w].key] # applied[worker[w].key] =>
          /\ applied[worker[w].key] = 0
          /\ \A t \in Tasks :
                LET old == sharedTask[t]
                    new == sharedTask'[t]
                    who == CallOf(w).who
                IN  /\ new.holder # old.holder =>
                           \/ old.holder = NoPerson /\ new.holder = who
                           \/ new.holder = NoPerson /\ old.holder = who
                           \/ new.holder = who /\ old.offered = who /\ offerStands[t]
                    /\ new.status = "accepted" /\ old.status # "accepted" => new.holder = who]_tasksVars

\* Calls never wait for each other in a circle.
TaskCallsEnd == \A w \in TaskWorkers : worker[w].at # "idle" ~> worker[w].at = "idle"

=============================================================================
