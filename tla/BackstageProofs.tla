----------------------------- MODULE BackstageProofs ----------------------------
(***************************************************************************)
(* Proofs about the parts behind the conversations, for any number of      *)
(* people, tasks, transactions, checks, owners, releases, calls and sweeps *)
(* and any bound of the faults: shared tasks change hands by consent, a    *)
(* release is begun at most once and by the consent of the person asked,   *)
(* a repeating task goes on to the nearest date of its rule, and the       *)
(* runner keeps a container whose calls still run.                         *)
(***************************************************************************)
EXTENDS Backstage, FiniteSetTheorems, SequenceTheorems, NaturalsInduction,
        WellFoundedInduction, TLAPS

\* A set of numbers has a smallest one.
LEMMA SmallestOne ==
    ASSUME NEW T \in SUBSET Nat, T # {}
    PROVE  \E k \in T : \A j \in T : k <= j
<1>1. PICK k \in T : \A j \in T : ~(<<j, k>> \in OpToRel(<, Nat))
  BY NatLessThanWellFounded, WFMin
<1>2. \A j \in T : ~(j < k)
  BY <1>1 DEF OpToRel
<1>3. QED
  BY <1>2

-----------------------------------------------------------------------------
(***************************************************************************)
(* Shared tasks. A key runs in one transaction at a time and not again once *)
(* it is recorded; a row is locked by one transaction, so that what it found *)
(* allowed stays allowed; an offer that stands is the present assignee's.  *)
(***************************************************************************)

SharedTasksSpec == SharedTasksInit /\ [][SharedTasksNext]_tasksVars

RowKept(row) ==
    /\ row \in TaskRows
    /\ (row.status = "open") = (row.holder = NoPerson)
    /\ row.offered # NoPerson => row.status = "accepted" /\ row.offered # row.holder

CallShapes == [who : People \cup {NoPerson}, changes : Seq(Changes), current : SUBSET Tasks]
WorkerShapes == [at : {"idle", "keyed", "locking"}, key : 0..MaxTaskCalls, next : {1, 2},
                 held : SUBSET Tasks, behind : SUBSET Tasks, failed : BOOLEAN]

TasksTyped ==
    /\ sharedTask \in [Tasks -> TaskRows] /\ \A t \in Tasks : RowKept(sharedTask[t])
    /\ offerStands \in [Tasks -> BOOLEAN]
    /\ issued \in 0..MaxTaskCalls /\ slips \in 0..MaxTaskFaults
    /\ recorded \subseteq TaskKeys /\ unanswered \subseteq TaskKeys
    /\ applied \in [TaskKeys -> 0..2]
    /\ taskCall \in [TaskKeys -> CallShapes]
    /\ worker \in [TaskWorkers -> WorkerShapes]

\* A call asks for one change, or for the same of two tasks; nobody offers a task to himself.
Sensible(call) ==
    /\ call.who \in People /\ Len(call.changes) \in {1, 2}
    /\ \A i \in DOMAIN call.changes : call.changes[i].to # call.who
    /\ Len(call.changes) = 2 =>
          /\ call.changes[1].task # call.changes[2].task
          /\ call.changes[1].action \in StatusActions /\ call.changes[2].action \in StatusActions

\* A key runs once at a time, and not again when it is recorded.
KeysKept ==
    /\ recorded \cup unanswered \subseteq 1..issued
    /\ \A k \in TaskKeys : applied[k] # 0 => k \in recorded
    /\ \A w \in TaskWorkers :
          /\ worker[w].at = "idle" => worker[w] = NoWorker
          /\ worker[w].at # "idle" => worker[w].key \in 1..issued
          /\ worker[w].at = "keyed" => worker[w] = [NoWorker EXCEPT !.at = "keyed", !.key = worker[w].key]
          /\ worker[w].at = "locking" => worker[w].key \notin recorded
    /\ \A v, w \in TaskWorkers :
          worker[v].at = "locking" /\ worker[w].at = "locking" /\ worker[v].key = worker[w].key => v = w
    /\ \A k \in TaskKeys : k \in KeysInUse => Sensible(taskCall[k])

\* Rows are locked by one transaction at a time, and what a transaction found allowed on
\* a row it holds stays allowed.
LocksKept ==
    /\ \A v, w \in TaskWorkers : v # w => worker[v].held \cap worker[w].held = {}
    /\ \A w \in TaskWorkers : worker[w].at = "locking" =>
          /\ worker[w].next <= Len(CallOf(w).changes)
          /\ worker[w].next = 1 => worker[w].held = {}
          /\ worker[w].next = 2 => worker[w].held \subseteq {IdOrder(CallOf(w).changes)[1].task}
          /\ worker[w].next = 2 /\ ~worker[w].failed =>
                LET first == IdOrder(CallOf(w).changes)[1]
                IN  /\ worker[w].held = {first.task}
                    /\ Allowed(sharedTask[first.task], CallOf(w).who, first.action, TRUE)

\* An offer that stands was made by the present assignee.
OffersKept == \A t \in Tasks : sharedTask[t].offered # NoPerson => offerStands[t]

TasksInv == TasksTyped /\ KeysKept /\ LocksKept /\ OffersKept

-----------------------------------------------------------------------------
(* One change of one row. *)

LEMMA ActionsOfChanges ==
    ASSUME NEW change \in Changes
    PROVE  /\ change.task \in Tasks /\ change.to \in People \cup {NoPerson}
           /\ change.action \in {"claim", "accept", "decline", "complete", "cancel", "reopen", "update",
                                 "release", "accept_transfer", "decline_transfer", "transfer"}
           /\ change.action = "transfer" => change.to \in People
BY DEF Changes, StatusActions

\* What is allowed keeps the CHECKs of the table, hands a task over only by consent, and
\* leaves no offer behind that its maker did not make.
LEMMA RowStep ==
    ASSUME NEW row, RowKept(row), NEW who \in People, NEW change \in Changes, change.to # who,
           NEW cur \in BOOLEAN, Allowed(row, who, change.action, cur)
    PROVE  LET new == Changed(row, who, change)
           IN  /\ RowKept(new)
               /\ new.holder # row.holder =>
                     \/ row.holder = NoPerson /\ new.holder = who
                     \/ new.holder = NoPerson /\ row.holder = who
                     \/ new.holder = who /\ row.offered = who
               /\ new.status = "accepted" /\ row.status # "accepted" => new.holder = who
               /\ new.offered # NoPerson /\ change.action # "transfer" =>
                     new.holder = row.holder /\ new.offered = row.offered
<1> DEFINE new == Changed(row, who, change)
           st == NextStatus(row, who, change.action)
           ho == NextHolder(row, who, change.action)
           of == NextOffered(row, change)
<1>0. /\ row.status \in {"open", "proposed", "accepted", "completed", "cancelled", "declined"}
      /\ row.holder \in People \cup {NoPerson} /\ row.offered \in People \cup {NoPerson}
      /\ (row.status = "open") = (row.holder = NoPerson) /\ row \in TaskRows /\ row.repeats \in BOOLEAN
      /\ row.offered # NoPerson => row.status = "accepted" /\ row.offered # row.holder
      /\ NoPerson \notin People
  BY SharedTaskConstants DEF SharedTaskConstants, RowKept, TaskRows
<1>1. new = [row EXCEPT !.status = st, !.holder = ho, !.offered = of]
  BY DEF Changed
<1> HIDE DEF new, st, ho, of
<1>2. SUFFICES /\ st \in {"open", "proposed", "accepted", "completed", "cancelled", "declined"}
               /\ ho \in People \cup {NoPerson} /\ of \in People \cup {NoPerson}
               /\ (st = "open") = (ho = NoPerson)
               /\ of # NoPerson => st = "accepted" /\ of # ho
               /\ ho # row.holder => \/ row.holder = NoPerson /\ ho = who
                                     \/ ho = NoPerson /\ row.holder = who
                                     \/ ho = who /\ row.offered = who
               /\ st = "accepted" /\ row.status # "accepted" => ho = who
               /\ of # NoPerson /\ change.action # "transfer" => ho = row.holder /\ of = row.offered
  <2>1. new.status = st /\ new.holder = ho /\ new.offered = of
    BY <1>0, <1>1 DEF TaskRows
  <2>2. new \in TaskRows
    BY <1>0, <1>1, <1>2 DEF TaskRows
  <2> QED
    BY <1>2, <2>1, <2>2 DEF RowKept, new
<1> USE DEF st, ho, of, NextStatus, NextHolder, NextOffered, EndsOffer, Allowed, ClosedStatuses
<1>3. CASE change.action = "claim"
  BY <1>0, <1>3
<1>4. CASE change.action = "accept"
  BY <1>0, <1>4
<1>5. CASE change.action = "decline"
  BY <1>0, <1>5
<1>6. CASE change.action = "complete"
  BY <1>0, <1>6
<1>7. CASE change.action = "cancel"
  BY <1>0, <1>7
<1>8. CASE change.action = "reopen"
  BY <1>0, <1>8
<1>9. CASE change.action = "update"
  BY <1>0, <1>9
<1>10. CASE change.action = "release"
  BY <1>0, <1>10
<1>11. CASE change.action = "accept_transfer"
  BY <1>0, <1>11
<1>12. CASE change.action = "decline_transfer"
  BY <1>0, <1>12
<1>13. CASE change.action = "transfer"
  BY <1>0, <1>13, ActionsOfChanges
<1> QED
  BY ActionsOfChanges, <1>3, <1>4, <1>5, <1>6, <1>7, <1>8, <1>9, <1>10, <1>11, <1>12, <1>13

\* Only an update and a handover ask for the version of the caller.
LEMMA AllowedWhatever ==
    ASSUME NEW row, NEW who, NEW action \in StatusActions, NEW cur, Allowed(row, who, action, cur)
    PROVE  Allowed(row, who, action, TRUE)
BY DEF Allowed, StatusActions

-----------------------------------------------------------------------------
(* The rows of a call, in the order they are taken. *)

LEMMA OrderOfCall ==
    ASSUME NEW call \in CallShapes, Sensible(call)
    PROVE  LET cs == call.changes
               o == IdOrder(cs)
           IN  /\ cs \in Seq(Changes) /\ o \in Seq(Changes) /\ Len(o) = Len(cs)
               /\ \A i \in 1..Len(cs) : o[i] \in Changes /\ o[i].to # call.who
               /\ \A i \in 1..Len(cs) : o[i] \in {cs[j] : j \in DOMAIN cs}
               /\ \A i \in DOMAIN cs : cs[i] \in {o[j] : j \in 1..Len(cs)} /\ cs[i] \in Changes
               /\ Len(cs) = 2 => o[1].task # o[2].task
                                 /\ o[1].action \in StatusActions /\ o[2].action \in StatusActions
<1> DEFINE cs == call.changes
           o == IdOrder(cs)
<1>1. cs \in Seq(Changes) /\ Len(cs) \in {1, 2}
  BY DEF CallShapes, Sensible
<1>2. DOMAIN cs = 1..Len(cs) /\ \A i \in 1..Len(cs) : cs[i] \in Changes /\ cs[i].to # call.who
  BY <1>1 DEF Sensible
<1>3. CASE Len(cs) = 1 \/ ~(cs[1].task > cs[2].task)
  <2>1. o = cs
    BY <1>3 DEF IdOrder
  <2> QED
    BY <1>1, <1>2, <2>1 DEF Sensible
<1>4. CASE Len(cs) = 2 /\ cs[1].task > cs[2].task
  <2>1. o = <<cs[2], cs[1]>>
    BY <1>4 DEF IdOrder
  <2>2. cs[1] \in Changes /\ cs[2] \in Changes /\ cs[1].to # call.who /\ cs[2].to # call.who
    BY <1>2, <1>4
  <2>3. o \in Seq(Changes) /\ Len(o) = 2 /\ o[1] = cs[2] /\ o[2] = cs[1]
    BY <2>1, <2>2
  <2>4. 1..Len(cs) = {1, 2} /\ DOMAIN cs = {1, 2}
    BY <1>2, <1>4
  <2> QED
    BY <1>1, <1>4, <2>2, <2>3, <2>4 DEF Sensible
<1> QED
  BY <1>1, <1>3, <1>4

-----------------------------------------------------------------------------
(* The steps. *)

LEMMA SensibleByParts ==
    ASSUME NEW old, NEW new, new.who = old.who, new.changes = old.changes, Sensible(old)
    PROVE  Sensible(new)
BY DEF Sensible

LEMMA Shapes == NoCall \in CallShapes /\ NoWorker \in WorkerShapes
BY SharedTaskConstants DEF SharedTaskConstants, NoCall, NoWorker, CallShapes, WorkerShapes

\* What a state of the invariant says of a transaction at work.
LEMMA AtWork ==
    ASSUME TasksTyped, KeysKept, NEW w \in TaskWorkers, worker[w].at # "idle"
    PROVE  /\ worker[w].key \in TaskKeys /\ worker[w].key \in KeysInUse
           /\ CallOf(w) \in CallShapes /\ Sensible(CallOf(w))
<1>1. worker[w].key \in 1..issued /\ issued \in 0..MaxTaskCalls
  BY DEF TasksTyped, KeysKept
<1>2. worker[w].key \in TaskKeys
  BY <1>1, SharedTaskConstants DEF SharedTaskConstants, TaskKeys
<1> QED
  BY <1>2 DEF TasksTyped, KeysKept, KeysInUse, CallOf

\* Calls in use keep what they ask for.
CallsStand == \A k \in TaskKeys : k \in KeysInUse /\ k \in KeysInUse' =>
                 taskCall'[k].who = taskCall[k].who /\ taskCall'[k].changes = taskCall[k].changes

LEMMA Forgets ==
    ASSUME TasksTyped, NEW calls \in [TaskKeys -> CallShapes], taskCall' = Forgotten(calls),
           \A k \in TaskKeys : calls[k].who = taskCall[k].who /\ calls[k].changes = taskCall[k].changes
    PROVE  taskCall' \in [TaskKeys -> CallShapes] /\ CallsStand
BY Shapes DEF Forgotten, CallsStand

\* The parts of the invariant that speak of keys survive when no key comes into use.
LEMMA KeysStay ==
    ASSUME TasksTyped, KeysKept, CallsStand, issued' = issued,
           NEW w \in TaskWorkers, worker' \in [TaskWorkers -> WorkerShapes],
           \A v \in TaskWorkers \ {w} : worker'[v].at = worker[v].at /\ worker'[v].key = worker[v].key
                                       /\ (worker[v].at # "locking" => worker'[v] = worker[v]),
           \/ worker'[w] = NoWorker
           \/ worker[w].at = "idle" /\ worker'[w] = [NoWorker EXCEPT !.at = "keyed", !.key = worker'[w].key]
              /\ worker'[w].key \in unanswered
           \/ /\ worker[w].at # "idle" /\ worker'[w].key = worker[w].key
              /\ \/ worker'[w].at = worker[w].at /\ (worker[w].at # "locking" => worker'[w] = worker[w])
                 \/ /\ worker'[w].at = "locking" /\ worker[w].key \notin recorded
                    /\ \A v \in TaskWorkers : worker[v].at = "locking" => worker[v].key # worker[w].key,
           unanswered' \subseteq unanswered \cup (IF worker[w].at = "idle" THEN {} ELSE {worker[w].key}),
           \/ recorded' = recorded /\ applied' = applied
           \/ /\ worker[w].at = "locking" /\ worker'[w].at = "idle" /\ recorded' = recorded \cup {worker[w].key}
              /\ \A k \in TaskKeys \ {worker[w].key} : applied'[k] = applied[k]
    PROVE  KeysKept'
<1>1. NoWorker.at = "idle" /\ NoWorker.key = 0
  BY DEF NoWorker
<1>2. worker[w].at # "idle" => worker[w].key \in 1..issued
  BY DEF KeysKept
<1>3. recorded' \cup unanswered' \subseteq 1..issued'
  BY <1>2 DEF KeysKept
<1>4. \A k \in TaskKeys : applied'[k] # 0 => k \in recorded'
  BY DEF KeysKept
<1>5. \A k \in TaskKeys : k \in KeysInUse' => k \in KeysInUse
  <2>1. 0 \notin TaskKeys
    BY SharedTaskConstants DEF SharedTaskConstants, TaskKeys
  <2> SUFFICES ASSUME NEW k \in TaskKeys, k \in KeysInUse' PROVE k \in KeysInUse
    OBVIOUS
  <2>2. CASE k \in unanswered'
    BY <2>2 DEF KeysInUse
  <2>3. ASSUME NEW v \in TaskWorkers, k = worker'[v].key PROVE k \in KeysInUse
    <3>1. CASE v # w
      BY <2>3, <3>1 DEF KeysInUse
    <3>2. CASE v = w
      BY <1>1, <2>1, <2>3, <3>2 DEF KeysInUse
    <3> QED
      BY <3>1, <3>2
  <2> QED
    BY <2>2, <2>3 DEF KeysInUse
<1>6. \A k \in TaskKeys : k \in KeysInUse' => Sensible(taskCall'[k])
  <2> SUFFICES ASSUME NEW k \in TaskKeys, k \in KeysInUse' PROVE Sensible(taskCall'[k])
    OBVIOUS
  <2>1. Sensible(taskCall[k])
    BY <1>5 DEF KeysKept
  <2>2. taskCall'[k].who = taskCall[k].who /\ taskCall'[k].changes = taskCall[k].changes
    BY <1>5 DEF CallsStand
  <2> QED
    BY <2>1, <2>2, SensibleByParts
<1>7. ASSUME NEW v \in TaskWorkers
      PROVE  /\ worker'[v].at = "idle" => worker'[v] = NoWorker
             /\ worker'[v].at # "idle" => worker'[v].key \in 1..issued'
             /\ worker'[v].at = "keyed" => worker'[v] = [NoWorker EXCEPT !.at = "keyed", !.key = worker'[v].key]
             /\ worker'[v].at = "locking" => worker'[v].key \notin recorded'
  <2>1. CASE v # w
    <3>1. worker'[v].at = worker[v].at /\ worker'[v].key = worker[v].key
          /\ (worker[v].at # "locking" => worker'[v] = worker[v])
      BY <2>1
    <3>2. /\ worker[v].at = "idle" => worker[v] = NoWorker
          /\ worker[v].at # "idle" => worker[v].key \in 1..issued
          /\ worker[v].at = "keyed" => worker[v] = [NoWorker EXCEPT !.at = "keyed", !.key = worker[v].key]
          /\ worker[v].at = "locking" => worker[v].key \notin recorded
      BY DEF KeysKept
    <3>3. worker[v].at = "locking" /\ worker[w].at = "locking" => worker[v].key # worker[w].key
      BY <2>1 DEF KeysKept
    <3> QED
      BY <3>1, <3>2, <3>3
  <2>2. CASE v = w
    <3>1. /\ worker[v].at = "idle" => worker[v] = NoWorker
          /\ worker[v].at = "keyed" => worker[v] = [NoWorker EXCEPT !.at = "keyed", !.key = worker[v].key]
          /\ worker[v].at = "locking" => worker[v].key \notin recorded
          /\ unanswered \subseteq 1..issued
      BY DEF KeysKept
    <3>2. worker[v].at \in {"idle", "keyed", "locking"}
      BY DEF TasksTyped, WorkerShapes
    <3>3. CASE worker'[w] = NoWorker
      BY <1>1, <2>2, <3>3
    <3>4. CASE worker[w].at = "idle" /\ worker'[w] = [NoWorker EXCEPT !.at = "keyed", !.key = worker'[w].key]
              /\ worker'[w].key \in unanswered
      <4>1. worker'[w].at = "keyed"
        BY <3>4 DEF NoWorker
      <4> QED
        BY <2>2, <3>1, <3>4, <4>1
    <3>5. CASE worker[w].at # "idle" /\ worker'[w].key = worker[w].key /\ worker'[w].at = worker[w].at
               /\ (worker[w].at # "locking" => worker'[w] = worker[w])
      BY <1>1, <1>2, <2>2, <3>1, <3>2, <3>5
    <3>6. CASE worker[w].at # "idle" /\ worker'[w].key = worker[w].key /\ worker'[w].at = "locking"
               /\ worker[w].key \notin recorded
      BY <1>1, <1>2, <2>2, <3>6
    <3> QED
      BY <3>3, <3>4, <3>5, <3>6
  <2> QED
    BY <2>1, <2>2
<1>8. \A u, v \in TaskWorkers :
        worker'[u].at = "locking" /\ worker'[v].at = "locking" /\ worker'[u].key = worker'[v].key => u = v
  <2>1. \A u, v \in TaskWorkers :
          worker[u].at = "locking" /\ worker[v].at = "locking" /\ worker[u].key = worker[v].key => u = v
    BY DEF KeysKept
  <2>2. ASSUME NEW v \in TaskWorkers, v # w, worker'[w].at = "locking", worker'[v].at = "locking"
        PROVE  worker'[v].key # worker'[w].key
    <3>1. worker[v].at = "locking" /\ worker'[v].key = worker[v].key
      BY <2>2
    <3>2. worker'[w].key = worker[w].key
      BY <1>1, <2>2 DEF NoWorker
    <3>3. worker[w].at = "locking" \/ \A u \in TaskWorkers : worker[u].at = "locking" => worker[u].key # worker[w].key
      BY <1>1, <2>2 DEF NoWorker
    <3> QED
      BY <2>1, <2>2, <3>1, <3>2, <3>3
  <2> QED
    BY <2>1, <2>2
<1> QED
  BY <1>3, <1>4, <1>6, <1>7, <1>8 DEF KeysKept

-----------------------------------------------------------------------------
(* What the rows of a call may become. *)

\* Transactions that keep what they hold, or begin with nothing, over rows and calls that
\* stay.
Stays(v) == /\ worker'[v].at = worker[v].at /\ worker'[v].key = worker[v].key
            /\ worker'[v].next = worker[v].next /\ worker'[v].held = worker[v].held
            /\ worker'[v].failed = worker[v].failed
CallBegins(v) == /\ worker'[v].held = {}
                 /\ worker'[v].at = "locking" => worker'[v].next = 1 /\ Sensible(CallOf(v)')

LEMMA LocksStay ==
    ASSUME TasksTyped, KeysKept, LocksKept, CallsStand,
           \A v \in TaskWorkers : CallBegins(v) \/
              (Stays(v) /\ \A t \in Tasks : t \in worker[v].held => sharedTask'[t] = sharedTask[t])
    PROVE  LocksKept'
<1>1. ASSUME NEW u \in TaskWorkers, NEW v \in TaskWorkers, u # v PROVE worker'[u].held \cap worker'[v].held = {}
  <2>1. worker[u].held \cap worker[v].held = {}
    BY <1>1 DEF LocksKept
  <2>2. worker'[u].held \in {{}, worker[u].held} /\ worker'[v].held \in {{}, worker[v].held}
    BY DEF CallBegins, Stays
  <2> QED
    BY <2>1, <2>2
<1>2. ASSUME NEW v \in TaskWorkers, worker'[v].at = "locking"
      PROVE  /\ worker'[v].next <= Len(CallOf(v)'.changes)
             /\ worker'[v].next = 1 => worker'[v].held = {}
             /\ worker'[v].next = 2 => worker'[v].held \subseteq {IdOrder(CallOf(v)'.changes)[1].task}
             /\ worker'[v].next = 2 /\ ~worker'[v].failed =>
                   LET first == IdOrder(CallOf(v)'.changes)[1]
                   IN  /\ worker'[v].held = {first.task}
                       /\ Allowed(sharedTask'[first.task], CallOf(v)'.who, first.action, TRUE)
  <2>0. CASE CallBegins(v)
    <3>1. worker'[v].held = {} /\ worker'[v].next = 1 /\ Sensible(CallOf(v)')
      BY <1>2, <2>0 DEF CallBegins
    <3>2. Len(CallOf(v)'.changes) \in {1, 2}
      BY <3>1 DEF Sensible
    <3>3. worker'[v].next <= Len(CallOf(v)'.changes) /\ worker'[v].next # 2
      <4> DEFINE next == worker'[v].next
                 size == Len(CallOf(v)'.changes)
      <4>1. next = 1 /\ size \in {1, 2}
        BY <3>1, <3>2
      <4> HIDE DEF next, size
      <4>2. next <= size /\ next # 2
        BY <4>1
      <4> QED
        BY <4>2 DEF next, size
    <3> QED
      BY <3>1, <3>3
  <2>10. CASE Stays(v) /\ \A t \in Tasks : t \in worker[v].held => sharedTask'[t] = sharedTask[t]
    <3> DEFINE first == IdOrder(CallOf(v).changes)[1]
    <3>1. worker[v].at = "locking" /\ worker'[v].key = worker[v].key
      BY <1>2, <2>10 DEF Stays
    <3>2. worker[v].key \in TaskKeys /\ worker[v].key \in KeysInUse
      BY <3>1, AtWork
    <3>3. worker[v].key \in KeysInUse'
      BY <3>1 DEF KeysInUse
    <3>4. CallOf(v)'.who = CallOf(v).who /\ CallOf(v)'.changes = CallOf(v).changes
      BY <3>1, <3>2, <3>3 DEF CallsStand, CallOf
    <3>5. /\ worker[v].next <= Len(CallOf(v).changes)
          /\ worker[v].next = 1 => worker[v].held = {}
          /\ worker[v].next = 2 => worker[v].held \subseteq {first.task}
          /\ worker[v].next = 2 /\ ~worker[v].failed =>
               /\ worker[v].held = {first.task}
               /\ Allowed(sharedTask[first.task], CallOf(v).who, first.action, TRUE)
      BY <3>1 DEF LocksKept
    <3>6. worker'[v].next = worker[v].next /\ worker'[v].held = worker[v].held /\ worker'[v].failed = worker[v].failed
      BY <2>10 DEF Stays
    <3>7. ASSUME worker[v].next = 2, ~worker[v].failed PROVE sharedTask'[first.task] = sharedTask[first.task]
      <4>1. worker[v].held = {first.task} /\ worker[v].held \subseteq Tasks
        BY <3>5, <3>7 DEF TasksTyped, WorkerShapes
      <4> QED
        BY <2>10, <4>1
    <3> QED
      BY <3>4, <3>5, <3>6, <3>7
  <2> QED
    BY <2>0, <2>10
<1> QED
  BY <1>1, <1>2 DEF LocksKept

-----------------------------------------------------------------------------
(* The actions. *)

LEMMA TasksInvInit == SharedTasksInit => TasksInv
<1> SUFFICES ASSUME SharedTasksInit PROVE TasksInv
  OBVIOUS
<1>0. People # {} /\ NoPerson \notin People /\ TaskCount \in Nat /\ MaxTaskCalls \in Nat /\ MaxTaskFaults \in Nat
  BY SharedTaskConstants DEF SharedTaskConstants
<1>1. PICK author \in People, holder \in People \cup {NoPerson}, candidate \in People \cup {NoPerson} :
        /\ candidate # NoPerson => holder = author /\ candidate # author
        /\ sharedTask = [t \in Tasks |->
              IF t = 1 THEN [CreatedTask(author, holder, TRUE) EXCEPT !.offered = candidate]
                       ELSE CreatedTask(author, author, FALSE)]
  <2> DEFINE first == CHOOSE p \in People : TRUE
  <2>1. first \in People
    BY <1>0
  <2>2. \E author \in {first}, holder, candidate \in People \cup {NoPerson} :
           /\ candidate # NoPerson => holder = author /\ candidate # author
           /\ sharedTask = [t \in Tasks |->
                  IF t = 1 THEN [CreatedTask(author, holder, TRUE) EXCEPT !.offered = candidate]
                           ELSE CreatedTask(author, author, FALSE)]
    BY DEF SharedTasksInit
  <2> HIDE DEF first
  <2> QED
    BY <2>1, <2>2
<1> DEFINE row1 == [CreatedTask(author, holder, TRUE) EXCEPT !.offered = candidate]
           row2 == CreatedTask(author, author, FALSE)
<1>2. RowKept(row1) /\ row1.offered = candidate
  BY <1>0, <1>1 DEF RowKept, CreatedTask, TaskRows
<1>3. RowKept(row2) /\ row2.offered = NoPerson
  BY <1>0, <1>1 DEF RowKept, CreatedTask, TaskRows
<1>4. \A t \in Tasks : sharedTask[t] = IF t = 1 THEN row1 ELSE row2
  BY <1>1
<1>5. sharedTask \in [Tasks -> TaskRows] /\ \A t \in Tasks : RowKept(sharedTask[t])
  <2>1. row1 \in TaskRows /\ row2 \in TaskRows
    BY <1>2, <1>3 DEF RowKept
  <2> HIDE DEF row1, row2
  <2>2. sharedTask = [t \in Tasks |-> IF t = 1 THEN row1 ELSE row2]
    BY <1>1 DEF row1, row2
  <2> QED
    BY <1>2, <1>3, <2>1, <2>2
<1>6. TasksTyped
  <2>1. taskCall \in [TaskKeys -> CallShapes] /\ worker \in [TaskWorkers -> WorkerShapes]
    BY Shapes DEF SharedTasksInit
  <2>2. applied \in [TaskKeys -> 0..2]
    BY DEF SharedTasksInit
  <2>3. issued \in 0..MaxTaskCalls /\ slips \in 0..MaxTaskFaults
    BY <1>0 DEF SharedTasksInit
  <2>4. offerStands \in [Tasks -> BOOLEAN] /\ recorded \subseteq TaskKeys /\ unanswered \subseteq TaskKeys
    BY DEF SharedTasksInit
  <2> QED
    BY <1>5, <2>1, <2>2, <2>3, <2>4 DEF TasksTyped
<1>7. \A w \in TaskWorkers : worker[w] = NoWorker
  BY DEF SharedTasksInit
<1>8. NoWorker.at = "idle" /\ NoWorker.key = 0 /\ NoWorker.held = {}
  BY DEF NoWorker
<1>9. KeysKept
  <2>1. recorded = {} /\ unanswered = {} /\ issued = 0 /\ \A k \in TaskKeys : applied[k] = 0
    BY DEF SharedTasksInit
  <2>2. \A k \in TaskKeys : k \notin KeysInUse
    BY <1>0, <1>7, <1>8, <2>1 DEF KeysInUse, TaskKeys
  <2> QED
    BY <1>7, <1>8, <2>1, <2>2 DEF KeysKept
<1>10. LocksKept
  BY <1>7, <1>8 DEF LocksKept
<1>11. OffersKept
  BY DEF OffersKept, SharedTasksInit
<1> QED
  BY <1>6, <1>9, <1>10, <1>11 DEF TasksInv

\* A call begins.
LEMMA IssueKeeps ==
    ASSUME TasksInv, NEW w \in TaskWorkers, IssueCall(w)
    PROVE  TasksInv'
<1>0. TasksTyped /\ KeysKept /\ LocksKept /\ OffersKept
  BY DEF TasksInv
<1> DEFINE key == issued + 1
<1>1. worker[w].at = "idle" /\ issued < MaxTaskCalls /\ issued' = key
      /\ UNCHANGED <<sharedTask, offerStands, recorded, applied, unanswered, slips>>
      /\ worker' = [worker EXCEPT ![w].at = "locking", ![w].key = key]
  BY DEF IssueCall, IdleWorker
<1>a. PICK who \in People : \E changes \in CallsOf(who) :
        taskCall' = [taskCall EXCEPT ![key] =
           [who |-> who, changes |-> changes, current |-> {changes[i].task : i \in DOMAIN changes}]]
  BY DEF IssueCall
<1>2. PICK changes \in CallsOf(who) :
        taskCall' = [taskCall EXCEPT ![key] =
           [who |-> who, changes |-> changes, current |-> {changes[i].task : i \in DOMAIN changes}]]
  BY <1>a
<1> DEFINE call == [who |-> who, changes |-> changes, current |-> {changes[i].task : i \in DOMAIN changes}]
<1>3. issued \in Nat /\ key \in TaskKeys /\ key \in 1..MaxTaskCalls /\ MaxTaskCalls \in Nat
  BY <1>0, <1>1, SharedTaskConstants DEF TasksTyped, SharedTaskConstants, TaskKeys
<1>b. 1..issued \subseteq 1..key /\ key \in 1..key /\ key \notin 1..issued /\ 0 \notin TaskKeys
  BY <1>3 DEF TaskKeys
<1>4. call \in CallShapes /\ Sensible(call)
  <2>1. \A c \in MayAsk(who) : c \in Changes /\ c.to # who
    BY DEF MayAsk
  <2>2. CASE \E c \in MayAsk(who) : changes = <<c>>
    <3>1. PICK c \in MayAsk(who) : changes = <<c>>
      BY <2>2
    <3>2. changes \in Seq(Changes) /\ Len(changes) = 1 /\ DOMAIN changes = {1} /\ changes[1] = c
      BY <2>1, <3>1
    <3>3. c.task \in Tasks
      BY <2>1, ActionsOfChanges
    <3> QED
      BY <2>1, <3>2, <3>3 DEF CallShapes, Sensible
  <2>3. CASE changes \in {p \in MayAsk(who) \X MayAsk(who) : /\ p[1].task # p[2].task
                                            /\ p[1].action = p[2].action
                                            /\ p[1].action \in StatusActions}
    <3>1. changes[1] \in MayAsk(who) /\ changes[2] \in MayAsk(who) /\ changes = <<changes[1], changes[2]>>
          /\ changes[1].task # changes[2].task /\ changes[1].action = changes[2].action
          /\ changes[1].action \in StatusActions
      BY <2>3
    <3>2. changes \in Seq(Changes) /\ Len(changes) = 2 /\ DOMAIN changes = {1, 2}
      <4>1. changes[1] \in Changes /\ changes[2] \in Changes
        BY <2>1, <3>1
      <4> DEFINE a == changes[1]
                 b == changes[2]
      <4> HIDE DEF a, b
      <4>2. <<a, b>> \in Seq(Changes) /\ Len(<<a, b>>) = 2 /\ DOMAIN <<a, b>> = {1, 2}
        BY <4>1 DEF a, b
      <4>3. changes = <<a, b>>
        BY <3>1 DEF a, b
      <4> QED
        BY <4>2, <4>3
    <3>3. changes[1].task \in Tasks /\ changes[2].task \in Tasks
      BY <2>1, <3>1, ActionsOfChanges
    <3> QED
      BY <2>1, <3>1, <3>2, <3>3 DEF CallShapes, Sensible
  <2> QED
    BY <1>2, <2>2, <2>3 DEF CallsOf
<1>5. worker' \in [TaskWorkers -> WorkerShapes] /\ worker'[w] = [NoWorker EXCEPT !.at = "locking", !.key = key]
      /\ \A v \in TaskWorkers \ {w} : worker'[v] = worker[v]
  <2>1. worker \in [TaskWorkers -> WorkerShapes] /\ worker[w] = NoWorker
    BY <1>0, <1>1 DEF TasksTyped, KeysKept
  <2>2. worker'[w] = [NoWorker EXCEPT !.at = "locking", !.key = key] /\ \A v \in TaskWorkers \ {w} : worker'[v] = worker[v]
    BY <1>1, <2>1
  <2>3. [NoWorker EXCEPT !.at = "locking", !.key = key] \in WorkerShapes
    <3>1. key \in 0..MaxTaskCalls
      BY <1>3
    <3> HIDE DEF key
    <3> QED
      BY <3>1, Shapes DEF WorkerShapes, NoWorker
  <2>4. worker' = [v \in TaskWorkers |-> IF v = w THEN [NoWorker EXCEPT !.at = "locking", !.key = key] ELSE worker[v]]
    BY <1>1, <2>1
  <2> QED
    BY <2>1, <2>2, <2>3, <2>4
<1>6. worker'[w].at = "locking" /\ worker'[w].key = key /\ worker'[w].next = 1 /\ worker'[w].held = {}
      /\ worker'[w].behind = {} /\ ~worker'[w].failed
  BY <1>5 DEF NoWorker
<1>7. TasksTyped'
  <2>1. taskCall' \in [TaskKeys -> CallShapes]
    <3>1. taskCall' = [taskCall EXCEPT ![key] = call]
      BY <1>2
    <3> HIDE DEF call, key
    <3> QED
      BY <1>0, <1>4, <3>1 DEF TasksTyped
  <2>2. issued' \in 0..MaxTaskCalls
    BY <1>1, <1>3
  <2> QED
    BY <1>0, <1>1, <1>5, <2>1, <2>2 DEF TasksTyped
<1>8. taskCall'[key] = call /\ \A k \in TaskKeys : k # key => taskCall'[k] = taskCall[k]
  <2>1. taskCall' = [taskCall EXCEPT ![key] = call]
    BY <1>2
  <2> HIDE DEF call, key
  <2> QED
    BY <1>0, <1>3, <2>1 DEF TasksTyped
<1> HIDE DEF call, key
<1>9. \A k \in TaskKeys : k \in KeysInUse => k # key /\ k \in 1..issued
  <2> SUFFICES ASSUME NEW k \in TaskKeys, k \in KeysInUse PROVE k \in 1..issued
    BY <1>b
  <2>1. CASE k \in unanswered
    BY <1>0, <2>1 DEF KeysKept
  <2>2. ASSUME NEW v \in TaskWorkers, k = worker[v].key PROVE k \in 1..issued
    <3>1. worker[v].at = "idle" => worker[v].key = 0
      <4>1. worker[v].at = "idle" => worker[v] = NoWorker
        BY <1>0 DEF KeysKept
      <4>2. NoWorker.key = 0
        BY DEF NoWorker
      <4> QED
        BY <4>1, <4>2
    <3> QED
      BY <1>0, <1>b, <2>2, <3>1 DEF KeysKept
  <2> QED
    BY <2>1, <2>2 DEF KeysInUse
<1>10. CallsStand
  BY <1>8, <1>9 DEF CallsStand
<1>11. KeysKept'
  <2>1. recorded' \cup unanswered' \subseteq 1..issued'
    BY <1>0, <1>1, <1>b DEF KeysKept
  <2>2. \A k \in TaskKeys : applied'[k] # 0 => k \in recorded'
    BY <1>0, <1>1 DEF KeysKept
  <2>3. ASSUME NEW v \in TaskWorkers
        PROVE  /\ worker'[v].at = "idle" => worker'[v] = NoWorker
               /\ worker'[v].at # "idle" => worker'[v].key \in 1..issued'
               /\ worker'[v].at = "keyed" => worker'[v] = [NoWorker EXCEPT !.at = "keyed", !.key = worker'[v].key]
               /\ worker'[v].at = "locking" => worker'[v].key \notin recorded'
    <3>1. CASE v = w
      <4>1. key \notin recorded /\ key \in 1..issued'
        BY <1>0, <1>1, <1>b DEF KeysKept
      <4> QED
        BY <1>1, <1>6, <3>1, <4>1
    <3>2. CASE v # w
      <4>1. worker'[v] = worker[v]
        BY <1>5, <3>2
      <4>2. /\ worker[v].at = "idle" => worker[v] = NoWorker
            /\ worker[v].at # "idle" => worker[v].key \in 1..issued
            /\ worker[v].at = "keyed" => worker[v] = [NoWorker EXCEPT !.at = "keyed", !.key = worker[v].key]
            /\ worker[v].at = "locking" => worker[v].key \notin recorded
        BY <1>0 DEF KeysKept
      <4>3. 1..issued \subseteq 1..issued'
        BY <1>1, <1>b
      <4>4. recorded' = recorded
        BY <1>1
      <4> HIDE DEF NoWorker
      <4>5. worker'[v].at # "idle" => worker'[v].key \in 1..issued'
        BY <4>1, <4>2, <4>3
      <4>6. worker'[v].at = "locking" => worker'[v].key \notin recorded'
        BY <4>1, <4>2, <4>4
      <4>7. worker'[v].at = "idle" => worker'[v] = NoWorker
        BY <4>1, <4>2
      <4>8. worker'[v].at = "keyed" => worker'[v] = [NoWorker EXCEPT !.at = "keyed", !.key = worker'[v].key]
        BY <4>1, <4>2
      <4> QED
        BY <4>5, <4>6, <4>7, <4>8
    <3> QED
      BY <3>1, <3>2
  <2>4. ASSUME NEW u \in TaskWorkers, NEW v \in TaskWorkers, worker'[u].at = "locking", worker'[v].at = "locking",
               worker'[u].key = worker'[v].key
        PROVE  u = v
    <3>1. \A x \in TaskWorkers \ {w} : worker'[x].at = "locking" => worker'[x].key # key
      <4> SUFFICES ASSUME NEW x \in TaskWorkers \ {w}, worker'[x].at = "locking" PROVE worker'[x].key # key
        OBVIOUS
      <4>1. worker'[x] = worker[x]
        BY <1>5
      <4>2. worker[x].key \in 1..issued
        BY <1>0, <4>1 DEF KeysKept
      <4> QED
        BY <1>b, <4>1, <4>2
    <3> QED
      <4>1. CASE u # w /\ v # w
        <5>1. worker'[u] = worker[u] /\ worker'[v] = worker[v]
          BY <1>5, <4>1
        <5> QED
          BY <1>0, <2>4, <5>1 DEF KeysKept
      <4>2. CASE u = w /\ v # w
        BY <1>6, <2>4, <3>1, <4>2
      <4>3. CASE u # w /\ v = w
        BY <1>6, <2>4, <3>1, <4>3
      <4> QED
        BY <4>1, <4>2, <4>3
  <2>5. ASSUME NEW k \in TaskKeys, k \in KeysInUse' PROVE Sensible(taskCall'[k])
    <3>1. CASE k = key
      <4>1. taskCall'[k] = call
        BY <1>8, <3>1
      <4> QED
        BY <1>4, <4>1
    <3>2. CASE k # key
      <4>1. k \in KeysInUse
        BY <1>1, <1>5, <1>6, <2>5, <3>2 DEF KeysInUse
      <4> QED
        BY <1>0, <1>8, <3>2, <4>1 DEF KeysKept
    <3> QED
      BY <3>1, <3>2
  <2> QED
    BY <2>1, <2>2, <2>3, <2>4, <2>5 DEF KeysKept
<1>12. LocksKept'
  <2>1. CallBegins(w)
    <3>1. CallOf(w)' = call
      BY <1>6, <1>8 DEF CallOf
    <3> QED
      BY <1>4, <1>6, <3>1 DEF CallBegins
  <2>2. \A v \in TaskWorkers \ {w} : Stays(v)
    BY <1>5 DEF Stays
  <2> QED
    BY <1>0, <1>1, <1>10, <2>1, <2>2, LocksStay
<1>13. OffersKept'
  BY <1>0, <1>1 DEF OffersKept
<1> QED
  BY <1>7, <1>11, <1>12, <1>13 DEF TasksInv

\* Eve runs the step again.
LEMMA RepeatKeeps ==
    ASSUME TasksInv, NEW w \in TaskWorkers, RepeatCall(w)
    PROVE  TasksInv'
<1>0. TasksTyped /\ KeysKept /\ LocksKept /\ OffersKept
  BY DEF TasksInv
<1>1. worker[w].at = "idle" /\ UNCHANGED <<sharedTask, offerStands, taskCall, issued, recorded, applied, slips>>
  BY DEF RepeatCall, IdleWorker
<1>2. PICK k \in unanswered : unanswered' = unanswered \ {k}
                             /\ worker' = [worker EXCEPT ![w].at = "keyed", ![w].key = k]
  BY DEF RepeatCall
<1> DEFINE new == [NoWorker EXCEPT !.at = "keyed", !.key = k]
<1>3. k \in TaskKeys /\ k \in 0..MaxTaskCalls
  BY <1>0, <1>2, SharedTaskConstants DEF TasksTyped, TaskKeys, SharedTaskConstants
<1>4. new \in WorkerShapes /\ new.at = "keyed" /\ new.key = k /\ new.held = {}
  BY <1>3, Shapes DEF WorkerShapes, NoWorker
<1>5. worker' \in [TaskWorkers -> WorkerShapes] /\ worker'[w] = new
      /\ \A v \in TaskWorkers \ {w} : worker'[v] = worker[v]
  <2>1. worker \in [TaskWorkers -> WorkerShapes] /\ worker[w] = NoWorker
    BY <1>0, <1>1 DEF TasksTyped, KeysKept
  <2>2. worker' = [v \in TaskWorkers |-> IF v = w THEN new ELSE worker[v]]
    BY <1>2, <2>1
  <2> HIDE DEF new
  <2> QED
    BY <1>4, <2>1, <2>2
<1>6. TasksTyped'
  BY <1>0, <1>1, <1>2, <1>5 DEF TasksTyped
<1>7. CallsStand
  BY <1>1 DEF CallsStand
<1>8. worker'[w] = [NoWorker EXCEPT !.at = "keyed", !.key = worker'[w].key] /\ worker'[w].key \in unanswered
  BY <1>2, <1>4, <1>5
<1> HIDE DEF new
<1>9. KeysKept'
  BY <1>0, <1>1, <1>2, <1>5, <1>7, <1>8, KeysStay
<1>10. LocksKept'
  <2>1. CallBegins(w)
    BY <1>4, <1>5 DEF CallBegins
  <2>2. \A v \in TaskWorkers \ {w} : Stays(v)
    BY <1>5 DEF Stays
  <2> QED
    BY <1>0, <1>1, <1>7, <2>1, <2>2, LocksStay
<1>11. OffersKept'
  BY <1>0, <1>1 DEF OffersKept
<1> QED
  BY <1>6, <1>9, <1>10, <1>11 DEF TasksInv

\* A transaction ends with nothing done, or takes its key.
LEMMA EndOrKeyKeeps ==
    ASSUME TasksInv, NEW w \in TaskWorkers, worker[w].at # "idle",
           UNCHANGED <<sharedTask, offerStands, issued, recorded, applied>>, slips' \in 0..MaxTaskFaults,
           unanswered' \in {unanswered, unanswered \cup {worker[w].key}},
           taskCall' \in {taskCall, Forgotten(taskCall)},
           \/ worker' = [worker EXCEPT ![w] = NoWorker]
           \/ /\ worker[w].at = "keyed" /\ worker[w].key \notin recorded
              /\ \A v \in TaskWorkers : worker[v].at = "locking" => worker[v].key # worker[w].key
              /\ worker' = [worker EXCEPT ![w].at = "locking"]
    PROVE  TasksInv'
<1>0. TasksTyped /\ KeysKept /\ LocksKept /\ OffersKept
  BY DEF TasksInv
<1>1. worker[w].key \in TaskKeys /\ worker[w].key \in KeysInUse /\ CallOf(w) \in CallShapes /\ Sensible(CallOf(w))
  BY <1>0, AtWork
<1>2. taskCall' \in [TaskKeys -> CallShapes] /\ CallsStand
  <2>1. CASE taskCall' = taskCall
    BY <1>0, <2>1 DEF TasksTyped, CallsStand
  <2>2. CASE taskCall' = Forgotten(taskCall)
    BY <1>0, <2>2, Forgets DEF TasksTyped
  <2> QED
    BY <2>1, <2>2
<1>3. worker \in [TaskWorkers -> WorkerShapes] /\ worker[w] \in WorkerShapes
  BY <1>0 DEF TasksTyped
<1>4. worker' \in [TaskWorkers -> WorkerShapes] /\ \A v \in TaskWorkers \ {w} : worker'[v] = worker[v]
  BY <1>3, Shapes DEF WorkerShapes
<1>5. \/ worker'[w] = NoWorker
      \/ /\ worker[w].at = "keyed" /\ worker'[w] = [worker[w] EXCEPT !.at = "locking"]
         /\ worker[w].key \notin recorded
         /\ \A v \in TaskWorkers : worker[v].at = "locking" => worker[v].key # worker[w].key
  BY <1>3
<1>6. worker[w].at = "keyed" => worker[w] = [NoWorker EXCEPT !.at = "keyed", !.key = worker[w].key]
  BY <1>0 DEF KeysKept
<1>7. TasksTyped'
  <2>1. unanswered' \subseteq TaskKeys
    BY <1>0, <1>1 DEF TasksTyped
  <2> QED
    BY <1>0, <1>2, <1>4, <2>1 DEF TasksTyped
<1>8. \/ worker'[w] = NoWorker
      \/ /\ worker[w].at # "idle" /\ worker'[w].key = worker[w].key /\ worker'[w].at = "locking"
         /\ worker[w].key \notin recorded
         /\ \A v \in TaskWorkers : worker[v].at = "locking" => worker[v].key # worker[w].key
  BY <1>3, <1>5 DEF WorkerShapes
<1>9. KeysKept'
  BY <1>0, <1>2, <1>4, <1>8, KeysStay
<1>10. LocksKept'
  <2>1. CallBegins(w)
    <3>1. CASE worker'[w] = NoWorker
      BY <3>1 DEF CallBegins, NoWorker
    <3>2. CASE worker[w].at = "keyed" /\ worker'[w] = [worker[w] EXCEPT !.at = "locking"]
      <4>1. worker[w].held = {} /\ worker[w].next = 1
        BY <1>6, <3>2 DEF NoWorker
      <4>2. worker'[w].held = {} /\ worker'[w].next = 1 /\ worker'[w].key = worker[w].key
        BY <1>3, <3>2, <4>1 DEF WorkerShapes
      <4>3. worker[w].key \in KeysInUse'
        BY <4>2 DEF KeysInUse
      <4>4. Sensible(taskCall'[worker[w].key])
        BY <1>1, <1>2, <4>3, SensibleByParts DEF CallsStand, CallOf
      <4> QED
        BY <4>2, <4>4 DEF CallBegins, CallOf
    <3> QED
      BY <1>5, <3>1, <3>2
  <2>2. \A v \in TaskWorkers \ {w} : Stays(v)
    BY <1>4 DEF Stays
  <2> QED
    BY <1>0, <1>2, <2>1, <2>2, LocksStay
<1>11. OffersKept'
  BY <1>0 DEF OffersKept
<1> QED
  BY <1>7, <1>9, <1>10, <1>11 DEF TasksInv

\* Where a transaction stands that locks a row.
LEMMA AtRow ==
    ASSUME TasksInv, NEW w \in TaskWorkers, worker[w].at = "locking"
    PROVE  LET call == CallOf(w)
               o == IdOrder(call.changes)
           IN  /\ call \in CallShapes /\ Sensible(call) /\ call.who \in People
               /\ Len(o) = Len(call.changes) /\ Len(call.changes) \in {1, 2}
               /\ worker[w].next \in 1..Len(call.changes)
               /\ NextChange(w) = o[worker[w].next] /\ NextChange(w) \in Changes /\ NextChange(w).task \in Tasks
<1>1. TasksTyped /\ KeysKept /\ LocksKept
  BY DEF TasksInv
<1>2. CallOf(w) \in CallShapes /\ Sensible(CallOf(w))
  BY <1>1, AtWork
<1>3. CallOf(w).who \in People /\ Len(CallOf(w).changes) \in {1, 2}
  BY <1>2 DEF Sensible
<1>4. worker[w].next \in {1, 2} /\ worker[w].next <= Len(CallOf(w).changes)
  BY <1>1 DEF TasksTyped, WorkerShapes, LocksKept
<1>5. worker[w].next \in 1..Len(CallOf(w).changes)
  BY <1>3, <1>4
<1>6. NextChange(w) \in Changes
  BY <1>2, <1>5, OrderOfCall DEF NextChange
<1> QED
  BY <1>2, <1>3, <1>5, <1>6, OrderOfCall, ActionsOfChanges DEF NextChange

\* The first row of a batch.
LEMMA LockKeeps ==
    ASSUME TasksInv, NEW w \in TaskWorkers, LockTask(w)
    PROVE  TasksInv'
<1>0. TasksTyped /\ KeysKept /\ LocksKept /\ OffersKept
  BY DEF TasksInv
<1>1. worker[w].at = "locking" /\ ~AtLast(w)
      /\ (\A v \in TaskWorkers \ {w} : NextChange(w).task \notin worker[v].held)
      /\ UNCHANGED <<sharedTask, offerStands, taskCall, issued, recorded, applied, unanswered, slips>>
  BY DEF LockTask, RowFree
<1> DEFINE call == CallOf(w)
           o == IdOrder(call.changes)
<1>2. call \in CallShapes /\ Sensible(call) /\ worker[w].next = 1 /\ Len(call.changes) = 2
      /\ NextChange(w) = o[1] /\ NextChange(w).task \in Tasks
  <2>1. worker[w].next # Len(call.changes)
    BY <1>1 DEF AtLast
  <2>2. /\ call \in CallShapes /\ Sensible(call) /\ Len(call.changes) \in {1, 2}
        /\ worker[w].next \in 1..Len(call.changes)
        /\ NextChange(w) = o[worker[w].next] /\ NextChange(w).task \in Tasks
    BY <1>1, AtRow
  <2>3. worker[w].next = 1 /\ Len(call.changes) = 2
    <3>1. CASE Len(call.changes) = 1
      BY <2>1, <2>2, <3>1
    <3>2. CASE Len(call.changes) = 2
      BY <2>1, <2>2, <3>2
    <3> QED
      BY <2>2, <3>1, <3>2
  <2> QED
    BY <2>2, <2>3
<1>3. worker[w].held = {}
  BY <1>0, <1>1, <1>2 DEF LocksKept
<1>4. PICK fine \in BOOLEAN :
           /\ IF fine THEN StillAllowed(w) ELSE ~StillAllowed(w) \/ Outdated(w)
           /\ worker' = [worker EXCEPT
                  ![w].next = @ + 1,
                  ![w].held = IF fine THEN @ \cup {NextChange(w).task} ELSE @,
                  ![w].failed = @ \/ ~fine]
  BY DEF LockTask
<1> DEFINE new == [worker[w] EXCEPT !.next = 2, !.held = IF fine THEN {NextChange(w).task} ELSE {},
                                    !.failed = @ \/ ~fine]
<1>5. worker \in [TaskWorkers -> WorkerShapes] /\ worker[w] \in WorkerShapes /\ worker[w].failed \in BOOLEAN
  BY <1>0 DEF TasksTyped, WorkerShapes
<1>6. worker' = [worker EXCEPT ![w] = new]
  <2>1. worker[w].next + 1 = 2
    BY <1>2
  <2>2. (IF fine THEN worker[w].held \cup {NextChange(w).task} ELSE worker[w].held)
           = IF fine THEN {NextChange(w).task} ELSE {}
    BY <1>3
  <2>3. worker' = [worker EXCEPT ![w] = [worker[w] EXCEPT
           !.next = worker[w].next + 1,
           !.held = IF fine THEN worker[w].held \cup {NextChange(w).task} ELSE worker[w].held,
           !.failed = worker[w].failed \/ ~fine]]
    BY <1>4, <1>5 DEF WorkerShapes
  <2> QED
    BY <2>1, <2>2, <2>3
<1>7. new \in WorkerShapes /\ new.at = "locking" /\ new.key = worker[w].key /\ new.next = 2
      /\ new.held = (IF fine THEN {NextChange(w).task} ELSE {}) /\ new.failed = (worker[w].failed \/ ~fine)
  BY <1>1, <1>2, <1>5 DEF WorkerShapes
<1> HIDE DEF new
<1>8. worker' \in [TaskWorkers -> WorkerShapes] /\ worker'[w] = new
      /\ \A v \in TaskWorkers \ {w} : worker'[v] = worker[v]
  BY <1>5, <1>6, <1>7
<1>9. TasksTyped'
  BY <1>0, <1>1, <1>8 DEF TasksTyped
<1>10. CallsStand
  BY <1>1 DEF CallsStand
<1>11. KeysKept'
  BY <1>0, <1>1, <1>7, <1>8, <1>10, KeysStay
<1>12. LocksKept'
  <2>1. ASSUME NEW u \in TaskWorkers, NEW v \in TaskWorkers, u # v PROVE worker'[u].held \cap worker'[v].held = {}
    <3>1. \A x \in TaskWorkers \ {w} : worker'[x].held \cap worker'[w].held = {}
      BY <1>1, <1>7, <1>8
    <3>2. CASE u # w /\ v # w
      BY <1>0, <1>8, <2>1, <3>2 DEF LocksKept
    <3> QED
      BY <2>1, <3>1, <3>2
  <2>2. ASSUME NEW v \in TaskWorkers, worker'[v].at = "locking"
        PROVE  /\ worker'[v].next <= Len(CallOf(v)'.changes)
               /\ worker'[v].next = 1 => worker'[v].held = {}
               /\ worker'[v].next = 2 => worker'[v].held \subseteq {IdOrder(CallOf(v)'.changes)[1].task}
               /\ worker'[v].next = 2 /\ ~worker'[v].failed =>
                     LET first == IdOrder(CallOf(v)'.changes)[1]
                     IN  /\ worker'[v].held = {first.task}
                         /\ Allowed(sharedTask'[first.task], CallOf(v)'.who, first.action, TRUE)
    <3>1. CASE v # w
      <4>1. worker'[v] = worker[v] /\ CallOf(v)' = CallOf(v) /\ sharedTask' = sharedTask
        BY <1>1, <1>8, <3>1 DEF CallOf
      <4> QED
        BY <1>0, <2>2, <4>1 DEF LocksKept
    <3>2. CASE v = w
      <4>1. CallOf(v)' = call /\ sharedTask' = sharedTask
        BY <1>1, <1>7, <1>8, <3>2 DEF CallOf
      <4>2. ASSUME fine PROVE Allowed(sharedTask[o[1].task], call.who, o[1].action, TRUE)
        <5>1. Allowed(sharedTask[o[1].task], call.who, o[1].action, o[1].task \in call.current)
          BY <1>2, <1>4, <4>2 DEF StillAllowed
        <5>2. o[1].action \in StatusActions
          BY <1>2, OrderOfCall
        <5> QED
          BY <5>1, <5>2, AllowedWhatever
      <4> QED
        <5>1. worker'[v].next = 2 /\ worker'[v].failed = (worker[w].failed \/ ~fine)
              /\ worker'[v].held = (IF fine THEN {o[1].task} ELSE {})
          BY <1>2, <1>7, <1>8, <3>2
        <5> QED
          <6>1. IdOrder(CallOf(v)'.changes)[1] = o[1] /\ Len(CallOf(v)'.changes) = 2
                /\ CallOf(v)'.who = call.who
            BY <1>2, <4>1
          <6>2. ~worker'[v].failed => fine
            BY <5>1
          <6>3. ~worker'[v].failed => /\ worker'[v].held = {o[1].task}
                                      /\ Allowed(sharedTask'[o[1].task], CallOf(v)'.who, o[1].action, TRUE)
            BY <4>1, <4>2, <5>1, <6>2
          <6> DEFINE f == IdOrder(CallOf(v)'.changes)[1]
          <6>4. ~worker'[v].failed => /\ worker'[v].held = {f.task}
                                      /\ Allowed(sharedTask'[f.task], CallOf(v)'.who, f.action, TRUE)
            BY <6>1, <6>3
          <6>5. worker'[v].next <= Len(CallOf(v)'.changes) /\ worker'[v].next # 1
            BY <5>1, <6>1
          <6>6. worker'[v].held \subseteq {f.task}
            BY <5>1, <6>1
          <6> QED
            BY <6>4, <6>5, <6>6
    <3> QED
      BY <3>1, <3>2
  <2> QED
    BY <2>1, <2>2 DEF LocksKept
<1>13. OffersKept'
  BY <1>0, <1>1 DEF OffersKept
<1> QED
  BY <1>9, <1>11, <1>12, <1>13 DEF TasksInv

\* All that a call commits is allowed on the rows as they are, and nobody else holds them.
LEMMA CommitIsAllowed ==
    ASSUME TasksInv, NEW w \in TaskWorkers, RowFree(w), AtLast(w), ~worker[w].failed, StillAllowed(w),
           NEW c \in {CallOf(w).changes[i] : i \in DOMAIN CallOf(w).changes}
    PROVE  /\ c \in Changes /\ c.to # CallOf(w).who
           /\ \E cur \in BOOLEAN : Allowed(sharedTask[c.task], CallOf(w).who, c.action, cur)
           /\ \A v \in TaskWorkers \ {w} : c.task \notin worker[v].held
<1> DEFINE call == CallOf(w)
           o == IdOrder(call.changes)
<1>1. worker[w].at = "locking" /\ \A v \in TaskWorkers \ {w} : NextChange(w).task \notin worker[v].held
  BY DEF RowFree
<1>2. call \in CallShapes /\ Sensible(call) /\ Len(call.changes) \in {1, 2}
      /\ worker[w].next = Len(call.changes) /\ NextChange(w) = o[worker[w].next]
  BY <1>1, AtRow DEF AtLast
<1>3. PICK i \in 1..Len(call.changes) : c = o[i]
  BY <1>2, OrderOfCall
<1>4. c \in Changes /\ c.to # call.who
  BY <1>2, <1>3, OrderOfCall
<1>5. CASE i = worker[w].next
  <2>1. c = NextChange(w)
    BY <1>2, <1>3, <1>5
  <2>2. Allowed(sharedTask[c.task], CallOf(w).who, c.action, c.task \in CallOf(w).current)
    BY <2>1 DEF StillAllowed
  <2> QED
    <3> DEFINE cur == c.task \in CallOf(w).current
    <3>1. cur \in BOOLEAN /\ Allowed(sharedTask[c.task], CallOf(w).who, c.action, cur)
      BY <2>2
    <3> HIDE DEF cur
    <3> QED
      BY <1>1, <1>4, <2>1, <3>1
<1>6. CASE i # worker[w].next
  <2>1. i = 1 /\ worker[w].next = 2
    <3>1. CASE Len(call.changes) = 1
      BY <1>2, <1>3, <1>6, <3>1
    <3>2. CASE Len(call.changes) = 2
      BY <1>2, <1>3, <1>6, <3>2
    <3> QED
      BY <1>2, <3>1, <3>2
  <2>2. worker[w].held = {c.task} /\ Allowed(sharedTask[c.task], call.who, c.action, TRUE)
    BY <1>1, <1>3, <2>1 DEF TasksInv, LocksKept
  <2>3. \A v \in TaskWorkers \ {w} : worker[v].held \cap worker[w].held = {}
    BY DEF TasksInv, LocksKept
  <2> QED
    BY <1>4, <2>2, <2>3
<1> QED
  BY <1>5, <1>6

\* What a commit makes of each row.
UntouchedRow(t) == sharedTask'[t] = sharedTask[t]
ChangedRow(w, t) ==
    \E c \in Changes, cur \in BOOLEAN :
       /\ c.to # CallOf(w).who /\ Allowed(sharedTask[t], CallOf(w).who, c.action, cur)
       /\ sharedTask'[t] = Changed(sharedTask[t], CallOf(w).who, c)
       /\ c.action = "transfer" => offerStands'[t]

LEMMA CommitRows ==
    ASSUME TasksInv, NEW w \in TaskWorkers, CommitCall(w), NEW t \in Tasks
    PROVE  /\ UntouchedRow(t) \/ (ChangedRow(w, t) /\ \A v \in TaskWorkers \ {w} : t \notin worker[v].held)
           /\ offerStands[t] /\ sharedTask'[t].holder = sharedTask[t].holder /\ sharedTask'[t].offered # NoPerson
                 => offerStands'[t]
<1> DEFINE changes == CallOf(w).changes
           all == {changes[i] : i \in DOMAIN changes}
           tasks == {changes[i].task : i \in DOMAIN changes}
           changeOf(x) == CHOOSE c \in all : c.task = x
<1>1. /\ RowFree(w) /\ AtLast(w) /\ ~worker[w].failed /\ StillAllowed(w)
      /\ sharedTask' = [x \in Tasks |-> IF x \in tasks THEN Changed(sharedTask[x], CallOf(w).who, changeOf(x))
                                                       ELSE sharedTask[x]]
      /\ offerStands' = [x \in Tasks |->
               \/ x \in tasks /\ changeOf(x).action = "transfer"
               \/ /\ offerStands[x] /\ sharedTask'[x].holder = sharedTask[x].holder
                  /\ sharedTask'[x].offered # NoPerson]
  BY DEF CommitCall
<1>2. offerStands'[t] = (\/ t \in tasks /\ changeOf(t).action = "transfer"
                         \/ /\ offerStands[t] /\ sharedTask'[t].holder = sharedTask[t].holder
                            /\ sharedTask'[t].offered # NoPerson)
  <2> HIDE DEF tasks, changeOf
  <2> QED
    BY <1>1
<1>3. CASE t \notin tasks
  <2>1. sharedTask'[t] = sharedTask[t]
    <3> HIDE DEF tasks, changeOf
    <3> QED
      BY <1>1, <1>3
  <2> QED
    BY <1>2, <2>1 DEF UntouchedRow
<1>4. CASE t \in tasks
  <2>1. changeOf(t) \in all /\ changeOf(t).task = t
    <3>1. \E c \in all : c.task = t
      BY <1>4
    <3> HIDE DEF all
    <3> QED
      BY <3>1
  <2> DEFINE c == changeOf(t)
  <2>2. /\ c \in Changes /\ c.to # CallOf(w).who
        /\ \E cur \in BOOLEAN : Allowed(sharedTask[c.task], CallOf(w).who, c.action, cur)
        /\ \A v \in TaskWorkers \ {w} : c.task \notin worker[v].held
    <3>1. c \in {CallOf(w).changes[i] : i \in DOMAIN CallOf(w).changes}
      BY <2>1
    <3> HIDE DEF c
    <3> QED
      BY <1>1, <3>1, CommitIsAllowed
  <2>3. sharedTask'[t] = Changed(sharedTask[t], CallOf(w).who, c)
    <3> HIDE DEF tasks, changeOf
    <3> QED
      BY <1>1, <1>4 DEF c
  <2>4. c.action = "transfer" => offerStands'[t]
    BY <1>2, <1>4
  <2> HIDE DEF c, changeOf, tasks
  <2>5. ChangedRow(w, t)
    BY <2>1, <2>2, <2>3, <2>4 DEF ChangedRow, c
  <2> QED
    BY <1>2, <2>1, <2>2, <2>5 DEF c
<1> QED
  BY <1>3, <1>4

LEMMA CommitKeeps ==
    ASSUME TasksInv, NEW w \in TaskWorkers, CommitCall(w)
    PROVE  TasksInv'
<1>0. TasksTyped /\ KeysKept /\ LocksKept /\ OffersKept
  BY DEF TasksInv
<1> DEFINE changes == CallOf(w).changes
           tasks == {changes[i].task : i \in DOMAIN changes}
           changeOf(x) == CHOOSE c \in {changes[i] : i \in DOMAIN changes} : c.task = x
           k == worker[w].key
           calls == [j \in TaskKeys |-> [taskCall[j] EXCEPT !.current = @ \ tasks]]
<1>1. /\ RowFree(w) /\ issued' = issued /\ recorded' = recorded \cup {k}
      /\ applied' = [applied EXCEPT ![k] = IF @ < 2 THEN @ + 1 ELSE @]
      /\ worker' = [v \in TaskWorkers |->
               IF v = w THEN NoWorker
               ELSE IF worker[v].at = "locking" THEN [worker[v] EXCEPT !.behind = @ \cup tasks] ELSE worker[v]]
      /\ \/ UNCHANGED <<unanswered, slips>>
         \/ Slip /\ unanswered' = unanswered \cup {k}
      /\ taskCall' = Forgotten(calls)
  BY DEF CommitCall
<1>2. /\ sharedTask' = [x \in Tasks |-> IF x \in tasks THEN Changed(sharedTask[x], CallOf(w).who, changeOf(x))
                                                       ELSE sharedTask[x]]
      /\ offerStands' = [x \in Tasks |->
               \/ x \in tasks /\ changeOf(x).action = "transfer"
               \/ /\ offerStands[x] /\ sharedTask'[x].holder = sharedTask[x].holder
                  /\ sharedTask'[x].offered # NoPerson]
  BY DEF CommitCall
<1>3. worker[w].at = "locking" /\ k \in TaskKeys /\ CallOf(w) \in CallShapes /\ CallOf(w).who \in People
      /\ tasks \subseteq Tasks
  <2>1. worker[w].at = "locking"
    BY <1>1 DEF RowFree
  <2>2. CallOf(w) \in CallShapes /\ Sensible(CallOf(w)) /\ k \in TaskKeys
    BY <1>0, <2>1, AtWork
  <2>3. \A i \in DOMAIN changes : changes[i].task \in Tasks
    BY <2>2, OrderOfCall, ActionsOfChanges
  <2> QED
    BY <2>1, <2>2, <2>3 DEF Sensible
<1> HIDE DEF tasks
<1>4. \A t \in Tasks : RowKept(sharedTask'[t])
  <2> SUFFICES ASSUME NEW t \in Tasks PROVE RowKept(sharedTask'[t])
    OBVIOUS
  <2>1. RowKept(sharedTask[t])
    BY <1>0 DEF TasksTyped
  <2>2. CASE UntouchedRow(t)
    BY <2>1, <2>2 DEF UntouchedRow
  <2>3. CASE ChangedRow(w, t)
    BY <1>3, <2>1, <2>3, RowStep DEF ChangedRow
  <2> QED
    BY <2>2, <2>3, CommitRows
<1>5. sharedTask' \in [Tasks -> TaskRows] /\ offerStands' \in [Tasks -> BOOLEAN]
  <2>1. \A t \in Tasks : sharedTask'[t] \in TaskRows
    BY <1>4 DEF RowKept
  <2> HIDE DEF changeOf
  <2> QED
    BY <1>2, <2>1
<1>6. taskCall' \in [TaskKeys -> CallShapes] /\ CallsStand
  <2>1. taskCall \in [TaskKeys -> CallShapes]
    BY <1>0 DEF TasksTyped
  <2>2. calls \in [TaskKeys -> CallShapes] /\
        \A j \in TaskKeys : calls[j].who = taskCall[j].who /\ calls[j].changes = taskCall[j].changes
    <3>1. \A j \in TaskKeys : [taskCall[j] EXCEPT !.current = @ \ tasks] \in CallShapes
                              /\ [taskCall[j] EXCEPT !.current = @ \ tasks].who = taskCall[j].who
                              /\ [taskCall[j] EXCEPT !.current = @ \ tasks].changes = taskCall[j].changes
      BY <2>1 DEF CallShapes
    <3> QED
      BY <3>1
  <2> HIDE DEF calls
  <2> QED
    BY <1>0, <1>1, <2>2, Forgets
<1>7. /\ worker' \in [TaskWorkers -> WorkerShapes] /\ worker'[w] = NoWorker
      /\ \A v \in TaskWorkers \ {w} : Stays(v) /\ (worker[v].at # "locking" => worker'[v] = worker[v])
  <2>1. worker \in [TaskWorkers -> WorkerShapes]
    BY <1>0 DEF TasksTyped
  <2> DEFINE new(v) == [worker[v] EXCEPT !.behind = @ \cup tasks]
  <2>2. \A v \in TaskWorkers : /\ new(v) \in WorkerShapes /\ new(v).at = worker[v].at /\ new(v).key = worker[v].key
                               /\ new(v).next = worker[v].next /\ new(v).held = worker[v].held
                               /\ new(v).failed = worker[v].failed
    BY <1>3, <2>1 DEF WorkerShapes
  <2>3. worker' = [v \in TaskWorkers |->
               IF v = w THEN NoWorker ELSE IF worker[v].at = "locking" THEN new(v) ELSE worker[v]]
    BY <1>1
  <2> HIDE DEF new
  <2>4. \A v \in TaskWorkers : worker'[v] =
               IF v = w THEN NoWorker ELSE IF worker[v].at = "locking" THEN new(v) ELSE worker[v]
    BY <2>3
  <2>5. worker' \in [TaskWorkers -> WorkerShapes]
    BY <2>1, <2>2, <2>3, Shapes
  <2> QED
    BY <2>2, <2>4, <2>5 DEF Stays
<1>8. applied' \in [TaskKeys -> 0..2] /\ \A j \in TaskKeys \ {k} : applied'[j] = applied[j]
  <2>1. applied \in [TaskKeys -> 0..2] /\ applied[k] \in 0..2
    BY <1>0, <1>3 DEF TasksTyped
  <2>2. (IF applied[k] < 2 THEN applied[k] + 1 ELSE applied[k]) \in 0..2
    BY <2>1
  <2> QED
    BY <1>1, <2>1, <2>2
<1>9. TasksTyped'
  <2>1. unanswered' \subseteq TaskKeys /\ recorded' \subseteq TaskKeys
    BY <1>0, <1>1, <1>3 DEF TasksTyped
  <2>2. slips' \in 0..MaxTaskFaults
    BY <1>0, <1>1, SharedTaskConstants DEF TasksTyped, Slip, SharedTaskConstants
  <2> QED
    BY <1>0, <1>1, <1>4, <1>5, <1>6, <1>7, <1>8, <2>1, <2>2 DEF TasksTyped
<1>10. KeysKept'
  <2>1. NoWorker.at = "idle"
    BY DEF NoWorker
  <2>2. unanswered' \subseteq unanswered \cup (IF worker[w].at = "idle" THEN {} ELSE {worker[w].key})
    BY <1>1, <1>3
  <2>3. worker[w].at = "locking" /\ worker'[w].at = "idle" /\ recorded' = recorded \cup {worker[w].key}
        /\ \A j \in TaskKeys \ {worker[w].key} : applied'[j] = applied[j]
    BY <1>1, <1>3, <1>7, <1>8, <2>1
  <2>4. \A v \in TaskWorkers \ {w} : worker'[v].at = worker[v].at /\ worker'[v].key = worker[v].key
                                       /\ (worker[v].at # "locking" => worker'[v] = worker[v])
    BY <1>7 DEF Stays
  <2> HIDE DEF k
  <2> QED
    BY <1>0, <1>1, <1>6, <1>7, <2>2, <2>3, <2>4, KeysStay
<1>11. LocksKept'
  <2>1. CallBegins(w)
    BY <1>7 DEF CallBegins, NoWorker
  <2>2. ASSUME NEW v \in TaskWorkers \ {w}
        PROVE  Stays(v) /\ \A t \in Tasks : t \in worker[v].held => sharedTask'[t] = sharedTask[t]
    BY <1>7, CommitRows DEF UntouchedRow
  <2> QED
    BY <1>0, <1>6, <2>1, <2>2, LocksStay
<1>12. OffersKept'
  <2> SUFFICES ASSUME NEW t \in Tasks, sharedTask'[t].offered # NoPerson PROVE offerStands'[t]
    BY DEF OffersKept
  <2>1. sharedTask[t].offered # NoPerson => offerStands[t]
    BY <1>0 DEF OffersKept
  <2>2. offerStands[t] /\ sharedTask'[t].holder = sharedTask[t].holder => offerStands'[t]
    BY CommitRows
  <2>3. CASE UntouchedRow(t)
    BY <2>1, <2>2, <2>3 DEF UntouchedRow
  <2>4. CASE ChangedRow(w, t)
    <3>1. PICK c \in Changes, cur \in BOOLEAN :
             /\ c.to # CallOf(w).who /\ Allowed(sharedTask[t], CallOf(w).who, c.action, cur)
             /\ sharedTask'[t] = Changed(sharedTask[t], CallOf(w).who, c)
             /\ c.action = "transfer" => offerStands'[t]
      BY <2>4 DEF ChangedRow
    <3>2. RowKept(sharedTask[t])
      BY <1>0 DEF TasksTyped
    <3>3. c.action # "transfer" =>
            sharedTask'[t].holder = sharedTask[t].holder /\ sharedTask'[t].offered = sharedTask[t].offered
      BY <1>3, <3>1, <3>2, RowStep
    <3> QED
      BY <2>1, <2>2, <3>1, <3>3
  <2> QED
    BY <2>3, <2>4, CommitRows
<1> QED
  BY <1>9, <1>10, <1>11, <1>12 DEF TasksInv

LEMMA TasksInvStep == TasksInv /\ [SharedTasksNext]_tasksVars => TasksInv'
<1> SUFFICES ASSUME TasksInv, [SharedTasksNext]_tasksVars PROVE TasksInv'
  OBVIOUS
<1>0. TasksTyped /\ KeysKept
  BY DEF TasksInv
<1>1. CASE UNCHANGED tasksVars
  BY <1>1 DEF TasksInv, TasksTyped, KeysKept, KeysInUse, LocksKept, CallOf, OffersKept, tasksVars
<1>2. ASSUME NEW w \in TaskWorkers,
             IssueCall(w) \/ RepeatCall(w) \/ TransactionStep(w) \/ CallSlips(w)
      PROVE  TasksInv'
  <2>0. MaxTaskFaults \in Nat /\ slips \in 0..MaxTaskFaults
    BY <1>0, SharedTaskConstants DEF SharedTaskConstants, TasksTyped
  <2>1. CASE IssueCall(w)
    BY <2>1, IssueKeeps
  <2>2. CASE RepeatCall(w)
    BY <2>2, RepeatKeeps
  <2>3. CASE TakeKey(w)
    <3>1. worker[w].at = "keyed" /\ (\A v \in TaskWorkers : worker[v].at = "locking" => worker[v].key # worker[w].key)
          /\ UNCHANGED <<sharedTask, offerStands, issued, recorded, applied, unanswered, slips>>
          /\ taskCall' = Forgotten(taskCall)
      BY <2>3 DEF TakeKey
    <3>2. \/ worker' = [worker EXCEPT ![w] = NoWorker]
          \/ worker[w].key \notin recorded /\ worker' = [worker EXCEPT ![w].at = "locking"]
      <4>1. worker[w] \in WorkerShapes /\ worker \in [TaskWorkers -> WorkerShapes]
        BY <1>0 DEF TasksTyped
      <4>2. worker' = [worker EXCEPT ![w] =
               IF worker[w].key \in recorded THEN NoWorker ELSE [worker[w] EXCEPT !.at = "locking"]]
        BY <2>3, <4>1 DEF TakeKey, AnsweredBefore
      <4> QED
        BY <4>1, <4>2
    <3> QED
      BY <2>0, <3>1, <3>2, EndOrKeyKeeps
  <2>4. CASE LockTask(w)
    BY <2>4, LockKeeps
  <2>5. CASE CommitCall(w)
    BY <2>5, CommitKeeps
  <2>6. CASE RefuseCall(w)
    <3>1. worker[w].at = "locking" /\ worker' = [worker EXCEPT ![w] = NoWorker]
          /\ UNCHANGED <<sharedTask, offerStands, issued, recorded, applied, unanswered, slips>>
          /\ taskCall' = Forgotten(taskCall)
      BY <2>6 DEF RefuseCall, RowFree
    <3> QED
      BY <2>0, <3>1, EndOrKeyKeeps
  <2>7. CASE CallSlips(w)
    <3>1. worker[w].at # "idle" /\ unanswered' = unanswered \cup {worker[w].key} /\ slips' \in 0..MaxTaskFaults
          /\ UNCHANGED <<sharedTask, offerStands, taskCall, issued, recorded, applied>>
          /\ (worker' = [worker EXCEPT ![w] = NoWorker] \/ UNCHANGED worker)
      BY <2>0, <2>7 DEF CallSlips, Slip
    <3>2. CASE worker' = [worker EXCEPT ![w] = NoWorker]
      BY <3>1, <3>2, EndOrKeyKeeps
    <3>3. CASE UNCHANGED worker
      <4>1. worker[w].key \in TaskKeys /\ worker[w].key \in 1..issued /\ worker[w].key \in KeysInUse
        BY <1>0, <3>1, AtWork DEF KeysKept
      <4>2. TasksTyped'
        BY <1>0, <3>1, <3>3, <4>1 DEF TasksTyped
      <4>3. KeysInUse' = KeysInUse
        BY <3>1, <3>3 DEF KeysInUse
      <4>4. KeysKept'
        BY <1>0, <3>1, <3>3, <4>1, <4>3 DEF KeysKept
      <4>5. LocksKept' /\ OffersKept'
        BY <3>1, <3>3 DEF TasksInv, LocksKept, OffersKept, CallOf
      <4> QED
        BY <4>2, <4>4, <4>5 DEF TasksInv
    <3> QED
      BY <3>1, <3>2, <3>3
  <2> QED
    BY <1>2, <2>1, <2>2, <2>3, <2>4, <2>5, <2>6, <2>7 DEF TransactionStep
<1> QED
  BY <1>1, <1>2 DEF SharedTasksNext

LEMMA TaskTypeHolds == TasksInv => SharedTasksTypeOK
<1> SUFFICES ASSUME TasksInv PROVE SharedTasksTypeOK
  OBVIOUS
<1>1. TasksTyped /\ LocksKept
  BY DEF TasksInv
<1>2. \A t \in Tasks : LET row == sharedTask[t]
                       IN  /\ (row.status = "open") = (row.holder = NoPerson)
                           /\ row.offered # NoPerson => row.status = "accepted" /\ row.offered # row.holder
  BY <1>1 DEF TasksTyped, RowKept
<1>3. \A j \in TaskKeys : /\ taskCall[j].who \in People \cup {NoPerson}
                          /\ taskCall[j].changes \in Seq(Changes)
                          /\ taskCall[j].current \subseteq Tasks
  BY <1>1 DEF TasksTyped, CallShapes
<1>4. \A w \in TaskWorkers :
           /\ worker[w].at \in {"idle", "keyed", "locking"}
           /\ worker[w].held \cup worker[w].behind \subseteq Tasks
           /\ \A v \in TaskWorkers : v # w => worker[v].held \cap worker[w].held = {}
  BY <1>1 DEF TasksTyped, WorkerShapes, LocksKept
<1> QED
  BY <1>1, <1>2, <1>3, <1>4 DEF SharedTasksTypeOK, TasksTyped

LEMMA ConsentHolds ==
    ASSUME TasksInv, [SharedTasksNext]_tasksVars,
           NEW w \in TaskWorkers, worker[w].at = "locking", applied'[worker[w].key] # applied[worker[w].key]
    PROVE  /\ applied[worker[w].key] = 0
           /\ \A t \in Tasks :
                LET old == sharedTask[t]
                    new == sharedTask'[t]
                    who == CallOf(w).who
                IN  /\ new.holder # old.holder =>
                           \/ old.holder = NoPerson /\ new.holder = who
                           \/ new.holder = NoPerson /\ old.holder = who
                           \/ new.holder = who /\ old.offered = who /\ offerStands[t]
                    /\ new.status = "accepted" /\ old.status # "accepted" => new.holder = who
<1>0. TasksTyped /\ KeysKept /\ LocksKept /\ OffersKept
  BY DEF TasksInv
<1>1. worker[w].key \in TaskKeys /\ Sensible(CallOf(w))
  BY <1>0, AtWork
<1>2. applied[worker[w].key] = 0
  BY <1>0, <1>1 DEF KeysKept
<1>3. PICK v \in TaskWorkers : CommitCall(v)
  <2>1. applied' # applied
    OBVIOUS
  <2>2. \E v \in TaskWorkers : IssueCall(v) \/ RepeatCall(v) \/ TransactionStep(v) \/ CallSlips(v)
    BY <2>1 DEF SharedTasksNext, tasksVars
  <2>3. PICK v \in TaskWorkers : IssueCall(v) \/ RepeatCall(v) \/ TransactionStep(v) \/ CallSlips(v)
    BY <2>2
  <2> QED
    BY <2>1, <2>3 DEF IssueCall, RepeatCall, TransactionStep, TakeKey, LockTask, RefuseCall, CallSlips
<1>4. v = w
  <2> DEFINE k == worker[v].key
  <2>1. worker[v].at = "locking" /\ applied' = [applied EXCEPT ![k] = IF @ < 2 THEN @ + 1 ELSE @]
    BY <1>3 DEF CommitCall, RowFree
  <2> HIDE DEF k
  <2>2. \A j \in TaskKeys : j # k => applied'[j] = applied[j]
    BY <1>0, <2>1 DEF TasksTyped
  <2>3. worker[w].key = k
    BY <1>1, <2>2
  <2> QED
    BY <1>0, <2>1, <2>3 DEF KeysKept, k
<1>5. ASSUME NEW t \in Tasks
      PROVE  /\ sharedTask'[t].holder # sharedTask[t].holder =>
                    \/ sharedTask[t].holder = NoPerson /\ sharedTask'[t].holder = CallOf(w).who
                    \/ sharedTask'[t].holder = NoPerson /\ sharedTask[t].holder = CallOf(w).who
                    \/ sharedTask'[t].holder = CallOf(w).who /\ sharedTask[t].offered = CallOf(w).who
                       /\ offerStands[t]
             /\ sharedTask'[t].status = "accepted" /\ sharedTask[t].status # "accepted" =>
                    sharedTask'[t].holder = CallOf(w).who
  <2>1. CASE UntouchedRow(t)
    BY <2>1 DEF UntouchedRow
  <2>2. CASE ChangedRow(w, t)
    <3>1. PICK c \in Changes, cur \in BOOLEAN :
             /\ c.to # CallOf(w).who /\ Allowed(sharedTask[t], CallOf(w).who, c.action, cur)
             /\ sharedTask'[t] = Changed(sharedTask[t], CallOf(w).who, c)
      BY <2>2 DEF ChangedRow
    <3>2. RowKept(sharedTask[t]) /\ CallOf(w).who \in People
      BY <1>0, <1>1 DEF TasksTyped, Sensible
    <3>3. sharedTask[t].offered = CallOf(w).who => offerStands[t]
      BY <1>0, <3>2, SharedTaskConstants DEF OffersKept, SharedTaskConstants
    <3> QED
      BY <3>1, <3>2, <3>3, RowStep
  <2> QED
    BY <1>3, <1>4, <2>1, <2>2, CommitRows
<1> QED
  BY <1>2, <1>5

\* Rows, calls and transactions keep their shape, the rows the CHECKs of the table
\* (status and assignee, an offer only of an accepted task and to somebody else), and no
\* row is locked twice.
THEOREM TasksTypeCorrect == SharedTasksSpec => []SharedTasksTypeOK
BY TasksInvInit, TasksInvStep, TaskTypeHolds, PTL DEF SharedTasksSpec

\* A key runs once at a time, a row locked by a call stays as it was allowed, and an
\* offer that stands is the present assignee's.
THEOREM TasksInvariant == SharedTasksSpec => []TasksInv
BY TasksInvInit, TasksInvStep, PTL DEF SharedTasksSpec

\* Nobody becomes or stops being responsible for a task without a word of their own, and
\* the changes of a call are committed once (shared-task-transition.ts,
\* shared-task-handover.ts, shared_task_operations).
THEOREM TasksConsentCorrect == SharedTasksSpec => TasksChangeByConsent
<1> DEFINE Promise ==
       \A w \in TaskWorkers : worker[w].at = "locking" /\ applied'[worker[w].key] # applied[worker[w].key] =>
          /\ applied[worker[w].key] = 0
          /\ \A t \in Tasks :
                LET old == sharedTask[t]
                    new == sharedTask'[t]
                    who == CallOf(w).who
                IN  /\ new.holder # old.holder =>
                           \/ old.holder = NoPerson /\ new.holder = who
                           \/ new.holder = NoPerson /\ old.holder = who
                           \/ new.holder = who /\ old.offered = who /\ offerStands[t]
                    /\ new.status = "accepted" /\ old.status # "accepted" => new.holder = who
<1>1. TasksInv /\ [SharedTasksNext]_tasksVars => [Promise]_tasksVars
  BY ConsentHolds
<1> QED
  BY <1>1, TasksInvariant, PTL DEF SharedTasksSpec, TasksChangeByConsent

-----------------------------------------------------------------------------
(* Waiting. *)

\* A transaction waits for the one that runs its key, or for the one that holds its next row.
WaitsFor(w, v) ==
    \/ worker[w].at = "keyed" /\ worker[v].at = "locking" /\ worker[v].key = worker[w].key
    \/ worker[w].at = "locking" /\ v # w /\ NextChange(w).task \in worker[v].held

LEMMA RowsInOrder ==
    ASSUME NEW call \in CallShapes, Sensible(call), Len(call.changes) = 2
    PROVE  LET o == IdOrder(call.changes)
           IN  o[1].task \in Tasks /\ o[2].task \in Tasks /\ o[1].task < o[2].task
<1> DEFINE cs == call.changes
           o == IdOrder(cs)
<1>1. o[1] \in Changes /\ o[2] \in Changes /\ o[1].task # o[2].task
  BY OrderOfCall
<1>2. o[1].task \in Tasks /\ o[2].task \in Tasks /\ Tasks \subseteq Int
  BY <1>1, ActionsOfChanges DEF Tasks
<1>3. o[1].task <= o[2].task
  <2>1. CASE cs[1].task > cs[2].task
    <3>1. o = <<cs[2], cs[1]>>
      BY <2>1 DEF IdOrder
    <3>2. o[1] = cs[2] /\ o[2] = cs[1]
      BY <3>1
    <3>3. cs[1].task \in Int /\ cs[2].task \in Int
      BY <1>2, <3>2
    <3> HIDE DEF o, cs
    <3> QED
      BY <2>1, <3>2, <3>3
  <2>2. CASE ~(cs[1].task > cs[2].task)
    <3>1. o = cs
      BY <2>2 DEF IdOrder
    <3>2. cs[1].task \in Int /\ cs[2].task \in Int
      BY <1>2, <3>1
    <3> HIDE DEF o, cs
    <3> QED
      BY <2>2, <3>1, <3>2
  <2> QED
    BY <2>1, <2>2
<1>4. o[1].task < o[2].task
  <2>1. o[1].task \in Int /\ o[2].task \in Int
    BY <1>2
  <2> HIDE DEF o
  <2> QED
    BY <1>1, <1>3, <2>1
<1> QED
  BY <1>2, <1>4

\* Who holds a row waits, if at all, for a later one.
LEMMA HoldsEarlierRow ==
    ASSUME TasksInv, NEW v \in TaskWorkers, NEW t \in worker[v].held
    PROVE  worker[v].at = "locking" /\ t < NextChange(v).task
<1>1. TasksTyped /\ KeysKept /\ LocksKept
  BY DEF TasksInv
<1>2. worker[v].at = "locking"
  <2>1. worker[v].at \in {"idle", "keyed", "locking"}
    BY <1>1 DEF TasksTyped, WorkerShapes
  <2>2. worker[v].at = "idle" => worker[v] = NoWorker
    BY <1>1 DEF KeysKept
  <2>3. worker[v].at = "keyed" => worker[v] = [NoWorker EXCEPT !.at = "keyed", !.key = worker[v].key]
    BY <1>1 DEF KeysKept
  <2>4. NoWorker.held = {} /\ \A k : [NoWorker EXCEPT !.at = "keyed", !.key = k].held = {}
    BY DEF NoWorker
  <2>5. worker[v].at = "idle" \/ worker[v].at = "keyed" => worker[v].held = {}
    BY <2>2, <2>3, <2>4
  <2> QED
    BY <2>1, <2>5
<1> DEFINE call == CallOf(v)
           o == IdOrder(call.changes)
<1>3. /\ call \in CallShapes /\ Sensible(call) /\ Len(call.changes) \in {1, 2}
      /\ worker[v].next \in 1..Len(call.changes) /\ NextChange(v) = o[worker[v].next]
  BY <1>2, AtRow
<1>4. worker[v].next # 1 /\ (worker[v].next = 2 => worker[v].held \subseteq {o[1].task})
  BY <1>1, <1>2 DEF LocksKept
<1>5. worker[v].next = 2 /\ Len(call.changes) = 2
  <2> DEFINE next == worker[v].next
             size == Len(call.changes)
  <2>1. size \in {1, 2} /\ next \in 1..size /\ next # 1
    BY <1>3, <1>4
  <2> HIDE DEF next, size
  <2>2. next = 2 /\ size = 2
    BY <2>1
  <2> QED
    BY <2>2 DEF next, size
<1>6. t = o[1].task /\ NextChange(v) = o[2]
  BY <1>3, <1>4, <1>5
<1> QED
  BY <1>2, <1>3, <1>5, <1>6, RowsInOrder

LEMMA SomebodyGoesOn ==
    ASSUME TasksInv, NEW W \in SUBSET TaskWorkers, W # {}
    PROVE  \E w \in W : \A v \in W : ~WaitsFor(w, v)
<1> SUFFICES ASSUME \A w \in W : \E v \in W : WaitsFor(w, v) PROVE FALSE
  OBVIOUS
<1>1. ASSUME NEW w \in TaskWorkers, NEW v \in TaskWorkers, WaitsFor(w, v) PROVE worker[v].at = "locking"
  BY <1>1, HoldsEarlierRow DEF WaitsFor
<1> DEFINE L == {w \in W : worker[w].at = "locking"}
           T == {n \in Nat : \E w \in L : n = TaskCount - NextChange(w).task}
<1>2. \A w \in L : NextChange(w).task \in 1..TaskCount
  BY AtRow DEF Tasks
<1>3. T # {}
  <2>1. PICK w \in L : TRUE
    BY <1>1
  <2>2. TaskCount - NextChange(w).task \in Nat
    BY <1>2, SharedTaskConstants DEF SharedTaskConstants
  <2> QED
    BY <2>2
<1>4. PICK n \in T : \A m \in T : n <= m
  <2>1. T \in SUBSET Nat
    OBVIOUS
  <2> HIDE DEF T
  <2> QED
    BY <1>3, <2>1, SmallestOne
<1>5. PICK w \in L : n = TaskCount - NextChange(w).task
  BY <1>4
<1>6. PICK v \in W : WaitsFor(w, v)
  OBVIOUS
<1>7. NextChange(w).task \in worker[v].held
  BY <1>5, <1>6 DEF WaitsFor
<1>8. v \in L /\ NextChange(w).task < NextChange(v).task
  BY <1>7, HoldsEarlierRow
<1>9. TaskCount - NextChange(v).task \in T /\ TaskCount - NextChange(v).task < n
  BY <1>2, <1>5, <1>8, SharedTaskConstants DEF SharedTaskConstants
<1> QED
  BY <1>4, <1>9

\* Transactions on shared tasks never wait for each other in a circle, however many rows,
\* calls and repeated calls there are: rows are locked in the order of their ids and the
\* key before the rows (executionOrder).
THEOREM TransactionsNeverInCircle ==
    SharedTasksSpec =>
        [](\A W \in SUBSET TaskWorkers : W # {} => \E w \in W : \A v \in W : ~WaitsFor(w, v))
<1>1. TasksInv => \A W \in SUBSET TaskWorkers : W # {} => \E w \in W : \A v \in W : ~WaitsFor(w, v)
  BY SomebodyGoesOn
<1> QED
  BY <1>1, TasksInvariant, PTL

-----------------------------------------------------------------------------
(***************************************************************************)
(* Software updates.                                                       *)
(***************************************************************************)

(***************************************************************************)
(* What the controller knows of its row lives in shell variables; what     *)
(* survives it is the row.  The invariant ties the two: as long as the     *)
(* controller is at work its row is leased to it and its flags say what    *)
(* was done; a release that was begun is never again in a status the       *)
(* controller claims.                                                      *)
(***************************************************************************)
Working == deploy.at # "idle"

\* The lease of an hour outlives the controller, and nobody else closes the row.
LeasedToController == Working => HoldsRelease(deploy.target)

\* The flags of the shell say how far the attempt came.
FlagsTellStage ==
    /\ deploy.at \in {"stopped", "starting", "healthy", "promoted"} => deploy.stopped
    /\ deploy.at \in {"starting", "healthy", "promoted"} => deploy.migrated
    /\ deploy.at \in {"claimed", "validated", "dumped", "stopped"} => ~deploy.migrated
    /\ deploy.at = "reporting" => deploy.verdict # "none"
    /\ deploy.at = "reporting" /\ deploy.verdict = "failed" => ~deploy.migrated

\* Whatever was approved was approved by the person asked.
ConsentStands ==
    \A v \in Versions :
        proposal[v].status \in {"approved", "deploying", "succeeded", "failed", "ambiguous"} =>
            consent[v] = proposal[v].for /\ consent[v] # "nobody"

\* A release that was begun is past every status the controller claims.
BegunIsPast ==
    /\ \A v \in Versions : /\ begun[v] > 0 => proposal[v].status \in {"deploying", "succeeded", "ambiguous"}
                           /\ begun[v] <= 1
    /\ Working /\ ~deploy.migrated => begun[deploy.target] = 0

UpgradesOnly ==
    deploy.at \in {"validated", "dumped", "stopped", "starting", "healthy"} => deploy.target > site.link

\* Services the controller has not stopped, or has started again, are as it found them.
FoundStands ==
    /\ deploy.found
    /\ \/ deploy.at \in {"claimed", "validated", "dumped"}
       \/ deploy.at = "failing" /\ ~deploy.stopped
       \/ deploy.at = "reporting" /\ deploy.verdict = "failed"
    => site.up /\ site.runs = site.link

UpdatesInv == /\ LeasedToController /\ FlagsTellStage /\ ConsentStands
              /\ BegunIsPast /\ UpgradesOnly /\ FoundStands

-----------------------------------------------------------------------------
(* The type invariant. *)

LEMMA RankIsNat == Cardinality(Decided) + 1 \in Nat
<1>1. IsFiniteSet(Versions)
  BY FS_Interval, UpdateConstants DEF Versions
<1>2. Decided \in SUBSET Versions
  BY DEF Decided
<1>3. Cardinality(Decided) \in Nat
  BY <1>1, <1>2, FS_Subset, FS_CardinalityType
<1>4. QED
  BY <1>3

LEMMA VersionsAreNat == Versions \subseteq 0..LastVersion /\ 0 \in 0..LastVersion
BY UpdateConstants DEF Versions

\* A row keeps the shape of the table when its fields are given.
LEMMA RowTyped ==
  ASSUME NEW row \in ProposalRows, NEW status \in Statuses, NEW lease \in {"none", "live", "expired"}
  PROVE  /\ [row EXCEPT !.status = status] \in ProposalRows
         /\ [row EXCEPT !.status = status, !.lease = lease] \in ProposalRows
         /\ [row EXCEPT !.lease = lease] \in ProposalRows
         /\ \A rank \in Nat : [row EXCEPT !.status = status, !.rank = rank] \in ProposalRows
BY DEF ProposalRows

\* A step of the controller keeps its target.
LEMMA DeployTyped ==
  ASSUME NEW d \in Deploys, NEW stage \in Stages, NEW verdict \in {"none", "failed", "ambiguous"}
  PROVE  /\ [d EXCEPT !.at = stage] \in Deploys
         /\ [d EXCEPT !.at = stage].target = d.target
         /\ [d EXCEPT !.at = stage, !.stopped = TRUE] \in Deploys
         /\ [d EXCEPT !.at = stage, !.stopped = TRUE].target = d.target
         /\ [d EXCEPT !.at = stage, !.migrated = TRUE] \in Deploys
         /\ [d EXCEPT !.at = stage, !.migrated = TRUE].target = d.target
         /\ [d EXCEPT !.at = stage, !.verdict = verdict] \in Deploys
         /\ [d EXCEPT !.at = stage, !.verdict = verdict].target = d.target
BY DEF Deploys

LEMMA StageTyped ==
  ASSUME UpdatesTypeOK, NEW stage \in Stages, StageIs(stage)
  PROVE  deploy' \in Deploys /\ deploy'.target = deploy.target
<1>1. deploy \in Deploys /\ deploy' = [deploy EXCEPT !.at = stage]
  BY DEF UpdatesTypeOK, StageIs
<1>2. QED
  BY <1>1, DeployTyped

LEMMA VerdictTyped ==
  ASSUME UpdatesTypeOK, NEW verdict \in {"failed", "ambiguous"}, VerdictIs(verdict)
  PROVE  deploy' \in Deploys /\ deploy'.target = deploy.target
<1>1. deploy \in Deploys /\ deploy' = [deploy EXCEPT !.at = "reporting", !.verdict = verdict]
  BY DEF UpdatesTypeOK, VerdictIs
<1>2. "reporting" \in Stages /\ verdict \in {"none", "failed", "ambiguous"}
  BY DEF Stages
<1>3. QED
  BY <1>1, <1>2, DeployTyped

LEMMA UpdatesTypeInit == UpdatesInit => UpdatesTypeOK
<1> SUFFICES ASSUME UpdatesInit PROVE UpdatesTypeOK
  OBVIOUS
<1> USE UpdateConstants, VersionsAreNat
<1>1. NoProposal \in ProposalRows
  BY DEF NoProposal, ProposalRows, Statuses
<1>2. NoCheck \in Checks
  BY DEF NoCheck, Checks
<1>3. NoDeploy \in Deploys
  BY DEF NoDeploy, Deploys, Stages
<1>4. proposal \in [Versions -> ProposalRows] /\ check \in [Checkers -> Checks] /\ deploy \in Deploys
  BY <1>1, <1>2, <1>3 DEF UpdatesInit
<1>5. \A v \in Versions : (proposal[v].status = "deploying") = (proposal[v].lease # "none")
  BY DEF UpdatesInit, NoProposal
<1>6. /\ \A c \in Checkers : check[c].at # "idle" => check[c].target \in Versions
      /\ deploy.at # "idle" => deploy.target \in Versions
  BY DEF UpdatesInit, NoCheck, NoDeploy
<1>7. /\ latest \in 0..LastVersion /\ owners \in (SUBSET Owners) \ {{}}
      /\ offered \subseteq Versions
      /\ site \in [up : BOOLEAN, runs : 0..LastVersion, link : 0..LastVersion]
      /\ begun \in [Versions -> 0..2] /\ consent \in [Versions -> Owners \cup {"nobody"}]
      /\ turnovers \in 0..MaxOwnerChanges /\ breaks \in 0..MaxUpdateFaults
  BY DEF UpdatesInit
<1>8. QED
  BY <1>4, <1>5, <1>6, <1>7 DEF UpdatesTypeOK

\* The fields of the rows, of the checks and of the controller, one write at a time.
LEMMA StatusTyped ==
  ASSUME UpdatesTypeOK, NEW v \in Versions, NEW status \in Statuses \ {"deploying"},
         proposal[v].status # "deploying", StatusBecomes(v, status)
  PROVE  /\ proposal' \in [Versions -> ProposalRows]
         /\ \A w \in Versions : (proposal'[w].status = "deploying") = (proposal'[w].lease # "none")
<1>1. proposal \in [Versions -> ProposalRows] /\ [proposal[v] EXCEPT !.status = status] \in ProposalRows
  BY RowTyped DEF UpdatesTypeOK
<1>2. proposal' = [proposal EXCEPT ![v] = [proposal[v] EXCEPT !.status = status]]
  BY <1>1 DEF StatusBecomes
<1>3. proposal' \in [Versions -> ProposalRows]
  BY <1>1, <1>2
<1>4. ASSUME NEW w \in Versions
      PROVE  (proposal'[w].status = "deploying") = (proposal'[w].lease # "none")
  <2>1. CASE w = v
    <3>1. proposal'[w].status = status /\ proposal'[w].lease = proposal[v].lease
      BY <1>1, <1>2, <2>1 DEF ProposalRows
    <3>2. QED
      BY <3>1, <2>1 DEF UpdatesTypeOK
  <2>2. CASE w # v
    BY <1>1, <1>2, <2>2 DEF UpdatesTypeOK
  <2>3. QED
    BY <2>1, <2>2
<1>5. QED
  BY <1>3, <1>4

LEMMA ClosedTyped ==
  ASSUME UpdatesTypeOK, NEW v \in Versions, NEW status \in Statuses \ {"deploying"}, ClosedAs(v, status)
  PROVE  /\ proposal' \in [Versions -> ProposalRows]
         /\ \A w \in Versions : (proposal'[w].status = "deploying") = (proposal'[w].lease # "none")
<1>1. /\ proposal \in [Versions -> ProposalRows]
      /\ [proposal[v] EXCEPT !.status = status, !.lease = "none"] \in ProposalRows
  BY RowTyped DEF UpdatesTypeOK
<1>2. proposal' = [proposal EXCEPT ![v] = [proposal[v] EXCEPT !.status = status, !.lease = "none"]]
  BY <1>1 DEF ClosedAs
<1>3. proposal' \in [Versions -> ProposalRows]
  BY <1>1, <1>2
<1>4. ASSUME NEW w \in Versions
      PROVE  (proposal'[w].status = "deploying") = (proposal'[w].lease # "none")
  <2>1. CASE w = v
    BY <1>1, <1>2, <2>1 DEF ProposalRows
  <2>2. CASE w # v
    BY <1>1, <1>2, <2>2 DEF UpdatesTypeOK
  <2>3. QED
    BY <2>1, <2>2
<1>5. QED
  BY <1>3, <1>4

LEMMA CheckTyped ==
  ASSUME UpdatesTypeOK, NEW c \in Checkers, check[c].at # "idle",
         \/ CheckEnds(c)
         \/ \E step \in {"placing", "binding", "revealing", "failing"} : CheckAt(c, step)
  PROVE  /\ check' \in [Checkers -> Checks]
         /\ \A d \in Checkers : check'[d].at # "idle" => check'[d].target \in Versions
<1> USE DEF UpdatesTypeOK
<1>1. CASE CheckEnds(c)
  <2>1. NoCheck \in Checks
    BY VersionsAreNat DEF NoCheck, Checks
  <2>2. check' = [check EXCEPT ![c] = NoCheck] /\ NoCheck.at = "idle"
    BY <1>1 DEF CheckEnds, NoCheck
  <2>3. QED
    BY <2>1, <2>2
<1>2. ASSUME NEW step \in {"placing", "binding", "revealing", "failing"}, CheckAt(c, step)
      PROVE  /\ check' \in [Checkers -> Checks]
             /\ \A d \in Checkers : check'[d].at # "idle" => check'[d].target \in Versions
  <2>1. [check[c] EXCEPT !.at = step] \in Checks
    BY DEF Checks
  <2>2. check' = [check EXCEPT ![c] = [check[c] EXCEPT !.at = step]]
    BY <1>2 DEF CheckAt
  <2>3. [check[c] EXCEPT !.at = step].target = check[c].target
    BY DEF Checks
  <2>4. QED
    BY <2>1, <2>2, <2>3
<1>3. QED
  BY <1>1, <1>2

LEMMA SurvivingTyped ==
  ASSUME UpdatesTypeOK, NEW up \in BOOLEAN, check' = Surviving(up)
  PROVE  /\ check' \in [Checkers -> Checks]
         /\ \A d \in Checkers : check'[d].at # "idle" => check'[d].target \in Versions
<1>1. NoCheck \in Checks /\ NoCheck.at = "idle"
  BY VersionsAreNat DEF NoCheck, Checks
<1>2. QED
  BY <1>1 DEF UpdatesTypeOK, Surviving

LEMMA BreakTyped == UpdatesTypeOK /\ Break => breaks' \in 0..MaxUpdateFaults
BY UpdateConstants DEF UpdatesTypeOK, Break

LEMMA UpdatesTypeStep == UpdatesTypeOK /\ [UpdatesNext]_updatesVars => UpdatesTypeOK'
<1> SUFFICES ASSUME UpdatesTypeOK, [UpdatesNext]_updatesVars PROVE UpdatesTypeOK'
  OBVIOUS
<1>1. CASE UNCHANGED updatesVars
  BY <1>1 DEF UpdatesTypeOK, updatesVars
<1>2. CASE ReleasePublished
  BY <1>2, UpdateConstants DEF UpdatesTypeOK, ReleasePublished
<1>3. CASE OwnersChange
  BY <1>3, UpdateConstants DEF UpdatesTypeOK, OwnersChange
<1>4. ASSUME NEW c \in Checkers, ReadRelease(c) PROVE UpdatesTypeOK'
  <2>1. PICK o \in owners : /\ owners = {o}
                            /\ check' = [check EXCEPT ![c] = [at |-> "offering", target |-> latest, owner |-> o]]
    BY <1>4 DEF ReadRelease
  <2>2. latest \in Versions /\ [at |-> "offering", target |-> latest, owner |-> o] \in Checks
    BY <1>4, UpdateConstants DEF UpdatesTypeOK, ReadRelease, Versions, Checks
  <2>3. /\ check' \in [Checkers -> Checks]
        /\ \A d \in Checkers : check'[d].at # "idle" => check'[d].target \in Versions
    BY <2>1, <2>2 DEF UpdatesTypeOK
  <2>4. QED
    BY <2>3, <1>4 DEF UpdatesTypeOK, ReadRelease
<1>5. ASSUME NEW c \in Checkers, PrepareProposal(c) PROVE UpdatesTypeOK'
  <2>1. check[c].at # "idle" /\ check[c].target \in Versions /\ check[c].owner \in Owners \cup {"nobody"}
    BY <1>5 DEF PrepareProposal, UpdatesTypeOK, Checks
  <2>2. CASE CheckEnds(c) /\ UNCHANGED proposal
    BY <2>1, <2>2, <1>5, CheckTyped DEF UpdatesTypeOK, PrepareProposal
  <2>3. CASE CheckAt(c, "placing") /\
             proposal' = [v \in Versions |->
                 CASE v = check[c].target -> [NoProposal EXCEPT !.status = "preparing", !.for = check[c].owner]
                   [] v # check[c].target /\ OpenOffer(v) -> [proposal[v] EXCEPT !.status = "superseded"]
                   [] OTHER -> proposal[v]]
    <3>1. PICK o \in Owners \cup {"nobody"} : o = check[c].owner
      BY <2>1
    <3>2. /\ [NoProposal EXCEPT !.status = "preparing", !.for = o] \in ProposalRows
          /\ [NoProposal EXCEPT !.status = "preparing", !.for = o].status = "preparing"
          /\ [NoProposal EXCEPT !.status = "preparing", !.for = o].lease = "none"
      BY DEF NoProposal, ProposalRows, Statuses
    <3>3. ASSUME NEW v \in Versions
          PROVE  /\ proposal'[v] \in ProposalRows
                 /\ (proposal'[v].status = "deploying") = (proposal'[v].lease # "none")
      <4>1. CASE v = check[c].target
        BY <4>1, <2>3, <3>1, <3>2
      <4>2. CASE v # check[c].target /\ OpenOffer(v)
        <5>1. proposal'[v] = [proposal[v] EXCEPT !.status = "superseded"]
          BY <4>2, <2>3
        <5>2. proposal[v] \in ProposalRows /\ proposal[v].lease = "none"
          BY <4>2 DEF UpdatesTypeOK, OpenOffer
        <5>3. [proposal[v] EXCEPT !.status = "superseded"] \in ProposalRows
          BY <5>2, RowTyped DEF Statuses
        <5>4. QED
          BY <5>1, <5>2, <5>3 DEF ProposalRows
      <4>3. CASE v # check[c].target /\ ~OpenOffer(v)
        BY <4>3, <2>3 DEF UpdatesTypeOK
      <4>4. QED
        BY <4>1, <4>2, <4>3
    <3>4. proposal' \in [Versions -> ProposalRows]
      BY <3>3, <2>3
    <3>5. QED
      BY <3>3, <3>4, <2>1, <2>3, <1>5, CheckTyped DEF UpdatesTypeOK, PrepareProposal
  <2>4. QED
    BY <2>2, <2>3, <1>5 DEF PrepareProposal
<1>6. ASSUME NEW c \in Checkers, PlaceMessage(c) PROVE UpdatesTypeOK'
  <2>1. breaks' \in 0..MaxUpdateFaults
    BY <1>6, BreakTyped DEF PlaceMessage, UpdatesTypeOK
  <2>2. QED
    BY <2>1, <1>6, CheckTyped DEF UpdatesTypeOK, PlaceMessage
<1>7. ASSUME NEW c \in Checkers, BindMessage(c) PROVE UpdatesTypeOK'
  <2>1. check[c].at # "idle" /\ check[c].target \in Versions
    BY <1>7 DEF BindMessage, UpdatesTypeOK
  <2>2. CASE StatusBecomes(check[c].target, "pending") /\ proposal[check[c].target].status = "preparing"
    <3>1. /\ proposal' \in [Versions -> ProposalRows]
          /\ \A w \in Versions : (proposal'[w].status = "deploying") = (proposal'[w].lease # "none")
      BY <2>1, <2>2, StatusTyped DEF Statuses
    <3>2. QED
      BY <3>1, <2>1, <1>7, CheckTyped DEF UpdatesTypeOK, BindMessage
  <2>3. CASE UNCHANGED proposal
    BY <2>3, <2>1, <1>7, CheckTyped DEF UpdatesTypeOK, BindMessage
  <2>4. QED
    BY <2>2, <2>3, <1>7 DEF BindMessage
<1>8. ASSUME NEW c \in Checkers, RevealButtons(c) PROVE UpdatesTypeOK'
  <2>1. breaks' \in 0..MaxUpdateFaults
    BY <1>8, BreakTyped DEF RevealButtons, UpdatesTypeOK
  <2>2. check[c].target \in Versions
    BY <1>8 DEF UpdatesTypeOK, RevealButtons
  <2>3. offered' \subseteq Versions
    BY <1>8, <2>2 DEF UpdatesTypeOK, RevealButtons
  <2>4. QED
    BY <2>1, <2>3, <1>8, CheckTyped DEF UpdatesTypeOK, RevealButtons
<1>9. ASSUME NEW c \in Checkers, MarkDeliveryFailure(c) PROVE UpdatesTypeOK'
  <2>1. check[c].at # "idle" /\ check[c].target \in Versions
    BY <1>9 DEF MarkDeliveryFailure, UpdatesTypeOK
  <2>2. CASE StatusBecomes(check[c].target, "undelivered") /\ OpenOffer(check[c].target)
    <3>1. /\ proposal' \in [Versions -> ProposalRows]
          /\ \A w \in Versions : (proposal'[w].status = "deploying") = (proposal'[w].lease # "none")
      BY <2>1, <2>2, StatusTyped DEF Statuses, OpenOffer
    <3>2. QED
      BY <3>1, <2>1, <1>9, CheckTyped DEF UpdatesTypeOK, MarkDeliveryFailure
  <2>3. CASE UNCHANGED proposal
    BY <2>3, <2>1, <1>9, CheckTyped DEF UpdatesTypeOK, MarkDeliveryFailure
  <2>4. QED
    BY <2>2, <2>3, <1>9 DEF MarkDeliveryFailure
<1>10. ASSUME NEW c \in Checkers, CheckDies(c) PROVE UpdatesTypeOK'
  <2>1. breaks' \in 0..MaxUpdateFaults
    BY <1>10, BreakTyped DEF CheckDies, UpdatesTypeOK
  <2>2. QED
    BY <2>1, <1>10, CheckTyped DEF UpdatesTypeOK, CheckDies
<1>11. ASSUME NEW v \in Versions, NEW who \in Owners, NEW decision \in {"approved", "declined"},
              ClaimDecision(v, who, decision)
       PROVE UpdatesTypeOK'
  <2>1. proposal[v].status = "pending" /\ proposal[v] \in ProposalRows
    BY <1>11 DEF ClaimDecision, PressAllowed, UpdatesTypeOK
  <2>2. CASE StatusBecomes(v, "superseded") /\ UNCHANGED consent
    <3>1. /\ proposal' \in [Versions -> ProposalRows]
          /\ \A w \in Versions : (proposal'[w].status = "deploying") = (proposal'[w].lease # "none")
      BY <2>1, <2>2, StatusTyped DEF Statuses
    <3>2. QED
      BY <3>1, <2>2, <1>11 DEF UpdatesTypeOK, ClaimDecision
  <2>3. ASSUME NEW rank \in Nat,
               proposal' = [proposal EXCEPT ![v].status = decision, ![v].rank = rank],
               consent' = [consent EXCEPT ![v] = IF decision = "approved" THEN who ELSE "nobody"]
        PROVE UpdatesTypeOK'
    <3>1. [proposal[v] EXCEPT !.status = decision, !.rank = rank] \in ProposalRows
      BY <2>1, RowTyped DEF Statuses
    <3>2. proposal' = [proposal EXCEPT ![v] = [proposal[v] EXCEPT !.status = decision, !.rank = rank]]
      BY <2>3 DEF UpdatesTypeOK
    <3>3. /\ [proposal[v] EXCEPT !.status = decision, !.rank = rank].status = decision
          /\ [proposal[v] EXCEPT !.status = decision, !.rank = rank].lease = proposal[v].lease
      BY <2>1 DEF ProposalRows
    <3>4. /\ proposal' \in [Versions -> ProposalRows]
          /\ \A w \in Versions : (proposal'[w].status = "deploying") = (proposal'[w].lease # "none")
      BY <3>1, <3>2, <3>3, <2>1 DEF UpdatesTypeOK
    <3>5. consent' \in [Versions -> Owners \cup {"nobody"}]
      BY <2>3 DEF UpdatesTypeOK
    <3>6. QED
      BY <3>4, <3>5, <1>11 DEF UpdatesTypeOK, ClaimDecision
  <2>4. QED
    BY <2>2, <2>3, <1>11, RankIsNat DEF ClaimDecision
<1>12. CASE StartController
  <2>1. CASE ReconcileStale /\ UNCHANGED deploy
    <3>1. ASSUME NEW v \in Versions
          PROVE  /\ proposal'[v] \in ProposalRows
                 /\ (proposal'[v].status = "deploying") = (proposal'[v].lease # "none")
      <4>1. proposal[v] \in ProposalRows
        BY DEF UpdatesTypeOK
      <4>2. CASE Stale(v)
        <5>1. proposal'[v] = [proposal[v] EXCEPT !.status = "ambiguous", !.lease = "none"]
          BY <2>1, <4>2 DEF ReconcileStale
        <5>2. [proposal[v] EXCEPT !.status = "ambiguous", !.lease = "none"] \in ProposalRows
          BY <4>1, RowTyped DEF Statuses
        <5>3. QED
          BY <5>1, <5>2, <4>1 DEF ProposalRows
      <4>3. CASE ~Stale(v)
        BY <2>1, <4>3 DEF ReconcileStale, UpdatesTypeOK
      <4>4. QED
        BY <4>2, <4>3
    <3>2. proposal' \in [Versions -> ProposalRows]
      BY <3>1, <2>1 DEF ReconcileStale
    <3>3. QED
      BY <3>1, <3>2, <2>1, <1>12 DEF UpdatesTypeOK, StartController
  <2>2. ASSUME NEW v \in Versions,
               proposal' = [proposal EXCEPT ![v].status = "deploying", ![v].lease = "live"],
               deploy' = [NoDeploy EXCEPT !.at = "claimed", !.target = v,
                                          !.found = site.up /\ site.runs = site.link]
        PROVE UpdatesTypeOK'
    <3>1. proposal[v] \in ProposalRows
      BY DEF UpdatesTypeOK
    <3>2. [proposal[v] EXCEPT !.status = "deploying", !.lease = "live"] \in ProposalRows
      BY <3>1, RowTyped DEF Statuses
    <3>3. proposal' = [proposal EXCEPT ![v] = [proposal[v] EXCEPT !.status = "deploying", !.lease = "live"]]
      BY <2>2 DEF UpdatesTypeOK
    <3>4. /\ [proposal[v] EXCEPT !.status = "deploying", !.lease = "live"].status = "deploying"
          /\ [proposal[v] EXCEPT !.status = "deploying", !.lease = "live"].lease = "live"
      BY <3>1 DEF ProposalRows
    <3>5. /\ proposal' \in [Versions -> ProposalRows]
          /\ \A w \in Versions : (proposal'[w].status = "deploying") = (proposal'[w].lease # "none")
      BY <3>2, <3>3, <3>4 DEF UpdatesTypeOK
    <3>6. (site.up /\ site.runs = site.link) \in BOOLEAN /\ v \in 0..LastVersion
      BY VersionsAreNat
    <3>7. deploy' \in Deploys /\ deploy'.target = v
      BY <2>2, <3>6 DEF NoDeploy, Deploys, Stages
    <3>8. QED
      BY <3>5, <3>7, <1>12 DEF UpdatesTypeOK, StartController
  <2>3. QED
    BY <2>1, <2>2, <1>12 DEF StartController
<1>13. CASE ValidateRelease
  <2>1. deploy' \in Deploys /\ deploy'.target = deploy.target
    BY <1>13, StageTyped DEF UpdatesTypeOK, ValidateRelease, Stages
  <2>2. QED
    BY <2>1, <1>13 DEF UpdatesTypeOK, ValidateRelease
<1>14. CASE DumpDatabase
  <2>1. deploy' \in Deploys /\ deploy'.target = deploy.target
    BY <1>14, StageTyped DEF UpdatesTypeOK, DumpDatabase, Stages
  <2>2. QED
    BY <2>1, <1>14 DEF UpdatesTypeOK, DumpDatabase
<1>15. CASE StopServices
  <2> PICK stage \in Stages : deploy' = [deploy EXCEPT !.at = stage, !.stopped = TRUE]
    BY <1>15 DEF StopServices, Stages
  <2> deploy \in Deploys /\ deploy.target \in Versions
    BY <1>15 DEF UpdatesTypeOK, StopServices
  <2>1. deploy' \in Deploys /\ deploy'.target = deploy.target /\ deploy.target \in Versions
    BY DeployTyped
  <2>2. PICK up \in BOOLEAN : site' = [site EXCEPT !.up = up] /\ check' = Surviving(up)
    BY <1>15 DEF UpdatesTypeOK, StopServices
  <2>3. breaks' \in 0..MaxUpdateFaults
    BY <1>15, BreakTyped DEF StopServices, UpdatesTypeOK
  <2>4. /\ check' \in [Checkers -> Checks]
        /\ \A d \in Checkers : check'[d].at # "idle" => check'[d].target \in Versions
    BY <2>2, SurvivingTyped
  <2>5. site' \in [up : BOOLEAN, runs : 0..LastVersion, link : 0..LastVersion]
    BY <2>2 DEF UpdatesTypeOK
  <2>6. QED
    BY <2>1, <2>3, <2>4, <2>5, <1>15 DEF UpdatesTypeOK, StopServices
<1>16. CASE BeginMigration
  <2>1. deploy' \in Deploys /\ deploy'.target = deploy.target /\ deploy.target \in Versions
    BY <1>16, DeployTyped DEF UpdatesTypeOK, BeginMigration, Stages
  <2>2. begun' \in [Versions -> 0..2]
    BY <1>16, <2>1 DEF UpdatesTypeOK, BeginMigration
  <2>3. QED
    BY <2>1, <2>2, <1>16 DEF UpdatesTypeOK, BeginMigration
<1>17. CASE StartCandidate
  <2>1. deploy' \in Deploys /\ deploy'.target = deploy.target /\ deploy.target \in Versions
    BY <1>17, StageTyped DEF UpdatesTypeOK, StartCandidate, Stages
  <2>2. PICK up \in BOOLEAN : site' = [site EXCEPT !.up = up, !.runs = deploy.target]
    BY <1>17 DEF StartCandidate
  <2>3. site' \in [up : BOOLEAN, runs : 0..LastVersion, link : 0..LastVersion]
    BY <2>1, <2>2, VersionsAreNat DEF UpdatesTypeOK
  <2>4. breaks' \in 0..MaxUpdateFaults
    BY <1>17, BreakTyped DEF StartCandidate, UpdatesTypeOK
  <2>5. QED
    BY <2>1, <2>3, <2>4, <1>17 DEF UpdatesTypeOK, StartCandidate
<1>18. CASE PromoteCandidate
  <2>1. deploy' \in Deploys /\ deploy'.target = deploy.target /\ deploy.target \in Versions
    BY <1>18, StageTyped DEF UpdatesTypeOK, PromoteCandidate, Stages
  <2>2. site' \in [up : BOOLEAN, runs : 0..LastVersion, link : 0..LastVersion]
    BY <1>18, <2>1, VersionsAreNat DEF UpdatesTypeOK, PromoteCandidate
  <2>3. QED
    BY <2>1, <2>2, <1>18 DEF UpdatesTypeOK, PromoteCandidate
<1>19. CASE RecordSuccess
  <2>1. deploy.target \in Versions
    BY <1>19 DEF UpdatesTypeOK, RecordSuccess
  <2>2. CASE ClosedAs(deploy.target, "succeeded") /\ deploy' = NoDeploy
    <3>1. NoDeploy \in Deploys /\ NoDeploy.at = "idle"
      BY VersionsAreNat DEF NoDeploy, Deploys, Stages
    <3>2. /\ proposal' \in [Versions -> ProposalRows]
          /\ \A w \in Versions : (proposal'[w].status = "deploying") = (proposal'[w].lease # "none")
      BY <2>1, <2>2, ClosedTyped DEF Statuses
    <3>3. QED
      BY <3>1, <3>2, <2>2, <1>19 DEF UpdatesTypeOK, RecordSuccess
  <2>3. CASE StageIs("failing") /\ UNCHANGED proposal
    <3>1. deploy' \in Deploys /\ deploy'.target = deploy.target
      BY <2>3, StageTyped DEF Stages
    <3>2. QED
      BY <3>1, <2>1, <2>3, <1>19 DEF UpdatesTypeOK, RecordSuccess
  <2>4. QED
    BY <2>2, <2>3, <1>19 DEF RecordSuccess
<1>20. CASE StepFails
  <2>1. deploy' \in Deploys /\ deploy'.target = deploy.target /\ deploy.target \in Versions
    BY <1>20, StageTyped DEF UpdatesTypeOK, StepFails, Stages
  <2>2. breaks' \in 0..MaxUpdateFaults
    BY <1>20, BreakTyped DEF StepFails, UpdatesTypeOK
  <2>3. QED
    BY <2>1, <2>2, <1>20 DEF UpdatesTypeOK, StepFails
<1>21. CASE HandleFailure
  <2>1. deploy' \in Deploys /\ deploy'.target = deploy.target /\ deploy.target \in Versions
    BY <1>21, VerdictTyped DEF UpdatesTypeOK, HandleFailure, VolumesRemoved
  <2>2. breaks' \in 0..MaxUpdateFaults
    BY <1>21, BreakTyped DEF HandleFailure, UpdatesTypeOK, VolumesRemoved
  <2>3. site' \in [up : BOOLEAN, runs : 0..LastVersion, link : 0..LastVersion]
    BY <1>21 DEF UpdatesTypeOK, HandleFailure
  <2>4. (site.up /\ site.runs = site.link) \in BOOLEAN
    OBVIOUS
  <2>5. UNCHANGED check \/ \E up \in BOOLEAN : check' = Surviving(up)
    BY <1>21, <2>4 DEF HandleFailure
  <2>6. /\ check' \in [Checkers -> Checks]
        /\ \A d \in Checkers : check'[d].at # "idle" => check'[d].target \in Versions
    BY <2>5, SurvivingTyped DEF UpdatesTypeOK
  <2>7. QED
    BY <2>1, <2>2, <2>3, <2>6, <1>21 DEF UpdatesTypeOK, HandleFailure
<1>22. CASE ReportFailure
  <2>1. deploy.target \in Versions /\ deploy.verdict \in Statuses \ {"deploying"}
    BY <1>22 DEF UpdatesTypeOK, ReportFailure, Deploys, Statuses
  <2>2. NoDeploy \in Deploys /\ NoDeploy.at = "idle"
    BY VersionsAreNat DEF NoDeploy, Deploys, Stages
  <2>3. /\ proposal' \in [Versions -> ProposalRows]
        /\ \A w \in Versions : (proposal'[w].status = "deploying") = (proposal'[w].lease # "none")
    <3>1. CASE ClosedAs(deploy.target, deploy.verdict)
      BY <3>1, <2>1, ClosedTyped
    <3>2. CASE UNCHANGED proposal
      BY <3>2 DEF UpdatesTypeOK
    <3>3. QED
      BY <3>1, <3>2, <1>22 DEF ReportFailure
  <2>4. QED
    BY <2>2, <2>3, <1>22 DEF UpdatesTypeOK, ReportFailure
<1>23. CASE ControllerDies
  <2>1. NoDeploy \in Deploys /\ NoDeploy.at = "idle"
    BY VersionsAreNat DEF NoDeploy, Deploys, Stages
  <2>2. breaks' \in 0..MaxUpdateFaults
    BY <1>23, BreakTyped DEF ControllerDies, UpdatesTypeOK
  <2>3. QED
    BY <2>1, <2>2, <1>23 DEF UpdatesTypeOK, ControllerDies
<1>24. ASSUME NEW v \in Versions, LeaseRunsOut(v) PROVE UpdatesTypeOK'
  <2>1. proposal[v] \in ProposalRows /\ proposal[v].status = "deploying"
    BY <1>24 DEF UpdatesTypeOK, LeaseRunsOut, HoldsRelease
  <2>2. [proposal[v] EXCEPT !.lease = "expired"] \in ProposalRows
    BY <2>1, RowTyped DEF ProposalRows
  <2>3. proposal' = [proposal EXCEPT ![v] = [proposal[v] EXCEPT !.lease = "expired"]]
    BY <1>24 DEF LeaseRunsOut, UpdatesTypeOK
  <2>4. /\ [proposal[v] EXCEPT !.lease = "expired"].status = "deploying"
        /\ [proposal[v] EXCEPT !.lease = "expired"].lease = "expired"
    BY <2>1 DEF ProposalRows
  <2>5. /\ proposal' \in [Versions -> ProposalRows]
        /\ \A w \in Versions : (proposal'[w].status = "deploying") = (proposal'[w].lease # "none")
    BY <2>2, <2>3, <2>4 DEF UpdatesTypeOK
  <2>6. QED
    BY <2>5, <1>24 DEF UpdatesTypeOK, LeaseRunsOut
<1>25. QED
  BY <1>1, <1>2, <1>3, <1>4, <1>5, <1>6, <1>7, <1>8, <1>9, <1>10, <1>11, <1>12, <1>13, <1>14, <1>15,
     <1>16, <1>17, <1>18, <1>19, <1>20, <1>21, <1>22, <1>23, <1>24 DEF UpdatesNext, ControllerStep

-----------------------------------------------------------------------------
(* The invariant. *)

LEMMA StatusEffect ==
  ASSUME UpdatesTypeOK, NEW v \in Versions, NEW status, StatusBecomes(v, status), NEW w \in Versions
  PROVE  /\ w # v => proposal'[w] = proposal[w]
         /\ proposal'[v].status = status /\ proposal'[v].for = proposal[v].for
         /\ proposal'[v].lease = proposal[v].lease
<1>1. /\ proposal' = [proposal EXCEPT ![v] = [proposal[v] EXCEPT !.status = status]]
      /\ proposal[v] \in ProposalRows
  BY DEF UpdatesTypeOK, StatusBecomes
<1>2. QED
  BY <1>1 DEF UpdatesTypeOK, ProposalRows

LEMMA ClosedEffect ==
  ASSUME UpdatesTypeOK, NEW v \in Versions, NEW status, ClosedAs(v, status), NEW w \in Versions
  PROVE  /\ w # v => proposal'[w] = proposal[w]
         /\ proposal'[v].status = status /\ proposal'[v].for = proposal[v].for
<1>1. /\ proposal' = [proposal EXCEPT ![v] = [proposal[v] EXCEPT !.status = status, !.lease = "none"]]
      /\ proposal[v] \in ProposalRows
  BY DEF UpdatesTypeOK, ClosedAs
<1>2. QED
  BY <1>1 DEF UpdatesTypeOK, ProposalRows

\* The statuses the controller has nothing to do with.
Early == {"none", "preparing", "pending", "declined", "undelivered", "superseded"}
QuietFor(v) == \/ proposal'[v] = proposal[v]
               \/ proposal[v].status \in Early /\ proposal'[v].status \in Early

\* The checks, and presses that do not approve, leave the invariant alone.
LEMMA QuietStep ==
  ASSUME UpdatesTypeOK, UpdatesInv, UNCHANGED <<deploy, site, begun, consent>>,
         \A v \in Versions : QuietFor(v)
  PROVE  UpdatesInv'
<1>1. LeasedToController'
  BY DEF UpdatesInv, LeasedToController, Working, HoldsRelease, UpdatesTypeOK, QuietFor, Early
<1>2. ConsentStands'
  <2>1. ASSUME NEW v \in Versions,
               proposal'[v].status \in {"approved", "deploying", "succeeded", "failed", "ambiguous"}
        PROVE  consent'[v] = proposal'[v].for /\ consent'[v] # "nobody"
    <3>1. proposal'[v] = proposal[v]
      BY <2>1 DEF QuietFor, Early
    <3>2. QED
      BY <2>1, <3>1 DEF UpdatesInv, ConsentStands
  <2>2. QED
    BY <2>1 DEF ConsentStands
<1>3. BegunIsPast'
  <2>1. ASSUME NEW v \in Versions
        PROVE  /\ begun'[v] > 0 => proposal'[v].status \in {"deploying", "succeeded", "ambiguous"}
               /\ begun'[v] <= 1
    <3>1. begun[v] > 0 => proposal[v].status \notin Early
      BY DEF UpdatesInv, BegunIsPast, Early
    <3>2. QED
      BY <3>1 DEF UpdatesInv, BegunIsPast, QuietFor
  <2>2. QED
    BY <2>1 DEF UpdatesInv, BegunIsPast, Working
<1>4. FlagsTellStage' /\ UpgradesOnly' /\ FoundStands'
  BY DEF UpdatesInv, FlagsTellStage, UpgradesOnly, FoundStands
<1>5. QED
  BY <1>1, <1>2, <1>3, <1>4 DEF UpdatesInv

LEMMA CheckIsQuiet ==
  ASSUME UpdatesTypeOK, NEW c \in Checkers, NEW v \in Versions,
         \/ ReadRelease(c) \/ PrepareProposal(c) \/ PlaceMessage(c) \/ BindMessage(c)
         \/ RevealButtons(c) \/ MarkDeliveryFailure(c) \/ CheckDies(c)
  PROVE  QuietFor(v)
<1>1. CASE ReadRelease(c) \/ PlaceMessage(c) \/ RevealButtons(c) \/ CheckDies(c)
  BY <1>1 DEF QuietFor, ReadRelease, PlaceMessage, RevealButtons, CheckDies
<1>2. CASE PrepareProposal(c)
  <2>1. CASE UNCHANGED proposal
    BY <2>1 DEF QuietFor
  <2>2. CASE /\ proposal[check[c].target].status = "none"
             /\ proposal' = [w \in Versions |->
                 CASE w = check[c].target -> [NoProposal EXCEPT !.status = "preparing", !.for = check[c].owner]
                   [] w # check[c].target /\ OpenOffer(w) -> [proposal[w] EXCEPT !.status = "superseded"]
                   [] OTHER -> proposal[w]]
    <3>1. CASE v = check[c].target
      BY <2>2, <3>1 DEF QuietFor, Early, NoProposal
    <3>2. CASE v # check[c].target /\ OpenOffer(v)
      <4>1. proposal'[v] = [proposal[v] EXCEPT !.status = "superseded"] /\ proposal[v] \in ProposalRows
        BY <2>2, <3>2 DEF UpdatesTypeOK
      <4>2. proposal'[v].status = "superseded"
        BY <4>1 DEF ProposalRows
      <4>3. QED
        BY <4>2, <3>2 DEF QuietFor, Early, OpenOffer
    <3>3. CASE v # check[c].target /\ ~OpenOffer(v)
      BY <2>2, <3>3 DEF QuietFor
    <3>4. QED
      BY <3>1, <3>2, <3>3
  <2>3. QED
    BY <2>1, <2>2, <1>2 DEF PrepareProposal
<1>3. CASE BindMessage(c)
  <2>1. check[c].target \in Versions
    BY <1>3 DEF BindMessage, UpdatesTypeOK
  <2>2. CASE StatusBecomes(check[c].target, "pending") /\ proposal[check[c].target].status = "preparing"
    BY <2>1, <2>2, StatusEffect DEF QuietFor, Early
  <2>3. QED
    BY <2>2, <1>3 DEF BindMessage, QuietFor
<1>4. CASE MarkDeliveryFailure(c)
  <2>1. check[c].target \in Versions
    BY <1>4 DEF MarkDeliveryFailure, UpdatesTypeOK
  <2>2. CASE StatusBecomes(check[c].target, "undelivered") /\ OpenOffer(check[c].target)
    BY <2>1, <2>2, StatusEffect DEF QuietFor, Early, OpenOffer
  <2>3. QED
    BY <2>2, <1>4 DEF MarkDeliveryFailure, QuietFor
<1>5. QED
  BY <1>1, <1>2, <1>3, <1>4

LEMMA PressKeepsInv ==
  ASSUME UpdatesTypeOK, UpdatesInv, NEW v \in Versions, NEW who \in Owners,
         NEW decision \in {"approved", "declined"}, ClaimDecision(v, who, decision)
  PROVE  UpdatesInv'
<1>0. proposal[v].status = "pending" /\ who = proposal[v].for /\ proposal[v] \in ProposalRows
  BY DEF ClaimDecision, PressAllowed, UpdatesTypeOK
<1>1. CASE StatusBecomes(v, "superseded") /\ UNCHANGED consent
  <2>1. \A w \in Versions : QuietFor(w)
    BY <1>0, <1>1, StatusEffect DEF QuietFor, Early
  <2>2. QED
    BY <2>1, <1>1, QuietStep DEF ClaimDecision
<1>2. ASSUME NEW rank \in Nat,
             proposal' = [proposal EXCEPT ![v].status = decision, ![v].rank = rank],
             consent' = [consent EXCEPT ![v] = IF decision = "approved" THEN who ELSE "nobody"]
      PROVE  UpdatesInv'
  <2>1. /\ proposal'[v].status = decision /\ proposal'[v].for = who
        /\ \A w \in Versions : w # v => proposal'[w] = proposal[w] /\ consent'[w] = consent[w]
        /\ decision = "approved" => consent'[v] = who
    BY <1>0, <1>2 DEF UpdatesTypeOK, ProposalRows
  <2>2. begun[v] = 0
    BY <1>0 DEF UpdatesInv, BegunIsPast, UpdatesTypeOK
  <2>3. UNCHANGED <<deploy, site, begun>>
    BY DEF ClaimDecision
  <2>4. LeasedToController'
    <3>1. Working => deploy.target # v
      BY <1>0 DEF UpdatesInv, LeasedToController, HoldsRelease
    <3>2. Working => deploy.target \in Versions
      BY DEF Working, UpdatesTypeOK
    <3>3. QED
      BY <2>1, <2>3, <3>1, <3>2 DEF UpdatesInv, LeasedToController, HoldsRelease, Working
  <2>5. ConsentStands'
    <3>1. ASSUME NEW w \in Versions,
                 proposal'[w].status \in {"approved", "deploying", "succeeded", "failed", "ambiguous"}
          PROVE  consent'[w] = proposal'[w].for /\ consent'[w] # "nobody"
      <4>1. CASE w = v
        BY <4>1, <3>1, <2>1, UpdateConstants
      <4>2. CASE w # v
        BY <4>2, <3>1, <2>1 DEF UpdatesInv, ConsentStands
      <4>3. QED
        BY <4>1, <4>2
    <3>2. QED
      BY <3>1 DEF ConsentStands
  <2>6. BegunIsPast'
    <3>1. ASSUME NEW w \in Versions
          PROVE  /\ begun'[w] > 0 => proposal'[w].status \in {"deploying", "succeeded", "ambiguous"}
                 /\ begun'[w] <= 1
      BY <2>1, <2>2, <2>3 DEF UpdatesInv, BegunIsPast
    <3>2. QED
      BY <3>1, <2>3 DEF UpdatesInv, BegunIsPast, Working
  <2>7. FlagsTellStage' /\ UpgradesOnly' /\ FoundStands'
    BY <2>3 DEF UpdatesInv, FlagsTellStage, UpgradesOnly, FoundStands
  <2>8. QED
    BY <2>4, <2>5, <2>6, <2>7 DEF UpdatesInv
<1>3. QED
  BY <1>1, <1>2, RankIsNat DEF ClaimDecision

SameAttempt == /\ deploy'.target = deploy.target /\ deploy'.migrated = deploy.migrated
               /\ deploy'.stopped = deploy.stopped /\ deploy'.found = deploy.found

LEMMA StageEffect ==
  ASSUME UpdatesTypeOK, NEW stage, StageIs(stage)
  PROVE  deploy'.at = stage /\ SameAttempt
BY DEF UpdatesTypeOK, Deploys, StageIs, SameAttempt

LEMMA VerdictEffect ==
  ASSUME UpdatesTypeOK, NEW verdict, VerdictIs(verdict)
  PROVE  deploy'.at = "reporting" /\ deploy'.verdict = verdict /\ SameAttempt
BY DEF UpdatesTypeOK, Deploys, VerdictIs, SameAttempt

\* The row of the release stays leased while the controller only moves on.
LEMMA RowStays ==
  ASSUME UpdatesInv, UNCHANGED <<proposal, begun, consent>>, Working,
         deploy'.target = deploy.target, deploy'.migrated = deploy.migrated
  PROVE  LeasedToController' /\ ConsentStands' /\ BegunIsPast'
<1>1. LeasedToController'
  BY DEF UpdatesInv, LeasedToController, HoldsRelease, Working
<1>2. ConsentStands'
  BY DEF UpdatesInv, ConsentStands
<1>3. BegunIsPast'
  BY DEF UpdatesInv, BegunIsPast, Working
<1>4. QED
  BY <1>1, <1>2, <1>3

\* One of the preparing commands succeeds or any command fails.
LEMMA MoveKeepsInv ==
  ASSUME UpdatesTypeOK, UpdatesInv, ValidateRelease \/ DumpDatabase \/ StepFails
  PROVE  UpdatesInv'
<1>1. Working /\ UNCHANGED <<proposal, begun, consent, site>>
  BY DEF ValidateRelease, DumpDatabase, StepFails, Working
<1>2. CASE StageIs("failing") /\ deploy.at \notin {"failing", "reporting"}
  <2>1. deploy'.at = "failing" /\ SameAttempt
    BY <1>2, StageEffect
  <2>2. FoundStands'
    <3>1. deploy.at \in {"claimed", "validated", "dumped"} \/ deploy.stopped
      BY <1>1, <1>2 DEF UpdatesInv, FlagsTellStage, Working, UpdatesTypeOK, Deploys, Stages
    <3>2. QED
      BY <1>1, <2>1, <3>1 DEF UpdatesInv, FoundStands, SameAttempt
  <2>3. FlagsTellStage' /\ UpgradesOnly'
    BY <2>1 DEF FlagsTellStage, UpgradesOnly
  <2>4. QED
    BY <1>1, <2>1, <2>2, <2>3, RowStays DEF UpdatesInv, SameAttempt
<1>3. CASE StageIs("validated") /\ deploy.at = "claimed" /\ deploy.target > site.link
  <2>1. deploy'.at = "validated" /\ SameAttempt
    BY <1>3, StageEffect
  <2>2. FlagsTellStage' /\ UpgradesOnly' /\ FoundStands'
    BY <1>1, <1>3, <2>1 DEF UpdatesInv, FlagsTellStage, UpgradesOnly, FoundStands, SameAttempt
  <2>3. QED
    BY <1>1, <2>1, <2>2, RowStays DEF UpdatesInv, SameAttempt
<1>4. CASE StageIs("dumped") /\ deploy.at = "validated"
  <2>1. deploy'.at = "dumped" /\ SameAttempt
    BY <1>4, StageEffect
  <2>2. FlagsTellStage' /\ UpgradesOnly' /\ FoundStands'
    BY <1>1, <1>4, <2>1 DEF UpdatesInv, FlagsTellStage, UpgradesOnly, FoundStands, SameAttempt
  <2>3. QED
    BY <1>1, <2>1, <2>2, RowStays DEF UpdatesInv, SameAttempt
<1>5. QED
  BY <1>2, <1>3, <1>4 DEF ValidateRelease, DumpDatabase, StepFails

LEMMA StopKeepsInv == UpdatesTypeOK /\ UpdatesInv /\ StopServices => UpdatesInv'
<1> SUFFICES ASSUME UpdatesTypeOK, UpdatesInv, StopServices PROVE UpdatesInv'
  OBVIOUS
<1>1. PICK stage \in {"stopped", "failing"} : deploy' = [deploy EXCEPT !.at = stage, !.stopped = TRUE]
  BY DEF StopServices
<1>2. /\ deploy'.at = stage /\ deploy'.stopped /\ deploy'.target = deploy.target
      /\ deploy'.migrated = deploy.migrated /\ deploy'.found = deploy.found
  BY <1>1 DEF UpdatesTypeOK, Deploys
<1>3. deploy.at = "dumped" /\ UNCHANGED <<proposal, begun, consent>> /\ site'.link = site.link
  BY DEF StopServices, UpdatesTypeOK
<1>4. FlagsTellStage' /\ UpgradesOnly' /\ FoundStands'
  BY <1>2, <1>3 DEF UpdatesInv, FlagsTellStage, UpgradesOnly, FoundStands
<1>5. QED
  BY <1>2, <1>3, <1>4, RowStays DEF UpdatesInv, Working

LEMMA BeginKeepsInv == UpdatesTypeOK /\ UpdatesInv /\ BeginMigration => UpdatesInv'
<1> SUFFICES ASSUME UpdatesTypeOK, UpdatesInv, BeginMigration PROVE UpdatesInv'
  OBVIOUS
<1>1. /\ deploy'.at = "starting" /\ deploy'.migrated /\ deploy'.target = deploy.target
      /\ deploy'.stopped = deploy.stopped /\ deploy'.found = deploy.found
  BY DEF BeginMigration, UpdatesTypeOK, Deploys
<1>2. /\ deploy.at = "stopped" /\ UNCHANGED <<proposal, consent, site>>
      /\ deploy.target \in Versions /\ begun[deploy.target] = 0
  BY DEF BeginMigration, UpdatesTypeOK, UpdatesInv, BegunIsPast, FlagsTellStage, Working
<1>3. /\ begun'[deploy.target] = 1
      /\ \A v \in Versions : v # deploy.target => begun'[v] = begun[v]
  BY <1>2 DEF BeginMigration, UpdatesTypeOK
<1>4. proposal[deploy.target].status = "deploying"
  BY <1>2 DEF UpdatesInv, LeasedToController, HoldsRelease, Working
<1>5. BegunIsPast'
  <2>1. ASSUME NEW v \in Versions
        PROVE  /\ begun'[v] > 0 => proposal'[v].status \in {"deploying", "succeeded", "ambiguous"}
               /\ begun'[v] <= 1
    BY <1>2, <1>3, <1>4 DEF UpdatesInv, BegunIsPast
  <2>2. QED
    BY <2>1, <1>1 DEF BegunIsPast
<1>6. LeasedToController' /\ ConsentStands'
  BY <1>1, <1>2 DEF UpdatesInv, LeasedToController, ConsentStands, HoldsRelease, Working
<1>7. FlagsTellStage' /\ UpgradesOnly' /\ FoundStands'
  BY <1>1, <1>2 DEF UpdatesInv, FlagsTellStage, UpgradesOnly, FoundStands
<1>8. QED
  BY <1>5, <1>6, <1>7 DEF UpdatesInv

LEMMA InstallKeepsInv ==
  UpdatesTypeOK /\ UpdatesInv /\ (StartCandidate \/ PromoteCandidate) => UpdatesInv'
<1> SUFFICES ASSUME UpdatesTypeOK, UpdatesInv, StartCandidate \/ PromoteCandidate PROVE UpdatesInv'
  OBVIOUS
<1>1. PICK stage \in {"healthy", "failing", "promoted"} : StageIs(stage)
  BY DEF StartCandidate, PromoteCandidate
<1>2. deploy'.at = stage /\ SameAttempt
  BY <1>1, StageEffect
<1>3. /\ Working /\ UNCHANGED <<proposal, begun, consent>>
      /\ deploy.stopped /\ deploy.migrated
  BY DEF StartCandidate, PromoteCandidate, Working, UpdatesInv, FlagsTellStage
<1>4. stage = "healthy" => deploy.at = "starting" /\ site'.link = site.link
  BY <1>2 DEF StartCandidate, PromoteCandidate, StageIs, UpdatesTypeOK, Deploys
<1>5. UpgradesOnly'
  BY <1>2, <1>4 DEF UpdatesInv, UpgradesOnly, SameAttempt
<1>6. FlagsTellStage' /\ FoundStands'
  BY <1>2, <1>3 DEF FlagsTellStage, FoundStands, SameAttempt
<1>7. QED
  BY <1>2, <1>3, <1>5, <1>6, RowStays DEF UpdatesInv, SameAttempt

LEMMA StartKeepsInv == UpdatesTypeOK /\ UpdatesInv /\ StartController => UpdatesInv'
<1> SUFFICES ASSUME UpdatesTypeOK, UpdatesInv, StartController PROVE UpdatesInv'
  OBVIOUS
<1>0. deploy.at = "idle" /\ UNCHANGED <<begun, consent, site>>
  BY DEF StartController
<1>1. CASE ReconcileStale /\ UNCHANGED deploy
  <2>1. ASSUME NEW v \in Versions
        PROVE  \/ proposal'[v] = proposal[v]
               \/ /\ proposal[v].status = "deploying" /\ proposal'[v].status = "ambiguous"
                  /\ proposal'[v].for = proposal[v].for
    <3>1. CASE Stale(v)
      <4>1. /\ proposal'[v] = [proposal[v] EXCEPT !.status = "ambiguous", !.lease = "none"]
            /\ proposal[v] \in ProposalRows
        BY <1>1, <3>1 DEF ReconcileStale, UpdatesTypeOK
      <4>2. proposal[v].status = "deploying"
        BY <3>1 DEF Stale, UpdatesTypeOK
      <4>3. QED
        BY <4>1, <4>2 DEF ProposalRows
    <3>2. CASE ~Stale(v)
      BY <1>1, <3>2 DEF ReconcileStale
    <3>3. QED
      BY <3>1, <3>2
  <2>2. ConsentStands' /\ BegunIsPast'
    BY <1>0, <1>1, <2>1 DEF UpdatesInv, ConsentStands, BegunIsPast, Working
  <2>3. LeasedToController' /\ FlagsTellStage' /\ UpgradesOnly' /\ FoundStands'
    BY <1>0, <1>1 DEF LeasedToController, FlagsTellStage, UpgradesOnly, FoundStands, Working
  <2>4. QED
    BY <2>2, <2>3 DEF UpdatesInv
<1>2. ASSUME NEW v \in Versions, InstallsFirst(v),
             proposal' = [proposal EXCEPT ![v].status = "deploying", ![v].lease = "live"],
             deploy' = [NoDeploy EXCEPT !.at = "claimed", !.target = v,
                                        !.found = site.up /\ site.runs = site.link]
      PROVE  UpdatesInv'
  <2>1. /\ deploy'.at = "claimed" /\ deploy'.target = v /\ ~deploy'.migrated
        /\ deploy'.found = (site.up /\ site.runs = site.link)
    BY <1>2 DEF NoDeploy
  <2>2. /\ proposal'[v].status = "deploying" /\ proposal'[v].lease = "live"
        /\ proposal'[v].for = proposal[v].for
        /\ \A w \in Versions : w # v => proposal'[w] = proposal[w]
    BY <1>2 DEF UpdatesTypeOK, ProposalRows
  <2>3. proposal[v].status = "approved"
    BY <1>2 DEF InstallsFirst, MayInstall
  <2>4. begun[v] = 0
    BY <2>3 DEF UpdatesInv, BegunIsPast, UpdatesTypeOK
  <2>5. LeasedToController'
    BY <2>1, <2>2 DEF LeasedToController, HoldsRelease
  <2>6. ConsentStands'
    BY <1>0, <2>2, <2>3 DEF UpdatesInv, ConsentStands
  <2>7. BegunIsPast'
    BY <1>0, <2>1, <2>2, <2>4 DEF UpdatesInv, BegunIsPast
  <2>8. FlagsTellStage' /\ UpgradesOnly'
    BY <2>1 DEF FlagsTellStage, UpgradesOnly
  <2>9. FoundStands'
    BY <1>0, <2>1 DEF FoundStands
  <2>10. QED
    BY <2>5, <2>6, <2>7, <2>8, <2>9 DEF UpdatesInv
<1>3. QED
  BY <1>1, <1>2 DEF StartController

\* The controller is gone: only its row and the services tell of it.
LEMMA GoneKeepsInv ==
  ASSUME UpdatesTypeOK, UpdatesInv, deploy' = NoDeploy, UNCHANGED <<begun, consent, site>>,
         \A v \in Versions :
             \/ proposal'[v] = proposal[v]
             \/ /\ proposal[v].status = "deploying" /\ proposal'[v].for = proposal[v].for
                /\ \/ proposal'[v].status \in {"succeeded", "ambiguous"}
                   \/ proposal'[v].status = "failed" /\ begun[v] = 0
  PROVE  UpdatesInv'
<1>1. ~Working'
  BY DEF Working, NoDeploy
<1>2. ConsentStands'
  BY DEF UpdatesInv, ConsentStands
<1>3. BegunIsPast'
  <2>1. ASSUME NEW v \in Versions
        PROVE  /\ begun'[v] > 0 => proposal'[v].status \in {"deploying", "succeeded", "ambiguous"}
               /\ begun'[v] <= 1
    BY DEF UpdatesInv, BegunIsPast
  <2>2. QED
    BY <2>1, <1>1 DEF BegunIsPast
<1>4. LeasedToController'
  BY <1>1 DEF LeasedToController
<1>5. FlagsTellStage' /\ UpgradesOnly' /\ FoundStands'
  BY DEF NoDeploy, FlagsTellStage, UpgradesOnly, FoundStands
<1>6. QED
  BY <1>2, <1>3, <1>4, <1>5 DEF UpdatesInv

LEMMA RecordKeepsInv == UpdatesTypeOK /\ UpdatesInv /\ RecordSuccess => UpdatesInv'
<1> SUFFICES ASSUME UpdatesTypeOK, UpdatesInv, RecordSuccess PROVE UpdatesInv'
  OBVIOUS
<1>1. deploy.at = "promoted" /\ HoldsRelease(deploy.target) /\ deploy.target \in Versions
  BY DEF RecordSuccess, UpdatesInv, LeasedToController, Working, UpdatesTypeOK
<1>2. ClosedAs(deploy.target, "succeeded") /\ deploy' = NoDeploy /\ UNCHANGED <<begun, consent, site>>
  BY <1>1 DEF RecordSuccess
<1>3. \A v \in Versions :
          \/ proposal'[v] = proposal[v]
          \/ /\ proposal[v].status = "deploying" /\ proposal'[v].for = proposal[v].for
             /\ proposal'[v].status \in {"succeeded", "ambiguous"}
  BY <1>1, <1>2, ClosedEffect DEF HoldsRelease
<1>4. QED
  BY <1>2, <1>3, GoneKeepsInv

LEMMA HandleKeepsInv == UpdatesTypeOK /\ UpdatesInv /\ HandleFailure => UpdatesInv'
<1> SUFFICES ASSUME UpdatesTypeOK, UpdatesInv, HandleFailure PROVE UpdatesInv'
  OBVIOUS
<1>1. PICK verdict \in {"failed", "ambiguous"} : VerdictIs(verdict)
  BY DEF HandleFailure, VolumesRemoved
<1>2. deploy'.at = "reporting" /\ deploy'.verdict = verdict /\ SameAttempt
  BY <1>1, VerdictEffect
<1>3. Working /\ UNCHANGED <<proposal, begun, consent>> /\ deploy.at = "failing"
  BY DEF HandleFailure, Working
<1>4. verdict = "failed" =>
          /\ ~deploy.migrated
          /\ \/ deploy.stopped /\ site' = [site EXCEPT !.up = TRUE, !.runs = site.link]
             \/ ~deploy.stopped /\ UNCHANGED site
  <2>1. verdict = "failed" => ~VerdictIs("ambiguous")
    BY <1>2 DEF UpdatesTypeOK, Deploys, VerdictIs
  <2>2. QED
    BY <2>1 DEF HandleFailure, VolumesRemoved
<1>5. FlagsTellStage' /\ UpgradesOnly'
  BY <1>2, <1>4 DEF FlagsTellStage, UpgradesOnly, SameAttempt
<1>6. FoundStands'
  BY <1>2, <1>3, <1>4 DEF UpdatesInv, FoundStands, SameAttempt, UpdatesTypeOK
<1>7. QED
  BY <1>2, <1>3, <1>5, <1>6, RowStays DEF UpdatesInv, SameAttempt

LEMMA ReportKeepsInv == UpdatesTypeOK /\ UpdatesInv /\ ReportFailure => UpdatesInv'
<1> SUFFICES ASSUME UpdatesTypeOK, UpdatesInv, ReportFailure PROVE UpdatesInv'
  OBVIOUS
<1>1. deploy.at = "reporting" /\ HoldsRelease(deploy.target) /\ deploy.target \in Versions
  BY DEF ReportFailure, UpdatesInv, LeasedToController, Working, UpdatesTypeOK
<1>2. /\ ClosedAs(deploy.target, deploy.verdict) /\ deploy' = NoDeploy
      /\ UNCHANGED <<begun, consent, site>>
  BY <1>1 DEF ReportFailure
<1>3. /\ deploy.verdict \in {"failed", "ambiguous"}
      /\ deploy.verdict = "failed" => begun[deploy.target] = 0
  BY <1>1 DEF UpdatesInv, FlagsTellStage, BegunIsPast, Working, UpdatesTypeOK, Deploys
<1>4. \A v \in Versions :
          \/ proposal'[v] = proposal[v]
          \/ /\ proposal[v].status = "deploying" /\ proposal'[v].for = proposal[v].for
             /\ \/ proposal'[v].status \in {"succeeded", "ambiguous"}
                \/ proposal'[v].status = "failed" /\ begun[v] = 0
  BY <1>1, <1>2, <1>3, ClosedEffect DEF HoldsRelease
<1>5. QED
  BY <1>2, <1>4, GoneKeepsInv

LEMMA LeaseKeepsInv ==
  ASSUME UpdatesTypeOK, UpdatesInv, NEW v \in Versions, LeaseRunsOut(v)
  PROVE  UpdatesInv'
<1>1. /\ proposal' = [proposal EXCEPT ![v] = [proposal[v] EXCEPT !.lease = "expired"]]
      /\ proposal[v] \in ProposalRows
  BY DEF LeaseRunsOut, UpdatesTypeOK
<1>2. /\ \A w \in Versions : proposal'[w].status = proposal[w].status /\ proposal'[w].for = proposal[w].for
      /\ \A w \in Versions : w # v => proposal'[w] = proposal[w]
  BY <1>1 DEF UpdatesTypeOK, ProposalRows
<1>3. UNCHANGED <<begun, consent, site, deploy>> /\ (Working => deploy.target # v)
  BY DEF LeaseRunsOut, Working
<1>4. LeasedToController'
  BY <1>2, <1>3 DEF UpdatesInv, LeasedToController, Working, HoldsRelease, UpdatesTypeOK
<1>5. ConsentStands' /\ BegunIsPast'
  BY <1>2, <1>3 DEF UpdatesInv, ConsentStands, BegunIsPast, Working
<1>6. FlagsTellStage' /\ UpgradesOnly' /\ FoundStands'
  BY <1>3 DEF UpdatesInv, FlagsTellStage, UpgradesOnly, FoundStands
<1>7. QED
  BY <1>4, <1>5, <1>6 DEF UpdatesInv

-----------------------------------------------------------------------------
LEMMA UpdatesInvInit == UpdatesInit => UpdatesInv
<1> SUFFICES ASSUME UpdatesInit PROVE UpdatesInv
  OBVIOUS
<1>1. deploy = NoDeploy /\ NoDeploy.at = "idle"
  BY DEF UpdatesInit, NoDeploy
<1>2. ConsentStands
  BY DEF UpdatesInit, NoProposal, ConsentStands
<1>3. BegunIsPast
  BY <1>1 DEF UpdatesInit, BegunIsPast, Working
<1>4. LeasedToController /\ FlagsTellStage /\ UpgradesOnly /\ FoundStands
  BY <1>1 DEF LeasedToController, FlagsTellStage, UpgradesOnly, FoundStands, Working
<1>5. QED
  BY <1>2, <1>3, <1>4 DEF UpdatesInv

LEMMA UpdatesInvStep == UpdatesTypeOK /\ UpdatesInv /\ [UpdatesNext]_updatesVars => UpdatesInv'
<1> SUFFICES ASSUME UpdatesTypeOK, UpdatesInv, [UpdatesNext]_updatesVars PROVE UpdatesInv'
  OBVIOUS
<1>1. CASE ReleasePublished \/ OwnersChange \/ UNCHANGED updatesVars
  <2>1. UNCHANGED <<proposal, deploy, site, begun, consent>>
    BY <1>1 DEF ReleasePublished, OwnersChange, updatesVars
  <2>2. QED
    BY <2>1, QuietStep DEF QuietFor
<1>2. ASSUME NEW c \in Checkers,
             \/ ReadRelease(c) \/ PrepareProposal(c) \/ PlaceMessage(c) \/ BindMessage(c)
             \/ RevealButtons(c) \/ MarkDeliveryFailure(c) \/ CheckDies(c)
      PROVE  UpdatesInv'
  <2>1. \A v \in Versions : QuietFor(v)
    BY <1>2, CheckIsQuiet
  <2>2. UNCHANGED <<deploy, site, begun, consent>>
    BY <1>2 DEF ReadRelease, PrepareProposal, PlaceMessage, BindMessage, RevealButtons,
                MarkDeliveryFailure, CheckDies
  <2>3. QED
    BY <2>1, <2>2, QuietStep
<1>3. ASSUME NEW v \in Versions, NEW who \in Owners, NEW decision \in {"approved", "declined"},
             ClaimDecision(v, who, decision)
      PROVE  UpdatesInv'
  BY <1>3, PressKeepsInv
<1>4. CASE ControllerStep \/ StepFails
  BY <1>4, StartKeepsInv, MoveKeepsInv, StopKeepsInv, BeginKeepsInv, InstallKeepsInv, RecordKeepsInv,
     HandleKeepsInv, ReportKeepsInv DEF ControllerStep
<1>5. CASE ControllerDies
  BY <1>5, GoneKeepsInv DEF ControllerDies
<1>6. ASSUME NEW v \in Versions, LeaseRunsOut(v) PROVE UpdatesInv'
  BY <1>6, LeaseKeepsInv
<1>7. QED
  BY <1>1, <1>2, <1>3, <1>4, <1>5, <1>6 DEF UpdatesNext

\* Every state of the update is one of the types its tables, its shell variables and
\* its messages allow.
THEOREM UpdatesTypeCorrect == UpdatesSpec => []UpdatesTypeOK
BY UpdatesTypeInit, UpdatesTypeStep, PTL DEF UpdatesSpec

\* The invariant behind the two promises holds in every state.
THEOREM UpdatesInvariant == UpdatesSpec => []UpdatesInv
BY UpdatesTypeInit, UpdatesTypeStep, UpdatesInvInit, UpdatesInvStep, PTL DEF UpdatesSpec

\* A release is begun at most once, by the consent of the person it was offered to
\* (claimDecision, claim_approved_proposal), and the installed release only grows.
THEOREM ReleaseNeedsConsent == UpdatesSpec => InstalledByConsent
<1> DEFINE Promise == /\ \A v \in Versions : begun'[v] # begun[v] =>
                              begun[v] = 0 /\ consent[v] # "nobody" /\ consent[v] = proposal[v].for
                              /\ v > site.link
                      /\ site'.link >= site.link
<1>1. ASSUME UpdatesTypeOK, UpdatesInv, [UpdatesNext]_updatesVars PROVE Promise
  <2>1. CASE BeginMigration
    <3>1. deploy.at = "stopped" /\ deploy.target \in Versions /\ Working
      BY <1>1, <2>1 DEF BeginMigration, UpdatesTypeOK, Working
    <3>2. \A v \in Versions : begun'[v] # begun[v] => v = deploy.target
      BY <1>1, <2>1, <3>1 DEF BeginMigration, UpdatesTypeOK
    <3>3. begun[deploy.target] = 0 /\ deploy.target > site.link
      BY <1>1, <3>1 DEF UpdatesInv, FlagsTellStage, BegunIsPast, UpgradesOnly
    <3>4. consent[deploy.target] # "nobody" /\ consent[deploy.target] = proposal[deploy.target].for
      BY <1>1, <3>1 DEF UpdatesInv, LeasedToController, HoldsRelease, ConsentStands
    <3>5. site'.link >= site.link
      BY <1>1, <2>1 DEF BeginMigration, UpdatesTypeOK
    <3>6. QED
      BY <3>2, <3>3, <3>4, <3>5
  <2>2. CASE PromoteCandidate
    <3>1. deploy.target > site.link /\ deploy.target \in Versions /\ UNCHANGED begun
      BY <1>1, <2>2 DEF PromoteCandidate, UpdatesInv, UpgradesOnly, UpdatesTypeOK
    <3>2. site'.link = deploy.target
      BY <1>1, <2>2 DEF PromoteCandidate, UpdatesTypeOK
    <3>3. site.link \in Int /\ deploy.target \in Int
      BY <1>1, <3>1, UpdateConstants DEF UpdatesTypeOK, Versions
    <3>4. site'.link >= site.link
      BY <3>1, <3>2, <3>3
    <3>5. QED
      BY <3>1, <3>4
  <2>3. CASE ~BeginMigration /\ ~PromoteCandidate
    <3>1. UNCHANGED begun
      BY <1>1, <2>3 DEF UpdatesNext, ControllerStep, updatesVars, ReleasePublished, OwnersChange,
         ReadRelease, PrepareProposal, PlaceMessage, BindMessage, RevealButtons, MarkDeliveryFailure,
         CheckDies, ClaimDecision, StartController, ValidateRelease, DumpDatabase, StopServices,
         StartCandidate, RecordSuccess, HandleFailure, ReportFailure, StepFails, ControllerDies,
         LeaseRunsOut
    <3>2. UNCHANGED site \/ StopServices \/ StartCandidate \/ HandleFailure
      BY <1>1, <2>3 DEF UpdatesNext, ControllerStep, updatesVars, ReleasePublished, OwnersChange,
         ReadRelease, PrepareProposal, PlaceMessage, BindMessage, RevealButtons, MarkDeliveryFailure,
         CheckDies, ClaimDecision, StartController, ValidateRelease, DumpDatabase,
         RecordSuccess, ReportFailure, StepFails, ControllerDies, LeaseRunsOut
    <3>3. site'.link = site.link
      BY <1>1, <3>2 DEF StopServices, StartCandidate, HandleFailure, UpdatesTypeOK
    <3>4. QED
      BY <1>1, <3>1, <3>3 DEF UpdatesTypeOK
  <2>4. QED
    BY <2>1, <2>2, <2>3
<1>2. QED
  BY <1>1, UpdatesTypeCorrect, UpdatesInvariant, PTL DEF UpdatesSpec, InstalledByConsent

\* "failed" is said of a release that was never begun, with the services the
\* controller found at work, at work again (handle_failure, restart_current_release).
THEOREM FailureIsHarmless == UpdatesSpec => FailedIsRestored
<1> DEFINE Promise == \A v \in Versions : proposal'[v].status = "failed" /\ proposal[v].status # "failed" =>
                          /\ begun[v] = 0
                          /\ deploy.found => site.up /\ site.runs = site.link
<1>1. ASSUME UpdatesTypeOK, UpdatesInv, [UpdatesNext]_updatesVars,
             NEW v \in Versions, proposal'[v].status = "failed", proposal[v].status # "failed"
      PROVE  begun[v] = 0 /\ (deploy.found => site.up /\ site.runs = site.link)
  <2>1. ReportFailure
    <3>1. \/ proposal' = proposal \/ \E c \in Checkers : QuietFor(v)
          \/ \E w \in Versions, who \in Owners, decision \in {"approved", "declined"} : ClaimDecision(w, who, decision)
          \/ StartController \/ RecordSuccess \/ ReportFailure
          \/ \E w \in Versions : LeaseRunsOut(w)
      BY <1>1, CheckIsQuiet DEF UpdatesNext, ControllerStep, updatesVars, ReleasePublished, OwnersChange,
         ValidateRelease, DumpDatabase, StopServices, BeginMigration, StartCandidate, PromoteCandidate,
         HandleFailure, StepFails, ControllerDies
    <3>2. ~QuietFor(v) /\ proposal' # proposal
      BY <1>1 DEF QuietFor, Early
    <3>3. ASSUME NEW w \in Versions, NEW who \in Owners, NEW decision \in {"approved", "declined"},
                 ClaimDecision(w, who, decision)
          PROVE  FALSE
      <4>1. CASE StatusBecomes(w, "superseded")
        BY <1>1, <4>1, StatusEffect
      <4>2. ASSUME NEW rank \in Nat,
                   proposal' = [proposal EXCEPT ![w].status = decision, ![w].rank = rank]
            PROVE  FALSE
        BY <1>1, <4>2 DEF UpdatesTypeOK, ProposalRows
      <4>3. QED
        BY <3>3, <4>1, <4>2, RankIsNat DEF ClaimDecision
    <3>4. ~StartController
      <4>1. ASSUME ReconcileStale PROVE FALSE
        <5>1. proposal[v] \in ProposalRows
          BY <1>1 DEF UpdatesTypeOK
        <5>2. QED
          BY <1>1, <4>1, <5>1 DEF ReconcileStale, ProposalRows
      <4>2. ASSUME NEW w \in Versions,
                   proposal' = [proposal EXCEPT ![w].status = "deploying", ![w].lease = "live"]
            PROVE  FALSE
        BY <1>1, <4>2 DEF UpdatesTypeOK, ProposalRows
      <4>3. QED
        BY <4>1, <4>2 DEF StartController
    <3>5. ~RecordSuccess
      <4>1. ASSUME RecordSuccess PROVE deploy.target \in Versions
        BY <1>1, <4>1 DEF RecordSuccess, UpdatesTypeOK
      <4>2. QED
        BY <1>1, <4>1, ClosedEffect DEF RecordSuccess
    <3>6. ASSUME NEW w \in Versions, LeaseRunsOut(w) PROVE FALSE
      BY <1>1, <3>6 DEF LeaseRunsOut, UpdatesTypeOK, ProposalRows
    <3>7. QED
      BY <3>1, <3>2, <3>3, <3>4, <3>5, <3>6
  <2>2. /\ deploy.at = "reporting" /\ Working /\ deploy.target \in Versions
        /\ ClosedAs(deploy.target, deploy.verdict)
    BY <1>1, <2>1 DEF ReportFailure, Working, UpdatesTypeOK
  <2>3. v = deploy.target /\ deploy.verdict = "failed"
    BY <1>1, <2>2, ClosedEffect
  <2>4. ~deploy.migrated
    BY <1>1, <2>2, <2>3 DEF UpdatesInv, FlagsTellStage
  <2>5. QED
    BY <1>1, <2>2, <2>3, <2>4 DEF UpdatesInv, BegunIsPast, FoundStands
<1>2. ASSUME UpdatesTypeOK, UpdatesInv, [UpdatesNext]_updatesVars PROVE Promise
  BY <1>1, <1>2
<1>3. QED
  BY <1>2, UpdatesTypeCorrect, UpdatesInvariant, PTL DEF UpdatesSpec, FailedIsRestored

-----------------------------------------------------------------------------
(***************************************************************************)
(* The sandbox runner. Its registry counts the calls at work exactly, unless *)
(* a stop request made it forget some; calls that create stand in one line; *)
(* a container without its seeds is in the hands of the call that makes it. *)
(***************************************************************************)

SandboxSpec == SandboxInit /\ [][SandboxNext]_sandboxVars

UseAts == {"idle", "probed", "queued", "entering"} \cup CreateSteps \cup WorkSteps
Uses == [at : UseAts, policy : Policies \cup {Nil}, seeds : BOOLEAN,
         after : SandboxCalls \cup {Nil}, alone : BOOLEAN]
Boxes == [state : {"absent", "halted", "running"}, policy : Policies \cup {Nil},
          seeded : BOOLEAN, expired : BOOLEAN]
Registries == [count : Nat, used : {"never", "recently", "long ago"},
               gate : Sweeps \cup {Nil}, tail : SandboxCalls \cup {Nil}]
SweepStates == [at : {"idle", "stops", "removes", "stopping", "removing"}, gone : BOOLEAN]

\* The shape of the state; how far the activity count may go is a matter of Counted.
SandboxTyped ==
    /\ box \in Boxes /\ registry \in Registries
    /\ use \in [SandboxCalls -> Uses]
    /\ stop \in {"idle", "looking", "removing", "forgetting"}
    /\ sweep \in [Sweeps -> SweepStates]
    /\ muddled \in BOOLEAN /\ leftover \in BOOLEAN
    /\ asked \in 0..MaxSandboxCalls /\ stops \in 0..MaxSandboxStops
    /\ outages \in 0..MaxSandboxFaults

\* Calls between the first request and their end; those are counted by `asked`.
Busy == {c \in SandboxCalls : use[c].at # "idle"}

\* The registry counts the calls inside runActive, exactly unless some were forgotten;
\* while a sweep holds the session nobody is inside.
Counted ==
    /\ IsFiniteSet(Busy) /\ Cardinality(Busy) <= asked
    /\ registry.count <= Cardinality(ActiveCalls)
    /\ ~muddled => registry.count = Cardinality(ActiveCalls)
    /\ registry.gate # Nil /\ ~muddled => ActiveCalls = {}

\* The queue of runExclusive, as places in line: one call at each place, behind the call it
\* waits for, and the tail has the last.
InLine(c) == use[c].at = "queued" \/ InCreation(c)
Placed(f) ==
    /\ \A c, d \in SandboxCalls : InLine(c) /\ InLine(d) /\ f[c] = f[d] => c = d
    /\ \A c \in SandboxCalls :
          /\ InCreation(c) \/ ~InLine(c) => use[c].after = Nil
          /\ InLine(c) /\ use[c].after = Nil => f[c] = 0
          /\ use[c].after # Nil => InLine(use[c].after) /\ f[c] = f[use[c].after] + 1
          /\ InLine(c) => registry.tail # Nil /\ f[c] <= f[registry.tail]
    /\ registry.tail # Nil => InLine(registry.tail)
LinedUp == \E f \in [SandboxCalls -> Nat] : Placed(f)

\* A container without its seeds is in the hands of the call that makes it, or was left.
Building(c) == use[c].at \in {"booting", "seeding", "undoing"}
SeedsComing ==
    box.state # "absent" /\ ~box.seeded /\ ~leftover => \E c \in SandboxCalls : Building(c)

SandboxInv == SandboxTyped /\ Counted /\ LinedUp /\ SeedsComing

-----------------------------------------------------------------------------
(* Types. *)

LEMMA AtTyped ==
    ASSUME SandboxTyped, NEW c \in SandboxCalls, NEW step \in UseAts, At(c, step)
    PROVE  use' \in [SandboxCalls -> Uses]
BY DEF SandboxTyped, At, Uses

LEMMA RegisteredTyped == SandboxTyped => Registered \in Registries
<1> SUFFICES ASSUME SandboxTyped PROVE Registered \in Registries
  OBVIOUS
<1>1. registry.count \in Nat /\ registry \in Registries
  BY DEF SandboxTyped, Registries
<1>2. registry.count + 1 \in Nat
  BY <1>1
<1> QED
  BY <1>1, <1>2 DEF Registries, Registered

LEMMA FinishedTyped == SandboxTyped => Finished \in Registries
<1> SUFFICES ASSUME SandboxTyped PROVE Finished \in Registries
  OBVIOUS
<1>1. registry.count \in Nat /\ registry \in Registries
  BY DEF SandboxTyped, Registries
<1>2. (IF registry.count > 0 THEN registry.count - 1 ELSE 0) \in Nat
  BY <1>1
<1> QED
  BY <1>1, <1>2 DEF Registries, Finished

LEMMA LeavesTyped ==
    ASSUME SandboxTyped, NEW c \in SandboxCalls,
           NEW step \in {"idle", "probed", "entering"}, Leaves(c, step)
    PROVE  /\ use' \in [SandboxCalls -> Uses]
           /\ registry' \in Registries
           /\ muddled' \in BOOLEAN
<1>1. NoUse \in Uses
  BY DEF NoUse, Uses, UseAts
<1>2. step \in UseAts
  BY DEF UseAts
<1>3. \A d \in SandboxCalls :
        /\ [use[d] EXCEPT !.at = step] \in Uses
        /\ [use[d] EXCEPT !.after = Nil] \in Uses
        /\ use[d] \in Uses
  BY <1>2 DEF SandboxTyped, Uses
<1>4. use' \in [SandboxCalls -> Uses]
  BY <1>1, <1>3 DEF Leaves
<1>6. registry' \in Registries
  BY FinishedTyped DEF Leaves, Registries
<1>7. muddled' \in BOOLEAN
  BY DEF Leaves
<1> QED
  BY <1>4, <1>6, <1>7

LEMMA RemovedTyped ==
    ASSUME SandboxTyped, BoxRemoved
    PROVE  box' \in Boxes /\ sweep' \in [Sweeps -> SweepStates]
BY DEF SandboxTyped, BoxRemoved, NoBox, Boxes, SweepStates

LEMMA RunsTyped ==
    ASSUME SandboxTyped, BoxRuns
    PROVE  box' \in Boxes
BY DEF SandboxTyped, BoxRuns, Boxes

LEMMA OutageTyped ==
    ASSUME SandboxTyped, Outage
    PROVE  outages' \in 0..MaxSandboxFaults
BY SandboxConstants DEF SandboxConstants, SandboxTyped, Outage

LEMMA UseTyped ==
    ASSUME SandboxTyped, NEW c \in SandboxCalls, AskSession(c) \/ UseStep(c)
    PROVE  SandboxTyped'
<1> USE DEF CreateSteps, WorkSteps, UseAts
<1>1. CASE AskSession(c)
  <2>1. registry' \in Registries
    BY <1>1 DEF AskSession, SandboxTyped, Registries
  <2>2. asked' \in 0..MaxSandboxCalls
    <3>1. asked' = asked \/ (asked < MaxSandboxCalls /\ asked' = asked + 1)
      BY <1>1 DEF AskSession
    <3> QED
      BY <3>1, SandboxConstants DEF SandboxConstants, SandboxTyped
  <2>3. \A p \in AnyPolicy : [NoUse EXCEPT !.at = "queued", !.policy = p,
                                          !.after = registry.tail] \in Uses
    BY SandboxConstants DEF SandboxConstants, AnyPolicy, NoUse, Uses, SandboxTyped, Registries
  <2>4. [use[c] EXCEPT !.at = "queued", !.seeds = TRUE, !.after = registry.tail] \in Uses
    <3>1. use[c] \in Uses /\ registry.tail \in SandboxCalls \cup {Nil}
      BY DEF SandboxTyped, Registries
    <3>2. "queued" \in UseAts
      BY DEF UseAts
    <3> HIDE DEF UseAts, CreateSteps, WorkSteps
    <3>3. QED
      BY <3>1, <3>2 DEF Uses
  <2>5. use' \in [SandboxCalls -> Uses]
    <3>1. CASE use[c].at = "idle"
      BY <1>1, <2>3, <3>1 DEF AskSession, SandboxTyped
    <3>2. CASE use[c].at = "probed"
      <4>1. use' = [use EXCEPT ![c] = [use[c] EXCEPT !.at = "queued", !.seeds = TRUE,
                                                     !.after = registry.tail]]
        BY <1>1, <3>2 DEF AskSession, SandboxTyped, Uses
      <4> QED
        BY <4>1, <2>4 DEF SandboxTyped
    <3> QED
      BY <1>1, <3>1, <3>2 DEF AskSession
  <2> QED
    BY <1>1, <2>1, <2>2, <2>5 DEF AskSession, SandboxTyped
<1>2. CASE EnterCreation(c)
  BY <1>2, AtTyped, RegisteredTyped DEF EnterCreation, SandboxTyped
<1>3. CASE InspectSession(c)
  BY <1>3, AtTyped, LeavesTyped, OutageTyped DEF InspectSession, SandboxTyped
<1>4. CASE ReplaceBox(c)
  BY <1>4, AtTyped, LeavesTyped, RemovedTyped, OutageTyped DEF ReplaceBox, SandboxTyped
<1>5. CASE CreateBox(c)
  <2>1. [state |-> "halted", policy |-> use[c].policy, seeded |-> FALSE, expired |-> TRUE] \in Boxes
    BY DEF Boxes, SandboxTyped, Uses
  <2> QED
    BY <1>5, <2>1, AtTyped, LeavesTyped, OutageTyped DEF CreateBox, SandboxTyped
<1>6. CASE BootBox(c)
  BY <1>6, AtTyped, RunsTyped, OutageTyped DEF BootBox, SandboxTyped
<1>7. CASE SeedBox(c)
  <2>1. [box EXCEPT !.seeded = TRUE] \in Boxes
    BY DEF Boxes, SandboxTyped
  <2> QED
    BY <1>7, <2>1, AtTyped DEF SeedBox, SandboxTyped
<1>8. CASE UndoCreation(c)
  BY <1>8, LeavesTyped, RemovedTyped, OutageTyped DEF UndoCreation, SandboxTyped
<1>9. CASE ReviveBox(c)
  BY <1>9, AtTyped, LeavesTyped, RunsTyped, OutageTyped DEF ReviveBox, Starts, SandboxTyped
<1>10. CASE LeaveCreation(c)
  BY <1>10, LeavesTyped DEF LeaveCreation, SandboxTyped
<1>11. CASE EnterWork(c)
  <2>1. [use[c] EXCEPT !.at = "looking", !.alone = (registry.count = 0)] \in Uses
    BY DEF Uses, SandboxTyped
  <2>2. use' = [use EXCEPT ![c] = [use[c] EXCEPT !.at = "looking", !.alone = (registry.count = 0)]]
    BY <1>11 DEF EnterWork, SandboxTyped, Uses
  <2> QED
    BY <1>11, <2>1, <2>2, RegisteredTyped DEF EnterWork, SandboxTyped
<1>12. CASE RefuseRepeat(c)
  <2>1. NoUse \in Uses
    BY DEF NoUse, Uses
  <2> QED
    BY <1>12, <2>1 DEF RefuseRepeat, SandboxTyped, Registries
<1>13. CASE LookForBox(c)
  BY <1>13, AtTyped, LeavesTyped, OutageTyped DEF LookForBox, SandboxTyped
<1>14. CASE WakeBox(c)
  BY <1>14, AtTyped, LeavesTyped, RunsTyped, OutageTyped DEF WakeBox, Starts, SandboxTyped
<1>15. CASE CountTasks(c)
  BY <1>15, AtTyped, LeavesTyped, RunsTyped, OutageTyped DEF CountTasks, SandboxTyped
<1>16. CASE RunCommand(c)
  BY <1>16, AtTyped, LeavesTyped DEF RunCommand, SandboxTyped
<1>17. CASE RemoveOrphan(c)
  BY <1>17, LeavesTyped, RemovedTyped, OutageTyped DEF RemoveOrphan, SandboxTyped
<1> QED
  BY <1>1, <1>2, <1>3, <1>4, <1>5, <1>6, <1>7, <1>8, <1>9, <1>10, <1>11, <1>12, <1>13,
     <1>14, <1>15, <1>16, <1>17 DEF UseStep

LEMMA OthersTyped ==
    ASSUME SandboxTyped,
           \/ AskStop \/ StopStep \/ \E s \in Sweeps : SweepStep(s)
           \/ HalfHourPasses \/ DayPasses \/ RunnerRestarts
    PROVE  SandboxTyped'
<1>1. CASE AskStop
  BY <1>1, SandboxConstants DEF SandboxConstants, AskStop, SandboxTyped
<1>2. CASE LookBeforeStop
  BY <1>2, OutageTyped DEF LookBeforeStop, SandboxTyped
<1>3. CASE RemoveStopped
  BY <1>3, RemovedTyped, OutageTyped DEF RemoveStopped, SandboxTyped
<1>4. CASE ForgetSession
  BY <1>4 DEF ForgetSession, SandboxTyped, Registries
<1>5. ASSUME NEW s \in Sweeps, SweepStep(s) PROVE SandboxTyped'
  <2>0. NoSweep \in SweepStates
    BY DEF NoSweep, SweepStates
  <2>1. CASE ListBoxes(s)
    BY <2>1 DEF ListBoxes, SandboxTyped, SweepStates
  <2>2. CASE ReserveSession(s)
    <3>1. registry' \in Registries
      BY <2>2 DEF ReserveSession, SandboxTyped, Registries
    <3>2. sweep' \in [Sweeps -> SweepStates]
      BY <2>0, <2>2 DEF ReserveSession, SandboxTyped, SweepStates
    <3> QED
      BY <2>2, <3>1, <3>2 DEF ReserveSession, SandboxTyped
  <2>3. CASE StopBox(s)
    <3>1. registry' \in Registries
      BY <2>3 DEF StopBox, Reopened, SandboxTyped, Registries
    <3>2. box' \in Boxes
      BY <2>3 DEF StopBox, SandboxTyped, Boxes
    <3> QED
      BY <2>0, <2>3, <3>1, <3>2, OutageTyped DEF StopBox, SandboxTyped
  <2>4. CASE RemoveBox(s)
    <3>1. registry' \in Registries
      BY <2>4 DEF RemoveBox, Reopened, SandboxTyped, Registries
    <3>2. NoBox \in Boxes /\ \A t \in Sweeps : [sweep[t] EXCEPT !.gone = TRUE] \in SweepStates
      BY DEF SandboxTyped, Boxes, NoBox, SweepStates
    <3>3. sweep' \in [Sweeps -> SweepStates] /\ box' \in Boxes
      <4>1. CASE sweep[s].gone
        BY <2>0, <2>4, <3>2, <4>1 DEF RemoveBox, SandboxTyped
      <4>2. CASE ~sweep[s].gone
        BY <2>0, <2>4, <3>2, <4>2 DEF RemoveBox, SandboxTyped
      <4> QED
        BY <4>1, <4>2
    <3> QED
      BY <2>4, <3>1, <3>2, <3>3, OutageTyped DEF RemoveBox, SandboxTyped
  <2> QED
    BY <1>5, <2>1, <2>2, <2>3, <2>4 DEF SweepStep
<1>6. CASE HalfHourPasses
  BY <1>6 DEF HalfHourPasses, SandboxTyped, Registries
<1>7. CASE DayPasses
  BY <1>7 DEF DayPasses, SandboxTyped, Boxes
<1>8. CASE RunnerRestarts
  BY <1>8, OutageTyped
     DEF RunnerRestarts, SandboxTyped, Boxes, NoBox, Registries, Uses, UseAts, NoUse,
         SweepStates, NoSweep
<1> QED
  BY <1>1, <1>2, <1>3, <1>4, <1>5, <1>6, <1>7, <1>8 DEF StopStep

LEMMA SandboxStepTyped == SandboxTyped /\ [SandboxNext]_sandboxVars => SandboxTyped'
<1>1. SandboxTyped /\ UNCHANGED sandboxVars => SandboxTyped'
  BY DEF SandboxTyped, sandboxVars
<1> QED
  BY <1>1, UseTyped, OthersTyped DEF SandboxNext

-----------------------------------------------------------------------------
(* The activity count. A step of a call keeps it where it is, begins an operation or      *)
(* ends one; what else a step does is of no concern here.                                 *)

Steady == ActiveCalls' = ActiveCalls /\ registry'.count = registry.count
          /\ registry'.gate = registry.gate /\ muddled' = muddled
Begins(c) ==
    /\ c \notin ActiveCalls /\ registry.gate = Nil
    /\ ActiveCalls' = ActiveCalls \cup {c} /\ registry'.count = registry.count + 1
    /\ registry'.gate = registry.gate /\ muddled' = muddled
Ends(c) ==
    /\ c \in ActiveCalls /\ ActiveCalls' = ActiveCalls \ {c}
    /\ registry'.count = IF registry.count > 0 THEN registry.count - 1 ELSE 0
    /\ registry'.gate = registry.gate /\ muddled' = (muddled /\ ActiveCalls \ {c} # {})
StaysBusy == asked' = asked /\ (Busy' = Busy \/ \E c \in SandboxCalls : Busy' = Busy \ {c})

LEMMA ActiveIsBusy == ActiveCalls \subseteq Busy
BY DEF ActiveCalls, Active, Busy, CreateSteps, WorkSteps

\* A set of calls and the counter beside it.
LEMMA CountedStep ==
    ASSUME SandboxTyped, Counted, StaysBusy,
           Steady \/ \E c \in SandboxCalls : Begins(c) \/ Ends(c)
    PROVE  Counted'
<1> DEFINE A == ActiveCalls  n == registry.count
<1>1. IsFiniteSet(A) /\ Cardinality(A) \in Nat
  BY ActiveIsBusy, FS_Subset, FS_CardinalityType DEF Counted
<1>2. n \in Nat /\ muddled \in BOOLEAN
  BY DEF SandboxTyped, Registries
<1>3. IsFiniteSet(Busy') /\ Cardinality(Busy') <= asked'
  <2>1. IsFiniteSet(Busy) /\ Cardinality(Busy) <= asked
    BY DEF Counted
  <2>2. Cardinality(Busy) \in Nat /\ asked \in Nat
    BY <2>1, FS_CardinalityType, SandboxConstants DEF SandboxConstants, SandboxTyped
  <2>3. CASE Busy' = Busy
    BY <2>1, <2>3 DEF StaysBusy
  <2>4. ASSUME NEW c \in SandboxCalls, Busy' = Busy \ {c}
        PROVE  IsFiniteSet(Busy') /\ Cardinality(Busy') <= asked'
    <3>1. /\ IsFiniteSet(Busy \ {c})
          /\ Cardinality(Busy \ {c}) = IF c \in Busy THEN Cardinality(Busy) - 1 ELSE Cardinality(Busy)
      BY <2>1, FS_RemoveElement
    <3>2. Cardinality(Busy \ {c}) <= asked
      BY <3>1, <2>1, <2>2
    <3> QED
      BY <2>4, <3>1, <3>2 DEF StaysBusy
  <2> QED
    BY <2>3, <2>4 DEF StaysBusy
<1>4. CASE Steady
  BY <1>3, <1>4 DEF Steady, Counted
<1>5. ASSUME NEW c \in SandboxCalls, Begins(c) PROVE Counted'
  <2>1. Cardinality(A \cup {c}) = Cardinality(A) + 1
    BY <1>1, <1>5, FS_AddElement DEF Begins
  <2>2. Cardinality(ActiveCalls') = Cardinality(A) + 1
    BY <2>1, <1>5 DEF Begins
  <2>3. n <= Cardinality(A) /\ (~muddled => n = Cardinality(A))
    BY DEF Counted
  <2>4. registry'.count <= Cardinality(ActiveCalls')
    BY <1>1, <1>2, <1>5, <2>2, <2>3 DEF Begins
  <2>5. ~muddled' => registry'.count = Cardinality(ActiveCalls')
    BY <1>5, <2>2, <2>3 DEF Begins
  <2>6. registry'.gate = Nil
    BY <1>5 DEF Begins
  <2> QED
    BY <1>3, <2>4, <2>5, <2>6 DEF Counted
<1>6. ASSUME NEW c \in SandboxCalls, Ends(c) PROVE Counted'
  <2>1. Cardinality(A \ {c}) = Cardinality(A) - 1 /\ IsFiniteSet(A \ {c})
    BY <1>1, <1>6, FS_RemoveElement DEF Ends
  <2>2. Cardinality(ActiveCalls') = Cardinality(A) - 1 /\ Cardinality(ActiveCalls') \in Nat
    BY <2>1, <1>6, FS_CardinalityType DEF Ends
  <2>3. n <= Cardinality(A) /\ (~muddled => n = Cardinality(A))
    BY DEF Counted
  <2>4. registry'.count <= Cardinality(ActiveCalls')
    BY <1>1, <1>2, <1>6, <2>2, <2>3 DEF Ends
  <2>5. ASSUME ~muddled' PROVE registry'.count = Cardinality(ActiveCalls')
    <3>1. CASE ~muddled
      BY <1>1, <1>2, <1>6, <2>2, <2>3, <3>1 DEF Ends
    <3>2. CASE muddled
      <4>1. ActiveCalls' = {}
        BY <1>6, <2>5, <3>2 DEF Ends
      <4>2. Cardinality(ActiveCalls') = 0
        BY <4>1, FS_EmptySet
      <4>3. registry'.count \in Nat
        BY <1>2, <1>6 DEF Ends
      <4> QED
        BY <2>4, <4>2, <4>3
    <3> QED
      BY <3>1, <3>2
  <2>6. ASSUME registry'.gate # Nil, ~muddled' PROVE ActiveCalls' = {}
    <3>1. muddled
      BY <1>6, <2>6 DEF Ends, Counted
    <3> QED
      BY <1>6, <2>6, <3>1 DEF Ends
  <2> QED
    BY <1>3, <2>4, <2>5, <2>6 DEF Counted
<1> QED
  BY <1>4, <1>5, <1>6

\* What At and Leaves do to the sets of calls.
LEMMA AtCounts ==
    ASSUME SandboxTyped, NEW c \in SandboxCalls, NEW step \in CreateSteps \cup WorkSteps,
           Active(c), At(c, step), UNCHANGED <<registry, muddled, asked>>
    PROVE  Steady /\ StaysBusy
<1>1. ActiveCalls' = ActiveCalls
  BY DEF At, ActiveCalls, Active, SandboxTyped, Uses
<1>2. Busy' = Busy
  BY DEF At, Busy, Active, SandboxTyped, Uses, CreateSteps, WorkSteps
<1> QED
  BY <1>1, <1>2 DEF Steady, StaysBusy

LEMMA LeavesCounts ==
    ASSUME SandboxTyped, NEW c \in SandboxCalls, NEW step \in {"idle", "probed", "entering"},
           Active(c), Leaves(c, step), UNCHANGED asked
    PROVE  Ends(c) /\ StaysBusy
<1>1. \A d \in SandboxCalls \ {c} : use'[d].at = use[d].at
  BY DEF Leaves, SandboxTyped, Uses
<1>2. use'[c].at = step
  BY DEF Leaves, SandboxTyped, Uses, NoUse
<1>3. ActiveCalls' = ActiveCalls \ {c} /\ c \in ActiveCalls
  BY <1>1, <1>2 DEF ActiveCalls, Active, CreateSteps, WorkSteps
<1>4. StaysBusy
  <2>1. CASE step = "idle"
    BY <1>1, <1>2, <2>1 DEF StaysBusy, Busy
  <2>2. CASE step # "idle"
    BY <1>1, <1>2, <2>2 DEF StaysBusy, Busy, Active, CreateSteps, WorkSteps
  <2> QED
    BY <2>1, <2>2
<1>5. /\ registry'.count = IF registry.count > 0 THEN registry.count - 1 ELSE 0
      /\ registry'.gate = registry.gate
  BY DEF Leaves, Finished, SandboxTyped, Registries
<1>6. muddled' = (muddled /\ ActiveCalls \ {c} # {})
  BY DEF Leaves, ActiveCalls
<1> QED
  BY <1>3, <1>4, <1>5, <1>6 DEF Ends

LEMMA AskCounts ==
    ASSUME SandboxTyped, Counted, NEW c \in SandboxCalls, AskSession(c)
    PROVE  Counted'
<1>1. \A d \in SandboxCalls \ {c} : use'[d] = use[d]
  BY DEF AskSession, SandboxTyped
<1>2. use'[c].at = "queued" /\ use[c].at \in {"idle", "probed"}
  BY DEF AskSession, SandboxTyped, NoUse, Uses
<1>3. ActiveCalls' = ActiveCalls
  BY <1>1, <1>2 DEF ActiveCalls, Active, CreateSteps, WorkSteps
<1>4. registry'.count = registry.count /\ registry'.gate = registry.gate /\ muddled' = muddled
  BY DEF AskSession, SandboxTyped, Registries
<1>5. IsFiniteSet(Busy) /\ Cardinality(Busy) \in Nat /\ Cardinality(Busy) <= asked /\ asked \in Nat
  BY FS_CardinalityType, SandboxConstants DEF SandboxConstants, SandboxTyped, Counted
<1>6. IsFiniteSet(Busy') /\ Cardinality(Busy') <= asked'
  <2>1. CASE use[c].at = "idle"
    <3>1. Busy' = Busy \cup {c} /\ c \notin Busy
      BY <1>1, <1>2, <2>1 DEF Busy
    <3>2. asked' = asked + 1
      BY <2>1 DEF AskSession
    <3>3. IsFiniteSet(Busy \cup {c}) /\ Cardinality(Busy \cup {c}) = Cardinality(Busy) + 1
      BY <1>5, <3>1, FS_AddElement
    <3> QED
      BY <1>5, <3>1, <3>2, <3>3
  <2>2. CASE use[c].at = "probed"
    <3>1. Busy' = Busy
      BY <1>1, <1>2, <2>2 DEF Busy
    <3>2. asked' = asked
      BY <2>2 DEF AskSession
    <3> QED
      BY <1>5, <3>1, <3>2
  <2> QED
    BY <1>2, <2>1, <2>2
<1> QED
  BY <1>3, <1>4, <1>6 DEF Counted

LEMMA UseCounts ==
    ASSUME SandboxTyped, Counted, NEW c \in SandboxCalls, AskSession(c) \/ UseStep(c)
    PROVE  Counted'
<1> DEFINE Goal == StaysBusy /\ (Steady \/ Begins(c) \/ Ends(c))
<1>0. ASSUME Goal PROVE Counted'
  BY <1>0, CountedStep
<1> USE DEF Active, CreateSteps, WorkSteps
<1>1. CASE AskSession(c)
  BY <1>1, AskCounts
<1>2. CASE EnterCreation(c) \/ EnterWork(c)
  <2>1. \A d \in SandboxCalls \ {c} : use'[d] = use[d]
    BY <1>2 DEF EnterCreation, EnterWork, At, SandboxTyped
  <2>2. use'[c].at \in {"inspecting", "looking"} /\ use[c].at \in {"queued", "entering"}
    BY <1>2 DEF EnterCreation, EnterWork, At, SandboxTyped, Uses
  <2>3. ActiveCalls' = ActiveCalls \cup {c} /\ c \notin ActiveCalls /\ Busy' = Busy
    BY <2>1, <2>2 DEF ActiveCalls, Busy
  <2>4. registry.gate = Nil /\ registry' = Registered /\ UNCHANGED <<asked, muddled>>
    BY <1>2 DEF EnterCreation, EnterWork, NoRemovalPending
  <2>5. registry'.count = registry.count + 1 /\ registry'.gate = registry.gate
    BY <2>4 DEF Registered, SandboxTyped, Registries
  <2>6. Begins(c) /\ StaysBusy
    BY <2>3, <2>4, <2>5 DEF Begins, StaysBusy
  <2> QED
    BY <1>0, <2>6
<1>3. CASE RefuseRepeat(c)
  <2>1. \A d \in SandboxCalls \ {c} : use'[d] = use[d]
    BY <1>3 DEF RefuseRepeat, SandboxTyped
  <2>2. use'[c].at = "idle" /\ use[c].at = "entering"
    BY <1>3 DEF RefuseRepeat, SandboxTyped, NoUse
  <2>3. ActiveCalls' = ActiveCalls /\ Busy' = Busy \ {c}
    BY <2>1, <2>2 DEF ActiveCalls, Busy
  <2>4. /\ registry'.count = registry.count /\ registry'.gate = registry.gate
        /\ UNCHANGED <<asked, muddled>>
    BY <1>3 DEF RefuseRepeat, SandboxTyped, Registries
  <2>5. Steady /\ StaysBusy
    BY <2>3, <2>4 DEF Steady, StaysBusy
  <2> QED
    BY <1>0, <2>5
<1>4. CASE InspectSession(c)
  BY <1>0, <1>4, AtCounts, LeavesCounts DEF InspectSession
<1>5. CASE ReplaceBox(c)
  BY <1>0, <1>5, AtCounts, LeavesCounts DEF ReplaceBox
<1>6. CASE CreateBox(c)
  BY <1>0, <1>6, AtCounts, LeavesCounts DEF CreateBox
<1>7. CASE BootBox(c)
  BY <1>0, <1>7, AtCounts DEF BootBox
<1>8. CASE SeedBox(c)
  BY <1>0, <1>8, AtCounts DEF SeedBox
<1>9. CASE UndoCreation(c)
  BY <1>0, <1>9, LeavesCounts DEF UndoCreation
<1>10. CASE ReviveBox(c)
  BY <1>0, <1>10, AtCounts, LeavesCounts DEF ReviveBox, Starts
<1>11. CASE LeaveCreation(c)
  BY <1>0, <1>11, LeavesCounts DEF LeaveCreation
<1>12. CASE LookForBox(c)
  BY <1>0, <1>12, AtCounts, LeavesCounts DEF LookForBox
<1>13. CASE WakeBox(c)
  BY <1>0, <1>13, AtCounts, LeavesCounts DEF WakeBox, Starts
<1>14. CASE CountTasks(c)
  BY <1>0, <1>14, AtCounts, LeavesCounts DEF CountTasks
<1>15. CASE RunCommand(c)
  BY <1>0, <1>15, AtCounts, LeavesCounts DEF RunCommand
<1>16. CASE RemoveOrphan(c)
  BY <1>0, <1>16, LeavesCounts DEF RemoveOrphan
<1> QED
  BY <1>1, <1>2, <1>3, <1>4, <1>5, <1>6, <1>7, <1>8, <1>9, <1>10, <1>11, <1>12, <1>13,
     <1>14, <1>15, <1>16 DEF UseStep

\* The sweep reserves a session only when it counts nobody; a stop request forgets them all.
LEMMA OthersCount ==
    ASSUME SandboxTyped, Counted,
           \/ AskStop \/ StopStep \/ \E s \in Sweeps : SweepStep(s)
           \/ HalfHourPasses \/ DayPasses \/ RunnerRestarts
    PROVE  Counted'
<1>0. IsFiniteSet(ActiveCalls) /\ Cardinality(ActiveCalls) \in Nat
  BY ActiveIsBusy, FS_Subset, FS_CardinalityType DEF Counted
<1>1. CASE UNCHANGED use /\ UNCHANGED <<registry, muddled, asked>>
  BY <1>1 DEF Counted, Busy, ActiveCalls, Active
<1>2. CASE ForgetSession
  <2>1. ActiveCalls' = ActiveCalls /\ Busy' = Busy /\ asked' = asked
    BY <1>2 DEF ForgetSession, ActiveCalls, Active, Busy
  <2>2. registry'.count = 0 /\ (muddled' <=> ActiveCalls # {})
    BY <1>2 DEF ForgetSession, SandboxTyped, Registries, ActiveCalls
  <2>3. ~muddled' => ActiveCalls = {} /\ Cardinality(ActiveCalls) = 0
    BY <2>2, FS_EmptySet
  <2> QED
    BY <1>0, <2>1, <2>2, <2>3 DEF Counted
<1>3. ASSUME NEW s \in Sweeps, SweepStep(s) PROVE Counted'
  <2>1. ActiveCalls' = ActiveCalls /\ Busy' = Busy /\ asked' = asked /\ muddled' = muddled
    BY <1>3 DEF SweepStep, ListBoxes, ReserveSession, StopBox, RemoveBox, ActiveCalls, Active, Busy
  <2>2. registry'.count = registry.count
    BY <1>3 DEF SweepStep, ListBoxes, ReserveSession, StopBox, RemoveBox, Reopened,
                SandboxTyped, Registries
  <2>3. registry'.gate # Nil => registry'.gate = registry.gate \/ registry.count = 0
    BY <1>3 DEF SweepStep, ListBoxes, ReserveSession, StopBox, RemoveBox, Reopened, IsIdle,
                SandboxTyped, Registries
  <2>4. registry.count = 0 /\ ~muddled => ActiveCalls = {}
    BY <1>0, FS_EmptySet DEF Counted
  <2> QED
    BY <2>1, <2>2, <2>3, <2>4 DEF Counted
<1>4. CASE HalfHourPasses
  <2>1. ActiveCalls' = ActiveCalls /\ Busy' = Busy /\ asked' = asked /\ muddled' = muddled
    BY <1>4 DEF HalfHourPasses, ActiveCalls, Active, Busy
  <2>2. registry'.count = registry.count /\ registry'.gate = registry.gate
    BY <1>4 DEF HalfHourPasses, SandboxTyped, Registries
  <2> QED
    BY <2>1, <2>2 DEF Counted
<1>5. CASE RunnerRestarts
  <2>1. \A c \in SandboxCalls : use'[c].at = "idle"
    BY <1>5 DEF RunnerRestarts, NoUse
  <2>2. ActiveCalls' = {} /\ Busy' = {}
    BY <2>1 DEF ActiveCalls, Active, Busy, CreateSteps, WorkSteps
  <2>3. registry'.count = 0 /\ registry'.gate = Nil /\ asked' \in Nat
    BY <1>5, SandboxConstants DEF SandboxConstants, RunnerRestarts, SandboxTyped
  <2> QED
    BY <2>2, <2>3, FS_EmptySet DEF Counted
<1> QED
  BY <1>1, <1>2, <1>3, <1>4, <1>5 DEF StopStep, AskStop, LookBeforeStop, RemoveStopped, DayPasses

LEMMA CountedKept == SandboxTyped /\ Counted /\ [SandboxNext]_sandboxVars => Counted'
<1>1. Counted /\ UNCHANGED sandboxVars => Counted'
  BY DEF Counted, sandboxVars, Busy, ActiveCalls, Active
<1> QED
  BY <1>1, UseCounts, OthersCount DEF SandboxNext

-----------------------------------------------------------------------------
(* The line of runExclusive. *)

\* Nobody joins or leaves the line.
LineRests ==
    /\ registry'.tail = registry.tail
    /\ \A c \in SandboxCalls :
          /\ InLine(c)' = InLine(c) /\ use'[c].after = use[c].after
          /\ InCreation(c)' => InCreation(c) \/ use[c].after = Nil

LEMMA LineRestsStep == ASSUME SandboxTyped, LinedUp, LineRests PROVE LinedUp'
<1>1. PICK f \in [SandboxCalls -> Nat] : Placed(f)
  BY DEF LinedUp
<1>2. /\ registry.tail \in SandboxCalls \cup {Nil}
      /\ \A c \in SandboxCalls : use[c].after \in SandboxCalls \cup {Nil}
  BY DEF SandboxTyped, Registries, Uses
<1>3. \A c \in SandboxCalls : use'[c].after # Nil =>
         InLine(use[c].after)' /\ use'[c].after = use[c].after /\ f[c] = f[use[c].after] + 1
  BY <1>1, <1>2 DEF Placed, LineRests
<1>4. \A c \in SandboxCalls : use'[c].after # Nil =>
         use'[use'[c].after].at = "queued" \/ use'[use'[c].after].at \in CreateSteps
  BY <1>3 DEF InLine, InCreation
<1>5. registry'.tail # Nil =>
         use'[registry'.tail].at = "queued" \/ use'[registry'.tail].at \in CreateSteps
  BY <1>1, <1>2 DEF Placed, LineRests, InLine, InCreation
<1>6. \A c \in SandboxCalls :
        /\ InCreation(c)' \/ ~InLine(c)' => use'[c].after = Nil
        /\ InLine(c)' /\ use'[c].after = Nil => f[c] = 0
        /\ use'[c].after # Nil => f[c] = f[use'[c].after] + 1
        /\ InLine(c)' => registry'.tail # Nil /\ f[c] <= f[registry'.tail]
  BY <1>1, <1>3 DEF Placed, LineRests
<1>7. \A c, d \in SandboxCalls : InLine(c)' /\ InLine(d)' /\ f[c] = f[d] => c = d
  BY <1>1 DEF Placed, LineRests
<1>8. Placed(f)'
  BY <1>4, <1>5, <1>6, <1>7 DEF Placed, InLine, InCreation
<1> QED
  BY <1>8 DEF LinedUp

\* A call joins behind the tail.
LEMMA JoinsLine ==
    ASSUME SandboxTyped, LinedUp, NEW c \in SandboxCalls, AskSession(c)
    PROVE  LinedUp'
<1>1. PICK f \in [SandboxCalls -> Nat] : Placed(f)
  BY DEF LinedUp
<1>t. PICK t \in SandboxCalls \cup {Nil} : t = registry.tail
  BY DEF SandboxTyped, Registries
<1> DEFINE g == [f EXCEPT ![c] = IF t = Nil THEN 0 ELSE f[t] + 1]
<1>2. t \in SandboxCalls \cup {Nil} /\ Nil \notin SandboxCalls
  BY SandboxConstants DEF SandboxConstants
<1>3. g \in [SandboxCalls -> Nat]
  BY <1>2
<1>4. \A d \in SandboxCalls \ {c} : use'[d] = use[d]
  BY DEF AskSession, SandboxTyped
<1>5. use'[c].at = "queued" /\ use'[c].after = t /\ ~InLine(c)
  BY <1>t DEF AskSession, SandboxTyped, NoUse, Uses, InLine, InCreation, CreateSteps
<1>6. registry'.tail = c
  BY DEF AskSession, SandboxTyped, Registries
<1>7. /\ InLine(c)' /\ ~InCreation(c)'
      /\ \A d \in SandboxCalls \ {c} : InLine(d)' = InLine(d) /\ InCreation(d)' = InCreation(d)
  BY <1>4, <1>5 DEF InLine, InCreation, CreateSteps
<1>8. /\ t # Nil => InLine(t) /\ t # c
      /\ \A d \in SandboxCalls : use[d].after # c
      /\ \A d \in SandboxCalls : InLine(d) => t # Nil /\ f[d] <= f[t] /\ f[d] \in Nat
  BY <1>t, <1>1, <1>2, <1>5 DEF Placed
<1>9. \A d \in SandboxCalls \ {c} : g[d] = f[d] /\ (InLine(d) => g[d] < g[c])
  BY <1>2, <1>8
<1>10. \A d, e \in SandboxCalls : InLine(d)' /\ InLine(e)' /\ g[d] = g[e] => d = e
  BY <1>1, <1>3, <1>7, <1>9 DEF Placed
<1>11. ASSUME NEW d \in SandboxCalls
       PROVE  /\ InCreation(d)' \/ ~InLine(d)' => use'[d].after = Nil
              /\ InLine(d)' /\ use'[d].after = Nil => g[d] = 0
              /\ use'[d].after # Nil => InLine(use[d].after)' \/ d = c
              /\ use'[d].after # Nil => g[d] = g[use'[d].after] + 1
              /\ InLine(d)' => g[d] <= g[c]
  <2>1. CASE d = c
    BY <1>2, <1>3, <1>5, <1>7, <1>8, <2>1
  <2>2. CASE d # c
    <3>1. /\ use'[d].after = use[d].after /\ use[d].after # c
          /\ use[d].after \in SandboxCalls \cup {Nil}
      BY <1>4, <1>8, <2>2 DEF SandboxTyped, Uses
    <3> QED
      BY <1>1, <1>2, <1>3, <1>7, <1>9, <2>2, <3>1 DEF Placed
  <2> QED
    BY <2>1, <2>2
<1>13. ASSUME NEW d \in SandboxCalls, use'[d].after # Nil
       PROVE  use'[d].at = use'[d].at /\ (use'[use'[d].after].at = "queued"
                 \/ use'[use'[d].after].at \in CreateSteps)
  <2>1. CASE d = c
    BY <1>2, <1>5, <1>7, <1>8, <1>13, <2>1 DEF InLine, InCreation
  <2>2. CASE d # c
    BY <1>4, <1>11, <1>13, <2>2 DEF InLine, InCreation
  <2> QED
    BY <2>1, <2>2
<1>14. Placed(g)'
  BY <1>2, <1>6, <1>7, <1>10, <1>11, <1>13 DEF Placed, InLine, InCreation
<1> QED
  BY <1>3, <1>14 DEF LinedUp

\* The head leaves, and everyone moves up by one.
LEMMA HeadLeavesLine ==
    ASSUME SandboxTyped, LinedUp, NEW c \in SandboxCalls, InCreation(c),
           NEW step \in {"idle", "probed", "entering"}, Leaves(c, step)
    PROVE  LinedUp'
<1>1. PICK f \in [SandboxCalls -> Nat] : Placed(f)
  BY DEF LinedUp
<1> DEFINE g == [d \in SandboxCalls |-> IF f[d] > 0 THEN f[d] - 1 ELSE 0]
           t == registry.tail
<1>2. t \in SandboxCalls \cup {Nil} /\ Nil \notin SandboxCalls
  BY SandboxConstants DEF SandboxConstants, SandboxTyped, Registries
<1>3. g \in [SandboxCalls -> Nat]
  OBVIOUS
<1>4. InLine(c) /\ use[c].after = Nil /\ f[c] = 0 /\ t # Nil /\ InLine(t)
  BY <1>1 DEF Placed, InLine
<1>5. \A d \in SandboxCalls \ {c} :
        /\ use'[d].at = use[d].at
        /\ use'[d].after = IF use[d].after = c THEN Nil ELSE use[d].after
        /\ use[d].after \in SandboxCalls \cup {Nil}
  BY DEF Leaves, SandboxTyped, Uses
<1>6. use'[c].at = step /\ use'[c].after = Nil
  BY <1>4 DEF Leaves, SandboxTyped, Uses, NoUse
<1>7. ~InLine(c)' /\ \A d \in SandboxCalls \ {c} : InLine(d)' = InLine(d) /\ InCreation(d)' = InCreation(d)
  BY <1>5, <1>6 DEF InLine, InCreation, CreateSteps
<1>8. registry'.tail = IF t = c THEN Nil ELSE t
  BY DEF Leaves, Finished, SandboxTyped, Registries
<1>9. \A d \in SandboxCalls \ {c} : InLine(d) => f[d] \in Nat /\ f[d] > 0
  BY <1>1, <1>4 DEF Placed
<1>10. \A d, e \in SandboxCalls : InLine(d)' /\ InLine(e)' /\ g[d] = g[e] => d = e
  <2> SUFFICES ASSUME NEW d \in SandboxCalls, NEW e \in SandboxCalls, InLine(d)', InLine(e)', g[d] = g[e]
               PROVE  d = e
    OBVIOUS
  <2>1. d # c /\ e # c /\ InLine(d) /\ InLine(e)
    BY <1>7
  <2>2. f[d] \in Nat /\ f[d] > 0 /\ f[e] \in Nat /\ f[e] > 0
    BY <1>9, <2>1
  <2>3. f[d] = f[e]
    BY <2>2
  <2> QED
    BY <1>1, <2>1, <2>3 DEF Placed
<1>11. ASSUME NEW d \in SandboxCalls
       PROVE  /\ InCreation(d)' \/ ~InLine(d)' => use'[d].after = Nil
              /\ InLine(d)' /\ use'[d].after = Nil => g[d] = 0
              /\ use'[d].after # Nil =>
                    /\ InLine(use[d].after) /\ use[d].after # c /\ use'[d].after = use[d].after
                    /\ use[d].after \in SandboxCalls /\ g[d] = g[use[d].after] + 1
              /\ InLine(d)' => t # c /\ g[d] <= g[t]
  <2>1. CASE d = c
    BY <1>6, <1>7, <2>1
  <2>2. CASE d # c
    <3>1. InCreation(d)' \/ ~InLine(d)' => use'[d].after = Nil
      BY <1>1, <1>5, <1>7, <2>2 DEF Placed
    <3>2. ASSUME InLine(d)', use'[d].after = Nil PROVE g[d] = 0
      <4>1. InLine(d) /\ f[d] \in Nat /\ f[d] > 0
        BY <1>7, <1>9, <2>2, <3>2
      <4>2. use[d].after # Nil
        BY <1>1, <4>1 DEF Placed
      <4>3. use[d].after = c
        BY <1>5, <2>2, <3>2, <4>2
      <4>4. f[d] = f[c] + 1
        BY <1>1, <4>2, <4>3 DEF Placed
      <4> QED
        BY <1>4, <4>4
    <3>3. ASSUME use'[d].after # Nil
          PROVE  /\ InLine(use[d].after) /\ use[d].after # c /\ use'[d].after = use[d].after
                 /\ use[d].after \in SandboxCalls /\ g[d] = g[use[d].after] + 1
      <4>1. /\ use[d].after # c /\ use'[d].after = use[d].after /\ use[d].after # Nil
            /\ use[d].after \in SandboxCalls
        BY <1>5, <2>2, <3>3
      <4>2. InLine(use[d].after) /\ f[d] = f[use[d].after] + 1
        BY <1>1, <4>1 DEF Placed
      <4>3. f[use[d].after] \in Nat /\ f[use[d].after] > 0
        BY <1>9, <4>1, <4>2
      <4>4. g[d] = g[use[d].after] + 1
        BY <4>1, <4>2, <4>3
      <4> QED
        BY <4>1, <4>2, <4>4
    <3>4. ASSUME InLine(d)' PROVE t # c /\ g[d] <= g[t]
      <4>1. InLine(d) /\ f[d] \in Nat /\ f[d] > 0
        BY <1>7, <1>9, <2>2, <3>4
      <4>2. f[d] <= f[t] /\ t \in SandboxCalls /\ f[t] \in Nat
        BY <1>1, <1>2, <1>4, <4>1 DEF Placed
      <4>3. t # c
        BY <1>4, <4>1, <4>2
      <4> QED
        BY <4>1, <4>2, <4>3
    <3> QED
      BY <3>1, <3>2, <3>3, <3>4
  <2> QED
    BY <2>1, <2>2
<1>12. \A d \in SandboxCalls : use'[d].after # Nil =>
          use'[use'[d].after].at = "queued" \/ use'[use'[d].after].at \in CreateSteps
  <2> SUFFICES ASSUME NEW d \in SandboxCalls, use'[d].after # Nil
               PROVE  use'[use'[d].after].at = "queued" \/ use'[use'[d].after].at \in CreateSteps
    OBVIOUS
  <2> DEFINE e == use[d].after
  <2>1. InLine(e) /\ e # c /\ use'[d].after = e /\ e \in SandboxCalls
    BY <1>11
  <2>2. use'[e].at = use[e].at
    BY <1>5, <2>1
  <2> QED
    BY <2>1, <2>2 DEF InLine, InCreation
<1>13. registry'.tail # Nil => InLine(t)' /\ registry'.tail = t
  BY <1>2, <1>4, <1>7, <1>8
<1>14. Placed(g)'
  BY <1>2, <1>4, <1>8, <1>10, <1>11, <1>12, <1>13 DEF Placed, InLine, InCreation
<1> QED
  BY <1>3, <1>14 DEF LinedUp

LEMMA AtRestsLine ==
    ASSUME SandboxTyped, NEW c \in SandboxCalls, NEW step, At(c, step), UNCHANGED registry,
           \/ use[c].at \in CreateSteps /\ step \in CreateSteps
           \/ use[c].at \in WorkSteps /\ step \in WorkSteps
    PROVE  LineRests
<1>1. /\ \A d \in SandboxCalls \ {c} : use'[d] = use[d]
      /\ use'[c].at = step /\ use'[c].after = use[c].after
  BY DEF At, SandboxTyped, Uses
<1> QED
  BY <1>1 DEF LineRests, InLine, InCreation, CreateSteps, WorkSteps

\* An operation that made no session ends: the line does not know it.
LEMMA WorkLeavesRestsLine ==
    ASSUME SandboxTyped, LinedUp, NEW c \in SandboxCalls, use[c].at \in WorkSteps,
           NEW step \in {"idle", "probed", "entering"}, Leaves(c, step)
    PROVE  LineRests
<1>1. PICK f \in [SandboxCalls -> Nat] : Placed(f)
  BY DEF LinedUp
<1>2. ~InLine(c)
  BY DEF InLine, InCreation, CreateSteps, WorkSteps
<1>3. registry.tail # c /\ use[c].after = Nil /\ \A d \in SandboxCalls : use[d].after # c
  BY <1>1, <1>2, SandboxConstants DEF SandboxConstants, Placed
<1>4. \A d \in SandboxCalls \ {c} : use'[d] = use[d]
  BY <1>3 DEF Leaves
<1>5. use'[c].after = Nil /\ use'[c].at = step
  BY <1>3 DEF Leaves, NoUse, SandboxTyped, Uses
<1>6. registry'.tail = registry.tail
  BY <1>3 DEF Leaves, Finished, SandboxTyped, Registries
<1> QED
  BY <1>2, <1>3, <1>4, <1>5, <1>6 DEF LineRests, InLine, InCreation, CreateSteps

LEMMA UseLinedUp ==
    ASSUME SandboxTyped, LinedUp, NEW c \in SandboxCalls, AskSession(c) \/ UseStep(c)
    PROVE  LinedUp'
<1>0. ASSUME LineRests PROVE LinedUp'
  BY <1>0, LineRestsStep
<1>1. CASE AskSession(c)
  BY <1>1, JoinsLine
<1>2. CASE EnterCreation(c)
  <2>1. \A d \in SandboxCalls \ {c} : use'[d] = use[d]
    BY <1>2 DEF EnterCreation, At, SandboxTyped
  <2>2. /\ use'[c].at = "inspecting" /\ use'[c].after = use[c].after
        /\ use[c].at = "queued" /\ use[c].after = Nil
    BY <1>2 DEF EnterCreation, At, SandboxTyped, Uses
  <2>3. registry'.tail = registry.tail
    BY <1>2 DEF EnterCreation, Registered, SandboxTyped, Registries
  <2>4. LineRests
    BY <2>1, <2>2, <2>3 DEF LineRests, InLine, InCreation, CreateSteps
  <2> QED
    BY <1>0, <2>4
<1>3. CASE EnterWork(c) \/ RefuseRepeat(c)
  <2>0. PICK f \in [SandboxCalls -> Nat] : Placed(f)
    BY DEF LinedUp
  <2>1. \A d \in SandboxCalls \ {c} : use'[d] = use[d]
    BY <1>3 DEF EnterWork, RefuseRepeat, SandboxTyped
  <2>2. use'[c].at \in {"looking", "idle"} /\ use[c].at = "entering"
    BY <1>3 DEF EnterWork, RefuseRepeat, SandboxTyped, Uses, NoUse
  <2>3. use'[c].after = use[c].after
    <3>1. use[c].after = Nil
      BY <2>0, <2>2 DEF Placed, InLine, InCreation, CreateSteps
    <3> QED
      BY <1>3, <3>1 DEF EnterWork, RefuseRepeat, SandboxTyped, Uses, NoUse
  <2>4. registry'.tail = registry.tail
    BY <1>3 DEF EnterWork, RefuseRepeat, Registered, SandboxTyped, Registries
  <2>5. LineRests
    BY <2>1, <2>2, <2>3, <2>4 DEF LineRests, InLine, InCreation, CreateSteps
  <2> QED
    BY <1>0, <2>5
<1> USE AtRestsLine, HeadLeavesLine, WorkLeavesRestsLine DEF InCreation, CreateSteps, WorkSteps
<1>4. CASE InspectSession(c)
  BY <1>0, <1>4 DEF InspectSession
<1>5. CASE ReplaceBox(c)
  BY <1>0, <1>5 DEF ReplaceBox
<1>6. CASE CreateBox(c)
  BY <1>0, <1>6 DEF CreateBox
<1>7. CASE BootBox(c)
  BY <1>0, <1>7 DEF BootBox
<1>8. CASE SeedBox(c)
  BY <1>0, <1>8 DEF SeedBox
<1>9. CASE UndoCreation(c)
  BY <1>0, <1>9 DEF UndoCreation
<1>10. CASE ReviveBox(c)
  BY <1>0, <1>10 DEF ReviveBox, Starts
<1>11. CASE LeaveCreation(c)
  BY <1>0, <1>11 DEF LeaveCreation
<1>12. CASE LookForBox(c)
  BY <1>0, <1>12 DEF LookForBox
<1>13. CASE WakeBox(c)
  BY <1>0, <1>13 DEF WakeBox, Starts
<1>14. CASE CountTasks(c)
  BY <1>0, <1>14 DEF CountTasks
<1>15. CASE RunCommand(c)
  BY <1>0, <1>15 DEF RunCommand
<1>16. CASE RemoveOrphan(c)
  BY <1>0, <1>16 DEF RemoveOrphan
<1> QED
  BY <1>1, <1>2, <1>3, <1>4, <1>5, <1>6, <1>7, <1>8, <1>9, <1>10, <1>11, <1>12, <1>13,
     <1>14, <1>15, <1>16 DEF UseStep

LEMMA OthersLinedUp ==
    ASSUME SandboxTyped, LinedUp,
           \/ AskStop \/ StopStep \/ \E s \in Sweeps : SweepStep(s)
           \/ HalfHourPasses \/ DayPasses \/ RunnerRestarts
    PROVE  LinedUp'
<1>1. CASE UNCHANGED use /\ registry'.tail = registry.tail
  <2>1. LineRests
    BY <1>1 DEF LineRests, InLine, InCreation
  <2> QED
    BY <2>1, LineRestsStep
<1>2. CASE RunnerRestarts
  <2>1. \A c \in SandboxCalls : use'[c] = NoUse
    BY <1>2 DEF RunnerRestarts
  <2>2. \A c \in SandboxCalls : ~InLine(c)' /\ ~InCreation(c)' /\ use'[c].after = Nil
    BY <2>1 DEF NoUse, InLine, InCreation, CreateSteps
  <2>3. registry'.tail = Nil
    BY <1>2 DEF RunnerRestarts
  <2>4. PICK f : f = [c \in SandboxCalls |-> 0]
    OBVIOUS
  <2>5. f \in [SandboxCalls -> Nat]
    BY <2>4
  <2>6. Placed(f)'
    BY <2>2, <2>3 DEF Placed
  <2> QED
    BY <2>5, <2>6 DEF LinedUp
<1>3. ASSUME NEW s \in Sweeps, SweepStep(s) PROVE UNCHANGED use /\ registry'.tail = registry.tail
  BY <1>3 DEF SweepStep, ListBoxes, ReserveSession, StopBox, RemoveBox, Reopened,
              SandboxTyped, Registries
<1>4. CASE ForgetSession \/ HalfHourPasses
  <2>1. UNCHANGED use /\ registry'.tail = registry.tail
    BY <1>4 DEF ForgetSession, HalfHourPasses, SandboxTyped, Registries
  <2> QED
    BY <1>1, <2>1
<1> QED
  BY <1>1, <1>2, <1>3, <1>4 DEF StopStep, AskStop, LookBeforeStop, RemoveStopped, DayPasses

LEMMA LinedUpKept == SandboxTyped /\ LinedUp /\ [SandboxNext]_sandboxVars => LinedUp'
<1>1. ASSUME SandboxTyped, LinedUp, UNCHANGED sandboxVars PROVE LinedUp'
  <2>1. LineRests
    BY <1>1 DEF LineRests, InLine, InCreation, sandboxVars
  <2> QED
    BY <1>1, <2>1, LineRestsStep
<1> QED
  BY <1>1, UseLinedUp, OthersLinedUp DEF SandboxNext

\* Creations of a session exclude each other: only the first in line may be at work.
LEMMA OneCreates ==
    ASSUME LinedUp, NEW c \in SandboxCalls, NEW d \in SandboxCalls, InCreation(c), InCreation(d)
    PROVE  c = d
BY DEF LinedUp, Placed, InLine

-----------------------------------------------------------------------------
(* The seeds of a container. *)

Unseeded == box.state # "absent" /\ ~box.seeded /\ ~leftover

LEMMA SeedsRest ==
    ASSUME SeedsComing, Unseeded' => Unseeded,
           \A c \in SandboxCalls : Building(c) => Building(c)'
    PROVE  SeedsComing'
BY DEF SeedsComing, Unseeded

LEMMA AtBuilds ==
    ASSUME SandboxTyped, NEW c \in SandboxCalls, NEW step, At(c, step),
           ~Building(c) \/ step \in {"booting", "seeding", "undoing"}
    PROVE  \A d \in SandboxCalls : Building(d) => Building(d)'
BY DEF At, Building, SandboxTyped, Uses

LEMMA LeavesBuilds ==
    ASSUME SandboxTyped, NEW c \in SandboxCalls, NEW step, Leaves(c, step), ~Building(c)
    PROVE  \A d \in SandboxCalls : Building(d) => Building(d)'
BY DEF Leaves, Building, SandboxTyped, Uses

LEMMA RunsSeeds ==
    ASSUME SandboxTyped, BoxRuns, box.state # "absent", UNCHANGED leftover
    PROVE  Unseeded' => Unseeded
BY DEF BoxRuns, Unseeded, SandboxTyped, Boxes

LEMMA RemovedSeeds == BoxRemoved => ~Unseeded'
BY DEF BoxRemoved, NoBox, Unseeded

LEMMA UseSeeds ==
    ASSUME SandboxTyped, SeedsComing, NEW c \in SandboxCalls, AskSession(c) \/ UseStep(c)
    PROVE  SeedsComing'
<1> USE DEF Building
<1>1. CASE AskSession(c) \/ EnterCreation(c) \/ EnterWork(c) \/ RefuseRepeat(c)
  <2>1. UNCHANGED <<box, leftover>>
    BY <1>1 DEF AskSession, EnterCreation, EnterWork, RefuseRepeat
  <2>2. \A d \in SandboxCalls \ {c} : use'[d] = use[d]
    BY <1>1 DEF AskSession, EnterCreation, EnterWork, RefuseRepeat, At, SandboxTyped
  <2>3. ~Building(c)
    BY <1>1 DEF AskSession, EnterCreation, EnterWork, RefuseRepeat
  <2> QED
    BY <2>1, <2>2, <2>3, SeedsRest DEF Unseeded
<1>2. CASE InspectSession(c) \/ LeaveCreation(c) \/ LookForBox(c) \/ RunCommand(c)
  <2>1. UNCHANGED <<box, leftover>> /\ ~Building(c)
    BY <1>2 DEF InspectSession, LeaveCreation, LookForBox, RunCommand
  <2>2. \A d \in SandboxCalls : Building(d) => Building(d)'
    BY <1>2, <2>1, AtBuilds, LeavesBuilds DEF InspectSession, LeaveCreation, LookForBox, RunCommand
  <2> QED
    BY <2>1, <2>2, SeedsRest DEF Unseeded
<1>3. CASE ReplaceBox(c)
  <2>1. \A d \in SandboxCalls : Building(d) => Building(d)'
    BY <1>3, AtBuilds, LeavesBuilds DEF ReplaceBox
  <2>2. Unseeded' => Unseeded
    BY <1>3, RemovedSeeds DEF ReplaceBox, Unseeded
  <2> QED
    BY <2>1, <2>2, SeedsRest
<1>4. CASE CreateBox(c)
  <2>1. CASE At(c, "booting")
    <3>1. Building(c)'
      BY <2>1 DEF At, SandboxTyped, Uses
    <3> QED
      BY <3>1 DEF SeedsComing
  <2>2. CASE Leaves(c, "idle") /\ UNCHANGED box
    <3>1. UNCHANGED leftover /\ ~Building(c)
      BY <1>4 DEF CreateBox
    <3>2. \A d \in SandboxCalls : Building(d) => Building(d)'
      BY <2>2, <3>1, LeavesBuilds
    <3> QED
      BY <2>2, <3>1, <3>2, SeedsRest DEF Unseeded
  <2> QED
    BY <1>4, <2>1, <2>2 DEF CreateBox
<1>5. CASE BootBox(c)
  <2>1. Building(c)'
    BY <1>5 DEF BootBox, At, SandboxTyped, Uses
  <2> QED
    BY <2>1 DEF SeedsComing
<1>6. CASE SeedBox(c)
  <2>1. CASE box' = [box EXCEPT !.seeded = TRUE]
    BY <2>1 DEF SeedsComing, SandboxTyped, Boxes
  <2>2. CASE At(c, "undoing")
    <3>1. Building(c)'
      BY <2>2 DEF At, SandboxTyped, Uses
    <3> QED
      BY <3>1 DEF SeedsComing
  <2> QED
    BY <1>6, <2>1, <2>2 DEF SeedBox
<1>7. CASE UndoCreation(c)
  BY <1>7, RemovedSeeds DEF UndoCreation, SeedsComing, Unseeded
<1>8. CASE ReviveBox(c) \/ WakeBox(c)
  <2>1. UNCHANGED leftover /\ ~Building(c)
    BY <1>8 DEF ReviveBox, WakeBox
  <2>2. \A d \in SandboxCalls : Building(d) => Building(d)'
    BY <1>8, <2>1, AtBuilds, LeavesBuilds DEF ReviveBox, WakeBox, Starts
  <2>3. Unseeded' => Unseeded
    BY <1>8, <2>1, RunsSeeds DEF ReviveBox, WakeBox, Starts, Unseeded
  <2> QED
    BY <2>2, <2>3, SeedsRest
<1>9. CASE CountTasks(c)
  <2>1. UNCHANGED leftover /\ ~Building(c)
    BY <1>9 DEF CountTasks
  <2>2. \A d \in SandboxCalls : Building(d) => Building(d)'
    BY <1>9, <2>1, AtBuilds, LeavesBuilds DEF CountTasks
  <2>3. Unseeded' => Unseeded
    BY <1>9, <2>1, RunsSeeds DEF CountTasks, Unseeded
  <2> QED
    BY <2>2, <2>3, SeedsRest
<1>10. CASE RemoveOrphan(c)
  <2>1. UNCHANGED leftover /\ ~Building(c)
    BY <1>10 DEF RemoveOrphan
  <2>2. \A d \in SandboxCalls : Building(d) => Building(d)'
    BY <1>10, <2>1, LeavesBuilds DEF RemoveOrphan
  <2>3. Unseeded' => Unseeded
    BY <1>10, <2>1, RemovedSeeds DEF RemoveOrphan, Unseeded
  <2> QED
    BY <2>2, <2>3, SeedsRest
<1> QED
  BY <1>1, <1>2, <1>3, <1>4, <1>5, <1>6, <1>7, <1>8, <1>9, <1>10 DEF UseStep

LEMMA SeedsKept == SandboxTyped /\ SeedsComing /\ [SandboxNext]_sandboxVars => SeedsComing'
<1> SUFFICES ASSUME SandboxTyped, SeedsComing, [SandboxNext]_sandboxVars PROVE SeedsComing'
  OBVIOUS
<1>1. CASE UNCHANGED use /\ (Unseeded' => Unseeded)
  BY <1>1, SeedsRest DEF Building
<1>2. ASSUME \/ AskStop \/ StopStep \/ HalfHourPasses \/ DayPasses \/ UNCHANGED sandboxVars
      PROVE  UNCHANGED use /\ (Unseeded' => Unseeded)
  BY <1>2, RemovedSeeds
     DEF AskStop, StopStep, LookBeforeStop, RemoveStopped, ForgetSession, HalfHourPasses, DayPasses,
         sandboxVars, Unseeded, SandboxTyped, Boxes
<1>3. ASSUME NEW s \in Sweeps, SweepStep(s) PROVE UNCHANGED use /\ (Unseeded' => Unseeded)
  BY <1>3 DEF SweepStep, ListBoxes, ReserveSession, StopBox, RemoveBox, NoBox, Unseeded,
              SandboxTyped, Boxes
<1>4. CASE RunnerRestarts
  BY <1>4 DEF RunnerRestarts, SeedsComing, NoBox
<1> QED
  BY <1>1, <1>2, <1>3, <1>4, UseSeeds DEF SandboxNext

\* A container handed over has its seeds: who makes one holds the lock, and so does who
\* hands it over.
LEMMA HandsOverSeeded ==
    ASSUME LinedUp, SeedsComing, NEW c \in SandboxCalls, use[c].at = "ensured"
    PROVE  box.state = "absent" \/ box.seeded \/ leftover
<1> SUFFICES ASSUME NEW d \in SandboxCalls, Building(d) PROVE FALSE
  BY DEF SeedsComing
<1>1. InCreation(c) /\ InCreation(d)
  BY DEF InCreation, CreateSteps, Building
<1>2. c = d
  BY <1>1, OneCreates
<1> QED
  BY <1>2 DEF Building

-----------------------------------------------------------------------------

LEMMA SandboxInvInit == SandboxInit => SandboxInv
<1> SUFFICES ASSUME SandboxInit PROVE SandboxInv
  OBVIOUS
<1>1. SandboxTyped
  <2>1. NoBox \in Boxes /\ NoUse \in Uses /\ NoSweep \in SweepStates
    BY DEF NoBox, Boxes, NoUse, Uses, UseAts, NoSweep, SweepStates
  <2>2. registry \in Registries
    BY DEF SandboxInit, Registries
  <2>3. asked \in 0..MaxSandboxCalls /\ stops \in 0..MaxSandboxStops /\ outages \in 0..MaxSandboxFaults
    BY SandboxConstants DEF SandboxConstants, SandboxInit
  <2>4. use \in [SandboxCalls -> Uses] /\ sweep \in [Sweeps -> SweepStates] /\ box \in Boxes
    BY <2>1 DEF SandboxInit
  <2> QED
    BY <2>2, <2>3, <2>4 DEF SandboxInit, SandboxTyped
<1>2. \A c \in SandboxCalls : use[c] = NoUse
  BY DEF SandboxInit
<1>3. Counted
  <2>1. Busy = {} /\ ActiveCalls = {}
    BY <1>2 DEF Busy, ActiveCalls, Active, CreateSteps, WorkSteps, NoUse
  <2> QED
    BY <2>1, FS_EmptySet DEF Counted, SandboxInit
<1>4. LinedUp
  <2>1. \A c \in SandboxCalls : ~InLine(c) /\ ~InCreation(c) /\ use[c].after = Nil
    BY <1>2 DEF NoUse, InLine, InCreation, CreateSteps
  <2>2. Placed([c \in SandboxCalls |-> 0])
    BY <2>1 DEF Placed, SandboxInit
  <2> QED
    BY <2>2 DEF LinedUp
<1>5. SeedsComing
  BY DEF SandboxInit, NoBox, SeedsComing
<1> QED
  BY <1>1, <1>3, <1>4, <1>5 DEF SandboxInv

LEMMA SandboxInvStep == SandboxInv /\ [SandboxNext]_sandboxVars => SandboxInv'
BY SandboxStepTyped, CountedKept, LinedUpKept, SeedsKept DEF SandboxInv

LEMMA SandboxTypeHolds == SandboxInv => SandboxTypeOK
<1> SUFFICES ASSUME SandboxInv PROVE SandboxTypeOK
  OBVIOUS
<1>1. IsFiniteSet(Busy) /\ Cardinality(Busy) \in Nat /\ Cardinality(Busy) <= asked
  BY FS_CardinalityType DEF SandboxInv, Counted
<1>2. Cardinality(ActiveCalls) \in Nat /\ Cardinality(ActiveCalls) <= Cardinality(Busy)
  BY <1>1, ActiveIsBusy, FS_Subset, FS_CardinalityType
<1>3. registry.count \in Nat /\ registry.count <= Cardinality(ActiveCalls)
      /\ asked \in 0..MaxSandboxCalls /\ MaxSandboxCalls \in Nat
  BY SandboxConstants DEF SandboxConstants, SandboxInv, Counted, SandboxTyped, Registries
<1>4. registry.count \in 0..MaxSandboxCalls
  BY <1>1, <1>2, <1>3
<1> QED
  BY <1>4 DEF SandboxInv, SandboxTyped, SandboxTypeOK, Boxes, Registries, Uses, UseAts, SweepStates

LEMMA SandboxKeptHolds == SandboxInv => SandboxKept
BY HandsOverSeeded DEF SandboxInv, Counted, SandboxKept

\* Container, registry, calls and sweeps keep their shape, and the count of active calls
\* never goes beyond the calls asked for.
THEOREM SandboxTypeCorrect == SandboxSpec => []SandboxTypeOK
BY SandboxInvInit, SandboxInvStep, SandboxTypeHolds, PTL DEF SandboxSpec

\* Creations of a session stand in one line, and the count of the registry is exact
\* unless a stop request forgot a call.
THEOREM SandboxInvariant == SandboxSpec => []SandboxInv
BY SandboxInvInit, SandboxInvStep, PTL DEF SandboxSpec

\* The sweep never touches a container in use and the registry never counts a call that
\* is over, unless a stop request forgot a call that still runs; and what a creation
\* hands over has its seeds (docker-sandbox-lifecycle.ts:12).
THEOREM SandboxKeptCorrect == SandboxSpec => []SandboxKept
BY SandboxInvariant, SandboxKeptHolds, PTL

\* At most one call is inside createSession, whatever stops, sweeps and failures come
\* between (runExclusive).
THEOREM CreationsTakeTurns ==
    SandboxSpec => [](\A c, d \in SandboxCalls : InCreation(c) /\ InCreation(d) => c = d)
<1>1. SandboxInv => \A c, d \in SandboxCalls : InCreation(c) /\ InCreation(d) => c = d
  BY OneCreates DEF SandboxInv
<1> QED
  BY <1>1, SandboxInvariant, PTL

LEMMA FirstInLine ==
    ASSUME SandboxTyped, LinedUp, NEW c \in SandboxCalls, InLine(c)
    PROVE  \E d \in SandboxCalls : InLine(d) /\ use[d].after = Nil
<1>1. PICK f \in [SandboxCalls -> Nat] : Placed(f)
  BY DEF LinedUp
<1> DEFINE T == {n \in Nat : \E d \in SandboxCalls : InLine(d) /\ f[d] = n}
<1>2. T \in SUBSET Nat /\ T # {}
  <2>1. f[c] \in Nat
    BY <1>1
  <2> QED
    BY <2>1
<1>3. PICK n \in T : \A m \in T : n <= m
  <2> HIDE DEF T
  <2> QED
    BY <1>2, SmallestOne
<1>4. PICK d \in SandboxCalls : InLine(d) /\ f[d] = n
  BY <1>3
<1>5. SUFFICES ASSUME use[d].after # Nil PROVE FALSE
  BY <1>4
<1>6. use[d].after \in SandboxCalls
  BY <1>4, <1>5 DEF SandboxTyped, Uses
<1>7. InLine(use[d].after) /\ f[d] = f[use[d].after] + 1
  BY <1>1, <1>4, <1>5 DEF Placed
<1>8. f[use[d].after] \in T /\ f[use[d].after] < n
  <2>1. f[use[d].after] \in Nat
    BY <1>1, <1>6
  <2> QED
    BY <1>4, <1>6, <1>7, <2>1
<1> QED
  BY <1>3, <1>8

\* The turn is never lost: as long as a call waits for the creation of a session, some
\* call is inside it or is the next to enter, though a creation may fail, its call be
\* forgotten by a stop request, or another one join behind it (runExclusive).
THEOREM TurnIsPassedOn ==
    SandboxSpec => [](\A c \in SandboxCalls :
                          use[c].at = "queued" =>
                              \E d \in SandboxCalls : InLine(d) /\ use[d].after = Nil)
<1>1. SandboxInv => \A c \in SandboxCalls :
                        use[c].at = "queued" => \E d \in SandboxCalls : InLine(d) /\ use[d].after = Nil
  BY FirstInLine DEF SandboxInv, InLine
<1> QED
  BY <1>1, SandboxInvariant, PTL

-----------------------------------------------------------------------------
(***************************************************************************)
(* Repeating tasks. The dates of a rule grow with their index and are the  *)
(* days on the rule; the estimate of nextOccurrenceOn is at most one index *)
(* short, so that the search ends at its first or second date.             *)
(***************************************************************************)

\* Quotient and remainder.
LEMMA Quotient ==
    ASSUME NEW a \in Int, NEW b \in Nat, b > 0
    PROVE  a \div b \in Int /\ a % b \in 0..(b - 1) /\ a = b * (a \div b) + (a % b)
OBVIOUS

LEMMA QuotientIs ==
    ASSUME NEW b \in Nat, b > 0, NEW q \in Int, NEW r \in 0..(b - 1), NEW a \in Int, a = b * q + r
    PROVE  a \div b = q /\ a % b = r
OBVIOUS

\* Leap days: at most one a year.
LEMMA LeapInt == \A y \in Int : LeapDays(y) \in Int
BY DEF LeapDays

LEMMA LeapGrows1 ==
    ASSUME NEW y \in Int PROVE LeapDays(y+1) - LeapDays(y) \in {0, 1}
BY DEF LeapDays

LEMMA LeapGrows ==
    ASSUME NEW y \in Int, NEW z \in Int, y <= z
    PROVE  LeapDays(y) <= LeapDays(z)
BY DEF LeapDays

\* The month after December is January.
LEMMA MonthSucc ==
    ASSUME NEW m \in Nat
    PROVE  \/ m % 12 < 11 /\ (m + 1) \div 12 = m \div 12 /\ (m + 1) % 12 = (m % 12) + 1
           \/ m % 12 = 11 /\ (m + 1) \div 12 = m \div 12 + 1 /\ (m + 1) % 12 = 0
OBVIOUS

\* The table of the months.
LEMMA BeforeMonthIs ==
    ASSUME NEW k \in 0..11
    PROVE  /\ BeforeMonth[k + 1] \in Nat
           /\ BeforeMonth[k + 1] >= 28 * k /\ BeforeMonth[k + 1] <= 334
           /\ k < 11 /\ k # 1 => BeforeMonth[k + 2] - BeforeMonth[k + 1] \in 30..31
           /\ k = 1 => BeforeMonth[k + 2] - BeforeMonth[k + 1] = 28
           /\ k = 0 => BeforeMonth[k + 1] = 0
           /\ k = 11 => BeforeMonth[k + 1] = 334
<1>1. k \in {0, 1, 2, 3, 4, 5, 6, 7, 8, 9, 10, 11}
  OBVIOUS
<1> QED
  BY <1>1 DEF BeforeMonth

\* A month begins at a day, and no earlier than after 28 days for each month before.
LEMMA DaysBeforeIs ==
    ASSUME NEW m \in Nat
    PROVE  /\ DaysBefore(m) \in Nat /\ DaysBefore(m) >= 28 * m
           /\ m = 0 => DaysBefore(m) = 0
<1>1. m \div 12 \in Nat /\ m % 12 \in 0..11 /\ m = 12 * (m \div 12) + (m % 12)
  OBVIOUS
<1> DEFINE y == m \div 12
           k == m % 12
           f == LastFebruary(m)
<1>2. FirstYear \in Nat /\ f \in Int /\ f >= FirstYear - 1 /\ (m = 0 => f = FirstYear - 1 /\ y = 0 /\ k = 0)
  BY <1>1, RecurrenceConstants DEF RecurrenceConstants, LastFebruary
<1>3. DaysBefore(m) = 365 * y + BeforeMonth[k + 1] + LeapDays(f) - LeapDays(FirstYear - 1)
  BY <1>1 DEF DaysBefore
<1>4. LeapDays(f) \in Int /\ LeapDays(FirstYear - 1) \in Int /\ LeapDays(FirstYear - 1) <= LeapDays(f)
  BY <1>2, LeapGrows, LeapInt
<1>5. BeforeMonth[k + 1] \in Nat /\ BeforeMonth[k + 1] >= 28 * k /\ (k = 0 => BeforeMonth[k + 1] = 0)
  BY <1>1, BeforeMonthIs
<1> HIDE DEF y, k, f
<1>6. y \in Nat /\ k \in 0..11 /\ m = 12 * y + k
  BY <1>1 DEF y, k
<1> QED
  BY <1>2, <1>3, <1>4, <1>5, <1>6

\* A month has 28 to 31 days.
LEMMA MonthLengthIs ==
    ASSUME NEW m \in Nat
    PROVE  MonthEnd(m) = DaysBefore(m) + MonthLength(m) /\ MonthLength(m) \in 28..31
<1>1. m \div 12 \in Nat /\ m % 12 \in 0..11
  OBVIOUS
<1> DEFINE y == m \div 12
           k == m % 12
           f == LastFebruary(m)
<1>0. FirstYear \in Nat
  BY RecurrenceConstants DEF RecurrenceConstants
<1>2. DaysBefore(m) = 365 * y + BeforeMonth[k + 1] + LeapDays(f) - LeapDays(FirstYear - 1)
  BY <1>1 DEF DaysBefore
<1>3. f \in Int /\ LeapDays(FirstYear - 1) \in Int /\ LeapDays(f) \in Int /\ LeapDays(f + 1) - LeapDays(f) \in {0, 1}
  BY <1>0, <1>1, LeapInt, LeapGrows1 DEF LastFebruary
<1>4. DaysBefore(m) \in Nat /\ DaysBefore(m + 1) \in Nat
  BY DaysBeforeIs
<1>5. CASE k < 11
  <2>1. (m + 1) \div 12 = y /\ (m + 1) % 12 = k + 1
    BY <1>5, MonthSucc
  <2> DEFINE g == LastFebruary(m + 1)
  <2>2. DaysBefore(m + 1) = 365 * y + BeforeMonth[(k + 1) + 1] + LeapDays(g) - LeapDays(FirstYear - 1)
    BY <2>1 DEF DaysBefore
  <2>3. /\ BeforeMonth[k + 1] \in Nat /\ BeforeMonth[k + 2] \in Nat
        /\ BeforeMonth[k + 2] - BeforeMonth[k + 1] \in 28..31
        /\ k # 1 => BeforeMonth[k + 2] - BeforeMonth[k + 1] \in 30..31
        /\ k = 1 => BeforeMonth[k + 2] - BeforeMonth[k + 1] = 28
    <3>1. k \in 0..11 /\ k + 1 \in 0..11 /\ (k + 1) + 1 = k + 2
      BY <1>1, <1>5
    <3> HIDE DEF k
    <3> QED
      BY <3>1, <1>5, BeforeMonthIs
  <2>4. (k + 1) + 1 = k + 2 /\ y \in Nat
    BY <1>1
  <2>5. CASE k = 1
    <3>1. g = f + 1
      BY <2>1, <2>5, <1>0, <1>1 DEF LastFebruary
    <3> HIDE DEF f, g, y, k
    <3>2. LeapDays(g) \in Int /\ LeapDays(g) - LeapDays(f) \in {0, 1}
      BY <3>1, <1>3, LeapInt
    <3> QED
      BY <3>2, <2>2, <2>3, <2>4, <2>5, <1>2, <1>3, <1>4 DEF MonthEnd, MonthLength
  <2>6. CASE k # 1
    <3>1. g = f
      BY <2>1, <2>6, <1>0, <1>1, <1>5 DEF LastFebruary
    <3> HIDE DEF f, g, y, k
    <3> QED
      BY <3>1, <2>2, <2>3, <2>4, <2>6, <1>2, <1>3, <1>4 DEF MonthEnd, MonthLength
  <2> QED
    BY <2>5, <2>6
<1>6. CASE k = 11
  <2>1. (m + 1) \div 12 = y + 1 /\ (m + 1) % 12 = 0
    BY <1>6, MonthSucc
  <2>2. DaysBefore(m + 1) = 365 * (y + 1) + BeforeMonth[0 + 1] + LeapDays(LastFebruary(m + 1)) - LeapDays(FirstYear - 1)
    BY <2>1 DEF DaysBefore
  <2>3. BeforeMonth[k + 1] = 334 /\ BeforeMonth[0 + 1] = 0
    BY <1>6, BeforeMonthIs
  <2>4. f = LastFebruary(m + 1) /\ y \in Nat
    BY <1>0, <1>1, <1>6, <2>1 DEF LastFebruary
  <2> HIDE DEF f, y, k
  <2> QED
    BY <2>2, <2>3, <2>4, <1>0, <1>2, <1>3, <1>4 DEF MonthEnd, MonthLength
<1> QED
  BY <1>1, <1>5, <1>6

\* Months begin one after the other, each after the end of those before.
LEMMA DaysGrow ==
    ASSUME NEW m \in Nat, NEW n \in Nat, m <= n
    PROVE  DaysBefore(m) <= DaysBefore(n)
<1> DEFINE T == {j \in Nat : j >= m /\ DaysBefore(j) < DaysBefore(m)}
<1> SUFFICES ASSUME n \in T PROVE FALSE
  BY DaysBeforeIs
<1>1. PICK k \in T : \A j \in T : k <= j
  BY SmallestOne
<1>2. k - 1 \in Nat /\ k - 1 >= m /\ (k - 1) + 1 = k
  BY <1>1, DaysBeforeIs
<1>3. DaysBefore(k) = DaysBefore(k - 1) + MonthLength(k - 1) /\ MonthLength(k - 1) \in 28..31
  BY <1>2, MonthLengthIs DEF MonthEnd
<1>4. DaysBefore(k - 1) < DaysBefore(m)
  BY <1>1, <1>2, <1>3, DaysBeforeIs
<1>5. k - 1 \in T
  BY <1>2, <1>4
<1> QED
  BY <1>1, <1>5

LEMMA MonthsApart ==
    ASSUME NEW m \in Nat, NEW n \in Nat, m < n
    PROVE  MonthEnd(m) <= DaysBefore(n)
BY DaysGrow DEF MonthEnd

\* Each day is in one month.
LEMMA MonthExists ==
    ASSUME NEW day \in Nat \ {0}
    PROVE  \E m \in 0..(day \div 28) : DaysBefore(m) < day /\ day <= MonthEnd(m)
<1> DEFINE T == {m \in Nat : day <= MonthEnd(m)}
<1>1. PICK m \in T : \A j \in T : m <= j
  <2>1. DaysBefore(day + 1) >= 28 * (day + 1)
    BY DaysBeforeIs
  <2>2. DaysBefore(day + 1) \in Nat
    BY DaysBeforeIs
  <2>3. day \in T
    BY <2>1, <2>2 DEF MonthEnd
  <2> QED
    BY <2>3, SmallestOne
<1>2. DaysBefore(m) < day
  <2>1. CASE m = 0
    BY <2>1, DaysBeforeIs
  <2>2. CASE m > 0
    <3>1. m - 1 \in Nat /\ (m - 1) + 1 = m /\ m - 1 \notin T
      BY <1>1, <2>2
    <3> QED
      BY <3>1, DaysBeforeIs DEF MonthEnd
  <2> QED
    BY <1>1, <2>1, <2>2
<1>3. 28 * m <= day
  BY <1>1, <1>2, DaysBeforeIs
<1>4. m \in 0..(day \div 28)
  BY <1>1, <1>3
<1> QED
  BY <1>1, <1>2, <1>4

LEMMA MonthOfIs ==
    ASSUME NEW day \in Nat \ {0}
    PROVE  MonthOf(day) \in Nat /\ DaysBefore(MonthOf(day)) < day /\ day <= MonthEnd(MonthOf(day))
BY MonthExists DEF MonthOf

LEMMA MonthIs ==
    ASSUME NEW day \in Nat \ {0}, NEW m \in Nat, DaysBefore(m) < day, day <= MonthEnd(m)
    PROVE  MonthOf(day) = m
<1>1. MonthOf(day) \in Nat /\ DaysBefore(MonthOf(day)) < day /\ day <= MonthEnd(MonthOf(day))
  BY MonthOfIs
<1>2. DaysBefore(m) \in Nat /\ MonthEnd(m) \in Nat /\ DaysBefore(MonthOf(day)) \in Nat /\ MonthEnd(MonthOf(day)) \in Nat
  BY <1>1, DaysBeforeIs DEF MonthEnd
<1>3. ~(m < MonthOf(day)) /\ ~(MonthOf(day) < m)
  BY <1>1, <1>2, MonthsApart
<1> QED
  BY <1>1, <1>3

\* Smallest and largest of a set.
LEMMA Least ==
    ASSUME NEW T \in SUBSET Nat, T # {}
    PROVE  Min(T) \in T /\ \A j \in T : Min(T) <= j
BY SmallestOne DEF Min

LEMMA LeastOfTwo ==
    ASSUME NEW a \in Nat, NEW b \in Nat
    PROVE  Min({a, b}) = IF a <= b THEN a ELSE b
<1>1. {a, b} \in SUBSET Nat /\ {a, b} # {}
  OBVIOUS
<1>2. Min({a, b}) \in {a, b} /\ Min({a, b}) <= a /\ Min({a, b}) <= b
  BY <1>1, Least
<1> QED
  BY <1>2

LEMMA LargestOfTwo ==
    ASSUME NEW a \in Int, NEW b \in Int
    PROVE  Max({a, b}) = IF a <= b THEN b ELSE a
<1>1. \E x \in {a, b} : \A y \in {a, b} : x >= y
  OBVIOUS
<1>2. Max({a, b}) \in {a, b} /\ Max({a, b}) >= a /\ Max({a, b}) >= b
  BY <1>1 DEF Max
<1> QED
  BY <1>2

\* Multiples of an interval grow by it.
LEMMA Times ==
    ASSUME NEW n \in Nat \ {0}, NEW j \in Nat, NEW k \in Nat
    PROVE  /\ n * j \in Nat
           /\ j < k => n * j + n <= n * k
           /\ j > 0 => n * j >= n
OBVIOUS

\* Months later the day is the same, or the last one of a shorter month.
LEMMA AddMonthsIs ==
    ASSUME NEW a \in Nat \ {0}, NEW n \in Nat
    PROVE  LET x == AddMonths(a, n)
               m == MonthOf(a) + n
           IN  /\ x \in Nat \ {0} /\ m \in Nat /\ MonthOf(x) = m
               /\ DayOfMonth(x) = IF DayOfMonth(a) <= MonthLength(m) THEN DayOfMonth(a) ELSE MonthLength(m)
               /\ x = DaysBefore(m) + DayOfMonth(x)
<1> DEFINE m == MonthOf(a) + n
           x == AddMonths(a, n)
           e == IF DayOfMonth(a) <= MonthLength(m) THEN DayOfMonth(a) ELSE MonthLength(m)
<1>1. MonthOf(a) \in Nat /\ m \in Nat /\ DaysBefore(MonthOf(a)) < a /\ DaysBefore(MonthOf(a)) \in Nat
  BY MonthOfIs, DaysBeforeIs
<1>2. DayOfMonth(a) \in Nat \ {0}
  BY <1>1 DEF DayOfMonth
<1>3. MonthEnd(m) = DaysBefore(m) + MonthLength(m) /\ MonthLength(m) \in 28..31 /\ DaysBefore(m) \in Nat
  BY <1>1, MonthLengthIs, DaysBeforeIs
<1>4. x = DaysBefore(m) + e
  BY <1>2, <1>3, LeastOfTwo DEF AddMonths
<1>5. e \in Nat \ {0} /\ e <= MonthLength(m)
  BY <1>2, <1>3
<1> HIDE DEF x, e, m
<1>6. x \in Nat \ {0} /\ DaysBefore(m) < x /\ x <= MonthEnd(m)
  BY <1>3, <1>4, <1>5
<1>7. MonthOf(x) = m
  BY <1>1, <1>6, MonthIs
<1>8. DayOfMonth(x) = e
  BY <1>3, <1>4, <1>5, <1>7 DEF DayOfMonth
<1> QED
  BY <1>1, <1>4, <1>6, <1>7, <1>8 DEF x, e, m

-----------------------------------------------------------------------------

(* Dates of a rule by their index; the days from one to the next where a month does not matter. *)
DateAt(k) == AddTo(rule.anchor, rule.unit, rule.interval * k)
DayStep == rule.interval * IF rule.unit = "weekly" THEN 7 ELSE 1

\* The k-th date of a rule is a date.
LEMMA DateAtIs ==
    ASSUME rule \in RecurrenceRules, rule.unit \in CalendarUnits, NEW k \in Nat
    PROVE  /\ DateAt(k) \in Nat \ {0}
           /\ rule.unit = "monthly" => DateAt(k) = AddMonths(rule.anchor, rule.interval * k)
           /\ rule.unit # "monthly" => DateAt(k) = rule.anchor + DayStep * k /\ DayStep \in Nat \ {0}
<1>1. rule.anchor \in Nat \ {0} /\ rule.interval \in Nat \ {0}
  BY RecurrenceConstants DEF RecurrenceConstants, RecurrenceRules
<1>2. rule.interval * k \in Nat
  BY <1>1
<1>3. CASE rule.unit = "monthly"
  BY <1>1, <1>2, <1>3, AddMonthsIs DEF DateAt, AddTo
<1>4. CASE rule.unit = "weekly"
  <2>1. DayStep = rule.interval * 7 /\ (rule.interval * 7) * k = 7 * (rule.interval * k)
    BY <1>1, <1>4 DEF DayStep
  <2> QED
    BY <1>1, <1>2, <1>4, <2>1 DEF DateAt, AddTo
<1>5. CASE rule.unit = "daily"
  BY <1>1, <1>2, <1>5 DEF DateAt, AddTo, DayStep
<1> QED
  BY <1>3, <1>4, <1>5 DEF CalendarUnits

\* The dates of a rule come one after the other.
LEMMA DatesGrow ==
    ASSUME rule \in RecurrenceRules, rule.unit \in CalendarUnits, NEW j \in Nat, NEW k \in Nat, j < k
    PROVE  DateAt(j) < DateAt(k)
<1>1. rule.anchor \in Nat \ {0} /\ rule.interval \in Nat \ {0}
  BY RecurrenceConstants DEF RecurrenceConstants, RecurrenceRules
<1>2. CASE rule.unit = "monthly"
  <2> DEFINE p == rule.interval * j
             q == rule.interval * k
             m == MonthOf(rule.anchor) + p
             n == MonthOf(rule.anchor) + q
  <2>1. p \in Nat /\ q \in Nat /\ p < q
    BY <1>1, Times
  <2>5. DateAt(j) = AddMonths(rule.anchor, p) /\ DateAt(k) = AddMonths(rule.anchor, q)
    BY <1>2, DateAtIs
  <2> HIDE DEF p, q
  <2>2. /\ m \in Nat /\ MonthOf(DateAt(j)) = m /\ DateAt(j) \in Nat \ {0}
        /\ n \in Nat /\ MonthOf(DateAt(k)) = n /\ DateAt(k) \in Nat \ {0}
    <3>1. rule.anchor \in Nat \ {0}
      BY <1>1
    <3>2. m \in Nat /\ MonthOf(DateAt(j)) = m /\ DateAt(j) \in Nat \ {0}
      BY <3>1, <2>1, <2>5, AddMonthsIs
    <3>3. n \in Nat /\ MonthOf(DateAt(k)) = n /\ DateAt(k) \in Nat \ {0}
      BY <3>1, <2>1, <2>5, AddMonthsIs
    <3> QED
      BY <3>2, <3>3
  <2>3. m < n
    BY <2>1, <1>1, MonthOfIs
  <2> HIDE DEF m, n
  <2>4. DateAt(j) <= MonthEnd(m) /\ MonthEnd(m) <= DaysBefore(n) /\ DaysBefore(n) < DateAt(k)
    BY <2>2, <2>3, MonthOfIs, MonthsApart
  <2>6. MonthEnd(m) \in Nat /\ DaysBefore(n) \in Nat
    BY <2>2, DaysBeforeIs DEF MonthEnd
  <2> QED
    BY <2>2, <2>4, <2>6
<1>3. CASE rule.unit # "monthly"
  <2>1. DayStep * j < DayStep * k /\ DayStep * j \in Nat /\ DayStep * k \in Nat
    BY <1>3, DateAtIs, Times
  <2> QED
    BY <1>1, <1>3, <2>1, DateAtIs
<1> QED
  BY <1>2, <1>3

\* A day is on the rule only if it is one of its dates.
LEMMA OnRuleIsDate ==
    ASSUME rule \in RecurrenceRules, rule.unit \in CalendarUnits, NEW day \in Nat \ {0}, OnRule(day)
    PROVE  \E k \in Nat : day = DateAt(k)
<1>1. rule.anchor \in Nat \ {0} /\ rule.interval \in Nat \ {0} /\ day >= rule.anchor
  BY RecurrenceConstants DEF RecurrenceConstants, RecurrenceRules, OnRule
<1>2. CASE rule.unit = "monthly"
  <2> DEFINE a == rule.anchor
             n == rule.interval
             m == MonthOf(day)
             d == m - MonthOf(a)
             k == d \div n
  <2>1. /\ m \in Nat /\ DaysBefore(m) < day /\ day <= MonthEnd(m)
        /\ MonthOf(a) \in Nat /\ DaysBefore(MonthOf(a)) < a /\ DaysBefore(m) \in Nat
        /\ MonthEnd(m) = DaysBefore(m) + MonthLength(m) /\ MonthLength(m) \in 28..31
        /\ DaysBefore(MonthOf(a)) \in Nat
    BY <1>1, MonthOfIs, MonthLengthIs, DaysBeforeIs
  <2>2. m >= MonthOf(a)
    <3> SUFFICES ASSUME m < MonthOf(a) PROVE FALSE
      BY <2>1
    <3> HIDE DEF m
    <3>1. MonthEnd(m) <= DaysBefore(MonthOf(a))
      BY <2>1, MonthsApart
    <3> QED
      BY <1>1, <2>1, <3>1
  <2>3. d % n = 0
        /\ (DayOfMonth(day) = DayOfMonth(a) \/ (day = MonthEnd(m) /\ DayOfMonth(day) < DayOfMonth(a)))
    BY <1>2 DEF OnRule
  <2>4. k \in Nat /\ m = MonthOf(a) + n * k
    <3>1. d \in Nat /\ n \in Nat /\ n > 0 /\ m = MonthOf(a) + d
      BY <1>1, <2>1, <2>2
    <3> HIDE DEF d, n, m
    <3>2. k \in Int /\ d = n * k + (d % n)
      BY <3>1, Quotient
    <3>3. d = n * k
      BY <2>3, <3>1, <3>2
    <3>4. k \in Nat
      BY <3>1
    <3> QED
      BY <3>1, <3>3, <3>4
  <2> DEFINE p == n * k
  <2>5. p \in Nat
    BY <1>1, <2>4, Times
  <2>6. DateAt(k) = AddMonths(a, p)
    BY <1>2, <2>4, DateAtIs
  <2>7. m = MonthOf(a) + p
    BY <2>4
  <2> HIDE DEF p, k, m
  <2>8. /\ DayOfMonth(AddMonths(a, p)) = IF DayOfMonth(a) <= MonthLength(m) THEN DayOfMonth(a) ELSE MonthLength(m)
        /\ AddMonths(a, p) = DaysBefore(m) + DayOfMonth(AddMonths(a, p))
    BY <1>1, <2>5, <2>7, AddMonthsIs
  <2>9. day = DaysBefore(m) + DayOfMonth(day) /\ DayOfMonth(day) \in Nat /\ DayOfMonth(day) <= MonthLength(m)
    BY <2>1 DEF DayOfMonth, m
  <2>10. DayOfMonth(a) \in Nat
    BY <2>1, <1>1 DEF DayOfMonth
  <2>11. DayOfMonth(day) = DayOfMonth(AddMonths(a, p))
    BY <2>1, <2>3, <2>8, <2>9, <2>10
  <2> QED
    BY <2>4, <2>6, <2>8, <2>9, <2>11
<1>3. CASE rule.unit # "monthly"
  <2> DEFINE k == (day - rule.anchor) \div DayStep
  <2>1. DayStep \in Nat \ {0} /\ (day - rule.anchor) % DayStep = 0
    BY <1>3, DateAtIs DEF OnRule, DayStep
  <2>2. k \in Int /\ day - rule.anchor = DayStep * k + ((day - rule.anchor) % DayStep)
    BY <1>1, <2>1, Quotient
  <2>3. k \in Nat /\ day = rule.anchor + DayStep * k
    <3>1. day - rule.anchor = DayStep * k
      BY <1>1, <2>1, <2>2
    <3>2. k \in Nat
      BY <1>1, <2>1
    <3> HIDE DEF k
    <3>3. DayStep * k \in Nat
      BY <2>1, <3>2, Times
    <3> QED
      BY <1>1, <3>1, <3>2, <3>3
  <2> QED
    BY <1>3, <2>3, DateAtIs
<1> QED
  BY <1>2, <1>3

\* The first date of a rule is its anchor.
LEMMA DateAtZero ==
    ASSUME rule \in RecurrenceRules, rule.unit \in CalendarUnits
    PROVE  DateAt(0) = rule.anchor
<1>0. rule.anchor \in Nat \ {0} /\ rule.interval \in Nat \ {0}
  BY RecurrenceConstants DEF RecurrenceConstants, RecurrenceRules
<1>1. rule.anchor \in Nat \ {0} /\ rule.interval * 0 = 0
  BY <1>0
<1>2. CASE rule.unit = "monthly"
  <2> DEFINE a == rule.anchor
             m == MonthOf(a)
  <2>1. /\ m \in Nat /\ DaysBefore(m) < a /\ a <= MonthEnd(m) /\ DaysBefore(m) \in Nat
        /\ MonthEnd(m) = DaysBefore(m) + MonthLength(m) /\ MonthLength(m) \in 28..31
    BY <1>1, MonthOfIs, MonthLengthIs, DaysBeforeIs
  <2>2. DayOfMonth(a) <= MonthLength(m) /\ DayOfMonth(a) \in Nat /\ a = DaysBefore(m) + DayOfMonth(a)
    BY <1>1, <2>1 DEF DayOfMonth
  <2>3. m + 0 = m /\ 0 \in Nat
    BY <2>1
  <2>4. AddMonths(a, 0) = DaysBefore(m) + DayOfMonth(a)
    BY <1>1, <2>2, <2>3, AddMonthsIs
  <2> QED
    BY <1>1, <1>2, <2>2, <2>4 DEF DateAt, AddTo
<1>3. CASE rule.unit # "monthly"
  BY <1>1, <1>3, DateAtIs
<1> QED
  BY <1>2, <1>3

\* The dates of a rule are on it.
LEMMA DateIsOnRule ==
    ASSUME rule \in RecurrenceRules, rule.unit \in CalendarUnits, NEW k \in Nat
    PROVE  OnRule(DateAt(k))
<1>1. rule.anchor \in Nat \ {0} /\ rule.interval \in Nat \ {0}
  BY RecurrenceConstants DEF RecurrenceConstants, RecurrenceRules
<1>2. DateAt(k) \in Nat /\ DateAt(k) >= rule.anchor
  <2>1. 0 \in Nat /\ DateAt(0) = rule.anchor /\ DateAt(k) \in Nat
    BY DateAtIs, DateAtZero
  <2> QED
    BY <1>1, <2>1, DatesGrow
<1>3. CASE rule.unit = "monthly"
  <2> DEFINE a == rule.anchor
             n == rule.interval
             p == n * k
             m == MonthOf(a) + p
             x == DateAt(k)
  <2>1. p \in Nat /\ x = AddMonths(a, p) /\ p % n = 0
    <3>1. p \in Nat /\ n \in Nat /\ p = n * k + 0 /\ 0 \in 0..(n - 1) /\ k \in Int /\ n > 0
      BY <1>1, Times
    <3>2. x = AddMonths(a, p)
      BY <1>3, DateAtIs
    <3> HIDE DEF p, n, x
    <3>3. p % n = 0
      BY <3>1, QuotientIs
    <3> QED
      BY <3>1, <3>2, <3>3
  <2> HIDE DEF p, n, x
  <2>2. /\ m \in Nat /\ MonthOf(x) = m /\ MonthOf(a) \in Nat
        /\ DayOfMonth(x) = IF DayOfMonth(a) <= MonthLength(m) THEN DayOfMonth(a) ELSE MonthLength(m)
        /\ x = DaysBefore(m) + DayOfMonth(x)
    BY <1>1, <2>1, AddMonthsIs, MonthOfIs
  <2>3. MonthOf(x) - MonthOf(a) = p
    BY <2>1, <2>2
  <2> HIDE DEF m
  <2>4. MonthEnd(m) = DaysBefore(m) + MonthLength(m) /\ MonthLength(m) \in 28..31 /\ DaysBefore(m) \in Nat
    BY <2>2, MonthLengthIs, DaysBeforeIs
  <2>5. DayOfMonth(a) \in Nat
    BY <1>1, MonthOfIs, DaysBeforeIs DEF DayOfMonth
  <2>6. DayOfMonth(x) = DayOfMonth(a) \/ (x = MonthEnd(MonthOf(x)) /\ DayOfMonth(x) < DayOfMonth(a))
    BY <2>2, <2>4, <2>5
  <2> QED
    BY <1>2, <1>3, <2>1, <2>3, <2>6 DEF OnRule, x, n
<1>4. CASE rule.unit # "monthly"
  <2>1. DayStep \in Nat \ {0} /\ DateAt(k) = rule.anchor + DayStep * k /\ DayStep * k \in Nat
    BY <1>4, DateAtIs, Times
  <2>2. DateAt(k) - rule.anchor = DayStep * k
    BY <1>1, <2>1
  <2>3. (DayStep * k) % DayStep = 0
    <3>1. DayStep * k = DayStep * k + 0 /\ 0 \in 0..(DayStep - 1) /\ k \in Int /\ DayStep > 0
      BY <2>1
    <3> QED
      BY <2>1, <3>1, QuotientIs
  <2>4. (DateAt(k) - rule.anchor) % DayStep = 0
    BY <2>2, <2>3
  <2> QED
    BY <1>2, <1>4, <2>4 DEF OnRule, DayStep
<1> QED
  BY <1>3, <1>4

\* A date whose index times the interval is past the units that passed is ahead; one short
\* of them is not.
LEMMA PassedIs ==
    ASSUME rule \in RecurrenceRules, rule.unit \in CalendarUnits, today \in Nat, today > rule.anchor
    PROVE  LET p == Passed(rule.unit, rule.anchor)
           IN  /\ p \in Nat
               /\ \A k \in Nat : /\ rule.interval * k > p => DateAt(k) > today
                                 /\ rule.interval * k < p => DateAt(k) <= today
<1> DEFINE a == rule.anchor
           n == rule.interval
           p == Passed(rule.unit, rule.anchor)
<1>0. a \in Nat \ {0} /\ n \in Nat \ {0}
  BY RecurrenceConstants DEF RecurrenceConstants, RecurrenceRules
<1>1. a \in Nat \ {0} /\ n \in Nat \ {0} /\ today \in Nat \ {0} /\ today > a
  BY <1>0
<1>2. CASE rule.unit = "monthly"
  <2> DEFINE m == MonthOf(today)
  <2>1. /\ m \in Nat /\ DaysBefore(m) < today /\ today <= MonthEnd(m) /\ DaysBefore(m) \in Nat /\ MonthEnd(m) \in Nat
        /\ MonthOf(a) \in Nat /\ DaysBefore(MonthOf(a)) < a /\ a <= MonthEnd(MonthOf(a)) /\ DaysBefore(MonthOf(a)) \in Nat
    <3>1. /\ m \in Nat /\ DaysBefore(m) < today /\ today <= MonthEnd(m)
          /\ MonthOf(a) \in Nat /\ DaysBefore(MonthOf(a)) < a /\ a <= MonthEnd(MonthOf(a))
      BY <1>1, MonthOfIs
    <3> HIDE DEF m
    <3>2. DaysBefore(m) \in Nat /\ MonthEnd(m) \in Nat /\ DaysBefore(MonthOf(a)) \in Nat
      BY <3>1, DaysBeforeIs DEF MonthEnd
    <3> QED
      BY <3>1, <3>2
  <2>2. p = m - MonthOf(a)
    BY <1>2 DEF Passed
  <2> HIDE DEF m, a, n, p
  <2>3. m >= MonthOf(a)
    <3> SUFFICES ASSUME m < MonthOf(a) PROVE FALSE
      BY <2>1
    <3>1. MonthEnd(m) <= DaysBefore(MonthOf(a))
      BY <2>1, MonthsApart
    <3> QED
      BY <1>1, <2>1, <3>1
  <2>4. p \in Nat /\ m = MonthOf(a) + p
    BY <2>1, <2>2, <2>3
  <2>5. ASSUME NEW k \in Nat
        PROVE  (n * k > p => DateAt(k) > today) /\ (n * k < p => DateAt(k) <= today)
    <3> DEFINE q == n * k
               h == MonthOf(a) + q
    <3>1. q \in Nat /\ DateAt(k) = AddMonths(a, q)
      BY <1>1, <1>2, Times, DateAtIs DEF a, n
    <3> HIDE DEF q
    <3>2. h \in Nat /\ MonthOf(DateAt(k)) = h /\ DateAt(k) \in Nat \ {0}
      BY <1>1, <3>1, AddMonthsIs
    <3>3. DaysBefore(h) < DateAt(k) /\ DateAt(k) <= MonthEnd(h) /\ DaysBefore(h) \in Nat /\ MonthEnd(h) \in Nat
      BY <3>2, MonthOfIs, DaysBeforeIs DEF MonthEnd
    <3>4. (q > p => m < h) /\ (q < p => h < m)
      BY <2>1, <2>4, <3>1
    <3> HIDE DEF h
    <3>5. CASE q > p
      <4>1. MonthEnd(m) <= DaysBefore(h)
        BY <2>1, <3>2, <3>4, <3>5, MonthsApart
      <4> QED
        BY <1>1, <2>1, <2>4, <3>1, <3>2, <3>3, <3>5, <4>1 DEF q
    <3>6. CASE q < p
      <4>1. MonthEnd(h) <= DaysBefore(m)
        BY <2>1, <3>2, <3>4, <3>6, MonthsApart
      <4> QED
        BY <1>1, <2>1, <2>4, <3>1, <3>2, <3>3, <3>6, <4>1 DEF q
    <3> QED
      BY <3>5, <3>6 DEF q
  <2> QED
    BY <2>4, <2>5 DEF p, n
<1>3. CASE rule.unit # "monthly"
  <2> DEFINE w == IF rule.unit = "weekly" THEN 7 ELSE 1
             d == today - a
  <2>1. w \in {1, 7} /\ d \in Nat /\ d > 0 /\ p = d \div w
    BY <1>1, <1>3 DEF Passed
  <2> HIDE DEF d, p, w
  <2>2. p \in Nat /\ w * p <= d /\ d < w * (p + 1)
    BY <2>1
  <2>3. ASSUME NEW k \in Nat
        PROVE  (n * k > p => DateAt(k) > today) /\ (n * k < p => DateAt(k) <= today)
    <3> DEFINE q == n * k
    <3>1. q \in Nat /\ DateAt(k) = a + w * q
      <4>1. DateAt(k) = a + (n * w) * k
        BY <1>3, DateAtIs DEF w, DayStep
      <4>2. (n * w) * k = w * (n * k) /\ n * k \in Nat
        BY <1>1, <2>1
      <4> QED
        BY <4>1, <4>2
    <3> HIDE DEF q
    <3>2. today = a + d
      BY <1>1 DEF d
    <3>3. (q > p => DateAt(k) > today) /\ (q < p => DateAt(k) <= today)
      BY <1>1, <2>1, <2>2, <3>1, <3>2
    <3> QED
      BY <3>3 DEF q
  <2> QED
    BY <2>2, <2>3 DEF p, n
<1> QED
  BY <1>2, <1>3

\* The estimate skips no date ahead and is at most one short.
LEMMA EstimateIs ==
    ASSUME rule \in RecurrenceRules, rule.unit \in CalendarUnits, today \in Nat
    PROVE  LET e == Elapsed(rule.unit, rule.interval, rule.anchor)
           IN  /\ e \in Nat /\ DateAt(e + 2) > today
               /\ \A k \in 1..e : DateAt(k) <= today
<1> DEFINE n == rule.interval
           e == Elapsed(rule.unit, rule.interval, rule.anchor)
           p == Passed(rule.unit, rule.anchor)
           q == p \div n
<1>1. rule.anchor \in Nat \ {0} /\ n \in Nat \ {0}
  BY RecurrenceConstants DEF RecurrenceConstants, RecurrenceRules
<1>2. CASE today <= rule.anchor
  <2>1. e = 0
    BY <1>2 DEF Elapsed
  <2>2. DateAt(0) < DateAt(2) /\ DateAt(0) = rule.anchor /\ DateAt(2) \in Nat
    BY DatesGrow, DateAtZero, DateAtIs
  <2> HIDE DEF e
  <2>3. e + 2 = 2 /\ e \in Nat
    BY <2>1
  <2>4. DateAt(e + 2) > today
    BY <1>1, <1>2, <2>2, <2>3
  <2> QED
    BY <2>1, <2>3, <2>4 DEF e
<1>3. CASE today > rule.anchor
  <2>1. /\ p \in Nat
        /\ \A k \in Nat : (n * k > p => DateAt(k) > today) /\ (n * k < p => DateAt(k) <= today)
    BY <1>3, PassedIs
  <2> HIDE DEF p, n
  <2>2. q \in Int /\ p % n \in 0..(n - 1) /\ p = n * q + (p % n) /\ q \in Nat
    BY <1>1, <2>1, Quotient
  <2>3. e = Max({0, q - 1}) /\ ~(today <= rule.anchor)
    BY <1>1, <1>3 DEF Elapsed, p, n
  <2> HIDE DEF e, q
  <2>4. e = (IF q = 0 THEN 0 ELSE q - 1) /\ e \in Nat
    BY <2>2, <2>3, LargestOfTwo
  <2>5. n * (q + 1) > p
    <3>1. n * (q + 1) = n * q + n /\ n * q \in Nat
      BY <1>1, <2>2
    <3> QED
      BY <1>1, <2>1, <2>2, <3>1
  <2>6. DateAt(e + 2) > today
    <3>1. q + 1 \in Nat /\ e + 2 \in Nat /\ q + 1 <= e + 2
      BY <2>2, <2>4
    <3>2. DateAt(q + 1) > today
      BY <2>1, <2>5, <3>1
    <3>3. DateAt(q + 1) \in Nat /\ DateAt(e + 2) \in Nat /\ DateAt(q + 1) <= DateAt(e + 2)
      BY <3>1, DateAtIs, DatesGrow
    <3> QED
      BY <3>2, <3>3
  <2>7. ASSUME NEW k \in 1..e PROVE DateAt(k) <= today
    <3>1. k \in Nat /\ k < q
      BY <2>2, <2>4
    <3>2. n * k + n <= n * q /\ n * k \in Nat /\ n * q \in Nat
      BY <1>1, <2>2, <3>1, Times
    <3>3. n * k < p
      BY <1>1, <2>1, <2>2, <3>2
    <3> QED
      BY <2>1, <3>1, <3>3
  <2> QED
    BY <2>4, <2>6, <2>7 DEF e
<1> QED
  BY <1>1, <1>2, <1>3

\* The search ends at once, at the first date ahead that follows the occurrence done.
LEMMA NextIndexIs ==
    ASSUME rule \in RecurrenceRules, rule.unit \in CalendarUnits, today \in Nat, occurrence \in Nat
    PROVE  /\ FirstSearched \in Nat /\ DateAt(FirstSearched + 1) > today
           /\ NextIndex \in Nat /\ NextIndex > occurrence /\ DateAt(NextIndex) > today
           /\ \A k \in Nat : occurrence < k /\ k < NextIndex => DateAt(k) <= today
<1> DEFINE e == Elapsed(rule.unit, rule.interval, rule.anchor)
           start == FirstSearched
           T == {index \in start..start + SearchSteps : DateAt(index) > today}
<1>1. e \in Nat /\ DateAt(e + 2) > today /\ \A k \in 1..e : DateAt(k) <= today
  BY EstimateIs
<1>2. NextIndex = Min(T)
  BY DEF NextIndex, DateAt
<1>0. start = Max({occurrence, e}) + 1
  BY DEF FirstSearched
<1> HIDE DEF e
<1>3. start = (IF occurrence <= e THEN e ELSE occurrence) + 1 /\ start \in Nat
  BY <1>0, <1>1, LargestOfTwo
<1>4. SearchSteps \in Nat /\ SearchSteps >= 1
  BY RecurrenceConstants DEF RecurrenceConstants
<1> HIDE DEF start
<1>5. start + 1 \in T
  <2>1. e + 2 \in Nat /\ start + 1 \in Nat /\ e + 2 <= start + 1 /\ start + 1 \in start..(start + SearchSteps)
    BY <1>1, <1>3, <1>4
  <2>2. DateAt(e + 2) \in Nat /\ DateAt(start + 1) \in Nat /\ DateAt(e + 2) <= DateAt(start + 1)
    BY <2>1, DateAtIs, DatesGrow
  <2> QED
    BY <1>1, <2>1, <2>2
<1>6. T \in SUBSET Nat /\ T # {}
  BY <1>3, <1>4, <1>5
<1>7. NextIndex \in T /\ \A j \in T : NextIndex <= j
  BY <1>2, <1>6, Least
<1>8. NextIndex \in start..(start + SearchSteps) /\ DateAt(NextIndex) > today
  BY <1>7
<1>9. ASSUME NEW k \in Nat, occurrence < k, k < NextIndex PROVE DateAt(k) <= today
  <2>1. CASE k >= start
    <3>1. k \in start..(start + SearchSteps) /\ k \notin T
      BY <1>3, <1>4, <1>7, <1>8, <1>9, <2>1
    <3>2. DateAt(k) \in Nat
      BY DateAtIs
    <3> QED
      BY <3>1, <3>2
  <2>2. CASE k < start
    <3>1. k \in 1..e
      BY <1>1, <1>3, <1>9, <2>2
    <3> QED
      BY <1>1, <3>1
  <2> QED
    BY <1>3, <2>1, <2>2
<1>10. NextIndex \in Nat /\ NextIndex > occurrence
  BY <1>1, <1>3, <1>4, <1>8
<1> QED
  BY <1>3, <1>5, <1>8, <1>9, <1>10 DEF start

RecurrenceMoves == RecurrenceInit /\ [][RecurrenceNext]_recurrenceVars

LEMMA RecurrenceTypeStep == RecurrenceTypeOK /\ [RecurrenceNext]_recurrenceVars => RecurrenceTypeOK'
<1> SUFFICES ASSUME RecurrenceTypeOK, [RecurrenceNext]_recurrenceVars PROVE RecurrenceTypeOK'
  OBVIOUS
<1> USE DEF RecurrenceTypeOK
<1>1. RecurrenceDays \subseteq Nat \ {0} /\ today \in Nat \ {0} /\ MaxDateMoves \in Nat
  BY RecurrenceConstants DEF RecurrenceConstants
<1>2. ASSUME NEW who \in Doers, CompleteOccurrence(who) PROVE RecurrenceTypeOK'
  <2>1. dueOn' \in Nat \ {0} /\ occurrence' \in Nat
    <3>1. CASE who \in marked
      BY <1>2, <3>1 DEF CompleteOccurrence
    <3>2. CASE who \notin marked /\ rule.unit = "after_completion"
      <4>1. rule.interval \in Nat
        BY RecurrenceConstants DEF RecurrenceConstants, RecurrenceRules
      <4> QED
        BY <1>1, <1>2, <3>2, <4>1 DEF CompleteOccurrence, AddTo
    <3>3. CASE who \notin marked /\ rule.unit # "after_completion"
      <4>1. rule.unit \in CalendarUnits
        BY <3>3 DEF RecurrenceRules
      <4>2. NextIndex \in Nat /\ DateAt(NextIndex) \in Nat \ {0}
        BY <1>1, <4>1, NextIndexIs, DateAtIs
      <4> QED
        BY <1>2, <3>3, <4>2 DEF CompleteOccurrence, DateAt
    <3> QED
      BY <3>1, <3>2, <3>3
  <2> QED
    BY <1>2, <2>1 DEF CompleteOccurrence
<1>3. CASE MoveDate
  BY <1>1, <1>3 DEF MoveDate
<1>4. CASE DaysPass
  BY <1>4 DEF DaysPass
<1>5. CASE UNCHANGED recurrenceVars
  BY <1>5 DEF recurrenceVars
<1> QED
  BY <1>2, <1>3, <1>4, <1>5 DEF RecurrenceNext

LEMMA RecurrenceTypeInit == RecurrenceInit => RecurrenceTypeOK
<1> SUFFICES ASSUME RecurrenceInit PROVE RecurrenceTypeOK
  OBVIOUS
<1>1. RecurrenceDays \in SUBSET Nat /\ RecurrenceDays # {} /\ Anchors \subseteq Nat \ {0} /\ MaxDateMoves \in Nat
  BY RecurrenceConstants DEF RecurrenceConstants
<1>2. today \in RecurrenceDays
  BY <1>1, Least DEF RecurrenceInit
<1>3. rule \in RecurrenceRules /\ rule.anchor \in Anchors /\ dueOn \in Nat \ {0}
  BY <1>1 DEF RecurrenceInit, RecurrenceRules
<1>4. occurrence \in Nat /\ marked \subseteq Doers /\ dateMoves \in 0..MaxDateMoves
  BY <1>1 DEF RecurrenceInit
<1> QED
  BY <1>2, <1>3, <1>4 DEF RecurrenceTypeOK

\* What one step does.
LEMMA NearestStep ==
    RecurrenceTypeOK /\ [RecurrenceNext]_recurrenceVars =>
        (occurrence' # occurrence /\ rule.unit \in CalendarUnits =>
          LET doneOn == AddTo(rule.anchor, rule.unit, rule.interval * occurrence)
              ahead(day) == today < day /\ doneOn < day /\ OnRule(day)
          IN  /\ ahead(dueOn')
              /\ \A day \in today..(dueOn' - 1) : ~ahead(day))
<1> SUFFICES ASSUME RecurrenceTypeOK, [RecurrenceNext]_recurrenceVars,
                    occurrence' # occurrence, rule.unit \in CalendarUnits
             PROVE  /\ today < dueOn' /\ DateAt(occurrence) < dueOn' /\ OnRule(dueOn')
                    /\ \A day \in today..(dueOn' - 1) :
                          ~(today < day /\ DateAt(occurrence) < day /\ OnRule(day))
  BY DEF DateAt
<1>1. rule \in RecurrenceRules /\ today \in Nat \ {0} /\ occurrence \in Nat
  BY RecurrenceConstants DEF RecurrenceConstants, RecurrenceTypeOK
<1>2. dueOn' = DateAt(NextIndex)
  BY DEF RecurrenceNext, CompleteOccurrence, MoveDate, DaysPass, recurrenceVars, CalendarUnits, DateAt
<1>3. /\ NextIndex \in Nat /\ NextIndex > occurrence /\ DateAt(NextIndex) > today
      /\ \A k \in Nat : occurrence < k /\ k < NextIndex => DateAt(k) <= today
  BY <1>1, NextIndexIs
<1>4. DateAt(occurrence) < DateAt(NextIndex)
  BY <1>1, <1>3, DatesGrow
<1>5. OnRule(DateAt(NextIndex)) /\ DateAt(NextIndex) \in Nat
  BY <1>1, <1>3, DateIsOnRule, DateAtIs
<1>6. ASSUME NEW day \in today..(DateAt(NextIndex) - 1),
             today < day, DateAt(occurrence) < day, OnRule(day)
      PROVE  FALSE
  <2>1. day \in Nat \ {0} /\ day < DateAt(NextIndex)
    BY <1>1, <1>5, <1>6
  <2>2. PICK k \in Nat : day = DateAt(k)
    BY <1>1, <1>6, <2>1, OnRuleIsDate
  <2>3. occurrence < k
    <3> SUFFICES ASSUME k <= occurrence PROVE FALSE
      BY <1>1
    <3>1. DateAt(k) <= DateAt(occurrence)
      BY <1>1, <2>2, DateAtIs, DatesGrow
    <3> QED
      BY <1>1, <1>6, <2>1, <2>2, <3>1, DateAtIs
  <2>4. k < NextIndex
    <3> SUFFICES ASSUME NextIndex <= k PROVE FALSE
      BY <1>3
    <3> DEFINE i == NextIndex
    <3>0. i \in Nat /\ i <= k /\ DateAt(i) \in Nat
      BY <1>3, <1>5
    <3> HIDE DEF i
    <3>2. DateAt(i) <= DateAt(k)
      BY <1>1, <2>1, <2>2, <3>0, DatesGrow
    <3>1. DateAt(NextIndex) <= DateAt(k)
      BY <3>2 DEF i
    <3> QED
      BY <1>5, <2>1, <2>2, <3>1
  <2>5. DateAt(k) <= today
    BY <1>3, <2>3, <2>4
  <2> QED
    BY <1>1, <1>6, <2>1, <2>2, <2>5
<1> QED
  BY <1>1, <1>2, <1>3, <1>4, <1>5, <1>6

\* Dates and counters keep their shape: no completion, however late, computes a date
\* or an index that is none (advanceRecurringTask).
THEOREM RecurrenceTypeCorrect == RecurrenceMoves => []RecurrenceTypeOK
BY RecurrenceTypeInit, RecurrenceTypeStep, PTL DEF RecurrenceMoves

\* In any calendar year, for any anchor and interval, "done" leads to the nearest date of
\* the rule that is ahead of today and of the occurrence done (nextOccurrenceOn).
THEOREM NextDateIsNearestCorrect == RecurrenceMoves => NextDateIsNearest
BY RecurrenceTypeCorrect, NearestStep, PTL DEF RecurrenceMoves, NextDateIsNearest

\* The first or second date searched lies ahead, so that AGENT_TASK_RECURRENCE_EXHAUSTED
\* is never thrown: the estimate is never more than one occurrence short.
THEOREM SearchFindsDate ==
    RecurrenceMoves =>
        [](rule.unit \in CalendarUnits =>
              \E index \in {FirstSearched, FirstSearched + 1} :
                  AddTo(rule.anchor, rule.unit, rule.interval * index) > today)
<1>1. RecurrenceTypeOK =>
          (rule.unit \in CalendarUnits =>
              \E index \in {FirstSearched, FirstSearched + 1} :
                  AddTo(rule.anchor, rule.unit, rule.interval * index) > today)
  <2> SUFFICES ASSUME RecurrenceTypeOK, rule.unit \in CalendarUnits
               PROVE  DateAt(FirstSearched + 1) > today
    BY DEF DateAt
  <2>1. rule \in RecurrenceRules /\ today \in Nat /\ occurrence \in Nat
    BY RecurrenceConstants DEF RecurrenceConstants, RecurrenceTypeOK
  <2> QED
    BY <2>1, NextIndexIs
<1> QED
  BY <1>1, RecurrenceTypeCorrect, PTL

-----------------------------------------------------------------------------
(***************************************************************************)
(* All of them side by side.                                               *)
(***************************************************************************)

\* Each part moves as its own specification says.
LEMMA PartsMoveAlone ==
    BackstageSpec => SharedTasksSpec /\ UpdatesSpec /\ SandboxSpec /\ RecurrenceMoves
<1>1. BackstageInit => SharedTasksInit /\ UpdatesInit /\ SandboxInit /\ RecurrenceInit
  BY DEF BackstageInit
<1>2. [BackstageNext]_backstageVars =>
         [SharedTasksNext]_tasksVars /\ [UpdatesNext]_updatesVars
         /\ [SandboxNext]_sandboxVars /\ [RecurrenceNext]_recurrenceVars
  BY DEF BackstageNext, backstageVars
<1> QED
  BY <1>1, <1>2, PTL DEF BackstageSpec, SharedTasksSpec, UpdatesSpec, SandboxSpec, RecurrenceMoves

\* What is proved of the parts holds when they stand side by side.
THEOREM BackstageTypesCorrect == BackstageSpec => []BackstageTypesOK
<1>1. SharedTasksTypeOK /\ RecurrenceTypeOK /\ UpdatesTypeOK /\ SandboxTypeOK => BackstageTypesOK
  BY DEF BackstageTypesOK
<1> QED
  BY <1>1, PartsMoveAlone, TasksTypeCorrect, RecurrenceTypeCorrect, UpdatesTypeCorrect, SandboxTypeCorrect, PTL

\* The same of what the parts promise: consent, nearest dates, rollback, containers in use.
THEOREM BackstageKeepsPromises ==
    BackstageSpec => /\ []SandboxKept
                     /\ TasksChangeByConsent /\ NextDateIsNearest
                     /\ InstalledByConsent /\ FailedIsRestored
BY PartsMoveAlone, SandboxKeptCorrect, TasksConsentCorrect, NextDateIsNearestCorrect, ReleaseNeedsConsent,
   FailureIsHarmless, PTL

=============================================================================
