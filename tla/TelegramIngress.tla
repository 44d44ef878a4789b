------------------------------ MODULE TelegramIngress ------------------------------
(***************************************************************************)
(* The durable Telegram ingress: verified updates are stored as rows, and  *)
(* drain loops lease the rows of a chat in order, hand each one to Eve     *)
(* (the agent runtime), wait for the boundary of its turn and settle it.   *)
(*                                                                         *)
(*   agent/lib/telegram-ingress-repository.ts             the rows         *)
(*   agent/lib/telegram-ingress-processing-repository.ts  the barriers     *)
(*   agent/lib/telegram-ingress-session-cursor-repository.ts  the cursors  *)
(*   agent/lib/telegram-durable-ingress.ts                the drain loops  *)
(*   agent/lib/telegram-session-boundary.ts               the turn wait    *)
(*   agent/lib/telegram-group-migration/retire-ingress.ts retired chats    *)
(*                                                                         *)
(* A lease token is the attempt number that produced it: both are renewed  *)
(* by the same UPDATE, and a token is never issued twice.  A lease is live *)
(* until it expires; renewing a live lease changes nothing here.           *)
(***************************************************************************)
EXTENDS Naturals, Sequences, FiniteSets

CONSTANTS
    Updates,          \* update ids; Telegram numbers them, so they are naturals
    Queues,           \* one FIFO per chat/topic
    Queue,            \* the queue of each update
    Shape,            \* "text", "voice", "callback" or "junk" for each update
    Author,           \* who sent each update
    Private,          \* the queues that are private chats
    AnyDrains,        \* the message loops
    CallbackDrains,   \* the loops that lease only button presses
    SeriesMax,        \* messages one turn may answer
    MaxRotations,     \* bound: Eve sessions replaced per queue
    MaxFaults,        \* bound: faults of every kind in one behaviour
    Faults            \* the kinds of fault this instance admits

FaultKinds == {"crash", "expiry", "db_error", "dispatch_error", "boundary_lost",
               "rotation_error", "release_error", "late_arrival", "migration"}

Drains == AnyDrains \cup CallbackDrains
Sessions == Queues \X (0..MaxRotations)

ASSUME UpdatesAssumption == Updates \subseteq Nat \ {0}
ASSUME ShapesAssumption ==
    /\ Queue \in [Updates -> Queues]
    /\ Shape \in [Updates -> {"text", "voice", "callback", "junk"}]
    /\ Private \subseteq Queues
ASSUME DrainsAssumption == AnyDrains \cap CallbackDrains = {}
ASSUME BoundsAssumption ==
    /\ SeriesMax \in Nat \ {0}
    /\ MaxRotations \in Nat
    /\ MaxFaults \in Nat
    /\ Faults \subseteq FaultKinds

VARIABLES
    \* telegram_ingress_updates
    status, attempt, live, dispatched, voice,
    \* telegram_group_migrations, eve_session_event_cursors
    retired, cursor,
    \* the drain loops of the process
    pc, held, token, beatLost, session, from,
    \* `staleLeasesRelease`, the promise every drain of a process awaits
    release,
    \* Eve: the current session of a queue, its turns in order, how many ended
    current, turns, ended,
    \* what happened so far
    dispatches, billed, closedBy, faults

rowVars     == <<status, attempt, live, dispatched, voice>>
drainVars   == <<pc, held, token, beatLost, session, from>>
eveVars     == <<current, turns, ended>>
historyVars == <<dispatches, billed, closedBy>>
vars == <<rowVars, retired, cursor, drainVars, release, eveVars, historyVars, faults>>

Labels == {"off", "release", "retire", "claim", "prepare", "transcribe", "save",
           "series", "begin", "dispatch", "complete", "cursor", "wait", "rotate",
           "finish", "failing"}

\* Every variable has its type, and a row the shape the CHECKs of
\* migrations/005_telegram_durable_ingress.sql demand: only a row in processing
\* carries a lease, and a transcript is never stored before it was started.
TypeOK ==
    /\ status \in [Updates -> {"absent", "pending", "processing", "completed", "failed"}]
    /\ attempt \in [Updates -> Nat]
    /\ live \in [Updates -> BOOLEAN]
    /\ \A u \in Updates : live[u] => status[u] = "processing"
    /\ dispatched \in [Updates -> BOOLEAN]
    /\ voice \in [Updates -> {"untouched", "started", "saved"}]
    /\ retired \subseteq Queues
    /\ cursor \in [Sessions -> Nat]
    /\ pc \in [Drains -> Labels]
    /\ held \in [Drains -> SUBSET Updates]
    /\ token \in [Drains -> [Updates -> Nat]]
    /\ beatLost \in [Drains -> BOOLEAN]
    /\ session \in [Drains -> Sessions \cup {<<>>}]
    /\ from \in [Drains -> Nat]
    /\ release \in {"none", "done", "failed"}
    /\ current \in [Queues -> 0..MaxRotations]
    /\ turns \in [Sessions -> Seq(Updates)]
    /\ ended \in [Sessions -> Nat]
    /\ dispatches \in [Updates -> Nat]
    /\ billed \in [Updates -> Nat]
    /\ closedBy \in [Updates -> Updates \cup {0}]
    /\ faults \in Nat

Init ==
    /\ status = [u \in Updates |-> "absent"]
    /\ attempt = [u \in Updates |-> 0]
    /\ live = [u \in Updates |-> FALSE]
    /\ dispatched = [u \in Updates |-> FALSE]
    /\ voice = [u \in Updates |-> "untouched"]
    /\ retired = {}
    /\ cursor = [s \in Sessions |-> 0]
    /\ pc = [d \in Drains |-> "off"]
    /\ held = [d \in Drains |-> {}]
    /\ token = [d \in Drains |-> [u \in Updates |-> 0]]
    /\ beatLost = [d \in Drains |-> FALSE]
    /\ session = [d \in Drains |-> <<>>]
    /\ from = [d \in Drains |-> 0]
    /\ release = "none"
    /\ current = [q \in Queues |-> 0]
    /\ turns = [s \in Sessions |-> <<>>]
    /\ ended = [s \in Sessions |-> 0]
    /\ dispatches = [u \in Updates |-> 0]
    /\ billed = [u \in Updates |-> 0]
    /\ closedBy = [u \in Updates |-> 0]
    /\ faults = 0

-----------------------------------------------------------------------------
(* The rows. *)

Open(u)     == status[u] \in {"pending", "processing"}
Terminal(u) == status[u] \in {"completed", "failed"}

Earlier(u) == {e \in Updates : Queue[e] = Queue[u] /\ e < u}
Later(u)   == {v \in Updates : Queue[v] = Queue[u] /\ v > u}

\* `requireActiveLease`: the row is processing under this drain's live token.
Owns(d, u) ==
    /\ status[u] = "processing"
    /\ attempt[u] = token[d][u]
    /\ live[u]

\* Mutations: an expired lease is never reclaimed, a row in processing is no barrier.
Unleased_PendingOnly(u) == status[u] = "pending"
AtHead_PastLeased(u) == \A e \in Earlier(u) : status[e] # "pending"

\* The candidate query of `claimNext`: no earlier row of the queue is open, and
\* the lease, if there is one, has run out.
Unleased(u) == status[u] = "pending" \/ (status[u] = "processing" /\ ~live[u])
AtHead(u)   == \A e \in Earlier(u) : ~Open(e)
Claimable(d) ==
    {u \in Updates :
        /\ Unleased(u)
        /\ Queue[u] \notin retired
        /\ d \in CallbackDrains => Shape[u] = "callback"
        /\ AtHead(u)}

\* Mutations of the barriers below: the mark is not looked at.
MayTranscribe_Again(d, u) == Owns(d, u)
MayEnterEve_Again(d, u)   == Owns(d, u)

\* The barriers before the provider and before Eve: a mark that is set stays set.
MayTranscribe(d, u) == Owns(d, u) /\ voice[u] = "untouched"
MayEnterEve(d, u)   == Owns(d, u) /\ ~dispatched[u]

\* Every query and loop of the ingress goes by ascending update id.
IsFirst(u, S) == u \in S /\ \A v \in S : u <= v

\* `claimFollowing`: the pending rows behind the head, up to the first that does
\* not continue it and to the length of a series.
Continues(head, u) == Shape[head] = "text" /\ Shape[u] = "text" /\ Author[head] = Author[u]
Followers(head) ==
    LET waiting == {v \in Later(head) : status[v] = "pending"}
    IN {v \in waiting :
          /\ \A w \in waiting : w <= v => Continues(head, w)
          /\ Cardinality({w \in waiting : w <= v}) < SeriesMax}

\* Rows of `us` change hands: a new token, a live lease, held by d.
Lease(d, us) ==
    /\ status' = [u \in Updates |-> IF u \in us THEN "processing" ELSE status[u]]
    /\ attempt' = [u \in Updates |-> IF u \in us THEN attempt[u] + 1 ELSE attempt[u]]
    /\ live' = [u \in Updates |-> u \in us \/ live[u]]
    /\ held' = [held EXCEPT ![d] = @ \cup us]
    /\ token' = [token EXCEPT ![d] =
                    [u \in Updates |-> IF u \in us THEN attempt[u] + 1 ELSE @[u]]]

\* Mutation of Settle: the lease columns are not cleared.
Settle_KeepsLease(u, final) ==
    /\ status' = [status EXCEPT ![u] = final]
    /\ UNCHANGED live

\* A terminal status clears the lease.
Settle(u, final) ==
    /\ status' = [status EXCEPT ![u] = final]
    /\ live' = [live EXCEPT ![u] = FALSE]

Fault(kind) == kind \in Faults /\ faults < MaxFaults /\ faults' = faults + 1

Goto(d, label) == pc' = [pc EXCEPT ![d] = label]

\* A loop that ends or settles a row no longer holds its lease.
Drop(d, us) ==
    /\ held' = [held EXCEPT ![d] = @ \ us]
    /\ token' = [token EXCEPT ![d] = [u \in Updates |-> IF u \in us THEN 0 ELSE @[u]]]

-----------------------------------------------------------------------------
(* Telegram and the webhook. *)

\* `enqueue` inserts the row.  Without the fault "late_arrival" the updates of a
\* queue are committed in the order of their ids.
Arrive(u) ==
    /\ status[u] = "absent"
    /\ \/ "late_arrival" \in Faults
       \/ \A e \in Earlier(u) : status[e] # "absent"
    /\ status' = [status EXCEPT ![u] = "pending"]
    /\ UNCHANGED <<attempt, live, dispatched, voice, retired, cursor, drainVars,
                   release, eveVars, historyVars, faults>>

\* Mutation of PoolOpen: there is no callback pool.
PoolOpen_MessageLoops(d) == d \in AnyDrains

\* A loop of the callback pool starts only while every message loop is busy.
PoolOpen(d) == d \in CallbackDrains => \A a \in AnyDrains : pc[a] # "off"

\* A verified update or the poller's /telegram-drain request adds one
\* loop.
ScheduleDrain(d) ==
    /\ pc[d] = "off"
    /\ PoolOpen(d)
    /\ Goto(d, "release")
    /\ UNCHANGED <<rowVars, retired, cursor, held, token, beatLost, session, from,
                   release, eveVars, historyVars, faults>>

-----------------------------------------------------------------------------
(* One drain loop. *)

\* The first drain of a process expires every live lease; the others await it.
ReleaseStaleLeases(d) ==
    /\ pc[d] = "release"
    /\ release # "failed"
    /\ live' = IF release = "none" THEN [u \in Updates |-> FALSE] ELSE live
    /\ release' = "done"
    /\ Goto(d, "retire")
    /\ UNCHANGED <<status, attempt, dispatched, voice, retired, cursor, held, token,
                   beatLost, session, from, eveVars, historyVars, faults>>

\* The release rejects.  The rejected promise is kept (`??=`), so from then on
\* every drain of the process ends where it awaits it.
ReleaseRejects(d) ==
    /\ pc[d] = "release"
    /\ \/ release = "none" /\ Fault("release_error")
       \/ release = "failed" /\ UNCHANGED faults
    /\ release' = "failed"
    /\ Goto(d, "off")
    /\ UNCHANGED <<rowVars, retired, cursor, held, token, beatLost, session, from,
                   eveVars, historyVars>>

\* `retireMigratedChatIngress`, the first statement of `claimNext`.
RetireMigratedChatIngress(d) ==
    /\ pc[d] = "retire"
    /\ status' = [u \in Updates |->
                    IF status[u] # "pending" \/ Queue[u] \notin retired THEN status[u]
                    ELSE IF ~dispatched[u] /\ voice[u] = "untouched" THEN "completed"
                    ELSE "failed"]
    /\ Goto(d, "claim")
    /\ UNCHANGED <<attempt, live, dispatched, voice, retired, cursor, held, token,
                   beatLost, session, from, release, eveVars, historyVars, faults>>

ClaimNext(d) ==
    /\ pc[d] = "claim"
    /\ \E u \in Updates :
          /\ IsFirst(u, Claimable(d))
          /\ Lease(d, {u})
    /\ beatLost' = [beatLost EXCEPT ![d] = FALSE]
    /\ Goto(d, "prepare")
    /\ UNCHANGED <<dispatched, voice, retired, cursor, session, from, release, eveVars,
                   historyVars, faults>>

\* Nothing to claim: the loop returns.
ClaimNothing(d) ==
    /\ pc[d] = "claim"
    /\ Claimable(d) = {}
    /\ Goto(d, "off")
    /\ UNCHANGED <<rowVars, retired, cursor, held, token, beatLost, session, from,
                   release, eveVars, historyVars, faults>>

\* An unparsable payload, and a button of a software update, settle without Eve.
PrepareWithoutEve(d) ==
    /\ pc[d] = "prepare"
    /\ \E u \in held[d] : Shape[u] \in {"junk", "callback"}
    /\ Goto(d, "complete")
    /\ UNCHANGED <<rowVars, retired, cursor, held, token, beatLost, session, from,
                   release, eveVars, historyVars, faults>>

\* No voice, a voice nobody authorized, or one whose transcript is stored.
PrepareForEve(d) ==
    /\ pc[d] = "prepare"
    /\ \E u \in held[d] : Shape[u] # "junk"
    /\ Goto(d, "series")
    /\ UNCHANGED <<rowVars, retired, cursor, held, token, beatLost, session, from,
                   release, eveVars, historyVars, faults>>

\* `beginVoiceTranscription`: a started transcription is never started again.
BeginVoiceTranscription(d) ==
    /\ pc[d] = "prepare"
    /\ \E u \in held[d] :
          /\ Shape[u] = "voice"
          /\ voice[u] # "saved"
          /\ IF MayTranscribe(d, u)
             THEN voice' = [voice EXCEPT ![u] = "started"] /\ Goto(d, "transcribe")
             ELSE UNCHANGED voice /\ Goto(d, "failing")
    /\ UNCHANGED <<status, attempt, live, dispatched, retired, cursor, held, token,
                   beatLost, session, from, release, eveVars, historyVars, faults>>

\* The provider call: a transcript, silence (an error only in a private chat), or
\* an error.
TranscribeVoice(d) ==
    /\ pc[d] = "transcribe"
    /\ \E u \in held[d] :
          /\ billed' = [billed EXCEPT ![u] = @ + 1]
          /\ \E heard \in {"text", "silence", "error"} :
                Goto(d, CASE heard = "text" -> "save"
                          [] heard = "silence" /\ Queue[u] \notin Private -> "series"
                          [] OTHER -> "failing")
    /\ UNCHANGED <<rowVars, retired, cursor, held, token, beatLost, session, from,
                   release, eveVars, dispatches, closedBy, faults>>

SaveVoiceTranscript(d) ==
    /\ pc[d] = "save"
    /\ \E u \in held[d] :
          IF Owns(d, u) /\ voice[u] # "untouched"
          THEN voice' = [voice EXCEPT ![u] = "saved"] /\ Goto(d, "series")
          ELSE UNCHANGED voice /\ Goto(d, "failing")
    /\ UNCHANGED <<status, attempt, live, dispatched, retired, cursor, held, token,
                   beatLost, session, from, release, eveVars, historyVars, faults>>

\* `claimSeriesFollowers`; no series is formed while the chat has open approvals,
\* which only the chat's other components know.
ClaimFollowing(d) ==
    /\ pc[d] = "series"
    /\ \E u \in held[d], us \in {{}, UNION {Followers(v) : v \in held[d]}} :
          /\ Shape[u] # "text" => us = {}
          /\ Lease(d, us)
    /\ Goto(d, "begin")
    /\ UNCHANGED <<dispatched, voice, retired, cursor, beatLost, session, from, release,
                   eveVars, historyVars, faults>>

\* `beginDispatch`: the barrier that lets an update enter Eve at most once.
BeginDispatch(d) ==
    /\ pc[d] = "begin"
    /\ \E u \in held[d] :
          /\ IsFirst(u, held[d])
          /\ IF MayEnterEve(d, u)
             THEN dispatched' = [dispatched EXCEPT ![u] = TRUE] /\ Goto(d, "dispatch")
             ELSE UNCHANGED dispatched /\ Goto(d, "failing")
    /\ UNCHANGED <<status, attempt, live, voice, retired, cursor, held, token, beatLost,
                   session, from, release, eveVars, historyVars, faults>>

\* Eve only journals the update: a context message of a series, a message nobody
\* addressed to the agent.
DispatchWithoutTurn(d) ==
    /\ pc[d] = "dispatch"
    /\ \E u \in held[d] :
          /\ IsFirst(u, held[d])
          /\ dispatches' = [dispatches EXCEPT ![u] = @ + 1]
    /\ Goto(d, "complete")
    /\ UNCHANGED <<rowVars, retired, cursor, held, token, beatLost, session, from,
                   release, eveVars, billed, closedBy, faults>>

\* Eve queues a turn on the current session of the chat (turnPolicy "queue").
DispatchTurn(d) ==
    /\ pc[d] = "dispatch"
    /\ \E u \in held[d] :
          LET s == <<Queue[u], current[Queue[u]]>> IN
          /\ held[d] = {u}
          /\ dispatches' = [dispatches EXCEPT ![u] = @ + 1]
          /\ turns' = [turns EXCEPT ![s] = Append(@, u)]
          /\ session' = [session EXCEPT ![d] = s]
    /\ Goto(d, "cursor")
    /\ UNCHANGED <<rowVars, retired, cursor, held, token, beatLost, from, release,
                   current, ended, billed, closedBy, faults>>

\* The dispatch throws; Eve may have queued the turn before it did.
DispatchFails(d) ==
    /\ pc[d] = "dispatch"
    /\ Fault("dispatch_error")
    /\ \E u \in held[d], accepted \in BOOLEAN :
          LET s == <<Queue[u], current[Queue[u]]>> IN
          /\ IsFirst(u, held[d])
          /\ accepted => held[d] = {u}
          /\ dispatches' = [dispatches EXCEPT ![u] = @ + 1]
          /\ turns' = IF accepted THEN [turns EXCEPT ![s] = Append(@, u)] ELSE turns
    /\ Goto(d, "failing")
    /\ UNCHANGED <<rowVars, retired, cursor, held, token, beatLost, session, from,
                   release, current, ended, billed, closedBy>>

ReadCursor(d) ==
    /\ pc[d] = "cursor"
    /\ from' = [from EXCEPT ![d] = cursor[session[d]]]
    /\ Goto(d, "wait")
    /\ UNCHANGED <<rowVars, retired, cursor, held, token, beatLost, session, release,
                   eveVars, historyVars, faults>>

\* `waitForSessionBoundary`: the first boundary event at or after the cursor.
BoundarySeen(d) == ended[session[d]] > from[d]
ObserveBoundary(d) ==
    /\ pc[d] = "wait"
    /\ BoundarySeen(d)
    /\ Goto(d, "finish")
    /\ UNCHANGED <<rowVars, retired, cursor, held, token, beatLost, session, from,
                   release, eveVars, historyVars, faults>>

\* The stream stays silent for the idle window, or closes without a boundary.
LoseBoundary(d) ==
    /\ pc[d] = "wait"
    /\ "boundary_lost" \in Faults
    /\ ~BoundarySeen(d)
    /\ Goto(d, "rotate")
    /\ UNCHANGED <<rowVars, retired, cursor, held, token, beatLost, session, from,
                   release, eveVars, historyVars, faults>>

\* Mutation of Replaced: a lost boundary rotates nothing.
Replaced_Never(s) == current

\* `rotateLostSession`: the next message of the chat starts a new Eve session.
\* A session that is no longer the chat's current one is left alone.
Replaced(s) == IF s[2] = current[s[1]] THEN [current EXCEPT ![s[1]] = @ + 1] ELSE current
RotateLostSession(d) ==
    /\ pc[d] = "rotate"
    /\ \/ /\ current' = Replaced(session[d])
          /\ current' \in [Queues -> 0..MaxRotations]
          /\ UNCHANGED faults
       \/ Fault("rotation_error") /\ UNCHANGED current
    /\ Goto(d, "failing")
    /\ UNCHANGED <<rowVars, retired, cursor, held, token, beatLost, session, from,
                   release, turns, ended, historyVars>>

\* `completeWithSession`: the row and the cursor move in one transaction, which a
\* cursor that would move back rolls back.
NextEventIndex(d) == from[d] + 1
CompleteWithSession(d) ==
    /\ pc[d] = "finish"
    /\ LET s == session[d]
           next == NextEventIndex(d)
       IN \E u \in held[d] :
          IF ~beatLost[d] /\ Owns(d, u) /\ cursor[s] <= next
          THEN /\ Settle(u, "completed")
               /\ Drop(d, {u})
               /\ cursor' = [cursor EXCEPT ![s] = next]
               /\ closedBy' = [closedBy EXCEPT ![u] = turns[s][from[d] + 1]]
               /\ Goto(d, "retire")
          ELSE /\ Goto(d, "failing")
               /\ UNCHANGED <<status, live, held, token, cursor, closedBy>>
    /\ UNCHANGED <<attempt, dispatched, voice, retired, beatLost, session, from, release,
                   eveVars, dispatches, billed, faults>>

\* `complete`; the loop goes on with the rest of the series, or claims again.
Complete(d) ==
    /\ pc[d] = "complete"
    /\ \E u \in held[d] :
          /\ IsFirst(u, held[d])
          /\ IF Owns(d, u)
             THEN /\ Settle(u, "completed")
                  /\ Drop(d, {u})
                  /\ Goto(d, IF held[d] = {u} THEN "retire" ELSE "begin")
             ELSE Goto(d, "failing") /\ UNCHANGED <<status, live, held, token>>
    /\ UNCHANGED <<attempt, dispatched, voice, retired, cursor, beatLost, session, from,
                   release, eveVars, historyVars, faults>>

\* The catch block fails what the loop still holds, oldest first.  A lease lost
\* meanwhile makes `fail` throw too: the rest stays leased until it expires.
FailHeld(d) ==
    /\ pc[d] = "failing"
    /\ \E u \in held[d] :
          /\ IsFirst(u, held[d])
          /\ IF Owns(d, u)
             THEN /\ Settle(u, "failed")
                  /\ Drop(d, {u})
                  /\ Goto(d, IF held[d] = {u} THEN "off" ELSE "failing")
             ELSE Drop(d, held[d]) /\ Goto(d, "off") /\ UNCHANGED <<status, live>>
    /\ UNCHANGED <<attempt, dispatched, voice, retired, cursor, beatLost, session, from,
                   release, eveVars, historyVars, faults>>

\* The heartbeat of a held row finds its lease gone.
HeartbeatFails(d) ==
    /\ pc[d] \notin {"off", "release", "retire", "claim", "failing"}
    /\ ~beatLost[d]
    /\ \E u \in held[d] : ~Owns(d, u)
    /\ beatLost' = [beatLost EXCEPT ![d] = TRUE]
    /\ UNCHANGED <<rowVars, retired, cursor, pc, held, token, session, from, release,
                   eveVars, historyVars, faults>>

-----------------------------------------------------------------------------
(* Eve, time and failures. *)

\* The oldest queued turn of a session ends and emits its boundary event.
TurnEnds(s) ==
    /\ ended[s] < Len(turns[s])
    /\ ended' = [ended EXCEPT ![s] = @ + 1]
    /\ UNCHANGED <<rowVars, retired, cursor, drainVars, release, current, turns,
                   historyVars, faults>>

Holder(u) == {d \in Drains : u \in held[d] /\ Owns(d, u)}

\* A lease nobody renews runs out; a renewed one only by a fault (a stalled event
\* loop, a database that is away for fifteen minutes).
LeaseExpires(u) ==
    /\ status[u] = "processing" /\ live[u]
    /\ IF Holder(u) = {} THEN UNCHANGED faults ELSE Fault("expiry")
    /\ live' = [live EXCEPT ![u] = FALSE]
    /\ UNCHANGED <<status, attempt, dispatched, voice, retired, cursor, drainVars,
                   release, eveVars, historyVars>>

\* A statement of the loop throws and leaves the database as it was; so does the
\* event stream of a session, whose error is no lost boundary and rotates nothing.
DatabaseError(d) ==
    /\ Fault("db_error")
    /\ \/ /\ pc[d] \in {"prepare", "save", "series", "begin", "cursor", "wait", "complete", "finish"}
          /\ Goto(d, "failing")
          /\ UNCHANGED <<held, token>>
       \/ /\ pc[d] \in {"retire", "claim", "failing"}
          /\ Goto(d, "off")
          /\ Drop(d, held[d])
    /\ UNCHANGED <<rowVars, retired, cursor, beatLost, session, from, release, eveVars,
                   historyVars>>

\* The process dies and starts again; the rows, the cursors and Eve's turns stay.
Crash ==
    /\ Fault("crash")
    /\ pc' = [d \in Drains |-> "off"]
    /\ held' = [d \in Drains |-> {}]
    /\ token' = [d \in Drains |-> [u \in Updates |-> 0]]
    /\ beatLost' = [d \in Drains |-> FALSE]
    /\ session' = [d \in Drains |-> <<>>]
    /\ from' = [d \in Drains |-> 0]
    /\ release' = "none"
    /\ UNCHANGED <<rowVars, retired, cursor, eveVars, historyVars>>

\* A group becomes a supergroup: its old chat is retired.
Migrate(q) ==
    /\ q \notin retired
    /\ Fault("migration")
    /\ retired' = retired \cup {q}
    /\ UNCHANGED <<rowVars, cursor, drainVars, release, eveVars, historyVars>>

-----------------------------------------------------------------------------

LoopStep(d) ==
    \/ ReleaseStaleLeases(d) \/ ReleaseRejects(d)
    \/ RetireMigratedChatIngress(d) \/ ClaimNext(d) \/ ClaimNothing(d)
    \/ PrepareWithoutEve(d) \/ PrepareForEve(d)
    \/ BeginVoiceTranscription(d) \/ TranscribeVoice(d) \/ SaveVoiceTranscript(d)
    \/ ClaimFollowing(d) \/ BeginDispatch(d)
    \/ DispatchWithoutTurn(d) \/ DispatchTurn(d) \/ DispatchFails(d)
    \/ ReadCursor(d) \/ ObserveBoundary(d) \/ RotateLostSession(d)
    \/ CompleteWithSession(d) \/ Complete(d) \/ FailHeld(d)

DrainStep(d) == LoopStep(d) \/ LoseBoundary(d)

Next ==
    \/ \E u \in Updates : Arrive(u) \/ LeaseExpires(u)
    \/ \E d \in Drains : ScheduleDrain(d) \/ DrainStep(d) \/ HeartbeatFails(d) \/ DatabaseError(d)
    \/ \E s \in Sessions : TurnEnds(s)
    \/ \E q \in Queues : Migrate(q)
    \/ Crash

\* The poller adds a loop every five seconds, a loop takes its next step (giving up a
\* boundary, which is up to the stream, is none), and a lease nobody renews runs out.
\* Nothing is assumed of Telegram, of Eve's turns or of faults.
Fairness ==
    /\ \A d \in Drains : WF_vars(ScheduleDrain(d)) /\ WF_vars(LoopStep(d))
    /\ \A u \in Updates : WF_vars(Holder(u) = {} /\ LeaseExpires(u))

Spec == Init /\ [][Next]_vars
FairSpec == Spec /\ Fairness

-----------------------------------------------------------------------------
(* What the ingress promises. *)

\* An update enters Eve at most once, whatever crashes, expires or is retried:
\* the dispatch barrier is what makes a reclaimed row fail instead of running
\* the person's request, and its side effects, a second time.
EntersEveOnce == \A u \in Updates : dispatches[u] <= 1

\* The speech provider is paid at most once for a voice message.
BilledOnce == \A u \in Updates : billed[u] <= 1

\* Two loops never both own a row, so no row is settled by two of them.
LeaseExclusive ==
    \A d1, d2 \in Drains, u \in Updates :
        d1 # d2 /\ u \in held[d1] \cap held[d2] => ~(Owns(d1, u) /\ Owns(d2, u))

\* The boundary that completed an update is the boundary of that update's turn.
\* A message completed by the boundary of an earlier turn lets the next message
\* into Eve while its own turn still runs.
OwnBoundary == \A u \in Updates : closedBy[u] \in {0, u}

\* At most one loop is inside Eve for one chat.
Inside(d) == {u \in held[d] : pc[d] \in {"dispatch", "cursor", "wait"}}
OneLoopInsideEve ==
    \A d1, d2 \in Drains : \A u1 \in Inside(d1), u2 \in Inside(d2) :
        d1 # d2 => Queue[u1] # Queue[u2]

\* Turns of one chat neither overlap nor borrow each other's end.
TurnsKeepApart == OwnBoundary /\ OneLoopInsideEve

\* A settled row stays as it is; a dispatch mark is never taken back.
SettledForever ==
    [][\A u \in Updates :
          /\ Terminal(u) => status'[u] = status[u]
          /\ dispatched[u] => dispatched'[u]]_vars

\* The rows seen through IngressOrder: the detailed ingress implements it.
Phase == [u \in Updates |->
            CASE status[u] = "absent" -> "absent"
              [] Terminal(u) -> "settled"
              [] Open(u) /\ dispatched[u] -> "entered"
              [] OTHER -> "waiting"]
Order == INSTANCE IngressOrder WITH phase <- Phase
InOrder == Order!Spec

\* A row is eventually settled, unless its chat is retired while a dead loop still
\* holds it, and provided a turn that does not end falls silent: a loop waits as long
\* as the stream of its session has events.
TurnsFallSilent == \A d \in Drains : WF_vars(LoseBoundary(d))
EveryUpdateSettles ==
    TurnsFallSilent =>
        \A u \in Updates : status[u] = "pending" ~> Terminal(u) \/ Queue[u] \in retired

\* A press in a free chat is leased although every message loop may be stuck in a
\* turn that never ends.
PressNotStarved ==
    \A u \in Updates :
        Shape[u] = "callback" /\ status[u] = "pending" ~> status[u] # "pending"

=============================================================================
