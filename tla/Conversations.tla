------------------------------ MODULE Conversations ------------------------------
(***************************************************************************)
(* The application sessions of one Telegram chat, the Eve turn of each, and *)
(* the confirmations (human in the loop) a turn parks on.                  *)
(*                                                                         *)
(*   agent/lib/sessions/session-repository.ts                              *)
(*   agent/lib/sessions/session-lifecycle-event-repository.ts              *)
(*   agent/lib/sessions/session-task-cleanup-repository.ts                 *)
(*   agent/lib/telegram-hitl/*.ts                                          *)
(*   agent/lib/telegram-reply-authorization.ts                             *)
(*   agent/channels/telegram.ts   events of an interactive session         *)
(*                                                                         *)
(* A session is numbered by its generation and has one Eve root.  A prompt *)
(* (ask) is one Telegram message that carries the request rows of one Eve  *)
(* step.  The ingress serves one update of the chat at a time (serving);   *)
(* the minute sweep of overdue confirmations runs beside it.               *)
(***************************************************************************)
EXTENDS Integers, FiniteSets

CONSTANTS
    Group,          \* a family group, as opposed to a private chat
    MaxSessions,    \* bound: generations
    MaxAsks,        \* bound: prompts
    MaxRequests,    \* bound: approvals in one step
    SweepBatch,     \* TELEGRAM_HITL_TIMEOUT_SWEEP_BATCH_SIZE
    MaxMessages,    \* bound: plain messages of the person
    MaxPolicies,    \* bound: changes of the audience
    MaxFaults       \* bound: crashes and failed calls

ASSUME GroupAssumption == Group \in BOOLEAN
ASSUME ConversationBounds ==
    /\ MaxSessions \in Nat /\ MaxAsks \in Nat /\ MaxMessages \in Nat
    /\ MaxPolicies \in Nat /\ MaxFaults \in Nat
    /\ MaxRequests \in Nat \ {0} /\ SweepBatch \in Nat \ {0}

VARIABLES
    session,    \* conversation_sessions, by generation
    base,       \* conversation_session_routes: where the chat's own token leads
    alias,      \* conversation_session_routes: where each prompt message leads
    prompt,     \* the prompt messages, and what Eve has heard of each
    row,        \* telegram_hitl_approvals
    late,       \* rows of each prompt older than the confirmation window
    leased,     \* rows under a timeout lease
    turn,       \* the turn of each session's Eve root
    press,      \* the press of each prompt's buttons
    sweep,      \* the running timeout sweep
    serving,    \* the session whose boundary the ingress waits for
    ran,        \* history: gated actions that were executed
    policy,     \* version of the audience's policy
    messages,   \* plain messages so far
    faults      \* faults so far

sessionVars == <<session, base, alias>>
promptVars  == <<prompt, row, late, leased>>
workVars    == <<turn, press, sweep, serving>>
vars == <<sessionVars, promptVars, workVars, ran, policy, messages, faults>>

Sessions == 1..MaxSessions
Asks     == 1..MaxAsks
Requests == 1..MaxRequests
NoOne    == 0
Decided  == {"approve", "cancel", "text", "timeout"}
TurnSteps == {"none", "starting", "running", "registering", "revealing", "closing",
              "recording", "clearing", "parked", "idle", "dead"}

ConversationsTypeOK ==
    /\ session \in [Sessions -> [kind : {"none", "canonical", "task"},
                                 state : {"none", "pending", "running", "completed", "failed"},
                                 pending : BOOLEAN, bound : BOOLEAN, retired : BOOLEAN,
                                 rotate : BOOLEAN, policy : 0..MaxPolicies]]
    \* the two CHECK constraints of the table
    /\ \A s \in Sessions : session[s].kind # "none" =>
           /\ session[s].kind = "canonical" <=> session[s].state = "none"
           /\ ~(Group /\ session[s].kind = "canonical" /\ session[s].pending)
    /\ base \in 0..MaxSessions
    /\ alias \in [Asks -> 0..MaxSessions]
    /\ prompt \in [Asks -> [session : 0..MaxSessions, kind : {"approval", "question"},
                            shown : {"none", "preparing", "open", "approve", "cancel", "timeout"},
                            heard : {"none", "approve", "cancel"}]]
    /\ row \in [Asks -> [Requests -> {"none", "open"} \cup Decided]]
    /\ late \in [Asks -> 0..MaxRequests]
    /\ leased \subseteq Asks \X Requests
    /\ turn \in [Sessions -> [at : TurnSteps, ask : 0..MaxAsks, awaiting : BOOLEAN]]
    /\ press \in [Asks -> [at : {"none", "queued", "claimed", "edited", "done"},
                           option : {"approve", "cancel"}]]
    /\ sweep \in [at : {"idle", "answer", "settle"}, rows : SUBSET (Asks \X Requests)]
    /\ serving \in 0..MaxSessions
    /\ ran \subseteq Asks \X Requests
    /\ policy \in 0..MaxPolicies
    /\ messages \in 0..MaxMessages
    /\ faults \in 0..MaxFaults

NoSession == [kind |-> "none", state |-> "none", pending |-> FALSE, bound |-> FALSE,
              retired |-> FALSE, rotate |-> FALSE, policy |-> 0]

ConversationsInit ==
    /\ session = [s \in Sessions |-> NoSession]
    /\ base = NoOne
    /\ alias = [a \in Asks |-> NoOne]
    /\ prompt = [a \in Asks |-> [session |-> NoOne, kind |-> "approval", shown |-> "none",
                                 heard |-> "none"]]
    /\ row = [a \in Asks |-> [q \in Requests |-> "none"]]
    /\ late = [a \in Asks |-> 0]
    /\ leased = {}
    /\ turn = [s \in Sessions |-> [at |-> "none", ask |-> 0, awaiting |-> FALSE]]
    /\ press = [a \in Asks |-> [at |-> "none", option |-> "cancel"]]
    /\ sweep = [at |-> "idle", rows |-> {}]
    /\ serving = NoOne
    /\ ran = {} /\ policy = 0 /\ messages = 0 /\ faults = 0

Fault == faults < MaxFaults /\ faults' = faults + 1
Live(s) == s \in Sessions /\ session[s].kind # "none" /\ ~session[s].retired

-----------------------------------------------------------------------------
(* Rows of a table the transactions below change together. *)

\* Rows a session's prompts have registered, and the ones still open.
RowsOf(s) == {x \in Asks \X Requests :
                 prompt[x[1]].session = s /\ row[x[1]][x[2]] # "none"}
Registered(a) == {q \in Requests : row[a][q] # "none"}
OpenIn(s, rows) == \E x \in RowsOf(s) : rows[x[1]][x[2]] = "open"

\* Writes status into the rows of a set.
Written(rows, status) ==
    [a \in Asks |-> [q \in Requests |-> IF <<a, q>> \in rows THEN status ELSE row[a][q]]]

\* clearForEveSession.
Cleared(s) == Written(RowsOf(s), "none")

\* What a decision leaves of the session: the rotation veto stays exactly while
\* a row is open, and a task without one is running again.
Decide(s, rows) ==
    [session EXCEPT ![s].pending = OpenIn(s, rows),
                    ![s].state = IF session[s].kind = "task" /\ ~OpenIn(s, rows)
                                 THEN "running" ELSE @]

\* Retirement of a session that is not canonical takes its routes with it.
Retiring(s) == session[s].kind = "task"
Retired(s, state) ==
    [session EXCEPT ![s].pending = FALSE,
                    ![s].state = IF Retiring(s) THEN state ELSE @,
                    ![s].retired = @ \/ Retiring(s)]
DropRoutes(s) ==
    /\ base' = IF base = s THEN NoOne ELSE base
    /\ alias' = [a \in Asks |-> IF alias[a] = s THEN NoOne ELSE alias[a]]
DropRoutesOfTask(s) ==
    IF Retiring(s) THEN DropRoutes(s) ELSE UNCHANGED <<base, alias>>

\* Eve's root reaches a boundary: it waits for an answer or for a message.
AtBoundary(s) == turn' = [turn EXCEPT ![s].at = IF turn[s].ask # 0 THEN "parked" ELSE "idle"]
FreeChat(s) == serving' = IF serving = s THEN NoOne ELSE serving
TurnAt(s, step) == turn' = [turn EXCEPT ![s].at = step]

-----------------------------------------------------------------------------
(* prepareTurn and the delivery of a plain message. *)

Known == {s \in Sessions : session[s].kind # "none"}
Newest(S) == CHOOSE s \in S : \A t \in S : t <= s

\* findSessionForUpdate: live ones first, then by generation.
Candidates == {s \in Known : session[s].kind = "canonical" /\ (base = s \/ ~session[s].retired)}
Found == LET live == {s \in Candidates : Live(s)}
         IN  IF live # {} THEN Newest(live)
             ELSE IF Candidates # {} THEN Newest(Candidates) ELSE NoOne

NextGeneration == Cardinality({s \in Sessions : session[s] # NoSession}) + 1
NewSession == [NoSession EXCEPT !.kind = "canonical", !.policy = policy]

Delivered(s) ==
    /\ turn' = [turn EXCEPT ![s].at = IF @ \in {"none", "idle"} THEN "starting" ELSE @]
    /\ serving' = s

\* The chat's session is current and is kept.
KeepSession(tired) ==
    /\ Live(Found) /\ session[Found].policy = policy
    /\ (tired \/ session[Found].rotate) => session[Found].pending
    /\ base' = Found
    /\ Delivered(Found)
    /\ UNCHANGED <<session, alias>>

\* A new generation: none yet, the last one retired, the audience changed, or due.
StartSession(tired) ==
    LET new == NextGeneration
        stale == Live(Found) /\ session[Found].policy # policy
        due == /\ Live(Found) /\ session[Found].policy = policy
               /\ ~session[Found].pending /\ (tired \/ session[Found].rotate)
    IN  /\ Live(Found) => stale \/ due
        /\ new \in Sessions
        /\ session' = [s \in Sessions |->
               IF s = new THEN NewSession
               ELSE IF s = Found /\ (stale \/ due)
                    THEN [session[s] EXCEPT !.retired = TRUE, !.pending = FALSE]
                    ELSE session[s]]
        /\ base' = new
        /\ alias' = [a \in Asks |-> IF alias[a] = Found /\ stale THEN NoOne
                                    ELSE IF alias[a] = Found /\ due THEN new ELSE alias[a]]
        /\ Delivered(new)

\* A plain message of the chat. tired: the turn limit or the quiet hours are over.
PlainMessage ==
    /\ serving = NoOne /\ messages < MaxMessages
    /\ \E tired \in BOOLEAN : KeepSession(tired) \/ StartSession(tired)
    /\ messages' = messages + 1
    /\ UNCHANGED <<promptVars, press, sweep, ran, policy, faults>>

\* The boundary is lost: the ingress gives up and asks for a new context.
LoseBoundary ==
    /\ serving # NoOne /\ Fault
    /\ serving' = NoOne
    /\ session' = IF Live(serving) /\ session[serving].bound
                  THEN [session EXCEPT ![serving].rotate = TRUE] ELSE session
    /\ UNCHANGED <<base, alias, promptVars, turn, press, sweep, ran, policy, messages>>

-----------------------------------------------------------------------------
(* Events of a turn, in the order Eve raises them. *)

\* turn.started; a bind that misses a retired session is logged and swallowed.
TurnStarts(s) ==
    /\ turn[s].at = "starting"
    /\ session' = IF Live(s) THEN [session EXCEPT ![s].bound = TRUE] ELSE session
    /\ TurnAt(s, "running")
    /\ UNCHANGED <<base, alias, promptVars, press, sweep, serving, ran, policy, messages, faults>>

\* A person asks the agent for a new context.
RequestRotation(s) ==
    /\ turn[s].at = "running" /\ Live(s) /\ ~session[s].rotate
    /\ session' = [session EXCEPT ![s].rotate = TRUE]
    /\ UNCHANGED <<base, alias, promptVars, workVars, ran, policy, messages, faults>>

\* parkSession: a group's canonical session becomes a task and loses its routes.
Promotes(s) == Group /\ session[s].kind = "canonical"
\* Mutant: the parked conversation keeps its kind.
Parked_KeepsKind(s) == [session EXCEPT ![s].pending = TRUE]
Parked(s) ==
    [session EXCEPT ![s].pending = TRUE,
                    ![s].kind = IF Promotes(s) THEN "task" ELSE @,
                    ![s].state = IF Promotes(s) \/ session[s].kind = "task"
                                 THEN "pending" ELSE @]
Park(s) ==
    /\ session' = Parked(s)
    /\ IF Promotes(s) THEN DropRoutes(s) ELSE UNCHANGED <<base, alias>>

NextAsk == Cardinality({a \in Asks : prompt[a].session # NoOne}) + 1

\* input.requested: the session is parked and the placeholder is posted.
Ask(s, kind) ==
    /\ turn[s].at = "running" /\ turn[s].ask = 0 /\ Live(s)
    /\ NextAsk \in Asks
    /\ Park(s)
    /\ prompt' = [prompt EXCEPT ![NextAsk] = [session |-> s, kind |-> kind,
                                              shown |-> "preparing", heard |-> "none"]]
    /\ turn' = [turn EXCEPT ![s].at = "registering", ![s].ask = NextAsk]
    /\ UNCHANGED <<row, late, leased, press, sweep, serving, ran, policy, messages, faults>>

\* The route of the prompt and a row for every request of the step. A request
\* that was registered before is opened again; its age is kept.
Opened(a) ==
    [row EXCEPT ![a] = [q \in Requests |->
        IF prompt[a].kind = "approval" \/ q = 1 THEN "open" ELSE "none"]]
RegisterRows(s) ==
    LET a == turn[s].ask
    IN  /\ turn[s].at = "registering" /\ Live(s)
        /\ alias' = [alias EXCEPT ![a] = s]
        /\ row' = Opened(a)
        /\ leased' = {x \in leased : x[1] # a}
        /\ TurnAt(s, "revealing")
        /\ UNCHANGED <<session, base, prompt, late, press, sweep, serving, ran, policy, messages, faults>>

\* Only now does the message get its buttons.
Reveal(s) ==
    /\ turn[s].at = "revealing"
    /\ prompt' = [prompt EXCEPT ![turn[s].ask].shown = "open"]
    /\ TurnAt(s, "closing")
    /\ UNCHANGED <<sessionVars, row, late, leased, press, sweep, serving, ran, policy, messages, faults>>

\* Eve repeats the step before it was committed: the handler runs again and its
\* rows move to a new message; the old one answers nothing.
RepeatInputRequested(s) ==
    /\ turn[s].at = "closing" /\ turn[s].ask # 0 /\ Live(s) /\ Fault
    /\ Park(s)
    /\ prompt' = [prompt EXCEPT ![turn[s].ask].shown = "preparing"]
    /\ press' = [press EXCEPT ![turn[s].ask].at = IF @ = "queued" THEN "done" ELSE @]
    /\ TurnAt(s, "registering")
    /\ UNCHANGED <<row, late, leased, sweep, serving, ran, policy, messages>>

\* turn.completed reads whether the session waits for a decision ...
ReadAwaiting(s) ==
    /\ \/ turn[s].at = "closing"
       \/ turn[s].at = "running" /\ turn[s].ask = 0
    /\ turn' = [turn EXCEPT ![s].at = "recording",
                    ![s].awaiting = Live(s) /\ session[s].bound /\ session[s].pending]
    /\ UNCHANGED <<sessionVars, promptVars, press, sweep, serving, ran, policy, messages, faults>>

\* ... and records the turn with what it read. A retired session makes the
\* record throw, so the clearing behind it is skipped.
Completed(s, awaiting) ==
    [session EXCEPT ![s].pending = awaiting, ![s].bound = TRUE,
                    ![s].state = IF Retiring(s) THEN IF awaiting THEN "pending" ELSE "completed"
                                 ELSE @,
                    ![s].retired = Retiring(s) /\ ~awaiting]
RecordCompleted(s) ==
    LET awaiting == turn[s].awaiting
    IN  /\ turn[s].at = "recording"
        /\ IF Live(s)
           THEN /\ session' = Completed(s, awaiting)
                /\ IF awaiting THEN UNCHANGED <<base, alias>> ELSE DropRoutesOfTask(s)
           ELSE UNCHANGED sessionVars
        /\ IF Live(s) /\ ~awaiting
           THEN TurnAt(s, "clearing") /\ UNCHANGED serving
           ELSE AtBoundary(s) /\ FreeChat(s)
        /\ UNCHANGED <<promptVars, press, sweep, ran, policy, messages, faults>>

ClearRows(s) ==
    /\ turn[s].at = "clearing"
    /\ row' = Cleared(s)
    /\ leased' = leased \ RowsOf(s)
    /\ AtBoundary(s) /\ FreeChat(s)
    /\ UNCHANGED <<sessionVars, prompt, late, press, sweep, ran, policy, messages, faults>>

\* The step of Eve that was parked goes on once all its requests are answered.
Resume(s) ==
    /\ turn[s].at = "parked" /\ prompt[turn[s].ask].heard # "none"
    /\ TurnAt(s, "starting")
    /\ UNCHANGED <<sessionVars, promptVars, press, sweep, serving, ran, policy, messages, faults>>

\* requireToolExecutionApproval.
Evidence(a, q) ==
    LET s == prompt[a].session
    IN  row[a][q] = "approve" /\ Live(s) /\ session[s].bound /\ session[s].policy = policy
RunGated(s) ==
    LET a == turn[s].ask
    IN  /\ turn[s].at = "running" /\ a # 0
        /\ ran' = IF prompt[a].heard = "approve"
                  THEN ran \cup {<<a, q>> : q \in {r \in Requests : Evidence(a, r)}} ELSE ran
        /\ turn' = [turn EXCEPT ![s].ask = 0]
        /\ UNCHANGED <<sessionVars, promptVars, press, sweep, serving, policy, messages, faults>>

\* turn.failed: the model's own failure, or an input.requested that threw. A
\* history that cannot go on asks for a new context, which throws for a session
\* that was just retired and then leaves the rows behind.
TurnFails(s, unrecoverable) ==
    /\ turn[s].at \in {"running", "registering", "revealing"} /\ Fault
    /\ session' = IF Live(s)
                  THEN [Retired(s, "failed") EXCEPT ![s].bound = TRUE,
                           ![s].rotate = @ \/ (unrecoverable /\ ~Retiring(s))]
                  ELSE session
    /\ IF Live(s) THEN DropRoutesOfTask(s) ELSE UNCHANGED <<base, alias>>
    /\ IF Live(s) /\ ~(unrecoverable /\ Retiring(s))
       THEN row' = Cleared(s) /\ leased' = leased \ RowsOf(s)
       ELSE UNCHANGED <<row, leased>>
    /\ turn' = [turn EXCEPT ![s].at = "idle", ![s].ask = 0]
    /\ FreeChat(s)
    /\ UNCHANGED <<prompt, late, press, sweep, ran, policy, messages>>

\* session.failed, for the root of a live session.
SessionFails(s) ==
    /\ turn[s].at = "running" /\ Live(s) /\ Fault
    /\ session' = [Retired(s, "failed") EXCEPT ![s].bound = TRUE,
                      ![s].rotate = @ \/ ~Retiring(s)]
    /\ DropRoutesOfTask(s)
    /\ turn' = [turn EXCEPT ![s].at = "dead", ![s].ask = 0]
    /\ FreeChat(s)
    /\ UNCHANGED <<promptVars, press, sweep, ran, policy, messages>>

\* turn.cancelled: the next message replaces the running turn.
TurnCancelled(s) ==
    /\ turn[s].at = "running" /\ serving = s /\ Fault
    /\ row' = Cleared(s) /\ leased' = leased \ RowsOf(s)
    /\ turn' = [turn EXCEPT ![s].at = "starting", ![s].ask = 0]
    /\ UNCHANGED <<sessionVars, prompt, late, press, sweep, serving, ran, policy, messages>>

-----------------------------------------------------------------------------
(* The person's decision. *)

Click(a, option) ==
    /\ prompt[a].shown = "open" /\ prompt[a].kind = "approval" /\ press[a].at = "none"
    /\ press' = [press EXCEPT ![a] = [at |-> "queued", option |-> option]]
    /\ UNCHANGED <<sessionVars, promptVars, turn, sweep, serving, ran, policy, messages, faults>>

\* Every row of the prompt must be answerable, and its route must be the session's.
\* Mutant: one answerable row is enough.
Claimable_AnyRow(a) ==
    LET s == prompt[a].session
    IN  /\ \E q \in Registered(a) : row[a][q] = "open"
        /\ Live(s) /\ session[s].bound /\ session[s].pending /\ session[s].policy = policy
        /\ alias[a] = s
Claimable(a) ==
    LET s == prompt[a].session
    IN  /\ Registered(a) # {} /\ \A q \in Registered(a) : row[a][q] = "open"
        /\ Live(s) /\ session[s].bound /\ session[s].pending /\ session[s].policy = policy
        /\ alias[a] = s
ClaimCallback(a) ==
    LET s == prompt[a].session
        decided == Written({<<a, q>> : q \in Registered(a)}, press[a].option)
    IN  /\ press[a].at = "queued" /\ serving = NoOne
        /\ IF Claimable(a)
           THEN /\ row' = decided
                /\ session' = Decide(s, decided)
                /\ press' = [press EXCEPT ![a].at = "claimed"]
                /\ serving' = s
           ELSE /\ press' = [press EXCEPT ![a].at = "done"]
                /\ UNCHANGED <<row, session, serving>>
        /\ UNCHANGED <<base, alias, prompt, late, leased, turn, sweep, ran, policy, messages, faults>>

\* The prompt is rewritten, best effort, before Eve is told.
EditPrompt(a) ==
    /\ press[a].at = "claimed"
    /\ \E shown \in {prompt[a].shown, press[a].option} :
           prompt' = [prompt EXCEPT ![a].shown = shown]
    /\ press' = [press EXCEPT ![a].at = "edited"]
    /\ UNCHANGED <<sessionVars, row, late, leased, turn, sweep, serving, ran, policy, messages, faults>>

\* Eve takes one answer for a request it waits for.
Hear(a, answer) ==
    prompt' = [prompt EXCEPT ![a].heard =
                  IF @ = "none" /\ turn[prompt[a].session].ask = a THEN answer ELSE @]
Respond(a) ==
    /\ press[a].at = "edited"
    /\ Hear(a, press[a].option)
    /\ press' = [press EXCEPT ![a].at = "done"]
    /\ serving' = IF turn[prompt[a].session].at \in {"idle", "dead"} THEN NoOne ELSE serving
    /\ UNCHANGED <<sessionVars, row, late, leased, turn, sweep, ran, policy, messages, faults>>

\* A crash, or Eve refuses the call: the update is not dispatched twice.
PressDies(a) ==
    /\ press[a].at \in {"claimed", "edited"} /\ Fault
    /\ press' = [press EXCEPT ![a].at = "done"]
    /\ serving' = NoOne
    /\ UNCHANGED <<sessionVars, promptVars, turn, sweep, ran, policy, messages>>

\* A text reply to a question: authorizeReply consumes the row, then prepareTurn
\* looks for a pending task on the route of the prompt.
TaskOnRoute(a, table) ==
    alias[a] # NoOne /\ table[alias[a]].kind = "task" /\ table[alias[a]].state = "pending"
AnswerQuestion(a) ==
    LET s == prompt[a].session
        decided == Written({<<a, 1>>}, "text")
    IN  /\ prompt[a].shown = "open" /\ prompt[a].kind = "question" /\ serving = NoOne
        /\ row[a][1] = "open" /\ Live(s) /\ session[s].bound /\ session[s].pending
        /\ session[s].policy = policy /\ alias[a] = s
        /\ row' = decided
        /\ session' = Decide(s, decided)
        /\ IF TaskOnRoute(a, session') THEN Hear(a, "approve") ELSE UNCHANGED prompt
        /\ UNCHANGED <<base, alias, late, leased, turn, press, sweep, serving, ran, policy, messages, faults>>

-----------------------------------------------------------------------------
(* The minute sweep of overdue confirmations. *)

TimePasses(a) ==
    /\ late[a] < Cardinality(Registered(a))
    /\ late' = [late EXCEPT ![a] = @ + 1]
    /\ UNCHANGED <<sessionVars, prompt, row, leased, workVars, ran, policy, messages, faults>>

Overdue(s) == {x \in RowsOf(s) : row[x[1]][x[2]] = "open" /\ x[2] <= late[x[1]] /\ x \notin leased}
Sweepable(s) == Live(s) /\ session[s].bound /\ session[s].pending

\* claimExpired, for the claims of one session. proven: the approver still holds
\* the role; without it the rows are closed and Eve is not told.
SweepClaim(s, proven) ==
    /\ sweep.at = "idle" /\ Sweepable(s) /\ Overdue(s) # {}
    /\ proven \/ faults < MaxFaults
    /\ faults' = IF proven THEN faults ELSE faults + 1
    /\ \E rows \in SUBSET Overdue(s) :
           /\ \/ Cardinality(rows) = SweepBatch
              \/ rows = Overdue(s) /\ Cardinality(rows) < SweepBatch
           /\ leased' = leased \cup rows
           /\ sweep' = [at |-> IF proven THEN "answer" ELSE "settle", rows |-> rows]
    /\ UNCHANGED <<sessionVars, prompt, row, late, turn, press, serving, ran, policy, messages>>

\* One delivery to Eve; a step with a request left out stays parked.
Whole(a) == \A q \in Registered(a) : <<a, q>> \in sweep.rows
SweepAnswers ==
    /\ sweep.at = "answer"
    /\ prompt' = [a \in Asks |->
           IF /\ \E q \in Requests : <<a, q>> \in sweep.rows
              /\ Whole(a) /\ prompt[a].heard = "none" /\ turn[prompt[a].session].ask = a
           THEN [prompt[a] EXCEPT !.heard = "cancel"] ELSE prompt[a]]
    /\ sweep' = [sweep EXCEPT !.at = "settle"]
    /\ UNCHANGED <<sessionVars, row, late, leased, turn, press, serving, ran, policy, messages, faults>>

SweepAnswerFails ==
    /\ sweep.at = "answer" /\ Fault
    /\ leased' = leased \ sweep.rows
    /\ sweep' = [at |-> "idle", rows |-> {}]
    /\ UNCHANGED <<sessionVars, prompt, row, late, turn, press, serving, ran, policy, messages>>

Without(x) == [at |-> IF sweep.rows = {x} THEN "idle" ELSE "settle", rows |-> sweep.rows \ {x}]

\* completeTimeout and, for the sweep that closed the row, the prompt's rewrite.
\* Mutant: the lease alone decides.
Settleable_Leased(x) == x \in leased
Settleable(x) == row[x[1]][x[2]] = "open" /\ x \in leased
Settle(x) ==
    LET s == prompt[x[1]].session
        decided == Written({x}, "timeout")
    IN  /\ sweep.at = "settle" /\ x \in sweep.rows
        /\ sweep' = Without(x)
        /\ IF Settleable(x)
           THEN /\ row' = decided
                /\ leased' = leased \ {x}
                /\ session' = IF Live(s) /\ session[s].bound THEN Decide(s, decided) ELSE session
                /\ prompt' = [prompt EXCEPT ![x[1]].shown = "timeout"]
           ELSE UNCHANGED <<row, leased, session, prompt>>
        /\ UNCHANGED <<base, alias, late, turn, press, serving, ran, policy, messages, faults>>

SettleFails(x) ==
    /\ sweep.at = "settle" /\ x \in sweep.rows /\ Fault
    /\ sweep' = Without(x)
    /\ UNCHANGED <<sessionVars, promptVars, turn, press, serving, ran, policy, messages>>

SweepDies ==
    /\ sweep.at # "idle" /\ Fault
    /\ sweep' = [at |-> "idle", rows |-> {}]
    /\ UNCHANGED <<sessionVars, promptVars, turn, press, serving, ran, policy, messages>>

\* Mutant: only a row that was never leased can be claimed.
LeaseRunsOut_Never(x) == FALSE /\ UNCHANGED vars
\* A lease outlives the longest sweep, so it runs out only when nobody uses it.
LeaseRunsOut(x) ==
    /\ x \in leased \ sweep.rows
    /\ leased' = leased \ {x}
    /\ UNCHANGED <<sessionVars, prompt, row, late, workVars, ran, policy, messages, faults>>

-----------------------------------------------------------------------------
(* Cleanup and the audience. *)

\* retireAbandonedTasks: a task nobody works on for days, or beyond the limit.
RetireAbandoned(s) ==
    /\ session[s].kind = "task" /\ session[s].state = "running" /\ ~session[s].pending /\ Live(s)
    /\ turn[s].at \in {"parked", "idle", "dead"}
    /\ session' = Retired(s, "failed")
    /\ DropRoutes(s)
    /\ UNCHANGED <<promptVars, workVars, ran, policy, messages, faults>>

\* deleteExpiredSessions: the Eve root, the session and its rows are gone.
DeleteExpired(s) ==
    /\ session[s].kind # "none" /\ session[s].retired /\ session[s].bound /\ ~session[s].pending
    /\ turn[s].at \in {"parked", "idle", "dead"} /\ serving # s
    /\ session' = [session EXCEPT ![s].kind = "none"]
    /\ DropRoutes(s)
    /\ row' = Cleared(s) /\ leased' = leased \ RowsOf(s)
    /\ turn' = [turn EXCEPT ![s].at = "dead", ![s].ask = 0]
    /\ UNCHANGED <<prompt, late, press, sweep, serving, ran, policy, messages, faults>>

AudienceChanges ==
    /\ policy < MaxPolicies
    /\ policy' = policy + 1
    /\ UNCHANGED <<sessionVars, promptVars, workVars, ran, messages, faults>>

-----------------------------------------------------------------------------
TurnStep(s) ==
    \/ TurnStarts(s) \/ RegisterRows(s) \/ Reveal(s)
    \/ ReadAwaiting(s) \/ RecordCompleted(s) \/ ClearRows(s) \/ Resume(s) \/ RunGated(s)
TurnChoice(s) ==
    \/ RequestRotation(s) \/ RepeatInputRequested(s)
    \/ \E kind \in {"approval", "question"} : Ask(s, kind)
    \/ \E unrecoverable \in BOOLEAN : TurnFails(s, unrecoverable)
    \/ SessionFails(s) \/ TurnCancelled(s)
PersonStep(a) == \/ \E option \in {"approve", "cancel"} : Click(a, option)
                 \/ AnswerQuestion(a)
PressStep(a) == ClaimCallback(a) \/ EditPrompt(a) \/ Respond(a)
SweepStep ==
    \/ \E s \in Sessions : SweepClaim(s, TRUE)
    \/ SweepAnswers
    \/ \E x \in sweep.rows : Settle(x)
SweepFault ==
    \/ \E s \in Sessions : SweepClaim(s, FALSE)
    \/ SweepAnswerFails \/ SweepDies
    \/ \E x \in sweep.rows : SettleFails(x)

ConversationsNext ==
    \/ PlainMessage \/ LoseBoundary \/ AudienceChanges
    \/ \E s \in Sessions : \/ TurnStep(s) \/ TurnChoice(s)
                           \/ RetireAbandoned(s) \/ DeleteExpired(s)
    \/ \E a \in Asks : PersonStep(a) \/ PressStep(a) \/ PressDies(a) \/ TimePasses(a)
    \/ SweepStep \/ SweepFault
    \/ \E x \in leased : LeaseRunsOut(x)

ConversationsSpec == ConversationsInit /\ [][ConversationsNext]_vars

\* Time passes, Eve works on, a dispatched press is carried through, the minute
\* sweep runs again and an unused lease runs out. Nobody has to write or to press.
ConversationsFairness ==
    /\ \A s \in Sessions : WF_vars(TurnStep(s))
    /\ \A a \in Asks : WF_vars(PressStep(a)) /\ WF_vars(TimePasses(a))
    /\ WF_vars(SweepStep)
    /\ \A a \in Asks, q \in Requests : WF_vars(LeaseRunsOut(<<a, q>>))
ConversationsFairSpec == ConversationsSpec /\ ConversationsFairness

-----------------------------------------------------------------------------
(* Properties. *)

\* A prompt that tells the person the action will not be executed tells the truth:
\* no gated action has run or runs behind it.
RefusedStaysUnexecuted ==
    \A x \in ran : prompt[x[1]].shown \notin {"cancel", "timeout"}

\* A decision is final. The press and the sweep race for a row: whoever wins, the
\* row keeps that decision until Eve asks again or its turn is over.
DecisionIsFinal ==
    [][\A a \in Asks, q \in Requests :
          row[a][q] \in Decided => \/ row'[a][q] = row[a][q]
                                   \/ row'[a][q] \in {"none", "open"}]_vars

\* The sweep's promise: a confirmation nobody answers does not stay open for a
\* session that waits for it, whatever fails on the way.
OverdueSettles ==
    \A a \in Asks, q \in Requests :
        row[a][q] = "open" /\ Sweepable(prompt[a].session) /\ turn[prompt[a].session].at = "parked"
            ~> row[a][q] # "open" \/ turn[prompt[a].session].at # "parked"

\* "A frozen chat must never be the resting state": a parked turn whose requests are
\* all decided gets to know the decision, for no sweep looks at it any more.
FullyDecided(a) == Registered(a) # {} /\ \A q \in Registered(a) : row[a][q] \in Decided
DecisionReachesEve ==
    \A s \in Sessions, a \in Asks :
        turn[s].at = "parked" /\ turn[s].ask = a /\ FullyDecided(a) ~> prompt[a].heard # "none"

=============================================================================
