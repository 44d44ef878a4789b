---------------------------- MODULE ConversationsProofs ----------------------------
(***************************************************************************)
(* Proofs about Conversations for any number of generations, prompts,      *)
(* confirmations in a step, messages, policies and faults: the rows keep   *)
(* their shape, a decision is final, and what a prompt calls refused is    *)
(* never executed.                                                         *)
(***************************************************************************)
EXTENDS Conversations, FiniteSetTheorems, TLAPS

(***************************************************************************)
(* The session table.  Its two CHECK constraints hold because only a       *)
(* session with a prompt can wait for a decision, and in a group a session *)
(* that has asked is a task (GroupKinds): asking parks it, and a canonical *)
(* session is only ever made at a fresh generation (UsedSessions).         *)
(***************************************************************************)
SessionType == [kind : {"none", "canonical", "task"},
                state : {"none", "pending", "running", "completed", "failed"},
                pending : BOOLEAN, bound : BOOLEAN, retired : BOOLEAN,
                rotate : BOOLEAN, policy : 0..MaxPolicies]
RecordOK(r) ==
    /\ r \in SessionType
    /\ r.kind # "none" =>
           /\ r.kind = "canonical" <=> r.state = "none"
           /\ ~(Group /\ r.kind = "canonical" /\ r.pending)
SessionsTyped ==
    /\ session \in [Sessions -> SessionType]
    /\ \A s \in Sessions : RecordOK(session[s])
RoutesTyped == base \in 0..MaxSessions /\ alias \in [Asks -> 0..MaxSessions]
PromptType == [session : 0..MaxSessions, kind : {"approval", "question"},
               shown : {"none", "preparing", "open", "approve", "cancel", "timeout"},
               heard : {"none", "approve", "cancel"}]
PromptsTyped ==
    /\ prompt \in [Asks -> PromptType]
    /\ row \in [Asks -> [Requests -> {"none", "open"} \cup Decided]]
    /\ late \in [Asks -> 0..MaxRequests]
    /\ leased \subseteq Asks \X Requests
TurnsTyped == turn \in [Sessions -> [at : TurnSteps, ask : 0..MaxAsks, awaiting : BOOLEAN]]
WorkTyped ==
    /\ press \in [Asks -> [at : {"none", "queued", "claimed", "edited", "done"},
                           option : {"approve", "cancel"}]]
    /\ sweep \in [at : {"idle", "answer", "settle"}, rows : SUBSET (Asks \X Requests)]
    /\ serving \in 0..MaxSessions
CountsTyped ==
    /\ ran \subseteq Asks \X Requests
    /\ policy \in 0..MaxPolicies
    /\ messages \in 0..MaxMessages
    /\ faults \in 0..MaxFaults
Typed == /\ SessionsTyped /\ RoutesTyped /\ PromptsTyped /\ TurnsTyped /\ WorkTyped /\ CountsTyped

Used(s) == session[s] # NoSession
UsedSessions == \E n \in 0..MaxSessions : {s \in Sessions : Used(s)} = 1..n
HasAsked(s) == turn[s].awaiting \/ \E a \in Asks : prompt[a].session = s
GroupKinds ==
    Group => \A s \in Sessions : HasAsked(s) => Used(s) /\ session[s].kind # "canonical"

LEMMA TypedIsTypeOK == Typed <=> ConversationsTypeOK
  BY DEF Typed, SessionsTyped, RecordOK, SessionType, RoutesTyped, PromptsTyped, PromptType,
     TurnsTyped, WorkTyped, CountsTyped, ConversationsTypeOK

LEMMA Bounds ==
    /\ 0 \in 0..MaxSessions /\ Sessions \subseteq 0..MaxSessions /\ 0 \notin Sessions
    /\ 0 \in 0..MaxAsks /\ Asks \subseteq 0..MaxAsks /\ 0 \notin Asks
    /\ 0 \in 0..MaxRequests /\ 0 \in 0..MaxPolicies /\ 0 \in 0..MaxMessages /\ 0 \in 0..MaxFaults
    /\ Sessions \subseteq Nat /\ Asks \subseteq Nat /\ Requests \subseteq Nat
  BY ConversationBounds DEF Sessions, Asks, Requests

LEMMA CountUp ==
    ASSUME NEW M \in Nat, NEW n \in 0..M, n < M
    PROVE  n + 1 \in 0..M
  OBVIOUS

LEMMA FaultCounted == CountsTyped /\ Fault => faults' \in 0..MaxFaults
  BY CountUp, ConversationBounds DEF CountsTyped, Fault

LEMMA WrittenRows ==
    ASSUME PromptsTyped, NEW rows, NEW status \in {"none", "open"} \cup Decided
    PROVE  Written(rows, status) \in [Asks -> [Requests -> {"none", "open"} \cup Decided]]
  BY DEF PromptsTyped, Written

-----------------------------------------------------------------------------
\* What a step other than a new generation does to the session table.
Touched(r, new) ==
    /\ r.kind # "none"
    /\ RecordOK(new) /\ new # NoSession
    /\ new.kind = "canonical" => r.kind = "canonical"
SessionStep ==
    /\ session' \in [Sessions -> SessionType]
    /\ \A t \in Sessions : session'[t] = session[t] \/ Touched(session[t], session'[t])

LEMMA OneTouched ==
    ASSUME SessionsTyped, NEW s \in Sessions, session[s].kind # "none",
           NEW new, session' = [session EXCEPT ![s] = new],
           RecordOK(new),
           new.kind = "none" => new.retired,
           new.kind = "canonical" => session[s].kind = "canonical"
    PROVE  SessionStep /\ session'[s] = new
<1>1. NoSession.kind = "none" /\ ~NoSession.retired
  BY DEF NoSession
<1>2. new # NoSession /\ new \in SessionType
  BY <1>1 DEF RecordOK
<1>3. session \in [Sessions -> SessionType]
  BY DEF SessionsTyped
<1>4. /\ session' \in [Sessions -> SessionType] /\ session'[s] = new
      /\ \A t \in Sessions : t # s => session'[t] = session[t]
  BY <1>2, <1>3
<1>5. QED
  BY <1>2, <1>4 DEF SessionStep, Touched

LEMMA NoneTouched ==
    ASSUME SessionsTyped, session' = session
    PROVE  SessionStep
  BY DEF SessionStep, SessionsTyped

LEMMA SessionFields ==
    ASSUME SessionsTyped, NEW s \in Sessions
    PROVE  LET r == session[s]
           IN  /\ session \in [Sessions -> SessionType] /\ r \in SessionType /\ RecordOK(r)
               /\ r.kind \in {"none", "canonical", "task"}
               /\ r.state \in {"none", "pending", "running", "completed", "failed"}
               /\ r.pending \in BOOLEAN /\ r.bound \in BOOLEAN /\ r.retired \in BOOLEAN
               /\ r.rotate \in BOOLEAN
  BY DEF SessionsTyped, SessionType

\* A live session whose bound or rotate field is set.
LEMMA MarkTouches ==
    ASSUME SessionsTyped, NEW s \in Sessions, Live(s),
           \/ session' = [session EXCEPT ![s].bound = TRUE]
           \/ session' = [session EXCEPT ![s].rotate = TRUE]
    PROVE  SessionStep
<1>1. session[s].kind # "none" /\ RecordOK(session[s]) /\ session[s] \in SessionType
  BY SessionFields DEF Live
<1>2. PICK new \in {[session[s] EXCEPT !.bound = TRUE], [session[s] EXCEPT !.rotate = TRUE]} :
          session' = [session EXCEPT ![s] = new]
  BY SessionFields
<1>3. /\ new \in SessionType /\ new.kind = session[s].kind /\ new.state = session[s].state
      /\ new.pending = session[s].pending
  BY <1>1, <1>2 DEF SessionType
<1>4. RecordOK(new)
  BY <1>1, <1>3 DEF RecordOK
<1>5. QED
  BY <1>1, <1>2, <1>3, <1>4, OneTouched

LEMMA ParkTouches ==
    ASSUME SessionsTyped, NEW s \in Sessions, Live(s), session' = Parked(s)
    PROVE  SessionStep /\ (Group => session'[s].kind # "canonical") /\ session'[s].kind # "none"
<1> DEFINE kind == IF Promotes(s) THEN "task" ELSE session[s].kind
<1> DEFINE state == IF Promotes(s) \/ session[s].kind = "task" THEN "pending" ELSE session[s].state
<1>1. session[s].kind \in {"canonical", "task"} /\ RecordOK(session[s]) /\ session[s] \in SessionType
  BY SessionFields DEF Live
<1>2. /\ kind \in {"canonical", "task"}
      /\ state \in {"none", "pending", "running", "completed", "failed"}
      /\ kind = "canonical" => session[s].kind = "canonical" /\ state = session[s].state /\ ~Group
      /\ kind = "task" => state = "pending"
  BY <1>1, SessionFields DEF Promotes
<1>3. session' = [session EXCEPT ![s].pending = TRUE, ![s].kind = kind, ![s].state = state]
  BY SessionFields DEF Parked
<1> HIDE DEF kind, state
<1> DEFINE new == [session[s] EXCEPT !.pending = TRUE, !.kind = kind, !.state = state]
<1>4. session' = [session EXCEPT ![s] = new]
  BY <1>3, SessionFields
<1>5. new \in SessionType /\ new.kind = kind /\ new.state = state
  BY <1>1, <1>2 DEF SessionType
<1>6. RecordOK(new)
  BY <1>1, <1>2, <1>5 DEF RecordOK
<1> HIDE DEF new
<1>7. SessionStep /\ session'[s] = new
  BY <1>1, <1>2, <1>4, <1>5, <1>6, OneTouched
<1>8. QED
  BY <1>2, <1>5, <1>7

LEMMA DecideTouches ==
    ASSUME SessionsTyped, GroupKinds, NEW s \in Sessions, Live(s), HasAsked(s), NEW rows,
           session' = Decide(s, rows)
    PROVE  SessionStep
<1> DEFINE open == OpenIn(s, rows)
<1> DEFINE state == IF session[s].kind = "task" /\ ~open THEN "running" ELSE session[s].state
<1>1. /\ session[s].kind \in {"canonical", "task"} /\ RecordOK(session[s])
      /\ session[s] \in SessionType
      /\ Group => session[s].kind # "canonical"
  BY SessionFields DEF Live, GroupKinds
<1>2. /\ open \in BOOLEAN /\ state \in {"none", "pending", "running", "completed", "failed"}
      /\ session[s].kind = "canonical" <=> state = "none"
  BY <1>1, SessionFields DEF OpenIn, RecordOK
<1>3. session' = [session EXCEPT ![s].pending = open, ![s].state = state]
  BY SessionFields DEF Decide
<1> HIDE DEF open, state
<1> DEFINE new == [session[s] EXCEPT !.pending = open, !.state = state]
<1>4. session' = [session EXCEPT ![s] = new]
  BY <1>3, SessionFields
<1>5. new \in SessionType /\ new.kind = session[s].kind /\ new.state = state
  BY <1>1, <1>2 DEF SessionType
<1>6. RecordOK(new)
  BY <1>1, <1>2, <1>5 DEF RecordOK
<1> HIDE DEF new
<1>7. QED
  BY <1>1, <1>4, <1>5, <1>6, OneTouched

LEMMA CompletedTouches ==
    ASSUME SessionsTyped, GroupKinds, TurnsTyped, NEW s \in Sessions, Live(s),
           session' = Completed(s, turn[s].awaiting)
    PROVE  SessionStep
<1> DEFINE awaiting == turn[s].awaiting
<1> DEFINE state == IF Retiring(s) THEN IF awaiting THEN "pending" ELSE "completed"
                    ELSE session[s].state
<1> DEFINE retired == Retiring(s) /\ ~awaiting
<1>1. /\ session[s].kind \in {"canonical", "task"} /\ RecordOK(session[s])
      /\ session[s] \in SessionType
      /\ Group /\ awaiting => session[s].kind # "canonical"
  BY SessionFields DEF Live, GroupKinds, HasAsked
<1>2. /\ awaiting \in BOOLEAN /\ retired \in BOOLEAN
      /\ state \in {"none", "pending", "running", "completed", "failed"}
      /\ session[s].kind = "canonical" <=> state = "none"
  BY <1>1, SessionFields DEF TurnsTyped, Retiring, RecordOK
<1>3. session' = [session EXCEPT ![s].pending = awaiting, ![s].bound = TRUE,
                                 ![s].state = state, ![s].retired = retired]
  BY SessionFields DEF Completed
<1> HIDE DEF awaiting, state, retired
<1> DEFINE new == [session[s] EXCEPT !.pending = awaiting, !.bound = TRUE, !.state = state,
                                     !.retired = retired]
<1>4. session' = [session EXCEPT ![s] = new]
  BY <1>3, SessionFields
<1>5. /\ new \in SessionType /\ new.kind = session[s].kind /\ new.state = state
      /\ new.pending = awaiting
  BY <1>1, <1>2 DEF SessionType
<1>6. RecordOK(new)
  BY <1>1, <1>2, <1>5 DEF RecordOK
<1> HIDE DEF new
<1>7. QED
  BY <1>1, <1>4, <1>5, <1>6, OneTouched

LEMMA RetiredTouches ==
    ASSUME SessionsTyped, NEW s \in Sessions, Live(s), NEW tired \in BOOLEAN,
           \/ session' = Retired(s, "failed")
           \/ session' = [Retired(s, "failed") EXCEPT ![s].bound = TRUE, ![s].rotate = @ \/ tired]
    PROVE  SessionStep
<1> DEFINE state == IF Retiring(s) THEN "failed" ELSE session[s].state
<1> DEFINE retired == session[s].retired \/ Retiring(s)
<1> DEFINE rotate == session[s].rotate \/ tired
<1> DEFINE dead == [session[s] EXCEPT !.pending = FALSE, !.state = state, !.retired = retired]
<1> DEFINE dying == [session[s] EXCEPT !.pending = FALSE, !.state = state, !.retired = retired,
                                       !.bound = TRUE, !.rotate = rotate]
<1>1. /\ session \in [Sessions -> SessionType] /\ session[s] \in SessionType
      /\ RecordOK(session[s]) /\ session[s].kind \in {"canonical", "task"}
      /\ rotate \in BOOLEAN /\ retired \in BOOLEAN
      /\ state \in {"none", "pending", "running", "completed", "failed"}
      /\ session[s].kind = "canonical" <=> state = "none"
  BY SessionFields DEF Live, Retiring, RecordOK
<1>2. Retired(s, "failed") = [session EXCEPT ![s].pending = FALSE, ![s].state = state,
                                             ![s].retired = retired]
  BY <1>1 DEF Retired
<1>3. [session[s] EXCEPT !.pending = FALSE].rotate = session[s].rotate
  BY <1>1 DEF SessionType
<1>4. Retired(s, "failed")[s] = dead /\ dead.rotate = session[s].rotate
  BY <1>1, <1>2 DEF SessionType
<1>5. Retired(s, "failed") = [session EXCEPT ![s] = dead]
  BY <1>1, <1>2
<1>6. [Retired(s, "failed") EXCEPT ![s].bound = TRUE, ![s].rotate = @ \/ tired]
          = [session EXCEPT ![s] = [dead EXCEPT !.bound = TRUE, !.rotate = dead.rotate \/ tired]]
  <2> HIDE DEF dead
  <2>1. QED
    BY <1>1, <1>4, <1>5
<1>7. [dead EXCEPT !.bound = TRUE, !.rotate = dead.rotate \/ tired] = dying
  BY <1>1, <1>4 DEF SessionType
<1>8. \/ session' = [session EXCEPT ![s] = dead]
      \/ session' = [session EXCEPT ![s] = dying]
  BY <1>5, <1>6, <1>7
<1> HIDE DEF state, retired, rotate
<1>9. /\ dead \in SessionType /\ dead.kind = session[s].kind
      /\ dead.state = state /\ dead.pending = FALSE
  BY <1>1 DEF SessionType
<1>10. /\ dying \in SessionType /\ dying.kind = session[s].kind
       /\ dying.state = state /\ dying.pending = FALSE
  BY <1>1 DEF SessionType
<1>11. RecordOK(dead) /\ RecordOK(dying)
  BY <1>1, <1>9, <1>10 DEF RecordOK
<1> HIDE DEF dead, dying
<1>12. CASE session' = [session EXCEPT ![s] = dead]
  BY <1>1, <1>9, <1>11, <1>12, OneTouched
<1>13. CASE session' = [session EXCEPT ![s] = dying]
  BY <1>1, <1>10, <1>11, <1>13, OneTouched
<1>14. QED
  BY <1>8, <1>12, <1>13

LEMMA DeletedTouches ==
    ASSUME SessionsTyped, NEW s \in Sessions, session[s].kind # "none", session[s].retired,
           session' = [session EXCEPT ![s].kind = "none"]
    PROVE  SessionStep
<1> DEFINE new == [session[s] EXCEPT !.kind = "none"]
<1>1. session' = [session EXCEPT ![s] = new] /\ session[s] \in SessionType
  BY SessionFields
<1>2. new \in SessionType /\ new.kind = "none" /\ new.retired
  BY <1>1 DEF SessionType
<1>3. RecordOK(new)
  BY <1>2 DEF RecordOK
<1> HIDE DEF new
<1>4. QED
  BY <1>1, <1>2, <1>3, OneTouched

-----------------------------------------------------------------------------
\* Every step but a new generation touches live sessions only.
LEMMA TurnTouches ==
    ASSUME Typed, GroupKinds, NEW s \in Sessions, TurnStep(s) \/ TurnChoice(s)
    PROVE  SessionStep
<1>1. SessionsTyped /\ TurnsTyped
  BY DEF Typed
<1>2. CASE TurnStarts(s) \/ RequestRotation(s)
  BY <1>1, <1>2, MarkTouches, NoneTouched DEF TurnStarts, RequestRotation
<1>3. CASE \/ RegisterRows(s) \/ Reveal(s) \/ ReadAwaiting(s) \/ ClearRows(s) \/ Resume(s)
           \/ RunGated(s) \/ TurnCancelled(s)
  <2>1. session' = session
    BY <1>3 DEF RegisterRows, Reveal, ReadAwaiting, ClearRows, Resume, RunGated, TurnCancelled,
       sessionVars
  <2>2. QED
    BY <1>1, <2>1, NoneTouched
<1>4. CASE RecordCompleted(s)
  BY <1>1, <1>4, CompletedTouches, NoneTouched DEF RecordCompleted, sessionVars
<1>5. CASE RepeatInputRequested(s) \/ \E kind \in {"approval", "question"} : Ask(s, kind)
  BY <1>1, <1>5, ParkTouches DEF RepeatInputRequested, Ask, Park
<1>6. CASE \E unrecoverable \in BOOLEAN : TurnFails(s, unrecoverable)
  <2>1. PICK unrecoverable \in BOOLEAN : TurnFails(s, unrecoverable)
    BY <1>6
  <2> DEFINE tired == unrecoverable /\ ~Retiring(s)
  <2>2. tired \in BOOLEAN
    BY DEF Retiring
  <2>3. \/ session' = session
        \/ Live(s) /\ session' = [Retired(s, "failed") EXCEPT ![s].bound = TRUE, ![s].rotate = @ \/ tired]
    BY <2>1 DEF TurnFails
  <2> HIDE DEF tired
  <2>4. QED
    BY <1>1, <2>2, <2>3, RetiredTouches, NoneTouched
<1>7. CASE SessionFails(s)
  <2> DEFINE tired == ~Retiring(s)
  <2>1. tired \in BOOLEAN
    BY DEF Retiring
  <2>2. /\ Live(s)
        /\ session' = [Retired(s, "failed") EXCEPT ![s].bound = TRUE, ![s].rotate = @ \/ tired]
    BY <1>7 DEF SessionFails
  <2> HIDE DEF tired
  <2>3. QED
    BY <1>1, <2>1, <2>2, RetiredTouches
<1>8. QED
  BY <1>2, <1>3, <1>4, <1>5, <1>6, <1>7 DEF TurnStep, TurnChoice

LEMMA PersonTouches ==
    ASSUME Typed, GroupKinds, NEW a \in Asks,
           PersonStep(a) \/ PressStep(a) \/ PressDies(a) \/ TimePasses(a)
    PROVE  SessionStep
<1>1. SessionsTyped /\ (prompt[a].session \in Sessions => HasAsked(prompt[a].session))
  BY DEF Typed, HasAsked
<1>2. CASE ClaimCallback(a)
  <2>1. \/ session' = session
        \/ /\ Live(prompt[a].session)
           /\ \E rows : session' = Decide(prompt[a].session, rows)
    BY <1>2 DEF ClaimCallback, Claimable
  <2>2. QED
    BY <1>1, <2>1, DecideTouches, NoneTouched DEF Live
<1>3. CASE AnswerQuestion(a)
  <2>1. Live(prompt[a].session) /\ \E rows : session' = Decide(prompt[a].session, rows)
    BY <1>3 DEF AnswerQuestion
  <2>2. QED
    BY <1>1, <2>1, DecideTouches DEF Live
<1>4. CASE \/ \E option \in {"approve", "cancel"} : Click(a, option)
           \/ EditPrompt(a) \/ Respond(a) \/ PressDies(a) \/ TimePasses(a)
  <2>1. session' = session
    BY <1>4 DEF Click, EditPrompt, Respond, PressDies, TimePasses, sessionVars
  <2>2. QED
    BY <1>1, <2>1, NoneTouched
<1>5. QED
  BY <1>2, <1>3, <1>4 DEF PersonStep, PressStep

LEMMA SweepTouches ==
    ASSUME Typed, GroupKinds, SweepStep \/ SweepFault
    PROVE  SessionStep
<1>1. SessionsTyped /\ sweep.rows \subseteq Asks \X Requests
  BY DEF Typed, WorkTyped
<1>2. ASSUME NEW x \in sweep.rows, Settle(x) PROVE SessionStep
  <2> DEFINE s == prompt[x[1]].session
  <2>1. x[1] \in Asks
    BY <1>1
  <2>2. s \in Sessions => HasAsked(s)
    BY <2>1 DEF HasAsked
  <2>3. session' = session \/ (Live(s) /\ \E rows : session' = Decide(s, rows))
    BY <1>2 DEF Settle
  <2>4. QED
    BY <1>1, <2>2, <2>3, DecideTouches, NoneTouched DEF Live
<1>3. CASE ~\E x \in sweep.rows : Settle(x)
  <2>1. session' = session
    BY <1>3 DEF SweepStep, SweepFault, SweepClaim, SweepAnswers, SweepAnswerFails, SweepDies,
       SettleFails, sessionVars
  <2>2. QED
    BY <1>1, <2>1, NoneTouched
<1>4. QED
  BY <1>2, <1>3

LEMMA CleanupTouches ==
    ASSUME Typed, NEW s \in Sessions, RetireAbandoned(s) \/ DeleteExpired(s)
    PROVE  SessionStep
<1>1. SessionsTyped
  BY DEF Typed
<1>2. CASE RetireAbandoned(s)
  BY <1>1, <1>2, RetiredTouches DEF RetireAbandoned
<1>3. CASE DeleteExpired(s)
  BY <1>1, <1>3, DeletedTouches DEF DeleteExpired
<1>4. QED
  BY <1>2, <1>3

LEMMA OtherTouches ==
    ASSUME Typed, LoseBoundary \/ AudienceChanges \/ (\E x \in leased : LeaseRunsOut(x))
    PROVE  SessionStep
<1>1. SessionsTyped
  BY DEF Typed
<1>2. CASE LoseBoundary
  <2>1. session' = session \/ (Live(serving) /\ session' = [session EXCEPT ![serving].rotate = TRUE])
    BY <1>2 DEF LoseBoundary
  <2>2. QED
    BY <1>1, <2>1, MarkTouches, NoneTouched DEF Live
<1>3. CASE AudienceChanges \/ \E x \in leased : LeaseRunsOut(x)
  BY <1>1, <1>3, NoneTouched DEF AudienceChanges, LeaseRunsOut, sessionVars
<1>4. QED
  BY <1>2, <1>3

\* A new generation takes the next free number.
LEMMA StartTouches ==
    ASSUME Typed, UsedSessions, NEW tired \in BOOLEAN, StartSession(tired)
    PROVE  /\ SessionsTyped' /\ UsedSessions'
           /\ \A s \in Sessions : Used(s) => Used(s)' /\ session'[s].kind = session[s].kind
<1>1. SessionsTyped /\ policy \in 0..MaxPolicies /\ session \in [Sessions -> SessionType]
  BY DEF Typed, SessionsTyped, CountsTyped
<1>2. PICK n \in 0..MaxSessions : {s \in Sessions : Used(s)} = 1..n
  BY DEF UsedSessions
<1>3. n \in Nat /\ Cardinality(1..n) = n
  BY FS_Interval, ConversationBounds
<1>4. {s \in Sessions : session[s] # NoSession} = 1..n
  BY <1>2 DEF Used
<1> DEFINE new == n + 1
<1>5. NextGeneration = new /\ new \in Sessions /\ new \in 0..MaxSessions
  <2>1. NextGeneration = new
    BY <1>3, <1>4 DEF NextGeneration
  <2>2. NextGeneration \in Sessions
    BY DEF StartSession
  <2>3. QED
    BY <2>1, <2>2, Bounds
<1>6. session[new] = NoSession
  BY <1>3, <1>4, <1>5
<1> DEFINE retire == \/ Live(Found) /\ session[Found].policy # policy
                     \/ /\ Live(Found) /\ session[Found].policy = policy /\ ~session[Found].pending
                        /\ (tired \/ session[Found].rotate)
<1>7. session' = [s \in Sessions |->
               IF s = new THEN NewSession
               ELSE IF s = Found /\ retire
                    THEN [session[s] EXCEPT !.retired = TRUE, !.pending = FALSE]
                    ELSE session[s]]
  BY <1>5 DEF StartSession
<1>8. RecordOK(NewSession) /\ NewSession \in SessionType /\ NewSession # NoSession
  <2>1. /\ NewSession.kind = "canonical" /\ NewSession.state = "none" /\ NewSession.pending = FALSE
        /\ NoSession.kind = "none"
    BY DEF NewSession, NoSession
  <2>2. NewSession \in SessionType /\ NewSession # NoSession
    <3>1. NoSession \in SessionType
      BY Bounds DEF NoSession, SessionType
    <3>2. NewSession \in SessionType
      BY <1>1, <3>1 DEF NewSession, SessionType
    <3>3. QED
      BY <2>1, <3>2
  <2>3. QED
    BY <2>1, <2>2 DEF RecordOK
<1>9. ASSUME NEW s \in Sessions, NEW r, r = [session[s] EXCEPT !.retired = TRUE, !.pending = FALSE],
             session[s].kind # "none"
      PROVE  RecordOK(r) /\ r \in SessionType /\ r # NoSession /\ r.kind = session[s].kind
  <2>1. session[s] \in SessionType /\ RecordOK(session[s])
    BY <1>1, SessionFields
  <2>2. /\ r \in SessionType /\ r.kind = session[s].kind /\ r.state = session[s].state /\ ~r.pending
    BY <1>9, <2>1 DEF SessionType
  <2>3. RecordOK(r)
    BY <2>1, <2>2 DEF RecordOK
  <2>4. r # NoSession
    BY <1>9, <2>2 DEF NoSession
  <2>5. QED
    BY <2>2, <2>3, <2>4
<1>10. retire => session[Found].kind # "none"
  BY DEF Live
<1> HIDE DEF retire, new
<1>11. \A s \in Sessions : /\ RecordOK(session'[s]) /\ session'[s] \in SessionType
                           /\ session'[s] # NoSession <=> (s = new \/ session[s] # NoSession)
                           /\ s # new => session'[s].kind = session[s].kind
  <2> SUFFICES ASSUME NEW s \in Sessions
               PROVE  /\ RecordOK(session'[s]) /\ session'[s] \in SessionType
                      /\ session'[s] # NoSession <=> (s = new \/ session[s] # NoSession)
                      /\ s # new => session'[s].kind = session[s].kind
    OBVIOUS
  <2>1. CASE s = new
    BY <1>7, <1>8, <2>1
  <2>2. CASE s # new /\ s = Found /\ retire
    <3>1. session'[s] = [session[s] EXCEPT !.retired = TRUE, !.pending = FALSE]
      BY <1>7, <2>2
    <3>2. session[s].kind # "none" /\ session[s] # NoSession
      BY <1>10, <2>2 DEF NoSession
    <3>3. QED
      BY <1>9, <2>2, <3>1, <3>2
  <2>3. CASE s # new /\ ~(s = Found /\ retire)
    BY <1>1, <1>7, <2>3 DEF SessionsTyped
  <2>4. QED
    BY <2>1, <2>2, <2>3
<1>12. SessionsTyped'
  BY <1>7, <1>11 DEF SessionsTyped
<1>13. {s \in Sessions : Used(s)'} = 1..new
  <2>1. \A s \in Sessions : Used(s)' <=> s = new \/ s \in 1..n
    BY <1>4, <1>11 DEF Used
  <2>2. \A s : s \in 1..new <=> s = new \/ s \in 1..n
    BY <1>3 DEF new
  <2>3. 1..new \subseteq Sessions
    BY <1>5, ConversationBounds DEF Sessions
  <2>4. QED
    BY <2>1, <2>2, <2>3
<1>14. UsedSessions'
  BY <1>5, <1>13 DEF UsedSessions
<1>15. \A s \in Sessions : Used(s) => Used(s)' /\ session'[s].kind = session[s].kind
  BY <1>6, <1>11 DEF Used
<1>16. QED
  BY <1>12, <1>14, <1>15

LEMMA StepKeeps ==
    ASSUME SessionsTyped, SessionStep
    PROVE  /\ SessionsTyped' /\ (UsedSessions => UsedSessions')
           /\ \A s \in Sessions : /\ Used(s) => Used(s)'
                                  /\ session'[s].kind = "canonical" => session[s].kind = "canonical"
<1>1. \A s \in Sessions : Used(s) <=> Used(s)'
  <2>1. NoSession.kind = "none"
    BY DEF NoSession
  <2>2. QED
    BY <2>1 DEF SessionStep, Touched, Used
<1>2. {s \in Sessions : Used(s)} = {s \in Sessions : Used(s)'}
  BY <1>1
<1>3. SessionsTyped'
  BY DEF SessionsTyped, SessionStep, Touched
<1>4. UsedSessions => UsedSessions'
  BY <1>2 DEF UsedSessions
<1>5. QED
  BY <1>1, <1>3, <1>4 DEF SessionStep, Touched

-----------------------------------------------------------------------------
(* The other tables. *)
RestTyped == RoutesTyped /\ PromptsTyped /\ TurnsTyped /\ WorkTyped /\ CountsTyped

LEMMA DropTyped ==
    ASSUME RoutesTyped, NEW s, DropRoutes(s) \/ DropRoutesOfTask(s)
    PROVE  RoutesTyped'
  BY Bounds DEF RoutesTyped, DropRoutes, DropRoutesOfTask, NoOne

LEMMA PromptFields ==
    ASSUME NEW p \in PromptType
    PROVE  /\ \A h \in {"none", "approve", "cancel"} : [p EXCEPT !.heard = h] \in PromptType
           /\ \A w \in {"none", "preparing", "open", "approve", "cancel", "timeout"} :
                 [p EXCEPT !.shown = w] \in PromptType
  BY DEF PromptType

LEMMA ShownTyped ==
    ASSUME PromptsTyped, NEW a, NEW w \in {"preparing", "open"},
           prompt' = [prompt EXCEPT ![a].shown = w]
    PROVE  prompt' \in [Asks -> PromptType]
<1>1. prompt \in [Asks -> PromptType]
  BY DEF PromptsTyped
<1>2. CASE a \in Asks
  <2>1. [prompt[a] EXCEPT !.shown = w] \in PromptType
    BY <1>1, <1>2, PromptFields
  <2>2. prompt' = [prompt EXCEPT ![a] = [prompt[a] EXCEPT !.shown = w]]
    BY <1>1
  <2>3. QED
    BY <1>1, <2>1, <2>2
<1>3. CASE a \notin Asks
  BY <1>1, <1>3
<1>4. QED
  BY <1>2, <1>3

LEMMA HearTyped ==
    ASSUME PromptsTyped, NEW a \in Asks, NEW answer \in {"approve", "cancel"}, Hear(a, answer)
    PROVE  prompt' \in [Asks -> PromptType]
<1>1. prompt \in [Asks -> PromptType]
  BY DEF PromptsTyped
<1>2. \E h : prompt' = [prompt EXCEPT ![a] = [prompt[a] EXCEPT !.heard = h]]
               /\ h \in {prompt[a].heard, answer}
  BY <1>1 DEF Hear
<1>3. PICK h : prompt' = [prompt EXCEPT ![a] = [prompt[a] EXCEPT !.heard = h]]
               /\ h \in {prompt[a].heard, answer}
  BY <1>2
<1>4. prompt[a].heard \in {"none", "approve", "cancel"}
  BY <1>1 DEF PromptType
<1>5. [prompt[a] EXCEPT !.heard = h] \in PromptType
  BY <1>1, <1>3, <1>4, PromptFields
<1>6. QED
  BY <1>1, <1>3, <1>5

LEMMA TurnAtTyped ==
    ASSUME TurnsTyped, NEW s \in Sessions, NEW at \in TurnSteps, NEW ask \in 0..MaxAsks,
           \/ turn' = [turn EXCEPT ![s].at = at]
           \/ turn' = [turn EXCEPT ![s].at = at, ![s].ask = ask]
    PROVE  TurnsTyped'
  BY DEF TurnsTyped

LEMMA BoundaryTyped ==
    ASSUME TurnsTyped, NEW s \in Sessions, AtBoundary(s)
    PROVE  TurnsTyped'
<1>1. PICK at \in {"parked", "idle"} : turn' = [turn EXCEPT ![s].at = at]
  BY DEF AtBoundary
<1>2. QED
  BY <1>1, TurnAtTyped, Bounds DEF TurnSteps

(* The rest of the tables, action by action. *)
LEMMA PlainTyped ==
    ASSUME RestTyped, PlainMessage
    PROVE  RestTyped'
<1>0. RoutesTyped /\ PromptsTyped /\ TurnsTyped /\ WorkTyped /\ CountsTyped
  BY DEF RestTyped
<1>1. RoutesTyped'
  <2>1. PICK tired \in BOOLEAN : KeepSession(tired) \/ StartSession(tired)
    BY DEF PlainMessage
  <2>2. CASE KeepSession(tired)
    BY <1>0, <2>2, Bounds DEF RoutesTyped, KeepSession, Live
  <2>3. CASE StartSession(tired)
    <3>1. NextGeneration \in 0..MaxSessions
      BY <2>3, Bounds DEF StartSession
    <3>2. QED
      BY <1>0, <2>3, <3>1, Bounds DEF RoutesTyped, StartSession, NoOne
  <2>4. QED
    BY <2>1, <2>2, <2>3
<1>2. PromptsTyped'
  BY <1>0 DEF PromptsTyped, PlainMessage, sessionVars, promptVars, workVars
<1>3. TurnsTyped'
  <2>1. PICK s \in Sessions : Delivered(s)
    BY DEF PlainMessage, KeepSession, StartSession, Live
  <2>2. QED
    BY <1>0, <2>1 DEF TurnsTyped, Delivered, TurnSteps
<1>4. WorkTyped'
  <2>1. PICK s \in Sessions : Delivered(s)
    BY DEF PlainMessage, KeepSession, StartSession, Live
  <2>2. QED
    BY <1>0, <2>1, Bounds DEF WorkTyped, PlainMessage, Delivered
<1>5. CountsTyped'
  BY <1>0, CountUp, ConversationBounds DEF CountsTyped, PlainMessage
<1>6. QED
  BY <1>1, <1>2, <1>3, <1>4, <1>5 DEF RestTyped

LEMMA LoseTyped ==
    ASSUME RestTyped, LoseBoundary
    PROVE  RestTyped'
<1>0. RoutesTyped /\ PromptsTyped /\ TurnsTyped /\ WorkTyped /\ CountsTyped
  BY DEF RestTyped
<1>1. RoutesTyped'
  BY <1>0 DEF RoutesTyped, LoseBoundary, sessionVars, promptVars, workVars
<1>2. PromptsTyped'
  BY <1>0 DEF PromptsTyped, LoseBoundary, sessionVars, promptVars, workVars
<1>3. TurnsTyped'
  BY <1>0 DEF TurnsTyped, LoseBoundary, sessionVars, promptVars, workVars
<1>4. WorkTyped'
  BY <1>0, Bounds DEF WorkTyped, LoseBoundary, FreeChat, NoOne, promptVars, workVars
<1>5. CountsTyped'
  BY <1>0, FaultCounted DEF CountsTyped, LoseBoundary, sessionVars, promptVars, workVars
<1>6. QED
  BY <1>1, <1>2, <1>3, <1>4, <1>5 DEF RestTyped

LEMMA AudienceTyped ==
    ASSUME RestTyped, AudienceChanges
    PROVE  RestTyped'
<1>0. RoutesTyped /\ PromptsTyped /\ TurnsTyped /\ WorkTyped /\ CountsTyped
  BY DEF RestTyped
<1>1. RoutesTyped'
  BY <1>0 DEF RoutesTyped, AudienceChanges, sessionVars, promptVars, workVars
<1>2. PromptsTyped'
  BY <1>0 DEF PromptsTyped, AudienceChanges, sessionVars, promptVars, workVars
<1>3. TurnsTyped'
  BY <1>0 DEF TurnsTyped, AudienceChanges, sessionVars, promptVars, workVars
<1>4. WorkTyped'
  BY <1>0 DEF WorkTyped, AudienceChanges, sessionVars, promptVars, workVars
<1>5. CountsTyped'
  BY <1>0, CountUp, ConversationBounds DEF CountsTyped, AudienceChanges
<1>6. QED
  BY <1>1, <1>2, <1>3, <1>4, <1>5 DEF RestTyped

LEMMA TurnStartsTyped ==
    ASSUME RestTyped, NEW s \in Sessions, TurnStarts(s)
    PROVE  RestTyped'
<1>0. RoutesTyped /\ PromptsTyped /\ TurnsTyped /\ WorkTyped /\ CountsTyped
  BY DEF RestTyped
<1>1. RoutesTyped'
  BY <1>0 DEF RoutesTyped, TurnStarts, sessionVars, promptVars, workVars
<1>2. PromptsTyped'
  BY <1>0 DEF PromptsTyped, TurnStarts, sessionVars, promptVars, workVars
<1>3. TurnsTyped'
  BY <1>0, TurnAtTyped, Bounds DEF TurnStarts, TurnSteps, TurnAt
<1>4. WorkTyped'
  BY <1>0 DEF WorkTyped, TurnStarts, sessionVars, promptVars, workVars
<1>5. CountsTyped'
  BY <1>0 DEF CountsTyped, TurnStarts, sessionVars, promptVars, workVars
<1>6. QED
  BY <1>1, <1>2, <1>3, <1>4, <1>5 DEF RestTyped

LEMMA RequestRotationTyped ==
    ASSUME RestTyped, NEW s \in Sessions, RequestRotation(s)
    PROVE  RestTyped'
<1>0. RoutesTyped /\ PromptsTyped /\ TurnsTyped /\ WorkTyped /\ CountsTyped
  BY DEF RestTyped
<1>1. RoutesTyped'
  BY <1>0 DEF RoutesTyped, RequestRotation, sessionVars, promptVars, workVars
<1>2. PromptsTyped'
  BY <1>0 DEF PromptsTyped, RequestRotation, sessionVars, promptVars, workVars
<1>3. TurnsTyped'
  BY <1>0 DEF TurnsTyped, RequestRotation, sessionVars, promptVars, workVars
<1>4. WorkTyped'
  BY <1>0 DEF WorkTyped, RequestRotation, sessionVars, promptVars, workVars
<1>5. CountsTyped'
  BY <1>0 DEF CountsTyped, RequestRotation, sessionVars, promptVars, workVars
<1>6. QED
  BY <1>1, <1>2, <1>3, <1>4, <1>5 DEF RestTyped

LEMMA AskTyped ==
    ASSUME RestTyped, NEW s \in Sessions, NEW kind \in {"approval", "question"}, Ask(s, kind)
    PROVE  RestTyped'
<1>0. RoutesTyped /\ PromptsTyped /\ TurnsTyped /\ WorkTyped /\ CountsTyped
  BY DEF RestTyped
<1>1. RoutesTyped'
  BY <1>0, DropTyped DEF RoutesTyped, Ask, Park
<1>2. PromptsTyped'
  <2>1. [session |-> s, kind |-> kind, shown |-> "preparing", heard |-> "none"]
            \in PromptType
    BY Bounds DEF PromptType
  <2>2. QED
    BY <1>0, <2>1 DEF PromptsTyped, PromptType, Ask
<1>3. TurnsTyped'
  <2>1. NextAsk \in 0..MaxAsks
    BY Bounds DEF Ask
  <2>2. QED
    BY <1>0, <2>1, TurnAtTyped DEF Ask, TurnSteps
<1>4. WorkTyped'
  BY <1>0 DEF WorkTyped, Ask, sessionVars, promptVars, workVars
<1>5. CountsTyped'
  BY <1>0 DEF CountsTyped, Ask, sessionVars, promptVars, workVars
<1>6. QED
  BY <1>1, <1>2, <1>3, <1>4, <1>5 DEF RestTyped

LEMMA RegisterTyped ==
    ASSUME RestTyped, NEW s \in Sessions, RegisterRows(s)
    PROVE  RestTyped'
<1>0. RoutesTyped /\ PromptsTyped /\ TurnsTyped /\ WorkTyped /\ CountsTyped
  BY DEF RestTyped
<1>1. RoutesTyped'
  BY <1>0, Bounds DEF RoutesTyped, RegisterRows
<1>2. PromptsTyped'
  <2>1. row' \in [Asks -> [Requests -> {"none", "open"} \cup Decided]]
    BY <1>0 DEF RegisterRows, Opened, PromptsTyped
  <2>2. QED
    BY <1>0, <2>1 DEF PromptsTyped, RegisterRows
<1>3. TurnsTyped'
  BY <1>0, TurnAtTyped, Bounds DEF RegisterRows, TurnSteps, TurnAt
<1>4. WorkTyped'
  BY <1>0 DEF WorkTyped, RegisterRows, sessionVars, promptVars, workVars
<1>5. CountsTyped'
  BY <1>0 DEF CountsTyped, RegisterRows, sessionVars, promptVars, workVars
<1>6. QED
  BY <1>1, <1>2, <1>3, <1>4, <1>5 DEF RestTyped

LEMMA RevealTyped ==
    ASSUME RestTyped, NEW s \in Sessions, Reveal(s)
    PROVE  RestTyped'
<1>0. RoutesTyped /\ PromptsTyped /\ TurnsTyped /\ WorkTyped /\ CountsTyped
  BY DEF RestTyped
<1>1. RoutesTyped'
  BY <1>0 DEF RoutesTyped, Reveal, sessionVars, promptVars, workVars
<1>2. PromptsTyped'
  <2>1. prompt' = [prompt EXCEPT ![turn[s].ask].shown = "open"]
    BY DEF Reveal
  <2>2. row' = row /\ late' = late /\ leased' = leased
    BY DEF Reveal
  <2>3. prompt' \in [Asks -> PromptType]
    BY <1>0, <2>1, ShownTyped
  <2>4. QED
    BY <1>0, <2>2, <2>3 DEF PromptsTyped
<1>3. TurnsTyped'
  BY <1>0, TurnAtTyped, Bounds DEF Reveal, TurnSteps, TurnAt
<1>4. WorkTyped'
  BY <1>0 DEF WorkTyped, Reveal, sessionVars, promptVars, workVars
<1>5. CountsTyped'
  BY <1>0 DEF CountsTyped, Reveal, sessionVars, promptVars, workVars
<1>6. QED
  BY <1>1, <1>2, <1>3, <1>4, <1>5 DEF RestTyped

LEMMA RepeatTyped ==
    ASSUME RestTyped, NEW s \in Sessions, RepeatInputRequested(s)
    PROVE  RestTyped'
<1>0. RoutesTyped /\ PromptsTyped /\ TurnsTyped /\ WorkTyped /\ CountsTyped
  BY DEF RestTyped
<1>1. RoutesTyped'
  BY <1>0, DropTyped DEF RoutesTyped, RepeatInputRequested, Park
<1>2. PromptsTyped'
  <2>1. prompt' = [prompt EXCEPT ![turn[s].ask].shown = "preparing"]
    BY DEF RepeatInputRequested
  <2>2. row' = row /\ late' = late /\ leased' = leased
    BY DEF RepeatInputRequested
  <2>3. prompt' \in [Asks -> PromptType]
    BY <1>0, <2>1, ShownTyped
  <2>4. QED
    BY <1>0, <2>2, <2>3 DEF PromptsTyped
<1>3. TurnsTyped'
  BY <1>0, TurnAtTyped, Bounds DEF RepeatInputRequested, TurnSteps, TurnAt
<1>4. WorkTyped'
  <2>1. press' = [press EXCEPT ![turn[s].ask].at = IF @ = "queued" THEN "done" ELSE @]
    BY DEF RepeatInputRequested
  <2>2. sweep' = sweep /\ serving' = serving
    BY DEF RepeatInputRequested
  <2>3. QED
    BY <1>0, <2>1, <2>2 DEF WorkTyped
<1>5. CountsTyped'
  BY <1>0, FaultCounted DEF CountsTyped, RepeatInputRequested, sessionVars, promptVars, workVars
<1>6. QED
  BY <1>1, <1>2, <1>3, <1>4, <1>5 DEF RestTyped

LEMMA ReadTyped ==
    ASSUME RestTyped, SessionsTyped, NEW s \in Sessions, ReadAwaiting(s)
    PROVE  RestTyped'
<1>0. RoutesTyped /\ PromptsTyped /\ TurnsTyped /\ WorkTyped /\ CountsTyped
  BY DEF RestTyped
<1>1. RoutesTyped'
  BY <1>0 DEF RoutesTyped, ReadAwaiting, sessionVars, promptVars, workVars
<1>2. PromptsTyped'
  BY <1>0 DEF PromptsTyped, ReadAwaiting, sessionVars, promptVars, workVars
<1>3. TurnsTyped'
  <2> DEFINE awaiting == Live(s) /\ session[s].bound /\ session[s].pending
  <2>1. turn' = [turn EXCEPT ![s].at = "recording", ![s].awaiting = awaiting]
    BY DEF ReadAwaiting
  <2>2. awaiting \in BOOLEAN
    BY SessionFields DEF Live
  <2> HIDE DEF awaiting
  <2>3. QED
    BY <1>0, <2>1, <2>2 DEF TurnsTyped, TurnSteps
<1>4. WorkTyped'
  BY <1>0 DEF WorkTyped, ReadAwaiting, sessionVars, promptVars, workVars
<1>5. CountsTyped'
  BY <1>0 DEF CountsTyped, ReadAwaiting, sessionVars, promptVars, workVars
<1>6. QED
  BY <1>1, <1>2, <1>3, <1>4, <1>5 DEF RestTyped

LEMMA RecordTyped ==
    ASSUME RestTyped, NEW s \in Sessions, RecordCompleted(s)
    PROVE  RestTyped'
<1>0. RoutesTyped /\ PromptsTyped /\ TurnsTyped /\ WorkTyped /\ CountsTyped
  BY DEF RestTyped
<1>1. RoutesTyped'
  BY <1>0, DropTyped DEF RoutesTyped, RecordCompleted, sessionVars
<1>2. PromptsTyped'
  BY <1>0 DEF PromptsTyped, RecordCompleted, sessionVars, promptVars, workVars
<1>3. TurnsTyped'
  BY <1>0, BoundaryTyped, TurnAtTyped, Bounds DEF RecordCompleted, TurnAt, TurnSteps
<1>4. WorkTyped'
  BY <1>0, Bounds DEF WorkTyped, RecordCompleted, FreeChat, NoOne, promptVars, workVars
<1>5. CountsTyped'
  BY <1>0 DEF CountsTyped, RecordCompleted, sessionVars, promptVars, workVars
<1>6. QED
  BY <1>1, <1>2, <1>3, <1>4, <1>5 DEF RestTyped

LEMMA ClearTyped ==
    ASSUME RestTyped, NEW s \in Sessions, ClearRows(s)
    PROVE  RestTyped'
<1>0. RoutesTyped /\ PromptsTyped /\ TurnsTyped /\ WorkTyped /\ CountsTyped
  BY DEF RestTyped
<1>1. RoutesTyped'
  BY <1>0 DEF RoutesTyped, ClearRows, sessionVars, promptVars, workVars
<1>2. PromptsTyped'
  <2>1. row' = Cleared(s) \/ row' = row
    BY DEF ClearRows, promptVars
  <2>2. row' \in [Asks -> [Requests -> {"none", "open"} \cup Decided]]
    BY <1>0, <2>1, WrittenRows DEF Cleared, PromptsTyped
  <2>3. QED
    BY <1>0, <2>2 DEF PromptsTyped, ClearRows, promptVars
<1>3. TurnsTyped'
  BY <1>0, BoundaryTyped DEF ClearRows
<1>4. WorkTyped'
  BY <1>0, Bounds DEF WorkTyped, ClearRows, FreeChat, NoOne, promptVars, workVars
<1>5. CountsTyped'
  BY <1>0 DEF CountsTyped, ClearRows, sessionVars, promptVars, workVars
<1>6. QED
  BY <1>1, <1>2, <1>3, <1>4, <1>5 DEF RestTyped

LEMMA ResumeTyped ==
    ASSUME RestTyped, NEW s \in Sessions, Resume(s)
    PROVE  RestTyped'
<1>0. RoutesTyped /\ PromptsTyped /\ TurnsTyped /\ WorkTyped /\ CountsTyped
  BY DEF RestTyped
<1>1. RoutesTyped'
  BY <1>0 DEF RoutesTyped, Resume, sessionVars, promptVars, workVars
<1>2. PromptsTyped'
  BY <1>0 DEF PromptsTyped, Resume, sessionVars, promptVars, workVars
<1>3. TurnsTyped'
  BY <1>0, TurnAtTyped, Bounds DEF Resume, TurnSteps, TurnAt
<1>4. WorkTyped'
  BY <1>0 DEF WorkTyped, Resume, sessionVars, promptVars, workVars
<1>5. CountsTyped'
  BY <1>0 DEF CountsTyped, Resume, sessionVars, promptVars, workVars
<1>6. QED
  BY <1>1, <1>2, <1>3, <1>4, <1>5 DEF RestTyped

LEMMA RunTyped ==
    ASSUME RestTyped, NEW s \in Sessions, RunGated(s)
    PROVE  RestTyped'
<1>0. RoutesTyped /\ PromptsTyped /\ TurnsTyped /\ WorkTyped /\ CountsTyped
  BY DEF RestTyped
<1>1. RoutesTyped'
  BY <1>0 DEF RoutesTyped, RunGated, sessionVars, promptVars, workVars
<1>2. PromptsTyped'
  BY <1>0 DEF PromptsTyped, RunGated, sessionVars, promptVars, workVars
<1>3. TurnsTyped'
  <2>1. turn' = [turn EXCEPT ![s].ask = 0]
    BY DEF RunGated
  <2>2. QED
    BY <1>0, <2>1, Bounds DEF TurnsTyped
<1>4. WorkTyped'
  BY <1>0 DEF WorkTyped, RunGated, sessionVars, promptVars, workVars
<1>5. CountsTyped'
  <2>1. turn[s].ask \in Asks
    BY <1>0 DEF RunGated, TurnsTyped, Asks
  <2>2. QED
    BY <1>0, <2>1 DEF CountsTyped, RunGated
<1>6. QED
  BY <1>1, <1>2, <1>3, <1>4, <1>5 DEF RestTyped

LEMMA FailsTyped ==
    ASSUME RestTyped, NEW s \in Sessions, NEW unrecoverable \in BOOLEAN, TurnFails(s, unrecoverable)
    PROVE  RestTyped'
<1>0. RoutesTyped /\ PromptsTyped /\ TurnsTyped /\ WorkTyped /\ CountsTyped
  BY DEF RestTyped
<1>1. RoutesTyped'
  BY <1>0, DropTyped DEF RoutesTyped, TurnFails
<1>2. PromptsTyped'
  <2>1. row' = Cleared(s) \/ row' = row
    BY DEF TurnFails, promptVars
  <2>2. row' \in [Asks -> [Requests -> {"none", "open"} \cup Decided]]
    BY <1>0, <2>1, WrittenRows DEF Cleared, PromptsTyped
  <2>3. QED
    BY <1>0, <2>2 DEF PromptsTyped, TurnFails, promptVars
<1>3. TurnsTyped'
  BY <1>0, TurnAtTyped, Bounds DEF TurnFails, TurnSteps, TurnAt
<1>4. WorkTyped'
  BY <1>0, Bounds DEF WorkTyped, TurnFails, FreeChat, NoOne, promptVars, workVars
<1>5. CountsTyped'
  BY <1>0, FaultCounted DEF CountsTyped, TurnFails, sessionVars, promptVars, workVars
<1>6. QED
  BY <1>1, <1>2, <1>3, <1>4, <1>5 DEF RestTyped

LEMMA SessionFailsTyped ==
    ASSUME RestTyped, NEW s \in Sessions, SessionFails(s)
    PROVE  RestTyped'
<1>0. RoutesTyped /\ PromptsTyped /\ TurnsTyped /\ WorkTyped /\ CountsTyped
  BY DEF RestTyped
<1>1. RoutesTyped'
  BY <1>0, DropTyped DEF SessionFails
<1>2. PromptsTyped'
  BY <1>0 DEF PromptsTyped, SessionFails, sessionVars, promptVars, workVars
<1>3. TurnsTyped'
  BY <1>0, TurnAtTyped, Bounds DEF SessionFails, TurnSteps, TurnAt
<1>4. WorkTyped'
  BY <1>0, Bounds DEF WorkTyped, SessionFails, FreeChat, NoOne, promptVars, workVars
<1>5. CountsTyped'
  BY <1>0, FaultCounted DEF CountsTyped, SessionFails, sessionVars, promptVars, workVars
<1>6. QED
  BY <1>1, <1>2, <1>3, <1>4, <1>5 DEF RestTyped

LEMMA CancelledTyped ==
    ASSUME RestTyped, NEW s \in Sessions, TurnCancelled(s)
    PROVE  RestTyped'
<1>0. RoutesTyped /\ PromptsTyped /\ TurnsTyped /\ WorkTyped /\ CountsTyped
  BY DEF RestTyped
<1>1. RoutesTyped'
  BY <1>0 DEF RoutesTyped, TurnCancelled, sessionVars, promptVars, workVars
<1>2. PromptsTyped'
  <2>1. row' = Cleared(s) \/ row' = row
    BY DEF TurnCancelled, promptVars
  <2>2. row' \in [Asks -> [Requests -> {"none", "open"} \cup Decided]]
    BY <1>0, <2>1, WrittenRows DEF Cleared, PromptsTyped
  <2>3. QED
    BY <1>0, <2>2 DEF PromptsTyped, TurnCancelled, promptVars
<1>3. TurnsTyped'
  BY <1>0, TurnAtTyped, Bounds DEF TurnCancelled, TurnSteps, TurnAt
<1>4. WorkTyped'
  BY <1>0 DEF WorkTyped, TurnCancelled, sessionVars, promptVars, workVars
<1>5. CountsTyped'
  BY <1>0, FaultCounted DEF CountsTyped, TurnCancelled, sessionVars, promptVars, workVars
<1>6. QED
  BY <1>1, <1>2, <1>3, <1>4, <1>5 DEF RestTyped

LEMMA AbandonTyped ==
    ASSUME RestTyped, NEW s \in Sessions, RetireAbandoned(s)
    PROVE  RestTyped'
<1>0. RoutesTyped /\ PromptsTyped /\ TurnsTyped /\ WorkTyped /\ CountsTyped
  BY DEF RestTyped
<1>1. RoutesTyped'
  BY <1>0, DropTyped DEF RetireAbandoned
<1>2. PromptsTyped'
  BY <1>0 DEF PromptsTyped, RetireAbandoned, sessionVars, promptVars, workVars
<1>3. TurnsTyped'
  BY <1>0 DEF TurnsTyped, RetireAbandoned, sessionVars, promptVars, workVars
<1>4. WorkTyped'
  BY <1>0 DEF WorkTyped, RetireAbandoned, sessionVars, promptVars, workVars
<1>5. CountsTyped'
  BY <1>0 DEF CountsTyped, RetireAbandoned, sessionVars, promptVars, workVars
<1>6. QED
  BY <1>1, <1>2, <1>3, <1>4, <1>5 DEF RestTyped

LEMMA DeleteTyped ==
    ASSUME RestTyped, NEW s \in Sessions, DeleteExpired(s)
    PROVE  RestTyped'
<1>0. RoutesTyped /\ PromptsTyped /\ TurnsTyped /\ WorkTyped /\ CountsTyped
  BY DEF RestTyped
<1>1. RoutesTyped'
  BY <1>0, DropTyped DEF DeleteExpired
<1>2. PromptsTyped'
  <2>1. row' = Cleared(s) \/ row' = row
    BY DEF DeleteExpired, promptVars
  <2>2. row' \in [Asks -> [Requests -> {"none", "open"} \cup Decided]]
    BY <1>0, <2>1, WrittenRows DEF Cleared, PromptsTyped
  <2>3. QED
    BY <1>0, <2>2 DEF PromptsTyped, DeleteExpired, promptVars
<1>3. TurnsTyped'
  BY <1>0, TurnAtTyped, Bounds DEF DeleteExpired, TurnSteps, TurnAt
<1>4. WorkTyped'
  BY <1>0 DEF WorkTyped, DeleteExpired, sessionVars, promptVars, workVars
<1>5. CountsTyped'
  BY <1>0 DEF CountsTyped, DeleteExpired, sessionVars, promptVars, workVars
<1>6. QED
  BY <1>1, <1>2, <1>3, <1>4, <1>5 DEF RestTyped

LEMMA ClickTyped ==
    ASSUME RestTyped, NEW a \in Asks, NEW option \in {"approve", "cancel"}, Click(a, option)
    PROVE  RestTyped'
<1>0. RoutesTyped /\ PromptsTyped /\ TurnsTyped /\ WorkTyped /\ CountsTyped
  BY DEF RestTyped
<1>1. RoutesTyped'
  BY <1>0 DEF RoutesTyped, Click, sessionVars, promptVars, workVars
<1>2. PromptsTyped'
  BY <1>0 DEF PromptsTyped, Click, sessionVars, promptVars, workVars
<1>3. TurnsTyped'
  BY <1>0 DEF TurnsTyped, Click, sessionVars, promptVars, workVars
<1>4. WorkTyped'
  BY <1>0 DEF WorkTyped, Click, sessionVars, promptVars, workVars
<1>5. CountsTyped'
  BY <1>0 DEF CountsTyped, Click, sessionVars, promptVars, workVars
<1>6. QED
  BY <1>1, <1>2, <1>3, <1>4, <1>5 DEF RestTyped

LEMMA AnswerTyped ==
    ASSUME RestTyped, NEW a \in Asks, AnswerQuestion(a)
    PROVE  RestTyped'
<1>0. RoutesTyped /\ PromptsTyped /\ TurnsTyped /\ WorkTyped /\ CountsTyped
  BY DEF RestTyped
<1>1. RoutesTyped'
  BY <1>0 DEF RoutesTyped, AnswerQuestion, sessionVars, promptVars, workVars
<1>2. PromptsTyped'
  <2>1. row' \in [Asks -> [Requests -> {"none", "open"} \cup Decided]]
    BY <1>0, WrittenRows DEF AnswerQuestion, Decided, PromptsTyped
  <2>2. QED
    BY <1>0, <2>1, HearTyped DEF PromptsTyped, PromptType, AnswerQuestion
<1>3. TurnsTyped'
  BY <1>0 DEF TurnsTyped, AnswerQuestion, sessionVars, promptVars, workVars
<1>4. WorkTyped'
  BY <1>0 DEF WorkTyped, AnswerQuestion, sessionVars, promptVars, workVars
<1>5. CountsTyped'
  BY <1>0 DEF CountsTyped, AnswerQuestion, sessionVars, promptVars, workVars
<1>6. QED
  BY <1>1, <1>2, <1>3, <1>4, <1>5 DEF RestTyped

LEMMA ClaimTyped ==
    ASSUME RestTyped, NEW a \in Asks, ClaimCallback(a)
    PROVE  RestTyped'
<1>0. RoutesTyped /\ PromptsTyped /\ TurnsTyped /\ WorkTyped /\ CountsTyped
  BY DEF RestTyped
<1>1. RoutesTyped'
  BY <1>0 DEF RoutesTyped, ClaimCallback, sessionVars, promptVars, workVars
<1>2. PromptsTyped'
  <2>1. press[a].option \in {"approve", "cancel"}
    BY <1>0 DEF WorkTyped
  <2>2. row' \in [Asks -> [Requests -> {"none", "open"} \cup Decided]]
    BY <1>0, <2>1, WrittenRows DEF ClaimCallback, Decided, PromptsTyped
  <2>3. prompt' = prompt /\ late' = late /\ leased' = leased
    BY DEF ClaimCallback
  <2>4. QED
    BY <1>0, <2>2, <2>3, Zenon DEF PromptsTyped
<1>3. TurnsTyped'
  BY <1>0 DEF TurnsTyped, ClaimCallback, sessionVars, promptVars, workVars
<1>4. WorkTyped'
  <2>1. prompt[a].session \in 0..MaxSessions
    BY <1>0 DEF PromptsTyped, PromptType
  <2>2. QED
    BY <1>0, <2>1 DEF WorkTyped, ClaimCallback
<1>5. CountsTyped'
  BY <1>0 DEF CountsTyped, ClaimCallback, sessionVars, promptVars, workVars
<1>6. QED
  BY <1>1, <1>2, <1>3, <1>4, <1>5 DEF RestTyped

LEMMA EditTyped ==
    ASSUME RestTyped, NEW a \in Asks, EditPrompt(a)
    PROVE  RestTyped'
<1>0. RoutesTyped /\ PromptsTyped /\ TurnsTyped /\ WorkTyped /\ CountsTyped
  BY DEF RestTyped
<1>1. RoutesTyped'
  BY <1>0 DEF RoutesTyped, EditPrompt, sessionVars, promptVars, workVars
<1>2. PromptsTyped'
  <2>1. PICK shown \in {prompt[a].shown, press[a].option} :
            prompt' = [prompt EXCEPT ![a].shown = shown]
    BY DEF EditPrompt
  <2>2. shown \in {"none", "preparing", "open", "approve", "cancel", "timeout"}
    BY <1>0, <2>1 DEF PromptsTyped, PromptType, WorkTyped
  <2>3. prompt' \in [Asks -> PromptType]
    BY <1>0, <2>1, <2>2 DEF PromptsTyped, PromptType
  <2>4. row' = row /\ late' = late /\ leased' = leased
    BY DEF EditPrompt
  <2>5. QED
    BY <1>0, <2>3, <2>4, Zenon DEF PromptsTyped
<1>3. TurnsTyped'
  BY <1>0 DEF TurnsTyped, EditPrompt, sessionVars, promptVars, workVars
<1>4. WorkTyped'
  BY <1>0 DEF WorkTyped, EditPrompt, sessionVars, promptVars, workVars
<1>5. CountsTyped'
  BY <1>0 DEF CountsTyped, EditPrompt, sessionVars, promptVars, workVars
<1>6. QED
  BY <1>1, <1>2, <1>3, <1>4, <1>5 DEF RestTyped

LEMMA RespondTyped ==
    ASSUME RestTyped, NEW a \in Asks, Respond(a)
    PROVE  RestTyped'
<1>0. RoutesTyped /\ PromptsTyped /\ TurnsTyped /\ WorkTyped /\ CountsTyped
  BY DEF RestTyped
<1>1. RoutesTyped'
  BY <1>0 DEF RoutesTyped, Respond, sessionVars, promptVars, workVars
<1>2. PromptsTyped'
  <2>1. press[a].option \in {"approve", "cancel"}
    BY <1>0 DEF WorkTyped
  <2>2. QED
    BY <1>0, <2>1, HearTyped DEF PromptsTyped, PromptType, Respond
<1>3. TurnsTyped'
  BY <1>0 DEF TurnsTyped, Respond, sessionVars, promptVars, workVars
<1>4. WorkTyped'
  BY <1>0, Bounds DEF WorkTyped, Respond, FreeChat, NoOne, promptVars, workVars
<1>5. CountsTyped'
  BY <1>0 DEF CountsTyped, Respond, sessionVars, promptVars, workVars
<1>6. QED
  BY <1>1, <1>2, <1>3, <1>4, <1>5 DEF RestTyped

LEMMA PressDiesTyped ==
    ASSUME RestTyped, NEW a \in Asks, PressDies(a)
    PROVE  RestTyped'
<1>0. RoutesTyped /\ PromptsTyped /\ TurnsTyped /\ WorkTyped /\ CountsTyped
  BY DEF RestTyped
<1>1. RoutesTyped'
  BY <1>0 DEF RoutesTyped, PressDies, sessionVars, promptVars, workVars
<1>2. PromptsTyped'
  BY <1>0 DEF PromptsTyped, PressDies, sessionVars, promptVars, workVars
<1>3. TurnsTyped'
  BY <1>0 DEF TurnsTyped, PressDies, sessionVars, promptVars, workVars
<1>4. WorkTyped'
  BY <1>0, Bounds DEF WorkTyped, PressDies, FreeChat, NoOne, promptVars, workVars
<1>5. CountsTyped'
  BY <1>0, FaultCounted DEF CountsTyped, PressDies, sessionVars, promptVars, workVars
<1>6. QED
  BY <1>1, <1>2, <1>3, <1>4, <1>5 DEF RestTyped

LEMMA TimeTyped ==
    ASSUME RestTyped, NEW a \in Asks, TimePasses(a)
    PROVE  RestTyped'
<1>0. RoutesTyped /\ PromptsTyped /\ TurnsTyped /\ WorkTyped /\ CountsTyped
  BY DEF RestTyped
<1>1. RoutesTyped'
  BY <1>0 DEF RoutesTyped, TimePasses, sessionVars, promptVars, workVars
<1>2. PromptsTyped'
  <2>1. /\ Requests \in SUBSET Requests /\ IsFiniteSet(Requests) /\ Cardinality(Requests) = MaxRequests
    BY FS_Interval, ConversationBounds DEF Requests
  <2>2. Cardinality(Registered(a)) <= MaxRequests /\ Cardinality(Registered(a)) \in Nat
    BY <2>1, FS_Subset, FS_CardinalityType DEF Registered
  <2>3. late[a] \in 0..MaxRequests
    BY <1>0 DEF PromptsTyped, PromptType
  <2>4. late[a] + 1 \in 0..MaxRequests
    BY <2>2, <2>3, ConversationBounds DEF TimePasses
  <2>5. QED
    BY <1>0, <2>4 DEF PromptsTyped, TimePasses
<1>3. TurnsTyped'
  BY <1>0 DEF TurnsTyped, TimePasses, sessionVars, promptVars, workVars
<1>4. WorkTyped'
  BY <1>0 DEF WorkTyped, TimePasses, sessionVars, promptVars, workVars
<1>5. CountsTyped'
  BY <1>0 DEF CountsTyped, TimePasses, sessionVars, promptVars, workVars
<1>6. QED
  BY <1>1, <1>2, <1>3, <1>4, <1>5 DEF RestTyped

LEMMA SweepClaimTyped ==
    ASSUME RestTyped, NEW s \in Sessions, NEW proven \in BOOLEAN, SweepClaim(s, proven)
    PROVE  RestTyped'
<1>0. RoutesTyped /\ PromptsTyped /\ TurnsTyped /\ WorkTyped /\ CountsTyped
  BY DEF RestTyped
<1>1. RoutesTyped'
  BY <1>0 DEF RoutesTyped, SweepClaim, sessionVars, promptVars, workVars
<1>2. PromptsTyped'
  BY <1>0 DEF PromptsTyped, SweepClaim, Overdue, RowsOf
<1>3. TurnsTyped'
  BY <1>0 DEF TurnsTyped, SweepClaim, sessionVars, promptVars, workVars
<1>4. WorkTyped'
  BY <1>0 DEF WorkTyped, SweepClaim, Overdue, RowsOf
<1>5. CountsTyped'
  BY <1>0, CountUp, ConversationBounds DEF CountsTyped, SweepClaim
<1>6. QED
  BY <1>1, <1>2, <1>3, <1>4, <1>5 DEF RestTyped

LEMMA SweepAnswersTyped ==
    ASSUME RestTyped, SweepAnswers
    PROVE  RestTyped'
<1>0. RoutesTyped /\ PromptsTyped /\ TurnsTyped /\ WorkTyped /\ CountsTyped
  BY DEF RestTyped
<1>1. RoutesTyped'
  BY <1>0 DEF RoutesTyped, SweepAnswers, sessionVars, promptVars, workVars
<1>2. PromptsTyped'
  <2>1. prompt' = [b \in Asks |-> prompt'[b]] /\ UNCHANGED <<row, late, leased>>
    BY DEF SweepAnswers
  <2>2. ASSUME NEW b \in Asks
        PROVE  prompt'[b] \in PromptType
    <3>1. prompt'[b] = prompt[b] \/ prompt'[b] = [prompt[b] EXCEPT !.heard = "cancel"]
      BY DEF SweepAnswers
    <3>2. prompt[b] \in PromptType
      BY <1>0 DEF PromptsTyped, PromptType
    <3>3. QED
      BY <3>1, <3>2 DEF PromptType
  <2>3. QED
    BY <1>0, <2>1, <2>2 DEF PromptsTyped, PromptType
<1>3. TurnsTyped'
  BY <1>0 DEF TurnsTyped, SweepAnswers, sessionVars, promptVars, workVars
<1>4. WorkTyped'
  BY <1>0 DEF WorkTyped, SweepAnswers, sessionVars, promptVars, workVars
<1>5. CountsTyped'
  BY <1>0 DEF CountsTyped, SweepAnswers, sessionVars, promptVars, workVars
<1>6. QED
  BY <1>1, <1>2, <1>3, <1>4, <1>5 DEF RestTyped

LEMMA SweepAnswerFailsTyped ==
    ASSUME RestTyped, SweepAnswerFails
    PROVE  RestTyped'
<1>0. RoutesTyped /\ PromptsTyped /\ TurnsTyped /\ WorkTyped /\ CountsTyped
  BY DEF RestTyped
<1>1. RoutesTyped'
  BY <1>0 DEF RoutesTyped, SweepAnswerFails, sessionVars, promptVars, workVars
<1>2. PromptsTyped'
  BY <1>0 DEF PromptsTyped, SweepAnswerFails, sessionVars, promptVars, workVars
<1>3. TurnsTyped'
  BY <1>0 DEF TurnsTyped, SweepAnswerFails, sessionVars, promptVars, workVars
<1>4. WorkTyped'
  BY <1>0 DEF WorkTyped, SweepAnswerFails, sessionVars, promptVars, workVars
<1>5. CountsTyped'
  BY <1>0, FaultCounted DEF CountsTyped, SweepAnswerFails, sessionVars, promptVars, workVars
<1>6. QED
  BY <1>1, <1>2, <1>3, <1>4, <1>5 DEF RestTyped

LEMMA SweepDiesTyped ==
    ASSUME RestTyped, SweepDies
    PROVE  RestTyped'
<1>0. RoutesTyped /\ PromptsTyped /\ TurnsTyped /\ WorkTyped /\ CountsTyped
  BY DEF RestTyped
<1>1. RoutesTyped'
  BY <1>0 DEF RoutesTyped, SweepDies, sessionVars, promptVars, workVars
<1>2. PromptsTyped'
  BY <1>0 DEF PromptsTyped, SweepDies, sessionVars, promptVars, workVars
<1>3. TurnsTyped'
  BY <1>0 DEF TurnsTyped, SweepDies, sessionVars, promptVars, workVars
<1>4. WorkTyped'
  BY <1>0 DEF WorkTyped, SweepDies, sessionVars, promptVars, workVars
<1>5. CountsTyped'
  BY <1>0, FaultCounted DEF CountsTyped, SweepDies, sessionVars, promptVars, workVars
<1>6. QED
  BY <1>1, <1>2, <1>3, <1>4, <1>5 DEF RestTyped

LEMMA SettleTyped ==
    ASSUME RestTyped, NEW x \in sweep.rows, Settle(x)
    PROVE  RestTyped'
<1>0. RoutesTyped /\ PromptsTyped /\ TurnsTyped /\ WorkTyped /\ CountsTyped
  BY DEF RestTyped
<1>1. RoutesTyped'
  BY <1>0 DEF RoutesTyped, Settle, sessionVars, promptVars, workVars
<1>2. PromptsTyped'
  <2>1. row' \in [Asks -> [Requests -> {"none", "open"} \cup Decided]]
    BY <1>0, WrittenRows DEF Settle, Decided, PromptsTyped
  <2>2. leased' \subseteq Asks \X Requests /\ late' = late
    BY <1>0 DEF Settle, PromptsTyped
  <2>3. \/ prompt' = prompt
        \/ prompt' = [prompt EXCEPT ![x[1]].shown = "timeout"]
    BY DEF Settle
  <2>4. prompt' \in [Asks -> PromptType]
    <3>1. x[1] \in Asks
      BY <1>0 DEF WorkTyped
    <3>2. prompt \in [Asks -> PromptType]
      BY <1>0 DEF PromptsTyped, PromptType
    <3>3. [prompt EXCEPT ![x[1]].shown = "timeout"]
              \in [Asks -> PromptType]
      BY <3>1, <3>2 DEF PromptType
    <3>4. QED
      BY <2>3, <3>2, <3>3
  <2>5. QED
    BY <1>0, <2>1, <2>2, <2>4, Zenon DEF PromptsTyped
<1>3. TurnsTyped'
  BY <1>0 DEF TurnsTyped, Settle, sessionVars, promptVars, workVars
<1>4. WorkTyped'
  BY <1>0 DEF WorkTyped, Settle, Without
<1>5. CountsTyped'
  BY <1>0 DEF CountsTyped, Settle, sessionVars, promptVars, workVars
<1>6. QED
  BY <1>1, <1>2, <1>3, <1>4, <1>5 DEF RestTyped

LEMMA SettleFailsTyped ==
    ASSUME RestTyped, NEW x \in sweep.rows, SettleFails(x)
    PROVE  RestTyped'
<1>0. RoutesTyped /\ PromptsTyped /\ TurnsTyped /\ WorkTyped /\ CountsTyped
  BY DEF RestTyped
<1>1. RoutesTyped'
  BY <1>0 DEF RoutesTyped, SettleFails, sessionVars, promptVars, workVars
<1>2. PromptsTyped'
  BY <1>0 DEF PromptsTyped, SettleFails, sessionVars, promptVars, workVars
<1>3. TurnsTyped'
  BY <1>0 DEF TurnsTyped, SettleFails, sessionVars, promptVars, workVars
<1>4. WorkTyped'
  BY <1>0 DEF WorkTyped, SettleFails, Without
<1>5. CountsTyped'
  BY <1>0, FaultCounted DEF CountsTyped, SettleFails, sessionVars, promptVars, workVars
<1>6. QED
  BY <1>1, <1>2, <1>3, <1>4, <1>5 DEF RestTyped

LEMMA LeaseTyped ==
    ASSUME RestTyped, NEW x \in leased, LeaseRunsOut(x)
    PROVE  RestTyped'
<1>0. RoutesTyped /\ PromptsTyped /\ TurnsTyped /\ WorkTyped /\ CountsTyped
  BY DEF RestTyped
<1>1. RoutesTyped'
  BY <1>0 DEF RoutesTyped, LeaseRunsOut, sessionVars, promptVars, workVars
<1>2. PromptsTyped'
  BY <1>0 DEF PromptsTyped, LeaseRunsOut, sessionVars, promptVars, workVars
<1>3. TurnsTyped'
  BY <1>0 DEF TurnsTyped, LeaseRunsOut, sessionVars, promptVars, workVars
<1>4. WorkTyped'
  BY <1>0 DEF WorkTyped, LeaseRunsOut, sessionVars, promptVars, workVars
<1>5. CountsTyped'
  BY <1>0 DEF CountsTyped, LeaseRunsOut, sessionVars, promptVars, workVars
<1>6. QED
  BY <1>1, <1>2, <1>3, <1>4, <1>5 DEF RestTyped

-----------------------------------------------------------------------------
\* A session that asks, or whose turn reads that it waits, is not canonical in a group.
AskedStep ==
    \A s \in Sessions : HasAsked(s)' => \/ HasAsked(s)
                                        \/ Group => Used(s)' /\ session'[s].kind # "canonical"

LEMMA SameAsked ==
    ASSUME \A a \in Asks : prompt'[a].session = prompt[a].session,
           \A s \in Sessions : turn'[s].awaiting = turn[s].awaiting
    PROVE  AskedStep
  BY DEF AskedStep, HasAsked

LEMMA AwaitingKept ==
    ASSUME TurnsTyped, NEW s \in Sessions, NEW at, NEW ask,
           \/ turn' = turn
           \/ turn' = [turn EXCEPT ![s].at = at]
           \/ turn' = [turn EXCEPT ![s].ask = ask]
           \/ turn' = [turn EXCEPT ![s].at = at, ![s].ask = ask]
    PROVE  \A t \in Sessions : turn'[t].awaiting = turn[t].awaiting
  BY DEF TurnsTyped

LEMMA ReadAsked ==
    ASSUME Typed, NEW s \in Sessions, ReadAwaiting(s)
    PROVE  AskedStep
<1>1. session' = session /\ prompt' = prompt
  BY DEF ReadAwaiting, sessionVars, promptVars
<1>2. \A t \in Sessions \ {s} : turn'[t] = turn[t]
  BY DEF Typed, TurnsTyped, ReadAwaiting
<1>3. turn'[s].awaiting => Live(s) /\ session[s].pending
  BY DEF Typed, TurnsTyped, ReadAwaiting
<1>4. Live(s) /\ session[s].pending => Used(s) /\ (Group => session[s].kind # "canonical")
  <2>1. RecordOK(session[s]) /\ NoSession.kind = "none"
    BY DEF Typed, SessionsTyped, NoSession
  <2>2. QED
    BY <2>1 DEF RecordOK, Live, Used
<1>5. \A t \in Sessions : HasAsked(t)' => HasAsked(t) \/ (t = s /\ turn'[s].awaiting)
  BY <1>1, <1>2 DEF HasAsked
<1>6. Used(s)' <=> Used(s)
  BY <1>1 DEF Used
<1>7. QED
  BY <1>1, <1>3, <1>4, <1>5, <1>6 DEF AskedStep

LEMMA AskAsked ==
    ASSUME Typed, NEW s \in Sessions, NEW kind, Ask(s, kind)
    PROVE  AskedStep
<1>1. /\ NextAsk \in Asks /\ Live(s) /\ session' = Parked(s)
      /\ prompt' = [prompt EXCEPT ![NextAsk] = [session |-> s, kind |-> kind,
                                                shown |-> "preparing", heard |-> "none"]]
      /\ turn' = [turn EXCEPT ![s].at = "registering", ![s].ask = NextAsk]
  BY DEF Ask, Park
<1>2. (Group => session'[s].kind # "canonical") /\ session'[s].kind # "none"
  BY <1>1, ParkTouches DEF Typed
<1>3. Used(s)'
  BY <1>2 DEF Used, NoSession
<1>4. \A t \in Sessions : turn'[t].awaiting = turn[t].awaiting
  BY <1>1, AwaitingKept DEF Typed
<1>5. \A a \in Asks : prompt'[a].session \in {prompt[a].session, s}
  BY <1>1 DEF Typed, PromptsTyped, PromptType
<1>6. \A t \in Sessions : HasAsked(t)' => HasAsked(t) \/ t = s
  BY <1>4, <1>5 DEF HasAsked
<1>7. QED
  BY <1>2, <1>3, <1>6 DEF AskedStep

LEMMA TurnAsked ==
    ASSUME Typed, NEW s \in Sessions, TurnStep(s) \/ TurnChoice(s)
    PROVE  AskedStep
<1>1. TurnsTyped /\ PromptsTyped
  BY DEF Typed
<1>2. CASE ReadAwaiting(s)
  BY <1>2, ReadAsked
<1>3. CASE \E kind \in {"approval", "question"} : Ask(s, kind)
  BY <1>3, AskAsked
<1>4. CASE \/ TurnStarts(s) \/ RegisterRows(s) \/ Reveal(s) \/ RecordCompleted(s) \/ ClearRows(s)
           \/ Resume(s) \/ RunGated(s) \/ RequestRotation(s) \/ RepeatInputRequested(s)
           \/ (\E unrecoverable \in BOOLEAN : TurnFails(s, unrecoverable))
           \/ SessionFails(s) \/ TurnCancelled(s)
  <2>1. \E at, ask : \/ turn' = turn
                     \/ turn' = [turn EXCEPT ![s].at = at]
                     \/ turn' = [turn EXCEPT ![s].ask = ask]
                     \/ turn' = [turn EXCEPT ![s].at = at, ![s].ask = ask]
    BY <1>4 DEF TurnStarts, RegisterRows, Reveal, RecordCompleted, ClearRows, Resume, RunGated,
       RequestRotation, RepeatInputRequested, TurnFails, SessionFails, TurnCancelled, TurnAt,
       AtBoundary, workVars
  <2>2. \A t \in Sessions : turn'[t].awaiting = turn[t].awaiting
    BY <1>1, <2>1, AwaitingKept
  <2>3. prompt' = prompt \/ \E a, shown : prompt' = [prompt EXCEPT ![a].shown = shown]
    BY <1>4 DEF TurnStarts, RegisterRows, Reveal, RecordCompleted, ClearRows, Resume, RunGated,
       RequestRotation, RepeatInputRequested, TurnFails, SessionFails, TurnCancelled, promptVars
  <2>4. \A a \in Asks : prompt'[a].session = prompt[a].session
    BY <1>1, <2>3 DEF PromptsTyped, PromptType
  <2>5. QED
    BY <2>2, <2>4, SameAsked
<1>5. QED
  BY <1>2, <1>3, <1>4 DEF TurnStep, TurnChoice

LEMMA PersonAsked ==
    ASSUME Typed, NEW a \in Asks, PersonStep(a) \/ PressStep(a) \/ PressDies(a) \/ TimePasses(a)
    PROVE  AskedStep
<1>1. TurnsTyped /\ PromptsTyped
  BY DEF Typed
<1>2. turn' = turn
  BY DEF PersonStep, PressStep, Click, AnswerQuestion, ClaimCallback, EditPrompt, Respond, PressDies,
     TimePasses, workVars
<1>3. \/ prompt' = prompt
      \/ \E shown : prompt' = [prompt EXCEPT ![a].shown = shown]
      \/ \E heard : prompt' = [prompt EXCEPT ![a].heard = heard]
  BY DEF PersonStep, PressStep, Click, AnswerQuestion, ClaimCallback, EditPrompt, Respond, PressDies,
     TimePasses, Hear, promptVars
<1>4. \A b \in Asks : prompt'[b].session = prompt[b].session
  <2>1. prompt \in [Asks -> PromptType]
    BY <1>1 DEF PromptsTyped
  <2>2. CASE \E shown : prompt' = [prompt EXCEPT ![a].shown = shown]
    BY <2>1, <2>2 DEF PromptType
  <2>3. CASE \E heard : prompt' = [prompt EXCEPT ![a].heard = heard]
    BY <2>1, <2>3 DEF PromptType
  <2>4. QED
    BY <1>3, <2>2, <2>3
<1>5. QED
  BY <1>2, <1>4, SameAsked

LEMMA SweepAsked ==
    ASSUME Typed, SweepStep \/ SweepFault
    PROVE  AskedStep
<1>1. TurnsTyped /\ PromptsTyped /\ turn' = turn
  BY DEF Typed, SweepStep, SweepFault, SweepClaim, SweepAnswers, Settle, SweepAnswerFails,
     SweepDies, SettleFails
<1>2. CASE SweepAnswers
  <2>1. \A b \in Asks : prompt'[b].session = prompt[b].session
    BY <1>1, <1>2 DEF PromptsTyped, PromptType, SweepAnswers
  <2>2. QED
    BY <1>1, <2>1, SameAsked
<1>3. CASE ~SweepAnswers
  <2>1. prompt' = prompt \/ \E a, shown : prompt' = [prompt EXCEPT ![a].shown = shown]
    BY <1>3 DEF SweepStep, SweepFault, SweepClaim, Settle, SweepAnswerFails, SweepDies, SettleFails,
       promptVars
  <2>2. \A b \in Asks : prompt'[b].session = prompt[b].session
    BY <1>1, <2>1 DEF PromptsTyped, PromptType
  <2>3. QED
    BY <1>1, <2>2, SameAsked
<1>4. QED
  BY <1>2, <1>3

LEMMA OtherAsked ==
    ASSUME Typed,
           \/ PlainMessage \/ LoseBoundary \/ AudienceChanges
           \/ \E s \in Sessions : RetireAbandoned(s) \/ DeleteExpired(s)
           \/ \E x \in leased : LeaseRunsOut(x)
    PROVE  AskedStep
<1>1. TurnsTyped
  BY DEF Typed
<1>2. prompt' = prompt
  BY DEF PlainMessage, LoseBoundary, AudienceChanges, RetireAbandoned, DeleteExpired, LeaseRunsOut,
     promptVars
<1>3. \A t \in Sessions : turn'[t].awaiting = turn[t].awaiting
  <2>1. CASE PlainMessage
    <3>1. PICK s \in Sessions : Delivered(s)
      BY <2>1 DEF PlainMessage, KeepSession, StartSession, Live
    <3>2. \E at : turn' = [turn EXCEPT ![s].at = at]
      BY <3>1 DEF Delivered
    <3>3. QED
      BY <1>1, <3>2, AwaitingKept
  <2>2. CASE \E s \in Sessions : DeleteExpired(s)
    <3>1. PICK s \in Sessions : turn' = [turn EXCEPT ![s].at = "dead", ![s].ask = 0]
      BY <2>2 DEF DeleteExpired
    <3>2. QED
      BY <1>1, <3>1, AwaitingKept
  <2>3. CASE \/ LoseBoundary \/ AudienceChanges \/ \E s \in Sessions : RetireAbandoned(s)
             \/ \E x \in leased : LeaseRunsOut(x)
    BY <2>3 DEF LoseBoundary, AudienceChanges, RetireAbandoned, LeaseRunsOut, workVars
  <2>4. QED
    BY <2>1, <2>2, <2>3
<1>4. QED
  BY <1>2, <1>3, SameAsked

-----------------------------------------------------------------------------
TypeInv == Typed /\ UsedSessions /\ GroupKinds

LEMMA KindsKept ==
    ASSUME GroupKinds, AskedStep,
           \A s \in Sessions : Used(s) => /\ Used(s)'
                                          /\ session'[s].kind = "canonical" => session[s].kind = "canonical"
    PROVE  GroupKinds'
  BY DEF GroupKinds, AskedStep

LEMMA TypeInvInit == ConversationsInit => TypeInv
<1> SUFFICES ASSUME ConversationsInit PROVE TypeInv
  OBVIOUS
<1>1. SessionsTyped
  <2>1. NoSession \in SessionType /\ NoSession.kind = "none"
    BY Bounds DEF NoSession, SessionType
  <2>2. RecordOK(NoSession)
    BY <2>1 DEF RecordOK
  <2>3. QED
    BY <2>1, <2>2 DEF SessionsTyped, ConversationsInit
<1>2. RoutesTyped /\ WorkTyped /\ CountsTyped
  BY Bounds DEF ConversationsInit, RoutesTyped, WorkTyped, CountsTyped, NoOne
<1>3. PromptsTyped
  BY Bounds DEF ConversationsInit, PromptsTyped, PromptType, NoOne
<1>4. TurnsTyped
  BY Bounds DEF ConversationsInit, TurnsTyped, TurnSteps
<1>5. UsedSessions
  <2>1. {s \in Sessions : Used(s)} = 1..0
    BY DEF ConversationsInit, Used
  <2>2. QED
    BY <2>1, Bounds DEF UsedSessions
<1>6. GroupKinds
  BY Bounds DEF ConversationsInit, GroupKinds, HasAsked, NoOne
<1>7. QED
  BY <1>1, <1>2, <1>3, <1>4, <1>5, <1>6 DEF TypeInv, Typed

LEMMA TypeInvStep == TypeInv /\ [ConversationsNext]_vars => TypeInv'
<1> SUFFICES ASSUME TypeInv, [ConversationsNext]_vars PROVE TypeInv'
  OBVIOUS
<1>0. /\ Typed /\ UsedSessions /\ GroupKinds /\ SessionsTyped /\ RestTyped
  BY DEF TypeInv, Typed, RestTyped
<1>1. ASSUME SessionStep, AskedStep, RestTyped' PROVE TypeInv'
  <2>1. /\ SessionsTyped' /\ UsedSessions'
        /\ \A s \in Sessions : /\ Used(s) => Used(s)'
                               /\ session'[s].kind = "canonical" => session[s].kind = "canonical"
    BY <1>0, <1>1, StepKeeps
  <2>2. GroupKinds'
    BY <1>0, <1>1, <2>1, KindsKept
  <2>3. QED
    BY <1>1, <2>1, <2>2 DEF TypeInv, Typed, RestTyped
<1>2. CASE PlainMessage
  <2>1. PICK tired \in BOOLEAN : KeepSession(tired) \/ StartSession(tired)
    BY <1>2 DEF PlainMessage
  <2>2. CASE KeepSession(tired)
    <3>1. SessionStep
      BY <1>0, <2>2, NoneTouched DEF KeepSession
    <3>2. QED
      BY <1>0, <1>1, <1>2, <3>1, OtherAsked, PlainTyped
  <2>3. CASE StartSession(tired)
    <3>1. /\ SessionsTyped' /\ UsedSessions'
          /\ \A s \in Sessions : Used(s) => Used(s)' /\ session'[s].kind = session[s].kind
      BY <1>0, <2>3, StartTouches
    <3>2. GroupKinds'
      BY <1>0, <1>2, <3>1, KindsKept, OtherAsked
    <3>3. RestTyped'
      BY <1>0, <1>2, PlainTyped
    <3>4. QED
      BY <3>1, <3>2, <3>3 DEF TypeInv, Typed, RestTyped
  <2>4. QED
    BY <2>1, <2>2, <2>3
<1>3. CASE LoseBoundary \/ AudienceChanges \/ \E x \in leased : LeaseRunsOut(x)
  BY <1>0, <1>1, <1>3, OtherTouches, OtherAsked, LoseTyped, AudienceTyped, LeaseTyped
<1>4. ASSUME NEW s \in Sessions, TurnStep(s) PROVE TypeInv'
  <2>1. RestTyped'
    BY <1>0, <1>4, TurnStartsTyped, RegisterTyped, RevealTyped, ReadTyped, RecordTyped, ClearTyped,
       ResumeTyped, RunTyped DEF TurnStep
  <2>2. QED
    BY <1>0, <1>1, <1>4, <2>1, TurnTouches, TurnAsked
<1>5. ASSUME NEW s \in Sessions, TurnChoice(s) PROVE TypeInv'
  <2>1. RestTyped'
    BY <1>0, <1>5, RequestRotationTyped, RepeatTyped, AskTyped, FailsTyped, SessionFailsTyped,
       CancelledTyped DEF TurnChoice
  <2>2. QED
    BY <1>0, <1>1, <1>5, <2>1, TurnTouches, TurnAsked
<1>6. ASSUME NEW s \in Sessions, RetireAbandoned(s) \/ DeleteExpired(s) PROVE TypeInv'
  BY <1>0, <1>1, <1>6, CleanupTouches, OtherAsked, AbandonTyped, DeleteTyped
<1>7. ASSUME NEW a \in Asks, PersonStep(a) \/ PressStep(a) \/ PressDies(a) \/ TimePasses(a)
      PROVE  TypeInv'
  <2>1. RestTyped'
    BY <1>0, <1>7, ClickTyped, AnswerTyped, ClaimTyped, EditTyped, RespondTyped, PressDiesTyped,
       TimeTyped DEF PersonStep, PressStep
  <2>2. QED
    BY <1>0, <1>1, <1>7, <2>1, PersonTouches, PersonAsked
<1>8. CASE SweepStep \/ SweepFault
  <2>1. RestTyped'
    BY <1>0, <1>8, SweepClaimTyped, SweepAnswersTyped, SweepAnswerFailsTyped, SweepDiesTyped,
       SettleTyped, SettleFailsTyped DEF SweepStep, SweepFault
  <2>2. QED
    BY <1>0, <1>1, <1>8, <2>1, SweepTouches, SweepAsked
<1>9. CASE UNCHANGED vars
  <2>1. SessionStep /\ AskedStep
    BY <1>0, <1>9, NoneTouched, SameAsked DEF vars, sessionVars, promptVars, workVars
  <2>2. RestTyped'
    BY <1>0, <1>9 DEF RestTyped, RoutesTyped, PromptsTyped, TurnsTyped, WorkTyped, CountsTyped, vars,
       sessionVars, promptVars, workVars
  <2>3. QED
    BY <1>1, <2>1, <2>2
<1>10. QED
  BY <1>2, <1>3, <1>4, <1>5, <1>6, <1>7, <1>8, <1>9 DEF ConversationsNext

LEMMA TypeInvCorrect == ConversationsSpec => []TypeInv
<1> QED
  BY TypeInvInit, TypeInvStep, PTL DEF ConversationsSpec

\* The tables of sessions and of confirmations keep the shape their CHECK constraints
\* demand: in a group, a conversation that waits for a decision is a task.
THEOREM ConversationsTypeCorrect == ConversationsSpec => []ConversationsTypeOK
<1>1. TypeInv => ConversationsTypeOK
  BY TypedIsTypeOK DEF TypeInv
<1>2. QED
  BY <1>1, TypeInvCorrect, PTL

-----------------------------------------------------------------------------
(* A row is only ever overwritten while it is open. *)
RowsStep ==
    \A a \in Asks, q \in Requests :
        row[a][q] \in Decided => row'[a][q] = row[a][q] \/ row'[a][q] \in {"none", "open"}

LEMMA ClearedRows ==
    ASSUME PromptsTyped, NEW s
    PROVE  \A a \in Asks : IF prompt[a].session = s
                           THEN \A q \in Requests : Cleared(s)[a][q] = "none"
                           ELSE \A q \in Requests : Cleared(s)[a][q] = row[a][q]
<1>1. \A a \in Asks, q \in Requests :
          Cleared(s)[a][q] = IF <<a, q>> \in RowsOf(s) THEN "none" ELSE row[a][q]
  BY DEF Cleared, Written
<1>2. \A a \in Asks, q \in Requests :
          <<a, q>> \in RowsOf(s) <=> prompt[a].session = s /\ row[a][q] # "none"
  BY DEF RowsOf
<1>3. QED
  BY <1>1, <1>2

LEMMA RowsOfStep ==
    ASSUME Typed, ConversationsNext
    PROVE  RowsStep
<1>1. PromptsTyped /\ WorkTyped
  BY DEF Typed
<1>2. ASSUME NEW s \in Sessions, row' = Cleared(s) PROVE RowsStep
  BY <1>1, <1>2, ClearedRows DEF RowsStep
<1>3. CASE row' = row
  BY <1>3 DEF RowsStep
<1>4. ASSUME NEW s \in Sessions, RegisterRows(s) PROVE RowsStep
  BY <1>1, <1>4 DEF RegisterRows, Opened, RowsStep, PromptsTyped
<1>5. ASSUME NEW a \in Asks, AnswerQuestion(a) PROVE RowsStep
  <2>1. row' = Written({<<a, 1>>}, "text") /\ row[a][1] = "open"
    BY <1>5 DEF AnswerQuestion
  <2>2. "text" \in {"none", "open"} \cup Decided
    BY DEF Decided
  <2>3. \A b \in Asks, q \in Requests :
            row'[b][q] = IF <<b, q>> \in {<<a, 1>>} THEN "text" ELSE row[b][q]
    BY <2>1 DEF Written
  <2>4. QED
    BY <2>1, <2>3 DEF RowsStep, Decided
<1>6. ASSUME NEW a \in Asks, ClaimCallback(a) PROVE RowsStep
  <2>1. press[a].option \in Decided
    BY <1>1 DEF WorkTyped, Decided
  <2>2. CASE row' = row
    BY <2>2 DEF RowsStep
  <2>3. CASE row' # row
    <3>1. Claimable(a) /\ row' = Written({<<a, q>> : q \in Registered(a)}, press[a].option)
      BY <1>6, <2>3 DEF ClaimCallback
    <3> DEFINE pressed == {<<a, q>> : q \in Registered(a)}
    <3>5. press[a].option \in {"none", "open"} \cup Decided /\ row' = Written(pressed, press[a].option)
      BY <2>1, <3>1
    <3>6. \A b, q : <<b, q>> \in pressed <=> b = a /\ q \in Registered(a)
      OBVIOUS
    <3> HIDE DEF pressed
    <3>2. \A b \in Asks, q \in Requests :
              row'[b][q] = IF b = a /\ q \in Registered(a) THEN press[a].option ELSE row[b][q]
      BY <3>5, <3>6 DEF Written
    <3>3. \A r \in Registered(a) : row[a][r] = "open"
      BY <3>1 DEF Claimable
    <3>4. QED
      BY <3>2, <3>3 DEF RowsStep, Decided
  <2>4. QED
    BY <2>2, <2>3
<1>7. ASSUME NEW x \in sweep.rows, Settle(x) PROVE RowsStep
  <2>1. CASE row' = row
    BY <2>1 DEF RowsStep
  <2>2. CASE row' # row
    <3>1. row[x[1]][x[2]] = "open" /\ row' = Written({x}, "timeout")
      BY <1>7, <2>2 DEF Settle, Settleable
    <3>2. "timeout" \in {"none", "open"} \cup Decided
      BY DEF Decided
    <3>3. \A b \in Asks, q \in Requests :
              row'[b][q] = IF <<b, q>> = x THEN "timeout" ELSE row[b][q]
      BY <3>1 DEF Written
    <3>4. QED
      BY <3>1, <3>3 DEF RowsStep, Decided
  <2>3. QED
    BY <2>1, <2>2
<1>8. \/ row' = row
      \/ \E s \in Sessions : row' = Cleared(s) \/ RegisterRows(s)
      \/ \E a \in Asks : AnswerQuestion(a) \/ ClaimCallback(a)
      \/ \E x \in sweep.rows : Settle(x)
  <2>1. CASE PlainMessage \/ LoseBoundary \/ AudienceChanges \/ \E x \in leased : LeaseRunsOut(x)
    BY <2>1 DEF PlainMessage, LoseBoundary, AudienceChanges, LeaseRunsOut, promptVars
  <2>2. ASSUME NEW s \in Sessions, TurnStep(s) \/ TurnChoice(s)
        PROVE  row' = row \/ row' = Cleared(s) \/ RegisterRows(s)
    BY <2>2 DEF TurnStep, TurnChoice, TurnStarts, Reveal, ReadAwaiting, RecordCompleted, ClearRows,
       Resume, RunGated, RequestRotation, RepeatInputRequested, Ask, TurnFails, SessionFails,
       TurnCancelled, promptVars
  <2>3. ASSUME NEW s \in Sessions, RetireAbandoned(s) \/ DeleteExpired(s)
        PROVE  row' = row \/ row' = Cleared(s)
    BY <2>3 DEF RetireAbandoned, DeleteExpired, promptVars
  <2>4. ASSUME NEW a \in Asks, PersonStep(a) \/ PressStep(a) \/ PressDies(a) \/ TimePasses(a)
        PROVE  row' = row \/ AnswerQuestion(a) \/ ClaimCallback(a)
    BY <2>4 DEF PersonStep, PressStep, Click, EditPrompt, Respond, PressDies, TimePasses, promptVars
  <2>5. CASE SweepStep \/ SweepFault
    BY <2>5 DEF SweepStep, SweepFault, SweepClaim, SweepAnswers, SweepAnswerFails, SweepDies,
       SettleFails, promptVars
  <2>6. QED
    BY <2>1, <2>2, <2>3, <2>4, <2>5 DEF ConversationsNext
<1>9. QED
  BY <1>2, <1>3, <1>4, <1>5, <1>6, <1>7, <1>8

\* The press and the sweep race for a row: whoever wins, the row keeps that decision
\* until Eve asks again or its turn is over.
THEOREM DecisionIsFinalCorrect == ConversationsSpec => DecisionIsFinal
<1> DEFINE Final ==
        \A a \in Asks, q \in Requests :
            row[a][q] \in Decided => \/ row'[a][q] = row[a][q]
                                     \/ row'[a][q] \in {"none", "open"}
<1>1. TypeInv /\ [ConversationsNext]_vars => [Final]_vars
  BY RowsOfStep DEF TypeInv, RowsStep
<1>2. QED
  BY <1>1, TypeInvCorrect, PTL DEF ConversationsSpec, DecisionIsFinal

-----------------------------------------------------------------------------
(***************************************************************************)
(* What a prompt shows and what is executed behind it.  A gated action runs *)
(* on rows that say approve, and such rows were all written by one press of *)
(* approve (Granted): it found every row of the prompt open, so none of    *)
(* them was settled by the sweep, and there is no second press.            *)
(***************************************************************************)
Granted(a) ==
    /\ press[a].option = "approve" /\ press[a].at \notin {"none", "queued"}
    /\ \A q \in Requests : row[a][q] \in {"approve", "none"}
    /\ prompt[a].shown \notin {"cancel", "timeout"}
UnaskedIsEmpty(a) ==
    prompt[a].session = NoOne => /\ \A q \in Requests : row[a][q] = "none"
                                 /\ press[a].at = "none" /\ prompt[a].shown = "none"
ApprovedIsGranted(a) == (\E q \in Requests : row[a][q] = "approve") => Granted(a)
CancelledByPress(a) ==
    prompt[a].shown = "cancel" => press[a].option = "cancel" /\ press[a].at \notin {"none", "queued"}
TimedOutIsClosed(a) ==
    press[a].at = "queued" /\ prompt[a].shown = "timeout" =>
        \/ \A q \in Requests : row[a][q] = "none"
        \/ \E q \in Requests : row[a][q] \notin {"none", "open"}
RanIsGranted(a) ==
    (\E q \in Requests : <<a, q>> \in ran) =>
        prompt[a].session # NoOne /\ Granted(a) /\ \A s \in Sessions : turn[s].ask # a
CardOK(a) ==
    /\ UnaskedIsEmpty(a) /\ ApprovedIsGranted(a) /\ CancelledByPress(a) /\ TimedOutIsClosed(a)
    /\ RanIsGranted(a)
\* A turn asks with a prompt of its own session, which takes no press before it is
\* revealed.
TurnOK(s) ==
    /\ turn[s].ask # 0 => prompt[turn[s].ask].session = s
    /\ turn[s].at \in {"registering", "revealing"} => turn[s].ask # 0
    /\ turn[s].at = "registering" =>
           press[turn[s].ask].at # "queued" /\ prompt[turn[s].ask].shown # "open"
UsedAsks == \E n \in 0..MaxAsks : {a \in Asks : prompt[a].session # NoOne} = 1..n
Cards == UsedAsks /\ (\A a \in Asks : CardOK(a)) /\ (\A s \in Sessions : TurnOK(s))

\* A step that leaves a prompt as it is, closes its rows or ends its press.
QuietCard(a) ==
    /\ prompt'[a].session = prompt[a].session /\ prompt'[a].shown = prompt[a].shown
    /\ \/ \A q \in Requests : row'[a][q] = row[a][q]
       \/ \A q \in Requests : row'[a][q] = "none"
    /\ press'[a].option = press[a].option
    /\ press'[a].at = press[a].at \/ (press[a].at # "none" /\ press'[a].at \in {"edited", "done"})
    /\ \A q \in Requests : <<a, q>> \in ran' => <<a, q>> \in ran
NotAsked(a) == \A s \in Sessions : turn'[s].ask = a => turn[s].ask = a
QuietTurn(s) ==
    /\ turn'[s].ask \in {turn[s].ask, 0}
    /\ turn'[s].at \in {"registering", "revealing"} =>
           turn'[s].at = turn[s].at /\ turn'[s].ask = turn[s].ask

LEMMA QuietCardKept ==
    ASSUME NEW a \in Asks, CardOK(a), QuietCard(a), NotAsked(a)
    PROVE  CardOK(a)'
<1>1. Granted(a) => Granted(a)'
  BY DEF Granted, QuietCard
<1>2. UnaskedIsEmpty(a)'
  BY DEF CardOK, UnaskedIsEmpty, QuietCard
<1>3. ApprovedIsGranted(a)'
  BY <1>1 DEF CardOK, ApprovedIsGranted, QuietCard
<1>4. CancelledByPress(a)'
  BY DEF CardOK, CancelledByPress, QuietCard
<1>5. TimedOutIsClosed(a)'
  BY DEF CardOK, TimedOutIsClosed, QuietCard
<1>6. RanIsGranted(a)'
  BY <1>1 DEF CardOK, RanIsGranted, QuietCard, NotAsked
<1>7. QED
  BY <1>2, <1>3, <1>4, <1>5, <1>6 DEF CardOK

LEMMA QuietTurnKept ==
    ASSUME TurnsTyped, NEW s \in Sessions, TurnOK(s), QuietTurn(s),
           turn[s].ask # 0 => QuietCard(turn[s].ask)
    PROVE  TurnOK(s)'
<1>1. CASE turn'[s].ask = 0
  BY <1>1 DEF TurnOK, QuietTurn
<1>2. CASE turn'[s].ask # 0
  <2>1. turn'[s].ask = turn[s].ask /\ QuietCard(turn[s].ask)
    BY <1>2 DEF QuietTurn
  <2>2. QED
    BY <1>2, <2>1 DEF TurnOK, QuietTurn, QuietCard
<1>3. QED
  BY <1>1, <1>2

LEMMA QuietKeeps ==
    ASSUME Typed, Cards, \A a \in Asks : QuietCard(a), \A s \in Sessions : QuietTurn(s)
    PROVE  Cards'
<1>1. \A a \in Asks : NotAsked(a)
  BY Bounds DEF NotAsked, QuietTurn
<1>2. \A a \in Asks : CardOK(a)'
  BY <1>1, QuietCardKept DEF Cards
<1>3. ASSUME NEW s \in Sessions PROVE TurnOK(s)'
  <2>1. turn[s].ask # 0 => turn[s].ask \in Asks
    BY ConversationBounds DEF Typed, TurnsTyped, Asks
  <2>2. QED
    BY <2>1, QuietTurnKept DEF Typed, Cards
<1>4. UsedAsks'
  <2>1. \A a \in Asks : prompt'[a].session = prompt[a].session
    BY DEF QuietCard
  <2>2. {a \in Asks : prompt[a].session # NoOne} = {a \in Asks : prompt'[a].session # NoOne}
    BY <2>1
  <2>3. QED
    BY <2>2 DEF UsedAsks, Cards
<1>5. QED
  BY <1>2, <1>3, <1>4 DEF Cards

\* A step on one prompt, or on none, that leaves the turns quiet.
LEMMA OneCardKeeps ==
    ASSUME Typed, Cards, NEW a \in Asks, \A b \in Asks \ {a} : QuietCard(b),
           \A s \in Sessions : QuietTurn(s),
           prompt'[a].session = prompt[a].session, CardOK(a)',
           \A s \in Sessions : turn[s].at = "registering" /\ turn[s].ask = a =>
               press'[a].at # "queued" /\ prompt'[a].shown # "open"
    PROVE  Cards'
<1>1. \A b \in Asks : NotAsked(b)
  BY Bounds DEF NotAsked, QuietTurn
<1>2. \A b \in Asks : CardOK(b)'
  BY <1>1, QuietCardKept DEF Cards
<1>3. ASSUME NEW s \in Sessions PROVE TurnOK(s)'
  <2>1. (turn[s].ask # 0 => turn[s].ask \in Asks) /\ TurnsTyped /\ TurnOK(s) /\ QuietTurn(s)
    BY ConversationBounds DEF Typed, TurnsTyped, Asks, Cards
  <2>2. CASE turn[s].ask # a
    BY <2>1, <2>2, QuietTurnKept
  <2>3. CASE turn[s].ask = a /\ turn'[s].ask = 0
    BY <2>1, <2>3, Bounds DEF TurnOK, QuietTurn
  <2>4. CASE turn[s].ask = a /\ turn'[s].ask = a
    BY <2>1, <2>4, Bounds DEF TurnOK, QuietTurn
  <2>5. QED
    BY <2>1, <2>2, <2>3, <2>4 DEF QuietTurn
<1>4. UsedAsks'
  <2>1. \A b \in Asks : prompt'[b].session = prompt[b].session
    BY DEF QuietCard
  <2>2. {b \in Asks : prompt[b].session # NoOne} = {b \in Asks : prompt'[b].session # NoOne}
    BY <2>1
  <2>3. QED
    BY <2>2 DEF UsedAsks, Cards
<1>5. QED
  BY <1>2, <1>3, <1>4 DEF Cards

LEMMA SameCard ==
    ASSUME NEW a \in Asks, prompt'[a] = prompt[a], row'[a] = row[a], press'[a] = press[a],
           \A q \in Requests : <<a, q>> \in ran' => <<a, q>> \in ran
    PROVE  QuietCard(a)
  BY DEF QuietCard

LEMMA SameTurns ==
    ASSUME turn' = turn
    PROVE  \A s \in Sessions : QuietTurn(s)
  BY DEF QuietTurn

LEMMA TurnMoves ==
    ASSUME TurnsTyped, NEW s \in Sessions, NEW at, at \notin {"registering", "revealing"}, NEW awaiting,
           \/ turn' = turn
           \/ turn' = [turn EXCEPT ![s].at = at]
           \/ turn' = [turn EXCEPT ![s].at = at, ![s].ask = 0]
           \/ turn' = [turn EXCEPT ![s].at = at, ![s].awaiting = awaiting]
    PROVE  \A t \in Sessions : QuietTurn(t)
<1>1. \A t \in Sessions \ {s} : turn'[t] = turn[t]
  BY DEF TurnsTyped
<1>2. QuietTurn(s)
  <2>1. CASE turn' = turn
    BY <2>1 DEF QuietTurn
  <2>2. CASE turn' = [turn EXCEPT ![s].at = at]
    BY <2>2 DEF TurnsTyped, QuietTurn
  <2>3. CASE turn' = [turn EXCEPT ![s].at = at, ![s].ask = 0]
    BY <2>3 DEF TurnsTyped, QuietTurn
  <2>4. CASE turn' = [turn EXCEPT ![s].at = at, ![s].awaiting = awaiting]
    BY <2>4 DEF TurnsTyped, QuietTurn
  <2>5. QED
    BY <2>1, <2>2, <2>3, <2>4
<1>3. QED
  BY <1>1, <1>2 DEF QuietTurn

LEMMA BoundaryMoves ==
    ASSUME TurnsTyped, NEW s \in Sessions, AtBoundary(s)
    PROVE  \A t \in Sessions : QuietTurn(t)
<1>1. PICK at \in {"parked", "idle"} : turn' = [turn EXCEPT ![s].at = at]
  BY DEF AtBoundary
<1>2. QED
  BY <1>1, TurnMoves

LEMMA QuietRows ==
    ASSUME Typed, prompt' = prompt, press' = press, ran' = ran,
           row' = row \/ \E s \in Sessions : row' = Cleared(s)
    PROVE  \A a \in Asks : QuietCard(a)
<1>1. \A a \in Asks : \/ \A q \in Requests : row'[a][q] = row[a][q]
                      \/ \A q \in Requests : row'[a][q] = "none"
  <2>1. CASE row' = row
    BY <2>1
  <2>2. CASE \E s \in Sessions : row' = Cleared(s)
    BY <2>2, ClearedRows DEF Typed
  <2>3. QED
    BY <2>1, <2>2
<1>2. QED
  BY <1>1 DEF QuietCard

LEMMA QuietTurnSteps ==
    ASSUME Typed, Cards, NEW s \in Sessions,
           \/ TurnStarts(s) \/ ReadAwaiting(s) \/ RecordCompleted(s) \/ ClearRows(s) \/ Resume(s)
           \/ RequestRotation(s) \/ (\E unrecoverable \in BOOLEAN : TurnFails(s, unrecoverable))
           \/ SessionFails(s) \/ TurnCancelled(s) \/ RetireAbandoned(s) \/ DeleteExpired(s)
    PROVE  Cards'
<1>1. TurnsTyped
  BY DEF Typed
<1>2. prompt' = prompt /\ press' = press /\ ran' = ran
  BY DEF TurnStarts, ReadAwaiting, RecordCompleted, ClearRows, Resume, RequestRotation, TurnFails,
     SessionFails, TurnCancelled, RetireAbandoned, DeleteExpired, promptVars, workVars
<1>3. row' = row \/ row' = Cleared(s)
  BY DEF TurnStarts, ReadAwaiting, RecordCompleted, ClearRows, Resume, RequestRotation, TurnFails,
     SessionFails, TurnCancelled, RetireAbandoned, DeleteExpired, promptVars
<1>4. \A a \in Asks : QuietCard(a)
  BY <1>2, <1>3, QuietRows
<1>5. \A t \in Sessions : QuietTurn(t)
  <2>1. CASE TurnStarts(s) \/ Resume(s) \/ RequestRotation(s) \/ RetireAbandoned(s)
    BY <1>1, <2>1, TurnMoves DEF TurnStarts, Resume, RequestRotation, RetireAbandoned, TurnAt,
       workVars
  <2>2. CASE ReadAwaiting(s)
    <3>1. \E awaiting : turn' = [turn EXCEPT ![s].at = "recording", ![s].awaiting = awaiting]
      BY <2>2 DEF ReadAwaiting
    <3>2. QED
      BY <1>1, <3>1, TurnMoves
  <2>3. CASE RecordCompleted(s) \/ ClearRows(s)
    BY <1>1, <2>3, BoundaryMoves, TurnMoves DEF RecordCompleted, ClearRows, TurnAt
  <2>4. CASE \/ SessionFails(s) \/ TurnCancelled(s) \/ DeleteExpired(s)
             \/ \E unrecoverable \in BOOLEAN : TurnFails(s, unrecoverable)
    <3>1. \E at \in {"idle", "dead", "starting"} : turn' = [turn EXCEPT ![s].at = at, ![s].ask = 0]
      BY <2>4 DEF SessionFails, TurnCancelled, DeleteExpired, TurnFails
    <3>2. QED
      BY <1>1, <3>1, TurnMoves
  <2>5. QED
    BY <2>1, <2>2, <2>3, <2>4
<1>6. QED
  BY <1>4, <1>5, QuietKeeps

LEMMA QuietOtherSteps ==
    ASSUME Typed, Cards,
           \/ PlainMessage \/ LoseBoundary \/ AudienceChanges
           \/ \E a \in Asks : TimePasses(a)
           \/ \E s \in Sessions, proven \in BOOLEAN : SweepClaim(s, proven)
           \/ SweepAnswerFails \/ SweepDies \/ (\E x \in sweep.rows : SettleFails(x))
           \/ (\E x \in leased : LeaseRunsOut(x)) \/ UNCHANGED vars
    PROVE  Cards'
<1>1. prompt' = prompt /\ press' = press /\ ran' = ran /\ row' = row
  BY DEF PlainMessage, LoseBoundary, AudienceChanges, TimePasses, SweepClaim, SweepAnswerFails,
     SweepDies, SettleFails, LeaseRunsOut, promptVars, workVars, vars
<1>2. \A a \in Asks : QuietCard(a)
  BY <1>1, QuietRows
<1>3. \A t \in Sessions : QuietTurn(t)
  <2>1. CASE PlainMessage
    <3>1. PICK s \in Sessions : Delivered(s)
      BY <2>1 DEF PlainMessage, KeepSession, StartSession, Live
    <3>2. turn' = turn \/ turn' = [turn EXCEPT ![s].at = "starting"]
      BY <3>1 DEF Typed, TurnsTyped, Delivered
    <3>3. CASE turn' = turn
      BY <3>3, SameTurns
    <3>4. CASE turn' = [turn EXCEPT ![s].at = "starting"]
      <4>1. TurnsTyped
        BY DEF Typed
      <4>2. QED
        BY <3>4, <4>1, TurnMoves
    <3>5. QED
      BY <3>2, <3>3, <3>4
  <2>2. CASE ~PlainMessage
    <3>1. turn' = turn
      BY <2>2 DEF LoseBoundary, AudienceChanges, TimePasses, SweepClaim, SweepAnswerFails, SweepDies,
         SettleFails, LeaseRunsOut, workVars, vars
    <3>2. QED
      BY <3>1, SameTurns
  <2>3. QED
    BY <2>1, <2>2
<1>4. QED
  BY <1>2, <1>3, QuietKeeps

LEMMA SweepAnswersKeep ==
    ASSUME Typed, Cards, SweepAnswers
    PROVE  Cards'
<1>1. row' = row /\ press' = press /\ ran' = ran /\ turn' = turn
  BY DEF SweepAnswers
<1>2. \A a \in Asks : prompt'[a].session = prompt[a].session /\ prompt'[a].shown = prompt[a].shown
  <2>1. \A a \in Asks : prompt'[a] = prompt[a] \/ prompt'[a] = [prompt[a] EXCEPT !.heard = "cancel"]
    BY DEF SweepAnswers
  <2>2. \A a \in Asks : prompt[a] \in PromptType
    BY DEF Typed, PromptsTyped
  <2>3. QED
    BY <2>1, <2>2 DEF PromptType
<1>3. \A a \in Asks : QuietCard(a)
  BY <1>1, <1>2 DEF QuietCard
<1>4. QED
  BY <1>1, <1>3, SameTurns, QuietKeeps

LEMMA HearQuiet ==
    ASSUME PromptsTyped, NEW a \in Asks, NEW answer, Hear(a, answer)
    PROVE  \A b \in Asks : prompt'[b].session = prompt[b].session /\ prompt'[b].shown = prompt[b].shown
<1>1. \E heard : prompt' = [prompt EXCEPT ![a].heard = heard]
  BY DEF Hear
<1>2. prompt \in [Asks -> PromptType]
  BY DEF PromptsTyped
<1>3. QED
  BY <1>1, <1>2 DEF PromptType

LEMMA PressTyped ==
    ASSUME Typed, NEW a \in Asks
    PROVE  /\ press \in [Asks -> [at : {"none", "queued", "claimed", "edited", "done"},
                                  option : {"approve", "cancel"}]]
           /\ press[a].at \in {"none", "queued", "claimed", "edited", "done"}
           /\ press[a].option \in {"approve", "cancel"}
  BY DEF Typed, WorkTyped

LEMMA RespondKeeps ==
    ASSUME Typed, Cards, NEW a \in Asks, Respond(a) \/ PressDies(a)
    PROVE  Cards'
<1>1. row' = row /\ ran' = ran /\ turn' = turn
  BY DEF Respond, PressDies, promptVars
<1>2. \A b \in Asks : prompt'[b].session = prompt[b].session /\ prompt'[b].shown = prompt[b].shown
  BY HearQuiet DEF Typed, Respond, PressDies, promptVars
<1>3. press[a].at # "none" /\ press' = [press EXCEPT ![a].at = "done"]
  BY DEF Respond, PressDies
<1>4. \A b \in Asks : /\ press'[b].option = press[b].option
                      /\ press'[b].at = press[b].at \/ (press[b].at # "none" /\ press'[b].at = "done")
  BY <1>3, PressTyped
<1>5. \A b \in Asks : QuietCard(b)
  BY <1>1, <1>2, <1>4 DEF QuietCard
<1>6. QED
  BY <1>1, <1>5, SameTurns, QuietKeeps

LEMMA AskTyping ==
    ASSUME Typed, Cards, NEW s \in Sessions, turn[s].ask # 0
    PROVE  /\ turn[s].ask \in Asks /\ prompt[turn[s].ask].session = s /\ s # NoOne
           /\ \A t \in Sessions : turn[t].ask = turn[s].ask => t = s
<1>1. \A t \in Sessions : turn[t].ask # 0 => turn[t].ask \in Asks /\ prompt[turn[t].ask].session = t
  BY ConversationBounds DEF Typed, TurnsTyped, Asks, Cards, TurnOK
<1>2. s # NoOne
  BY Bounds DEF NoOne
<1>3. QED
  BY <1>1, <1>2

LEMMA RunGatedKeeps ==
    ASSUME Typed, Cards, NEW s \in Sessions, NEW a \in Asks, a = turn[s].ask, RunGated(s)
    PROVE  Cards'
<1>1. prompt' = prompt /\ row' = row /\ press' = press /\ turn' = [turn EXCEPT ![s].ask = 0]
  BY DEF RunGated, promptVars
<1>2. a # 0 /\ turn[s].at = "running"
  BY DEF RunGated
<1>3. prompt[a].session = s /\ s # NoOne /\ \A t \in Sessions : turn[t].ask = a => t = s
  BY <1>2, AskTyping
<1>4. \A b \in Asks, q \in Requests : <<b, q>> \in ran' =>
          <<b, q>> \in ran \/ (b = a /\ row[b][q] = "approve")
  BY DEF RunGated, Evidence
<1>5. /\ turn'[s].ask = 0 /\ turn'[s].at = "running"
      /\ \A t \in Sessions \ {s} : turn'[t] = turn[t]
  BY <1>1, <1>2 DEF Typed, TurnsTyped
<1>6. \A b \in Asks \ {a} : QuietCard(b)
  BY <1>1, <1>4, SameCard
<1>7. \A t \in Sessions : QuietTurn(t)
  BY <1>5 DEF QuietTurn
<1>8. CardOK(a)'
  <2>1. CardOK(a)
    BY <1>3 DEF Cards
  <2>2. UnaskedIsEmpty(a)' /\ ApprovedIsGranted(a)' /\ CancelledByPress(a)' /\ TimedOutIsClosed(a)'
    BY <1>1, <2>1 DEF CardOK, UnaskedIsEmpty, ApprovedIsGranted, CancelledByPress, TimedOutIsClosed,
       Granted
  <2>3. ASSUME NEW q \in Requests, <<a, q>> \in ran'
        PROVE  prompt'[a].session # NoOne /\ Granted(a)' /\ \A t \in Sessions : turn'[t].ask # a
    <3>1. <<a, q>> \notin ran
      BY <1>3, <2>1 DEF CardOK, RanIsGranted
    <3>2. row[a][q] = "approve"
      BY <1>3, <1>4, <2>3, <3>1
    <3>3. Granted(a)
      BY <2>1, <3>2 DEF CardOK, ApprovedIsGranted
    <3>4. Granted(a)'
      BY <1>1, <3>3 DEF Granted
    <3>5. \A t \in Sessions : turn'[t].ask # a
      BY <1>2, <1>3, <1>5
    <3>6. QED
      BY <1>1, <1>3, <3>4, <3>5
  <2>4. RanIsGranted(a)'
    BY <2>3 DEF RanIsGranted
  <2>5. QED
    BY <2>2, <2>4 DEF CardOK
<1>9. \A t \in Sessions : ~(turn[t].at = "registering" /\ turn[t].ask = a)
  BY <1>2, <1>3
<1>10. QED
  BY <1>1, <1>3, <1>6, <1>7, <1>8, <1>9, OneCardKeeps

\* A step on one prompt that also sets the turn that asks with it.
LEMMA AskingCardKeeps ==
    ASSUME Typed, Cards, NEW a \in Asks, \A b \in Asks \ {a} : QuietCard(b) /\ NotAsked(b),
           CardOK(a)', \A t \in Sessions : TurnOK(t)', UsedAsks'
    PROVE  Cards'
  BY QuietCardKept DEF Cards

LEMMA SameUsedAsks ==
    ASSUME Cards, \A a \in Asks : prompt'[a].session = prompt[a].session
    PROVE  UsedAsks'
<1>1. {a \in Asks : prompt[a].session # NoOne} = {a \in Asks : prompt'[a].session # NoOne}
  OBVIOUS
<1>2. QED
  BY <1>1 DEF UsedAsks, Cards

LEMMA RegisterKeeps ==
    ASSUME Typed, Cards, NEW s \in Sessions, NEW a \in Asks, a = turn[s].ask, RegisterRows(s)
    PROVE  Cards'
<1>1. /\ prompt' = prompt /\ press' = press /\ ran' = ran /\ row' = Opened(a)
      /\ turn' = [turn EXCEPT ![s].at = "revealing"] /\ turn[s].at = "registering"
  BY DEF RegisterRows, TurnAt
<1>2. a # 0 /\ press[a].at # "queued"
  BY <1>1 DEF Cards, TurnOK
<1>3. prompt[a].session = s /\ s # NoOne /\ \A t \in Sessions : turn[t].ask = a => t = s
  BY <1>2, AskTyping
<1>4. turn'[s].at = "revealing" /\ turn'[s].ask = a /\ \A t \in Sessions \ {s} : turn'[t] = turn[t]
  BY <1>1 DEF Typed, TurnsTyped
<1>5. \A b \in Asks \ {a} : QuietCard(b) /\ NotAsked(b)
  <2>1. \A b \in Asks \ {a} : row'[b] = row[b]
    BY <1>1 DEF Typed, PromptsTyped, Opened
  <2>2. QED
    BY <1>1, <1>4, <2>1, SameCard DEF NotAsked
<1>6. \A q \in Requests : row'[a][q] \in {"open", "none"}
  BY <1>1, <1>3 DEF Typed, PromptsTyped, Opened
<1>7. CardOK(a)'
  <2>1. CardOK(a)
    BY <1>3 DEF Cards
  <2>2. UnaskedIsEmpty(a)' /\ ApprovedIsGranted(a)' /\ CancelledByPress(a)' /\ TimedOutIsClosed(a)'
    BY <1>1, <1>2, <1>3, <1>6, <2>1 DEF CardOK, UnaskedIsEmpty, ApprovedIsGranted, CancelledByPress,
       TimedOutIsClosed
  <2>3. \A q \in Requests : <<a, q>> \notin ran'
    BY <1>1, <2>1 DEF CardOK, RanIsGranted
  <2>4. QED
    BY <2>2, <2>3 DEF CardOK, RanIsGranted
<1>8. \A t \in Sessions : TurnOK(t)'
  <2>1. \A t \in Sessions : TurnOK(t)
    BY DEF Cards
  <2>2. QED
    BY <1>1, <1>2, <1>3, <1>4, <2>1 DEF TurnOK
<1>9. UsedAsks'
  BY <1>1, SameUsedAsks
<1>10. QED
  BY <1>3, <1>5, <1>7, <1>8, <1>9, AskingCardKeeps

LEMMA RevealKeeps ==
    ASSUME Typed, Cards, NEW s \in Sessions, NEW a \in Asks, a = turn[s].ask, Reveal(s)
    PROVE  Cards'
<1>1. /\ prompt' = [prompt EXCEPT ![a].shown = "open"]
      /\ press' = press /\ ran' = ran /\ row' = row
      /\ turn' = [turn EXCEPT ![s].at = "closing"] /\ turn[s].at = "revealing"
  BY DEF Reveal, TurnAt
<1>2. a # 0
  BY <1>1 DEF Cards, TurnOK
<1>3. prompt[a].session = s /\ s # NoOne /\ \A t \in Sessions : turn[t].ask = a => t = s
  BY <1>2, AskTyping
<1>4. /\ prompt'[a].shown = "open" /\ prompt'[a].session = s
      /\ \A b \in Asks \ {a} : prompt'[b] = prompt[b]
  BY <1>1, <1>3 DEF Typed, PromptsTyped, PromptType
<1>5. \A b \in Asks \ {a} : QuietCard(b)
  BY <1>1, <1>4, SameCard
<1>6. \A t \in Sessions : QuietTurn(t)
  BY <1>1, TurnMoves DEF Typed
<1>7. CardOK(a)'
  <2>1. CardOK(a)
    BY <1>3 DEF Cards
  <2>2. Granted(a) => Granted(a)'
    BY <1>1, <1>4 DEF Granted
  <2>3. \A q \in Requests : <<a, q>> \notin ran'
    BY <1>1, <2>1 DEF CardOK, RanIsGranted
  <2>4. QED
    BY <1>1, <1>3, <1>4, <2>1, <2>2, <2>3 DEF CardOK, UnaskedIsEmpty, ApprovedIsGranted,
       CancelledByPress, TimedOutIsClosed, RanIsGranted
<1>8. \A t \in Sessions : ~(turn[t].at = "registering" /\ turn[t].ask = a)
  BY <1>1, <1>3
<1>9. QED
  BY <1>3, <1>4, <1>5, <1>6, <1>7, <1>8, OneCardKeeps

LEMMA RepeatKeeps ==
    ASSUME Typed, Cards, NEW s \in Sessions, NEW a \in Asks, a = turn[s].ask, RepeatInputRequested(s)
    PROVE  Cards'
<1>1. /\ prompt' = [prompt EXCEPT ![a].shown = "preparing"]
      /\ press' = [press EXCEPT ![a].at = IF press[a].at = "queued" THEN "done" ELSE press[a].at]
      /\ ran' = ran /\ row' = row
      /\ turn' = [turn EXCEPT ![s].at = "registering"] /\ a # 0
  BY DEF RepeatInputRequested, TurnAt
<1>2. prompt[a].session = s /\ s # NoOne /\ \A t \in Sessions : turn[t].ask = a => t = s
  BY <1>1, AskTyping
<1>3. /\ prompt'[a].shown = "preparing" /\ \A b \in Asks : prompt'[b].session = prompt[b].session
      /\ \A b \in Asks \ {a} : prompt'[b] = prompt[b]
  BY <1>1, <1>2 DEF Typed, PromptsTyped, PromptType
<1>4. /\ press'[a].option = press[a].option
      /\ press'[a].at = IF press[a].at = "queued" THEN "done" ELSE press[a].at
      /\ \A b \in Asks \ {a} : press'[b] = press[b]
  BY <1>1, <1>2, PressTyped
<1>5. turn'[s].at = "registering" /\ turn'[s].ask = a /\ \A t \in Sessions \ {s} : turn'[t] = turn[t]
  BY <1>1 DEF Typed, TurnsTyped
<1>6. \A b \in Asks \ {a} : QuietCard(b) /\ NotAsked(b)
  BY <1>1, <1>3, <1>4, <1>5, SameCard DEF NotAsked
<1>7. CardOK(a)'
  <2>1. CardOK(a)
    BY <1>2 DEF Cards
  <2>2. Granted(a) => Granted(a)'
    BY <1>1, <1>3, <1>4 DEF Granted
  <2>3. \A q \in Requests : <<a, q>> \notin ran'
    BY <1>1, <2>1 DEF CardOK, RanIsGranted
  <2>4. UnaskedIsEmpty(a)' /\ CancelledByPress(a)' /\ TimedOutIsClosed(a)'
    BY <1>2, <1>3 DEF UnaskedIsEmpty, CancelledByPress, TimedOutIsClosed
  <2>5. ApprovedIsGranted(a)'
    BY <1>1, <2>1, <2>2 DEF CardOK, ApprovedIsGranted
  <2>6. QED
    BY <2>3, <2>4, <2>5 DEF CardOK, RanIsGranted
<1>8. \A t \in Sessions : TurnOK(t)'
  <2>1. TurnOK(s)'
    BY <1>1, <1>2, <1>3, <1>4, <1>5 DEF TurnOK
  <2>2. ASSUME NEW t \in Sessions \ {s} PROVE TurnOK(t)'
    <3>1. TurnOK(t) /\ turn'[t] = turn[t] /\ turn[t].ask # a
      BY <1>2, <1>5 DEF Cards
    <3>2. turn[t].ask # 0 => turn[t].ask \in Asks
      BY AskTyping
    <3>3. QED
      BY <1>3, <1>4, <3>1, <3>2 DEF TurnOK
  <2>3. QED
    BY <2>1, <2>2
<1>9. UsedAsks'
  BY <1>3, SameUsedAsks
<1>10. QED
  BY <1>2, <1>6, <1>7, <1>8, <1>9, AskingCardKeeps

\* A new prompt is numbered past all the others.
LEMMA NextAskIsFresh ==
    ASSUME Typed, Cards, NextAsk \in Asks
    PROVE  /\ prompt[NextAsk].session = NoOne
           /\ \E n \in 0..MaxAsks : /\ {a \in Asks : prompt[a].session # NoOne} = 1..n
                                    /\ NextAsk = n + 1
<1>1. PICK n \in 0..MaxAsks : {a \in Asks : prompt[a].session # NoOne} = 1..n
  BY DEF Cards, UsedAsks
<1>2. n \in Nat
  BY ConversationBounds
<1>3. Cardinality(1..n) = n
  <2>1. Cardinality(1..n) = IF 1 > n THEN 0 ELSE n - 1 + 1
    BY <1>2, FS_Interval
  <2>2. QED
    BY <1>2, <2>1
<1>4. NextAsk = n + 1
  BY <1>1, <1>3 DEF NextAsk
<1>5. n + 1 \notin 1..n
  BY <1>2
<1>6. QED
  BY <1>1, <1>4, <1>5

LEMMA AskKeeps ==
    ASSUME Typed, Cards, NEW s \in Sessions, NEW kind \in {"approval", "question"}, Ask(s, kind)
    PROVE  Cards'
<1>1. PICK a \in Asks : a = NextAsk
  BY DEF Ask
<1>2. PICK n \in 0..MaxAsks : {b \in Asks : prompt[b].session # NoOne} = 1..n /\ a = n + 1
  BY <1>1, NextAskIsFresh
<1>3. prompt[a].session = NoOne
  BY <1>1, NextAskIsFresh
<1>4. /\ prompt' = [prompt EXCEPT ![a] = [session |-> s, kind |-> kind,
                                          shown |-> "preparing", heard |-> "none"]]
      /\ turn' = [turn EXCEPT ![s].at = "registering", ![s].ask = a]
      /\ row' = row /\ press' = press /\ ran' = ran
  BY <1>1 DEF Ask
<1>5. s # NoOne /\ a # 0
  BY Bounds DEF NoOne
<1>6. prompt'[a].session = s /\ prompt'[a].shown = "preparing" /\ \A b \in Asks \ {a} : prompt'[b] = prompt[b]
  BY <1>4 DEF Typed, PromptsTyped
<1>7. turn'[s].at = "registering" /\ turn'[s].ask = a /\ \A t \in Sessions \ {s} : turn'[t] = turn[t]
  BY <1>4 DEF Typed, TurnsTyped
<1>8. \A b \in Asks \ {a} : QuietCard(b) /\ NotAsked(b)
  BY <1>4, <1>6, <1>7, SameCard DEF NotAsked
<1>9. CardOK(a)
  BY DEF Cards
<1>10. press[a].at = "none" /\ \A q \in Requests : row[a][q] = "none" /\ <<a, q>> \notin ran
  BY <1>3, <1>9 DEF CardOK, UnaskedIsEmpty, RanIsGranted
<1>11. CardOK(a)'
  <2>1. UnaskedIsEmpty(a)' /\ ApprovedIsGranted(a)'
    BY <1>4, <1>5, <1>6, <1>10 DEF UnaskedIsEmpty, ApprovedIsGranted
  <2>2. CancelledByPress(a)' /\ TimedOutIsClosed(a)' /\ RanIsGranted(a)'
    BY <1>4, <1>6, <1>10 DEF CancelledByPress, TimedOutIsClosed, RanIsGranted
  <2>3. QED
    BY <2>1, <2>2 DEF CardOK
<1>12. ASSUME NEW t \in Sessions PROVE TurnOK(t)'
  <2>1. CASE t = s
    BY <1>4, <1>5, <1>6, <1>7, <1>10, <2>1 DEF TurnOK
  <2>2. CASE t # s
    <3>1. TurnOK(t) /\ turn'[t] = turn[t]
      BY <1>7, <2>2 DEF Cards
    <3>2. turn[t].ask # 0 => turn[t].ask \in Asks \ {a}
      BY <1>3, AskTyping, Bounds DEF NoOne
    <3>3. QED
      BY <1>4, <1>6, <3>1, <3>2 DEF TurnOK
  <2>3. QED
    BY <2>1, <2>2
<1>13. UsedAsks'
  <2>1. n + 1 \in 0..MaxAsks
    BY <1>2 DEF Asks
  <2>2. {b \in Asks : prompt'[b].session # NoOne} = {b \in Asks : prompt[b].session # NoOne} \cup {a}
    BY <1>5, <1>6
  <2>3. 1..(n + 1) = (1..n) \cup {n + 1}
    BY ConversationBounds
  <2>4. {b \in Asks : prompt'[b].session # NoOne} = 1..(n + 1)
    BY <1>2, <2>2, <2>3
  <2>5. QED
    BY <2>1, <2>4 DEF UsedAsks
<1>14. QED
  BY <1>8, <1>11, <1>12, <1>13, AskingCardKeeps

\* The person presses: nothing behind an open prompt is approved yet.
LEMMA ClickKeeps ==
    ASSUME Typed, Cards, NEW a \in Asks, NEW option \in {"approve", "cancel"}, Click(a, option)
    PROVE  Cards'
<1>1. /\ prompt' = prompt /\ row' = row /\ ran' = ran /\ turn' = turn
      /\ press' = [press EXCEPT ![a] = [at |-> "queued", option |-> option]]
      /\ prompt[a].shown = "open" /\ press[a].at = "none"
  BY DEF Click, promptVars
<1>2. press'[a].at = "queued" /\ \A b \in Asks \ {a} : press'[b] = press[b]
  BY <1>1, PressTyped
<1>3. \A b \in Asks \ {a} : QuietCard(b)
  BY <1>1, <1>2, SameCard
<1>4. CardOK(a)
  BY DEF Cards
<1>5. ~Granted(a)
  BY <1>1 DEF Granted
<1>6. CardOK(a)'
  <2>1. UnaskedIsEmpty(a)' /\ CancelledByPress(a)' /\ TimedOutIsClosed(a)'
    BY <1>1, <1>4 DEF CardOK, UnaskedIsEmpty, CancelledByPress, TimedOutIsClosed
  <2>2. ApprovedIsGranted(a)' /\ RanIsGranted(a)'
    BY <1>1, <1>4, <1>5 DEF CardOK, ApprovedIsGranted, RanIsGranted
  <2>3. QED
    BY <2>1, <2>2 DEF CardOK
<1>7. \A t \in Sessions : ~(turn[t].at = "registering" /\ turn[t].ask = a)
  BY <1>1 DEF Cards, TurnOK
<1>8. QED
  BY <1>1, <1>3, <1>6, <1>7, SameTurns, OneCardKeeps

\* The press is claimed for every row of its prompt, and each of them was open.
LEMMA ClaimKeeps ==
    ASSUME Typed, Cards, NEW a \in Asks, ClaimCallback(a)
    PROVE  Cards'
<1>1. prompt' = prompt /\ ran' = ran /\ turn' = turn /\ press[a].at = "queued"
  BY DEF ClaimCallback
<1>2. CASE ~Claimable(a)
  <2>1. row' = row /\ press' = [press EXCEPT ![a].at = "done"]
    BY <1>2 DEF ClaimCallback
  <2>2. \A b \in Asks : /\ press'[b].option = press[b].option
                        /\ press'[b].at = press[b].at \/ (press[b].at # "none" /\ press'[b].at = "done")
    BY <1>1, <2>1, PressTyped
  <2>3. \A b \in Asks : QuietCard(b)
    BY <1>1, <2>1, <2>2 DEF QuietCard
  <2>4. QED
    BY <1>1, <2>3, SameTurns, QuietKeeps
<1>3. CASE Claimable(a)
  <2>1. /\ row' = Written({<<a, q>> : q \in Registered(a)}, press[a].option)
        /\ press' = [press EXCEPT ![a].at = "claimed"]
    BY <1>3 DEF ClaimCallback
  <2>2. /\ press'[a].at = "claimed" /\ press'[a].option = press[a].option
        /\ \A b \in Asks \ {a} : press'[b] = press[b]
    BY <2>1, PressTyped
  <2>3. row \in [Asks -> [Requests -> {"none", "open"} \cup Decided]]
    BY DEF Typed, PromptsTyped
  <2>4. \A b \in Asks \ {a} : row'[b] = row[b]
    <3>1. ASSUME NEW b \in Asks \ {a} PROVE row'[b] = [q \in Requests |-> row[b][q]]
      BY <2>1 DEF Written
    <3>2. \A b \in Asks : row[b] = [q \in Requests |-> row[b][q]]
      BY <2>3
    <3>3. QED
      BY <3>1, <3>2
  <2>5. \A q \in Requests : row'[a][q] \in {press[a].option, "none"}
    BY <2>1, <2>3 DEF Written, Registered
  <2>6. \A b \in Asks \ {a} : QuietCard(b)
    BY <1>1, <2>2, <2>4, SameCard
  <2>7. CardOK(a)
    BY DEF Cards
  <2>8. prompt[a].shown # "timeout"
    <3>1. PICK q \in Requests : row[a][q] = "open"
      BY <1>3 DEF Claimable, Registered
    <3>2. \A r \in Requests : row[a][r] \in {"none", "open"}
      BY <1>3 DEF Claimable, Registered
    <3>3. QED
      BY <1>1, <2>7, <3>1, <3>2 DEF CardOK, TimedOutIsClosed
  <2>9. prompt[a].shown # "cancel"
    BY <1>1, <2>7 DEF CardOK, CancelledByPress
  <2>10. CardOK(a)'
    <3>1. press[a].option \in {"approve", "cancel"}
      BY PressTyped
    <3>2. UnaskedIsEmpty(a)' /\ CancelledByPress(a)' /\ TimedOutIsClosed(a)'
      BY <1>1, <2>2, <2>7, <2>9 DEF CardOK, UnaskedIsEmpty, CancelledByPress, TimedOutIsClosed
    <3>3. ApprovedIsGranted(a)'
      BY <1>1, <2>2, <2>5, <2>8, <2>9, <3>1 DEF ApprovedIsGranted, Granted
    <3>4. RanIsGranted(a)'
      BY <1>1, <2>7 DEF CardOK, RanIsGranted, Granted
    <3>5. QED
      BY <3>2, <3>3, <3>4 DEF CardOK
  <2>11. \A t \in Sessions : turn[t].at = "registering" /\ turn[t].ask = a =>
             press'[a].at # "queued" /\ prompt'[a].shown # "open"
    BY <1>1, <2>2 DEF Cards, TurnOK
  <2>12. QED
    BY <1>1, <2>6, <2>10, <2>11, SameTurns, OneCardKeeps
<1>4. QED
  BY <1>2, <1>3

LEMMA EditKeeps ==
    ASSUME Typed, Cards, NEW a \in Asks, EditPrompt(a)
    PROVE  Cards'
<1>1. PICK shown \in {prompt[a].shown, press[a].option} : prompt' = [prompt EXCEPT ![a].shown = shown]
  BY DEF EditPrompt
<1>2. /\ press[a].at = "claimed" /\ press' = [press EXCEPT ![a].at = "edited"]
      /\ row' = row /\ ran' = ran /\ turn' = turn
  BY DEF EditPrompt
<1>3. /\ prompt'[a].shown = shown /\ prompt'[a].session = prompt[a].session
      /\ \A b \in Asks \ {a} : prompt'[b] = prompt[b]
  BY <1>1 DEF Typed, PromptsTyped, PromptType
<1>4. /\ press'[a].at = "edited" /\ press'[a].option = press[a].option
      /\ \A b \in Asks \ {a} : press'[b] = press[b]
  BY <1>2, PressTyped
<1>5. press[a].option \in {"approve", "cancel"}
  BY PressTyped
<1>6. \A b \in Asks \ {a} : QuietCard(b)
  BY <1>2, <1>3, <1>4, SameCard
<1>7. CardOK(a)
  BY DEF Cards
<1>8. CardOK(a)'
  <2>1. Granted(a) => Granted(a)'
    BY <1>2, <1>3, <1>4 DEF Granted
  <2>2. UnaskedIsEmpty(a)' /\ TimedOutIsClosed(a)'
    BY <1>2, <1>3, <1>4, <1>7 DEF CardOK, UnaskedIsEmpty, TimedOutIsClosed
  <2>3. CancelledByPress(a)'
    BY <1>3, <1>4, <1>7 DEF CardOK, CancelledByPress
  <2>4. ApprovedIsGranted(a)' /\ RanIsGranted(a)'
    BY <1>2, <1>3, <1>7, <2>1 DEF CardOK, ApprovedIsGranted, RanIsGranted
  <2>5. QED
    BY <2>2, <2>3, <2>4 DEF CardOK
<1>9. \A t \in Sessions : turn[t].at = "registering" /\ turn[t].ask = a =>
          press'[a].at # "queued" /\ prompt'[a].shown # "open"
  BY <1>3, <1>4, <1>5 DEF Cards, TurnOK
<1>10. QED
  BY <1>2, <1>3, <1>6, <1>8, <1>9, SameTurns, OneCardKeeps

\* One open row of a prompt is closed by an answer or by the sweep: nothing behind
\* the prompt was approved, for approve closes every row at once.
LEMMA ClosingKeeps ==
    ASSUME Typed, Cards, NEW a \in Asks, NEW r \in Requests, NEW status \in {"text", "timeout"},
           row[a][r] = "open", row' = Written({<<a, r>>}, status),
           press' = press, ran' = ran, turn' = turn,
           \A b \in Asks : prompt'[b].session = prompt[b].session,
           \A b \in Asks \ {a} : prompt'[b].shown = prompt[b].shown,
           prompt'[a].shown = "timeout" \/ (prompt'[a].shown = "open" /\ prompt[a].shown = "open")
    PROVE  Cards'
<1>1. row \in [Asks -> [Requests -> {"none", "open"} \cup Decided]]
  BY DEF Typed, PromptsTyped
<1>2. \A b \in Asks \ {a}, q \in Requests : row'[b][q] = row[b][q]
  BY <1>1 DEF Written
<1>3. row'[a][r] = status /\ \A q \in Requests \ {r} : row'[a][q] = row[a][q]
  BY <1>1 DEF Written
<1>4. \A b \in Asks \ {a} : QuietCard(b)
  BY <1>2 DEF QuietCard
<1>5. CardOK(a)
  BY DEF Cards
<1>6. ~Granted(a)
  BY DEF Granted
<1>7. prompt[a].session # NoOne
  BY <1>5 DEF CardOK, UnaskedIsEmpty
<1>8. CardOK(a)'
  <2>1. \A q \in Requests : row[a][q] # "approve" /\ row'[a][q] # "approve" /\ <<a, q>> \notin ran'
    BY <1>3, <1>5, <1>6 DEF CardOK, ApprovedIsGranted, RanIsGranted
  <2>2. UnaskedIsEmpty(a)' /\ CancelledByPress(a)' /\ TimedOutIsClosed(a)'
    BY <1>3, <1>7 DEF UnaskedIsEmpty, CancelledByPress, TimedOutIsClosed
  <2>3. QED
    BY <2>1, <2>2 DEF CardOK, ApprovedIsGranted, RanIsGranted
<1>9. \A t \in Sessions : turn[t].at = "registering" /\ turn[t].ask = a =>
          press'[a].at # "queued" /\ prompt'[a].shown # "open"
  BY DEF Cards, TurnOK
<1>10. QED
  BY <1>4, <1>8, <1>9, SameTurns, OneCardKeeps

LEMMA AnswerKeeps ==
    ASSUME Typed, Cards, NEW a \in Asks, AnswerQuestion(a)
    PROVE  Cards'
<1>1. /\ row[a][1] = "open" /\ row' = Written({<<a, 1>>}, "text") /\ prompt[a].shown = "open"
      /\ press' = press /\ ran' = ran /\ turn' = turn
  BY DEF AnswerQuestion
<1>2. 1 \in Requests
  BY ConversationBounds DEF Requests
<1>3. \A b \in Asks : prompt'[b].session = prompt[b].session /\ prompt'[b].shown = prompt[b].shown
  <2>1. Hear(a, "approve") \/ prompt' = prompt
    BY DEF AnswerQuestion
  <2>2. PromptsTyped
    BY DEF Typed
  <2>3. QED
    BY <2>1, <2>2, HearQuiet
<1>4. QED
  BY <1>1, <1>2, <1>3, ClosingKeeps

LEMMA SettleKeeps ==
    ASSUME Typed, Cards, NEW x \in sweep.rows, Settle(x)
    PROVE  Cards'
<1>1. PICK a \in Asks, r \in Requests : x = <<a, r>>
  BY DEF Typed, WorkTyped
<1>2. press' = press /\ ran' = ran /\ turn' = turn
  BY DEF Settle
<1>3. CASE ~Settleable(x)
  <2>1. row' = row /\ prompt' = prompt
    BY <1>3 DEF Settle
  <2>2. \A b \in Asks : QuietCard(b)
    BY <1>2, <2>1, SameCard
  <2>3. QED
    BY <1>2, <2>2, SameTurns, QuietKeeps
<1>4. CASE Settleable(x)
  <2>1. /\ row[a][r] = "open" /\ row' = Written({<<a, r>>}, "timeout")
        /\ prompt' = [prompt EXCEPT ![a].shown = "timeout"]
    BY <1>1, <1>4 DEF Settle, Settleable
  <2>2. /\ prompt'[a].shown = "timeout" /\ \A b \in Asks : prompt'[b].session = prompt[b].session
        /\ \A b \in Asks \ {a} : prompt'[b].shown = prompt[b].shown
    BY <2>1 DEF Typed, PromptsTyped, PromptType
  <2>3. QED
    BY <1>2, <2>1, <2>2, ClosingKeeps
<1>5. QED
  BY <1>3, <1>4

LEMMA CardsInit == ConversationsInit => Cards
<1> SUFFICES ASSUME ConversationsInit PROVE Cards
  OBVIOUS
<1>1. UsedAsks
  <2>1. {a \in Asks : prompt[a].session # NoOne} = 1..0
    BY DEF ConversationsInit
  <2>2. QED
    BY <2>1, Bounds DEF UsedAsks
<1>2. ASSUME NEW a \in Asks PROVE CardOK(a)
  <2>1. /\ prompt[a].shown = "none" /\ press[a].at = "none" /\ ran = {}
        /\ \A q \in Requests : row[a][q] = "none"
    BY DEF ConversationsInit
  <2>2. QED
    BY <2>1 DEF CardOK, UnaskedIsEmpty, ApprovedIsGranted, CancelledByPress, TimedOutIsClosed,
       RanIsGranted
<1>3. ASSUME NEW s \in Sessions PROVE TurnOK(s)
  <2>1. turn[s].at = "none" /\ turn[s].ask = 0
    BY DEF ConversationsInit
  <2>2. QED
    BY <2>1 DEF TurnOK
<1>4. QED
  BY <1>1, <1>2, <1>3 DEF Cards

LEMMA CardsStep == TypeInv /\ Cards /\ [ConversationsNext]_vars => Cards'
<1> SUFFICES ASSUME Typed, Cards, [ConversationsNext]_vars PROVE Cards'
  BY DEF TypeInv
<1>1. ASSUME NEW s \in Sessions, TurnStep(s) PROVE Cards'
  <2>1. CASE RegisterRows(s) \/ Reveal(s) \/ RunGated(s)
    <3>1. turn[s].ask # 0
      BY <2>1 DEF RegisterRows, Reveal, RunGated, Cards, TurnOK
    <3>2. PICK a \in Asks : a = turn[s].ask
      BY <3>1, AskTyping
    <3>3. QED
      BY <2>1, <3>2, RegisterKeeps, RevealKeeps, RunGatedKeeps
  <2>2. CASE ~(RegisterRows(s) \/ Reveal(s) \/ RunGated(s))
    BY <1>1, <2>2, QuietTurnSteps DEF TurnStep
  <2>3. QED
    BY <2>1, <2>2
<1>2. ASSUME NEW s \in Sessions, TurnChoice(s) PROVE Cards'
  <2>1. CASE RepeatInputRequested(s)
    <3>1. turn[s].ask # 0
      BY <2>1 DEF RepeatInputRequested
    <3>2. PICK a \in Asks : a = turn[s].ask
      BY <3>1, AskTyping
    <3>3. QED
      BY <2>1, <3>2, RepeatKeeps
  <2>2. CASE \E kind \in {"approval", "question"} : Ask(s, kind)
    BY <2>2, AskKeeps
  <2>3. CASE \/ RequestRotation(s) \/ SessionFails(s) \/ TurnCancelled(s)
             \/ \E unrecoverable \in BOOLEAN : TurnFails(s, unrecoverable)
    BY <2>3, QuietTurnSteps
  <2>4. QED
    BY <1>2, <2>1, <2>2, <2>3 DEF TurnChoice
<1>3. ASSUME NEW s \in Sessions, RetireAbandoned(s) \/ DeleteExpired(s) PROVE Cards'
  BY <1>3, QuietTurnSteps
<1>4. ASSUME NEW a \in Asks, PersonStep(a) \/ PressStep(a) \/ PressDies(a) PROVE Cards'
  BY <1>4, ClickKeeps, AnswerKeeps, ClaimKeeps, EditKeeps, RespondKeeps DEF PersonStep, PressStep
<1>5. ASSUME SweepStep \/ SweepFault PROVE Cards'
  <2>1. CASE SweepAnswers
    BY <2>1, SweepAnswersKeep
  <2>2. CASE \E x \in sweep.rows : Settle(x)
    BY <2>2, SettleKeeps
  <2>3. CASE ~SweepAnswers /\ ~(\E x \in sweep.rows : Settle(x))
    BY <1>5, <2>3, QuietOtherSteps DEF SweepStep, SweepFault
  <2>4. QED
    BY <2>1, <2>2, <2>3
<1>6. ASSUME \/ PlainMessage \/ LoseBoundary \/ AudienceChanges \/ (\E a \in Asks : TimePasses(a))
             \/ (\E x \in leased : LeaseRunsOut(x)) \/ UNCHANGED vars
      PROVE  Cards'
  BY <1>6, QuietOtherSteps
<1>7. QED
  BY <1>1, <1>2, <1>3, <1>4, <1>5, <1>6 DEF ConversationsNext

\* What a prompt tells the person: once it says that the action will not be executed,
\* nothing behind it has run or will run, whatever press, sweep, audience change,
\* repetition and crash interleave (approval-repository.ts, approval-timeout.ts).
THEOREM RefusedStaysUnexecutedCorrect == ConversationsSpec => []RefusedStaysUnexecuted
<1>1. Typed /\ Cards => RefusedStaysUnexecuted
  <2> SUFFICES ASSUME Typed, Cards, NEW x \in ran PROVE prompt[x[1]].shown \notin {"cancel", "timeout"}
    BY DEF RefusedStaysUnexecuted
  <2>1. PICK a \in Asks, q \in Requests : x = <<a, q>>
    BY DEF Typed, CountsTyped
  <2>2. CardOK(a)
    BY DEF Cards
  <2>3. QED
    BY <2>1, <2>2 DEF CardOK, RanIsGranted, Granted
<1>2. TypeInv /\ Cards => RefusedStaysUnexecuted
  BY <1>1 DEF TypeInv
<1>3. QED
  BY <1>2, TypeInvCorrect, CardsInit, CardsStep, PTL DEF ConversationsSpec

=============================================================================
