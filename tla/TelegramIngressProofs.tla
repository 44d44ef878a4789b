--------------------------- MODULE TelegramIngressProofs ---------------------------
(***************************************************************************)
(* Proofs about TelegramIngress for any updates, chats, loops and faults:  *)
(* the rows keep their shape, a settled row stays settled, no update       *)
(* enters Eve twice, no voice is billed twice, no row has two owners;    *)
(* and, for the faults named there, the rows of a chat implement the order *)
(* of IngressOrder and the turns of a chat keep apart.                     *)
(***************************************************************************)
EXTENDS TelegramIngress, FiniteSetTheorems, TLAPS

(***************************************************************************)
(* The type invariant is not inductive alone: the boundary that completes  *)
(* an update names a turn, so a loop that finishes must have seen one, and *)
(* a loop that waits must have a session.                                  *)
(***************************************************************************)
EndedTurnsExist == \A s \in Sessions : ended[s] <= Len(turns[s])
WaitsOnSession ==
    \A d \in Drains : pc[d] \in {"cursor", "wait", "rotate", "finish"} => session[d] \in Sessions
FinishesOnBoundary ==
    \A d \in Drains : pc[d] = "finish" => from[d] < ended[session[d]]

TypeInv ==
    /\ TypeOK
    /\ EndedTurnsExist
    /\ WaitsOnSession
    /\ FinishesOnBoundary

LEMMA TypeInit == Init => TypeInv
<1> SUFFICES ASSUME Init PROVE TypeInv
  OBVIOUS
<1>1. TypeOK
  BY BoundsAssumption DEF Init, TypeOK, Labels
<1>2. EndedTurnsExist
  BY DEF Init, EndedTurnsExist
<1>3. WaitsOnSession /\ FinishesOnBoundary
  BY DEF Init, WaitsOnSession, FinishesOnBoundary
<1>4. QED
  BY <1>1, <1>2, <1>3 DEF TypeInv

\* A row that changes hands is in processing, under a live lease.
LEMMA LeaseTyped ==
    ASSUME TypeOK, NEW d \in Drains, NEW us \in SUBSET Updates, Lease(d, us)
    PROVE  /\ status' \in [Updates -> {"absent", "pending", "processing", "completed", "failed"}]
           /\ attempt' \in [Updates -> Nat]
           /\ live' \in [Updates -> BOOLEAN]
           /\ \A u \in Updates : live'[u] => status'[u] = "processing"
           /\ held' \in [Drains -> SUBSET Updates]
           /\ token' \in [Drains -> [Updates -> Nat]]
<1> USE DEF Lease, TypeOK
<1>1. status' \in [Updates -> {"absent", "pending", "processing", "completed", "failed"}]
  OBVIOUS
<1>2. attempt' \in [Updates -> Nat]
  OBVIOUS
<1>3. live' \in [Updates -> BOOLEAN]
  OBVIOUS
<1>4. \A u \in Updates : live'[u] => status'[u] = "processing"
  OBVIOUS
<1>5. held' \in [Drains -> SUBSET Updates]
  OBVIOUS
<1>6. token' \in [Drains -> [Updates -> Nat]]
  OBVIOUS
<1>7. QED
  BY <1>1, <1>2, <1>3, <1>4, <1>5, <1>6

LEMMA SettleTyped ==
    ASSUME TypeOK, NEW u \in Updates, NEW final \in {"completed", "failed"}, Settle(u, final)
    PROVE  /\ status' \in [Updates -> {"absent", "pending", "processing", "completed", "failed"}]
           /\ live' \in [Updates -> BOOLEAN]
           /\ \A v \in Updates : live'[v] => status'[v] = "processing"
  BY DEF Settle, TypeOK

LEMMA DropTyped ==
    ASSUME TypeOK, NEW d \in Drains, NEW us \in SUBSET Updates, Drop(d, us)
    PROVE  /\ held' \in [Drains -> SUBSET Updates]
           /\ token' \in [Drains -> [Updates -> Nat]]
<1> USE DEF Drop, TypeOK
<1>1. held' \in [Drains -> SUBSET Updates]
  OBVIOUS
<1>2. token' \in [Drains -> [Updates -> Nat]]
  OBVIOUS
<1>3. QED
  BY <1>1, <1>2

LEMMA Next1 ==
    ASSUME NEW i \in Nat, NEW m \in Nat, NEW k \in Nat, i < m, m <= k
    PROVE  i + 1 \in 1..k
  OBVIOUS

LEMMA GotoTyped ==
    ASSUME TypeOK, NEW d \in Drains, NEW label \in Labels, Goto(d, label)
    PROVE  pc' \in [Drains -> Labels]
  BY DEF Goto, TypeOK

-----------------------------------------------------------------------------

LEMMA TypeStepOfLoop ==
    ASSUME TypeInv, NEW d \in Drains,
           DrainStep(d) \/ ScheduleDrain(d) \/ HeartbeatFails(d) \/ DatabaseError(d)
    PROVE  TypeOK'
<1> USE DEF TypeInv, TypeOK, Labels, rowVars, drainVars, eveVars, historyVars, Goto
<1>1. CASE ReleaseStaleLeases(d)
  BY <1>1 DEF ReleaseStaleLeases
<1>2. CASE ReleaseRejects(d)
  BY <1>2 DEF ReleaseRejects, Fault
<1>3. CASE RetireMigratedChatIngress(d)
  BY <1>3 DEF RetireMigratedChatIngress
<1>4. CASE ClaimNext(d)
  BY <1>4, LeaseTyped DEF ClaimNext
<1>5. CASE ClaimNothing(d)
  BY <1>5 DEF ClaimNothing
<1>6. CASE PrepareWithoutEve(d)
  BY <1>6 DEF PrepareWithoutEve
<1>7. CASE PrepareForEve(d)
  BY <1>7 DEF PrepareForEve
<1>8. CASE BeginVoiceTranscription(d)
  BY <1>8 DEF BeginVoiceTranscription
<1>9. CASE TranscribeVoice(d)
  BY <1>9 DEF TranscribeVoice
<1>10. CASE SaveVoiceTranscript(d)
  BY <1>10 DEF SaveVoiceTranscript
<1>11. CASE ClaimFollowing(d)
  <2>1. PICK us \in SUBSET Updates : Lease(d, us)
    <3>1. \A v \in Updates : Followers(v) \in SUBSET Updates
      BY DEF Followers, Later
    <3>2. held[d] \in SUBSET Updates
      OBVIOUS
    <3>3. UNION {Followers(v) : v \in held[d]} \in SUBSET Updates
      BY <3>1, <3>2
    <3>4. QED
      BY <1>11, <3>3 DEF ClaimFollowing
  <2>2. QED
    BY <1>11, <2>1, LeaseTyped DEF ClaimFollowing
<1>12. CASE BeginDispatch(d)
  BY <1>12 DEF BeginDispatch
<1>13. CASE DispatchWithoutTurn(d)
  BY <1>13 DEF DispatchWithoutTurn
<1>14. CASE DispatchTurn(d)
  <2>1. PICK u \in held[d] :
          LET s == <<Queue[u], current[Queue[u]]>> IN
          /\ dispatches' = [dispatches EXCEPT ![u] = @ + 1]
          /\ turns' = [turns EXCEPT ![s] = Append(@, u)]
          /\ session' = [session EXCEPT ![d] = s]
    BY <1>14 DEF DispatchTurn
  <2>2. <<Queue[u], current[Queue[u]]>> \in Sessions /\ u \in Updates
    BY ShapesAssumption DEF Sessions
  <2>3. turns' \in [Sessions -> Seq(Updates)]
    BY <2>1, <2>2
  <2>4. session' \in [Drains -> Sessions \cup {<<>>}]
    BY <2>1, <2>2
  <2>5. dispatches' \in [Updates -> Nat]
    BY <2>1
  <2>6. QED
    BY <1>14, <2>3, <2>4, <2>5 DEF DispatchTurn
<1>15. CASE DispatchFails(d)
  <2>1. PICK u \in held[d], accepted \in BOOLEAN :
          LET s == <<Queue[u], current[Queue[u]]>> IN
          /\ dispatches' = [dispatches EXCEPT ![u] = @ + 1]
          /\ turns' = IF accepted THEN [turns EXCEPT ![s] = Append(@, u)] ELSE turns
    BY <1>15 DEF DispatchFails
  <2>2. <<Queue[u], current[Queue[u]]>> \in Sessions /\ u \in Updates
    BY ShapesAssumption DEF Sessions
  <2>3. turns' \in [Sessions -> Seq(Updates)]
    <3>1. Append(turns[<<Queue[u], current[Queue[u]]>>], u) \in Seq(Updates)
      BY <2>2
    <3>2. QED
      BY <2>1, <2>2, <3>1
  <2>4. dispatches' \in [Updates -> Nat]
    <3>1. dispatches' = [dispatches EXCEPT ![u] = dispatches[u] + 1]
      BY <2>1
    <3>2. dispatches \in [Updates -> Nat] /\ dispatches[u] + 1 \in Nat
      BY <2>2
    <3>3. QED
      BY <3>1, <3>2
  <2>5. faults' \in Nat
    BY <1>15 DEF DispatchFails, Fault
  <2>6. pc' \in [Drains -> Labels]
    BY <1>15 DEF DispatchFails
  <2>7. QED
    BY <1>15, <2>3, <2>4, <2>5, <2>6 DEF DispatchFails
<1>16. CASE ReadCursor(d)
  <2>1. cursor[session[d]] \in Nat
    BY <1>16 DEF ReadCursor, WaitsOnSession
  <2>2. QED
    BY <1>16, <2>1 DEF ReadCursor
<1>17. CASE ObserveBoundary(d)
  BY <1>17 DEF ObserveBoundary
<1>18. CASE LoseBoundary(d)
  BY <1>18 DEF LoseBoundary
<1>19. CASE RotateLostSession(d)
  <2>1. current' \in [Queues -> 0..MaxRotations]
    BY <1>19 DEF RotateLostSession
  <2>2. faults' \in Nat
    BY <1>19 DEF RotateLostSession, Fault
  <2>3. QED
    BY <1>19, <2>1, <2>2 DEF RotateLostSession
<1>20. CASE CompleteWithSession(d)
  <2> DEFINE s == session[d]
  <2>1. s \in Sessions /\ from[d] \in Nat /\ from[d] < ended[s]
    BY <1>20 DEF CompleteWithSession, WaitsOnSession, FinishesOnBoundary
  <2>2. from[d] + 1 \in 1..Len(turns[s])
    <3>1. turns[s] \in Seq(Updates) /\ ended[s] \in Nat /\ ended[s] <= Len(turns[s])
      BY <2>1 DEF EndedTurnsExist
    <3>2. Len(turns[s]) \in Nat
      BY <3>1
    <3>3. QED
      BY <2>1, <3>1, <3>2, Next1
  <2>3. turns[s][from[d] + 1] \in Updates /\ NextEventIndex(d) \in Nat
    <3>1. turns[s] \in Seq(Updates)
      BY <2>1
    <3>2. turns[s][from[d] + 1] \in Updates
      BY <2>2, <3>1
    <3>3. NextEventIndex(d) \in Nat
      BY <2>1 DEF NextEventIndex
    <3>4. QED
      BY <3>2, <3>3
  <2>4. PICK u \in held[d] :
          \/ /\ Settle(u, "completed")
             /\ Drop(d, {u})
             /\ cursor' = [cursor EXCEPT ![s] = NextEventIndex(d)]
             /\ closedBy' = [closedBy EXCEPT ![u] = turns[s][from[d] + 1]]
             /\ Goto(d, "retire")
          \/ /\ Goto(d, "failing")
             /\ UNCHANGED <<status, live, held, token, cursor, closedBy>>
    BY <1>20 DEF CompleteWithSession
  <2>5. u \in Updates /\ {u} \in SUBSET Updates
    OBVIOUS
  <2>6. cursor' \in [Sessions -> Nat]
    BY <2>3, <2>4
  <2>7. closedBy' \in [Updates -> Updates \cup {0}]
    <3>1. closedBy' = closedBy \/ closedBy' = [closedBy EXCEPT ![u] = turns[s][from[d] + 1]]
      BY <2>4
    <3>2. QED
      BY <3>1, <2>3, <2>5
  <2>8. pc' \in [Drains -> Labels]
    BY <2>4
  <2>9. /\ status' \in [Updates -> {"absent", "pending", "processing", "completed", "failed"}]
        /\ live' \in [Updates -> BOOLEAN]
        /\ \A v \in Updates : live'[v] => status'[v] = "processing"
    <3>1. Settle(u, "completed") \/ UNCHANGED <<status, live>>
      BY <2>4
    <3>2. CASE UNCHANGED <<status, live>>
      BY <3>2
    <3>3. CASE Settle(u, "completed")
      <4> HIDE DEF TypeOK, Labels, rowVars, drainVars, eveVars, historyVars, Goto
      <4>1. QED
        BY <2>5, <3>3, SettleTyped
    <3>4. QED
      BY <3>1, <3>2, <3>3
  <2>10. held' \in [Drains -> SUBSET Updates] /\ token' \in [Drains -> [Updates -> Nat]]
    BY <2>4, <2>5, DropTyped
  <2>11. QED
    BY <1>20, <2>6, <2>7, <2>8, <2>9, <2>10 DEF CompleteWithSession
<1>21. CASE Complete(d)
  <2>1. PICK u \in held[d] :
          \/ Settle(u, "completed") /\ Drop(d, {u})
          \/ UNCHANGED <<status, live, held, token>>
    BY <1>21 DEF Complete
  <2>2. u \in Updates /\ {u} \in SUBSET Updates /\ held[d] \in SUBSET Updates
    OBVIOUS
  <2>3. /\ status' \in [Updates -> {"absent", "pending", "processing", "completed", "failed"}]
        /\ live' \in [Updates -> BOOLEAN]
        /\ \A v \in Updates : live'[v] => status'[v] = "processing"
    <3>1. Settle(u, "completed") \/ UNCHANGED <<status, live>>
      BY <2>1
    <3>2. CASE UNCHANGED <<status, live>>
      BY <3>2
    <3>3. CASE Settle(u, "completed")
      <4> HIDE DEF TypeOK, Labels, rowVars, drainVars, eveVars, historyVars, Goto
      <4>1. QED
        BY <2>2, <3>3, SettleTyped
    <3>4. QED
      BY <3>1, <3>2, <3>3
  <2>4. held' \in [Drains -> SUBSET Updates] /\ token' \in [Drains -> [Updates -> Nat]]
    BY <2>1, <2>2, DropTyped
  <2>5. \E label \in {"retire", "begin", "failing"} : Goto(d, label)
    BY <1>21 DEF Complete
  <2>6. pc' \in [Drains -> Labels]
    BY <2>5
  <2>7. QED
    BY <1>21, <2>3, <2>4, <2>6 DEF Complete
<1>22. CASE FailHeld(d)
  <2>1. PICK u \in held[d] :
          \/ Settle(u, "failed") /\ Drop(d, {u})
          \/ Drop(d, held[d]) /\ UNCHANGED <<status, live>>
    BY <1>22 DEF FailHeld
  <2>2. u \in Updates /\ {u} \in SUBSET Updates /\ held[d] \in SUBSET Updates
    OBVIOUS
  <2>3. /\ status' \in [Updates -> {"absent", "pending", "processing", "completed", "failed"}]
        /\ live' \in [Updates -> BOOLEAN]
        /\ \A v \in Updates : live'[v] => status'[v] = "processing"
    <3>1. Settle(u, "failed") \/ UNCHANGED <<status, live>>
      BY <2>1
    <3>2. CASE UNCHANGED <<status, live>>
      BY <3>2
    <3>3. CASE Settle(u, "failed")
      <4> HIDE DEF TypeOK, Labels, rowVars, drainVars, eveVars, historyVars, Goto
      <4>1. QED
        BY <2>2, <3>3, SettleTyped
    <3>4. QED
      BY <3>1, <3>2, <3>3
  <2>4. held' \in [Drains -> SUBSET Updates] /\ token' \in [Drains -> [Updates -> Nat]]
    BY <2>1, <2>2, DropTyped
  <2>5. \E label \in {"off", "failing"} : Goto(d, label)
    BY <1>22 DEF FailHeld
  <2>6. pc' \in [Drains -> Labels]
    BY <2>5
  <2>7. QED
    BY <1>22, <2>3, <2>4, <2>6 DEF FailHeld
<1>23. CASE ScheduleDrain(d)
  BY <1>23 DEF ScheduleDrain
<1>24. CASE HeartbeatFails(d)
  BY <1>24 DEF HeartbeatFails
<1>25. CASE DatabaseError(d)
  <2>1. held[d] \in SUBSET Updates
    OBVIOUS
  <2>2. held' \in [Drains -> SUBSET Updates] /\ token' \in [Drains -> [Updates -> Nat]]
    BY <1>25, <2>1, DropTyped DEF DatabaseError
  <2>3. pc' \in [Drains -> Labels]
    BY <1>25 DEF DatabaseError
  <2>4. QED
    BY <1>25, <2>2, <2>3 DEF DatabaseError, Fault
<1>26. QED
  BY <1>1, <1>2, <1>3, <1>4, <1>5, <1>6, <1>7, <1>8, <1>9, <1>10, <1>11, <1>12, <1>13, <1>14, <1>15, <1>16, <1>17, <1>18, <1>19, <1>20, <1>21, <1>22, <1>23, <1>24, <1>25 DEF DrainStep, LoopStep

LEMMA TypeStepOfWorld ==
    ASSUME TypeInv,
           \/ \E u \in Updates : Arrive(u) \/ LeaseExpires(u)
           \/ \E s \in Sessions : TurnEnds(s)
           \/ \E q \in Queues : Migrate(q)
           \/ Crash
           \/ UNCHANGED vars
    PROVE  TypeInv'
<1> USE DEF TypeInv, EndedTurnsExist, WaitsOnSession, FinishesOnBoundary
<1>1. TypeOK /\ TypeOK'
  <2> USE DEF TypeOK, rowVars, drainVars, eveVars, historyVars, Fault, Labels
  <2>1. ASSUME NEW u \in Updates, Arrive(u) PROVE TypeOK'
    BY <2>1 DEF Arrive
  <2>2. ASSUME NEW u \in Updates, LeaseExpires(u) PROVE TypeOK'
    <3>1. faults' \in Nat
      BY <2>2 DEF LeaseExpires
    <3>2. /\ live' \in [Updates -> BOOLEAN] /\ status' = status
          /\ \A v \in Updates : live'[v] => live[v]
      BY <2>2 DEF LeaseExpires
    <3>3. UNCHANGED <<status, attempt, dispatched, voice, retired, cursor, drainVars,
                      release, eveVars, historyVars>>
      BY <2>2 DEF LeaseExpires
    <3>4. QED
      BY <3>1, <3>2, <3>3
  <2>3. ASSUME NEW s \in Sessions, TurnEnds(s) PROVE TypeOK'
    <3>1. ended' \in [Sessions -> Nat]
      <4>1. ended' = [ended EXCEPT ![s] = @ + 1]
        BY <2>3 DEF TurnEnds
      <4>2. ended \in [Sessions -> Nat] /\ ended[s] + 1 \in Nat
        OBVIOUS
      <4>3. QED
        BY <4>1, <4>2
    <3>2. UNCHANGED <<rowVars, retired, cursor, drainVars, release, current, turns,
                      historyVars, faults>>
      BY <2>3 DEF TurnEnds
    <3>3. QED
      BY <3>1, <3>2
  <2>4. ASSUME NEW q \in Queues, Migrate(q) PROVE TypeOK'
    BY <2>4 DEF Migrate
  <2>5. CASE Crash
    <3>1. /\ pc' \in [Drains -> Labels] /\ held' \in [Drains -> SUBSET Updates]
          /\ token' \in [Drains -> [Updates -> Nat]] /\ beatLost' \in [Drains -> BOOLEAN]
      BY <2>5 DEF Crash
    <3>2. session' \in [Drains -> Sessions \cup {<<>>}] /\ from' \in [Drains -> Nat]
      BY <2>5 DEF Crash
    <3>3. release' \in {"none", "done", "failed"} /\ faults' \in Nat
      BY <2>5 DEF Crash
    <3>4. UNCHANGED <<rowVars, retired, cursor, eveVars, historyVars>>
      BY <2>5 DEF Crash
    <3>5. QED
      BY <3>1, <3>2, <3>3, <3>4
  <2>6. CASE UNCHANGED vars
    BY <2>6 DEF vars
  <2>7. QED
    BY <2>1, <2>2, <2>3, <2>4, <2>5, <2>6
<1>2. CASE UNCHANGED <<pc, session, from, turns, ended>>
  BY <1>1, <1>2
<1>3. ASSUME NEW s \in Sessions, TurnEnds(s) PROVE TypeInv'
  <2>1. /\ UNCHANGED <<pc, session, from, turns>>
        /\ ended' = [ended EXCEPT ![s] = @ + 1]
        /\ ended[s] < Len(turns[s])
    BY <1>3 DEF TurnEnds, drainVars
  <2>2. \A x \in Sessions : ended[x] \in Nat /\ turns[x] \in Seq(Updates)
    BY <1>1 DEF TypeOK
  <2>3. \A x \in Sessions : ended'[x] = IF x = s THEN ended[x] + 1 ELSE ended[x]
    BY <1>1, <2>1 DEF TypeOK
  <2>4. EndedTurnsExist'
    BY <2>1, <2>2, <2>3
  <2>5. WaitsOnSession'
    BY <2>1
  <2>6. ASSUME NEW d \in Drains, pc'[d] = "finish" PROVE from'[d] < ended'[session'[d]]
    <3>1. session[d] \in Sessions /\ from[d] < ended[session[d]]
      BY <2>1, <2>6
    <3>2. from[d] \in Nat
      BY <1>1 DEF TypeOK
    <3>3. QED
      BY <2>1, <2>2, <2>3, <3>1, <3>2
  <2>7. QED
    BY <1>1, <2>4, <2>5, <2>6
<1>4. CASE Crash
  <2>1. \A d \in Drains : pc'[d] = "off"
    BY <1>4 DEF Crash
  <2>2. UNCHANGED <<turns, ended>>
    BY <1>4 DEF Crash, eveVars
  <2>3. QED
    BY <1>1, <2>1, <2>2
<1>5. ASSUME NEW u \in Updates, Arrive(u) \/ LeaseExpires(u) PROVE TypeInv'
  BY <1>2, <1>5 DEF Arrive, LeaseExpires, drainVars, eveVars
<1>6. ASSUME NEW q \in Queues, Migrate(q) PROVE TypeInv'
  BY <1>2, <1>6 DEF Migrate, drainVars, eveVars
<1>7. CASE UNCHANGED vars
  BY <1>2, <1>7 DEF vars, drainVars, eveVars
<1>8. QED
  BY <1>3, <1>4, <1>5, <1>6, <1>7

\* A step of one loop leaves the others where they are.
LEMMA OthersKeep ==
    ASSUME TypeOK, NEW d \in Drains,
           DrainStep(d) \/ ScheduleDrain(d) \/ HeartbeatFails(d) \/ DatabaseError(d)
    PROVE  \A x \in Drains \ {d} :
               /\ pc'[x] = pc[x] /\ session'[x] = session[x] /\ from'[x] = from[x]
               /\ held'[x] = held[x] /\ token'[x] = token[x]
<1>1. pc' = pc \/ \E label \in Labels : Goto(d, label)
  BY DEF Labels, DrainStep, LoopStep,
ReleaseStaleLeases, ReleaseRejects, RetireMigratedChatIngress, ClaimNext, ClaimNothing,
     PrepareWithoutEve, PrepareForEve, BeginVoiceTranscription, TranscribeVoice,
     SaveVoiceTranscript, ClaimFollowing, BeginDispatch, DispatchWithoutTurn,
     DispatchTurn, DispatchFails, ReadCursor, ObserveBoundary, LoseBoundary,
     RotateLostSession, CompleteWithSession, Complete, FailHeld, ScheduleDrain,
     HeartbeatFails, DatabaseError
<1>2. session' = session \/ \E new : session' = [session EXCEPT ![d] = new]
  BY DEF drainVars, DrainStep, LoopStep,
ReleaseStaleLeases, ReleaseRejects, RetireMigratedChatIngress, ClaimNext, ClaimNothing,
     PrepareWithoutEve, PrepareForEve, BeginVoiceTranscription, TranscribeVoice,
     SaveVoiceTranscript, ClaimFollowing, BeginDispatch, DispatchWithoutTurn,
     DispatchTurn, DispatchFails, ReadCursor, ObserveBoundary, LoseBoundary,
     RotateLostSession, CompleteWithSession, Complete, FailHeld, ScheduleDrain,
     HeartbeatFails, DatabaseError
<1>3. from' = from \/ \E new : from' = [from EXCEPT ![d] = new]
  BY DEF drainVars, DrainStep, LoopStep,
ReleaseStaleLeases, ReleaseRejects, RetireMigratedChatIngress, ClaimNext, ClaimNothing,
     PrepareWithoutEve, PrepareForEve, BeginVoiceTranscription, TranscribeVoice,
     SaveVoiceTranscript, ClaimFollowing, BeginDispatch, DispatchWithoutTurn,
     DispatchTurn, DispatchFails, ReadCursor, ObserveBoundary, LoseBoundary,
     RotateLostSession, CompleteWithSession, Complete, FailHeld, ScheduleDrain,
     HeartbeatFails, DatabaseError
<1>4. \/ held' = held /\ token' = token
      \/ \E us : Lease(d, us) \/ Drop(d, us)
  BY DEF drainVars, DrainStep, LoopStep,
ReleaseStaleLeases, ReleaseRejects, RetireMigratedChatIngress, ClaimNext, ClaimNothing,
     PrepareWithoutEve, PrepareForEve, BeginVoiceTranscription, TranscribeVoice,
     SaveVoiceTranscript, ClaimFollowing, BeginDispatch, DispatchWithoutTurn,
     DispatchTurn, DispatchFails, ReadCursor, ObserveBoundary, LoseBoundary,
     RotateLostSession, CompleteWithSession, Complete, FailHeld, ScheduleDrain,
     HeartbeatFails, DatabaseError
<1>5. \A x \in Drains \ {d} : held'[x] = held[x] /\ token'[x] = token[x]
  BY <1>4 DEF Lease, Drop, TypeOK
<1>6. QED
  BY <1>1, <1>2, <1>3, <1>5 DEF Goto, TypeOK

\* A loop reaches a label that waits on a session only from one that has it, and
\* `finish` only when a boundary past its cursor was there to be seen.
LEMMA WaitStep ==
    ASSUME TypeInv, NEW d \in Drains,
           DrainStep(d) \/ ScheduleDrain(d) \/ HeartbeatFails(d) \/ DatabaseError(d)
    PROVE  EndedTurnsExist' /\ WaitsOnSession' /\ FinishesOnBoundary'
<1> USE DEF TypeInv, EndedTurnsExist, WaitsOnSession, FinishesOnBoundary
<1>1. ended' = ended
  BY DEF eveVars, DrainStep, LoopStep,
     ReleaseStaleLeases, ReleaseRejects, RetireMigratedChatIngress, ClaimNext,
     ClaimNothing, PrepareWithoutEve, PrepareForEve, BeginVoiceTranscription,
     TranscribeVoice, SaveVoiceTranscript, ClaimFollowing, BeginDispatch,
     DispatchWithoutTurn, DispatchTurn, DispatchFails, ReadCursor, ObserveBoundary,
     LoseBoundary, RotateLostSession, CompleteWithSession, Complete, FailHeld,
     ScheduleDrain, HeartbeatFails, DatabaseError
<1>2. \A x \in Drains \ {d} : pc'[x] = pc[x] /\ session'[x] = session[x] /\ from'[x] = from[x]
  BY OthersKeep
<1>3. EndedTurnsExist'
  <2>1. CASE turns' = turns
    BY <1>1, <2>1
  <2>2. CASE \E s \in Sessions, u \in Updates : turns' = [turns EXCEPT ![s] = Append(@, u)]
    <3>1. PICK s \in Sessions, u \in Updates : turns' = [turns EXCEPT ![s] = Append(@, u)]
      BY <2>2
    <3>2. \A x \in Sessions : turns[x] \in Seq(Updates) /\ ended[x] \in Nat
      BY DEF TypeOK
    <3>3. \A x \in Sessions : Len(turns'[x]) >= Len(turns[x])
      BY <3>1, <3>2 DEF TypeOK
    <3>4. \A x \in Sessions : Len(turns[x]) \in Nat /\ Len(turns'[x]) \in Nat
      BY <3>1, <3>2 DEF TypeOK
    <3>5. QED
      BY <1>1, <3>2, <3>3, <3>4
  <2>3. \A u \in Updates : <<Queue[u], current[Queue[u]]>> \in Sessions
    BY ShapesAssumption DEF TypeOK, Sessions
  <2>4. held[d] \subseteq Updates
    BY DEF TypeOK
  <2>5. CASE DispatchTurn(d)
    BY <2>2, <2>3, <2>4, <2>5 DEF DispatchTurn
  <2>6. CASE DispatchFails(d)
    BY <2>1, <2>2, <2>3, <2>4, <2>6 DEF DispatchFails
  <2>7. CASE ~DispatchTurn(d) /\ ~DispatchFails(d)
    BY <2>1, <2>7 DEF eveVars, DrainStep, LoopStep,
     ReleaseStaleLeases, ReleaseRejects, RetireMigratedChatIngress, ClaimNext,
     ClaimNothing, PrepareWithoutEve, PrepareForEve, BeginVoiceTranscription,
     TranscribeVoice, SaveVoiceTranscript, ClaimFollowing, BeginDispatch,
     DispatchWithoutTurn, DispatchTurn, DispatchFails, ReadCursor, ObserveBoundary,
     LoseBoundary, RotateLostSession, CompleteWithSession, Complete, FailHeld,
     ScheduleDrain, HeartbeatFails, DatabaseError
  <2>8. QED
    BY <2>5, <2>6, <2>7
<1>4. pc'[d] \in {"cursor", "wait", "rotate", "finish"} =>
          session'[d] \in Sessions /\ (pc'[d] = "finish" => from'[d] < ended[session'[d]])
  <2>1. CASE DispatchTurn(d)
    <3>1. PICK u \in held[d] : session' = [session EXCEPT ![d] = <<Queue[u], current[Queue[u]]>>]
      BY <2>1 DEF DispatchTurn
    <3>2. <<Queue[u], current[Queue[u]]>> \in Sessions
      BY ShapesAssumption DEF TypeOK, Sessions
    <3>3. pc'[d] = "cursor"
      BY <2>1 DEF DispatchTurn, Goto, TypeOK
    <3>4. QED
      BY <3>1, <3>2, <3>3 DEF TypeOK
  <2>2. CASE ReadCursor(d)
    BY <2>2 DEF ReadCursor, Goto, TypeOK
  <2>3. CASE ObserveBoundary(d)
    BY <2>3 DEF ObserveBoundary, BoundarySeen, Goto, TypeOK
  <2>4. CASE LoseBoundary(d)
    BY <2>4 DEF LoseBoundary, Goto, TypeOK
  <2>5. CASE HeartbeatFails(d)
    BY <2>5 DEF HeartbeatFails
  <2>6. CASE /\ ~DispatchTurn(d) /\ ~ReadCursor(d) /\ ~ObserveBoundary(d)
             /\ ~LoseBoundary(d) /\ ~HeartbeatFails(d)
    <3>1. \E label \in Labels \ {"cursor", "wait", "rotate", "finish"} : Goto(d, label)
      BY <2>6 DEF Labels, DrainStep, LoopStep,
         ReleaseStaleLeases, ReleaseRejects, RetireMigratedChatIngress, ClaimNext,
     ClaimNothing, PrepareWithoutEve, PrepareForEve, BeginVoiceTranscription,
     TranscribeVoice, SaveVoiceTranscript, ClaimFollowing, BeginDispatch,
     DispatchWithoutTurn, DispatchFails, RotateLostSession, CompleteWithSession,
     Complete, FailHeld, ScheduleDrain, DatabaseError
    <3>2. pc'[d] \notin {"cursor", "wait", "rotate", "finish"}
      BY <3>1 DEF Goto, TypeOK
    <3>3. QED
      BY <3>2
  <2>7. QED
    BY <2>1, <2>2, <2>3, <2>4, <2>5, <2>6
<1>5. QED
  BY <1>1, <1>2, <1>3, <1>4

LEMMA TypeStep == TypeInv /\ [Next]_vars => TypeInv'
<1> SUFFICES ASSUME TypeInv, [Next]_vars PROVE TypeInv'
  OBVIOUS
<1>1. ASSUME NEW d \in Drains,
             DrainStep(d) \/ ScheduleDrain(d) \/ HeartbeatFails(d) \/ DatabaseError(d)
      PROVE  TypeInv'
  BY <1>1, TypeStepOfLoop, WaitStep DEF TypeInv
<1>2. QED
  BY <1>1, TypeStepOfWorld DEF Next

LEMMA TypeInvCorrect == Spec => []TypeInv
<1> QED
  BY TypeInit, TypeStep, PTL DEF Spec

\* Whatever crashes, expires, fails or migrates, a row keeps the shape its CHECK
\* constraints demand: only a row in processing carries a live lease.
THEOREM TypeCorrect == Spec => []TypeOK
<1>1. TypeInv => TypeOK
  BY DEF TypeInv
<1>2. QED
  BY <1>1, TypeInvCorrect, PTL

-----------------------------------------------------------------------------
(* An update enters Eve at most once.  The mark is set before the dispatch,  *)
(* and never for a row that has it; so a loop at `dispatch` is alone with    *)
(* its row, whoever holds the lease by then.                                 *)

DispatchedFirst ==
    \A u \in Updates : dispatches[u] <= 1 /\ (dispatches[u] > 0 => dispatched[u])
AboutToDispatch(d, u) == pc[d] = "dispatch" /\ u \in held[d] /\ IsFirst(u, held[d])
MarkedUnused ==
    \A d \in Drains, u \in Updates :
        AboutToDispatch(d, u) => dispatched[u] /\ dispatches[u] = 0
AloneAtDispatch ==
    \A d1, d2 \in Drains, u \in Updates :
        AboutToDispatch(d1, u) /\ AboutToDispatch(d2, u) => d1 = d2

\* Update ids are numbers: a set of them has at most one first.
LEMMA FirstUnique ==
    ASSUME NEW S \in SUBSET Updates
    PROVE  /\ \A u, v \in S : IsFirst(u, S) /\ IsFirst(v, S) => u = v
           /\ \A u \in S : S = {u} => IsFirst(u, S)
<1>1. \A u \in S : u \in Nat
  BY UpdatesAssumption
<1>2. \A u, v \in S : u <= v /\ v <= u => u = v
  BY <1>1
<1>3. \A u \in S : u <= u
  BY <1>1
<1>4. \A u, v \in S : IsFirst(u, S) /\ IsFirst(v, S) => u = v
  BY <1>2 DEF IsFirst
<1>5. \A u \in S : S = {u} => IsFirst(u, S)
  BY <1>3, Zenon DEF IsFirst
<1>6. QED
  BY <1>4, <1>5

EnterInv == TypeInv /\ DispatchedFirst /\ MarkedUnused /\ AloneAtDispatch

LEMMA EnterInit == Init => EnterInv
<1> SUFFICES ASSUME Init PROVE EnterInv
  OBVIOUS
<1>1. DispatchedFirst
  BY DEF Init, DispatchedFirst
<1>2. \A d \in Drains, u \in Updates : ~AboutToDispatch(d, u)
  BY DEF Init, AboutToDispatch
<1>3. QED
  BY <1>1, <1>2, TypeInit DEF EnterInv, MarkedUnused, AloneAtDispatch

\* A step that neither marks nor dispatches, and brings no loop to `dispatch`.
LEMMA EnterIdle ==
    ASSUME EnterInv, TypeInv', UNCHANGED <<dispatched, dispatches>>,
           \A d \in Drains, u \in Updates : AboutToDispatch(d, u)' => AboutToDispatch(d, u)
    PROVE  EnterInv'
  BY DEF EnterInv, DispatchedFirst, MarkedUnused, AloneAtDispatch

\* A step that dispatches the first row of d and takes d away from `dispatch`.
LEMMA EnterDispatch ==
    ASSUME EnterInv, TypeInv', NEW d \in Drains, NEW u \in Updates,
           AboutToDispatch(d, u), UNCHANGED <<dispatched, held>>,
           dispatches' = [dispatches EXCEPT ![u] = @ + 1],
           \E label \in Labels \ {"dispatch"} : Goto(d, label)
    PROVE  EnterInv'
<1>1. dispatched[u] /\ dispatches[u] = 0
  BY DEF EnterInv, MarkedUnused
<1>2. \A v \in Updates : dispatches'[v] = IF v = u THEN 1 ELSE dispatches[v]
  BY <1>1 DEF EnterInv, TypeInv, TypeOK
<1>3. \A x \in Drains, v \in Updates : AboutToDispatch(x, v)' => x # d /\ AboutToDispatch(x, v)
  BY DEF AboutToDispatch, IsFirst, Goto, EnterInv, TypeInv, TypeOK
<1>4. \A x \in Drains, v \in Updates : AboutToDispatch(x, v)' => v # u
  BY <1>3 DEF EnterInv, AloneAtDispatch
<1>5. DispatchedFirst'
  BY <1>1, <1>2 DEF EnterInv, DispatchedFirst
<1>6. MarkedUnused'
  BY <1>2, <1>3, <1>4 DEF EnterInv, MarkedUnused
<1>7. AloneAtDispatch'
  BY <1>3 DEF EnterInv, AloneAtDispatch
<1>8. QED
  BY <1>5, <1>6, <1>7 DEF EnterInv

LEMMA EnterStepOfLoop ==
    ASSUME EnterInv, TypeInv', NEW d \in Drains,
           DrainStep(d) \/ ScheduleDrain(d) \/ HeartbeatFails(d) \/ DatabaseError(d)
    PROVE  EnterInv'
<1> USE DEF EnterInv
<1>1. TypeOK /\ held[d] \subseteq Updates
  BY DEF TypeInv, TypeOK
<1>2. \A x \in Drains \ {d}, v \in Updates : AboutToDispatch(x, v)' <=> AboutToDispatch(x, v)
  BY <1>1, OthersKeep DEF AboutToDispatch, IsFirst
<1>3. CASE BeginDispatch(d)
  <2>1. PICK u \in held[d] :
          /\ IsFirst(u, held[d])
          /\ IF MayEnterEve(d, u)
             THEN dispatched' = [dispatched EXCEPT ![u] = TRUE] /\ Goto(d, "dispatch")
             ELSE UNCHANGED dispatched /\ Goto(d, "failing")
    BY <1>3 DEF BeginDispatch
  <2>2. UNCHANGED <<held, dispatches>>
    BY <1>3 DEF BeginDispatch, historyVars
  <2>3. CASE MayEnterEve(d, u)
    <3>1. ~dispatched[u] /\ u \in Updates
      BY <1>1, <2>3 DEF MayEnterEve
    <3>2. \A v \in Updates : dispatched'[v] = (v = u \/ dispatched[v])
      <4>1. dispatched' = [dispatched EXCEPT ![u] = TRUE] /\ dispatched \in [Updates -> BOOLEAN]
        BY <1>1, <2>1, <2>3 DEF TypeOK
      <4>2. QED
        BY <4>1
    <3>3. \A v \in Updates : AboutToDispatch(d, v)' => v = u
      <4>1. ASSUME NEW v \in Updates, AboutToDispatch(d, v)' PROVE v \in held[d] /\ IsFirst(v, held[d])
        BY <2>2, <4>1 DEF AboutToDispatch, IsFirst
      <4>2. QED
        BY <1>1, <2>1, <4>1, FirstUnique
    <3>4. dispatches[u] = 0
      BY <1>1, <3>1 DEF DispatchedFirst, TypeOK
    <3>5. \A x \in Drains : ~AboutToDispatch(x, u)
      BY <3>1 DEF MarkedUnused
    <3>6. DispatchedFirst'
      BY <2>2, <3>2 DEF DispatchedFirst
    <3>7. MarkedUnused'
      BY <1>2, <2>2, <3>2, <3>3, <3>4 DEF MarkedUnused
    <3>8. AloneAtDispatch'
      BY <1>2, <3>3, <3>5 DEF AloneAtDispatch
    <3>9. QED
      BY <3>6, <3>7, <3>8
  <2>4. CASE ~MayEnterEve(d, u)
    <3>1. \A v \in Updates : ~AboutToDispatch(d, v)'
      BY <1>1, <2>1, <2>4 DEF AboutToDispatch, Goto, TypeOK
    <3>2. QED
      BY <1>2, <2>1, <2>2, <2>4, <3>1, EnterIdle
  <2>5. QED
    BY <2>3, <2>4
<1>4. CASE DispatchWithoutTurn(d) \/ DispatchTurn(d) \/ DispatchFails(d)
  <2>1. PICK u \in held[d] :
          IsFirst(u, held[d]) /\ dispatches' = [dispatches EXCEPT ![u] = @ + 1]
    <3>1. \A u \in held[d] : held[d] = {u} => IsFirst(u, held[d])
      BY <1>1, FirstUnique
    <3>2. QED
      BY <1>4, <3>1 DEF DispatchWithoutTurn, DispatchTurn, DispatchFails
  <2>2. pc[d] = "dispatch" /\ UNCHANGED <<dispatched, held>>
    BY <1>4 DEF DispatchWithoutTurn, DispatchTurn, DispatchFails, rowVars
  <2>3. \E label \in Labels \ {"dispatch"} : Goto(d, label)
    BY <1>4 DEF DispatchWithoutTurn, DispatchTurn, DispatchFails, Labels
  <2>4. u \in Updates /\ AboutToDispatch(d, u)
    BY <1>1, <2>1, <2>2 DEF AboutToDispatch
  <2>5. QED
    BY <2>1, <2>2, <2>3, <2>4, EnterDispatch
<1>5. CASE HeartbeatFails(d)
  <2>1. UNCHANGED <<pc, held, dispatched, dispatches>>
    BY <1>5 DEF HeartbeatFails, rowVars, historyVars
  <2>2. QED
    BY <2>1, EnterIdle DEF AboutToDispatch, IsFirst
<1>6. CASE /\ ~BeginDispatch(d) /\ ~DispatchWithoutTurn(d) /\ ~DispatchTurn(d)
           /\ ~DispatchFails(d) /\ ~HeartbeatFails(d)
  <2>1. UNCHANGED <<dispatched, dispatches>>
    BY <1>6 DEF rowVars, historyVars, DrainStep, LoopStep,
       ReleaseStaleLeases, ReleaseRejects, RetireMigratedChatIngress, ClaimNext,
     ClaimNothing, PrepareWithoutEve, PrepareForEve, BeginVoiceTranscription,
     TranscribeVoice, SaveVoiceTranscript, ClaimFollowing, ReadCursor, ObserveBoundary,
     LoseBoundary, RotateLostSession, CompleteWithSession, Complete, FailHeld,
     ScheduleDrain, DatabaseError
  <2>2. \E label \in Labels \ {"dispatch"} : Goto(d, label)
    BY <1>6 DEF Labels, DrainStep, LoopStep,
       ReleaseStaleLeases, ReleaseRejects, RetireMigratedChatIngress, ClaimNext,
     ClaimNothing, PrepareWithoutEve, PrepareForEve, BeginVoiceTranscription,
     TranscribeVoice, SaveVoiceTranscript, ClaimFollowing, ReadCursor, ObserveBoundary,
     LoseBoundary, RotateLostSession, CompleteWithSession, Complete, FailHeld,
     ScheduleDrain, DatabaseError
  <2>3. \A v \in Updates : ~AboutToDispatch(d, v)'
    BY <1>1, <2>2 DEF AboutToDispatch, Goto, TypeOK
  <2>4. QED
    BY <1>2, <2>1, <2>3, EnterIdle
<1>7. QED
  BY <1>3, <1>4, <1>5, <1>6

LEMMA EnterStep == EnterInv /\ [Next]_vars => EnterInv'
<1> SUFFICES ASSUME EnterInv, [Next]_vars PROVE EnterInv'
  OBVIOUS
<1>1. TypeInv'
  BY TypeStep DEF EnterInv
<1>2. ASSUME UNCHANGED <<pc, held, dispatched, dispatches>> PROVE EnterInv'
  BY <1>1, <1>2, EnterIdle DEF AboutToDispatch, IsFirst
<1>3. ASSUME NEW u \in Updates, Arrive(u) \/ LeaseExpires(u) PROVE EnterInv'
  BY <1>2, <1>3 DEF Arrive, LeaseExpires, drainVars, historyVars
<1>4. ASSUME NEW s \in Sessions, TurnEnds(s) PROVE EnterInv'
  BY <1>2, <1>4 DEF TurnEnds, rowVars, drainVars, historyVars
<1>5. ASSUME NEW q \in Queues, Migrate(q) PROVE EnterInv'
  BY <1>2, <1>5 DEF Migrate, rowVars, drainVars, historyVars
<1>6. CASE Crash
  BY <1>1, <1>6, EnterIdle DEF Crash, AboutToDispatch, rowVars, historyVars
<1>7. CASE UNCHANGED vars
  BY <1>2, <1>7 DEF vars, rowVars, drainVars, historyVars
<1>8. QED
  BY <1>1, <1>3, <1>4, <1>5, <1>6, <1>7, EnterStepOfLoop DEF Next

\* Whatever crashes, expires, is reclaimed or retried, no update is handed to Eve
\* twice, so no request of a person runs twice.
THEOREM EntersEveOnceCorrect == Spec => []EntersEveOnce
<1>1. EnterInv => EntersEveOnce
  BY DEF EnterInv, DispatchedFirst, EntersEveOnce
<1>2. QED
  BY <1>1, EnterInit, EnterStep, PTL DEF Spec

-----------------------------------------------------------------------------
(* A settled row stays settled. *)

\* What a step of a loop does to the rows: it leases open ones, settles one it owns,
\* retires pending ones, or leaves every status alone.
LEMMA RowStep ==
    ASSUME NEW d \in Drains,
           DrainStep(d) \/ ScheduleDrain(d) \/ HeartbeatFails(d) \/ DatabaseError(d)
    PROVE  \/ \E us : Lease(d, us) /\ \A u \in us : Open(u)
           \/ \E u, final : Owns(d, u) /\ Settle(u, final) /\ UNCHANGED attempt
           \/ RetireMigratedChatIngress(d)
           \/ UNCHANGED <<status, attempt>>
<1>1. CASE ClaimNext(d)
  BY <1>1 DEF ClaimNext, IsFirst, Claimable, Unleased, Open
<1>2. CASE ClaimFollowing(d)
  <2>1. ASSUME NEW v, NEW u \in Followers(v) PROVE Open(u)
    BY DEF Followers, Open
  <2>2. PICK us \in {{}, UNION {Followers(v) : v \in held[d]}} : Lease(d, us)
    BY <1>2 DEF ClaimFollowing
  <2>3. \A u \in us : Open(u)
    BY <2>1, <2>2
  <2>4. QED
    BY <2>2, <2>3
<1>3. CASE CompleteWithSession(d) \/ Complete(d) \/ FailHeld(d)
  BY <1>3 DEF CompleteWithSession, Complete, FailHeld
<1>4. CASE RetireMigratedChatIngress(d)
  BY <1>4
<1>5. CASE /\ ~ClaimNext(d) /\ ~ClaimFollowing(d) /\ ~CompleteWithSession(d)
           /\ ~Complete(d) /\ ~FailHeld(d) /\ ~RetireMigratedChatIngress(d)
  BY <1>5 DEF rowVars, DrainStep, LoopStep,
     ReleaseStaleLeases, ReleaseRejects, ClaimNothing, PrepareWithoutEve, PrepareForEve,
     BeginVoiceTranscription, TranscribeVoice, SaveVoiceTranscript, BeginDispatch,
     DispatchWithoutTurn, DispatchTurn, DispatchFails, ReadCursor, ObserveBoundary,
     LoseBoundary, RotateLostSession, ScheduleDrain, HeartbeatFails, DatabaseError
<1>6. QED
  BY <1>1, <1>2, <1>3, <1>4, <1>5

Lasting == \A u \in Updates :
    /\ Terminal(u) => status'[u] = status[u]
    /\ dispatched[u] => dispatched'[u]

LEMMA SettledStep == TypeInv /\ [Next]_vars => Lasting
<1> SUFFICES ASSUME TypeInv, [Next]_vars PROVE Lasting
  OBVIOUS
<1>1. TypeOK
  BY DEF TypeInv
<1>2. ASSUME NEW d \in Drains,
             DrainStep(d) \/ ScheduleDrain(d) \/ HeartbeatFails(d) \/ DatabaseError(d)
      PROVE  Lasting
  <2>1. \A u \in Updates : Terminal(u) => status'[u] = status[u]
    <3>1. ASSUME NEW us, Lease(d, us), \A u \in us : Open(u)
          PROVE  \A u \in Updates : Terminal(u) => status'[u] = status[u]
      BY <3>1 DEF Lease, Open, Terminal
    <3>2. ASSUME NEW u, NEW final, Owns(d, u), Settle(u, final)
          PROVE  \A v \in Updates : Terminal(v) => status'[v] = status[v]
      BY <1>1, <3>2 DEF Owns, Settle, Terminal, TypeOK
    <3>3. ASSUME RetireMigratedChatIngress(d)
          PROVE  \A v \in Updates : Terminal(v) => status'[v] = status[v]
      BY <3>3 DEF RetireMigratedChatIngress, Terminal
    <3>4. QED
      BY <1>2, <3>1, <3>2, <3>3, RowStep
  <2>2. \A u \in Updates : dispatched[u] => dispatched'[u]
    <3>1. CASE BeginDispatch(d)
      BY <1>1, <3>1 DEF BeginDispatch, TypeOK
    <3>2. CASE ~BeginDispatch(d)
      BY <1>2, <3>2 DEF rowVars, DrainStep, LoopStep,
         ReleaseStaleLeases, ReleaseRejects, RetireMigratedChatIngress, ClaimNext,
         ClaimNothing, PrepareWithoutEve, PrepareForEve, BeginVoiceTranscription,
         TranscribeVoice, SaveVoiceTranscript, ClaimFollowing, DispatchWithoutTurn,
         DispatchTurn, DispatchFails, ReadCursor, ObserveBoundary, LoseBoundary,
         RotateLostSession, CompleteWithSession, Complete, FailHeld, ScheduleDrain,
         HeartbeatFails, DatabaseError
    <3>3. QED
      BY <3>1, <3>2
  <2>3. QED
    BY <2>1, <2>2 DEF Lasting
<1>3. ASSUME NEW u \in Updates, Arrive(u) PROVE Lasting
  BY <1>1, <1>3 DEF Arrive, Lasting, Terminal, TypeOK
<1>4. ASSUME UNCHANGED <<status, dispatched>> PROVE Lasting
  BY <1>4 DEF Lasting
<1>5. ASSUME NEW u \in Updates, LeaseExpires(u) PROVE Lasting
  BY <1>4, <1>5 DEF LeaseExpires
<1>6. ASSUME NEW s \in Sessions, TurnEnds(s) PROVE Lasting
  BY <1>4, <1>6 DEF TurnEnds, rowVars
<1>7. ASSUME NEW q \in Queues, Migrate(q) PROVE Lasting
  BY <1>4, <1>7 DEF Migrate, rowVars
<1>8. CASE Crash \/ UNCHANGED vars
  BY <1>4, <1>8 DEF Crash, vars, rowVars
<1>9. QED
  BY <1>2, <1>3, <1>5, <1>6, <1>7, <1>8 DEF Next

\* A row that was completed or failed keeps that status for good, and the mark that
\* it entered Eve is never taken back: a restart has nothing to undo.
THEOREM SettlementIsFinal == Spec => SettledForever
<1>1. TypeInv /\ [Next]_vars =>
        [\A u \in Updates :
            /\ Terminal(u) => status'[u] = status[u]
            /\ dispatched[u] => dispatched'[u]]_vars
  BY SettledStep DEF Lasting
<1>2. QED
  BY <1>1, TypeInvCorrect, PTL DEF Spec, SettledForever

-----------------------------------------------------------------------------
(* A row has one owner: every claim of it takes a new token. *)

TokensIssued == \A d \in Drains : \A u \in held[d] : token[d][u] <= attempt[u]
TokensDiffer ==
    \A d1, d2 \in Drains : \A u \in held[d1] \cap held[d2] :
        d1 # d2 => token[d1][u] # token[d2][u]
LeaseInv == TypeInv /\ TokensIssued /\ TokensDiffer

LEMMA LeaseInit == Init => LeaseInv
  BY TypeInit DEF Init, LeaseInv, TokensIssued, TokensDiffer

\* Tokens and attempts move only when rows are leased or let go.
LEMMA TokenStep ==
    ASSUME NEW d \in Drains,
           DrainStep(d) \/ ScheduleDrain(d) \/ HeartbeatFails(d) \/ DatabaseError(d)
    PROVE  \/ \E us : Lease(d, us)
           \/ \E us : Drop(d, us) /\ UNCHANGED attempt
           \/ UNCHANGED <<held, token, attempt>>
<1>1. CASE ClaimNext(d) \/ ClaimFollowing(d)
  BY <1>1 DEF ClaimNext, ClaimFollowing
<1>2. CASE CompleteWithSession(d) \/ Complete(d) \/ FailHeld(d) \/ DatabaseError(d)
  BY <1>2 DEF CompleteWithSession, Complete, FailHeld, DatabaseError, rowVars
<1>3. CASE /\ ~ClaimNext(d) /\ ~ClaimFollowing(d) /\ ~CompleteWithSession(d)
           /\ ~Complete(d) /\ ~FailHeld(d) /\ ~DatabaseError(d)
  BY <1>3 DEF rowVars, drainVars, DrainStep, LoopStep,
     ReleaseStaleLeases, ReleaseRejects, RetireMigratedChatIngress, ClaimNothing,
     PrepareWithoutEve, PrepareForEve, BeginVoiceTranscription, TranscribeVoice,
     SaveVoiceTranscript, BeginDispatch, DispatchWithoutTurn, DispatchTurn,
     DispatchFails, ReadCursor, ObserveBoundary, LoseBoundary, RotateLostSession,
     ScheduleDrain, HeartbeatFails
<1>4. QED
  BY <1>1, <1>2, <1>3

LEMMA LeaseStep == LeaseInv /\ [Next]_vars => LeaseInv'
<1> SUFFICES ASSUME LeaseInv, [Next]_vars PROVE LeaseInv'
  OBVIOUS
<1>1. TypeOK /\ TypeInv'
  BY TypeStep DEF LeaseInv, TypeInv
<1>2. \A d \in Drains, u \in Updates : token[d][u] \in Nat /\ attempt[u] \in Nat
  BY <1>1 DEF TypeOK
<1>3. \A d \in Drains : held[d] \subseteq Updates
  BY <1>1 DEF TypeOK
<1>4. ASSUME NEW d \in Drains,
             DrainStep(d) \/ ScheduleDrain(d) \/ HeartbeatFails(d) \/ DatabaseError(d)
      PROVE  LeaseInv'
  <2>1. ASSUME NEW us, Lease(d, us) PROVE TokensIssued' /\ TokensDiffer'
    <3>1. \A u \in Updates : attempt'[u] = IF u \in us THEN attempt[u] + 1 ELSE attempt[u]
      BY <2>1 DEF Lease
    <3>2. \A u \in Updates : token'[d][u] = IF u \in us THEN attempt[u] + 1 ELSE token[d][u]
      BY <1>1, <2>1 DEF Lease, TypeOK
    <3>3. held'[d] = held[d] \cup us
      BY <1>1, <2>1 DEF Lease, TypeOK
    <3>4. \A x \in Drains \ {d} : held'[x] = held[x] /\ token'[x] = token[x]
      BY <1>1, <1>4, OthersKeep
    <3>5. \A x \in Drains : held'[x] \subseteq Updates
      BY <1>1 DEF TypeInv, TypeOK
    <3>6. \A x \in Drains : \A u \in held'[x] : token'[x][u] <= attempt'[u]
      BY <1>2, <3>1, <3>2, <3>3, <3>4, <3>5 DEF LeaseInv, TokensIssued
    <3>7. \A x \in Drains \ {d} : \A u \in held'[x] \cap held'[d] : token'[x][u] # token'[d][u]
      BY <1>2, <3>2, <3>3, <3>4, <3>5 DEF LeaseInv, TokensIssued, TokensDiffer
    <3>8. TokensDiffer'
      BY <3>4, <3>7 DEF LeaseInv, TokensDiffer
    <3>9. QED
      BY <3>6, <3>8 DEF TokensIssued
  <2>2. ASSUME NEW us, Drop(d, us), UNCHANGED attempt PROVE TokensIssued' /\ TokensDiffer'
    <3>1. \A x \in Drains : \A u \in held'[x] : u \in held[x] /\ token'[x][u] = token[x][u]
      BY <1>1, <1>3, <2>2 DEF Drop, TypeOK
    <3>2. QED
      BY <2>2, <3>1 DEF LeaseInv, TokensIssued, TokensDiffer
  <2>3. ASSUME UNCHANGED <<held, token, attempt>> PROVE TokensIssued' /\ TokensDiffer'
    BY <2>3 DEF LeaseInv, TokensIssued, TokensDiffer
  <2>4. QED
    BY <1>1, <1>4, <2>1, <2>2, <2>3, TokenStep DEF LeaseInv
<1>5. ASSUME UNCHANGED <<held, token, attempt>> PROVE LeaseInv'
  BY <1>1, <1>5 DEF LeaseInv, TokensIssued, TokensDiffer
<1>6. ASSUME NEW u \in Updates, Arrive(u) \/ LeaseExpires(u) PROVE LeaseInv'
  BY <1>5, <1>6 DEF Arrive, LeaseExpires, drainVars
<1>7. ASSUME NEW s \in Sessions, TurnEnds(s) PROVE LeaseInv'
  BY <1>5, <1>7 DEF TurnEnds, rowVars, drainVars
<1>8. ASSUME NEW q \in Queues, Migrate(q) PROVE LeaseInv'
  BY <1>5, <1>8 DEF Migrate, rowVars, drainVars
<1>9. CASE Crash
  BY <1>1, <1>9 DEF Crash, LeaseInv, TokensIssued, TokensDiffer
<1>10. CASE UNCHANGED vars
  BY <1>5, <1>10 DEF vars, rowVars, drainVars
<1>11. QED
  BY <1>4, <1>6, <1>7, <1>8, <1>9, <1>10 DEF Next

\* Two loops that both hold a row, because a lease ran out under one of them, never
\* both own it: the row is settled, marked or renewed by one of them alone.
THEOREM LeaseExclusiveCorrect == Spec => []LeaseExclusive
<1>1. LeaseInv => LeaseExclusive
  BY DEF LeaseInv, TokensDiffer, LeaseExclusive, Owns
<1>2. QED
  BY <1>1, LeaseInit, LeaseStep, PTL DEF Spec

-----------------------------------------------------------------------------
(* The speech provider is paid once.  A loop transcribes the one row it has  *)
(* claimed, after marking it; so the argument is that of the dispatch, with  *)
(* the bookkeeping of what a loop holds added.                               *)

Alone ==
    {"prepare", "transcribe", "save", "series", "cursor", "wait", "rotate", "finish"}
HoldsWhatItWorksOn ==
    \A d \in Drains :
        /\ pc[d] \in {"off", "release", "retire", "claim"} => held[d] = {}
        /\ pc[d] \in Alone => \E u \in Updates : held[d] = {u}

LEMMA HoldsInit == Init => HoldsWhatItWorksOn
  BY DEF Init, HoldsWhatItWorksOn, Alone

LEMMA HoldsStep == TypeInv /\ HoldsWhatItWorksOn /\ [Next]_vars => HoldsWhatItWorksOn'
<1> SUFFICES ASSUME TypeInv, HoldsWhatItWorksOn, [Next]_vars PROVE HoldsWhatItWorksOn'
  OBVIOUS
<1>1. TypeOK /\ \A d \in Drains : held[d] \subseteq Updates
  BY DEF TypeInv, TypeOK
<1>2. ASSUME NEW d \in Drains,
             DrainStep(d) \/ ScheduleDrain(d) \/ HeartbeatFails(d) \/ DatabaseError(d)
      PROVE  HoldsWhatItWorksOn'
  <2> DEFINE Holds == /\ pc'[d] \in {"off", "release", "retire", "claim"} => held'[d] = {}
                      /\ pc'[d] \in Alone => \E u \in Updates : held'[d] = {u}
  <2>1. CASE ClaimNext(d)
    <3>1. PICK u \in Updates : Lease(d, {u}) /\ pc[d] = "claim" /\ Goto(d, "prepare")
      BY <2>1 DEF ClaimNext
    <3>2. held'[d] = {u} /\ pc'[d] = "prepare"
      BY <1>1, <3>1 DEF Lease, Goto, TypeOK, HoldsWhatItWorksOn
    <3>3. Holds
      BY <3>2
    <3>4. QED
      BY <1>1, <1>2, <3>3, OthersKeep DEF HoldsWhatItWorksOn
  <2>2. CASE CompleteWithSession(d)
    <3>1. PICK u \in held[d] :
             \/ Drop(d, {u}) /\ Goto(d, "retire")
             \/ Goto(d, "failing")
      BY <2>2 DEF CompleteWithSession
    <3>2. held[d] = {u}
      BY <2>2, <3>1 DEF CompleteWithSession, HoldsWhatItWorksOn, Alone
    <3>3. Holds
      BY <1>1, <3>1, <3>2 DEF Drop, Goto, TypeOK, Alone
    <3>4. QED
      BY <1>1, <1>2, <3>3, OthersKeep DEF HoldsWhatItWorksOn
  <2>3. CASE Complete(d)
    <3>1. PICK u \in held[d] :
             \/ Drop(d, {u}) /\ Goto(d, IF held[d] = {u} THEN "retire" ELSE "begin")
             \/ Goto(d, "failing")
      BY <2>3 DEF Complete
    <3>2. Holds
      BY <1>1, <3>1 DEF Drop, Goto, TypeOK, Alone
    <3>3. QED
      BY <1>1, <1>2, <3>2, OthersKeep DEF HoldsWhatItWorksOn
  <2>4. CASE FailHeld(d)
    <3>1. PICK u \in held[d] :
             \/ Drop(d, {u}) /\ Goto(d, IF held[d] = {u} THEN "off" ELSE "failing")
             \/ Drop(d, held[d]) /\ Goto(d, "off")
      BY <2>4 DEF FailHeld
    <3>2. Holds
      BY <1>1, <3>1 DEF Drop, Goto, TypeOK, Alone
    <3>3. QED
      BY <1>1, <1>2, <3>2, OthersKeep DEF HoldsWhatItWorksOn
  <2>5. CASE DatabaseError(d)
    <3>1. \/ Goto(d, "failing")
          \/ Goto(d, "off") /\ Drop(d, held[d])
      BY <2>5 DEF DatabaseError
    <3>2. Holds
      BY <1>1, <3>1 DEF Drop, Goto, TypeOK, Alone
    <3>3. QED
      BY <1>1, <1>2, <3>2, OthersKeep DEF HoldsWhatItWorksOn
  <2>6. CASE ClaimFollowing(d)
    <3>1. pc'[d] = "begin"
      BY <1>1, <2>6 DEF ClaimFollowing, Goto, TypeOK
    <3>2. QED
      BY <1>1, <1>2, <3>1, OthersKeep DEF HoldsWhatItWorksOn, Alone
  <2>7. CASE DispatchTurn(d)
    <3>1. held' = held /\ \E u \in Updates : held[d] = {u}
      BY <1>1, <2>7 DEF DispatchTurn
    <3>2. pc'[d] = "cursor"
      BY <1>1, <2>7 DEF DispatchTurn, Goto, TypeOK
    <3>3. QED
      BY <1>1, <1>2, <3>1, <3>2, OthersKeep DEF HoldsWhatItWorksOn, Alone
  <2>8. CASE /\ ~ClaimNext(d) /\ ~CompleteWithSession(d) /\ ~Complete(d) /\ ~FailHeld(d)
             /\ ~DatabaseError(d) /\ ~ClaimFollowing(d) /\ ~DispatchTurn(d)
    <3>1. held' = held
      BY <1>2, <2>8 DEF drainVars, DrainStep, LoopStep,
         ReleaseStaleLeases, ReleaseRejects, RetireMigratedChatIngress, ClaimNothing,
         PrepareWithoutEve, PrepareForEve, BeginVoiceTranscription, TranscribeVoice,
         SaveVoiceTranscript, BeginDispatch, DispatchWithoutTurn, DispatchFails,
         ReadCursor, ObserveBoundary, LoseBoundary, RotateLostSession, ScheduleDrain,
         HeartbeatFails
    <3>2. \/ pc' = pc
          \/ \E label \in Labels :
                /\ Goto(d, label)
                /\ label \in Alone => pc[d] \in Alone
                /\ label \in {"off", "release", "retire", "claim"} =>
                       pc[d] \in {"off", "release", "retire", "claim"}
      BY <1>2, <2>8 DEF Alone, Labels, DrainStep, LoopStep,
         ReleaseStaleLeases, ReleaseRejects, RetireMigratedChatIngress, ClaimNothing,
         PrepareWithoutEve, PrepareForEve, BeginVoiceTranscription, TranscribeVoice,
         SaveVoiceTranscript, BeginDispatch, DispatchWithoutTurn, DispatchFails,
         ReadCursor, ObserveBoundary, LoseBoundary, RotateLostSession, ScheduleDrain,
         HeartbeatFails
    <3>3. Holds
      BY <1>1, <3>1, <3>2 DEF Goto, TypeOK, HoldsWhatItWorksOn
    <3>4. QED
      BY <1>1, <1>2, <3>3, OthersKeep DEF HoldsWhatItWorksOn
  <2>9. QED
    BY <2>1, <2>2, <2>3, <2>4, <2>5, <2>6, <2>7, <2>8
<1>3. ASSUME UNCHANGED <<pc, held>> PROVE HoldsWhatItWorksOn'
  BY <1>3 DEF HoldsWhatItWorksOn
<1>4. ASSUME NEW u \in Updates, Arrive(u) \/ LeaseExpires(u) PROVE HoldsWhatItWorksOn'
  BY <1>3, <1>4 DEF Arrive, LeaseExpires, drainVars
<1>5. ASSUME NEW s \in Sessions, TurnEnds(s) PROVE HoldsWhatItWorksOn'
  BY <1>3, <1>5 DEF TurnEnds, drainVars
<1>6. ASSUME NEW q \in Queues, Migrate(q) PROVE HoldsWhatItWorksOn'
  BY <1>3, <1>6 DEF Migrate, drainVars
<1>7. CASE Crash
  BY <1>7 DEF Crash, HoldsWhatItWorksOn, Alone
<1>8. CASE UNCHANGED vars
  BY <1>3, <1>8 DEF vars, drainVars
<1>9. QED
  BY <1>2, <1>4, <1>5, <1>6, <1>7, <1>8 DEF Next

BilledIsMarked ==
    \A u \in Updates : billed[u] <= 1 /\ (billed[u] > 0 => voice[u] # "untouched")
Transcribes(d, u) == pc[d] = "transcribe" /\ u \in held[d]
MarkedUnbilled ==
    \A d \in Drains, u \in Updates :
        Transcribes(d, u) => voice[u] # "untouched" /\ billed[u] = 0
AloneAtProvider ==
    \A d1, d2 \in Drains, u \in Updates :
        Transcribes(d1, u) /\ Transcribes(d2, u) => d1 = d2

BillInv ==
    TypeInv /\ HoldsWhatItWorksOn /\ BilledIsMarked /\ MarkedUnbilled /\ AloneAtProvider

LEMMA BillInit == Init => BillInv
<1> SUFFICES ASSUME Init PROVE BillInv
  OBVIOUS
<1>1. BilledIsMarked
  BY DEF Init, BilledIsMarked
<1>2. \A d \in Drains, u \in Updates : ~Transcribes(d, u)
  BY DEF Init, Transcribes
<1>3. QED
  BY <1>1, <1>2, TypeInit, HoldsInit DEF BillInv, MarkedUnbilled, AloneAtProvider

\* A step that bills nothing, unmarks nothing and brings no loop to the provider.
LEMMA BillIdle ==
    ASSUME BillInv, TypeInv', HoldsWhatItWorksOn', UNCHANGED billed,
           \A u \in Updates : voice[u] # "untouched" => voice'[u] # "untouched",
           \A d \in Drains, u \in Updates : Transcribes(d, u)' => Transcribes(d, u)
    PROVE  BillInv'
  BY DEF BillInv, BilledIsMarked, MarkedUnbilled, AloneAtProvider

LEMMA BillStepOfLoop ==
    ASSUME BillInv, TypeInv', HoldsWhatItWorksOn', NEW d \in Drains,
           DrainStep(d) \/ ScheduleDrain(d) \/ HeartbeatFails(d) \/ DatabaseError(d)
    PROVE  BillInv'
<1> USE DEF BillInv
<1>1. TypeOK /\ held[d] \subseteq Updates
  BY DEF TypeInv, TypeOK
<1>2. \A x \in Drains \ {d}, v \in Updates : Transcribes(x, v)' <=> Transcribes(x, v)
  BY <1>1, OthersKeep DEF Transcribes
<1>3. CASE BeginVoiceTranscription(d)
  <2>1. PICK u \in held[d] :
          IF MayTranscribe(d, u)
          THEN voice' = [voice EXCEPT ![u] = "started"] /\ Goto(d, "transcribe")
          ELSE UNCHANGED voice /\ Goto(d, "failing")
    BY <1>3 DEF BeginVoiceTranscription
  <2>2. UNCHANGED <<held, billed>> /\ held[d] = {u}
    BY <1>3, <2>1 DEF BeginVoiceTranscription, historyVars, HoldsWhatItWorksOn, Alone
  <2>3. CASE MayTranscribe(d, u)
    <3>1. voice[u] = "untouched" /\ u \in Updates
      BY <1>1, <2>3 DEF MayTranscribe
    <3>2. \A v \in Updates : voice'[v] = IF v = u THEN "started" ELSE voice[v]
      BY <1>1, <2>1, <2>3 DEF TypeOK
    <3>3. \A v \in Updates : Transcribes(d, v)' => v = u
      BY <2>2 DEF Transcribes
    <3>4. billed[u] = 0
      BY <1>1, <3>1 DEF BilledIsMarked, TypeOK
    <3>5. \A x \in Drains : ~Transcribes(x, u)
      BY <3>1 DEF MarkedUnbilled
    <3>6. BilledIsMarked'
      BY <2>2, <3>2 DEF BilledIsMarked
    <3>7. MarkedUnbilled'
      BY <1>2, <2>2, <3>2, <3>3, <3>4 DEF MarkedUnbilled
    <3>8. AloneAtProvider'
      BY <1>2, <3>3, <3>5 DEF AloneAtProvider
    <3>9. QED
      BY <3>6, <3>7, <3>8
  <2>4. CASE ~MayTranscribe(d, u)
    <3>1. \A v \in Updates : ~Transcribes(d, v)'
      BY <1>1, <2>1, <2>4 DEF Transcribes, Goto, TypeOK
    <3>2. QED
      BY <1>2, <2>1, <2>2, <2>4, <3>1, BillIdle
  <2>5. QED
    BY <2>3, <2>4
<1>4. CASE TranscribeVoice(d)
  <2>1. PICK u \in held[d] : billed' = [billed EXCEPT ![u] = @ + 1]
    BY <1>4 DEF TranscribeVoice
  <2>2. Transcribes(d, u) /\ u \in Updates /\ UNCHANGED voice
    BY <1>1, <1>4, <2>1 DEF TranscribeVoice, Transcribes, rowVars
  <2>3. billed[u] = 0 /\ voice[u] # "untouched"
    BY <2>2 DEF MarkedUnbilled
  <2>4. \A v \in Updates : billed'[v] = IF v = u THEN 1 ELSE billed[v]
    BY <1>1, <2>1, <2>3 DEF TypeOK
  <2>5. \E label \in Labels \ {"transcribe"} : Goto(d, label)
    BY <1>4 DEF TranscribeVoice, Labels
  <2>6. \A v \in Updates : ~Transcribes(d, v)'
    BY <1>1, <2>5 DEF Transcribes, Goto, TypeOK
  <2>7. \A x \in Drains, v \in Updates : Transcribes(x, v)' => Transcribes(x, v) /\ v # u
    BY <1>2, <2>2, <2>6 DEF AloneAtProvider
  <2>8. BilledIsMarked'
    BY <2>2, <2>3, <2>4 DEF BilledIsMarked
  <2>9. MarkedUnbilled'
    BY <2>2, <2>4, <2>7 DEF MarkedUnbilled
  <2>10. AloneAtProvider'
    BY <2>7 DEF AloneAtProvider
  <2>11. QED
    BY <2>8, <2>9, <2>10
<1>5. CASE SaveVoiceTranscript(d)
  <2>1. \A u \in Updates : voice[u] # "untouched" => voice'[u] # "untouched"
    BY <1>1, <1>5 DEF SaveVoiceTranscript, TypeOK
  <2>2. UNCHANGED billed /\ \E label \in Labels \ {"transcribe"} : Goto(d, label)
    BY <1>5 DEF SaveVoiceTranscript, Labels, historyVars
  <2>3. \A v \in Updates : ~Transcribes(d, v)'
    BY <1>1, <2>2 DEF Transcribes, Goto, TypeOK
  <2>4. QED
    BY <1>2, <2>1, <2>2, <2>3, BillIdle
<1>6. CASE HeartbeatFails(d)
  <2>1. UNCHANGED <<pc, held, voice, billed>>
    BY <1>6 DEF HeartbeatFails, rowVars, historyVars
  <2>2. QED
    BY <2>1, BillIdle DEF Transcribes
<1>7. CASE /\ ~BeginVoiceTranscription(d) /\ ~TranscribeVoice(d)
           /\ ~SaveVoiceTranscript(d) /\ ~HeartbeatFails(d)
  <2>1. UNCHANGED <<voice, billed>>
    BY <1>7 DEF rowVars, historyVars, DrainStep, LoopStep,
       ReleaseStaleLeases, ReleaseRejects, RetireMigratedChatIngress, ClaimNext,
       ClaimNothing, PrepareWithoutEve, PrepareForEve, ClaimFollowing, BeginDispatch,
       DispatchWithoutTurn, DispatchTurn, DispatchFails, ReadCursor, ObserveBoundary,
       LoseBoundary, RotateLostSession, CompleteWithSession, Complete, FailHeld,
       ScheduleDrain, DatabaseError
  <2>2. \E label \in Labels \ {"transcribe"} : Goto(d, label)
    BY <1>7 DEF Labels, DrainStep, LoopStep,
       ReleaseStaleLeases, ReleaseRejects, RetireMigratedChatIngress, ClaimNext,
       ClaimNothing, PrepareWithoutEve, PrepareForEve, ClaimFollowing, BeginDispatch,
       DispatchWithoutTurn, DispatchTurn, DispatchFails, ReadCursor, ObserveBoundary,
       LoseBoundary, RotateLostSession, CompleteWithSession, Complete, FailHeld,
       ScheduleDrain, DatabaseError
  <2>3. \A v \in Updates : ~Transcribes(d, v)'
    BY <1>1, <2>2 DEF Transcribes, Goto, TypeOK
  <2>4. QED
    BY <1>2, <2>1, <2>3, BillIdle
<1>8. QED
  BY <1>3, <1>4, <1>5, <1>6, <1>7

LEMMA BillStep == BillInv /\ [Next]_vars => BillInv'
<1> SUFFICES ASSUME BillInv, [Next]_vars PROVE BillInv'
  OBVIOUS
<1>1. TypeInv' /\ HoldsWhatItWorksOn'
  BY TypeStep, HoldsStep DEF BillInv
<1>2. ASSUME UNCHANGED <<pc, held, voice, billed>> PROVE BillInv'
  BY <1>1, <1>2, BillIdle DEF Transcribes
<1>3. ASSUME NEW u \in Updates, Arrive(u) \/ LeaseExpires(u) PROVE BillInv'
  BY <1>2, <1>3 DEF Arrive, LeaseExpires, drainVars, historyVars
<1>4. ASSUME NEW s \in Sessions, TurnEnds(s) PROVE BillInv'
  BY <1>2, <1>4 DEF TurnEnds, rowVars, drainVars, historyVars
<1>5. ASSUME NEW q \in Queues, Migrate(q) PROVE BillInv'
  BY <1>2, <1>5 DEF Migrate, rowVars, drainVars, historyVars
<1>6. CASE Crash
  BY <1>1, <1>6, BillIdle DEF Crash, Transcribes, rowVars, historyVars
<1>7. CASE UNCHANGED vars
  BY <1>2, <1>7 DEF vars, rowVars, drainVars, historyVars
<1>8. QED
  BY <1>1, <1>3, <1>4, <1>5, <1>6, <1>7, BillStepOfLoop DEF Next

\* Whatever crashes, expires or is retried, the speech provider is called at most
\* once for a voice message.
THEOREM BilledOnceCorrect == Spec => []BilledOnce
<1>1. BillInv => BilledOnce
  BY DEF BillInv, BilledIsMarked, BilledOnce
<1>2. QED
  BY <1>1, BillInit, BillStep, PTL DEF Spec

-----------------------------------------------------------------------------
(* The order of a chat.  A loop that owns a row holds every open row before  *)
(* it, so the row it marks for Eve is the first open one of its queue.       *)

\* No loop dies, stalls or loses a statement, so every lease has its loop.
Tame == Faults \cap {"crash", "expiry", "db_error"} = {}

\* The updates of a queue are committed in the order of their ids; and a series is
\* never left half done by a loop that died, for the rows it leased behind its head
\* are no barrier to the series of the next loop.
Orderly == "late_arrival" \notin Faults /\ (SeriesMax = 1 \/ Tame)

ArrivedInOrder ==
    \A u \in Updates : status[u] = "absent" =>
        ~dispatched[u] /\ \A v \in Later(u) : status[v] = "absent"
Fronted ==
    \A d \in Drains : \A u \in held[d] :
        Owns(d, u) => \A e \in Earlier(u) : Open(e) => e \in held[d]
EnteredFirst == \A u \in Updates : Open(u) /\ dispatched[u] => AtHead(u)

\* Of a process without such faults: a loop owns what it holds, and whatever is in
\* processing is held.
Attended ==
    /\ \A d \in Drains : \A u \in held[d] : Owns(d, u)
    /\ \A u \in Updates : status[u] = "processing" => \E d \in Drains : u \in held[d]
    /\ release # "done" => \A d \in Drains : pc[d] \in {"off", "release"}

OrderInv ==
    /\ LeaseInv
    /\ HoldsWhatItWorksOn
    /\ ArrivedInOrder
    /\ Fronted
    /\ EnteredFirst
    /\ Tame => Attended

LEMMA OrderInit == Init => OrderInv
<1> SUFFICES ASSUME Init PROVE OrderInv
  OBVIOUS
<1>1. ArrivedInOrder /\ Fronted /\ EnteredFirst
  BY DEF Init, ArrivedInOrder, Fronted, EnteredFirst, Open, Later
<1>2. Attended
  BY DEF Init, Attended
<1>3. QED
  BY <1>1, <1>2, LeaseInit, HoldsInit DEF OrderInv

\* The kinds of step a loop takes.
Claims(d) ==
    /\ pc[d] = "claim"
    /\ \E u \in Updates : Unleased(u) /\ AtHead(u) /\ Lease(d, {u})
    /\ UNCHANGED <<dispatched, release>>
    /\ pc'[d] = "prepare"
Follows(d) ==
    /\ pc[d] = "series"
    /\ \E us \in {{}, UNION {Followers(v) : v \in held[d]}} : Lease(d, us)
    /\ UNCHANGED <<dispatched, release>>
    /\ pc'[d] = "begin"
Enters(d) ==
    /\ \E u \in held[d] :
          IsFirst(u, held[d]) /\ MayEnterEve(d, u) /\ dispatched' = [dispatched EXCEPT ![u] = TRUE]
    /\ UNCHANGED <<status, attempt, live, held, token, release>>
Settles(d) ==
    /\ \E u \in held[d], final \in {"completed", "failed"} :
          Owns(d, u) /\ Settle(u, final) /\ Drop(d, {u})
    /\ UNCHANGED <<attempt, dispatched, release>>
Retires(d) ==
    /\ \E us \in SUBSET {u \in Updates : status[u] = "pending"} :
       \E final \in [us -> {"completed", "failed"}] :
          status' = [u \in Updates |-> IF u \in us THEN final[u] ELSE status[u]]
    /\ UNCHANGED <<attempt, live, dispatched, held, token, release>>
LetsGo(d) ==
    /\ Drop(d, held[d])
    /\ "db_error" \in Faults \/ \E u \in held[d] : ~Owns(d, u)
    /\ UNCHANGED <<status, attempt, live, dispatched, release>>
FreesLeases(d) ==
    /\ pc[d] = "release"
    /\ live' = IF release = "none" THEN [u \in Updates |-> FALSE] ELSE live
    /\ release' = "done"
    /\ UNCHANGED <<status, attempt, dispatched, held, token>>
RowsRest == UNCHANGED <<status, attempt, live, dispatched, held, token>>

LEMMA KindOfStep ==
    ASSUME TypeInv, NEW d \in Drains,
           DrainStep(d) \/ ScheduleDrain(d) \/ HeartbeatFails(d) \/ DatabaseError(d)
    PROVE  \/ Claims(d) \/ Follows(d) \/ Enters(d) \/ Settles(d) \/ Retires(d) \/ LetsGo(d)
           \/ FreesLeases(d)
           \/ RowsRest
<1>1. TypeOK
  BY DEF TypeInv
<1>2. CASE ClaimNext(d)
  <2>1. PICK u \in Updates : IsFirst(u, Claimable(d)) /\ Lease(d, {u})
    BY <1>2 DEF ClaimNext
  <2>2. Unleased(u) /\ AtHead(u)
    BY <2>1 DEF IsFirst, Claimable
  <2>3. pc'[d] = "prepare"
    BY <1>1, <1>2 DEF ClaimNext, Goto, TypeOK
  <2>4. QED
    BY <1>2, <2>1, <2>2, <2>3 DEF ClaimNext, Claims
<1>3. CASE ClaimFollowing(d)
  <2>1. pc'[d] = "begin"
    BY <1>1, <1>3 DEF ClaimFollowing, Goto, TypeOK
  <2>2. QED
    BY <1>3, <2>1 DEF ClaimFollowing, Follows
<1>4. CASE BeginDispatch(d)
  BY <1>4 DEF BeginDispatch, Enters, RowsRest
<1>5. CASE CompleteWithSession(d) \/ Complete(d) \/ FailHeld(d)
  BY <1>5 DEF CompleteWithSession, Complete, FailHeld, Settles, LetsGo, RowsRest
<1>6. CASE RetireMigratedChatIngress(d)
  <2> DEFINE us == {u \in Updates : status[u] = "pending" /\ Queue[u] \in retired}
             final == [u \in us |-> IF ~dispatched[u] /\ voice[u] = "untouched"
                                    THEN "completed" ELSE "failed"]
  <2>1. us \in SUBSET {u \in Updates : status[u] = "pending"}
    OBVIOUS
  <2>2. final \in [us -> {"completed", "failed"}]
    OBVIOUS
  <2>3. status' = [u \in Updates |-> IF u \in us THEN final[u] ELSE status[u]]
    BY <1>6 DEF RetireMigratedChatIngress
  <2>4. UNCHANGED <<attempt, live, dispatched, held, token, release>>
    BY <1>6 DEF RetireMigratedChatIngress
  <2> HIDE DEF us, final
  <2>5. QED
    BY <2>1, <2>2, <2>3, <2>4 DEF Retires
<1>7. CASE DatabaseError(d)
  BY <1>7 DEF DatabaseError, Fault, LetsGo, RowsRest, rowVars
<1>8. CASE ReleaseStaleLeases(d)
  BY <1>8 DEF ReleaseStaleLeases, FreesLeases
<1>9. CASE /\ ~ClaimNext(d) /\ ~ClaimFollowing(d) /\ ~BeginDispatch(d)
           /\ ~CompleteWithSession(d) /\ ~Complete(d) /\ ~FailHeld(d)
           /\ ~RetireMigratedChatIngress(d) /\ ~DatabaseError(d) /\ ~ReleaseStaleLeases(d)
  BY <1>9 DEF RowsRest, rowVars, drainVars, DrainStep, LoopStep, ReleaseRejects,
     ClaimNothing, PrepareWithoutEve, PrepareForEve, BeginVoiceTranscription,
     TranscribeVoice, SaveVoiceTranscript, DispatchWithoutTurn, DispatchTurn,
     DispatchFails, ReadCursor, ObserveBoundary, LoseBoundary, RotateLostSession,
     ScheduleDrain, HeartbeatFails
<1>10. QED
  BY <1>2, <1>3, <1>4, <1>5, <1>6, <1>7, <1>8, <1>9

\* Most steps only ease the order: no row opens, arrives or is marked, nobody comes to
\* own a row, and a loop that goes on holding rows lets go of settled ones only.
Eases ==
    /\ dispatched' = dispatched
    /\ \A u \in Updates :
          /\ status'[u] = "absent" <=> status[u] = "absent"
          /\ Open(u)' => Open(u)
    /\ \A d \in Drains : \A u \in held'[d] : u \in held[d] /\ (Owns(d, u)' => Owns(d, u))
    /\ \A d \in Drains : held'[d] # {} => \A e \in held[d] : Open(e)' => e \in held'[d]

LEMMA EasesKeepsOrder ==
    ASSUME TypeOK, TypeOK', ArrivedInOrder, Fronted, EnteredFirst, Eases
    PROVE  ArrivedInOrder' /\ Fronted' /\ EnteredFirst'
<1>1. \A u \in Updates : Later(u) \subseteq Updates /\ Earlier(u) \subseteq Updates
  BY DEF Later, Earlier
<1>2. \A d \in Drains : held'[d] \subseteq Updates
  BY DEF TypeOK
<1>3. ArrivedInOrder'
  BY <1>1 DEF ArrivedInOrder, Eases, Later
<1>4. Fronted'
  <2> SUFFICES ASSUME NEW d \in Drains, NEW u \in held'[d], Owns(d, u)',
                      NEW e \in Earlier(u), Open(e)'
               PROVE  e \in held'[d]
    BY DEF Fronted, Earlier
  <2>1. u \in held[d] /\ Owns(d, u) /\ e \in Updates /\ Open(e)
    BY <1>1, <1>2 DEF Eases
  <2>2. e \in held[d]
    BY <2>1 DEF Fronted
  <2>3. QED
    BY <2>2 DEF Eases
<1>5. EnteredFirst'
  <2> SUFFICES ASSUME NEW u \in Updates, Open(u)', dispatched'[u], NEW e \in Earlier(u), Open(e)'
               PROVE  FALSE
    BY DEF EnteredFirst, AtHead, Earlier
  <2>1. Open(u) /\ dispatched[u] /\ e \in Updates /\ Open(e)
    BY <1>1 DEF Eases
  <2>2. QED
    BY <2>1 DEF EnteredFirst, AtHead
<1>6. QED
  BY <1>3, <1>4, <1>5

\* Rows that change hands: the others no longer own them, and no status class moves.
LEMMA LeaseMoves ==
    ASSUME LeaseInv, TypeOK', NEW d \in Drains, NEW us \in SUBSET Updates, Lease(d, us),
           \A u \in us : Open(u)
    PROVE  /\ \A u \in Updates : status'[u] = IF u \in us THEN "processing" ELSE status[u]
           /\ \A u \in Updates : (Open(u)' <=> Open(u)) /\ (status'[u] = "absent" <=> status[u] = "absent")
           /\ held'[d] = held[d] \cup us
           /\ \A u \in us : Owns(d, u)'
           /\ \A u \in held[d] \ us : Owns(d, u)' <=> Owns(d, u)
           /\ \A x \in Drains \ {d} :
                 /\ held'[x] = held[x]
                 /\ \A u \in held[x] : (Owns(x, u)' <=> Owns(x, u) /\ u \notin us)
<1>1. TypeOK
  BY DEF LeaseInv, TypeInv
<1>2. \A u \in Updates : /\ status'[u] = IF u \in us THEN "processing" ELSE status[u]
                         /\ attempt'[u] = IF u \in us THEN attempt[u] + 1 ELSE attempt[u]
                         /\ live'[u] = (u \in us \/ live[u])
  BY DEF Lease
<1>3. /\ held'[d] = held[d] \cup us
      /\ \A u \in Updates : token'[d][u] = IF u \in us THEN attempt[u] + 1 ELSE token[d][u]
      /\ \A x \in Drains \ {d} : held'[x] = held[x] /\ token'[x] = token[x]
  BY <1>1 DEF Lease, TypeOK
<1>4. \A u \in Updates : (Open(u)' <=> Open(u)) /\ (status'[u] = "absent" <=> status[u] = "absent")
  BY <1>2 DEF Open
<1>5. \A x \in Drains : held[x] \subseteq Updates
  BY <1>1 DEF TypeOK
<1>6. \A u \in us : Owns(d, u)'
  BY <1>2, <1>3 DEF Owns
<1>7. \A u \in held[d] \ us : Owns(d, u)' <=> Owns(d, u)
  BY <1>2, <1>3, <1>5 DEF Owns
<1>8. ASSUME NEW x \in Drains \ {d}, NEW u \in held[x] PROVE Owns(x, u)' <=> Owns(x, u) /\ u \notin us
  <2>1. CASE u \in us
    <3>1. token[x][u] <= attempt[u]
      BY DEF LeaseInv, TokensIssued
    <3>2. token[x][u] \in Nat /\ attempt[u] \in Nat
      BY <1>1, <1>5 DEF TypeOK
    <3>3. attempt'[u] = attempt[u] + 1 /\ token'[x][u] = token[x][u]
      BY <1>2, <1>3, <2>1
    <3>4. attempt'[u] # token'[x][u]
      BY <3>1, <3>2, <3>3
    <3>5. QED
      BY <2>1, <3>4 DEF Owns
  <2>2. CASE u \notin us
    BY <1>2, <1>3, <1>5, <2>2 DEF Owns
  <2>3. QED
    BY <2>1, <2>2
<1>9. QED
  BY <1>2, <1>3, <1>4, <1>6, <1>7, <1>8

\* A row alone at the head of its queue is claimed.
LEMMA ClaimKeepsOrder ==
    ASSUME OrderInv, TypeOK', NEW d \in Drains, Claims(d)
    PROVE  ArrivedInOrder' /\ Fronted' /\ EnteredFirst'
<1> USE DEF OrderInv
<1>1. PICK u \in Updates : Unleased(u) /\ AtHead(u) /\ Lease(d, {u})
  BY DEF Claims
<1>2. Open(u) /\ held[d] = {}
  BY <1>1 DEF Unleased, Open, Claims, HoldsWhatItWorksOn
<1>3. /\ \A v \in Updates : (Open(v)' <=> Open(v)) /\ (status'[v] = "absent" <=> status[v] = "absent")
      /\ held'[d] = {u}
      /\ \A x \in Drains \ {d} :
            /\ held'[x] = held[x]
            /\ \A v \in held[x] : Owns(x, v)' => Owns(x, v)
  BY <1>1, <1>2, LeaseMoves
<1>4. dispatched' = dispatched
  BY DEF Claims
<1>5. ArrivedInOrder'
  BY <1>3, <1>4 DEF ArrivedInOrder, Later
<1>6. EnteredFirst'
  BY <1>3, <1>4 DEF EnteredFirst, AtHead, Earlier
<1>7. Fronted'
  BY <1>1, <1>3 DEF Fronted, AtHead, Earlier
<1>8. QED
  BY <1>5, <1>6, <1>7

LEMMA EntryKeepsOrder ==
    ASSUME OrderInv, TypeOK', NEW d \in Drains, Enters(d)
    PROVE  ArrivedInOrder' /\ Fronted' /\ EnteredFirst'
<1> USE DEF OrderInv
<1>1. TypeOK /\ held[d] \subseteq Updates
  BY DEF LeaseInv, TypeInv, TypeOK
<1>2. PICK u \in held[d] :
         IsFirst(u, held[d]) /\ Owns(d, u) /\ dispatched' = [dispatched EXCEPT ![u] = TRUE]
  BY DEF Enters, MayEnterEve
<1>3. \A v \in Updates : dispatched'[v] = (v = u \/ dispatched[v])
  BY <1>1, <1>2 DEF TypeOK
<1>4. UNCHANGED <<status, attempt, live, held, token>>
  BY DEF Enters
<1>5. AtHead(u)
  <2> SUFFICES ASSUME NEW e \in Earlier(u), Open(e) PROVE FALSE
    BY DEF AtHead
  <2>1. e \in held[d] /\ u <= e
    BY <1>2 DEF Fronted, IsFirst
  <2>2. e < u /\ e \in Nat /\ u \in Nat
    BY <1>1, UpdatesAssumption DEF Earlier
  <2>3. QED
    BY <2>1, <2>2
<1>6. status[u] = "processing"
  BY <1>2 DEF Owns
<1>7. ArrivedInOrder'
  BY <1>3, <1>4, <1>6 DEF ArrivedInOrder, Later
<1>8. Fronted'
  BY <1>4 DEF Fronted, Owns, Open, Earlier
<1>9. EnteredFirst'
  BY <1>3, <1>4, <1>5 DEF EnteredFirst, AtHead, Open, Earlier
<1>10. QED
  BY <1>7, <1>8, <1>9

\* A loop that owns a row is alone with every open row before it.
LEMMA SharesNone ==
    ASSUME OrderInv, Attended, NEW d1 \in Drains, NEW d2 \in Drains,
           NEW u1 \in held[d1], NEW u2 \in held[d2], Queue[u1] = Queue[u2], u1 <= u2
    PROVE  d1 = d2
<1>1. u1 \in Updates /\ u2 \in Updates
  BY DEF OrderInv, LeaseInv, TypeInv, TypeOK
<1>2. Owns(d1, u1) /\ Owns(d2, u2)
  BY DEF Attended
<1>3. u1 \in held[d2]
  <2>1. CASE u1 = u2
    BY <2>1
  <2>2. CASE u1 # u2
    <3>1. u1 \in Earlier(u2)
      BY <1>1, <2>2, UpdatesAssumption DEF Earlier
    <3>2. Open(u1)
      BY <1>2 DEF Owns, Open
    <3>3. QED
      BY <1>2, <3>1, <3>2 DEF OrderInv, Fronted
  <2>3. QED
    BY <2>1, <2>2
<1>4. Owns(d2, u1)
  BY <1>3 DEF Attended
<1>5. QED
  BY <1>2, <1>3, <1>4 DEF Owns, OrderInv, LeaseInv, TokensDiffer

\* A series ends before the first row it passes over, and a series of one has no
\* followers.
LEMMA FollowersPending ==
    ASSUME TypeOK, NEW u \in Updates, NEW v \in Followers(u)
    PROVE  v \in Later(u) /\ v \in Updates /\ status[v] = "pending"
  BY DEF Followers, Later

LEMMA WaitingCounted ==
    ASSUME NEW S \in SUBSET Updates, NEW v \in S
    PROVE  LET upTo(x) == {w \in S : w <= x}
           IN /\ IsFiniteSet(upTo(v)) /\ Cardinality(upTo(v)) \in Nat
              /\ Cardinality(upTo(v)) # 0
              /\ \A w \in S : w <= v =>
                    /\ Cardinality(upTo(w)) \in Nat
                    /\ Cardinality(upTo(w)) <= Cardinality(upTo(v))
<1> DEFINE upTo(x) == {w \in S : w <= x}
<1>1. S \subseteq Nat
  BY UpdatesAssumption
<1>2. \A x \in S : IsFiniteSet(upTo(x))
  <2> SUFFICES ASSUME NEW x \in S PROVE IsFiniteSet(upTo(x))
    OBVIOUS
  <2>1. upTo(x) \in SUBSET Nat /\ x \in Nat /\ \A w \in upTo(x) : w <= x
    BY <1>1
  <2> HIDE DEF upTo
  <2>2. QED
    BY <2>1, FS_BoundedSetOfNaturals
<1>3. v \in upTo(v)
  BY <1>1
<1>4. \A w \in S : w <= v => upTo(w) \in SUBSET upTo(v)
  <2> SUFFICES ASSUME NEW w \in S, w <= v, NEW x \in upTo(w) PROVE x \in upTo(v)
    OBVIOUS
  <2>1. x \in Nat /\ w \in Nat /\ v \in Nat /\ x <= w /\ x \in S
    BY <1>1
  <2>2. QED
    BY <2>1
<1> HIDE DEF upTo
<1>5. \A w \in S : Cardinality(upTo(w)) \in Nat
  BY <1>2, FS_CardinalityType
<1>6. \A w \in S : w <= v => Cardinality(upTo(w)) <= Cardinality(upTo(v))
  BY <1>2, <1>4, FS_Subset
<1>7. Cardinality(upTo(v)) # 0
  BY <1>2, <1>3, FS_EmptySet
<1>8. QED
  BY <1>2, <1>5, <1>6, <1>7 DEF upTo

LEMMA NoFollowers ==
    ASSUME SeriesMax = 1, NEW u
    PROVE  Followers(u) = {}
<1> DEFINE waiting == {v \in Later(u) : status[v] = "pending"}
<1> SUFFICES ASSUME NEW v \in Followers(u) PROVE FALSE
  OBVIOUS
<1>1. waiting \in SUBSET Updates /\ v \in waiting /\ Cardinality({w \in waiting : w <= v}) < 1
  BY DEF Followers, Later
<1> HIDE DEF waiting
<1>2. Cardinality({w \in waiting : w <= v}) \in Nat /\ Cardinality({w \in waiting : w <= v}) # 0
  BY <1>1, WaitingCounted
<1>3. QED
  BY <1>1, <1>2

LEMMA FollowersClosed ==
    ASSUME NEW u \in Updates, NEW v \in Followers(u), NEW e \in Later(u),
           status[e] = "pending", e <= v
    PROVE  e \in Followers(u)
<1> DEFINE waiting == {w \in Later(u) : status[w] = "pending"}
<1>1. /\ waiting \in SUBSET Updates /\ v \in waiting /\ e \in waiting
      /\ \A w \in waiting : w <= v => Continues(u, w)
      /\ Cardinality({w \in waiting : w <= v}) < SeriesMax
  BY DEF Followers, Later
<1>2. \A w \in waiting : w <= e => Continues(u, w)
  <2> SUFFICES ASSUME NEW w \in waiting, w <= e PROVE Continues(u, w)
    OBVIOUS
  <2>1. w \in Nat /\ e \in Nat /\ v \in Nat
    BY <1>1, UpdatesAssumption
  <2>2. w <= v
    BY <2>1
  <2>3. QED
    BY <1>1, <2>2
<1>3. Cardinality({w \in waiting : w <= e}) < SeriesMax
  <2> HIDE DEF waiting
  <2> DEFINE i == Cardinality({w \in waiting : w <= e})
             j == Cardinality({w \in waiting : w <= v})
  <2>1. i \in Nat /\ j \in Nat /\ i <= j
    BY <1>1, WaitingCounted
  <2>2. j < SeriesMax /\ SeriesMax \in Nat
    BY <1>1, BoundsAssumption
  <2> HIDE DEF i, j
  <2>3. i < SeriesMax
    BY <2>1, <2>2
  <2>4. QED
    BY <2>3 DEF i
<1>4. QED
  BY <1>1, <1>2, <1>3 DEF Followers

\* A series: either none is formed, or the rows between its head and its last are all
\* pending, and so all in it.
LEMMA FollowKeepsOrder ==
    ASSUME Orderly, OrderInv, TypeOK', NEW d \in Drains, Follows(d)
    PROVE  ArrivedInOrder' /\ Fronted' /\ EnteredFirst'
<1> USE DEF OrderInv
<1>1. TypeOK /\ held[d] \subseteq Updates
  BY DEF LeaseInv, TypeInv, TypeOK
<1>2. PICK u \in Updates : held[d] = {u}
  BY DEF Follows, HoldsWhatItWorksOn, Alone
<1>3. PICK us \in {{}, Followers(u)} : Lease(d, us)
  <2>1. UNION {Followers(v) : v \in held[d]} = Followers(u)
    BY <1>2
  <2>2. QED
    BY <2>1 DEF Follows
<1>4. us \in SUBSET Updates /\ \A v \in us : v \in Later(u) /\ status[v] = "pending"
  BY <1>1, <1>3, FollowersPending
<1>5. /\ \A v \in Updates : (Open(v)' <=> Open(v)) /\ (status'[v] = "absent" <=> status[v] = "absent")
      /\ held'[d] = {u} \cup us
      /\ u \notin us => (Owns(d, u)' <=> Owns(d, u))
      /\ \A x \in Drains \ {d} :
            /\ held'[x] = held[x]
            /\ \A v \in held[x] : Owns(x, v)' => Owns(x, v)
  <2>1. \A v \in us : Open(v)
    BY <1>4 DEF Open
  <2>2. QED
    BY <1>2, <1>3, <1>4, <2>1, LeaseMoves
<1>6. dispatched' = dispatched
  BY DEF Follows
<1>7. ArrivedInOrder'
  BY <1>5, <1>6 DEF ArrivedInOrder, Later
<1>8. EnteredFirst'
  BY <1>5, <1>6 DEF EnteredFirst, AtHead, Earlier
<1>9. \A v \in us : v # u
  <2>1. \A v \in Later(u) : v \in Nat /\ u \in Nat /\ v > u
    BY UpdatesAssumption DEF Later
  <2>2. QED
    BY <1>4, <2>1
<1>10. \A e \in Earlier(u) : Owns(d, u) => ~Open(e)
  <2>1. \A e \in Earlier(u) : e # u
    BY UpdatesAssumption DEF Earlier
  <2>2. QED
    BY <1>2, <2>1 DEF Fronted
<1>11. ASSUME NEW v \in us, NEW e \in Earlier(v), Open(e) PROVE e \in held'[d]
  <2>1. e \in Updates /\ e < v /\ Queue[e] = Queue[u] /\ v \in Later(u) /\ u < v /\ v \in Updates
    BY <1>4, UpdatesAssumption DEF Earlier, Later
  <2>2. us = Followers(u) /\ Tame /\ Attended
    <3>1. us # {}
      OBVIOUS
    <3>2. us = Followers(u)
      BY <1>3, <3>1
    <3>3. SeriesMax # 1
      BY <3>1, <3>2, NoFollowers
    <3>4. QED
      BY <3>2, <3>3 DEF Orderly
  <2>3. u \in held[d] /\ Owns(d, u)
    BY <1>2, <2>2 DEF Attended
  <2>4. CASE e < u
    <3>1. e \in Earlier(u)
      BY <2>1, <2>4 DEF Earlier
    <3>2. QED
      BY <1>10, <1>11, <2>3, <3>1
  <2>5. CASE e = u
    BY <1>5, <2>5
  <2>6. CASE u < e
    <3>1. e \in Later(u)
      BY <2>1, <2>6, UpdatesAssumption DEF Later
    <3>2. CASE status[e] = "pending"
      <4>1. e <= v
        BY <2>1, UpdatesAssumption
      <4>2. e \in Followers(u)
        BY <2>2, <3>1, <3>2, <4>1, FollowersClosed
      <4>3. QED
        BY <1>5, <2>2, <4>2
    <3>3. CASE status[e] = "processing"
      <4>1. PICK x \in Drains : e \in held[x]
        BY <2>1, <2>2, <3>3 DEF Attended
      <4>2. x = d
        <5>1. u <= e
          BY <2>1, <2>6, UpdatesAssumption
        <5>2. QED
          BY <2>1, <2>2, <2>3, <4>1, <5>1, SharesNone
      <4>3. QED
        BY <1>5, <1>2, <4>1, <4>2
    <3>4. QED
      BY <1>11, <3>2, <3>3 DEF Open
  <2>7. QED
    <3>1. e \in Nat /\ u \in Nat
      BY <2>1, UpdatesAssumption
    <3>2. e < u \/ e = u \/ u < e
      BY <3>1
    <3>3. QED
      BY <2>4, <2>5, <2>6, <3>2
<1>12. Fronted'
  <2> SUFFICES ASSUME NEW x \in Drains, NEW v \in held'[x], Owns(x, v)',
                      NEW e \in Earlier(v), Open(e)'
               PROVE  e \in held'[x]
    BY DEF Fronted, Earlier
  <2>1. e \in Updates /\ Open(e)
    BY <1>5 DEF Earlier
  <2>2. CASE x # d
    BY <1>5, <2>1, <2>2 DEF Fronted
  <2>3. CASE x = d /\ v \in us
    BY <1>11, <2>1, <2>3
  <2>4. CASE x = d /\ v \notin us
    BY <1>5, <1>9, <1>10, <2>1, <2>4
  <2>5. QED
    BY <2>2, <2>3, <2>4
<1>13. QED
  BY <1>7, <1>8, <1>12

\* Every other step of a loop eases the order.
LEMMA RestOfLoopEases ==
    ASSUME TypeOK, NEW d \in Drains,
           Settles(d) \/ Retires(d) \/ LetsGo(d) \/ FreesLeases(d) \/ RowsRest
    PROVE  Eases
<1>1. \A x \in Drains : held[x] \subseteq Updates
  BY DEF TypeOK
<1>2. CASE Settles(d)
  <2>1. PICK u \in held[d], final \in {"completed", "failed"} :
           Owns(d, u) /\ Settle(u, final) /\ Drop(d, {u})
    BY <1>2 DEF Settles
  <2>2. u \in Updates /\ status[u] = "processing"
    BY <1>1, <2>1 DEF Owns
  <2>3. \A v \in Updates : /\ status'[v] = IF v = u THEN final ELSE status[v]
                           /\ live'[v] => live[v]
    BY <2>1 DEF Settle, TypeOK
  <2>4. \A x \in Drains :
           /\ held'[x] = IF x = d THEN held[x] \ {u} ELSE held[x]
           /\ \A v \in held'[x] : token'[x][v] = token[x][v]
    BY <1>1, <2>1 DEF Drop, TypeOK
  <2>5. UNCHANGED <<attempt, dispatched>>
    BY <1>2 DEF Settles
  <2>6. \A v \in Updates : (status'[v] = "absent" <=> status[v] = "absent") /\ (Open(v)' => Open(v))
    BY <2>2, <2>3 DEF Open
  <2>7. \A x \in Drains : \A v \in held'[x] : v \in held[x] /\ (Owns(x, v)' => Owns(x, v))
    <3> SUFFICES ASSUME NEW x \in Drains, NEW v \in held'[x]
                 PROVE  v \in held[x] /\ (Owns(x, v)' => Owns(x, v))
      OBVIOUS
    <3>1. v \in held[x] /\ v \in Updates /\ token'[x][v] = token[x][v]
      BY <1>1, <2>4
    <3>2. Owns(x, v)' => v # u
      BY <2>2, <2>3 DEF Owns
    <3>3. QED
      BY <2>3, <2>5, <3>1, <3>2 DEF Owns
  <2>8. \A x \in Drains : \A e \in held[x] : Open(e)' => e \in held'[x]
    BY <2>2, <2>3, <2>4 DEF Open
  <2>9. QED
    BY <2>5, <2>6, <2>7, <2>8 DEF Eases
<1>3. CASE Retires(d)
  <2>1. PICK us \in SUBSET {u \in Updates : status[u] = "pending"} :
           \E final \in [us -> {"completed", "failed"}] :
           status' = [u \in Updates |-> IF u \in us THEN final[u] ELSE status[u]]
    BY <1>3 DEF Retires
  <2>2. \A u \in Updates :
           \/ status'[u] = status[u]
           \/ status[u] = "pending" /\ status'[u] \in {"completed", "failed"}
    BY <2>1
  <2>3. UNCHANGED <<attempt, live, dispatched, held, token>>
    BY <1>3 DEF Retires
  <2>4. QED
    BY <1>1, <2>2, <2>3 DEF Eases, Open, Owns
<1>4. CASE LetsGo(d)
  <2>1. UNCHANGED <<status, attempt, live, dispatched>>
    BY <1>4 DEF LetsGo
  <2>2. \A x \in Drains : held'[x] = IF x = d THEN {} ELSE held[x]
    BY <1>4 DEF LetsGo, Drop, TypeOK
  <2>3. \A x \in Drains \ {d} : token'[x] = token[x]
    BY <1>4 DEF LetsGo, Drop, TypeOK
  <2>4. QED
    BY <2>1, <2>2, <2>3 DEF Eases, Open, Owns
<1>5. CASE FreesLeases(d)
  BY <1>1, <1>5 DEF FreesLeases, Eases, Open, Owns, TypeOK
<1>6. CASE RowsRest
  BY <1>6 DEF RowsRest, Eases, Open, Owns
<1>7. QED
  BY <1>2, <1>3, <1>4, <1>5, <1>6

LEMMA ArrivalKeepsOrder ==
    ASSUME "late_arrival" \notin Faults, TypeOK, ArrivedInOrder, Fronted, EnteredFirst,
           NEW u \in Updates, Arrive(u)
    PROVE  ArrivedInOrder' /\ Fronted' /\ EnteredFirst'
<1>1. \A e \in Earlier(u) : status[e] # "absent"
  BY DEF Arrive
<1>2. status[u] = "absent" /\ ~dispatched[u] /\ \A v \in Later(u) : status[v] = "absent"
  BY DEF Arrive, ArrivedInOrder
<1>3. \A v \in Updates : status'[v] = IF v = u THEN "pending" ELSE status[v]
  BY DEF Arrive, TypeOK
<1>4. UNCHANGED <<attempt, live, dispatched, held, token>>
  BY DEF Arrive, drainVars
<1>5. \A d \in Drains : held[d] \subseteq Updates
  BY DEF TypeOK
<1>6. \A v, w \in Updates : v \in Earlier(w) <=> w \in Later(v)
  BY UpdatesAssumption DEF Earlier, Later
<1>7. \A v \in Updates : Earlier(v) \subseteq Updates /\ Later(v) \subseteq Updates
  BY DEF Earlier, Later
<1>8. ArrivedInOrder'
  <2> SUFFICES ASSUME NEW v \in Updates, status'[v] = "absent", NEW w \in Later(v)
               PROVE  ~dispatched'[v] /\ status'[w] = "absent"
    BY <1>2, <1>3, <1>4 DEF ArrivedInOrder, Later
  <2>1. status[v] = "absent"
    BY <1>3
  <2>2. w # u
    BY <1>1, <1>6, <2>1
  <2>3. QED
    BY <1>3, <1>4, <1>7, <2>1, <2>2 DEF ArrivedInOrder
<1>9. Fronted'
  <2> SUFFICES ASSUME NEW d \in Drains, NEW v \in held[d], Owns(d, v)',
                      NEW e \in Earlier(v), Open(e)'
               PROVE  e \in held[d]
    BY <1>4 DEF Fronted, Earlier
  <2>1. v # u /\ Owns(d, v)
    BY <1>3, <1>4, <1>5 DEF Owns
  <2>2. e # u
    BY <1>2, <1>5, <1>6, <2>1 DEF Owns
  <2>3. Open(e)
    BY <1>3, <1>5, <1>7, <2>2 DEF Open
  <2>4. QED
    BY <2>1, <2>3 DEF Fronted
<1>10. EnteredFirst'
  <2> SUFFICES ASSUME NEW v \in Updates, Open(v)', dispatched[v], NEW e \in Earlier(v), Open(e)'
               PROVE  FALSE
    BY <1>4 DEF EnteredFirst, AtHead, Earlier
  <2>1. v # u /\ Open(v)
    BY <1>2, <1>3 DEF Open
  <2>2. e # u
    BY <1>2, <1>6, <2>1 DEF Open
  <2>3. Open(e)
    BY <1>3, <1>7, <2>2 DEF Open
  <2>4. QED
    BY <2>1, <2>3 DEF EnteredFirst, AtHead
<1>11. QED
  BY <1>8, <1>9, <1>10

\* A drain of a process starts only by awaiting the release of stale leases.
Awaited == release # "done" => \A d \in Drains : pc[d] \in {"off", "release"}

LEMMA AwaitedStep ==
    ASSUME TypeOK, Awaited, NEW d \in Drains,
           DrainStep(d) \/ ScheduleDrain(d) \/ HeartbeatFails(d) \/ DatabaseError(d)
    PROVE  Awaited'
<1>1. \A x \in Drains \ {d} : pc'[x] = pc[x]
  BY OthersKeep
<1>2. CASE ReleaseStaleLeases(d)
  BY <1>2 DEF ReleaseStaleLeases, Awaited
<1>3. CASE ReleaseRejects(d)
  BY <1>1, <1>3 DEF ReleaseRejects, Awaited, Goto, TypeOK
<1>4. CASE ScheduleDrain(d)
  BY <1>1, <1>4 DEF ScheduleDrain, Awaited, Goto, TypeOK
<1>5. CASE ~ReleaseStaleLeases(d) /\ ~ReleaseRejects(d) /\ ~ScheduleDrain(d)
  <2>1. pc[d] \notin {"off", "release"} /\ release' = release
    BY <1>5 DEF DrainStep, LoopStep, RetireMigratedChatIngress, ClaimNext,
       ClaimNothing, PrepareWithoutEve, PrepareForEve, BeginVoiceTranscription,
       TranscribeVoice, SaveVoiceTranscript, ClaimFollowing, BeginDispatch,
       DispatchWithoutTurn, DispatchTurn, DispatchFails, ReadCursor, ObserveBoundary,
       LoseBoundary, RotateLostSession, CompleteWithSession, Complete, FailHeld,
       HeartbeatFails, DatabaseError
  <2>2. QED
    BY <2>1 DEF Awaited
<1>6. QED
  BY <1>2, <1>3, <1>4, <1>5

\* Without deaths and stalls nothing takes a held row from its loop, and no row is
\* left in processing by nobody.
LEMMA AttendedOfLoop ==
    ASSUME Tame, OrderInv, TypeOK', NEW d \in Drains,
           DrainStep(d) \/ ScheduleDrain(d) \/ HeartbeatFails(d) \/ DatabaseError(d)
    PROVE  Attended'
<1> USE DEF OrderInv
<1>1. TypeOK /\ Attended /\ \A x \in Drains : held[x] \subseteq Updates
  BY DEF LeaseInv, TypeInv, TypeOK
<1> DEFINE Owned == \A x \in Drains : \A u \in held[x] : Owns(x, u)
           HeldOnes == \A u \in Updates : status[u] = "processing" => \E x \in Drains : u \in held[x]
<1>2. Owned /\ HeldOnes /\ Awaited
  BY <1>1 DEF Attended, Awaited
<1>3. Awaited'
  BY <1>1, <1>2, AwaitedStep
<1>4. \A x \in Drains \ {d} : \A u \in held[x] : u \notin held[d]
  BY <1>2 DEF LeaseInv, TokensDiffer, Owns
<1>5. ASSUME NEW us \in SUBSET Updates, Lease(d, us), \A u \in us : status[u] = "pending"
      PROVE  Owned' /\ HeldOnes'
  <2>1. \A u \in us : Open(u)
    BY <1>5 DEF Open
  <2>2. /\ \A u \in Updates : status'[u] = IF u \in us THEN "processing" ELSE status[u]
        /\ held'[d] = held[d] \cup us
        /\ \A u \in us : Owns(d, u)'
        /\ \A u \in held[d] \ us : Owns(d, u)' <=> Owns(d, u)
        /\ \A x \in Drains \ {d} :
              /\ held'[x] = held[x]
              /\ \A u \in held[x] : (Owns(x, u)' <=> Owns(x, u) /\ u \notin us)
    BY <1>5, <2>1, LeaseMoves
  <2>3. \A x \in Drains : \A u \in held[x] : u \notin us
    BY <1>2, <1>5 DEF Owns
  <2>4. Owned'
    BY <1>2, <2>2, <2>3
  <2>5. HeldOnes'
    BY <1>2, <2>2
  <2>6. QED
    BY <2>4, <2>5
<1>6. CASE Claims(d)
  <2>1. PICK u \in Updates : Unleased(u) /\ Lease(d, {u})
    BY <1>6 DEF Claims
  <2>2. status[u] = "pending"
    BY <1>2, <2>1 DEF Unleased, Owns
  <2>3. QED
    BY <1>3, <1>5, <2>1, <2>2 DEF Awaited, Attended
<1>7. CASE Follows(d)
  <2>1. PICK us \in {{}, UNION {Followers(v) : v \in held[d]}} : Lease(d, us)
    BY <1>7 DEF Follows
  <2>2. us \in SUBSET Updates /\ \A u \in us : status[u] = "pending"
    BY <1>1, <2>1, FollowersPending
  <2>3. QED
    BY <1>3, <1>5, <2>1, <2>2 DEF Awaited, Attended
<1>8. CASE Settles(d)
  <2>1. PICK u \in held[d], final \in {"completed", "failed"} :
           Owns(d, u) /\ Settle(u, final) /\ Drop(d, {u})
    BY <1>8 DEF Settles
  <2>2. u \in Updates
    BY <1>1
  <2>3. \A v \in Updates : /\ status'[v] = IF v = u THEN final ELSE status[v]
                           /\ v # u => live'[v] = live[v]
    BY <1>1, <2>1 DEF Settle, TypeOK
  <2>4. \A x \in Drains :
           /\ held'[x] = IF x = d THEN held[x] \ {u} ELSE held[x]
           /\ \A v \in held'[x] : token'[x][v] = token[x][v]
    BY <1>1, <2>1 DEF Drop, TypeOK
  <2>5. attempt' = attempt
    BY <1>8 DEF Settles
  <2>6. \A x \in Drains : \A v \in held'[x] : v \in held[x] /\ v # u
    BY <1>4, <2>1, <2>4
  <2>7. Owned'
    <3> SUFFICES ASSUME NEW x \in Drains, NEW v \in held'[x] PROVE Owns(x, v)'
      OBVIOUS
    <3>1. v \in Updates /\ v # u /\ Owns(x, v)
      BY <1>1, <1>2, <2>6
    <3>2. status'[v] = status[v] /\ live'[v] = live[v] /\ token'[x][v] = token[x][v]
      BY <2>3, <2>4, <3>1
    <3>3. QED
      BY <2>5, <3>1, <3>2 DEF Owns
  <2>8. HeldOnes'
    <3> SUFFICES ASSUME NEW v \in Updates, status'[v] = "processing"
                 PROVE  \E x \in Drains : v \in held'[x]
      OBVIOUS
    <3>1. v # u /\ status[v] = "processing"
      BY <2>3
    <3>2. PICK x \in Drains : v \in held[x]
      BY <1>2, <3>1
    <3>3. v \in held'[x]
      BY <2>4, <3>1, <3>2
    <3>4. QED
      BY <3>3
  <2>9. QED
    BY <1>3, <2>7, <2>8 DEF Awaited, Attended
<1>9. CASE Retires(d)
  <2>1. \A u \in Updates :
           \/ status'[u] = status[u]
           \/ status[u] = "pending" /\ status'[u] # "processing"
    <3>1. PICK us \in SUBSET {u \in Updates : status[u] = "pending"} :
             \E final \in [us -> {"completed", "failed"}] :
                status' = [u \in Updates |-> IF u \in us THEN final[u] ELSE status[u]]
      BY <1>9 DEF Retires
    <3>2. QED
      BY <3>1
  <2>2. UNCHANGED <<attempt, live, dispatched, held, token>>
    BY <1>9 DEF Retires
  <2>3. Owned' /\ HeldOnes'
    BY <1>1, <1>2, <2>1, <2>2 DEF Owns
  <2>4. QED
    BY <1>3, <2>3 DEF Awaited, Attended
<1>10. CASE LetsGo(d)
  BY <1>2, <1>10 DEF LetsGo, Tame
<1>11. CASE FreesLeases(d)
  <2>1. UNCHANGED <<status, attempt, held, token>>
    BY <1>11 DEF FreesLeases
  <2>2. CASE release = "none"
    <3>1. \A x \in Drains : held[x] = {}
      BY <1>2, <2>2 DEF Awaited, HoldsWhatItWorksOn
    <3>2. Owned' /\ HeldOnes'
      BY <1>2, <2>1, <3>1
    <3>3. QED
      BY <1>3, <3>2 DEF Awaited, Attended
  <2>3. CASE release # "none"
    <3>1. live' = live
      BY <1>11, <2>3 DEF FreesLeases
    <3>2. Owned' /\ HeldOnes'
      BY <1>2, <2>1, <3>1 DEF Owns
    <3>3. QED
      BY <1>3, <3>2 DEF Awaited, Attended
  <2>4. QED
    BY <2>2, <2>3
<1>12. CASE Enters(d) \/ RowsRest
  <2>1. UNCHANGED <<status, attempt, live, held, token>>
    BY <1>12 DEF Enters, RowsRest
  <2>2. Owned' /\ HeldOnes'
    BY <1>2, <2>1 DEF Owns
  <2>3. QED
    BY <1>3, <2>2 DEF Awaited, Attended
<1>13. QED
  <2>1. TypeInv
    BY DEF LeaseInv
  <2>2. QED
    BY <1>6, <1>7, <1>8, <1>9, <1>10, <1>11, <1>12, <2>1, KindOfStep

LEMMA AttendedStep ==
    ASSUME Tame, OrderInv, TypeOK', [Next]_vars
    PROVE  Attended'
<1> USE DEF OrderInv
<1>1. TypeOK /\ Attended /\ \A x \in Drains : held[x] \subseteq Updates
  BY DEF LeaseInv, TypeInv, TypeOK
<1>2. ASSUME UNCHANGED <<status, attempt, live, held, token, release, pc>> PROVE Attended'
  BY <1>1, <1>2 DEF Attended, Owns
<1>3. ASSUME NEW u \in Updates, Arrive(u) PROVE Attended'
  <2>1. \A v \in Updates : status'[v] = IF v = u THEN "pending" ELSE status[v]
    BY <1>1, <1>3 DEF Arrive, TypeOK
  <2>2. UNCHANGED <<attempt, live, held, token, release, pc>> /\ status[u] = "absent"
    BY <1>3 DEF Arrive, drainVars
  <2>3. \A x \in Drains : \A v \in held[x] : v # u
    BY <1>1, <2>2 DEF Attended, Owns
  <2>4. QED
    BY <1>1, <2>1, <2>2, <2>3 DEF Attended, Owns
<1>4. ASSUME NEW u \in Updates, LeaseExpires(u) PROVE FALSE
  <2>1. PICK x \in Drains : u \in held[x]
    BY <1>1, <1>4 DEF LeaseExpires, Attended
  <2>2. x \in Holder(u)
    BY <1>1, <2>1 DEF Holder, Attended
  <2>3. "expiry" \in Faults
    BY <1>4, <2>2 DEF LeaseExpires, Fault
  <2>4. QED
    BY <2>3 DEF Tame
<1>5. ASSUME NEW s \in Sessions, TurnEnds(s) PROVE Attended'
  BY <1>2, <1>5 DEF TurnEnds, rowVars, drainVars
<1>6. ASSUME NEW q \in Queues, Migrate(q) PROVE Attended'
  BY <1>2, <1>6 DEF Migrate, rowVars, drainVars
<1>7. CASE Crash
  BY <1>7 DEF Crash, Fault, Tame
<1>8. CASE UNCHANGED vars
  BY <1>2, <1>8 DEF vars, rowVars, drainVars
<1>9. QED
  BY <1>3, <1>4, <1>5, <1>6, <1>7, <1>8, AttendedOfLoop DEF Next

LEMMA OrderStep == Orderly /\ OrderInv /\ [Next]_vars => OrderInv'
<1> SUFFICES ASSUME Orderly, OrderInv, [Next]_vars PROVE OrderInv'
  OBVIOUS
<1> USE DEF OrderInv
<1>1. LeaseInv' /\ HoldsWhatItWorksOn'
  BY LeaseStep, HoldsStep DEF LeaseInv
<1>2. TypeInv /\ TypeOK /\ TypeOK' /\ \A x \in Drains : held[x] \subseteq Updates
  BY <1>1 DEF LeaseInv, TypeInv, TypeOK
<1>3. Tame => Attended'
  BY <1>2, AttendedStep
<1> DEFINE Kept == ArrivedInOrder' /\ Fronted' /\ EnteredFirst'
<1>4. ASSUME NEW d \in Drains,
             DrainStep(d) \/ ScheduleDrain(d) \/ HeartbeatFails(d) \/ DatabaseError(d)
      PROVE  Kept
  <2>1. CASE Claims(d)
    BY <1>2, <2>1, ClaimKeepsOrder
  <2>2. CASE Follows(d)
    BY <1>2, <2>2, FollowKeepsOrder
  <2>3. CASE Enters(d)
    BY <1>2, <2>3, EntryKeepsOrder
  <2>4. CASE Settles(d) \/ Retires(d) \/ LetsGo(d) \/ FreesLeases(d) \/ RowsRest
    BY <1>2, <2>4, RestOfLoopEases, EasesKeepsOrder
  <2>5. QED
    BY <1>2, <1>4, <2>1, <2>2, <2>3, <2>4, KindOfStep
<1>5. ASSUME NEW u \in Updates, Arrive(u) PROVE Kept
  BY <1>2, <1>5, ArrivalKeepsOrder DEF Orderly
<1>6. ASSUME Eases PROVE Kept
  BY <1>2, <1>6, EasesKeepsOrder
<1>7. ASSUME NEW u \in Updates, LeaseExpires(u) PROVE Kept
  <2>1. /\ UNCHANGED <<status, attempt, dispatched, held, token>>
        /\ \A v \in Updates : live'[v] => live[v]
    BY <1>2, <1>7 DEF LeaseExpires, drainVars, TypeOK
  <2>2. Eases
    BY <1>2, <2>1 DEF Eases, Open, Owns
  <2>3. QED
    BY <1>6, <2>2
<1>8. ASSUME RowsRest PROVE Kept
  BY <1>6, <1>8 DEF RowsRest, Eases, Open, Owns
<1>9. ASSUME NEW s \in Sessions, TurnEnds(s) PROVE Kept
  BY <1>8, <1>9 DEF TurnEnds, rowVars, drainVars, RowsRest
<1>10. ASSUME NEW q \in Queues, Migrate(q) PROVE Kept
  BY <1>8, <1>10 DEF Migrate, rowVars, drainVars, RowsRest
<1>11. ASSUME Crash PROVE Kept
  <2>1. Eases
    BY <1>11 DEF Crash, rowVars, Eases, Open
  <2>2. QED
    BY <1>6, <2>1
<1>12. ASSUME UNCHANGED vars PROVE Kept
  BY <1>8, <1>12 DEF vars, rowVars, drainVars, RowsRest
<1>13. Kept
  BY <1>4, <1>5, <1>7, <1>9, <1>10, <1>11, <1>12 DEF Next
<1>14. QED
  BY <1>1, <1>3, <1>13

LEMMA OrderCorrect == Orderly => (Spec => []OrderInv)
<1> SUFFICES ASSUME Orderly PROVE Spec => []OrderInv
  OBVIOUS
<1>1. OrderInv /\ [Next]_vars => OrderInv'
  BY OrderStep
<1>2. QED
  BY <1>1, OrderInit, PTL DEF Spec

\* What the steps are to the chat.
LEMMA PhaseStep == Orderly /\ OrderInv /\ [Next]_vars => [Order!Next]_Phase
<1> SUFFICES ASSUME Orderly, OrderInv, [Next]_vars PROVE [Order!Next]_Phase
  OBVIOUS
<1> USE DEF OrderInv
<1>1. TypeInv /\ TypeOK /\ \A x \in Drains : held[x] \subseteq Updates
  BY DEF LeaseInv, TypeInv, TypeOK
<1> DEFINE PhaseOf(u) == CASE status[u] = "absent" -> "absent"
                           [] Terminal(u) -> "settled"
                           [] Open(u) /\ dispatched[u] -> "entered"
                           [] OTHER -> "waiting"
<1>2. Phase = [u \in Updates |-> PhaseOf(u)]
  BY DEF Phase
<1>3. Phase' = [u \in Updates |-> PhaseOf(u)']
  BY DEF Phase
<1>4. /\ \A u \in Updates : status[u] = "absent" => PhaseOf(u) = "absent"
      /\ \A u \in Updates : Terminal(u) => PhaseOf(u) = "settled"
      /\ \A u \in Updates : Open(u) => PhaseOf(u) = IF dispatched[u] THEN "entered" ELSE "waiting"
      /\ \A u \in Updates : status[u] = "absent" \/ Terminal(u) \/ Open(u)
  BY <1>1 DEF Terminal, Open, TypeOK
<1>5. ASSUME NEW S \in SUBSET Updates,
             \A u \in S : Open(u) /\ status'[u] \in {"completed", "failed"},
             \A u \in Updates \ S : PhaseOf(u)' = PhaseOf(u)
      PROVE  Order!Settle(S)
  <2>1. \A u \in S : PhaseOf(u)' = "settled"
    BY <1>5 DEF Terminal, Open
  <2> HIDE DEF PhaseOf
  <2>2. Phase' = [u \in Updates |-> IF u \in S THEN "settled" ELSE Phase[u]]
    BY <1>2, <1>3, <1>5, <2>1
  <2>3. \A u \in S : Phase[u] \in {"waiting", "entered"}
    BY <1>2, <1>4, <1>5
  <2>4. QED
    BY <2>2, <2>3 DEF Order!Settle
<1>6. ASSUME \A u \in Updates : PhaseOf(u)' = PhaseOf(u) PROVE Phase' = Phase
  <2> HIDE DEF PhaseOf
  <2>1. QED
    BY <1>2, <1>3, <1>6
<1>7. ASSUME \A u \in Updates : (Open(u)' /\ Open(u)) \/ status'[u] = status[u],
             dispatched' = dispatched
      PROVE  Phase' = Phase
  BY <1>6, <1>7 DEF Open, Terminal
<1>8. ASSUME NEW d \in Drains,
             DrainStep(d) \/ ScheduleDrain(d) \/ HeartbeatFails(d) \/ DatabaseError(d)
      PROVE  Phase' = Phase \/ Order!Next
  <2>1. CASE Claims(d)
    BY <1>7, <2>1 DEF Claims, Lease, Unleased, Open
  <2>2. CASE Follows(d)
    <3>1. PICK us \in {{}, UNION {Followers(v) : v \in held[d]}} : Lease(d, us)
      BY <2>2 DEF Follows
    <3>2. \A u \in us : status[u] = "pending"
      BY <1>1, <3>1, FollowersPending
    <3>3. QED
      BY <1>7, <2>2, <3>1, <3>2 DEF Follows, Lease, Open
  <2>3. CASE Enters(d)
    <3>1. PICK u \in held[d] :
             IsFirst(u, held[d]) /\ MayEnterEve(d, u) /\ dispatched' = [dispatched EXCEPT ![u] = TRUE]
      BY <2>3 DEF Enters
    <3>2. u \in Updates /\ Open(u) /\ ~dispatched[u] /\ status' = status
      BY <1>1, <2>3, <3>1 DEF MayEnterEve, Owns, Open, Enters
    <3>3. \A v \in Updates : dispatched'[v] = (v = u \/ dispatched[v])
      BY <1>1, <3>1 DEF TypeOK
    <3>4. AtHead(u)
      <4>1. EnteredFirst' /\ TypeOK'
        BY OrderStep DEF LeaseInv, TypeInv
      <4>2. AtHead(u)'
        BY <3>2, <3>3, <4>1 DEF EnteredFirst, Open
      <4>3. QED
        BY <3>2, <4>2 DEF AtHead, Open, Earlier
    <3>5. PhaseOf(u) = "waiting" /\ PhaseOf(u)' = "entered"
      BY <3>2, <3>3 DEF Open, Terminal
    <3>6. \A v \in Updates \ {u} : PhaseOf(v)' = PhaseOf(v)
      BY <3>2, <3>3 DEF Open, Terminal
    <3>7. \A e \in Earlier(u) : PhaseOf(e) \in {"absent", "settled"}
      BY <1>4, <3>4 DEF AtHead, Earlier
    <3>8. \A v \in Updates : Queue[v] = Queue[u] => PhaseOf(v) # "entered"
      <4> SUFFICES ASSUME NEW v \in Updates, Queue[v] = Queue[u], PhaseOf(v) = "entered" PROVE FALSE
        OBVIOUS
      <4>1. Open(v) /\ dispatched[v]
        BY <1>4
      <4>2. AtHead(v)
        BY <4>1 DEF EnteredFirst
      <4>3. v \in Earlier(u) \/ v = u \/ u \in Earlier(v)
        BY <3>2, UpdatesAssumption DEF Earlier
      <4>4. QED
        BY <3>2, <3>4, <4>1, <4>2, <4>3 DEF AtHead
    <3> HIDE DEF PhaseOf
    <3>9. Phase' = [Phase EXCEPT ![u] = "entered"]
      BY <1>2, <1>3, <3>2, <3>5, <3>6
    <3>10. Order!Before(u) = Earlier(u)
      BY DEF Order!Before, Earlier
    <3>11. Order!Enter(u)
      BY <1>2, <3>2, <3>5, <3>7, <3>8, <3>9, <3>10 DEF Order!Enter, Earlier
    <3>12. QED
      BY <3>2, <3>11 DEF Order!Next
  <2>4. CASE Settles(d)
    <3>1. PICK u \in held[d], final \in {"completed", "failed"} : Owns(d, u) /\ Settle(u, final)
      BY <2>4 DEF Settles
    <3>2. \A v \in Updates : status'[v] = IF v = u THEN final ELSE status[v]
      BY <1>1, <3>1 DEF Settle, TypeOK
    <3>3. u \in Updates /\ Open(u) /\ dispatched' = dispatched
      BY <1>1, <2>4, <3>1 DEF Owns, Open, Settles
    <3>4. \A v \in Updates \ {u} : PhaseOf(v)' = PhaseOf(v)
      BY <3>2, <3>3 DEF Open, Terminal
    <3> HIDE DEF PhaseOf
    <3>5. Order!Settle({u})
      BY <1>5, <3>2, <3>3, <3>4
    <3>6. QED
      BY <3>3, <3>5 DEF Order!Next
  <2>5. CASE Retires(d)
    <3>1. PICK us \in SUBSET {u \in Updates : status[u] = "pending"} :
             \E final \in [us -> {"completed", "failed"}] :
                status' = [u \in Updates |-> IF u \in us THEN final[u] ELSE status[u]]
      BY <2>5 DEF Retires
    <3>2. /\ \A u \in us : Open(u) /\ status'[u] \in {"completed", "failed"}
          /\ \A u \in Updates \ us : status'[u] = status[u]
          /\ us \in SUBSET Updates
          /\ dispatched' = dispatched
      BY <2>5, <3>1 DEF Retires, Open
    <3>3. \A v \in Updates \ us : PhaseOf(v)' = PhaseOf(v)
      BY <3>2 DEF Open, Terminal
    <3> HIDE DEF PhaseOf
    <3>4. Order!Settle(us)
      BY <1>5, <3>2, <3>3
    <3>5. QED
      BY <3>2, <3>4 DEF Order!Next
  <2>6. CASE LetsGo(d) \/ FreesLeases(d) \/ RowsRest
    BY <1>7, <2>6 DEF LetsGo, FreesLeases, RowsRest
  <2>7. QED
    BY <1>1, <1>8, <2>1, <2>2, <2>3, <2>4, <2>5, <2>6, KindOfStep
<1>9. ASSUME NEW u \in Updates, Arrive(u) PROVE Order!Next
  <2>1. \A v \in Updates : status'[v] = IF v = u THEN "pending" ELSE status[v]
    BY <1>1, <1>9 DEF Arrive, TypeOK
  <2>2. dispatched' = dispatched /\ status[u] = "absent" /\ ~dispatched[u]
    BY <1>9 DEF Arrive, ArrivedInOrder
  <2>3. PhaseOf(u) = "absent" /\ PhaseOf(u)' = "waiting"
    BY <2>1, <2>2 DEF Open, Terminal
  <2>4. \A v \in Updates \ {u} : PhaseOf(v)' = PhaseOf(v)
    BY <2>1, <2>2 DEF Open, Terminal
  <2> HIDE DEF PhaseOf
  <2>5. Phase' = [Phase EXCEPT ![u] = "waiting"]
    BY <1>2, <1>3, <2>3, <2>4
  <2>6. Order!Accept(u)
    BY <1>2, <2>3, <2>5 DEF Order!Accept
  <2>7. QED
    BY <2>6 DEF Order!Next
<1>10. ASSUME UNCHANGED <<status, dispatched>> PROVE Phase' = Phase
  BY <1>7, <1>10
<1>11. ASSUME NEW u \in Updates, LeaseExpires(u) PROVE Phase' = Phase
  BY <1>10, <1>11 DEF LeaseExpires
<1>12. ASSUME NEW s \in Sessions, TurnEnds(s) PROVE Phase' = Phase
  BY <1>10, <1>12 DEF TurnEnds, rowVars
<1>13. ASSUME NEW q \in Queues, Migrate(q) PROVE Phase' = Phase
  BY <1>10, <1>13 DEF Migrate, rowVars
<1>14. CASE Crash \/ UNCHANGED vars
  BY <1>10, <1>14 DEF Crash, vars, rowVars
<1>15. QED
  BY <1>8, <1>9, <1>11, <1>12, <1>13, <1>14 DEF Next

\* The rows implement the promise: the messages of a chat enter Eve one at a time, each
\* only when everything the chat said before it is settled.
THEOREM InOrderCorrect == Orderly => (Spec => InOrder)
<1> SUFFICES ASSUME Orderly PROVE Spec => InOrder
  OBVIOUS
<1>1. Init => Order!Init
  <2> SUFFICES ASSUME Init PROVE Order!Init
    OBVIOUS
  <2>1. \A u \in Updates : status[u] = "absent"
    BY DEF Init
  <2>2. Phase = [u \in Updates |-> "absent"]
    BY <2>1 DEF Phase, Terminal, Open
  <2>3. QED
    BY <2>2 DEF Order!Init
<1>2. OrderInv /\ [Next]_vars => [Order!Next]_Phase
  BY PhaseStep
<1>3. Spec => []OrderInv
  BY OrderCorrect
<1>4. QED
  BY <1>1, <1>2, <1>3, PTL DEF Spec, InOrder, Order!Spec

-----------------------------------------------------------------------------
(* The turns of a chat.  While nothing but silence and migrations goes wrong,  *)
(* one loop at a time has turns of a chat, and the cursor it starts from is    *)
(* where the stream stood before its own turn: a lost boundary costs the       *)
(* session, so nobody reads the stream that the lost turn may yet write to.    *)

\* The faults that leave a turn in a session with nobody waiting for it, or a loop
\* with a lease that is no longer its own, are absent.
Steady == Faults \subseteq {"boundary_lost", "migration", "release_error"}

CurrentOf(q) == <<q, current[q]>>
Waits(d) == pc[d] \in {"cursor", "wait", "rotate", "finish"}

FutureEmpty == \A s \in Sessions : s[2] > current[s[1]] => turns[s] = <<>> /\ cursor[s] = 0

\* The turn a loop waits for is the last of the current session, and the only one the
\* cursor has not passed.
WaitsForOwn ==
    \A d \in Drains : \A u \in held[d] : Waits(d) =>
        /\ session[d] = CurrentOf(Queue[u])
        /\ Len(turns[session[d]]) = cursor[session[d]] + 1
        /\ turns[session[d]][cursor[session[d]] + 1] = u
        /\ pc[d] \in {"wait", "finish"} => from[d] = cursor[session[d]]
Awaits(q) == \E d \in Drains : \E u \in held[d] : Waits(d) /\ Queue[u] = q
AllClosed ==
    \A q \in Queues :
        ~Awaits(q) => Len(turns[CurrentOf(q)]) = cursor[CurrentOf(q)]
BeatsKept == \A d \in Drains : ~beatLost[d]

SessionInv ==
    /\ OrderInv
    /\ BeatsKept
    /\ FutureEmpty
    /\ WaitsForOwn
    /\ AllClosed
    /\ OwnBoundary

LEMMA SessionInit == Init => SessionInv
<1> SUFFICES ASSUME Init PROVE SessionInv
  OBVIOUS
<1>1. BeatsKept /\ OwnBoundary
  BY DEF Init, BeatsKept, OwnBoundary
<1>2. \A s \in Sessions : turns[s] = <<>> /\ cursor[s] = 0
  BY DEF Init
<1>3. \A q \in Queues : CurrentOf(q) \in Sessions
  BY BoundsAssumption DEF Init, CurrentOf, Sessions
<1>4. FutureEmpty
  BY <1>2 DEF FutureEmpty
<1>5. AllClosed
  BY <1>2, <1>3 DEF AllClosed
<1>6. WaitsForOwn
  BY DEF Init, WaitsForOwn
<1>7. QED
  BY <1>1, <1>4, <1>5, <1>6, OrderInit DEF SessionInv

LEMMA SteadyIsTame == Steady => Tame /\ Orderly
  BY DEF Steady, Tame, Orderly

\* Loops that hold rows hold rows of different chats.
LEMMA ChatsApart ==
    ASSUME Steady, OrderInv, NEW d \in Drains, NEW x \in Drains, d # x,
           NEW u \in held[d], NEW v \in held[x]
    PROVE  Queue[u] # Queue[v]
<1>1. Attended
  BY SteadyIsTame DEF OrderInv
<1>2. u \in Nat /\ v \in Nat
  BY UpdatesAssumption DEF OrderInv, LeaseInv, TypeInv, TypeOK
<1>3. u <= v \/ v <= u
  BY <1>2
<1>4. QED
  BY <1>1, <1>3, SharesNone

\* A step that leaves the sessions alone and every waiting loop waiting for the same.
LEMMA SessionRests ==
    ASSUME SessionInv, OrderInv', BeatsKept', UNCHANGED <<turns, cursor, current, closedBy>>,
           \A d \in Drains :
               /\ Waits(d)' <=> Waits(d)
               /\ Waits(d) =>
                     /\ held'[d] = held[d] /\ session'[d] = session[d]
                     /\ pc'[d] \in {"wait", "finish"} /\ held[d] # {} => from'[d] = cursor[session[d]]
    PROVE  SessionInv'
<1>1. FutureEmpty'
  BY DEF SessionInv, FutureEmpty
<1>2. WaitsForOwn'
  <2> SUFFICES ASSUME NEW d \in Drains, NEW u \in held'[d], Waits(d)'
               PROVE  /\ session'[d] = CurrentOf(Queue[u])'
                      /\ Len(turns'[session'[d]]) = cursor'[session'[d]] + 1
                      /\ turns'[session'[d]][cursor'[session'[d]] + 1] = u
                      /\ pc'[d] \in {"wait", "finish"} => from'[d] = cursor'[session'[d]]
    BY DEF WaitsForOwn
  <2>1. u \in held[d] /\ Waits(d) /\ session'[d] = session[d]
    OBVIOUS
  <2>2. CurrentOf(Queue[u])' = CurrentOf(Queue[u])
    BY DEF CurrentOf
  <2>3. pc'[d] \in {"wait", "finish"} => from'[d] = cursor[session[d]]
    BY <2>1
  <2>4. /\ session[d] = CurrentOf(Queue[u])
        /\ Len(turns[session[d]]) = cursor[session[d]] + 1
        /\ turns[session[d]][cursor[session[d]] + 1] = u
    BY <2>1 DEF SessionInv, WaitsForOwn
  <2>5. QED
    BY <2>1, <2>2, <2>3, <2>4
<1>3. AllClosed'
  <2>1. \A q : Awaits(q) => Awaits(q)'
    BY DEF Awaits
  <2>2. \A q : CurrentOf(q)' = CurrentOf(q)
    BY DEF CurrentOf
  <2>3. QED
    BY <2>1, <2>2 DEF SessionInv, AllClosed
<1>4. OwnBoundary'
  BY DEF SessionInv, OwnBoundary
<1>5. QED
  BY <1>1, <1>2, <1>3, <1>4 DEF SessionInv

LEMMA DispatchKeepsSessions ==
    ASSUME Steady, SessionInv, OrderInv', NEW d \in Drains, DispatchTurn(d)
    PROVE  SessionInv'
<1> USE DEF SessionInv
<1>1. TypeOK /\ TypeOK' /\ \A x \in Drains : held[x] \subseteq Updates
  BY DEF OrderInv, LeaseInv, TypeInv, TypeOK
<1>2. PICK u \in held[d] :
         LET s == <<Queue[u], current[Queue[u]]>> IN
         /\ held[d] = {u}
         /\ turns' = [turns EXCEPT ![s] = Append(@, u)]
         /\ session' = [session EXCEPT ![d] = s]
  BY DEF DispatchTurn
<1> DEFINE q == Queue[u]
           s == CurrentOf(q)
<1>3. u \in Updates /\ q \in Queues /\ s \in Sessions /\ s = <<q, current[q]>>
  BY <1>1, <1>2, ShapesAssumption DEF TypeOK, Sessions, CurrentOf
<1>4. /\ UNCHANGED <<held, beatLost, from, cursor, current, closedBy>>
      /\ pc[d] = "dispatch"
      /\ pc' = [pc EXCEPT ![d] = "cursor"]
  BY DEF DispatchTurn, Goto
<1>5. \A x \in Drains : pc'[x] = IF x = d THEN "cursor" ELSE pc[x]
  BY <1>1, <1>4 DEF TypeOK
<1>6. /\ turns' = [turns EXCEPT ![s] = Append(turns[s], u)]
      /\ session' = [session EXCEPT ![d] = s]
  BY <1>2 DEF CurrentOf
<1> HIDE DEF s, q
<1>7. \A x \in Drains \ {d} : \A v \in held[x] : Queue[v] # q
  BY ChatsApart DEF q
<1>8. Len(turns[s]) = cursor[s]
  <2>1. ~Awaits(q)
    BY <1>4, <1>7 DEF Awaits, Waits
  <2>2. QED
    BY <1>3, <2>1 DEF AllClosed, s
<1>9. /\ \A t \in Sessions \ {s} : turns'[t] = turns[t]
      /\ turns'[s] = Append(turns[s], u)
      /\ turns[s] \in Seq(Updates)
  BY <1>1, <1>3, <1>6 DEF TypeOK
<1>10. Len(turns'[s]) = cursor[s] + 1 /\ turns'[s][cursor[s] + 1] = u
  <2>1. Len(turns'[s]) = Len(turns[s]) + 1 /\ turns'[s][Len(turns[s]) + 1] = u
    BY <1>3, <1>9
  <2>2. QED
    BY <1>8, <2>1
<1>11. /\ session'[d] = s
       /\ \A x \in Drains \ {d} : session'[x] = session[x]
  BY <1>1, <1>6 DEF TypeOK
<1>12. \A r : CurrentOf(r)' = CurrentOf(r) /\ (r # q => CurrentOf(r) # s)
  BY <1>3, <1>4 DEF CurrentOf
<1>13. FutureEmpty'
  <2> SUFFICES ASSUME NEW t \in Sessions, t[2] > current[t[1]]
               PROVE  turns'[t] = <<>> /\ cursor[t] = 0
    BY <1>4 DEF FutureEmpty
  <2>1. t # s
    <3>1. s[2] = current[s[1]] /\ s[2] \in Nat
      BY <1>1, <1>3 DEF TypeOK
    <3>2. QED
      BY <3>1
  <2>2. QED
    BY <1>9, <2>1 DEF FutureEmpty
<1>14. WaitsForOwn'
  <2> SUFFICES ASSUME NEW x \in Drains, NEW v \in held[x], Waits(x)'
               PROVE  /\ session'[x] = CurrentOf(Queue[v])'
                      /\ Len(turns'[session'[x]]) = cursor[session'[x]] + 1
                      /\ turns'[session'[x]][cursor[session'[x]] + 1] = v
                      /\ pc'[x] \in {"wait", "finish"} => from[x] = cursor[session'[x]]
    BY <1>4 DEF WaitsForOwn
  <2>1. CASE x = d
    <3>1. v = u /\ session'[x] = s /\ pc'[x] = "cursor"
      BY <1>2, <1>5, <1>11, <2>1
    <3>2. CurrentOf(Queue[v])' = s
      BY <1>12, <3>1 DEF s, q
    <3>3. QED
      BY <1>10, <3>1, <3>2
  <2>2. CASE x # d
    <3>1. Waits(x) /\ Queue[v] # q /\ session'[x] = session[x] /\ pc'[x] = pc[x]
      BY <1>5, <1>7, <1>11, <2>2 DEF Waits
    <3>2. session[x] = CurrentOf(Queue[v]) /\ session[x] # s
      BY <1>12, <3>1 DEF WaitsForOwn
    <3>3. session[x] \in Sessions
      BY <3>1 DEF OrderInv, LeaseInv, TypeInv, WaitsOnSession, Waits
    <3>4. turns'[session[x]] = turns[session[x]]
      BY <1>9, <3>2, <3>3
    <3>5. QED
      BY <1>12, <3>1, <3>2, <3>4 DEF WaitsForOwn
  <2>3. QED
    BY <2>1, <2>2
<1>15. AllClosed'
  <2> SUFFICES ASSUME NEW r \in Queues, ~Awaits(r)'
               PROVE  Len(turns'[CurrentOf(r)]) = cursor[CurrentOf(r)]
    BY <1>4, <1>12 DEF AllClosed
  <2>1. r # q
    BY <1>2, <1>4, <1>5 DEF Awaits, Waits, q
  <2>2. ~Awaits(r)
    BY <1>4, <1>5 DEF Awaits, Waits
  <2>3. CurrentOf(r) \in Sessions \ {s}
    BY <1>1, <1>12, <2>1 DEF CurrentOf, Sessions, TypeOK
  <2>4. QED
    BY <1>9, <2>2, <2>3 DEF AllClosed
<1>16. BeatsKept' /\ OwnBoundary'
  BY <1>4 DEF BeatsKept, OwnBoundary
<1>17. QED
  BY <1>13, <1>14, <1>15, <1>16

\* A lost boundary: the chat goes on in a session nothing was ever written to.
LEMMA RotationKeepsSessions ==
    ASSUME Steady, SessionInv, OrderInv', NEW d \in Drains, RotateLostSession(d)
    PROVE  SessionInv'
<1> USE DEF SessionInv
<1>1. TypeOK /\ TypeOK' /\ \A x \in Drains : held[x] \subseteq Updates
  BY DEF OrderInv, LeaseInv, TypeInv, TypeOK
<1>2. /\ UNCHANGED <<held, beatLost, session, from, turns, cursor, closedBy>>
      /\ pc[d] = "rotate"
      /\ pc' = [pc EXCEPT ![d] = "failing"]
      /\ current' = Replaced(session[d])
  BY DEF RotateLostSession, Goto, historyVars, Fault, Steady
<1>3. PICK u \in Updates : held[d] = {u}
  BY <1>2 DEF OrderInv, HoldsWhatItWorksOn, Alone
<1> DEFINE q == Queue[u]
<1>4. q \in Queues /\ session[d] = <<q, current[q]>>
  BY <1>2, <1>3, ShapesAssumption DEF WaitsForOwn, Waits, CurrentOf
<1>5. /\ \A r \in Queues : current'[r] = IF r = q THEN current[q] + 1 ELSE current[r]
      /\ \A r \in Queues : current[r] \in Nat
  BY <1>1, <1>2, <1>4 DEF Replaced, TypeOK
<1>6. \A x \in Drains \ {d} : \A v \in held[x] : Queue[v] # q
  BY <1>3, ChatsApart
<1> HIDE DEF q
<1>7. \A x \in Drains : pc'[x] = IF x = d THEN "failing" ELSE pc[x]
  BY <1>1, <1>2 DEF TypeOK
<1>8. \A r \in Queues : r # q => CurrentOf(r)' = CurrentOf(r)
  BY <1>5 DEF CurrentOf
<1>9. FutureEmpty'
  <2> SUFFICES ASSUME NEW t \in Sessions, t[2] > current'[t[1]]
               PROVE  turns[t] = <<>> /\ cursor[t] = 0
    BY <1>2 DEF FutureEmpty
  <2>1. t[1] \in Queues /\ t[2] \in Nat
    BY BoundsAssumption DEF Sessions
  <2>2. t[2] > current[t[1]]
    BY <1>5, <2>1
  <2>3. QED
    BY <2>2 DEF FutureEmpty
<1>10. WaitsForOwn'
  <2> SUFFICES ASSUME NEW x \in Drains, NEW v \in held[x], Waits(x)'
               PROVE  /\ session[x] = CurrentOf(Queue[v])'
                      /\ Len(turns[session[x]]) = cursor[session[x]] + 1
                      /\ turns[session[x]][cursor[session[x]] + 1] = v
                      /\ pc'[x] \in {"wait", "finish"} => from[x] = cursor[session[x]]
    BY <1>2 DEF WaitsForOwn
  <2>1. x # d /\ Waits(x) /\ pc'[x] = pc[x]
    BY <1>7 DEF Waits
  <2>2. Queue[v] # q /\ Queue[v] \in Queues
    BY <1>1, <1>6, <2>1, ShapesAssumption
  <2>3. QED
    BY <1>8, <2>1, <2>2 DEF WaitsForOwn
<1>11. AllClosed'
  <2> SUFFICES ASSUME NEW r \in Queues, ~Awaits(r)'
               PROVE  Len(turns[CurrentOf(r)']) = cursor[CurrentOf(r)']
    BY <1>2 DEF AllClosed
  <2>1. CASE r = q
    <3>1. CurrentOf(r)' = <<q, current[q] + 1>> /\ CurrentOf(r)' \in Sessions
      BY <1>1, <1>4, <1>5, <2>1 DEF CurrentOf, Sessions, TypeOK
    <3>2. current[q] + 1 > current[q]
      BY <1>4, <1>5
    <3>3. turns[CurrentOf(r)'] = <<>> /\ cursor[CurrentOf(r)'] = 0
      BY <3>1, <3>2 DEF FutureEmpty
    <3>4. QED
      BY <3>3
  <2>2. CASE r # q
    <3>1. ~Awaits(r)
      BY <1>2, <1>3, <1>7, <2>2 DEF Awaits, Waits, q
    <3>2. QED
      BY <1>8, <2>2, <3>1 DEF AllClosed
  <2>3. QED
    BY <2>1, <2>2
<1>12. BeatsKept' /\ OwnBoundary'
  BY <1>2 DEF BeatsKept, OwnBoundary
<1>13. QED
  BY <1>9, <1>10, <1>11, <1>12

\* A row is completed by the end of its own turn, and the cursor stands behind it.
LEMMA CompletionKeepsSessions ==
    ASSUME Steady, SessionInv, OrderInv', NEW d \in Drains, CompleteWithSession(d)
    PROVE  SessionInv'
<1> USE DEF SessionInv
<1>1. TypeOK /\ TypeOK' /\ \A x \in Drains : held[x] \subseteq Updates
  BY DEF OrderInv, LeaseInv, TypeInv, TypeOK
<1>2. PICK u \in Updates : held[d] = {u}
  BY DEF CompleteWithSession, OrderInv, HoldsWhatItWorksOn, Alone
<1> DEFINE q == Queue[u]
           s == CurrentOf(q)
<1>3. pc[d] = "finish"
  BY DEF CompleteWithSession
<1>4. /\ session[d] = s
      /\ Len(turns[s]) = cursor[s] + 1
      /\ turns[s][cursor[s] + 1] = u
      /\ from[d] = cursor[s]
  BY <1>2, <1>3 DEF WaitsForOwn, Waits
<1>5. q \in Queues /\ s \in Sessions /\ s = <<q, current[q]>> /\ cursor[s] \in Nat
  BY <1>1, ShapesAssumption DEF TypeOK, Sessions, CurrentOf
<1> HIDE DEF s, q
<1>6. NextEventIndex(d) = cursor[s] + 1 /\ cursor[s] <= NextEventIndex(d)
  BY <1>4, <1>5 DEF NextEventIndex
<1>7. ~beatLost[d] /\ Owns(d, u)
  BY <1>2, SteadyIsTame DEF BeatsKept, OrderInv, Attended
<1>8. /\ Drop(d, {u})
      /\ cursor' = [cursor EXCEPT ![s] = cursor[s] + 1]
      /\ closedBy' = [closedBy EXCEPT ![u] = u]
      /\ Goto(d, "retire")
  BY <1>2, <1>4, <1>6, <1>7 DEF CompleteWithSession
<1>9. UNCHANGED <<beatLost, session, from, turns, current>>
  BY DEF CompleteWithSession, eveVars
<1>10. /\ \A x \in Drains : pc'[x] = IF x = d THEN "retire" ELSE pc[x]
       /\ \A x \in Drains \ {d} : held'[x] = held[x]
       /\ held'[d] = {}
  BY <1>1, <1>2, <1>8 DEF Goto, Drop, TypeOK
<1>11. cursor'[s] = cursor[s] + 1 /\ \A t \in Sessions \ {s} : cursor'[t] = cursor[t]
  BY <1>1, <1>5, <1>8 DEF TypeOK
<1>12. \A x \in Drains \ {d} : \A v \in held[x] : Queue[v] # q
  BY <1>2, ChatsApart DEF q
<1>13. \A r : CurrentOf(r)' = CurrentOf(r) /\ (r # q => CurrentOf(r) # s)
  BY <1>5, <1>9 DEF CurrentOf
<1>14. FutureEmpty'
  <2> SUFFICES ASSUME NEW t \in Sessions, t[2] > current[t[1]]
               PROVE  turns[t] = <<>> /\ cursor'[t] = 0
    BY <1>9 DEF FutureEmpty
  <2>1. t # s
    <3>1. s[2] = current[s[1]] /\ s[2] \in Nat
      BY <1>1, <1>5 DEF TypeOK
    <3>2. QED
      BY <3>1
  <2>2. QED
    BY <1>11, <2>1 DEF FutureEmpty
<1>15. WaitsForOwn'
  <2> SUFFICES ASSUME NEW x \in Drains, NEW v \in held'[x], Waits(x)'
               PROVE  /\ session[x] = CurrentOf(Queue[v])'
                      /\ Len(turns[session[x]]) = cursor'[session[x]] + 1
                      /\ turns[session[x]][cursor'[session[x]] + 1] = v
                      /\ pc'[x] \in {"wait", "finish"} => from[x] = cursor'[session[x]]
    BY <1>9 DEF WaitsForOwn
  <2>1. x # d /\ Waits(x) /\ pc'[x] = pc[x] /\ v \in held[x]
    BY <1>10 DEF Waits
  <2>2. Queue[v] # q
    BY <1>12, <2>1
  <2>3. session[x] = CurrentOf(Queue[v]) /\ session[x] # s
    BY <1>13, <2>1, <2>2 DEF WaitsForOwn
  <2>4. session[x] \in Sessions
    BY <2>1 DEF OrderInv, LeaseInv, TypeInv, WaitsOnSession, Waits
  <2>5. cursor'[session[x]] = cursor[session[x]]
    BY <1>11, <2>3, <2>4
  <2>6. QED
    BY <1>13, <2>1, <2>3, <2>5 DEF WaitsForOwn
<1>16. AllClosed'
  <2> SUFFICES ASSUME NEW r \in Queues, ~Awaits(r)'
               PROVE  Len(turns[CurrentOf(r)]) = cursor'[CurrentOf(r)]
    BY <1>9, <1>13 DEF AllClosed
  <2>1. CASE r = q
    BY <1>4, <1>11, <2>1 DEF s
  <2>2. CASE r # q
    <3>1. ~Awaits(r)
      BY <1>2, <1>10, <2>2 DEF Awaits, Waits, q
    <3>2. CurrentOf(r) \in Sessions \ {s}
      BY <1>1, <1>13, <2>2 DEF CurrentOf, Sessions, TypeOK
    <3>3. QED
      BY <1>11, <3>1, <3>2 DEF AllClosed
  <2>3. QED
    BY <2>1, <2>2
<1>17. BeatsKept'
  BY <1>9 DEF BeatsKept
<1>18. OwnBoundary'
  <2>1. \A v \in Updates : closedBy'[v] = IF v = u THEN u ELSE closedBy[v]
    <3>1. closedBy \in [Updates -> Updates \cup {0}]
      BY <1>1 DEF TypeOK
    <3>2. QED
      BY <1>8, <3>1
  <2>2. \A v \in Updates : closedBy[v] \in {0, v}
    BY DEF OwnBoundary
  <2>3. \A v \in Updates : closedBy'[v] \in {0, v}
    BY <2>1, <2>2
  <2>4. QED
    BY <2>3 DEF OwnBoundary
<1>19. QED
  BY <1>14, <1>15, <1>16, <1>17, <1>18

LEMMA SessionStepOfLoop ==
    ASSUME Steady, SessionInv, OrderInv', NEW d \in Drains,
           DrainStep(d) \/ ScheduleDrain(d) \/ HeartbeatFails(d) \/ DatabaseError(d)
    PROVE  SessionInv'
<1> USE DEF SessionInv
<1>1. TypeOK /\ TypeOK' /\ \A x \in Drains : held[x] \subseteq Updates
  BY DEF OrderInv, LeaseInv, TypeInv, TypeOK
<1>2. \A x \in Drains \ {d} :
         /\ pc'[x] = pc[x] /\ session'[x] = session[x] /\ from'[x] = from[x] /\ held'[x] = held[x]
         /\ Waits(x)' <=> Waits(x)
         /\ Waits(x) /\ pc'[x] \in {"wait", "finish"} /\ held[x] # {} => from'[x] = cursor[session[x]]
  <2>1. \A x \in Drains \ {d} :
           pc'[x] = pc[x] /\ session'[x] = session[x] /\ from'[x] = from[x] /\ held'[x] = held[x]
    BY <1>1, OthersKeep
  <2>2. QED
    BY <2>1 DEF WaitsForOwn, Waits
<1>3. ASSUME UNCHANGED <<turns, cursor, current, closedBy>>, BeatsKept',
             Waits(d)' <=> Waits(d),
             Waits(d) =>
                /\ held'[d] = held[d] /\ session'[d] = session[d]
                /\ pc'[d] \in {"wait", "finish"} /\ held[d] # {} => from'[d] = cursor[session[d]]
      PROVE  SessionInv'
  <2>1. \A x \in Drains :
           /\ Waits(x)' <=> Waits(x)
           /\ Waits(x) =>
                 /\ held'[x] = held[x] /\ session'[x] = session[x]
                 /\ pc'[x] \in {"wait", "finish"} /\ held[x] # {} => from'[x] = cursor[session[x]]
    BY <1>2, <1>3
  <2>2. QED
    BY <1>3, <2>1, SessionRests
<1>4. ~DispatchFails(d) /\ ~DatabaseError(d)
  BY DEF DispatchFails, DatabaseError, Fault, Steady
<1>5. ~HeartbeatFails(d)
  BY SteadyIsTame DEF HeartbeatFails, OrderInv, Attended
<1>6. CASE DispatchTurn(d)
  BY <1>6, DispatchKeepsSessions
<1>7. CASE RotateLostSession(d)
  BY <1>7, RotationKeepsSessions
<1>8. CASE CompleteWithSession(d)
  BY <1>8, CompletionKeepsSessions
<1>9. CASE ReadCursor(d)
  <2>1. /\ UNCHANGED <<turns, cursor, current, closedBy, held, session, beatLost>>
        /\ pc[d] = "cursor"
    BY <1>9 DEF ReadCursor, eveVars, historyVars
  <2>2. pc'[d] = "wait" /\ from'[d] = cursor[session[d]]
    BY <1>1, <1>9 DEF ReadCursor, Goto, TypeOK
  <2>3. QED
    BY <1>3, <2>1, <2>2 DEF Waits, BeatsKept
<1>10. CASE ObserveBoundary(d) \/ LoseBoundary(d)
  <2>1. /\ UNCHANGED <<turns, cursor, current, closedBy, held, session, from, beatLost>>
        /\ pc[d] = "wait"
    BY <1>10 DEF ObserveBoundary, LoseBoundary, eveVars, historyVars
  <2>2. pc'[d] \in {"rotate", "finish"}
    BY <1>1, <1>10 DEF ObserveBoundary, LoseBoundary, Goto, TypeOK
  <2>3. held[d] # {} => from[d] = cursor[session[d]]
    BY <2>1 DEF WaitsForOwn, Waits
  <2>4. QED
    BY <1>3, <2>1, <2>2, <2>3 DEF Waits, BeatsKept
<1>11. CASE /\ ~DispatchTurn(d) /\ ~RotateLostSession(d) /\ ~CompleteWithSession(d)
            /\ ~ReadCursor(d) /\ ~ObserveBoundary(d) /\ ~LoseBoundary(d)
  <2>1. UNCHANGED <<turns, cursor, current, closedBy>>
    BY <1>4, <1>5, <1>11 DEF eveVars, historyVars, DrainStep, LoopStep,
       ReleaseStaleLeases, ReleaseRejects, RetireMigratedChatIngress, ClaimNext,
       ClaimNothing, PrepareWithoutEve, PrepareForEve, BeginVoiceTranscription,
       TranscribeVoice, SaveVoiceTranscript, ClaimFollowing, BeginDispatch,
       DispatchWithoutTurn, Complete, FailHeld, ScheduleDrain
  <2>2. BeatsKept'
    <3>1. beatLost' = beatLost \/ beatLost' = [beatLost EXCEPT ![d] = FALSE]
      BY <1>4, <1>5, <1>11 DEF drainVars, DrainStep, LoopStep,
         ReleaseStaleLeases, ReleaseRejects, RetireMigratedChatIngress, ClaimNext,
         ClaimNothing, PrepareWithoutEve, PrepareForEve, BeginVoiceTranscription,
         TranscribeVoice, SaveVoiceTranscript, ClaimFollowing, BeginDispatch,
         DispatchWithoutTurn, Complete, FailHeld, ScheduleDrain
    <3>2. QED
      BY <1>1, <3>1 DEF BeatsKept, TypeOK
  <2>3. /\ pc[d] \notin {"cursor", "wait", "rotate", "finish"}
        /\ \E label \in Labels \ {"cursor", "wait", "rotate", "finish"} : Goto(d, label)
    BY <1>4, <1>5, <1>11 DEF Labels, DrainStep, LoopStep,
       ReleaseStaleLeases, ReleaseRejects, RetireMigratedChatIngress, ClaimNext,
       ClaimNothing, PrepareWithoutEve, PrepareForEve, BeginVoiceTranscription,
       TranscribeVoice, SaveVoiceTranscript, ClaimFollowing, BeginDispatch,
       DispatchWithoutTurn, Complete, FailHeld, ScheduleDrain
  <2>4. ~Waits(d) /\ ~Waits(d)'
    BY <1>1, <2>3 DEF Waits, Goto, TypeOK
  <2>5. QED
    BY <1>3, <2>1, <2>2, <2>4
<1>12. QED
  BY <1>6, <1>7, <1>8, <1>9, <1>10, <1>11

LEMMA SessionStep == Steady /\ SessionInv /\ [Next]_vars => SessionInv'
<1> SUFFICES ASSUME Steady, SessionInv, [Next]_vars PROVE SessionInv'
  OBVIOUS
<1>1. OrderInv'
  BY OrderStep, SteadyIsTame DEF SessionInv
<1>2. ASSUME UNCHANGED <<turns, cursor, current, closedBy, drainVars>> PROVE SessionInv'
  <2>1. BeatsKept'
    BY <1>2 DEF drainVars, SessionInv, BeatsKept
  <2>2. \A d \in Drains :
           /\ Waits(d)' <=> Waits(d)
           /\ Waits(d) =>
                 /\ held'[d] = held[d] /\ session'[d] = session[d]
                 /\ pc'[d] \in {"wait", "finish"} /\ held[d] # {} => from'[d] = cursor[session[d]]
    BY <1>2 DEF drainVars, Waits, SessionInv, WaitsForOwn
  <2>3. QED
    BY <1>1, <1>2, <2>1, <2>2, SessionRests
<1>3. ASSUME NEW u \in Updates, Arrive(u) \/ LeaseExpires(u) PROVE SessionInv'
  BY <1>2, <1>3 DEF Arrive, LeaseExpires, eveVars, historyVars
<1>4. ASSUME NEW s \in Sessions, TurnEnds(s) PROVE SessionInv'
  BY <1>2, <1>4 DEF TurnEnds, historyVars
<1>5. ASSUME NEW q \in Queues, Migrate(q) PROVE SessionInv'
  BY <1>2, <1>5 DEF Migrate, eveVars, historyVars
<1>6. ~Crash
  BY DEF Crash, Fault, Steady
<1>7. CASE UNCHANGED vars
  BY <1>2, <1>7 DEF vars, eveVars, historyVars
<1>8. QED
  BY <1>1, <1>3, <1>4, <1>5, <1>6, <1>7, SessionStepOfLoop DEF Next

\* However many boundaries are lost and whoever migrates, one loop at a time is inside
\* Eve for a chat, and a message is completed by the end of its own turn.
THEOREM TurnsKeepApartCorrect == Steady => (Spec => []TurnsKeepApart)
<1> SUFFICES ASSUME Steady PROVE Spec => []TurnsKeepApart
  OBVIOUS
<1>1. SessionInv => TurnsKeepApart
  <2> SUFFICES ASSUME SessionInv PROVE TurnsKeepApart
    OBVIOUS
  <2>1. OneLoopInsideEve
    BY ChatsApart DEF SessionInv, OneLoopInsideEve, Inside
  <2>2. QED
    BY <2>1 DEF SessionInv, TurnsKeepApart
<1>2. SessionInv /\ [Next]_vars => SessionInv'
  BY SessionStep
<1>3. QED
  BY <1>1, <1>2, SessionInit, PTL DEF Spec

=============================================================================
