---------------------------- MODULE FinalDeliveryProofs ----------------------------
(***************************************************************************)
(* Proofs about FinalDelivery for any number of executions, of chunks and  *)
(* of failed-turn events: the row keeps its shape, a settled outcome stays *)
(* settled, and Telegram is sent each chunk of the answer at most once, in *)
(* order, by one execution.                                                *)
(***************************************************************************)
EXTENDS FinalDelivery, FiniteSetTheorems, TLAPS

(***************************************************************************)
(* An execution has claimed the delivery when it is past `start`, or has   *)
(* sent something.  The barrier works because only an unsent row can be    *)
(* claimed (ClaimedNotPending), which leaves room for one claimant         *)
(* (OneClaimant); the claimant has sent exactly the chunks below its       *)
(* ordinal, and the one at its ordinal when it is about to confirm it.     *)
(***************************************************************************)
Claimed(e) == pc[e] \in {"send", "confirm", "complete", "fail"} \/ Sent(e) # {}

ClaimedNotPending ==
    \A e \in Executors : Claimed(e) => row.status \notin {"absent", "pending"}
OneClaimant ==
    \A e1, e2 \in Executors : Claimed(e1) /\ Claimed(e2) => e1 = e2
SentBelowOrdinal ==
    \A e \in Executors :
        /\ pc[e] = "send" => Sent(e) = {i \in Ordinals : i < ordinal[e]}
        /\ pc[e] = "confirm" => Sent(e) = {i \in Ordinals : i <= ordinal[e]}
ShownOnce == \A e \in Executors : \A i \in Ordinals : shown[e][i] <= 1
\* An execution that has not passed `start` is at the first chunk.
FreshAtFirst ==
    \A e \in Executors : pc[e] \in {"idle", "suspend", "start"} => ordinal[e] = 0

Inv ==
    /\ TypeOK
    /\ ClaimedNotPending
    /\ OneClaimant
    /\ SentBelowOrdinal
    /\ ShownOnce
    /\ FreshAtFirst
    /\ SentInOrder

\* The ordinals start at zero and go past every chunk of every rendering.
LEMMA OrdinalsBound ==
    /\ Ordinals \subseteq Nat
    /\ 0 \in Ordinals
    /\ \A r \in DOMAIN Chunks : \A n \in Nat : n <= Chunks[r] => n \in Ordinals
    /\ \A n \in Ordinals : 0..n \subseteq Ordinals
<1>1. /\ Chunks["answer"] \in Nat
      /\ Chunks["legacy"] \in Nat
      /\ Chunks["other"] \in Nat
      /\ DOMAIN Chunks = {"answer", "legacy", "other"}
  BY ChunksAssumption
<1>2. QED
  BY <1>1 DEF Ordinals

\* Counting a chunk as shown keeps the type of the counters.
LEMMA CountUp ==
    ASSUME NEW E, NEW O, NEW f \in [E -> [O -> Nat]], NEW e \in E, NEW i \in O, NEW n \in Nat
    PROVE  [f EXCEPT ![e][i] = @ + n] \in [E -> [O -> Nat]]
<1>1. f[e] \in [O -> Nat]
  OBVIOUS
<1>2. f[e][i] + n \in Nat
  BY <1>1
<1>3. [f[e] EXCEPT ![i] = @ + n] \in [O -> Nat]
  BY <1>1, <1>2
<1>4. QED
  BY <1>3

LEMMA ShownTyped ==
    ASSUME TypeOK, NEW e \in Executors, NEW n \in Nat,
           shown' = [shown EXCEPT ![e][ordinal[e]] = @ + n]
    PROVE  shown' \in [Executors -> [Ordinals -> Nat]]
<1>1. shown \in [Executors -> [Ordinals -> Nat]] /\ ordinal[e] \in Ordinals
  BY DEF TypeOK
<1>2. QED
  BY <1>1, CountUp

\* The row and every counter keep their type, and a row carries a token exactly
\* while it is started.
LEMMA TypeInit == Init => TypeOK
  BY OrdinalsBound, NoneAssumption, ChunksAssumption DEF Init, TypeOK, Statuses

LEMMA TypeStep == TypeOK /\ [Next]_vars => TypeOK'
<1> SUFFICES ASSUME TypeOK, [Next]_vars PROVE TypeOK'
  OBVIOUS
<1> USE NoneAssumption, ChunksAssumption, OrdinalsBound DEF TypeOK, Statuses
<1>1. CASE UNCHANGED vars
  BY <1>1 DEF vars
<1>2. ASSUME NEW e \in Executors, Execute(e) PROVE TypeOK'
  <2>1. Intended(e) \in [status : Statuses, token : Executors \cup {None},
                         rendering : DOMAIN Chunks]
    BY DEF Intended
  <2>2. Intended(e).status = "started" <=> Intended(e).token # None
    BY DEF Intended
  <2>3. CASE Ignore(e)
    BY <2>3 DEF Ignore
  <2>4. CASE AuthorizeAudience(e)
    BY <2>4 DEF AuthorizeAudience
  <2>5. CASE Suspend(e)
    BY <2>5, <2>1, <2>2 DEF Suspend, Close
  <2>6. CASE StartRefused(e)
    BY <2>6 DEF StartRefused
  <2>7. CASE StartAmbiguous(e)
    BY <2>7 DEF StartAmbiguous, Close
  <2>8. CASE Start(e)
    <3>1. Adopted(e, Intended(e)) \in DOMAIN Chunks
      BY <2>1 DEF Adopted
    <3>2. QED
      BY <2>8, <3>1 DEF Start
  <2>9. CASE SendChunk(e)
    <3>1. shown' \in [Executors -> [Ordinals -> Nat]]
      BY <2>9, ShownTyped DEF SendChunk
    <3>2. QED
      BY <2>9, <3>1 DEF SendChunk
  <2>10. CASE SendRejected(e)
    BY <2>10 DEF SendRejected
  <2>11. CASE SendUnknown(e)
    <3>1. PICK n \in {0, 1} : shown' = [shown EXCEPT ![e][ordinal[e]] = @ + n]
      BY <2>11 DEF SendUnknown
    <3>2. shown' \in [Executors -> [Ordinals -> Nat]]
      BY <3>1, ShownTyped
    <3>3. QED
      BY <2>11, <3>2 DEF SendUnknown
  <2>12. CASE ConfirmChunk(e)
    <3>1. /\ row.rendering \in DOMAIN Chunks
          /\ Chunks[row.rendering] \in Nat
          /\ ordinal[e] \in Ordinals
          /\ ordinal[e] \in Nat
      OBVIOUS
    <3>2. NextOrdinal(e) \in Nat /\ NextOrdinal(e) <= Chunks[row.rendering]
      BY <2>12, <3>1 DEF ConfirmChunk, NextOrdinal
    <3>3. NextOrdinal(e) \in Ordinals
      BY <3>1, <3>2, OrdinalsBound
    <3>4. /\ ordinal' \in [Executors -> Ordinals]
          /\ receipts' \subseteq Ordinals
      BY <2>12, <3>1, <3>3 DEF ConfirmChunk
    <3>5. AfterChunk(e) \in {"send", "complete"}
      BY DEF AfterChunk
    <3>6. pc' \in [Executors -> {"idle", "suspend", "start", "send", "confirm",
                                 "complete", "fail", "done", "dead"}]
      BY <2>12, <3>5 DEF ConfirmChunk
    <3>7. QED
      BY <2>12, <3>4, <3>6 DEF ConfirmChunk
  <2>13. CASE ConfirmFails(e)
    BY <2>13 DEF ConfirmFails
  <2>14. CASE ConfirmLost(e)
    <3>1. ordinal[e] \in Ordinals
      OBVIOUS
    <3>2. receipts' \subseteq Ordinals
      BY <2>14, <3>1 DEF ConfirmLost
    <3>3. QED
      BY <2>14, <3>2 DEF ConfirmLost
  <2>15. CASE Complete(e)
    BY <2>15 DEF Complete, Close
  <2>16. CASE CompleteFails(e)
    BY <2>16 DEF CompleteFails, Close
  <2>17. CASE Fail(e)
    BY <2>17 DEF Fail, Close, Outcome
  <2>18. CASE Die(e)
    BY <2>18 DEF Die
  <2>19. QED
    BY <1>2, <2>3, <2>4, <2>5, <2>6, <2>7, <2>8, <2>9, <2>10, <2>11, <2>12, <2>13,
       <2>14, <2>15, <2>16, <2>17, <2>18 DEF Execute
<1>3. ASSUME NEW f \in FailedTurns, CheckSuppression(f) PROVE TypeOK'
  BY <1>3 DEF CheckSuppression
<1>4. ASSUME NEW f \in FailedTurns, PostFailure(f) PROVE TypeOK'
  BY <1>4 DEF PostFailure
<1>5. QED
  BY <1>1, <1>2, <1>3, <1>4 DEF Next

\* The outbox row keeps the shape migrations/055 demands, and every counter its type,
\* through any redelivery, rejection or death.
THEOREM TypeCorrect == Spec => []TypeOK
<1> QED
  BY TypeInit, TypeStep, PTL DEF Spec

-----------------------------------------------------------------------------
(* A settled outcome stays settled: no invariant is needed beyond the type. *)

LEMMA SettledStep == TypeOK /\ [Next]_vars => (Terminal => row' = row)
<1> SUFFICES ASSUME TypeOK, [Next]_vars, Terminal PROVE row' = row
  OBVIOUS
<1> USE DEF Terminal
<1>1. \A e \in Executors : Intended(e) = row /\ ~OwnsRow(e)
  BY DEF Intended, OwnsRow
<1>2. ASSUME NEW e \in Executors, Execute(e) PROVE row' = row
  BY <1>1, <1>2 DEF Execute, Ignore, AuthorizeAudience, Suspend, StartRefused, StartAmbiguous,
     Start, Startable, SendChunk, SendRejected, SendUnknown, ConfirmChunk, ConfirmFails,
     ConfirmLost, Complete, CompleteFails, Fail, Die
<1>3. ASSUME NEW f \in FailedTurns, CheckSuppression(f) \/ PostFailure(f) PROVE row' = row
  BY <1>3 DEF CheckSuppression, PostFailure
<1>4. QED
  BY <1>2, <1>3 DEF Next, vars

\* Whatever executions follow, and in whatever order, the outcome recorded for the
\* answer (delivered, ambiguous, failed) is never changed again.
THEOREM SettlementIsFinal == Spec => SettledForever
<1>1. TypeOK /\ [Next]_vars => [Terminal => row' = row]_vars
  BY SettledStep
<1>2. QED
  BY <1>1, TypeCorrect, PTL DEF Spec, SettledForever

-----------------------------------------------------------------------------
(* One sender, each chunk once, in order. *)

\* Only `start` makes an execution a claimant, and no row becomes unsent again.
LEMMA NoNewClaim ==
    ASSUME TypeOK, NEW e \in Executors, Execute(e), ~Start(e)
    PROVE  /\ \A x \in Executors : Claimed(x)' => Claimed(x)
           /\ row.status \notin {"absent", "pending"} => row'.status \notin {"absent", "pending"}
<1>1. \/ shown' = shown
      \/ pc[e] = "send" /\ \E n \in {0, 1} : shown' = [shown EXCEPT ![e][ordinal[e]] = @ + n]
  BY DEF Execute, Ignore, AuthorizeAudience, Suspend, StartRefused, StartAmbiguous,
     SendChunk, SendRejected, SendUnknown, ConfirmChunk, ConfirmFails,
     ConfirmLost, Complete, CompleteFails, Fail, Die
<1>2. ASSUME NEW x \in Executors, x # e PROVE shown'[x] = shown[x] /\ pc'[x] = pc[x]
  <2>1. shown'[x] = shown[x]
    BY <1>1, <1>2 DEF TypeOK
  <2>2. pc'[x] = pc[x]
    BY <1>2 DEF TypeOK, Execute, Ignore, AuthorizeAudience, Suspend, StartRefused,
       StartAmbiguous, SendChunk, SendRejected, SendUnknown, ConfirmChunk, ConfirmFails,
       ConfirmLost, Complete, CompleteFails, Fail, Die
  <2>3. QED
    BY <2>1, <2>2
<1>3. pc'[e] \in {"send", "confirm", "complete", "fail"} => Claimed(e)
  BY DEF Claimed, AfterChunk, TypeOK, Execute, Ignore, AuthorizeAudience, Suspend, StartRefused,
     StartAmbiguous, SendChunk, SendRejected, SendUnknown, ConfirmChunk, ConfirmFails,
     ConfirmLost, Complete, CompleteFails, Fail, Die
<1>4. Claimed(e)' => Claimed(e)
  BY <1>1, <1>3 DEF Claimed, Sent
<1>5. \A x \in Executors : Claimed(x)' => Claimed(x)
  BY <1>2, <1>4 DEF Claimed, Sent
<1>6. row.status \notin {"absent", "pending"} => row'.status \notin {"absent", "pending"}
  BY DEF TypeOK, Close, Outcome, Intended, Execute, Ignore, AuthorizeAudience, Suspend,
     StartRefused, StartAmbiguous, SendChunk, SendRejected, SendUnknown, ConfirmChunk,
     ConfirmFails, ConfirmLost, Complete, CompleteFails, Fail, Die
<1>7. QED
  BY <1>5, <1>6

\* `start` finds an unsent row, which nobody has claimed.
LEMMA StartClaims ==
    ASSUME Inv, NEW e \in Executors, Start(e)
    PROVE  /\ \A x \in Executors : ~Claimed(x)
           /\ \A x \in Executors : Claimed(x)' => x = e
           /\ row'.status = "started"
<1>1. row.status \in {"absent", "pending"}
  BY DEF Start, Startable, Intended
<1>2. \A x \in Executors : ~Claimed(x)
  BY <1>1 DEF Inv, ClaimedNotPending
<1>3. \A x \in Executors : x # e => pc'[x] = pc[x]
  BY DEF Start, Inv, TypeOK
<1>4. shown' = shown /\ row'.status = "started"
  BY DEF Start
<1>5. QED
  BY <1>2, <1>3, <1>4 DEF Claimed, Sent

LEMMA Cuts ==
    ASSUME NEW S, S \subseteq Nat, NEW n \in Nat
    PROVE  /\ {i \in S : i <= n} = {i \in S : i < n + 1}
           /\ n = 0 => {i \in S : i < n} = {}
           /\ n \in S => {i \in S : i <= n} = {i \in S : i < n} \cup {n}
<1>1. \A i \in S : i \in Nat
  OBVIOUS
<1>2. \A i \in S : (i <= n <=> i < n + 1) /\ (n = 0 => ~(i < n)) /\ (i <= n <=> i < n \/ i = n)
  BY <1>1
<1>3. {i \in S : i <= n} = {i \in S : i < n + 1}
  BY <1>2, Zenon
<1>4. n = 0 => {i \in S : i < n} = {}
  BY <1>2
<1>5. n \in S => {i \in S : i <= n} = {i \in S : i < n} \cup {n}
  BY <1>2
<1>6. QED
  BY <1>3, <1>4, <1>5

\* How a step of e moves what e has sent against its ordinal.
LEMMA SentStep ==
    ASSUME Inv, NEW e \in Executors, Execute(e)
    PROVE  /\ \A x \in Executors \ {e} :
                  pc'[x] = pc[x] /\ shown'[x] = shown[x] /\ ordinal'[x] = ordinal[x]
           /\ SentBelowOrdinal'
           /\ ShownOnce'
           /\ FreshAtFirst'
           /\ SentInOrder'
<1>1. \A x \in Executors \ {e} :
          pc'[x] = pc[x] /\ shown'[x] = shown[x] /\ ordinal'[x] = ordinal[x]
  BY DEF Inv, TypeOK, Execute, Ignore, AuthorizeAudience, Suspend, StartRefused, StartAmbiguous,
     Start, SendChunk, SendRejected, SendUnknown, ConfirmChunk, ConfirmFails, ConfirmLost,
     Complete, CompleteFails, Fail, Die
<1>2. ordinal[e] \in Ordinals /\ ordinal[e] \in Nat /\ Ordinals \subseteq Nat
  BY OrdinalsBound DEF Inv, TypeOK
<1>3. shown[e] \in [Ordinals -> Nat]
  BY DEF Inv, TypeOK
<1> DEFINE Below == {i \in Ordinals : i < ordinal[e]}
           Upto  == {i \in Ordinals : i <= ordinal[e]}
           Prefix(S) == \A i \in S : 0..i \subseteq S
<1>4. Prefix(Below) /\ Prefix(Upto) /\ ordinal[e] \notin Below
  BY <1>2, OrdinalsBound
<1>5. Prefix(Sent(e)) /\ \A i \in Ordinals : shown[e][i] <= 1
  BY DEF Inv, SentInOrder, ShownOnce
<1>6. \* What e itself looks like afterwards.
      /\ pc'[e] = "send" => Sent(e)' = {i \in Ordinals : i < ordinal'[e]}
      /\ pc'[e] = "confirm" => Sent(e)' = {i \in Ordinals : i <= ordinal'[e]}
      /\ \A i \in Ordinals : shown'[e][i] <= 1
      /\ pc'[e] \in {"idle", "suspend", "start"} => ordinal'[e] = 0
      /\ Prefix(Sent(e)')
  <2>1. ASSUME pc[e] = "send", shown' = [shown EXCEPT ![e][ordinal[e]] = @ + 1]
        PROVE  /\ Sent(e)' = Upto
               /\ \A i \in Ordinals : shown'[e][i] <= 1
    <3>1. Sent(e) = Below
      BY <2>1 DEF Inv, SentBelowOrdinal
    <3>2. shown[e][ordinal[e]] = 0
      BY <1>2, <1>3, <1>4, <3>1 DEF Sent
    <3>3. shown'[e] = [shown[e] EXCEPT ![ordinal[e]] = 1]
      BY <2>1, <3>2 DEF Inv, TypeOK
    <3>4. \A i \in Ordinals : shown'[e][i] = IF i = ordinal[e] THEN 1 ELSE shown[e][i]
      BY <1>3, <3>3
    <3>5. \A i \in Ordinals : i \in Sent(e)' <=> i = ordinal[e] \/ i \in Sent(e)
      BY <3>4 DEF Sent
    <3>6. Sent(e)' \subseteq Ordinals
      BY DEF Sent
    <3>7. Sent(e)' = Upto
      <4>1. Sent(e)' = Below \cup {ordinal[e]}
        BY <1>2, <3>1, <3>5, <3>6
      <4>2. QED
        BY <4>1, <1>2, Cuts
    <3>8. QED
      BY <1>5, <3>4, <3>7
  <2>2. CASE Start(e)
    <3>1. ~Claimed(e) /\ ordinal[e] = 0
      BY <2>2, StartClaims DEF Start, Inv, FreshAtFirst
    <3>2. Sent(e) = {} /\ Below = {}
      <4>1. Sent(e) = {}
        BY <3>1 DEF Claimed
      <4>2. Below = {}
        BY <3>1, <1>2, Cuts
      <4>3. QED
        BY <4>1, <4>2
    <3>3. shown' = shown /\ ordinal' = ordinal /\ pc'[e] = "send"
      BY <2>2 DEF Start, Inv, TypeOK
    <3>4. QED
      BY <3>2, <3>3, <1>5 DEF Sent
  <2>3. CASE SendChunk(e)
    <3>1. ordinal' = ordinal /\ pc'[e] = "confirm"
      BY <2>3 DEF SendChunk, Inv, TypeOK
    <3>2. QED
      BY <2>1, <2>3, <3>1, <1>4 DEF SendChunk
  <2>4. CASE SendUnknown(e)
    <3>1. pc[e] = "send" /\ pc'[e] = "fail"
      BY <2>4 DEF SendUnknown, Inv, TypeOK
    <3>2. PICK n \in {0, 1} : shown' = [shown EXCEPT ![e][ordinal[e]] = @ + n]
      BY <2>4 DEF SendUnknown
    <3>3. CASE n = 0
      <4>1. shown'[e] = shown[e]
        BY <3>2, <3>3, <1>2, <1>3 DEF Inv, TypeOK
      <4>2. QED
        BY <4>1, <3>1, <1>5 DEF Sent
    <3>4. CASE n = 1
      BY <2>1, <3>1, <3>2, <3>4, <1>4
    <3>5. QED
      BY <3>3, <3>4
  <2>5. CASE ConfirmChunk(e)
    <3>1. /\ pc[e] = "confirm" /\ shown' = shown
          /\ ordinal'[e] = ordinal[e] + 1
          /\ pc'[e] \in {"send", "complete"}
      BY <2>5 DEF ConfirmChunk, NextOrdinal, AfterChunk, Inv, TypeOK
    <3>2. Sent(e) = Upto
      BY <3>1 DEF Inv, SentBelowOrdinal
    <3>3. Upto = {i \in Ordinals : i < ordinal[e] + 1}
      BY <1>2, Cuts
    <3>4. QED
      BY <3>1, <3>2, <3>3, <1>5 DEF Sent
  <2>6. CASE ~Start(e) /\ ~SendChunk(e) /\ ~SendUnknown(e) /\ ~ConfirmChunk(e)
    <3>1. /\ shown' = shown /\ ordinal' = ordinal
          /\ pc'[e] \notin {"idle", "send", "confirm"}
          /\ pc'[e] \in {"suspend", "start"} => pc[e] = "idle"
      BY <2>6 DEF Inv, TypeOK, Execute, Ignore, AuthorizeAudience, Suspend, StartRefused,
         StartAmbiguous, SendRejected, ConfirmFails, ConfirmLost, Complete,
         CompleteFails, Fail, Die
    <3>2. QED
      BY <3>1, <1>5 DEF Sent, Inv, FreshAtFirst
  <2>7. QED
    BY <2>2, <2>3, <2>4, <2>5, <2>6
<1>7. SentBelowOrdinal'
  BY <1>1, <1>6 DEF SentBelowOrdinal, Inv, Sent
<1>8. ShownOnce' /\ FreshAtFirst'
  BY <1>1, <1>6 DEF ShownOnce, FreshAtFirst, Inv
<1>9. SentInOrder'
  BY <1>1, <1>6 DEF SentInOrder, Inv, Sent
<1>10. QED
  BY <1>1, <1>7, <1>8, <1>9

LEMMA InvInit == Init => Inv
<1> SUFFICES ASSUME Init PROVE Inv
  OBVIOUS
<1>1. TypeOK
  BY TypeInit
<1>2. \A e \in Executors : Sent(e) = {} /\ pc[e] = "idle" /\ ordinal[e] = 0
  BY DEF Init, Sent
<1>3. ShownOnce
  BY DEF Init, ShownOnce
<1>4. QED
  BY <1>1, <1>2, <1>3 DEF Inv, ClaimedNotPending, OneClaimant, SentBelowOrdinal, FreshAtFirst,
     SentInOrder, Claimed

LEMMA InvStep == Inv /\ [Next]_vars => Inv'
<1> SUFFICES ASSUME Inv, [Next]_vars PROVE Inv'
  OBVIOUS
<1>1. TypeOK'
  BY TypeStep DEF Inv
<1>2. ASSUME NEW e \in Executors, Execute(e)
      PROVE  ClaimedNotPending' /\ OneClaimant'
  <2>1. CASE Start(e)
    BY <2>1, StartClaims DEF ClaimedNotPending, OneClaimant
  <2>2. CASE ~Start(e)
    BY <1>2, <2>2, NoNewClaim DEF Inv, ClaimedNotPending, OneClaimant
  <2>3. QED
    BY <2>1, <2>2
<1>3. ASSUME NEW e \in Executors, Execute(e) PROVE Inv'
  BY <1>1, <1>2, <1>3, SentStep DEF Inv
<1>4. ASSUME UNCHANGED <<row, pc, ordinal, shown>> PROVE Inv'
  BY <1>1, <1>4 DEF Inv, ClaimedNotPending, OneClaimant, SentBelowOrdinal, ShownOnce,
     FreshAtFirst, SentInOrder, Claimed, Sent
<1>5. ASSUME NEW f \in FailedTurns, CheckSuppression(f) \/ PostFailure(f)
      PROVE  UNCHANGED <<row, pc, ordinal, shown>>
  BY <1>5 DEF CheckSuppression, PostFailure
<1>6. QED
  BY <1>3, <1>4, <1>5 DEF Next, vars

LEMMA InvCorrect == Spec => []Inv
<1> QED
  BY InvInit, InvStep, PTL DEF Spec

\* However often the event is redelivered, and whichever executions overlap or die,
\* one execution at most ever sends, and no chunk is sent twice.
THEOREM SentOnceCorrect == Spec => []SentOnce
<1>1. Inv => SentOnce
  BY DEF Inv, OneClaimant, ShownOnce, SentOnce, Claimed
<1>2. QED
  BY <1>1, InvCorrect, PTL

\* The chunks that reached the chat are a prefix of the answer.
THEOREM SentInOrderCorrect == Spec => []SentInOrder
<1>1. Inv => SentInOrder
  BY DEF Inv
<1>2. QED
  BY <1>1, InvCorrect, PTL

-----------------------------------------------------------------------------
(***************************************************************************)
(* The receipts and the outcome speak of the one claimant: the chunks with *)
(* a receipt are the ones it has sent, but for the one it is at.           *)
(***************************************************************************)
UpTo(n) == {i \in Ordinals : i < n}
Working(e) == pc[e] \in {"send", "confirm", "complete"}
Speaks(e) ==
    /\ row.rendering = output[e]
    /\ receipts \subseteq Sent(e)
    /\ Sent(e) \ receipts \subseteq {ordinal[e]}
    /\ pc[e] \in {"send", "confirm"} => receipts = UpTo(ordinal[e]) /\ ordinal[e] < Chunks[output[e]]
    /\ pc[e] = "complete" => ordinal[e] > 0 /\ receipts = UpTo(ordinal[e]) /\ Sent(e) = receipts
    /\ definitive[e] => ~Working(e) /\ Sent(e) = UpTo(ordinal[e]) /\ ordinal[e] < Chunks[output[e]]
    /\ row.status = "failed" => definitive[e]
    /\ row.status = "delivered" =>
           ~Working(e) /\ receipts = 0..(Chunks[row.rendering] - 1) /\ Sent(e) = receipts
SpeaksInv ==
    /\ \A e \in Executors : Claimed(e) => Speaks(e)
    /\ (\A e \in Executors : ~Claimed(e)) => receipts = {} /\ row.status # "delivered"
    /\ \A e \in Executors : definitive[e] => pc[e] \notin {"idle", "suspend", "start"}

LEMMA UpToInterval == \A n \in Ordinals : n \in Nat /\ UpTo(n) = 0..(n - 1)
<1> SUFFICES ASSUME NEW n \in Ordinals PROVE n \in Nat /\ UpTo(n) = 0..(n - 1)
  OBVIOUS
<1>1. n \in Nat /\ Ordinals \subseteq Nat /\ 0..n \subseteq Ordinals
  BY OrdinalsBound
<1>2. \A i \in Ordinals : i < n <=> i \in 0..(n - 1)
  <2>1. \A i \in Ordinals : i \in Nat
    BY <1>1
  <2>2. \A i \in Nat : i < n <=> i \in 0..(n - 1)
    BY <1>1
  <2>3. QED
    BY <2>1, <2>2, Zenon
<1>3. \A i \in 0..(n - 1) : i \in Ordinals
  <2>1. \A i \in 0..(n - 1) : i \in 0..n
    BY <1>1
  <2>2. QED
    BY <1>1, <2>1, Zenon
<1>4. QED
  BY <1>1, <1>2, <1>3, Zenon DEF UpTo

LEMMA UpToNext ==
    ASSUME NEW n \in Ordinals
    PROVE  /\ UpTo(n + 1) = UpTo(n) \cup {n}
           /\ {i \in Ordinals : i <= n} = UpTo(n) \cup {n}
           /\ n \notin UpTo(n)
<1>1. n \in Nat /\ Ordinals \subseteq Nat
  BY OrdinalsBound
<1>2. {i \in Ordinals : i <= n} = UpTo(n + 1) /\ {i \in Ordinals : i <= n} = UpTo(n) \cup {n}
  BY <1>1, Cuts DEF UpTo
<1>3. n \notin UpTo(n)
  BY <1>1 DEF UpTo
<1>4. QED
  BY <1>2, <1>3

LEMMA ReceiptsCount ==
    ASSUME NEW n \in Ordinals
    PROVE  Cardinality(UpTo(n)) = n
<1>1. n \in Nat /\ UpTo(n) = 0..(n - 1)
  BY UpToInterval
<1>2. Cardinality(0..(n - 1)) = IF 0 > n - 1 THEN 0 ELSE (n - 1) - 0 + 1
  BY <1>1, FS_Interval
<1>3. QED
  BY <1>1, <1>2

\* What a step of e leaves of the claim of another execution.
LEMMA OthersSpeak ==
    ASSUME Inv, SpeaksInv, NEW e \in Executors, Execute(e),
           NEW c \in Executors, c # e, Claimed(c)
    PROVE  Speaks(c)'
<1>1. ~Claimed(e) /\ row.status \notin {"absent", "pending"}
  BY DEF Inv, OneClaimant, ClaimedNotPending
<1>2. Intended(e) = row /\ ~Start(e)
  BY <1>1 DEF Intended, Start, Startable
<1>3. pc'[c] = pc[c] /\ shown'[c] = shown[c] /\ ordinal'[c] = ordinal[c]
  BY SentStep
<1>4. pc[e] \notin {"send", "confirm", "complete", "fail"}
  BY <1>1 DEF Claimed
<1>5. /\ UNCHANGED <<receipts, output, definitive>>
      /\ row'.rendering = row.rendering /\ row'.status \in {row.status, "ambiguous"}
  BY <1>1, <1>2, <1>4 DEF Execute, Ignore, AuthorizeAudience, Suspend, StartRefused,
     StartAmbiguous, SendChunk, SendRejected, SendUnknown, ConfirmChunk, ConfirmFails, ConfirmLost,
     Complete, CompleteFails, Fail, Die, Close, Inv, TypeOK
<1>6. Speaks(c)
  BY DEF SpeaksInv
<1>7. QED
  BY <1>3, <1>5, <1>6 DEF Speaks, Sent, Working

\* `start`: a fresh claim has sent nothing and has no receipt.
LEMMA StartSpeaks ==
    ASSUME Inv, SpeaksInv, NEW e \in Executors, Start(e)
    PROVE  Speaks(e)'
<1>1. (\A x \in Executors : ~Claimed(x)) /\ row'.status = "started"
  BY StartClaims
<1>2. receipts = {} /\ Sent(e) = {} /\ ~definitive[e] /\ ordinal[e] = 0
  BY <1>1 DEF SpeaksInv, Claimed, Start, Inv, FreshAtFirst
<1>3. receipts' = {} /\ Sent(e)' = {} /\ ~definitive'[e] /\ ordinal'[e] = 0 /\ pc'[e] = "send"
  BY <1>2 DEF Start, Sent, Inv, TypeOK
<1>4. row'.rendering = output'[e]
  BY DEF Start, Adopted, Exact, Legacy
<1>5. output'[e] \in {"answer", "legacy", "other"} /\ Chunks[output'[e]] \in Nat \ {0}
  BY ChunksAssumption DEF Start, Inv, TypeOK
<1>6. UpTo(0) = {}
  BY UpToInterval, OrdinalsBound
<1>7. QED
  BY <1>1, <1>3, <1>4, <1>5, <1>6 DEF Speaks, Working

\* A step of the claimant itself.
LEMMA ClaimantSpeaks ==
    ASSUME Inv, SpeaksInv, NEW e \in Executors, Execute(e), ~Start(e), Claimed(e)
    PROVE  Speaks(e)'
<1>0. /\ Speaks(e) /\ row.status \notin {"absent", "pending"} /\ Intended(e) = row
      /\ pc \in [Executors -> {"idle", "suspend", "start", "send", "confirm", "complete",
                               "fail", "done", "dead"}]
      /\ ordinal[e] \in Ordinals /\ definitive \in [Executors -> BOOLEAN]
      /\ row \in [status : Statuses, token : Executors \cup {None}, rendering : DOMAIN Chunks]
      /\ ordinal \in [Executors -> Ordinals]
  BY DEF SpeaksInv, Inv, ClaimedNotPending, Intended, TypeOK
<1>1. /\ UpTo(ordinal[e] + 1) = UpTo(ordinal[e]) \cup {ordinal[e]}
      /\ {i \in Ordinals : i <= ordinal[e]} = UpTo(ordinal[e]) \cup {ordinal[e]}
      /\ ordinal[e] \in Nat
  BY <1>0, UpToNext, UpToInterval
<1>2. /\ pc[e] = "send" => Sent(e) = UpTo(ordinal[e])
      /\ pc[e] = "confirm" => Sent(e) = UpTo(ordinal[e]) \cup {ordinal[e]}
  BY <1>1 DEF Inv, SentBelowOrdinal, UpTo
<1>3. CASE SendChunk(e)
  <2>1. /\ pc[e] = "send" /\ pc'[e] = "confirm"
        /\ UNCHANGED <<row, receipts, output, ordinal, definitive>>
    BY <1>0, <1>3 DEF SendChunk
  <2>2. Sent(e)' = UpTo(ordinal[e]) \cup {ordinal[e]}
    <3>1. SentBelowOrdinal'
      BY SentStep
    <3>2. Sent(e)' = {i \in Ordinals : i <= ordinal[e]}
      BY <2>1, <3>1 DEF SentBelowOrdinal
    <3>3. QED
      BY <1>1, <3>2
  <2>3. QED
    BY <1>0, <2>1, <2>2 DEF Speaks, Working
<1>4. CASE SendRejected(e)
  <2>1. /\ pc[e] = "send" /\ pc'[e] = "fail" /\ definitive'[e]
        /\ UNCHANGED <<row, receipts, output, ordinal, shown>>
    BY <1>0, <1>4 DEF SendRejected
  <2>2. Sent(e)' = Sent(e)
    BY <2>1 DEF Sent
  <2>3. QED
    BY <1>0, <1>2, <2>1, <2>2 DEF Speaks, Working
<1>5. CASE SendUnknown(e)
  <2>1. /\ pc[e] = "send" /\ pc'[e] = "fail"
        /\ UNCHANGED <<row, receipts, output, ordinal, definitive>>
    BY <1>0, <1>5 DEF SendUnknown
  <2>2. /\ Sent(e) \subseteq Sent(e)' /\ Sent(e)' \subseteq Sent(e) \cup {ordinal[e]}
    <3>1. PICK n \in {0, 1} : shown' = [shown EXCEPT ![e][ordinal[e]] = @ + n]
      BY <1>5 DEF SendUnknown
    <3>2. shown[e] \in [Ordinals -> Nat]
      BY DEF Inv, TypeOK
    <3>3. \A i \in Ordinals : shown'[e][i] = IF i = ordinal[e] THEN shown[e][i] + n ELSE shown[e][i]
      BY <1>0, <3>1, <3>2 DEF Inv, TypeOK
    <3>4. \A i \in Ordinals : /\ i # ordinal[e] => (shown'[e][i] > 0 <=> shown[e][i] > 0)
                              /\ shown[e][i] > 0 => shown'[e][i] > 0
      BY <3>2, <3>3
    <3>5. QED
      BY <3>4 DEF Sent
  <2>3. ~definitive'[e]
    BY <1>0, <2>1 DEF Speaks, Working
  <2>4. QED
    BY <1>0, <1>2, <2>1, <2>2, <2>3 DEF Speaks, Working
<1>6. CASE ConfirmChunk(e)
  <2>1. /\ pc[e] = "confirm" /\ receipts' = receipts \cup {ordinal[e]}
        /\ ordinal'[e] = ordinal[e] + 1
        /\ pc'[e] = IF ordinal[e] + 1 < Chunks[output[e]] THEN "send" ELSE "complete"
        /\ UNCHANGED <<row, output, definitive, shown>>
    BY <1>0, <1>6 DEF ConfirmChunk, NextOrdinal, AfterChunk
  <2>2. Sent(e)' = Sent(e)
    BY <2>1 DEF Sent
  <2>3. receipts' = UpTo(ordinal'[e]) /\ Sent(e)' = receipts'
    BY <1>0, <1>1, <1>2, <2>1, <2>2 DEF Speaks
  <2>4. ~definitive'[e] /\ row.status \notin {"failed", "delivered"}
    BY <1>0, <2>1 DEF Speaks, Working
  <2>5. ordinal'[e] > 0
    BY <1>1, <2>1
  <2>6. QED
    BY <1>0, <2>1, <2>3, <2>4, <2>5 DEF Speaks, Working
<1>7. CASE ConfirmFails(e) \/ ConfirmLost(e)
  <2>1. /\ pc[e] = "confirm" /\ pc'[e] = "fail"
        /\ receipts' \in {receipts, receipts \cup {ordinal[e]}}
        /\ UNCHANGED <<row, output, ordinal, definitive, shown>>
    BY <1>0, <1>7 DEF ConfirmFails, ConfirmLost
  <2>2. Sent(e)' = Sent(e)
    BY <2>1 DEF Sent
  <2>3. ~definitive'[e] /\ row.status \notin {"failed", "delivered"}
    BY <1>0, <2>1 DEF Speaks, Working
  <2>4. QED
    BY <1>0, <1>2, <2>1, <2>2, <2>3 DEF Speaks, Working
<1>8. CASE Complete(e) \/ CompleteFails(e)
  <2>1. /\ pc[e] = "complete" /\ pc'[e] \in {"done", "fail"}
        /\ UNCHANGED <<receipts, output, ordinal, definitive, shown>>
        /\ row' = row \/ (AllConfirmed /\ row' = Close(row, "delivered"))
    BY <1>0, <1>8 DEF Complete, CompleteFails
  <2>2. Sent(e)' = Sent(e)
    BY <2>1 DEF Sent
  <2>3. ~definitive'[e] /\ row.status \notin {"failed", "delivered"}
    BY <1>0, <2>1 DEF Speaks, Working
  <2>4. row'.rendering = row.rendering /\ row'.status \in {row.status, "delivered"}
    BY <1>0, <2>1 DEF Close
  <2>5. ASSUME row'.status = "delivered" PROVE receipts = 0..(Chunks[row.rendering] - 1)
    <3>1. AllConfirmed
      BY <2>1, <2>3, <2>5
    <3>2. receipts = UpTo(ordinal[e])
      BY <1>0, <2>1 DEF Speaks
    <3>3. ordinal[e] = Chunks[row.rendering]
      BY <1>0, <3>1, <3>2, ReceiptsCount DEF AllConfirmed
    <3>4. QED
      BY <1>0, <3>2, <3>3, UpToInterval
  <2>6. QED
    BY <1>0, <2>1, <2>2, <2>3, <2>4, <2>5 DEF Speaks, Working
<1>9. CASE Fail(e)
  <2>1. /\ pc[e] = "fail" /\ pc'[e] = "done"
        /\ UNCHANGED <<receipts, output, ordinal, definitive, shown>>
        /\ row' = row \/ row' = Close(row, Outcome(e))
    BY <1>0, <1>9 DEF Fail
  <2>2. /\ row'.rendering = row.rendering
        /\ row'.status = "failed" => row.status = "failed" \/ definitive[e]
        /\ row'.status = "delivered" => row.status = "delivered"
    BY <1>0, <2>1 DEF Close, Outcome
  <2>3. Sent(e)' = Sent(e)
    BY <2>1 DEF Sent
  <2>4. QED
    BY <1>0, <2>1, <2>2, <2>3 DEF Speaks, Working
<1>10. CASE \/ Ignore(e) \/ AuthorizeAudience(e) \/ Suspend(e) \/ StartRefused(e)
            \/ StartAmbiguous(e) \/ Die(e)
  <2>1. /\ pc'[e] \notin {"send", "confirm", "complete"}
        /\ UNCHANGED <<receipts, output, ordinal, definitive, shown>>
        /\ row'.rendering = row.rendering /\ row'.status \in {row.status, "ambiguous"}
    BY <1>0, <1>10 DEF Ignore, AuthorizeAudience, Suspend, StartRefused, StartAmbiguous, Die, Close
  <2>2. Sent(e)' = Sent(e)
    BY <2>1 DEF Sent
  <2>3. QED
    BY <1>0, <2>1, <2>2 DEF Speaks, Working
<1>11. QED
  BY <1>3, <1>4, <1>5, <1>6, <1>7, <1>8, <1>9, <1>10 DEF Execute

LEMMA SpeaksInit == Init => SpeaksInv
<1>1. ASSUME Init PROVE \A e \in Executors : ~Claimed(e) /\ ~definitive[e]
  BY <1>1 DEF Init, Claimed, Sent
<1>2. ASSUME Init PROVE receipts = {} /\ row.status # "delivered"
  BY <1>2 DEF Init
<1>3. QED
  BY <1>1, <1>2 DEF SpeaksInv

\* A definitive rejection is caught only behind `start`.
LEMMA DefinitiveStep ==
    ASSUME Inv, SpeaksInv, NEW e \in Executors, Execute(e), NEW x \in Executors, definitive'[x]
    PROVE  pc'[x] \notin {"idle", "suspend", "start"}
<1>1. definitive[x] => pc[x] \notin {"idle", "suspend", "start"}
  BY DEF SpeaksInv
<1>2. /\ pc \in [Executors -> {"idle", "suspend", "start", "send", "confirm", "complete",
                               "fail", "done", "dead"}]
      /\ definitive \in [Executors -> BOOLEAN]
  BY DEF Inv, TypeOK
<1>3. CASE SendRejected(e)
  BY <1>1, <1>2, <1>3 DEF SendRejected
<1>4. CASE ~SendRejected(e)
  <2>1. definitive' = definitive
    BY <1>4 DEF Execute, Ignore, AuthorizeAudience, Suspend, StartRefused, StartAmbiguous, Start,
       SendChunk, SendUnknown, ConfirmChunk, ConfirmFails, ConfirmLost, Complete, CompleteFails,
       Fail, Die
  <2>2. pc'[x] \in {"idle", "suspend", "start"} => pc[x] \in {"idle", "suspend", "start"}
    BY <1>2 DEF Execute, Ignore, AuthorizeAudience, Suspend, StartRefused, StartAmbiguous, Start,
       SendChunk, SendRejected, SendUnknown, ConfirmChunk, ConfirmFails, ConfirmLost, Complete,
       CompleteFails, AfterChunk, Fail, Die
  <2>3. QED
    BY <1>1, <2>1, <2>2
<1>5. QED
  BY <1>3, <1>4

\* A step while nobody has claimed the row, other than the claim itself.
LEMMA UnclaimedStep ==
    ASSUME Inv, SpeaksInv, NEW e \in Executors, Execute(e), ~Start(e),
           \A x \in Executors : ~Claimed(x)
    PROVE  receipts' = {} /\ row'.status # "delivered"
<1>1. receipts = {} /\ row.status # "delivered" /\ Intended(e).status # "delivered"
  BY DEF SpeaksInv, Intended
<1>2. pc[e] \notin {"send", "confirm", "complete", "fail"}
  BY DEF Claimed
<1>3. receipts' = receipts
  BY <1>2 DEF Execute, Ignore, AuthorizeAudience, Suspend, StartRefused, StartAmbiguous, SendChunk,
     SendRejected, SendUnknown, ConfirmChunk, ConfirmFails, ConfirmLost, Complete, CompleteFails,
     Fail, Die
<1>4. row'.status # "delivered"
  <2>1. row' = row \/ Suspend(e) \/ StartAmbiguous(e)
    BY <1>2 DEF Execute, Ignore, AuthorizeAudience, StartRefused, SendChunk, SendRejected,
       SendUnknown, ConfirmChunk, ConfirmFails, ConfirmLost, Complete, CompleteFails, Fail, Die
  <2>2. Suspend(e) \/ StartAmbiguous(e) => row'.status # "delivered"
    <3>1. row \in [status : Statuses, token : Executors \cup {None}, rendering : DOMAIN Chunks]
      BY DEF Inv, TypeOK
    <3>2. Intended(e) \in [status : Statuses, token : Executors \cup {None},
                           rendering : DOMAIN Chunks]
      BY <3>1, ChunksAssumption DEF Intended, Inv, TypeOK, Statuses
    <3>3. QED
      BY <1>1, <3>1, <3>2 DEF Suspend, StartAmbiguous, Close
  <2>3. QED
    BY <1>1, <2>1, <2>2
<1>5. QED
  BY <1>1, <1>3, <1>4

LEMMA SpeaksStep == Inv /\ SpeaksInv /\ [Next]_vars => SpeaksInv'
<1> SUFFICES ASSUME Inv, SpeaksInv, [Next]_vars PROVE SpeaksInv'
  OBVIOUS
<1>1. Inv'
  BY InvStep
<1>2. ASSUME NEW e \in Executors, Execute(e) PROVE SpeaksInv'
  <2>1. \A x \in Executors : x # e => (Claimed(x)' <=> Claimed(x))
    BY <1>2, SentStep DEF Claimed, Sent
  <2>2. ASSUME NEW c \in Executors, Claimed(c)' PROVE Speaks(c)'
    <3>1. CASE c # e
      BY <1>2, <2>1, <2>2, <3>1, OthersSpeak
    <3>2. CASE c = e /\ Start(e)
      BY <3>2, StartSpeaks
    <3>3. CASE c = e /\ ~Start(e)
      <4>1. Claimed(e)
        BY <1>2, <2>2, <3>3, NoNewClaim DEF Inv
      <4>2. QED
        BY <1>2, <3>3, <4>1, ClaimantSpeaks
    <3>4. QED
      BY <3>1, <3>2, <3>3
  <2>3. ASSUME \A x \in Executors : ~Claimed(x)'
        PROVE  receipts' = {} /\ row'.status # "delivered"
    <3>1. ~Start(e)
      <4>1. Start(e) => pc'[e] = "send"
        BY DEF Start, Inv, TypeOK
      <4>2. QED
        BY <2>3, <4>1 DEF Claimed
    <3>2. CASE Claimed(e)
      <4>1. Speaks(e)'
        BY <1>2, <3>1, <3>2, ClaimantSpeaks
      <4>2. Sent(e)' = {}
        BY <2>3 DEF Claimed
      <4>3. QED
        <5>1. receipts' = {}
          BY <4>1, <4>2 DEF Speaks
        <5>2. Chunks[row'.rendering] \in Nat \ {0}
          BY <1>1, ChunksAssumption DEF Inv, TypeOK
        <5>3. 0 \in 0..(Chunks[row'.rendering] - 1)
          BY <5>2
        <5>4. QED
          BY <4>1, <5>1, <5>3 DEF Speaks
    <3>3. CASE ~Claimed(e)
      <4>1. \A x \in Executors : ~Claimed(x)
        BY <2>1, <2>3, <3>3
      <4>2. QED
        BY <1>2, <3>1, <4>1, UnclaimedStep
    <3>4. QED
      BY <3>2, <3>3
  <2>4. \A x \in Executors : definitive'[x] => pc'[x] \notin {"idle", "suspend", "start"}
    BY <1>2, DefinitiveStep
  <2>5. QED
    BY <2>2, <2>3, <2>4 DEF SpeaksInv
<1>3. ASSUME UNCHANGED <<row, receipts, pc, output, ordinal, definitive, shown>>
      PROVE  SpeaksInv'
  BY <1>3 DEF SpeaksInv, Speaks, Claimed, Working, Sent, UpTo
<1>4. ASSUME NEW f \in FailedTurns, CheckSuppression(f) \/ PostFailure(f)
      PROVE  UNCHANGED <<row, receipts, pc, output, ordinal, definitive, shown>>
  BY <1>4 DEF CheckSuppression, PostFailure
<1>5. QED
  BY <1>2, <1>3, <1>4 DEF Next, vars

LEMMA SpeaksCorrect == Spec => [](Inv /\ SpeaksInv)
<1>1. Init => Inv /\ SpeaksInv
  BY InvInit, SpeaksInit
<1>2. Inv /\ SpeaksInv /\ [Next]_vars => (Inv /\ SpeaksInv)'
  BY InvStep, SpeaksStep
<1>3. QED
  BY <1>1, <1>2, PTL DEF Spec

\* What is sent is what was stored: an execution that computed another answer than
\* the stored one sends none of it.
THEOREM SentAsIntendedCorrect == Spec => []SentAsIntended
<1>1. Inv /\ SpeaksInv => SentAsIntended
  BY DEF SpeaksInv, Speaks, Claimed, SentAsIntended
<1>2. QED
  BY <1>1, SpeaksCorrect, PTL

\* Whatever dies and whatever answer is lost, one chunk at most may be in the chat
\* without a receipt.
THEOREM OneUnreceiptedCorrect == Spec => []OneUnreceipted
<1>1. ASSUME Inv, SpeaksInv PROVE OneUnreceipted
  <2> DEFINE Unreceipted == {p \in Executors \X Ordinals : p[2] \in Sent(p[1]) \ receipts}
  <2>1. CASE Unreceipted = {}
    BY <2>1, FS_EmptySet DEF OneUnreceipted
  <2>2. CASE Unreceipted # {}
    <3>1. PICK p \in Executors \X Ordinals : p[2] \in Sent(p[1]) \ receipts
      BY <2>2
    <3>2. \A q \in Executors \X Ordinals : q[2] \in Sent(q[1]) \ receipts =>
              q[1] = p[1] /\ q[2] = ordinal[q[1]]
      BY <1>1, <3>1 DEF Inv, OneClaimant, SpeaksInv, Speaks, Claimed
    <3>3. p[2] = ordinal[p[1]]
      BY <3>1, <3>2
    <3>4. \A q \in Executors \X Ordinals : q[2] \in Sent(q[1]) \ receipts => q = p
      BY <3>2, <3>3
    <3>5. Unreceipted = {p}
      BY <3>1, <3>4
    <3>6. Cardinality(Unreceipted) = 1
      BY <3>5, FS_Singleton
    <3>7. QED
      BY <3>6 DEF OneUnreceipted
  <2>3. QED
    BY <2>1, <2>2
<1>2. QED
  BY <1>1, SpeaksCorrect, PTL

\* A delivered row has been shown whole by one execution, with a receipt for every
\* chunk.
THEOREM DeliveredIsShownCorrect == Spec => []DeliveredIsShown
<1>1. ASSUME Inv, SpeaksInv, row.status = "delivered"
      PROVE  /\ receipts = 0..(Chunks[row.rendering] - 1)
             /\ \E e \in Executors : Sent(e) = receipts
  <2>1. PICK e \in Executors : Claimed(e)
    BY <1>1 DEF SpeaksInv
  <2>2. QED
    BY <1>1, <2>1 DEF SpeaksInv, Speaks
<1>2. Inv /\ SpeaksInv => DeliveredIsShown
  BY <1>1 DEF DeliveredIsShown
<1>3. QED
  BY <1>2, SpeaksCorrect, PTL

\* Both together: the receipts tell what the chat shows.
THEOREM ReceiptsAreTrueCorrect == Spec => []ReceiptsAreTrue
<1>1. OneUnreceipted /\ DeliveredIsShown => ReceiptsAreTrue
  BY DEF ReceiptsAreTrue
<1>2. QED
  BY <1>1, OneUnreceiptedCorrect, DeliveredIsShownCorrect, PTL

\* A failed turn is announced below a visible part of its answer only when Telegram has
\* refused the next chunk for certain, so never below one that may go on or be complete.
THEOREM NoNoticeBelowAnswerCorrect == Spec => NoNoticeBelowAnswer
<1> DEFINE Below ==
        \A f \in FailedTurns, e \in Executors :
            notice[f] = "idle" /\ notice'[f] = "post" /\ Sent(e) # {}
                => definitive[e] /\ Sent(e) # 0..(Chunks[output[e]] - 1)
<1>1. ASSUME Inv, SpeaksInv, NEW e \in Executors, ~Suppressed, Sent(e) # {}
      PROVE  definitive[e] /\ Sent(e) # 0..(Chunks[output[e]] - 1)
  <2>1. /\ Chunks[output[e]] \in Nat \ {0}
        /\ row.status \in {"absent", "pending", "failed"}
        /\ ordinal[e] \in Ordinals
    BY <1>1, ChunksAssumption DEF Suppressed, Inv, TypeOK, Statuses
  <2>2. definitive[e] /\ Sent(e) = UpTo(ordinal[e]) /\ ordinal[e] < Chunks[output[e]]
    BY <1>1, <2>1 DEF Claimed, Inv, ClaimedNotPending, SpeaksInv, Speaks
  <2>3. ordinal[e] \in Nat /\ ordinal[e] \notin UpTo(ordinal[e])
    BY <2>1, UpToNext, UpToInterval
  <2>4. ordinal[e] \in 0..(Chunks[output[e]] - 1)
    BY <2>1, <2>2, <2>3
  <2>5. QED
    BY <2>2, <2>3, <2>4
<1>2. ASSUME Inv, SpeaksInv, [Next]_vars PROVE Below
  <2>1. SUFFICES ASSUME NEW f \in FailedTurns, notice[f] = "idle", notice'[f] = "post"
                 PROVE  ~Suppressed
    BY <1>1, <1>2
  <2>2. notice' # notice
    BY <2>1
  <2>3. PICK g \in FailedTurns : CheckSuppression(g) \/ PostFailure(g)
    BY <1>2, <2>2 DEF Next, vars, Execute, Ignore, AuthorizeAudience, Suspend, StartRefused,
       StartAmbiguous, Start, SendChunk, SendRejected, SendUnknown, ConfirmChunk, ConfirmFails,
       ConfirmLost, Complete, CompleteFails, Fail, Die
  <2>4. QED
    BY <1>2, <2>1, <2>3 DEF CheckSuppression, PostFailure, Inv, TypeOK
<1>3. Inv /\ SpeaksInv /\ [Next]_vars => [Below]_vars
  BY <1>2
<1>4. QED
  BY <1>3, SpeaksCorrect, PTL DEF Spec, NoNoticeBelowAnswer

=============================================================================
