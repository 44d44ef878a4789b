------------------------- MODULE VideoGenerationProofs -------------------------
(***************************************************************************)
(* Proofs about VideoGeneration for any number of orders, of overlapping   *)
(* passes and of crashes: what a person may have to pay is always on the   *)
(* account and never above its limit, and a file is shown at most once.    *)
(***************************************************************************)
EXTENDS VideoGeneration, FiniteSetTheorems, TLAPS

(***************************************************************************)
(* Two barriers again.  The row of the order is written before the paid    *)
(* request and only the call that wrote it goes on to pay, so an order is  *)
(* in one of three conditions: nothing was asked, the outcome is pending   *)
(* behind a hold, or the provider's verdict is known.  The receipt of the  *)
(* file is written before Telegram is asked; only the pass that wrote it   *)
(* sends, and while it does no other pass is past the same receipt.        *)
(***************************************************************************)
CallRespectsHold(o) ==
    /\ calls[o] \in {"checking", "accepted", "unknown", "rejected"} =>
           order[o].status = "started" /\ charge[o] = "held"
    /\ calls[o] \in {"checking", "rejected", "releasing"} => ordered[o] = 0
    /\ calls[o] = "releasing" => order[o].status = "failed"
    /\ calls[o] = "accepted" => ordered[o] = 1
    /\ order[o].status = "none" => ordered[o] = 0
    /\ order[o].status \in {"submitted", "completed"} => ordered[o] = 1
    /\ ordered[o] <= 1
    /\ ordered[o] = 0 <=> production[o] = "none"
    /\ Costs(o) => charge[o] \in {"held", "paid"}

RowsAgree(o) ==
    /\ order[o].status = "completed" => saved[o]
    /\ (order[o].status = "none") = (charge[o] = "none")

Charged == {o \in Orders : charge[o] \in {"held", "paid"}}
WithinLimit == Cardinality(Charged) <= VideoLimit

Sender == {"checking", "sending", "noting"}
PassInv(p) ==
    LET o == pass[p].order  at == pass[p].at  note == pass[p].note
    IN  /\ IF at = "idle" THEN pass[p] = RestingPass
           ELSE o \in Orders /\ ordered[o] = 1 /\ order[o].status \notin {"none", "started"}
        /\ at = "settling" => note \in {"completed", "failed"} /\ production[o] = note
        /\ at = "losing" => production[o] = "failed"
        /\ at \in {"fetching", "writing", "completing", "reserving"} \cup Sender => production[o] = "completed"
        /\ at = "completing" => saved[o]
        /\ at \in {"reserving"} \cup Sender => order[o].status = "completed"
        /\ at \in Sender => fileReceipt[o] = "started"
        /\ at \in {"checking", "sending"} => shown[o] = 0
        /\ at = "noting" => shown[o] = 1
        /\ note = "delivered" => at = "ending" /\ shown[o] = 1
        /\ at = "ending" => note \in {"deferred", "delivered", "cancelled", "failed"}

FileInv(o) ==
    /\ fileReceipt[o] \in {"none", "failed"} => shown[o] = 0
    /\ fileReceipt[o] = "completed" \/ order[o].delivery = "delivered" => shown[o] = 1
    /\ shown[o] <= 1
    /\ shown[o] > 0 => order[o].status = "completed"
    /\ order[o].status = "completed" => production[o] = "completed"

OneSender ==
    \A p, q \in VideoPasses :
        pass[p].at \in Sender /\ pass[q].at \in Sender /\ pass[p].order = pass[q].order => p = q

MoneyInv == (\A o \in Orders : CallRespectsHold(o) /\ RowsAgree(o)) /\ WithinLimit
FilesInv == (\A p \in VideoPasses : PassInv(p)) /\ (\A o \in Orders : FileInv(o)) /\ OneSender

VideoInv == VideosShape /\ MoneyInv /\ FilesInv

-----------------------------------------------------------------------------
LEMMA StatusTyped ==
    ASSUME VideosShape, NEW o \in Orders,
           NEW s \in {"none", "started", "submitted", "completed", "ambiguous", "failed"}
    PROVE  [order EXCEPT ![o].status = s] \in [Orders -> VideoRow]
<1>1. order \in [Orders -> VideoRow]
  BY DEF VideosShape, VideoRow
<1>2. [order[o] EXCEPT !.status = s] \in VideoRow
  <2>1. order[o] \in VideoRow
    BY <1>1
  <2>2. QED
    BY <2>1 DEF VideoRow
<1>3. QED
  BY <1>1, <1>2

LEMMA DeliveryTyped ==
    ASSUME VideosShape, NEW o \in Orders, NEW d \in {"pending", "delivered", "cancelled", "failed"}
    PROVE  [order EXCEPT ![o].delivery = d] \in [Orders -> VideoRow]
<1>1. order \in [Orders -> VideoRow]
  BY DEF VideosShape, VideoRow
<1>2. [order[o] EXCEPT !.delivery = d] \in VideoRow
  <2>1. order[o] \in VideoRow
    BY <1>1
  <2>2. QED
    BY <2>1 DEF VideoRow
<1>3. QED
  BY <1>1, <1>2

LEMMA LeaseTyped ==
    ASSUME VideosShape, NEW o \in Orders, NEW b \in BOOLEAN
    PROVE  /\ [lease EXCEPT ![o] = Free] \in [Orders -> VideoLease]
           /\ [lease EXCEPT ![o].live = b] \in [Orders -> VideoLease]
<1>1. lease \in [Orders -> VideoLease]
  BY DEF VideosShape, VideoLease
<1>2. Free \in VideoLease
  BY DEF Free, VideoLease
<1>3. [lease[o] EXCEPT !.live = b] \in VideoLease
  <2>1. lease[o] \in VideoLease
    BY <1>1
  <2>2. QED
    BY <2>1 DEF VideoLease
<1>4. QED
  BY <1>1, <1>2, <1>3

LEMMA VideoInvInit == VideosInit => VideoInv
<1> SUFFICES ASSUME VideosInit PROVE VideoInv
  OBVIOUS
<1>1. VideosShape
  <2>1. setbacks \in 0..MaxVideoFlaws
    BY VideoConstants DEF VideosInit
  <2>2. /\ \A p \in VideoPasses : pass[p] = RestingPass
        /\ pass \in [VideoPasses -> VideoSlot]
    BY DEF VideosInit, RestingPass, VideoSlot
  <2>3. QED
    BY <2>1, <2>2 DEF VideosInit, VideosShape, VideoRow, VideoLease, Free
<1>2. MoneyInv
  <2>1. Charged = {}
    BY DEF VideosInit, Charged
  <2>2. WithinLimit
    BY <2>1, FS_EmptySet, VideoConstants DEF WithinLimit
  <2>3. QED
    BY <2>2 DEF VideosInit, MoneyInv, CallRespectsHold, RowsAgree, Costs
<1>3. FilesInv
  BY DEF VideosInit, FilesInv, PassInv, FileInv, OneSender, Sender, RestingPass
<1>4. QED
  BY <1>1, <1>2, <1>3 DEF VideoInv

LEMMA SlotTyped ==
    ASSUME VideosShape, NEW p \in VideoPasses
    PROVE  /\ \A s \in {"looking", "settling", "losing", "fetching", "writing", "completing",
                        "reserving", "checking", "sending", "noting", "ending"} :
                  PassAt(p, s) => pass' \in [VideoPasses -> VideoSlot]
           /\ \A n \in {"failed", "deferred", "delivered", "cancelled"} :
                  EndsWith(p, n) => pass' \in [VideoPasses -> VideoSlot]
           /\ \A n \in {"completed", "failed"} :
                  pass' = [pass EXCEPT ![p].at = "settling", ![p].note = n] =>
                      pass' \in [VideoPasses -> VideoSlot]
           /\ Leaves(p) => pass' \in [VideoPasses -> VideoSlot]
<1>1. pass \in [VideoPasses -> VideoSlot] /\ pass[p] \in VideoSlot
  BY DEF VideosShape
<1>2. \A slot \in VideoSlot : [pass EXCEPT ![p] = slot] \in [VideoPasses -> VideoSlot]
  BY <1>1
<1>3. ASSUME NEW s \in {"looking", "settling", "losing", "fetching", "writing", "completing",
                        "reserving", "checking", "sending", "noting", "ending"}, PassAt(p, s)
      PROVE  pass' \in [VideoPasses -> VideoSlot]
  <2>1. [pass[p] EXCEPT !.at = s] \in VideoSlot
    BY <1>1 DEF VideoSlot
  <2>2. pass' = [pass EXCEPT ![p] = [pass[p] EXCEPT !.at = s]]
    BY <1>3 DEF PassAt
  <2>3. QED
    BY <1>2, <2>1, <2>2
<1>4. ASSUME NEW n \in {"completed", "failed", "deferred", "delivered", "cancelled"},
             NEW s \in {"settling", "ending"},
             pass' = [pass EXCEPT ![p].at = s, ![p].note = n]
      PROVE  pass' \in [VideoPasses -> VideoSlot]
  <2>1. [pass[p] EXCEPT !.at = s, !.note = n] \in VideoSlot
    BY <1>1 DEF VideoSlot
  <2>2. pass' = [pass EXCEPT ![p] = [pass[p] EXCEPT !.at = s, !.note = n]]
    BY <1>1, <1>4
  <2>3. QED
    BY <1>2, <2>1, <2>2
<1>5. RestingPass \in VideoSlot
  BY DEF RestingPass, VideoSlot
<1>6. QED
  BY <1>2, <1>3, <1>4, <1>5 DEF EndsWith, Leaves

LEMMA RefusedTyped ==
    ASSUME VideosShape, NEW p \in VideoPasses, Refused(p)
    PROVE  pass' \in [VideoPasses -> VideoSlot] /\ setbacks' \in 0..MaxVideoFlaws
<1>1. CASE Leaves(p) /\ UNCHANGED setbacks
  BY <1>1, SlotTyped DEF VideosShape
<1>2. CASE Setback /\ \E n \in Refusals : EndsWith(p, n)
  <2>1. setbacks' \in 0..MaxVideoFlaws
    BY <1>2, VideoConstants DEF Setback, VideosShape
  <2>2. QED
    BY <1>2, <2>1, SlotTyped DEF Refusals
<1>3. QED
  BY <1>1, <1>2 DEF Refused

LEMMA SetbackTyped == ASSUME VideosShape, Setback \/ UNCHANGED setbacks PROVE setbacks' \in 0..MaxVideoFlaws
BY VideoConstants DEF Setback, VideosShape

LEMMA VideosShapeStep == VideoInv /\ [VideosNext]_videoVars => VideosShape'
<1> SUFFICES ASSUME VideoInv, [VideosNext]_videoVars PROVE VideosShape'
  OBVIOUS
<1>0. VideosShape
  BY DEF VideoInv
<1>1. CASE UNCHANGED videoVars
  BY <1>0, <1>1 DEF videoVars, VideosShape
<1>2. ASSUME NEW o \in Orders,
             CallStep(o) \/ CallDies(o) \/ CancelDelivery(o) \/ ProviderDecides(o) \/ LeaseLapses(o)
      PROVE  VideosShape'
  <2>1. CASE BeginOrder(o)
    <3>1. [status |-> "started", delivery |-> "pending"] \in VideoRow
      BY DEF VideoRow
    <3>2. order' \in [Orders -> VideoRow]
      BY <1>0, <2>1, <3>1 DEF BeginOrder, VideosShape
    <3>3. charge' \in [Orders -> {"none", "held", "paid", "freed"}]
      BY <1>0, <2>1 DEF BeginOrder, VideosShape
    <3>4. calls' \in [Orders -> {"waiting", "checking", "accepted", "unknown", "rejected", "releasing", "done"}]
      BY <1>0, <2>1 DEF BeginOrder, CallAt, VideosShape
    <3>5. QED
      BY <1>0, <2>1, <3>2, <3>3, <3>4 DEF BeginOrder, VideosShape
  <2>2. CASE WithdrawOrder(o)
    <3>1. order' \in [Orders -> VideoRow]
      BY <2>2, <1>0, StatusTyped DEF WithdrawOrder, StatusIs
    <3>2. setbacks' \in 0..MaxVideoFlaws
      BY <2>2, <1>0, SetbackTyped DEF WithdrawOrder
    <3>3. QED
      BY <1>0, <2>2, <3>1, <3>2 DEF WithdrawOrder, CallAt, VideosShape
  <2>3. CASE SubmitOrder(o)
    <3>1. setbacks' \in 0..MaxVideoFlaws
      BY <1>0, <2>3, SetbackTyped DEF SubmitOrder
    <3>2. ordered' \in [Orders -> 0..2]
      BY <1>0, <2>3 DEF SubmitOrder, OneMore, VideosShape
    <3>3. QED
      BY <1>0, <2>3, <3>1, <3>2 DEF SubmitOrder, CallAt, VideosShape
  <2>4. CASE NoteVerdict(o)
    <3>1. PICK s \in {"submitted", "failed", "ambiguous"}, c \in {"done", "releasing"} :
              StatusIs(o, s) /\ CallAt(o, c)
      BY <2>4 DEF NoteVerdict, Verdict
    <3>2. order' \in [Orders -> VideoRow]
      BY <3>1, <1>0, StatusTyped DEF StatusIs
    <3>3. calls' \in [Orders -> {"waiting", "checking", "accepted", "unknown", "rejected", "releasing", "done"}]
      BY <1>0, <3>1 DEF CallAt, VideosShape
    <3>4. QED
      BY <1>0, <2>4, <3>2, <3>3 DEF NoteVerdict, VideosShape
  <2>5. CASE ReleaseHold(o)
    BY <1>0, <2>5 DEF ReleaseHold, CallAt, VideosShape
  <2>6. CASE CallDies(o)
    <3>1. setbacks' \in 0..MaxVideoFlaws
      BY <1>0, <2>6, SetbackTyped DEF CallDies
    <3>2. QED
      BY <1>0, <2>6, <3>1 DEF CallDies, CallAt, VideosShape
  <2>7. CASE CancelDelivery(o)
    <3>1. order' \in [Orders -> VideoRow]
      BY <2>7, <1>0, DeliveryTyped DEF CancelDelivery
    <3>2. lease' \in [Orders -> VideoLease]
      BY <2>7, <1>0, LeaseTyped DEF CancelDelivery
    <3>3. QED
      BY <1>0, <2>7, <3>1, <3>2 DEF CancelDelivery, VideosShape
  <2>8. CASE ProviderDecides(o)
    BY <1>0, <2>8 DEF ProviderDecides, VideosShape
  <2>9. CASE LeaseLapses(o)
    <3>1. setbacks' \in 0..MaxVideoFlaws
      BY <1>0, <2>9, SetbackTyped DEF LeaseLapses
    <3>2. lease' \in [Orders -> VideoLease]
      BY <2>9, <1>0, LeaseTyped DEF LeaseLapses
    <3>3. QED
      BY <1>0, <2>9, <3>1, <3>2 DEF LeaseLapses, VideosShape
  <2>10. QED
    BY <1>2, <2>1, <2>2, <2>3, <2>4, <2>5, <2>6, <2>7, <2>8, <2>9 DEF CallStep
<1>3. ASSUME NEW p \in VideoPasses, PassStep(p) \/ PassFails(p) \/ PassDies(p)
      PROVE  VideosShape'
  <2>o. pass[p].at # "idle" => pass[p].order \in Orders
    BY DEF VideoInv, FilesInv, PassInv
  <2>1. CASE \E o \in Orders : ClaimOrder(p, o)
    <3>1. PICK o \in Orders : ClaimOrder(p, o)
      BY <2>1
    <3>2. [order |-> o, at |-> "looking", note |-> "none"] \in VideoSlot
      BY DEF VideoSlot
    <3>3. pass' \in [VideoPasses -> VideoSlot]
      BY <1>0, <3>1, <3>2 DEF ClaimOrder, VideosShape
    <3>4. [holder |-> p, live |-> TRUE] \in VideoLease
      BY DEF VideoLease
    <3>5. lease' \in [Orders -> VideoLease]
      BY <1>0, <3>1, <3>4 DEF ClaimOrder, VideosShape
    <3>6. QED
      BY <1>0, <3>1, <3>3, <3>5 DEF ClaimOrder, VideosShape
  <2>2. CASE LookAtOrder(p)
    <3>1. CASE Refused(p)
      BY <1>0, <2>2, <3>1, RefusedTyped DEF LookAtOrder, VideosShape
    <3>2. CASE ~Refused(p)
      <4>1. /\ UNCHANGED setbacks
            /\ \/ PassAt(p, "reserving") \/ EndsWith(p, "deferred")
               \/ \E n \in {"completed", "failed"} : pass' = [pass EXCEPT ![p].at = "settling", ![p].note = n]
        BY <2>2, <3>2 DEF LookAtOrder
      <4>2. pass' \in [VideoPasses -> VideoSlot]
        BY <1>0, <4>1, SlotTyped
      <4>3. QED
        BY <1>0, <2>2, <4>1, <4>2 DEF LookAtOrder, VideosShape
    <3>3. QED
      BY <3>1, <3>2
  <2>3. CASE SettleCost(p)
    <3>1. pass' \in [VideoPasses -> VideoSlot]
      BY <1>0, <2>3, SlotTyped DEF SettleCost
    <3>2. charge' \in [Orders -> {"none", "held", "paid", "freed"}]
      BY <1>0, <2>3 DEF SettleCost, VideosShape
    <3>3. QED
      BY <1>0, <2>3, <3>1, <3>2 DEF SettleCost, VideosShape
  <2>4. CASE LoseJob(p)
    <3>1. pass' \in [VideoPasses -> VideoSlot]
      BY <1>0, <2>4, SlotTyped DEF LoseJob
    <3>2. order' = order \/ order' = [order EXCEPT ![pass[p].order].status = "failed"]
      BY <2>4 DEF LoseJob
    <3>3. pass[p].order \in Orders
      BY <2>4, <2>o DEF LoseJob
    <3>4. order' \in [Orders -> VideoRow]
      <4>1. CASE order' = order
        BY <1>0, <4>1 DEF VideosShape
      <4>2. CASE order' = [order EXCEPT ![pass[p].order].status = "failed"]
        BY <1>0, <3>3, <4>2, StatusTyped
      <4>3. QED
        BY <3>2, <4>1, <4>2
    <3>5. QED
      BY <1>0, <2>4, <3>1, <3>4 DEF LoseJob, VideosShape
  <2>5. CASE FetchVideo(p)
    <3>1. pass' \in [VideoPasses -> VideoSlot] /\ setbacks' \in 0..MaxVideoFlaws
      BY <1>0, <2>5, SlotTyped, SetbackTyped, RefusedTyped DEF FetchVideo
    <3>2. QED
      BY <1>0, <2>5, <3>1 DEF FetchVideo, VideosShape
  <2>6. CASE SaveVideo(p)
    <3>1. pass' \in [VideoPasses -> VideoSlot] /\ setbacks' \in 0..MaxVideoFlaws
      BY <1>0, <2>6, SlotTyped, SetbackTyped, RefusedTyped DEF SaveVideo
    <3>2. QED
      BY <1>0, <2>6, <3>1 DEF SaveVideo, VideosShape
  <2>7. CASE CompleteOrder(p)
    <3>1. pass' \in [VideoPasses -> VideoSlot]
      BY <1>0, <2>7, SlotTyped DEF CompleteOrder
    <3>2. order' = order \/ order' = [order EXCEPT ![pass[p].order].status = "completed"]
      BY <2>7 DEF CompleteOrder, StatusIs
    <3>3. pass[p].order \in Orders
      BY <2>7, <2>o DEF CompleteOrder
    <3>4. order' \in [Orders -> VideoRow]
      <4>1. CASE order' = order
        BY <1>0, <4>1 DEF VideosShape
      <4>2. CASE order' = [order EXCEPT ![pass[p].order].status = "completed"]
        BY <1>0, <3>3, <4>2, StatusTyped
      <4>3. QED
        BY <3>2, <4>1, <4>2
    <3>5. QED
      BY <1>0, <2>7, <3>1, <3>4 DEF CompleteOrder, VideosShape
  <2>8. CASE ReserveFile(p)
    <3>1. pass' \in [VideoPasses -> VideoSlot] /\ setbacks' \in 0..MaxVideoFlaws
      BY <1>0, <2>8, SlotTyped, SetbackTyped, RefusedTyped DEF ReserveFile
    <3>2. QED
      BY <1>0, <2>8, <3>1 DEF ReserveFile, VideosShape
  <2>9. CASE LastCheck(p)
    <3>1. pass' \in [VideoPasses -> VideoSlot] /\ setbacks' \in 0..MaxVideoFlaws
      BY <1>0, <2>9, SlotTyped, SetbackTyped, RefusedTyped DEF LastCheck
    <3>2. QED
      BY <1>0, <2>9, <3>1 DEF LastCheck, VideosShape
  <2>10. CASE SendFile(p)
    <3>1. pass' \in [VideoPasses -> VideoSlot]
      BY <1>0, <2>10, SlotTyped DEF SendFile
    <3>2. setbacks' \in 0..MaxVideoFlaws
      BY <1>0, <2>10, SetbackTyped DEF SendFile
    <3>3. shown' \in [Orders -> 0..2]
      BY <1>0, <2>10 DEF SendFile, OneMore, VideosShape
    <3>4. QED
      BY <1>0, <2>10, <3>1, <3>2, <3>3 DEF SendFile, VideosShape
  <2>11. CASE NoteReceipt(p)
    <3>1. pass' \in [VideoPasses -> VideoSlot]
      BY <1>0, <2>11, SlotTyped DEF NoteReceipt
    <3>2. setbacks' \in 0..MaxVideoFlaws
      BY <1>0, <2>11, SetbackTyped DEF NoteReceipt
    <3>3. QED
      BY <1>0, <2>11, <3>1, <3>2 DEF NoteReceipt, VideosShape
  <2>12. CASE EndPass(p)
    <3>1. pass' \in [VideoPasses -> VideoSlot]
      BY <1>0, <2>12, SlotTyped DEF EndPass
    <3>2. pass[p].note \in {"deferred", "delivered", "cancelled", "failed"} /\ pass[p].order \in Orders
      BY <2>12, <2>o DEF EndPass, VideoInv, FilesInv, PassInv
    <3>3. order' \in [Orders -> VideoRow]
      <4>1. CASE order' = order
        BY <1>0, <4>1 DEF VideosShape
      <4>2. CASE /\ pass[p].note # "deferred"
                 /\ order' = [order EXCEPT ![pass[p].order].delivery = pass[p].note]
        BY <1>0, <3>2, <4>2, DeliveryTyped
      <4>3. QED
        BY <2>12, <4>1, <4>2 DEF EndPass
    <3>4. lease' \in [Orders -> VideoLease]
      <4>1. CASE lease' = lease
        BY <1>0, <4>1 DEF VideosShape
      <4>2. CASE lease' = [lease EXCEPT ![pass[p].order] = Free]
        BY <1>0, <3>2, <4>2, LeaseTyped
      <4>3. QED
        BY <2>12, <4>1, <4>2 DEF EndPass
    <3>5. QED
      BY <1>0, <2>12, <3>1, <3>3, <3>4 DEF EndPass, VideosShape
  <2>13. CASE PassFails(p)
    <3>1. pass' \in [VideoPasses -> VideoSlot] /\ setbacks' \in 0..MaxVideoFlaws
      BY <1>0, <2>13, SlotTyped, SetbackTyped DEF PassFails
    <3>2. QED
      BY <1>0, <2>13, <3>1 DEF PassFails, VideosShape
  <2>14. CASE PassDies(p)
    <3>1. pass' \in [VideoPasses -> VideoSlot] /\ setbacks' \in 0..MaxVideoFlaws
      BY <1>0, <2>14, SlotTyped, SetbackTyped DEF PassDies
    <3>2. QED
      BY <1>0, <2>14, <3>1 DEF PassDies, VideosShape
  <2>15. QED
    BY <1>3, <2>1, <2>2, <2>3, <2>4, <2>5, <2>6, <2>7, <2>8, <2>9, <2>10, <2>11, <2>12, <2>13, <2>14
       DEF PassStep
<1>4. QED
  BY <1>1, <1>2, <1>3 DEF VideosNext

-----------------------------------------------------------------------------
(* What a write to one field leaves of the rows. *)

LEMMA StatusEffect ==
    ASSUME VideosShape, NEW o \in Orders, NEW s, StatusIs(o, s)
    PROVE  \A x \in Orders : /\ order'[x].status = IF x = o THEN s ELSE order[x].status
                             /\ order'[x].delivery = order[x].delivery
BY DEF VideosShape, VideoRow, StatusIs

DeliveryIs(o, d) == order' = [order EXCEPT ![o].delivery = d]

LEMMA DeliveryEffect ==
    ASSUME VideosShape, NEW o \in Orders, NEW d, DeliveryIs(o, d)
    PROVE  \A x \in Orders : /\ order'[x].status = order[x].status
                             /\ order'[x].delivery = IF x = o THEN d ELSE order[x].delivery
BY DEF VideosShape, VideoRow, DeliveryIs

LEMMA SlotEffect ==
    ASSUME VideosShape, NEW p \in VideoPasses
    PROVE  /\ \A s : PassAt(p, s) =>
                  /\ \A q \in VideoPasses \ {p} : pass'[q] = pass[q]
                  /\ pass'[p].order = pass[p].order /\ pass'[p].note = pass[p].note /\ pass'[p].at = s
           /\ \A s, n : pass' = [pass EXCEPT ![p].at = s, ![p].note = n] =>
                  /\ \A q \in VideoPasses \ {p} : pass'[q] = pass[q]
                  /\ pass'[p].order = pass[p].order /\ pass'[p].note = n /\ pass'[p].at = s
           /\ Leaves(p) =>
                  /\ \A q \in VideoPasses \ {p} : pass'[q] = pass[q]
                  /\ pass'[p] = RestingPass
BY DEF VideosShape, VideoSlot, PassAt, Leaves

LEMMA ChargedBound ==
    ASSUME Cardinality(Charged) <= VideoLimit, Charged' \subseteq Charged
    PROVE  Cardinality(Charged') <= VideoLimit
<1>1. IsFiniteSet(Charged)
  BY VideoConstants, FS_Subset DEF Charged
<1>2. Cardinality(Charged') <= Cardinality(Charged) /\ IsFiniteSet(Charged')
  BY <1>1, FS_Subset
<1>3. QED
  BY <1>1, <1>2, FS_CardinalityType, VideoConstants

LEMMA MoneyStep == VideoInv /\ [VideosNext]_videoVars => MoneyInv'
<1> SUFFICES ASSUME VideoInv, [VideosNext]_videoVars PROVE MoneyInv'
  OBVIOUS
<1>0. /\ VideosShape /\ WithinLimit
      /\ \A x \in Orders : CallRespectsHold(x) /\ RowsAgree(x)
      /\ \A q \in VideoPasses : PassInv(q)
  BY DEF VideoInv, MoneyInv, FilesInv
<1>c. ASSUME UNCHANGED charge PROVE WithinLimit'
  BY <1>0, <1>c DEF WithinLimit, Charged
<1>1. CASE UNCHANGED videoVars
  <2>1. \A x \in Orders : CallRespectsHold(x)' /\ RowsAgree(x)'
    BY <1>0, <1>1 DEF videoVars, CallRespectsHold, RowsAgree, Costs
  <2>2. QED
    BY <1>1, <1>c, <2>1 DEF MoneyInv, videoVars
<1>2. ASSUME NEW o \in Orders,
             CallStep(o) \/ CallDies(o) \/ CancelDelivery(o) \/ ProviderDecides(o) \/ LeaseLapses(o)
      PROVE  MoneyInv'
  <2>0. CallRespectsHold(o) /\ RowsAgree(o)
    BY <1>0
  <2>1. CASE BeginOrder(o)
    <3>1. CASE Fresh(o) /\ Room
      <4>1. /\ order' = [order EXCEPT ![o] = [status |-> "started", delivery |-> "pending"]]
            /\ charge' = [charge EXCEPT ![o] = "held"] /\ calls' = [calls EXCEPT ![o] = "checking"]
            /\ UNCHANGED <<production, ordered, saved>>
        BY <2>1, <3>1 DEF BeginOrder, CallAt
      <4>2. \A x \in Orders : CallRespectsHold(x)' /\ RowsAgree(x)'
        BY <1>0, <3>1, <4>1 DEF CallRespectsHold, RowsAgree, Costs, Fresh, VideosShape
      <4>3. Charged' = Charged \cup {o}
        BY <1>0, <4>1 DEF Charged, VideosShape
      <4>4. IsFiniteSet(Charged) /\ Cardinality(Charged) < VideoLimit
        BY <3>1, VideoConstants, FS_Subset DEF Charged, Room
      <4>5. Cardinality(Charged \cup {o}) <= Cardinality(Charged) + 1
        <5>1. Cardinality(Charged) \in Nat
          BY <4>4, FS_CardinalityType
        <5>2. Cardinality(Charged \cup {o}) = IF o \in Charged THEN Cardinality(Charged) ELSE Cardinality(Charged) + 1
          BY <4>4, FS_AddElement
        <5>3. QED
          BY <5>1, <5>2
      <4>6. WithinLimit'
        BY <4>3, <4>4, <4>5, FS_CardinalityType, FS_AddElement, VideoConstants DEF WithinLimit
      <4>7. QED
        BY <4>2, <4>6 DEF MoneyInv
    <3>2. CASE ~(Fresh(o) /\ Room)
      <4>1. /\ calls' = [calls EXCEPT ![o] = "done"]
            /\ UNCHANGED <<order, charge, production, ordered, saved>>
        BY <2>1, <3>2 DEF BeginOrder, CallAt
      <4>2. \A x \in Orders : CallRespectsHold(x)' /\ RowsAgree(x)'
        BY <1>0, <4>1 DEF CallRespectsHold, RowsAgree, Costs, VideosShape
      <4>3. QED
        BY <4>1, <4>2, <1>c DEF MoneyInv
    <3>3. QED
      BY <3>1, <3>2
  <2>2. CASE WithdrawOrder(o)
    <3>1. /\ calls[o] = "checking" /\ calls' = [calls EXCEPT ![o] = "releasing"]
          /\ StatusIs(o, "failed")
          /\ UNCHANGED <<charge, production, ordered, saved>>
      BY <2>2 DEF WithdrawOrder, CallAt
    <3>2. \A x \in Orders : order'[x].status = IF x = o THEN "failed" ELSE order[x].status
      BY <1>0, <3>1, StatusEffect
    <3>3. \A x \in Orders : CallRespectsHold(x)' /\ RowsAgree(x)'
      BY <1>0, <3>1, <3>2 DEF CallRespectsHold, RowsAgree, Costs, VideosShape
    <3>4. QED
      BY <3>1, <3>3, <1>c DEF MoneyInv
  <2>3. CASE SubmitOrder(o)
    <3>1. /\ calls[o] = "checking" /\ UNCHANGED <<order, charge, saved>>
          /\ \/ /\ calls' = [calls EXCEPT ![o] = "accepted"] \/ calls' = [calls EXCEPT ![o] = "unknown"]
                /\ ordered' = [ordered EXCEPT ![o] = OneMore(@)]
                /\ production' = [production EXCEPT ![o] = "running"]
             \/ /\ calls' = [calls EXCEPT ![o] = "rejected"] \/ calls' = [calls EXCEPT ![o] = "unknown"]
                /\ UNCHANGED <<ordered, production>>
      BY <2>3 DEF SubmitOrder, CallAt
    <3>2. ordered[o] = 0 /\ order[o].status = "started" /\ charge[o] = "held"
      BY <2>0, <3>1 DEF CallRespectsHold
    <3>3. ASSUME NEW x \in Orders PROVE CallRespectsHold(x)' /\ RowsAgree(x)'
      <4>1. CASE x = o
        BY <1>0, <2>0, <3>1, <3>2, <4>1 DEF CallRespectsHold, RowsAgree, Costs, VideosShape, OneMore
      <4>2. CASE x # o
        BY <1>0, <3>1, <4>2 DEF CallRespectsHold, RowsAgree, Costs, VideosShape
      <4>3. QED
        BY <4>1, <4>2
    <3>4. QED
      BY <3>1, <3>3, <1>c DEF MoneyInv
  <2>4. CASE NoteVerdict(o)
    <3>1. /\ order[o].status = "started" /\ UNCHANGED <<charge, production, ordered, saved>>
          /\ \/ calls[o] = "accepted" /\ StatusIs(o, "submitted") /\ CallAt(o, "done")
             \/ calls[o] = "rejected" /\ StatusIs(o, "failed") /\ CallAt(o, "releasing")
             \/ calls[o] = "unknown" /\ StatusIs(o, "ambiguous") /\ CallAt(o, "done")
      BY <2>4 DEF NoteVerdict, Verdict
    <3>2. ASSUME NEW before \in {"accepted", "rejected", "unknown"},
                 NEW s \in {"submitted", "failed", "ambiguous"}, NEW after \in {"done", "releasing"},
                 calls[o] = before, StatusIs(o, s), CallAt(o, after),
                 s = "submitted" <=> before = "accepted",
                 after = "releasing" <=> s = "failed", s = "failed" <=> before = "rejected"
          PROVE  \A x \in Orders : CallRespectsHold(x)' /\ RowsAgree(x)'
      <4>1. \A x \in Orders : order'[x].status = IF x = o THEN s ELSE order[x].status
        BY <1>0, <3>2, StatusEffect
      <4>2. QED
        BY <1>0, <3>1, <3>2, <4>1 DEF CallRespectsHold, RowsAgree, Costs, VideosShape, CallAt
    <3>3. QED
      BY <3>1, <3>2, <1>c DEF MoneyInv
  <2>5. CASE ReleaseHold(o)
    <3>1. /\ calls[o] = "releasing" /\ charge' = [charge EXCEPT ![o] = "freed"]
          /\ calls' = [calls EXCEPT ![o] = "done"] /\ UNCHANGED <<order, production, ordered, saved>>
      BY <2>5 DEF ReleaseHold, CallAt
    <3>2. \A x \in Orders : CallRespectsHold(x)' /\ RowsAgree(x)'
      BY <1>0, <3>1 DEF CallRespectsHold, RowsAgree, Costs, VideosShape
    <3>3. Charged' \subseteq Charged
      BY <1>0, <3>1 DEF Charged, VideosShape
    <3>4. QED
      BY <1>0, <3>2, <3>3, ChargedBound DEF MoneyInv, WithinLimit
  <2>6. CASE CallDies(o)
    <3>1. calls' = [calls EXCEPT ![o] = "waiting"] /\ UNCHANGED <<order, charge, production, ordered, saved>>
      BY <2>6 DEF CallDies, CallAt
    <3>2. \A x \in Orders : CallRespectsHold(x)' /\ RowsAgree(x)'
      BY <1>0, <3>1 DEF CallRespectsHold, RowsAgree, Costs, VideosShape
    <3>3. QED
      BY <3>1, <3>2, <1>c DEF MoneyInv
  <2>7. CASE CancelDelivery(o)
    <3>1. \A x \in Orders : order'[x].status = order[x].status
      BY <1>0, <2>7, DeliveryEffect DEF CancelDelivery, DeliveryIs
    <3>2. \A x \in Orders : CallRespectsHold(x)' /\ RowsAgree(x)'
      BY <1>0, <2>7, <3>1 DEF CancelDelivery, CallRespectsHold, RowsAgree, Costs
    <3>3. QED
      BY <2>7, <3>2, <1>c DEF MoneyInv, CancelDelivery
  <2>8. CASE ProviderDecides(o)
    <3>1. \A x \in Orders : CallRespectsHold(x)' /\ RowsAgree(x)'
      BY <1>0, <2>8 DEF ProviderDecides, CallRespectsHold, RowsAgree, Costs, VideosShape
    <3>2. QED
      BY <2>8, <3>1, <1>c DEF MoneyInv, ProviderDecides
  <2>9. CASE LeaseLapses(o)
    <3>1. \A x \in Orders : CallRespectsHold(x)' /\ RowsAgree(x)'
      BY <1>0, <2>9 DEF LeaseLapses, CallRespectsHold, RowsAgree, Costs
    <3>2. QED
      BY <2>9, <3>1, <1>c DEF MoneyInv, LeaseLapses
  <2>10. QED
    BY <1>2, <2>1, <2>2, <2>3, <2>4, <2>5, <2>6, <2>7, <2>8, <2>9 DEF CallStep
<1>3. ASSUME NEW p \in VideoPasses, PassStep(p) \/ PassFails(p) \/ PassDies(p)
      PROVE  MoneyInv'
  <2>o. PassInv(p) /\ (pass[p].at # "idle" => pass[p].order \in Orders)
    BY <1>0 DEF PassInv
  <2>q. ASSUME UNCHANGED <<calls, charge, ordered, production>>,
               \A x \in Orders : order'[x].status = order[x].status /\ (saved[x] => saved'[x])
        PROVE  MoneyInv'
    <3>1. \A x \in Orders : CallRespectsHold(x)' /\ RowsAgree(x)'
      BY <1>0, <2>q DEF CallRespectsHold, RowsAgree, Costs
    <3>2. QED
      BY <2>q, <3>1, <1>c DEF MoneyInv
  <2>1. CASE SettleCost(p)
    <3> DEFINE o == pass[p].order
    <3>1. /\ pass[p].at = "settling" /\ UNCHANGED <<calls, order, production, ordered, saved>>
          /\ o \in Orders /\ ordered[o] = 1 /\ production[o] = pass[p].note
          /\ pass[p].note \in {"completed", "failed"} /\ order[o].status \notin {"none", "started"}
      BY <2>1, <2>o DEF SettleCost, PassInv
    <3>2. CASE UNCHANGED charge
      BY <2>q, <3>1, <3>2
    <3>3. CASE pass[p].note = "completed" /\ charge' = [charge EXCEPT ![o] = "paid"]
      <4>1. charge[o] \in {"held", "paid"}
        BY <1>0, <3>1, <3>3 DEF CallRespectsHold, Costs
      <4>2. \A x \in Orders : CallRespectsHold(x)' /\ RowsAgree(x)'
        BY <1>0, <3>1, <3>3, <4>1 DEF CallRespectsHold, RowsAgree, Costs, VideosShape
      <4>3. Charged' \subseteq Charged
        BY <1>0, <3>1, <3>3, <4>1 DEF Charged, VideosShape
      <4>4. QED
        BY <1>0, <4>2, <4>3, ChargedBound DEF MoneyInv, WithinLimit
    <3>4. ASSUME NEW cost \in {"paid", "freed"}, pass[p].note = "failed", charge[o] \in {"held", cost},
                 charge' = [charge EXCEPT ![o] = cost]
          PROVE  MoneyInv'
      <4>1. \A x \in Orders : CallRespectsHold(x)' /\ RowsAgree(x)'
        BY <1>0, <3>1, <3>4 DEF CallRespectsHold, RowsAgree, Costs, VideosShape
      <4>2. Charged' \subseteq Charged
        BY <1>0, <3>1, <3>4 DEF Charged, VideosShape
      <4>3. QED
        BY <1>0, <4>1, <4>2, ChargedBound DEF MoneyInv, WithinLimit
    <3>5. \/ UNCHANGED charge
          \/ \E cost \in IF pass[p].note = "completed" THEN {"paid"} ELSE {"paid", "freed"} :
                 charge[o] \in {"held", cost} /\ charge' = [charge EXCEPT ![o] = cost]
      BY <2>1 DEF SettleCost
    <3>6. QED
      BY <3>1, <3>2, <3>3, <3>4, <3>5
  <2>2. CASE LoseJob(p)
    <3>1. /\ UNCHANGED <<calls, charge, production, ordered, saved>> /\ pass[p].order \in Orders
          /\ order[pass[p].order].status # "started"
          /\ \/ UNCHANGED order
             \/ /\ order[pass[p].order].status = "submitted"
                /\ StatusIs(pass[p].order, "failed")
      BY <2>2, <2>o DEF LoseJob, PassInv, StatusIs
    <3>2. CASE UNCHANGED order
      BY <2>q, <3>1, <3>2
    <3>3. ASSUME NEW o \in Orders, o = pass[p].order, order[o].status = "submitted",
                 StatusIs(o, "failed")
          PROVE  MoneyInv'
      <4>1. \A x \in Orders : order'[x].status = IF x = o THEN "failed" ELSE order[x].status
        BY <1>0, <3>3, StatusEffect
      <4>2. \A x \in Orders : CallRespectsHold(x)' /\ RowsAgree(x)'
        BY <1>0, <3>1, <3>3, <4>1 DEF CallRespectsHold, RowsAgree, Costs, VideosShape
      <4>3. QED
        BY <3>1, <4>2, <1>c DEF MoneyInv
    <3>4. QED
      BY <3>1, <3>2, <3>3
  <2>3. CASE CompleteOrder(p)
    <3>1. /\ UNCHANGED <<calls, charge, production, ordered, saved>> /\ pass[p].order \in Orders
          /\ saved[pass[p].order]
          /\ \/ UNCHANGED order
             \/ /\ order[pass[p].order].status \in {"submitted", "completed"}
                /\ StatusIs(pass[p].order, "completed")
      BY <2>3, <2>o DEF CompleteOrder, PassInv
    <3>2. CASE UNCHANGED order
      BY <2>q, <3>1, <3>2
    <3>3. ASSUME NEW o \in Orders, o = pass[p].order, order[o].status \in {"submitted", "completed"},
                 StatusIs(o, "completed")
          PROVE  MoneyInv'
      <4>1. \A x \in Orders : order'[x].status = IF x = o THEN "completed" ELSE order[x].status
        BY <1>0, <3>3, StatusEffect
      <4>2. \A x \in Orders : CallRespectsHold(x)' /\ RowsAgree(x)'
        BY <1>0, <3>1, <3>3, <4>1 DEF CallRespectsHold, RowsAgree, Costs, VideosShape
      <4>3. QED
        BY <3>1, <4>2, <1>c DEF MoneyInv
    <3>4. QED
      BY <3>1, <3>2, <3>3
  <2>4. CASE EndPass(p)
    <3>1. UNCHANGED <<calls, charge, production, ordered, saved>> /\ pass[p].order \in Orders
      BY <2>4, <2>o DEF EndPass
    <3>2. \A x \in Orders : order'[x].status = order[x].status
      <4>1. CASE UNCHANGED order
        BY <4>1
      <4>2. CASE order' = [order EXCEPT ![pass[p].order].delivery = pass[p].note]
        BY <1>0, <3>1, <4>2, DeliveryEffect DEF DeliveryIs
      <4>3. QED
        BY <2>4, <4>1, <4>2 DEF EndPass
    <3>3. QED
      BY <2>q, <3>1, <3>2
  <2>5. CASE SaveVideo(p)
    <3>1. \A x \in Orders : saved[x] => saved'[x]
      BY <1>0, <2>5 DEF SaveVideo, VideosShape
    <3>2. QED
      BY <2>5, <2>q, <3>1 DEF SaveVideo
  <2>6. CASE \E o \in Orders : ClaimOrder(p, o)
    BY <2>6, <2>q DEF ClaimOrder
  <2>7. CASE LookAtOrder(p) \/ FetchVideo(p) \/ PassFails(p) \/ PassDies(p)
    BY <2>7, <2>q DEF LookAtOrder, FetchVideo, PassFails, PassDies
  <2>8. CASE ReserveFile(p) \/ LastCheck(p) \/ SendFile(p) \/ NoteReceipt(p)
    BY <2>8, <2>q DEF ReserveFile, LastCheck, SendFile, NoteReceipt
  <2>9. QED
    BY <1>3, <2>1, <2>2, <2>3, <2>4, <2>5, <2>6, <2>7, <2>8 DEF PassStep
<1>4. QED
  BY <1>1, <1>2, <1>3 DEF VideosNext

-----------------------------------------------------------------------------
(* The file: what a step of one pass leaves true of the others, and of itself. *)

\* The rows only move on: a sent file stays the file of a completed order.
RowsMoveOn ==
    /\ UNCHANGED <<ordered, production>>
    /\ \A x \in Orders :
          /\ order[x].status \notin {"none", "started"} => order'[x].status \notin {"none", "started"}
          /\ order[x].status = "completed" => order'[x].status = "completed"
          /\ saved[x] => saved'[x]

\* Only pass p moves, and it does not become a sender by it.
OnlyMoves(p) ==
    /\ \A q \in VideoPasses \ {p} : pass'[q] = pass[q]
    /\ pass'[p].at \in Sender => pass[p].at \in Sender /\ pass'[p].order = pass[p].order

LEMMA OtherPasses ==
    ASSUME RowsMoveOn, NEW p \in VideoPasses, NEW q \in VideoPasses \ {p}, PassInv(q), pass'[q] = pass[q],
           \A x \in Orders : x = pass[q].order /\ (pass[q].at \in Sender \/ pass[q].note = "delivered") =>
               fileReceipt'[x] = fileReceipt[x] /\ shown'[x] = shown[x]
    PROVE  PassInv(q)'
<1>1. CASE pass[q].at = "idle"
  BY <1>1 DEF PassInv, RestingPass, Sender
<1>2. CASE pass[q].at # "idle"
  <2>1. pass[q].order \in Orders /\ ordered[pass[q].order] = 1
        /\ order[pass[q].order].status \notin {"none", "started"}
    BY <1>2 DEF PassInv
  <2>2. /\ order'[pass[q].order].status \notin {"none", "started"}
        /\ order[pass[q].order].status = "completed" => order'[pass[q].order].status = "completed"
        /\ saved[pass[q].order] => saved'[pass[q].order]
        /\ ordered' = ordered /\ production' = production
    BY <2>1 DEF RowsMoveOn
  <2>3. QED
    BY <1>2, <2>1, <2>2 DEF PassInv, Sender
<1>3. QED
  BY <1>1, <1>2

LEMMA SendersStay ==
    ASSUME OneSender, NEW p \in VideoPasses, OnlyMoves(p)
    PROVE  OneSender'
BY DEF OneSender, OnlyMoves

LEMMA PassEnds ==
    ASSUME VideosShape, RowsMoveOn, NEW p \in VideoPasses, PassInv(p), pass[p].at # "idle"
    PROVE  /\ \A n \in {"deferred", "cancelled", "failed"} : EndsWith(p, n) => PassInv(p)' /\ OnlyMoves(p)
           /\ Leaves(p) => PassInv(p)' /\ OnlyMoves(p)
           /\ Refused(p) => PassInv(p)' /\ OnlyMoves(p)
<1>1. ASSUME NEW n \in {"deferred", "cancelled", "failed"}, EndsWith(p, n)
      PROVE  PassInv(p)' /\ OnlyMoves(p)
  <2>1. /\ \A q \in VideoPasses \ {p} : pass'[q] = pass[q]
        /\ pass'[p].order = pass[p].order /\ pass'[p].note = n /\ pass'[p].at = "ending"
    BY <1>1, SlotEffect DEF EndsWith
  <2>2. /\ pass[p].order \in Orders /\ ordered'[pass[p].order] = 1
        /\ order'[pass[p].order].status \notin {"none", "started"}
    BY DEF PassInv, RowsMoveOn
  <2>3. QED
    BY <2>1, <2>2 DEF PassInv, OnlyMoves, Sender
<1>2. ASSUME Leaves(p)
      PROVE  PassInv(p)' /\ OnlyMoves(p)
  <2>1. /\ \A q \in VideoPasses \ {p} : pass'[q] = pass[q]
        /\ pass'[p] = RestingPass
    BY <1>2, SlotEffect
  <2>2. QED
    BY <2>1 DEF PassInv, OnlyMoves, Sender, RestingPass
<1>3. ASSUME Refused(p)
      PROVE  PassInv(p)' /\ OnlyMoves(p)
  BY <1>1, <1>2, <1>3 DEF Refused, Refusals
<1>4. QED
  BY <1>1, <1>2, <1>3

LEMMA FilesCallStep ==
    ASSUME VideoInv, NEW o \in Orders,
           CallStep(o) \/ CallDies(o) \/ CancelDelivery(o) \/ ProviderDecides(o) \/ LeaseLapses(o)
    PROVE  FilesInv'
<1>0. /\ VideosShape /\ OneSender
      /\ \A x \in Orders : CallRespectsHold(x) /\ FileInv(x)
      /\ \A q \in VideoPasses : PassInv(q)
  BY DEF VideoInv, MoneyInv, FilesInv
<1>o. CallRespectsHold(o) /\ FileInv(o)
  BY <1>0
<1>f. ASSUME UNCHANGED <<pass, fileReceipt, shown, saved>>,
             \A x \in Orders \ {o} : order'[x] = order[x] /\ ordered'[x] = ordered[x]
                                     /\ production'[x] = production[x],
             FileInv(o)',
             \/ order[o].status \in {"none", "started"}
             \/ order'[o].status = order[o].status /\ ordered'[o] = ordered[o]
                /\ (production'[o] = production[o] \/ production[o] = "running")
      PROVE  FilesInv'
  <2>1. OneSender'
    BY <1>0, <1>f DEF OneSender
  <2>2. \A x \in Orders : FileInv(x)'
    BY <1>0, <1>f DEF FileInv
  <2>3. ASSUME NEW q \in VideoPasses PROVE PassInv(q)'
    <3>1. PassInv(q) /\ pass'[q] = pass[q]
      BY <1>0, <1>f
    <3>2. CASE pass[q].at = "idle"
      BY <3>1, <3>2 DEF PassInv, RestingPass, Sender
    <3>3. CASE pass[q].at # "idle" /\ pass[q].order # o
      <4>1. pass[q].order \in Orders \ {o}
        BY <3>1, <3>3 DEF PassInv
      <4>2. QED
        BY <1>f, <3>1, <3>3, <4>1 DEF PassInv, Sender
    <3>4. CASE pass[q].at # "idle" /\ pass[q].order = o
      <4>1. order[o].status \notin {"none", "started"} /\ ordered[o] = 1
        BY <3>1, <3>4 DEF PassInv
      <4>2. /\ order'[o].status = order[o].status /\ ordered'[o] = ordered[o]
            /\ production'[o] = production[o] \/ production[o] = "running"
        BY <1>f, <4>1
      <4>3. QED
        BY <1>f, <3>1, <3>4, <4>1, <4>2 DEF PassInv, Sender
    <3>5. QED
      BY <3>2, <3>3, <3>4
  <2>4. QED
    BY <2>1, <2>2, <2>3 DEF FilesInv
<1>1. CASE BeginOrder(o)
  <2>1. CASE Fresh(o) /\ Room
    <3>1. /\ order' = [order EXCEPT ![o] = [status |-> "started", delivery |-> "pending"]]
          /\ order[o].status = "none" /\ UNCHANGED <<production, ordered, pass, fileReceipt, shown, saved>>
      BY <1>1, <2>1 DEF BeginOrder, Fresh
    <3>2. \A x \in Orders \ {o} : order'[x] = order[x]
      BY <1>0, <3>1 DEF VideosShape
    <3>3. order'[o] = [status |-> "started", delivery |-> "pending"]
      BY <1>0, <3>1 DEF VideosShape
    <3>4. FileInv(o)'
      BY <1>o, <3>1, <3>3 DEF FileInv
    <3>5. QED
      BY <1>f, <3>1, <3>2, <3>4
  <2>2. CASE ~(Fresh(o) /\ Room)
    <3>1. UNCHANGED <<order, production, ordered, pass, fileReceipt, shown, saved>>
      BY <1>1, <2>2 DEF BeginOrder
    <3>2. FileInv(o)'
      BY <1>o, <3>1 DEF FileInv
    <3>3. QED
      BY <1>f, <3>1, <3>2
  <2>3. QED
    BY <2>1, <2>2
<1>2. ASSUME NEW s \in {"submitted", "failed", "ambiguous"}, StatusIs(o, s), order[o].status = "started",
             UNCHANGED <<production, ordered, pass, fileReceipt, shown, saved>>
      PROVE  FilesInv'
  <2>1. order'[o].status = s /\ order'[o].delivery = order[o].delivery
    BY <1>0, <1>2, StatusEffect
  <2>2. \A x \in Orders \ {o} : order'[x] = order[x]
    BY <1>0, <1>2 DEF StatusIs, VideosShape
  <2>3. FileInv(o)'
    BY <1>o, <1>2, <2>1 DEF FileInv
  <2>4. QED
    BY <1>f, <1>2, <2>2, <2>3
<1>3. CASE WithdrawOrder(o)
  <2>1. order[o].status = "started"
    BY <1>o, <1>3 DEF CallRespectsHold, WithdrawOrder
  <2>2. QED
    BY <1>2, <1>3, <2>1 DEF WithdrawOrder
<1>4. CASE NoteVerdict(o)
  <2>1. \E s \in {"submitted", "failed", "ambiguous"} : StatusIs(o, s)
    BY <1>4 DEF NoteVerdict, Verdict
  <2>2. QED
    BY <1>2, <1>4, <2>1 DEF NoteVerdict
<1>5. CASE SubmitOrder(o)
  <2>1. order[o].status = "started" /\ UNCHANGED <<order, pass, fileReceipt, shown, saved>>
    BY <1>o, <1>5 DEF CallRespectsHold, SubmitOrder
  <2>2. \A x \in Orders \ {o} : ordered'[x] = ordered[x] /\ production'[x] = production[x]
    BY <1>0, <1>5 DEF SubmitOrder, VideosShape
  <2>3. FileInv(o)'
    BY <1>o, <2>1 DEF FileInv
  <2>4. QED
    BY <1>f, <2>1, <2>2, <2>3
<1>6. CASE CancelDelivery(o)
  <2>0. DeliveryIs(o, "cancelled") /\ UNCHANGED <<production, ordered, pass, fileReceipt, shown, saved>>
    BY <1>6 DEF CancelDelivery, DeliveryIs
  <2>1. order'[o].status = order[o].status /\ order'[o].delivery = "cancelled"
    BY <1>0, <2>0, DeliveryEffect
  <2>2. \A x \in Orders \ {o} : order'[x] = order[x]
    BY <1>0, <1>6 DEF CancelDelivery, VideosShape
  <2>3. FileInv(o)'
    BY <1>o, <2>0, <2>1 DEF FileInv
  <2>4. QED
    BY <1>f, <2>0, <2>1, <2>2, <2>3
<1>7. CASE ProviderDecides(o)
  <2>1. production[o] = "running" /\ UNCHANGED <<order, ordered, pass, fileReceipt, shown, saved>>
    BY <1>7 DEF ProviderDecides
  <2>2. \A x \in Orders \ {o} : production'[x] = production[x]
    BY <1>0, <1>7 DEF ProviderDecides, VideosShape
  <2>3. FileInv(o)'
    BY <1>o, <2>1 DEF FileInv
  <2>4. QED
    BY <1>f, <2>1, <2>2, <2>3
<1>8. CASE ReleaseHold(o) \/ CallDies(o) \/ LeaseLapses(o)
  <2>1. UNCHANGED <<order, production, ordered, pass, fileReceipt, shown, saved>>
    BY <1>8 DEF ReleaseHold, CallDies, LeaseLapses
  <2>2. FileInv(o)'
    BY <1>o, <2>1 DEF FileInv
  <2>3. QED
    BY <1>f, <2>1, <2>2
<1>9. QED
  BY <1>1, <1>3, <1>4, <1>5, <1>6, <1>7, <1>8 DEF CallStep

LEMMA FilesPassStep ==
    ASSUME VideoInv, NEW p \in VideoPasses, PassStep(p) \/ PassFails(p) \/ PassDies(p)
    PROVE  FilesInv'
<1>0. /\ VideosShape /\ OneSender
      /\ \A x \in Orders : CallRespectsHold(x) /\ FileInv(x) /\ RowsAgree(x)
      /\ \A q \in VideoPasses : PassInv(q)
  BY DEF VideoInv, MoneyInv, FilesInv
<1>p. /\ PassInv(p)
      /\ pass[p].at # "idle" => pass[p].order \in Orders
  BY <1>0 DEF PassInv
\* A step that touches neither the receipts nor the chat.
<1>q. ASSUME UNCHANGED <<ordered, production, fileReceipt, shown, order>>, \A x \in Orders : saved[x] => saved'[x],
             OnlyMoves(p), PassInv(p)'
      PROVE  FilesInv'
  <2>1. RowsMoveOn
    BY <1>q DEF RowsMoveOn
  <2>2. \A x \in Orders : FileInv(x)'
    BY <1>0, <1>q DEF FileInv
  <2>3. \A q \in VideoPasses \ {p} : PassInv(q)'
    BY <1>0, <1>q, <2>1, OtherPasses DEF OnlyMoves
  <2>4. QED
    BY <1>0, <1>q, <2>2, <2>3, SendersStay DEF FilesInv
\* A step that moves the pass only.
<1>r. ASSUME UNCHANGED <<ordered, production, fileReceipt, shown, order, saved>>, pass[p].at # "idle",
             Refused(p) \/ Leaves(p) \/ (\E n \in {"deferred", "cancelled", "failed"} : EndsWith(p, n))
      PROVE  FilesInv'
  <2>1. RowsMoveOn
    BY <1>r DEF RowsMoveOn
  <2>2. PassInv(p)' /\ OnlyMoves(p)
    BY <1>0, <1>p, <1>r, <2>1, PassEnds
  <2>3. QED
    BY <1>q, <1>r, <2>2
<1>1. CASE \E o \in Orders : ClaimOrder(p, o)
  <2>1. PICK o \in Orders : ClaimOrder(p, o)
    BY <1>1
  <2>2. /\ pass'[p] = [order |-> o, at |-> "looking", note |-> "none"]
        /\ \A q \in VideoPasses \ {p} : pass'[q] = pass[q]
    BY <1>0, <2>1 DEF ClaimOrder, VideosShape
  <2>3. ordered[o] = 1 /\ order[o].status \notin {"none", "started"}
    BY <1>0, <2>1 DEF ClaimOrder, Resumable, CallRespectsHold
  <2>4. PassInv(p)' /\ OnlyMoves(p)
    BY <2>1, <2>2, <2>3 DEF ClaimOrder, PassInv, OnlyMoves, Sender
  <2>5. QED
    BY <1>q, <2>1, <2>4 DEF ClaimOrder
<1>2. CASE LookAtOrder(p)
  <2>1. /\ pass[p].at = "looking" /\ pass[p].order \in Orders
        /\ UNCHANGED <<ordered, production, fileReceipt, shown, order, saved>>
    BY <1>2, <1>p DEF LookAtOrder
  <2>2. CASE Refused(p) \/ EndsWith(p, "deferred")
    BY <1>r, <2>1, <2>2
  <2>3. CASE PassAt(p, "reserving") /\ order[pass[p].order].status = "completed"
    <3>1. /\ \A q \in VideoPasses \ {p} : pass'[q] = pass[q]
          /\ pass'[p].order = pass[p].order /\ pass'[p].note = pass[p].note /\ pass'[p].at = "reserving"
      BY <1>0, <2>3, SlotEffect
    <3>2. production[pass[p].order] = "completed"
      BY <1>0, <2>1, <2>3 DEF FileInv
    <3>3. PassInv(p)' /\ OnlyMoves(p)
      BY <1>p, <2>1, <2>3, <3>1, <3>2 DEF PassInv, OnlyMoves, Sender
    <3>4. QED
      BY <1>q, <2>1, <3>3
  <2>4. ASSUME NEW n \in {"completed", "failed"}, production[pass[p].order] = n,
               pass' = [pass EXCEPT ![p].at = "settling", ![p].note = n]
        PROVE  FilesInv'
    <3>1. /\ \A q \in VideoPasses \ {p} : pass'[q] = pass[q]
          /\ pass'[p].order = pass[p].order /\ pass'[p].note = n /\ pass'[p].at = "settling"
      BY <1>0, <2>4, SlotEffect
    <3>2. PassInv(p)' /\ OnlyMoves(p)
      BY <1>p, <2>1, <2>4, <3>1 DEF PassInv, OnlyMoves, Sender
    <3>3. QED
      BY <1>q, <2>1, <3>2
  <2>5. QED
    BY <1>2, <2>2, <2>3, <2>4 DEF LookAtOrder
<1>3. CASE SettleCost(p)
  <2>1. /\ pass[p].at = "settling" /\ UNCHANGED <<ordered, production, fileReceipt, shown, order, saved>>
        /\ PassAt(p, IF pass[p].note = "completed" THEN "fetching" ELSE "losing")
    BY <1>3 DEF SettleCost
  <2>2. /\ \A q \in VideoPasses \ {p} : pass'[q] = pass[q]
        /\ pass'[p].order = pass[p].order /\ pass'[p].note = pass[p].note
        /\ pass'[p].at = IF pass[p].note = "completed" THEN "fetching" ELSE "losing"
    BY <1>0, <2>1, SlotEffect
  <2>3. PassInv(p)' /\ OnlyMoves(p)
    BY <1>p, <2>1, <2>2 DEF PassInv, OnlyMoves, Sender
  <2>4. QED
    BY <1>q, <2>1, <2>3
<1>4. CASE FetchVideo(p)
  <2>1. pass[p].at = "fetching" /\ UNCHANGED <<ordered, production, fileReceipt, shown, order, saved>>
    BY <1>4 DEF FetchVideo
  <2>2. CASE Refused(p)
    BY <1>r, <2>1, <2>2
  <2>3. CASE PassAt(p, IF saved[pass[p].order] THEN "completing" ELSE "writing")
    <3>1. /\ \A q \in VideoPasses \ {p} : pass'[q] = pass[q]
          /\ pass'[p].order = pass[p].order /\ pass'[p].note = pass[p].note
          /\ pass'[p].at = IF saved[pass[p].order] THEN "completing" ELSE "writing"
      BY <1>0, <2>3, SlotEffect
    <3>2. PassInv(p)' /\ OnlyMoves(p)
      BY <1>p, <2>1, <3>1 DEF PassInv, OnlyMoves, Sender
    <3>3. QED
      BY <1>q, <2>1, <3>2
  <2>4. QED
    BY <1>4, <2>2, <2>3 DEF FetchVideo
<1>5. CASE SaveVideo(p)
  <2>1. pass[p].at = "writing" /\ UNCHANGED <<ordered, production, fileReceipt, shown, order>>
    BY <1>5 DEF SaveVideo
  <2>2. CASE Refused(p) /\ UNCHANGED saved
    BY <1>r, <2>1, <2>2
  <2>3. CASE saved' = [saved EXCEPT ![pass[p].order] = TRUE] /\ PassAt(p, "completing")
    <3>1. /\ \A q \in VideoPasses \ {p} : pass'[q] = pass[q]
          /\ pass'[p].order = pass[p].order /\ pass'[p].note = pass[p].note /\ pass'[p].at = "completing"
      BY <1>0, <2>3, SlotEffect
    <3>2. pass[p].order \in Orders
      BY <1>p, <2>1
    <3>3. saved'[pass[p].order] /\ \A x \in Orders : saved[x] => saved'[x]
      BY <1>0, <2>3, <3>2 DEF VideosShape
    <3>4. PassInv(p)' /\ OnlyMoves(p)
      BY <1>p, <2>1, <3>1, <3>3 DEF PassInv, OnlyMoves, Sender
    <3>5. QED
      BY <1>q, <2>1, <3>3, <3>4
  <2>4. QED
    BY <1>5, <2>2, <2>3 DEF SaveVideo
<1>6. CASE PassFails(p) \/ PassDies(p)
  <2>1. UNCHANGED <<ordered, production, fileReceipt, shown, order, saved>>
    BY <1>6 DEF PassFails, PassDies
  <2>2. pass[p].at # "idle"
    BY <1>6, <1>p DEF PassFails, PassDies, PassInv
  <2>3. QED
    BY <1>r, <1>6, <2>1, <2>2 DEF PassFails, PassDies
<1>7. CASE LoseJob(p)
  <2> DEFINE o == pass[p].order
  <2>1. /\ pass[p].at = "losing" /\ o \in Orders /\ production[o] = "failed" /\ order[o].status # "none"
        /\ UNCHANGED <<ordered, production, fileReceipt, shown, saved>> /\ EndsWith(p, "failed")
    BY <1>7, <1>p DEF LoseJob, PassInv
  <2>2. CASE UNCHANGED order
    BY <1>r, <2>1, <2>2
  <2>3. CASE StatusIs(o, "failed")
    <3>1. \A x \in Orders : /\ order'[x].status = IF x = o THEN "failed" ELSE order[x].status
                            /\ order'[x].delivery = order[x].delivery
      BY <1>0, <2>1, <2>3, StatusEffect
    <3>2. order[o].status # "completed"
      BY <1>0, <2>1 DEF FileInv
    <3>3. RowsMoveOn
      BY <2>1, <3>1, <3>2 DEF RowsMoveOn
    <3>4. PassInv(p)' /\ OnlyMoves(p)
      BY <1>0, <1>p, <2>1, <3>3, PassEnds
    <3>5. \A q \in VideoPasses \ {p} : PassInv(q)'
      BY <1>0, <2>1, <3>3, <3>4, OtherPasses DEF OnlyMoves
    <3>6. \A x \in Orders : FileInv(x)'
      BY <1>0, <2>1, <3>1, <3>2 DEF FileInv
    <3>7. QED
      BY <1>0, <3>4, <3>5, <3>6, SendersStay DEF FilesInv
  <2>4. QED
    BY <1>7, <2>2, <2>3 DEF LoseJob, StatusIs
<1>8. CASE CompleteOrder(p)
  <2> DEFINE o == pass[p].order
  <2>1. /\ pass[p].at = "completing" /\ o \in Orders /\ production[o] = "completed"
        /\ UNCHANGED <<ordered, production, fileReceipt, shown, saved>>
    BY <1>8, <1>p DEF CompleteOrder, PassInv, Sender
  <2>2. CASE UNCHANGED order /\ EndsWith(p, "failed")
    BY <1>r, <2>1, <2>2
  <2>3. CASE StatusIs(o, "completed") /\ PassAt(p, "reserving")
    <3>1. \A x \in Orders : /\ order'[x].status = IF x = o THEN "completed" ELSE order[x].status
                            /\ order'[x].delivery = order[x].delivery
      BY <1>0, <2>1, <2>3, StatusEffect
    <3>2. RowsMoveOn
      BY <2>1, <3>1 DEF RowsMoveOn
    <3>3. /\ \A q \in VideoPasses \ {p} : pass'[q] = pass[q]
          /\ pass'[p].order = o /\ pass'[p].note = pass[p].note /\ pass'[p].at = "reserving"
      BY <1>0, <2>3, SlotEffect
    <3>4. PassInv(p)' /\ OnlyMoves(p)
      BY <1>p, <2>1, <3>1, <3>3 DEF PassInv, OnlyMoves, Sender
    <3>5. \A q \in VideoPasses \ {p} : PassInv(q)'
      BY <1>0, <2>1, <3>2, <3>3, OtherPasses
    <3>6. \A x \in Orders : FileInv(x)'
      BY <1>0, <2>1, <3>1 DEF FileInv
    <3>7. QED
      BY <1>0, <3>4, <3>5, <3>6, SendersStay DEF FilesInv
  <2>4. QED
    BY <1>8, <2>2, <2>3 DEF CompleteOrder
<1>9. CASE ReserveFile(p)
  <2> DEFINE o == pass[p].order
  <2>1. /\ pass[p].at = "reserving" /\ o \in Orders /\ order[o].status = "completed" /\ production[o] = "completed"
        /\ UNCHANGED <<ordered, production, shown, saved, order>>
    BY <1>9, <1>p DEF ReserveFile, PassInv, Sender
  <2>2. CASE UNCHANGED fileReceipt /\ (Refused(p) \/ EndsWith(p, "failed"))
    BY <1>r, <2>1, <2>2
  <2>3. CASE UNCHANGED fileReceipt /\ fileReceipt[o] = "completed" /\ EndsWith(p, "delivered")
    <3>1. /\ \A q \in VideoPasses \ {p} : pass'[q] = pass[q]
          /\ pass'[p].order = o /\ pass'[p].note = "delivered" /\ pass'[p].at = "ending"
      BY <1>0, <2>3, SlotEffect DEF EndsWith
    <3>2. shown[o] = 1
      BY <1>0, <2>1, <2>3 DEF FileInv
    <3>3. PassInv(p)' /\ OnlyMoves(p)
      BY <1>p, <2>1, <3>1, <3>2 DEF PassInv, OnlyMoves, Sender
    <3>4. QED
      BY <1>q, <2>1, <2>3, <3>3
  <2>4. CASE /\ Unsent(fileReceipt[o]) /\ PassAt(p, "checking")
             /\ fileReceipt' = [fileReceipt EXCEPT ![o] = "started"]
    <3>1. /\ \A q \in VideoPasses \ {p} : pass'[q] = pass[q]
          /\ pass'[p].order = o /\ pass'[p].note = pass[p].note /\ pass'[p].at = "checking"
      BY <1>0, <2>4, SlotEffect
    <3>2. /\ fileReceipt'[o] = "started" /\ \A x \in Orders \ {o} : fileReceipt'[x] = fileReceipt[x]
          /\ fileReceipt[o] = "none"
      BY <1>0, <2>1, <2>4 DEF VideosShape, Unsent
    <3>3. shown[o] = 0
      BY <1>0, <2>1, <3>2 DEF FileInv
    <3>4. PassInv(p)'
      BY <1>p, <2>1, <3>1, <3>2, <3>3 DEF PassInv, Sender
    <3>5. \A q \in VideoPasses : ~(pass[q].order = o /\ (pass[q].at \in Sender \/ pass[q].note = "delivered"))
      BY <1>0, <3>2, <3>3 DEF PassInv
    <3>6. RowsMoveOn
      BY <2>1 DEF RowsMoveOn
    <3>7. ASSUME NEW q \in VideoPasses \ {p} PROVE PassInv(q)'
      <4>1. \A x \in Orders : x = pass[q].order /\ (pass[q].at \in Sender \/ pass[q].note = "delivered") =>
                fileReceipt'[x] = fileReceipt[x] /\ shown'[x] = shown[x]
        BY <2>1, <3>2, <3>5
      <4>2. QED
        BY <1>0, <3>1, <3>6, <4>1, OtherPasses
    <3>8. \A x \in Orders : FileInv(x)'
      BY <1>0, <2>1, <3>2, <3>3 DEF FileInv
    <3>9. OneSender'
      BY <1>0, <3>1, <3>5 DEF OneSender
    <3>10. QED
      BY <3>4, <3>7, <3>8, <3>9 DEF FilesInv
  <2>5. QED
    BY <1>9, <2>2, <2>3, <2>4 DEF ReserveFile
\* A step of the one sender of an order, which may write its receipt and the chat.
<1>s. ASSUME NEW o \in Orders, o = pass[p].order,
             pass[p].at \in Sender, RowsMoveOn, UNCHANGED order, OnlyMoves(p), PassInv(p)',
             \A x \in Orders \ {o} : fileReceipt'[x] = fileReceipt[x] /\ shown'[x] = shown[x],
             shown'[o] # shown[o] => shown[o] = 0, FileInv(o)'
      PROVE  FilesInv'
  <2>1. ASSUME NEW q \in VideoPasses \ {p} PROVE PassInv(q)'
    <3>1. PassInv(q) /\ pass'[q] = pass[q]
      BY <1>0, <1>s DEF OnlyMoves
    <3>2. CASE pass[q].order # pass[p].order \/ pass[q].at = "idle"
      BY <1>s, <3>1, <3>2, OtherPasses DEF PassInv, RestingPass, Sender
    <3>3. CASE pass[q].order = pass[p].order /\ pass[q].at # "idle"
      <4>1. pass[q].at \notin Sender
        BY <1>0, <1>s, <3>3 DEF OneSender
      <4>2. pass[q].note = "delivered" => shown'[pass[q].order] = 1
        BY <1>s, <3>1, <3>3 DEF PassInv
      <4>3. /\ pass[q].order \in Orders /\ ordered' = ordered /\ production' = production /\ order' = order
            /\ saved[pass[q].order] => saved'[pass[q].order]
        BY <1>s, <3>1, <3>3 DEF PassInv, RowsMoveOn
      <4>4. QED
        BY <3>1, <3>3, <4>1, <4>2, <4>3 DEF PassInv, Sender
    <3>4. QED
      BY <3>2, <3>3
  <2>2. ASSUME NEW x \in Orders PROVE FileInv(x)'
    <3>1. CASE x = o
      BY <1>s, <3>1
    <3>2. CASE x # o
      BY <1>0, <1>s, <3>2 DEF FileInv, RowsMoveOn
    <3>3. QED
      BY <3>1, <3>2
  <2>3. QED
    BY <1>0, <1>s, <2>1, <2>2, SendersStay DEF FilesInv
<1>10. CASE LastCheck(p)
  <2>0. PICK o \in Orders : o = pass[p].order
    BY <1>10, <1>p DEF LastCheck
  <2>1. /\ pass[p].at = "checking" /\ o \in Orders /\ shown[o] = 0 /\ order[o].status = "completed"
        /\ production[o] = "completed" /\ fileReceipt[o] = "started"
        /\ UNCHANGED <<ordered, production, shown, saved, order>>
    BY <1>10, <1>p, <2>0 DEF LastCheck, PassInv, Sender
  <2>2. RowsMoveOn
    BY <2>0, <2>1 DEF RowsMoveOn
  <2>3. CASE Refused(p) /\ fileReceipt' = [fileReceipt EXCEPT ![o] = "failed"]
    <3>1. PassInv(p)' /\ OnlyMoves(p)
      BY <2>0, <1>0, <1>p, <2>1, <2>2, <2>3, PassEnds
    <3>2. fileReceipt'[o] = "failed" /\ \A x \in Orders \ {o} : fileReceipt'[x] = fileReceipt[x]
      BY <2>0, <1>0, <2>1, <2>3 DEF VideosShape
    <3>3. FileInv(o)'
      BY <2>0, <1>0, <2>1, <3>2 DEF FileInv
    <3>4. QED
      BY <2>0, <1>s, <2>1, <2>2, <3>1, <3>2, <3>3 DEF Sender
  <2>4. CASE PassAt(p, "sending") /\ UNCHANGED fileReceipt
    <3>1. /\ \A q \in VideoPasses \ {p} : pass'[q] = pass[q]
          /\ pass'[p].order = o /\ pass'[p].note = pass[p].note /\ pass'[p].at = "sending"
      BY <2>0, <1>0, <2>4, SlotEffect
    <3>2. PassInv(p)' /\ OnlyMoves(p)
      BY <2>0, <1>p, <2>1, <2>4, <3>1 DEF PassInv, OnlyMoves, Sender
    <3>3. FileInv(o)'
      BY <2>0, <1>0, <2>1, <2>4 DEF FileInv
    <3>4. QED
      BY <2>0, <1>s, <2>1, <2>2, <2>4, <3>2, <3>3 DEF Sender
  <2>5. QED
    BY <2>0, <1>10, <2>3, <2>4 DEF LastCheck
<1>11. CASE SendFile(p)
  <2>0. PICK o \in Orders : o = pass[p].order
    BY <1>11, <1>p DEF SendFile
  <2>1. /\ pass[p].at = "sending" /\ o \in Orders /\ shown[o] = 0 /\ order[o].status = "completed"
        /\ production[o] = "completed" /\ fileReceipt[o] = "started" /\ pass[p].note # "delivered"
        /\ UNCHANGED <<ordered, production, saved, order>>
    BY <1>11, <1>p, <2>0 DEF SendFile, PassInv, Sender
  <2>2. RowsMoveOn
    BY <2>0, <2>1 DEF RowsMoveOn
  <2>3. ASSUME shown' = [shown EXCEPT ![o] = OneMore(@)]
        PROVE  shown'[o] = 1 /\ \A x \in Orders \ {o} : shown'[x] = shown[x]
    BY <2>0, <1>0, <2>1, <2>3 DEF VideosShape, OneMore
  <2>4. CASE shown' = [shown EXCEPT ![o] = OneMore(@)] /\ PassAt(p, "noting") /\ UNCHANGED fileReceipt
    <3>1. /\ \A q \in VideoPasses \ {p} : pass'[q] = pass[q]
          /\ pass'[p].order = o /\ pass'[p].note = pass[p].note /\ pass'[p].at = "noting"
      BY <2>0, <1>0, <2>4, SlotEffect
    <3>2. PassInv(p)' /\ OnlyMoves(p)
      BY <2>0, <1>p, <2>1, <2>3, <2>4, <3>1 DEF PassInv, OnlyMoves, Sender
    <3>3. FileInv(o)'
      BY <2>0, <1>0, <2>1, <2>3, <2>4 DEF FileInv
    <3>4. QED
      BY <2>0, <1>s, <2>1, <2>2, <2>3, <2>4, <3>2, <3>3 DEF Sender
  <2>5. CASE /\ shown' = [shown EXCEPT ![o] = OneMore(@)] \/ UNCHANGED shown
             /\ EndsWith(p, "failed") /\ UNCHANGED fileReceipt
    <3>1. PassInv(p)' /\ OnlyMoves(p)
      BY <2>0, <1>0, <1>p, <2>1, <2>2, <2>5, PassEnds
    <3>2. shown'[o] \in {0, 1} /\ \A x \in Orders \ {o} : shown'[x] = shown[x]
      BY <2>0, <2>1, <2>3, <2>5
    <3>3. FileInv(o)'
      BY <2>0, <1>0, <2>1, <2>5, <3>2 DEF FileInv
    <3>4. QED
      BY <2>0, <1>s, <2>1, <2>2, <2>5, <3>1, <3>2, <3>3 DEF Sender
  <2>6. CASE /\ EndsWith(p, "failed") /\ UNCHANGED shown
             /\ fileReceipt' = [fileReceipt EXCEPT ![o] = "failed"]
    <3>1. PassInv(p)' /\ OnlyMoves(p)
      BY <2>0, <1>0, <1>p, <2>1, <2>2, <2>6, PassEnds
    <3>2. fileReceipt'[o] = "failed" /\ \A x \in Orders \ {o} : fileReceipt'[x] = fileReceipt[x]
      BY <2>0, <1>0, <2>1, <2>6 DEF VideosShape
    <3>3. FileInv(o)'
      BY <2>0, <1>0, <2>1, <2>6, <3>2 DEF FileInv
    <3>4. QED
      BY <2>0, <1>s, <2>1, <2>2, <2>6, <3>1, <3>2, <3>3 DEF Sender
  <2>7. QED
    BY <2>0, <1>11, <2>4, <2>5, <2>6 DEF SendFile
<1>12. CASE NoteReceipt(p)
  <2>0. PICK o \in Orders : o = pass[p].order
    BY <1>12, <1>p DEF NoteReceipt
  <2>1. /\ pass[p].at = "noting" /\ o \in Orders /\ shown[o] = 1 /\ order[o].status = "completed"
        /\ production[o] = "completed" /\ fileReceipt[o] = "started" /\ EndsWith(p, "delivered")
        /\ UNCHANGED <<ordered, production, saved, order, shown>>
    BY <1>12, <1>p, <2>0 DEF NoteReceipt, PassInv, Sender
  <2>2. RowsMoveOn
    BY <2>0, <2>1 DEF RowsMoveOn
  <2>3. /\ \A q \in VideoPasses \ {p} : pass'[q] = pass[q]
        /\ pass'[p].order = o /\ pass'[p].note = "delivered" /\ pass'[p].at = "ending"
    BY <2>0, <1>0, <2>1, SlotEffect DEF EndsWith
  <2>4. PassInv(p)' /\ OnlyMoves(p)
    BY <2>0, <1>p, <2>1, <2>3 DEF PassInv, OnlyMoves, Sender
  <2>5. fileReceipt'[o] \in {"started", "completed"} /\ \A x \in Orders \ {o} : fileReceipt'[x] = fileReceipt[x]
    BY <2>0, <1>0, <1>12, <2>1 DEF VideosShape, NoteReceipt
  <2>6. FileInv(o)'
    BY <2>0, <1>0, <2>1, <2>5 DEF FileInv
  <2>7. QED
    BY <2>0, <1>s, <2>1, <2>2, <2>4, <2>5, <2>6 DEF Sender
<1>13. CASE EndPass(p)
  <2> DEFINE o == pass[p].order
  <2>1. /\ pass[p].at = "ending" /\ o \in Orders /\ (pass[p].note = "delivered" => shown[o] = 1) /\ Leaves(p)
        /\ UNCHANGED <<ordered, production, fileReceipt, shown, saved>>
    BY <1>13, <1>p DEF EndPass, PassInv
  <2>2. CASE UNCHANGED order
    BY <1>r, <2>1, <2>2
  <2>3. CASE DeliveryIs(o, pass[p].note)
    <3>1. \A x \in Orders : /\ order'[x].status = order[x].status
                            /\ order'[x].delivery = IF x = o THEN pass[p].note ELSE order[x].delivery
      BY <1>0, <2>1, <2>3, DeliveryEffect
    <3>2. RowsMoveOn
      BY <2>1, <3>1 DEF RowsMoveOn
    <3>3. PassInv(p)' /\ OnlyMoves(p)
      BY <1>0, <1>p, <2>1, <3>2, PassEnds
    <3>4. \A q \in VideoPasses \ {p} : PassInv(q)'
      BY <1>0, <2>1, <3>2, <3>3, OtherPasses DEF OnlyMoves
    <3>5. \A x \in Orders : FileInv(x)'
      BY <1>0, <2>1, <3>1 DEF FileInv
    <3>6. QED
      BY <1>0, <3>3, <3>4, <3>5, SendersStay DEF FilesInv
  <2>4. QED
    BY <1>13, <2>2, <2>3 DEF EndPass, DeliveryIs
<1>14. QED
  BY <1>1, <1>2, <1>3, <1>4, <1>5, <1>6, <1>7, <1>8, <1>9, <1>10, <1>11, <1>12, <1>13 DEF PassStep

-----------------------------------------------------------------------------
LEMMA VideoInvStep == VideoInv /\ [VideosNext]_videoVars => VideoInv'
<1> SUFFICES ASSUME VideoInv, [VideosNext]_videoVars PROVE VideoInv'
  OBVIOUS
<1>1. VideosShape' /\ MoneyInv'
  BY VideosShapeStep, MoneyStep
<1>2. FilesInv'
  <2>1. CASE UNCHANGED videoVars
    BY <2>1 DEF VideoInv, FilesInv, PassInv, FileInv, OneSender, videoVars
  <2>2. CASE VideosNext
    BY <2>2, FilesCallStep, FilesPassStep DEF VideosNext
  <2>3. QED
    BY <2>1, <2>2
<1>3. QED
  BY <1>1, <1>2 DEF VideoInv

\* The two barriers hold in every reachable state: the hold before the paid request,
\* the receipt before the file.
THEOREM VideoInvariant == VideosSpec => []VideoInv
<1>1. QED
  BY VideoInvInit, VideoInvStep, PTL DEF VideosSpec

\* The rows of an order, its account and its lease are always well formed, and the
\* CHECK constraints of the tables hold.
THEOREM VideosTypeCorrect == VideosSpec => []VideosTypeOK
<1>1. VideoInv => VideosTypeOK
  BY DEF VideoInv, MoneyInv, RowsAgree, VideosTypeOK
<1>2. QED
  BY <1>1, VideoInvariant, PTL

\* Whatever is repeated, lost or crashes, an order is paid for at most once, what
\* it costs stays on the account, and the account keeps to its limit.
THEOREM PaidFromHoldCorrect == VideosSpec => []PaidFromHold
<1>1. ASSUME VideoInv PROVE PaidFromHold
  <2>1. \A o \in Orders : ordered[o] <= 1 /\ (Costs(o) => charge[o] \in {"held", "paid"})
    BY <1>1 DEF VideoInv, MoneyInv, CallRespectsHold
  <2>2. {o \in Orders : Costs(o)} \subseteq Charged /\ IsFiniteSet(Charged)
    BY <2>1, VideoConstants, FS_Subset DEF Charged
  <2>3. /\ IsFiniteSet({o \in Orders : Costs(o)})
        /\ Cardinality({o \in Orders : Costs(o)}) <= Cardinality(Charged)
    BY <2>2, FS_Subset
  <2>4. Cardinality(Charged) \in Nat /\ Cardinality({o \in Orders : Costs(o)}) \in Nat
    BY <2>2, <2>3, FS_CardinalityType
  <2>5. Cardinality(Charged) <= VideoLimit
    BY <1>1 DEF VideoInv, MoneyInv, WithinLimit
  <2>6. Cardinality({o \in Orders : Costs(o)}) <= VideoLimit
    BY <2>3, <2>4, <2>5, VideoConstants
  <2>7. QED
    BY <2>1, <2>6 DEF PaidFromHold
<1>2. QED
  BY <1>1, VideoInvariant, PTL

\* A chat gets the file of an order at most once, and the receipt and the order
\* say about it what is true.
THEOREM VideoShownOnceCorrect == VideosSpec => []VideoShownOnce
<1>1. ASSUME VideoInv PROVE VideoShownOnce
  BY <1>1 DEF VideoInv, VideosShape, FilesInv, FileInv, VideoShownOnce
<1>2. QED
  BY <1>1, VideoInvariant, PTL

=============================================================================
