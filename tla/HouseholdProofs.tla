----------------------------- MODULE HouseholdProofs ----------------------------
(***************************************************************************)
(* Proofs about Errands for any number of repeated tool calls and of       *)
(* overlapping couriers: the research is paid once, the result is handed   *)
(* over at most once, and the errand never denies what was handed over.    *)
(* Proofs about MemoryReview for any number of messages, batches and       *)
(* overlapping dispatchers: the chain of a lane stays whole, and no two    *)
(* turns save from the same message.                                       *)
(* Then about Household: what is proved of its schedules one by one holds  *)
(* when they stand side by side.                                           *)
(***************************************************************************)
EXTENDS Household, RemindersProofs, VideoGenerationProofs, WellFoundedInduction

(***************************************************************************)
(* Both halves of an errand rest on a barrier that is written before the   *)
(* outside world is asked: `started` of the research run, `sending` of the *)
(* errand.  The barrier is passed from one state only and never set back,  *)
(* which leaves room for one caller and for one courier behind it.         *)
(***************************************************************************)
Asker(c) == caller[c] \in {"asking", "answered", "refused"}
OneAsker ==
    /\ \A c \in Callers : Asker(c) => research = "started"
    /\ \A c1, c2 \in Callers : Asker(c1) /\ Asker(c2) => c1 = c2
PaidBehindClaim ==
    /\ paid > 0 => research # "none"
    /\ \A c \in Callers : caller[c] = "asking" => paid = 0
    /\ paid <= 1

Underway == {"sending", "sent", "ambiguous"}
Carrier(w) == courier[w] \in {"posting", "known", "unknown"}
OneCarrier ==
    /\ \A w \in Couriers : Carrier(w) => errand.state \in {"sending", "ambiguous"}
    /\ \A v, w \in Couriers : Carrier(v) /\ Carrier(w) => v = w
HandedBehindAttempt ==
    /\ handed > 0 => errand.state \in Underway
    /\ \A w \in Couriers : courier[w] = "posting" => handed = 0
    /\ handed <= 1
\* The attempt and the errand are settled together.
AttemptMirrorsErrand ==
    delivery.state = IF errand.state \in Underway THEN errand.state ELSE "none"
ConfirmedIsSent == confirmed => errand.state = "sent"

ResearchInv == OneAsker /\ PaidBehindClaim
DeliveryInv == OneCarrier /\ HandedBehindAttempt /\ AttemptMirrorsErrand /\ ConfirmedIsSent

LEMMA ErrandsTypeInit == ErrandsInit => ErrandsTypeOK
<1> SUFFICES ASSUME ErrandsInit PROVE ErrandsTypeOK
  OBVIOUS
<1>1. /\ stirs \in 0..MaxErrandChanges
      /\ troubles \in 0..MaxErrandFaults
      /\ paid \in 0..2 /\ handed \in 0..2
  BY ErrandConstants DEF ErrandsInit
<1>2. QED
  BY <1>1 DEF ErrandsInit, ErrandsTypeOK

LEMMA ErrandsTypeStep == ErrandsTypeOK /\ [ErrandsNext]_errandsVars => ErrandsTypeOK'
<1> SUFFICES ASSUME ErrandsTypeOK, [ErrandsNext]_errandsVars PROVE ErrandsTypeOK'
  OBVIOUS
<1> USE ErrandConstants DEF ErrandsTypeOK
<1>1. CASE UNCHANGED errandsVars
  BY <1>1 DEF errandsVars
<1>2. ASSUME NEW mode \in {"draft", "send"}, CreateErrand(mode) PROVE ErrandsTypeOK'
  BY <1>2 DEF CreateErrand
<1>3. CASE CancelErrand
  BY <1>3 DEF CancelErrand
<1>4. CASE SendErrand
  BY <1>4 DEF SendErrand
<1>5. CASE CloseAbandoned
  BY <1>5 DEF CloseAbandoned
<1>6. CASE AttemptAges
  BY <1>6 DEF AttemptAges
<1>7. CASE PeopleChange
  <2>1. stirs' \in 0..MaxErrandChanges
    BY <1>7 DEF PeopleChange
  <2>2. access' \in BOOLEAN
    <3>1. access' = FALSE \/ access' = access
      BY <1>7 DEF PeopleChange
    <3>2. access \in BOOLEAN
      OBVIOUS
    <3>3. QED
      BY <3>1, <3>2, Zenon
  <2>3. recipient' \in {"allowed", "muted", "waits"}
    BY <1>7 DEF PeopleChange
  <2>4. /\ errand' = errand /\ research' = research /\ caller' = caller /\ paid' = paid
        /\ delivery' = delivery /\ courier' = courier /\ handed' = handed
        /\ confirmed' = confirmed /\ troubles' = troubles
    BY <1>7, Zenon DEF PeopleChange
  <2>5. QED
    BY <2>1, <2>2, <2>3, <2>4
<1>8. ASSUME NEW c \in Callers, ResearchStep(c) \/ CallerDies(c) PROVE ErrandsTypeOK'
  <2>1. CASE ClaimResearch(c)
    BY <2>1 DEF ClaimResearch, CallerAt
  <2>2. CASE AskProvider(c)
    BY <2>2 DEF AskProvider, CallerAt, AnotherOne, Trouble
  <2>3. CASE KeepResult(c)
    BY <2>3 DEF KeepResult, Kept, CallerAt, Trouble
  <2>4. CASE WriteResult(c)
    <3>1. /\ errand' = errand
          \/ /\ errand.state = "preparing"
             /\ errand' = [errand EXCEPT !.state = IF errand.authorized THEN "queued" ELSE "ready",
                                         !.fresh = FALSE]
      BY <2>4 DEF WriteResult
    <3>2. errand'.state \in {"queued", "sending", "sent", "ambiguous"} => errand'.authorized
      BY <3>1
    <3>3. errand'.state \in {"ready", "queued", "sending", "sent", "ambiguous"} => ~errand'.fresh
      BY <3>1
    <3>4. errand' \in [state : {"none", "preparing", "ready", "queued", "sending", "sent",
                               "failed", "ambiguous", "cancelled"},
                      authorized : BOOLEAN, fresh : BOOLEAN]
      BY <3>1
    <3>5. caller' \in [Callers -> {"idle", "asking", "answered", "refused", "writing"}]
      BY <2>4 DEF WriteResult, CallerAt
    <3>6. /\ research' = research /\ paid' = paid /\ delivery' = delivery /\ courier' = courier
          /\ handed' = handed /\ confirmed' = confirmed /\ access' = access
          /\ recipient' = recipient /\ stirs' = stirs /\ troubles' = troubles
      BY <2>4, Zenon DEF WriteResult
    <3>7. QED
      BY <3>2, <3>3, <3>4, <3>5, <3>6
  <2>5. CASE CallerDies(c)
    BY <2>5 DEF CallerDies, CallerAt, Trouble
  <2>6. QED
    BY <1>8, <2>1, <2>2, <2>3, <2>4, <2>5 DEF ResearchStep
<1>9. ASSUME NEW w \in Couriers, CourierStep(w) \/ CourierDies(w) PROVE ErrandsTypeOK'
  <2>1. CASE ChooseErrand(w)
    BY <2>1 DEF ChooseErrand, CourierAt
  <2>2. CASE StartDelivery(w)
    <3>1. /\ errand'.authorized = errand.authorized /\ errand'.fresh = errand.fresh
          /\ errand' \in [state : {"none", "preparing", "ready", "queued", "sending", "sent",
                                   "failed", "ambiguous", "cancelled"},
                          authorized : BOOLEAN, fresh : BOOLEAN]
          /\ errand'.state \in {errand.state, "failed", "sending"}
          /\ errand'.state = "sending" => errand.state \in {"queued", "sending"}
      BY <2>2 DEF StartDelivery
    <3>2. delivery' = delivery \/ delivery' = [state |-> "sending", old |-> FALSE]
      BY <2>2 DEF StartDelivery
    <3>3. courier' \in [Couriers -> {"idle", "chosen", "posting", "known", "unknown"}]
      BY <2>2 DEF StartDelivery, CourierAt
    <3>4. UNCHANGED <<research, caller, paid, handed, confirmed, access, recipient, stirs, troubles>>
      BY <2>2 DEF StartDelivery
    <3>5. /\ errand'.state \in {"queued", "sending", "sent", "ambiguous"} => errand'.authorized
          /\ errand'.state \in {"ready", "queued", "sending", "sent", "ambiguous"} => ~errand'.fresh
      BY <3>1
    <3>6. delivery' \in [state : {"none", "sending", "sent", "ambiguous"}, old : BOOLEAN]
      <4>1. [state |-> "sending", old |-> FALSE]
            \in [state : {"none", "sending", "sent", "ambiguous"}, old : BOOLEAN]
        OBVIOUS
      <4>2. QED
        BY <3>2, <4>1
    <3>7. QED
      BY <3>1, <3>3, <3>4, <3>5, <3>6
  <2>3. CASE PostErrand(w)
    BY <2>3 DEF PostErrand, CourierAt, AnotherOne, Trouble
  <2>4. CASE SettleDelivery(w)
    BY <2>4 DEF SettleDelivery, Settled, CourierAt
  <2>5. CASE CourierDies(w)
    BY <2>5 DEF CourierDies, CourierAt, Trouble
  <2>6. QED
    BY <1>9, <2>1, <2>2, <2>3, <2>4, <2>5 DEF CourierStep
<1>10. QED
  BY <1>1, <1>2, <1>3, <1>4, <1>5, <1>6, <1>7, <1>8, <1>9 DEF ErrandsNext

\* Every row keeps its shape and the CHECKs of the table hold.
THEOREM ErrandsTypeCorrect == ErrandsSpec => []ErrandsTypeOK
  BY ErrandsTypeInit, ErrandsTypeStep, PTL DEF ErrandsSpec

-----------------------------------------------------------------------------
(* The research. *)

LEMMA ResearchStepKeeps ==
    ErrandsTypeOK /\ ResearchInv /\ [ErrandsNext]_errandsVars => ResearchInv'
<1> SUFFICES ASSUME ErrandsTypeOK, ResearchInv, [ErrandsNext]_errandsVars PROVE ResearchInv'
  OBVIOUS
<1> USE DEF ResearchInv, OneAsker, PaidBehindClaim, Asker
<1>1. CASE UNCHANGED <<research, caller, paid>>
  BY <1>1
<1>2. ASSUME NEW c \in Callers, ResearchStep(c) \/ CallerDies(c) PROVE ResearchInv'
  <2>0. caller \in [Callers -> {"idle", "asking", "answered", "refused", "writing"}] /\ paid \in 0..2
    BY DEF ErrandsTypeOK
  <2>1. CASE ClaimResearch(c)
    <3>1. CASE Unclaimed /\ research' = "started" /\ CallerAt(c, "asking")
      <4>1. /\ \A d \in Callers : ~Asker(d)
            /\ paid = 0 /\ paid' = 0
        BY <2>0, <2>1, <3>1 DEF Unclaimed, ClaimResearch
      <4>2. \A d \in Callers : d # c => caller'[d] = caller[d]
        BY <2>0, <3>1 DEF CallerAt
      <4>3. QED
        BY <3>1, <4>1, <4>2
    <3>2. CASE CallerAt(c, "writing") /\ UNCHANGED research
      BY <2>0, <2>1, <3>2 DEF ClaimResearch, CallerAt
    <3>3. QED
      BY <2>1, <3>1, <3>2 DEF ClaimResearch
  <2>2. CASE AskProvider(c)
    <3>1. paid = 0 /\ paid' = 1 /\ research = "started" /\ research' = "started"
      BY <2>2 DEF AskProvider, AnotherOne
    <3>2. \A d \in Callers : d # c => ~Asker(d) /\ caller'[d] = caller[d]
      BY <2>0, <2>2 DEF AskProvider, CallerAt
    <3>3. caller'[c] \in {"answered", "refused"}
      BY <2>0, <2>2 DEF AskProvider, CallerAt
    <3>4. QED
      BY <3>1, <3>2, <3>3
  <2>3. CASE KeepResult(c)
    <3>1. /\ research = "started" /\ research' \in {"completed", "ambiguous"}
          /\ paid' = paid
      BY <2>3 DEF KeepResult, Kept
    <3>2. \A d \in Callers : caller'[d] \notin {"asking", "answered", "refused"}
      BY <2>0, <2>3 DEF KeepResult, Kept, CallerAt
    <3>3. QED
      BY <3>1, <3>2
  <2>4. CASE WriteResult(c)
    BY <2>0, <2>4 DEF WriteResult, CallerAt
  <2>5. CASE CallerDies(c)
    BY <2>0, <2>5 DEF CallerDies, CallerAt
  <2>6. QED
    BY <1>2, <2>1, <2>2, <2>3, <2>4, <2>5 DEF ResearchStep
<1>3. ASSUME ~UNCHANGED <<research, caller, paid>>
      PROVE  \E c \in Callers : ResearchStep(c) \/ CallerDies(c)
  BY <1>3 DEF ErrandsNext, errandsVars, CreateErrand, CancelErrand, SendErrand, CloseAbandoned,
      AttemptAges, PeopleChange, CourierStep, ChooseErrand, StartDelivery, PostErrand,
      SettleDelivery, CourierDies
<1>4. QED
  BY <1>1, <1>2, <1>3

-----------------------------------------------------------------------------
(* The delivery. *)

\* What the couriers do: each step moves one courier.
LEMMA CourierKeeps ==
    ASSUME ErrandsTypeOK, DeliveryInv, NEW w \in Couriers, CourierStep(w) \/ CourierDies(w)
    PROVE  DeliveryInv'
<1> USE DEF DeliveryInv, OneCarrier, HandedBehindAttempt, AttemptMirrorsErrand, ConfirmedIsSent,
        Carrier, Underway, CourierAt
<1>0. /\ courier \in [Couriers -> {"idle", "chosen", "posting", "known", "unknown"}]
      /\ handed \in 0..2
      /\ errand \in [state : {"none", "preparing", "ready", "queued", "sending", "sent", "failed",
                            "ambiguous", "cancelled"},
                   authorized : BOOLEAN, fresh : BOOLEAN]
      /\ delivery \in [state : {"none", "sending", "sent", "ambiguous"}, old : BOOLEAN]
  BY DEF ErrandsTypeOK
<1>1. CASE ChooseErrand(w)
  BY <1>0, <1>1 DEF ChooseErrand
<1>2. CASE StartDelivery(w)
  <2>1. CASE errand.state = "queued" /\ errand' = [errand EXCEPT !.state = "failed"]
             /\ CourierAt(w, "idle") /\ UNCHANGED delivery
    BY <1>0, <1>2, <2>1 DEF StartDelivery
  <2>2. CASE /\ errand.state = "queued"
             /\ errand' = [errand EXCEPT !.state = "sending"]
             /\ delivery' = [state |-> "sending", old |-> FALSE]
             /\ CourierAt(w, "posting")
    <3>1. (\A v \in Couriers : ~Carrier(v)) /\ handed = 0 /\ ~confirmed
      BY <1>0, <2>2
    <3>2. errand'.state = "sending" /\ delivery'.state = "sending" /\ handed' = 0 /\ ~confirmed'
      BY <1>0, <1>2, <2>2, <3>1 DEF StartDelivery
    <3>3. \A v \in Couriers : v # w => courier'[v] = courier[v]
      BY <1>0, <2>2
    <3>4. QED
      BY <3>1, <3>2, <3>3
  <2>3. CASE CourierAt(w, "idle") /\ UNCHANGED <<errand, delivery>>
    BY <1>0, <1>2, <2>3 DEF StartDelivery
  <2>4. QED
    BY <1>2, <2>1, <2>2, <2>3 DEF StartDelivery
<1>3. CASE PostErrand(w)
  <2>1. /\ handed = 0 /\ handed' \in {0, 1}
        /\ courier'[w] \in {"known", "unknown"}
        /\ \A v \in Couriers : v # w => ~Carrier(v) /\ courier'[v] = courier[v]
        /\ errand.state \in {"sending", "ambiguous"}
        /\ UNCHANGED <<errand, delivery, confirmed>>
    BY <1>0, <1>3 DEF PostErrand, AnotherOne
  <2>2. QED
    BY <2>1
<1>4. CASE SettleDelivery(w)
  <2>1. /\ Carrier(w) /\ errand.state \in {"sending", "ambiguous"}
        /\ delivery.state = errand.state /\ ~confirmed
    BY <1>0, <1>4 DEF SettleDelivery
  <2>2. \A v \in Couriers : ~Carrier(v)'
    BY <1>0, <1>4, <2>1 DEF SettleDelivery
  <2>3. /\ errand'.state = IF courier[w] = "known" THEN "sent" ELSE "ambiguous"
        /\ delivery'.state = errand'.state
        /\ confirmed' => courier[w] = "known"
        /\ handed' = handed
    BY <1>0, <1>4, <2>1 DEF SettleDelivery, Settled
  <2>4. QED
    BY <2>2, <2>3
<1>5. CASE CourierDies(w)
  BY <1>0, <1>5 DEF CourierDies
<1>6. QED
  BY <1>1, <1>2, <1>3, <1>4, <1>5 DEF CourierStep

LEMMA DeliveryStepKeeps ==
    ErrandsTypeOK /\ DeliveryInv /\ [ErrandsNext]_errandsVars => DeliveryInv'
<1> SUFFICES ASSUME ErrandsTypeOK, DeliveryInv, [ErrandsNext]_errandsVars PROVE DeliveryInv'
  OBVIOUS
<1>1. CASE \E w \in Couriers : CourierStep(w) \/ CourierDies(w)
  BY <1>1, CourierKeeps
<1> USE DEF DeliveryInv, OneCarrier, HandedBehindAttempt, AttemptMirrorsErrand, ConfirmedIsSent,
        Carrier, Underway
<1>2. CASE UNCHANGED <<errand, delivery, courier, handed, confirmed>>
  BY <1>2
<1>0. /\ errand \in [state : {"none", "preparing", "ready", "queued", "sending", "sent", "failed",
                            "ambiguous", "cancelled"},
                   authorized : BOOLEAN, fresh : BOOLEAN]
      /\ delivery \in [state : {"none", "sending", "sent", "ambiguous"}, old : BOOLEAN]
      /\ handed \in 0..2
  BY DEF ErrandsTypeOK
\* Whatever the person who asked or the research does to an errand, it is not yet
\* underway and does not become so.
<1>3. ASSUME errand.state \notin Underway, errand'.state \notin Underway,
             UNCHANGED <<delivery, courier, handed, confirmed>>
      PROVE  DeliveryInv'
  BY <1>3
<1>4. ASSUME NEW mode \in {"draft", "send"}, CreateErrand(mode) PROVE DeliveryInv'
  BY <1>3, <1>4 DEF CreateErrand
<1>5. CASE CancelErrand
  BY <1>0, <1>3, <1>5 DEF CancelErrand
<1>6. CASE SendErrand
  BY <1>0, <1>3, <1>6 DEF SendErrand
<1>7. CASE CloseAbandoned
  <2>1. errand'.state = "ambiguous" /\ delivery'.state = "ambiguous" /\ errand.state = "sending"
    BY <1>0, <1>7 DEF CloseAbandoned
  <2>2. UNCHANGED <<courier, handed, confirmed>>
    BY <1>7 DEF CloseAbandoned
  <2>3. QED
    BY <2>1, <2>2
<1>8. CASE AttemptAges
  <2>1. delivery'.state = delivery.state /\ UNCHANGED <<errand, courier, handed, confirmed>>
    BY <1>0, <1>8 DEF AttemptAges
  <2>2. QED
    BY <2>1
<1>9. CASE PeopleChange
  BY <1>2, <1>9 DEF PeopleChange
<1>10. ASSUME NEW c \in Callers, ResearchStep(c) \/ CallerDies(c) PROVE DeliveryInv'
  <2>1. CASE WriteResult(c)
    <3>1. CASE errand.state = "preparing" /\ errand.fresh /\ access
      <4>1. errand'.state \in {"queued", "ready"}
        BY <1>0, <2>1, <3>1 DEF WriteResult
      <4>2. QED
        BY <1>3, <2>1, <3>1, <4>1 DEF WriteResult
    <3>2. CASE UNCHANGED errand
      BY <1>2, <2>1, <3>2 DEF WriteResult
    <3>3. QED
      BY <2>1, <3>1, <3>2 DEF WriteResult
  <2>2. CASE ClaimResearch(c) \/ AskProvider(c) \/ KeepResult(c) \/ CallerDies(c)
    BY <1>2, <2>2 DEF ClaimResearch, AskProvider, KeepResult, CallerDies
  <2>3. QED
    BY <1>10, <2>1, <2>2 DEF ResearchStep
<1>11. CASE UNCHANGED errandsVars
  BY <1>2, <1>11 DEF errandsVars
<1>12. QED
  BY <1>1, <1>4, <1>5, <1>6, <1>7, <1>8, <1>9, <1>10, <1>11 DEF ErrandsNext

-----------------------------------------------------------------------------
LEMMA ErrandsInvInit == ErrandsInit => ResearchInv /\ DeliveryInv
  BY DEF ErrandsInit, ResearchInv, OneAsker, PaidBehindClaim, Asker, DeliveryInv, OneCarrier,
     HandedBehindAttempt, AttemptMirrorsErrand, ConfirmedIsSent, Carrier, Underway

LEMMA ErrandsInvImplies ==
    ErrandsTypeOK /\ ResearchInv /\ DeliveryInv => ErrandDoneOnce /\ ErrandIsAccountedFor
  BY DEF ResearchInv, PaidBehindClaim, DeliveryInv, HandedBehindAttempt, AttemptMirrorsErrand,
     ConfirmedIsSent, Underway, ErrandDoneOnce, ErrandIsAccountedFor

\* The research of an errand is paid for at most once and its result is handed to
\* the recipient at most once, however many tool calls Eve repeats and however
\* many couriers the minute schedule lets overlap or crash.
THEOREM ErrandDoneOnceCorrect == ErrandsSpec => []ErrandDoneOnce
<1>1. ErrandsTypeOK /\ ResearchInv /\ DeliveryInv /\ [ErrandsNext]_errandsVars
      => (ErrandsTypeOK /\ ResearchInv /\ DeliveryInv)'
  BY ErrandsTypeStep, ResearchStepKeeps, DeliveryStepKeeps
<1>2. QED
  BY <1>1, ErrandsTypeInit, ErrandsInvInit, ErrandsInvImplies, PTL DEF ErrandsSpec

\* A confirmed message belongs to an errand that is sent, even when the answer came
\* after the attempt was closed as abandoned; and nothing that may have been
\* received belongs to an errand that was cancelled, rejected or still waits.
THEOREM ErrandIsAccountedForCorrect == ErrandsSpec => []ErrandIsAccountedFor
<1>1. ErrandsTypeOK /\ ResearchInv /\ DeliveryInv /\ [ErrandsNext]_errandsVars
      => (ErrandsTypeOK /\ ResearchInv /\ DeliveryInv)'
  BY ErrandsTypeStep, ResearchStepKeeps, DeliveryStepKeeps
<1>2. QED
  BY <1>1, ErrandsTypeInit, ErrandsInvInit, ErrandsInvImplies, PTL DEF ErrandsSpec

-----------------------------------------------------------------------------
\* A set of natural numbers has a smallest one.
LEMMA SmallestOne ==
    ASSUME NEW T \in SUBSET Nat, T # {}
    PROVE  \E k \in T : \A j \in T : k <= j
<1>1. PICK k \in T : \A j \in T : ~(<<j, k>> \in OpToRel(<, Nat))
  BY NatLessThanWellFounded, WFMin
<1>2. \A j \in T : ~(j < k)
  BY <1>1 DEF OpToRel
<1>3. QED
  BY <1>2

\* A set that takes a number whenever it takes all above it takes all of them.
LEMMA DownFromTop ==
    ASSUME NEW n \in Nat, NEW S, \A p \in 0..n : (\A q \in (p + 1)..n : q \in S) => p \in S
    PROVE  0..n \subseteq S
<1> DEFINE T == {k \in Nat : k <= n /\ n - k \notin S}
<1> SUFFICES ASSUME NEW p \in 0..n, p \notin S PROVE FALSE
  OBVIOUS
<1>1. n - p \in T
  <2>1. n - (n - p) = p
    OBVIOUS
  <2>2. QED
    BY <2>1
<1>2. PICK k \in T : \A j \in T : k <= j
  <2>1. T \in SUBSET Nat /\ T # {}
    BY <1>1
  <2> HIDE DEF T
  <2>2. QED
    BY <2>1, SmallestOne
<1>3. \A q \in (n - k + 1)..n : q \in S
  <2> SUFFICES ASSUME NEW q \in (n - k + 1)..n, q \notin S PROVE FALSE
    OBVIOUS
  <2>1. n - (n - q) = q /\ n - q \in Nat /\ n - q < k /\ n - q <= n
    OBVIOUS
  <2>2. QED
    BY <2>1, <1>2
<1>4. QED
  BY <1>3

LEMMA FurtherOn ==
    \A n \in Nat : \A k \in 0..n : \A p \in (k + 1)..n : \A t \in (p + 1)..n : t # k /\ t \in 0..n
OBVIOUS

\* A walk goes on from the places in T, each to the place `to` says.
IsWalk(w, n, T, to) == w = [p \in 0..n |-> IF p \in T THEN w[to[p]] ELSE p]

\* A walk that only goes forward has an end.
LEMMA WalkExists ==
    ASSUME NEW n \in Nat, NEW T \in SUBSET (0..n), NEW to, \A p \in T : to[p] \in (p + 1)..n
    PROVE  \E w : IsWalk(w, n, T, to)
<1> DEFINE Good(w, k) == \A p \in k..n : w[p] = IF p \in T THEN w[to[p]] ELSE p
           S == {k \in 0..n : \E w \in [0..n -> 0..n] : Good(w, k)}
<1>1. ASSUME NEW k \in 0..n, \A q \in (k + 1)..n : q \in S PROVE k \in S
  <2>1. PICK v \in [0..n -> 0..n] : Good(v, k + 1)
    <3>1. CASE k = n
      <4>1. [p \in 0..n |-> p] \in [0..n -> 0..n] /\ Good([p \in 0..n |-> p], k + 1)
        BY <3>1
      <4>2. QED
        BY <4>1
    <3>2. CASE k # n
      <4>1. k + 1 \in (k + 1)..n
        BY <3>2
      <4>2. k + 1 \in S
        BY <1>1, <4>1
      <4>3. QED
        BY <4>2
    <3>3. QED
      BY <3>1, <3>2
  <2> DEFINE w == [p \in 0..n |-> IF p = k THEN (IF k \in T THEN v[to[k]] ELSE k) ELSE v[p]]
  <2>2. w \in [0..n -> 0..n]
    OBVIOUS
  <2>3. Good(w, k)
    <3> SUFFICES ASSUME NEW p \in k..n PROVE w[p] = IF p \in T THEN w[to[p]] ELSE p
      OBVIOUS
    <3>1. CASE p = k
      BY <3>1
    <3>2. CASE p # k
      <4>1. p \in (k + 1)..n /\ p \in 0..n
        BY <3>2
      <4>2. v[p] = IF p \in T THEN v[to[p]] ELSE p
        BY <4>1, <2>1
      <4>3. p \in T => to[p] # k /\ to[p] \in 0..n
        <5> SUFFICES ASSUME p \in T PROVE to[p] # k /\ to[p] \in 0..n
          OBVIOUS
        <5> HIDE DEF w, Good, S
        <5>1. to[p] \in (p + 1)..n
          OBVIOUS
        <5>2. QED
          BY <4>1, <5>1, FurtherOn
      <4>4. QED
        BY <4>1, <4>2, <4>3, <3>2
    <3>3. QED
      BY <3>1, <3>2
  <2>4. QED
    BY <2>2, <2>3
<1>2. 0..n \subseteq S
  <2> HIDE DEF S
  <2>1. QED
    BY <1>1, DownFromTop
<1>3. PICK w \in [0..n -> 0..n] : Good(w, 0)
  <2>1. 0 \in S
    <3> HIDE DEF S
    <3>1. QED
      BY <1>2
  <2>2. QED
    BY <2>1
<1>4. IsWalk(w, n, T, to)
  BY <1>3 DEF IsWalk
<1>5. QED
  BY <1>4

\* Where it ends: not before it began, at no place it leaves, and behind a step.
LEMMA WalkEnds ==
    ASSUME NEW n \in Nat, NEW T \in SUBSET (0..n), NEW to, \A p \in T : to[p] \in (p + 1)..n,
           NEW w, IsWalk(w, n, T, to)
    PROVE  \A p \in 0..n :
               /\ w[p] \in p..n /\ w[p] \notin T
               /\ w[p] = p \/ \E q \in T : q >= p /\ to[q] = w[p]
<1> DEFINE Ends(p) == /\ w[p] \in p..n /\ w[p] \notin T
                      /\ w[p] = p \/ \E q \in T : q >= p /\ to[q] = w[p]
           S == {p \in 0..n : Ends(p)}
<1>1. ASSUME NEW p \in 0..n, \A q \in (p + 1)..n : q \in S PROVE p \in S
  <2>1. w[p] = IF p \in T THEN w[to[p]] ELSE p
    BY DEF IsWalk
  <2>2. CASE p \notin T
    BY <2>1, <2>2
  <2>3. CASE p \in T
    <3>1. to[p] \in (p + 1)..n /\ Ends(to[p]) /\ w[p] = w[to[p]]
      BY <2>1, <2>3, <1>1
    <3>2. w[p] \in p..n /\ w[p] \notin T
      BY <3>1
    <3>3. \E q \in T : q >= p /\ to[q] = w[p]
      <4>1. CASE w[to[p]] = to[p]
        BY <3>1, <4>1, <2>3
      <4>2. CASE \E q \in T : q >= to[p] /\ to[q] = w[to[p]]
        <5>1. PICK q \in T : q >= to[p] /\ to[q] = w[to[p]]
          BY <4>2
        <5>2. q >= p
          BY <5>1, <3>1
        <5>3. QED
          BY <5>1, <5>2, <3>1
      <4>3. QED
        BY <4>1, <4>2, <3>1
    <3>4. QED
      BY <3>2, <3>3
  <2>4. QED
    BY <2>2, <2>3
<1>2. 0..n \subseteq S
  <2> HIDE DEF S
  <2>1. QED
    BY <1>1, DownFromTop
<1>3. QED
  BY <1>2

-----------------------------------------------------------------------------
(***************************************************************************)
(* The chain of a lane. Rows are numbered in the order they were inserted  *)
(* and reach forward; no two overlap; what the cursor has passed ends at   *)
(* or before it, and what it has not is chained to it. Only the row at the *)
(* cursor is ever handed to a dispatcher, so only there can a batch be     *)
(* lost that nobody has to look at.                                        *)
(***************************************************************************)
LaneType == [cursor : 0..LaneMessages, last : 0..MaxPasses, at : [Places -> Batches]]
HandedOut(row) ==
    \/ row.status \in {"leased", "dispatching", "ambiguous"}
    \/ row.status = "failed" /\ ~row.manual
    \/ row.status = "running" /\ row.kind = "background"
RowFits(L, p) ==
    IF Exists(L, p)
    THEN /\ L.at[p].id \in 1..L.last /\ L.at[p].through \in (p + 1)..LaneMessages
         /\ L.at[p].kind # "none"
         /\ L.at[p].holder # Nobody => L.at[p].status \in {"leased", "dispatching"}
         /\ L.at[p].eve = "turn" => L.at[p].status \notin {"pending", "leased", "dispatching"}
         /\ HandedOut(L.at[p]) => p = L.cursor
    ELSE L.at[p] = NoBatch
RowsApart(L) ==
    \A p, q \in Places : Exists(L, p) /\ Exists(L, q) =>
        /\ p < q => L.at[p].through <= q
        /\ L.at[p].id = L.at[q].id => p = q
RowsBehind(L) ==
    \A p \in Places : Exists(L, p) /\ p < L.cursor => L.at[p].through <= L.cursor
RowsAhead(L) ==
    \A p \in Places : Exists(L, p) /\ L.cursor < L.at[p].through =>
        \/ p = L.cursor
        \/ \E q \in Places : Exists(L, q) /\ L.at[q].through = p /\ L.cursor <= q
LaneInv(L) ==
    /\ L \in LaneType
    /\ \A p \in Places : RowFits(L, p)
    /\ RowsApart(L) /\ RowsBehind(L) /\ RowsAhead(L)

\* What a turn may read and what it saved are messages of its own row, which stands
\* for good once something was saved.
ReadsOwnRow(L, i, t) ==
    t.sources \cup t.wrote # {} =>
        \E p \in Places : /\ Exists(L, p) /\ L.at[p].id = i /\ L.at[p].eve = "turn"
                          /\ t.sources \cup t.wrote \subseteq (p + 1)..L.at[p].through
TurnsFit(L, ts) ==
    \A i \in Passes : /\ ReadsOwnRow(L, i, ts[i])
                      /\ i > L.last => ts[i] = NoTurn

\* A turn is of the kind of its row.
KindsFit(L, ts) == \A p \in Places : Exists(L, p) => ts[L.at[p].id].kind = L.at[p].kind

Whole ==
    LaneInv(lane) /\ turn \in [Passes -> Turns] /\ TurnsFit(lane, turn) /\ KindsFit(lane, turn)
Attending ==
    /\ said \in 0..LaneMessages /\ flaws \in 0..MaxReviewFlaws
    /\ reviewer \in [Reviewers ->
           [doing : {"idle", "claimed", "prepared", "marked", "sent"}, id : 0..MaxPasses]]
    /\ \A w \in Reviewers : reviewer[w].id <= lane.last
ReviewInv == Whole /\ Attending

LEMMA LaneFields ==
    ASSUME NEW L \in LaneType
    PROVE  /\ L.cursor \in 0..LaneMessages /\ L.last \in 0..MaxPasses
           /\ L.at \in [Places -> Batches]
BY DEF LaneType

LEMMA BatchFields ==
    ASSUME NEW L \in LaneType, NEW p \in Places
    PROVE  /\ L.at[p] \in Batches
           /\ L.at[p].id \in 0..MaxPasses /\ L.at[p].through \in 0..LaneMessages
           /\ L.at[p].retried \in BOOLEAN /\ L.at[p].manual \in BOOLEAN
           /\ L.at[p].holder \in Reviewers \cup {Nobody}
           /\ L.at[p].eve \in {"none", "session", "turn"}
           /\ L.at[p].kind \in {"none", "background", "interactive"}
           /\ L.at[p].status \in {"none", "pending", "leased", "dispatching", "running",
                                  "completed", "skipped", "failed", "ambiguous"}
BY LaneFields DEF Batches

\* The walk over any set of rows that exist.
LEMMA WalkOverRows ==
    ASSUME NEW L, LaneInv(L), NEW T \in SUBSET Places, \A p \in T : Exists(L, p)
    PROVE  /\ \E w : w = [p \in 0..LaneMessages |-> IF p \in T THEN w[L.at[p].through] ELSE p]
           /\ \A w : w = [p \in 0..LaneMessages |-> IF p \in T THEN w[L.at[p].through] ELSE p] =>
                /\ w[L.cursor] \in L.cursor..LaneMessages /\ w[L.cursor] \notin T
                /\ w[L.cursor] = L.cursor
                   \/ \E q \in T : q >= L.cursor /\ L.at[q].through = w[L.cursor]
<1> DEFINE to == [p \in Places |-> L.at[p].through]
<1>1. LaneMessages \in Nat /\ T \in SUBSET (0..LaneMessages) /\ L.cursor \in 0..LaneMessages
  BY MemoryReviewConstants, LaneFields DEF LaneInv, Places
<1>2. \A p \in T : to[p] = L.at[p].through
  OBVIOUS
<1>9. \A p \in T : to[p] \in (p + 1)..LaneMessages
  BY DEF LaneInv, RowFits
<1>7. LaneMessages \in Nat
  BY <1>1
<1>8. T \in SUBSET (0..LaneMessages)
  BY <1>1
<1> HIDE DEF to
<1>3. PICK v : IsWalk(v, LaneMessages, T, to)
  BY <1>7, <1>8, <1>9, WalkExists
<1>4. v = [p \in 0..LaneMessages |-> IF p \in T THEN v[L.at[p].through] ELSE p]
  BY <1>2, <1>3 DEF IsWalk
<1>5. ASSUME NEW w, w = [p \in 0..LaneMessages |-> IF p \in T THEN w[L.at[p].through] ELSE p]
      PROVE  /\ w[L.cursor] \in L.cursor..LaneMessages /\ w[L.cursor] \notin T
             /\ w[L.cursor] = L.cursor
                \/ \E q \in T : q >= L.cursor /\ L.at[q].through = w[L.cursor]
  <2>1. IsWalk(w, LaneMessages, T, to)
    BY <1>2, <1>5 DEF IsWalk
  <2>2. \A p \in 0..LaneMessages :
               /\ w[p] \in p..LaneMessages /\ w[p] \notin T
               /\ w[p] = p \/ \E q \in T : q >= p /\ to[q] = w[p]
    BY ONLY <1>7, <1>8, <1>9, <2>1, WalkEnds
  <2>3. QED
    BY <2>2, <1>1, <1>2
<1>6. QED
  BY <1>4, <1>5

\* The cursor stops behind a row that is finished, and before none.
LEMMA AdvancedEnds ==
    ASSUME NEW L, LaneInv(L)
    PROVE  \E e \in L.cursor..LaneMessages :
               /\ Advanced(L) = [L EXCEPT !.cursor = e]
               /\ ~Through(L, e)
               /\ ~Through(L, L.cursor) => e = L.cursor
               /\ e = L.cursor \/ \E q \in Places : Through(L, q) /\ q >= L.cursor /\ L.at[q].through = e
<1> DEFINE T == {p \in Places : Through(L, p)}
           Follows(w) == w = [p \in 0..LaneMessages |-> IF Through(L, p) THEN w[L.at[p].through] ELSE p]
           W == CHOOSE w : Follows(w)
<1>1. \A p : p \in T <=> Through(L, p)
  BY DEF Through
<1>2. \A p \in T : Exists(L, p)
  BY DEF Through, Exists
<1>3. Follows(W)
  <2>1. \E w : w = [p \in 0..LaneMessages |-> IF p \in T THEN w[L.at[p].through] ELSE p]
    BY <1>2, WalkOverRows
  <2>2. \E w : Follows(w)
    BY <2>1, <1>1
  <2> HIDE DEF Follows
  <2>3. QED
    BY <2>2
<1>4. Advanced(L) = [L EXCEPT !.cursor = W[@]]
  BY DEF Advanced
<1> HIDE DEF W
<1>5. W = [p \in 0..LaneMessages |-> IF p \in T THEN W[L.at[p].through] ELSE p]
  BY <1>1, <1>3
<1> HIDE DEF Follows
<1>6. /\ W[L.cursor] \in L.cursor..LaneMessages /\ W[L.cursor] \notin T
      /\ W[L.cursor] = L.cursor \/ \E q \in T : q >= L.cursor /\ L.at[q].through = W[L.cursor]
  <2> HIDE DEF T
  <2>1. T \in SUBSET Places
    BY DEF T
  <2>2. QED
    BY <1>2, <1>5, <2>1, WalkOverRows
<1>7. ~Through(L, L.cursor) => W[L.cursor] = L.cursor
  BY <1>1, <1>5, LaneFields DEF LaneInv
<1>8. QED
  BY <1>4, <1>6, <1>7, <1>1

\* A new batch is put behind the rows that are not given up.
LEMMA CoveredEnds ==
    ASSUME NEW L, LaneInv(L)
    PROVE  /\ CoveredThrough(L) \in L.cursor..LaneMessages
           /\ ~Covers(L, CoveredThrough(L))
           /\ \/ CoveredThrough(L) = L.cursor
              \/ \E q \in Places : /\ Exists(L, q) /\ q >= L.cursor
                                   /\ L.at[q].through = CoveredThrough(L)
<1> DEFINE T == {p \in Places : Covers(L, p)}
           Follows(w) == w = [p \in 0..LaneMessages |-> IF Covers(L, p) THEN w[L.at[p].through] ELSE p]
           W == CHOOSE w : Follows(w)
<1>1. \A p : p \in T <=> Covers(L, p)
  BY DEF Covers, Exists
<1>2. \A p \in T : Exists(L, p)
  BY DEF Covers
<1>3. Follows(W)
  <2>1. \E w : w = [p \in 0..LaneMessages |-> IF p \in T THEN w[L.at[p].through] ELSE p]
    BY <1>2, WalkOverRows
  <2>2. \E w : Follows(w)
    BY <2>1, <1>1
  <2> HIDE DEF Follows
  <2>3. QED
    BY <2>2
<1>4. CoveredThrough(L) = W[L.cursor]
  BY DEF CoveredThrough
<1> HIDE DEF W
<1>5. W = [p \in 0..LaneMessages |-> IF p \in T THEN W[L.at[p].through] ELSE p]
  BY <1>1, <1>3
<1> HIDE DEF Follows
<1>6. /\ W[L.cursor] \in L.cursor..LaneMessages /\ W[L.cursor] \notin T
      /\ W[L.cursor] = L.cursor \/ \E q \in T : q >= L.cursor /\ L.at[q].through = W[L.cursor]
  <2> HIDE DEF T
  <2>1. T \in SUBSET Places
    BY DEF T
  <2>2. QED
    BY <1>2, <1>5, <2>1, WalkOverRows
<1>7. QED
  BY <1>4, <1>6, <1>1, <1>2

-----------------------------------------------------------------------------
(* What a transaction may make of the chain. *)

\* Rows may go that nothing was saved from; those that stay are the same rows.
Keeps(L, R) ==
    /\ R.last = L.last
    /\ \A p \in Places :
          /\ Exists(R, p) => /\ Exists(L, p) /\ R.at[p].id = L.at[p].id
                             /\ R.at[p].through = L.at[p].through
                             /\ R.at[p].kind = L.at[p].kind
                             /\ R.at[p].eve = "turn" <=> L.at[p].eve = "turn"
          /\ Exists(L, p) /\ ~Exists(R, p) => ~Wrote(L.at[p])

LEMMA KeepsSelf == ASSUME NEW L PROVE Keeps(L, L)
BY DEF Keeps

LEMMA KeepsOn ==
    ASSUME NEW L, NEW M, NEW R, Keeps(L, M), Keeps(M, R)
    PROVE  Keeps(L, R)
<1>1. R.last = L.last
  BY DEF Keeps
<1>2. ASSUME NEW p \in Places
      PROVE  /\ Exists(R, p) => /\ Exists(L, p) /\ R.at[p].id = L.at[p].id
                                /\ R.at[p].through = L.at[p].through
                                /\ R.at[p].kind = L.at[p].kind
                                /\ R.at[p].eve = "turn" <=> L.at[p].eve = "turn"
             /\ Exists(L, p) /\ ~Exists(R, p) => ~Wrote(L.at[p])
  <2>1. Exists(R, p) => /\ Exists(L, p) /\ R.at[p].id = L.at[p].id
                        /\ R.at[p].through = L.at[p].through
                        /\ R.at[p].kind = L.at[p].kind
                        /\ R.at[p].eve = "turn" <=> L.at[p].eve = "turn"
    BY DEF Keeps
  <2>2. ASSUME Exists(L, p), ~Exists(R, p) PROVE ~Wrote(L.at[p])
    <3>1. CASE Exists(M, p)
      <4>1. ~Wrote(M.at[p]) /\ M.at[p].id = L.at[p].id /\ (M.at[p].eve = "turn" <=> L.at[p].eve = "turn")
        BY <2>2, <3>1 DEF Keeps
      <4>2. QED
        BY <4>1 DEF Wrote
    <3>2. CASE ~Exists(M, p)
      BY <2>2, <3>2 DEF Keeps
    <3>3. QED
      BY <3>1, <3>2
  <2>3. QED
    BY <2>1, <2>2
<1>3. QED
  BY <1>1, <1>2 DEF Keeps

\* A row changes in place.
Changed(L, p, row) == [L EXCEPT !.at[p] = row]
LEMMA ChangedRow ==
    ASSUME NEW L, LaneInv(L), NEW p \in Places, Exists(L, p), NEW row \in Batches,
           row.status # "none", row.id = L.at[p].id, row.through = L.at[p].through, row.kind = L.at[p].kind,
           row.holder # Nobody => row.status \in {"leased", "dispatching"},
           row.eve = "turn" => row.status \notin {"pending", "leased", "dispatching"},
           HandedOut(row) => p = L.cursor
    PROVE  /\ LaneInv(Changed(L, p, row))
           /\ (row.eve = "turn" <=> L.at[p].eve = "turn") => Keeps(L, Changed(L, p, row))
<1> DEFINE R == Changed(L, p, row)
<1>1. /\ R.cursor = L.cursor /\ R.last = L.last
      /\ R.at = [L.at EXCEPT ![p] = row]
      /\ R \in LaneType /\ L \in LaneType
  BY DEF LaneInv, LaneType, Changed
<1>2. /\ R.at[p] = row
      /\ \A q \in Places : q # p => R.at[q] = L.at[q]
  BY <1>1, LaneFields
<1>3. \A q \in Places : /\ Exists(R, q) <=> Exists(L, q)
                        /\ R.at[q].id = L.at[q].id
                        /\ R.at[q].through = L.at[q].through
  BY <1>2 DEF Exists
<1> HIDE DEF R
<1>4. ASSUME NEW q \in Places PROVE RowFits(R, q)
  <2>1. CASE q = p
    BY <1>1, <1>2, <1>3, <2>1 DEF LaneInv, RowFits, HandedOut
  <2>2. CASE q # p
    <3>1. RowFits(L, q) /\ R.at[q] = L.at[q] /\ (Exists(R, q) <=> Exists(L, q))
      BY <1>2, <1>3, <2>2 DEF LaneInv
    <3>2. QED
      BY <1>1, <3>1 DEF RowFits
  <2>3. QED
    BY <2>1, <2>2
<1>5. RowsApart(R)
  <2>1. RowsApart(L)
    BY DEF LaneInv
  <2>2. QED
    BY <1>3, <2>1 DEF RowsApart
<1>6. RowsBehind(R)
  <2>1. RowsBehind(L)
    BY DEF LaneInv
  <2>2. QED
    BY <1>1, <1>3, <2>1 DEF RowsBehind
<1>7. RowsAhead(R)
  <2>1. RowsAhead(L)
    BY DEF LaneInv
  <2>2. QED
    BY <1>1, <1>3, <2>1 DEF RowsAhead
<1>8. LaneInv(R)
  BY <1>1, <1>4, <1>5, <1>6, <1>7 DEF LaneInv
<1>9. ASSUME row.eve = "turn" <=> L.at[p].eve = "turn" PROVE Keeps(L, R)
  BY <1>1, <1>2, <1>3, <1>9 DEF Keeps
<1>10. QED
  BY <1>8, <1>9 DEF R

\* No row reaches over the cursor or over the end of a row behind it.
LEMMA NoneAcross ==
    ASSUME NEW L, LaneInv(L), NEW e \in L.cursor..LaneMessages,
           \/ e = L.cursor
           \/ \E r \in Places : Exists(L, r) /\ r >= L.cursor /\ L.at[r].through = e
    PROVE  \A q \in Places : Exists(L, q) /\ q < e => L.at[q].through <= e
<1>1. L.cursor \in Nat /\ LaneMessages \in Nat /\ e \in Nat
  BY MemoryReviewConstants, LaneFields DEF LaneInv
<1>2. \A q \in Places : q \in Nat /\ (Exists(L, q) => L.at[q].through \in Nat)
  BY MemoryReviewConstants DEF Places, LaneInv, RowFits
<1> SUFFICES ASSUME NEW q \in Places, Exists(L, q), q < e PROVE L.at[q].through <= e
  OBVIOUS
<1>3. CASE e = L.cursor
  BY <1>3 DEF LaneInv, RowsBehind
<1>4. CASE \E r \in Places : Exists(L, r) /\ r >= L.cursor /\ L.at[r].through = e
  <2>1. PICK r \in Places : Exists(L, r) /\ r >= L.cursor /\ L.at[r].through = e
    BY <1>4
  <2>2. CASE q < r
    <3>1. L.at[q].through <= r
      BY <2>1, <2>2 DEF LaneInv, RowsApart
    <3>2. e \in (r + 1)..LaneMessages
      BY <2>1 DEF LaneInv, RowFits
    <3>3. QED
      BY <3>1, <3>2, <1>1, <1>2
  <2>3. CASE q = r
    BY <2>1, <2>3, <1>1
  <2>4. CASE r < q
    <3>1. L.at[r].through <= q
      BY <2>1, <2>4 DEF LaneInv, RowsApart
    <3>2. QED
      BY <3>1, <2>1, <1>1, <1>2
  <2>5. QED
    BY <2>2, <2>3, <2>4, <1>2
<1>5. QED
  BY <1>3, <1>4

\* The cursor passes what is finished.
LEMMA AdvancedLane ==
    ASSUME NEW L, LaneInv(L)
    PROVE  LaneInv(Advanced(L)) /\ Keeps(L, Advanced(L)) /\ Advanced(L).at = L.at
<1>1. PICK e \in L.cursor..LaneMessages :
               /\ Advanced(L) = [L EXCEPT !.cursor = e]
               /\ ~Through(L, e)
               /\ ~Through(L, L.cursor) => e = L.cursor
               /\ e = L.cursor \/ \E q \in Places : Through(L, q) /\ q >= L.cursor /\ L.at[q].through = e
  BY AdvancedEnds
<1> DEFINE R == [L EXCEPT !.cursor = e]
<1>2. /\ R.cursor = e /\ R.last = L.last /\ R.at = L.at /\ R \in LaneType
      /\ L.cursor \in 0..LaneMessages /\ e \in 0..LaneMessages /\ L.cursor <= e
  <2>1. L \in LaneType /\ LaneMessages \in Nat
    BY MemoryReviewConstants DEF LaneInv
  <2>2. L.cursor \in 0..LaneMessages
    BY <2>1, LaneFields
  <2>3. e \in 0..LaneMessages /\ L.cursor <= e
    BY <2>1, <2>2
  <2>4. R.cursor = e /\ R.last = L.last /\ R.at = L.at /\ R \in LaneType
    BY <2>1, <2>3 DEF LaneType
  <2>5. QED
    BY <2>2, <2>3, <2>4
<1> HIDE DEF R
<1>3. \A q \in Places : Exists(R, q) <=> Exists(L, q)
  BY <1>2 DEF Exists
<1>4. \A q \in Places : q \in Nat /\ (Exists(L, q) => L.at[q].through \in Nat)
  BY MemoryReviewConstants DEF Places, LaneInv, RowFits
<1>5. \A q \in Places : Exists(L, q) /\ q < e => L.at[q].through <= e
  <2>1. \A q \in Places : Through(L, q) => Exists(L, q)
    BY DEF Through, Exists
  <2>2. QED
    BY <1>1, <2>1, NoneAcross
<1>6. ASSUME NEW q \in Places PROVE RowFits(R, q)
  <2>1. CASE ~Exists(L, q)
    BY <1>2, <1>3, <2>1 DEF LaneInv, RowFits
  <2>2. CASE Exists(L, q)
    <3>1. HandedOut(L.at[q]) => q = e
      <4> SUFFICES ASSUME HandedOut(L.at[q]) PROVE q = e
        OBVIOUS
      <4>1. q = L.cursor
        BY <2>2 DEF LaneInv, RowFits
      <4>2. ~Through(L, L.cursor)
        BY <4>1 DEF Through, HandedOut
      <4>3. QED
        BY <4>1, <4>2, <1>1
    <3>2. QED
      BY <1>2, <1>3, <2>2, <3>1 DEF LaneInv, RowFits
  <2>3. QED
    BY <2>1, <2>2
<1>7. RowsApart(R)
  <2>1. RowsApart(L)
    BY DEF LaneInv
  <2>2. QED
    BY <1>2, <1>3, <2>1 DEF RowsApart
<1>8. RowsBehind(R)
  BY <1>2, <1>3, <1>5 DEF RowsBehind
<1>9. RowsAhead(R)
  <2> SUFFICES ASSUME NEW p \in Places, Exists(L, p), e < L.at[p].through, p # e
               PROVE  \E q \in Places : Exists(L, q) /\ L.at[q].through = p /\ e <= q
    BY <1>2, <1>3 DEF RowsAhead
  <2>1. e <= p
    BY <1>2, <1>4, <1>5
  <2>2. p # L.cursor /\ L.cursor < L.at[p].through
    BY <2>1, <1>2, <1>4
  <2>3. PICK q \in Places : Exists(L, q) /\ L.at[q].through = p /\ L.cursor <= q
    BY <2>2 DEF LaneInv, RowsAhead
  <2>4. e <= q
    BY <2>1, <2>3, <1>2, <1>4, <1>5
  <2>5. QED
    BY <2>3, <2>4
<1>10. LaneInv(R)
  BY <1>2, <1>6, <1>7, <1>8, <1>9 DEF LaneInv
<1>11. Keeps(L, R)
  BY <1>2, <1>3 DEF Keeps
<1>12. QED
  BY <1>1, <1>2, <1>10, <1>11 DEF R

\* A row goes that nothing stands behind.
LEMMA ReleasedRow ==
    ASSUME NEW L, LaneInv(L), NEW p \in Places, Exists(L, p), ~Exists(L, L.at[p].through),
           ~Wrote(L.at[p])
    PROVE  LaneInv(Changed(L, p, NoBatch)) /\ Keeps(L, Changed(L, p, NoBatch))
<1> DEFINE R == Changed(L, p, NoBatch)
<1>1. /\ R.cursor = L.cursor /\ R.last = L.last
      /\ R.at = [L.at EXCEPT ![p] = NoBatch]
      /\ R \in LaneType /\ L \in LaneType
  <2>1. NoBatch \in Batches
    BY MemoryReviewConstants DEF NoBatch, Batches
  <2>2. QED
    BY <2>1 DEF LaneInv, LaneType, Changed
<1>2. /\ R.at[p] = NoBatch
      /\ \A q \in Places : q # p => R.at[q] = L.at[q]
  BY <1>1, LaneFields
<1>3. /\ ~Exists(R, p)
      /\ \A q \in Places : q # p => (Exists(R, q) <=> Exists(L, q))
  <2> HIDE DEF R
  <2>1. NoBatch.status = "none"
    BY DEF NoBatch
  <2>2. QED
    BY <1>2, <2>1 DEF Exists
<1> HIDE DEF R
<1>4. ASSUME NEW q \in Places PROVE RowFits(R, q)
  <2>1. CASE q = p
    BY <1>2, <1>3, <2>1 DEF RowFits
  <2>2. CASE q # p
    <3>1. RowFits(L, q) /\ R.at[q] = L.at[q] /\ (Exists(R, q) <=> Exists(L, q))
      BY <1>2, <1>3, <2>2 DEF LaneInv
    <3>2. QED
      BY <1>1, <3>1 DEF RowFits
  <2>3. QED
    BY <2>1, <2>2
<1>5. RowsApart(R)
  <2>1. RowsApart(L)
    BY DEF LaneInv
  <2>2. QED
    BY <1>2, <1>3, <2>1 DEF RowsApart
<1>6. RowsBehind(R)
  <2>1. RowsBehind(L)
    BY DEF LaneInv
  <2>2. QED
    BY <1>1, <1>2, <1>3, <2>1 DEF RowsBehind
<1>7. RowsAhead(R)
  <2> SUFFICES ASSUME NEW q \in Places, Exists(R, q), R.cursor < R.at[q].through, q # R.cursor
               PROVE  \E r \in Places : Exists(R, r) /\ R.at[r].through = q /\ R.cursor <= r
    BY DEF RowsAhead
  <2>1. q # p /\ Exists(L, q) /\ L.cursor < L.at[q].through /\ q # L.cursor
    BY <1>1, <1>2, <1>3
  <2>2. PICK r \in Places : Exists(L, r) /\ L.at[r].through = q /\ L.cursor <= r
    BY <2>1 DEF LaneInv, RowsAhead
  <2>3. r # p
    BY <2>1, <2>2
  <2>4. QED
    BY <2>2, <2>3, <1>1, <1>2, <1>3
<1>8. LaneInv(R)
  BY <1>1, <1>4, <1>5, <1>6, <1>7 DEF LaneInv
<1>9. Keeps(L, R)
  BY <1>1, <1>2, <1>3 DEF Keeps
<1>10. QED
  BY <1>8, <1>9 DEF R

\* A batch whose work is over, one way or another, leaves the lane whole.
LEMMA ResolvedLane ==
    ASSUME NEW L, LaneInv(L), NEW p \in Places, Exists(L, p)
    PROVE  /\ LaneInv(Resolved(L, p)) /\ Keeps(L, Resolved(L, p))
           /\ \A q \in Places : Exists(L, q) /\ q # p => Exists(Resolved(L, p), q)
<1>1. CASE Outcome(L, p) = "released"
  <2>1. ~Wrote(L.at[p]) /\ ~Exists(L, L.at[p].through)
    BY <1>1 DEF Outcome
  <2>2. Resolved(L, p) = Changed(L, p, NoBatch)
    BY <1>1 DEF Resolved, Changed
  <2>3. LaneInv(Resolved(L, p)) /\ Keeps(L, Resolved(L, p))
    BY <2>1, <2>2, ReleasedRow
  <2>4. \A q \in Places : Exists(L, q) /\ q # p => Exists(Changed(L, p, NoBatch), q)
    BY LaneFields DEF LaneInv, LaneType, Changed, Exists
  <2>5. QED
    BY <2>2, <2>3, <2>4
<1>2. CASE Outcome(L, p) # "released"
  <2> DEFINE row == Loose(L.at[p], Outcome(L, p))
             R == Changed(L, p, row)
  <2>1. Outcome(L, p) \in {"completed", "skipped"}
    BY <1>2 DEF Outcome
  <2>2. L.at[p] \in Batches /\ (L.at[p].eve = "turn" => L.at[p].status \notin {"pending", "leased", "dispatching"})
    BY BatchFields DEF LaneInv, RowFits
  <2>3. /\ row \in Batches /\ row.status = Outcome(L, p) /\ row.id = L.at[p].id
        /\ row.through = L.at[p].through /\ row.holder = Nobody /\ row.eve = L.at[p].eve
        /\ row.kind = L.at[p].kind
    BY <2>1, <2>2 DEF Loose, Batches
  <2>4. ~HandedOut(row)
    BY <2>1, <2>3 DEF HandedOut
  <2> HIDE DEF row
  <2>5. LaneInv(R) /\ Keeps(L, R)
    BY <2>1, <2>3, <2>4, ChangedRow
  <2>6. Resolved(L, p) = Advanced(R)
    BY <1>2 DEF Resolved, Changed, row
  <2> HIDE DEF R
  <2>7. LaneInv(Advanced(R)) /\ Keeps(R, Advanced(R))
    BY <2>5, AdvancedLane
  <2>8. \A q \in Places : Exists(L, q) /\ q # p => Exists(Advanced(R), q)
    <3>1. Advanced(R).at = R.at
      BY <2>5, AdvancedLane
    <3>2. \A q \in Places : q # p => R.at[q] = L.at[q]
      BY LaneFields DEF LaneInv, LaneType, Changed, R
    <3>3. QED
      BY <3>1, <3>2 DEF Exists
  <2>9. QED
    BY <2>5, <2>6, <2>7, <2>8, KeepsOn
<1>3. QED
  BY <1>1, <1>2

-----------------------------------------------------------------------------
(* New batches. *)

\* The place behind all rows, chained to the cursor.
AtEnd(L, p) ==
    /\ p \in L.cursor..LaneMessages
    /\ p = L.cursor \/ \E q \in Places : Exists(L, q) /\ q >= L.cursor /\ L.at[q].through = p
    /\ \A q \in Places : Exists(L, q) => q < p /\ L.at[q].through <= p

\* Rows stay as they are, and new ones have new numbers.
Grows(L, R) ==
    /\ R.cursor = L.cursor /\ L.last <= R.last
    /\ \A p \in Places :
          /\ Exists(L, p) => Exists(R, p) /\ R.at[p] = L.at[p]
          /\ Exists(R, p) /\ ~Exists(L, p) => R.at[p].id \in (L.last + 1)..R.last

LEMMA EndIsOpen ==
    ASSUME NEW L, LaneInv(L), NEW p \in L.cursor..LaneMessages, ~Exists(L, p),
           p = L.cursor \/ \E q \in Places : Exists(L, q) /\ q >= L.cursor /\ L.at[q].through = p
    PROVE  AtEnd(L, p)
<1>1. L.cursor \in Nat /\ LaneMessages \in Nat /\ p \in Nat /\ L.cursor <= p
  BY MemoryReviewConstants, LaneFields DEF LaneInv
<1>2. \A q \in Places : q \in Nat /\ (Exists(L, q) => L.at[q].through \in Nat /\ q < L.at[q].through)
  BY MemoryReviewConstants DEF Places, LaneInv, RowFits
<1>3. \A q \in Places : Exists(L, q) /\ q < p => L.at[q].through <= p
  BY NoneAcross
<1> DEFINE B == {q \in Places : Exists(L, q) /\ p < q}
<1>4. B = {}
  <2> SUFFICES ASSUME B # {} PROVE FALSE
    OBVIOUS
  <2>1. PICK k \in B : \A j \in B : k <= j
    <3>1. B \in SUBSET Nat
      BY <1>2
    <3> HIDE DEF B
    <3>2. QED
      BY <3>1, SmallestOne
  <2>2. k \in Places /\ Exists(L, k) /\ p < k /\ k # L.cursor /\ L.cursor < L.at[k].through
    BY <1>1, <1>2
  <2>3. PICK q \in Places : Exists(L, q) /\ L.at[q].through = k /\ L.cursor <= q
    BY <2>2 DEF LaneInv, RowsAhead
  <2>4. q < k /\ q \notin B
    BY <2>1, <2>2, <2>3, <1>2
  <2>5. q < p
    BY <2>3, <2>4, <1>1, <1>2
  <2>6. QED
    BY <2>2, <2>3, <2>5, <1>1, <1>2, <1>3
<1>5. \A q \in Places : Exists(L, q) => q < p
  BY <1>4, <1>1, <1>2
<1>6. QED
  BY <1>3, <1>5 DEF AtEnd

LEMMA InsertedLane ==
    ASSUME NEW L, LaneInv(L), NEW p, AtEnd(L, p), NEW size \in Nat \ {0}, p + size <= LaneMessages,
           L.last < MaxPasses, NEW kind \in {"background", "interactive"}
    PROVE  LET R == Inserted(L, p, size, kind)
           IN  /\ LaneInv(R) /\ AtEnd(R, p + size) /\ Grows(L, R)
               /\ R.last = L.last + 1 /\ R.cursor = L.cursor
<1> DEFINE row == [NoBatch EXCEPT !.id = L.last + 1, !.kind = kind, !.through = p + size,
                             !.status = IF kind = "background" THEN "pending" ELSE "running"]
           R == Inserted(L, p, size, kind)
<1>1. /\ L.cursor \in Nat /\ LaneMessages \in Nat /\ p \in Nat /\ L.cursor <= p
      /\ p \in Places /\ ~Exists(L, p) /\ MaxPasses \in Nat /\ L.last \in Nat /\ L \in LaneType
  BY MemoryReviewConstants, LaneFields DEF LaneInv, AtEnd, Places
<1>2. \A q \in Places : q \in Nat /\ (Exists(L, q) => L.at[q].through \in Nat /\ q < L.at[q].through)
  BY MemoryReviewConstants DEF Places, LaneInv, RowFits
<1>3. /\ row \in Batches /\ row.id = L.last + 1 /\ row.kind = kind /\ row.through = p + size
      /\ row.status \in {"pending", "running"} /\ row.holder = Nobody /\ row.eve = "none"
      /\ row.status = "running" => row.kind = "interactive"
  <2>1. p + size \in 0..LaneMessages /\ L.last + 1 \in 0..MaxPasses
    BY <1>1
  <2>2. QED
    BY <2>1 DEF NoBatch, Batches
<1> HIDE DEF row
<1>4. /\ R.cursor = L.cursor /\ R.last = L.last + 1 /\ R.at = [L.at EXCEPT ![p] = row]
      /\ R \in LaneType
  <2>1. R = [L EXCEPT !.last = @ + 1, !.at[p] = row]
    BY DEF Inserted, row
  <2>2. L.last + 1 \in 0..MaxPasses
    BY <1>1
  <2>3. [L.at EXCEPT ![p] = row] \in [Places -> Batches]
    BY <1>1, <1>3, LaneFields
  <2> HIDE DEF R
  <2>4. /\ R.cursor = L.cursor /\ R.last = L.last + 1 /\ R.at = [L.at EXCEPT ![p] = row]
        /\ R = [cursor |-> L.cursor, last |-> L.last + 1, at |-> [L.at EXCEPT ![p] = row]]
    BY <2>1, <1>1 DEF LaneType
  <2>5. QED
    BY <2>2, <2>3, <2>4, <1>1, LaneFields DEF LaneType
<1> HIDE DEF R
<1>5. /\ R.at[p] = row /\ Exists(R, p)
      /\ \A q \in Places : q # p => R.at[q] = L.at[q] /\ (Exists(R, q) <=> Exists(L, q))
  <2>1. R.at[p] = row /\ \A q \in Places : q # p => R.at[q] = L.at[q]
    BY <1>1, <1>4, LaneFields
  <2>2. QED
    BY <2>1, <1>1, <1>3 DEF Exists
<1>6. \A q \in Places : Exists(L, q) => q < p /\ L.at[q].through <= p /\ q # p
  BY <1>1 DEF AtEnd
<1>7. ASSUME NEW q \in Places PROVE RowFits(R, q)
  <2>1. CASE q = p
    <3>1. R.at[q].id \in 1..R.last /\ R.at[q].through \in (q + 1)..LaneMessages
      BY <1>1, <1>3, <1>4, <1>5, <2>1
    <3>2. ~HandedOut(R.at[q])
      BY <1>3, <1>5, <2>1 DEF HandedOut
    <3>3. QED
      BY <1>3, <1>5, <2>1, <3>1, <3>2 DEF RowFits
  <2>2. CASE q # p
    <3>1. RowFits(L, q) /\ R.at[q] = L.at[q] /\ (Exists(R, q) <=> Exists(L, q))
      BY <1>5, <2>2 DEF LaneInv
    <3>2. L.at[q].id \in 1..L.last => L.at[q].id \in 1..R.last
      BY <1>1, <1>4
    <3>3. QED
      BY <1>4, <3>1, <3>2 DEF RowFits
  <2>3. QED
    BY <2>1, <2>2
<1>8. RowsApart(R)
  <2> SUFFICES ASSUME NEW a \in Places, NEW b \in Places, Exists(R, a), Exists(R, b), a # b
               PROVE  (a < b => R.at[a].through <= b) /\ R.at[a].id # R.at[b].id
    BY <1>2 DEF RowsApart
  <2>1. \A q \in Places : Exists(L, q) => L.at[q].id \in 1..L.last
    BY DEF LaneInv, RowFits
  <2>2. CASE a = p
    <3>1. Exists(L, b) /\ b < p /\ R.at[b] = L.at[b]
      BY <2>2, <1>5, <1>6
    <3>2. QED
      BY <3>1, <2>1, <2>2, <1>1, <1>2, <1>3, <1>5
  <2>3. CASE b = p
    <3>1. Exists(L, a) /\ L.at[a].through <= p /\ R.at[a] = L.at[a]
      BY <2>3, <1>5, <1>6
    <3>2. QED
      BY <3>1, <2>1, <2>3, <1>1, <1>2, <1>3, <1>5
  <2>4. CASE a # p /\ b # p
    BY <2>4, <1>5 DEF LaneInv, RowsApart
  <2>5. QED
    BY <2>2, <2>3, <2>4
<1>9. RowsBehind(R)
  <2> SUFFICES ASSUME NEW q \in Places, Exists(R, q), q < R.cursor
               PROVE  R.at[q].through <= R.cursor
    BY DEF RowsBehind
  <2>1. q # p
    BY <1>1, <1>2, <1>4
  <2>2. QED
    BY <2>1, <1>4, <1>5 DEF LaneInv, RowsBehind
<1>10. RowsAhead(R)
  <2> SUFFICES ASSUME NEW q \in Places, Exists(R, q), R.cursor < R.at[q].through, q # R.cursor
               PROVE  \E r \in Places : Exists(R, r) /\ R.at[r].through = q /\ R.cursor <= r
    BY DEF RowsAhead
  <2>1. PICK r \in Places : Exists(L, r) /\ L.at[r].through = q /\ L.cursor <= r
    <3>1. CASE q = p
      BY <3>1, <1>1, <1>2, <1>4 DEF AtEnd
    <3>2. CASE q # p
      BY <3>2, <1>4, <1>5 DEF LaneInv, RowsAhead
    <3>3. QED
      BY <3>1, <3>2
  <2>2. QED
    BY <2>1, <1>4, <1>5, <1>6
<1>11. LaneInv(R)
  BY <1>4, <1>7, <1>8, <1>9, <1>10 DEF LaneInv
<1>12. AtEnd(R, p + size)
  <2>1. p + size \in R.cursor..LaneMessages
    BY <1>1, <1>4
  <2>2. R.at[p].through = p + size /\ p >= R.cursor
    BY <1>1, <1>3, <1>4, <1>5
  <2>3. \A q \in Places : Exists(R, q) => q < p + size /\ R.at[q].through <= p + size
    <3> SUFFICES ASSUME NEW q \in Places, Exists(R, q)
                 PROVE  q < p + size /\ R.at[q].through <= p + size
      OBVIOUS
    <3>1. CASE q = p
      BY <3>1, <2>2, <1>1
    <3>2. CASE q # p
      <4>1. q < p /\ L.at[q].through <= p /\ R.at[q] = L.at[q] /\ Exists(L, q)
        BY <3>2, <1>5, <1>6
      <4>2. p \in Nat /\ q \in Nat /\ L.at[q].through \in Nat /\ size \in Nat \ {0}
        BY <4>1, <1>1, <1>2
      <4>3. L.at[q].through <= p + size /\ q < p + size
        BY ONLY <4>1, <4>2
      <4>4. QED
        BY <4>1, <4>3
    <3>3. QED
      BY <3>1, <3>2
  <2>4. QED
    BY <2>1, <2>2, <2>3, <1>1, <1>5 DEF AtEnd
<1>13. Grows(L, R)
  <2>1. ASSUME NEW q \in Places, Exists(R, q), ~Exists(L, q)
        PROVE  R.at[q].id \in (L.last + 1)..R.last
    BY <2>1, <1>1, <1>3, <1>4, <1>5
  <2>2. ASSUME NEW q \in Places, Exists(L, q) PROVE Exists(R, q) /\ R.at[q] = L.at[q]
    BY <2>2, <1>5, <1>6
  <2>3. R.cursor = L.cursor /\ L.last <= R.last
    BY <1>1, <1>4
  <2>4. QED
    BY <2>1, <2>2, <2>3 DEF Grows
<1>14. QED
  BY <1>4, <1>11, <1>12, <1>13 DEF R

LEMMA GrowsOn ==
    ASSUME NEW L, NEW M, NEW R, LaneInv(L), LaneInv(M), LaneInv(R), Grows(L, M), Grows(M, R)
    PROVE  Grows(L, R)
<1>1. L.last \in Nat /\ M.last \in Nat /\ R.last \in Nat
  BY MemoryReviewConstants, LaneFields DEF LaneInv
<1>2. R.cursor = L.cursor /\ L.last <= R.last /\ L.last <= M.last /\ M.last <= R.last
  BY <1>1 DEF Grows
<1>3. ASSUME NEW p \in Places, Exists(L, p) PROVE Exists(R, p) /\ R.at[p] = L.at[p]
  BY <1>3 DEF Grows
<1>4. ASSUME NEW p \in Places, Exists(R, p), ~Exists(L, p) PROVE R.at[p].id \in (L.last + 1)..R.last
  <2>1. CASE Exists(M, p)
    <3>1. M.at[p].id \in (L.last + 1)..M.last /\ R.at[p] = M.at[p]
      BY <1>4, <2>1 DEF Grows
    <3>2. QED
      BY <3>1, <1>1, <1>2
  <2>2. CASE ~Exists(M, p)
    <3>1. R.at[p].id \in (M.last + 1)..R.last
      BY <1>4, <2>2 DEF Grows
    <3>2. QED
      BY <3>1, <1>1, <1>2
  <2>3. QED
    BY <2>1, <2>2
<1>5. QED
  BY <1>2, <1>3, <1>4 DEF Grows

LEMMA GrowsSelf == ASSUME NEW L, LaneInv(L) PROVE Grows(L, L)
<1>1. L.last \in Nat
  BY MemoryReviewConstants, LaneFields DEF LaneInv
<1>2. QED
  BY <1>1 DEF Grows

LEMMA NextMultiple == \A k, s \in Nat : (k + 1) * s = k * s + s /\ k * s \in Nat
OBVIOUS

LEMMA MoreTimes == \A n, s \in Nat : \A k \in 0..n : k * s <= n * s
OBVIOUS

\* Portions are cut one behind the other.
LEMMA PortionsLane ==
    ASSUME NEW L, LaneInv(L), AtEnd(L, CoveredThrough(L)), NEW n \in Nat,
           CoveredThrough(L) + n * PassSize <= LaneMessages, L.last + n <= MaxPasses
    PROVE  LET R == Portions(L, n)
           IN  /\ LaneInv(R) /\ AtEnd(R, CoveredThrough(L) + n * PassSize) /\ Grows(L, R)
               /\ R.last = L.last + n /\ R.cursor = L.cursor
<1> DEFINE place == CoveredThrough(L)
           More(M, k) == Inserted(M, place + (k - 1) * PassSize, PassSize, "background")
           Cuts(C) == C = [k \in 0..n |-> IF k = 0 THEN L ELSE More(C[k - 1], k)]
           W == CHOOSE C : Cuts(C)
<1>1. Portions(L, n) = W[n]
  BY DEF Portions
<1> HIDE DEF W, More
<1>2. \E C : Cuts(C)
  <2> DEFINE Upto(C, k) == \A j \in 0..k : C[j] = IF j = 0 THEN L ELSE More(C[j - 1], j)
             S == {k \in 0..n : \E C : C = [j \in 0..n |-> C[j]] /\ Upto(C, n - k)}
  <2>1. ASSUME NEW k \in 0..n, \A q \in (k + 1)..n : q \in S PROVE k \in S
    <3>1. CASE k = n
      <4> DEFINE D == [j \in 0..n |-> L]
      <4>1. D = [j \in 0..n |-> D[j]] /\ Upto(D, n - k)
        BY <3>1
      <4> HIDE DEF D, Upto
      <4>2. QED
        BY <4>1
    <3>2. CASE k # n
      <4>1. k + 1 \in S
        <5>1. k + 1 \in (k + 1)..n
          BY <3>2
        <5>2. QED
          BY <2>1, <5>1
      <4>2. PICK C : C = [j \in 0..n |-> C[j]] /\ Upto(C, n - (k + 1))
        BY <4>1
      <4> DEFINE D == [j \in 0..n |-> IF j = n - k THEN More(C[j - 1], j) ELSE C[j]]
      <4>3. D = [j \in 0..n |-> D[j]]
        OBVIOUS
      <4>4. Upto(D, n - k)
        <5> SUFFICES ASSUME NEW j \in 0..(n - k)
                     PROVE  D[j] = IF j = 0 THEN L ELSE More(D[j - 1], j)
          OBVIOUS
        <5>1. n - k \in 0..n /\ n - k # 0 /\ j \in 0..n
          BY <3>2
        <5>2. j # 0 => j - 1 \in 0..n /\ j - 1 # n - k
          BY <5>1
        <5>3. j # 0 => D[j - 1] = C[j - 1]
          BY <5>2
        <5>4. CASE j = n - k
          BY <5>1, <5>3, <5>4
        <5>5. CASE j # n - k
          <6>1. j \in 0..(n - (k + 1)) /\ D[j] = C[j]
            BY <5>1, <5>5
          <6>2. QED
            BY <6>1, <5>3, <4>2
        <5>6. QED
          BY <5>4, <5>5
      <4> HIDE DEF D, Upto
      <4>5. QED
        BY <4>3, <4>4
    <3>3. QED
      BY <3>1, <3>2
  <2>2. 0..n \subseteq S
    <3> HIDE DEF S
    <3>1. QED
      BY <2>1, DownFromTop
  <2>3. PICK C : C = [j \in 0..n |-> C[j]] /\ Upto(C, n)
    <3>1. 0 \in 0..n /\ n - 0 = n
      OBVIOUS
    <3>2. 0 \in S
      <4> HIDE DEF S
      <4>1. QED
        BY <2>2, <3>1
    <3>3. QED
      BY <3>1, <3>2
  <2>4. Cuts(C)
    BY <2>3
  <2>5. QED
    BY <2>4
<1>3. Cuts(W)
  <2> HIDE DEF Cuts
  <2>1. QED
    BY <1>2 DEF W
<1>4. \A k \in 0..n : W[k] = IF k = 0 THEN L ELSE More(W[k - 1], k)
  BY <1>3
<1> HIDE DEF Cuts
<1>5. /\ PassSize \in Nat \ {0} /\ place \in Nat /\ LaneMessages \in Nat /\ MaxPasses \in Nat
      /\ L.last \in Nat /\ L.cursor \in Nat
  BY MemoryReviewConstants, LaneFields DEF LaneInv, AtEnd
<1> DEFINE Right(k) == /\ LaneInv(W[k]) /\ AtEnd(W[k], place + k * PassSize) /\ Grows(L, W[k])
                       /\ W[k].last = L.last + k /\ W[k].cursor = L.cursor
           T == {k \in 0..n : Right(n - k)}
<1>6. Right(0)
  <2>1. W[0] = L /\ 0 * PassSize = 0 /\ place + 0 = place /\ L.last + 0 = L.last
    BY <1>4, <1>5
  <2>2. QED
    BY <2>1, GrowsSelf
<1>7. ASSUME NEW k \in 0..n, k # 0, Right(k - 1) PROVE Right(k)
  <2>1. k - 1 \in Nat /\ k * PassSize = (k - 1) * PassSize + PassSize /\ (k - 1) * PassSize \in Nat
    <3>1. k - 1 \in Nat /\ (k - 1) + 1 = k
      BY <1>7
    <3>2. QED
      BY <3>1, <1>5, NextMultiple
  <2>2. k * PassSize <= n * PassSize
    BY <1>5, MoreTimes
  <2>3. place + (k - 1) * PassSize + PassSize <= LaneMessages /\ W[k - 1].last < MaxPasses
    BY <1>5, <1>7, <2>1, <2>2, NextMultiple
  <2>4. W[k] = Inserted(W[k - 1], place + (k - 1) * PassSize, PassSize, "background")
    BY <1>4, <1>7 DEF More
  <2> DEFINE M == W[k - 1]
             p == place + (k - 1) * PassSize
             R == Inserted(M, p, PassSize, "background")
  <2>5. /\ LaneInv(R) /\ AtEnd(R, p + PassSize) /\ Grows(M, R)
        /\ R.last = M.last + 1 /\ R.cursor = M.cursor
    <3>1. LaneInv(M) /\ AtEnd(M, p) /\ p + PassSize <= LaneMessages /\ M.last < MaxPasses
      BY <1>7, <2>3
    <3> HIDE DEF M, p
    <3>2. QED
      BY <3>1, <1>5, InsertedLane
  <2>6. p + PassSize = place + k * PassSize /\ M.last + 1 = L.last + k
    BY <1>5, <1>7, <2>1, NextMultiple
  <2>7. W[k] = R /\ M.cursor = L.cursor /\ LaneInv(M) /\ Grows(L, M)
    BY <2>4, <1>7
  <2> HIDE DEF R, M, p
  <2>8. Grows(L, R)
    BY <2>5, <2>7, GrowsOn
  <2>9. QED
    BY <2>5, <2>6, <2>7, <2>8
<1>8. 0..n \subseteq T
  <2>1. ASSUME NEW k \in 0..n, \A q \in (k + 1)..n : q \in T PROVE k \in T
    <3>1. CASE k = n
      <4>1. n - k = 0
        BY <3>1
      <4> HIDE DEF Right
      <4>2. QED
        BY <4>1, <1>6
    <3>2. CASE k # n
      <4>1. k + 1 \in (k + 1)..n /\ n - k \in 0..n /\ n - k # 0 /\ n - (k + 1) = (n - k) - 1
        BY <3>2
      <4>2. Right((n - k) - 1)
        BY <4>1, <2>1
      <4> HIDE DEF Right
      <4>3. Right(n - k)
        BY <4>1, <4>2, <1>7
      <4>4. QED
        BY <4>3
    <3>3. QED
      BY <3>1, <3>2
  <2> HIDE DEF T
  <2>2. QED
    BY <2>1, DownFromTop
<1>9. Right(n)
  <2>1. 0 \in T /\ n - 0 = n
    <3> HIDE DEF T
    <3>1. QED
      BY <1>8
  <2> HIDE DEF Right
  <2>2. QED
    BY <2>1
<1>10. QED
  BY <1>1, <1>9

-----------------------------------------------------------------------------
(* The turns beside the chain. *)

LEMMA TurnFields ==
    ASSUME NEW t \in Turns
    PROVE  /\ t.sources \in SUBSET Messages /\ t.wrote \in SUBSET Messages
           /\ t.kind \in {"none", "background", "interactive"}
           /\ t.session \in {"none", "fresh", "bound", "retired"}
           /\ t.phase \in {"none", "prepared", "sent", "active", "parked", "resumed",
                           "completed", "failed", "gone"}
BY DEF Turns

LEMMA NoTurnTyped == NoTurn \in Turns /\ NoTurn.sources \cup NoTurn.wrote = {} /\ NoTurn.phase = "none"
BY DEF NoTurn, Turns

LEMMA MessagesOfRow ==
    ASSUME NEW L, LaneInv(L), NEW p \in Places, Exists(L, p)
    PROVE  (p + 1)..L.at[p].through \subseteq Messages
<1>1. p \in Nat /\ LaneMessages \in Nat /\ L.at[p].through \in (p + 1)..LaneMessages
  BY MemoryReviewConstants DEF Places, LaneInv, RowFits
<1>2. QED
  BY <1>1 DEF Messages

\* Turns that read no more than they did, over rows that stay where they matter.
LEMMA FitOn ==
    ASSUME Whole, NEW R, R.last = lane.last, NEW ts,
           \A j \in Passes :
               /\ \/ ts[j].sources \cup ts[j].wrote = {}
                  \/ /\ ts[j].sources \cup ts[j].wrote \subseteq turn[j].sources \cup turn[j].wrote
                     /\ \A p \in Places : Exists(lane, p) /\ lane.at[p].id = j /\ lane.at[p].eve = "turn" =>
                            /\ Exists(R, p) /\ R.at[p].id = j /\ R.at[p].eve = "turn"
                            /\ R.at[p].through = lane.at[p].through
               /\ j > lane.last => ts[j] = NoTurn
    PROVE  TurnsFit(R, ts)
<1> SUFFICES ASSUME NEW j \in Passes, ts[j].sources \cup ts[j].wrote # {}
             PROVE  \E p \in Places : /\ Exists(R, p) /\ R.at[p].id = j /\ R.at[p].eve = "turn"
                          /\ ts[j].sources \cup ts[j].wrote \subseteq (p + 1)..R.at[p].through
  BY DEF TurnsFit, ReadsOwnRow
<1>1. turn[j].sources \cup turn[j].wrote # {}
  OBVIOUS
<1>2. PICK p \in Places : /\ Exists(lane, p) /\ lane.at[p].id = j /\ lane.at[p].eve = "turn"
                          /\ turn[j].sources \cup turn[j].wrote \subseteq (p + 1)..lane.at[p].through
  BY <1>1 DEF Whole, TurnsFit, ReadsOwnRow
<1>3. QED
  BY <1>2

\* The turns of new batches are of the kind of the batch, and have read nothing.
LEMMA NewTurnsAre ==
    ASSUME Whole, NEW R, LaneInv(R), NEW i \in Passes
    PROVE  LET t == NewTurns(R)[i]
           IN  /\ i \notin (lane.last + 1)..R.last => t = turn[i]
               /\ i \in (lane.last + 1)..R.last =>
                      /\ t \in Turns /\ t.sources \cup t.wrote = {}
                      /\ \A p \in Places : Exists(R, p) /\ R.at[p].id = i => t.kind = R.at[p].kind
<1> DEFINE t == NewTurns(R)[i]
<1>1. CASE i \notin (lane.last + 1)..R.last
  BY <1>1 DEF NewTurns
<1>2. CASE i \in (lane.last + 1)..R.last
  <2>1. t = IF \E q \in Places : R.at[q].id = i /\ R.at[q].kind = "interactive"
            THEN [NoTurn EXCEPT !.kind = "interactive", !.phase = "prepared", !.session = "fresh"]
            ELSE [NoTurn EXCEPT !.kind = "background"]
    BY <1>2 DEF NewTurns
  <2>2. /\ t \in Turns /\ t.sources \cup t.wrote = {}
        /\ t.kind = IF \E q \in Places : R.at[q].id = i /\ R.at[q].kind = "interactive"
                    THEN "interactive" ELSE "background"
    BY <2>1 DEF NoTurn, Turns
  <2>3. ASSUME NEW p \in Places, Exists(R, p), R.at[p].id = i PROVE t.kind = R.at[p].kind
    <3>1. R.at[p].kind \in {"background", "interactive"}
      BY <2>3, BatchFields DEF LaneInv, RowFits
    <3>2. ASSUME NEW q \in Places, R.at[q].id = i PROVE q = p
      <4>1. i # 0
        BY DEF Passes
      <4>2. Exists(R, q)
        BY <3>2, <4>1 DEF LaneInv, RowFits, NoBatch
      <4>3. QED
        BY <2>3, <3>2, <4>2 DEF LaneInv, RowsApart
    <3> HIDE DEF t
    <3>3. QED
      BY <2>2, <2>3, <3>1, <3>2
  <2>4. QED
    BY <1>2, <2>2, <2>3
<1>3. QED
  BY <1>1, <1>2

LEMMA NewTurnsFit ==
    ASSUME Whole, NEW R, LaneInv(R), Grows(lane, R)
    PROVE  /\ NewTurns(R) \in [Passes -> Turns]
           /\ TurnsFit(R, NewTurns(R)) /\ KindsFit(R, NewTurns(R))
<1> DEFINE ts == NewTurns(R)
<1>1. lane.last \in Nat /\ R.last \in Nat /\ lane.last <= R.last
  BY MemoryReviewConstants, LaneFields DEF LaneInv, Whole, Grows
<1>2. ASSUME NEW i \in Passes
      PROVE  /\ i \notin (lane.last + 1)..R.last => ts[i] = turn[i]
             /\ i \in (lane.last + 1)..R.last =>
                    /\ ts[i] \in Turns /\ ts[i].sources \cup ts[i].wrote = {}
                    /\ \A p \in Places : Exists(R, p) /\ R.at[p].id = i => ts[i].kind = R.at[p].kind
  BY NewTurnsAre
<1>3. ts = [i \in Passes |-> ts[i]]
  BY DEF NewTurns
<1> HIDE DEF ts
<1>4. ts \in [Passes -> Turns]
  BY <1>2, <1>3 DEF Whole
<1>5. ASSUME NEW i \in Passes PROVE ReadsOwnRow(R, i, ts[i]) /\ (i > R.last => ts[i] = NoTurn)
  <2>1. CASE i \in (lane.last + 1)..R.last
    BY <1>1, <1>2, <2>1 DEF ReadsOwnRow, Passes
  <2>2. CASE i \notin (lane.last + 1)..R.last
    <3>1. ts[i] = turn[i] /\ ReadsOwnRow(lane, i, turn[i]) /\ (i > lane.last => turn[i] = NoTurn)
      BY <1>2, <2>2 DEF Whole, TurnsFit
    <3>2. ReadsOwnRow(R, i, ts[i])
      BY <3>1 DEF ReadsOwnRow, Grows
    <3>3. i > R.last => i > lane.last
      BY <1>1 DEF Passes
    <3>4. QED
      BY <3>1, <3>2, <3>3
  <2>3. QED
    BY <2>1, <2>2
<1>6. KindsFit(R, ts)
  <2> SUFFICES ASSUME NEW p \in Places, Exists(R, p) PROVE ts[R.at[p].id].kind = R.at[p].kind
    BY DEF KindsFit
  <2> DEFINE i == R.at[p].id
  <2>1. i \in Passes
    BY <1>1, MemoryReviewConstants, LaneFields DEF LaneInv, RowFits, Passes
  <2>2. CASE Exists(lane, p)
    <3>1. R.at[p] = lane.at[p] /\ i \in 1..lane.last /\ turn[i].kind = lane.at[p].kind
      BY <2>2 DEF Grows, Whole, KindsFit, LaneInv, RowFits
    <3>2. i \notin (lane.last + 1)..R.last
      BY <3>1, <1>1
    <3>3. QED
      BY <1>2, <2>1, <3>1, <3>2
  <2>3. CASE ~Exists(lane, p)
    BY <1>2, <2>1, <2>3 DEF Grows
  <2>4. QED
    BY <2>2, <2>3
<1>7. QED
  BY <1>4, <1>5, <1>6 DEF TurnsFit, ts

Rebound(t, sources, session) == [t EXCEPT !.sources = sources, !.session = session]
LEMMA ReboundTurn ==
    ASSUME NEW t \in Turns, NEW sources \in SUBSET Messages,
           NEW session \in {"none", "fresh", "bound", "retired"}
    PROVE  LET u == Rebound(t, sources, session)
           IN  /\ u \in Turns /\ u.wrote = t.wrote /\ u.sources = sources /\ u.kind = t.kind
               /\ sources = t.sources /\ session = t.session => u = t
BY DEF Rebound, Turns

\* No row changes its number or its kind.
LEMMA KindsOn ==
    ASSUME Whole, NEW R,
           \A p \in Places : Exists(R, p) =>
               Exists(lane, p) /\ R.at[p].id = lane.at[p].id /\ R.at[p].kind = lane.at[p].kind,
           NEW ts, \A j \in Passes : ts[j].kind = turn[j].kind
    PROVE  KindsFit(R, ts)
<1> SUFFICES ASSUME NEW p \in Places, Exists(R, p) PROVE ts[R.at[p].id].kind = R.at[p].kind
  BY DEF KindsFit
<1>1. Exists(lane, p) /\ R.at[p].id = lane.at[p].id /\ R.at[p].kind = lane.at[p].kind
  OBVIOUS
<1>2. lane.at[p].id \in 1..lane.last /\ lane.last \in 0..MaxPasses /\ turn[lane.at[p].id].kind = lane.at[p].kind
  BY <1>1, LaneFields DEF Whole, LaneInv, RowFits, KindsFit
<1>3. lane.at[p].id \in Passes
  BY <1>2, MemoryReviewConstants DEF Passes
<1>4. QED
  BY <1>1, <1>2, <1>3

\* A turn whose row went has nothing left to write from.
LEMMA AfterwardsFit ==
    ASSUME Whole, NEW R, LaneInv(R), Keeps(lane, R), NEW retired
    PROVE  /\ Afterwards(R, retired) \in [Passes -> Turns]
           /\ KindsFit(R, Afterwards(R, retired))
           /\ \A i \in Passes : /\ ReadsOwnRow(R, i, Afterwards(R, retired)[i])
                                /\ i > R.last /\ i \notin retired => Afterwards(R, retired)[i] = NoTurn
<1> DEFINE ts == Afterwards(R, retired)
           Lost(i) == HasRow(i) /\ \A p \in Places : R.at[p].id # i
<1>1. ASSUME NEW i \in Passes
      PROVE  /\ ts[i] = Rebound(turn[i], IF Lost(i) THEN {} ELSE turn[i].sources,
                                    IF i \in retired THEN "retired" ELSE turn[i].session)
             /\ turn[i] \in Turns
  BY DEF Afterwards, Whole, Rebound
<1>2. ts = [i \in Passes |-> ts[i]]
  BY DEF Afterwards
<1> HIDE DEF ts, Lost
<1>3. ASSUME NEW i \in Passes
      PROVE  /\ ts[i] \in Turns /\ ts[i].wrote = turn[i].wrote /\ ts[i].kind = turn[i].kind
             /\ ts[i].sources = turn[i].sources \/ ts[i].sources = {}
             /\ Lost(i) => ts[i].sources = {}
  <2>1. turn[i] \in Turns
    BY <1>1
  <2>2. QED
    <3> DEFINE sources == IF Lost(i) THEN {} ELSE turn[i].sources
               session == IF i \in retired THEN "retired" ELSE turn[i].session
    <3>1. /\ sources \in SUBSET Messages /\ session \in {"none", "fresh", "bound", "retired"}
          /\ sources = turn[i].sources \/ sources = {}
          /\ Lost(i) => sources = {}
      BY <2>1, TurnFields
    <3>2. ts[i] = Rebound(turn[i], sources, session)
      BY <1>1
    <3> HIDE DEF sources, session
    <3>3. QED
      BY <2>1, <3>1, <3>2, ReboundTurn
<1>4. ts \in [Passes -> Turns]
  BY <1>2, <1>3
<1>5. ASSUME NEW i \in Passes PROVE ReadsOwnRow(R, i, ts[i])
  <2> SUFFICES ASSUME ts[i].sources \cup ts[i].wrote # {}
               PROVE  \E p \in Places : /\ Exists(R, p) /\ R.at[p].id = i /\ R.at[p].eve = "turn"
                          /\ ts[i].sources \cup ts[i].wrote \subseteq (p + 1)..R.at[p].through
    BY DEF ReadsOwnRow
  <2>1. ts[i].sources \cup ts[i].wrote \subseteq turn[i].sources \cup turn[i].wrote
    BY <1>3
  <2>2. PICK p \in Places : /\ Exists(lane, p) /\ lane.at[p].id = i /\ lane.at[p].eve = "turn"
                          /\ turn[i].sources \cup turn[i].wrote \subseteq (p + 1)..lane.at[p].through
    BY <2>1 DEF Whole, TurnsFit, ReadsOwnRow
  <2>3. CASE Exists(R, p)
    <3>1. R.at[p].id = i /\ R.at[p].eve = "turn" /\ R.at[p].through = lane.at[p].through
      BY <2>2, <2>3 DEF Keeps
    <3>2. QED
      BY <2>1, <2>2, <2>3, <3>1
  <2>4. CASE ~Exists(R, p)
    <3>1. turn[i].wrote = {}
      BY <2>2, <2>4 DEF Keeps, Wrote
    <3>2. HasRow(i)
      BY <2>2 DEF HasRow
    <3>3. \A q \in Places : R.at[q].id # i
      <4> SUFFICES ASSUME NEW q \in Places, R.at[q].id = i PROVE FALSE
        OBVIOUS
      <4>1. Exists(R, q)
        <5>1. i # 0 /\ NoBatch.id = 0
          BY DEF Passes, NoBatch
        <5>2. QED
          BY <5>1 DEF LaneInv, RowFits
      <4>2. Exists(lane, q) /\ lane.at[q].id = i
        BY <4>1 DEF Keeps
      <4>3. q = p
        BY <2>2, <4>2 DEF Whole, LaneInv, RowsApart
      <4>4. QED
        BY <2>4, <4>1, <4>3
    <3>4. QED
      BY <1>3, <3>1, <3>2, <3>3 DEF Lost
  <2>5. QED
    BY <2>3, <2>4
<1>6. ASSUME NEW i \in Passes, i > R.last, i \notin retired PROVE ts[i] = NoTurn
  <2>1. turn[i] = NoTurn
    BY <1>6 DEF Whole, TurnsFit, Keeps
  <2>2. ts[i] = Rebound(turn[i], turn[i].sources, turn[i].session)
    <3>1. turn[i].sources = {}
      BY <2>1, NoTurnTyped
    <3>2. QED
      BY <1>1, <1>6, <3>1
  <2>3. QED
    BY <1>1, <2>1, <2>2, TurnFields, ReboundTurn
<1>7. KindsFit(R, ts)
  BY <1>3, KindsOn DEF Keeps
<1>8. QED
  BY <1>4, <1>5, <1>6, <1>7 DEF ts

-----------------------------------------------------------------------------
(* Steps. *)

ReviewerType == [doing : {"idle", "claimed", "prepared", "marked", "sent"}, id : 0..MaxPasses]
RowsStay(R) ==
    /\ R.last = lane.last
    /\ \A p \in Places : Exists(R, p) <=> Exists(lane, p)
    /\ \A p \in Places : Exists(lane, p) =>
           /\ R.at[p].id = lane.at[p].id /\ R.at[p].through = lane.at[p].through
           /\ R.at[p].kind = lane.at[p].kind
           /\ lane.at[p].eve = "turn" => R.at[p].eve = "turn"
TurnsCalm(ts) ==
    /\ ts \in [Passes -> Turns]
    /\ \A j \in Passes : /\ ts[j].sources \cup ts[j].wrote \subseteq turn[j].sources \cup turn[j].wrote
                         /\ ts[j].kind = turn[j].kind
                         /\ j > lane.last => ts[j] = turn[j]

\* A step that binds no sources and takes no row away.
LEMMA CalmReviewStep ==
    ASSUME Whole, LaneInv(lane'), RowsStay(lane'), TurnsCalm(turn')
    PROVE  Whole'
<1>1. \A j \in Passes :
          /\ turn'[j].sources \cup turn'[j].wrote \subseteq turn[j].sources \cup turn[j].wrote
          /\ j > lane.last => turn'[j] = NoTurn
  BY DEF TurnsCalm, Whole, TurnsFit
<1>2. \A p \in Places : Exists(lane, p) =>
           /\ Exists(lane', p) /\ lane'.at[p].id = lane.at[p].id /\ lane'.at[p].through = lane.at[p].through
           /\ lane.at[p].eve = "turn" => lane'.at[p].eve = "turn"
  BY DEF RowsStay
<1>3. lane'.last = lane.last
  BY DEF RowsStay
<1>4. TurnsFit(lane', turn')
  BY <1>1, <1>2, <1>3, FitOn
<1>5. turn' \in [Passes -> Turns]
  BY DEF TurnsCalm
<1>6. KindsFit(lane', turn')
  BY KindsOn DEF RowsStay, TurnsCalm
<1>7. QED
  BY <1>4, <1>5, <1>6 DEF Whole

LEMMA RowsStaySelf == RowsStay(lane)
BY DEF RowsStay

LEMMA TurnsCalmSelf == ASSUME Whole PROVE TurnsCalm(turn)
BY DEF TurnsCalm, Whole

\* A turn that has begun has a row that was inserted.
LEMMA BegunIsNumbered ==
    ASSUME Whole, NEW i \in Passes, turn[i] # NoTurn
    PROVE  i <= lane.last
<1>1. i \in Nat /\ lane.last \in Nat
  BY MemoryReviewConstants, LaneFields DEF Whole, LaneInv, Passes
<1>2. QED
  BY <1>1 DEF Whole, TurnsFit

LEMMA OneTurnCalm ==
    ASSUME Whole, NEW i \in Passes, i <= lane.last, NEW t \in Turns, t.kind = turn[i].kind,
           t.sources \cup t.wrote \subseteq turn[i].sources \cup turn[i].wrote
    PROVE  TurnsCalm([turn EXCEPT ![i] = t])
<1>1. i \in Nat /\ lane.last \in Nat
  BY MemoryReviewConstants, LaneFields DEF Whole, LaneInv, Passes
<1>2. QED
  BY <1>1 DEF TurnsCalm, Whole

\* Turns that only move on.
LEMMA PhaseCalm ==
    ASSUME Whole, NEW i \in Passes, i <= lane.last,
           NEW phase \in {"none", "prepared", "sent", "active", "parked", "resumed",
                          "completed", "failed", "gone"}
    PROVE  TurnsCalm([turn EXCEPT ![i].phase = phase])
<1> DEFINE t == [turn[i] EXCEPT !.phase = phase]
<1>1. t \in Turns /\ t.kind = turn[i].kind /\ t.sources = turn[i].sources /\ t.wrote = turn[i].wrote
  BY DEF Whole, Turns
<1>2. [turn EXCEPT ![i].phase = phase] = [turn EXCEPT ![i] = t]
  OBVIOUS
<1> HIDE DEF t
<1>3. QED
  BY <1>1, <1>2, OneTurnCalm

LEMMA SessionCalm ==
    ASSUME Whole, NEW i, i \in Passes => i <= lane.last,
           NEW session \in {"none", "fresh", "bound", "retired"}
    PROVE  TurnsCalm([turn EXCEPT ![i].session = session])
<1>1. CASE i \in Passes
  <2> DEFINE t == [turn[i] EXCEPT !.session = session]
  <2>1. t \in Turns /\ t.kind = turn[i].kind /\ t.sources = turn[i].sources /\ t.wrote = turn[i].wrote
    BY <1>1 DEF Whole, Turns
  <2>2. [turn EXCEPT ![i].session = session] = [turn EXCEPT ![i] = t]
    OBVIOUS
  <2> HIDE DEF t
  <2>3. QED
    BY <1>1, <2>1, <2>2, OneTurnCalm
<1>2. CASE i \notin Passes
  <2>1. turn \in [Passes -> Turns]
    BY DEF Whole
  <2>2. [turn EXCEPT ![i].session = session] = turn
    BY <1>2, <2>1
  <2>3. QED
    BY <2>2, TurnsCalmSelf
<1>3. QED
  BY <1>1, <1>2

\* The row of a turn, or of a dispatcher.
LEMMA RowOf ==
    ASSUME Whole, NEW i, HasRow(i), Row(i).status # "none"
    PROVE  /\ PlaceOf(i) \in Places /\ Exists(lane, PlaceOf(i)) /\ lane.at[PlaceOf(i)].id = i
           /\ Row(i) = lane.at[PlaceOf(i)] /\ Row(i) \in Batches
           /\ \A row : SetRow(i, row) = Changed(lane, PlaceOf(i), row)
           /\ \A p \in Places : Exists(lane, p) /\ lane.at[p].id = i => p = PlaceOf(i)
           /\ i <= lane.last
           /\ Row(i).eve = "turn" => Row(i).status \notin {"pending", "leased", "dispatching"}
           /\ HandedOut(Row(i)) => PlaceOf(i) = lane.cursor
<1>1. PlaceOf(i) \in Places /\ lane.at[PlaceOf(i)].id = i /\ Row(i) = lane.at[PlaceOf(i)]
  BY DEF HasRow, PlaceOf, Row
<1>2. Exists(lane, PlaceOf(i)) /\ Row(i) \in Batches
  BY <1>1, BatchFields DEF Exists, Whole, LaneInv
<1>3. \A row : SetRow(i, row) = Changed(lane, PlaceOf(i), row)
  BY DEF SetRow, Changed
<1>4. \A p \in Places : Exists(lane, p) /\ lane.at[p].id = i => p = PlaceOf(i)
  BY <1>1, <1>2 DEF Whole, LaneInv, RowsApart
<1>5. i \in 1..lane.last /\ lane.last \in Nat
  BY <1>1, <1>2, MemoryReviewConstants, LaneFields DEF Whole, LaneInv, RowFits
<1>6. /\ Row(i).eve = "turn" => Row(i).status \notin {"pending", "leased", "dispatching"}
      /\ HandedOut(Row(i)) => PlaceOf(i) = lane.cursor
  BY <1>1, <1>2 DEF Whole, LaneInv, RowFits
<1>7. QED
  BY <1>1, <1>2, <1>3, <1>4, <1>5, <1>6

\* It changes in place.
LEMMA RowSet ==
    ASSUME Whole, NEW i, HasRow(i), Row(i).status # "none", NEW row \in Batches,
           row.status # "none", row.id = Row(i).id, row.through = Row(i).through, row.kind = Row(i).kind,
           row.holder # Nobody => row.status \in {"leased", "dispatching"},
           row.eve = "turn" => row.status \notin {"pending", "leased", "dispatching"},
           Row(i).eve = "turn" => row.eve = "turn",
           HandedOut(row) => PlaceOf(i) = lane.cursor
    PROVE  /\ LaneInv(SetRow(i, row)) /\ RowsStay(SetRow(i, row))
           /\ (row.eve = "turn" <=> Row(i).eve = "turn") => Keeps(lane, SetRow(i, row))
<1> DEFINE p == PlaceOf(i)
<1>1. /\ p \in Places /\ Exists(lane, p) /\ Row(i) = lane.at[p]
      /\ SetRow(i, row) = Changed(lane, p, row)
  BY RowOf
<1> HIDE DEF p
<1>2. row.id = lane.at[p].id /\ row.through = lane.at[p].through /\ row.kind = lane.at[p].kind /\ (HandedOut(row) => p = lane.cursor)
  BY <1>1 DEF p
<1>3. /\ LaneInv(Changed(lane, p, row))
      /\ (row.eve = "turn" <=> lane.at[p].eve = "turn") => Keeps(lane, Changed(lane, p, row))
  BY <1>1, <1>2, ChangedRow DEF Whole
<1>4. /\ Changed(lane, p, row).last = lane.last
      /\ Changed(lane, p, row).at[p] = row
      /\ \A q \in Places : q # p => Changed(lane, p, row).at[q] = lane.at[q]
  BY <1>1, LaneFields DEF Changed, Whole, LaneInv, LaneType
<1>5. RowsStay(Changed(lane, p, row))
  BY <1>1, <1>2, <1>4 DEF RowsStay, Exists
<1>6. QED
  BY <1>1, <1>3, <1>5

\* The dispatchers and the counters beside it.
LEMMA FlawTyped == ASSUME flaws \in 0..MaxReviewFlaws, Flaw PROVE flaws' \in 0..MaxReviewFlaws
BY MemoryReviewConstants DEF Flaw

LEMMA AttendsOn ==
    ASSUME ReviewInv, LaneInv(lane'), lane.last <= lane'.last, said' = said, Flaw \/ flaws' = flaws,
           reviewer' \in [Reviewers -> ReviewerType],
           \A w \in Reviewers : reviewer'[w].id = reviewer[w].id \/ reviewer'[w].id <= lane'.last
    PROVE  Attending'
<1>1. flaws' \in 0..MaxReviewFlaws
  BY FlawTyped DEF ReviewInv, Attending
<1>2. \A w \in Reviewers : reviewer'[w].id <= lane'.last
  <2>1. lane.last \in Nat /\ lane'.last \in Nat
    BY MemoryReviewConstants, LaneFields DEF ReviewInv, Whole, LaneInv
  <2>2. \A w \in Reviewers : reviewer[w].id \in Nat /\ reviewer[w].id <= lane.last
    BY MemoryReviewConstants DEF ReviewInv, Attending
  <2>3. QED
    BY <2>1, <2>2
<1>3. QED
  BY <1>1, <1>2 DEF ReviewInv, Attending, ReviewerType

LEMMA AttendsStill ==
    ASSUME ReviewInv, LaneInv(lane'), lane.last <= lane'.last, said' = said, Flaw \/ flaws' = flaws,
           reviewer' = reviewer
    PROVE  Attending'
<1>1. reviewer' \in [Reviewers -> ReviewerType]
  BY DEF ReviewInv, Attending, ReviewerType
<1>2. QED
  BY <1>1, AttendsOn

\* A step that keeps the number of batches.
LEMMA SameLast ==
    ASSUME Whole, NEW R, LaneInv(R), R.last = lane.last
    PROVE  lane.last <= R.last
BY MemoryReviewConstants, LaneFields DEF Whole, LaneInv

\* A dispatcher goes back to rest.
LEMMA OneRests ==
    ASSUME ReviewInv, NEW w \in Reviewers
    PROVE  /\ [reviewer EXCEPT ![w] = Resting] \in [Reviewers -> ReviewerType]
           /\ \A v \in Reviewers : \/ [reviewer EXCEPT ![w] = Resting][v].id = reviewer[v].id
                                   \/ [reviewer EXCEPT ![w] = Resting][v].id = 0
<1>1. reviewer \in [Reviewers -> ReviewerType]
  BY DEF ReviewInv, Attending, ReviewerType
<1>2. Resting \in ReviewerType /\ Resting.id = 0
  BY MemoryReviewConstants DEF Resting, ReviewerType
<1>3. QED
  BY <1>1, <1>2

\* A step that binds no sources and takes no row away.
LEMMA StepKeeps ==
    ASSUME ReviewInv, LaneInv(lane'), RowsStay(lane'), TurnsCalm(turn'), said' = said, Flaw \/ flaws' = flaws,
           reviewer' \in [Reviewers -> ReviewerType],
           \A w \in Reviewers : reviewer'[w].id = reviewer[w].id \/ reviewer'[w].id = 0
    PROVE  ReviewInv'
<1>1. lane'.last = lane.last /\ lane.last \in Nat
  BY MemoryReviewConstants, LaneFields DEF ReviewInv, Whole, LaneInv, RowsStay
<1>2. Whole'
  BY CalmReviewStep DEF ReviewInv
<1>3. \A w \in Reviewers : reviewer'[w].id = reviewer[w].id \/ reviewer'[w].id <= lane'.last
  BY <1>1
<1>4. Attending'
  BY <1>1, <1>3, AttendsOn
<1>5. QED
  BY <1>2, <1>4 DEF ReviewInv

\* A step of a dispatcher or a turn that leaves the chain alone.
LEMMA TurnsOnly ==
    ASSUME ReviewInv, lane' = lane, TurnsCalm(turn'), said' = said, Flaw \/ flaws' = flaws,
           reviewer' \in [Reviewers -> ReviewerType],
           \A w \in Reviewers : reviewer'[w].id = reviewer[w].id \/ reviewer'[w].id = 0
    PROVE  ReviewInv'
<1>1. LaneInv(lane') /\ RowsStay(lane')
  BY RowsStaySelf DEF ReviewInv, Whole
<1>2. QED
  BY <1>1, StepKeeps

LEMMA DoingCalm ==
    ASSUME ReviewInv, NEW w \in Reviewers, NEW step \in {"idle", "claimed", "prepared", "marked", "sent"},
           Doing(w, step) \/ Rests(w) \/ reviewer' = reviewer
    PROVE  /\ reviewer' \in [Reviewers -> ReviewerType]
           /\ \A v \in Reviewers : reviewer'[v].id = reviewer[v].id \/ reviewer'[v].id = 0
<1>1. CASE Doing(w, step)
  <2>1. reviewer' = [reviewer EXCEPT ![w].doing = step]
    BY <1>1 DEF Doing
  <2>2. /\ [reviewer EXCEPT ![w].doing = step] \in [Reviewers -> ReviewerType]
        /\ \A v \in Reviewers : [reviewer EXCEPT ![w].doing = step][v].id = reviewer[v].id
    <3>1. reviewer \in [Reviewers -> ReviewerType]
      BY DEF ReviewInv, Attending, ReviewerType
    <3>2. [reviewer[w] EXCEPT !.doing = step] \in ReviewerType /\ [reviewer[w] EXCEPT !.doing = step].id = reviewer[w].id
      BY <3>1 DEF ReviewerType
    <3>3. QED
      BY <3>1, <3>2
  <2>3. QED
    BY ONLY <2>1, <2>2
<1>2. CASE Rests(w)
  BY <1>2, OneRests DEF Rests
<1>3. CASE reviewer' = reviewer
  BY <1>3 DEF ReviewInv, Attending, ReviewerType
<1>4. QED
  BY <1>1, <1>2, <1>3

LEMMA ReviewInitially == MemoryReviewInit => ReviewInv
<1> SUFFICES ASSUME MemoryReviewInit PROVE ReviewInv
  OBVIOUS
<1>1. NoBatch \in Batches /\ NoBatch.status = "none" /\ NoBatch.holder = Nobody
  BY MemoryReviewConstants DEF NoBatch, Batches
<1>2. lane \in LaneType /\ lane.cursor = 0 /\ lane.last = 0 /\ \A p \in Places : lane.at[p] = NoBatch
  BY <1>1, MemoryReviewConstants DEF MemoryReviewInit, LaneType
<1>3. \A p : ~Exists(lane, p)
  BY <1>1, <1>2 DEF Exists
<1>4. LaneInv(lane)
  BY <1>2, <1>3 DEF LaneInv, RowFits, RowsApart, RowsBehind, RowsAhead
<1>5. turn \in [Passes -> Turns] /\ TurnsFit(lane, turn) /\ KindsFit(lane, turn)
  BY <1>3, NoTurnTyped DEF MemoryReviewInit, TurnsFit, ReadsOwnRow, KindsFit
<1>6. Attending
  <2>1. Resting \in ReviewerType /\ Resting.id = 0
    BY MemoryReviewConstants DEF Resting, ReviewerType
  <2>2. QED
    BY <1>2, <2>1, MemoryReviewConstants DEF MemoryReviewInit, Attending, ReviewerType
<1>7. QED
  BY <1>4, <1>5, <1>6 DEF ReviewInv, Whole

LEMMA ReviewTyped == ReviewInv => MemoryReviewTypeOK
<1> SUFFICES ASSUME ReviewInv PROVE MemoryReviewTypeOK
  OBVIOUS
<1>1. \A p \in Places : lane.at[p].holder # Nobody => lane.at[p].status \in {"leased", "dispatching"}
  <2>1. NoBatch.holder = Nobody
    BY DEF NoBatch
  <2>2. QED
    BY <2>1 DEF ReviewInv, Whole, LaneInv, RowFits
<1>2. QED
  BY <1>1 DEF ReviewInv, Whole, LaneInv, LaneType, Attending, MemoryReviewTypeOK

LEMMA StillReviews == ReviewInv /\ UNCHANGED memoryReviewVars => ReviewInv'
BY DEF memoryReviewVars, ReviewInv, Whole, Attending

LEMMA MessageArrivesKeeps == ASSUME ReviewInv, MessageArrives PROVE ReviewInv'
<1>1. said' \in 0..LaneMessages
  BY MemoryReviewConstants DEF MessageArrives, ReviewInv, Attending
<1>2. QED
  BY <1>1 DEF MessageArrives, ReviewInv, Whole, Attending

\* The phase of a turn that has begun.
LEMMA PhaseOf ==
    ASSUME ReviewInv, NEW i \in Passes, turn[i].phase # "none"
    PROVE  i <= lane.last /\ turn[i] \in Turns
<1>1. turn[i] # NoTurn
  BY NoTurnTyped
<1>2. QED
  BY <1>1, BegunIsNumbered DEF ReviewInv, Whole

LEMMA PhaseKeeps ==
    ASSUME ReviewInv, NEW i \in Passes, turn[i].phase # "none",
           NEW phase \in {"none", "prepared", "sent", "active", "parked", "resumed",
                          "completed", "failed", "gone"},
           turn' = [turn EXCEPT ![i].phase = phase], lane' = lane, said' = said, reviewer' = reviewer,
           Flaw \/ flaws' = flaws
    PROVE  ReviewInv'
<1>1. TurnsCalm(turn')
  BY PhaseOf, PhaseCalm DEF ReviewInv
<1>2. reviewer' \in [Reviewers -> ReviewerType]
  BY DEF ReviewInv, Attending, ReviewerType
<1>3. QED
  BY <1>1, <1>2, TurnsOnly

LEMMA SendInteractiveTurnKeeps ==
    ASSUME ReviewInv, NEW i \in Passes, SendInteractiveTurn(i) PROVE ReviewInv'
BY PhaseKeeps DEF SendInteractiveTurn

LEMMA ParkTurnKeeps == ASSUME ReviewInv, NEW i \in Passes, ParkTurn(i) PROVE ReviewInv'
BY PhaseKeeps DEF ParkTurn

LEMMA ResumeTurnKeeps == ASSUME ReviewInv, NEW i \in Passes, ResumeTurn(i) PROVE ReviewInv'
BY PhaseKeeps DEF ResumeTurn

LEMMA TurnEndsUnheardKeeps == ASSUME ReviewInv, NEW i \in Passes, TurnEndsUnheard(i) PROVE ReviewInv'
<1>1. PICK end \in {"completed", "failed", "gone"} : turn' = [turn EXCEPT ![i].phase = end]
  BY DEF TurnEndsUnheard
<1>2. turn[i].phase # "none" /\ Flaw /\ lane' = lane /\ said' = said /\ reviewer' = reviewer
  BY DEF TurnEndsUnheard
<1>3. QED
  BY <1>1, <1>2, PhaseKeeps

LEMMA SessionRotatesKeeps == ASSUME ReviewInv, NEW i \in Passes, SessionRotates(i) PROVE ReviewInv'
<1>1. turn[i] # NoTurn
  BY DEF SessionRotates, Open, NoTurn
<1>2. TurnsCalm(turn')
  BY <1>1, BegunIsNumbered, SessionCalm DEF SessionRotates, ReviewInv
<1>3. reviewer' \in [Reviewers -> ReviewerType]
  BY DEF ReviewInv, Attending, ReviewerType, SessionRotates
<1>4. QED
  BY <1>2, <1>3, TurnsOnly DEF SessionRotates

LEMMA RememberKeeps == ASSUME ReviewInv, NEW i \in Passes, Remember(i) PROVE ReviewInv'
<1> DEFINE t == [turn[i] EXCEPT !.wrote = turn[i].sources]
<1>1. i <= lane.last /\ turn[i] \in Turns
  BY PhaseOf DEF Remember
<1>2. t \in Turns /\ t.kind = turn[i].kind /\ t.sources \cup t.wrote \subseteq turn[i].sources \cup turn[i].wrote
  BY <1>1 DEF Turns
<1>3. turn' = [turn EXCEPT ![i] = t]
  BY DEF Remember
<1> HIDE DEF t
<1>4. TurnsCalm(turn')
  BY <1>1, <1>2, <1>3, OneTurnCalm DEF ReviewInv
<1>5. reviewer' \in [Reviewers -> ReviewerType]
  BY DEF ReviewInv, Attending, ReviewerType, Remember
<1>6. QED
  BY <1>4, <1>5, TurnsOnly DEF Remember

LEMMA ReviewersDieKeeps == ASSUME ReviewInv, ReviewersDie PROVE ReviewInv'
<1>1. Resting \in ReviewerType /\ Resting.id = 0
  BY MemoryReviewConstants DEF Resting, ReviewerType
<1>2. TurnsCalm(turn')
  BY TurnsCalmSelf DEF ReviewInv, ReviewersDie
<1>3. reviewer' \in [Reviewers -> ReviewerType] /\ \A w \in Reviewers : reviewer'[w].id = 0
  BY <1>1 DEF ReviewersDie
<1>4. QED
  BY <1>2, <1>3, TurnsOnly DEF ReviewersDie

LEMMA PrepareSessionKeeps == ASSUME ReviewInv, NEW w \in Reviewers, PrepareSession(w) PROVE ReviewInv'
<1>1. reviewer[w].id <= lane.last
  BY DEF ReviewInv, Attending
<1>2. TurnsCalm(turn')
  BY <1>1, SessionCalm DEF PrepareSession, ReviewInv
<1>3. /\ reviewer' \in [Reviewers -> ReviewerType]
      /\ \A v \in Reviewers : reviewer'[v].id = reviewer[v].id \/ reviewer'[v].id = 0
  BY DoingCalm DEF PrepareSession
<1>4. QED
  BY <1>2, <1>3, TurnsOnly DEF PrepareSession

LEMMA HandOffKeeps == ASSUME ReviewInv, NEW w \in Reviewers, HandOff(w) PROVE ReviewInv'
<1>1. reviewer[w].id <= lane.last
  BY DEF ReviewInv, Attending
<1>2. TurnsCalm(turn')
  <2>1. CASE reviewer[w].id \in Passes
    BY <1>1, <2>1, PhaseCalm DEF HandOff, ReviewInv
  <2>2. CASE reviewer[w].id \notin Passes
    <3>1. turn' = turn
      BY <2>2 DEF HandOff, ReviewInv, Whole
    <3>2. QED
      BY <3>1, TurnsCalmSelf DEF ReviewInv
  <2>3. QED
    BY <2>1, <2>2
<1>3. /\ reviewer' \in [Reviewers -> ReviewerType]
      /\ \A v \in Reviewers : reviewer'[v].id = reviewer[v].id \/ reviewer'[v].id = 0
  BY DoingCalm DEF HandOff
<1>4. QED
  BY <1>2, <1>3, TurnsOnly DEF HandOff

\* The steps of a dispatcher with its batch.
LEMMA LooseRow ==
    ASSUME NEW row \in Batches,
           NEW status \in {"pending", "leased", "dispatching", "running",
                           "completed", "skipped", "failed", "ambiguous"}
    PROVE  LET r == Loose(row, status)
           IN  /\ r \in Batches /\ r.status = status /\ r.holder = Nobody /\ r.id = row.id
               /\ r.through = row.through /\ r.eve = row.eve /\ r.kind = row.kind
               /\ r.manual = row.manual /\ r.retried = row.retried
BY DEF Loose, Batches

LEMMA RowIs ==
    ASSUME Whole, NEW p \in Places, Exists(lane, p)
    PROVE  LET i == lane.at[p].id
           IN  HasRow(i) /\ PlaceOf(i) = p /\ Row(i) = lane.at[p] /\ Row(i).status # "none"
<1> DEFINE i == lane.at[p].id
<1>1. HasRow(i) /\ i # 0
  BY DEF HasRow, Whole, LaneInv, RowFits
<1>2. PlaceOf(i) \in Places /\ lane.at[PlaceOf(i)].id = i
  BY <1>1 DEF HasRow, PlaceOf
<1>3. Exists(lane, PlaceOf(i))
  BY <1>1, <1>2 DEF Whole, LaneInv, RowFits, NoBatch
<1>4. PlaceOf(i) = p
  BY <1>2, <1>3 DEF Whole, LaneInv, RowsApart
<1>5. QED
  BY <1>1, <1>4 DEF Row, Exists

\* The row in a dispatcher's hands goes to another status.
LEMMA BatchMoves ==
    ASSUME Whole, NEW w, NEW statuses \in SUBSET {"leased", "dispatching"}, HasBatch(w, statuses),
           NEW row \in Batches, row.status # "none",
           row.id = Row(reviewer[w].id).id, row.through = Row(reviewer[w].id).through,
           row.kind = Row(reviewer[w].id).kind,
           row.holder # Nobody => row.status \in {"leased", "dispatching"}, row.eve # "turn"
    PROVE  LET R == SetRow(reviewer[w].id, row) IN LaneInv(R) /\ RowsStay(R)
<1> DEFINE i == reviewer[w].id
<1>1. HasRow(i) /\ Row(i).status \in {"leased", "dispatching"} /\ Row(i).status # "none"
  BY DEF HasBatch
<1>2. Row(i).eve # "turn" /\ PlaceOf(i) = lane.cursor
  <2> HIDE DEF i
  <2>1. HandedOut(Row(i))
    BY <1>1 DEF HandedOut
  <2>2. QED
    BY <1>1, <2>1, RowOf
<1>3. row.id = Row(i).id /\ row.through = Row(i).through /\ row.kind = Row(i).kind
  OBVIOUS
<1> HIDE DEF i
<1>4. LaneInv(SetRow(i, row)) /\ RowsStay(SetRow(i, row))
  BY <1>1, <1>2, <1>3, RowSet
<1>5. QED
  BY <1>4 DEF i

LEMMA RowOfBatch ==
    ASSUME Whole, NEW w, NEW statuses \in SUBSET {"leased", "dispatching"}, HasBatch(w, statuses)
    PROVE  LET row == Row(reviewer[w].id)
           IN  row \in Batches /\ row.eve # "turn" /\ row.status \in statuses
<1> DEFINE i == reviewer[w].id
<1>1. HasRow(i) /\ Row(i).status \in statuses /\ Row(i).status \in {"leased", "dispatching"} /\ Row(i).status # "none"
  BY DEF HasBatch
<1> HIDE DEF i
<1>2. Row(i) \in Batches /\ Row(i).eve # "turn"
  BY <1>1, RowOf
<1>3. QED
  BY <1>1, <1>2 DEF i

LEMMA FailClaimKeeps == ASSUME ReviewInv, NEW w \in Reviewers, FailClaim(w) PROVE ReviewInv'
<1> DEFINE i == reviewer[w].id
<1>1. LaneInv(lane') /\ RowsStay(lane')
  <2>1. CASE ~HasBatch(w, {"leased"})
    BY <2>1, RowsStaySelf DEF FailClaim, ReviewInv, Whole
  <2>2. CASE HasBatch(w, {"leased"})
    <3>1. Row(i) \in Batches /\ Row(i).eve # "turn"
      BY <2>2, RowOfBatch DEF ReviewInv
    <3>2. CASE Row(i).retried
      <4> DEFINE row == Loose(Row(i), "failed")
      <4>1. lane' = SetRow(i, row)
        BY <2>2, <3>2 DEF FailClaim
      <4> HIDE DEF i
      <4>2. /\ row \in Batches /\ row.status = "failed" /\ row.holder = Nobody /\ row.id = Row(i).id
            /\ row.through = Row(i).through /\ row.eve # "turn" /\ row.kind = Row(i).kind
        BY <3>1, LooseRow
      <4> HIDE DEF row
      <4>3. QED
        BY <2>2, <4>1, <4>2, BatchMoves DEF ReviewInv, i
    <3>3. CASE ~Row(i).retried
      <4> DEFINE row == [Loose(Row(i), "pending") EXCEPT !.retried = TRUE]
      <4>1. lane' = SetRow(i, row)
        BY <2>2, <3>3 DEF FailClaim
      <4> HIDE DEF i
      <4>2. /\ row \in Batches /\ row.status = "pending" /\ row.holder = Nobody /\ row.id = Row(i).id
            /\ row.through = Row(i).through /\ row.eve # "turn" /\ row.kind = Row(i).kind
        <5> DEFINE loose == Loose(Row(i), "pending")
        <5>1. /\ loose \in Batches /\ loose.status = "pending" /\ loose.holder = Nobody /\ loose.id = Row(i).id
              /\ loose.through = Row(i).through /\ loose.eve = Row(i).eve /\ loose.kind = Row(i).kind
          BY <3>1, LooseRow
        <5> HIDE DEF loose
        <5>2. /\ [loose EXCEPT !.retried = TRUE] \in Batches
              /\ [loose EXCEPT !.retried = TRUE].status = loose.status
              /\ [loose EXCEPT !.retried = TRUE].holder = loose.holder
              /\ [loose EXCEPT !.retried = TRUE].id = loose.id
              /\ [loose EXCEPT !.retried = TRUE].through = loose.through
              /\ [loose EXCEPT !.retried = TRUE].eve = loose.eve
              /\ [loose EXCEPT !.retried = TRUE].kind = loose.kind
          BY <5>1 DEF Batches
        <5>3. row = [loose EXCEPT !.retried = TRUE]
          BY DEF loose
        <5> HIDE DEF row
        <5>4. QED
          BY ONLY <3>1, <5>1, <5>2, <5>3
      <4> HIDE DEF row
      <4>3. QED
        BY <2>2, <4>1, <4>2, BatchMoves DEF ReviewInv, i
    <3>4. QED
      BY <3>2, <3>3
  <2>3. QED
    BY <2>1, <2>2
<1>2. TurnsCalm(turn')
  BY TurnsCalmSelf DEF ReviewInv, FailClaim
<1>3. /\ reviewer' \in [Reviewers -> ReviewerType]
      /\ \A v \in Reviewers : reviewer'[v].id = reviewer[v].id \/ reviewer'[v].id = 0
  BY DoingCalm DEF FailClaim
<1>4. said' = said /\ (Flaw \/ flaws' = flaws)
  BY DEF FailClaim
<1>5. QED
  BY <1>1, <1>2, <1>3, <1>4, StepKeeps

LEMMA MarkedLane ==
    ASSUME Whole, NEW w
    PROVE  LaneInv(Marked(w)) /\ RowsStay(Marked(w))
<1> DEFINE i == reviewer[w].id
<1>1. CASE ~HasBatch(w, {"leased"})
  BY <1>1, RowsStaySelf DEF Marked, Whole
<1>2. CASE HasBatch(w, {"leased"})
  <2> DEFINE row == [Row(i) EXCEPT !.status = "dispatching"]
  <2>1. Marked(w) = SetRow(i, row)
    BY <1>2 DEF Marked
  <2>2. Row(i) \in Batches /\ Row(i).eve # "turn"
    BY <1>2, RowOfBatch
  <2> HIDE DEF i
  <2>3. /\ row \in Batches /\ row.status = "dispatching" /\ row.id = Row(i).id
        /\ row.through = Row(i).through /\ row.eve # "turn" /\ row.kind = Row(i).kind
    BY <2>2 DEF Batches
  <2> HIDE DEF row
  <2>4. QED
    BY <1>2, <2>1, <2>3, BatchMoves DEF i
<1>3. QED
  BY <1>1, <1>2

LEMMA MarkReviewDispatchKeeps ==
    ASSUME ReviewInv, NEW w \in Reviewers, MarkReviewDispatch(w) PROVE ReviewInv'
<1>1. LaneInv(lane') /\ RowsStay(lane')
  BY MarkedLane DEF MarkReviewDispatch, ReviewInv
<1>2. TurnsCalm(turn')
  BY TurnsCalmSelf DEF ReviewInv, MarkReviewDispatch
<1>3. /\ reviewer' \in [Reviewers -> ReviewerType]
      /\ \A v \in Reviewers : reviewer'[v].id = reviewer[v].id \/ reviewer'[v].id = 0
  <2>1. Doing(w, "marked") \/ Rests(w)
    BY DEF MarkReviewDispatch
  <2>2. QED
    BY <2>1, DoingCalm
<1>4. QED
  BY <1>1, <1>2, <1>3, StepKeeps DEF MarkReviewDispatch

LEMMA MarkRunningKeeps == ASSUME ReviewInv, NEW w \in Reviewers, MarkRunning(w) PROVE ReviewInv'
<1> DEFINE i == reviewer[w].id
<1>1. LaneInv(lane') /\ RowsStay(lane')
  <2>1. CASE ~HasBatch(w, {"dispatching"})
    BY <2>1, RowsStaySelf DEF MarkRunning, ReviewInv, Whole
  <2>2. CASE HasBatch(w, {"dispatching"})
    <3> DEFINE row == [Loose(Row(i), "running") EXCEPT !.eve = "session"]
    <3>1. lane' = SetRow(i, row)
      BY <2>2 DEF MarkRunning
    <3>2. Row(i) \in Batches
      BY <2>2, RowOfBatch DEF ReviewInv
    <3> HIDE DEF i
    <3>3. /\ row \in Batches /\ row.status = "running" /\ row.holder = Nobody /\ row.id = Row(i).id
          /\ row.through = Row(i).through /\ row.eve # "turn" /\ row.kind = Row(i).kind
      BY <3>2, LooseRow DEF Batches
    <3> HIDE DEF row
    <3>4. QED
      BY <2>2, <3>1, <3>3, BatchMoves DEF ReviewInv, i
  <2>3. QED
    BY <2>1, <2>2
<1>2. TurnsCalm(turn')
  BY TurnsCalmSelf DEF ReviewInv, MarkRunning
<1>3. /\ reviewer' \in [Reviewers -> ReviewerType]
      /\ \A v \in Reviewers : reviewer'[v].id = reviewer[v].id \/ reviewer'[v].id = 0
  BY DoingCalm DEF MarkRunning
<1>4. QED
  BY <1>1, <1>2, <1>3, StepKeeps DEF MarkRunning

\* What a dispatcher gives up without knowing, whether or not it was marked.
LEMMA UnsureLane ==
    ASSUME ReviewInv, NEW w \in Reviewers, NEW L \in {lane, Marked(w)}, Unsure(w, L)
    PROVE  LaneInv(lane') /\ RowsStay(lane') /\ TurnsCalm(turn')
<1> DEFINE i == reviewer[w].id
           mine == \E p \in Places : L.at[p].id = i /\ L.at[p].holder = w
                                     /\ L.at[p].status \in {"leased", "dispatching"}
<1>1. LaneInv(L) /\ RowsStay(L)
  BY MarkedLane, RowsStaySelf DEF ReviewInv, Whole
<1>2. i <= lane.last /\ Whole
  BY DEF ReviewInv, Attending
<1>3. /\ lane' = IF mine THEN [L EXCEPT !.at[PlaceOf(i)] = Loose(@, "ambiguous")] ELSE L
      /\ turn' = IF mine THEN [turn EXCEPT ![i].session = "retired"] ELSE turn
  BY DEF Unsure
<1> HIDE DEF i
<1>4. TurnsCalm(turn')
  <2>1. TurnsCalm(turn) /\ TurnsCalm([turn EXCEPT ![i].session = "retired"])
    BY <1>2, TurnsCalmSelf, SessionCalm
  <2> HIDE DEF mine
  <2>2. QED
    BY <1>3, <2>1
<1>5. CASE ~mine
  <2> HIDE DEF mine
  <2>1. QED
    BY <1>1, <1>3, <1>4, <1>5
<1>6. CASE mine /\ L = Marked(w) /\ HasBatch(w, {"leased"})
  <2> DEFINE first == [Row(i) EXCEPT !.status = "dispatching"]
             row == Loose(first, "ambiguous")
  <2>1. L = SetRow(i, first)
    BY <1>6 DEF Marked, i
  <2>2. Row(i) \in Batches /\ Row(i).eve # "turn"
    BY <1>2, <1>6, RowOfBatch DEF i
  <2>3. /\ first \in Batches /\ first.id = Row(i).id /\ first.through = Row(i).through
        /\ first.eve # "turn" /\ first.kind = Row(i).kind
    BY <2>2 DEF Batches
  <2> HIDE DEF first
  <2>4. /\ row \in Batches /\ row.status = "ambiguous" /\ row.id = Row(i).id /\ row.holder = Nobody
        /\ row.through = Row(i).through /\ row.eve # "turn" /\ row.kind = Row(i).kind
    BY <2>3, LooseRow
  <2>5. [L EXCEPT !.at[PlaceOf(i)] = Loose(@, "ambiguous")] = SetRow(i, row)
    <3>1. PlaceOf(i) \in Places
      BY <1>6 DEF HasBatch, HasRow, PlaceOf, i
    <3>2. L.at[PlaceOf(i)] = first
      BY <2>1, <3>1, <1>2, LaneFields DEF SetRow, Whole, LaneInv, LaneType
    <3>3. [L EXCEPT !.at[PlaceOf(i)] = row] = [lane EXCEPT !.at[PlaceOf(i)] = row]
      BY <2>1, <3>1, <1>2 DEF SetRow, Whole, LaneInv, LaneType
    <3>4. QED
      BY <3>2, <3>3 DEF SetRow
  <2> HIDE DEF row
  <2>6. LaneInv(SetRow(i, row)) /\ RowsStay(SetRow(i, row))
    BY <1>2, <1>6, <2>4, BatchMoves DEF i
  <2> HIDE DEF mine
  <2>7. QED
    BY <1>3, <1>4, <1>6, <2>5, <2>6
<1>7. CASE mine /\ L = lane
  <2> DEFINE row == Loose(Row(i), "ambiguous")
  <2>1. PICK p \in Places : lane.at[p].id = i /\ lane.at[p].holder = w
                                     /\ lane.at[p].status \in {"leased", "dispatching"}
    BY <1>7
  <2>2. Exists(lane, p)
    BY <2>1 DEF Exists
  <2>3. HasRow(i) /\ PlaceOf(i) = p /\ Row(i) = lane.at[p]
    BY <1>2, <2>1, <2>2, RowIs
  <2>4. HasBatch(w, {"leased", "dispatching"})
    BY <2>1, <2>3 DEF HasBatch, i
  <2>5. Row(i) \in Batches /\ Row(i).eve # "turn"
    BY <1>2, <2>4, RowOfBatch DEF i
  <2>6. /\ row \in Batches /\ row.status = "ambiguous" /\ row.id = Row(i).id /\ row.holder = Nobody
        /\ row.through = Row(i).through /\ row.eve # "turn" /\ row.kind = Row(i).kind
    BY <2>5, LooseRow
  <2>7. [L EXCEPT !.at[PlaceOf(i)] = Loose(@, "ambiguous")] = SetRow(i, row)
    BY <1>7, <2>3 DEF SetRow, Row
  <2> HIDE DEF row
  <2>8. LaneInv(SetRow(i, row)) /\ RowsStay(SetRow(i, row))
    BY <1>2, <2>4, <2>6, BatchMoves DEF i
  <2> HIDE DEF mine
  <2>9. QED
    BY <1>3, <1>4, <1>7, <2>7, <2>8
<1>8. L = lane \/ (L = Marked(w) /\ HasBatch(w, {"leased"}))
  BY DEF Marked
<1>9. QED
  BY <1>5, <1>6, <1>7, <1>8

LEMMA DispatchMarkerLostKeeps ==
    ASSUME ReviewInv, NEW w \in Reviewers, DispatchMarkerLost(w) PROVE ReviewInv'
<1>1. LaneInv(lane') /\ RowsStay(lane') /\ TurnsCalm(turn')
  BY UnsureLane DEF DispatchMarkerLost
<1>2. /\ reviewer' \in [Reviewers -> ReviewerType]
      /\ \A v \in Reviewers : reviewer'[v].id = reviewer[v].id \/ reviewer'[v].id = 0
  BY DoingCalm DEF DispatchMarkerLost
<1>3. QED
  BY <1>1, <1>2, StepKeeps DEF DispatchMarkerLost

LEMMA HandOffUnansweredKeeps ==
    ASSUME ReviewInv, NEW w \in Reviewers, HandOffUnanswered(w) PROVE ReviewInv'
<1>1. LaneInv(lane') /\ RowsStay(lane') /\ TurnsCalm(turn')
  BY UnsureLane DEF HandOffUnanswered
<1>2. /\ reviewer' \in [Reviewers -> ReviewerType]
      /\ \A v \in Reviewers : reviewer'[v].id = reviewer[v].id \/ reviewer'[v].id = 0
  BY DoingCalm DEF HandOffUnanswered
<1>3. QED
  BY <1>1, <1>2, StepKeeps DEF HandOffUnanswered

\* The steps of a turn that touch its batch.
LEMMA LaneKeeps ==
    ASSUME ReviewInv, Whole', lane'.last = lane.last, said' = said, reviewer' = reviewer,
           Flaw \/ flaws' = flaws
    PROVE  ReviewInv'
<1>1. LaneInv(lane') /\ lane.last <= lane'.last
  BY SameLast DEF ReviewInv, Whole
<1>2. Attending'
  BY <1>1, AttendsStill
<1>3. QED
  BY <1>2 DEF ReviewInv

LEMMA StaysLast == ASSUME NEW R, RowsStay(R) PROVE R.last = lane.last
BY DEF RowsStay

LEMMA AdvancedStays ==
    ASSUME NEW R, LaneInv(R), RowsStay(R)
    PROVE  LaneInv(Advanced(R)) /\ RowsStay(Advanced(R))
<1>1. LaneInv(Advanced(R)) /\ Advanced(R).at = R.at /\ Advanced(R).last = R.last
  BY AdvancedLane DEF Keeps
<1>2. QED
  BY <1>1 DEF RowsStay, Exists

LEMMA TurnEndedCalm ==
    ASSUME Whole, NEW i \in Passes, i <= lane.last,
           NEW phase \in {"completed", "failed"}
    PROVE  TurnsCalm(TurnEnded(i, phase))
<1> DEFINE session == IF Background(i) THEN "retired" ELSE turn[i].session
           t == [turn[i] EXCEPT !.phase = phase, !.sources = {}, !.session = session]
<1>1. turn[i] \in Turns /\ turn \in [Passes -> Turns]
  BY DEF Whole
<1>2. session \in {"none", "fresh", "bound", "retired"}
  BY <1>1, TurnFields
<1>3. TurnEnded(i, phase) = [turn EXCEPT ![i] = t]
  BY <1>1 DEF TurnEnded
<1> HIDE DEF session
<1>4. t \in Turns /\ t.kind = turn[i].kind /\ t.sources = {} /\ t.wrote = turn[i].wrote
  BY <1>1, <1>2 DEF Turns
<1> HIDE DEF t
<1>5. QED
  BY <1>3, <1>4, OneTurnCalm

\* A turn over which its batch is resolved has nothing left to write from.
LEMMA ResolvedWhole ==
    ASSUME Whole, NEW i \in Passes, HasRow(i), Row(i).status # "none",
           lane' = Resolved(lane, PlaceOf(i)), TurnsCalm(turn'), turn'[i].sources = {},
           turn'[i].wrote = turn[i].wrote
    PROVE  Whole' /\ lane'.last = lane.last
<1> DEFINE P == PlaceOf(i)
<1>1. P \in Places /\ Exists(lane, P) /\ Row(i) = lane.at[P] /\ lane.at[P].id = i
  BY RowOf
<1>2. lane' = Resolved(lane, P)
  OBVIOUS
<1> HIDE DEF P
<1>3. /\ LaneInv(lane') /\ Keeps(lane, lane')
      /\ \A q \in Places : Exists(lane, q) /\ q # P => Exists(lane', q)
  BY <1>1, <1>2, ResolvedLane DEF Whole
<1>4. lane'.last = lane.last
  BY <1>3 DEF Keeps
<1>5. ASSUME NEW j \in Passes
      PROVE  \/ turn'[j].sources \cup turn'[j].wrote = {}
             \/ /\ turn'[j].sources \cup turn'[j].wrote \subseteq turn[j].sources \cup turn[j].wrote
                /\ \A p \in Places : Exists(lane, p) /\ lane.at[p].id = j /\ lane.at[p].eve = "turn" =>
                            /\ Exists(lane', p) /\ lane'.at[p].id = j /\ lane'.at[p].eve = "turn"
                            /\ lane'.at[p].through = lane.at[p].through
  <2>1. turn'[j].sources \cup turn'[j].wrote \subseteq turn[j].sources \cup turn[j].wrote
    BY DEF TurnsCalm
  <2>2. CASE j = i /\ turn[i].wrote = {}
    BY <2>2
  <2>3. CASE ~(j = i /\ turn[i].wrote = {})
    <3> SUFFICES ASSUME NEW p \in Places, Exists(lane, p), lane.at[p].id = j, lane.at[p].eve = "turn"
                 PROVE  Exists(lane', p)
      BY <1>3, <2>1 DEF Keeps
    <3>1. CASE p # P
      BY <1>3, <3>1
    <3>2. CASE p = P
      <4>1. j = i /\ turn[i].wrote # {}
        BY <1>1, <2>3, <3>2
      <4>2. Wrote(lane.at[p])
        BY <4>1 DEF Wrote
      <4>3. QED
        BY <1>3, <4>2 DEF Keeps
    <3>3. QED
      BY <3>1, <3>2
  <2>4. QED
    BY <2>2, <2>3
<1>6. \A j \in Passes : j > lane.last => turn'[j] = NoTurn
  BY DEF TurnsCalm, Whole, TurnsFit
<1>7. TurnsFit(lane', turn')
  BY <1>4, <1>5, <1>6, FitOn
<1>8. KindsFit(lane', turn')
  BY <1>3, KindsOn DEF Keeps, TurnsCalm
<1>9. QED
  BY <1>3, <1>4, <1>7, <1>8 DEF Whole, TurnsCalm

\* The turn that ends has no sources any more.
LEMMA EndedTurn ==
    ASSUME Whole, NEW i \in Passes, NEW phase \in {"completed", "failed"}
    PROVE  TurnEnded(i, phase)[i].sources = {} /\ TurnEnded(i, phase)[i].wrote = turn[i].wrote
<1>1. turn \in [Passes -> Turns] /\ turn[i] \in Turns
  BY DEF Whole
<1> DEFINE session == IF Background(i) THEN "retired" ELSE turn[i].session
<1>2. TurnEnded(i, phase)[i] = [turn[i] EXCEPT !.phase = phase, !.sources = {}, !.session = session]
  BY <1>1 DEF TurnEnded
<1> HIDE DEF session
<1>3. QED
  BY <1>1, <1>2 DEF Turns

LEMMA CompleteBatchKeeps ==
    ASSUME ReviewInv, NEW i \in Passes, turn[i].phase # "none", CompleteBatch(i), said' = said,
           reviewer' = reviewer, flaws' = flaws
    PROVE  ReviewInv'
<1>1. i <= lane.last /\ Whole
  BY PhaseOf DEF ReviewInv
<1>2. reviewer' \in [Reviewers -> ReviewerType]
  BY DEF ReviewInv, Attending, ReviewerType
<1>3. CASE ~Completable(i)
  <2>1. lane' = lane /\ turn' = [turn EXCEPT ![i].phase = "completed"]
    BY <1>3 DEF CompleteBatch
  <2>2. QED
    BY <2>1, PhaseKeeps
<1>4. CASE Completable(i)
  <2>1. HasRow(i) /\ Row(i).status = "running" /\ Row(i).status # "none" /\ Row(i).eve = "turn"
    BY <1>4 DEF Completable
  <2>2. Row(i) \in Batches
    BY <1>1, <2>1, RowOf
  <2>3. turn' = TurnEnded(i, "completed")
    BY <1>4 DEF CompleteBatch
  <2>4. TurnsCalm(turn')
    BY <1>1, <2>3, TurnEndedCalm
  <2>5. LaneInv(lane') /\ RowsStay(lane')
    <3>1. CASE turn[i].sources # {}
      <4> DEFINE row == Loose(Row(i), "completed")
      <4>1. lane' = Advanced(SetRow(i, row))
        BY <1>4, <3>1 DEF CompleteBatch
      <4>2. /\ row \in Batches /\ row.status = "completed" /\ row.holder = Nobody /\ row.id = Row(i).id
            /\ row.through = Row(i).through /\ row.eve = Row(i).eve /\ row.kind = Row(i).kind
        BY <2>2, LooseRow
      <4>3. ~HandedOut(row)
        BY <4>2 DEF HandedOut
      <4> HIDE DEF row
      <4>4. LaneInv(SetRow(i, row)) /\ RowsStay(SetRow(i, row))
        BY <1>1, <2>1, <4>2, <4>3, RowSet
      <4>5. QED
        BY <4>1, <4>4, AdvancedStays
    <3>2. CASE turn[i].sources = {}
      <4> DEFINE loose == Loose(Row(i), "failed")
                 row == [loose EXCEPT !.manual = TRUE]
      <4>1. lane' = SetRow(i, row)
        BY <1>4, <3>2 DEF CompleteBatch
      <4>2. /\ loose \in Batches /\ loose.status = "failed" /\ loose.holder = Nobody /\ loose.id = Row(i).id
            /\ loose.through = Row(i).through /\ loose.eve = Row(i).eve /\ loose.kind = Row(i).kind
        BY <2>2, LooseRow
      <4> HIDE DEF loose
      <4>3. /\ row \in Batches /\ row.status = "failed" /\ row.holder = Nobody /\ row.id = Row(i).id
            /\ row.through = Row(i).through /\ row.eve = Row(i).eve /\ row.kind = Row(i).kind
            /\ row.manual
        BY <4>2 DEF Batches
      <4>4. ~HandedOut(row)
        BY <4>3 DEF HandedOut
      <4> HIDE DEF row
      <4>5. LaneInv(SetRow(i, row)) /\ RowsStay(SetRow(i, row))
        BY <1>1, <2>1, <4>3, <4>4, RowSet
      <4>6. QED
        BY <4>1, <4>5
    <3>3. QED
      BY <3>1, <3>2
  <2>6. QED
    BY <1>2, <2>4, <2>5, StepKeeps
<1>5. QED
  BY <1>3, <1>4

LEMMA FailRunningKeeps ==
    ASSUME ReviewInv, NEW i \in Passes, turn[i].phase # "none", FailRunning(i), said' = said,
           reviewer' = reviewer, Flaw \/ flaws' = flaws
    PROVE  ReviewInv'
<1>1. i <= lane.last /\ Whole /\ turn[i] \in Turns /\ turn \in [Passes -> Turns]
  BY PhaseOf DEF ReviewInv, Whole
<1>2. reviewer' \in [Reviewers -> ReviewerType]
  BY DEF ReviewInv, Attending, ReviewerType
<1>3. CASE HasRow(i) /\ Row(i).status = "running" /\ Row(i).eve # "session" /\ Open(i)
  <2>1. lane' = Resolved(lane, PlaceOf(i)) /\ turn' = TurnEnded(i, "failed") /\ Row(i).status # "none"
    BY <1>3 DEF FailRunning
  <2>2. TurnsCalm(turn')
    BY <1>1, <2>1, TurnEndedCalm
  <2>3. turn'[i].sources = {} /\ turn'[i].wrote = turn[i].wrote
    BY <1>1, <2>1, EndedTurn
  <2>4. Whole' /\ lane'.last = lane.last
    BY <1>1, <1>3, <2>1, <2>2, <2>3, ResolvedWhole
  <2>5. QED
    BY <2>4, LaneKeeps
<1>4. CASE ~(HasRow(i) /\ Row(i).status = "running" /\ Row(i).eve # "session" /\ Open(i))
  <2> DEFINE t == [turn[i] EXCEPT !.phase = "failed", !.sources = {}]
  <2>1. lane' = lane /\ turn' = [turn EXCEPT ![i] = t]
    BY <1>1, <1>4 DEF FailRunning
  <2>2. t \in Turns /\ t.kind = turn[i].kind /\ t.sources = {} /\ t.wrote = turn[i].wrote
    BY <1>1 DEF Turns
  <2> HIDE DEF t
  <2>3. TurnsCalm(turn')
    BY <1>1, <2>1, <2>2, OneTurnCalm
  <2>4. QED
    BY <1>2, <2>1, <2>3, TurnsOnly
<1>5. QED
  BY <1>3, <1>4

LEMMA TurnCompletesKeeps == ASSUME ReviewInv, NEW i \in Passes, TurnCompletes(i) PROVE ReviewInv'
<1>1. turn[i].phase # "none" /\ CompleteBatch(i) /\ said' = said /\ reviewer' = reviewer /\ flaws' = flaws
  BY DEF TurnCompletes
<1>2. QED
  BY <1>1, CompleteBatchKeeps

LEMMA TurnFailsKeeps == ASSUME ReviewInv, NEW i \in Passes, TurnFails(i) PROVE ReviewInv'
<1>1. turn[i].phase # "none" /\ FailRunning(i) /\ said' = said /\ reviewer' = reviewer /\ Flaw
  BY DEF TurnFails
<1>2. QED
  BY <1>1, FailRunningKeeps

LEMMA EndRedeliveredKeeps == ASSUME ReviewInv, NEW i \in Passes, EndRedelivered(i) PROVE ReviewInv'
<1>1. turn[i].phase # "none" /\ said' = said /\ reviewer' = reviewer /\ flaws' = flaws
  BY DEF EndRedelivered
<1>2. CompleteBatch(i) \/ FailRunning(i)
  BY DEF EndRedelivered
<1>3. QED
  BY <1>1, <1>2, CompleteBatchKeeps, FailRunningKeeps

\* One turn goes to another phase.
LEMMA PhaseFits ==
    ASSUME NEW R, NEW ts \in [Passes -> Turns], NEW i \in Passes, i \in Nat, i <= R.last, R.last \in Nat,
           \A j \in Passes : ReadsOwnRow(R, j, ts[j]) /\ (j > R.last /\ j # i => ts[j] = NoTurn),
           KindsFit(R, ts),
           NEW phase \in {"none", "prepared", "sent", "active", "parked", "resumed",
                          "completed", "failed", "gone"}
    PROVE  LET us == [ts EXCEPT ![i].phase = phase]
           IN  us \in [Passes -> Turns] /\ TurnsFit(R, us) /\ KindsFit(R, us)
<1> DEFINE u == [ts[i] EXCEPT !.phase = phase]
           us == [ts EXCEPT ![i] = u]
<1>1. [ts EXCEPT ![i].phase = phase] = us
  OBVIOUS
<1>2. u \in Turns /\ u.kind = ts[i].kind /\ u.sources = ts[i].sources /\ u.wrote = ts[i].wrote
  BY DEF Turns
<1> HIDE DEF u
<1>3. /\ us \in [Passes -> Turns] /\ us[i] = u
      /\ \A j : j \in Passes /\ j # i => us[j] = ts[j]
  BY <1>2
<1> HIDE DEF us
<1>4. \A j \in Passes : us[j].kind = ts[j].kind
  BY <1>2, <1>3
<1>5. KindsFit(R, us)
  <2>1. \A j : j \notin Passes => us[j].kind = ts[j].kind
    <3>1. us = [ts EXCEPT ![i] = u]
      BY DEF us
    <3>2. QED
      BY <3>1
  <2>2. QED
    BY <1>4, <2>1 DEF KindsFit
<1>6. TurnsFit(R, us)
  <2> SUFFICES ASSUME NEW j \in Passes PROVE ReadsOwnRow(R, j, us[j]) /\ (j > R.last => us[j] = NoTurn)
    BY DEF TurnsFit
  <2>1. CASE j = i
    <3>1. ReadsOwnRow(R, j, us[j])
      BY <1>2, <1>3, <2>1 DEF ReadsOwnRow
    <3>2. ~(j > R.last)
      BY <2>1
    <3>3. QED
      BY <3>1, <3>2
  <2>2. CASE j # i
    BY <1>3, <2>2
  <2>3. QED
    BY <2>1, <2>2
<1>7. QED
  BY <1>1, <1>3, <1>5, <1>6

\* What is left of the turns when rows went, and one of them is gone.
LEMMA AfterwardsWhole ==
    ASSUME Whole, NEW i \in Passes, i <= lane.last, LaneInv(lane'), Keeps(lane, lane'),
           NEW retired \in SUBSET {i}, turn' = [Afterwards(lane', retired) EXCEPT ![i].phase = "gone"]
    PROVE  Whole' /\ lane'.last = lane.last
<1> DEFINE ts == Afterwards(lane', retired)
<1>1. lane'.last = lane.last /\ lane.last \in Nat /\ i \in Nat
  BY MemoryReviewConstants, LaneFields DEF Keeps, Whole, LaneInv, Passes
<1>2. /\ ts \in [Passes -> Turns] /\ KindsFit(lane', ts)
      /\ \A j \in Passes : /\ ReadsOwnRow(lane', j, ts[j])
                           /\ j > lane'.last /\ j \notin retired => ts[j] = NoTurn
  BY AfterwardsFit
<1>3. turn' = [ts EXCEPT ![i].phase = "gone"]
  OBVIOUS
<1> HIDE DEF ts
<1>4. \A j \in Passes : ReadsOwnRow(lane', j, ts[j]) /\ (j > lane'.last /\ j # i => ts[j] = NoTurn)
  BY <1>2
<1> DEFINE R == lane'
<1>5. /\ ts \in [Passes -> Turns] /\ i \in Passes /\ i \in Nat /\ i <= R.last /\ R.last \in Nat
      /\ \A j \in Passes : ReadsOwnRow(R, j, ts[j]) /\ (j > R.last /\ j # i => ts[j] = NoTurn)
      /\ KindsFit(R, ts) /\ turn' = [ts EXCEPT ![i].phase = "gone"]
  BY <1>1, <1>2, <1>3, <1>4
<1> HIDE DEF R
<1>6. turn' \in [Passes -> Turns] /\ TurnsFit(R, turn') /\ KindsFit(R, turn')
  BY ONLY <1>5, PhaseFits
<1>7. QED
  BY <1>1, <1>6 DEF Whole, R

LEMMA ResolvedOf ==
    ASSUME Whole, NEW i, HasRow(i), Row(i).status # "none"
    PROVE  LaneInv(Resolved(lane, PlaceOf(i))) /\ Keeps(lane, Resolved(lane, PlaceOf(i)))
<1>1. PlaceOf(i) \in Places /\ Exists(lane, PlaceOf(i))
  BY RowOf
<1>2. QED
  BY <1>1, ResolvedLane DEF Whole

LEMMA FailInteractivePreparationKeeps ==
    ASSUME ReviewInv, NEW i \in Passes, FailInteractivePreparation(i) PROVE ReviewInv'
<1>1. i <= lane.last /\ Whole
  BY PhaseOf DEF FailInteractivePreparation, ReviewInv
<1>2. LaneInv(lane') /\ Keeps(lane, lane')
  <2>1. LaneInv(lane) /\ Keeps(lane, lane)
    BY KeepsSelf DEF ReviewInv, Whole
  <2>2. CASE HasRow(i) /\ Row(i).status = "running" /\ Row(i).eve = "none"
    <3>1. lane' = Resolved(lane, PlaceOf(i)) /\ Row(i).status # "none"
      BY <2>2 DEF FailInteractivePreparation
    <3>2. QED
      BY <1>1, <2>2, <3>1, ResolvedOf
  <2>3. CASE ~(HasRow(i) /\ Row(i).status = "running" /\ Row(i).eve = "none")
    BY <2>1, <2>3 DEF FailInteractivePreparation
  <2>4. QED
    BY <2>2, <2>3
<1>3. turn' = [Afterwards(lane', {}) EXCEPT ![i].phase = "gone"]
  BY DEF FailInteractivePreparation
<1>4. Whole' /\ lane'.last = lane.last
  BY <1>1, <1>2, <1>3, AfterwardsWhole
<1>5. QED
  BY <1>4, LaneKeeps DEF FailInteractivePreparation

LEMMA SessionFailsKeeps == ASSUME ReviewInv, NEW i \in Passes, SessionFails(i) PROVE ReviewInv'
<1> DEFINE hers == HasRow(i) /\ Row(i).status \in {"dispatching", "running"}
           mark == hers /\ Background(i)
           drop == hers /\ ~Background(i) /\ Row(i).eve # "none"
<1>1. i <= lane.last /\ Whole
  BY PhaseOf DEF SessionFails, ReviewInv
<1>2. /\ lane' = CASE mark -> SetRow(i, [Loose(Row(i), "ambiguous") EXCEPT
                                             !.eve = IF @ = "none" THEN "session" ELSE @])
                   [] drop -> Resolved(lane, PlaceOf(i))
                   [] OTHER -> lane
      /\ turn' = [Afterwards(lane', IF mark THEN {i} ELSE {}) EXCEPT ![i].phase = "gone"]
      /\ UNCHANGED <<said, reviewer>> /\ Flaw
  BY DEF SessionFails
<1>3. LaneInv(lane') /\ Keeps(lane, lane')
  <2>1. LaneInv(lane) /\ Keeps(lane, lane)
    BY KeepsSelf DEF ReviewInv, Whole
  <2>2. CASE mark
    <3> DEFINE loose == Loose(Row(i), "ambiguous")
               row == [loose EXCEPT !.eve = IF @ = "none" THEN "session" ELSE @]
    <3>1. lane' = SetRow(i, row)
      BY <1>2, <2>2
    <3>2. HasRow(i) /\ Row(i).status # "none" /\ Row(i).status \in {"dispatching", "running"}
      BY <2>2
    <3>3. /\ Row(i) \in Batches /\ (HandedOut(Row(i)) => PlaceOf(i) = lane.cursor)
          /\ PlaceOf(i) \in Places /\ Exists(lane, PlaceOf(i)) /\ lane.at[PlaceOf(i)].id = i
          /\ Row(i) = lane.at[PlaceOf(i)]
      BY <1>1, <3>2, RowOf
    <3>4. /\ loose \in Batches /\ loose.status = "ambiguous" /\ loose.holder = Nobody /\ loose.id = Row(i).id
          /\ loose.through = Row(i).through /\ loose.eve = Row(i).eve /\ loose.kind = Row(i).kind
      BY <3>3, LooseRow
    <3> HIDE DEF loose
    <3>5. /\ row \in Batches /\ row.status = "ambiguous" /\ row.holder = Nobody /\ row.id = Row(i).id
          /\ row.through = Row(i).through /\ row.kind = Row(i).kind
          /\ row.eve = "turn" <=> Row(i).eve = "turn"
      BY <3>4 DEF Batches
    <3>6. PlaceOf(i) = lane.cursor
      <4>1. Row(i).kind = "background"
        BY <1>1, <2>2, <3>3 DEF Background, Whole, KindsFit
      <4>2. HandedOut(Row(i))
        BY <3>2, <4>1 DEF HandedOut
      <4>3. QED
        BY <3>3, <4>2
    <3> HIDE DEF row
    <3>7. QED
      BY <1>1, <3>1, <3>2, <3>5, <3>6, RowSet
  <2>3. CASE ~mark /\ drop
    <3>1. lane' = Resolved(lane, PlaceOf(i)) /\ HasRow(i) /\ Row(i).status # "none"
      BY <1>2, <2>3
    <3>2. QED
      BY <1>1, <3>1, ResolvedOf
  <2>4. CASE ~mark /\ ~drop
    <3> HIDE DEF mark, drop
    <3>1. lane' = lane
      BY <1>2, <2>4
    <3>2. QED
      BY <2>1, <3>1
  <2>5. QED
    BY <2>2, <2>3, <2>4
<1> DEFINE retired == IF mark THEN {i} ELSE {}
<1>4. retired \in SUBSET {i} /\ turn' = [Afterwards(lane', retired) EXCEPT ![i].phase = "gone"]
  <2> HIDE DEF mark, drop
  <2>1. QED
    BY <1>2
<1> HIDE DEF retired, mark, drop
<1>5. Whole' /\ lane'.last = lane.last
  BY <1>1, <1>3, <1>4, AfterwardsWhole
<1>6. QED
  BY <1>2, <1>5, LaneKeeps

\* The turn that starts is bound to the messages of its own row, from which nothing
\* was saved yet.
LEMMA StartTurnKeeps ==
    ASSUME ReviewInv, NEW i \in Passes, NEW sourcesBound \in BOOLEAN, StartTurn(i, sourcesBound)
    PROVE  ReviewInv'
<1> DEFINE binds == Open(i) /\ HasRow(i) /\ Row(i).status \in {"dispatching", "running"}
                      /\ Row(i).eve # "turn"
           sources == IF binds /\ sourcesBound THEN (PlaceOf(i) + 1)..Row(i).through ELSE {}
           session == IF Open(i) THEN "bound" ELSE turn[i].session
           t == [turn[i] EXCEPT !.phase = "active", !.session = session, !.sources = sources]
<1>1. i <= lane.last /\ Whole /\ turn[i] \in Turns /\ turn \in [Passes -> Turns]
  BY PhaseOf DEF StartTurn, ReviewInv, Whole
<1>2. /\ lane' = IF binds THEN SetRow(i, [Loose(Row(i), "running") EXCEPT !.eve = "turn"]) ELSE lane
      /\ turn' = [turn EXCEPT ![i] = t]
      /\ said' = said /\ reviewer' = reviewer /\ (Flaw \/ flaws' = flaws)
  BY <1>1 DEF StartTurn
<1>3. reviewer' \in [Reviewers -> ReviewerType]
  BY <1>2 DEF ReviewInv, Attending, ReviewerType
<1>4. session \in {"none", "fresh", "bound", "retired"}
  BY <1>1, TurnFields
<1>5. ASSUME sources \in SUBSET Messages
      PROVE  t \in Turns /\ t.kind = turn[i].kind /\ t.sources = sources /\ t.wrote = turn[i].wrote
  <2> HIDE DEF sources, session
  <2>1. QED
    BY <1>1, <1>4, <1>5 DEF Turns
<1>6. CASE ~binds
  <2>1. sources = {} /\ lane' = lane
    BY <1>2, <1>6
  <2> HIDE DEF sources, t
  <2>2. TurnsCalm(turn')
    BY <1>1, <1>2, <1>5, <2>1, OneTurnCalm
  <2>3. QED
    BY <1>2, <1>3, <2>1, <2>2, TurnsOnly
<1>7. CASE binds
  <2> DEFINE P == PlaceOf(i)
             loose == Loose(Row(i), "running")
             row == [loose EXCEPT !.eve = "turn"]
  <2>1. HasRow(i) /\ Row(i).status # "none" /\ Row(i).status \in {"dispatching", "running"} /\ Row(i).eve # "turn"
    BY <1>7
  <2>2. lane' = SetRow(i, row)
    BY <1>2, <1>7
  <2>3. /\ P \in Places /\ Exists(lane, P) /\ lane.at[P].id = i /\ Row(i) = lane.at[P] /\ Row(i) \in Batches
        /\ SetRow(i, row) = Changed(lane, P, row)
        /\ \A p \in Places : Exists(lane, p) /\ lane.at[p].id = i => p = P
        /\ HandedOut(Row(i)) => P = lane.cursor
    BY <1>1, <2>1, RowOf
  <2>4. /\ loose \in Batches /\ loose.status = "running" /\ loose.holder = Nobody /\ loose.id = Row(i).id
        /\ loose.through = Row(i).through /\ loose.eve = Row(i).eve /\ loose.kind = Row(i).kind
    BY <2>3, LooseRow
  <2> HIDE DEF loose
  <2>5. /\ row \in Batches /\ row.status = "running" /\ row.holder = Nobody /\ row.id = Row(i).id
        /\ row.through = Row(i).through /\ row.kind = Row(i).kind /\ row.eve = "turn"
    BY <2>4 DEF Batches
  <2> HIDE DEF row
  <2>6. HandedOut(row) => P = lane.cursor
    BY <2>1, <2>3, <2>5 DEF HandedOut
  <2>7. LaneInv(lane') /\ RowsStay(lane')
    <3>1. HandedOut(row) => PlaceOf(i) = lane.cursor
      BY <2>6
    <3> HIDE DEF P, binds, sources, t
    <3>2. LaneInv(SetRow(i, row)) /\ RowsStay(SetRow(i, row))
      BY <1>1, <2>1, <2>5, <3>1, RowSet
    <3>3. QED
      BY <2>2, <3>2
  <2>8. lane'.at[P] = row /\ Exists(lane', P)
    <3>1. lane'.at[P] = row
      BY <2>2, <2>3, <1>1, LaneFields DEF Changed, Whole, LaneInv, LaneType
    <3>2. QED
      BY <3>1, <2>3, <2>5 DEF Exists
  <2>9. sources \subseteq (P + 1)..lane.at[P].through /\ sources \in SUBSET Messages
    <3>1. (P + 1)..lane.at[P].through \subseteq Messages
      BY <1>1, <2>3, MessagesOfRow DEF Whole
    <3>2. sources \subseteq (P + 1)..lane.at[P].through
      BY <2>3
    <3>3. QED
      BY <3>1, <3>2
  <2>10. turn[i].wrote = {}
    <3> SUFFICES ASSUME turn[i].wrote # {} PROVE FALSE
      OBVIOUS
    <3>1. PICK p \in Places : Exists(lane, p) /\ lane.at[p].id = i /\ lane.at[p].eve = "turn"
      BY <1>1 DEF Whole, TurnsFit, ReadsOwnRow
    <3>2. QED
      BY <2>1, <2>3, <3>1
  <2> HIDE DEF binds, sources, session, P
  <2>11. t \in Turns /\ t.kind = turn[i].kind /\ t.sources = sources /\ t.wrote = turn[i].wrote
    BY <1>5, <2>9
  <2> HIDE DEF t
  <2>12. /\ turn' \in [Passes -> Turns] /\ turn'[i] = t
         /\ \A j \in Passes : j # i => turn'[j] = turn[j]
         /\ \A j \in Passes : turn'[j].kind = turn[j].kind
    BY <1>1, <1>2, <2>11
  <2>13. TurnsFit(lane', turn')
    <3>1. lane'.last = lane.last /\ i \in Nat /\ lane.last \in Nat
      BY <1>1, <2>7, MemoryReviewConstants, LaneFields DEF RowsStay, Whole, LaneInv, Passes
    <3> SUFFICES ASSUME NEW j \in Passes
                 PROVE  ReadsOwnRow(lane', j, turn'[j]) /\ (j > lane'.last => turn'[j] = NoTurn)
      BY DEF TurnsFit
    <3>2. CASE j = i
      <4>1. ~(j > lane'.last)
        BY <1>1, <3>1, <3>2
      <4>2. turn'[j].sources \cup turn'[j].wrote \subseteq (P + 1)..lane'.at[P].through
        BY <2>3, <2>5, <2>8, <2>9, <2>10, <2>11, <2>12, <3>2
      <4>3. ReadsOwnRow(lane', j, turn'[j])
        BY <2>3, <2>5, <2>8, <3>2, <4>2 DEF ReadsOwnRow
      <4>4. QED
        BY <4>1, <4>3
    <3>3. CASE j # i
      <4>1. turn'[j] = turn[j] /\ ReadsOwnRow(lane, j, turn[j]) /\ (j > lane.last => turn[j] = NoTurn)
        BY <1>1, <2>12, <3>3 DEF Whole, TurnsFit
      <4>2. ReadsOwnRow(lane', j, turn'[j])
        BY <2>7, <4>1 DEF ReadsOwnRow, RowsStay
      <4>3. QED
        BY <3>1, <4>1, <4>2
    <3>4. QED
      BY <3>2, <3>3
  <2>14. KindsFit(lane', turn')
    BY <1>1, <2>7, <2>12, KindsOn DEF RowsStay
  <2>15. Whole' /\ lane'.last = lane.last
    BY <2>7, <2>12, <2>13, <2>14, StaysLast DEF Whole
  <2>16. QED
    BY <1>2, <2>15, LaneKeeps
<1>8. QED
  BY <1>6, <1>7

-----------------------------------------------------------------------------
(* The steps that make batches. *)

\* New rows stand behind all others, with turns that have read nothing.
LEMMA GrownKeeps ==
    ASSUME ReviewInv, LaneInv(lane'), Grows(lane, lane'), turn' = NewTurns(lane'),
           said' = said, reviewer' = reviewer, flaws' = flaws
    PROVE  ReviewInv'
<1>1. Whole'
  BY NewTurnsFit DEF ReviewInv, Whole
<1>2. lane.last <= lane'.last
  BY DEF Grows
<1>3. Attending'
  BY <1>2, AttendsStill
<1>4. QED
  BY <1>1, <1>3 DEF ReviewInv

\* The place a new batch is put behind is at the end of the chain, if it is free.
LEMMA CoveredIsEnd ==
    ASSUME NEW L, LaneInv(L), ~Exists(L, CoveredThrough(L))
    PROVE  AtEnd(L, CoveredThrough(L))
BY CoveredEnds, EndIsOpen

LEMMA ObservePassiveMessageKeeps ==
    ASSUME ReviewInv, ObservePassiveMessage PROVE ReviewInv'
<1> DEFINE place == CoveredThrough(lane)
<1>1. /\ said - place >= PassSize /\ CanInsert(lane, place)
      /\ lane' = Inserted(lane, place, PassSize, "background")
      /\ turn' = NewTurns(lane') /\ UNCHANGED <<said, reviewer, flaws>>
  BY DEF ObservePassiveMessage
<1>2. LaneInv(lane)
  BY DEF ReviewInv, Whole
<1>3. AtEnd(lane, place) /\ lane.last < MaxPasses
  BY <1>1, <1>2, CoveredIsEnd DEF CanInsert
<1>4. PassSize \in Nat \ {0} /\ place + PassSize <= LaneMessages
  <2>1. place \in Nat
    BY <1>2, <1>3, MemoryReviewConstants, LaneFields DEF AtEnd, LaneInv
  <2> HIDE DEF place
  <2>2. QED
    BY <1>1, <2>1, MemoryReviewConstants DEF ReviewInv, Attending
<1> HIDE DEF place
<1>5. LaneInv(lane') /\ Grows(lane, lane')
  BY <1>1, <1>2, <1>3, <1>4, InsertedLane
<1>6. QED
  BY <1>1, <1>5, GrownKeeps

LEMMA PortionsFit == \A d \in Nat \ {0} : \A s \in Nat \ {0} :
    LET n == (d - 1) \div s IN n \in Nat /\ n * s \in Nat /\ n * s < d
OBVIOUS

LEMMA PrepareInteractiveTurnKeeps ==
    ASSUME ReviewInv, PrepareInteractiveTurn PROVE ReviewInv'
<1> DEFINE place == CoveredThrough(lane)
           n == (said - place - 1) \div PassSize
           cut == Portions(lane, n)
           tail == said - place - n * PassSize
<1>1. /\ said > place /\ CanInsert(lane, place) /\ lane.last + n < MaxPasses
      /\ lane' = IF tail >= RidingMinimum
                 THEN Inserted(cut, place + n * PassSize, tail, "interactive") ELSE cut
      /\ turn' = NewTurns(lane') /\ UNCHANGED <<said, reviewer, flaws>>
  BY DEF PrepareInteractiveTurn
<1>2. LaneInv(lane)
  BY DEF ReviewInv, Whole
<1>3. AtEnd(lane, place)
  BY <1>1, <1>2, CoveredIsEnd DEF CanInsert
<1>4. /\ place \in Nat /\ said \in Nat /\ said <= LaneMessages /\ PassSize \in Nat \ {0} /\ LaneMessages \in Nat
      /\ RidingMinimum \in Nat \ {0} /\ lane.last \in Nat /\ MaxPasses \in Nat
  BY <1>2, <1>3, MemoryReviewConstants, LaneFields DEF AtEnd, LaneInv, ReviewInv, Attending
<1>5. n \in Nat /\ n * PassSize \in Nat /\ n * PassSize < said - place
  <2> DEFINE d == said - place
  <2>1. d \in Nat \ {0} /\ PassSize \in Nat \ {0}
    BY <1>1, <1>4
  <2>2. n = (d - 1) \div PassSize
    OBVIOUS
  <2> HIDE DEF d, n, place
  <2>3. n \in Nat /\ n * PassSize \in Nat /\ n * PassSize < d
    BY <2>1, <2>2, PortionsFit
  <2>4. QED
    BY <2>3 DEF d
<1> DEFINE m == n * PassSize
<1>6. place + m <= LaneMessages /\ lane.last + n <= MaxPasses /\ tail = said - place - m
      /\ tail \in Nat \ {0} /\ place + m + tail <= LaneMessages
  <2>1. m \in Nat /\ m < said - place /\ tail = said - place - m /\ lane.last + n < MaxPasses
    BY <1>1, <1>5
  <2> HIDE DEF m, n, tail, place
  <2>2. QED
    BY <1>4, <1>5, <2>1
<1>7. LaneInv(cut) /\ AtEnd(cut, place + m) /\ Grows(lane, cut) /\ cut.last = lane.last + n
  BY <1>2, <1>3, <1>5, <1>6, PortionsLane
<1> HIDE DEF cut, n, m, tail, place
<1>8. CASE tail >= RidingMinimum
  <2> DEFINE R == Inserted(cut, place + m, tail, "interactive")
  <2>1. cut.last < MaxPasses
    BY <1>1, <1>7
  <2>2. LaneInv(R) /\ Grows(cut, R)
    BY <1>6, <1>7, <2>1, InsertedLane
  <2>3. lane' = R
    BY <1>1, <1>8 DEF m
  <2> HIDE DEF R
  <2>4. Grows(lane, R)
    BY <1>2, <1>7, <2>2, GrowsOn
  <2>5. QED
    BY <1>1, <2>2, <2>3, <2>4, GrownKeeps
<1>9. CASE ~(tail >= RidingMinimum)
  BY <1>1, <1>7, <1>9, GrownKeeps
<1>10. QED
  BY <1>8, <1>9

\* The transaction of the minute dispatcher, one change of the chain after the other.
LEMMA ClosedLane ==
    ASSUME NEW L, LaneInv(L), NEW p, p = Later \/ (p \in Places /\ Exists(L, p))
    PROVE  LaneInv(Closed(L, p)) /\ Keeps(L, Closed(L, p))
<1>1. CASE p = Later
  BY <1>1, KeepsSelf DEF Closed
<1>2. CASE p # Later
  BY <1>2, ResolvedLane DEF Closed
<1>3. QED
  BY <1>1, <1>2

LEMMA TimedOutLane ==
    ASSUME NEW L, LaneInv(L), NEW p, p = Later \/ (p \in Places /\ HandoffTimedOut(L, p))
    PROVE  LaneInv(TimedOut(L, p)) /\ Keeps(L, TimedOut(L, p))
<1>1. CASE p = Later
  BY <1>1, KeepsSelf DEF TimedOut
<1>2. CASE p # Later
  <2> DEFINE row == Loose(L.at[p], "ambiguous")
  <2>1. p \in Places /\ Exists(L, p) /\ L.at[p].status = "dispatching"
    BY <1>2 DEF HandoffTimedOut
  <2>2. p = L.cursor
    BY <2>1 DEF LaneInv, RowFits, HandedOut
  <2>3. L.at[p] \in Batches
    BY <2>1, BatchFields DEF LaneInv
  <2>4. /\ row \in Batches /\ row.status = "ambiguous" /\ row.holder = Nobody /\ row.id = L.at[p].id
        /\ row.through = L.at[p].through /\ row.eve = L.at[p].eve /\ row.kind = L.at[p].kind
    BY <2>3, LooseRow
  <2>5. TimedOut(L, p) = Changed(L, p, row)
    BY <1>2 DEF TimedOut, Changed
  <2> HIDE DEF row
  <2>6. QED
    BY <2>1, <2>2, <2>4, <2>5, ChangedRow
<1>3. QED
  BY <1>1, <1>2

LEMMA TailFits ==
    ASSUME NEW L, LaneInv(L), said \in 0..LaneMessages, Tail(L) > 0
    PROVE  Tail(L) \in Nat \ {0} /\ L.cursor + Tail(L) <= LaneMessages
<1>1. L.cursor \in Nat /\ LaneMessages \in Nat /\ PassSize \in Nat /\ said \in Nat /\ said <= LaneMessages
  BY MemoryReviewConstants, LaneFields DEF LaneInv
<1>2. QED
  BY <1>1 DEF Tail

LEMMA MaterializedLane ==
    ASSUME NEW L, LaneInv(L), said \in 0..LaneMessages, NEW quiet
    PROVE  LaneInv(Materialized(L, quiet)) /\ Grows(L, Materialized(L, quiet))
<1>1. CASE Materialized(L, quiet) = L
  BY <1>1, GrowsSelf
<1>2. CASE Materialized(L, quiet) # L
  <2>1. /\ Materialized(L, quiet) = Inserted(L, L.cursor, Tail(L), "background")
        /\ ~Exists(L, L.cursor) /\ L.last < MaxPasses /\ Tail(L) > 0
    BY <1>2 DEF Materialized
  <2>2. L.cursor \in L.cursor..LaneMessages
    BY MemoryReviewConstants, LaneFields DEF LaneInv
  <2>3. AtEnd(L, L.cursor)
    BY <2>1, <2>2, EndIsOpen
  <2>4. Tail(L) \in Nat \ {0} /\ L.cursor + Tail(L) <= LaneMessages
    BY <2>1, TailFits
  <2>5. QED
    BY <2>1, <2>3, <2>4, InsertedLane
<1>3. QED
  BY <1>1, <1>2

\* The lease is taken where the cursor is.
LeasedTo(L, w) == [L EXCEPT !.at[L.cursor].status = "leased", !.at[L.cursor].holder = w]
LEMMA LeasedLane ==
    ASSUME NEW L, LaneInv(L), LeasableHead(L), NEW w \in Reviewers
    PROVE  /\ LaneInv(LeasedTo(L, w)) /\ LeasedTo(L, w).last = L.last
           /\ \A p \in Places :
                 /\ Exists(LeasedTo(L, w), p) <=> Exists(L, p)
                 /\ LeasedTo(L, w).at[p].id = L.at[p].id /\ LeasedTo(L, w).at[p].through = L.at[p].through
                 /\ LeasedTo(L, w).at[p].kind = L.at[p].kind /\ LeasedTo(L, w).at[p].eve = L.at[p].eve
<1> DEFINE p == L.cursor
           row == [L.at[p] EXCEPT !.status = "leased", !.holder = w]
<1>1. p \in Places /\ Exists(L, p) /\ L.at[p].status \in {"pending", "leased"} /\ L \in LaneType
  BY DEF LeasableHead, Exists, LaneInv
<1>2. L.at[p] \in Batches /\ L.at[p].eve # "turn"
  BY <1>1, BatchFields DEF LaneInv, RowFits
<1>3. /\ row \in Batches /\ row.status = "leased" /\ row.holder = w /\ row.id = L.at[p].id
      /\ row.through = L.at[p].through /\ row.eve = L.at[p].eve /\ row.kind = L.at[p].kind
  BY <1>2 DEF Batches
<1>4. LeasedTo(L, w) = Changed(L, p, row)
  BY <1>1, LaneFields DEF LeasedTo, Changed, LaneType
<1> HIDE DEF row
<1>5. LaneInv(Changed(L, p, row))
  BY <1>1, <1>2, <1>3, ChangedRow
<1>6. /\ Changed(L, p, row).last = L.last /\ Changed(L, p, row).at[p] = row
      /\ \A q \in Places : q # p => Changed(L, p, row).at[q] = L.at[q]
  BY <1>1, LaneFields DEF Changed, LaneType
<1>7. QED
  BY <1>1, <1>3, <1>4, <1>5, <1>6 DEF Exists

\* The turns of what went, of what stayed and of what is new.
LEMMA MadeFits ==
    ASSUME Whole, NEW swept, LaneInv(swept), Keeps(lane, swept),
           NEW made, LaneInv(made), Grows(swept, made), NEW retired,
           NEW ts, ts = [i \in Passes |-> IF i > lane.last THEN NewTurns(made)[i]
                                          ELSE Afterwards(made, retired)[i]]
    PROVE  ts \in [Passes -> Turns] /\ TurnsFit(made, ts) /\ KindsFit(made, ts)
<1> DEFINE us == Afterwards(swept, retired)
<1>1. swept.last = lane.last /\ lane.last \in Nat /\ made.last \in Nat /\ lane.last <= made.last
  BY MemoryReviewConstants, LaneFields DEF Keeps, Grows, Whole, LaneInv
<1>2. us \in [Passes -> Turns] /\ KindsFit(swept, us) /\ \A i \in Passes : ReadsOwnRow(swept, i, us[i])
  BY AfterwardsFit
<1>3. ASSUME NEW i \in Passes, ~(i > lane.last) PROVE ts[i] = us[i]
  <2>1. i \in 1..lane.last
    BY <1>1, <1>3 DEF Passes
  <2>2. ASSUME NEW p \in Places PROVE made.at[p].id = i <=> swept.at[p].id = i
    <3>1. CASE Exists(swept, p)
      BY <3>1 DEF Grows
    <3>2. CASE ~Exists(swept, p) /\ Exists(made, p)
      <4>1. made.at[p].id \in (swept.last + 1)..made.last
        BY <3>2 DEF Grows
      <4>2. swept.at[p].id = 0
        BY <3>2 DEF LaneInv, RowFits, NoBatch
      <4>3. QED
        BY <1>1, <2>1, <4>1, <4>2
    <3>3. CASE ~Exists(swept, p) /\ ~Exists(made, p)
      BY <3>3 DEF LaneInv, RowFits
    <3>4. QED
      BY <3>1, <3>2, <3>3
  <2>3. (\A p \in Places : made.at[p].id # i) <=> (\A p \in Places : swept.at[p].id # i)
    BY <2>2
  <2>4. Afterwards(made, retired)[i] = us[i]
    BY <2>3 DEF Afterwards
  <2>5. QED
    BY <1>3, <2>4
<1>4. ASSUME NEW i \in Passes, i > lane.last
      PROVE  /\ i \notin (lane.last + 1)..made.last => ts[i] = NoTurn
             /\ i \in (lane.last + 1)..made.last =>
                      /\ ts[i] \in Turns /\ ts[i].sources \cup ts[i].wrote = {}
                      /\ \A p \in Places : Exists(made, p) /\ made.at[p].id = i => ts[i].kind = made.at[p].kind
  <2>1. ts[i] = NewTurns(made)[i] /\ turn[i] = NoTurn
    BY <1>4 DEF Whole, TurnsFit
  <2>2. QED
    BY <2>1, NewTurnsAre
<1> HIDE DEF us
<1>5. ts \in [Passes -> Turns]
  <2>1. \A i \in Passes : ts[i] \in Turns
    BY <1>2, <1>3, <1>4, NoTurnTyped
  <2>2. QED
    BY <2>1
<1>6. TurnsFit(made, ts)
  <2> SUFFICES ASSUME NEW i \in Passes PROVE ReadsOwnRow(made, i, ts[i]) /\ (i > made.last => ts[i] = NoTurn)
    BY DEF TurnsFit
  <2>1. CASE i > lane.last
    <3>1. ts[i].sources \cup ts[i].wrote = {}
      BY <1>4, <2>1, NoTurnTyped
    <3>2. i > made.last => ts[i] = NoTurn
      BY <1>1, <1>4, <2>1
    <3>3. QED
      BY <3>1, <3>2 DEF ReadsOwnRow
  <2>2. CASE ~(i > lane.last)
    <3>1. ts[i] = us[i] /\ ReadsOwnRow(swept, i, us[i])
      BY <1>2, <1>3, <2>2
    <3>2. ReadsOwnRow(made, i, ts[i])
      BY <3>1 DEF ReadsOwnRow, Grows
    <3>3. ~(i > made.last)
      BY <1>1, <2>2 DEF Passes
    <3>4. QED
      BY <3>2, <3>3
  <2>3. QED
    BY <2>1, <2>2
<1>7. KindsFit(made, ts)
  <2> SUFFICES ASSUME NEW p \in Places, Exists(made, p) PROVE ts[made.at[p].id].kind = made.at[p].kind
    BY DEF KindsFit
  <2>1. made.at[p].id \in Passes
    BY MemoryReviewConstants, LaneFields DEF LaneInv, RowFits, Passes
  <2>2. CASE Exists(swept, p)
    <3>1. made.at[p] = swept.at[p] /\ swept.at[p].id \in 1..swept.last /\ us[swept.at[p].id].kind = swept.at[p].kind
      BY <1>2, <2>2 DEF Grows, LaneInv, RowFits, KindsFit
    <3>2. ~(made.at[p].id > lane.last)
      BY <1>1, <3>1
    <3>3. QED
      BY <1>3, <2>1, <3>1, <3>2
  <2>3. CASE ~Exists(swept, p)
    <3>1. made.at[p].id \in (lane.last + 1)..made.last
      BY <1>1, <2>3 DEF Grows
    <3>2. made.at[p].id > lane.last
      BY <1>1, <3>1
    <3>3. QED
      BY <1>4, <2>1, <3>1, <3>2
  <2>4. QED
    BY <2>2, <2>3
<1>8. QED
  BY <1>5, <1>6, <1>7

\* How the transaction ends.
TickEnds(w, made, hit, kept) ==
    LET row == made.at[made.cursor]
    IN  /\ IF \/ \E i \in hit : Working(i)
              \/ LeasableHead(made) /\ row.status = "leased" /\ InHand(row.id)
           THEN Flaw ELSE UNCHANGED flaws
        /\ IF LeasableHead(made)
           THEN /\ lane' = [made EXCEPT !.at[made.cursor].status = "leased",
                                        !.at[made.cursor].holder = w]
                /\ reviewer' = [reviewer EXCEPT ![w] = [doing |-> "claimed", id |-> row.id]]
           ELSE lane' = made /\ UNCHANGED reviewer
        /\ turn' = [i \in Passes |->
                       IF i > lane.last THEN NewTurns(made)[i]
                       ELSE Afterwards(made, {j \in hit \cup kept : Background(j)})[i]]

LEMMA TickKeeps ==
    ASSUME ReviewInv, NEW w \in Reviewers, Tick(w)
    PROVE  ReviewInv'
<1>1. PICK unstarted, timedOut, silent \in Places \cup {Later}, head, quiet \in BOOLEAN :
          ClaimPending(w, unstarted, timedOut, silent, head, quiet)
  BY DEF Tick
<1>2. Due(NeverStarted, lane, unstarted) /\ said' = said
  BY <1>1 DEF ClaimPending
<1>3. PICK first, second, third, swept, made :
          /\ first = Closed(lane, unstarted) /\ second = TimedOut(first, timedOut)
          /\ third = Closed(second, silent)
          /\ swept = IF head THEN Resolved(third, third.cursor) ELSE third
          /\ made = Materialized(swept, quiet)
          /\ Due(HandoffTimedOut, first, timedOut) /\ Due(Abandoned, second, silent)
          /\ head => HeadHolds(third)
          /\ Flaw \/ flaws' = flaws
          /\ IF LeasableHead(made)
             THEN /\ lane' = LeasedTo(made, w)
                  /\ reviewer' = [reviewer EXCEPT ![w] = [doing |-> "claimed", id |-> made.at[made.cursor].id]]
             ELSE lane' = made /\ reviewer' = reviewer
          /\ \E retired : turn' = [i \in Passes |->
                                     IF i > lane.last THEN NewTurns(made)[i] ELSE Afterwards(made, retired)[i]]
  <2>1. \E first \in {Closed(lane, unstarted)} : Due(HandoffTimedOut, first, timedOut) /\
        \E second \in {TimedOut(first, timedOut)} : Due(Abandoned, second, silent) /\
        \E third \in {Closed(second, silent)} : (head => HeadHolds(third)) /\
        \E swept \in {IF head THEN Resolved(third, third.cursor) ELSE third} :
        \E made \in {Materialized(swept, quiet)} :
            /\ LeasableHead(made) \/ made # lane
            /\ TickEnds(w, made, {lane.at[p].id : p \in {unstarted, timedOut, silent} \ {Later}},
                        IF head THEN {third.at[third.cursor].id} ELSE {})
    BY <1>1 DEF ClaimPending, TickEnds
  <2>2. PICK first, second, third, swept, made, hit, kept :
            /\ first = Closed(lane, unstarted) /\ second = TimedOut(first, timedOut)
            /\ third = Closed(second, silent)
            /\ swept = IF head THEN Resolved(third, third.cursor) ELSE third
            /\ made = Materialized(swept, quiet)
            /\ Due(HandoffTimedOut, first, timedOut) /\ Due(Abandoned, second, silent)
            /\ head => HeadHolds(third)
            /\ TickEnds(w, made, hit, kept)
    BY ONLY <2>1
  <2>3. TickEnds(w, made, hit, kept)
    BY <2>2
  <2>4. /\ Flaw \/ flaws' = flaws
        /\ IF LeasableHead(made)
           THEN /\ lane' = LeasedTo(made, w)
                /\ reviewer' = [reviewer EXCEPT ![w] = [doing |-> "claimed", id |-> made.at[made.cursor].id]]
           ELSE lane' = made /\ reviewer' = reviewer
        /\ \E retired : turn' = [i \in Passes |->
                                   IF i > lane.last THEN NewTurns(made)[i] ELSE Afterwards(made, retired)[i]]
    BY ONLY <2>3 DEF TickEnds, LeasedTo
  <2>5. QED
    BY ONLY <2>2, <2>4
<1>4. LaneInv(first) /\ Keeps(lane, first)
  <2>1. unstarted = Later \/ (unstarted \in Places /\ Exists(lane, unstarted))
    BY <1>2 DEF Due, NeverStarted, Exists
  <2>2. QED
    BY <1>3, <2>1, ClosedLane DEF ReviewInv, Whole
<1>5. LaneInv(second) /\ Keeps(lane, second)
  <2>1. timedOut = Later \/ (timedOut \in Places /\ HandoffTimedOut(first, timedOut))
    BY <1>3 DEF Due, HandoffTimedOut, Exists
  <2>2. LaneInv(second) /\ Keeps(first, second)
    BY <1>3, <1>4, <2>1, TimedOutLane
  <2>3. QED
    BY <1>4, <2>2, KeepsOn
<1>6. LaneInv(third) /\ Keeps(lane, third)
  <2>1. silent = Later \/ (silent \in Places /\ Exists(second, silent))
    BY <1>3 DEF Due, Abandoned, Exists
  <2>2. LaneInv(third) /\ Keeps(second, third)
    BY <1>3, <1>5, <2>1, ClosedLane
  <2>3. QED
    BY <1>5, <2>2, KeepsOn
<1>7. LaneInv(swept) /\ Keeps(lane, swept)
  <2>1. CASE head
    <3>1. third.cursor \in Places /\ Exists(third, third.cursor) /\ swept = Resolved(third, third.cursor)
      BY <1>3, <2>1 DEF HeadHolds, LaneBlocked, Exists
    <3>2. LaneInv(swept) /\ Keeps(third, swept)
      BY <1>6, <3>1, ResolvedLane
    <3>3. QED
      BY <1>6, <3>2, KeepsOn
  <2>2. CASE ~head
    BY <1>3, <1>6, <2>2
  <2>3. QED
    BY <2>1, <2>2
<1>8. LaneInv(made) /\ Grows(swept, made)
  BY <1>3, <1>7, MaterializedLane DEF ReviewInv, Attending
<1>9. PICK retired : turn' = [i \in Passes |->
                                IF i > lane.last THEN NewTurns(made)[i] ELSE Afterwards(made, retired)[i]]
  BY <1>3
<1>10. turn' \in [Passes -> Turns] /\ TurnsFit(made, turn') /\ KindsFit(made, turn')
  <2>1. Whole
    BY DEF ReviewInv
  <2>2. QED
    BY ONLY <1>7, <1>8, <1>9, <2>1, MadeFits
<1>11. lane.last \in Nat /\ made.last \in Nat /\ lane.last <= made.last
  BY <1>7, <1>8, MemoryReviewConstants, LaneFields DEF Keeps, Grows, ReviewInv, Whole, LaneInv
<1>12. reviewer \in [Reviewers -> ReviewerType]
  BY DEF ReviewInv, Attending, ReviewerType
<1>13. CASE LeasableHead(made)
  <2>1. /\ lane' = LeasedTo(made, w)
        /\ reviewer' = [reviewer EXCEPT ![w] = [doing |-> "claimed", id |-> made.at[made.cursor].id]]
    BY <1>3, <1>13
  <2>2. /\ LaneInv(lane') /\ lane'.last = made.last
        /\ \A p \in Places :
                 /\ Exists(lane', p) <=> Exists(made, p)
                 /\ lane'.at[p].id = made.at[p].id /\ lane'.at[p].through = made.at[p].through
                 /\ lane'.at[p].kind = made.at[p].kind /\ lane'.at[p].eve = made.at[p].eve
    BY <1>8, <1>13, <2>1, LeasedLane
  <2>3. TurnsFit(lane', turn')
    BY <1>10, <2>2 DEF TurnsFit, ReadsOwnRow
  <2>4. KindsFit(lane', turn')
    BY <1>10, <2>2 DEF KindsFit
  <2>5. Whole'
    BY <1>10, <2>2, <2>3, <2>4 DEF Whole
  <2>6. made.at[made.cursor].id \in 1..made.last /\ made.last \in 0..MaxPasses
    BY <1>8, <1>13, LaneFields DEF LeasableHead, Exists, LaneInv, RowFits
  <2>7. reviewer' \in [Reviewers -> ReviewerType]
    <3>1. [doing |-> "claimed", id |-> made.at[made.cursor].id] \in ReviewerType
      BY <2>6, MemoryReviewConstants DEF ReviewerType
    <3>2. QED
      BY <1>12, <2>1, <3>1
  <2>8. \A v \in Reviewers : reviewer'[v].id = reviewer[v].id \/ reviewer'[v].id <= lane'.last
    <3> SUFFICES ASSUME NEW v \in Reviewers
                 PROVE  reviewer'[v].id = reviewer[v].id \/ reviewer'[v].id <= lane'.last
      OBVIOUS
    <3>1. CASE v = w
      <4>1. reviewer'[v].id = made.at[made.cursor].id
        BY <1>12, <2>1, <3>1
      <4>2. QED
        BY <1>11, <2>2, <2>6, <4>1
    <3>2. CASE v # w
      BY <1>12, <2>1, <3>2
    <3>3. QED
      BY <3>1, <3>2
  <2>9. Attending'
    BY <1>2, <1>3, <1>11, <2>2, <2>7, <2>8, AttendsOn
  <2>10. QED
    BY <2>5, <2>9 DEF ReviewInv
<1>14. CASE ~LeasableHead(made)
  <2>1. lane' = made /\ reviewer' = reviewer
    BY <1>3, <1>14
  <2>2. Whole'
    BY <1>8, <1>10, <2>1 DEF Whole
  <2>3. Attending'
    BY <1>2, <1>3, <1>8, <1>11, <2>1, AttendsStill
  <2>4. QED
    BY <2>2, <2>3 DEF ReviewInv
<1>15. QED
  BY <1>13, <1>14

-----------------------------------------------------------------------------
(* The review as a whole. *)

LEMMA ReviewKeeps == ReviewInv /\ [MemoryReviewNext]_memoryReviewVars => ReviewInv'
<1> SUFFICES ASSUME ReviewInv, [MemoryReviewNext]_memoryReviewVars PROVE ReviewInv'
  OBVIOUS
<1>1. CASE UNCHANGED memoryReviewVars
  BY <1>1, StillReviews
<1>2. CASE MessageArrives \/ ObservePassiveMessage \/ PrepareInteractiveTurn \/ ReviewersDie
  BY <1>2, MessageArrivesKeeps, ObservePassiveMessageKeeps, PrepareInteractiveTurnKeeps, ReviewersDieKeeps
<1>3. ASSUME NEW w \in Reviewers, Tick(w) \/ ReviewerStep(w) \/ DispatchMarkerLost(w) \/ HandOffUnanswered(w)
      PROVE  ReviewInv'
  <2>1. CASE Tick(w)
    BY <2>1, TickKeeps
  <2>2. CASE ReviewerStep(w)
    BY <2>2, PrepareSessionKeeps, FailClaimKeeps, MarkReviewDispatchKeeps, HandOffKeeps, MarkRunningKeeps
       DEF ReviewerStep
  <2>3. CASE DispatchMarkerLost(w) \/ HandOffUnanswered(w)
    BY <2>3, DispatchMarkerLostKeeps, HandOffUnansweredKeeps
  <2>4. QED
    BY <1>3, <2>1, <2>2, <2>3
<1>4. ASSUME NEW i \in Passes, TurnStep(i) PROVE ReviewInv'
  <2>1. CASE FailInteractivePreparation(i) \/ SendInteractiveTurn(i) \/ Remember(i) \/ ParkTurn(i) \/ ResumeTurn(i)
    BY <2>1, FailInteractivePreparationKeeps, SendInteractiveTurnKeeps, RememberKeeps, ParkTurnKeeps,
       ResumeTurnKeeps
  <2>2. CASE \E sourcesBound \in BOOLEAN : StartTurn(i, sourcesBound)
    BY <2>2, StartTurnKeeps
  <2>3. CASE TurnCompletes(i) \/ TurnFails(i) \/ TurnEndsUnheard(i) \/ EndRedelivered(i)
    BY <2>3, TurnCompletesKeeps, TurnFailsKeeps, TurnEndsUnheardKeeps, EndRedeliveredKeeps
  <2>4. CASE SessionFails(i) \/ SessionRotates(i)
    BY <2>4, SessionFailsKeeps, SessionRotatesKeeps
  <2>5. QED
    BY <1>4, <2>1, <2>2, <2>3, <2>4 DEF TurnStep
<1>5. QED
  BY <1>1, <1>2, <1>3, <1>4 DEF MemoryReviewNext

\* No two turns save from the same message.
LEMMA SavedApart == ReviewInv => SavedFromOnce
<1> SUFFICES ASSUME ReviewInv, NEW i \in Passes, NEW j \in Passes, i # j,
                    NEW m, m \in turn[i].wrote, m \in turn[j].wrote
             PROVE  FALSE
  BY DEF SavedFromOnce
<1>1. ReadsOwnRow(lane, i, turn[i]) /\ ReadsOwnRow(lane, j, turn[j])
  BY DEF ReviewInv, Whole, TurnsFit
<1>2. PICK p \in Places : /\ Exists(lane, p) /\ lane.at[p].id = i
                          /\ m \in (p + 1)..lane.at[p].through
  BY <1>1 DEF ReadsOwnRow
<1>3. PICK q \in Places : /\ Exists(lane, q) /\ lane.at[q].id = j
                          /\ m \in (q + 1)..lane.at[q].through
  BY <1>1 DEF ReadsOwnRow
<1>4. p # q /\ (p < q => lane.at[p].through <= q) /\ (q < p => lane.at[q].through <= p)
  BY <1>2, <1>3 DEF ReviewInv, Whole, LaneInv, RowsApart
<1>5. p \in Nat /\ q \in Nat /\ lane.at[p].through \in Nat /\ lane.at[q].through \in Nat
  BY <1>2, <1>3, MemoryReviewConstants DEF Places, ReviewInv, Whole, LaneInv, RowFits
<1>6. QED
  BY <1>2, <1>3, <1>4, <1>5

\* What stands where the next batch would go is a turn without its sources.
LEMMA OnlyManualInTheWay == ReviewInv => NextPlaceIsFree
<1> DEFINE place == CoveredThrough(lane)
<1> SUFFICES ASSUME ReviewInv, ~LaneBlocked(lane), Exists(lane, place) PROVE lane.at[place].manual
  BY DEF NextPlaceIsFree
<1>1. LaneInv(lane) /\ place \in Places
  BY DEF ReviewInv, Whole, Exists
<1>2. ~Covers(lane, place)
  BY <1>1, CoveredEnds
<1> HIDE DEF place
<1>3. lane.at[place].status \in Stuck
  BY <1>2 DEF Covers
<1>4. SUFFICES ASSUME ~lane.at[place].manual PROVE FALSE
  BY <1>1, BatchFields DEF LaneInv
<1>5. HandedOut(lane.at[place])
  BY <1>3, <1>4 DEF Stuck, HandedOut
<1>6. place = lane.cursor
  BY <1>1, <1>5 DEF LaneInv, RowFits
<1>7. QED
  BY <1>3, <1>6 DEF LaneBlocked

LEMMA ReviewIsRight == ReviewInv => ReviewStrandsAndRepeatsNothing
<1> SUFFICES ASSUME ReviewInv PROVE ReviewStrandsAndRepeatsNothing
  OBVIOUS
<1>1. RowsAhead(lane) /\ RowsApart(lane)
  BY DEF ReviewInv, Whole, LaneInv
<1>2. ChainIsWhole
  BY <1>1, OnlyManualInTheWay DEF ChainIsWhole, RowsAhead, RowsApart
<1>3. QED
  BY <1>2, SavedApart DEF ReviewStrandsAndRepeatsNothing

\* The chain of a lane stays whole, and every turn reads the messages of its own row,
\* whatever order messages, dispatchers, turns and failures come in.
THEOREM MemoryReviewInvariant == MemoryReviewSpec => []ReviewInv
<1>1. MemoryReviewInit => ReviewInv
  BY ReviewInitially
<1>2. ReviewInv /\ [MemoryReviewNext]_memoryReviewVars => ReviewInv'
  BY ReviewKeeps
<1>3. QED
  BY <1>1, <1>2, PTL DEF MemoryReviewSpec

\* The lane, its turns and its dispatchers keep their types, and only a batch in a
\* dispatcher's hands has a lease.
THEOREM MemoryReviewTypeCorrect == MemoryReviewSpec => []MemoryReviewTypeOK
BY MemoryReviewInvariant, ReviewTyped, PTL

\* No message is saved from by two turns, no unfinished batch is cut off from the
\* cursor, no two batches hold the same message, and only a turn without its sources
\* can stand where the next batch is put.
THEOREM ReviewStrandsAndRepeatsNothingCorrect ==
    MemoryReviewSpec => []ReviewStrandsAndRepeatsNothing
BY MemoryReviewInvariant, ReviewIsRight, PTL

-----------------------------------------------------------------------------
(* The schedules side by side. *)

\* Each schedule moves as its own specification says.
LEMMA SchedulesMoveAlone ==
    HouseholdSpec => RemindersSpec /\ ErrandsSpec /\ MemoryReviewSpec /\ VideosSpec
<1>1. HouseholdInit => RemindersInit /\ ErrandsInit /\ MemoryReviewInit /\ VideosInit
  BY DEF HouseholdInit
<1>2. [HouseholdNext]_householdVars =>
         [RemindersNext]_remindersVars /\ [ErrandsNext]_errandsVars
         /\ [MemoryReviewNext]_memoryReviewVars /\ [VideosNext]_videoVars
  BY DEF HouseholdNext, householdVars
<1> QED
  BY <1>1, <1>2, PTL DEF HouseholdSpec, RemindersSpec, ErrandsSpec, MemoryReviewSpec, VideosSpec

\* Every schedule keeps its types while the others rest.
THEOREM HouseholdTypesCorrect == HouseholdSpec => []HouseholdTypesOK
<1>1. RemindersTypeOK /\ ErrandsTypeOK /\ MemoryReviewTypeOK /\ VideosTypeOK => HouseholdTypesOK
  BY DEF HouseholdTypesOK
<1>2. QED
  BY <1>1, SchedulesMoveAlone, RemindersTypeCorrect, ErrandsTypeCorrect, MemoryReviewTypeCorrect,
     VideosTypeCorrect, PTL

\* What is promised of reminders, errands, the review of memory and paid videos is kept
\* in the household.
THEOREM HouseholdKeepsPromises ==
    HouseholdSpec => /\ []ReminderSentOnce /\ []RecordedReachesTimeline
                     /\ []ErrandDoneOnce /\ []ErrandIsAccountedFor
                     /\ []ReviewStrandsAndRepeatsNothing
                     /\ []PaidFromHold /\ []VideoShownOnce
BY SchedulesMoveAlone, ReminderSentOnceCorrect, RecordedReachesTimelineCorrect,
   ErrandDoneOnceCorrect, ErrandIsAccountedForCorrect, ReviewStrandsAndRepeatsNothingCorrect,
   PaidFromHoldCorrect, VideoShownOnceCorrect, PTL

=============================================================================
