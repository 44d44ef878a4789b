-------------------------------- MODULE Errands --------------------------------
(***************************************************************************)
(* An errand: one person asks the agent to look something up and to hand   *)
(* the result to another person of the family.                             *)
(*                                                                         *)
(*   agent/lib/errands/errand-repository.ts        intent and result       *)
(*   agent/lib/errands/errand-research-service.ts  the paid research       *)
(*   agent/lib/errands/errand-delivery.ts          one delivery            *)
(*   agent/lib/errands/errand-dispatcher.ts        the minute schedule     *)
(*                                                                         *)
(* Eve may repeat a tool call after a crash, so several callers research   *)
(* the same errand; a batch of the dispatcher may outlast the minute, so   *)
(* several couriers carry the same errand.  A result is written once, from *)
(* the state `preparing`, which is also the only one research starts from. *)
(***************************************************************************)
EXTENDS Integers

CONSTANTS
    Callers,            \* tool calls that may run at once
    Couriers,           \* deliveries that may run at once
    MaxErrandChanges,   \* bound: changes of access, settings and the ledger
    MaxErrandFaults     \* bound: crashes and failed calls

ASSUME ErrandConstants == MaxErrandChanges \in Nat /\ MaxErrandFaults \in Nat

VARIABLES
    errand,         \* the row of errands
    research,       \* the row of errand_research_runs
    caller,         \* the research calls
    paid,           \* history: requests the research provider was sent
    delivery,       \* the row of errand_deliveries
    courier,        \* the deliveries in progress
    handed,         \* history: messages the recipient may have got
    confirmed,      \* history: a courier that settles knows the message id
    access,         \* membership, origin, route and settings of the two people
    recipient,      \* what decideInitiative says of the recipient now
    stirs, troubles \* counters of the bounds

errandsVars == <<errand, research, caller, paid, delivery, courier, handed, confirmed,
                 access, recipient, stirs, troubles>>

ErrandsTypeOK ==
    /\ errand \in [state : {"none", "preparing", "ready", "queued", "sending", "sent", "failed",
                            "ambiguous", "cancelled"},
                   authorized : BOOLEAN, fresh : BOOLEAN]
    \* two CHECKs of the table: what leaves is authorised and has a result
    /\ errand.state \in {"queued", "sending", "sent", "ambiguous"} => errand.authorized
    /\ errand.state \in {"ready", "queued", "sending", "sent", "ambiguous"} => ~errand.fresh
    /\ research \in {"none", "started", "completed", "ambiguous"}
    /\ caller \in [Callers -> {"idle", "asking", "answered", "refused", "writing"}]
    /\ paid \in 0..2
    /\ delivery \in [state : {"none", "sending", "sent", "ambiguous"}, old : BOOLEAN]
    /\ courier \in [Couriers -> {"idle", "chosen", "posting", "known", "unknown"}]
    /\ handed \in 0..2
    /\ confirmed \in BOOLEAN
    /\ access \in BOOLEAN
    /\ recipient \in {"allowed", "muted", "waits"}
    /\ stirs \in 0..MaxErrandChanges
    /\ troubles \in 0..MaxErrandFaults

ErrandsInit ==
    /\ errand = [state |-> "none", authorized |-> FALSE, fresh |-> TRUE]
    /\ research = "none" /\ caller = [c \in Callers |-> "idle"] /\ paid = 0
    /\ delivery = [state |-> "none", old |-> FALSE]
    /\ courier = [w \in Couriers |-> "idle"]
    /\ handed = 0 /\ confirmed = FALSE
    /\ access = TRUE /\ recipient = "allowed"
    /\ stirs = 0 /\ troubles = 0

Trouble == troubles < MaxErrandFaults /\ troubles' = troubles + 1
AnotherOne(n) == IF n < 2 THEN n + 1 ELSE n

-----------------------------------------------------------------------------
(* The person who asks. fresh: the version of the row is still the first one. *)

CreateErrand(mode) ==
    /\ errand.state = "none" /\ access
    /\ errand' = [state |-> "preparing", authorized |-> mode = "send", fresh |-> TRUE]
    /\ UNCHANGED <<research, caller, paid, delivery, courier, handed, confirmed, access, recipient, stirs, troubles>>

\* nextErrandState: what is being sent or was sent cannot be taken back.
CancelErrand ==
    /\ errand.state \in {"preparing", "ready", "queued"} /\ access
    /\ errand' = [errand EXCEPT !.state = "cancelled", !.fresh = FALSE]
    /\ UNCHANGED <<research, caller, paid, delivery, courier, handed, confirmed, access, recipient, stirs, troubles>>

SendErrand ==
    /\ errand.state = "ready" /\ access
    /\ errand' = [errand EXCEPT !.state = "queued", !.authorized = TRUE]
    /\ UNCHANGED <<research, caller, paid, delivery, courier, handed, confirmed, access, recipient, stirs, troubles>>

-----------------------------------------------------------------------------
(* The research tool. *)

CallerAt(c, step) == caller' = [caller EXCEPT ![c] = step]

\* The claim is durable before the paid request; a claim without a result is
\* never asked again.
Unclaimed_Retried == research \in {"none", "started"} /\ errand.state = "preparing" /\ errand.fresh
Unclaimed == research = "none" /\ errand.state = "preparing" /\ errand.fresh
ClaimResearch(c) ==
    /\ caller[c] = "idle" /\ access
    /\ \/ /\ Unclaimed
          /\ research' = "started"
          /\ CallerAt(c, "asking")
       \/ /\ research = "completed"
          /\ CallerAt(c, "writing")
          /\ UNCHANGED research
    /\ UNCHANGED <<errand, paid, delivery, courier, handed, confirmed, access, recipient, stirs, troubles>>

AskProvider(c) ==
    /\ caller[c] = "asking"
    /\ paid' = AnotherOne(paid)
    /\ \/ CallerAt(c, "answered") /\ UNCHANGED troubles
       \/ Trouble /\ CallerAt(c, "refused")
    /\ UNCHANGED <<errand, research, delivery, courier, handed, confirmed, access, recipient, stirs>>

\* The result is kept apart from the errand first, or the run is given up.
Kept(c, state) ==
    /\ research' = IF research = "started" THEN state ELSE research
    /\ CallerAt(c, IF state = "completed" THEN "writing" ELSE "idle")
KeepResult(c) ==
    /\ \/ caller[c] = "answered" /\ Kept(c, "completed") /\ UNCHANGED troubles
       \/ caller[c] = "answered" /\ Trouble /\ Kept(c, "ambiguous")
       \/ caller[c] = "refused" /\ Kept(c, "ambiguous") /\ UNCHANGED troubles
    /\ UNCHANGED <<errand, paid, delivery, courier, handed, confirmed, access, recipient, stirs>>

\* The action `result` of the repository; a repeated call finds its operation.
WriteResult(c) ==
    /\ caller[c] = "writing"
    /\ errand' = IF errand.state = "preparing" /\ errand.fresh /\ access
                 THEN [errand EXCEPT !.state = IF errand.authorized THEN "queued" ELSE "ready",
                                     !.fresh = FALSE]
                 ELSE errand
    /\ CallerAt(c, "idle")
    /\ UNCHANGED <<research, paid, delivery, courier, handed, confirmed, access, recipient, stirs, troubles>>

CallerDies(c) ==
    /\ caller[c] # "idle" /\ Trouble
    /\ CallerAt(c, "idle")
    /\ UNCHANGED <<errand, research, paid, delivery, courier, handed, confirmed, access, recipient, stirs>>

-----------------------------------------------------------------------------
(* The dispatcher and its couriers. *)

CourierAt(w, step) == courier' = [courier EXCEPT ![w] = step]

\* An attempt older than two minutes is closed, never repeated.
CloseAbandoned ==
    /\ errand.state = "sending" /\ delivery.state = "sending" /\ delivery.old
    /\ delivery' = [delivery EXCEPT !.state = "ambiguous"]
    /\ errand' = [errand EXCEPT !.state = "ambiguous"]
    /\ UNCHANGED <<research, caller, paid, courier, handed, confirmed, access, recipient, stirs, troubles>>

\* The list of queued errands is read outside any transaction.
ChooseErrand(w) ==
    /\ courier[w] = "idle" /\ errand.state = "queued"
    /\ CourierAt(w, "chosen")
    /\ UNCHANGED <<errand, research, caller, paid, delivery, handed, confirmed, access, recipient, stirs, troubles>>

\* One transaction under the locks of both people and of the errand: it rejects,
\* leaves the errand for later, or writes the attempt before anything is sent.
Rejected == ~access \/ ~errand.authorized \/ recipient = "muted"
StartDelivery(w) ==
    /\ courier[w] = "chosen"
    /\ \/ /\ errand.state = "queued" /\ Rejected
          /\ errand' = [errand EXCEPT !.state = "failed"]
          /\ CourierAt(w, "idle") /\ UNCHANGED delivery
       \/ /\ errand.state = "queued" /\ ~Rejected /\ recipient = "allowed"
          /\ errand' = [errand EXCEPT !.state = "sending"]
          /\ delivery' = [state |-> "sending", old |-> FALSE]
          /\ CourierAt(w, "posting")
       \/ /\ errand.state # "queued" \/ (~Rejected /\ recipient = "waits")
          /\ CourierAt(w, "idle") /\ UNCHANGED <<errand, delivery>>
    /\ UNCHANGED <<research, caller, paid, handed, confirmed, access, recipient, stirs, troubles>>

\* The one request to Telegram.
PostErrand(w) ==
    /\ courier[w] = "posting"
    /\ \/ /\ handed' = AnotherOne(handed)
          /\ CourierAt(w, "known")
          /\ UNCHANGED troubles
       \/ /\ Trouble
          /\ handed' \in {handed, AnotherOne(handed)}
          /\ CourierAt(w, "unknown")
    /\ UNCHANGED <<errand, research, caller, paid, delivery, confirmed, access, recipient, stirs>>

\* The settlement also takes an attempt that was closed as abandoned meanwhile.
Settled_OnlySending(state) == state = "sending"
Settled(state) == state \in {"sending", "ambiguous"}
SettleDelivery(w) ==
    LET state == IF courier[w] = "known" THEN "sent" ELSE "ambiguous"
    IN  /\ courier[w] \in {"known", "unknown"}
        /\ delivery' = IF Settled(delivery.state) THEN [delivery EXCEPT !.state = state] ELSE delivery
        /\ errand' = IF Settled(errand.state) THEN [errand EXCEPT !.state = state] ELSE errand
        /\ confirmed' = (confirmed \/ courier[w] = "known")
        /\ CourierAt(w, "idle")
        /\ UNCHANGED <<research, caller, paid, handed, access, recipient, stirs, troubles>>

CourierDies(w) ==
    /\ courier[w] # "idle" /\ Trouble
    /\ CourierAt(w, "idle")
    /\ UNCHANGED <<errand, research, caller, paid, delivery, handed, confirmed, access, recipient, stirs>>

-----------------------------------------------------------------------------
AttemptAges ==
    /\ delivery.state = "sending" /\ ~delivery.old
    /\ delivery' = [delivery EXCEPT !.old = TRUE]
    /\ UNCHANGED <<errand, research, caller, paid, courier, handed, confirmed, access, recipient, stirs, troubles>>

\* Someone leaves, a space closes; the recipient mutes the agent, sleeps, has had
\* enough for today or answers again.
PeopleChange ==
    /\ stirs < MaxErrandChanges /\ stirs' = stirs + 1
    /\ \/ access' = FALSE /\ UNCHANGED recipient
       \/ recipient' \in {"allowed", "muted", "waits"} \ {recipient} /\ UNCHANGED access
    /\ UNCHANGED <<errand, research, caller, paid, delivery, courier, handed, confirmed, troubles>>

ResearchStep(c) == ClaimResearch(c) \/ AskProvider(c) \/ KeepResult(c) \/ WriteResult(c)
CourierStep(w) == ChooseErrand(w) \/ StartDelivery(w) \/ PostErrand(w) \/ SettleDelivery(w)

ErrandsNext ==
    \/ \E mode \in {"draft", "send"} : CreateErrand(mode)
    \/ CancelErrand \/ SendErrand \/ CloseAbandoned \/ AttemptAges \/ PeopleChange
    \/ \E c \in Callers : ResearchStep(c) \/ CallerDies(c)
    \/ \E w \in Couriers : CourierStep(w) \/ CourierDies(w)

ErrandsSpec == ErrandsInit /\ [][ErrandsNext]_errandsVars

\* The minute schedule keeps firing and carries what it has chosen.
ErrandsFairness ==
    /\ WF_errandsVars(CloseAbandoned) /\ WF_errandsVars(AttemptAges)
    /\ \A w \in Couriers : WF_errandsVars(CourierStep(w))

-----------------------------------------------------------------------------
(* Properties. *)

\* Nothing that costs or disturbs is repeated: the research of an errand is paid
\* once and its result is handed over at most once, whichever tool calls are
\* repeated, couriers overlap or crash.
ErrandDoneOnce == paid <= 1 /\ handed <= 1

\* The errand tells the truth about what the recipient got. An answer of Telegram
\* that arrives after the attempt was declared abandoned still counts, so an errand
\* whose message was confirmed is sent; and a message that may have been received
\* never belongs to an errand that was cancelled, rejected or still waits.
ErrandIsAccountedFor ==
    /\ confirmed => errand.state = "sent" /\ delivery.state = "sent"
    /\ handed > 0 => errand.state \in {"sending", "sent", "ambiguous"}

\* An errand does not stay in the queue, nor on its way, for ever, unless the
\* recipient's own settings make it wait.
ErrandLeavesQueue == []<>(errand.state \notin {"queued", "sending"} \/ recipient = "waits")

=============================================================================
