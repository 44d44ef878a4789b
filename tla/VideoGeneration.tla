---------------------------- MODULE VideoGeneration ----------------------------
(***************************************************************************)
(* A paid video: ordered by a tool call, produced by the provider within   *)
(* minutes, and brought to the chat by the minute schedule.                *)
(*                                                                         *)
(*   agent/lib/video-generation/video-generation-service.ts   start, resume*)
(*   agent/lib/video-generation/video-operation-repository.ts the order    *)
(*   agent/lib/video-generation/video-budget-repository.ts    the account  *)
(*   agent/lib/video-generation/video-completion-*.ts         the queue    *)
(*   agent/lib/workspaces/workspace-file-sender.ts            the file     *)
(*                                                                         *)
(* Eve repeats a tool call after a crash under the same operation key; the *)
(* minute schedule and a person who asks for the status resume the same    *)
(* order, and a lease of three minutes decides between them. The lease may *)
(* lapse under a slow pass, so every effect is checked once more against a *)
(* durable row: the order before it is paid, the receipt before the file   *)
(* is sent. Every video costs one unit; the account of a month is one      *)
(* person's.                                                               *)
(***************************************************************************)
EXTENDS Integers, FiniteSets

CONSTANTS
    Orders,         \* operation keys: the tool calls that start a video
    NoOrder,        \* not an order: a pass that rests
    VideoPasses,    \* resumptions that may run at once
    NoPass,         \* not a pass: an order nobody leases
    VideoLimit,     \* what a person may spend in a month, in videos
    MaxVideoFlaws   \* bound: crashes, failed calls, lapsed leases, refusals

ASSUME VideoConstants ==
    /\ IsFiniteSet(Orders) /\ NoOrder \notin Orders /\ NoPass \notin VideoPasses
    /\ VideoLimit \in Nat /\ MaxVideoFlaws \in Nat

VARIABLES
    calls,      \* the tool call that starts each order
    order,      \* the rows of video_generation_operations
    charge,     \* the rows of video_budget_reservations
    production, \* the provider's view of the last job of an order
    ordered,    \* history: jobs the provider may have taken for an order
    lease,      \* the completion lease of each order
    saved,      \* the video is recorded in the workspace
    fileReceipt, \* the rows of workspace_file_deliveries
    pass,       \* the resumptions in progress
    shown,      \* history: files the chat may have got for an order
    setbacks    \* counter of the bound

videoVars == <<calls, order, charge, production, ordered, lease, saved, fileReceipt, pass,
               shown, setbacks>>

RestingPass == [order |-> NoOrder, at |-> "idle", note |-> "none"]
Free == [holder |-> NoPass, live |-> FALSE]

VideoRow == [status : {"none", "started", "submitted", "completed", "ambiguous", "failed"},
             delivery : {"none", "pending", "delivered", "cancelled", "failed"}]
VideoLease == [holder : VideoPasses \cup {NoPass}, live : BOOLEAN]
VideoSlot == [order : Orders \cup {NoOrder},
              at : {"idle", "looking", "settling", "losing", "fetching", "writing", "completing",
                    "reserving", "checking", "sending", "noting", "ending"},
              note : {"none", "completed", "failed", "deferred", "delivered", "cancelled"}]
VideosShape ==
    /\ calls \in [Orders -> {"waiting", "checking", "accepted", "unknown", "rejected", "releasing", "done"}]
    /\ order \in [Orders -> VideoRow]
    /\ charge \in [Orders -> {"none", "held", "paid", "freed"}]
    /\ production \in [Orders -> {"none", "running", "completed", "failed"}]
    /\ ordered \in [Orders -> 0..2]
    /\ lease \in [Orders -> VideoLease]
    /\ saved \in [Orders -> BOOLEAN]
    /\ fileReceipt \in [Orders -> {"none", "started", "completed", "failed"}]
    /\ pass \in [VideoPasses -> VideoSlot]
    /\ shown \in [Orders -> 0..2]
    /\ setbacks \in 0..MaxVideoFlaws

\* A CHECK of the table, an order with a file is completed; and the account and the
\* order are written together.
VideosTypeOK ==
    /\ VideosShape
    /\ \A o \in Orders : /\ order[o].status = "completed" => saved[o]
                         /\ (order[o].status = "none") = (charge[o] = "none")

VideosInit ==
    /\ calls = [o \in Orders |-> "waiting"]
    /\ order = [o \in Orders |-> [status |-> "none", delivery |-> "none"]]
    /\ charge = [o \in Orders |-> "none"]
    /\ production = [o \in Orders |-> "none"] /\ ordered = [o \in Orders |-> 0]
    /\ lease = [o \in Orders |-> Free]
    /\ saved = [o \in Orders |-> FALSE]
    /\ fileReceipt = [o \in Orders |-> "none"]
    /\ pass = [p \in VideoPasses |-> RestingPass]
    /\ shown = [o \in Orders |-> 0]
    /\ setbacks = 0

Setback == setbacks < MaxVideoFlaws /\ setbacks' = setbacks + 1
OneMore(n) == IF n < 2 THEN n + 1 ELSE n

-----------------------------------------------------------------------------
(* The tool call that starts an order. *)

CallAt(o, step) == calls' = [calls EXCEPT ![o] = step]
StatusIs(o, status) == order' = [order EXCEPT ![o].status = status]

\* A reservation counts in full until the provider has named the cost.
Room == Cardinality({o \in Orders : charge[o] \in {"held", "paid"}}) < VideoLimit

\* The order and its place in the month's account are one transaction, serialised
\* by the account. A repeated call finds its order and only resumes it.
Fresh(o) == order[o].status = "none"
BeginOrder(o) ==
    /\ calls[o] = "waiting"
    /\ \/ /\ Fresh(o) /\ Room
          /\ order' = [order EXCEPT ![o] = [status |-> "started", delivery |-> "pending"]]
          /\ charge' = [charge EXCEPT ![o] = "held"]
          /\ CallAt(o, "checking")
       \/ /\ ~(Fresh(o) /\ Room)
          /\ CallAt(o, "done")
          /\ UNCHANGED <<order, charge>>
    /\ UNCHANGED <<production, ordered, lease, saved, fileReceipt, pass, shown, setbacks>>

\* The turn was cancelled or the access is gone before anything was paid.
WithdrawOrder(o) ==
    /\ calls[o] = "checking" /\ Setback
    /\ StatusIs(o, "failed") /\ CallAt(o, "releasing")
    /\ UNCHANGED <<charge, production, ordered, lease, saved, fileReceipt, pass, shown>>

\* The one paid request: accepted, rejected, or nobody knows.
SubmitOrder(o) ==
    /\ calls[o] = "checking"
    /\ \/ /\ CallAt(o, "accepted")
          /\ ordered' = [ordered EXCEPT ![o] = OneMore(@)]
          /\ production' = [production EXCEPT ![o] = "running"]
          /\ UNCHANGED setbacks
       \/ CallAt(o, "rejected") /\ UNCHANGED <<ordered, production, setbacks>>
       \/ /\ CallAt(o, "unknown") /\ Setback
          /\ \/ UNCHANGED <<ordered, production>>
             \/ /\ ordered' = [ordered EXCEPT ![o] = OneMore(@)]
                /\ production' = [production EXCEPT ![o] = "running"]
    /\ UNCHANGED <<order, charge, lease, saved, fileReceipt, pass, shown>>

\* What the service writes after the request: the job, a failure whose place in
\* the account is given back next, or that the outcome is unknown.
Verdict_AllGivenBack(step) ==
    CASE step = "accepted" -> [status |-> "submitted", next |-> "done"]
      [] step = "rejected" -> [status |-> "failed", next |-> "releasing"]
      [] step = "unknown" -> [status |-> "ambiguous", next |-> "releasing"]
Verdict(step) ==
    CASE step = "accepted" -> [status |-> "submitted", next |-> "done"]
      [] step = "rejected" -> [status |-> "failed", next |-> "releasing"]
      [] step = "unknown" -> [status |-> "ambiguous", next |-> "done"]
NoteVerdict(o) ==
    /\ calls[o] \in {"accepted", "rejected", "unknown"}
    /\ order[o].status = "started"
    /\ StatusIs(o, Verdict(calls[o]).status)
    /\ CallAt(o, Verdict(calls[o]).next)
    /\ UNCHANGED <<charge, production, ordered, lease, saved, fileReceipt, pass, shown, setbacks>>

ReleaseHold(o) ==
    /\ calls[o] = "releasing"
    /\ charge' = [charge EXCEPT ![o] = "freed"]
    /\ CallAt(o, "done")
    /\ UNCHANGED <<order, production, ordered, lease, saved, fileReceipt, pass, shown, setbacks>>

\* A crash or a failed write ends the call; Eve repeats it.
CallDies(o) ==
    /\ calls[o] \notin {"waiting", "done"} /\ Setback
    /\ CallAt(o, "waiting")
    /\ UNCHANGED <<order, charge, production, ordered, lease, saved, fileReceipt, pass, shown>>

\* cancel_delivery of the person who ordered: it takes the lease away.
CancelDelivery(o) ==
    /\ order[o].delivery = "pending"
    /\ order' = [order EXCEPT ![o].delivery = "cancelled"]
    /\ lease' = [lease EXCEPT ![o] = Free]
    /\ UNCHANGED <<calls, charge, production, ordered, saved, fileReceipt, pass, shown, setbacks>>

-----------------------------------------------------------------------------
(* The queue and the resumption of one order. *)

Resumable(o) == order[o].delivery = "pending" /\ order[o].status \in {"submitted", "completed"}
\* An order whose lease ran out may be taken.
Unheld_Untaken(o) == lease[o].holder = NoPass
Unheld(o) == ~lease[o].live

PassAt(p, step) == pass' = [pass EXCEPT ![p].at = step]
EndsWith(p, note) == pass' = [pass EXCEPT ![p].at = "ending", ![p].note = note]
Leaves(p) == pass' = [pass EXCEPT ![p] = RestingPass]

\* claim of the minute schedule, or claimOne of a status request.
ClaimOrder(p, o) ==
    /\ pass[p] = RestingPass /\ Resumable(o) /\ Unheld(o)
    /\ lease' = [lease EXCEPT ![o] = [holder |-> p, live |-> TRUE]]
    /\ pass' = [pass EXCEPT ![p] = [order |-> o, at |-> "looking", note |-> "none"]]
    /\ UNCHANGED <<calls, order, charge, production, ordered, saved, fileReceipt, shown, setbacks>>

HoldsOrder(p) == LET o == pass[p].order
            IN  Resumable(o) /\ lease[o] = [holder |-> p, live |-> TRUE]

\* The authorization that every effect is preceded by: the lease first, then the
\* person, the chat and the audience. A pass without its lease leaves silently.
Refusals == {"deferred", "cancelled", "failed"}
Refused(p) == \/ ~HoldsOrder(p) /\ Leaves(p) /\ UNCHANGED setbacks
              \/ HoldsOrder(p) /\ Setback /\ \E note \in Refusals : EndsWith(p, note)

\* The order is read and the provider asked. A provisional cost of a job that
\* still runs is ignored.
LookAtOrder(p) ==
    LET o == pass[p].order
    IN  /\ pass[p].at = "looking"
        /\ \/ Refused(p)
           \/ /\ HoldsOrder(p) /\ UNCHANGED setbacks
              /\ \/ order[o].status = "completed" /\ PassAt(p, "reserving")
                 \/ /\ order[o].status = "submitted" /\ production[o] = "running"
                    /\ EndsWith(p, "deferred")
                 \/ /\ order[o].status = "submitted" /\ production[o] \in {"completed", "failed"}
                    /\ pass' = [pass EXCEPT ![p].at = "settling", ![p].note = production[o]]
        /\ UNCHANGED <<calls, order, charge, production, ordered, lease, saved, fileReceipt, shown>>

\* The provider may leave the cost out; then the reservation stays. A failed job may
\* have cost something or nothing. Settling the same cost twice changes nothing, another
\* cost is a conflict; no lease is asked for.
SettleCost(p) ==
    LET o == pass[p].order
    IN  /\ pass[p].at = "settling"
        /\ \/ \E cost \in IF pass[p].note = "completed" THEN {"paid"} ELSE {"paid", "freed"} :
                  charge[o] \in {"held", cost} /\ charge' = [charge EXCEPT ![o] = cost]
           \/ UNCHANGED charge
        /\ PassAt(p, IF pass[p].note = "completed" THEN "fetching" ELSE "losing")
        /\ UNCHANGED <<calls, order, production, ordered, lease, saved, fileReceipt, shown, setbacks>>

\* `fail` of the repository: another pass may have written the same failure.
LoseJob(p) ==
    LET o == pass[p].order
    IN  /\ pass[p].at = "losing"
        /\ order' = IF order[o].status \in {"started", "submitted"}
                    THEN [order EXCEPT ![o].status = "failed"] ELSE order
        /\ EndsWith(p, "failed")
        /\ UNCHANGED <<calls, charge, production, ordered, lease, saved, fileReceipt, shown, setbacks>>

\* A file an earlier pass stored is found and not downloaded again. A download that
\* fails ends the pass like a refusal: deferred, or failed for a broken file.
FetchVideo(p) ==
    /\ pass[p].at = "fetching"
    /\ \/ Refused(p)
       \/ /\ HoldsOrder(p) /\ UNCHANGED setbacks
          /\ PassAt(p, IF saved[pass[p].order] THEN "completing" ELSE "writing")
    /\ UNCHANGED <<calls, order, charge, production, ordered, lease, saved, fileReceipt, shown>>

SaveVideo(p) ==
    /\ pass[p].at = "writing"
    /\ \/ Refused(p) /\ UNCHANGED saved
       \/ /\ HoldsOrder(p) /\ UNCHANGED setbacks
          /\ saved' = [saved EXCEPT ![pass[p].order] = TRUE]
          /\ PassAt(p, "completing")
    /\ UNCHANGED <<calls, order, charge, production, ordered, lease, fileReceipt, shown>>

\* `complete` of the repository: idempotent, refused to an order that failed.
CompleteOrder(p) ==
    LET o == pass[p].order
    IN  /\ pass[p].at = "completing"
        /\ IF order[o].status \in {"submitted", "completed"}
           THEN StatusIs(o, "completed") /\ PassAt(p, "reserving")
           ELSE EndsWith(p, "failed") /\ UNCHANGED order
        /\ UNCHANGED <<calls, charge, production, ordered, lease, saved, fileReceipt, shown, setbacks>>

Unsent_Unfinished(row) == row \in {"none", "started"}
Unsent(row) == row = "none"

\* One delivery key for all passes. Whoever finds an unfinished receipt cannot
\* know whether the chat has the file, and gives up.
ReserveFile(p) ==
    LET o == pass[p].order
    IN  /\ pass[p].at = "reserving"
        /\ \/ Refused(p) /\ UNCHANGED fileReceipt
           \/ /\ HoldsOrder(p) /\ UNCHANGED setbacks
              /\ \/ /\ Unsent(fileReceipt[o])
                    /\ fileReceipt' = [fileReceipt EXCEPT ![o] = "started"]
                    /\ PassAt(p, "checking")
                 \/ fileReceipt[o] = "completed" /\ EndsWith(p, "delivered") /\ UNCHANGED fileReceipt
                 \/ /\ ~Unsent(fileReceipt[o]) /\ fileReceipt[o] # "completed"
                    /\ EndsWith(p, "failed") /\ UNCHANGED fileReceipt
        /\ UNCHANGED <<calls, order, charge, production, ordered, lease, saved, shown>>

\* The last authorization. Whatever it refuses for closes the receipt, even a
\* reason that will pass.
LastCheck(p) ==
    /\ pass[p].at = "checking"
    /\ \/ Refused(p) /\ fileReceipt' = [fileReceipt EXCEPT ![pass[p].order] = "failed"]
       \/ HoldsOrder(p) /\ PassAt(p, "sending") /\ UNCHANGED <<fileReceipt, setbacks>>
    /\ UNCHANGED <<calls, order, charge, production, ordered, lease, saved, shown>>

SendFile(p) ==
    LET o == pass[p].order
        arrives == shown' = [shown EXCEPT ![o] = OneMore(@)]
    IN  /\ pass[p].at = "sending"
        /\ \/ arrives /\ PassAt(p, "noting") /\ UNCHANGED <<fileReceipt, setbacks>>
           \/ Setback /\ (arrives \/ UNCHANGED shown) /\ EndsWith(p, "failed") /\ UNCHANGED fileReceipt
           \/ /\ Setback /\ EndsWith(p, "failed")
              /\ fileReceipt' = [fileReceipt EXCEPT ![o] = "failed"] /\ UNCHANGED shown
        /\ UNCHANGED <<calls, order, charge, production, ordered, lease, saved>>

\* A receipt that cannot be written does not undo what Telegram has confirmed.
NoteReceipt(p) ==
    /\ pass[p].at = "noting"
    /\ \/ /\ fileReceipt' = [fileReceipt EXCEPT ![pass[p].order] = "completed"]
          /\ UNCHANGED setbacks
       \/ Setback /\ UNCHANGED fileReceipt
    /\ EndsWith(p, "delivered")
    /\ UNCHANGED <<calls, order, charge, production, ordered, lease, saved, shown>>

\* defer and finish compare the token, not the time: a lease that lapsed and was
\* not taken by another pass still ends the work.
MayEnd(p) == order[pass[p].order].delivery = "pending" /\ lease[pass[p].order].holder = p
EndPass(p) ==
    LET o == pass[p].order
    IN  /\ pass[p].at = "ending"
        /\ IF MayEnd(p)
           THEN /\ order' = IF pass[p].note = "deferred" THEN order
                            ELSE [order EXCEPT ![o].delivery = pass[p].note]
                /\ lease' = [lease EXCEPT ![o] = Free]
           ELSE UNCHANGED <<order, lease>>
        /\ Leaves(p)
        /\ UNCHANGED <<calls, charge, production, ordered, saved, fileReceipt, shown, setbacks>>

\* An error the code does not name: the order is tried again in a minute.
PassFails(p) ==
    /\ pass[p].at \notin {"idle", "noting", "ending"} \/ pass[p].note = "delivered"
    /\ Setback
    /\ EndsWith(p, "deferred")
    /\ UNCHANGED <<calls, order, charge, production, ordered, lease, saved, fileReceipt, shown>>

PassDies(p) ==
    /\ pass[p].at # "idle" /\ Setback
    /\ Leaves(p)
    /\ UNCHANGED <<calls, order, charge, production, ordered, lease, saved, fileReceipt, shown>>

-----------------------------------------------------------------------------
ProviderDecides(o) ==
    /\ production[o] = "running"
    /\ \E verdict \in {"completed", "failed"} : production' = [production EXCEPT ![o] = verdict]
    /\ UNCHANGED <<calls, order, charge, ordered, lease, saved, fileReceipt, pass, shown, setbacks>>

\* The three minutes are over; for a pass still at production this is a mishap.
LeaseLapses(o) ==
    /\ lease[o].live
    /\ lease' = [lease EXCEPT ![o].live = FALSE]
    /\ IF pass[lease[o].holder].order = o THEN Setback ELSE UNCHANGED setbacks
    /\ UNCHANGED <<calls, order, charge, production, ordered, saved, fileReceipt, pass, shown>>

CallStep(o) ==
    BeginOrder(o) \/ WithdrawOrder(o) \/ SubmitOrder(o) \/ NoteVerdict(o) \/ ReleaseHold(o)
PassStep(p) ==
    \/ \E o \in Orders : ClaimOrder(p, o)
    \/ LookAtOrder(p) \/ SettleCost(p) \/ LoseJob(p) \/ FetchVideo(p) \/ SaveVideo(p)
    \/ CompleteOrder(p) \/ ReserveFile(p) \/ LastCheck(p) \/ SendFile(p) \/ NoteReceipt(p)
    \/ EndPass(p)

VideosNext ==
    \/ \E o \in Orders : \/ CallStep(o) \/ CallDies(o) \/ CancelDelivery(o)
                         \/ ProviderDecides(o) \/ LeaseLapses(o)
    \/ \E p \in VideoPasses : PassStep(p) \/ PassFails(p) \/ PassDies(p)

VideosSpec == VideosInit /\ [][VideosNext]_videoVars

\* The minute schedule keeps claiming, a pass goes on, a lease runs out and the
\* provider decides about every job it took. Nobody is bound to order.
VideosFairness ==
    /\ \A p \in VideoPasses : WF_videoVars(PassStep(p))
    /\ \A o \in Orders : WF_videoVars(LeaseLapses(o)) /\ WF_videoVars(ProviderDecides(o))

-----------------------------------------------------------------------------
(* Properties. *)

\* A person is never charged behind the account: an order reaches the provider at
\* most once, whatever is repeated; while a job costs or may still cost money, its
\* place in the month's account is not given back, and the jobs of a month never
\* cost more than its limit (as long as the provider keeps to its quote).
Costs(o) == ordered[o] > 0 /\ production[o] # "failed"
PaidFromHold ==
    /\ \A o \in Orders : ordered[o] <= 1 /\ (Costs(o) => charge[o] \in {"held", "paid"})
    /\ Cardinality({o \in Orders : Costs(o)}) <= VideoLimit

\* The file reaches the chat at most once, although passes overlap, lapse and
\* crash, and the rows tell the truth about it: a delivered order and a completed
\* receipt have shown the file, a failed receipt never has, and only a finished
\* and recorded video is ever sent.
VideoShownOnce ==
    \A o \in Orders :
        /\ shown[o] <= 1
        /\ order[o].delivery = "delivered" \/ fileReceipt[o] = "completed" => shown[o] = 1
        /\ fileReceipt[o] = "failed" => shown[o] = 0
        /\ shown[o] > 0 => order[o].status = "completed" /\ production[o] = "completed"

\* An order the provider accepted does not stay in the queue for ever: its video
\* is delivered, given up, cancelled, or the job turns out to have failed.
VideoLeavesQueue == \A o \in Orders : []<>~Resumable(o)

=============================================================================
