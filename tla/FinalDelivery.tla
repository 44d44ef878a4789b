------------------------------ MODULE FinalDelivery ------------------------------
(***************************************************************************)
(* The no-resend barrier around the final answer of one turn.  Telegram    *)
(* has no idempotency key, so the intent is stored before the first send   *)
(* and a receipt after every chunk.                                        *)
(*                                                                         *)
(*   agent/lib/telegram-final-delivery-repository.ts   the outbox row      *)
(*   agent/lib/telegram-final-delivery.ts              the send loop       *)
(*   agent/channels/telegram.ts    message.completed and turn.failed       *)
(*                                                                         *)
(* An executor is one execution of the message.completed handler for the   *)
(* turn: Eve redelivers the event after a crash, and may do so while an    *)
(* earlier execution still runs (scripts/eve-runtime/workflow-transport).  *)
(* A delivery token is the executor that claimed the row: an executor      *)
(* claims at most once, so its token is as unique as the code's uuid.      *)
(***************************************************************************)
EXTENDS Naturals, FiniteSets

CONSTANTS
    Executors,   \* executions of message.completed for the turn
    None,        \* no token
    Chunks,      \* [rendering -> chunks]: "answer", its pre-v0.14 "legacy" form, "other"
    FailedTurns  \* executions of turn.failed for the turn

ASSUME ChunksAssumption == Chunks \in [{"answer", "legacy", "other"} -> Nat \ {0}]
ASSUME NoneAssumption == None \notin Executors

VARIABLES
    row,        \* telegram_final_deliveries: status, token, rendering
    receipts,   \* telegram_final_delivery_chunks: the confirmed ordinals
    pc,         \* where each executor is
    output,     \* the rendering each executor computed
    ordinal,    \* the chunk each executor is at
    definitive, \* the error each executor caught proves nothing was accepted
    notice,     \* where each turn.failed handler is
    shown,      \* what Telegram shows: how often each executor sent each chunk
    notices     \* failure messages shown

vars == <<row, receipts, pc, output, ordinal, definitive, notice, shown, notices>>

Ordinals == 0..(1 + Chunks["answer"] + Chunks["legacy"] + Chunks["other"])
Statuses == {"absent", "pending", "started", "delivered", "ambiguous", "failed"}

\* Types, and the row shape of migrations/055: a token exactly while started.
TypeOK ==
    /\ row \in [status : Statuses, token : Executors \cup {None}, rendering : DOMAIN Chunks]
    /\ row.status = "started" <=> row.token # None
    /\ receipts \subseteq Ordinals
    /\ pc \in [Executors -> {"idle", "suspend", "start", "send", "confirm", "complete",
                             "fail", "done", "dead"}]
    /\ output \in [Executors -> {"answer", "other"}]
    /\ ordinal \in [Executors -> Ordinals]
    /\ definitive \in [Executors -> BOOLEAN]
    /\ notice \in [FailedTurns -> {"idle", "post", "done"}]
    /\ shown \in [Executors -> [Ordinals -> Nat]]
    /\ notices \in Nat

\* The row is absent, or an unsent intent of a release before v0.14.
Init ==
    /\ row \in [status : {"absent"}, token : {None}, rendering : {"answer"}]
           \cup [status : {"pending"}, token : {None}, rendering : {"legacy"}]
    /\ receipts = {}
    /\ pc = [e \in Executors |-> "idle"]
    /\ output \in [Executors -> {"answer", "other"}]
    /\ ordinal = [e \in Executors |-> 0]
    /\ definitive = [e \in Executors |-> FALSE]
    /\ notice = [f \in FailedTurns |-> "idle"]
    /\ shown = [e \in Executors |-> [i \in Ordinals |-> 0]]
    /\ notices = 0

Sent(e) == {i \in Ordinals : shown[e][i] > 0}
Terminal == row.status \in {"delivered", "ambiguous", "failed"}

-----------------------------------------------------------------------------
(* The outbox row. *)

\* `INSERT ... ON CONFLICT DO NOTHING` of the intent.
Intended(e) ==
    IF row.status = "absent"
    THEN [status |-> "pending", token |-> None, rendering |-> output[e]]
    ELSE row

\* Mutation of Exact: the output hash is not compared.
Exact_Any(e, r) == TRUE

\* A replay must carry the stored rendering, or the current form of a legacy one.
Exact(e, r)  == r.rendering = output[e]
Legacy(e, r) == r.rendering = "legacy" /\ output[e] = "answer"

\* An unsent legacy intent adopts the current form before it is claimed.
Adopted(e, r) == IF Legacy(e, r) THEN output[e] ELSE r.rendering

\* Mutation of Startable: a delivery under way is claimed again.
Startable_Started(r) == r.status \in {"pending", "started"}

\* The claim of an unsent row.
Startable(r) == r.status = "pending"

\* Every later write of an executor is conditional on its token.
OwnsRow(e) == row.status = "started" /\ row.token = e

\* Mutation of Close: the token is not cleared.
Close_KeepsToken(r, status) == [r EXCEPT !.status = status]

\* Settling a row takes its token.
Close(r, status) == [r EXCEPT !.status = status, !.token = None]

-----------------------------------------------------------------------------
(* One execution of message.completed. *)

\* Another Eve session has replaced this one, the scheduled target does not match,
\* or the scheduled run may no longer deliver: nothing is stored or sent.
Ignore(e) ==
    /\ pc[e] = "idle"
    /\ pc' = [pc EXCEPT ![e] = "done"]
    /\ UNCHANGED <<row, receipts, output, ordinal, definitive, notice, shown, notices>>

\* The audience of the chat is proved, or it is not.
AuthorizeAudience(e) ==
    /\ pc[e] = "idle"
    /\ \E next \in {"start", "suspend"} : pc' = [pc EXCEPT ![e] = next]
    /\ UNCHANGED <<row, receipts, output, ordinal, definitive, notice, shown, notices>>

\* `suspend`: an unsent row is closed; a started or delivered one is left alone.
Suspend(e) ==
    /\ pc[e] = "suspend"
    /\ LET r == Intended(e) IN row' = IF r.status = "pending" THEN Close(r, "failed") ELSE r
    /\ pc' = [pc EXCEPT ![e] = "done"]
    /\ UNCHANGED <<receipts, output, ordinal, definitive, notice, shown, notices>>

\* `start` refuses a replay with another answer, and one of a settled row.
StartRefused(e) ==
    /\ pc[e] = "start"
    /\ \/ ~Exact(e, Intended(e)) /\ ~Legacy(e, Intended(e))
       \/ Terminal
    /\ pc' = [pc EXCEPT ![e] = "done"]
    /\ UNCHANGED <<row, receipts, output, ordinal, definitive, notice, shown, notices>>

\* `start` finds a delivery under way: its outcome is unknown for good.
StartAmbiguous(e) ==
    /\ pc[e] = "start"
    /\ Exact(e, row) \/ Legacy(e, row)
    /\ row.status = "started"
    /\ row' = Close(row, "ambiguous")
    /\ pc' = [pc EXCEPT ![e] = "done"]
    /\ UNCHANGED <<receipts, output, ordinal, definitive, notice, shown, notices>>

\* `start` claims the row.
Start(e) ==
    /\ pc[e] = "start"
    /\ Exact(e, Intended(e)) \/ Legacy(e, Intended(e))
    /\ Startable(Intended(e))
    /\ row' = [status |-> "started", token |-> e, rendering |-> Adopted(e, Intended(e))]
    /\ pc' = [pc EXCEPT ![e] = "send"]
    /\ UNCHANGED <<receipts, output, ordinal, definitive, notice, shown, notices>>

\* The chunk reaches the chat and Telegram's answer reaches the executor.
SendChunk(e) ==
    /\ pc[e] = "send"
    /\ shown' = [shown EXCEPT ![e][ordinal[e]] = @ + 1]
    /\ pc' = [pc EXCEPT ![e] = "confirm"]
    /\ UNCHANGED <<row, receipts, output, ordinal, definitive, notice, notices>>

\* Telegram rejects the chunk.
SendRejected(e) ==
    /\ pc[e] = "send"
    /\ definitive' = [definitive EXCEPT ![e] = TRUE]
    /\ pc' = [pc EXCEPT ![e] = "fail"]
    /\ UNCHANGED <<row, receipts, output, ordinal, notice, shown, notices>>

\* The request times out or breaks; the chunk may have reached the chat.
SendUnknown(e) ==
    /\ pc[e] = "send"
    /\ \E reached \in {0, 1} : shown' = [shown EXCEPT ![e][ordinal[e]] = @ + reached]
    /\ pc' = [pc EXCEPT ![e] = "fail"]
    /\ UNCHANGED <<row, receipts, output, ordinal, definitive, notice, notices>>

\* `confirmChunk`, then the next chunk.
NextOrdinal(e) == ordinal[e] + 1
AfterChunk(e) == IF NextOrdinal(e) < Chunks[output[e]] THEN "send" ELSE "complete"
ConfirmChunk(e) ==
    /\ pc[e] = "confirm"
    /\ OwnsRow(e)
    /\ ordinal[e] < Chunks[row.rendering]
    /\ receipts' = receipts \cup {ordinal[e]}
    /\ ordinal' = [ordinal EXCEPT ![e] = NextOrdinal(e)]
    /\ pc' = [pc EXCEPT ![e] = AfterChunk(e)]
    /\ UNCHANGED <<row, output, definitive, notice, shown, notices>>

\* The receipt is refused as stale, or the database answers with an error.
ConfirmFails(e) ==
    /\ pc[e] = "confirm"
    /\ pc' = [pc EXCEPT ![e] = "fail"]
    /\ UNCHANGED <<row, receipts, output, ordinal, definitive, notice, shown, notices>>

\* The receipt is stored but the answer of the database is lost.
ConfirmLost(e) ==
    /\ pc[e] = "confirm"
    /\ OwnsRow(e)
    /\ receipts' = receipts \cup {ordinal[e]}
    /\ pc' = [pc EXCEPT ![e] = "fail"]
    /\ UNCHANGED <<row, output, ordinal, definitive, notice, shown, notices>>

\* `complete` demands a receipt for every chunk.
AllConfirmed == Cardinality(receipts) = Chunks[row.rendering]
Complete(e) ==
    /\ pc[e] = "complete"
    /\ OwnsRow(e) /\ AllConfirmed
    /\ row' = Close(row, "delivered")
    /\ pc' = [pc EXCEPT ![e] = "done"]
    /\ UNCHANGED <<receipts, output, ordinal, definitive, notice, shown, notices>>

\* The row was taken away, or the database answers with an error: applied or not.
CompleteFails(e) ==
    /\ pc[e] = "complete"
    /\ \/ row' = row
       \/ OwnsRow(e) /\ AllConfirmed /\ row' = Close(row, "delivered")
    /\ pc' = [pc EXCEPT ![e] = "fail"]
    /\ UNCHANGED <<receipts, output, ordinal, definitive, notice, shown, notices>>

\* Mutation of Outcome: an unknown outcome is taken for a delivery.
Outcome_Optimistic(e) == IF definitive[e] THEN "failed" ELSE "delivered"

\* `fail`: a definitive rejection fails the row, anything else is ambiguous.
Outcome(e) == IF definitive[e] THEN "failed" ELSE "ambiguous"
Fail(e) ==
    /\ pc[e] = "fail"
    /\ row' = IF OwnsRow(e) THEN Close(row, Outcome(e)) ELSE row
    /\ pc' = [pc EXCEPT ![e] = "done"]
    /\ UNCHANGED <<receipts, output, ordinal, definitive, notice, shown, notices>>

\* The process dies, or the database is away while the row is started or failed.
Die(e) ==
    /\ pc[e] \notin {"idle", "done", "dead"}
    /\ pc' = [pc EXCEPT ![e] = "dead"]
    /\ UNCHANGED <<row, receipts, output, ordinal, definitive, notice, shown, notices>>

-----------------------------------------------------------------------------
(* turn.failed: a failed turn tells the person so, unless an answer may be visible. *)

\* Mutation of Suppressed: only a completed delivery counts as visible.
Suppressed_Delivered == row.status = "delivered"

\* `shouldSuppressFailureMessage`: the final send may be visible.
Suppressed == row.status \in {"started", "delivered", "ambiguous"}

CheckSuppression(f) ==
    /\ notice[f] = "idle"
    /\ notice' = [notice EXCEPT ![f] = IF Suppressed THEN "done" ELSE "post"]
    /\ UNCHANGED <<row, receipts, pc, output, ordinal, definitive, shown, notices>>

PostFailure(f) ==
    /\ notice[f] = "post"
    /\ notices' = notices + 1
    /\ notice' = [notice EXCEPT ![f] = "done"]
    /\ UNCHANGED <<row, receipts, pc, output, ordinal, definitive, shown>>

-----------------------------------------------------------------------------

Execute(e) ==
    \/ Ignore(e) \/ AuthorizeAudience(e) \/ Suspend(e)
    \/ StartRefused(e) \/ StartAmbiguous(e) \/ Start(e)
    \/ SendChunk(e) \/ SendRejected(e) \/ SendUnknown(e)
    \/ ConfirmChunk(e) \/ ConfirmFails(e) \/ ConfirmLost(e)
    \/ Complete(e) \/ CompleteFails(e) \/ Fail(e)
    \/ Die(e)

Next ==
    \/ \E e \in Executors : Execute(e)
    \/ \E f \in FailedTurns : CheckSuppression(f) \/ PostFailure(f)

Spec == Init /\ [][Next]_vars

-----------------------------------------------------------------------------
(* What the barrier promises. *)

\* Whatever is redelivered, in whatever order executions overlap or die, only one
\* of them ever sends, and it sends a prefix of the chunks, each once.
SentOnce ==
    /\ \A e1, e2 \in Executors : Sent(e1) # {} /\ Sent(e2) # {} => e1 = e2
    /\ \A e \in Executors, i \in Ordinals : shown[e][i] <= 1

\* The chunks of a long answer never leave a gap in the chat.
SentInOrder ==
    \A e \in Executors : \A i \in Sent(e) : 0..i \subseteq Sent(e)

\* At most one chunk the chat may show has no receipt: what an operator has to
\* check by hand after an ambiguous outcome.
OneUnreceipted ==
    Cardinality({p \in Executors \X Ordinals : p[2] \in Sent(p[1]) \ receipts}) <= 1

\* A delivered row has been shown whole, and every chunk of it has its receipt.
DeliveredIsShown ==
    row.status = "delivered" =>
        /\ receipts = 0..(Chunks[row.rendering] - 1)
        /\ \E e \in Executors : Sent(e) = receipts

\* The receipts tell what the chat shows: whatever dies and whatever answer is lost,
\* they miss one chunk at most, and none of a delivered row.
ReceiptsAreTrue == OneUnreceipted /\ DeliveredIsShown

\* What is sent is what was stored: a replay that computed another answer sends
\* nothing.
SentAsIntended == \A e \in Executors : Sent(e) # {} => row.rendering = output[e]

\* A settled delivery keeps its outcome.
SettledForever == [][Terminal => row' = row]_vars

\* A failed turn is announced below a visible part of its answer only when Telegram has
\* refused the next chunk for certain: never while more of the answer may come, never
\* when what the person sees may be all of it or nobody knows (shouldSuppressFailureMessage
\* reads one row for whatever executions there were).
NoNoticeBelowAnswer ==
    [][\A f \in FailedTurns, e \in Executors :
          notice[f] = "idle" /\ notice'[f] = "post" /\ Sent(e) # {}
              => definitive[e] /\ Sent(e) # 0..(Chunks[output[e]] - 1)]_vars

=============================================================================
