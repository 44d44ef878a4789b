------------------------------ MODULE MemoryReview ------------------------------
(***************************************************************************)
(* Memory review: the messages of a chat are read once by a turn that may  *)
(* save something of them. A lane has a cursor, and batches chained behind *)
(* it by the place they begin at.                                          *)
(*                                                                         *)
(*   agent/lib/memory-review/memory-review-repository.ts                   *)
(*   agent/lib/memory-review/memory-review-dispatch-repository.ts          *)
(*   agent/lib/memory-review/memory-review-dispatch-terminal-repository.ts *)
(*   agent/lib/memory-review/memory-review-terminal-repository.ts          *)
(*   agent/lib/memory-review/memory-review-dispatcher.ts                   *)
(*   agent/lib/memory-turn-source-repository.ts                            *)
(*   agent/channels/memory-review.ts, agent/channels/telegram.ts           *)
(*                                                                         *)
(* One lane of a group. A background batch is dispatched to a silent turn  *)
(* of its own; an interactive one rides on the turn that answers a person. *)
(* A batch knows its predecessor, which is unique in the lane: the batches *)
(* are a function of that place.                                           *)
(***************************************************************************)
EXTENDS Integers, FiniteSets

CONSTANTS
    Reviewers,          \* runs of the minute dispatcher that can overlap
    LaneMessages,       \* bound: messages that arrive
    PassSize,           \* MEMORY_REVIEW_BATCH_SIZE
    RidingMinimum,      \* MEMORY_REVIEW_INTERACTIVE_MIN_SOURCES
    MaxPasses,          \* bound: batches that are ever inserted
    MaxReviewFlaws,     \* bound: failures of turns, calls and processes
    Nobody

ASSUME MemoryReviewConstants ==
    /\ LaneMessages \in Nat \ {0} /\ PassSize \in Nat \ {0} /\ RidingMinimum \in Nat \ {0}
    /\ MaxPasses \in Nat \ {0} /\ MaxReviewFlaws \in Nat /\ Nobody \notin Reviewers

VARIABLES
    said,       \* messages of the group so far, numbered from 1
    lane,       \* [cursor, last: id of the newest batch, at: the batches by predecessor]
    turn,       \* the Eve turns, by the batch they review
    reviewer,   \* what each run of the dispatcher is doing, and with which batch
    flaws       \* counter of the bound

memoryReviewVars == <<said, lane, turn, reviewer, flaws>>

Places == 0..(LaneMessages - 1)
Passes == 1..MaxPasses
Messages == 1..LaneMessages
Batches ==
    [id : 0..MaxPasses, kind : {"none", "background", "interactive"},
     status : {"none", "pending", "leased", "dispatching", "running",
               "completed", "skipped", "failed", "ambiguous"},
     through : 0..LaneMessages, eve : {"none", "session", "turn"},
     retried : BOOLEAN, holder : Reviewers \cup {Nobody}, manual : BOOLEAN]
Turns ==
    [kind : {"none", "background", "interactive"},
     phase : {"none", "prepared", "sent", "active", "parked", "resumed", "completed", "failed", "gone"},
     session : {"none", "fresh", "bound", "retired"},
     sources : SUBSET Messages, wrote : SUBSET Messages]

MemoryReviewTypeOK ==
    /\ said \in 0..LaneMessages
    /\ lane \in [cursor : 0..LaneMessages, last : 0..MaxPasses, at : [Places -> Batches]]
    \* only a batch in the dispatcher's hands has a lease
    /\ \A p \in Places : lane.at[p].holder # Nobody => lane.at[p].status \in {"leased", "dispatching"}
    /\ turn \in [Passes -> Turns]
    /\ reviewer \in [Reviewers ->
           [doing : {"idle", "claimed", "prepared", "marked", "sent"}, id : 0..MaxPasses]]
    /\ flaws \in 0..MaxReviewFlaws

NoBatch == [id |-> 0, kind |-> "none", status |-> "none", through |-> 0, eve |-> "none",
            retried |-> FALSE, holder |-> Nobody, manual |-> FALSE]
NoTurn == [kind |-> "none", phase |-> "none", session |-> "none", sources |-> {}, wrote |-> {}]
Resting == [doing |-> "idle", id |-> 0]

MemoryReviewInit ==
    /\ said = 0
    /\ lane = [cursor |-> 0, last |-> 0, at |-> [p \in Places |-> NoBatch]]
    /\ turn = [i \in Passes |-> NoTurn]
    /\ reviewer = [w \in Reviewers |-> Resting]
    /\ flaws = 0

Flaw == flaws < MaxReviewFlaws /\ flaws' = flaws + 1

-----------------------------------------------------------------------------
(* The chain. *)

Exists(L, p) == p \in Places /\ L.at[p].status # "none"
Stuck == {"failed", "ambiguous"}
Through(L, p) == p \in Places /\ L.at[p].status \in {"completed", "skipped"}
Covers(L, p) == Exists(L, p) /\ L.at[p].status \notin Stuck

\* advanceCompletedChain: the cursor passes over everything that is finished.
Advanced(L) ==
    LET Walk[p \in 0..LaneMessages] == IF Through(L, p) THEN Walk[L.at[p].through] ELSE p
    IN  [L EXCEPT !.cursor = Walk[@]]

\* coveredThrough: the place a new batch is put behind.
CoveredThrough(L) ==
    LET Walk[p \in 0..LaneMessages] == IF Covers(L, p) THEN Walk[L.at[p].through] ELSE p
    IN  Walk[L.cursor]
LaneBlocked(L) == Exists(L, L.cursor) /\ L.at[L.cursor].status \in Stuck

\* insertBatch: the next Size messages behind p; the predecessor is unique.
CanInsert(L, p) == ~Exists(L, p) /\ L.last < MaxPasses
Inserted(L, p, size, kind) ==
    [L EXCEPT !.last = @ + 1,
              !.at[p] = [NoBatch EXCEPT !.id = L.last + 1, !.kind = kind, !.through = p + size,
                             !.status = IF kind = "background" THEN "pending" ELSE "running"]]

HasRow(i) == \E p \in Places : lane.at[p].id = i
PlaceOf(i) == CHOOSE p \in Places : lane.at[p].id = i
Row(i) == lane.at[PlaceOf(i)]
SetRow(i, row) == [lane EXCEPT !.at[PlaceOf(i)] = row]
Loose(row, status) == [row EXCEPT !.status = status, !.holder = Nobody]

\* resolveAbandonedReviewBatch: what the turn of a lost batch wrote counts; if it
\* wrote nothing its messages are given back, unless a batch stands behind it.
Wrote(row) == row.eve = "turn" /\ turn[row.id].wrote # {}
Outcome_SuccessorIgnored(L, p) == IF Wrote(L.at[p]) THEN "completed" ELSE "released"
Outcome(L, p) == CASE Wrote(L.at[p]) -> "completed"
                   [] ~Wrote(L.at[p]) /\ Exists(L, L.at[p].through) -> "skipped"
                   [] OTHER -> "released"
Resolved(L, p) ==
    IF Outcome(L, p) = "released"
    THEN [L EXCEPT !.at[p] = NoBatch]
    ELSE Advanced([L EXCEPT !.at[p] = Loose(@, Outcome(L, p))])

\* A row that is deleted takes the source set of its turn with it (ON DELETE
\* CASCADE), so the turn has nothing left it may write from. The sessions of the
\* given batches are retired.
Afterwards(L, retired) ==
    [i \in Passes |->
        [turn[i] EXCEPT
            !.sources = IF HasRow(i) /\ \A p \in Places : L.at[p].id # i THEN {} ELSE @,
            !.session = IF i \in retired THEN "retired" ELSE @]]

Background(i) == turn[i].kind = "background"
Open(i) == turn[i].session \in {"fresh", "bound"}

-----------------------------------------------------------------------------
(* Messages, and the batches that are made of them. *)

MessageArrives ==
    /\ said < LaneMessages
    /\ said' = said + 1
    /\ UNCHANGED <<lane, turn, reviewer, flaws>>

\* The turn of a new batch: an interactive one has the open session of the chat.
NewTurns(L) ==
    [i \in Passes |->
        IF i \notin (lane.last + 1)..L.last THEN turn[i]
        ELSE IF \E p \in Places : L.at[p].id = i /\ L.at[p].kind = "interactive"
             THEN [NoTurn EXCEPT !.kind = "interactive", !.phase = "prepared", !.session = "fresh"]
             ELSE [NoTurn EXCEPT !.kind = "background"]]

\* A message nobody addressed to the agent may complete a portion.
ObservePassiveMessage ==
    LET place == CoveredThrough(lane)
    IN  /\ ~LaneBlocked(lane)
        /\ said - place >= PassSize /\ CanInsert(lane, place)
        /\ lane' = Inserted(lane, place, PassSize, "background")
        /\ turn' = NewTurns(lane')
        /\ UNCHANGED <<said, reviewer, flaws>>

\* A message for the agent takes the unread tail along; complete portions before
\* it become background batches first.
Portions(L, n) ==
    LET Cut[k \in 0..n] ==
            IF k = 0 THEN L
            ELSE Inserted(Cut[k - 1], CoveredThrough(L) + (k - 1) * PassSize, PassSize, "background")
    IN  Cut[n]
PrepareInteractiveTurn ==
    LET place == CoveredThrough(lane)
        n     == (said - place - 1) \div PassSize
        cut   == Portions(lane, n)
        tail  == said - place - n * PassSize
    IN  /\ ~LaneBlocked(lane) /\ said > place
        /\ CanInsert(lane, place) /\ lane.last + n < MaxPasses
        /\ n > 0 \/ tail >= RidingMinimum
        /\ lane' = IF tail >= RidingMinimum
                   THEN Inserted(cut, place + n * PassSize, tail, "interactive") ELSE cut
        /\ turn' = NewTurns(lane')
        /\ UNCHANGED <<said, reviewer, flaws>>

\* The context of the turn cannot be composed.
FailInteractivePreparation(i) ==
    /\ turn[i].phase = "prepared" /\ Flaw
    /\ lane' = IF HasRow(i) /\ Row(i).status = "running" /\ Row(i).eve = "none"
               THEN Resolved(lane, PlaceOf(i)) ELSE lane
    /\ turn' = [Afterwards(lane', {}) EXCEPT ![i].phase = "gone"]
    /\ UNCHANGED <<said, reviewer>>

SendInteractiveTurn(i) ==
    /\ turn[i].phase = "prepared"
    /\ turn' = [turn EXCEPT ![i].phase = "sent"]
    /\ UNCHANGED <<said, lane, reviewer, flaws>>

-----------------------------------------------------------------------------
(* claimPending: one transaction of the minute dispatcher. It closes what has *)
(* waited too long, makes a batch at a cursor that has none, and leases one.  *)

NeverStarted(L, p) == Exists(L, p) /\ L.at[p].kind = "interactive"
                        /\ L.at[p].status = "running" /\ L.at[p].eve = "none"
HandoffTimedOut(L, p) == Exists(L, p) /\ L.at[p].status = "dispatching"
\* The bound of an hour is far above the work of any turn, but it counts from the
\* start: a turn that waits for a person's answer is left alone, and as soon as the
\* answer comes it may be taken for abandoned.
Abandoned(L, p) == Exists(L, p) /\ L.at[p].status = "running" /\ L.at[p].eve # "none"
                     /\ turn[L.at[p].id].phase # "active"
                     /\ (turn[L.at[p].id].phase = "parked" => ~Open(L.at[p].id))
HeadHolds(L) == LaneBlocked(L) /\ ~L.at[L.cursor].manual

Later == LaneMessages   \* no batch at all: nothing is due
Due(Is(_, _), L, p) == p = Later \/ Is(L, p)
TimedOut(L, p) == IF p = Later THEN L ELSE [L EXCEPT !.at[p] = Loose(@, "ambiguous")]
Closed(L, p) == IF p = Later THEN L ELSE Resolved(L, p)

\* materializeReadyBatches and materializeIdleBatches
Tail(L) == IF said - L.cursor < PassSize THEN said - L.cursor ELSE PassSize
Materialized(L, quiet) ==
    IF ~Exists(L, L.cursor) /\ L.last < MaxPasses /\ Tail(L) > 0 /\ (quiet \/ Tail(L) = PassSize)
    THEN Inserted(L, L.cursor, Tail(L), "background") ELSE L

LeasableHead(L) == Exists(L, L.cursor) /\ L.at[L.cursor].kind = "background"
                  /\ L.at[L.cursor].status \in {"pending", "leased"}
InHand(i) == \E w \in Reviewers : reviewer[w].id = i
Working(i) == turn[i].phase \in {"prepared", "sent", "active", "resumed"} \/ InHand(i)

ClaimPending(w, unstarted, timedOut, silent, head, quiet) ==
    /\ reviewer[w] = Resting /\ Due(NeverStarted, lane, unstarted)
    /\ \E first \in {Closed(lane, unstarted)} : Due(HandoffTimedOut, first, timedOut) /\
       \E second \in {TimedOut(first, timedOut)} : Due(Abandoned, second, silent) /\
       \E third \in {Closed(second, silent)} : (head => HeadHolds(third)) /\
       \E swept \in {IF head THEN Resolved(third, third.cursor) ELSE third} :
       \E made \in {Materialized(swept, quiet)} :
       LET row    == made.at[made.cursor]
           hit    == {lane.at[p].id : p \in {unstarted, timedOut, silent} \ {Later}}
           reaped == hit \cup (IF head THEN {third.at[third.cursor].id} ELSE {})
       IN  /\ LeasableHead(made) \/ made # lane
           \* a bound that runs out on something still at work counts as a failure
           /\ IF \/ \E i \in hit : Working(i)
                 \/ LeasableHead(made) /\ row.status = "leased" /\ InHand(row.id)
              THEN Flaw ELSE UNCHANGED flaws
           /\ IF LeasableHead(made)
              THEN /\ lane' = [made EXCEPT !.at[made.cursor].status = "leased",
                                           !.at[made.cursor].holder = w]
                   /\ reviewer' = [reviewer EXCEPT ![w] = [doing |-> "claimed", id |-> row.id]]
              ELSE lane' = made /\ UNCHANGED reviewer
           /\ turn' = [i \in Passes |->
                          IF i > lane.last THEN NewTurns(made)[i]
                          ELSE Afterwards(made, {j \in reaped : Background(j)})[i]]
    /\ UNCHANGED said

-----------------------------------------------------------------------------
(* dispatchOne *)

Doing(w, step) == reviewer' = [reviewer EXCEPT ![w].doing = step]
Rests(w) == reviewer' = [reviewer EXCEPT ![w] = Resting]
HasBatch(w, statuses) == LET i == reviewer[w].id
                      IN  HasRow(i) /\ Row(i).status \in statuses /\ Row(i).holder = w

PrepareSession(w) ==
    LET i == reviewer[w].id
    IN  /\ reviewer[w].doing = "claimed" /\ turn[i].session \in {"none", "fresh"}
        /\ turn' = [turn EXCEPT ![i].session = "fresh"]
        /\ Doing(w, "prepared")
        /\ UNCHANGED <<said, lane, flaws>>

\* failClaim: the one retry, before Eve has anything.
FailClaim(w) ==
    LET i == reviewer[w].id
    IN  /\ reviewer[w].doing = "claimed"
        /\ IF turn[i].session \in {"none", "fresh"} THEN Flaw ELSE UNCHANGED flaws
        /\ lane' = IF ~HasBatch(w, {"leased"}) THEN lane
                   ELSE IF Row(i).retried THEN SetRow(i, Loose(Row(i), "failed"))
                   ELSE SetRow(i, [Loose(Row(i), "pending") EXCEPT !.retried = TRUE])
        /\ Rests(w)
        /\ UNCHANGED <<said, turn>>

Marked(w) == IF HasBatch(w, {"leased"})
             THEN SetRow(reviewer[w].id, [Row(reviewer[w].id) EXCEPT !.status = "dispatching"])
             ELSE lane
MarkReviewDispatch(w) ==
    /\ reviewer[w].doing = "prepared"
    /\ lane' = Marked(w)
    /\ IF HasBatch(w, {"leased"}) THEN Doing(w, "marked") ELSE Rests(w)
    /\ UNCHANGED <<said, turn, flaws>>

\* markAmbiguous, if the batch is still the reviewer's own.
Unsure(w, L) ==
    LET i == reviewer[w].id
        mine == \E p \in Places : L.at[p].id = i /\ L.at[p].holder = w
                                     /\ L.at[p].status \in {"leased", "dispatching"}
    IN  /\ lane' = IF mine THEN [L EXCEPT !.at[PlaceOf(i)] = Loose(@, "ambiguous")] ELSE L
        /\ turn' = IF mine THEN [turn EXCEPT ![i].session = "retired"] ELSE turn

\* The answer to the mark is lost, whether or not it was written.
DispatchMarkerLost(w) ==
    /\ reviewer[w].doing = "prepared" /\ Flaw
    /\ \E L \in {lane, Marked(w)} : Unsure(w, L)
    /\ Rests(w)
    /\ UNCHANGED said

HandOff(w) ==
    /\ reviewer[w].doing = "marked"
    /\ turn' = [turn EXCEPT ![reviewer[w].id].phase = "sent"]
    /\ Doing(w, "sent")
    /\ UNCHANGED <<said, lane, flaws>>
\* Eve does not answer the hand-off; it may have taken it.
HandOffUnanswered(w) ==
    /\ reviewer[w].doing \in {"marked", "sent"} /\ Flaw
    /\ Unsure(w, lane)
    /\ Rests(w)
    /\ UNCHANGED said

MarkRunning(w) ==
    LET i == reviewer[w].id
    IN  /\ reviewer[w].doing = "sent"
        /\ lane' = IF HasBatch(w, {"dispatching"})
                   THEN SetRow(i, [Loose(Row(i), "running") EXCEPT !.eve = "session"]) ELSE lane
        /\ Rests(w)
        /\ UNCHANGED <<said, turn, flaws>>

ReviewersDie ==
    /\ \E w \in Reviewers : reviewer[w] # Resting
    /\ Flaw
    /\ reviewer' = [w \in Reviewers |-> Resting]
    /\ UNCHANGED <<said, lane, turn>>

-----------------------------------------------------------------------------
(* The turn in Eve. *)

\* turn.started: the session and the batch are bound, then the sources. An error
\* of a handler does not stop the turn; without sources it cannot write.
StartTurn(i, sourcesBound) ==
    LET binds == Open(i) /\ HasRow(i) /\ Row(i).status \in {"dispatching", "running"}
                   /\ Row(i).eve # "turn"
    IN  /\ turn[i].phase = "sent"
        /\ IF sourcesBound THEN UNCHANGED flaws ELSE Flaw
        /\ lane' = IF binds THEN SetRow(i, [Loose(Row(i), "running") EXCEPT !.eve = "turn"]) ELSE lane
        /\ turn' = [turn EXCEPT
                       ![i].phase = "active",
                       ![i].session = IF Open(i) THEN "bound" ELSE @,
                       ![i].sources = IF binds /\ sourcesBound
                                      THEN (PlaceOf(i) + 1)..Row(i).through ELSE {}]
        /\ UNCHANGED <<said, reviewer>>

\* remember: from which of its sources is left open, so from all.
Remember(i) ==
    /\ turn[i].phase \in {"active", "resumed"}
    /\ turn' = [turn EXCEPT ![i].wrote = turn[i].sources]
    /\ UNCHANGED <<said, lane, reviewer, flaws>>

\* An interactive turn waits for a press, once, and goes on after it.
ParkTurn(i) ==
    /\ turn[i].phase = "active" /\ ~Background(i) /\ Open(i)
    /\ turn' = [turn EXCEPT ![i].phase = "parked"]
    /\ UNCHANGED <<said, lane, reviewer, flaws>>
ResumeTurn(i) ==
    /\ turn[i].phase = "parked"
    /\ turn' = [turn EXCEPT ![i].phase = "resumed"]
    /\ UNCHANGED <<said, lane, reviewer, flaws>>

TurnEnded(i, phase) == [turn EXCEPT ![i].phase = phase, ![i].sources = {},
                                ![i].session = IF Background(i) THEN "retired" ELSE @]
\* completeBatch
Completable(i) == HasRow(i) /\ Row(i).status = "running" /\ Row(i).eve = "turn" /\ Open(i)
CompleteBatch(i) ==
    IF Completable(i)
    THEN /\ lane' = IF turn[i].sources # {}
                    THEN Advanced(SetRow(i, Loose(Row(i), "completed")))
                    ELSE SetRow(i, [Loose(Row(i), "failed") EXCEPT !.manual = TRUE])
         /\ turn' = TurnEnded(i, "completed")
    ELSE lane' = lane /\ turn' = [turn EXCEPT ![i].phase = "completed"]

\* failRunning. A row bound to the session but not to the turn is refused and stays.
FailRunning(i) ==
    IF HasRow(i) /\ Row(i).status = "running" /\ Row(i).eve # "session" /\ Open(i)
    THEN lane' = Resolved(lane, PlaceOf(i)) /\ turn' = TurnEnded(i, "failed")
    ELSE lane' = lane /\ turn' = [turn EXCEPT ![i].phase = "failed", ![i].sources = {}]

TurnCompletes(i) ==
    /\ turn[i].phase \in {"active", "resumed"}
    /\ CompleteBatch(i)
    /\ UNCHANGED <<said, reviewer, flaws>>
\* turn.failed, or turn.cancelled, which may come before the turn started
TurnFails(i) ==
    /\ turn[i].phase \in {"sent", "active", "parked", "resumed"} /\ Flaw
    /\ FailRunning(i)
    /\ UNCHANGED <<said, reviewer>>
\* The end of the turn is not heard: the process died or the handler failed.
TurnEndsUnheard(i) ==
    /\ turn[i].phase \in {"prepared", "sent", "active", "parked", "resumed"} /\ Flaw
    /\ \E end \in IF turn[i].phase \in {"active", "resumed"} THEN {"completed", "failed", "gone"} ELSE {"gone"} :
           turn' = [turn EXCEPT ![i].phase = end]
    /\ UNCHANGED <<said, lane, reviewer>>
\* Eve delivers the end of a turn again.
EndRedelivered(i) ==
    /\ \/ turn[i].phase = "completed" /\ CompleteBatch(i)
       \/ turn[i].phase = "failed" /\ FailRunning(i)
    /\ UNCHANGED <<said, reviewer, flaws>>

\* session.failed: markSessionAmbiguous, markInteractiveSessionAmbiguous
SessionFails(i) ==
    /\ turn[i].phase \in {"sent", "active", "parked", "resumed"} /\ Open(i) /\ Flaw
    /\ LET hers == HasRow(i) /\ Row(i).status \in {"dispatching", "running"}
           mark == hers /\ Background(i)
           drop == hers /\ ~Background(i) /\ Row(i).eve # "none"
       IN  /\ lane' = CASE mark -> SetRow(i, [Loose(Row(i), "ambiguous") EXCEPT
                                                 !.eve = IF @ = "none" THEN "session" ELSE @])
                        [] drop -> Resolved(lane, PlaceOf(i))
                        [] OTHER -> lane
           /\ turn' = [Afterwards(lane', IF mark THEN {i} ELSE {}) EXCEPT ![i].phase = "gone"]
    /\ UNCHANGED <<said, reviewer>>

\* The session of the chat is rotated; one with a pending question is not.
SessionRotates(i) ==
    /\ ~Background(i) /\ Open(i) /\ turn[i].phase # "parked" /\ Flaw
    /\ turn' = [turn EXCEPT ![i].session = "retired"]
    /\ UNCHANGED <<said, lane, reviewer>>

-----------------------------------------------------------------------------
ReviewerStep(w) == PrepareSession(w) \/ FailClaim(w) \/ MarkReviewDispatch(w)
                     \/ HandOff(w) \/ MarkRunning(w)
TurnStep(i) ==
    \/ FailInteractivePreparation(i) \/ SendInteractiveTurn(i)
    \/ \E sourcesBound \in BOOLEAN : StartTurn(i, sourcesBound)
    \/ Remember(i) \/ ParkTurn(i) \/ ResumeTurn(i)
    \/ TurnCompletes(i) \/ TurnFails(i) \/ TurnEndsUnheard(i) \/ EndRedelivered(i)
    \/ SessionFails(i) \/ SessionRotates(i)
Tick(w) == \E unstarted, timedOut, silent \in Places \cup {Later}, head, quiet \in BOOLEAN :
               ClaimPending(w, unstarted, timedOut, silent, head, quiet)

MemoryReviewNext ==
    \/ MessageArrives \/ ObservePassiveMessage \/ PrepareInteractiveTurn \/ ReviewersDie
    \/ \E w \in Reviewers : Tick(w) \/ ReviewerStep(w) \/ DispatchMarkerLost(w) \/ HandOffUnanswered(w)
    \/ \E i \in Passes : TurnStep(i)

MemoryReviewSpec == MemoryReviewInit /\ [][MemoryReviewNext]_memoryReviewVars

\* A run of the dispatcher for which every bound of something dead has run out.
Dead(Is(_, _), L) == {p \in Places : Is(L, p) /\ ~Working(L.at[p].id)}
Oldest(dead) == IF dead = {} THEN Later ELSE CHOOSE p \in dead : \A q \in dead : p <= q
LateTick ==
    lane.cursor < said /\   \* else there is no batch to close nor a message to read
    \E unstarted \in {Oldest(Dead(NeverStarted, lane))} :
    \E first \in {Closed(lane, unstarted)} :
    \E timedOut \in {Oldest(Dead(HandoffTimedOut, first))} :
    \E second \in {TimedOut(first, timedOut)} :
    \E silent \in {Oldest(Dead(Abandoned, second))} :
    \E head \in {HeadHolds(Closed(second, silent))}, w \in Reviewers :
        ClaimPending(w, unstarted, timedOut, silent, head, TRUE)

\* The minute schedule keeps firing, its bounds run out and the chat falls silent; a
\* dispatcher carries its batch; Eve starts and ends the turns it has; a question to
\* a person is answered or times out.
MemoryReviewFairness ==
    /\ WF_memoryReviewVars(LateTick)
    /\ \A w \in Reviewers : WF_memoryReviewVars(ReviewerStep(w))
    /\ WF_memoryReviewVars(\E i \in Passes :
           SendInteractiveTurn(i) \/ StartTurn(i, TRUE) \/ ResumeTurn(i) \/ TurnCompletes(i))

-----------------------------------------------------------------------------
(* Properties. *)

\* What was saved from a message is not saved a second time by another pass: a
\* batch whose turn wrote something is never given back for review, and a turn
\* whose batch was given back cannot write any more.
SavedFromOnce == \A i, j \in Passes : i # j => turn[i].wrote \cap turn[j].wrote = {}

\* The place a new message would be put behind is free, so preparing a turn never
\* runs into the unique predecessor; the one thing that can stand there is a batch
\* whose turn ended without its sources.
NextPlaceIsFree ==
    LET place == CoveredThrough(lane)
    IN  ~LaneBlocked(lane) /\ Exists(lane, place) => lane.at[place].manual

\* Every batch that is not finished can be reached from the cursor, and no two
\* batches hold the same message: releasing a head never strands what was chained
\* behind it, and the chain can always be continued.
ChainIsWhole ==
    /\ \A p \in Places : Exists(lane, p) =>
        /\ lane.cursor < lane.at[p].through =>
               \/ p = lane.cursor
               \/ \E q \in Places : Exists(lane, q) /\ lane.at[q].through = p /\ lane.cursor <= q
        /\ \A q \in Places : Exists(lane, q) /\ p < q => lane.at[p].through <= q
    /\ NextPlaceIsFree

\* The review of a lane neither strands a message nor saves from it twice.
ReviewStrandsAndRepeatsNothing == SavedFromOnce /\ ChainIsWhole

\* Every message is passed by the cursor in the end, whatever turn fails, parks or
\* goes silent, unless a turn without its sources holds the lane: that one is left
\* to the operator.
EveryMessageIsPassed == []<>(lane.cursor = said \/ \E p \in Places : lane.at[p].manual)

=============================================================================
