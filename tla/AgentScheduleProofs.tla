---------------------------- MODULE AgentScheduleProofs ----------------------------
(***************************************************************************)
(* Proofs about AgentSchedule for any number of claims, moves, faults and  *)
(* attempts: a run Eve may be working on holds the lease, an occurrence    *)
(* enters Eve at most once, an answer keeps the run it answers, a run has  *)
(* its copy of the history until it ends, stays ended, and its outcome is  *)
(* told once.                                                              *)
(***************************************************************************)
EXTENDS AgentSchedule, TLAPS

ScheduleType == [status : ScheduleStatuses, token : Token, live : BOOLEAN,
                 started : BOOLEAN, attempts : 0..MaxAttempts, next : Occurrences]
RunType == [status : RunStatuses, token : Token, session : Token, eve : Token]
DBType  == [schedule : ScheduleType, run : [Occurrences -> RunType],
            snapshots : SUBSET Occurrences, latest : Occurrences]

ActiveIn(d) == {o \in Occurrences : d.run[o].status \in {"dispatching", "running"}}
Untried(d)  == {o \in Occurrences : d.run[o].status \in {"absent", "claimed"}}

(***************************************************************************)
(* What every transaction of the schedule's tables keeps, n being the      *)
(* newest claim and occ the occurrence each claim took.  The newest claim  *)
(* is the one that holds a lease; a token names one occurrence, so a lease *)
(* covers one active run; and the occurrence a lease covers has not ended, *)
(* so a transaction that ends it ends the lease with it.                   *)
(***************************************************************************)
LeaseShape(d) ==
    /\ d.schedule.status = "leased" <=> d.schedule.token # NoToken
    /\ d.schedule.live \/ d.schedule.started => d.schedule.status = "leased"
NewestLease(d, n) ==
    /\ d.schedule.status = "leased" => d.schedule.token = n /\ d.latest <= MaxMoves + n
    /\ d.latest <= 1 + MaxMoves + n
TokensTell(d, n, occ) ==
    \A o \in Occurrences :
        /\ d.run[o].token # NoToken => d.run[o].token <= n /\ occ[d.run[o].token] = o
        /\ d.run[o].eve # NoToken => d.run[o].eve <= n /\ occ[d.run[o].eve] = o
ActiveHolds(d) ==
    \A o \in ActiveIn(d) :
        d.schedule.status = "leased" /\ d.schedule.token = d.run[o].token /\ d.schedule.started
LeasedIsOpen(d) ==
    \A o \in Occurrences :
        d.schedule.status = "leased" /\ d.run[o].token = d.schedule.token
            => d.run[o].status \in {"claimed", "dispatching", "running"}

Sound(d, n, occ) ==
    /\ d \in DBType
    /\ LeaseShape(d)
    /\ NewestLease(d, n)
    /\ TokensTell(d, n, occ)
    /\ ActiveHolds(d)
    /\ LeasedIsOpen(d)

Occ == [k \in Claims |-> job[k].occurrence]

\* The rest of TypeOK: what lies outside the tables a transaction changes.
OtherTypes ==
    /\ claims \in Token
    /\ job \in [Claims -> [at : JobSteps, occurrence : Occurrences, session : Token]]
    /\ session \in [Claims -> [status : {"none", "open", "retired"},
                               occurrence : Occurrences, eve : Token]]
    /\ turn \in [Claims -> TurnSteps]
    /\ outbox \in [Claims -> {"none", "started", "delivered", "ambiguous", "failed"}]
    /\ handed \in [Occurrences -> Nat]
    /\ delivered \in [Occurrences -> Nat]
    /\ notices \in [Occurrences -> Nat]
    /\ receipts \subseteq Occurrences
    /\ authority \in BOOLEAN /\ proven \in BOOLEAN
    /\ faults \in 0..MaxFaults

\* A claim works on its session from the step that prepares it, and only claims that
\* were taken work at all.
JobsPlaced ==
    \A k \in Claims :
        /\ job[k].at # "none" => k <= claims
        /\ turn[k] # "none" => job[k].at # "none"
        /\ job[k].at \in {"begin", "send", "mark", "failHandoff", "discard"}
              => job[k].session \in Claims
        /\ turn[k] # "none" => job[k].session \in Claims

\* Occurrences of a schedule that exists enter Eve from `begin` alone, and each once.
Sending == {k \in Claims : job[k].at = "send"}
HandedFrom ==
    /\ \A o \in Untried(DB) : schedule.status # "deleted" =>
          handed[o] = 0 /\ \A k \in Sending : job[k].occurrence # o
    /\ \A k \in Sending : handed[job[k].occurrence] = 0
    /\ \A k1, k2 \in Sending : job[k1].occurrence = job[k2].occurrence => k1 = k2
    /\ HandedOnce

Inv ==
    /\ Sound(DB, claims, Occ)
    /\ OtherTypes
    /\ JobsPlaced
    /\ HandedFrom

-----------------------------------------------------------------------------
(* Transactions. *)

\* What a transaction that takes d to e never does: it reopens no run, tries no run
\* again that was handed off, revives no deleted schedule, and moves no schedule away
\* from a run that stays active.
Follows(d, e) ==
    /\ \A o \in Occurrences : d.run[o].status \in Terminal => e.run[o].status = d.run[o].status
    /\ Untried(e) \subseteq Untried(d)
    /\ d.schedule.status = "deleted" => e.schedule.status = "deleted"
    /\ \A o \in ActiveIn(d) \cap ActiveIn(e) :
          e.schedule.next = d.schedule.next /\ e.schedule.status = d.schedule.status

LEMMA Ranges ==
    /\ Claims \subseteq Token
    /\ Token \subseteq Nat
    /\ NoToken \in Token
    /\ Occurrences \subseteq Nat
    /\ 1 \in Occurrences
    /\ \A n \in Nat : n <= MaxMoves + MaxClaims => n + 1 \in Occurrences
  BY BoundsAssumption DEF Claims, Token, NoToken, Occurrences

LEMMA FollowsItself == \A d : Follows(d, d)
  BY DEF Follows

LEMMA FollowsOn ==
    ASSUME NEW d \in DBType, NEW e \in DBType, NEW f \in DBType, Follows(d, e), Follows(e, f)
    PROVE  Follows(d, f)
<1>1. \A o \in Occurrences :
          d.run[o].status \in RunStatuses /\ e.run[o].status \in RunStatuses
  BY DEF DBType, RunType
<1>2. \A o \in ActiveIn(d) \cap ActiveIn(f) : o \in ActiveIn(e)
  <2> SUFFICES ASSUME NEW o \in Occurrences, o \in ActiveIn(d), o \in ActiveIn(f), o \notin ActiveIn(e)
               PROVE  FALSE
    BY DEF ActiveIn
  <2>1. o \notin Untried(d)
    BY DEF ActiveIn, Untried
  <2>2. e.run[o].status \in Terminal
    BY <1>1, <2>1 DEF Follows, ActiveIn, Untried, RunStatuses
  <2>3. f.run[o].status \in Terminal
    BY <2>2 DEF Follows
  <2>4. QED
    BY <2>3 DEF ActiveIn, Terminal
<1>3. QED
  BY <1>2 DEF Follows

\* A schedule that fails together with all its active runs.
LEMMA FailSound ==
    ASSUME NEW n \in Token, NEW occ, NEW d, Sound(d, n, occ),
           NEW lost \in SUBSET Occurrences, NEW status \in {"failed", "ambiguous"},
           ActiveIn(d) \subseteq lost,
           \A o \in lost : d.run[o].status \notin Terminal,
           d.schedule.status # "deleted"
    PROVE  Sound(FailWith(d, lost, status), n, occ) /\ Follows(d, FailWith(d, lost, status))
<1> DEFINE e == FailWith(d, lost, status)
<1>1. d \in DBType
  BY DEF Sound
<1>2. /\ e.schedule = Unleased(d.schedule, "failed")
      /\ e.run = [o \in Occurrences |->
                    IF o \in lost THEN [d.run[o] EXCEPT !.status = status] ELSE d.run[o]]
      /\ e.snapshots = d.snapshots \ lost
      /\ e.latest = d.latest
  BY <1>1 DEF FailWith, DBType
<1>3. /\ e.schedule \in ScheduleType
      /\ e.schedule.status = "failed" /\ e.schedule.token = NoToken
      /\ ~e.schedule.live /\ ~e.schedule.started
  BY <1>1, <1>2, Ranges DEF DBType, ScheduleType, ScheduleStatuses, Unleased
<1>4. \A o \in Occurrences :
          /\ e.run[o] \in RunType
          /\ e.run[o].token = d.run[o].token /\ e.run[o].eve = d.run[o].eve
          /\ e.run[o].status = IF o \in lost THEN status ELSE d.run[o].status
  BY <1>1, <1>2 DEF DBType, RunType, RunStatuses, Terminal
<1>5. e \in DBType
  <2>1. /\ e.run \in [Occurrences -> RunType]
        /\ e.snapshots \in SUBSET Occurrences
        /\ e.latest \in Occurrences
    BY <1>1, <1>2, <1>4 DEF DBType
  <2>2. QED
    BY <1>1, <1>2, <1>3, <2>1 DEF DBType, FailWith
<1>6. LeaseShape(e) /\ NewestLease(e, n) /\ LeasedIsOpen(e)
  BY <1>2, <1>3 DEF LeaseShape, NewestLease, LeasedIsOpen, Sound, NoToken
<1>7. TokensTell(e, n, occ)
  BY <1>4 DEF TokensTell, Sound
<1>8. ActiveIn(e) = {}
  BY <1>4 DEF ActiveIn
<1>9. ActiveHolds(e)
  BY <1>8 DEF ActiveHolds
<1>10. Follows(d, e)
  <2>1. \A o \in Occurrences : d.run[o].status \in Terminal => e.run[o].status = d.run[o].status
    BY <1>4
  <2>2. Untried(e) \subseteq Untried(d)
    BY <1>4 DEF Untried
  <2>3. QED
    BY <2>1, <2>2, <1>8 DEF Follows
<1>11. QED
  BY <1>5, <1>6, <1>7, <1>9, <1>10 DEF Sound

\* A schedule without active runs gives up its lease, or none, and may be due later.
LEMMA FreeSound ==
    ASSUME NEW n \in Token, NEW occ, NEW d, Sound(d, n, occ),
           NEW s \in ScheduleType, s.status # "leased", s.token = NoToken,
           ~s.live, ~s.started, ActiveIn(d) = {}, d.schedule.status # "deleted"
    PROVE  Sound([d EXCEPT !.schedule = s], n, occ) /\ Follows(d, [d EXCEPT !.schedule = s])
<1> DEFINE e == [d EXCEPT !.schedule = s]
<1>1. d \in DBType
  BY DEF Sound
<1>2. e \in DBType /\ e.schedule = s /\ e.run = d.run /\ e.latest = d.latest
  BY <1>1 DEF DBType
<1>3. LeaseShape(e) /\ NewestLease(e, n) /\ LeasedIsOpen(e)
  BY <1>2 DEF LeaseShape, NewestLease, LeasedIsOpen, Sound
<1>4. TokensTell(e, n, occ)
  BY <1>2 DEF TokensTell, Sound
<1>5. ActiveIn(e) = {} /\ Untried(e) = Untried(d)
  BY <1>2 DEF ActiveIn, Untried
<1>6. ActiveHolds(e)
  BY <1>5 DEF ActiveHolds
<1>7. Follows(d, e)
  BY <1>2, <1>5 DEF Follows
<1>8. QED
  BY <1>2, <1>3, <1>4, <1>6, <1>7 DEF Sound

\* A lease covers one active run.
LEMMA OneActive ==
    ASSUME NEW n \in Token, NEW occ, NEW d, Sound(d, n, occ),
           NEW o1 \in ActiveIn(d), NEW o2 \in Occurrences, d.run[o2].token = d.run[o1].token
    PROVE  o1 = o2
<1>1. o1 \in Occurrences
  BY DEF ActiveIn
<1>2. d.run[o1].token = d.schedule.token /\ d.schedule.status = "leased"
  BY DEF Sound, ActiveHolds
<1>3. d.run[o1].token # NoToken
  BY <1>2 DEF Sound, LeaseShape
<1>4. QED
  BY <1>1, <1>3 DEF Sound, TokensTell

-----------------------------------------------------------------------------
(* `claimDue`. *)

LEMMA ExpireSound ==
    ASSUME NEW n \in Token, NEW occ, NEW d, Sound(d, n, occ)
    PROVE  Sound(ExpireHandoff(d), n, occ) /\ Follows(d, ExpireHandoff(d))
<1>1. CASE Expired(d.schedule) /\ d.schedule.started /\ InHandoff(d) # {}
  <2>1. PICK o1 \in InHandoff(d) : TRUE
    BY <1>1
  <2>2. o1 \in ActiveIn(d) /\ d.run[o1].token = d.schedule.token
    BY <2>1 DEF InHandoff, ActiveIn
  <2>3. \A o \in ActiveIn(d) : d.run[o].token = d.schedule.token
    BY DEF Sound, ActiveHolds
  <2>4. \A o \in ActiveIn(d) : o = o1
    BY <2>2, <2>3, OneActive DEF ActiveIn
  <2>5. ActiveIn(d) \subseteq InHandoff(d)
    BY <2>1, <2>4
  <2>6. \A o \in InHandoff(d) : o \in Occurrences /\ d.run[o].status \notin Terminal
    BY DEF InHandoff, Terminal
  <2>7. d.schedule.status # "deleted"
    BY <1>1 DEF Expired
  <2>8. QED
    BY <1>1, <2>5, <2>6, <2>7, FailSound DEF ExpireHandoff
<1>2. CASE ~(Expired(d.schedule) /\ d.schedule.started /\ InHandoff(d) # {})
  BY <1>2, FollowsItself DEF ExpireHandoff
<1>3. QED
  BY <1>1, <1>2

\* The claimed runs have not ended.
LEMMA WaitingOpen ==
    ASSUME NEW d
    PROVE  \A o \in Waiting(d) : o \in Occurrences /\ d.run[o].status \notin Terminal
  BY DEF Waiting, Terminal

LEMMA RecoverSound ==
    ASSUME NEW n \in Token, NEW occ, NEW d, Sound(d, n, occ)
    PROVE  Sound(RecoverLease(d), n, occ) /\ Follows(d, RecoverLease(d))
<1>1. CASE ~Unstarted(d.schedule)
  BY <1>1, FollowsItself DEF RecoverLease
<1>2. CASE Unstarted(d.schedule)
  <2>1. ActiveIn(d) = {}
    BY <1>2 DEF Sound, ActiveHolds, Unstarted
  <2>2. d.schedule.status # "deleted"
    BY <1>2 DEF Unstarted, Expired
  <2>3. CASE d.schedule.attempts >= MaxAttempts
    BY <1>2, <2>1, <2>2, <2>3, WaitingOpen, FailSound DEF RecoverLease
  <2>4. CASE ~(d.schedule.attempts >= MaxAttempts)
    <3>1. /\ Unleased(d.schedule, "active") \in ScheduleType
          /\ Unleased(d.schedule, "active").status # "leased"
          /\ Unleased(d.schedule, "active").token = NoToken
          /\ ~Unleased(d.schedule, "active").live /\ ~Unleased(d.schedule, "active").started
      BY Ranges DEF Sound, DBType, ScheduleType, ScheduleStatuses, Unleased
    <3>2. QED
      BY <1>2, <2>1, <2>2, <2>4, <3>1, FreeSound DEF RecoverLease
  <2>5. QED
    BY <2>3, <2>4
<1>3. QED
  BY <1>1, <1>2

LEMMA RevokeSound ==
    ASSUME NEW n \in Token, NEW occ, NEW d, Sound(d, n, occ)
    PROVE  Sound(RevokeDestination(d), n, occ) /\ Follows(d, RevokeDestination(d))
<1>1. CASE d.schedule.status = "active" /\ ~authority
  <2>1. ActiveIn(d) = {}
    BY <1>1 DEF Sound, ActiveHolds
  <2>2. QED
    BY <1>1, <2>1, WaitingOpen, FailSound DEF RevokeDestination
<1>2. CASE ~(d.schedule.status = "active" /\ ~authority)
  BY <1>2, FollowsItself DEF RevokeDestination
<1>3. QED
  BY <1>1, <1>2

LEMMA SweptSound ==
    ASSUME NEW n \in Token, NEW occ, NEW d, Sound(d, n, occ)
    PROVE  LET swept == RevokeDestination(RecoverLease(ExpireHandoff(d)))
           IN  Sound(swept, n, occ) /\ Follows(d, swept)
<1> DEFINE e == ExpireHandoff(d)
           r == RecoverLease(e)
           v == RevokeDestination(r)
<1>1. Sound(e, n, occ) /\ Follows(d, e)
  BY ExpireSound
<1>2. Sound(r, n, occ) /\ Follows(e, r)
  BY <1>1, RecoverSound
<1>3. Sound(v, n, occ) /\ Follows(r, v)
  BY <1>2, RevokeSound
<1>4. d \in DBType /\ e \in DBType /\ r \in DBType /\ v \in DBType
  BY <1>1, <1>2, <1>3 DEF Sound
<1>5. Follows(d, r)
  BY <1>1, <1>2, <1>4, FollowsOn
<1>6. QED
  BY <1>3, <1>4, <1>5, FollowsOn

\* The lease of the next claim, which holds the occurrence that was due.
LEMMA TakeSound ==
    ASSUME NEW n \in Token, n + 1 \in Claims, NEW occ \in [Claims -> Occurrences],
           NEW d, Sound(d, n, occ)
    PROVE  LET e == TakeLease(d, n + 1)
               taken == [occ EXCEPT ![n + 1] = d.schedule.next]
           IN  /\ Follows(d, e)
               /\ e.schedule.token = n + 1 => Sound(e, n + 1, taken)
               /\ e.schedule.token # n + 1 => Sound(e, n, occ)
<1> DEFINE k == n + 1
           o == d.schedule.next
           e == TakeLease(d, k)
           taken == [occ EXCEPT ![k] = o]
<1>1. /\ d \in DBType /\ o \in Occurrences /\ k \in Token /\ k \in Nat /\ n \in Nat /\ n < k
      /\ k # NoToken /\ MaxMoves \in Nat
  BY Ranges, BoundsAssumption DEF Sound, DBType, ScheduleType, Token, Claims, NoToken
<1>2. d.schedule.token # k
  <2>1. CASE d.schedule.status = "leased"
    BY <1>1, <2>1 DEF Sound, NewestLease
  <2>2. CASE d.schedule.status # "leased"
    BY <1>1, <2>2 DEF Sound, LeaseShape
  <2>3. QED
    BY <2>1, <2>2
<1>3. CASE d.schedule.status # "active" \/ d.schedule.attempts >= MaxAttempts
  BY <1>2, <1>3, FollowsItself DEF TakeLease
<1>4. /\ Attempted(d.schedule).attempts = d.schedule.attempts + 1
      /\ Attempted(d.schedule) = [d.schedule EXCEPT !.attempts = d.schedule.attempts + 1]
  BY <1>1 DEF Attempted, DBType, ScheduleType
<1>5. CASE /\ ~(d.schedule.status # "active" \/ d.schedule.attempts >= MaxAttempts)
           /\ ~Reclaimable(d.run[o])
  <2> DEFINE f == [d EXCEPT !.schedule = Attempted(d.schedule)]
             g == FailWith(f, {}, "failed")
  <2>1. ActiveIn(d) = {} /\ d.schedule.token = NoToken
    BY <1>5 DEF Sound, ActiveHolds, LeaseShape
  <2>2. Attempted(d.schedule) \in ScheduleType
    <3>1. d.schedule \in ScheduleType /\ d.schedule.attempts \in 0..MaxAttempts
      BY <1>1 DEF DBType, ScheduleType
    <3>2. d.schedule.attempts + 1 \in 0..MaxAttempts
      BY <1>5, <3>1, BoundsAssumption
    <3>3. QED
      BY <1>4, <3>1, <3>2 DEF ScheduleType
  <2>3. /\ Attempted(d.schedule).status = "active"
        /\ Attempted(d.schedule).token = NoToken
        /\ ~Attempted(d.schedule).live /\ ~Attempted(d.schedule).started
    <3>1. ~d.schedule.live /\ ~d.schedule.started
      BY <1>5 DEF Sound, LeaseShape
    <3>2. QED
      BY <1>1, <1>4, <1>5, <2>1, <3>1 DEF DBType, ScheduleType
  <2>4. Sound(f, n, occ) /\ Follows(d, f)
    BY <1>5, <2>1, <2>2, <2>3, FreeSound
  <2>5. ActiveIn(f) = {} /\ f.schedule.status # "deleted"
    <3>1. f.run = d.run /\ f.schedule.status = "active"
      BY <1>1, <2>3 DEF DBType
    <3>2. QED
      BY <2>1, <3>1 DEF ActiveIn
  <2>6. Sound(g, n, occ) /\ Follows(f, g)
    BY <2>4, <2>5, FailSound
  <2>7. Follows(d, g)
    BY <2>4, <2>6, FollowsOn DEF Sound
  <2>8. g.schedule.token = NoToken
    BY <2>4 DEF FailWith, Unleased, Sound, DBType, ScheduleType
  <2>9. e = g
    BY <1>5 DEF TakeLease
  <2>10. QED
    BY <1>1, <2>6, <2>7, <2>8, <2>9
<1>6. CASE /\ ~(d.schedule.status # "active" \/ d.schedule.attempts >= MaxAttempts)
           /\ Reclaimable(d.run[o])
  <2>1. ActiveIn(d) = {}
    BY <1>6 DEF Sound, ActiveHolds
  <2>2. /\ e.schedule = Leased(Attempted(d.schedule), k)
        /\ e.run = [d.run EXCEPT ![o] = [d.run[o] EXCEPT !.status = "claimed", !.token = k]]
        /\ e.snapshots = d.snapshots /\ e.latest = d.latest
    BY <1>1, <1>6 DEF TakeLease, DBType
  <2>3. /\ e.schedule \in ScheduleType
        /\ e.schedule.status = "leased" /\ e.schedule.token = k
        /\ e.schedule.next = d.schedule.next
    <3>1. d.schedule \in ScheduleType /\ d.schedule.attempts \in 0..MaxAttempts
      BY <1>1 DEF DBType, ScheduleType
    <3>2. d.schedule.attempts + 1 \in 0..MaxAttempts
      BY <1>6, <3>1, BoundsAssumption
    <3>3. QED
      BY <1>1, <1>4, <2>2, <3>1, <3>2 DEF ScheduleType, ScheduleStatuses, Leased
  <2>4. \A p \in Occurrences :
            /\ e.run[p] \in RunType
            /\ e.run[p].eve = d.run[p].eve
            /\ e.run[p].token = IF p = o THEN k ELSE d.run[p].token
            /\ e.run[p].status = IF p = o THEN "claimed" ELSE d.run[p].status
    <3>1. \A p \in Occurrences : d.run[p] \in RunType
      BY <1>1 DEF DBType
    <3>2. /\ [d.run[o] EXCEPT !.status = "claimed", !.token = k] \in RunType
          /\ [d.run[o] EXCEPT !.status = "claimed", !.token = k].eve = d.run[o].eve
          /\ [d.run[o] EXCEPT !.status = "claimed", !.token = k].token = k
          /\ [d.run[o] EXCEPT !.status = "claimed", !.token = k].status = "claimed"
      BY <1>1, <3>1 DEF RunType, RunStatuses
    <3>3. \A p \in Occurrences :
              e.run[p] = IF p = o THEN [d.run[o] EXCEPT !.status = "claimed", !.token = k]
                                  ELSE d.run[p]
      BY <1>1, <2>2 DEF DBType
    <3>4. QED
      BY <3>1, <3>2, <3>3
  <2>5. e \in DBType
    <3>1. /\ e.run \in [Occurrences -> RunType]
          /\ e.snapshots \in SUBSET Occurrences
          /\ e.latest \in Occurrences
      BY <1>1, <2>2, <2>4 DEF DBType
    <3>2. QED
      BY <1>1, <1>6, <2>2, <2>3, <3>1 DEF DBType, TakeLease
  <2>6. LeaseShape(e)
    BY <1>1, <2>3 DEF LeaseShape
  <2>7. NewestLease(e, k)
    <3>1. d.latest \in Nat /\ d.latest <= 1 + MaxMoves + n
      BY <1>1, Ranges DEF Sound, NewestLease, DBType
    <3>2. QED
      BY <1>1, <2>2, <2>3, <3>1 DEF NewestLease
  <2>8. TokensTell(e, k, taken)
    <3> SUFFICES ASSUME NEW p \in Occurrences
                 PROVE  /\ e.run[p].token # NoToken => e.run[p].token <= k /\ taken[e.run[p].token] = p
                        /\ e.run[p].eve # NoToken => e.run[p].eve <= k /\ taken[e.run[p].eve] = p
      BY DEF TokensTell
    <3>1. /\ d.run[p].token \in Token /\ d.run[p].eve \in Token
          /\ d.run[p].token # NoToken => d.run[p].token <= n /\ occ[d.run[p].token] = p
          /\ d.run[p].eve # NoToken => d.run[p].eve <= n /\ occ[d.run[p].eve] = p
      BY <1>1 DEF Sound, TokensTell, DBType, RunType
    <3>2. taken[k] = o /\ \A j \in Token : j # NoToken /\ j <= n => taken[j] = occ[j]
      BY <1>1, BoundsAssumption DEF Token, Claims, NoToken
    <3>3. \A j \in Token : j <= n => j <= k
      <4>1. \A i \in Nat, j \in Nat : j <= i => j <= i + 1
        OBVIOUS
      <4>2. n \in Nat /\ \A j \in Token : j \in Nat
        BY <1>1, Ranges
      <4>3. QED
        BY <4>1, <4>2
    <3>4. k <= k
      BY <1>1
    <3>5. QED
      BY <2>4, <3>1, <3>2, <3>3, <3>4
  <2>9. ActiveIn(e) = {}
    BY <2>1, <2>4 DEF ActiveIn
  <2>10. ActiveHolds(e)
    BY <2>9 DEF ActiveHolds
  <2>11. LeasedIsOpen(e)
    <3> SUFFICES ASSUME NEW p \in Occurrences, e.run[p].token = k
                 PROVE  e.run[p].status \in {"claimed", "dispatching", "running"}
      BY <2>3 DEF LeasedIsOpen
    <3>1. d.run[p].token # k
      <4>1. d.run[p].token \in Nat
        BY <1>1, Ranges DEF DBType, RunType
      <4>2. d.run[p].token # NoToken => d.run[p].token <= n
        BY DEF Sound, TokensTell
      <4>3. QED
        BY <1>1, <4>1, <4>2
    <3>2. QED
      BY <2>4, <3>1
  <2>12. Follows(d, e)
    <3>1. \A p \in Occurrences : d.run[p].status \in Terminal => e.run[p].status = d.run[p].status
      BY <1>6, <2>4 DEF Reclaimable, Terminal
    <3>2. Untried(e) \subseteq Untried(d)
      BY <1>6, <2>4 DEF Untried, Reclaimable
    <3>3. QED
      BY <1>6, <2>9, <3>1, <3>2 DEF Follows
  <2>13. QED
    BY <2>3, <2>5, <2>6, <2>7, <2>8, <2>10, <2>11, <2>12 DEF Sound
<1>7. QED
  BY <1>3, <1>5, <1>6

-----------------------------------------------------------------------------
(* The dispatcher's handoff and the end of a run. *)

\* The run of a lease that has not reached Eve is handed off.
LEMMA BegunSound ==
    ASSUME NEW n \in Token, NEW occ, NEW d, Sound(d, n, occ),
           NEW o \in Occurrences, NEW s \in Token,
           d.schedule.status = "leased", ~d.schedule.started,
           d.run[o].status = "claimed", d.run[o].token = d.schedule.token
    PROVE  LET e == [d EXCEPT !.schedule.started = TRUE,
                              !.run[o] = [d.run[o] EXCEPT !.status = "dispatching", !.session = s]]
           IN  Sound(e, n, occ) /\ Follows(d, e)
<1> DEFINE r == [d.run[o] EXCEPT !.status = "dispatching", !.session = s]
           e == [d EXCEPT !.schedule.started = TRUE, !.run[o] = r]
<1>1. d \in DBType
  BY DEF Sound
<1>2. /\ r \in RunType /\ r.status = "dispatching"
      /\ r.token = d.run[o].token /\ r.eve = d.run[o].eve
  BY <1>1 DEF DBType, RunType, RunStatuses
<1>3. /\ e.schedule = [d.schedule EXCEPT !.started = TRUE]
      /\ e.run = [d.run EXCEPT ![o] = r]
      /\ e.latest = d.latest
      /\ e \in DBType
  BY <1>1, <1>2 DEF DBType, ScheduleType
<1>4. /\ e.schedule.status = "leased" /\ e.schedule.started
      /\ e.schedule.token = d.schedule.token /\ e.schedule.next = d.schedule.next
  BY <1>1, <1>3 DEF DBType, ScheduleType
<1>5. \A p \in Occurrences : e.run[p] = IF p = o THEN r ELSE d.run[p]
  BY <1>1, <1>3 DEF DBType
<1>6. ActiveIn(d) = {}
  BY DEF Sound, ActiveHolds
<1>7. ActiveIn(e) \subseteq {o}
  BY <1>5, <1>6 DEF ActiveIn
<1>8. LeaseShape(e) /\ NewestLease(e, n)
  BY <1>3, <1>4 DEF LeaseShape, NewestLease, Sound
<1>9. TokensTell(e, n, occ)
  BY <1>2, <1>5 DEF TokensTell, Sound
<1>10. ActiveHolds(e)
  BY <1>2, <1>4, <1>5, <1>7 DEF ActiveHolds
<1>11. LeasedIsOpen(e)
  BY <1>2, <1>4, <1>5 DEF LeasedIsOpen, Sound
<1>12. Follows(d, e)
  <2>1. \A p \in Occurrences : d.run[p].status \in Terminal => e.run[p].status = d.run[p].status
    BY <1>5 DEF Terminal
  <2>2. Untried(e) \subseteq Untried(d)
    BY <1>2, <1>5 DEF Untried
  <2>3. QED
    BY <1>6, <2>1, <2>2 DEF Follows
<1>13. QED
  BY <1>3, <1>8, <1>9, <1>10, <1>11, <1>12 DEF Sound

\* A run that was handed off learns the Eve session that works on it.
LEMMA RunningSound ==
    ASSUME NEW n \in Token, NEW occ, NEW d, Sound(d, n, occ),
           NEW o \in Occurrences, NEW k \in Claims, k <= n, occ[k] = o,
           d.run[o].status = "dispatching"
    PROVE  LET e == [d EXCEPT !.run[o] = [d.run[o] EXCEPT !.status = "running", !.eve = k]]
           IN  Sound(e, n, occ) /\ Follows(d, e)
<1> DEFINE r == [d.run[o] EXCEPT !.status = "running", !.eve = k]
           e == [d EXCEPT !.run[o] = r]
<1>1. d \in DBType
  BY DEF Sound
<1>2. /\ r \in RunType /\ r.status = "running"
      /\ r.token = d.run[o].token /\ r.eve = k
  BY <1>1, Ranges DEF DBType, RunType, RunStatuses
<1>3. /\ e.schedule = d.schedule
      /\ e.run = [d.run EXCEPT ![o] = r]
      /\ e.latest = d.latest
      /\ e \in DBType
  BY <1>1, <1>2 DEF DBType
<1>4. \A p \in Occurrences : e.run[p] = IF p = o THEN r ELSE d.run[p]
  BY <1>1, <1>3 DEF DBType
<1>5. ActiveIn(e) = ActiveIn(d)
  BY <1>2, <1>4 DEF ActiveIn
<1>6. LeaseShape(e) /\ NewestLease(e, n)
  BY <1>3 DEF LeaseShape, NewestLease, Sound
<1>7. TokensTell(e, n, occ)
  BY <1>2, <1>4 DEF TokensTell, Sound
<1>8. ActiveHolds(e)
  BY <1>2, <1>3, <1>4, <1>5 DEF ActiveHolds, Sound
<1>9. LeasedIsOpen(e)
  BY <1>2, <1>3, <1>4 DEF LeasedIsOpen, Sound
<1>10. Follows(d, e)
  <2>1. \A p \in Occurrences : d.run[p].status \in Terminal => e.run[p].status = d.run[p].status
    BY <1>4 DEF Terminal
  <2>2. Untried(e) \subseteq Untried(d)
    BY <1>2, <1>4 DEF Untried
  <2>3. QED
    BY <1>3, <2>1, <2>2 DEF Follows
<1>11. QED
  BY <1>3, <1>6, <1>7, <1>8, <1>9, <1>10 DEF Sound

\* `finishActiveAgentScheduleRun` ends the one active run and its lease with it.
LEMMA FinishSound ==
    ASSUME NEW n \in Token, NEW occ, NEW d, Sound(d, n, occ), NEW k \in Claims, NEW ok \in BOOLEAN
    PROVE  Sound(Finish(d, k, ok), n, occ) /\ Follows(d, Finish(d, k, ok))
<1> DEFINE e == Finish(d, k, ok)
           over == IF ok THEN "completed" ELSE "failed"
           f == [d EXCEPT !.run = [o \in Occurrences |->
                              IF o \in Active(d, k) THEN [d.run[o] EXCEPT !.status = over]
                              ELSE d.run[o]],
                          !.snapshots = @ \ Active(d, k)]
<1>1. CASE Active(d, k) = {}
  BY <1>1, FollowsItself DEF Finish
<1>2. CASE Active(d, k) # {}
  <2>1. PICK o1 \in Active(d, k) : TRUE
    BY <1>2
  <2>2. /\ d \in DBType
        /\ d.schedule.status = "leased"
        /\ d.schedule \in ScheduleType
        /\ d.latest \in Occurrences
        /\ Active(d, k) \subseteq ActiveIn(d)
    BY <2>1 DEF Sound, Active, ActiveIn, DBType
  <2>3. ActiveIn(d) \subseteq Active(d, k)
    <3>1. \A o \in ActiveIn(d) : d.run[o].token = d.run[o1].token
      BY <2>1, <2>2 DEF Sound, ActiveHolds
    <3>2. \A o \in ActiveIn(d) : o = o1
      BY <2>1, <2>2, <3>1, OneActive DEF ActiveIn
    <3>3. QED
      BY <2>1, <3>2
  <2>4. e = Reopen(f, ok)
    BY <1>2 DEF Finish
  <2>5. /\ f.schedule = d.schedule /\ f.latest = d.latest
        /\ f.run = [o \in Occurrences |->
                       IF o \in Active(d, k) THEN [d.run[o] EXCEPT !.status = over] ELSE d.run[o]]
        /\ f.snapshots = d.snapshots \ Active(d, k)
    BY <2>2 DEF DBType
  <2>6. \A o \in Occurrences :
            /\ f.run[o] \in RunType
            /\ f.run[o].token = d.run[o].token /\ f.run[o].eve = d.run[o].eve
            /\ f.run[o].status = IF o \in Active(d, k) THEN over ELSE d.run[o].status
    BY <2>2, <2>5 DEF DBType, RunType, RunStatuses, Terminal
  <2>7. f \in DBType
    <3>1. f.run \in [Occurrences -> RunType] /\ f.snapshots \in SUBSET Occurrences
      BY <2>2, <2>5, <2>6 DEF DBType
    <3>2. QED
      BY <2>2, <2>5, <3>1 DEF DBType
  <2>8. d.latest \in Nat /\ d.latest <= MaxMoves + n /\ d.latest + 1 \in Occurrences
    <3>1. d.latest \in Nat /\ d.latest <= MaxMoves + n
      BY <2>2, Ranges DEF Sound, NewestLease
    <3>2. d.latest <= MaxMoves + MaxClaims
      BY <3>1, BoundsAssumption DEF Token
    <3>3. QED
      BY <3>1, <3>2, Ranges
  <2>9. /\ e.schedule \in ScheduleType
        /\ e.schedule.status \in {"active", "completed", "failed"}
        /\ e.schedule.token = NoToken
        /\ ~e.schedule.live /\ ~e.schedule.started
        /\ e.run = f.run
        /\ e.latest \in {d.latest, d.latest + 1}
        /\ e \in DBType
    <3>1. CASE Recurring
      <4> DEFINE t == [f.schedule EXCEPT !.attempts = 0, !.next = f.latest + 1]
      <4>1. e = [f EXCEPT !.schedule = Unleased(t, "active"), !.latest = f.latest + 1]
        BY <2>4, <3>1 DEF Reopen
      <4>2. t \in ScheduleType
        <5>1. f.schedule \in ScheduleType /\ f.latest + 1 \in Occurrences /\ 0 \in 0..MaxAttempts
          BY <2>2, <2>5, <2>8, BoundsAssumption
        <5> HIDE DEF f
        <5>2. QED
          BY <5>1 DEF ScheduleType
      <4>3. /\ Unleased(t, "active") \in ScheduleType
            /\ Unleased(t, "active").status = "active"
            /\ Unleased(t, "active").token = NoToken
            /\ ~Unleased(t, "active").live /\ ~Unleased(t, "active").started
        BY <4>2, Ranges DEF ScheduleType, ScheduleStatuses, Unleased
      <4>4. f.latest + 1 \in Occurrences /\ f.latest = d.latest
        BY <2>5, <2>8
      <4>5. /\ e.schedule = Unleased(t, "active") /\ e.run = f.run /\ e.latest = f.latest + 1
            /\ e \in DBType
        <5> HIDE DEF t, f, e
        <5>1. QED
          BY <2>7, <4>1, <4>3, <4>4 DEF DBType
      <4>6. QED
        BY <4>3, <4>4, <4>5
    <3>2. CASE ~Recurring
      <4> DEFINE u == Unleased(f.schedule, over)
      <4>1. e = [f EXCEPT !.schedule = u]
        BY <2>4, <3>2 DEF Reopen
      <4>2. u \in ScheduleType /\ u.status = over /\ u.token = NoToken /\ ~u.live /\ ~u.started
        BY <2>2, <2>5, Ranges DEF ScheduleType, ScheduleStatuses, Unleased
      <4>3. QED
        BY <2>5, <2>7, <4>1, <4>2 DEF DBType
    <3>3. QED
      BY <3>1, <3>2
  <2>10. ActiveIn(e) = {}
    BY <2>3, <2>6, <2>9 DEF ActiveIn
  <2>11. LeaseShape(e) /\ LeasedIsOpen(e) /\ ActiveHolds(e)
    BY <2>9, <2>10 DEF LeaseShape, LeasedIsOpen, ActiveHolds
  <2>12. NewestLease(e, n)
    <3>1. MaxMoves \in Nat /\ n \in Nat
      BY BoundsAssumption, Ranges
    <3>2. e.latest <= 1 + MaxMoves + n
      BY <2>8, <2>9, <3>1
    <3>3. QED
      BY <2>9, <3>2 DEF NewestLease
  <2>13. TokensTell(e, n, occ)
    BY <2>6, <2>9 DEF TokensTell, Sound
  <2>14. Follows(d, e)
    <3>1. \A o \in Occurrences : d.run[o].status \in Terminal => e.run[o].status = d.run[o].status
      BY <2>6, <2>9 DEF Active, Terminal
    <3>2. Untried(e) \subseteq Untried(d)
      BY <2>6, <2>9 DEF Untried
    <3>3. QED
      BY <2>2, <2>10, <3>1, <3>2 DEF Follows
  <2>15. QED
    BY <2>9, <2>11, <2>12, <2>13, <2>14 DEF Sound
<1>3. QED
  BY <1>1, <1>2

-----------------------------------------------------------------------------
(* Every step of the specification. *)

LEMMA CommitWrites ==
    ASSUME NEW d \in DBType, Commit(d)
    PROVE  DB' = d
  BY DEF Commit, DB, DBType

\* A step of a claim's dispatcher moves it and leaves its occurrence.
LEMMA OccKept ==
    ASSUME OtherTypes, NEW k \in Claims, NEW step,
           job' = [job EXCEPT ![k].at = step]
             \/ \E s : job' = [job EXCEPT ![k].at = step, ![k].session = s]
    PROVE  Occ' = Occ
  BY DEF Occ, OtherTypes

\* A sound transaction of a step that takes no claim.
Keeps(d) == Sound(d, claims, Occ) /\ Follows(DB, d)

LEMMA SoundHere ==
    ASSUME Inv
    PROVE  /\ Keeps(DB)
           /\ DB \in DBType
           /\ claims \in Token
           /\ \A k \in Claims : Keeps(SealTurn(k)) /\ Keeps(Finish(DB, k, TRUE))
<1>1. Sound(DB, claims, Occ) /\ claims \in Token
  BY DEF Inv, OtherTypes
<1>2. QED
  BY <1>1, FollowsItself, FinishSound DEF Keeps, Sound, SealTurn

LEMMA BegunKeeps ==
    ASSUME Inv, NEW k \in Claims, job[k].at = "begin"
    PROVE  Keeps(Begun(k))
<1> DEFINE o == job[k].occurrence
<1>1. /\ Sound(DB, claims, Occ) /\ claims \in Token /\ o \in Occurrences
      /\ job[k].session \in Token /\ DB \in DBType
      /\ DB.schedule = schedule /\ DB.run = run
      /\ schedule \in ScheduleType /\ run \in [Occurrences -> RunType]
  BY DEF Inv, OtherTypes, Sound, DB, DBType
<1>2. CASE ~Holds(k)
  BY <1>2, SoundHere DEF Begun
<1>3. CASE Holds(k) /\ ~proven
  <2>1. ActiveIn(DB) = {}
    BY <1>1, <1>3 DEF Sound, ActiveHolds, Holds
  <2>2. Refunded(schedule) \in ScheduleType
    <3>1. schedule.attempts \in 0..MaxAttempts
      BY <1>1 DEF ScheduleType
    <3>2. (IF schedule.attempts > 0 THEN schedule.attempts - 1 ELSE 0) \in 0..MaxAttempts
      BY <3>1, BoundsAssumption
    <3>3. QED
      BY <1>1, <3>2 DEF ScheduleType, Refunded
  <2>3. /\ Unleased(Refunded(schedule), "active") \in ScheduleType
        /\ Unleased(Refunded(schedule), "active").status # "leased"
        /\ Unleased(Refunded(schedule), "active").token = NoToken
        /\ ~Unleased(Refunded(schedule), "active").live
        /\ ~Unleased(Refunded(schedule), "active").started
    BY <2>2, Ranges DEF ScheduleType, ScheduleStatuses, Unleased
  <2>4. DB.schedule.status # "deleted"
    BY <1>1, <1>3 DEF Holds
  <2>5. Begun(k) = [DB EXCEPT !.schedule = Unleased(Refunded(schedule), "active")]
    BY <1>3 DEF Begun
  <2>6. QED
    BY <1>1, <2>1, <2>3, <2>4, <2>5, FreeSound DEF Keeps
<1>4. CASE Holds(k) /\ proven /\ External /\ ~authority
  <2>1. ActiveIn(DB) = {}
    BY <1>1, <1>4 DEF Sound, ActiveHolds, Holds
  <2>2. DB.schedule.status # "deleted"
    BY <1>1, <1>4 DEF Holds
  <2>3. \A p \in {o} \cap Waiting(DB) : p \in Occurrences /\ DB.run[p].status \notin Terminal
    BY WaitingOpen
  <2>4. QED
    BY <1>1, <1>4, <2>1, <2>2, <2>3, FailSound DEF Keeps, Begun
<1>5. CASE Holds(k) /\ proven /\ ~(External /\ ~authority)
  <2>1. CASE run[o].status = "claimed" /\ run[o].token = k
    <3>1. Begun(k) = [DB EXCEPT !.schedule.started = TRUE,
                         !.run[o] = [DB.run[o] EXCEPT !.status = "dispatching",
                                                      !.session = job[k].session]]
      BY <1>1, <1>5, <2>1 DEF Begun
    <3>2. /\ DB.schedule.status = "leased" /\ ~DB.schedule.started
          /\ DB.run[o].status = "claimed" /\ DB.run[o].token = DB.schedule.token
      BY <1>1, <1>5, <2>1 DEF Holds
    <3> DEFINE e == [DB EXCEPT !.schedule.started = TRUE,
                               !.run[o] = [DB.run[o] EXCEPT !.status = "dispatching",
                                                            !.session = job[k].session]]
    <3>3. Sound(e, claims, Occ) /\ Follows(DB, e)
      <4> HIDE DEF o
      <4>1. QED
        BY <1>1, <3>2, BegunSound
    <3>4. QED
      BY <3>1, <3>3 DEF Keeps
  <2>2. CASE ~(run[o].status = "claimed" /\ run[o].token = k)
    BY <1>5, <2>2, SoundHere DEF Begun
  <2>3. QED
    BY <2>1, <2>2
<1>6. QED
  BY <1>2, <1>3, <1>4, <1>5

LEMMA RunningKeeps ==
    ASSUME Inv, NEW k \in Claims, k <= claims, run[job[k].occurrence].status = "dispatching"
    PROVE  Keeps([DB EXCEPT !.run[job[k].occurrence] = Running(k)])
<1>1. /\ Sound(DB, claims, Occ) /\ claims \in Token /\ job[k].occurrence \in Occurrences
      /\ DB.run = run /\ Occ[k] = job[k].occurrence
  BY DEF Inv, OtherTypes, Sound, DB, Occ
<1>2. QED
  BY <1>1, RunningSound DEF Keeps, Running

LEMMA MarkedKeeps ==
    ASSUME Inv, NEW k \in Claims, job[k].at = "mark"
    PROVE  Keeps(Marked(k))
<1>1. k <= claims
  BY DEF Inv, JobsPlaced
<1>2. QED
  BY <1>1, RunningKeeps, SoundHere DEF Marked, Markable

LEMMA PromotedKeeps ==
    ASSUME Inv, NEW k \in Claims, turn[k] # "none"
    PROVE  Keeps(Promoted(k)) /\ Keeps(Finish(Promoted(k), k, FALSE))
<1>1. k <= claims
  BY DEF Inv, JobsPlaced
<1>2. Keeps(Promoted(k))
  BY <1>1, RunningKeeps, SoundHere DEF Promoted
<1>3. Sound(Finish(Promoted(k), k, FALSE), claims, Occ)
         /\ Follows(Promoted(k), Finish(Promoted(k), k, FALSE))
  BY <1>2, SoundHere, FinishSound DEF Keeps
<1>4. QED
  BY <1>2, <1>3, SoundHere, FollowsOn DEF Keeps, Sound

\* The run a lease covers fails with it.
LEMMA FailClaimKeeps ==
    ASSUME Inv, NEW k \in Claims, ClaimFailed(k)
    PROVE  LET o == job[k].occurrence
               own == IF run[o].token = k THEN {o} ELSE {}
           IN  Keeps(FailWith(DB, own, "failed"))
<1> DEFINE o == job[k].occurrence
           own == IF run[o].token = k THEN {o} ELSE {}
<1>1. /\ Sound(DB, claims, Occ) /\ claims \in Token /\ o \in Occurrences
      /\ DB.schedule = schedule /\ DB.run = run /\ Occ[k] = o
      /\ k # NoToken
  BY BoundsAssumption DEF Inv, OtherTypes, DB, Occ, Claims, NoToken
<1>2. schedule.status = "leased" /\ schedule.token = k
  BY DEF ClaimFailed
<1>3. ActiveIn(DB) \subseteq own
  <2> SUFFICES ASSUME NEW p \in ActiveIn(DB) PROVE p \in own
    OBVIOUS
  <2>1. p \in Occurrences /\ run[p].token = k
    BY <1>1, <1>2 DEF Sound, ActiveHolds, ActiveIn
  <2>2. Occ[k] = p
    BY <1>1, <2>1 DEF Sound, TokensTell
  <2>3. QED
    BY <1>1, <2>1, <2>2
<1>4. \A p \in own : p \in Occurrences /\ DB.run[p].status \notin Terminal
  BY <1>1, <1>2 DEF Sound, LeasedIsOpen, Terminal
<1>5. QED
  BY <1>1, <1>2, <1>3, <1>4, FailSound DEF Keeps

-----------------------------------------------------------------------------

\* A step that commits a sound transaction and takes no claim.
LEMMA Committed ==
    ASSUME Inv, NEW d, Keeps(d), Commit(d), claims' = claims, Occ' = Occ
    PROVE  Sound(DB', claims', Occ') /\ Follows(DB, DB')
<1>1. DB' = d
  BY CommitWrites DEF Keeps, Sound
<1>2. QED
  BY <1>1 DEF Keeps

\* Jobs and tables both untouched, or tables committed under untouched jobs.
LEMMA Still ==
    ASSUME UNCHANGED dbVars
    PROVE  Commit(DB)
  BY DEF dbVars, Commit, DB

LEMMA JobsStill ==
    ASSUME UNCHANGED job
    PROVE  Occ' = Occ
  BY DEF Occ

LEMMA ClaimDueSound ==
    ASSUME Inv, ClaimDue
    PROVE  Sound(DB', claims', Occ') /\ Follows(DB, DB')
<1> DEFINE swept == RevokeDestination(RecoverLease(ExpireHandoff(DB)))
           k == claims + 1
           e == TakeLease(swept, k)
<1>1. /\ Sound(DB, claims, Occ) /\ claims \in Token /\ Occ \in [Claims -> Occurrences]
      /\ job \in [Claims -> [at : JobSteps, occurrence : Occurrences, session : Token]]
  BY DEF Inv, OtherTypes, Occ
<1>2. Sound(swept, claims, Occ) /\ Follows(DB, swept)
  BY <1>1, SweptSound
<1>3. CASE Commit(swept) /\ UNCHANGED <<claims, job>>
  <2>1. Keeps(swept)
    BY <1>2 DEF Keeps
  <2>2. QED
    BY <1>3, <2>1, Committed, JobsStill
<1>4. CASE /\ k \in Claims
           /\ Commit(e)
           /\ IF schedule'.token = k
              THEN /\ claims' = k
                   /\ job' = [job EXCEPT
                          ![k].at = IF External THEN "history" ELSE "prepare",
                          ![k].occurrence = swept.schedule.next]
              ELSE UNCHANGED <<claims, job>>
  <2> DEFINE taken == [Occ EXCEPT ![k] = swept.schedule.next]
  <2>1. /\ Follows(swept, e)
        /\ e.schedule.token = k => Sound(e, k, taken)
        /\ e.schedule.token # k => Sound(e, claims, Occ)
    BY <1>1, <1>2, <1>4, TakeSound
  <2>2. e \in DBType /\ swept \in DBType /\ DB \in DBType
    BY <1>1, <1>2, <2>1 DEF Sound
  <2>3. DB' = e /\ schedule' = e.schedule
    BY <1>4, <2>2, CommitWrites DEF Commit
  <2>4. Follows(DB, e)
    BY <1>2, <2>1, <2>2, FollowsOn
  <2>5. CASE e.schedule.token = k
    <3>1. claims' = k
      BY <1>4, <2>3, <2>5
    <3>2. job' = [job EXCEPT ![k].at = IF External THEN "history" ELSE "prepare",
                             ![k].occurrence = swept.schedule.next]
      BY <1>4, <2>3, <2>5
    <3>3. Occ' = taken
      <4> HIDE DEF swept, k
      <4>1. QED
        BY <1>1, <3>2 DEF Occ
    <3>4. QED
      BY <2>1, <2>3, <2>4, <2>5, <3>1, <3>3
  <2>6. CASE e.schedule.token # k
    <3>1. claims' = claims /\ job' = job
      BY <1>4, <2>3, <2>6
    <3>2. Occ' = Occ
      BY <3>1 DEF Occ
    <3>3. QED
      BY <2>1, <2>3, <2>4, <2>6, <3>1, <3>2
  <2>7. QED
    BY <2>5, <2>6
<1>5. QED
  BY <1>3, <1>4 DEF ClaimDue

\* People edit a schedule that is not leased; the clock and the copies change little.
LEMMA PeopleSound ==
    ASSUME Inv, LeaseExpires \/ Update \/ RunNow \/ AuthorityChanges
    PROVE  Sound(DB', claims', Occ') /\ Follows(DB, DB')
<1>1. /\ Sound(DB, claims, Occ) /\ claims \in Token /\ DB \in DBType
      /\ schedule \in ScheduleType /\ run \in [Occurrences -> RunType]
      /\ snapshots \in SUBSET Occurrences /\ latest \in Occurrences /\ latest \in Nat
      /\ DB.schedule = schedule /\ DB.run = run /\ DB.snapshots = snapshots /\ DB.latest = latest
      /\ Occ' = Occ
  <2>1. Sound(DB, claims, Occ) /\ claims \in Token /\ DB \in DBType
    BY DEF Inv, OtherTypes, Sound
  <2>2. Occ' = Occ
    BY JobsStill DEF LeaseExpires, Update, RunNow, AuthorityChanges
  <2>3. QED
    BY <2>1, <2>2, Ranges DEF DB, DBType
<1>2. CASE LeaseExpires
  <2>1. /\ schedule' = [schedule EXCEPT !.live = FALSE]
        /\ run' = run /\ snapshots' = snapshots /\ latest' = latest /\ claims' = claims
    BY <1>2 DEF LeaseExpires
  <2>2. /\ schedule' \in ScheduleType /\ ~schedule'.live
        /\ schedule'.status = schedule.status /\ schedule'.token = schedule.token
        /\ schedule'.started = schedule.started /\ schedule'.next = schedule.next
    BY <1>1, <2>1 DEF ScheduleType
  <2>3. /\ DB' \in DBType
        /\ DB'.schedule = schedule' /\ DB'.run = run /\ DB'.latest = latest
    BY <1>1, <2>1, <2>2 DEF DB, DBType
  <2>4. ActiveIn(DB') = ActiveIn(DB) /\ Untried(DB') = Untried(DB)
    BY <1>1, <2>3 DEF ActiveIn, Untried
  <2>5. LeaseShape(DB') /\ NewestLease(DB', claims) /\ LeasedIsOpen(DB')
    BY <1>1, <2>2, <2>3 DEF Sound, LeaseShape, NewestLease, LeasedIsOpen
  <2>6. TokensTell(DB', claims, Occ)
    BY <1>1, <2>3 DEF Sound, TokensTell
  <2>7. ActiveHolds(DB')
    BY <1>1, <2>2, <2>3, <2>4 DEF Sound, ActiveHolds
  <2>8. Follows(DB, DB')
    BY <1>1, <2>2, <2>3, <2>4 DEF Follows
  <2>9. QED
    BY <1>1, <2>1, <2>3, <2>5, <2>6, <2>7, <2>8 DEF Sound
<1>3. CASE Update \/ RunNow
  <2>1. schedule.status \notin {"leased", "deleted"}
    BY <1>3 DEF Update, RunNow, Editable
  <2>2. ActiveIn(DB) = {} /\ schedule.token = NoToken /\ ~schedule.live /\ ~schedule.started
    BY <1>1, <2>1 DEF Sound, ActiveHolds, LeaseShape
  <2>3. run' = run /\ snapshots' = snapshots /\ claims' = claims
    BY <1>3 DEF Update, RunNow
  <2>4. /\ schedule' \in ScheduleType /\ schedule'.status # "leased"
        /\ schedule'.token = NoToken /\ ~schedule'.live /\ ~schedule'.started
        /\ latest' \in Occurrences /\ latest' <= 1 + MaxMoves + claims
    <3>1. claims \in Nat /\ MaxMoves \in Nat /\ latest <= 1 + MaxMoves + claims /\ 0 \in 0..MaxAttempts
      BY <1>1, Ranges, BoundsAssumption DEF Sound, NewestLease
    <3>2. CASE Update
      <4>1. PICK enabled \in {"keep", "on", "off"}, moved \in BOOLEAN, next \in 1..latest + 1 :
                 /\ next > latest => latest <= MaxMoves
                 /\ schedule' = [schedule EXCEPT
                        !.status = CASE enabled = "on" -> "active"
                                     [] enabled = "off" -> "paused"
                                     [] OTHER -> schedule.status,
                        !.next = next,
                        !.attempts = IF moved \/ enabled = "on" THEN 0 ELSE schedule.attempts]
                 /\ latest' = IF next > latest THEN next ELSE latest
        BY <3>2 DEF Update
      <4>2. next \in Occurrences /\ latest' \in Occurrences /\ latest' <= 1 + MaxMoves + claims
        BY <1>1, <3>1, <4>1, BoundsAssumption DEF Occurrences
      <4>3. schedule' \in ScheduleType
        BY <1>1, <3>1, <4>1, <4>2 DEF ScheduleType, ScheduleStatuses
      <4>4. /\ schedule'.status # "leased" /\ schedule'.token = NoToken
            /\ ~schedule'.live /\ ~schedule'.started
        BY <1>1, <2>1, <2>2, <4>1 DEF ScheduleType
      <4>5. QED
        BY <4>2, <4>3, <4>4
    <3>3. CASE RunNow
      <4>1. /\ schedule' = [schedule EXCEPT !.status = "active", !.next = latest + 1, !.attempts = 0]
            /\ latest' = latest + 1 /\ latest <= MaxMoves
        BY <3>3 DEF RunNow
      <4>2. latest + 1 \in Occurrences /\ latest + 1 <= 1 + MaxMoves + claims
        BY <1>1, <3>1, <4>1, BoundsAssumption DEF Occurrences
      <4>3. QED
        BY <1>1, <2>2, <3>1, <4>1, <4>2 DEF ScheduleType, ScheduleStatuses
    <3>4. QED
      BY <1>3, <3>2, <3>3
  <2>5. /\ DB' \in DBType
        /\ DB'.schedule = schedule' /\ DB'.run = run /\ DB'.latest = latest'
    BY <1>1, <2>3, <2>4 DEF DB, DBType
  <2>6. ActiveIn(DB') = {} /\ Untried(DB') = Untried(DB)
    BY <1>1, <2>2, <2>5 DEF ActiveIn, Untried
  <2>7. LeaseShape(DB') /\ NewestLease(DB', claims) /\ LeasedIsOpen(DB') /\ ActiveHolds(DB')
    BY <2>4, <2>5, <2>6 DEF LeaseShape, NewestLease, LeasedIsOpen, ActiveHolds
  <2>8. TokensTell(DB', claims, Occ)
    BY <1>1, <2>5 DEF Sound, TokensTell
  <2>9. Follows(DB, DB')
    BY <1>1, <2>1, <2>5, <2>6 DEF Follows
  <2>10. QED
    BY <1>1, <2>3, <2>5, <2>7, <2>8, <2>9 DEF Sound
<1>4. CASE AuthorityChanges
  BY <1>1, <1>4, SoundHere, Still, Committed DEF AuthorityChanges
<1>5. QED
  BY <1>2, <1>3, <1>4

\* Deleting forgets the runs, none of which is active.
LEMMA DeleteSound ==
    ASSUME Inv, Delete
    PROVE  Sound(DB', claims', Occ')
<1>1. /\ Sound(DB, claims, Occ) /\ claims \in Token
      /\ schedule \in ScheduleType /\ latest \in Occurrences
      /\ DB.schedule = schedule /\ DB.latest = latest
  BY DEF Inv, OtherTypes, Sound, DB, DBType
<1>2. /\ schedule.status \notin {"leased", "deleted"}
      /\ schedule' = [schedule EXCEPT !.status = "deleted"]
      /\ run' = [o \in Occurrences |-> NoRun] /\ snapshots' = {} /\ latest' = latest
      /\ claims' = claims
  BY DEF Delete, Editable
<1>3. Occ' = Occ
  BY JobsStill DEF Delete
<1>4. /\ schedule' \in ScheduleType /\ schedule'.status = "deleted"
      /\ schedule'.token = NoToken /\ ~schedule'.live /\ ~schedule'.started
  BY <1>1, <1>2 DEF Sound, LeaseShape, ScheduleType, ScheduleStatuses
<1>5. NoRun \in RunType /\ NoRun.token = NoToken /\ NoRun.eve = NoToken /\ NoRun.status = "absent"
  BY Ranges DEF NoRun, RunType, RunStatuses, NoToken
<1>6. /\ DB' \in DBType
      /\ DB'.schedule = schedule' /\ DB'.run = run' /\ DB'.latest = latest
  BY <1>1, <1>2, <1>4, <1>5 DEF DB, DBType
<1>7. \A o \in Occurrences : DB'.run[o] = NoRun
  BY <1>2, <1>6
<1>8. ActiveIn(DB') = {}
  BY <1>5, <1>7 DEF ActiveIn
<1>9. LeaseShape(DB') /\ NewestLease(DB', claims) /\ LeasedIsOpen(DB') /\ ActiveHolds(DB')
  BY <1>1, <1>4, <1>6, <1>8 DEF Sound, LeaseShape, NewestLease, LeasedIsOpen, ActiveHolds
<1>10. TokensTell(DB', claims, Occ)
  BY <1>5, <1>7 DEF TokensTell
<1>11. QED
  BY <1>2, <1>3, <1>6, <1>9, <1>10 DEF Sound

LEMMA HistorySound ==
    ASSUME Inv, NEW k \in Claims, PrepareHistory(k)
    PROVE  Sound(DB', claims', Occ') /\ Follows(DB, DB')
<1>1. /\ Sound(DB, claims, Occ) /\ OtherTypes /\ claims' = claims
      /\ schedule' = schedule /\ run' = run /\ latest' = latest
      /\ schedule \in ScheduleType /\ run \in [Occurrences -> RunType] /\ latest \in Occurrences
      /\ snapshots \in SUBSET Occurrences
      /\ DB.schedule = schedule /\ DB.run = run /\ DB.latest = latest
      /\ job[k].occurrence \in Occurrences
  BY DEF Inv, OtherTypes, PrepareHistory, Sound, DB, DBType
<1>2. Occ' = Occ
  BY <1>1, OccKept DEF PrepareHistory, Goto
<1>3. snapshots' \in SUBSET Occurrences
  BY <1>1 DEF PrepareHistory
<1>4. DB' \in DBType /\ DB'.schedule = schedule /\ DB'.run = run /\ DB'.latest = latest
  BY <1>1, <1>3 DEF DB, DBType
<1>5. ActiveIn(DB') = ActiveIn(DB) /\ Untried(DB') = Untried(DB)
  BY <1>1, <1>4 DEF ActiveIn, Untried
<1>6. /\ LeaseShape(DB') /\ NewestLease(DB', claims) /\ LeasedIsOpen(DB')
      /\ ActiveHolds(DB') /\ TokensTell(DB', claims, Occ)
  BY <1>1, <1>4, <1>5 DEF Sound, LeaseShape, NewestLease, LeasedIsOpen, ActiveHolds, TokensTell
<1>7. Follows(DB, DB')
  BY <1>1, <1>4, <1>5 DEF Follows
<1>8. QED
  BY <1>1, <1>2, <1>4, <1>6, <1>7 DEF Sound

LEMMA DispatcherSound ==
    ASSUME Inv, NEW k \in Claims, Dispatcher(k) \/ BeginFails(k) \/ MarkFails(k) \/ JobDies(k)
    PROVE  Sound(DB', claims', Occ') /\ Follows(DB, DB')
<1>1. OtherTypes /\ Keeps(DB)
  BY SoundHere DEF Inv
<1>2. CASE PrepareHistory(k)
  BY <1>2, HistorySound
<1>3. CASE PrepareSession(k)
  <2>1. claims' = claims /\ Commit(DB)
    BY <1>3, Still DEF PrepareSession
  <2>2. Occ' = Occ
    BY <1>1, <1>3, OccKept DEF PrepareSession, Goto
  <2>3. QED
    BY <1>1, <2>1, <2>2, Committed
<1>4. CASE BeginDispatch(k)
  <2>1. Occ' = Occ
    BY <1>1, <1>4, OccKept DEF BeginDispatch, Goto
  <2>2. QED
    BY <1>4, <2>1, BegunKeeps, Committed DEF BeginDispatch
<1>5. CASE BeginFails(k)
  <2>1. Occ' = Occ
    BY <1>1, <1>5, OccKept DEF BeginFails, Goto
  <2>2. QED
    BY <1>1, <1>5, <2>1, BegunKeeps, Committed DEF BeginFails
<1>6. CASE Discard(k)
  <2>1. Occ' = Occ
    BY <1>1, <1>6, OccKept DEF Discard, Goto
  <2>2. QED
    BY <1>1, <1>6, <2>1, Still, Committed DEF Discard
<1>7. CASE Send(k)
  <2>1. Occ' = Occ
    BY <1>1, <1>7, OccKept DEF Send, Goto
  <2>2. QED
    BY <1>1, <1>7, <2>1, Still, Committed DEF Send
<1>8. CASE MarkRunning(k)
  <2>1. Occ' = Occ
    BY <1>1, <1>8, OccKept DEF MarkRunning, Goto
  <2>2. QED
    BY <1>8, <2>1, MarkedKeeps, Committed DEF MarkRunning
<1>9. CASE MarkFails(k)
  <2>1. Occ' = Occ
    BY <1>1, <1>9, OccKept DEF MarkFails, Goto
  <2>2. QED
    BY <1>1, <1>9, <2>1, MarkedKeeps, Committed DEF MarkFails
<1>10. CASE FailClaim(k)
  <2>1. Occ' = Occ
    BY <1>1, <1>10, OccKept DEF FailClaim, Goto
  <2>2. claims' = claims
    BY <1>10 DEF FailClaim
  <2>3. CASE ClaimFailed(k)
    <3> DEFINE own == IF run[job[k].occurrence].token = k THEN {job[k].occurrence} ELSE {}
    <3>1. Commit(FailWith(DB, own, "failed"))
      BY <1>10, <2>3 DEF FailClaim
    <3>2. QED
      BY <2>1, <2>2, <2>3, <3>1, FailClaimKeeps, Committed
  <2>4. CASE ~ClaimFailed(k)
    BY <1>1, <1>10, <2>1, <2>2, <2>4, Committed DEF FailClaim
  <2>5. QED
    BY <2>3, <2>4
<1>11. CASE JobDies(k)
  <2>1. Occ' = Occ
    BY <1>1, <1>11, OccKept DEF JobDies, Goto
  <2>2. QED
    BY <1>1, <1>11, <2>1, Still, Committed DEF JobDies
<1>12. QED
  BY <1>2, <1>3, <1>4, <1>5, <1>6, <1>7, <1>8, <1>9, <1>10, <1>11 DEF Dispatcher

LEMMA TurnSound ==
    ASSUME Inv, NEW k \in Claims,
           Turn(k) \/ SessionFails(k) \/ HandlerThrows(k) \/ HandlerReplayed(k)
    PROVE  Sound(DB', claims', Occ') /\ Follows(DB, DB')
<1>1. Keeps(DB) /\ Keeps(SealTurn(k)) /\ Keeps(Finish(DB, k, TRUE))
  BY SoundHere
<1>2. claims' = claims /\ Occ' = Occ
  <2>1. claims' = claims /\ job' = job
    BY DEF Turn, TurnStarts, AnswerWithheld, AnswerSuspended, AnswerAuthorized, StartDelivery,
           TelegramReplies, CompleteDelivered, TurnCompletes, TurnFails,
           SessionFails, HandlerThrows, HandlerReplayed
  <2>2. QED
    BY <2>1, JobsStill
<1>3. CASE TurnStarts(k) \/ AnswerWithheld(k) \/ AnswerAuthorized(k) \/ HandlerReplayed(k)
  BY <1>1, <1>2, <1>3, Still, Committed
     DEF TurnStarts, AnswerWithheld, AnswerAuthorized, HandlerReplayed
<1>4. CASE AnswerSuspended(k) \/ TurnCompletes(k) \/ TurnFails(k)
  BY <1>1, <1>2, <1>4, Committed DEF AnswerSuspended, TurnCompletes, TurnFails
<1>5. CASE StartDelivery(k)
  <2>1. Commit(DB) \/ Commit(SealTurn(k))
    BY <1>5, Still DEF StartDelivery, dbVars
  <2>2. QED
    BY <1>1, <1>2, <2>1, Committed
<1>6. CASE TelegramReplies(k)
  <2>1. Commit(DB) \/ Commit(SealTurn(k))
    BY <1>6, Still DEF TelegramReplies
  <2>2. QED
    BY <1>1, <1>2, <2>1, Committed
<1>7. CASE CompleteDelivered(k)
  BY <1>1, <1>2, <1>7, Committed DEF CompleteDelivered
<1>8. CASE SessionFails(k)
  <2>1. turn[k] # "none" /\ Commit(Finish(Promoted(k), k, FALSE))
    BY <1>8 DEF SessionFails
  <2>2. QED
    BY <1>2, <2>1, PromotedKeeps, Committed
<1>9. CASE HandlerThrows(k)
  <2>1. Commit(DB) \/ Commit(SealTurn(k))
    BY <1>9 DEF HandlerThrows
  <2>2. QED
    BY <1>1, <1>2, <2>1, Committed
<1>10. QED
  BY <1>3, <1>4, <1>5, <1>6, <1>7, <1>8, <1>9 DEF Turn

LEMMA DBStep ==
    ASSUME Inv, [Next]_vars
    PROVE  /\ Sound(DB', claims', Occ')
           /\ Follows(DB, DB') \/ Delete
<1>1. CASE ClaimDue
  BY <1>1, ClaimDueSound
<1>2. CASE LeaseExpires \/ Update \/ RunNow \/ AuthorityChanges
  BY <1>2, PeopleSound
<1>3. CASE Delete
  BY <1>3, DeleteSound
<1>4. ASSUME NEW k \in Claims, Dispatcher(k) \/ Turn(k) \/ Faulty(k)
      PROVE  Sound(DB', claims', Occ') /\ Follows(DB, DB')
  BY <1>4, DispatcherSound, TurnSound DEF Faulty
<1>5. CASE UNCHANGED vars
  <2>1. UNCHANGED dbVars /\ UNCHANGED job /\ claims' = claims
    BY <1>5 DEF vars
  <2>2. QED
    BY <2>1, Still, JobsStill, SoundHere, Committed
<1>6. QED
  BY <1>1, <1>2, <1>3, <1>4, <1>5 DEF Next, People

-----------------------------------------------------------------------------
(* The jobs, the turns and what people see. *)

JobType == [at : JobSteps, occurrence : Occurrences, session : Token]
SessionType == [status : {"none", "open", "retired"}, occurrence : Occurrences, eve : Token]

\* A job that was taken moves to a step whose session it has.
LEMMA JobMoves ==
    ASSUME OtherTypes, JobsPlaced, NEW k \in Claims, job[k].at # "none",
           NEW step \in JobSteps \ {"none"}, Goto(k, step),
           step \in {"begin", "send", "mark", "failHandoff", "discard"} => job[k].session \in Claims,
           claims' = claims,
           \A c \in Claims : c = k \/ turn'[c] = turn[c],
           turn'[k] = turn[k] \/ job[k].session \in Claims
    PROVE  job' \in [Claims -> JobType] /\ JobsPlaced'
<1>1. job \in [Claims -> JobType]
  BY DEF OtherTypes, JobType
<1>2. \A c \in Claims : /\ job'[c].session = job[c].session
                        /\ job'[c].occurrence = job[c].occurrence
                        /\ job'[c].at = IF c = k THEN step ELSE job[c].at
                        /\ job'[c] \in JobType
  BY <1>1 DEF Goto, JobType
<1>3. job' \in [Claims -> JobType]
  BY <1>1, <1>2 DEF Goto
<1>4. JobsPlaced'
  BY <1>2 DEF JobsPlaced
<1>5. QED
  BY <1>3, <1>4

\* The same where the step needs no session or the claim has one already.
LEMMA JobGoes ==
    ASSUME OtherTypes, JobsPlaced, NEW k \in Claims, job[k].at # "none",
           NEW step \in {"prepare", "failHistory", "send", "discard", "mark", "failHandoff", "done"},
           Goto(k, step), claims' = claims, turn' = turn,
           \/ step \in {"prepare", "failHistory", "done"}
           \/ job[k].at \in {"begin", "send", "mark", "failHandoff", "discard"}
    PROVE  job' \in [Claims -> JobType] /\ JobsPlaced'
<1>1. step \in JobSteps \ {"none"}
  BY DEF JobSteps
<1>2. step \in {"begin", "send", "mark", "failHandoff", "discard"} => job[k].session \in Claims
  BY DEF JobsPlaced
<1>3. \A c \in Claims : turn'[c] = turn[c]
  OBVIOUS
<1>4. QED
  BY <1>1, <1>2, <1>3, JobMoves DEF Goto

\* Retiring, opening or binding a session leaves it one.
LEMMA SessionMoves ==
    ASSUME OtherTypes, NEW s \in Claims, NEW t \in SessionType,
           session' = [session EXCEPT ![s] = t]
    PROVE  session' \in [Claims -> SessionType]
  BY DEF OtherTypes, SessionType

LEMMA DispatcherTypes ==
    ASSUME OtherTypes, JobsPlaced, NEW k \in Claims,
           Dispatcher(k) \/ BeginFails(k) \/ MarkFails(k) \/ JobDies(k)
    PROVE  OtherTypes' /\ JobsPlaced'
<1>1. /\ job[k] \in JobType
      /\ \A s \in Claims : session[s] \in SessionType
  BY DEF OtherTypes, JobType, SessionType
<1>2. faults' \in 0..MaxFaults
  BY BoundsAssumption
     DEF Dispatcher, PrepareHistory, PrepareSession, BeginDispatch, Discard, Send, MarkRunning,
         FailClaim, BeginFails, MarkFails, JobDies, Fault, OtherTypes
<1>3. CASE PrepareHistory(k)
  <2>1. /\ Goto(k, "prepare") \/ Goto(k, "failHistory")
        /\ job[k].at # "none" /\ claims' = claims /\ turn' = turn
    BY <1>3 DEF PrepareHistory
  <2>2. job' \in [Claims -> JobType] /\ JobsPlaced'
    BY <2>1, JobGoes
  <2>3. OtherTypes'
    BY <1>3, <2>2 DEF OtherTypes, JobType, PrepareHistory, chatVars, envVars
  <2>4. QED
    BY <2>2, <2>3
<1>4. CASE PrepareSession(k)
  <2>1. CASE Goto(k, "done") /\ UNCHANGED session
    <3>0. job[k].at # "none" /\ claims' = claims /\ turn' = turn
      BY <1>4 DEF PrepareSession
    <3>1. job' \in [Claims -> JobType] /\ JobsPlaced'
      BY <2>1, <3>0, JobGoes
    <3>2. OtherTypes'
      BY <1>4, <2>1, <3>1 DEF OtherTypes, JobType, PrepareSession, chatVars, envVars
    <3>3. QED
      BY <3>1, <3>2
  <2>2. CASE \E s \in Claims :
              /\ job' = [job EXCEPT ![k].at = "begin", ![k].session = s]
              /\ \/ session' = session
                 \/ s = k /\ session' = [session EXCEPT ![k].status = "open",
                                                       ![k].occurrence = job[k].occurrence]
    <3>0. PICK s \in Claims :
              /\ job' = [job EXCEPT ![k].at = "begin", ![k].session = s]
              /\ \/ session' = session
                 \/ s = k /\ session' = [session EXCEPT ![k].status = "open",
                                                       ![k].occurrence = job[k].occurrence]
      BY <2>2
    <3>1. \A c \in Claims :
              job'[c] = IF c = k THEN [job[c] EXCEPT !.at = "begin", !.session = s] ELSE job[c]
      BY <3>0 DEF OtherTypes
    <3>2. /\ [job[k] EXCEPT !.at = "begin", !.session = s] \in JobType
          /\ [job[k] EXCEPT !.at = "begin", !.session = s].at = "begin"
          /\ [job[k] EXCEPT !.at = "begin", !.session = s].session = s
      BY <1>1, Ranges DEF JobType, JobSteps
    <3>3. job' \in [Claims -> JobType]
      BY <3>0, <3>1, <3>2 DEF OtherTypes, JobType
    <3>4. session' \in [Claims -> SessionType]
      <4>1. CASE session' = session
        BY <4>1 DEF OtherTypes, SessionType
      <4>2. CASE session' = [session EXCEPT ![k].status = "open",
                                            ![k].occurrence = job[k].occurrence]
        <5>1. [session[k] EXCEPT !.status = "open", !.occurrence = job[k].occurrence] \in SessionType
          BY <1>1 DEF SessionType, JobType
        <5>2. session' = [session EXCEPT ![k] =
                             [session[k] EXCEPT !.status = "open", !.occurrence = job[k].occurrence]]
          BY <4>2 DEF OtherTypes
        <5>3. QED
          BY <5>1, <5>2, SessionMoves
      <4>3. QED
        BY <3>0, <4>1, <4>2
    <3>5. OtherTypes'
      BY <1>4, <3>3, <3>4 DEF OtherTypes, JobType, SessionType, PrepareSession, chatVars, envVars
    <3>6. claims' = claims /\ turn' = turn /\ job[k].at # "none"
      BY <1>4 DEF PrepareSession
    <3>7. JobsPlaced'
      <4> SUFFICES ASSUME NEW c \in Claims
                   PROVE  /\ job'[c].at # "none" => c <= claims'
                          /\ turn'[c] # "none" => job'[c].at # "none"
                          /\ job'[c].at \in {"begin", "send", "mark", "failHandoff", "discard"}
                                => job'[c].session \in Claims
                          /\ turn'[c] # "none" => job'[c].session \in Claims
        BY DEF JobsPlaced
      <4>1. CASE c = k
        BY <3>1, <3>2, <3>6, <4>1 DEF JobsPlaced
      <4>2. CASE c # k
        BY <3>1, <3>6, <4>2 DEF JobsPlaced
      <4>3. QED
        BY <4>1, <4>2
    <3>8. QED
      BY <3>5, <3>7
  <2>3. \/ Goto(k, "done") /\ UNCHANGED session
        \/ \E s \in Claims :
              /\ job' = [job EXCEPT ![k].at = "begin", ![k].session = s]
              /\ \/ session' = session
                 \/ s = k /\ session' = [session EXCEPT ![k].status = "open",
                                                       ![k].occurrence = job[k].occurrence]
    BY <1>4 DEF PrepareSession
  <2>4. QED
    BY <2>1, <2>2, <2>3
<1>5. CASE BeginDispatch(k) \/ BeginFails(k)
  <2>1. /\ Goto(k, "send") \/ Goto(k, "discard")
        /\ job[k].at = "begin" /\ claims' = claims /\ turn' = turn
    BY <1>5 DEF BeginDispatch, BeginFails
  <2>2. job' \in [Claims -> JobType] /\ JobsPlaced'
    BY <2>1, JobGoes
  <2>3. OtherTypes'
    BY <1>2, <1>5, <2>2 DEF OtherTypes, JobType, BeginDispatch, BeginFails, chatVars, envVars
  <2>4. QED
    BY <2>2, <2>3
<1>6. CASE Discard(k)
  <2>1. job[k].session \in Claims
    BY <1>6 DEF Discard, JobsPlaced
  <2>6. Goto(k, "done") /\ job[k].at = "discard" /\ claims' = claims /\ turn' = turn
    BY <1>6 DEF Discard
  <2>2. job' \in [Claims -> JobType] /\ JobsPlaced'
    BY <2>6, JobGoes
  <2>3. session' \in [Claims -> SessionType]
    <3> DEFINE s == job[k].session
    <3>1. CASE session' = [session EXCEPT ![s].status = "retired"]
      <4>1. [session[s] EXCEPT !.status = "retired"] \in SessionType
        BY <1>1, <2>1 DEF SessionType
      <4>2. session' = [session EXCEPT ![s] = [session[s] EXCEPT !.status = "retired"]]
        BY <3>1 DEF OtherTypes
      <4>3. QED
        BY <2>1, <4>1, <4>2, SessionMoves
    <3>2. CASE session' = session
      BY <3>2 DEF OtherTypes, SessionType
    <3>3. QED
      BY <1>6, <3>1, <3>2 DEF Discard
  <2>4. OtherTypes'
    BY <1>6, <2>2, <2>3 DEF OtherTypes, JobType, SessionType, Discard, chatVars, envVars
  <2>5. QED
    BY <2>2, <2>4
<1>7. CASE Send(k)
  <2>1. \E step \in {"mark", "failHandoff"} : Goto(k, step)
    BY <1>7 DEF Send
  <2>2. job[k].session \in Claims /\ job[k].at # "none"
    BY <1>7 DEF Send, JobsPlaced
  <2>3. turn' \in [Claims -> TurnSteps] /\ \A c \in Claims : c = k \/ turn'[c] = turn[c]
    BY <1>7 DEF Send, OtherTypes, TurnSteps
  <2>4. handed' \in [Occurrences -> Nat]
    BY <1>7 DEF Send, OtherTypes
  <2>5. claims' = claims
    BY <1>7 DEF Send
  <2>6. job' \in [Claims -> JobType] /\ JobsPlaced'
    BY <2>1, <2>2, <2>3, <2>5, JobMoves DEF JobSteps, Goto
  <2>7. OtherTypes'
    BY <1>2, <1>7, <2>3, <2>4, <2>6 DEF OtherTypes, JobType, Send, envVars
  <2>8. QED
    BY <2>6, <2>7
<1>8. CASE MarkRunning(k) \/ MarkFails(k)
  <2>1. /\ Goto(k, "done") \/ Goto(k, "failHandoff")
        /\ job[k].at = "mark" /\ claims' = claims /\ turn' = turn
    BY <1>8 DEF MarkRunning, MarkFails
  <2>2. job' \in [Claims -> JobType] /\ JobsPlaced'
    BY <2>1, JobGoes
  <2>3. OtherTypes'
    BY <1>2, <1>8, <2>2 DEF OtherTypes, JobType, MarkRunning, MarkFails, chatVars, envVars
  <2>4. QED
    BY <2>2, <2>3
<1>9. CASE FailClaim(k)
  <2>1. \/ Goto(k, "done")
        \/ Goto(k, "discard") /\ job[k].at = "failHandoff"
    BY <1>9 DEF FailClaim
  <2>2. job[k].at # "none" /\ claims' = claims /\ turn' = turn
    BY <1>9 DEF FailClaim
  <2>3. job' \in [Claims -> JobType] /\ JobsPlaced'
    BY <2>1, <2>2, JobGoes
  <2>4. OtherTypes'
    BY <1>9, <2>3 DEF OtherTypes, JobType, FailClaim, chatVars, envVars
  <2>5. QED
    BY <2>3, <2>4
<1>10. CASE JobDies(k)
  <2>4. Goto(k, "done") /\ job[k].at # "none" /\ claims' = claims /\ turn' = turn
    BY <1>10 DEF JobDies
  <2>1. job' \in [Claims -> JobType] /\ JobsPlaced'
    BY <2>4, JobGoes
  <2>2. OtherTypes'
    BY <1>2, <1>10, <2>1 DEF OtherTypes, JobType, JobDies, chatVars, envVars
  <2>3. QED
    BY <2>1, <2>2
<1>11. QED
  BY <1>3, <1>4, <1>5, <1>6, <1>7, <1>8, <1>9, <1>10 DEF Dispatcher

LEMMA TurnTypes ==
    ASSUME OtherTypes, JobsPlaced, NEW k \in Claims,
           Turn(k) \/ SessionFails(k) \/ HandlerThrows(k) \/ HandlerReplayed(k)
    PROVE  OtherTypes' /\ JobsPlaced'
<1> USE DEF OtherTypes, JobsPlaced, TurnSteps, TurnGoto, chatVars, envVars
<1>1. CASE TurnStarts(k)
  <2> DEFINE s == job[k].session
  <2>1. s \in Claims
    BY <1>1 DEF TurnStarts
  <2>2. session' \in [Claims -> SessionType]
    <3>1. [session[s] EXCEPT !.eve = k] \in SessionType
      BY <2>1, Ranges DEF SessionType
    <3>2. session' = session \/ session' = [session EXCEPT ![s] = [session[s] EXCEPT !.eve = k]]
      BY <1>1 DEF TurnStarts
    <3>3. QED
      BY <2>1, <3>1, <3>2, SessionMoves DEF SessionType
  <2>3. turn' \in [Claims -> TurnSteps] /\ job' = job /\ claims' = claims
    BY <1>1 DEF TurnStarts
  <2>4. \A c \in Claims : turn'[c] # "none" => turn[c] # "none"
    BY <1>1 DEF TurnStarts
  <2>5. QED
    BY <1>1, <2>2, <2>3, <2>4 DEF TurnStarts, SessionType
<1>2. CASE AnswerWithheld(k)
  BY <1>2 DEF AnswerWithheld
<1>3. CASE AnswerSuspended(k)
  BY <1>3 DEF AnswerSuspended
<1>4. CASE AnswerAuthorized(k)
  BY <1>4 DEF AnswerAuthorized
<1>5. CASE StartDelivery(k)
  BY <1>5 DEF StartDelivery
<1>6. CASE TelegramReplies(k)
  BY <1>6 DEF TelegramReplies
<1>7. CASE CompleteDelivered(k)
  BY <1>7 DEF CompleteDelivered
<1>8. CASE TurnCompletes(k)
  <2>1. session' \in [Claims -> SessionType]
    <3>1. RetireOpen(k, {job[k].session})
      BY <1>8 DEF TurnCompletes
    <3>2. \A s \in Claims : /\ session[s] \in SessionType
                            /\ [session[s] EXCEPT !.status = "retired", !.eve = k] \in SessionType
      BY Ranges DEF SessionType
    <3>3. \A s \in Claims : (IF s \in {job[k].session} /\ session[s].status = "open" /\ session[s].eve <= k
                             THEN [session[s] EXCEPT !.status = "retired", !.eve = k]
                             ELSE session[s]) \in SessionType
      BY <3>2
    <3>4. QED
      BY <3>1, <3>3 DEF RetireOpen
  <2>2. turn' \in [Claims -> TurnSteps] /\ job' = job /\ claims' = claims
    BY <1>8 DEF TurnCompletes
  <2>3. \A c \in Claims : turn'[c] # "none" => turn[c] # "none"
    BY <1>8 DEF TurnCompletes
  <2>4. /\ outbox' = outbox /\ handed' = handed /\ delivered' = delivered
        /\ notices' = notices /\ receipts' = receipts
        /\ authority' = authority /\ proven' = proven /\ faults' = faults
    BY <1>8 DEF TurnCompletes
  <2>5. OtherTypes'
    BY <2>1, <2>2, <2>4 DEF SessionType
  <2>6. JobsPlaced'
    BY <2>2, <2>3
  <2>7. QED
    BY <2>5, <2>6
<1>9. CASE TurnFails(k) \/ SessionFails(k)
  <2>1. session' \in [Claims -> SessionType]
    <3>1. \E open \in SUBSET Claims : RetireOpen(k, open)
      BY <1>9 DEF TurnFails, SessionFails
    <3>2. \A s \in Claims : /\ session[s] \in SessionType
                            /\ [session[s] EXCEPT !.status = "retired", !.eve = k] \in SessionType
      BY Ranges DEF SessionType
    <3>3. PICK open \in SUBSET Claims : RetireOpen(k, open)
      BY <3>1
    <3>4. \A s \in Claims : (IF s \in open /\ session[s].status = "open" /\ session[s].eve <= k
                             THEN [session[s] EXCEPT !.status = "retired", !.eve = k]
                             ELSE session[s]) \in SessionType
      BY <3>2
    <3>5. QED
      BY <3>3, <3>4 DEF RetireOpen
  <2>2. notices' \in [Occurrences -> Nat]
    <3>1. \E shown \in BOOLEAN : Notice(k, shown)
      BY <1>9 DEF TurnFails, SessionFails
    <3>2. QED
      BY <3>1 DEF Notice
  <2>3. turn' \in [Claims -> TurnSteps] /\ job' = job /\ claims' = claims
    BY <1>9 DEF TurnFails, SessionFails
  <2>4. faults' \in 0..MaxFaults
    <3>1. faults' = faults \/ Fault
      BY <1>9 DEF TurnFails, SessionFails
    <3>2. QED
      BY <3>1, BoundsAssumption DEF Fault
  <2>5. \A c \in Claims : turn'[c] # "none" => turn[c] # "none"
    BY <1>9 DEF TurnFails, SessionFails
  <2>6. OtherTypes'
    BY <1>9, <2>1, <2>2, <2>3, <2>4 DEF TurnFails, SessionFails, SessionType
  <2>7. JobsPlaced'
    BY <2>3, <2>5
  <2>8. QED
    BY <2>6, <2>7
<1>11. CASE HandlerThrows(k)
  BY <1>11, BoundsAssumption DEF HandlerThrows, Fault
<1>12. CASE HandlerReplayed(k)
  BY <1>12, BoundsAssumption DEF HandlerReplayed, Fault
<1>13. QED
  BY <1>1, <1>2, <1>3, <1>4, <1>5, <1>6, <1>7, <1>8, <1>9, <1>11, <1>12 DEF Turn

LEMMA ClaimDueTypes ==
    ASSUME Inv, ClaimDue
    PROVE  OtherTypes' /\ JobsPlaced'
<1>1. OtherTypes /\ JobsPlaced
  BY DEF Inv
<1>2. UNCHANGED <<session, turn, chatVars, envVars, faults>>
  BY DEF ClaimDue
<1>3. CASE UNCHANGED <<claims, job>>
  BY <1>1, <1>2, <1>3 DEF OtherTypes, JobsPlaced, chatVars, envVars
<1>4. CASE \E o \in Occurrences, step \in {"history", "prepare"} :
              /\ claims + 1 \in Claims /\ claims' = claims + 1
              /\ job' = [job EXCEPT ![claims + 1].at = step, ![claims + 1].occurrence = o]
  <2>1. PICK o \in Occurrences, step \in {"history", "prepare"} :
              /\ claims + 1 \in Claims /\ claims' = claims + 1
              /\ job' = [job EXCEPT ![claims + 1].at = step, ![claims + 1].occurrence = o]
    BY <1>4
  <2>5. job' \in [Claims -> JobType]
    <3>1. [job[claims + 1] EXCEPT !.at = step, !.occurrence = o] \in JobType
      BY <1>1, <2>1 DEF OtherTypes, JobType, JobSteps
    <3>2. job' = [job EXCEPT ![claims + 1] = [job[claims + 1] EXCEPT !.at = step, !.occurrence = o]]
      BY <1>1, <2>1 DEF OtherTypes
    <3>3. QED
      BY <1>1, <2>1, <3>1, <3>2 DEF OtherTypes, JobType
  <2>2. OtherTypes'
    BY <1>1, <1>2, <2>1, <2>5, Ranges DEF OtherTypes, JobType, chatVars, envVars
  <2>3. JobsPlaced'
    <3>1. claims \in Nat /\ \A k \in Claims : k \in Nat
      BY <1>1, Ranges DEF OtherTypes
    <3>2. \A k \in Claims : /\ k = claims + 1 => job'[k].at = step
                            /\ k # claims + 1 => job'[k] = job[k]
      <4>1. job[claims + 1] \in JobType
        BY <1>1, <2>1 DEF OtherTypes, JobType
      <4>2. job' = [job EXCEPT ![claims + 1] = [job[claims + 1] EXCEPT !.at = step, !.occurrence = o]]
        BY <1>1, <2>1 DEF OtherTypes
      <4>3. [job[claims + 1] EXCEPT !.at = step, !.occurrence = o].at = step
        BY <4>1 DEF JobType
      <4>4. QED
        BY <1>1, <2>1, <4>2, <4>3 DEF OtherTypes
    <3>3. turn' = turn
      BY <1>2
    <3>4. turn[claims + 1] = "none"
      BY <1>1, <2>1, <3>1 DEF JobsPlaced
    <3> SUFFICES ASSUME NEW k \in Claims
                 PROVE  /\ job'[k].at # "none" => k <= claims'
                        /\ turn'[k] # "none" => job'[k].at # "none"
                        /\ job'[k].at \in {"begin", "send", "mark", "failHandoff", "discard"}
                              => job'[k].session \in Claims
                        /\ turn'[k] # "none" => job'[k].session \in Claims
      BY DEF JobsPlaced
    <3>5. CASE k = claims + 1
      <4>1. job'[k].at = step /\ turn'[k] = "none" /\ k <= claims'
        <5>1. turn'[k] = "none"
          BY <3>3, <3>4, <3>5
        <5>2. k <= claims'
          BY <2>1, <3>1, <3>5
        <5>3. job'[k].at = step
          BY <3>2, <3>5
        <5>4. QED
          BY <5>1, <5>2, <5>3
      <4>2. step # "none" /\ step \notin {"begin", "send", "mark", "failHandoff", "discard"}
        OBVIOUS
      <4>3. QED
        BY <4>1, <4>2
    <3>6. CASE k # claims + 1
      <4>1. job'[k] = job[k] /\ turn'[k] = turn[k]
        BY <3>2, <3>3, <3>6
      <4>2. job[k].at # "none" => k <= claims'
        BY <1>1, <2>1, <3>1 DEF JobsPlaced
      <4>3. QED
        BY <1>1, <4>1, <4>2 DEF JobsPlaced
    <3>7. QED
      BY <3>5, <3>6
  <2>4. QED
    BY <2>2, <2>3
<1>5. UNCHANGED <<claims, job>>
         \/ \E o \in Occurrences, step \in {"history", "prepare"} :
              /\ claims + 1 \in Claims /\ claims' = claims + 1
              /\ job' = [job EXCEPT ![claims + 1].at = step, ![claims + 1].occurrence = o]
  <2> DEFINE swept == RevokeDestination(RecoverLease(ExpireHandoff(DB)))
  <2>1. swept.schedule.next \in Occurrences
    <3>1. Sound(DB, claims, Occ) /\ claims \in Token
      BY DEF Inv, OtherTypes
    <3>2. Sound(swept, claims, Occ)
      BY <3>1, SweptSound
    <3>3. QED
      BY <3>2 DEF Sound, DBType, ScheduleType
  <2>2. QED
    BY <2>1 DEF ClaimDue
<1>6. QED
  BY <1>3, <1>4, <1>5

LEMMA TypesStep ==
    ASSUME Inv, [Next]_vars
    PROVE  OtherTypes' /\ JobsPlaced'
<1>1. OtherTypes /\ JobsPlaced
  BY DEF Inv
<1>2. CASE ClaimDue
  BY <1>2, ClaimDueTypes
<1>3. CASE LeaseExpires \/ People
  BY <1>1, <1>3 DEF OtherTypes, JobsPlaced, LeaseExpires, People, Update, RunNow, Delete,
                    AuthorityChanges, chatVars, envVars, dbVars
<1>4. ASSUME NEW k \in Claims, Dispatcher(k) \/ Turn(k) \/ Faulty(k)
      PROVE  OtherTypes' /\ JobsPlaced'
  BY <1>1, <1>4, DispatcherTypes, TurnTypes DEF Faulty
<1>5. CASE UNCHANGED vars
  BY <1>1, <1>5 DEF OtherTypes, JobsPlaced, vars, chatVars, envVars
<1>6. QED
  BY <1>2, <1>3, <1>4, <1>5 DEF Next

-----------------------------------------------------------------------------
(* An occurrence enters Eve at most once. *)

\* A step that sends nothing, and takes no job to `send`, keeps it.
LEMMA HandedKept ==
    ASSUME HandedFrom, handed' = handed,
           Follows(DB, DB') \/ schedule'.status = "deleted",
           \A k \in Sending' : k \in Sending /\ job'[k].occurrence = job[k].occurrence
    PROVE  HandedFrom'
<1>1. \A o \in Untried(DB)' : schedule'.status # "deleted" =>
          o \in Untried(DB) /\ schedule.status # "deleted"
  BY DEF Follows, DB, Untried
<1>2. \A o \in Untried(DB)' : schedule'.status # "deleted" =>
          handed'[o] = 0 /\ \A k \in Sending' : job'[k].occurrence # o
  BY <1>1 DEF HandedFrom
<1>3. /\ \A k \in Sending' : handed'[job'[k].occurrence] = 0
      /\ \A k1, k2 \in Sending' : job'[k1].occurrence = job'[k2].occurrence => k1 = k2
  BY DEF HandedFrom
<1>4. HandedOnce'
  BY DEF HandedFrom, HandedOnce
<1>5. QED
  BY <1>2, <1>3, <1>4 DEF HandedFrom

\* The handoff begins: the run is no longer one a later claim may try.
LEMMA HandedBegun ==
    ASSUME Inv, NEW k \in Claims, BeginDispatch(k), Follows(DB, DB')
    PROVE  HandedFrom'
<1> DEFINE o == job[k].occurrence
<1>1. /\ DB \in DBType /\ HandedFrom /\ handed' = handed /\ job[k].at = "begin"
      /\ job \in [Claims -> [at : JobSteps, occurrence : Occurrences, session : Token]]
      /\ DB.schedule = schedule /\ DB.run = run /\ DB'.run = run' /\ DB'.schedule = schedule'
      /\ run \in [Occurrences -> RunType] /\ schedule \in ScheduleType
      /\ o \in Occurrences
  BY DEF Inv, OtherTypes, Sound, DB, DBType, BeginDispatch, chatVars
<1>2. CASE ~(Begun(k).schedule.started /\ ~schedule.started)
  <2>1. job' = [job EXCEPT ![k].at = "discard"]
    BY <1>2 DEF BeginDispatch, Goto
  <2>2. \A c \in Sending' : c \in Sending /\ job'[c].occurrence = job[c].occurrence
    BY <1>1, <2>1 DEF Sending
  <2>3. QED
    BY <1>1, <2>2, HandedKept
<1>3. CASE Begun(k).schedule.started /\ ~schedule.started
  <2>1. job' = [job EXCEPT ![k].at = "send"]
    BY <1>3 DEF BeginDispatch, Goto
  <2>2. /\ Holds(k) /\ run[o].status = "claimed"
        /\ Begun(k) = [DB EXCEPT !.schedule.started = TRUE,
                                 !.run[o] = [run[o] EXCEPT !.status = "dispatching",
                                                           !.session = job[k].session]]
    <3>1. ~DB.schedule.started
      BY <1>1, <1>3
    <3>2. Holds(k)
      BY <1>3, <3>1 DEF Begun
    <3>3. proven
      <4>1. CASE ~proven
        <5>1. Begun(k) = [DB EXCEPT !.schedule = Unleased(Refunded(schedule), "active")]
          BY <3>2, <4>1 DEF Begun
        <5>2. Begun(k).schedule = Unleased(Refunded(schedule), "active")
          BY <1>1, <5>1 DEF DBType
        <5>3. ~Unleased(Refunded(schedule), "active").started
          BY <1>1 DEF Unleased, Refunded, ScheduleType
        <5>4. QED
          BY <1>3, <5>2, <5>3
      <4>2. QED
        BY <4>1
    <3>4. ~(External /\ ~authority)
      <4>1. CASE External /\ ~authority
        <5>1. Begun(k) = FailWith(DB, {o} \cap Waiting(DB), "failed")
          BY <3>2, <3>3, <4>1 DEF Begun
        <5>2. Begun(k).schedule = Unleased(DB.schedule, "failed")
          BY <1>1, <5>1 DEF FailWith, DBType
        <5>3. ~Unleased(DB.schedule, "failed").started
          BY <1>1 DEF Unleased, ScheduleType
        <5>4. QED
          BY <1>3, <5>2, <5>3
      <4>2. QED
        BY <4>1
    <3>5. run[o].status = "claimed" /\ run[o].token = k
      BY <1>3, <3>1, <3>2, <3>3, <3>4 DEF Begun
    <3>6. QED
      BY <3>2, <3>3, <3>4, <3>5 DEF Begun
  <2>3. run'[o].status = "dispatching" /\ schedule.status # "deleted"
    <3>1. run' = Begun(k).run
      BY DEF BeginDispatch, Commit
    <3>2. Begun(k).run = [run EXCEPT ![o] = [run[o] EXCEPT !.status = "dispatching",
                                                           !.session = job[k].session]]
      BY <1>1, <2>2 DEF DBType
    <3>3. [run[o] EXCEPT !.status = "dispatching", !.session = job[k].session].status = "dispatching"
      BY <1>1 DEF RunType
    <3>4. QED
      BY <1>1, <2>2, <3>1, <3>2, <3>3 DEF Holds
  <2>4. o \in Untried(DB) /\ o \notin Untried(DB)'
    BY <1>1, <2>2, <2>3 DEF Untried, DB
  <2>5. handed[o] = 0 /\ \A c \in Sending : job[c].occurrence # o
    BY <1>1, <2>3, <2>4 DEF HandedFrom
  <2>6. /\ \A c \in Claims : job'[c].occurrence = job[c].occurrence
        /\ \A c \in Sending' : c = k \/ c \in Sending
    BY <1>1, <2>1 DEF Sending
  <2>7. \A p \in Untried(DB)' : p # o /\ p \in Untried(DB)
    BY <2>4 DEF Follows
  <2>8. \A p \in Untried(DB)' : handed'[p] = 0 /\ \A c \in Sending' : job'[c].occurrence # p
    BY <1>1, <2>3, <2>6, <2>7 DEF HandedFrom, Sending
  <2>9. /\ \A c \in Sending' : handed'[job'[c].occurrence] = 0
        /\ \A k1, k2 \in Sending' : job'[k1].occurrence = job'[k2].occurrence => k1 = k2
    BY <1>1, <2>5, <2>6 DEF HandedFrom, Sending
  <2>10. HandedOnce'
    BY <1>1 DEF HandedFrom, HandedOnce
  <2>11. QED
    BY <2>8, <2>9, <2>10 DEF HandedFrom
<1>4. QED
  BY <1>2, <1>3

\* The one step that counts: its run was never handed before, and leaves `send`.
LEMMA HandedSent ==
    ASSUME Inv, NEW k \in Claims, Send(k)
    PROVE  HandedFrom'
<1> DEFINE o == job[k].occurrence
<1>1. /\ HandedFrom /\ job[k].at = "send" /\ UNCHANGED dbVars
      /\ job \in [Claims -> [at : JobSteps, occurrence : Occurrences, session : Token]]
      /\ handed \in [Occurrences -> Nat]
      /\ o \in Occurrences
  BY DEF Inv, OtherTypes, Send
<1>2. DB' = DB /\ schedule' = schedule
  BY <1>1 DEF dbVars, DB
<1>3. k \in Sending
  BY <1>1 DEF Sending
<1>4. /\ \A c \in Claims : job'[c].occurrence = job[c].occurrence
      /\ \A c \in Sending' : c # k /\ c \in Sending
  <2>1. Goto(k, "mark") \/ Goto(k, "failHandoff")
    BY DEF Send
  <2>2. QED
    BY <1>1, <2>1 DEF Goto, Sending
<1>5. \A p \in Occurrences : p # o => handed'[p] = handed[p]
  BY <1>1 DEF Send
<1>6. handed[o] = 0 /\ (handed'[o] = 0 \/ handed'[o] = 1)
  <2>1. handed[o] = 0
    BY <1>1, <1>3 DEF HandedFrom
  <2>2. handed' = handed \/ handed' = [handed EXCEPT ![o] = handed[o] + 1]
    BY DEF Send
  <2>3. QED
    BY <1>1, <2>1, <2>2
<1>7. \A p \in Untried(DB)' : schedule'.status # "deleted" =>
          handed'[p] = 0 /\ \A c \in Sending' : job'[c].occurrence # p
  <2> SUFFICES ASSUME NEW p \in Untried(DB)', schedule'.status # "deleted"
               PROVE  handed'[p] = 0 /\ \A c \in Sending' : job'[c].occurrence # p
    OBVIOUS
  <2>1. p \in Untried(DB) /\ p \in Occurrences /\ schedule.status # "deleted"
    BY <1>2 DEF Untried
  <2>2. handed[p] = 0 /\ \A c \in Sending : job[c].occurrence # p
    BY <1>1, <2>1 DEF HandedFrom
  <2>3. p # o
    BY <1>3, <2>2
  <2>4. QED
    BY <1>4, <1>5, <2>1, <2>2, <2>3 DEF Sending
<1>8. \A c \in Sending' : handed'[job'[c].occurrence] = 0
  <2> SUFFICES ASSUME NEW c \in Sending' PROVE handed'[job'[c].occurrence] = 0
    OBVIOUS
  <2>1. c \in Sending /\ c \in Claims /\ c # k
    BY <1>4 DEF Sending
  <2>2. job[c].occurrence # o /\ handed[job[c].occurrence] = 0
    BY <1>1, <1>3, <2>1 DEF HandedFrom
  <2>3. job[c].occurrence \in Occurrences
    BY <1>1, <2>1
  <2>4. QED
    BY <1>4, <1>5, <2>1, <2>2, <2>3
<1>9. \A k1, k2 \in Sending' : job'[k1].occurrence = job'[k2].occurrence => k1 = k2
  BY <1>1, <1>4 DEF HandedFrom, Sending
<1>10. HandedOnce'
  <2> SUFFICES ASSUME NEW p \in Occurrences PROVE handed'[p] <= 1
    BY DEF HandedOnce
  <2>1. CASE p = o
    BY <1>6, <2>1
  <2>2. CASE p # o
    BY <1>1, <1>5, <2>2 DEF HandedFrom, HandedOnce
  <2>3. QED
    BY <2>1, <2>2
<1>11. QED
  BY <1>7, <1>8, <1>9, <1>10 DEF HandedFrom

LEMMA HandedStep ==
    ASSUME Inv, [Next]_vars
    PROVE  HandedFrom'
<1>1. /\ HandedFrom /\ OtherTypes /\ JobsPlaced
      /\ Follows(DB, DB') \/ schedule'.status = "deleted"
  <2>1. Delete => schedule'.status = "deleted"
    <3>1. schedule \in ScheduleType
      BY DEF Inv, Sound, DB, DBType
    <3>2. QED
      BY <3>1 DEF Delete, ScheduleType
  <2>2. QED
    BY <2>1, DBStep DEF Inv
<1>2. \A c \in Claims : job[c] \in JobType
  BY <1>1 DEF OtherTypes, JobType
<1>3. CASE ClaimDue
  <2>1. handed' = handed
    BY <1>3 DEF ClaimDue, chatVars
  <2>2. CASE UNCHANGED job
    BY <1>1, <2>1, <2>2, HandedKept DEF Sending
  <2>3. CASE \E o \in Occurrences, step \in {"history", "prepare"} :
                job' = [job EXCEPT ![claims + 1].at = step, ![claims + 1].occurrence = o]
    <3>1. PICK o \in Occurrences, step \in {"history", "prepare"} :
                job' = [job EXCEPT ![claims + 1].at = step, ![claims + 1].occurrence = o]
      BY <2>3
    <3>2. \A c \in Claims : c # claims + 1 => job'[c] = job[c]
      BY <1>1, <3>1 DEF OtherTypes
    <3>3. claims + 1 \in Claims => job'[claims + 1].at # "send"
      <4>1. job' = [job EXCEPT ![claims + 1] = [job[claims + 1] EXCEPT !.at = step, !.occurrence = o]]
        BY <1>1, <3>1 DEF OtherTypes
      <4>2. claims + 1 \in Claims =>
                [job[claims + 1] EXCEPT !.at = step, !.occurrence = o].at = step
        BY <1>2 DEF JobType
      <4>3. QED
        BY <1>1, <4>1, <4>2 DEF OtherTypes
    <3>4. \A c \in Sending' : c \in Sending /\ job'[c].occurrence = job[c].occurrence
      BY <3>2, <3>3 DEF Sending
    <3>5. QED
      BY <1>1, <2>1, <3>4, HandedKept
  <2>4. QED
    <3>1. CASE UNCHANGED <<claims, job>>
      BY <2>2, <3>1
    <3>2. CASE ~UNCHANGED <<claims, job>>
      <4> DEFINE swept == RevokeDestination(RecoverLease(ExpireHandoff(DB)))
      <4>1. swept.schedule.next \in Occurrences
        <5>1. Sound(swept, claims, Occ)
          BY SweptSound DEF Inv, OtherTypes
        <5>2. QED
          BY <5>1 DEF Sound, DBType, ScheduleType
      <4>2. QED
        BY <1>3, <2>3, <3>2, <4>1 DEF ClaimDue
    <3>3. QED
      BY <3>1, <3>2
<1>4. CASE LeaseExpires \/ People
  <2>1. handed' = handed /\ job' = job
    BY <1>4 DEF LeaseExpires, People, Update, RunNow, Delete, AuthorityChanges, chatVars
  <2>2. QED
    BY <1>1, <2>1, HandedKept DEF Sending
<1>5. ASSUME NEW k \in Claims, Dispatcher(k) \/ BeginFails(k) \/ MarkFails(k) \/ JobDies(k)
      PROVE  HandedFrom'
  <2>1. CASE BeginDispatch(k)
    BY <1>5, <2>1, HandedBegun, DispatcherSound
  <2>2. CASE Send(k)
    BY <2>2, HandedSent
  <2>3. CASE ~BeginDispatch(k) /\ ~Send(k)
    <3>1. handed' = handed
      BY <1>5, <2>3 DEF Dispatcher, PrepareHistory, PrepareSession, Discard, MarkRunning,
                        FailClaim, BeginFails, MarkFails, JobDies, chatVars
    <3>2. \E step \in JobSteps \ {"send"} :
              \/ job' = [job EXCEPT ![k].at = step]
              \/ \E s \in Claims : job' = [job EXCEPT ![k].at = step, ![k].session = s]
      BY <1>5, <2>3 DEF Dispatcher, PrepareHistory, PrepareSession, Discard, MarkRunning,
                        FailClaim, BeginFails, MarkFails, JobDies, Goto, JobSteps
    <3>3. \A c \in Sending' : c \in Sending /\ job'[c].occurrence = job[c].occurrence
      <4>1. PICK step \in JobSteps \ {"send"} :
                \/ job' = [job EXCEPT ![k].at = step]
                \/ \E s \in Claims : job' = [job EXCEPT ![k].at = step, ![k].session = s]
        BY <3>2
      <4>2. /\ job'[k].at = step
            /\ \A c \in Claims : c # k => job'[c] = job[c]
        <5>1. CASE job' = [job EXCEPT ![k].at = step]
          BY <1>1, <1>2, <5>1 DEF OtherTypes, JobType
        <5>2. ASSUME NEW s \in Claims, job' = [job EXCEPT ![k].at = step, ![k].session = s]
              PROVE  job'[k].at = step /\ \A c \in Claims : c # k => job'[c] = job[c]
          <6>1. job' = [job EXCEPT ![k] = [job[k] EXCEPT !.at = step, !.session = s]]
            BY <1>1, <5>2 DEF OtherTypes
          <6>2. [job[k] EXCEPT !.at = step, !.session = s].at = step
            BY <1>2 DEF JobType
          <6>3. QED
            BY <1>1, <6>1, <6>2 DEF OtherTypes
        <5>3. QED
          BY <4>1, <5>1, <5>2
      <4>3. QED
        BY <4>2 DEF Sending
    <3>4. QED
      BY <1>1, <3>1, <3>3, HandedKept
  <2>4. QED
    BY <2>1, <2>2, <2>3
<1>6. ASSUME NEW k \in Claims,
             Turn(k) \/ SessionFails(k) \/ HandlerThrows(k) \/ HandlerReplayed(k)
      PROVE  HandedFrom'
  <2>1. handed' = handed /\ job' = job
    BY <1>6 DEF Turn, TurnStarts, AnswerWithheld, AnswerSuspended, AnswerAuthorized,
                StartDelivery, TelegramReplies, CompleteDelivered, TurnCompletes, TurnFails,
                SessionFails, HandlerThrows, HandlerReplayed, chatVars
  <2>2. QED
    BY <1>1, <2>1, HandedKept DEF Sending
<1>7. CASE UNCHANGED vars
  <2>1. handed' = handed /\ job' = job
    BY <1>7 DEF vars, chatVars
  <2>2. QED
    BY <1>1, <2>1, HandedKept DEF Sending
<1>8. QED
  BY <1>3, <1>4, <1>5, <1>6, <1>7 DEF Next, Faulty

-----------------------------------------------------------------------------
(* The invariant. *)

LEMMA InvInit == Init => Inv
<1> SUFFICES ASSUME Init PROVE Inv
  OBVIOUS
<1> USE DEF Init
<1>1. NoRun \in RunType /\ NoRun.status = "absent" /\ NoRun.token = NoToken /\ NoRun.eve = NoToken
  BY Ranges DEF NoRun, RunType, RunStatuses, NoToken
<1>2. schedule \in ScheduleType
  BY Ranges, BoundsAssumption DEF ScheduleType, ScheduleStatuses
<1>3. DB \in DBType
  BY <1>1, <1>2, Ranges DEF DB, DBType
<1>4. /\ DB.schedule = schedule /\ DB.run = run /\ DB.latest = latest
      /\ \A o \in Occurrences : DB.run[o] = NoRun
  BY DEF DB
<1>5. LeaseShape(DB) /\ NewestLease(DB, claims)
  BY <1>4, BoundsAssumption DEF LeaseShape, NewestLease, NoToken
<1>6. TokensTell(DB, claims, Occ)
  BY <1>1, <1>4 DEF TokensTell
<1>7. ActiveIn(DB) = {}
  BY <1>1, <1>4 DEF ActiveIn
<1>8. ActiveHolds(DB) /\ LeasedIsOpen(DB)
  BY <1>4, <1>7 DEF ActiveHolds, LeasedIsOpen
<1>9. OtherTypes
  BY Ranges, BoundsAssumption DEF OtherTypes, JobSteps, TurnSteps, Token
<1>10. JobsPlaced
  BY DEF JobsPlaced
<1>11. Sending = {}
  BY DEF Sending
<1>12. HandedFrom
  BY <1>11 DEF HandedFrom, HandedOnce, Untried
<1>13. QED
  BY <1>3, <1>5, <1>6, <1>8, <1>9, <1>10, <1>12 DEF Inv, Sound

LEMMA InvStep == Inv /\ [Next]_vars => Inv'
<1> SUFFICES ASSUME Inv, [Next]_vars PROVE Inv'
  OBVIOUS
<1>1. Sound(DB', claims', Occ')
  BY DBStep
<1>2. OtherTypes' /\ JobsPlaced'
  BY TypesStep
<1>3. HandedFrom'
  BY HandedStep
<1>4. QED
  BY <1>1, <1>2, <1>3 DEF Inv

LEMMA InvCorrect == Spec => []Inv
<1> QED
  BY InvInit, InvStep, PTL DEF Spec

-----------------------------------------------------------------------------
(* What a run leaves behind.  A transaction settles: what it ends loses its  *)
(* copy of the history, nothing else does, and it completes nothing.         *)
(* `completeDeliveredRun` alone completes a run.                             *)

Clears(d, e) ==
    /\ e.snapshots \subseteq d.snapshots
    /\ \A o \in Occurrences :
          /\ e.run[o].status \in Terminal => d.run[o].status \in Terminal \/ o \notin e.snapshots
          /\ d.run[o].status \in Terminal => e.run[o].status \in Terminal
          /\ o \in d.snapshots => o \in e.snapshots \/ e.run[o].status \in Terminal
CompletesNone(d, e) ==
    \A o \in Occurrences : e.run[o].status = "completed" => d.run[o].status = "completed"
Settles(d, e) == Clears(d, e) /\ CompletesNone(d, e)

LEMMA SettlesItself == \A d : Settles(d, d)
  BY DEF Settles, Clears, CompletesNone

LEMMA SettlesOn ==
    ASSUME NEW d, NEW e, NEW f, Settles(d, e), Settles(e, f)
    PROVE  Settles(d, f)
<1>1. f.snapshots \subseteq d.snapshots /\ CompletesNone(d, f)
  BY DEF Settles, Clears, CompletesNone
<1>2. ASSUME NEW o \in Occurrences, f.run[o].status \in Terminal
      PROVE  d.run[o].status \in Terminal \/ o \notin f.snapshots
  <2>1. e.run[o].status \in Terminal \/ o \notin f.snapshots
    BY <1>2 DEF Settles, Clears
  <2>2. e.run[o].status \in Terminal => d.run[o].status \in Terminal \/ o \notin f.snapshots
    BY DEF Settles, Clears
  <2>3. QED
    BY <2>1, <2>2
<1>3. ASSUME NEW o \in Occurrences, d.run[o].status \in Terminal PROVE f.run[o].status \in Terminal
  BY <1>3 DEF Settles, Clears
<1>4. ASSUME NEW o \in Occurrences, o \in d.snapshots
      PROVE  o \in f.snapshots \/ f.run[o].status \in Terminal
  BY <1>4 DEF Settles, Clears
<1>5. QED
  BY <1>1, <1>2, <1>3, <1>4 DEF Settles, Clears

\* A schedule that changes alone.
LEMMA FreeSettles ==
    ASSUME NEW d \in DBType, NEW s
    PROVE  Settles(d, [d EXCEPT !.schedule = s])
<1>1. /\ [d EXCEPT !.schedule = s].run = d.run
      /\ [d EXCEPT !.schedule = s].snapshots = d.snapshots
  BY DEF DBType
<1>2. QED
  BY <1>1 DEF Settles, Clears, CompletesNone

\* One run that had not ended and does not end.
LEMMA RunSettles ==
    ASSUME NEW d \in DBType, NEW e, NEW o \in Occurrences, NEW r, r.status \notin Terminal,
           d.run[o].status \notin Terminal,
           e.run = [d.run EXCEPT ![o] = r], e.snapshots = d.snapshots
    PROVE  Settles(d, e)
<1>1. \A p \in Occurrences : e.run[p] = IF p = o THEN r ELSE d.run[p]
  BY DEF DBType
<1>2. r.status # "completed"
  BY DEF Terminal
<1>3. QED
  BY <1>1, <1>2 DEF Settles, Clears, CompletesNone

LEMMA FailSettles ==
    ASSUME NEW d \in DBType, NEW lost \in SUBSET Occurrences, NEW status \in {"failed", "ambiguous"}
    PROVE  Settles(d, FailWith(d, lost, status))
<1> DEFINE e == FailWith(d, lost, status)
<1>1. /\ e.run = [o \in Occurrences |->
                    IF o \in lost THEN [d.run[o] EXCEPT !.status = status] ELSE d.run[o]]
      /\ e.snapshots = d.snapshots \ lost
  BY DEF FailWith, DBType
<1>2. \A o \in Occurrences : e.run[o].status = IF o \in lost THEN status ELSE d.run[o].status
  BY <1>1 DEF DBType, RunType
<1>3. QED
  BY <1>1, <1>2 DEF Settles, Clears, CompletesNone, Terminal

LEMMA FinishClears ==
    ASSUME NEW d \in DBType, NEW k \in Claims, NEW ok \in BOOLEAN
    PROVE  /\ Clears(d, Finish(d, k, ok))
           /\ \A o \in Occurrences :
                 Finish(d, k, ok).run[o].status =
                     IF o \in Active(d, k) THEN IF ok THEN "completed" ELSE "failed"
                     ELSE d.run[o].status
<1> DEFINE e == Finish(d, k, ok)
           over == IF ok THEN "completed" ELSE "failed"
           f == [d EXCEPT !.run = [o \in Occurrences |->
                              IF o \in Active(d, k) THEN [d.run[o] EXCEPT !.status = over]
                              ELSE d.run[o]],
                          !.snapshots = @ \ Active(d, k)]
<1>1. CASE Active(d, k) = {}
  BY <1>1, SettlesItself DEF Finish, Settles
<1>2. CASE Active(d, k) # {}
  <2>1. e = Reopen(f, ok)
    BY <1>2 DEF Finish
  <2>2. e.run = f.run /\ e.snapshots = f.snapshots
    <3>1. f \in [schedule : {f.schedule}, run : {f.run}, snapshots : {f.snapshots},
                 latest : {f.latest}]
      BY DEF DBType
    <3> HIDE DEF f
    <3>2. QED
      BY <2>1, <3>1 DEF Reopen
  <2>3. /\ f.snapshots = d.snapshots \ Active(d, k)
        /\ f.run = [o \in Occurrences |->
                       IF o \in Active(d, k) THEN [d.run[o] EXCEPT !.status = over] ELSE d.run[o]]
    BY DEF DBType
  <2>4. \A o \in Occurrences :
            f.run[o].status = IF o \in Active(d, k) THEN over ELSE d.run[o].status
    BY <2>3 DEF DBType, RunType
  <2>5. QED
    BY <2>2, <2>3, <2>4 DEF Clears, Terminal
<1>3. QED
  BY <1>1, <1>2

LEMMA FinishSettles ==
    ASSUME NEW d \in DBType, NEW k \in Claims
    PROVE  Settles(d, Finish(d, k, FALSE))
<1>1. \A o \in Occurrences : Finish(d, k, FALSE).run[o].status \in {"failed", d.run[o].status}
  BY FinishClears
<1>2. CompletesNone(d, Finish(d, k, FALSE))
  BY <1>1 DEF CompletesNone
<1>3. Clears(d, Finish(d, k, FALSE))
  BY FinishClears
<1>4. QED
  BY <1>2, <1>3 DEF Settles

LEMMA SweptSettles ==
    ASSUME NEW n \in Token, NEW occ, NEW d, Sound(d, n, occ)
    PROVE  Settles(d, RevokeDestination(RecoverLease(ExpireHandoff(d))))
<1> DEFINE e == ExpireHandoff(d)
           r == RecoverLease(e)
           v == RevokeDestination(r)
<1>1. d \in DBType /\ e \in DBType /\ r \in DBType
  BY ExpireSound, RecoverSound DEF Sound
<1>2. Settles(d, e)
  <2>1. InHandoff(d) \in SUBSET Occurrences
    BY DEF InHandoff
  <2>2. QED
    BY <1>1, <2>1, FailSettles, SettlesItself DEF ExpireHandoff
<1>3. Settles(e, r)
  BY <1>1, WaitingOpen, FailSettles, FreeSettles, SettlesItself DEF RecoverLease
<1>4. Settles(r, v)
  BY <1>1, WaitingOpen, FailSettles, SettlesItself DEF RevokeDestination
<1>5. Settles(d, r)
  BY <1>2, <1>3, SettlesOn
<1>6. QED
  BY <1>4, <1>5, SettlesOn

LEMMA TakeSettles ==
    ASSUME NEW d \in DBType, NEW k \in Claims
    PROVE  Settles(d, TakeLease(d, k))
<1> DEFINE o == d.schedule.next
           r == [d.run[o] EXCEPT !.status = "claimed", !.token = k]
           s == Leased(Attempted(d.schedule), k)
           f == [d EXCEPT !.schedule = Attempted(d.schedule)]
<1>1. o \in Occurrences
  BY DEF DBType, ScheduleType
<1>2. CASE d.schedule.status # "active" \/ d.schedule.attempts >= MaxAttempts
  BY <1>2, SettlesItself DEF TakeLease
<1>3. CASE /\ ~(d.schedule.status # "active" \/ d.schedule.attempts >= MaxAttempts)
           /\ Reclaimable(d.run[o])
  <2>1. TakeLease(d, k) = [d EXCEPT !.schedule = s, !.run[o] = r]
    BY <1>3 DEF TakeLease
  <2>2. [d EXCEPT !.schedule = s, !.run[o] = r].run = [d.run EXCEPT ![o] = r]
    BY DEF DBType
  <2>3. [d EXCEPT !.schedule = s, !.run[o] = r].snapshots = d.snapshots
    BY DEF DBType
  <2>4. r.status \notin Terminal
    BY <1>1 DEF DBType, RunType, Terminal
  <2>5. d.run[o].status \notin Terminal
    BY <1>3 DEF Reclaimable, Terminal
  <2>6. QED
    BY <1>1, <2>1, <2>2, <2>3, <2>4, <2>5, RunSettles
<1>4. CASE /\ ~(d.schedule.status # "active" \/ d.schedule.attempts >= MaxAttempts)
           /\ ~Reclaimable(d.run[o])
  <2>1. TakeLease(d, k) = FailWith(f, {}, "failed")
    BY <1>4 DEF TakeLease
  <2>2. f \in DBType
    <3>1. d.schedule \in ScheduleType /\ d.schedule.attempts \in 0..MaxAttempts
      BY DEF DBType, ScheduleType
    <3>2. d.schedule.attempts + 1 \in 0..MaxAttempts
      BY <1>4, <3>1, BoundsAssumption
    <3>3. Attempted(d.schedule) \in ScheduleType
      BY <3>1, <3>2 DEF ScheduleType, Attempted
    <3>4. QED
      BY <3>3 DEF DBType
  <2>3. Settles(d, f)
    BY FreeSettles
  <2>4. Settles(f, FailWith(f, {}, "failed"))
    BY <2>2, FailSettles
  <2>5. QED
    BY <2>1, <2>3, <2>4, SettlesOn
<1>5. QED
  BY <1>2, <1>3, <1>4

LEMMA BegunSettles ==
    ASSUME Inv, NEW k \in Claims
    PROVE  Settles(DB, Begun(k))
<1> DEFINE o == job[k].occurrence
           r == [run[o] EXCEPT !.status = "dispatching", !.session = job[k].session]
           e == [DB EXCEPT !.schedule.started = TRUE, !.run[o] = r]
<1>1. /\ DB \in DBType /\ DB.run = run /\ run \in [Occurrences -> RunType]
      /\ o \in Occurrences
  BY DEF Inv, Sound, OtherTypes, DB, DBType
<1>2. Settles(DB, [DB EXCEPT !.schedule = Unleased(Refunded(schedule), "active")])
  BY <1>1, FreeSettles
<1>3. Settles(DB, FailWith(DB, {o} \cap Waiting(DB), "failed"))
  <2>1. {o} \cap Waiting(DB) \in SUBSET Occurrences
    BY <1>1
  <2>2. QED
    BY <1>1, <2>1, FailSettles
<1>4. ASSUME run[o].status = "claimed" PROVE Settles(DB, e)
  <2>1. e.run = [DB.run EXCEPT ![o] = r] /\ e.snapshots = DB.snapshots
    BY <1>1 DEF DBType
  <2>2. r.status \notin Terminal /\ DB.run[o].status \notin Terminal
    BY <1>1, <1>4 DEF RunType, Terminal
  <2>3. QED
    BY <1>1, <2>1, <2>2, RunSettles
<1>5. QED
  BY <1>2, <1>3, <1>4, SettlesItself DEF Begun

LEMMA RunningSettles ==
    ASSUME Inv, NEW k \in Claims
    PROVE  Settles(DB, Marked(k)) /\ Settles(DB, Promoted(k))
<1> DEFINE o == job[k].occurrence
           e == [DB EXCEPT !.run[o] = Running(k)]
<1>1. /\ DB \in DBType /\ DB.run = run /\ run \in [Occurrences -> RunType]
      /\ o \in Occurrences
  BY DEF Inv, Sound, OtherTypes, DB, DBType
<1>2. e.run = [DB.run EXCEPT ![o] = Running(k)] /\ e.snapshots = DB.snapshots
  BY <1>1 DEF DBType
<1>3. Running(k).status \notin Terminal
  BY <1>1 DEF Running, RunType, Terminal
<1>4. run[o].status = "dispatching" => Settles(DB, e)
  BY <1>1, <1>2, <1>3, RunSettles DEF Terminal
<1>5. QED
  BY <1>4, SettlesItself DEF Marked, Markable, Promoted

LEMMA CommitSettles ==
    ASSUME NEW d, Keeps(d), Settles(DB, d), Commit(d)
    PROVE  Settles(DB, DB')
  BY CommitWrites DEF Keeps, Sound

\* Only a copied history and a delivered answer do anything else.
LEMMA SettlesStep ==
    ASSUME Inv, [Next]_vars
    PROVE  \/ Settles(DB, DB')
           \/ Delete
           \/ \E k \in Claims : PrepareHistory(k) \/ CompleteDelivered(k)
<1>1. /\ Sound(DB, claims, Occ) /\ claims \in Token /\ DB \in DBType
      /\ Keeps(DB) /\ Settles(DB, DB)
  BY SoundHere, SettlesItself DEF Inv
<1>2. UNCHANGED dbVars => Settles(DB, DB')
  BY <1>1, Still, CommitSettles
<1>3. CASE ClaimDue
  <2> DEFINE swept == RevokeDestination(RecoverLease(ExpireHandoff(DB)))
             k == claims + 1
             e == TakeLease(swept, k)
  <2>1. Sound(swept, claims, Occ) /\ Settles(DB, swept) /\ swept \in DBType
    BY <1>1, SweptSound, SweptSettles DEF Sound
  <2>2. CASE Commit(swept)
    BY <2>1, <2>2, CommitWrites
  <2>3. CASE k \in Claims /\ Commit(e)
    <3>1. Settles(DB, e)
      BY <2>1, <2>3, TakeSettles, SettlesOn
    <3>2. e \in DBType
      BY <1>1, <2>1, <2>3, TakeSound DEF Occ, Sound, Inv, OtherTypes
    <3>3. QED
      BY <2>3, <3>1, <3>2, CommitWrites
  <2>4. QED
    BY <1>3, <2>2, <2>3 DEF ClaimDue
<1>4. CASE LeaseExpires \/ Update \/ RunNow \/ AuthorityChanges
  <2>1. run' = run /\ snapshots' = snapshots
    BY <1>4 DEF LeaseExpires, Update, RunNow, AuthorityChanges, dbVars
  <2>2. QED
    BY <2>1 DEF Settles, Clears, CompletesNone, DB
<1>5. ASSUME NEW k \in Claims, Dispatcher(k) \/ BeginFails(k) \/ MarkFails(k) \/ JobDies(k),
             ~PrepareHistory(k)
      PROVE  Settles(DB, DB')
  <2>1. CASE BeginDispatch(k) \/ BeginFails(k)
    BY <1>1, <2>1, BegunKeeps, BegunSettles, CommitSettles DEF BeginDispatch, BeginFails
  <2>2. CASE MarkRunning(k) \/ MarkFails(k)
    BY <1>1, <2>2, MarkedKeeps, RunningSettles, CommitSettles DEF MarkRunning, MarkFails
  <2>3. CASE FailClaim(k)
    <3> DEFINE own == IF run[job[k].occurrence].token = k THEN {job[k].occurrence} ELSE {}
    <3>1. CASE ClaimFailed(k)
      <4>1. Commit(FailWith(DB, own, "failed")) /\ Keeps(FailWith(DB, own, "failed"))
        BY <2>3, <3>1, FailClaimKeeps DEF FailClaim
      <4>2. own \in SUBSET Occurrences
        BY DEF Inv, OtherTypes
      <4>3. QED
        BY <1>1, <4>1, <4>2, FailSettles, CommitSettles
    <3>2. CASE ~ClaimFailed(k)
      BY <1>1, <2>3, <3>2, CommitSettles DEF FailClaim
    <3>3. QED
      BY <3>1, <3>2
  <2>4. CASE PrepareSession(k) \/ Discard(k) \/ Send(k) \/ JobDies(k)
    BY <1>2, <2>4 DEF PrepareSession, Discard, Send, JobDies
  <2>5. QED
    BY <1>5, <2>1, <2>2, <2>3, <2>4 DEF Dispatcher
<1>6. ASSUME NEW k \in Claims,
             Turn(k) \/ SessionFails(k) \/ HandlerThrows(k) \/ HandlerReplayed(k),
             ~CompleteDelivered(k)
      PROVE  Settles(DB, DB')
  <2>1. CASE SessionFails(k)
    <3> DEFINE d == Promoted(k)
               e == Finish(d, k, FALSE)
    <3>1. turn[k] # "none" /\ Commit(e)
      BY <2>1 DEF SessionFails
    <3>2. Keeps(d) /\ Keeps(e)
      BY <3>1, PromotedKeeps
    <3>3. Settles(DB, d) /\ Settles(d, e)
      BY <3>2, RunningSettles, FinishSettles DEF Keeps, Sound
    <3>4. Settles(DB, e)
      BY <3>3, SettlesOn
    <3>5. QED
      BY <3>1, <3>2, <3>4, CommitSettles
  <2>2. CASE UNCHANGED dbVars
    BY <1>2, <2>2
  <2>3. CASE Commit(DB) \/ Commit(SealTurn(k))
    <3>1. Settles(DB, SealTurn(k)) /\ Keeps(SealTurn(k))
      BY <1>1, FinishSettles, SoundHere DEF SealTurn
    <3>2. QED
      BY <1>1, <2>3, <3>1, CommitSettles
  <2>4. QED
    BY <1>6, <2>1, <2>2, <2>3
       DEF Turn, TurnStarts, AnswerWithheld, AnswerSuspended, AnswerAuthorized, StartDelivery,
           TelegramReplies, TurnCompletes, TurnFails, HandlerThrows, HandlerReplayed
<1>7. CASE UNCHANGED vars
  BY <1>2, <1>7 DEF vars
<1>8. QED
  BY <1>3, <1>4, <1>5, <1>6, <1>7 DEF Next, People, Faulty

(***************************************************************************)
(* What a transaction makes of the runs it does not end: nothing, but for  *)
(* the occurrence a claim takes, the run it begins and the run that is     *)
(* marked, by the dispatcher or ahead of it by a session that fails.       *)
(***************************************************************************)
OnlyEnds(d, e) ==
    \A o \in Occurrences : e.run[o].status \notin Terminal => e.run[o] = d.run[o]
EndsBeside(o, d, e) ==
    \A p \in Occurrences : p # o /\ e.run[p].status \notin Terminal => e.run[p] = d.run[p]

Takes(k, o) ==
    /\ ClaimDue /\ k = claims + 1
    /\ schedule'.status = "leased" /\ run'[o].status = "claimed"
Begins(k, o) ==
    /\ BeginDispatch(k) \/ BeginFails(k)
    /\ o = job[k].occurrence /\ run[o].status = "claimed" /\ run'[o].status = "dispatching"
Marks(k, o) ==
    /\ MarkRunning(k) \/ MarkFails(k)
    /\ o = job[k].occurrence /\ Markable(k) /\ run'[o] = Running(k)
    /\ job' = [job EXCEPT ![k].at = "done"]
Promotes(k, o) ==
    /\ SessionFails(k)
    /\ o = job[k].occurrence /\ run[o].status = "dispatching"
    /\ run'[o].status \in Terminal \/ run'[o] = Running(k)
Moves(k, o) == Takes(k, o) \/ Begins(k, o) \/ Marks(k, o) \/ Promotes(k, o)

LEMMA OnlyEndsItself == \A d : OnlyEnds(d, d)
  BY DEF OnlyEnds

LEMMA OnlyEndsOn ==
    ASSUME NEW d, NEW e, NEW f, OnlyEnds(d, e), OnlyEnds(e, f)
    PROVE  OnlyEnds(d, f)
  BY DEF OnlyEnds

LEMMA FreeOnlyEnds ==
    ASSUME NEW d \in DBType, NEW s
    PROVE  OnlyEnds(d, [d EXCEPT !.schedule = s])
<1>1. [d EXCEPT !.schedule = s].run = d.run
  BY DEF DBType
<1>2. QED
  BY <1>1 DEF OnlyEnds

LEMMA FailOnlyEnds ==
    ASSUME NEW d \in DBType, NEW lost \in SUBSET Occurrences, NEW status \in {"failed", "ambiguous"}
    PROVE  OnlyEnds(d, FailWith(d, lost, status))
<1> DEFINE e == FailWith(d, lost, status)
<1>1. e.run = [o \in Occurrences |->
                  IF o \in lost THEN [d.run[o] EXCEPT !.status = status] ELSE d.run[o]]
  BY DEF FailWith, DBType
<1>2. \A o \in lost : [d.run[o] EXCEPT !.status = status].status = status
  BY DEF DBType, RunType
<1>3. \A o \in Occurrences : o \in lost => e.run[o].status = status
  BY <1>1, <1>2
<1>4. \A o \in Occurrences : o \notin lost => e.run[o] = d.run[o]
  BY <1>1
<1>5. QED
  BY <1>3, <1>4 DEF OnlyEnds, Terminal

LEMMA FinishLeaves ==
    ASSUME NEW d \in DBType, NEW k \in Claims, NEW ok \in BOOLEAN,
           NEW o \in Occurrences, o \notin Active(d, k)
    PROVE  Finish(d, k, ok).run[o] = d.run[o]
<1> DEFINE e == Finish(d, k, ok)
           over == IF ok THEN "completed" ELSE "failed"
           f == [d EXCEPT !.run = [p \in Occurrences |->
                              IF p \in Active(d, k) THEN [d.run[p] EXCEPT !.status = over]
                              ELSE d.run[p]],
                          !.snapshots = @ \ Active(d, k)]
<1>1. CASE Active(d, k) = {}
  BY <1>1 DEF Finish
<1>2. CASE Active(d, k) # {}
  <2>1. e = Reopen(f, ok)
    BY <1>2 DEF Finish
  <2>2. e.run = f.run
    <3>1. f \in [schedule : {f.schedule}, run : {f.run}, snapshots : {f.snapshots},
                 latest : {f.latest}]
      BY DEF DBType
    <3> HIDE DEF f
    <3>2. QED
      BY <2>1, <3>1 DEF Reopen
  <2>3. f.run = [p \in Occurrences |->
                    IF p \in Active(d, k) THEN [d.run[p] EXCEPT !.status = over] ELSE d.run[p]]
    BY DEF DBType
  <2>4. QED
    BY <2>2, <2>3
<1>3. QED
  BY <1>1, <1>2

LEMMA FinishOnlyEnds ==
    ASSUME NEW d \in DBType, NEW k \in Claims, NEW ok \in BOOLEAN
    PROVE  OnlyEnds(d, Finish(d, k, ok))
<1>1. \A o \in Active(d, k) : Finish(d, k, ok).run[o].status \in Terminal
  BY FinishClears DEF Active, Terminal
<1>2. QED
  BY <1>1, FinishLeaves DEF OnlyEnds

LEMMA SweptOnlyEnds ==
    ASSUME NEW n \in Token, NEW occ, NEW d, Sound(d, n, occ)
    PROVE  OnlyEnds(d, RevokeDestination(RecoverLease(ExpireHandoff(d))))
<1> DEFINE e == ExpireHandoff(d)
           r == RecoverLease(e)
           v == RevokeDestination(r)
<1>1. d \in DBType /\ e \in DBType /\ r \in DBType
  BY ExpireSound, RecoverSound DEF Sound
<1>2. OnlyEnds(d, e)
  <2>1. InHandoff(d) \in SUBSET Occurrences
    BY DEF InHandoff
  <2>2. QED
    BY <1>1, <2>1, FailOnlyEnds, OnlyEndsItself DEF ExpireHandoff
<1>3. OnlyEnds(e, r)
  <2>1. Waiting(e) \in SUBSET Occurrences
    BY DEF Waiting
  <2>2. QED
    BY <1>1, <2>1, FailOnlyEnds, FreeOnlyEnds, OnlyEndsItself DEF RecoverLease
<1>4. OnlyEnds(r, v)
  <2>1. Waiting(r) \in SUBSET Occurrences
    BY DEF Waiting
  <2>2. QED
    BY <1>1, <2>1, FailOnlyEnds, OnlyEndsItself DEF RevokeDestination
<1>5. OnlyEnds(d, r)
  BY <1>2, <1>3, OnlyEndsOn
<1>6. QED
  BY <1>4, <1>5, OnlyEndsOn

\* The sweep of a claim, and the lease it may take.
LEMMA ClaimMoves ==
    ASSUME Inv, ClaimDue
    PROVE  \/ OnlyEnds(DB, DB')
           \/ \E k \in Claims, o \in Occurrences : EndsBeside(o, DB, DB') /\ Takes(k, o)
<1> DEFINE swept == RevokeDestination(RecoverLease(ExpireHandoff(DB)))
           k == claims + 1
           o == swept.schedule.next
           e == TakeLease(swept, k)
<1>1. Sound(swept, claims, Occ) /\ OnlyEnds(DB, swept) /\ swept \in DBType
  BY SweptSound, SweptOnlyEnds DEF Inv, OtherTypes, Sound
<1>2. CASE Commit(swept)
  BY <1>1, <1>2, CommitWrites
<1>3. CASE k \in Claims /\ Commit(e)
  <2>1. run' = e.run /\ schedule' = e.schedule /\ DB'.run = run'
    BY <1>3 DEF Commit, DB
  <2>2. CASE swept.schedule.status # "active" \/ swept.schedule.attempts >= MaxAttempts
    <3>1. e = swept
      BY <2>2 DEF TakeLease
    <3>2. QED
      BY <1>1, <2>1, <3>1 DEF OnlyEnds
  <2>3. CASE /\ ~(swept.schedule.status # "active" \/ swept.schedule.attempts >= MaxAttempts)
             /\ Reclaimable(swept.run[o])
    <3> DEFINE r == [swept.run[o] EXCEPT !.status = "claimed", !.token = k]
               s == Leased(Attempted(swept.schedule), k)
    <3>1. e = [swept EXCEPT !.schedule = s, !.run[o] = r]
      BY <2>3 DEF TakeLease
    <3>2. e.run = [swept.run EXCEPT ![o] = r] /\ e.schedule = s
      BY <1>1, <3>1 DEF DBType
    <3>3. o \in Occurrences /\ swept.run \in [Occurrences -> RunType]
          /\ swept.schedule \in ScheduleType
      BY <1>1 DEF DBType, ScheduleType
    <3>4. e.run[o] = r /\ \A p \in Occurrences : p # o => e.run[p] = swept.run[p]
      BY <3>2, <3>3
    <3>5. r.status = "claimed" /\ s.status = "leased"
      BY <3>3 DEF RunType, ScheduleType, Leased, Attempted
    <3>6. EndsBeside(o, DB, DB')
      BY <1>1, <2>1, <3>4 DEF EndsBeside, OnlyEnds
    <3>7. Takes(k, o)
      BY <2>1, <3>2, <3>4, <3>5 DEF Takes
    <3>8. QED
      BY <1>3, <3>3, <3>6, <3>7
  <2>4. CASE /\ ~(swept.schedule.status # "active" \/ swept.schedule.attempts >= MaxAttempts)
             /\ ~Reclaimable(swept.run[o])
    <3> DEFINE f == [swept EXCEPT !.schedule = Attempted(swept.schedule)]
    <3>1. e = FailWith(f, {}, "failed")
      BY <2>4 DEF TakeLease
    <3>2. /\ f.run = swept.run
          /\ f \in [schedule : {f.schedule}, run : {f.run}, snapshots : {f.snapshots},
                   latest : {f.latest}]
      BY <1>1 DEF DBType
    <3>3. \A p \in Occurrences : e.run[p] = f.run[p]
      <4> HIDE DEF e, f, swept, k, o
      <4>1. e.run = [p \in Occurrences |-> IF p \in {} THEN [f.run[p] EXCEPT !.status = "failed"]
                                                     ELSE f.run[p]]
        BY <3>1, <3>2 DEF FailWith
      <4>2. QED
        BY <4>1
    <3>4. \A p \in Occurrences : e.run[p] = swept.run[p]
      BY <3>2, <3>3
    <3>5. QED
      BY <1>1, <2>1, <3>4 DEF OnlyEnds
  <2>5. QED
    BY <2>2, <2>3, <2>4
<1>4. QED
  BY <1>2, <1>3 DEF ClaimDue

LEMMA BegunMoves ==
    ASSUME Inv, NEW k \in Claims
    PROVE  LET o == job[k].occurrence IN
           \/ OnlyEnds(DB, Begun(k))
           \/ /\ run[o].status = "claimed" /\ Begun(k).run[o].status = "dispatching"
              /\ EndsBeside(o, DB, Begun(k))
<1> DEFINE o == job[k].occurrence
           r == [run[o] EXCEPT !.status = "dispatching", !.session = job[k].session]
           e == [DB EXCEPT !.schedule.started = TRUE, !.run[o] = r]
<1>1. /\ DB \in DBType /\ DB.run = run /\ run \in [Occurrences -> RunType]
      /\ o \in Occurrences
  BY DEF Inv, Sound, OtherTypes, DB, DBType
<1>2. OnlyEnds(DB, [DB EXCEPT !.schedule = Unleased(Refunded(schedule), "active")])
  BY <1>1, FreeOnlyEnds
<1>3. OnlyEnds(DB, FailWith(DB, {o} \cap Waiting(DB), "failed"))
  <2>1. {o} \cap Waiting(DB) \in SUBSET Occurrences
    BY <1>1
  <2>2. QED
    BY <1>1, <2>1, FailOnlyEnds
<1>4. EndsBeside(o, DB, e) /\ e.run[o].status = "dispatching"
  <2>1. e.run = [DB.run EXCEPT ![o] = r]
    BY <1>1 DEF DBType
  <2>2. \A p \in Occurrences : p # o => e.run[p] = DB.run[p]
    BY <1>1, <2>1
  <2>3. e.run[o].status = "dispatching"
    BY <1>1, <2>1 DEF RunType
  <2>4. QED
    BY <2>2, <2>3 DEF EndsBeside
<1>5. QED
  BY <1>2, <1>3, <1>4, OnlyEndsItself DEF Begun

\* A run that was dispatching is set running; every other keeps what it was.
LEMMA RunningMoves ==
    ASSUME Inv, NEW k \in Claims
    PROVE  LET o == job[k].occurrence
               e == [DB EXCEPT !.run[o] = Running(k)]
           IN  /\ e.run[o] = Running(k)
               /\ \A p \in Occurrences : p # o => e.run[p] = run[p]
<1> DEFINE o == job[k].occurrence
           e == [DB EXCEPT !.run[o] = Running(k)]
<1>1. /\ DB \in DBType /\ DB.run = run /\ run \in [Occurrences -> RunType] /\ o \in Occurrences
  BY DEF Inv, Sound, OtherTypes, DB, DBType
<1>2. e.run = [DB.run EXCEPT ![o] = Running(k)]
  BY <1>1 DEF DBType
<1>3. QED
  BY <1>1, <1>2

LEMMA CommitOnlyEnds ==
    ASSUME NEW d, Keeps(d), OnlyEnds(DB, d), Commit(d)
    PROVE  OnlyEnds(DB, DB')
  BY CommitWrites DEF Keeps, Sound

LEMMA MarkMoves ==
    ASSUME Inv, NEW k \in Claims, MarkRunning(k) \/ MarkFails(k)
    PROVE  \/ OnlyEnds(DB, DB')
           \/ \E o \in Occurrences : EndsBeside(o, DB, DB') /\ Marks(k, o)
<1> DEFINE o == job[k].occurrence
           e == [DB EXCEPT !.run[o] = Running(k)]
<1>1. Keeps(DB) /\ OnlyEnds(DB, DB) /\ o \in Occurrences /\ DB.run = run /\ DB'.run = run'
  BY SoundHere, OnlyEndsItself DEF Inv, OtherTypes, DB
<1>2. CASE Commit(DB)
  BY <1>1, <1>2, CommitOnlyEnds
<1>3. CASE ~Markable(k) /\ Commit(Marked(k))
  BY <1>1, <1>3, CommitOnlyEnds DEF Marked
<1>4. CASE Markable(k) /\ Commit(Marked(k)) /\ ~Commit(DB)
  <2>1. run' = e.run
    BY <1>4 DEF Marked, Commit
  <2>2. run'[o] = Running(k) /\ \A p \in Occurrences : p # o => run'[p] = run[p]
    BY <2>1, RunningMoves
  <2>3. EndsBeside(o, DB, DB')
    BY <1>1, <2>2 DEF EndsBeside
  <2>4. job' = [job EXCEPT ![k].at = "done"]
    BY <1>4 DEF MarkRunning, MarkFails, Goto
  <2>5. QED
    BY <1>1, <1>4, <2>2, <2>3, <2>4 DEF Marks
<1>5. QED
  BY <1>2, <1>3, <1>4 DEF MarkRunning, MarkFails

LEMMA SessionMovesRun ==
    ASSUME Inv, NEW k \in Claims, SessionFails(k)
    PROVE  \/ OnlyEnds(DB, DB')
           \/ \E o \in Occurrences : EndsBeside(o, DB, DB') /\ Promotes(k, o)
<1> DEFINE o == job[k].occurrence
           d == Promoted(k)
           e == Finish(d, k, FALSE)
<1>1. turn[k] # "none" /\ Commit(e)
  BY DEF SessionFails
<1>2. Keeps(d) /\ Keeps(e) /\ d \in DBType /\ DB' = e
  BY <1>1, PromotedKeeps, CommitWrites DEF Keeps, Sound
<1>3. OnlyEnds(d, e)
  BY <1>2, FinishOnlyEnds
<1>4. CASE d = DB
  BY <1>2, <1>3, <1>4
<1>5. CASE d # DB
  <2>1. run[o].status = "dispatching" /\ d = [DB EXCEPT !.run[o] = Running(k)]
    BY <1>5 DEF Promoted
  <2>2. o \in Occurrences /\ DB.run = run
    BY DEF Inv, OtherTypes, DB
  <2>3. d.run[o] = Running(k) /\ \A p \in Occurrences : p # o => d.run[p] = run[p]
    BY <2>1, RunningMoves
  <2>4. EndsBeside(o, DB, DB')
    BY <1>2, <1>3, <2>2, <2>3 DEF EndsBeside, OnlyEnds
  <2>5. run' = e.run
    BY <1>1 DEF Commit
  <2>6. run'[o].status \in Terminal \/ run'[o] = Running(k)
    BY <1>3, <2>2, <2>3, <2>5 DEF OnlyEnds
  <2>7. QED
    BY <2>1, <2>2, <2>4, <2>6 DEF Promotes
<1>6. QED
  BY <1>4, <1>5

LEMMA OnlyEndsStep ==
    ASSUME Inv, [Next]_vars
    PROVE  \/ OnlyEnds(DB, DB')
           \/ Delete
           \/ \E k \in Claims, o \in Occurrences : EndsBeside(o, DB, DB') /\ Moves(k, o)
<1>1. Keeps(DB) /\ OnlyEnds(DB, DB) /\ DB \in DBType
  BY SoundHere, OnlyEndsItself
<1>2. UNCHANGED dbVars => OnlyEnds(DB, DB')
  BY <1>1, Still, CommitOnlyEnds
<1>3. CASE ClaimDue
  BY <1>3, ClaimMoves DEF Moves
<1>4. CASE LeaseExpires \/ Update \/ RunNow \/ AuthorityChanges
  <2>1. run' = run
    BY <1>4 DEF LeaseExpires, Update, RunNow, AuthorityChanges, dbVars
  <2>2. QED
    BY <2>1 DEF OnlyEnds, DB
<1>5. ASSUME NEW k \in Claims, BeginDispatch(k) \/ BeginFails(k)
      PROVE  \/ OnlyEnds(DB, DB')
             \/ \E o \in Occurrences : EndsBeside(o, DB, DB') /\ Moves(k, o)
  <2> DEFINE o == job[k].occurrence
  <2>1. (Commit(DB) \/ Commit(Begun(k))) /\ job[k].at = "begin" /\ o \in Occurrences
    BY <1>5 DEF BeginDispatch, BeginFails, Inv, OtherTypes
  <2>2. Keeps(Begun(k))
    BY <2>1, BegunKeeps
  <2>3. CASE Commit(DB)
    BY <1>1, <2>3, CommitOnlyEnds
  <2>4. CASE Commit(Begun(k)) /\ OnlyEnds(DB, Begun(k))
    BY <2>2, <2>4, CommitOnlyEnds
  <2>5. CASE Commit(Begun(k)) /\ ~OnlyEnds(DB, Begun(k))
    <3>1. /\ run[o].status = "claimed" /\ Begun(k).run[o].status = "dispatching"
          /\ EndsBeside(o, DB, Begun(k))
      BY <2>5, BegunMoves
    <3>2. DB' = Begun(k) /\ run' = Begun(k).run
      BY <2>2, <2>5, CommitWrites DEF Keeps, Sound, Commit
    <3>3. Begins(k, o)
      BY <1>5, <3>1, <3>2 DEF Begins
    <3>4. QED
      BY <2>1, <3>1, <3>2, <3>3 DEF Moves
  <2>6. QED
    BY <2>1, <2>3, <2>4, <2>5
<1>6. ASSUME NEW k \in Claims, Dispatcher(k) \/ MarkFails(k) \/ JobDies(k), ~BeginDispatch(k)
      PROVE  \/ OnlyEnds(DB, DB')
             \/ \E o \in Occurrences : EndsBeside(o, DB, DB') /\ Moves(k, o)
  <2>1. CASE MarkRunning(k) \/ MarkFails(k)
    BY <2>1, MarkMoves DEF Moves
  <2>2. CASE FailClaim(k)
    <3> DEFINE own == IF run[job[k].occurrence].token = k THEN {job[k].occurrence} ELSE {}
    <3>1. CASE ClaimFailed(k)
      <4>1. Commit(FailWith(DB, own, "failed")) /\ Keeps(FailWith(DB, own, "failed"))
        BY <2>2, <3>1, FailClaimKeeps DEF FailClaim
      <4>2. own \in SUBSET Occurrences
        BY DEF Inv, OtherTypes
      <4>3. QED
        BY <1>1, <4>1, <4>2, FailOnlyEnds, CommitOnlyEnds
    <3>2. CASE ~ClaimFailed(k)
      BY <1>1, <2>2, <3>2, CommitOnlyEnds DEF FailClaim
    <3>3. QED
      BY <3>1, <3>2
  <2>3. CASE PrepareHistory(k)
    <3>1. run' = run
      BY <2>3 DEF PrepareHistory
    <3>2. QED
      BY <3>1 DEF OnlyEnds, DB
  <2>4. CASE PrepareSession(k) \/ Discard(k) \/ Send(k) \/ JobDies(k)
    BY <1>2, <2>4 DEF PrepareSession, Discard, Send, JobDies
  <2>5. QED
    BY <1>6, <2>1, <2>2, <2>3, <2>4 DEF Dispatcher
<1>7. ASSUME NEW k \in Claims, Turn(k) \/ SessionFails(k) \/ HandlerThrows(k) \/ HandlerReplayed(k)
      PROVE  \/ OnlyEnds(DB, DB')
             \/ \E o \in Occurrences : EndsBeside(o, DB, DB') /\ Moves(k, o)
  <2>1. CASE SessionFails(k)
    BY <2>1, SessionMovesRun DEF Moves
  <2>2. CASE UNCHANGED dbVars
    BY <1>2, <2>2
  <2>3. CASE Commit(DB) \/ Commit(SealTurn(k)) \/ Commit(Finish(DB, k, TRUE))
    <3>1. /\ OnlyEnds(DB, SealTurn(k)) /\ Keeps(SealTurn(k))
          /\ OnlyEnds(DB, Finish(DB, k, TRUE)) /\ Keeps(Finish(DB, k, TRUE))
      BY <1>1, FinishOnlyEnds, SoundHere DEF SealTurn
    <3>2. QED
      BY <1>1, <2>3, <3>1, CommitOnlyEnds
  <2>4. QED
    BY <1>7, <2>1, <2>2, <2>3
       DEF Turn, TurnStarts, AnswerWithheld, AnswerSuspended, AnswerAuthorized, StartDelivery,
           TelegramReplies, CompleteDelivered, TurnCompletes, TurnFails, HandlerThrows,
           HandlerReplayed
<1>8. CASE UNCHANGED vars
  BY <1>2, <1>8 DEF vars
<1>9. QED
  BY <1>3, <1>4, <1>5, <1>6, <1>7, <1>8 DEF Next, People, Faulty

(***************************************************************************)
(* The copy of the history.  A claim past its history step has the copy of *)
(* its occurrence as long as the run is unended; an occurrence somebody    *)
(* claimed is absent only when the schedule is deleted, so no later claim  *)
(* starts over under an earlier one that is already past that step.        *)
(***************************************************************************)
EndedKeepNone == \A o \in snapshots : run[o].status \notin Terminal
ActiveHaveCopy == External => ActiveRuns \subseteq snapshots
PreparedHaveCopy ==
    External => \A k \in Claims :
        LET o == job[k].occurrence IN
        /\ job[k].at \in {"prepare", "begin"} /\ run[o].status = "claimed" => o \in snapshots
        /\ job[k].at # "none" /\ run[o].status = "absent" => schedule.status = "deleted"
HistoryInv == EndedKeepNone /\ ActiveHaveCopy /\ PreparedHaveCopy

LEMMA ClearsStep ==
    ASSUME Inv, [Next]_vars
    PROVE  \/ Clears(DB, DB')
           \/ Delete
           \/ \E k \in Claims : PrepareHistory(k)
<1>1. ASSUME NEW k \in Claims, CompleteDelivered(k) PROVE Clears(DB, DB')
  <2>1. Commit(Finish(DB, k, TRUE)) /\ Keeps(Finish(DB, k, TRUE)) /\ DB \in DBType
    BY <1>1, SoundHere DEF CompleteDelivered
  <2>2. DB' = Finish(DB, k, TRUE)
    BY <2>1, CommitWrites DEF Keeps, Sound
  <2>3. QED
    BY <2>1, <2>2, FinishClears
<1>2. QED
  BY <1>1, SettlesStep DEF Settles

LEMMA EndedKeepNoneStep ==
    ASSUME Inv, EndedKeepNone, [Next]_vars
    PROVE  EndedKeepNone'
<1>1. DB.run = run /\ DB.snapshots = snapshots /\ DB'.run = run' /\ DB'.snapshots = snapshots'
      /\ DB \in DBType
  BY DEF DB, Inv, Sound
<1>2. CASE Clears(DB, DB')
  <2> SUFFICES ASSUME NEW o \in snapshots', run'[o].status \in Terminal
               PROVE  FALSE
    BY DEF EndedKeepNone
  <2>1. o \in snapshots /\ o \in Occurrences
    BY <1>1, <1>2 DEF Clears, DBType
  <2>2. run[o].status \in Terminal
    BY <1>1, <1>2, <2>1 DEF Clears
  <2>3. QED
    BY <2>1, <2>2 DEF EndedKeepNone
<1>3. ASSUME NEW k \in Claims, PrepareHistory(k) PROVE EndedKeepNone'
  <2>1. run' = run /\ \A o \in snapshots' : o \in snapshots \/ run[o].status = "claimed"
    BY <1>3 DEF PrepareHistory
  <2>2. QED
    BY <2>1 DEF EndedKeepNone, Terminal
<1>4. CASE Delete
  BY <1>4 DEF Delete, EndedKeepNone
<1>5. QED
  BY <1>2, <1>3, <1>4, ClearsStep

\* A copy that is there stays until its run ends or the schedule is deleted.
LEMMA CopyStays ==
    ASSUME Inv, [Next]_vars, NEW o \in snapshots, run'[o].status \notin Terminal, ~Delete
    PROVE  o \in snapshots'
<1>1. DB.run = run /\ DB.snapshots = snapshots /\ DB'.run = run' /\ DB'.snapshots = snapshots'
      /\ o \in Occurrences
  BY DEF DB, Inv, Sound, DBType
<1>2. CASE Clears(DB, DB')
  BY <1>1, <1>2 DEF Clears
<1>3. ASSUME NEW k \in Claims, PrepareHistory(k) PROVE o \in snapshots'
  BY <1>3 DEF PrepareHistory
<1>4. QED
  BY <1>2, <1>3, ClearsStep

LEMMA ActiveHaveCopyStep ==
    ASSUME Inv, ActiveHaveCopy, PreparedHaveCopy, [Next]_vars
    PROVE  ActiveHaveCopy'
<1> SUFFICES ASSUME External, NEW o \in Occurrences, run'[o].status \in {"dispatching", "running"}
             PROVE  o \in snapshots'
  BY DEF ActiveHaveCopy, ActiveRuns
<1>1. ~Delete
  BY DEF Delete, NoRun
<1>2. DB.run = run /\ DB'.run = run' /\ run'[o].status \notin Terminal
  BY DEF DB, Terminal
<1>3. o \in ActiveRuns => o \in snapshots'
  BY <1>1, <1>2, CopyStays DEF ActiveHaveCopy
<1>4. CASE run'[o] = run[o]
  BY <1>3, <1>4 DEF ActiveRuns
<1>5. ASSUME NEW k \in Claims, Moves(k, o) PROVE o \in snapshots'
  <2>1. CASE Takes(k, o)
    BY <2>1 DEF Takes
  <2>2. CASE Begins(k, o)
    <3>1. job[k].at = "begin" /\ o = job[k].occurrence /\ run[o].status = "claimed"
      BY <2>2 DEF Begins, BeginDispatch, BeginFails
    <3>2. o \in snapshots
      BY <3>1 DEF PreparedHaveCopy
    <3>3. QED
      BY <1>1, <1>2, <3>2, CopyStays
  <2>3. CASE Marks(k, o) \/ Promotes(k, o)
    BY <1>3, <2>3 DEF Marks, Markable, Promotes, ActiveRuns
  <2>4. QED
    BY <1>5, <2>1, <2>2, <2>3 DEF Moves
<1>6. QED
  <2>1. CASE OnlyEnds(DB, DB')
    BY <1>2, <1>4, <2>1 DEF OnlyEnds
  <2>2. ASSUME NEW k \in Claims, NEW p \in Occurrences, EndsBeside(p, DB, DB'), Moves(k, p)
        PROVE  o \in snapshots'
    BY <1>2, <1>4, <1>5, <2>2 DEF EndsBeside
  <2>3. QED
    BY <1>1, <2>1, <2>2, OnlyEndsStep

\* A claim is past its history step only by that step, and at its occurrence unless it
\* is the one the sweep takes.
LEMMA JobPrepared ==
    ASSUME Inv, [Next]_vars, External, NEW k \in Claims, job'[k].at # "none"
    PROVE  \/ /\ job[k].at # "none" /\ job'[k].occurrence = job[k].occurrence
              /\ job'[k].at \in {"prepare", "begin"} =>
                    \/ job[k].at \in {"prepare", "begin"}
                    \/ PrepareHistory(k) /\ job'[k].occurrence \in snapshots'
           \/ ClaimDue /\ job'[k].at = "history" /\ run'[job'[k].occurrence].status = "claimed"
<1>1. OtherTypes
  BY DEF Inv
<1>2. CASE job' = job
  BY <1>2
<1>3. CASE ClaimDue /\ job' # job
  <2> DEFINE swept == RevokeDestination(RecoverLease(ExpireHandoff(DB)))
             c == claims + 1
             o == swept.schedule.next
             e == TakeLease(swept, c)
  <2>1. /\ c \in Claims /\ Commit(e) /\ schedule'.token = c
        /\ job' = [job EXCEPT ![c].at = "history", ![c].occurrence = o]
    BY <1>3 DEF ClaimDue
  <2>2. CASE k = c
    <3>1. job'[k].at = "history" /\ job'[k].occurrence = o
      BY <1>1, <2>1, <2>2 DEF OtherTypes
    <3>2. run'[o].status = "claimed"
      <4>1. Sound(swept, claims, Occ) /\ swept \in DBType /\ claims \in Nat
        BY SweptSound, Ranges DEF Inv, OtherTypes, Sound
      <4>2. swept.schedule.token # c
        BY <4>1 DEF Sound, NewestLease, LeaseShape, NoToken, Token
      <4>3. e.schedule.token = c
        BY <2>1 DEF Commit
      <4>4. /\ swept.schedule.status = "active" /\ ~(swept.schedule.attempts >= MaxAttempts)
            /\ Reclaimable(swept.run[o])
        <5>1. CASE swept.schedule.status # "active" \/ swept.schedule.attempts >= MaxAttempts
          BY <4>2, <4>3, <5>1 DEF TakeLease
        <5>2. CASE /\ ~(swept.schedule.status # "active" \/ swept.schedule.attempts >= MaxAttempts)
                   /\ ~Reclaimable(swept.run[o])
          <6> DEFINE f == [swept EXCEPT !.schedule = Attempted(swept.schedule)]
          <6>1. e = FailWith(f, {}, "failed")
            BY <5>2 DEF TakeLease
          <6>2. e.schedule = Unleased(Attempted(swept.schedule), "failed")
            BY <4>1, <6>1 DEF FailWith, DBType
          <6>3. e.schedule.token = NoToken
            BY <4>1, <6>2 DEF DBType, ScheduleType, Unleased, Attempted
          <6>4. QED
            BY <4>1, <4>3, <6>3 DEF NoToken
        <5>3. QED
          BY <5>1, <5>2
      <4>5. e = [swept EXCEPT !.schedule = Leased(Attempted(swept.schedule), c),
                              !.run[o] = [swept.run[o] EXCEPT !.status = "claimed", !.token = c]]
        BY <4>4 DEF TakeLease
      <4>6. e.run = [swept.run EXCEPT ![o] = [swept.run[o] EXCEPT !.status = "claimed",
                                                                  !.token = c]]
        BY <4>1, <4>5 DEF DBType
      <4>7. o \in Occurrences /\ swept.run \in [Occurrences -> RunType] /\ run' = e.run
        BY <2>1, <4>1 DEF Commit, DBType, ScheduleType
      <4>8. e.run[o] = [swept.run[o] EXCEPT !.status = "claimed", !.token = c]
        BY <4>6, <4>7
      <4>9. QED
        BY <4>7, <4>8 DEF RunType
    <3>3. QED
      BY <1>3, <3>1, <3>2
  <2>3. CASE k # c
    <3>1. job'[k] = job[k]
      <4> HIDE DEF c
      <4>1. QED
        BY <1>1, <2>1, <2>3 DEF OtherTypes
    <3>2. QED
      BY <3>1
  <2>4. QED
    BY <2>2, <2>3
<1>4. ASSUME NEW c \in Claims, PrepareHistory(c), job' # job
      PROVE  /\ job[k].at # "none" /\ job'[k].occurrence = job[k].occurrence
             /\ job'[k].at \in {"prepare", "begin"} =>
                   \/ job[k].at \in {"prepare", "begin"}
                   \/ PrepareHistory(k) /\ job'[k].occurrence \in snapshots'
  <2>1. /\ job[c].at = "history"
        /\ \/ job' = [job EXCEPT ![c].at = "prepare"] /\ job[c].occurrence \in snapshots'
           \/ job' = [job EXCEPT ![c].at = "failHistory"]
    BY <1>4 DEF PrepareHistory, Goto
  <2>2. QED
    BY <1>1, <1>4, <2>1 DEF OtherTypes
<1>5. ASSUME NEW c \in Claims, job[c].at \in {"prepare", "begin"} \/ job'[c].at \notin {"prepare", "begin"},
             job[c].at # "none",
             \E step : \/ job' = [job EXCEPT ![c].at = step]
                       \/ \E t : job' = [job EXCEPT ![c].at = step, ![c].session = t]
      PROVE  /\ job[k].at # "none" /\ job'[k].occurrence = job[k].occurrence
             /\ job'[k].at \in {"prepare", "begin"} => job[k].at \in {"prepare", "begin"}
  BY <1>1, <1>5 DEF OtherTypes
<1>6. ASSUME NEW c \in Claims, Dispatcher(c) \/ Faulty(c) \/ Turn(c), ~PrepareHistory(c), job' # job
      PROVE  /\ job[c].at \in {"prepare", "begin"} \/ job'[c].at \notin {"prepare", "begin"}
             /\ job[c].at # "none"
             /\ \E step : \/ job' = [job EXCEPT ![c].at = step]
                          \/ \E t : job' = [job EXCEPT ![c].at = step, ![c].session = t]
  <2>1. CASE PrepareSession(c)
    <3>1. /\ job[c].at = "prepare"
          /\ \/ \E t : job' = [job EXCEPT ![c].at = "begin", ![c].session = t]
             \/ job' = [job EXCEPT ![c].at = "done"]
      BY <2>1 DEF PrepareSession, Goto
    <3>2. QED
      BY <3>1
  <2>2. CASE Turn(c) \/ SessionFails(c) \/ HandlerThrows(c) \/ HandlerReplayed(c)
    BY <1>6, <2>2 DEF Turn, TurnStarts, AnswerWithheld, AnswerSuspended, AnswerAuthorized,
       StartDelivery, TelegramReplies, CompleteDelivered, TurnCompletes, TurnFails,
       SessionFails, HandlerThrows, HandlerReplayed
  <2>3. CASE \/ BeginDispatch(c) \/ Discard(c) \/ Send(c) \/ MarkRunning(c) \/ FailClaim(c)
             \/ BeginFails(c) \/ MarkFails(c) \/ JobDies(c)
    <3>1. /\ \E step \in {"send", "discard", "done", "mark", "failHandoff"} :
                 job' = [job EXCEPT ![c].at = step]
          /\ job[c].at # "none"
      BY <2>3 DEF BeginDispatch, Discard, Send, MarkRunning, FailClaim, BeginFails, MarkFails,
                  JobDies, Goto
    <3>2. job'[c].at \notin {"prepare", "begin"}
      BY <1>1, <3>1 DEF OtherTypes
    <3>3. QED
      BY <3>1, <3>2
  <2>4. QED
    BY <1>6, <2>1, <2>2, <2>3 DEF Dispatcher, Faulty
<1>7. CASE LeaseExpires \/ People \/ UNCHANGED vars
  BY <1>2, <1>7 DEF LeaseExpires, People, Update, RunNow, Delete, AuthorityChanges, vars
<1>8. QED
  BY <1>2, <1>3, <1>4, <1>5, <1>6, <1>7 DEF Next

LEMMA PreparedHaveCopyStep ==
    ASSUME Inv, PreparedHaveCopy, [Next]_vars
    PROVE  PreparedHaveCopy'
<1> SUFFICES ASSUME External, NEW k \in Claims
             PROVE  LET o == job'[k].occurrence IN
                    /\ job'[k].at \in {"prepare", "begin"} /\ run'[o].status = "claimed"
                          => o \in snapshots'
                    /\ job'[k].at # "none" /\ run'[o].status = "absent"
                          => schedule'.status = "deleted"
  BY DEF PreparedHaveCopy
<1> DEFINE o == job[k].occurrence
<1>1. /\ DB.run = run /\ DB'.run = run' /\ DB.schedule = schedule /\ DB'.schedule = schedule'
      /\ o \in Occurrences /\ schedule \in ScheduleType
  BY DEF DB, Inv, OtherTypes, Sound, DBType
<1>2. CASE Delete
  BY <1>1, <1>2 DEF Delete, NoRun, ScheduleType
<1>3. CASE ~Delete /\ job'[k].at # "none" /\ run'[job'[k].occurrence].status \in {"absent", "claimed"}
  <2>1. Follows(DB, DB')
    BY <1>3, DBStep
  <2>2. CASE ClaimDue /\ job'[k].at = "history" /\ run'[job'[k].occurrence].status = "claimed"
    BY <2>2
  <2>3. CASE /\ job[k].at # "none" /\ job'[k].occurrence = o
             /\ job'[k].at \in {"prepare", "begin"} =>
                   \/ job[k].at \in {"prepare", "begin"}
                   \/ PrepareHistory(k) /\ job'[k].occurrence \in snapshots'
    <3>1. run[o].status \in {"absent", "claimed"}
      BY <1>1, <1>3, <2>1, <2>3 DEF Follows, Untried
    <3>2. schedule.status = "deleted" => schedule'.status = "deleted"
      BY <1>1, <2>1 DEF Follows
    <3>3. run[o].status = "absent" => schedule.status = "deleted"
      BY <2>3 DEF PreparedHaveCopy
    <3>4. run'[o] = run[o] \/ (run'[o].status = "claimed" /\ schedule'.status = "leased")
      <4>1. run'[o].status \notin Terminal
        BY <1>3, <2>3 DEF Terminal
      <4>2. CASE OnlyEnds(DB, DB')
        BY <1>1, <4>1, <4>2 DEF OnlyEnds
      <4>3. ASSUME NEW c \in Claims, NEW p \in Occurrences, EndsBeside(p, DB, DB'), Moves(c, p)
            PROVE  run'[o] = run[o] \/ (run'[o].status = "claimed" /\ schedule'.status = "leased")
        <5>1. CASE p # o
          BY <1>1, <4>1, <4>3, <5>1 DEF EndsBeside
        <5>2. CASE p = o
          <6>1. ~Begins(c, o)
            BY <1>3, <2>3 DEF Begins
          <6>2. ~Marks(c, o) /\ ~Promotes(c, o)
            BY <3>1 DEF Marks, Markable, Promotes
          <6>3. QED
            BY <4>3, <5>2, <6>1, <6>2 DEF Moves, Takes
        <5>3. QED
          BY <5>1, <5>2
      <4>4. QED
        BY <1>3, <4>2, <4>3, OnlyEndsStep
    <3>5. run'[o].status = "absent" => schedule'.status = "deleted"
      BY <3>2, <3>3, <3>4
    <3>6. ASSUME job'[k].at \in {"prepare", "begin"}, run'[o].status = "claimed"
          PROVE  o \in snapshots'
      <4>1. CASE PrepareHistory(k) /\ job'[k].occurrence \in snapshots'
        BY <2>3, <4>1
      <4>2. CASE job[k].at \in {"prepare", "begin"}
        <5>1. run[o].status = "claimed"
          BY <3>1, <3>2, <3>3, <3>4, <3>6
        <5>2. o \in snapshots
          BY <4>2, <5>1 DEF PreparedHaveCopy
        <5>3. QED
          BY <1>3, <3>6, <5>2, CopyStays DEF Terminal
      <4>3. QED
        BY <2>3, <3>6, <4>1, <4>2
    <3>7. QED
      BY <2>3, <3>5, <3>6
  <2>4. QED
    BY <1>3, <2>2, <2>3, JobPrepared
<1>4. QED
  BY <1>2, <1>3

LEMMA HistoryStep ==
    ASSUME Inv, HistoryInv, [Next]_vars
    PROVE  HistoryInv'
  BY EndedKeepNoneStep, ActiveHaveCopyStep, PreparedHaveCopyStep DEF HistoryInv

(***************************************************************************)
(* Answers, notices and receipts.  An occurrence has one turn at most, as  *)
(* it enters Eve once; a turn's answer is unseen until its delivery starts *)
(* and a delivery starts once, so a replay finds it settled or ambiguous;  *)
(* and a notice goes with the very event that ends the run.                *)
(***************************************************************************)
TurnsApart ==
    /\ \A k \in Claims : turn[k] # "none" => handed[job[k].occurrence] > 0
    /\ \A k1, k2 \in Claims :
          turn[k1] # "none" /\ turn[k2] # "none" /\ job[k1].occurrence = job[k2].occurrence
              => k1 = k2
SpokenBy(k) ==
    /\ turn[k] = "none" => outbox[k] = "none"
    /\ turn[k] = "telegram" => outbox[k] = "started" /\ delivered[job[k].occurrence] = 0
    /\ turn[k] = "receipt" => outbox[k] = "delivered"
    /\ turn[k] # "none" /\ outbox[k] = "none" => delivered[job[k].occurrence] = 0
    /\ turn[k] # "none" /\ outbox[k] = "delivered" => delivered[job[k].occurrence] = 1
AnsweredOnce ==
    /\ \A k \in Claims : SpokenBy(k)
    /\ \A o \in Occurrences : delivered[o] <= 1 /\ (handed[o] = 0 => delivered[o] = 0)
ToldOnce ==
    \A o \in Occurrences :
        /\ notices[o] <= 1
        /\ notices[o] > 0 => run[o].status \in Terminal \/ schedule.status = "deleted"
CompletedIsTold ==
    \A o \in Occurrences : run[o].status = "completed" => o \in receipts /\ delivered[o] > 0

OutcomeInv == Inv /\ HistoryInv /\ TurnsApart /\ AnsweredOnce /\ ToldOnce /\ CompletedIsTold

TurnStep(k) == Turn(k) \/ SessionFails(k) \/ HandlerThrows(k) \/ HandlerReplayed(k)
\* What a step of a turn moves, besides the tables and what people see.
TurnMoves(k) ==
    /\ turn[k] # "none"
    /\ \E step \in TurnSteps \ {"none"} : TurnGoto(k, step)
    /\ job' = job /\ handed' = handed
    /\ \A c \in Claims : c # k => outbox'[c] = outbox[c]
    /\ \A o \in Occurrences : o # job[k].occurrence => delivered'[o] = delivered[o]
\* A step that starts, moves and shows nothing.
Silent == UNCHANGED <<turn, chatVars>>

LEMMA StepsSpeak ==
    ASSUME Inv, [Next]_vars
    PROVE  \/ Silent
           \/ \E k \in Claims : Send(k) \/ TurnStep(k)
<1>1. CASE ClaimDue \/ LeaseExpires \/ People \/ UNCHANGED vars
  BY <1>1 DEF ClaimDue, LeaseExpires, People, Update, RunNow, Delete, AuthorityChanges, vars, Silent
<1>2. ASSUME NEW k \in Claims, Dispatcher(k) \/ Faulty(k) \/ Turn(k), ~Send(k), ~TurnStep(k)
      PROVE  Silent
  BY <1>2 DEF Dispatcher, PrepareHistory, PrepareSession, BeginDispatch, Discard, MarkRunning,
              FailClaim, Faulty, BeginFails, MarkFails, JobDies, TurnStep, Silent
<1>3. QED
  BY <1>1, <1>2 DEF Next

LEMMA TurnStepMoves ==
    ASSUME Inv, NEW k \in Claims, TurnStep(k)
    PROVE  TurnMoves(k)
<1>1. /\ OtherTypes /\ job[k].occurrence \in Occurrences
      /\ outbox \in [Claims -> {"none", "started", "delivered", "ambiguous", "failed"}]
      /\ delivered \in [Occurrences -> Nat]
  BY DEF Inv, OtherTypes
<1>2. job' = job /\ handed' = handed /\ turn[k] # "none"
  BY DEF TurnStep, Turn, TurnStarts, AnswerWithheld, AnswerSuspended, AnswerAuthorized,
         StartDelivery, TelegramReplies, CompleteDelivered, TurnCompletes, TurnFails,
         SessionFails, HandlerThrows, HandlerReplayed, chatVars
<1>3. \E step \in TurnSteps \ {"none"} : TurnGoto(k, step)
  BY DEF TurnStep, Turn, TurnStarts, AnswerWithheld, AnswerSuspended, AnswerAuthorized,
         StartDelivery, TelegramReplies, CompleteDelivered, TurnCompletes, TurnFails,
         SessionFails, HandlerThrows, HandlerReplayed, TurnSteps
<1>4. outbox' = outbox \/ \E x : outbox' = [outbox EXCEPT ![k] = x]
  BY DEF TurnStep, Turn, TurnStarts, AnswerWithheld, AnswerSuspended, AnswerAuthorized,
         StartDelivery, TelegramReplies, CompleteDelivered, TurnCompletes, TurnFails,
         SessionFails, HandlerThrows, HandlerReplayed, chatVars
<1>5. delivered' = delivered \/ \E x : delivered' = [delivered EXCEPT ![job[k].occurrence] = x]
  BY DEF TurnStep, Turn, TurnStarts, AnswerWithheld, AnswerSuspended, AnswerAuthorized,
         StartDelivery, TelegramReplies, CompleteDelivered, TurnCompletes, TurnFails,
         SessionFails, HandlerThrows, HandlerReplayed, chatVars
<1>6. \A c \in Claims : c # k => outbox'[c] = outbox[c]
  BY <1>1, <1>4
<1>7. \A o \in Occurrences : o # job[k].occurrence => delivered'[o] = delivered[o]
  BY <1>1, <1>5
<1>8. QED
  BY <1>2, <1>3, <1>6, <1>7 DEF TurnMoves

\* A claim whose turn has started keeps its occurrence.
LEMMA TurnKeepsOccurrence ==
    ASSUME Inv, [Next]_vars, NEW c \in Claims, turn[c] # "none"
    PROVE  job'[c].occurrence = job[c].occurrence
<1>1. OtherTypes /\ c <= claims /\ claims \in Nat /\ Occ[c] = job[c].occurrence
  BY Ranges DEF Inv, OtherTypes, JobsPlaced, Occ
<1>2. Occ' = Occ => job'[c].occurrence = job[c].occurrence
  BY DEF Occ
<1>3. CASE ClaimDue
  <2>1. c # claims + 1
    BY <1>1 DEF Claims
  <2>2. job'[c] = job[c]
    BY <1>1, <1>3, <2>1 DEF ClaimDue, OtherTypes
  <2>3. QED
    BY <2>2
<1>4. CASE LeaseExpires \/ People \/ UNCHANGED vars
  BY <1>2, <1>4, JobsStill
     DEF LeaseExpires, People, Update, RunNow, Delete, AuthorityChanges, vars
<1>5. ASSUME NEW k \in Claims, TurnStep(k) PROVE job'[c].occurrence = job[c].occurrence
  BY <1>5, TurnStepMoves DEF TurnMoves
<1>6. ASSUME NEW k \in Claims, Dispatcher(k) \/ BeginFails(k) \/ MarkFails(k) \/ JobDies(k)
      PROVE  job'[c].occurrence = job[c].occurrence
  <2>1. \E step : \/ job' = [job EXCEPT ![k].at = step]
                  \/ \E s : job' = [job EXCEPT ![k].at = step, ![k].session = s]
    BY <1>6 DEF Dispatcher, PrepareHistory, PrepareSession, BeginDispatch, Discard, Send,
                MarkRunning, FailClaim, BeginFails, MarkFails, JobDies, Goto
  <2>2. QED
    BY <1>1, <1>2, <2>1, OccKept
<1>7. QED
  BY <1>3, <1>4, <1>5, <1>6 DEF Next, Faulty, TurnStep

LEMMA TurnsApartStep ==
    ASSUME Inv, TurnsApart, [Next]_vars
    PROVE  TurnsApart'
<1>1. /\ OtherTypes /\ OtherTypes' /\ HandedFrom
      /\ \A c \in Claims : job[c].occurrence \in Occurrences /\ handed[job[c].occurrence] \in Nat
      /\ \A c \in Claims : turn[c] # "none" => job'[c].occurrence = job[c].occurrence
  BY TypesStep, TurnKeepsOccurrence DEF Inv, OtherTypes
<1>2. CASE Silent
  BY <1>1, <1>2 DEF Silent, chatVars, TurnsApart
<1>3. ASSUME NEW k \in Claims, TurnStep(k) PROVE TurnsApart'
  <2>1. TurnMoves(k)
    BY <1>3, TurnStepMoves
  <2>2. \A c \in Claims : turn'[c] # "none" => turn[c] # "none"
    BY <1>1, <2>1 DEF TurnMoves, TurnGoto, OtherTypes
  <2>3. QED
    BY <2>1, <2>2 DEF TurnMoves, TurnsApart
<1>4. ASSUME NEW k \in Claims, Send(k) PROVE TurnsApart'
  <2> DEFINE o == job[k].occurrence
  <2>1. /\ k \in Sending /\ handed[o] = 0 /\ o \in Occurrences
        /\ handed \in [Occurrences -> Nat] /\ turn \in [Claims -> TurnSteps]
    BY <1>1, <1>4 DEF Send, Sending, HandedFrom, OtherTypes
  <2>2. \A c \in Claims : turn[c] # "none" => job[c].occurrence # o
    BY <2>1 DEF TurnsApart
  <2>3. job'[k].occurrence = o
    BY <1>1, <1>4 DEF Send, Goto, OtherTypes
  <2>4. CASE turn' = turn /\ handed' = handed
    BY <1>1, <2>4 DEF TurnsApart
  <2>5. CASE /\ turn' = [turn EXCEPT ![k] = "accepted"]
             /\ handed' = [handed EXCEPT ![o] = handed[o] + 1]
    <3>1. \A c \in Claims : turn'[c] # "none" => c = k \/ turn[c] # "none"
      BY <2>1, <2>5
    <3>2. handed'[o] = 1 /\ \A p \in Occurrences : p # o => handed'[p] = handed[p]
      BY <2>1, <2>5
    <3>3. \A c \in Claims : turn'[c] # "none" /\ c # k =>
              job'[c].occurrence = job[c].occurrence /\ job'[c].occurrence # o
      BY <1>1, <2>2, <3>1
    <3>4. \A c \in Claims : turn'[c] # "none" => handed'[job'[c].occurrence] > 0
      BY <1>1, <2>3, <3>1, <3>2, <3>3 DEF TurnsApart
    <3>5. QED
      BY <2>3, <3>1, <3>3, <3>4 DEF TurnsApart
  <2>6. QED
    BY <1>4, <2>4, <2>5 DEF Send
<1>5. QED
  BY <1>2, <1>3, <1>4, StepsSpeak

\* The claims whose turn does not step say what they said.
LEMMA OthersSilent ==
    ASSUME Inv, TurnsApart, NEW k \in Claims, TurnMoves(k), NEW c \in Claims, c # k, SpokenBy(c)
    PROVE  SpokenBy(c)'
<1>1. /\ turn'[c] = turn[c] /\ outbox'[c] = outbox[c] /\ job' = job
      /\ job[c].occurrence \in Occurrences
  BY DEF TurnMoves, TurnGoto, Inv, OtherTypes
<1>2. turn[c] # "none" => delivered'[job[c].occurrence] = delivered[job[c].occurrence]
  <2>1. turn[c] # "none" => job[c].occurrence # job[k].occurrence
    BY DEF TurnsApart, TurnMoves
  <2>2. QED
    BY <1>1, <2>1 DEF TurnMoves
<1>3. QED
  BY <1>1, <1>2 DEF SpokenBy

LEMMA AnsweredTurn ==
    ASSUME Inv, TurnsApart, AnsweredOnce, NEW k \in Claims, TurnStep(k)
    PROVE  AnsweredOnce'
<1> DEFINE o == job[k].occurrence
<1>1. /\ TurnMoves(k) /\ o \in Occurrences
      /\ outbox \in [Claims -> {"none", "started", "delivered", "ambiguous", "failed"}]
      /\ delivered \in [Occurrences -> Nat] /\ turn \in [Claims -> TurnSteps]
      /\ handed[o] > 0 /\ handed \in [Occurrences -> Nat]
      /\ SpokenBy(k) /\ turn[k] # "none" /\ job' = job /\ handed' = handed
      /\ \A p \in Occurrences : p # o => delivered'[p] = delivered[p]
  BY TurnStepMoves DEF Inv, OtherTypes, TurnMoves, TurnsApart, AnsweredOnce
<1>2. SpokenBy(k)' /\ delivered'[o] <= 1
  <2>1. CASE delivered' = delivered /\ outbox' = outbox
    <3>1. turn'[k] \notin {"none", "telegram"} /\ (turn'[k] = "receipt" => outbox[k] = "delivered")
      BY <1>1, <2>1
         DEF TurnStep, Turn, TurnStarts, AnswerWithheld, AnswerSuspended, AnswerAuthorized,
             StartDelivery, Unsent, TelegramReplies, CompleteDelivered, TurnCompletes, TurnFails,
             SessionFails, HandlerThrows, HandlerReplayed, TurnGoto, SpokenBy
    <3>2. QED
      BY <1>1, <2>1, <3>1 DEF SpokenBy, AnsweredOnce
  <2>2. CASE AnswerSuspended(k)
    <3>1. /\ outbox' = [outbox EXCEPT ![k] = IF outbox[k] = "none" THEN "failed" ELSE outbox[k]]
          /\ turn'[k] = "answered" /\ delivered' = delivered
      BY <1>1, <2>2 DEF AnswerSuspended, TurnGoto
    <3>2. QED
      BY <1>1, <3>1 DEF SpokenBy, AnsweredOnce
  <2>3. CASE StartDelivery(k)
    <3>0. delivered' = delivered
      BY <2>3 DEF StartDelivery
    <3>1. CASE Unsent(k) /\ outbox' = [outbox EXCEPT ![k] = "started"] /\ TurnGoto(k, "telegram")
      BY <1>1, <3>0, <3>1 DEF Unsent, TurnGoto, SpokenBy, AnsweredOnce
    <3>2. CASE outbox[k] = "delivered" /\ TurnGoto(k, "receipt") /\ outbox' = outbox
      BY <1>1, <3>0, <3>2 DEF TurnGoto, SpokenBy, AnsweredOnce
    <3>3. CASE /\ ~Unsent(k) /\ outbox[k] # "delivered" /\ TurnGoto(k, "answered")
               /\ outbox' = [outbox EXCEPT ![k] = IF outbox[k] = "started" THEN "ambiguous"
                                                                         ELSE outbox[k]]
      BY <1>1, <3>0, <3>3 DEF Unsent, TurnGoto, SpokenBy, AnsweredOnce
    <3>4. QED
      BY <2>3, <3>1, <3>2, <3>3 DEF StartDelivery
  <2>4. CASE TelegramReplies(k)
    <3>1. PICK shown \in BOOLEAN, reply \in {"delivered", "failed", "ambiguous"} :
              /\ reply = "delivered" => shown
              /\ delivered' = [delivered EXCEPT ![o] = IF shown THEN delivered[o] + 1
                                                               ELSE delivered[o]]
              /\ outbox' = [outbox EXCEPT ![k] = reply]
              /\ IF reply = "delivered" THEN TurnGoto(k, "receipt") ELSE TurnGoto(k, "answered")
      BY <2>4 DEF TelegramReplies
    <3>2. delivered[o] = 0
      BY <1>1, <2>4 DEF TelegramReplies, SpokenBy
    <3>3. /\ delivered'[o] = IF shown THEN 1 ELSE 0
          /\ outbox'[k] = reply
          /\ turn'[k] = IF reply = "delivered" THEN "receipt" ELSE "answered"
      BY <1>1, <3>1, <3>2 DEF TurnGoto
    <3>4. QED
      BY <1>1, <3>1, <3>3 DEF SpokenBy
  <2>5. CASE HandlerReplayed(k)
    <3>1. PICK accepted \in BOOLEAN :
              /\ accepted => turn[k] = "telegram"
              /\ delivered' = [delivered EXCEPT ![o] = IF accepted THEN delivered[o] + 1
                                                                   ELSE delivered[o]]
      BY <2>5 DEF HandlerReplayed
    <3>2. outbox' = outbox /\ turn'[k] = "thinking"
      BY <1>1, <2>5 DEF HandlerReplayed, chatVars, TurnGoto
    <3>3. CASE accepted
      <4>1. outbox[k] = "started" /\ delivered'[o] = 1
        BY <1>1, <3>1, <3>3 DEF SpokenBy
      <4>2. QED
        BY <1>1, <3>2, <4>1 DEF SpokenBy
    <3>4. CASE ~accepted
      <4>1. delivered'[o] = delivered[o]
        BY <1>1, <3>1, <3>4
      <4>2. QED
        BY <1>1, <3>2, <4>1 DEF SpokenBy, AnsweredOnce
    <3>5. QED
      BY <3>3, <3>4
  <2>6. QED
    BY <2>1, <2>2, <2>3, <2>4, <2>5
       DEF TurnStep, Turn, TurnStarts, AnswerWithheld, AnswerAuthorized, CompleteDelivered,
           TurnCompletes, TurnFails, SessionFails, HandlerThrows, chatVars
<1>3. \A c \in Claims : SpokenBy(c)'
  BY <1>1, <1>2, OthersSilent DEF AnsweredOnce
<1>4. \A p \in Occurrences : delivered'[p] <= 1 /\ (handed'[p] = 0 => delivered'[p] = 0)
  BY <1>1, <1>2 DEF AnsweredOnce
<1>5. QED
  BY <1>3, <1>4 DEF AnsweredOnce

LEMMA AnsweredStep ==
    ASSUME Inv, TurnsApart, AnsweredOnce, [Next]_vars
    PROVE  AnsweredOnce'
<1>1. /\ OtherTypes /\ HandedFrom
      /\ \A c \in Claims : turn[c] # "none" => job'[c].occurrence = job[c].occurrence
      /\ \A c \in Claims : SpokenBy(c)
  BY TurnKeepsOccurrence DEF Inv, AnsweredOnce
<1>2. CASE Silent
  BY <1>1, <1>2 DEF Silent, chatVars, SpokenBy, AnsweredOnce
<1>3. ASSUME NEW k \in Claims, Send(k) PROVE AnsweredOnce'
  <2> DEFINE o == job[k].occurrence
  <2>1. /\ k \in Sending /\ handed[o] = 0 /\ o \in Occurrences
        /\ handed \in [Occurrences -> Nat] /\ turn \in [Claims -> TurnSteps]
        /\ outbox' = outbox /\ delivered' = delivered
    BY <1>1, <1>3 DEF Send, Sending, HandedFrom, OtherTypes
  <2>2. turn[k] = "none" /\ outbox[k] = "none" /\ delivered[o] = 0
    BY <1>1, <2>1 DEF TurnsApart, SpokenBy, AnsweredOnce
  <2>3. job'[k].occurrence = o
    BY <1>1, <1>3 DEF Send, Goto, OtherTypes
  <2>4. /\ turn'[k] \in {"none", "accepted"}
        /\ \A c \in Claims : c # k => turn'[c] = turn[c]
    BY <1>3, <2>1, <2>2 DEF Send
  <2>5. \A c \in Claims : SpokenBy(c)'
    BY <1>1, <2>1, <2>2, <2>3, <2>4 DEF SpokenBy
  <2>6. \A p \in Occurrences : handed'[p] = 0 => handed[p] = 0
    BY <1>3, <2>1 DEF Send
  <2>7. QED
    BY <2>1, <2>5, <2>6 DEF AnsweredOnce
<1>4. QED
  BY <1>2, <1>3, AnsweredTurn, StepsSpeak

\* The run an event would close is the one of its turn's occurrence, and it has not ended.
LEMMA ActiveIsOwn ==
    ASSUME Inv, NEW k \in Claims, NEW d, Keeps(d), NEW o \in Active(d, k)
    PROVE  /\ o = job[k].occurrence /\ o \in Occurrences
           /\ d.run[o].status = "running" /\ d.schedule.status = "leased"
           /\ run[o].status \notin Terminal /\ schedule.status # "deleted"
<1>1. /\ Sound(d, claims, Occ) /\ Follows(DB, d) /\ o \in Occurrences
      /\ d.run[o].eve = k /\ d.run[o].status = "running" /\ d.schedule.status = "leased"
      /\ Occ[k] = job[k].occurrence /\ k # NoToken
      /\ DB.run = run /\ DB.schedule = schedule
  BY BoundsAssumption DEF Keeps, Active, Occ, Claims, NoToken, DB
<1>2. o = job[k].occurrence
  BY <1>1 DEF Sound, TokensTell
<1>3. run[o].status \notin Terminal
  BY <1>1 DEF Follows, Terminal
<1>4. schedule.status # "deleted"
  BY <1>1 DEF Follows
<1>5. QED
  BY <1>1, <1>2, <1>3, <1>4

\* A notice is sent for a run that the event has just ended.
LEMMA NoticeTold ==
    ASSUME Inv, ToldOnce, NEW k \in Claims, NEW d, Keeps(d), NEW shown \in BOOLEAN,
           shown => Active(d, k) # {}, Notice(k, shown), Commit(Finish(d, k, FALSE)),
           Follows(DB, DB')
    PROVE  ToldOnce'
<1> DEFINE o == job[k].occurrence
           e == Finish(d, k, FALSE)
<1>1. /\ notices \in [Occurrences -> Nat] /\ o \in Occurrences /\ d \in DBType /\ claims \in Token
      /\ DB.run = run /\ DB.schedule = schedule /\ DB'.run = run' /\ DB'.schedule = schedule'
  BY DEF Inv, OtherTypes, Keeps, Sound, DB
<1>2. \A p \in Occurrences : notices[p] > 0 => run'[p].status \in Terminal \/ schedule'.status = "deleted"
  BY <1>1 DEF ToldOnce, Follows
<1>3. CASE notices' = notices
  BY <1>2, <1>3 DEF ToldOnce
<1>4. CASE notices' # notices
  <2>1. shown /\ notices' = [notices EXCEPT ![o] = notices[o] + 1]
    <3>1. shown \/ notices' = notices
      BY <1>1 DEF Notice
    <3>2. shown
      BY <1>4, <3>1
    <3>3. notices' = [notices EXCEPT ![o] = notices[o] + 1] \/ notices' = notices
      BY <1>1 DEF Notice
    <3>4. QED
      BY <1>4, <3>2, <3>3
  <2>2. PICK p \in Active(d, k) : TRUE
    BY <2>1
  <2>3. p = o /\ run[o].status \notin Terminal /\ schedule.status # "deleted"
    BY <2>2, ActiveIsOwn
  <2>4. notices[o] = 0
    BY <1>1, <2>3 DEF ToldOnce
  <2>5. run'[o].status \in Terminal
    <3>1. e.run[o].status = "failed"
      BY <1>1, <2>2, <2>3, FinishClears
    <3>2. run' = e.run
      BY DEF Commit
    <3>3. QED
      BY <3>1, <3>2 DEF Terminal
  <2>6. notices'[o] = 1 /\ \A q \in Occurrences : q # o => notices'[q] = notices[q]
    BY <1>1, <2>1, <2>4
  <2>7. QED
    BY <1>2, <2>5, <2>6 DEF ToldOnce
<1>5. QED
  BY <1>3, <1>4

LEMMA ToldStep ==
    ASSUME Inv, ToldOnce, [Next]_vars
    PROVE  ToldOnce'
<1>1. /\ DB.run = run /\ DB.schedule = schedule /\ DB'.run = run' /\ DB'.schedule = schedule'
      /\ Follows(DB, DB') \/ schedule'.status = "deleted"
  <2>1. schedule \in ScheduleType
    BY DEF Inv, Sound, DB, DBType
  <2>2. Delete => schedule'.status = "deleted"
    BY <2>1 DEF Delete, ScheduleType
  <2>3. QED
    BY <2>2, DBStep DEF DB
<1>2. notices' = notices => ToldOnce'
  BY <1>1 DEF ToldOnce, Follows
<1>3. CASE Silent
  BY <1>2, <1>3 DEF Silent, chatVars
<1>4. ASSUME NEW k \in Claims, TurnFails(k) PROVE ToldOnce'
  <2> DEFINE shown == Notifiable(DB, k) /\ outbox[k] \in {"none", "failed"}
  <2>1. /\ Notice(k, shown) /\ Commit(Finish(DB, k, FALSE)) /\ Keeps(DB)
        /\ Follows(DB, DB')
    BY <1>4, SoundHere, TurnSound DEF TurnFails, SealTurn, Turn
  <2>2. shown \in BOOLEAN /\ (shown => Active(DB, k) # {})
    BY DEF Notifiable, Authorized, Inv, OtherTypes
  <2> HIDE DEF shown
  <2>3. QED
    BY <2>1, <2>2, NoticeTold
<1>5. ASSUME NEW k \in Claims, SessionFails(k) PROVE ToldOnce'
  <2> DEFINE d == Promoted(k)
             open == {s \in Claims : /\ session[s].status = "open"
                                     /\ session[s].occurrence = job[k].occurrence}
             shown == Notifiable(d, k) /\ \E s \in open : session[s].eve <= k
  <2>1. /\ Notice(k, shown) /\ Commit(Finish(d, k, FALSE)) /\ turn[k] # "none"
        /\ Follows(DB, DB')
    BY <1>5, TurnSound DEF SessionFails
  <2>2. Keeps(d)
    BY <2>1, PromotedKeeps
  <2>3. shown \in BOOLEAN /\ (shown => Active(d, k) # {})
    BY DEF Notifiable, Authorized
  <2> HIDE DEF shown, d
  <2>4. QED
    BY <2>1, <2>2, <2>3, NoticeTold
<1>6. ASSUME NEW k \in Claims, Send(k) \/ TurnStep(k), ~TurnFails(k), ~SessionFails(k)
      PROVE  ToldOnce'
  <2>1. notices' = notices
    BY <1>6 DEF Send, TurnStep, Turn, TurnStarts, AnswerWithheld, AnswerSuspended, AnswerAuthorized,
                StartDelivery, TelegramReplies, CompleteDelivered, TurnCompletes,
                HandlerThrows, HandlerReplayed, chatVars
  <2>2. QED
    BY <1>2, <2>1
<1>7. QED
  BY <1>3, <1>4, <1>5, <1>6, StepsSpeak

\* What Telegram shows and what the receipts say only grows.
LEMMA HistoryGrows ==
    ASSUME Inv, [Next]_vars
    PROVE  receipts \subseteq receipts' /\ \A o \in Occurrences : delivered'[o] >= delivered[o]
<1>1. delivered \in [Occurrences -> Nat] /\ \A k \in Claims : job[k].occurrence \in Occurrences
  BY DEF Inv, OtherTypes
<1>2. CASE Silent
  BY <1>1, <1>2 DEF Silent, chatVars
<1>3. ASSUME NEW k \in Claims, TelegramReplies(k) \/ HandlerReplayed(k)
      PROVE  receipts \subseteq receipts' /\ \A o \in Occurrences : delivered'[o] >= delivered[o]
  <2> DEFINE o == job[k].occurrence
  <2>1. \E b \in BOOLEAN :
            delivered' = [delivered EXCEPT ![o] = IF b THEN delivered[o] + 1 ELSE delivered[o]]
    BY <1>3 DEF TelegramReplies, HandlerReplayed
  <2>2. receipts' = receipts
    BY <1>3 DEF TelegramReplies, HandlerReplayed
  <2>3. \A p \in Occurrences : delivered'[p] = delivered[p] \/ delivered'[p] = delivered[p] + 1
    BY <1>1, <2>1
  <2>4. QED
    BY <1>1, <2>2, <2>3
<1>4. ASSUME NEW k \in Claims, Send(k) \/ TurnStep(k), ~TelegramReplies(k), ~HandlerReplayed(k)
      PROVE  receipts \subseteq receipts' /\ \A o \in Occurrences : delivered'[o] >= delivered[o]
  <2>1. delivered' = delivered /\ receipts \subseteq receipts'
    BY <1>4 DEF Send, TurnStep, Turn, TurnStarts, AnswerWithheld, AnswerSuspended, AnswerAuthorized,
                StartDelivery, CompleteDelivered, TurnCompletes, TurnFails, SessionFails,
                HandlerThrows, chatVars
  <2>2. QED
    BY <1>1, <2>1
<1>5. QED
  BY <1>2, <1>3, <1>4, StepsSpeak

LEMMA CompletedStep ==
    ASSUME Inv, AnsweredOnce, CompletedIsTold, [Next]_vars
    PROVE  CompletedIsTold'
<1>1. /\ DB.run = run /\ DB'.run = run' /\ delivered \in [Occurrences -> Nat]
      /\ delivered' \in [Occurrences -> Nat]
  BY TypesStep DEF DB, Inv, OtherTypes
<1>2. CompletesNone(DB, DB') => CompletedIsTold'
  BY <1>1, HistoryGrows DEF CompletesNone, CompletedIsTold
<1>3. Delete => CompletedIsTold'
  BY DEF Delete, CompletedIsTold, NoRun
<1>4. ASSUME NEW k \in Claims, PrepareHistory(k) PROVE CompletedIsTold'
  BY <1>1, <1>2, <1>4 DEF PrepareHistory, CompletesNone
<1>5. ASSUME NEW k \in Claims, CompleteDelivered(k) PROVE CompletedIsTold'
  <2> DEFINE o == job[k].occurrence
             e == Finish(DB, k, TRUE)
  <2>1. /\ turn[k] = "receipt" /\ Commit(e) /\ delivered' = delivered
        /\ receipts' = IF run[o].status = "absent" THEN receipts ELSE receipts \cup {o}
    BY <1>5 DEF CompleteDelivered
  <2>2. Keeps(DB) /\ DB \in DBType
    BY SoundHere
  <2>3. \A p \in Occurrences : run'[p].status = IF p \in Active(DB, k) THEN "completed"
                                                                       ELSE run[p].status
    BY <1>1, <2>1, <2>2, FinishClears DEF Commit
  <2>4. delivered[o] = 1
    BY <2>1 DEF AnsweredOnce, SpokenBy
  <2>5. \A p \in Active(DB, k) : p = o /\ run[p].status = "running"
    BY <1>1, <2>2, ActiveIsOwn
  <2>6. QED
    BY <2>1, <2>3, <2>4, <2>5 DEF CompletedIsTold
<1>6. QED
  BY <1>2, <1>3, <1>4, <1>5, SettlesStep DEF Settles

LEMMA OutcomeCorrect == Spec => []OutcomeInv
<1>1. Init => OutcomeInv
  <2> SUFFICES ASSUME Init PROVE OutcomeInv
    OBVIOUS
  <2>1. Inv
    BY InvInit
  <2>2. HistoryInv /\ TurnsApart /\ ToldOnce /\ CompletedIsTold
    BY DEF Init, HistoryInv, EndedKeepNone, ActiveHaveCopy, PreparedHaveCopy, ActiveRuns,
           TurnsApart, ToldOnce, CompletedIsTold, NoRun
  <2>3. AnsweredOnce
    BY <2>1 DEF Init, AnsweredOnce, SpokenBy, Inv, OtherTypes
  <2>4. QED
    BY <2>1, <2>2, <2>3 DEF OutcomeInv
<1>2. OutcomeInv /\ [Next]_vars => OutcomeInv'
  BY InvStep, HistoryStep, TurnsApartStep, AnsweredStep, ToldStep, CompletedStep DEF OutcomeInv
<1>3. QED
  BY <1>1, <1>2, PTL DEF Spec

(***************************************************************************)
(* A run that is running belongs to the turn it was marked with.  The      *)
(* dispatcher of that claim is done with it, so no failClaim is left that  *)
(* could end it; its lease is started, so no sweep and no later claim      *)
(* touches it; and no event but that turn's own finds it active.           *)
(***************************************************************************)
Handing == {"sending", "telegram", "receipt"}
Owns(k) == run[job[k].occurrence].status = "running" /\ run[job[k].occurrence].eve = k
MarkedByDispatcher ==
    \A k \in Claims :
        Owns(k) /\ turn[k] # "dead" => run[job[k].occurrence].token = k /\ job[k].at = "done"
AnswersOwnRun == \A k \in Claims : turn[k] \in Handing => Owns(k)

\* What an event of another turn leaves of the run.
LEMMA TurnLeaves ==
    ASSUME Inv, NEW k \in Claims, NEW o \in Occurrences,
           run[o].status = "running", run[o].eve # k,
           NEW d, d \in {DB, Promoted(k)}, Keeps(d), NEW ok \in BOOLEAN
    PROVE  Finish(d, k, ok).run[o] = run[o]
<1>1. d.run[o] = run[o]
  <2>1. DB.run = run
    BY DEF DB
  <2>2. o # job[k].occurrence \/ d = DB
    BY DEF Promoted
  <2>3. CASE d # DB
    <3>1. d = [DB EXCEPT !.run[job[k].occurrence] = Running(k)]
      BY <2>3 DEF Promoted
    <3>2. QED
      BY <2>2, <2>3, <3>1, RunningMoves
  <2>4. QED
    BY <2>1, <2>3
<1>2. o \notin Active(d, k)
  BY <1>1 DEF Active
<1>3. QED
  BY <1>1, <1>2, FinishLeaves DEF Keeps, Sound

\* Only the turn's own events change the run it is marked with.
LEMMA OwnRunStays ==
    ASSUME Inv, MarkedByDispatcher, [Next]_vars, NEW k \in Claims, Owns(k), turn[k] # "dead",
           ~TurnStep(k)
    PROVE  run'[job[k].occurrence] = run[job[k].occurrence]
<1> DEFINE o == job[k].occurrence
<1>1. /\ o \in Occurrences /\ run[o].status = "running" /\ run[o].eve = k
      /\ run[o].token = k /\ job[k].at = "done"
      /\ DB.run = run /\ DB.schedule = schedule
      /\ Sound(DB, claims, Occ) /\ claims \in Token /\ o \in ActiveIn(DB)
  BY DEF Inv, OtherTypes, Owns, MarkedByDispatcher, DB, ActiveIn
<1>2. schedule.status = "leased" /\ schedule.token = k /\ schedule.started
  BY <1>1 DEF Sound, ActiveHolds
<1>3. Commit(DB) => run' = run
  BY <1>1 DEF Commit
<1>4. CASE ClaimDue
  <2>1. InHandoff(DB) = {}
    <3> SUFFICES ASSUME NEW p \in InHandoff(DB) PROVE FALSE
      OBVIOUS
    <3>1. p \in Occurrences /\ run[p].token = run[o].token /\ run[p].status = "dispatching"
      BY <1>1, <1>2 DEF InHandoff
    <3>2. o = p
      BY <1>1, <3>1, OneActive
    <3>3. QED
      BY <1>1, <3>1, <3>2
  <2>2. ExpireHandoff(DB) = DB
    BY <2>1 DEF ExpireHandoff
  <2>3. RecoverLease(DB) = DB
    BY <1>1, <1>2 DEF RecoverLease, Unstarted
  <2>4. RevokeDestination(DB) = DB
    BY <1>1, <1>2 DEF RevokeDestination
  <2>5. \A c : TakeLease(DB, c) = DB
    BY <1>1, <1>2 DEF TakeLease
  <2>6. Commit(DB)
    BY <1>4, <2>2, <2>3, <2>4, <2>5 DEF ClaimDue
  <2>7. QED
    BY <1>3, <2>6
<1>5. CASE LeaseExpires \/ People \/ UNCHANGED vars
  BY <1>2, <1>5 DEF LeaseExpires, People, Update, RunNow, Delete, Editable, AuthorityChanges,
                    vars, dbVars
<1>6. ASSUME NEW c \in Claims, Dispatcher(c) \/ BeginFails(c) \/ MarkFails(c) \/ JobDies(c)
      PROVE  run'[o] = run[o]
  <2>1. CASE PrepareHistory(c) \/ PrepareSession(c) \/ Discard(c) \/ Send(c) \/ JobDies(c)
    BY <2>1 DEF PrepareHistory, PrepareSession, Discard, Send, JobDies, dbVars
  <2>2. CASE BeginDispatch(c) \/ BeginFails(c)
    <3>1. Begun(c) = DB
      BY <1>2 DEF Begun, Holds
    <3>2. QED
      BY <1>3, <2>2, <3>1 DEF BeginDispatch, BeginFails
  <2>3. CASE MarkRunning(c) \/ MarkFails(c)
    <3>1. ASSUME Markable(c), Commit(Marked(c)) PROVE run'[o] = run[o]
      <4>1. job[c].occurrence # o
        BY <1>1, <3>1 DEF Markable
      <4>2. run' = [DB EXCEPT !.run[job[c].occurrence] = Running(c)].run
        BY <3>1 DEF Marked, Commit
      <4>3. QED
        BY <1>1, <4>1, <4>2, RunningMoves
    <3>2. ~Markable(c) => Marked(c) = DB
      BY DEF Marked
    <3>3. QED
      BY <1>3, <2>3, <3>1, <3>2 DEF MarkRunning, MarkFails
  <2>4. CASE FailClaim(c)
    <3>1. ~ClaimFailed(c)
      BY <1>1, <1>2, <2>4 DEF FailClaim, ClaimFailed
    <3>2. QED
      BY <1>3, <2>4, <3>1 DEF FailClaim
  <2>5. QED
    BY <1>6, <2>1, <2>2, <2>3, <2>4 DEF Dispatcher
<1>7. ASSUME NEW c \in Claims, TurnStep(c) PROVE run'[o] = run[o]
  <2>1. c # k /\ run[o].eve # c
    BY <1>1, <1>7
  <2>2. CASE SessionFails(c)
    <3>1. turn[c] # "none" /\ run' = Finish(Promoted(c), c, FALSE).run
      BY <2>2 DEF SessionFails, Commit
    <3>2. Keeps(Promoted(c))
      BY <3>1, PromotedKeeps
    <3>3. QED
      BY <1>1, <2>1, <3>1, <3>2, TurnLeaves
  <2>3. CASE UNCHANGED dbVars
    BY <2>3 DEF dbVars
  <2>4. CASE Commit(DB) \/ Commit(SealTurn(c)) \/ Commit(Finish(DB, c, TRUE))
    <3>1. /\ Finish(DB, c, TRUE).run[o] = run[o]
          /\ SealTurn(c).run[o] = run[o]
      BY <1>1, <2>1, SoundHere, TurnLeaves DEF SealTurn
    <3>2. QED
      BY <1>3, <2>4, <3>1 DEF Commit
  <2>5. QED
    BY <1>7, <2>2, <2>3, <2>4
       DEF TurnStep, Turn, TurnStarts, AnswerWithheld, AnswerSuspended, AnswerAuthorized,
           StartDelivery, TelegramReplies, CompleteDelivered, TurnCompletes, TurnFails,
           HandlerThrows, HandlerReplayed
<1>8. QED
  BY <1>4, <1>5, <1>6, <1>7 DEF Next, Faulty, TurnStep

LEMMA DoneStays ==
    ASSUME Inv, [Next]_vars, NEW k \in Claims, job[k].at = "done"
    PROVE  job'[k].at = "done"
<1>1. OtherTypes /\ k <= claims /\ claims \in Nat
  BY Ranges DEF Inv, OtherTypes, JobsPlaced
<1>2. CASE job' = job
  BY <1>2
<1>3. CASE ClaimDue /\ job' # job
  <2>1. \E at, o : job' = [job EXCEPT ![claims + 1].at = at, ![claims + 1].occurrence = o]
    BY <1>3 DEF ClaimDue
  <2>2. k # claims + 1
    BY <1>1 DEF Claims
  <2>3. QED
    BY <1>1, <2>1, <2>2 DEF OtherTypes
<1>4. CASE LeaseExpires \/ People \/ UNCHANGED vars
  BY <1>2, <1>4 DEF LeaseExpires, People, Update, RunNow, Delete, AuthorityChanges, vars
<1>5. ASSUME NEW c \in Claims, TurnStep(c) PROVE job' = job
  BY <1>5, TurnStepMoves DEF TurnMoves
<1>6. ASSUME NEW c \in Claims, Dispatcher(c) \/ BeginFails(c) \/ MarkFails(c) \/ JobDies(c)
      PROVE  job'[k].at = "done"
  <2>1. /\ job[c].at # "done"
        /\ \E step : \/ job' = [job EXCEPT ![c].at = step]
                     \/ \E t : job' = [job EXCEPT ![c].at = step, ![c].session = t]
    BY <1>6 DEF Dispatcher, PrepareHistory, PrepareSession, BeginDispatch, Discard, Send,
                MarkRunning, FailClaim, BeginFails, MarkFails, JobDies, Goto
  <2>2. c # k
    BY <2>1
  <2>3. QED
    BY <1>1, <2>1, <2>2 DEF OtherTypes
<1>7. QED
  BY <1>2, <1>3, <1>4, <1>5, <1>6 DEF Next, Faulty, TurnStep

\* The turn of a session that failed does nothing more.
LEMMA DeadStays ==
    ASSUME Inv, TurnsApart, [Next]_vars, NEW k \in Claims, turn[k] = "dead"
    PROVE  turn'[k] = "dead"
<1>1. turn \in [Claims -> TurnSteps]
  BY DEF Inv, OtherTypes
<1>2. CASE Silent
  BY <1>2 DEF Silent
<1>3. ASSUME NEW c \in Claims, TurnStep(c) PROVE turn'[k] = "dead"
  <2>1. c # k
    BY <1>3 DEF TurnStep, Turn, TurnStarts, AnswerWithheld, AnswerSuspended,
       AnswerAuthorized, StartDelivery, TelegramReplies, CompleteDelivered, TurnCompletes,
       TurnFails, SessionFails, HandlerThrows, HandlerReplayed
  <2>2. QED
    BY <1>1, <1>3, <2>1, TurnStepMoves DEF TurnMoves, TurnGoto
<1>4. ASSUME NEW c \in Claims, Send(c) PROVE turn'[k] = "dead"
  <2>1. c \in Sending /\ handed[job[c].occurrence] = 0
    BY <1>4 DEF Send, Sending, Inv, HandedFrom
  <2>2. c # k
    BY <2>1 DEF TurnsApart
  <2>3. QED
    BY <1>1, <1>4, <2>2 DEF Send
<1>5. QED
  BY <1>2, <1>3, <1>4, StepsSpeak

LEMMA MarkedByDispatcherStep ==
    ASSUME Inv, TurnsApart, MarkedByDispatcher, [Next]_vars
    PROVE  MarkedByDispatcher'
<1> SUFFICES ASSUME NEW k \in Claims, Owns(k)', turn'[k] # "dead"
             PROVE  run'[job'[k].occurrence].token = k /\ job'[k].at = "done"
  BY DEF MarkedByDispatcher
<1> DEFINE o == job'[k].occurrence
<1>1. run'[o].status = "running" /\ run'[o].eve = k
  BY DEF Owns
<1>2. o \in Occurrences /\ OtherTypes
  BY TypesStep DEF OtherTypes, Inv
<1>3. /\ DB.run = run /\ DB'.run = run' /\ Occ[k] = job[k].occurrence /\ k # NoToken
      /\ Sound(DB, claims, Occ)
  BY BoundsAssumption DEF DB, Inv, Occ, Claims, NoToken
<1>4. turn[k] # "dead"
  BY DeadStays
<1>5. CASE run'[o] = run[o]
  <2>1. job[k].occurrence = o /\ Owns(k)
    BY <1>1, <1>2, <1>3, <1>5 DEF Sound, TokensTell, Owns
  <2>2. run[o].token = k /\ job[k].at = "done"
    BY <1>4, <2>1 DEF MarkedByDispatcher
  <2>3. QED
    BY <1>5, <2>2, DoneStays
<1>6. ASSUME NEW c \in Claims, Moves(c, o) PROVE run'[o].token = k /\ job'[k].at = "done"
  <2>1. ~Takes(c, o) /\ ~Begins(c, o)
    BY <1>1 DEF Takes, Begins
  <2>2. Running(c).eve = c /\ Running(c).token = run[job[c].occurrence].token
    BY <1>2, <1>3 DEF Running, Sound, DBType, RunType, OtherTypes
  <2>3. CASE Marks(c, o)
    <3>1. c = k /\ run'[o] = Running(c) /\ run[o].token = c /\ job[c].occurrence = o
      BY <1>1, <2>2, <2>3 DEF Marks, Markable
    <3>2. job'[k].at = "done"
      BY <1>2, <2>3, <3>1 DEF Marks, OtherTypes
    <3>3. QED
      BY <2>2, <3>1, <3>2
  <2>4. CASE Promotes(c, o)
    <3>1. c = k
      BY <1>1, <2>2, <2>4 DEF Promotes, Terminal
    <3>2. turn'[k] = "dead"
      BY <1>2, <2>4, <3>1 DEF Promotes, SessionFails, TurnGoto, OtherTypes
    <3>3. QED
      BY <3>2
  <2>5. QED
    BY <1>6, <2>1, <2>3, <2>4 DEF Moves
<1>7. QED
  <2>1. run'[o].status \notin Terminal
    BY <1>1 DEF Terminal
  <2>2. ~Delete
    BY <1>1, <1>2 DEF Delete, NoRun
  <2>3. CASE OnlyEnds(DB, DB')
    BY <1>2, <1>3, <1>5, <2>1, <2>3 DEF OnlyEnds
  <2>4. ASSUME NEW c \in Claims, NEW p \in Occurrences, EndsBeside(p, DB, DB'), Moves(c, p)
        PROVE  run'[o].token = k /\ job'[k].at = "done"
    BY <1>2, <1>3, <1>5, <1>6, <2>1, <2>4 DEF EndsBeside
  <2>5. QED
    BY <2>2, <2>3, <2>4, OnlyEndsStep

LEMMA AnswersOwnRunStep ==
    ASSUME Inv, TurnsApart, MarkedByDispatcher, AnswersOwnRun, [Next]_vars
    PROVE  AnswersOwnRun'
<1> SUFFICES ASSUME NEW k \in Claims, turn'[k] \in Handing PROVE Owns(k)'
  BY DEF AnswersOwnRun
<1>1. /\ OtherTypes /\ DB.run = run /\ Sound(DB, claims, Occ)
      /\ Occ[k] = job[k].occurrence /\ k # NoToken
  BY BoundsAssumption DEF DB, Inv, Occ, Claims, NoToken
<1>2. CASE turn'[k] # turn[k] \/ TurnStep(k)
  <2>1. TurnStep(k)
    <3>1. ASSUME NEW c \in Claims, TurnStep(c), c # k PROVE turn'[k] = turn[k]
      BY <1>1, <3>1, TurnStepMoves DEF TurnMoves, TurnGoto, OtherTypes
    <3>2. ASSUME NEW c \in Claims, Send(c) PROVE turn'[k] = turn[k] \/ turn'[k] = "accepted"
      BY <1>1, <3>2 DEF Send, OtherTypes
    <3>3. Silent => turn'[k] = turn[k]
      BY DEF Silent
    <3>4. QED
      BY <1>2, <3>1, <3>2, <3>3, StepsSpeak DEF Handing
  <2>2. /\ AnswerAuthorized(k) \/ (StartDelivery(k) /\ turn'[k] # "answered")
              \/ (TelegramReplies(k) /\ turn'[k] # "answered")
    BY <1>1, <2>1 DEF TurnStep, Turn, TurnStarts, AnswerWithheld, AnswerSuspended,
       CompleteDelivered, TurnCompletes, TurnFails, SessionFails, HandlerThrows,
       HandlerReplayed, TurnGoto, Handing, OtherTypes
  <2>3. run' = run /\ job' = job
    BY <1>1, <2>2 DEF AnswerAuthorized, StartDelivery, TelegramReplies, TurnGoto, dbVars, OtherTypes
  <2>4. Owns(k)
    <3>1. CASE AnswerAuthorized(k)
      <4>1. PICK o \in Active(DB, k) : TRUE
        BY <3>1 DEF AnswerAuthorized, MayDeliver, Authorized
      <4>2. o \in Occurrences /\ run[o].eve = k /\ run[o].status = "running"
        BY <1>1, <4>1 DEF Active
      <4>3. job[k].occurrence = o
        BY <1>1, <4>2 DEF Sound, TokensTell
      <4>4. QED
        BY <4>2, <4>3 DEF Owns
    <3>2. CASE ~AnswerAuthorized(k)
      BY <2>2, <3>2 DEF StartDelivery, TelegramReplies, AnswersOwnRun, Handing
    <3>3. QED
      BY <3>1, <3>2
  <2>5. QED
    BY <2>3, <2>4 DEF Owns
<1>3. CASE turn'[k] = turn[k] /\ ~TurnStep(k)
  <2>1. Owns(k) /\ turn[k] \notin {"none", "dead"}
    BY <1>3 DEF AnswersOwnRun, Handing
  <2>2. run'[job[k].occurrence] = run[job[k].occurrence]
    BY <1>3, <2>1, OwnRunStays
  <2>3. job'[k].occurrence = job[k].occurrence
    BY <2>1, TurnKeepsOccurrence
  <2>4. QED
    BY <2>1, <2>2, <2>3 DEF Owns
<1>4. QED
  BY <1>2, <1>3

AnswerInv == OutcomeInv /\ MarkedByDispatcher /\ AnswersOwnRun

LEMMA AnswerCorrect == Spec => []AnswerInv
<1>1. Init => MarkedByDispatcher /\ AnswersOwnRun
  <2> SUFFICES ASSUME Init PROVE MarkedByDispatcher /\ AnswersOwnRun
    OBVIOUS
  <2>1. \A k \in Claims : job[k].occurrence \in Occurrences /\ turn[k] = "none"
    BY InvInit DEF Inv, OtherTypes, Init
  <2>2. \A o \in Occurrences : run[o].status = "absent"
    BY DEF Init, NoRun
  <2>3. QED
    BY <2>1, <2>2 DEF MarkedByDispatcher, AnswersOwnRun, Owns, Handing
<1>2. OutcomeInv /\ MarkedByDispatcher /\ AnswersOwnRun /\ [Next]_vars
         => (MarkedByDispatcher /\ AnswersOwnRun)'
  BY MarkedByDispatcherStep, AnswersOwnRunStep DEF OutcomeInv
<1>3. QED
  BY <1>1, <1>2, OutcomeCorrect, PTL DEF Spec, AnswerInv

-----------------------------------------------------------------------------
(* The theorems. *)

\* The schedule and its runs keep the shape migrations/029 demands: a lease exactly
\* while the schedule is leased, whatever dispatchers, turns and people do.
THEOREM TypeCorrect == Spec => []TypeOK
<1>1. Inv => TypeOK
  <2> SUFFICES ASSUME Inv PROVE TypeOK
    OBVIOUS
  <2>1. DB \in DBType /\ LeaseShape(DB) /\ OtherTypes
    BY DEF Inv, Sound
  <2>2. /\ schedule \in ScheduleType /\ run \in [Occurrences -> RunType]
        /\ snapshots \subseteq Occurrences /\ latest \in Occurrences
        /\ schedule.status = "leased" <=> schedule.token # NoToken
        /\ schedule.live \/ schedule.started => schedule.status = "leased"
    BY <2>1 DEF DB, DBType, LeaseShape
  <2>3. QED
    BY <2>1, <2>2 DEF TypeOK, OtherTypes, ScheduleType, RunType
<1>2. QED
  BY <1>1, InvCorrect, PTL

\* A run Eve may be working on holds the schedule's lease, so no sweep, edit or second
\* dispatcher gives the schedule to another run meanwhile.
THEOREM ActiveRunHoldsLeaseCorrect == Spec => []ActiveRunHoldsLease
<1>1. Inv => ActiveRunHoldsLease
  BY DEF Inv, Sound, ActiveHolds, ActiveIn, ActiveRunHoldsLease, ActiveRuns, DB
<1>2. QED
  BY <1>1, InvCorrect, PTL

\* However often an occurrence is claimed, recovered and failed, and however many
\* dispatchers hold a stale claim of it, Eve accepts at most one turn for it.
THEOREM HandedOnceCorrect == Spec => []HandedOnce
<1>1. Inv => HandedOnce
  BY DEF Inv, HandedFrom
<1>2. QED
  BY <1>1, InvCorrect, PTL

\* A run that ended is never reopened: not by a reclaim, not by a late event of its turn.
THEOREM EndedForeverCorrect == Spec => EndedForever
<1>1. Inv /\ [Next]_vars =>
        [\A o \in Occurrences :
            run[o].status \in Terminal => run'[o].status \in {run[o].status, "absent"}]_vars
  <2> SUFFICES ASSUME Inv, [Next]_vars, NEW o \in Occurrences, run[o].status \in Terminal
               PROVE  run'[o].status \in {run[o].status, "absent"}
    OBVIOUS
  <2>1. CASE Follows(DB, DB')
    BY <2>1 DEF Follows, DB
  <2>2. CASE Delete
    BY <2>2 DEF Delete, NoRun
  <2>3. QED
    BY <2>1, <2>2, DBStep
<1>2. QED
  BY <1>1, InvCorrect, PTL DEF Spec, EndedForever

\* While a run Eve may be working on goes on, no edit and no other claim moves the
\* schedule: its next occurrence and its status stand.
THEOREM ScheduleWaitsForRunCorrect == Spec => ScheduleWaitsForRun
<1>1. Inv /\ [Next]_vars =>
        [\A o \in ActiveRuns :
            run'[o].status \in {"dispatching", "running"} =>
                /\ schedule'.next = schedule.next
                /\ schedule'.status = schedule.status]_vars
  <2> SUFFICES ASSUME Inv, [Next]_vars, NEW o \in ActiveRuns,
                      run'[o].status \in {"dispatching", "running"}
               PROVE  /\ schedule'.next = schedule.next
                      /\ schedule'.status = schedule.status
    OBVIOUS
  <2>1. CASE Follows(DB, DB')
    BY <2>1 DEF Follows, DB, ActiveIn, ActiveRuns
  <2>2. CASE Delete
    BY <2>2 DEF Delete, NoRun, ActiveRuns
  <2>3. QED
    BY <2>1, <2>2, DBStep
<1>2. QED
  BY <1>1, InvCorrect, PTL DEF Spec, ScheduleWaitsForRun

\* From its authorization to its receipt an answer belongs to a run that is running,
\* marked with this very turn, under the lease of its schedule, and no failure was told
\* of it: whatever other claims, sweeps, edits and revocations commit at the awaits.
THEOREM AnswerKeepsRunCorrect == Spec => []AnswerKeepsRun
<1>1. AnswerInv => AnswerKeepsRun
  <2> SUFFICES ASSUME AnswerInv, NEW k \in Claims, turn[k] \in {"sending", "telegram", "receipt"}
               PROVE  LET o == job[k].occurrence IN
                      /\ run[o].status = "running" /\ run[o].eve = k
                      /\ schedule.token = run[o].token
                      /\ notices[o] = 0
    BY DEF AnswerKeepsRun
  <2> DEFINE o == job[k].occurrence
  <2>1. run[o].status = "running" /\ run[o].eve = k
    BY DEF AnswerInv, AnswersOwnRun, Handing, Owns
  <2>2. o \in Occurrences /\ notices[o] \in Nat
    BY DEF AnswerInv, OutcomeInv, Inv, OtherTypes
  <2>3. schedule.token = run[o].token /\ schedule.status = "leased"
    BY <2>1, <2>2 DEF AnswerInv, OutcomeInv, Inv, Sound, ActiveHolds, ActiveIn, DB
  <2>4. notices[o] = 0
    BY <2>1, <2>2, <2>3 DEF AnswerInv, OutcomeInv, ToldOnce, Terminal
  <2>5. QED
    BY <2>1, <2>3, <2>4
<1>2. QED
  BY <1>1, AnswerCorrect, PTL

\* An occurrence is answered at most once and its failure told at most once, over
\* replays, lost replies and reclaims; and a run is completed only with an answer
\* Telegram shows and a receipt.
THEOREM OutcomeIsToldCorrect == Spec => []OutcomeIsTold
<1>1. OutcomeInv => OutcomeIsTold
  BY DEF OutcomeInv, AnsweredOnce, ToldOnce, CompletedIsTold, OutcomeIsTold
<1>2. QED
  BY <1>1, OutcomeCorrect, PTL

\* The copy of the group's history a turn reads is there for as long as Eve may work on
\* its run, whatever stale claims, sweeps and late events end meanwhile; and however the
\* run ends, in a sweep, a failed handoff or an event of its turn, the copy goes with it.
THEOREM HistoryServesRunCorrect == Spec => []HistoryServesRun
<1>1. OutcomeInv => HistoryServesRun
  BY DEF OutcomeInv, HistoryInv, EndedKeepNone, ActiveHaveCopy, HistoryServesRun
<1>2. QED
  BY <1>1, OutcomeCorrect, PTL

=============================================================================
