----------------------------- MODULE SandboxRunner -----------------------------
(***************************************************************************)
(* The sandbox of one conversation: a Docker container that calls of the   *)
(* agent create and use, that the minute sweep stops and removes when it   *)
(* is idle, and that a stop request removes at any time.                   *)
(*                                                                         *)
(*   services/sandbox-runner/docker-sandbox-engine.ts         operations   *)
(*   services/sandbox-runner/docker-sandbox-lifecycle.ts      the registry *)
(*   services/sandbox-runner/docker-sandbox-reconciliation.ts the sweep    *)
(*   services/sandbox-runner/docker-sandbox-process.ts        one command  *)
(*   services/sandbox-runner/main.ts                          start        *)
(*   agent/lib/sandbox-runner/runner-sandbox-backend.ts       the client   *)
(*                                                                         *)
(* A call of the client is a probe of the session, the creation if seeds   *)
(* are missing, then a command. The name of the container is fixed, so at  *)
(* most one exists. The sweep speaks of a container by its id, and so does *)
(* the creation of the one it makes, beside which no other can be made;    *)
(* the rest go by the name. Docker answers at any time after it was asked, *)
(* and what an answer said may be stale.                                   *)
(***************************************************************************)
EXTENDS Integers, FiniteSets

CONSTANTS
    SandboxCalls,       \* calls of clients that may run at once
    Sweeps,             \* sweeps that may run at once
    Policies,           \* request hashes: mounts, access, seeds and policy version
    Nil,
    MaxSandboxCalls,    \* bound: calls of clients
    MaxSandboxStops,    \* bound: stop requests
    MaxSandboxFaults    \* bound: failed removals, creations and restarts of the runner

ASSUME SandboxConstants ==
    /\ Nil \notin SandboxCalls \cup Sweeps \cup Policies /\ Policies # {}
    /\ MaxSandboxCalls \in Nat /\ MaxSandboxStops \in Nat /\ MaxSandboxFaults \in Nat

VARIABLES
    box,            \* the container
    registry,       \* the process's maps for the session: activeCounts, lastActivity,
                    \* removalGates (gate) and creationLocks (tail)
    use,            \* the calls of clients
    stop,           \* the stop request in progress
    sweep,          \* the sweeps, and whether the container each has listed is gone
    muddled,        \* history: a stop request forgot a call that still runs
    leftover,       \* history: a container whose seeds failed could not be removed
    asked, stops, outages   \* counters of the bounds

sandboxVars == <<box, registry, use, stop, sweep, muddled, leftover, asked, stops, outages>>

NoBox == [state |-> "absent", policy |-> Nil, seeded |-> FALSE, expired |-> FALSE]
NoUse == [at |-> "idle", policy |-> Nil, seeds |-> FALSE, after |-> Nil, alone |-> FALSE]
NoSweep == [at |-> "idle", gone |-> FALSE]

CreateSteps == {"inspecting", "replacing", "creating", "booting", "seeding", "undoing",
                "reviving", "ensured"}
WorkSteps == {"looking", "waking", "counting", "running", "orphaned"}
Active(c) == use[c].at \in CreateSteps \cup WorkSteps
InCreation(c) == use[c].at \in CreateSteps

SandboxTypeOK ==
    /\ box \in [state : {"absent", "halted", "running"}, policy : Policies \cup {Nil},
                seeded : BOOLEAN, expired : BOOLEAN]
    /\ registry \in [count : 0..MaxSandboxCalls, used : {"never", "recently", "long ago"},
                     gate : Sweeps \cup {Nil}, tail : SandboxCalls \cup {Nil}]
    /\ use \in [SandboxCalls ->
           [at : {"idle", "probed", "queued", "entering"} \cup CreateSteps \cup WorkSteps,
            policy : Policies \cup {Nil}, seeds : BOOLEAN, after : SandboxCalls \cup {Nil},
            alone : BOOLEAN]]
    /\ stop \in {"idle", "looking", "removing", "forgetting"}
    /\ sweep \in [Sweeps -> [at : {"idle", "stops", "removes", "stopping", "removing"}, gone : BOOLEAN]]
    /\ muddled \in BOOLEAN /\ leftover \in BOOLEAN
    /\ asked \in 0..MaxSandboxCalls /\ stops \in 0..MaxSandboxStops
    /\ outages \in 0..MaxSandboxFaults

SandboxInit ==
    /\ box = NoBox
    /\ registry = [count |-> 0, used |-> "never", gate |-> Nil, tail |-> Nil]
    /\ use = [c \in SandboxCalls |-> NoUse]
    /\ stop = "idle" /\ sweep = [s \in Sweeps |-> NoSweep]
    /\ muddled = FALSE /\ leftover = FALSE
    /\ asked = 0 /\ stops = 0 /\ outages = 0

Outage == outages < MaxSandboxFaults /\ outages' = outages + 1

\* Docker removes the container: every sweep that listed it will not find it again.
BoxRemoved ==
    /\ box' = NoBox
    /\ sweep' = [s \in Sweeps |-> IF sweep[s].at = "idle" THEN sweep[s]
                                                          ELSE [sweep[s] EXCEPT !.gone = TRUE]]
BoxRuns == box' = [box EXCEPT !.state = "running", !.expired = FALSE]

-----------------------------------------------------------------------------
(* The activity registry. *)

Registered == [registry EXCEPT !.count = @ + 1, !.used = "recently"]
Finished == [registry EXCEPT !.count = IF @ > 0 THEN @ - 1 ELSE 0, !.used = "recently"]

\* runActive: new work waits while the sweep holds the session.
NoRemovalPending_Ignored == TRUE
NoRemovalPending == registry.gate = Nil

At(c, step) == use' = [use EXCEPT ![c].at = step]

\* The end of an operation; when it created the session the next creation may enter.
Leaves(c, step) ==
    /\ use' = [d \in SandboxCalls |->
           IF d = c THEN IF step = "idle" THEN NoUse ELSE [use[c] EXCEPT !.at = step]
           ELSE IF use[d].after = c THEN [use[d] EXCEPT !.after = Nil] ELSE use[d]]
    /\ registry' = IF registry.tail = c THEN [Finished EXCEPT !.tail = Nil] ELSE Finished
    /\ muddled' = (muddled /\ \E d \in SandboxCalls \ {c} : Active(d))

-----------------------------------------------------------------------------
(* createSession, one call after another. *)

\* ensureRunner: the probe carries no seeds; the second request does. Calls are alike, and
\* so are policies: the first idle call asks, and the first to ask has any one policy.
AnyPolicy == IF asked = 0 THEN {CHOOSE p \in Policies : TRUE} ELSE Policies
AskSession(c) ==
    /\ \/ /\ use[c].at = "idle" /\ asked < MaxSandboxCalls /\ asked' = asked + 1
          /\ \A d \in SandboxCalls : d < c => use[d].at # "idle"
          /\ \E p \in AnyPolicy :
                 use' = [use EXCEPT ![c] = [NoUse EXCEPT !.at = "queued", !.policy = p,
                                                         !.after = registry.tail]]
       \/ /\ use[c].at = "probed" /\ UNCHANGED asked
          /\ use' = [use EXCEPT ![c].at = "queued", ![c].seeds = TRUE, ![c].after = registry.tail]
    /\ registry' = [registry EXCEPT !.tail = c]
    /\ UNCHANGED <<box, stop, sweep, muddled, leftover, stops, outages>>

\* runExclusive, then runActive.
EnterCreation(c) ==
    /\ use[c].at = "queued" /\ use[c].after = Nil /\ NoRemovalPending
    /\ registry' = Registered /\ At(c, "inspecting")
    /\ UNCHANGED <<box, stop, sweep, muddled, leftover, asked, stops, outages>>

Fits(c) == box.policy = use[c].policy

\* The directories of the scope are made and Docker is asked: either may fail.
InspectSession(c) ==
    /\ use[c].at = "inspecting"
    /\ \/ /\ box.state # "absent" /\ Fits(c)
          /\ At(c, IF box.state = "running" THEN "ensured" ELSE "reviving")
          /\ UNCHANGED <<registry, muddled, outages>>
       \/ /\ box.state = "absent" \/ ~Fits(c)
          /\ UNCHANGED outages
          /\ IF ~use[c].seeds THEN Leaves(c, "probed")
             ELSE /\ At(c, IF box.state = "absent" THEN "creating" ELSE "replacing")
                  /\ UNCHANGED <<registry, muddled>>
       \/ Outage /\ Leaves(c, "idle")
    /\ UNCHANGED <<box, stop, sweep, leftover, asked, stops>>

\* A container of another policy is removed first; one that is gone already is an error.
ReplaceBox(c) ==
    /\ use[c].at = "replacing"
    /\ \/ /\ box.state # "absent" /\ BoxRemoved
          /\ At(c, "creating") /\ UNCHANGED <<registry, muddled, outages>>
       \/ /\ (box.state = "absent" /\ UNCHANGED outages) \/ Outage
          /\ Leaves(c, "idle") /\ UNCHANGED <<box, sweep>>
    /\ UNCHANGED <<stop, leftover, asked, stops>>

\* A container that never started reports no time of its end, which reads as long ago.
CreateBox(c) ==
    /\ use[c].at = "creating"
    /\ \/ /\ box.state = "absent"
          /\ box' = [state |-> "halted", policy |-> use[c].policy, seeded |-> FALSE, expired |-> TRUE]
          /\ At(c, "booting") /\ UNCHANGED <<registry, muddled, outages>>
       \/ box.state # "absent" /\ Leaves(c, "idle") /\ UNCHANGED <<box, outages>>
       \/ Outage /\ Leaves(c, "idle") /\ UNCHANGED box
    /\ UNCHANGED <<stop, sweep, leftover, asked, stops>>

BootBox(c) ==
    /\ use[c].at = "booting"
    /\ \/ box.state # "absent" /\ BoxRuns /\ At(c, "seeding") /\ UNCHANGED outages
       \/ box.state = "absent" /\ At(c, "undoing") /\ UNCHANGED <<box, outages>>
       \/ Outage /\ At(c, "undoing") /\ UNCHANGED box
    /\ UNCHANGED <<registry, stop, sweep, muddled, leftover, asked, stops>>

\* The directories of the tools are made by a command, which needs a running container;
\* the archive of seeds goes into a halted one too. Either may fail.
SeedBox(c) ==
    /\ use[c].at = "seeding"
    /\ \/ box.state # "absent" /\ box' = [box EXCEPT !.seeded = TRUE] /\ At(c, "ensured")
       \/ UNCHANGED box /\ At(c, "undoing")
    /\ UNCHANGED <<registry, stop, sweep, muddled, leftover, asked, stops, outages>>

\* The error of this removal is swallowed.
UndoCreation(c) ==
    /\ use[c].at = "undoing"
    /\ \/ BoxRemoved /\ UNCHANGED <<leftover, outages>>
       \/ Outage /\ leftover' = (leftover \/ box.state # "absent") /\ UNCHANGED <<box, sweep>>
    /\ Leaves(c, "idle")
    /\ UNCHANGED <<stop, asked, stops>>

\* Docker refuses to start what is gone, and may refuse what runs already.
Starts(c, step) ==
    \/ box.state # "absent" /\ BoxRuns /\ At(c, step) /\ UNCHANGED <<registry, muddled, outages>>
    \/ box.state # "halted" /\ Leaves(c, "idle") /\ UNCHANGED <<box, outages>>
    \/ Outage /\ Leaves(c, "idle") /\ UNCHANGED box

ReviveBox(c) ==
    /\ use[c].at = "reviving" /\ Starts(c, "ensured")
    /\ UNCHANGED <<stop, sweep, leftover, asked, stops>>

LeaveCreation(c) ==
    /\ use[c].at = "ensured" /\ Leaves(c, "entering")
    /\ UNCHANGED <<box, stop, sweep, leftover, asked, stops, outages>>

-----------------------------------------------------------------------------
(* A command, a read, a write or a removal in the sandbox. *)

\* runActive; whether the caller is alone is read here, before the first await.
EnterWork(c) ==
    /\ use[c].at = "entering" /\ NoRemovalPending
    /\ registry' = Registered
    /\ use' = [use EXCEPT ![c].at = "looking", ![c].alone = (registry.count = 0)]
    /\ UNCHANGED <<box, stop, sweep, muddled, leftover, asked, stops, outages>>

\* A command that timed out before is refused at once.
RefuseRepeat(c) ==
    /\ use[c].at = "entering" /\ NoRemovalPending
    /\ registry' = [registry EXCEPT !.used = "recently"] /\ use' = [use EXCEPT ![c] = NoUse]
    /\ UNCHANGED <<box, stop, sweep, muddled, leftover, asked, stops, outages>>

\* requireRunningContainer.
LookForBox(c) ==
    /\ use[c].at = "looking"
    /\ \/ box.state = "absent" /\ Leaves(c, "idle") /\ UNCHANGED outages
       \/ Outage /\ Leaves(c, "idle")
       \/ /\ box.state # "absent"
          /\ At(c, CASE box.state = "halted" -> "waking"
                     [] box.state = "running" /\ use[c].alone -> "counting"
                     [] OTHER -> "running")
          /\ UNCHANGED <<registry, muddled, outages>>
    /\ UNCHANGED <<box, stop, sweep, leftover, asked, stops>>

WakeBox(c) ==
    /\ use[c].at = "waking" /\ Starts(c, "running")
    /\ UNCHANGED <<stop, sweep, leftover, asked, stops>>

\* reapCrowdedContainer: too many tasks, and the container is restarted.
CountTasks(c) ==
    /\ use[c].at = "counting"
    /\ \/ box.state = "running" /\ At(c, "running") /\ UNCHANGED <<box, registry, muddled, outages>>
       \/ box.state # "absent" /\ BoxRuns /\ At(c, "running") /\ UNCHANGED <<registry, muddled, outages>>
       \/ box.state # "running" /\ Leaves(c, "idle") /\ UNCHANGED <<box, outages>>
       \/ Outage /\ Leaves(c, "idle") /\ UNCHANGED box
    /\ UNCHANGED <<stop, sweep, leftover, asked, stops>>

\* The command ends or cannot begin, its container being gone or halted; or it cannot be
\* started, the client gives up, the output is too large or the stream breaks, and what
\* is left of it is to be removed.
RunCommand(c) ==
    /\ use[c].at = "running"
    /\ \/ Leaves(c, "idle")
       \/ At(c, "orphaned") /\ UNCHANGED <<registry, muddled>>
    /\ UNCHANGED <<box, stop, sweep, leftover, asked, stops, outages>>

\* removeOrphanedCompute removes whatever bears the name now.
RemoveOrphan(c) ==
    /\ use[c].at = "orphaned"
    /\ \/ BoxRemoved /\ UNCHANGED outages
       \/ Outage /\ UNCHANGED <<box, sweep>>
    /\ Leaves(c, "idle")
    /\ UNCHANGED <<stop, leftover, asked, stops>>

UseStep(c) ==
    \/ use[c].at # "idle" /\ AskSession(c)
    \/ EnterCreation(c) \/ InspectSession(c) \/ ReplaceBox(c) \/ CreateBox(c) \/ BootBox(c)
    \/ SeedBox(c) \/ UndoCreation(c) \/ ReviveBox(c) \/ LeaveCreation(c)
    \/ EnterWork(c) \/ RefuseRepeat(c) \/ LookForBox(c) \/ WakeBox(c) \/ CountTasks(c)
    \/ RunCommand(c) \/ RemoveOrphan(c)

-----------------------------------------------------------------------------
(* stopSession, which asks nobody. *)

AskStop ==
    /\ stop = "idle" /\ stops < MaxSandboxStops
    /\ stops' = stops + 1 /\ stop' = "looking"
    /\ UNCHANGED <<box, registry, use, sweep, muddled, leftover, asked, outages>>

LookBeforeStop ==
    /\ stop = "looking"
    /\ \/ /\ stop' = IF box.state = "absent" THEN "forgetting" ELSE "removing"
          /\ UNCHANGED outages
       \/ Outage /\ stop' = "idle"
    /\ UNCHANGED <<box, registry, use, sweep, muddled, leftover, asked, stops>>

RemoveStopped ==
    /\ stop = "removing"
    /\ \/ BoxRemoved /\ stop' = "forgetting" /\ UNCHANGED outages
       \/ Outage /\ stop' = "idle" /\ UNCHANGED <<box, sweep>>
    /\ UNCHANGED <<registry, use, muddled, leftover, asked, stops>>

ForgetSession ==
    /\ stop = "forgetting" /\ stop' = "idle"
    /\ registry' = [registry EXCEPT !.count = 0, !.used = "never"]
    /\ muddled' = \E c \in SandboxCalls : Active(c)
    /\ UNCHANGED <<box, use, sweep, leftover, asked, stops, outages>>

StopStep == LookBeforeStop \/ RemoveStopped \/ ForgetSession

-----------------------------------------------------------------------------
(* The sweep of every minute. *)

\* What runs is to be stopped, what halted a day ago or is in excess to be removed.
ListBoxes(s) ==
    /\ sweep[s].at = "idle" /\ box.state # "absent"
    /\ \E step \in IF box.state = "running" THEN {"stops"}
                   ELSE IF box.expired THEN {"removes"} ELSE {"removes", "idle"} :
           sweep' = [sweep EXCEPT ![s] = [at |-> step, gone |-> FALSE]]
    /\ UNCHANGED <<box, registry, use, stop, muddled, leftover, asked, stops, outages>>

IsIdle == registry.count = 0 /\ registry.used # "recently"

\* removeIfIdle: wait for another sweep, look, reserve the session.
ReserveSession(s) ==
    /\ sweep[s].at \in {"stops", "removes"} /\ NoRemovalPending
    /\ IF IsIdle
         THEN /\ registry' = [registry EXCEPT !.gate = s]
              /\ sweep' = [sweep EXCEPT ![s].at = IF @ = "stops" THEN "stopping" ELSE "removing"]
         ELSE sweep' = [sweep EXCEPT ![s] = NoSweep] /\ UNCHANGED registry
    /\ UNCHANGED <<box, use, stop, muddled, leftover, asked, stops, outages>>

Reopened(used) == registry' = [registry EXCEPT !.gate = Nil, !.used = used]

\* The container listed is stopped by its id; it may be gone, or halted already.
StopBox(s) ==
    /\ sweep[s].at = "stopping"
    /\ \/ /\ box.state = "running" /\ ~sweep[s].gone
          /\ box' = [box EXCEPT !.state = "halted"]
          /\ Reopened("never") /\ UNCHANGED outages
       \/ /\ box.state # "running" \/ sweep[s].gone
          /\ Reopened(registry.used) /\ UNCHANGED <<box, outages>>
       \/ Outage /\ Reopened(registry.used) /\ UNCHANGED box
    /\ sweep' = [sweep EXCEPT ![s] = NoSweep]
    /\ UNCHANGED <<use, stop, muddled, leftover, asked, stops>>

RemoveBox(s) ==
    /\ sweep[s].at = "removing"
    /\ \/ /\ Reopened("never") /\ UNCHANGED outages
          /\ box' = IF sweep[s].gone THEN box ELSE NoBox
          /\ sweep' = [t \in Sweeps |-> IF t = s THEN NoSweep
                                        ELSE IF sweep[t].at = "idle" \/ sweep[s].gone THEN sweep[t]
                                        ELSE [sweep[t] EXCEPT !.gone = TRUE]]
       \/ /\ Outage /\ Reopened(registry.used) /\ UNCHANGED box
          /\ sweep' = [sweep EXCEPT ![s] = NoSweep]
    /\ UNCHANGED <<use, stop, muddled, leftover, asked, stops>>

SweepStep(s) == ListBoxes(s) \/ ReserveSession(s) \/ StopBox(s) \/ RemoveBox(s)

-----------------------------------------------------------------------------
(* Time, and the process of the runner. *)

\* Half an hour without activity; requests that follow each other are not that far apart.
HalfHourPasses ==
    /\ registry.used = "recently"
    /\ \A c \in SandboxCalls : use[c].at \notin {"probed", "queued", "entering"}
    /\ registry' = [registry EXCEPT !.used = "long ago"]
    /\ UNCHANGED <<box, use, stop, sweep, muddled, leftover, asked, stops, outages>>

DayPasses ==
    /\ box.state = "halted" /\ ~box.expired /\ \A c \in SandboxCalls : use[c].at = "idle"
    /\ box' = [box EXCEPT !.expired = TRUE]
    /\ UNCHANGED <<registry, use, stop, sweep, muddled, leftover, asked, stops, outages>>

\* The runner dies or is replaced; the next one removes all containers before it listens.
RunnerRestarts ==
    /\ Outage /\ box' = NoBox
    /\ registry' = [count |-> 0, used |-> "never", gate |-> Nil, tail |-> Nil]
    /\ use' = [c \in SandboxCalls |-> NoUse]
    /\ stop' = "idle" /\ sweep' = [s \in Sweeps |-> NoSweep]
    /\ muddled' = FALSE /\ leftover' = FALSE
    /\ UNCHANGED <<asked, stops>>

SandboxNext ==
    \/ \E c \in SandboxCalls : AskSession(c) \/ UseStep(c)
    \/ AskStop \/ StopStep
    \/ \E s \in Sweeps : SweepStep(s)
    \/ HalfHourPasses \/ DayPasses \/ RunnerRestarts

\* Docker answers, clients go on, the sweep starts every minute, time passes. Each call
\* makes finitely many steps, so it is enough that one of those that can go on does.
SandboxFairness ==
    /\ WF_sandboxVars(\E c \in SandboxCalls : UseStep(c)) /\ WF_sandboxVars(StopStep)
    /\ WF_sandboxVars(\E s \in Sweeps : SweepStep(s))
    /\ WF_sandboxVars(HalfHourPasses \/ DayPasses)

-----------------------------------------------------------------------------
\* The sweep never touches a container in use, and what a creation hands over has all
\* its seeds. The first half is the promise of docker-sandbox-lifecycle.ts:12; it holds
\* until a stop request forgets calls that run, and again once those have ended. The
\* second is why creations of a session follow each other; it holds until a removal
\* fails. The registry never counts a call that is over, or nothing would be idle again.
ActiveCalls == {c \in SandboxCalls : Active(c)}
SandboxKept ==
    /\ registry.gate # Nil /\ ~muddled => ActiveCalls = {}
    /\ registry.count <= Cardinality(ActiveCalls)
    /\ \A c \in SandboxCalls : use[c].at = "ensured" =>
           box.state = "absent" \/ box.seeded \/ leftover

\* A call of a client ends, and a container nobody uses is stopped and removed, also
\* when calls failed, were forgotten or met a sweep (registry and reconciliation).
SandboxSettles ==
    /\ \A c \in SandboxCalls : use[c].at # "idle" ~> use[c].at = "idle"
    /\ (box.state # "absent" /\ \A c \in SandboxCalls : use[c].at = "idle")
           ~> (box.state = "absent" \/ \E c \in SandboxCalls : use[c].at # "idle")

=============================================================================
