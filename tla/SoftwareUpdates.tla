----------------------------- MODULE SoftwareUpdates ----------------------------
(***************************************************************************)
(* A new release of the program: offered to the owner, decided by a press, *)
(* installed by a controller on the server.                                *)
(*                                                                         *)
(*   agent/lib/software-updates/release-checker.ts     the six-hour check  *)
(*   agent/lib/software-updates/proposal-delivery.ts   the offer in a chat *)
(*   agent/lib/software-updates/repository.ts          proposals           *)
(*   scripts/production-deploy.sh and production-deploy/*.sh               *)
(*                                                                         *)
(* The check and the press run inside the program the controller replaces; *)
(* the controller is a root process started by a timer, one at a time, and *)
(* may be killed at any step.  The database outlives both.                 *)
(***************************************************************************)
EXTENDS Integers, FiniteSets

CONSTANTS
    Checkers,           \* checks for a release that may run at once
    Owners,             \* people who may own the installation
    LastVersion,        \* releases are 1..LastVersion; 0 is installed
    MaxOwnerChanges,    \* bound: changes of the owner
    MaxUpdateFaults     \* bound: failed calls, failed commands and crashes

ASSUME UpdateConstants ==
    /\ LastVersion \in Nat \ {0} /\ Owners # {} /\ "nobody" \notin Owners
    /\ MaxOwnerChanges \in Nat /\ MaxUpdateFaults \in Nat

Versions == 1..LastVersion

VARIABLES
    latest,         \* the newest release published
    owners,         \* the people whose role is owner
    proposal,       \* the row of a target version in software_update_proposals
    offered,        \* versions whose buttons are in the owner's chat
    check,          \* the checks in progress
    deploy,         \* the controller and its shell variables
    site,           \* the services and the link to the current release
    begun,          \* history: how often the release's own migration was begun
    consent,        \* history: who pressed "install"
    turnovers, breaks   \* counters of the bounds

updatesVars == <<latest, owners, proposal, offered, check, deploy, site, begun, consent,
                 turnovers, breaks>>

Statuses == {"none", "preparing", "pending", "approved", "declined", "undelivered", "superseded",
             "deploying", "succeeded", "failed", "ambiguous"}
Stages == {"idle", "claimed", "validated", "dumped", "stopped", "starting", "healthy",
           "promoted", "failing", "reporting"}

ProposalRows == [status : Statuses, for : Owners \cup {"nobody"}, rank : Nat,
                 lease : {"none", "live", "expired"}]
Checks == [at : {"idle", "offering", "placing", "binding", "revealing", "failing"},
           target : 0..LastVersion, owner : Owners \cup {"nobody"}]
Deploys == [at : Stages, target : 0..LastVersion, stopped : BOOLEAN, migrated : BOOLEAN,
            verdict : {"none", "failed", "ambiguous"}, found : BOOLEAN]

UpdatesTypeOK ==
    /\ latest \in 0..LastVersion
    /\ owners \in (SUBSET Owners) \ {{}}
    /\ proposal \in [Versions -> ProposalRows]
    /\ \A v \in Versions : (proposal[v].status = "deploying") = (proposal[v].lease # "none")
    /\ offered \subseteq Versions
    /\ check \in [Checkers -> Checks]
    /\ \A c \in Checkers : check[c].at # "idle" => check[c].target \in Versions
    /\ deploy \in Deploys
    /\ deploy.at # "idle" => deploy.target \in Versions
    /\ site \in [up : BOOLEAN, runs : 0..LastVersion, link : 0..LastVersion]
    /\ begun \in [Versions -> 0..2]
    /\ consent \in [Versions -> Owners \cup {"nobody"}]
    /\ turnovers \in 0..MaxOwnerChanges
    /\ breaks \in 0..MaxUpdateFaults

NoProposal == [status |-> "none", for |-> "nobody", rank |-> 0, lease |-> "none"]
NoCheck == [at |-> "idle", target |-> 0, owner |-> "nobody"]
NoDeploy == [at |-> "idle", target |-> 0, stopped |-> FALSE, migrated |-> FALSE,
             verdict |-> "none", found |-> FALSE]

UpdatesInit ==
    /\ latest = 0 /\ \E first \in Owners : owners = {first}
    /\ proposal = [v \in Versions |-> NoProposal]
    /\ offered = {}
    /\ check = [c \in Checkers |-> NoCheck]
    /\ deploy = NoDeploy
    /\ site = [up |-> TRUE, runs |-> 0, link |-> 0]
    /\ begun = [v \in Versions |-> 0]
    /\ consent = [v \in Versions |-> "nobody"]
    /\ turnovers = 0 /\ breaks = 0

Break == breaks < MaxUpdateFaults /\ breaks' = breaks + 1
StatusBecomes(v, status) == proposal' = [proposal EXCEPT ![v].status = status]
OpenOffer(v) == proposal[v].status \in {"preparing", "pending"}

-----------------------------------------------------------------------------
(* The world: a release is published, the owner of the family changes. *)

ReleasePublished ==
    /\ latest < LastVersion /\ latest' = latest + 1
    /\ UNCHANGED <<owners, proposal, offered, check, deploy, site, begun, consent, turnovers, breaks>>

OwnersChange ==
    /\ turnovers < MaxOwnerChanges /\ turnovers' = turnovers + 1
    /\ \E set \in (SUBSET Owners) \ {{}, owners} : owners' = set
    /\ UNCHANGED <<latest, proposal, offered, check, deploy, site, begun, consent, breaks>>

-----------------------------------------------------------------------------
(* The check for a release, inside the running program. *)

CheckAt(c, step) == check' = [check EXCEPT ![c].at = step]
CheckEnds(c) == check' = [check EXCEPT ![c] = NoCheck]

\* The release and the sole owner are read; an ambiguous owner is an error.
ReadRelease(c) ==
    /\ site.up /\ check[c].at = "idle" /\ latest > site.runs
    /\ \E o \in owners : /\ owners = {o}
                         /\ check' = [check EXCEPT ![c] = [at |-> "offering", target |-> latest, owner |-> o]]
    /\ UNCHANGED <<latest, owners, proposal, offered, deploy, site, begun, consent, turnovers, breaks>>

\* prepareProposal, under its advisory lock: a version is proposed once, and only
\* when it is newer than whatever is open; what was open is superseded.
PrepareProposal(c) ==
    LET target == check[c].target
    IN  /\ check[c].at = "offering"
        /\ IF proposal[target].status # "none" \/ \E v \in Versions : v >= target /\ OpenOffer(v)
             THEN CheckEnds(c) /\ UNCHANGED proposal
             ELSE /\ proposal' = [v \in Versions |->
                         CASE v = target -> [NoProposal EXCEPT !.status = "preparing",
                                                               !.for = check[c].owner]
                           [] v # target /\ OpenOffer(v) -> [proposal[v] EXCEPT !.status = "superseded"]
                           [] OTHER -> proposal[v]]
                  /\ CheckAt(c, "placing")
        /\ UNCHANGED <<latest, owners, offered, deploy, site, begun, consent, turnovers, breaks>>

\* The message without buttons is sent first.
PlaceMessage(c) ==
    /\ check[c].at = "placing"
    /\ \/ CheckAt(c, "binding") /\ UNCHANGED breaks
       \/ Break /\ CheckAt(c, "failing")
    /\ UNCHANGED <<latest, owners, proposal, offered, deploy, site, begun, consent, turnovers>>

\* bindPendingTelegramMessage: the person asked must still be an owner.
BindMessage(c) ==
    LET row == proposal[check[c].target]
    IN  /\ check[c].at = "binding"
        /\ IF row.status = "preparing" /\ row.for \in owners
             THEN StatusBecomes(check[c].target, "pending") /\ CheckAt(c, "revealing")
             ELSE CheckAt(c, "failing") /\ UNCHANGED proposal
        /\ UNCHANGED <<latest, owners, offered, deploy, site, begun, consent, turnovers, breaks>>

\* The edit that shows the buttons; an ambiguous one may have shown them.
RevealButtons(c) ==
    /\ check[c].at = "revealing"
    /\ \/ offered' = offered \cup {check[c].target} /\ CheckEnds(c) /\ UNCHANGED breaks
       \/ /\ Break /\ CheckAt(c, "failing")
          /\ offered' \in {offered, offered \cup {check[c].target}}
    /\ UNCHANGED <<latest, owners, proposal, deploy, site, begun, consent, turnovers>>

\* markDeliveryFailure: a row that was decided meanwhile stays as it is.
MarkDeliveryFailure(c) ==
    /\ check[c].at = "failing"
    /\ IF OpenOffer(check[c].target) THEN StatusBecomes(check[c].target, "undelivered")
                                ELSE UNCHANGED proposal
    /\ CheckEnds(c)
    /\ UNCHANGED <<latest, owners, offered, deploy, site, begun, consent, turnovers, breaks>>

CheckDies(c) ==
    /\ check[c].at # "idle" /\ Break
    /\ CheckEnds(c)
    /\ UNCHANGED <<latest, owners, proposal, offered, deploy, site, begun, consent, turnovers>>

-----------------------------------------------------------------------------
(* The press of a button. *)

Decided == {v \in Versions : proposal[v].rank > 0}

\* claimDecision: the person asked, if still an owner, decides a pending proposal.
PressAllowed(v, who) ==
    proposal[v].status = "pending" /\ who = proposal[v].for /\ who \in owners
ClaimDecision(v, who, decision) ==
    /\ site.up /\ v \in offered /\ PressAllowed(v, who)
    /\ IF v <= site.runs
         THEN StatusBecomes(v, "superseded") /\ UNCHANGED consent
         ELSE /\ proposal' = [proposal EXCEPT ![v].status = decision,
                                              ![v].rank = Cardinality(Decided) + 1]
              /\ consent' = [consent EXCEPT ![v] = IF decision = "approved" THEN who ELSE "nobody"]
    /\ UNCHANGED <<latest, owners, offered, check, deploy, site, begun, turnovers, breaks>>

-----------------------------------------------------------------------------
(* The controller. *)

StageIs(stage) == deploy' = [deploy EXCEPT !.at = stage]
SoleOwner(v) == owners = {proposal[v].for}

MayInstall(v) == proposal[v].status = "approved" /\ SoleOwner(v)
InstallsFirst(v) ==
    MayInstall(v) /\ \A w \in Versions : MayInstall(w) => proposal[v].rank <= proposal[w].rank
Stale(v) == proposal[v].lease = "expired"

\* A lease that ran out is never resumed: its release may have begun its migration.
ReconcileStale_Resumes ==
    proposal' = [v \in Versions |->
        IF Stale(v) THEN [proposal[v] EXCEPT !.status = "approved", !.lease = "none"] ELSE proposal[v]]
ReconcileStale ==
    proposal' = [v \in Versions |->
        IF Stale(v) THEN [proposal[v] EXCEPT !.status = "ambiguous", !.lease = "none"] ELSE proposal[v]]

\* The timer of the controller: stale leases are closed, or a proposal is claimed.
StartController ==
    /\ deploy.at = "idle"
    /\ \/ /\ \E v \in Versions : Stale(v)
          /\ ReconcileStale /\ UNCHANGED deploy
       \/ /\ \A v \in Versions : ~Stale(v)
          /\ \E v \in Versions :
                 /\ InstallsFirst(v)
                 /\ proposal' = [proposal EXCEPT ![v].status = "deploying", ![v].lease = "live"]
                 /\ deploy' = [NoDeploy EXCEPT !.at = "claimed", !.target = v,
                                               !.found = site.up /\ site.runs = site.link]
    /\ UNCHANGED <<latest, owners, offered, check, site, begun, consent, turnovers, breaks>>

HoldsRelease(v) == proposal[v].status = "deploying" /\ proposal[v].lease = "live"

\* require_upgrade_from_current, the download and the first recheck_claim_owner.
ValidateRelease ==
    /\ deploy.at = "claimed"
    /\ IF deploy.target > site.link /\ SoleOwner(deploy.target) /\ HoldsRelease(deploy.target)
         THEN StageIs("validated") ELSE StageIs("failing")
    /\ UNCHANGED <<latest, owners, proposal, offered, check, site, begun, consent, turnovers, breaks>>

\* The images are pulled, the owner rechecked, the database dumped.
DumpDatabase ==
    /\ deploy.at = "validated"
    /\ IF SoleOwner(deploy.target) /\ HoldsRelease(deploy.target)
         THEN StageIs("dumped") ELSE StageIs("failing")
    /\ UNCHANGED <<latest, owners, proposal, offered, check, site, begun, consent, turnovers, breaks>>

\* The flag is set before the command, which may stop some services and fail.
Surviving(up) == IF up THEN check ELSE [c \in Checkers |-> NoCheck]
StopServices_FlagsLate ==
    /\ deploy.at = "dumped"
    /\ \/ /\ site' = [site EXCEPT !.up = FALSE] /\ check' = Surviving(FALSE)
          /\ deploy' = [deploy EXCEPT !.at = "stopped", !.stopped = TRUE] /\ UNCHANGED breaks
       \/ /\ Break
          /\ \E up \in {site.up, FALSE} : site' = [site EXCEPT !.up = up] /\ check' = Surviving(up)
          /\ StageIs("failing")
    /\ UNCHANGED <<latest, owners, proposal, offered, begun, consent, turnovers>>
StopServices ==
    /\ deploy.at = "dumped"
    /\ \/ /\ site' = [site EXCEPT !.up = FALSE] /\ check' = Surviving(FALSE)
          /\ deploy' = [deploy EXCEPT !.at = "stopped", !.stopped = TRUE] /\ UNCHANGED breaks
       \/ /\ Break
          /\ \E up \in {site.up, FALSE} : site' = [site EXCEPT !.up = up] /\ check' = Surviving(up)
          /\ deploy' = [deploy EXCEPT !.at = "failing", !.stopped = TRUE]
    /\ UNCHANGED <<latest, owners, proposal, offered, begun, consent, turnovers>>

\* The volumes are archived and the candidate's migrations begin.
BeginMigration ==
    /\ deploy.at = "stopped"
    /\ deploy' = [deploy EXCEPT !.at = "starting", !.migrated = TRUE]
    /\ begun' = [begun EXCEPT ![deploy.target] = IF @ < 2 THEN @ + 1 ELSE @]
    /\ UNCHANGED <<latest, owners, proposal, offered, check, site, consent, turnovers, breaks>>

\* start_candidate_release and wait_for_health; a candidate may run and not be healthy.
StartCandidate ==
    /\ deploy.at = "starting"
    /\ \/ /\ StageIs("healthy") /\ site' = [site EXCEPT !.up = TRUE, !.runs = deploy.target]
          /\ UNCHANGED breaks
       \/ /\ Break /\ StageIs("failing")
          /\ \E up \in BOOLEAN : site' = [site EXCEPT !.up = up, !.runs = deploy.target]
    /\ UNCHANGED <<latest, owners, proposal, offered, check, begun, consent, turnovers>>

PromoteCandidate ==
    /\ deploy.at = "healthy"
    /\ StageIs("promoted") /\ site' = [site EXCEPT !.link = deploy.target]
    /\ UNCHANGED <<latest, owners, proposal, offered, check, begun, consent, turnovers, breaks>>

\* record_proposal_result, by the process that still holds the lease.
ClosedAs(v, status) == proposal' = [proposal EXCEPT ![v].status = status, ![v].lease = "none"]

RecordSuccess ==
    /\ deploy.at = "promoted"
    /\ IF HoldsRelease(deploy.target)
         THEN ClosedAs(deploy.target, "succeeded") /\ deploy' = NoDeploy
         ELSE StageIs("failing") /\ UNCHANGED proposal
    /\ UNCHANGED <<latest, owners, offered, check, site, begun, consent, turnovers, breaks>>

\* A command fails or the unit is told to stop.
StepFails ==
    /\ deploy.at \notin {"idle", "failing", "reporting"} /\ Break
    /\ StageIs("failing")
    /\ UNCHANGED <<latest, owners, proposal, offered, check, site, begun, consent, turnovers>>

VerdictIs(verdict) == deploy' = [deploy EXCEPT !.at = "reporting", !.verdict = verdict]

\* The candidate's volumes are removed, unless that fails.
VolumesRemoved ==
    \/ VerdictIs("failed") /\ UNCHANGED breaks
    \/ Break /\ VerdictIs("ambiguous")

\* handle_failure: after a migration has begun nothing is restarted, before it the
\* services that were stopped are.
HandleFailure ==
    /\ deploy.at = "failing"
    /\ \/ /\ deploy.migrated
          /\ VerdictIs("ambiguous") /\ UNCHANGED <<site, check, breaks>>
       \/ /\ ~deploy.migrated /\ ~deploy.stopped
          /\ VolumesRemoved /\ UNCHANGED <<site, check>>
       \/ /\ ~deploy.migrated /\ deploy.stopped
          /\ VolumesRemoved
          /\ site' = [site EXCEPT !.up = TRUE, !.runs = site.link]
          /\ check' = Surviving(site.up /\ site.runs = site.link)
       \/ /\ ~deploy.migrated /\ deploy.stopped /\ Break
          /\ VerdictIs("ambiguous") /\ UNCHANGED <<site, check>>
    /\ UNCHANGED <<latest, owners, proposal, offered, begun, consent, turnovers>>

ReportFailure ==
    /\ deploy.at = "reporting"
    /\ IF HoldsRelease(deploy.target) THEN ClosedAs(deploy.target, deploy.verdict)
                                      ELSE UNCHANGED proposal
    /\ deploy' = NoDeploy
    /\ UNCHANGED <<latest, owners, offered, check, site, begun, consent, turnovers, breaks>>

\* The process or the server is killed: the row keeps its lease, the services stay
\* as they are.
ControllerDies ==
    /\ deploy.at # "idle" /\ Break
    /\ deploy' = NoDeploy
    /\ UNCHANGED <<latest, owners, proposal, offered, check, site, begun, consent, turnovers>>

\* A lease of an hour outlives its controller, which the unit ends after 45 minutes.
LeaseRunsOut(v) ==
    /\ HoldsRelease(v) /\ ~(deploy.at # "idle" /\ deploy.target = v)
    /\ proposal' = [proposal EXCEPT ![v].lease = "expired"]
    /\ UNCHANGED <<latest, owners, offered, check, deploy, site, begun, consent, turnovers, breaks>>

-----------------------------------------------------------------------------
ControllerStep ==
    StartController \/ ValidateRelease \/ DumpDatabase \/ StopServices \/ BeginMigration
    \/ StartCandidate \/ PromoteCandidate \/ RecordSuccess \/ HandleFailure \/ ReportFailure

UpdatesNext ==
    \/ ReleasePublished \/ OwnersChange
    \/ \E c \in Checkers : \/ ReadRelease(c) \/ PrepareProposal(c) \/ PlaceMessage(c)
                           \/ BindMessage(c) \/ RevealButtons(c) \/ MarkDeliveryFailure(c)
                           \/ CheckDies(c)
    \/ \E v \in Versions, who \in Owners, decision \in {"approved", "declined"} :
           ClaimDecision(v, who, decision)
    \/ ControllerStep \/ StepFails \/ ControllerDies
    \/ \E v \in Versions : LeaseRunsOut(v)

\* The timer starts the controller every minute, its commands have time limits, and
\* a lease ends by the clock.
UpdatesFairness == WF_updatesVars(ControllerStep)
                   /\ \A v \in Versions : WF_updatesVars(LeaseRunsOut(v))

UpdatesSpec == UpdatesInit /\ [][UpdatesNext]_updatesVars /\ UpdatesFairness

-----------------------------------------------------------------------------
\* A release migrates the database at most once in its life, and only after the
\* very person it was offered to pressed "install", who is asked again before the
\* services stop; the installed release only grows. Crashes, leases that ran out
\* and offers that were superseded change nothing of it.
InstalledByConsent ==
    [][/\ \A v \in Versions : begun'[v] # begun[v] =>
              begun[v] = 0 /\ consent[v] # "nobody" /\ consent[v] = proposal[v].for /\ v > site.link
       /\ site'.link >= site.link]_updatesVars

\* "failed" tells the owner that the current release works: the release was never
\* begun, and the services that worked when the controller came work again.
FailedIsRestored ==
    [][\A v \in Versions : proposal'[v].status = "failed" /\ proposal[v].status # "failed" =>
           /\ begun[v] = 0
           /\ deploy.found => site.up /\ site.runs = site.link]_updatesVars

\* Nothing stays half installed for ever, and what the sole owner approved is tried.
UpdatesLeaveQueue ==
    \A v \in Versions : <>[](/\ proposal[v].status # "deploying"
                             /\ proposal[v].status = "approved" => ~SoleOwner(v))

=============================================================================
