-------------------------------- MODULE Backstage -------------------------------
(***************************************************************************)
(* What goes on behind the conversations, side by side: shared tasks, the  *)
(* dates of those that repeat, the releases of the program, and a sandbox. *)
(* They share no row but the status of a repeating task, which SharedTasks *)
(* keeps, so in a behaviour of this module one of them moves, chosen at    *)
(* the start, and the others rest in an initial state.                     *)
(***************************************************************************)
EXTENDS SharedTasks, TaskRecurrence, SoftwareUpdates, SandboxRunner

VARIABLE moving   \* the part that moves

backstageVars == <<moving, tasksVars, recurrenceVars, updatesVars, sandboxVars>>

BackstageTypesOK == SharedTasksTypeOK /\ RecurrenceTypeOK /\ UpdatesTypeOK /\ SandboxTypeOK

\* Of a part that rests one initial state is enough.
BackstageInit ==
    /\ moving \in {"tasks", "recurrence", "releases", "sandbox"}
    /\ SharedTasksInit /\ RecurrenceInit /\ UpdatesInit /\ SandboxInit
    /\ moving # "tasks" => \A t \in Tasks : sharedTask[t].status = "accepted" /\ ~offerStands[t]
    /\ moving # "recurrence" => rule = CHOOSE r \in RecurrenceRules : TRUE
    /\ moving # "releases" => owners = {CHOOSE o \in Owners : TRUE}

BackstageNext ==
    /\ UNCHANGED moving
    /\ \/ /\ moving = "tasks" /\ SharedTasksNext
          /\ UNCHANGED <<recurrenceVars, updatesVars, sandboxVars>>
       \/ /\ moving = "recurrence" /\ RecurrenceNext
          /\ UNCHANGED <<tasksVars, updatesVars, sandboxVars>>
       \/ /\ moving = "releases" /\ UpdatesNext
          /\ UNCHANGED <<tasksVars, recurrenceVars, sandboxVars>>
       \/ /\ moving = "sandbox" /\ SandboxNext
          /\ UNCHANGED <<tasksVars, recurrenceVars, updatesVars>>

\* In its initial state a part has no fair step to take, so the fairness of the parts
\* that rest asks for nothing.
BackstageSpec ==
    /\ BackstageInit /\ [][BackstageNext]_backstageVars
    /\ SharedTasksFairness /\ UpdatesFairness /\ SandboxFairness

-----------------------------------------------------------------------------
\* Nothing hangs: transactions on shared tasks do not wait for each other in a
\* circle, no release stays half installed and an approved one is tried, a call of
\* a sandbox ends, and a container nobody uses is stopped and removed.
NothingHangs == TaskCallsEnd /\ UpdatesLeaveQueue /\ SandboxSettles

=============================================================================
