-------------------------------- MODULE Household -------------------------------
(***************************************************************************)
(* The minute schedules of the household side by side: reminders, errands, *)
(* the review of memory and paid videos. They share no row, so what one    *)
(* does neither helps nor hinders another: in a behaviour of this module   *)
(* one of them moves, chosen at the start, and the others rest in their    *)
(* initial state.                                                          *)
(***************************************************************************)
EXTENDS Reminders, Errands, MemoryReview, VideoGeneration

VARIABLE schedule   \* the schedule that moves

householdVars == <<schedule, remindersVars, errandsVars, memoryReviewVars, videoVars>>

HouseholdTypesOK == RemindersTypeOK /\ ErrandsTypeOK /\ MemoryReviewTypeOK /\ VideosTypeOK

HouseholdInit ==
    /\ schedule \in {"reminders", "errands", "review", "videos"}
    /\ RemindersInit /\ ErrandsInit /\ MemoryReviewInit /\ VideosInit
    /\ schedule # "reminders" => task.status = "proposed"

HouseholdNext ==
    /\ UNCHANGED schedule
    /\ \/ /\ schedule = "reminders" /\ RemindersNext
          /\ UNCHANGED <<errandsVars, memoryReviewVars, videoVars>>
       \/ /\ schedule = "errands" /\ ErrandsNext
          /\ UNCHANGED <<remindersVars, memoryReviewVars, videoVars>>
       \/ /\ schedule = "review" /\ MemoryReviewNext
          /\ UNCHANGED <<remindersVars, errandsVars, videoVars>>
       \/ /\ schedule = "videos" /\ VideosNext
          /\ UNCHANGED <<remindersVars, errandsVars, memoryReviewVars>>

\* In its initial state a component has no fair step to take, so the fairness of
\* the components that rest asks for nothing.
HouseholdSpec ==
    /\ HouseholdInit /\ [][HouseholdNext]_householdVars
    /\ RemindersFairness /\ ErrandsFairness /\ MemoryReviewFairness /\ VideosFairness

-----------------------------------------------------------------------------
\* No queue of a minute schedule keeps anything for ever: what is due is sent, given
\* up or waits for a reason a person can see, and every message of a lane is passed.
QueuesDrain ==
    RemindersLeaveQueue /\ ErrandLeavesQueue /\ EveryMessageIsPassed /\ VideoLeavesQueue

=============================================================================
