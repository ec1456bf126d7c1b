----------------------------- MODULE MCScheduler -----------------------------
(* Scheduler instantiated for TLC: two slots, a time slice of 2 ticks     *)
(* (the code's 10, scaled), a grace window of 1 tick (the code's 100) and  *)
(* 3-bit counters, so that the tick counter and the slice counter wrap    *)
(* within reach.  Sleeps of 1 and 3 ticks, at most 3 task_create calls     *)
(* (next_task_id stays below MaxTaskId).                                   *)
EXTENDS Scheduler

MCMaxTasks == 2
MCTimeSlice == 2
MCGraceTicks == 1
MCWidth == 3
MCSleepTicks == {1, 3}
MCMaxTaskId == 4

=============================================================================
