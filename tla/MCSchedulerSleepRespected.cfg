CONSTANTS
  MaxTasks <- MCMaxTasks
  TimeSlice <- MCTimeSlice
  GraceTicks <- MCGraceTicks
  Width <- MCWidth
  SleepTicks <- MCSleepTicks
  MaxTaskId <- MCMaxTaskId

SPECIFICATION Spec
INVARIANT SleepRespected
