CONSTANTS
  Sessions = {s1}
  Neutral = calm
  Moods = {calm}
  MaxTime = 2
  MaxFaults = 1
  EventKinds = {"reminder"}
  EventTimes = {1, 2}
  ReminderWindow = 1
  FollowupBefore = 0
  FollowupAfter = 0
  Active = 1
  MinGap = 2
  MaxPerDay = 1
  MaxPerWeek = 4
  MoodCooldown = 2
  HabitCooldown = 3
  ReconnectCooldown = 4
  ReconnectAge = 3
  Day = 3
  Week = 5
  RecentLimit = 14
  HabitTimes = {}
  QuietTimes = {0, 1}
SPECIFICATION FairSpec
PROPERTY PassEnds
PROPERTY LoneReminderServed
PROPERTY ImplementsOutbox
