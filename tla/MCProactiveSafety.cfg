CONSTANTS
  Sessions = {s1}
  Neutral = calm
  Moods = {calm, sad}
  MaxTime = 2
  MaxFaults = 2
  EventKinds = {"reminder", "schedule"}
  EventTimes = {1}
  ReminderWindow = 0
  FollowupBefore = 0
  FollowupAfter = 1
  Active = 1
  MinGap = 2
  MaxPerDay = 1
  MaxPerWeek = 4
  MoodCooldown = 2
  HabitCooldown = 3
  ReconnectCooldown = 4
  ReconnectAge = 3
  Day = 3
  Week = 5
  RecentLimit = 14
  HabitTimes = {2}
  QuietTimes = {0, 1}
SPECIFICATION Spec
INVARIANT OncePerTrigger
INVARIANT NoBurst
INVARIANT NoSilentLoss
INVARIANT BookedOrFaulted
PROPERTY MutedStaysQuiet
