\* Two replicas of the User Service and one of the Notification Service.
SPECIFICATION FairSpec
CONSTANTS
  s1 = s1  s2 = s2  n1 = n1
  UserReplicas <- TwoOfUser
  NotificationReplicas <- OneOfNotification
  LastMigration = 2
  Parts = 2
  MaxMishaps = 3
INVARIANTS TypeOK RecordedIsBuilt ReadyBeforeWork NothingClosedUnderWork DrainedAtExit
PROPERTY EveryoneServes
