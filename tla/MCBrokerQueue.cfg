CONSTANTS
  Channels <- OneChannel
  NoChannel = NoChannel
  MaxMsgs = 2
  MaxDeliveries = 1
  MaxStarts = 2
SPECIFICATION FairSpec
INVARIANTS CoalescingLosesNothing LandedIsKept DeadOnlyWhenSpent NoOvertaking
PROPERTIES GracefulStopKeepsBacklog ImplementsMailbox EventuallySettled
CHECK_DEADLOCK FALSE
