CONSTANTS
  InitialAccounts <- Systems
  InitialGroups <- SomeGroups
  InitialCallouts = {"none", "other"}
  AppFlags = {TRUE, FALSE}
  MaxMishaps = 3
SPECIFICATION FairSpec
INVARIANTS TypeOK NothingTwice SeedsMatchGroups UndisturbedRunDelivers
PROPERTIES RerunsFinish
