SPECIFICATION FairSpec
CONSTANTS
  Kinds <- UpdatedKinds
  Table <- TableOfKinds
  Values = {1, 2, 3}
  Other = 4
  Unnoticed <- UnnoticedAttributes
  Missed <- MissedAttributes
  Redone <- RedoneAttributes
  Growing <- GrowingAttributes
  MaxFailures = 2
  MaxDrifts = 1
  MaxEdits = 2
  MaxTogether = 1
INVARIANT UpdateArrives
PROPERTIES RepeatIsSafe SilenceLasts GrownStaysBarred Settles
