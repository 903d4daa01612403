SPECIFICATION Spec
CONSTANTS
  ann = ann  bob = bob  mia = mia
  People = {ann, bob, mia}
  Authors = {ann}
  Deciders = {ann, bob}
  Offices = {"management"}
  Holds <- Held
  Deputises <- Deputy
  Management = "management"
  Owner = ann
  NoOffice = NoOffice
  ApproverFn = NoOffice
  Workflows <- OneStep
  Answers = {"approved", "rejected"}
  Delegations <- ToBob
  MaxVersion = 1
  MaxText = 1
  MaxRequests = 1
  MaxOpen = 1
INVARIANT NothingHangs
CHECK_DEADLOCK FALSE
