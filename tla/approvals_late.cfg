SPECIFICATION Spec
CONSTANTS
  ann = ann  bob = bob  mia = mia
  People = {ann, bob, mia}
  Authors = {ann}
  Deciders = {mia}
  Offices = {"management", "counsel"}
  Holds <- Held
  Deputises <- Deputy
  Management = "management"
  Owner = mia
  NoOffice = NoOffice
  ApproverFn = NoOffice
  Workflows <- OneOrNone
  Answers = {"approved"}
  Delegations <- Nobody
  MaxVersion = 1
  MaxText = 2
  MaxRequests = 2
  MaxOpen = 2
INVARIANT DecidedAsSubmitted
CHECK_DEADLOCK FALSE
