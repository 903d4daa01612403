SPECIFICATION Spec
CONSTANTS
  ann = ann  bob = bob  mia = mia
  People = {ann, bob, mia}
  Authors = {ann, bob}
  Deciders = {mia}
  Offices = {"management", "counsel"}
  Holds <- Held
  Deputises <- Deputy
  Management = "management"
  Owner = mia
  NoOffice = NoOffice
  ApproverFn = NoOffice
  Workflows <- OneOrNone
  Answers = {"approved", "rejected"}
  Delegations <- Nobody
  MaxVersion = 2
  MaxText = 2
  MaxRequests = 3
  MaxOpen = 3
CONSTRAINT TextsOrRequests
SYMMETRY AuthorSymmetry
INVARIANTS ReviewedContent PublishedIsApproved
CHECK_DEADLOCK FALSE
