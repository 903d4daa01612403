SPECIFICATION Spec
CONSTANTS
  ann = ann  bob = bob  mia = mia
  People = {ann, bob, mia}
  Authors = {ann}
  Deciders = {ann, bob, mia}
  Offices = {"management", "counsel"}
  Holds <- Held
  Deputises <- Deputy
  Management = "management"
  Owner = ann
  NoOffice = NoOffice
  ApproverFn = NoOffice
  Workflows <- TwoSteps
  Answers = {"approved", "rejected"}
  Delegations <- ToAnyone
  MaxVersion = 2
  MaxText = 2
  MaxRequests = 2
  MaxOpen = 2
SYMMETRY ManagementSymmetry
INVARIANTS
  ApprovalTypeOK EveryStepEarned NoVoteLost EveryoneCanFinish
CHECK_DEADLOCK FALSE
