SPECIFICATION Spec
CONSTANTS
  Images <- MCImages
  Factory <- MCFactory
  MaxRevision = 10
  ReadFaults = TRUE
INVARIANTS
  TypeOK
  SelectedIntact
  RunningSlotReadOnly
  OneTrialBoot
  ServiceStateCurrent
PROPERTY ImplementsJournal
