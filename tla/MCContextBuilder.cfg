CONSTANTS
  Ids = {1, 2, 3}
  Profiles <- MCProfiles
  Budget = 100
SPECIFICATION Spec
INVARIANTS TypeOK WithinBudget NoRepetition DropsAddUp RoomUsed ShareGuaranteed AgreementRewarded
