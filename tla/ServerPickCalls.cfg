SPECIFICATION Spec
CONSTANTS
  MaxSlots = 2
  Calls = {c1, c2}
  Servers <- ThreeServers
  Name <- Names3
  EntryIP <- EntryIPs
  Score <- Scores
  Country <- InOneCountry
  Tier <- Tiers
  Countries <- NoCountries
  AnyCountry = any
  None = none
  x1 = x1
  x2 = x2
  x3 = x3
  any = any
SYMMETRY Interchangeable
INVARIANTS DistinctEndpoints BestPicked
PROPERTIES FailsOnlyIfTooFew ImplementsSlotStore
