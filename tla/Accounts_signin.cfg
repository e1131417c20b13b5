\* One account and two requests at a time, of the kinds of each race.
SPECIFICATION Spec
CONSTANTS
  r1 = r1  r2 = r2
  Requests = {r1, r2}
  Sessions = {1, 2, 3}
  Tokens = {1, 2, 3}
  Sets = {1, 2}
  CodesPerSet = 1
  MaxPassword = 3
  MaxSecret = 2
  MaxCount = 2
  Mixes <- Races
  NoSession = NoSession  NoToken = NoToken  NoSet = NoSet  NoJob = NoJob
SYMMETRY Interchangeable
INVARIANTS TypeOK StaleSessionsEnd TokensEndWithPassword UsedMailVerifies
  RowsNeedTheAccount EnabledWasConfirmed OneActiveSet CounterKeepsUp
PROPERTIES ImplementsOneTime SecondFactorStays
CHECK_DEADLOCK FALSE
