CONSTANTS
  a1 = a1
  a2 = a2
  a3 = a3
  cnpj = cnpj
  Names = {cnpj}
  Calls = {a1, a2, a3}
  Target <- OneTarget
  MaxAttempts = 2
  FailureThreshold = 2
  Cooldown = 2
  MinInterval = 2
  BaseDelay = 1
SPECIFICATION Spec
INVARIANT TypeOK
PROPERTY SequentialSpacing
PROPERTY OpensOnlyByExhaustion
PROPERTY EveryCallReports
