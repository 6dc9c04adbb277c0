SPECIFICATION Spec
CONSTANTS
  c1 = c1
  c2 = c2
  CCR0 = CCR0
  STAR = STAR
  FCR = FCR
  Nonvolatile = Nonvolatile
  Callers = {c1, c2}
  Nobody = Nobody
  Registers = {STAR, CCR0, FCR, Nonvolatile}
  Struct <- MCStruct
  ReadOnly = {STAR}
  Values = {0, 1}
  DefaultValue = 0
  Leftovers <- MCLeftovers
  ClockBits <- MCOneBit
  DefaultBits <- MCDefaultBits
  ForcedBit = 2
  FirmwareBytes <- MCFirmwareBytes
  CharIsSigned = TRUE
  EndpointDepth = 1
  Keep = Keep
  Update = Update
  Given <- MCGiven
  Asked <- MCAsked
  MaxCalls = 3
  Faults = {"lost", "late"}
INVARIANT
  RegistersGetTheirValues
CHECK_DEADLOCK FALSE
