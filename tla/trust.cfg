SPECIFICATION MCTrustSpec
CONSTANTS
  Verifications = {1, 2}
  MaxVKeys = 1
  CapRequests <- MCCapRequests
  FreeTier = 1
  MaxCharge = 4
  MonthLength = 2
  Limits <- MCLimits
  Machines = 2
  MaxProcesses = 3
  MaxQuotaTime = 3
  MaxCalls = 4
  MaxSigningKeys = 3
  Servers = {s1}
  Signers = {w1, w2}
  KeyMaxAge = 2
  SecretMaxAge = 1
  MaxKeyTime = 4
  MaxReceipts = 2
  MaxOperations = 5
  Checks = {c1, c2}
  StaticKey = 0
  PublicKeyTtl = 1
  PublicKeyMax = 1
  MaxChecks = 3
INVARIANT QuotaSound
INVARIANT ReceiptsSound
PROPERTY ChargesEnd
CHECK_DEADLOCK FALSE
