SPECIFICATION Spec
CONSTANTS
  Machines = {"devices", "delivery", "stored", "receipts", "claims", "expo"}
  RegistryOwners = {a1, a2}
  RegistryTokens = {t1, t2, t3}
  Clients = {b1, b2}
  NoToken = NoToken
  NoOwner = NoOwner
  RegistryDevicesPerOwner = 2
  RegistryMaxTime = 1
  DeliveryDevices = {a1, a2}
  Workers = {b1, b2}
  Pollers = {c1, c2}
  BatchSize = 1
  Limit = 2
  DeliveryMaxTime = 3
  MayStop = TRUE
  MayExpire = TRUE
  StoresOwners = {1, 2}
  StoresTokens = {1, 2, 3}
  StoresTickets = {}
  Kinds = {}
  ByBytes <- Bytes
  Collated <- Bytes
  Platforms = {"ios"}
  StoresDevicesPerOwner = 2
  Limits = {1}
  MaxTime = 1
  ExpoBatch = 3
  MaxBatchSize = 3
  ExpoSizes = {0, 2, 3, 4}
  TicketIds = {1, 2}
SYMMETRY Symmetry
PROPERTY RegistryKeepsItsWord
PROPERTY SentOnce
CHECK_DEADLOCK FALSE
