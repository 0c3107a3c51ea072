CONSTANTS
  Events = {1, 4, 5}
  Documents = {1}
  Pasts <- PastsDef
  Evidence = {1}
  Uploads <- UploadsDef
  Contents <- ContentsDef
  NoContent = NoContent
  Expiring <- ExpiringDef
  Queries <- QueriesDef
  NoQuery = NoQuery
  Inside <- InsideDef
  StopWords = {"the"}
  IndexCap = 2
  QueryCap = 2
  PoolMin = 1
  PoolMax = 1
  RerankLimit = 1
  Vectors = TRUE
  Rerank = TRUE
  Weight <- WeightDef
  Near <- NearDef
  Digests <- DigestsDef
  Attempts = 2
  MaxJobs = 1
  MaxWrites = 1
SPECIFICATION Spec
INVARIANT TypeOK SuppressedStaysOut PoolOnlyWidens RelevanceWins PackedWell
CHECK_DEADLOCK FALSE
