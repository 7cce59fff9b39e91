SPECIFICATION FairSpec
CONSTANTS
  Grants = {g1}
  Handlers = {h1, h2}
  Visible = TRUE
  MaxRetries = 1
  MaxRequests = 4
  MaxCrashes = 1
  MaxFaults = 2
INVARIANTS TypeOK SpeaksOnce SpeechIsBacked 
PROPERTIES RequestsEnd PassIsLostToDiagnosis
