SPECIFICATION ImagesSpec
CONSTANTS
  OtaConfig <- MCOtaConfig
  OtaQueries <- MCOtaQueries
  MaxQueries = 2
  MaxExpiries = 1
INVARIANT OffersFit
CHECK_DEADLOCK FALSE
