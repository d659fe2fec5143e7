SPECIFICATION FairSpec
CONSTANTS
  N = 3
  Value = {1, 2}
  MaxTotal = 3
  ElementSize = 3
  mpi_max_count = 8
INVARIANTS TypeOK CountsMatch DisplsFit
PROPERTIES LaidOutAsAsked ImplementsVector ExchangesEnd
