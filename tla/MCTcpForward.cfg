CONSTANTS
  Peers = {p1, p2, p3}
  SrvStreams = 2
  CliStreams = 1
  Retrying = {p1, p2}
SPECIFICATION FairSpec
PROPERTIES
  SetupEnds
  PermitsReturn
