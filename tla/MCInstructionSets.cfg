SPECIFICATION Spec
CONSTANTS
  MnSources <- Unambiguous
  MnWords <- AllWords
  TmsSources <- EdgeSources
  TmsOnOriginal <- RightOnOriginal
  TmsOnPort <- RightOnPort
INVARIANTS ListingRoundTrip  LengthsAgree PortsAgree
\* A line is assembled, listed and carried out once.
CHECK_DEADLOCK FALSE
