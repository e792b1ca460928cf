CONSTANTS
  Starts = {s1, s2}
  Ids = {i1, i2}
  ResumeIds = {r1}
  Chunks = 2
  Sessions = {p1, p2}
  Gates = {g1, g2}
  Devices = {disk, usb, boot}
  Protected = {boot}
  None = None
SPECIFICATION FairSpec
INVARIANT TypeOK
INVARIANT ReportedIsReal
INVARIANT QuietJobsHaveEnded
INVARIANT CertificateForOwnDevice
PROPERTY JobsEnd
CHECK_DEADLOCK FALSE
