SPECIFICATION FairSpec
CONSTANTS
  Report = {r1}
  Content = {c1, c2}
  Name = {n1, n2}
  NoContent = NoContent
  NoName = NoName
  NoReport = NoReport
  MaxAttempt = 3
  MaxCrash = 2
  MaxFault = 1
  MaxTamper = 1
CHECK_DEADLOCK FALSE
INVARIANTS TypeOK ReadyIsOnDisk ManifestAgrees DownloadingIsResolvable InFlightRecoverable CrashesKeepServed
PROPERTIES RecoveryIsDetermined CrashesKeepOrder ImplementsArchive RecoveryCompletes
