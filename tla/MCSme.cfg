CONSTANTS
  SizeMax = 5
  Threads = {t1, t2, t3}
  NoThread = NoThread
  Topologies <- MCTopologies
  MaxCalls = 4
  OnlineFiles <- MCOnlineFiles
  Midrs <- MCMidrs
  Smidrs <- MCSmidrs
  Apis <- MCApis
  Impls <- MCImpls
  Veclen <- MCVeclen
  Machines <- MCMachines
SPECIFICATION MCSpec
INVARIANTS
  TypeOK SlotConservation RejectedByAnother
  IdsFitAllocation DomainsMatchSharing ResultIsTopology
  BackendSupported SmeOnlyWithSlot
PROPERTIES ImplementsPool SlotsComeBack
CHECK_DEADLOCK FALSE
