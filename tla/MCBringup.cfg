SPECIFICATION BringupSpec
CONSTANTS
  Servers <- DhcpServers
  Lease <- Leases
  OtherLease <- Others
  Mac <- Neighbours
  Zone <- Names
  ARP_CACHE_SIZE = 1
  MaxQueries = 2
  Cpus = {0, 1, 2, 3}
  BOOT_STACK_CPUS = 3
  PIT_HZ = 2
  Firsts = {0, 1}
INVARIANTS  LeaseGranted AnswersBelong
PROPERTIES EditorSettles AllCpusEnter AddressObtained
CHECK_DEADLOCK FALSE
