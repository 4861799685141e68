SPECIFICATION MCSpec
CONSTANTS
  MaxProjectId = 3
  Requests = {r1, r2}
  Plans = {"free", "eco"}
  WithVolumes = {1}
  VolumeNames = {n1, n2}
  Disks = {2, 3}
  FreeDisk = 2
  BetaDisk = 3
  MaxProjects = 2
  MaxFree = 1
  Capacities = {1, 2, 7}
  MinCapacity = 1
  MaxCapacity = 2
  W = 8
  Legacy = {1}
  LegacyDisk = 3
  NoRow = NoRow
  Idle = Idle
  Keep = Keep
  c1 = c1
  c2 = c2
  c3 = c3
  A = A
  B = B
  Containers = {c1, c2, c3}
  ProjectOf <- ProjectOfContainer
  Ports = {1, 2}
  Names = {f1}
  Events = {e1, e2}
  Nil = Nil
  Empty = Empty
  MaxNetworks = 3
  MaxContainers = 3
  MaxVolumes = 3
  Cpus = {1, 2}
  CpuLimit = 2
  DiskLimit = 1
  Capacity = 1
INVARIANTS
  ServicesTypeOK
  QuotasHold
  
  NetworksSound
  
  NoLostVolume

  
  
SYMMETRY Symmetry
CHECK_DEADLOCK FALSE
