SPECIFICATION FairSpec
CONSTANTS
  Jobs <- MCJobs
  VideoJobs <- MCVideoJobs
  CpuCores = 4
  NonVideoCores = 2
INVARIANTS
  TypeOK
  EachCoreOnce
  LeasesAsPromised
PROPERTY
  EveryRequestServed
