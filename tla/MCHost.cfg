SPECIFICATION MCSpec
CONSTANTS
  w1 = w1
  w2 = w2
  a1 = a1
  a2 = a2
  NoJob = NoJob
  NoArg = NoArg
  Workers <- MCWorkers
  Slots <- MCSlots
  Args <- MCArgs
  Generations <- MCGenerations
  Capacity <- MCCapacity
  Jobs <- MCJobs
  NoInode = 0
  Inodes <- MCInodes
  MaxRevision = 4
  MaxFaults = 3
  MaxTick = 1
INVARIANTS
  JobsInv
  NoLostWakeup
  SavesInv
PROPERTIES
  JobsFinish
  ImplementsOrderedFold
  ImplementsAtomicSave
  SavesGoOn
