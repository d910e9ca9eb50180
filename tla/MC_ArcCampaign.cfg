SPECIFICATION FairSpec
CONSTANTS
  TaskCount = 2
  BundleSize = 3
  Elements <- MCElements
  Attempts = {a1, a2}
  MaxKills = 1
  MaxEdits = 2
  MaxLosses = 1
  Absent = Absent
INVARIANTS EvidenceKept
PROPERTIES CompleteStays EveryReachableTaskCompletes
