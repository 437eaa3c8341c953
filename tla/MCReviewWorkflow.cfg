SPECIFICATION DeskFairSpec
CONSTANTS
  Member = {m1, m2}
  Manager = {m1}
  Request = {r1, r2}
  Annotation = {a1, a2}
  Note = {n1}
  NoMember = NoMember
  NoRequest = NoRequest
INVARIANTS
  RoundsTold
  SingleOpenRequest
  RequestFitsStatus
  AnnotationsFollowRequest
  PublishedHasWork
  SnapshotLinks
  UnsubmittedEditsTraceable
  DatesFitStatus
  OfferedIsAccepted
PROPERTIES
  ClosedRequestsFrozen
  DeletionSparesSubmitted
  StaleArchivedGoes
  ImplementsDialogue
CHECK_DEADLOCK FALSE
