SPECIFICATION RoundSpec
CONSTANTS
  Requirement = {q1}
  Attachment = {x1, x2, x3}
  NoRequirement = NoRequirement
  NoAttachment = NoAttachment
  MaxAttachments = 2
SYMMETRY Symmetry
INVARIANTS
  OpinionLinked
  LimitHolds
  FilesStayUnlocked
  SidesAgree
  FixReachable
CHECK_DEADLOCK FALSE
