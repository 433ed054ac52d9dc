SPECIFICATION Spec
CONSTANTS
  Packs <- DefaultPacks
  Fallback <- Ungoverned
  Sentinel <- UngovernedTag
  Subjects <- MCSubjects
  Actions <- MCActions
  Served <- MCServed
  Writes <- MCWrites
  Requests <- MCTexts
  Replies <- MCReplies
  Calendars <- MCCalendars
  Horizon = 3
  Tries = 2
  OldDefault = 0
  SlaDefault = 2
  DueDefault = 3
  Proposals <- MCProposals
  Drafts <- MCDrafts
  MaxSteps = 2
INVARIANTS
  JudgedOnAllEvidence
  FlagsOnlyEscalate
  UnknownAsksHuman
  RefusalStands
  RejectedNeverPlanned
  OwnEvidenceRefused
  OfferHonours
PROPERTIES
  ModelNeverBlocks
CHECK_DEADLOCK FALSE
