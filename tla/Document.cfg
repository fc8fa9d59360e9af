SPECIFICATION MCSpec
CONSTANTS
  Texts <- MCTexts
  Iris <- MCIris
  NoIri = "none"
  Meanings <- MCMeanings
  Winner <- MCWinner
  AltLabels <- MCAltLabels
  Safe <- MCTexts
  Preferred <- MCPreferred
  Hint <- MCHint
  Branch <- MCBranch
  NoBranch = "none"
  Excluded = {"places"}
  SameName <- MCSameName
  Docs <- MCDocs
  MaxFails = 1
  Doubtful = {"agreement"}
  Jobs = {"job", "goldjob"}
  NoJob = "none"
  SessionIds = {1, 2}
  Slugs = {"gold", "gold-validated"}
  NoSlug = "none"
  ValidatedSlug <- MCValidatedSlug
  Committed = {"gold"}
  CommittedJob <- MCCommittedJob
  CommittedRows <- MCCommittedRows
  Protected = {}
  Extracted <- MCExtracted
  Lexicon <- MCLexicon
  Payloads <- MCPayloads
  Segments <- MCSegments
  TextLength = 3
  MaxRequests = 5
  MaxFaults = 1
  Tasks = {"concept", "area_of_law", "synthetic"}
  Keyed = {"google", "github_models"}
  Local = {"ollama", "lmstudio"}
  Spelled <- MCSpelled
  Updates <- MCUpdates
  Requests <- MCRequests
  Entries = {"court", "forum", "costs", "country"}
  NoEntry = "no"
  BranchOf <- MCBranchOf
  ParentOf <- MCParentOf
  Branchless = "none"
  ExcludedBranches = {"places"}
  Vetoed = {}
  Met <- MCMet
  Askings <- MCAskings
  MaxCandidates = 5
  Percents = {20, 80}
INVARIANTS
  ExactMatchesKept
  NothingResolvedVanishes
  OwnersKept
  LinksResolve
  BlindUntouched
  ValidationIsSound
  OpenSessionHasJob
  ExportsAgree
  KeysStayApart
  ProviderChoiceStands
  SingleIsFirst
  BackupsAreRunnersUp
PROPERTIES
  StagesAsReviewed
CHECK_DEADLOCK FALSE
