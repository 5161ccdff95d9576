SPECIFICATION SpecProject
CONSTANTS
  InitialDoc <- MCDoc
  InitialFiles <- MCFiles
  Top = {"u"}
  DocEdits <- MCDocEdits
  FileEdits <- MCFileEdits
  MaxEdits = 3
  Layouts <- MCLayouts
  FirstLayout <- MCFirstLayout
  Texts <- MCTexts
  FirstText <- MCFirstText
  Vulnerable = {"old"}
  Keyed = {"k=v"}
  IsPath <- MCIsPath
  IsFile <- MCIsFile
  RootSchema <- MCSchema
  ComposeFile = "compose.yaml"
  InitialCompose <- MCCompose
  Remote = {"oci"}
  Written <- MCWritten
  NewName = "new"
  Depth = 10
  MaxComposeEdits = 2
  LineLayouts <- MCLines
  FirstLines <- MCFirst
  InitialDockerfile <- MCDockerfile
  WrittenElements <- MCElements
  SettingsValues <- MCSettings
  Response <- MCResponse
  MaxDockerfileEdits = 2
INVARIANTS
  ParentsAreAncestors
  ArgumentAnswersAgree
  HighlightsAreMutual
  HoverFollowsDefinition
  SuggestionsAreNotReported
  FixesRemoveTheirWarnings
  LinksAndLensesAgree
  FormattingSettles
  TokensAreDisjoint
  RenamePreservesBindings
  HoverShowsDefinition
  IncludesAreFollowed
  CompletedNamesResolve
  CompletedAttributesAreExplained
  ParentValuesAreInherited
  FormattingKeepsTheTree
  DiagnosticsFollowEdits
  ScoutAnswersAgree
CHECK_DEADLOCK FALSE
