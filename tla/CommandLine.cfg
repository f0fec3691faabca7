CONSTANTS
  Letters = {"a", "b"}
  Commands <- MCCommands
  HelpWords <- MCHelpWords
  MaxCharacters = 5
  MaxNesting = 4
SPECIFICATION Spec
INVARIANTS
  NothingTypedIsLost
  HistoryIsCompleted
  TokensReadBack
  CompletionsLead
  SuggestionIsClosest
