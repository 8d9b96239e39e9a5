SPECIFICATION Spec
CONSTANTS
  Programs <- Bodily
  Token <- Tokens
INVARIANTS TypeOK OwnCase CasesNoted OwnStatement NotedRecorded InOrder OnlyUnknownWithdrawn
