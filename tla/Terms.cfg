SPECIFICATION Spec
CONSTANTS
    Value <- MCValue
    Pattern <- MCPattern
    Term <- MCTerm
    MaxLength = 3
    MaxClauses = 2
INVARIANTS ListsAgree MatchingAgrees FirstMatchWins
CHECK_DEADLOCK FALSE
