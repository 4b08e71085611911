CONSTANTS
    Lines <- MCLines
    OddLines <- MCOdd
    MaxLines = 5
    MaxOdd = 1
    MaxValueBytes = 4
    WireReadBudget = 22
    ParserHardMax = 30
    Hosts <- MCHosts
    Tokens <- MCTokens
    Expiries <- MCExpiries
SPECIFICATION Spec
INVARIANTS ParsedAsWritten ResponseAsMeant
CHECK_DEADLOCK FALSE
