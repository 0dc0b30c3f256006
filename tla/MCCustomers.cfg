\* Two requests about three codes, one of which fails: an answer that is about somebody else.
SPECIFICATION DeskSpec
CONSTANTS
    Codes = {"c1", "c2", "c3"}
    FirstCodes = {"c1", "c2"}
    Nicks = {n1, n2}
    Asks = {a1, a2}
    MaxAsks = 3
    MaxMisses = 1
INVARIANTS
    AnswersNameTheCustomer
CHECK_DEADLOCK FALSE
