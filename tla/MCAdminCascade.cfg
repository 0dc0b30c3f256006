\* A collection is deleted while a product gets another one.
SPECIFICATION AdminSpec
CONSTANTS
    Requests = {e1, e2}
    Ids = {1, 2, 3}
    Names = {"kilims", "runners"}
    Codes = {"ana", "bea"}
    Initial <- Small
    MaxWrites = 3
PROPERTIES
    CascadeKeepsOthers
CHECK_DEADLOCK FALSE
