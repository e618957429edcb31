\* Three requests about two owners' accounts.
SPECIFICATION Spec
CONSTANTS
    Req = {1, 2, 3}
    Ids = {1, 2, 3, 4}
    Numbers = {"n1", "n2", "n3"}
    InitStaff <- TwoOwners
    Inputs <- Triples
    PhoneLimit = 1
    IPLimit = 2
    MaxWindows = 1
    MaxExpired = 1
INVARIANTS AccountsSound SessionsFollowPassword GuessesBounded
PROPERTIES NewPasswordStays
CHECK_DEADLOCK FALSE
