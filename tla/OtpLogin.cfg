SPECIFICATION Spec
CONSTANTS
    Req = {1, 2, 3}
    Phones = {"a", "r"}
    IPs = {"x"}
    ReviewPhone = "r"
    ReviewCode = 99
    otpMaxPerHour = 1
    OTPPerIPPerHour = 2
    OTPPerDay = 2
    OTPVerifyMaxAttempts = 2
    OTPVerifyFailsPerIPPerHour = 2
    reviewMaxFailures = 1
    Inputs <- Logins
INVARIANTS CodesSpentOnce SendsCapped
PROPERTIES ReviewStaysLocked
CHECK_DEADLOCK FALSE
