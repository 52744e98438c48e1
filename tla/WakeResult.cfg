SPECIFICATION WSpec
CONSTANTS
    Thread = {t1, t2}
    Ref = {b1}
    Host = host
    Null = null
INVARIANT OutcomeIsWakeResult
