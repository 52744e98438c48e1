SPECIFICATION Spec
CONSTANTS
    Thread = {t1, t2, t3}
    Ref = {b1}
    Host = host
    Null = null
INVARIANT NoJoinerOfEnded
