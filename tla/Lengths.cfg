SPECIFICATION LengthsSpec
CONSTANT Length = {0, 1, 127, 128, 129, 300, 16383, 16384}
INVARIANT RoundTrip
CHECK_DEADLOCK FALSE
