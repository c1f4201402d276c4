SPECIFICATION Spec
CONSTANTS
    Calls = {c1, c2}
    Streaming = {c1}
    Attempts = {a1}
    MaxParts = 2
    ProgressBuffer = 1
    MaxReconnects = 1
INVARIANTS AnswerTruthful AttemptBound
PROPERTIES ImplementsGovernedCall
CHECK_DEADLOCK FALSE
