SPECIFICATION UndisturbedSpec
CONSTANTS
    Checks = {c1}
    StaleAfter = 2
    MaxBlock = 2
PROPERTY
    StaleBlockDetected
