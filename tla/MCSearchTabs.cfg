SPECIFICATION TabsFairSpec
CONSTANTS
    Tab = {t1, t2}
    Invalid <- SecondEdit
    MaxEdits = 3
    MaxSwitches = 2
    MaxUpdates = 1
PROPERTIES ResultsInOrder CurrentQueryAnswered
CHECK_DEADLOCK FALSE
