SPECIFICATION Spec
CONSTANTS
    Calc <- SecondText
    MaxEdits = 3
PROPERTIES InputAnswered
CHECK_DEADLOCK FALSE
