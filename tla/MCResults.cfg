SPECIFICATION Spec
CONSTANTS
    File = {doc, log, pic, exe}
    Text = {doc, log}
    Image = {pic}
    None = None
    Tab = {t1, t2}
    Batch = 1
    MaxRows = 2
    Budgets <- Limits
SYMMETRY Symmetry
INVARIANTS RunningReferenced PreviewCurrent SelectionHeld ResultsShown
CHECK_DEADLOCK FALSE
