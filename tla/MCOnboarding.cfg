SPECIFICATION Spec
CONSTANTS
    Tasks = {t1, t2}
    Answers = {a1}
    Blank = Blank
SYMMETRY Symmetry
INVARIANTS
    PipelineFindsContract
CHECK_DEADLOCK FALSE
