\* What documents say of onboarding and the code does not do: one at a time.
SPECIFICATION Spec
CONSTANTS
    Tasks = {t1, t2}
    Answers = {a1}
    Blank = Blank
INVARIANT PagesMakeReady
\* INVARIANT AnswersKept
\* PROPERTY ChatContractKept
CHECK_DEADLOCK FALSE
