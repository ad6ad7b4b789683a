CONSTANTS
    MaxAttempts = 2
    MaxDocs = 3
    MaxLoads = 2
    Sources = {s1, s2}
SPECIFICATION FairSpec
INVARIANTS TypeOK OneSubmission UnsubmittedIsFinal ConfirmedWasAnswered AnswerFitsImage
PROPERTY AttemptEnds
CHECK_DEADLOCK FALSE
