\* Two invocations of app500 and two workers of coapcli; or fibon with seven calls, of
\* which up to three look through the table at a time, one entry short of the four
\* numbers, and one refused thread.
CONSTANTS
    s1 = s1
    s2 = s2
    PubRounds = 2
    SubRounds <- MCSubRounds
    Pub = pub
    Subs <- MCSubs
    NoThread = none
    MaxRuns = 2
    FibArg = 5
    FibSlots = 3
    MaxRefusals = 1
    Workers = {w1, w2}
SPECIFICATION MCSpec
INVARIANTS LockAccounted SeriesInOrder CountIsRight
PROPERTIES DeadOnceAbandoned ConsoleComesBack PipeSurvives
CHECK_DEADLOCK FALSE
