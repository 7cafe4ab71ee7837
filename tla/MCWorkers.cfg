SPECIFICATION FairSpec
CONSTANTS
    word = word
    Word = word
    LongMin <- MCLongMin
    LongMax <- MCLongMax
    IntMin <- MCIntMin
    IntMax <- MCIntMax
    Precision = 6
    MinExp <- MCMinExp
    MaxExp = 5
    Digits = 4
    Cut = 4
    Room = 5
    Lines <- MCLines
    MaxLines = 3
    MaxPrograms = 1
INVARIANTS
    TypeOK
    AnswersExact
    SumsWhole
    OnlyThreadsOvertaken
PROPERTIES
    SweepCompletes
    CommandsAnswered
    SessionOver
