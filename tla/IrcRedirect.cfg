SPECIFICATION Spec
CONSTANTS
    Pattern <- Patterns
    CmdStart <- Starts
    CmdStop <- Stops
    CmdExtra <- Extras
    Unchecked = {}
    Answers <- ServerAnswersWith
    Target = {a, b}
    MaxCommands = 2
    MaxNoise = 1
    MaxTimeouts = 1
    MaxConnects = 2
SYMMETRY Symmetry
CHECK_DEADLOCK FALSE
INVARIANTS LinesWhole OwnAnswers AnswersWhole
