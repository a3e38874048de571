\* Every way to cut short texts into chunks, and every order of the threads.
\* The call ends (property Returns): there is no step after that.
CONSTANTS
    CR = CR  LF = LF
    Tools <- MCTools
    Char <- MCChar
    NewLines = {CR, LF}
    PipeSize = 3
    ReadSize = 3
    Prompt = Prompt
    NoThread = NoThread
SPECIFICATION Spec
INVARIANTS TypeOK LinesAreHeard ScreenShowsText
PROPERTY Returns
CHECK_DEADLOCK FALSE
