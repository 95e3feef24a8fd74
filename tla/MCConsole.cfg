SPECIFICATION FairSpec
CONSTANTS
    Cols = 2
    Rows = 3
    Base = 4
    BufferSize = 4
    Starts <- MCStarts
    Greeting <- MCGreeting
    Prompts <- MCPrompts
    Codes <- MCCodes
    MaxCodes = 3
    Unhandled <- MCUnhandled
    MaxRequests = 2
INVARIANTS ScreenShowsPaper BackspaceStaysOnScreen LineIsWhatWasTyped
PROPERTY RequestsAreServed
CHECK_DEADLOCK FALSE
