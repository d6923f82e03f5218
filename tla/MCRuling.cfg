SPECIFICATION RulingSpec
CONSTANTS
    Missing = Missing
    Patterns = {"*"}
    Inputs <- MCInputs
INVARIANTS AutomaticIsEarned
PROPERTIES StricterNeverOpens
