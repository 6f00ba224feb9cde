SPECIFICATION Spec
CONSTANTS
    CLIs = {c1}
    Reader = reader
    Kinds = {"threads", "stack", "scopes", "vars", "eval", "break"}
    Events = {"output", "stopped", "terminated"}
    Pasts = {TRUE, FALSE}
    MaxEvents = 1
SYMMETRY CLISymmetry
PROPERTIES PrintsItsAnswer TimesOutUnanswered
CHECK_DEADLOCK FALSE
