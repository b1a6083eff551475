\* One enum of every shape: does the magic-numbers parser accept every
\* document the Schema Parser accepts?
CONSTANTS
    None = None
    ParseError = ParseError
    Docs <- DocsEnums
INIT Init
NEXT Next
INVARIANT MagicAcceptsWhatMainAccepts
CHECK_DEADLOCK FALSE
