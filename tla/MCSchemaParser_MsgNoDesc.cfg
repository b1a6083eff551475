\* Messages with args, with and without a description: are all the
\* well-formed ones accepted?
CONSTANTS
    None = None
    ParseError = ParseError
    Docs <- DocsArgs
INIT Init
NEXT Next
INVARIANT AcceptsWellFormed
CHECK_DEADLOCK FALSE
