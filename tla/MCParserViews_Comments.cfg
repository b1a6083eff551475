\* Documents with comment nodes and no enum: does the magic-numbers parser
\* accept what the Schema Parser accepts?
CONSTANTS
    None = None
    ParseError = ParseError
    Docs <- DocsComments
INIT Init
NEXT Next
INVARIANT MagicAcceptsWhatMainAccepts
CHECK_DEADLOCK FALSE
