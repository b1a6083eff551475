\* Both parsers over every document family: when both return a model,
\* the magic-numbers one is the restricted view of the Schema Parser's.
CONSTANTS
    None = None
    ParseError = ParseError
    Docs <- DocsAll
INIT Init
NEXT Next
INVARIANT SameModel
\* Each parse_wayland_xml returns or raises: both stop.
CHECK_DEADLOCK FALSE
