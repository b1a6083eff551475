\* The Schema Parser over every document family: the result, when there is
\* one, is the model the spec's rules give the document.
CONSTANTS
    None = None
    ParseError = ParseError
    Docs <- DocsAll
INIT Init
NEXT Next
INVARIANT TypeOK
PROPERTY ImplementsContract
\* parse_wayland_xml returns or raises: it stops.
CHECK_DEADLOCK FALSE
