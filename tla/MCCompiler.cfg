\* Parse then emit, over every document family: a header is written only
\* for a non-empty protocol, and carries the document's messages in order.
CONSTANTS
    None = None
    ParseError = ParseError
    Docs <- DocsAll
INIT Init
NEXT Next
INVARIANT HeaderOnlyForNonEmpty
INVARIANT MessagesMatchDocument
\* The pipeline returns or raises: it stops.
CHECK_DEADLOCK FALSE
