\* Interfaces of one to four members, with and without a description:
\* are all the well-formed ones accepted?
CONSTANTS
    None = None
    ParseError = ParseError
    Docs <- DocsMembers
INIT Init
NEXT Next
INVARIANT AcceptsWellFormed
CHECK_DEADLOCK FALSE
