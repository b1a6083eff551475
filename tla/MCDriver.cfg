\* main over every non-empty choice of kinds and every order of the set,
\* each document run through the parser and the emitter: the destination
\* directory matches the documents whose call returned at every step.
CONSTANTS
    None = None
    ParseError = ParseError
    Kinds <- KindsAll
    Repo <- RepoWithDuplicate
SPECIFICATION Spec
INVARIANT HeadersMatchProcessed
\* main returns or raises: it stops.
CHECK_DEADLOCK FALSE
