\* A failing staging document, all other headers distinct: does the set
\* of headers a run leaves depend on the set's iteration order?
CONSTANTS
    None = None
    ParseError = ParseError
    Kinds <- KindsAll
    Repo <- RepoDistinct
SPECIFICATION Spec
INVARIANT OrderIndependent
CHECK_DEADLOCK FALSE
