\* as_sphinx_comment on every description text of up to 5 characters.
CONSTANTS
    None = None
    Bodies <- TextsUpTo5
INIT Init
NEXT Next
INVARIANT CommentMatchesSpec
\* One call returns: the model stops.
CHECK_DEADLOCK FALSE
