\* The two-pass emitter over every protocol model: forward references are
\* always declared first and a written header defines everything once.
CONSTANTS
    None = None
    Protocols <- ProtocolsAll
INIT Init
NEXT Next
INVARIANT DeclaredBeforeUse
INVARIANT EveryEntityDefinedOnce
\* write_cxx_header returns or raises: it stops.
CHECK_DEADLOCK FALSE
