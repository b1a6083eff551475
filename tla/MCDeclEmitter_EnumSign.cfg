\* Does every enum-typed member have the signedness of its wire type?
CONSTANTS
    None = None
    Protocols <- ProtocolsAll
INIT Init
NEXT Next
INVARIANT EnumMemberMatchesWire
CHECK_DEADLOCK FALSE
