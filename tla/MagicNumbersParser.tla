-------------------------- MODULE MagicNumbersParser --------------------------
(***************************************************************************)
(* The second parser: src/include/wayland/generate_protocol_magic_numbers *)
(* .py, parse_wayland_xml ... parse_wl_arg.  It builds the same dataclass *)
(* tree as the Schema Parser but                                           *)
(*   - leaves comment nodes in the tree (no remove_comment_nodes),        *)
(*   - assigns no opcodes and does not expand an untyped new_id,          *)
(*   - parses an entry value with int(value), base 10,                    *)
(*   - takes an enum with more than one child node as an error.           *)
(* The list comprehension over interface nodes is a step per node; the    *)
(* functions it calls are pure operators, each the whole function.        *)
(***************************************************************************)
EXTENDS WlDomain

CONSTANTS
    Docs,        \* the protocol documents the parser may be given
    ParseError   \* the result of a function that raised

VARIABLES
    xml,         \* the tree ET.fromstring builds, comments included
    pc,          \* "protocol", "interface", "done", "error"
    nodeIdx,     \* index of the next protocol child parsed as an interface
    interfaces,  \* parsed_interfaces built so far
    result       \* the wl_protocol returned, once pc = "done"

vars == <<xml, pc, nodeIdx, interfaces, result>>

-----------------------------------------------------------------------------
(* int(value): a decimal, leading zeros allowed; "0x.." is a ValueError.  *)
IntBase10(lit) == IF lit.form \in {"dec", "zdec"} THEN lit.val ELSE ParseError

(* len(node) == 0, or len(node) == 1 and parse_wl_description's assert on *)
(* node[0] holds; more children is "contained more than one children".    *)
AtMostOneDesc(n) ==
    Len(n.kids) = 0 \/ (Len(n.kids) = 1 /\ n.kids[1].tag = "description")

NoError(s) == \A k \in DOMAIN s : s[k] # ParseError

(* The slice node[int(parsed_desc is not None):].                         *)
AfterDesc(n) ==
    IF Len(n.kids) >= 1 /\ n.kids[1].tag = "description" THEN Tail(n.kids) ELSE n.kids

(* parse_wl_arg: exactly one wl_arg, whatever its type.                   *)
ParseArg(n) ==
    IF n.tag # "arg" \/ ~AtMostOneDesc(n) \/ n.type \notin WireTypes
    THEN ParseError
    ELSE WlArg(n.name, n.type, n.iface, n.enum)

(* parse_wl_event and parse_wl_request: any first child is parsed as the  *)
(* description (the assert rejects another tag), the rest as args.        *)
ParseMessage(n) ==
    LET argKids == IF Len(n.kids) >= 1 THEN Tail(n.kids) ELSE <<>>
        parsed  == [k \in DOMAIN argKids |-> ParseArg(argKids[k])]
    IN IF (Len(n.kids) >= 1 /\ n.kids[1].tag # "description") \/ ~NoError(parsed)
       THEN ParseError
       ELSE [name |-> n.name, args |-> parsed]

(* parse_wl_enum_entry.                                                    *)
ParseEntry(n) ==
    IF n.tag # "entry" \/ ~AtMostOneDesc(n) THEN ParseError ELSE IntBase10(n.value)

(* parse_wl_enum: the child-count check of an arg applied to the enum     *)
(* itself, then every node after the description parsed as an entry.     *)
ParseEnum(n) ==
    LET entryKids == AfterDesc(n)
        entries   == [k \in DOMAIN entryKids |-> ParseEntry(entryKids[k])]
    IN IF n.tag # "enum" \/ ~AtMostOneDesc(n) \/ ~NoError(entries) THEN ParseError
       ELSE [name |-> n.name, is_bitfield |-> n.bitfield, entries |-> entries]

(* The children the loop appends to the list of one kind, in order.      *)
OfKind(kids, tag) == SelectSeq(kids, LAMBDA c : c.tag = tag)

(* Mutant: the loop started at node[1] whether or not node[0] is the    *)
(* description.                                                           *)
NonDescChildrenFromOne(n) == Tail(n.kids)

(* non_desc_children of parse_wl_interface.                              *)
NonDescChildren(n) == AfterDesc(n)

(* parse_wl_interface: the tag assert, "contains no children" for fewer   *)
(* than two child nodes (comments count), then the loop over the nodes    *)
(* after a leading description; other tags are skipped.                  *)
ParseInterface(n) ==
    LET kids     == NonDescChildren(n)
        reqs     == OfKind(kids, "request")
        evs      == OfKind(kids, "event")
        ens      == OfKind(kids, "enum")
        requests == [k \in DOMAIN reqs |-> ParseMessage(reqs[k])]
        events   == [k \in DOMAIN evs |-> ParseMessage(evs[k])]
        enums    == [k \in DOMAIN ens |-> ParseEnum(ens[k])]
    IN IF n.tag # "interface" \/ Len(n.kids) <= 1
          \/ ~NoError(requests \o events \o enums)
       THEN ParseError
       ELSE [name |-> n.name, requests |-> requests, events |-> events, enums |-> enums]

-----------------------------------------------------------------------------
(* parse_wayland_xml: ET.fromstring, nothing removed.                      *)
Init ==
    /\ xml \in Docs
    /\ pc = "protocol"
    /\ nodeIdx = 1
    /\ interfaces = <<>>
    /\ result = None

(* parse_wl_protocol up to the comprehension: a copyright at index 0,     *)
(* counted only when its text is not None; the description is looked for *)
(* only when there are two or more nodes.                                 *)
ParseProtocolHead ==
    /\ pc = "protocol"
    /\ xml.tag = "protocol"
    /\ Len(xml.kids) > 0
    /\ LET hasCopyright == xml.kids[1].tag = "copyright" /\ xml.kids[1].text
           descAt       == IF hasCopyright THEN 2 ELSE 1
           hasDesc      == Len(xml.kids) > 1 /\ xml.kids[descAt].tag = "description"
       IN nodeIdx' = 1 + (IF hasCopyright THEN 1 ELSE 0) + (IF hasDesc THEN 1 ELSE 0)
    /\ pc' = "interface"
    /\ UNCHANGED <<xml, interfaces, result>>

(* The assert on the tag, or "protocol xml node contains no children".    *)
ProtocolEmpty ==
    /\ pc = "protocol"
    /\ xml.tag # "protocol" \/ Len(xml.kids) = 0
    /\ pc' = "error"
    /\ UNCHANGED <<xml, nodeIdx, interfaces, result>>

(* One element of [parse_wl_interface(x) for x in node[...:]].           *)
ParseInterfaceNode ==
    /\ pc = "interface"
    /\ nodeIdx <= Len(xml.kids)
    /\ ParseInterface(xml.kids[nodeIdx]) # ParseError
    /\ interfaces' = Append(interfaces, ParseInterface(xml.kids[nodeIdx]))
    /\ nodeIdx' = nodeIdx + 1
    /\ UNCHANGED <<xml, pc, result>>

(* parse_wl_interface raised: the exception leaves parse_wayland_xml.     *)
InterfaceRejected ==
    /\ pc = "interface"
    /\ nodeIdx <= Len(xml.kids)
    /\ ParseInterface(xml.kids[nodeIdx]) = ParseError
    /\ pc' = "error"
    /\ UNCHANGED <<xml, nodeIdx, interfaces, result>>

(* The return of parse_wl_protocol.                                       *)
FinishProtocol ==
    /\ pc = "interface"
    /\ nodeIdx > Len(xml.kids)
    /\ result' = [name |-> xml.name, interfaces |-> interfaces]
    /\ pc' = "done"
    /\ UNCHANGED <<xml, nodeIdx, interfaces>>

Next ==
    \/ ParseProtocolHead
    \/ ProtocolEmpty
    \/ ParseInterfaceNode
    \/ InterfaceRejected
    \/ FinishProtocol

Spec == Init /\ [][Next]_vars

=============================================================================
