----------------------------- MODULE SchemaParser -----------------------------
(***************************************************************************)
(* The Schema Parser of generate_cxx_header_from_wayland_xml.py:           *)
(* parse_wayland_xml, remove_comment_nodes and parse_wl_protocol ...      *)
(* parse_wl_arg.                                                           *)
(*                                                                         *)
(* The loops of parse_wl_protocol (over interface nodes) and of           *)
(* parse_wl_interface (over the children of one interface, where the      *)
(* request and event opcode counters live) are steps of the state         *)
(* machine; the leaf parsers (request, event, enum, entry, arg) are pure   *)
(* operators, each the whole function.  An uncaught exception (assert,    *)
(* RuntimeError, KeyError, ValueError) ends the parse in pc = "error".    *)
(***************************************************************************)
EXTENDS WlDomain

CONSTANTS
    Docs,        \* the protocol documents the parser may be given
    ParseError   \* the result of a leaf parser that raised

VARIABLES
    xml,         \* the document as read, never changed
    root,        \* the lxml tree, edited in place by remove_comment_nodes
    pc,          \* "strip", "protocol", "interface", "child", "done", "error"
    nodeIdx,     \* index of the next protocol child parsed as an interface
    kidIdx,      \* index of the next child of the current interface node
    iface,       \* the locals of the running parse_wl_interface call
    interfaces,  \* parsed_interfaces built so far
    result       \* the wl_protocol returned, once pc = "done"

vars == <<xml, root, pc, nodeIdx, kidIdx, iface, interfaces, result>>

-----------------------------------------------------------------------------
(* remove_comment_nodes: every comment node, at any depth, is removed.    *)
RECURSIVE StripComments(_)
StripComments(n) ==
    [n EXCEPT !.kids = LET kept == SelectSeq(n.kids, LAMBDA c : c.tag # "comment")
                       IN [k \in DOMAIN kept |-> StripComments(kept[k])]]

(* int(text, 0): radix from the prefix; a decimal may not start with 0.   *)
IntBase0(lit) ==
    CASE lit.form \in {"dec", "hex"}       -> lit.val
      [] lit.form = "zdec" /\ lit.val = 0  -> 0
      [] OTHER                             -> ParseError

(* A node with zero or one child, the child a description.  This is the   *)
(* (description?) check of parse_wl_arg and parse_wl_enum_entry.          *)
AtMostOneDesc(n) ==
    Len(n.kids) = 0 \/ (Len(n.kids) = 1 /\ n.kids[1].tag = "description")

NoError(s) == \A k \in DOMAIN s : s[k] # ParseError

(* parse_wl_arg: a list of wl_arg, the untyped new_id preceded by two.    *)
ParseArg(n) ==
    IF n.tag # "arg" \/ ~AtMostOneDesc(n) \/ n.type \notin WireTypes
    THEN ParseError
    ELSE LET a == WlArg(n.name, n.type, n.iface, n.enum)
         IN IF n.type = "new_id" /\ n.iface = None
            THEN <<NewIdInterfaceArg, NewIdVersionArg, a>>
            ELSE <<a>>

(* parse_wl_event and parse_wl_request: any first child is parsed as the  *)
(* description, the rest as args, flattened.                              *)
ParseMessage(n) ==
    LET descOk  == Len(n.kids) = 0 \/ n.kids[1].tag = "description"
        argKids == IF Len(n.kids) >= 1 THEN Tail(n.kids) ELSE <<>>
        parsed  == [k \in DOMAIN argKids |-> ParseArg(argKids[k])]
    IN IF ~descOk \/ ~NoError(parsed) THEN ParseError
       ELSE [name |-> n.name, args |-> FlattenSeq(parsed)]

(* parse_wl_enum_entry: the entry's value as int(value, 0).               *)
ParseEntry(n) ==
    IF n.tag # "entry" \/ ~AtMostOneDesc(n) THEN ParseError
    ELSE IntBase0(n.value)

(* parse_wl_enum: a leading description only if its tag matches.          *)
ParseEnum(n) ==
    LET entryKids == IF Len(n.kids) >= 1 /\ n.kids[1].tag = "description"
                     THEN Tail(n.kids) ELSE n.kids
        entries   == [k \in DOMAIN entryKids |-> ParseEntry(entryKids[k])]
    IN IF ~NoError(entries) THEN ParseError
       ELSE [name |-> n.name, is_bitfield |-> n.bitfield, entries |-> entries]

-----------------------------------------------------------------------------
Init ==
    /\ xml \in Docs
    /\ root = xml
    /\ pc = "strip"
    /\ nodeIdx = 1
    /\ kidIdx = 1
    /\ iface = None
    /\ interfaces = <<>>
    /\ result = None

(* parse_wayland_xml: the comments are removed before parsing starts.     *)
RemoveCommentNodes ==
    /\ pc = "strip"
    /\ root' = StripComments(root)
    /\ pc' = "protocol"
    /\ UNCHANGED <<xml, nodeIdx, kidIdx, iface, interfaces, result>>

(* parse_wl_protocol up to the interface list: a copyright at index 0,   *)
(* counted only when its text is not None, then an optional description *)
(* at the index the copyright leaves.                                     *)
ParseProtocolHead ==
    /\ pc = "protocol"
    /\ root.tag = "protocol"
    /\ Len(root.kids) > 0
    /\ LET hasCopyright == root.kids[1].tag = "copyright" /\ root.kids[1].text
           descAt       == IF hasCopyright THEN 2 ELSE 1
           hasDesc      == descAt <= Len(root.kids) /\ root.kids[descAt].tag = "description"
       IN nodeIdx' = 1 + (IF hasCopyright THEN 1 ELSE 0) + (IF hasDesc THEN 1 ELSE 0)
    /\ pc' = "interface"
    /\ UNCHANGED <<xml, root, kidIdx, iface, interfaces, result>>

(* The assert on the tag, or "protocol xml node contains no children".    *)
ProtocolEmpty ==
    /\ pc = "protocol"
    /\ root.tag # "protocol" \/ Len(root.kids) = 0
    /\ pc' = "error"
    /\ UNCHANGED <<xml, root, nodeIdx, kidIdx, iface, interfaces, result>>

CurrentNode == root.kids[nodeIdx]

(* Entry of parse_wl_interface: the tag assert, the child count check,    *)
(* the description at index 0, the counters set to zero.                 *)
BeginInterface ==
    /\ pc = "interface"
    /\ nodeIdx <= Len(root.kids)
    /\ CurrentNode.tag = "interface"
    /\ Len(CurrentNode.kids) > 1
    /\ kidIdx' = IF CurrentNode.kids[1].tag = "description" THEN 2 ELSE 1
    /\ iface' = [requests |-> <<>>, events |-> <<>>, enums |-> <<>>,
                 request_opcode_counter |-> 0, event_opcode_counter |-> 0,
                 found_request_opcodes |-> <<>>, found_event_opcodes |-> <<>>]
    /\ pc' = "child"
    /\ UNCHANGED <<xml, root, nodeIdx, interfaces, result>>

(* The assert on the tag, or "interface xml node contains no children".    *)
InterfaceRejected ==
    /\ pc = "interface"
    /\ nodeIdx <= Len(root.kids)
    /\ CurrentNode.tag # "interface" \/ Len(CurrentNode.kids) <= 1
    /\ pc' = "error"
    /\ UNCHANGED <<xml, root, nodeIdx, kidIdx, iface, interfaces, result>>

CurrentChild == CurrentNode.kids[kidIdx]

(* What the loop body makes of the current child: a request or event is   *)
(* parsed, an enum is parsed, any other tag is skipped (None).            *)
ParsedChild ==
    CASE CurrentChild.tag \in {"request", "event"} -> ParseMessage(CurrentChild)
      [] CurrentChild.tag = "enum"                 -> ParseEnum(CurrentChild)
      [] OTHER                                     -> None

(* The append and the opcode of its own kind a parsed request or event    *)
(* takes, then the counter of that kind is incremented.                  *)
(* Mutant: the opcode recorded one below the counter.                    *)
AddRequestOffByOne(f, m) ==
    [f EXCEPT !.requests = Append(@, m),
              !.found_request_opcodes = Append(@, f.request_opcode_counter - 1),
              !.request_opcode_counter = @ + 1]
AddRequest(f, m) ==
    [f EXCEPT !.requests = Append(@, m),
              !.found_request_opcodes = Append(@, f.request_opcode_counter),
              !.request_opcode_counter = @ + 1]
(* Mutant: events numbered from the request counter.                     *)
AddEventSharedCounter(f, m) ==
    [f EXCEPT !.events = Append(@, m),
              !.found_event_opcodes = Append(@, f.request_opcode_counter),
              !.request_opcode_counter = @ + 1]
AddEvent(f, m) ==
    [f EXCEPT !.events = Append(@, m),
              !.found_event_opcodes = Append(@, f.event_opcode_counter),
              !.event_opcode_counter = @ + 1]
AddEnum(f, e) == [f EXCEPT !.enums = Append(@, e)]

(* One turn of the loop over non_desc_children.                          *)
ParseChild ==
    /\ pc = "child"
    /\ kidIdx <= Len(CurrentNode.kids)
    /\ ParsedChild # ParseError
    /\ iface' = CASE CurrentChild.tag = "request" -> AddRequest(iface, ParsedChild)
                   [] CurrentChild.tag = "event"   -> AddEvent(iface, ParsedChild)
                   [] CurrentChild.tag = "enum"    -> AddEnum(iface, ParsedChild)
                   [] OTHER                        -> iface
    /\ kidIdx' = kidIdx + 1
    /\ UNCHANGED <<xml, root, pc, nodeIdx, interfaces, result>>

(* A leaf parser raised inside the loop: the whole parse is abandoned.    *)
ChildRaises ==
    /\ pc = "child"
    /\ kidIdx <= Len(CurrentNode.kids)
    /\ ParsedChild = ParseError
    /\ pc' = "error"
    /\ UNCHANGED <<xml, root, nodeIdx, kidIdx, iface, interfaces, result>>

(* The return of parse_wl_interface, appended to parsed_interfaces.       *)
EndInterface ==
    /\ pc = "child"
    /\ kidIdx > Len(CurrentNode.kids)
    /\ interfaces' = Append(interfaces,
                       [name |-> CurrentNode.name, requests |-> iface.requests,
                        events |-> iface.events, enums |-> iface.enums,
                        request_opcodes |-> iface.found_request_opcodes,
                        event_opcodes |-> iface.found_event_opcodes])
    /\ nodeIdx' = nodeIdx + 1
    /\ pc' = "interface"
    /\ UNCHANGED <<xml, root, kidIdx, iface, result>>

(* The return of parse_wl_protocol.                                       *)
FinishProtocol ==
    /\ pc = "interface"
    /\ nodeIdx > Len(root.kids)
    /\ result' = [name |-> root.name, interfaces |-> interfaces]
    /\ pc' = "done"
    /\ UNCHANGED <<xml, root, nodeIdx, kidIdx, iface, interfaces>>

Next ==
    \/ RemoveCommentNodes
    \/ ParseProtocolHead
    \/ ProtocolEmpty
    \/ BeginInterface
    \/ InterfaceRejected
    \/ ParseChild
    \/ ChildRaises
    \/ EndInterface
    \/ FinishProtocol

Spec == Init /\ [][Next]_vars

-----------------------------------------------------------------------------
(* Properties.                                                             *)

TypeOK ==
    /\ pc \in {"strip", "protocol", "interface", "child", "done", "error"}
    /\ nodeIdx \in 1..(Len(root.kids) + 1)
    /\ kidIdx \in Nat \ {0}
    /\ interfaces \in Seq(WlInterfaces)
    /\ result \in WlProtocols \cup {None}

(* The outcome as the contract sees it: nothing yet, the model, or failure. *)
Outcome == CASE pc = "done"  -> result
             [] pc = "error" -> ParseError
             [] OTHER        -> None

Contract == INSTANCE ParserContract WITH model <- Outcome

(* Whenever parse_wayland_xml returns a wl_protocol, it is the one the     *)
(* spec's rules give the document: every request and event carries the   *)
(* opcode of its position among siblings of its kind, every untyped       *)
(* new_id arg is preceded by exactly the interface-name and version args, *)
(* entry values are the literal's value, comments are ignored.            *)
ImplementsContract == Contract!Spec

(* parse_wayland_xml raises only on a document that breaks the grammar    *)
(* and the structural rules of spec.md 4.1 and 6.                         *)
AcceptsWellFormed == pc = "error" => ~Contract!WellFormed(xml)

=============================================================================
