------------------------------ MODULE WlDomain ------------------------------
(***************************************************************************)
(* The two data structures the compiler hands from stage to stage.        *)
(*                                                                         *)
(* 1. The markup tree lxml builds from a protocol document: the input of  *)
(*    the Schema Parser.  A node is a record with a tag, the attributes    *)
(*    the parser reads, and the sequence of its element children.         *)
(* 2. The domain model (the dataclasses wl_protocol ... wl_arg) that the   *)
(*    parser builds and the Declaration Emitter reads.                     *)
(*                                                                         *)
(* Free text (summaries, description bodies, copyright text) is abstracted *)
(* to the presence of its node; since-versions and allow-null are left out *)
(* because nothing downstream of the parser branches on them.             *)
(***************************************************************************)
EXTENDS Naturals, Sequences, SequencesExt

CONSTANT None     \* Python's None: an absent attribute or optional field

(* The closed set of wire-type keywords of <arg type="...">, wl_arg_type. *)
WireTypes == {"int", "uint", "fixed", "string", "object", "new_id", "array", "fd"}

-----------------------------------------------------------------------------
(* Markup tree nodes.                                                      *)

Desc      == [tag |-> "description", kids |-> <<>>]
Copyright == [tag |-> "copyright", text |-> TRUE, kids |-> <<>>]
EmptyCopyright == [tag |-> "copyright", text |-> FALSE, kids |-> <<>>]  \* <copyright/>: .text is None
Comment   == [tag |-> "comment", kids |-> <<>>]   \* an XML <!-- --> node

(* enum="..." is kept as its dot-separated segments: "wl_output.transform" *)
(* is <<"wl_output", "transform">>, a bare "mode" is <<"mode">>.           *)
ArgNode(name, type, iface, enum, kids) ==
    [tag |-> "arg", name |-> name, type |-> type, iface |-> iface,
     enum |-> enum, kids |-> kids]

(* An integer literal of value="...": its lexical form and its value.     *)
(* "dec" is "5", "hex" is "0x5", "zdec" a decimal with a leading zero      *)
(* such as "05", "junk" no integer at all.                                 *)
Literal(form, val) == [form |-> form, val |-> val]

EntryNode(value, kids)          == [tag |-> "entry", value |-> value, kids |-> kids]
EnumNode(name, bitfield, kids)  == [tag |-> "enum", name |-> name, bitfield |-> bitfield, kids |-> kids]
MsgNode(tag, name, kids)        == [tag |-> tag, name |-> name, kids |-> kids]
IfaceNode(name, kids)           == [tag |-> "interface", name |-> name, kids |-> kids]
ProtocolNode(name, kids)        == [tag |-> "protocol", name |-> name, kids |-> kids]

-----------------------------------------------------------------------------
(* Domain model records, with the dataclasses' field names.               *)

WlArg(name, type, iface, enum) ==
    [name |-> name, arg_type |-> type, interface |-> iface, enum |-> enum]

(* The two arguments parse_wl_arg puts before a new_id with no interface. *)
NewIdInterfaceArg == WlArg("new_id_interface", "string", None, None)
NewIdVersionArg   == WlArg("new_id_interface_version", "uint", None, None)

(* The sets the model's records range over (the dataclasses' fields).    *)
WlArgs       == [name : STRING, arg_type : WireTypes, interface : STRING \cup {None},
                 enum : Seq(STRING) \cup {None}]
WlMessages   == [name : STRING, args : Seq(WlArgs)]
WlEnums      == [name : STRING, is_bitfield : BOOLEAN, entries : Seq(Nat)]
WlInterfaces == [name : STRING, requests : Seq(WlMessages), events : Seq(WlMessages),
                 enums : Seq(WlEnums), request_opcodes : Seq(Nat), event_opcodes : Seq(Nat)]
WlProtocols  == [name : STRING, interfaces : Seq(WlInterfaces)]

=============================================================================
