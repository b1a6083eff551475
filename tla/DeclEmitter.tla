------------------------------ MODULE DeclEmitter ------------------------------
(***************************************************************************)
(* The Declaration Emitter: wl_protocol.write_cxx_header and the          *)
(* as_cxx_* methods it calls.                                              *)
(*                                                                         *)
(* The header text is kept as the sequence of declarations it contains,   *)
(* in the order they are appended to `content`; banners, comments,        *)
(* namespaces and layout are left out.  A declaration item is a record    *)
(* with a kind k and the qualified name it declares or defines:           *)
(*   "struct"   struct I { ... };                 name <<I>>               *)
(*   "enum"     enum class E : U;   (in I)        name <<I, E>>            *)
(*   "msg"      struct M;   (in I::request/event) name <<I, kind, M>>      *)
(*   "enumdef"  enum class I::E : U { entries };  name <<I, E>>            *)
(*   "msgdef"   struct I::kind::M { opcode; members };                     *)
(*                                                name <<I, kind, M>>      *)
(* Pass 1 and pass 2 are the two loops over interfaces; each turn of a    *)
(* loop (one as_cxx_... call) is one step.  The file is opened and        *)
(* written only after both loops.                                          *)
(***************************************************************************)
EXTENDS TypeMapper

CONSTANTS
    Protocols    \* the wl_protocol values write_cxx_header may be called on

VARIABLES
    proto,       \* self: the wl_protocol being written
    epc,         \* "begin", "pass1", "pass2", "written", "error"
    i,           \* index of the interface the running loop is at
    content,     \* the declaration items appended to `content` so far
    file         \* None, or the items written to <name>_protocol.hpp

vars == <<proto, epc, i, content, file>>

-----------------------------------------------------------------------------
(* as_cxx_enum_class_decleration and as_cxx_member_struct_decleration.   *)
EnumDecl(iname, e)  == [k |-> "enum", name |-> <<iname, e.name>>, under |-> UnderlyingType(e)]
MsgDecl(iname, kind, m) == [k |-> "msg", name |-> <<iname, kind, m.name>>]

(* as_cxx_struct_without_definitions: the enum declarations, then the     *)
(* request struct's and the event struct's member declarations.           *)
Skeleton(f) ==
    <<[k |-> "struct", name |-> <<f.name>>]>>
    \o [n \in DOMAIN f.enums |-> EnumDecl(f.name, f.enums[n])]
    \o [n \in DOMAIN f.requests |-> MsgDecl(f.name, "request", f.requests[n])]
    \o [n \in DOMAIN f.events |-> MsgDecl(f.name, "event", f.events[n])]

(* as_cxx_enum_class_definition, its entries in order.                    *)
EnumDef(iname, e) ==
    [k |-> "enumdef", name |-> <<iname, e.name>>, under |-> UnderlyingType(e),
     entries |-> e.entries]

(* as_cxx_member_struct_definition: the opcode constant, then one data    *)
(* member per arg, in order, typed by as_cxx_data_member.  A member keeps *)
(* the wire type of its arg, which its C++ type stands for on the wire.  *)
MsgDef(iname, kind, m, opcode) ==
    [k |-> "msgdef", name |-> <<iname, kind, m.name>>, opcode |-> opcode,
     members |-> [n \in DOMAIN m.args |->
                    [type |-> MemberType(iname, m.args[n]), wire |-> m.args[n].arg_type]]]

(* Mutant: one message fewer than zip() pairs.                          *)
ZippedShort(ops, msgs) == 1..((IF Len(ops) < Len(msgs) THEN Len(ops) ELSE Len(msgs)) - 1)

(* zip(opcodes, messages): as long as the shorter of the two.             *)
Zipped(ops, msgs) == 1..(IF Len(ops) < Len(msgs) THEN Len(ops) ELSE Len(msgs))

(* Mutant: the events zipped with the request opcodes.                   *)
DefinitionsEventsWithRequestOpcodes(f) ==
    [n \in DOMAIN f.enums |-> EnumDef(f.name, f.enums[n])]
    \o [n \in Zipped(f.request_opcodes, f.requests) |->
          MsgDef(f.name, "request", f.requests[n], f.request_opcodes[n])]
    \o [n \in Zipped(f.request_opcodes, f.events) |->
          MsgDef(f.name, "event", f.events[n], f.request_opcodes[n])]

(* as_cxx_definitions: every enum, then every request, then every event.  *)
Definitions(f) ==
    [n \in DOMAIN f.enums |-> EnumDef(f.name, f.enums[n])]
    \o [n \in Zipped(f.request_opcodes, f.requests) |->
          MsgDef(f.name, "request", f.requests[n], f.request_opcodes[n])]
    \o [n \in Zipped(f.event_opcodes, f.events) |->
          MsgDef(f.name, "event", f.events[n], f.event_opcodes[n])]

(* Mutant: the empty-enum check left out.                                *)
DefinitionsNeverRaise(f) == FALSE

(* as_cxx_enum_class_definition raises "has no entries!".                 *)
DefinitionsRaise(f) == \E n \in DOMAIN f.enums : f.enums[n].entries = <<>>

-----------------------------------------------------------------------------
Init ==
    /\ proto \in Protocols
    /\ epc = "begin"
    /\ i = 1
    /\ content = <<>>
    /\ file = None

(* Mutant: the header file opened with "w", and so created or emptied,    *)
(* before the content is generated.                                        *)
BeginHeaderOpensFile ==
    /\ epc = "begin"
    /\ Len(proto.interfaces) > 0
    /\ epc' = "pass1"
    /\ file' = <<>>
    /\ UNCHANGED <<proto, i, content>>

(* write_cxx_header up to the first loop: banner, includes and namespaces *)
(* (left out), then the check for interfaces.                             *)
BeginHeader ==
    /\ epc = "begin"
    /\ Len(proto.interfaces) > 0
    /\ epc' = "pass1"
    /\ UNCHANGED <<proto, i, content, file>>

(* "Protocol ... has no interfaces!"                                       *)
NoInterfaces ==
    /\ epc = "begin"
    /\ Len(proto.interfaces) = 0
    /\ epc' = "error"
    /\ UNCHANGED <<proto, i, content, file>>

(* Mutant: one loop emitting each interface's skeleton and definitions.  *)
EmitSkeletonAndDefinitions ==
    /\ epc = "pass1"
    /\ i <= Len(proto.interfaces)
    /\ content' = content \o Skeleton(proto.interfaces[i]) \o Definitions(proto.interfaces[i])
    /\ i' = i + 1
    /\ UNCHANGED <<proto, epc, file>>

(* One turn of the first loop.                                            *)
EmitSkeleton ==
    /\ epc = "pass1"
    /\ i <= Len(proto.interfaces)
    /\ content' = content \o Skeleton(proto.interfaces[i])
    /\ i' = i + 1
    /\ UNCHANGED <<proto, epc, file>>

(* The first loop is done: the second starts at the first interface.    *)
EndPass1 ==
    /\ epc = "pass1"
    /\ i > Len(proto.interfaces)
    /\ epc' = "pass2"
    /\ i' = 1
    /\ UNCHANGED <<proto, content, file>>

(* One turn of the second loop.                                           *)
EmitDefinitions ==
    /\ epc = "pass2"
    /\ i <= Len(proto.interfaces)
    /\ ~DefinitionsRaise(proto.interfaces[i])
    /\ content' = content \o Definitions(proto.interfaces[i])
    /\ i' = i + 1
    /\ UNCHANGED <<proto, epc, file>>

(* The RuntimeError escapes write_cxx_header before the file is opened.   *)
EmptyEnum ==
    /\ epc = "pass2"
    /\ i <= Len(proto.interfaces)
    /\ DefinitionsRaise(proto.interfaces[i])
    /\ epc' = "error"
    /\ UNCHANGED <<proto, i, content, file>>

(* The namespace closers, then open(filename, "w") and file.write.        *)
WriteHeader ==
    /\ epc = "pass2"
    /\ i > Len(proto.interfaces)
    /\ file' = content
    /\ epc' = "written"
    /\ UNCHANGED <<proto, i, content>>

Next ==
    \/ BeginHeader
    \/ NoInterfaces
    \/ EmitSkeleton
    \/ EndPass1
    \/ EmitDefinitions
    \/ EmptyEnum
    \/ WriteHeader

Spec == Init /\ [][Next]_vars

-----------------------------------------------------------------------------
(* Properties.                                                             *)

(* The names a declaration item declares, and the names a definition item *)
(* uses: the name it defines, the interface of a Wobject<I>/Wnew_id<I>    *)
(* member, the enum of an enum-typed member.                              *)
Declares(item) == IF item.k \in {"struct", "enum", "msg"} THEN {item.name} ELSE {}
TypeRef(t) ==
    IF "enum" \in DOMAIN t THEN {t.enum}
    ELSE IF t.param \in {None, ""} THEN {} ELSE {<<t.param>>}
Uses(item) ==
    CASE item.k = "enumdef" -> {item.name}
      [] item.k = "msgdef"  -> {item.name} \cup UNION {TypeRef(item.members[n].type) : n \in DOMAIN item.members}
      [] OTHER              -> {}

(* Every name this protocol's header is to declare (spec.md 4.3).         *)
ProtocolNames ==
    UNION { {<<f.name>>} \cup {<<f.name, e.name>> : e \in Range(f.enums)}
            \cup {<<f.name, "request", m.name>> : m \in Range(f.requests)}
            \cup {<<f.name, "event", m.name>> : m \in Range(f.events)}
          : f \in Range(proto.interfaces) }

(* No definition in the header uses a name of this protocol before the    *)
(* header has declared it: struct I::request::M comes after "struct M;"   *)
(* inside I, enum class I::E { } after "enum class E : U;", and a member  *)
(* of type Wobject<J> or J::E comes after J's skeleton, whatever the      *)
(* order of I and J in the document.  This is the two-pass design of      *)
(* write_cxx_header.                                                       *)
DeclaredBeforeUse ==
    \A q \in DOMAIN content :
        \A n \in Uses(content[q]) \cap ProtocolNames :
            \E p \in 1..(q - 1) : n \in Declares(content[p])

(* A written header defines every enum, request and event of the protocol *)
(* exactly once: no interface's definitions are lost to an early write,   *)
(* a failed loop turn or zip() truncating the message list.              *)
DefinitionCount(name) ==
    Cardinality({q \in DOMAIN file : file[q].k \in {"enumdef", "msgdef"} /\ file[q].name = name})
EveryEntityDefinedOnce ==
    file # None =>
        \A n \in ProtocolNames : Len(n) > 1 => DefinitionCount(n) = 1

(* An enum-typed member, whose enum the header declares, stands on the     *)
(* wire for an arg of the enum's own signedness: the underlying type of   *)
(* the enum (Wuint for a bitfield, Wint otherwise, wl_enum.underlying_type) *)
(* is the wrapper of the arg's wire type (spec.md 3: "this must match the *)
(* type used wherever the enum is referenced").                            *)
EnumMemberMatchesWire ==
    \A q, p \in DOMAIN content :
        (content[q].k = "msgdef" /\ content[p].k = "enum") =>
            \A n \in DOMAIN content[q].members :
                content[q].members[n].type = [enum |-> content[p].name] =>
                    content[p].under = CxxWtype(content[q].members[n].wire, None)

=============================================================================
