------------------------------- MODULE Compiler -------------------------------
(***************************************************************************)
(* One document through the whole pipeline:                                *)
(* parse_wayland_xml(xml).write_cxx_header(...), the call the driver makes *)
(* for every document it finds.  The Schema Parser runs to its end; when   *)
(* it returns a model, the Declaration Emitter runs on that model.         *)
(***************************************************************************)
EXTENDS TypeMapper

CONSTANTS Docs, ParseError

VARIABLES
    xml, root, pc, nodeIdx, kidIdx, iface, interfaces, result,   \* parser
    proto, epc, i, content, file                                 \* emitter

pvars == <<xml, root, pc, nodeIdx, kidIdx, iface, interfaces, result>>
evars == <<proto, epc, i, content, file>>
vars  == <<pvars, evars>>

P == INSTANCE SchemaParser
E == INSTANCE DeclEmitter WITH Protocols <- WlProtocols
C == INSTANCE ParserContract WITH model <- result

Init ==
    /\ P!Init
    /\ proto = None
    /\ epc = "idle"
    /\ i = 1
    /\ content = <<>>
    /\ file = None

(* The method call on what parse_wayland_xml returned; an exception in the *)
(* parse never reaches it.                                                 *)
CallWriteHeader ==
    /\ pc = "done"
    /\ epc = "idle"
    /\ proto' = result
    /\ epc' = "begin"
    /\ UNCHANGED <<pvars, i, content, file>>

Next ==
    \/ P!Next /\ UNCHANGED evars
    \/ CallWriteHeader
    \/ E!Next /\ UNCHANGED pvars

Spec == Init /\ [][Next]_vars

-----------------------------------------------------------------------------
(* Properties.                                                             *)

(* spec.md 4.3 and 7: a protocol with no interface, or an enum with no    *)
(* entry, is a fatal error and no header is written for it.  The parser   *)
(* lets both through; the emitter's checks must stop them.               *)
HeaderOnlyForNonEmpty ==
    file # None =>
        LET ifs == C!WithTag(xml, "interface")
        IN /\ ifs # <<>>
           /\ \A f \in Range(ifs) : \A e \in Range(C!WithTag(f, "enum")) :
                 C!WithTag(e, "entry") # <<>>

(* The message definitions the document's interface f should produce, in *)
(* order: each request (then each event) with the opcode of its position *)
(* among its kind and one member per arg after new_id expansion.         *)
ExpectedDefs(f, kind) ==
    LET ms == C!WithTag(f, kind)
    IN [k \in DOMAIN ms |->
          LET args == C!ExpectedMessage(ms[k]).args
          IN [k |-> "msgdef", name |-> <<f.name, kind, ms[k].name>>, opcode |-> k - 1,
              members |-> [n \in DOMAIN args |->
                             [type |-> MemberType(f.name, args[n]), wire |-> args[n].arg_type]]]]

(* spec.md 8: in a written header, the request definitions of every       *)
(* interface are exactly its requests in document order with opcodes      *)
(* 0..N-1, and likewise and independently the events; the members of each *)
(* follow the args, the string and uint synthesized for an untyped new_id *)
(* right before it.                                                        *)
MessagesMatchDocument ==
    file # None =>
        LET ifs == C!WithTag(xml, "interface")
        IN SelectSeq(file, LAMBDA it : it.k = "msgdef")
             = FlattenSeq([j \in DOMAIN ifs |->
                             ExpectedDefs(ifs[j], "request") \o ExpectedDefs(ifs[j], "event")])

=============================================================================
