---------------------------- MODULE ParserContract ----------------------------
(***************************************************************************)
(* What the Schema Parser promises (spec.md 4.1, 6), stated without any   *)
(* of its loops: in one step the parse either fails or yields the domain  *)
(* model that the spec's rules give the document.  Never a partial model. *)
(*                                                                         *)
(*  - comments are not part of the document;                              *)
(*  - requests are numbered 0, 1, 2, ... in document order, and so,       *)
(*    independently, are events; enums take no opcode;                    *)
(*  - a new_id arg without an interface is preceded by exactly a string   *)
(*    arg and a uint arg;                                                  *)
(*  - an entry value honours decimal and 0x-prefixed hexadecimal.         *)
(*                                                                         *)
(* WellFormed is the document grammar of spec.md 6 and the structural     *)
(* errors of spec.md 4.1: the documents a parse must not reject.          *)
(***************************************************************************)
EXTENDS WlDomain

CONSTANTS Docs, ParseError

VARIABLES xml, model

Content(n) == SelectSeq(n.kids, LAMBDA c : c.tag # "comment")
WithTag(n, t) == SelectSeq(Content(n), LAMBDA c : c.tag = t)

Expand(a) ==
    LET arg == WlArg(a.name, a.type, a.iface, a.enum)
    IN IF a.type = "new_id" /\ a.iface = None
       THEN <<NewIdInterfaceArg, NewIdVersionArg, arg>>
       ELSE <<arg>>

ExpectedMessage(n) ==
    LET argNodes == WithTag(n, "arg")
    IN [name |-> n.name,
        args |-> FlattenSeq([k \in DOMAIN argNodes |-> Expand(argNodes[k])])]

ExpectedEnum(n) ==
    LET entryNodes == WithTag(n, "entry")
    IN [name |-> n.name, is_bitfield |-> n.bitfield,
        entries |-> [k \in DOMAIN entryNodes |-> entryNodes[k].value.val]]

ExpectedInterface(n) ==
    LET reqs == WithTag(n, "request")
        evs  == WithTag(n, "event")
        ens  == WithTag(n, "enum")
    IN [name |-> n.name,
        requests |-> [k \in DOMAIN reqs |-> ExpectedMessage(reqs[k])],
        events |-> [k \in DOMAIN evs |-> ExpectedMessage(evs[k])],
        enums |-> [k \in DOMAIN ens |-> ExpectedEnum(ens[k])],
        request_opcodes |-> [k \in DOMAIN reqs |-> k - 1],
        event_opcodes |-> [k \in DOMAIN evs |-> k - 1]]

Expected(doc) ==
    LET ifs == WithTag(doc, "interface")
    IN [name |-> doc.name,
        interfaces |-> [k \in DOMAIN ifs |-> ExpectedInterface(ifs[k])]]

-----------------------------------------------------------------------------
(* The grammar: an optional description, then well-formed X nodes only. *)
DescThen(n, Ok(_)) ==
    LET body == IF Len(Content(n)) >= 1 /\ Content(n)[1].tag = "description"
                THEN Tail(Content(n)) ELSE Content(n)
    IN \A k \in DOMAIN body : Ok(body[k])

ArgOk(a)   == a.tag = "arg" /\ a.type \in WireTypes /\ DescThen(a, LAMBDA c : FALSE)
EntryOk(e) == e.tag = "entry" /\ e.value.form \in {"dec", "hex", "zdec"}
              /\ DescThen(e, LAMBDA c : FALSE)
MemberOk(m) ==
    \/ m.tag \in {"request", "event"} /\ DescThen(m, ArgOk)
    \/ m.tag = "enum" /\ WithTag(m, "entry") # <<>> /\ DescThen(m, EntryOk)
InterfaceOk(i) ==
    /\ i.tag = "interface"
    /\ \E k \in DOMAIN Content(i) : Content(i)[k].tag \in {"request", "event", "enum"}
    /\ DescThen(i, MemberOk)

(* copyright?, description?, interface+                                    *)
WellFormed(doc) ==
    LET c  == Content(doc)
        h1 == IF Len(c) >= 1 /\ c[1].tag = "copyright" THEN 1 ELSE 0
        h2 == IF Len(c) > h1 /\ c[h1 + 1].tag = "description" THEN 1 ELSE 0
        ifs == SubSeq(c, h1 + h2 + 1, Len(c))
    IN /\ ifs # <<>>
       /\ \A k \in DOMAIN ifs : InterfaceOk(ifs[k])

-----------------------------------------------------------------------------
Init == xml \in Docs /\ model = None

Produce == model = None /\ model' = Expected(xml) /\ UNCHANGED xml

Fail == model = None /\ model' = ParseError /\ UNCHANGED xml

Spec == Init /\ [][Produce \/ Fail]_<<xml, model>>

=============================================================================
