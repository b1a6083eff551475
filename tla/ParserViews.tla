------------------------------ MODULE ParserViews ------------------------------
(***************************************************************************)
(* The two parsers of the repository run on the same document:             *)
(* parse_wayland_xml of generate_cxx_header_from_wayland_xml.py (the       *)
(* Schema Parser) and parse_wayland_xml of                                 *)
(* generate_protocol_magic_numbers.py.  spec.md 9 describes the second as  *)
(* the model-and-parse-only subset of the first, "without emission or     *)
(* new-id expansion": a restricted view of the same canonical model.     *)
(* The parsers share nothing but the input, so their steps interleave     *)
(* freely.                                                                 *)
(***************************************************************************)
EXTENDS WlDomain

CONSTANTS Docs, ParseError

VARIABLES
    xml, root, pc, nodeIdx, kidIdx, iface, interfaces, result,   \* Schema Parser
    mpc, mnodeIdx, minterfaces, mresult                          \* magic-numbers

svars == <<root, pc, nodeIdx, kidIdx, iface, interfaces, result>>
mvars == <<mpc, mnodeIdx, minterfaces, mresult>>
vars  == <<xml, svars, mvars>>

S == INSTANCE SchemaParser
M == INSTANCE MagicNumbersParser
        WITH pc <- mpc, nodeIdx <- mnodeIdx, interfaces <- minterfaces, result <- mresult

Init == S!Init /\ M!Init

Next ==
    \/ S!Next /\ UNCHANGED mvars
    \/ M!Next /\ UNCHANGED svars

Spec == Init /\ [][Next]_vars

-----------------------------------------------------------------------------
(* Properties.                                                             *)

(* The canonical model a magic-numbers model stands for: every untyped    *)
(* new_id preceded by the interface-name and version args, and every      *)
(* request and event numbered by its position among its kind.            *)
ExpandArg(a) ==
    IF a.arg_type = "new_id" /\ a.interface = None
    THEN <<NewIdInterfaceArg, NewIdVersionArg, a>>
    ELSE <<a>>
WithExpansion(m) == [m EXCEPT !.args = FlattenSeq([k \in DOMAIN m.args |-> ExpandArg(m.args[k])])]
Positions(s) == [k \in DOMAIN s |-> k - 1]
Canonical(f) ==
    [name |-> f.name,
     requests |-> [k \in DOMAIN f.requests |-> WithExpansion(f.requests[k])],
     events |-> [k \in DOMAIN f.events |-> WithExpansion(f.events[k])],
     enums |-> f.enums,
     request_opcodes |-> Positions(f.requests), event_opcodes |-> Positions(f.events)]

(* When both parsers return, the magic-numbers model is a restricted view *)
(* of the Schema Parser's: the same interfaces in the same order, the     *)
(* same requests, events and enums, the same args apart from the new_id   *)
(* expansion, even though only one of them removes comment nodes and the *)
(* two look for the protocol's description under different conditions.   *)
SameModel ==
    (pc = "done" /\ mpc = "done") =>
        result = [name |-> mresult.name,
                  interfaces |-> [k \in DOMAIN mresult.interfaces |->
                                    Canonical(mresult.interfaces[k])]]

(* The magic-numbers parser serves the same documents: it never raises on *)
(* a document the Schema Parser turns into a model (spec.md 9).           *)
MagicAcceptsWhatMainAccepts == ~(pc = "done" /\ mpc = "error")

=============================================================================
