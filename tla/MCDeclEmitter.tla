---------------------------- MODULE MCDeclEmitter ----------------------------
(***************************************************************************)
(* Protocol models for checking DeclEmitter, shaped as parse_wl_interface *)
(* builds them (opcodes 0, 1, ... by position).  Interface "A" varies     *)
(* over every enum shape (none, signed, bitfield, no entries), a request  *)
(* with up to 2 args of every kind that names something (Wobject of the   *)
(* other interface and of itself, an untyped new_id with its two          *)
(* synthesized args, bare, qualified and foreign enum references) and an  *)
(* event with or without an enum arg; interface "B" is small.  Protocols  *)
(* hold no interface, one, or both in either order, so that every         *)
(* reference is met both forward and backward.                           *)
(***************************************************************************)
EXTENDS DeclEmitter

Iface(name, enums, reqs, evs) ==
    [name |-> name, enums |-> enums, requests |-> reqs, events |-> evs,
     request_opcodes |-> [n \in DOMAIN reqs |-> n - 1],
     event_opcodes |-> [n \in DOMAIN evs |-> n - 1]]
Msg(name, args) == [name |-> name, args |-> args]
Enum(bitfield, entries) == [name |-> "e", is_bitfield |-> bitfield, entries |-> entries]

Enums == {<<>>, <<Enum(FALSE, <<0>>)>>, <<Enum(TRUE, <<1, 2>>)>>, <<Enum(FALSE, <<>>)>>}

ArgsA ==
    { <<WlArg("b", "object", "B", None)>>,
      <<WlArg("a", "object", "A", None)>>,
      <<NewIdInterfaceArg, NewIdVersionArg, WlArg("id", "new_id", None, None)>>,
      <<WlArg("m", "int", None, <<"e">>)>>,
      <<WlArg("m", "uint", None, <<"B", "e">>)>>,
      <<WlArg("m", "int", None, <<"wl_output", "transform">>)>> }

InterfacesA ==
    { Iface("A", es, rs, vs) :
        es \in Enums,
        rs \in {<<Msg("r", FlattenSeq(as))>> : as \in BoundedSeq(ArgsA, 2)},
        vs \in {<<>>, <<Msg("v", <<>>)>>, <<Msg("v", <<WlArg("m", "int", None, <<"e">>)>>)>>} }

InterfacesB ==
    { Iface("B", es, rs, <<>>) :
        es \in {<<>>, <<Enum(FALSE, <<0>>)>>, <<Enum(TRUE, <<1>>)>>},
        rs \in {<<>>, <<Msg("r", <<>>)>>} }

ProtocolsAll ==
    {[name |-> "p", interfaces |-> <<>>]}
    \cup {[name |-> "p", interfaces |-> <<a>>] : a \in InterfacesA}
    \cup {[name |-> "p", interfaces |-> ifs] :
            ifs \in {<<a, b>> : a \in InterfacesA, b \in InterfacesB}
                    \cup {<<b, a>> : a \in InterfacesA, b \in InterfacesB}}

=============================================================================
