------------------------------- MODULE WlDocs -------------------------------
(***************************************************************************)
(* Protocol documents the checks feed the compiler.  Four families,     *)
(* each small in what it leaves fixed and exhaustive in what it varies:  *)
(*                                                                         *)
(*  DocsMembers  - one interface, up to 4 children drawn from request,    *)
(*                 event, enum and comment, with or without a leading     *)
(*                 description: every order of the kinds that share and  *)
(*                 do not share opcode counters;                          *)
(*  DocsArgs     - one request or event, with or without description,    *)
(*                 with up to 3 args drawn from every arg shape: untyped  *)
(*                 and typed new_id, object, enum reference, a bad type   *)
(*                 keyword, an arg with two children;                      *)
(*  DocsEnums    - one enum, bitfield or not, with or without            *)
(*                 description, up to 2 entries of every literal form;    *)
(*  DocsProtocol - the protocol head (copyright, an empty copyright,     *)
(*                 description, comments, in and out of order) and up to 2 interfaces, some      *)
(*                 rejected, or a request where an interface belongs;    *)
(*  DocsComments - comment nodes at the protocol head, among members and *)
(*                 inside a message.                                       *)
(***************************************************************************)
EXTENDS WlDomain

Req == MsgNode("request", "r", <<Desc>>)
Ev  == MsgNode("event", "v", <<Desc>>)
Entry0 == EntryNode(Literal("dec", 0), <<>>)
En  == EnumNode("e", FALSE, <<Entry0>>)

DocsMembers ==
    { ProtocolNode("p", <<Copyright, Desc, IfaceNode("A", h \o ms)>>) :
        h \in {<<>>, <<Desc>>}, ms \in BoundedSeq({Req, Ev, En, Comment}, 4) }

ArgShapes ==
    { ArgNode("id", "new_id", None, None, <<>>),
      ArgNode("id", "new_id", "B", None, <<>>),
      ArgNode("obj", "object", "A", None, <<Desc>>),
      ArgNode("mode", "uint", None, <<"B", "e">>, <<>>),
      ArgNode("x", "bogus", None, None, <<>>),
      ArgNode("x", "int", None, None, <<Desc, Desc>>) }

DocsArgs ==
    { ProtocolNode("p", <<IfaceNode("A", <<Desc, MsgNode(t, "m", d \o as)>>)>>) :
        t \in {"request", "event"}, d \in {<<>>, <<Desc>>},
        as \in BoundedSeq(ArgShapes, 3) }

Entries ==
    { EntryNode(Literal("dec", 1), <<>>), EntryNode(Literal("hex", 16), <<Desc>>),
      EntryNode(Literal("zdec", 0), <<>>), EntryNode(Literal("zdec", 7), <<>>),
      EntryNode(Literal("junk", 0), <<>>) }

DocsEnums ==
    { ProtocolNode("p", <<IfaceNode("B", <<Desc, EnumNode("e", b, d \o es)>>)>>) :
        b \in BOOLEAN, d \in {<<>>, <<Desc>>}, es \in BoundedSeq(Entries, 2) }

Interfaces ==
    { IfaceNode("A", <<Desc, Req, Comment>>), IfaceNode("B", <<Desc, Ev, Req>>),
      IfaceNode("C", <<Ev>>), IfaceNode("C", <<Comment>>), Req }

Heads ==
    { <<>>, <<Copyright>>, <<Desc>>, <<Copyright, Desc>>,
      <<Comment, Copyright, Comment, Desc>>, <<Desc, Copyright>>,
      <<EmptyCopyright, Desc>> }

DocsProtocol ==
    { ProtocolNode("p", h \o ifs) : h \in Heads, ifs \in BoundedSeq(Interfaces, 2) }

(* Comments where lxml keeps them: before the copyright, among an         *)
(* interface's members and as a message's first child; no enum.           *)
DocsComments ==
    { ProtocolNode("p", h \o <<IfaceNode("A", <<Desc, Req>> \o ms)>>) :
        h \in {<<>>, <<Comment, Copyright>>},
        ms \in BoundedSeq({Ev, Comment, MsgNode("request", "c", <<Comment>>)}, 2) }

DocsAll == DocsMembers \cup DocsArgs \cup DocsEnums \cup DocsProtocol

=============================================================================
