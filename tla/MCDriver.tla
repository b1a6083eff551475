-------------------------------- MODULE MCDriver --------------------------------
(* The four protocol kinds over small repositories: every document is a   *)
(* protocol tree the Compiler runs on.  One staging document has an enum  *)
(* without entries, which the parser lets through and the emitter rejects *)
(* after its first pass; a stable and an unstable document share a       *)
(* protocol name with different interfaces.                               *)
EXTENDS Driver

KindsAll == {"core", "stable", "staging", "unstable"}

Req == MsgNode("request", "r", <<Desc>>)
Ev  == MsgNode("event", "v", <<>>)
En  == EnumNode("e", FALSE, <<EntryNode(Literal("dec", 0), <<>>)>>)

Wayland    == ProtocolNode("wayland", <<Copyright, IfaceNode("A", <<Desc, Req, Ev>>)>>)
XdgStable  == ProtocolNode("xdg_shell", <<IfaceNode("B", <<Ev, Req>>)>>)
Viewporter == ProtocolNode("viewporter", <<Desc, IfaceNode("C", <<Req, En>>)>>)
Broken     == ProtocolNode("broken", <<IfaceNode("D", <<Req, EnumNode("e", TRUE, <<>>)>>)>>)
XdgV6      == ProtocolNode("xdg_shell", <<IfaceNode("B", <<Desc, Req, Req>>)>>)
TextInput  == ProtocolNode("text_input", <<IfaceNode("T", <<Req, Ev>>)>>)

RepoWithDuplicate ==
    [kind \in KindsAll |->
        CASE kind = "core"     -> <<Wayland>>
          [] kind = "stable"   -> <<XdgStable, Viewporter>>
          [] kind = "staging"  -> <<Broken>>
          [] kind = "unstable" -> <<XdgV6>>]

(* Distinct protocol names: only the failing document makes runs differ. *)
RepoDistinct ==
    [kind \in KindsAll |->
        CASE kind = "core"     -> <<Wayland>>
          [] kind = "stable"   -> <<XdgStable, Viewporter>>
          [] kind = "staging"  -> <<Broken>>
          [] kind = "unstable" -> <<TextInput>>]

=============================================================================
