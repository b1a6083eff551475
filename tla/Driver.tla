-------------------------------- MODULE Driver --------------------------------
(***************************************************************************)
(* The command-line driver: main of generate_cxx_header_from_wayland_xml  *)
(* .py.  For the requested protocol kinds it clones the repositories into *)
(* a temporary directory and runs                                          *)
(* parse_wayland_xml(xml).write_cxx_header(...) on every document, core   *)
(* first, then the other kinds in the iteration order of a Python set.    *)
(*                                                                         *)
(* A document is a protocol XML tree.  Each call                           *)
(* parse_wayland_xml(xml).write_cxx_header(...) is the Compiler module,    *)
(* run step by step on that tree; whether it returns or raises, and what *)
(* file it leaves, is the Compiler's.  The destination directory is the   *)
(* function `written` from protocol name (<name>_protocol.hpp) to the     *)
(* header the file holds.                                                 *)
(***************************************************************************)
EXTENDS WlDomain, TLC

CONSTANTS
    Kinds,       \* the -p choices: "core", "stable", "staging", "unstable"
    Repo,        \* kind -> the documents `git ls-files` lists, in order
    ParseError   \* the result of a parse function that raised

VARIABLES
    protocols,   \* set(cmd_args["p"])
    order,       \* the kinds in the order the loops visit them
    k,           \* index in `order` of the kind being processed
    f,           \* index of the next document of that kind
    cloned,      \* the repositories cloned into the temporary directory
    written,     \* protocol name -> the header its file holds
    dpc,         \* "clone", "files", "call", "done", "doc_error", "clone_error"
    tmp,         \* the temporary directory exists
    xml, root, pc, nodeIdx, kidIdx, iface, interfaces, result,   \* the call:
    proto, epc, i, content, file                                 \* Compiler

dvars == <<protocols, order, k, f, cloned, written, dpc, tmp>>
cvars == <<xml, root, pc, nodeIdx, kidIdx, iface, interfaces, result,
           proto, epc, i, content, file>>
vars  == <<dvars, cvars>>

RepoDocs == UNION {Range(Repo[kd]) : kd \in Kinds}

Call == INSTANCE Compiler WITH Docs <- RepoDocs

(* The repository a kind's documents come from.                           *)
RepoOf(kind) == IF kind = "core" THEN "wayland" ELSE "wayland-protocols"

Kind == order[k]
Doc  == Repo[Kind][f]

-----------------------------------------------------------------------------
(* The -p arguments (required, from the choices), the set built from     *)
(* them, and the order of the two loops: "core" first if requested, then *)
(* non_core_protocols in whatever order the set iterates.  Entering the  *)
(* `with tempfile.TemporaryDirectory` block creates the directory.  No    *)
(* call is running yet.                                                    *)
Init ==
    /\ protocols \in SUBSET Kinds \ {{}}
    /\ order \in { (IF "core" \in protocols THEN <<"core">> ELSE <<>>) \o p :
                      p \in SetToSeqs(protocols \ {"core"}) }
    /\ k = 1
    /\ f = 1
    /\ cloned = {}
    /\ written = <<>>
    /\ dpc = "clone"
    /\ tmp = TRUE
    /\ xml = None /\ root = None /\ pc = None /\ nodeIdx = 1 /\ kidIdx = 1
    /\ iface = None /\ interfaces = <<>> /\ result = None
    /\ proto = None /\ epc = "idle" /\ i = 1 /\ content = <<>> /\ file = None

(* git.Repo.clone_from for the repository of the next kind; the          *)
(* wayland-protocols clone is made once, before the loop over the        *)
(* non-core kinds.                                                         *)
Clone ==
    /\ dpc = "clone"
    /\ cloned' = cloned \cup {RepoOf(Kind)}
    /\ dpc' = "files"
    /\ UNCHANGED <<protocols, order, k, f, written, tmp, cvars>>

(* The clone raises (network, address): the exception leaves main.       *)
CloneFails ==
    /\ dpc = "clone"
    /\ RepoOf(Kind) \notin cloned
    /\ dpc' = "clone_error"
    /\ UNCHANGED <<protocols, order, k, f, cloned, written, tmp, cvars>>

(* One turn of parse_protocols_from_repo's loop: the data of the next     *)
(* path is read and parse_wayland_xml(xml).write_cxx_header(...) called: *)
(* the Compiler's initial state on that document.                        *)
StartCall ==
    /\ dpc = "files"
    /\ f <= Len(Repo[Kind])
    /\ xml' = Doc /\ root' = Doc /\ pc' = "strip" /\ nodeIdx' = 1 /\ kidIdx' = 1
    /\ iface' = None /\ interfaces' = <<>> /\ result' = None
    /\ proto' = None /\ epc' = "idle" /\ i' = 1 /\ content' = <<>> /\ file' = None
    /\ dpc' = "call"
    /\ UNCHANGED <<protocols, order, k, f, cloned, written, tmp>>

(* One step of the running call.                                          *)
CallStep ==
    /\ dpc = "call"
    /\ Call!Next
    /\ UNCHANGED dvars

(* The call returned: open(filename, "w") has replaced the file of the    *)
(* protocol's name; the loop goes on with the next path.                 *)
CallReturns ==
    /\ dpc = "call"
    /\ epc = "written"
    /\ written' = (proto.name :> file) @@ written
    /\ f' = f + 1
    /\ dpc' = "files"
    /\ UNCHANGED <<protocols, order, k, cloned, tmp, cvars>>

(* The call raised, in the parser or in the emitter: the exception leaves *)
(* main, and the directory keeps whatever file the call had opened.       *)
CallRaises ==
    /\ dpc = "call"
    /\ pc = "error" \/ epc = "error"
    /\ written' = IF file = None THEN written ELSE (proto.name :> file) @@ written
    /\ dpc' = "doc_error"
    /\ UNCHANGED <<protocols, order, k, f, cloned, tmp, cvars>>

(* The documents of this kind are done: the next kind, cloning its       *)
(* repository first unless it is already there, or the end of the with  *)
(* block.                                                                  *)
NextKind ==
    /\ dpc = "files"
    /\ f > Len(Repo[Kind])
    /\ k' = k + 1
    /\ f' = 1
    /\ dpc' = CASE k = Len(order)                 -> "done"
              [] RepoOf(order[k + 1]) \in cloned -> "files"
              [] OTHER                          -> "clone"
    /\ UNCHANGED <<protocols, order, cloned, written, tmp, cvars>>

(* Leaving the with block, normally or by the exception, removes the     *)
(* temporary directory and the clones in it.                              *)
ExitWith ==
    /\ dpc \in {"done", "doc_error", "clone_error"}
    /\ tmp
    /\ tmp' = FALSE
    /\ cloned' = {}
    /\ UNCHANGED <<protocols, order, k, f, written, dpc, cvars>>

Next ==
    \/ Clone
    \/ CloneFails
    \/ StartCall
    \/ CallStep
    \/ CallReturns
    \/ CallRaises
    \/ NextKind
    \/ ExitWith

Spec == Init /\ [][Next]_vars

-----------------------------------------------------------------------------
(* Properties.                                                             *)

(* The header spec.md 4.3 gives a document: the model of spec.md 4.1    *)
(* (ParserContract), every interface's declarations, then every          *)
(* interface's definitions.                                                *)
ExpectedHeader(x) ==
    LET ifs == Call!C!Expected(x).interfaces
    IN FlattenSeq([j \in DOMAIN ifs |-> Call!E!Skeleton(ifs[j])])
       \o FlattenSeq([j \in DOMAIN ifs |-> Call!E!Definitions(ifs[j])])

(* The header files a sequence of documents leaves when each overwrites  *)
(* the file of its protocol name: the header of the last document of     *)
(* every name.                                                             *)
Headers(docs) ==
    [n \in {docs[j].name : j \in DOMAIN docs} |->
        ExpectedHeader(docs[SelectLastInSeq(docs, LAMBDA d : d.name = n)])]

(* The documents whose call has returned, in the order they were made.   *)
Processed ==
    FlattenSeq([j \in 1..(k - 1) |-> Repo[order[j]]])
    \o (IF k <= Len(order) THEN SubSeq(Repo[Kind], 1, f - 1) ELSE <<>>)

(* Per-document atomicity (spec.md 7) across the driver, the parser and  *)
(* the emitter: at every step of the batch, also while a call runs and   *)
(* after one raises, the destination directory holds exactly one file    *)
(* per protocol name of the documents whose call returned, holding the   *)
(* complete header of the last of them; a call that raises, wherever it  *)
(* raises, leaves no file and no file emptied or changed.                *)
HeadersMatchProcessed == written = Headers(Processed)

(* The headers a batch leaves behind, when no clone fails, for the       *)
(* visiting order o: the documents up to the first one the spec makes a *)
(* fatal error (ParserContract's grammar, which also asks for at least   *)
(* one interface and one entry per enum).                                 *)
LeftBy(o) ==
    LET docs == FlattenSeq([j \in DOMAIN o |-> Repo[o[j]]])
        stop == SelectInSeq(docs, LAMBDA d : ~Call!C!WellFormed(d))
    IN Headers(IF stop = 0 THEN docs ELSE SubSeq(docs, 1, stop - 1))

(* The header files a run leaves do not depend on the order in which the *)
(* Python set of requested kinds happens to be iterated.                 *)
OrderIndependent ==
    (~tmp /\ dpc # "clone_error") =>
        \A o \in SetToSeqs(protocols \ {"core"}) :
            written = LeftBy((IF "core" \in protocols THEN <<"core">> ELSE <<>>) \o o)

=============================================================================
