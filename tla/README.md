# TLA+ models of the Wayland XML → C++ header compiler

This directory holds TLA+ models of `src/generate_cxx_header_from_wayland_xml.py`
and `src/include/wayland/generate_protocol_magic_numbers.py`. They are checked with TLC.
The program is a schema compiler. It parses one Wayland protocol XML document into a domain
model, then writes a C++ header that declares every interface, enum, request and
event.

## 1. Inventory

The program is sequential and single-threaded. It has no concurrency and nothing is
persisted between runs. The hard behaviour is therefore *structural*:

* the order of sibling elements of different kinds (opcode numbering);
* the order of declarations across interfaces (forward references);
* which document shapes are rejected;
* what is written when a step fails halfway;
* the order of a batch of documents.

TLC reaches these by enumerating every document shape within a bound, not by
interleaving threads.

| Component | Source | State it keeps | Operations | Correctness properties |
|---|---|---|---|---|
| Domain Model | `wl_*` dataclasses, lines 20-319 | immutable records | none that change state | (types only) |
| Schema Parser | `parse_*`, `remove_comment_nodes`, lines 362-627 | the lxml tree (edited by comment removal), the interface loop's lists and two opcode counters, the list of parsed interfaces | strip comments; parse the protocol head; per interface: check, then one loop turn per child (request / event / enum / other); finish | returns exactly the model the spec's rules give (positional opcodes per kind, new_id expansion, hex/decimal values), or raises; never rejects a well-formed document |
| Type Mapper | `get_cxx_Wtype`, `as_cxx_data_member` (type part), `underlying_type` | none (pure) | map wire type / enum reference to a C++ type | enum references qualified correctly; enum signedness agrees with the wire type |
| Declaration Emitter | `write_cxx_header` and the `as_cxx_*` methods, lines 97-358 | `content` (the header built in memory), the loop index, the file | check interfaces; pass 1: one skeleton per interface; pass 2: one definitions block per interface (raises on an empty enum); write the file | every name declared before it is used; a written header defines every entity exactly once; no header after an error |
| Description Formatter | `commentify`, `as_sphinx_comment`, lines 51-79 | none (pure) | text → comment lines | one leading and one trailing blank line dropped; blank inner lines become empty comment lines |
| Magic-numbers parser | second file, lines 1-337 | like the Schema Parser, without opcodes | the same parse functions with differences: no comment removal, `int(value)`, an enum with at most one child, no new_id expansion | whenever it and the Schema Parser both return, its model is the Schema Parser's without opcodes and expansion (spec.md 9); it accepts what the Schema Parser accepts |
| Command-line driver | `main`, lines 629-698 | the set of protocol kinds and the order it iterates, the clones in the temporary directory, the header files written so far | clone; for each kind and file: parse and write; leave the `with` block | with every document run through the parser and the emitter: the directory holds the spec's headers of exactly the documents whose call returned, and a failing call leaves no file (spec.md 7); the outcome does not depend on set order |
| Document retrieval | `get_wayland_xml`, git clone | none | network I/O | not modelled (I/O only) |

How the components interact: the driver calls `parse_wayland_xml(xml).write_cxx_header(dir)`
for each document (line 686). This is a plain call chain. The parser builds the domain model, and
the emitter reads it through the Type Mapper and the Description Formatter. Errors are
Python exceptions. The first one propagates up through the driver and ends the batch.

The hazards are listed under `hazards` in `PROJECT.json`, each at the line where it
bites. In short:

* the interleaving of request, event and enum siblings against the two opcode counters;
* the order of the new_id expansion;
* forward references between interfaces;
* empty enums and empty protocols that are caught only late;
* four shapes of well-formed documents that the parser rejects (a message without description, a
  single-member interface, a leading-zero decimal, an empty copyright);
* enum signedness against the wire type;
* dangling references;
* the batch's failure and overwrite behaviour;
* the magic-numbers parser's divergences.

## 2. Modules and how they correspond to the code

* `WlDomain` models the markup tree and the domain model. Markup nodes are records with a tag, the
  attributes the parser reads, and their element children. An `enum="X.Y"` attribute
  is kept as its dot-separated segments, and an entry value as its lexical form plus its value.
  Free text, since-versions and allow-null are abstracted away because nothing after the parser
  branches on them.
* `SchemaParser` models the Schema Parser. Variables: `xml` (the input), `root` (the tree that
  `remove_comment_nodes` edits), `pc`, `nodeIdx` (the interface list comprehension),
  `kidIdx` and `iface` (the locals of the running `parse_wl_interface`, including
  `request_opcode_counter`, `event_opcode_counter` and the found opcodes), `interfaces`
  and `result`. Actions: `RemoveCommentNodes`, `ParseProtocolHead`, `ProtocolEmpty`,
  `BeginInterface`, `InterfaceRejected`, `ParseChild`, `ChildRaises`, `EndInterface`
  and `FinishProtocol`. The leaf parsers (`ParseArg`, `ParseMessage`, `ParseEnum` and
  `ParseEntry`) are operators, each modelling the whole function. Every exception leads to `pc = "error"`.
* `ParserContract` is the abstract specification. It comes from spec.md 4.1 and 6, not from the code.
  In one step the parse either fails or produces `Expected(xml)`. `Expected` is defined by filtering
  children by tag and numbering them by position. It also defines `WellFormed`, the grammar.
  `SchemaParser` is checked to implement it through `INSTANCE ParserContract WITH model <- Outcome`.
* `TypeMapper` contains `CxxWtype`, `MemberType` and `UnderlyingType`.
* `DeclEmitter` models the Declaration Emitter. Variables: `proto` (self), `epc`, `i` (the index of the
  loop that is running), `content` (the header as a sequence of declaration items:
  struct, enum declaration, message declaration, enum definition, message definition)
  and `file`. Actions: `BeginHeader`, `NoInterfaces`, `EmitSkeleton`, `EndPass1`,
  `EmitDefinitions`, `EmptyEnum` and `WriteHeader`.
* `Compiler` composes the parser and the emitter as `parse_wayland_xml(xml).write_cxx_header()`. It
  instantiates `SchemaParser` and `DeclEmitter` with shared variables. `CallWriteHeader`
  hands the parser's result to the emitter.
* `MagicNumbersParser` models the magic-numbers parser. Variables: `xml` (the tree, comments
  included), `pc`, `nodeIdx`, `interfaces` and `result`. Actions: `ParseProtocolHead`,
  `ProtocolEmpty`, `ParseInterfaceNode` and `InterfaceRejected` (one per element of the
  interface list comprehension), and `FinishProtocol`. `ParseInterface` and the leaf parsers
  are whole-function operators: this file's interface loop keeps no counters, so its order
  of appends cannot matter.
* `ParserViews` runs `SchemaParser` and `MagicNumbersParser` on the same `xml`, their steps
  interleaved. The magic-numbers variables are renamed `mpc`, `mnodeIdx`, `minterfaces`
  and `mresult` in the `INSTANCE ... WITH`.
* `DescriptionFormatter` models `commentify` and `as_sphinx_comment`. Text is a sequence of
  characters from {"a", " ", "\n"}. `SplitLines` (RECURSIVE) is `str.split("\n")`, `LStrip`
  is `str.lstrip()`, and `Commentify` is the slice and the loop. The one action `Format` is
  one call. The property restates spec.md 4.3/4.4 over lines found from the positions of the
  line breaks, an independent definition of the split.
* `Driver` models `main` and composes the `Compiler` (`Call == INSTANCE Compiler`): each
  document is a protocol tree, and each call `parse_wayland_xml(xml).write_cxx_header(...)`
  is the Compiler run step by step on it. Variables: `protocols` (the set of kinds), `order`
  (core first, then the set's iteration order, any permutation), `k` and `f` (the two loops),
  `cloned`, `written` (protocol name to the header its file holds), `dpc`, `tmp` (the
  temporary directory), and the Compiler's variables. Actions: `Clone`, `CloneFails`,
  `StartCall` (the Compiler's initial state on the next document), `CallStep` (one Compiler
  step), `CallReturns`, `CallRaises` (the directory keeps whatever file the call had
  opened), `NextKind` and `ExitWith`. Whether a document fails, and what file it leaves,
  is the parser's and the emitter's.
* An empty `<copyright/>` (`EmptyCopyright`, whose `.text` is None) is not counted as the
  copyright by either parser (lines 598, 603, 607; 316-324 of the second file).
* `WlDocs` holds the document families the checks enumerate. `MCSchemaParser`,
  `MCDeclEmitter`, `MCCompiler`, `MCParserViews`, `MCDescriptionFormatter`
  and `MCDriver` instantiate the models for TLC.

## 3. Runs

| Run | Cfg | Expect | Checks | Shows |
|---|---|---|---|---|
| parser | MCSchemaParser.cfg | pass | TypeOK, ImplementsContract | Over 2058 documents, a returned model is always the spec's model: opcodes by position per kind, the untyped new_id preceded by exactly the string and uint args, comments ignored, literal values. |
| parser_message_without_description | MCSchemaParser_MsgNoDesc.cfg | violation | AcceptsWellFormed | A request with an arg and no description is rejected (finding: code bug at line 529, and 498 for events). |
| parser_single_member_interface | MCSchemaParser_OneMember.cfg | violation | AcceptsWellFormed | An interface with a single request and no description is rejected (`len(node) <= 1`, line 550). |
| emitter | MCDeclEmitter.cfg | pass | DeclaredBeforeUse, EveryEntityDefinedOnce | Whatever the interface order, every protocol name is declared before any definition uses it. A written header defines every enum, request and event exactly once. |
| emitter_enum_signedness | MCDeclEmitter_EnumSign.cfg | violation | EnumMemberMatchesWire | An enum-typed member can stand for an arg of the other signedness (line 168; spec.md 3). |
| compiler | MCCompiler.cfg | pass | HeaderOnlyForNonEmpty, MessagesMatchDocument | End to end: no header is written for a protocol without interfaces or with an empty enum. A header's message definitions are the document's messages in order, with opcodes 0..N-1 per kind and expanded members. |
| parser_views | MCParserViews.cfg | pass | SameModel | Both parsers over the 2058 documents (43478 states): whenever both return, the magic-numbers model is the Schema Parser's without opcodes and new_id expansion, although only one removes comments and they look for the protocol description under different conditions. |
| parser_views_enum_entries | MCParserViews_Enums.cfg | violation | MagicAcceptsWhatMainAccepts | The magic-numbers parser rejects an enum with a single decimal entry that the Schema Parser accepts (finding at line 206 of the second file): every enum with an entry is rejected, so its `int(value)` at line 189 is never reached on a document it parses. |
| parser_views_comments | MCParserViews_Comments.cfg | violation | MagicAcceptsWhatMainAccepts | The magic-numbers parser keeps comment nodes: a comment before the copyright is parsed as an interface and the document rejected, while the Schema Parser removes it (finding at line 336 of the second file). |
| formatter | MCDescriptionFormatter.cfg | pass | CommentMatchesSpec | For every description text of up to 5 characters, and for no description, `as_sphinx_comment` returns what spec.md 4.3/4.4 describe. |
| driver | MCDriver.cfg | pass | HeadersMatchProcessed | For every non-empty choice of kinds and every set order, each document run through the parser and the emitter: at every step, also in the middle of a call, the directory holds exactly the headers spec.md 4.3 gives the documents whose call returned, the last one of each name; the staging document, which the emitter rejects after its first pass, leaves no file. |
| driver_kind_order | MCDriver_Order.cfg | violation | OrderIndependent | With `-p stable -p staging` and a failing staging document, a run that visits staging first leaves no header and one that visits stable first leaves two. Python's string hashing makes that order differ between processes (finding, spec gap). |

Every passing run has mutants, listed in `PROJECT.json`. Each mutant is a plausible bug in a mapped
definition, and TLC finds the property violated under the run's own cfg:

* an opcode recorded one below the counter (SchemaParser's type invariant);
* events numbered from the request counter;
* skeletons and definitions emitted in a single loop;
* `zip` one message short;
* the empty-enum check dropped;
* events zipped with the request opcodes;
* the magic-numbers interface loop started at `node[1]` whether or not there is a description;
* `skip_last` computed from the first line;
* the header file opened with "w" at the start of `write_cxx_header`, before the content is
  generated (so a call that raises leaves an empty file).

### Bounds and why they are enough

* **DocsMembers**: one interface, with or without a description, followed by up to 4 children from
  {request, event, enum, comment}. This covers every interleaving of the kinds that
  share or do not share a counter, up to two of each kind. It also covers single-member and
  comment-only interfaces.
* **DocsArgs**: one request or event, with or without a description, with up to 3 args from
  six shapes: untyped new_id, typed new_id, object with description, enum reference,
  bad type keyword, and an arg with two children. Three args are enough to place an untyped
  new_id first, in the middle and last, and next to another untyped new_id.
* **DocsEnums**: bitfield or not, with or without a description, with up to 2 entries of every
  literal form (decimal, hexadecimal, leading-zero decimal, junk). This includes no entries at all.
* **DocsProtocol**: seven protocol heads (copyright and description present or absent, out of order, with comments, an empty copyright) with
  up to 2 interfaces from five shapes. This includes a rejected interface and a request
  where an interface belongs.
* **DocsComments** (only for `parser_views_comments`): an interface with a request and up to 2 more
  children from {event, comment, a request whose only child is a comment}, with or without a
  comment and copyright at the protocol head.
* **Emitter models**: no interface, interface A alone, or A together with B in either order. A varies over every
  enum shape and over a request with up to 2 argument groups that reference B, A itself, an
  untyped new_id, a bare enum, a qualified enum, or a foreign enum. Every reference is
  therefore met both forward and backward.

* **Description texts**: every sequence of up to 5 characters over printable, whitespace and
  line break, 364 texts plus no description. This covers blank lines at one end, at both ends
  and twice in a row, a single blank line, inner blank lines and indented content.
* **Driver**: all four kinds, each non-empty request (15) and every order of the non-core kinds,
  over five small protocol trees. The staging document has an enum without entries: the parser
  accepts it and the emitter raises in its second pass, the latest point a call can fail. In
  `RepoWithDuplicate`, a stable and an unstable document share a protocol name with different
  interfaces, so the last-writer case happens. `RepoDistinct` isolates the failure for the
  order question.

Names are fixed strings. The code never compares them, apart from emitting them.

### Fairness and deadlock

No liveness property is checked, and no specification assumes fairness. Every model is one
sequential call (or `main`) whose loops run over finite lists, and TLC explores every path to its
end. The one eventuality in the code, the removal of the temporary directory, is guaranteed by
the `with` statement on every exit; in the model it is `ExitWith`, enabled from every exit
state, so a property would restate that guard. `CHECK_DEADLOCK FALSE` is set everywhere because the program really stops: after
`done`, `written`, `error` or leaving the `with` block there is nothing left to do.

## 4. Not modelled, and why

* Document retrieval (curl, git clone), argparse, and the file-system write itself are I/O.
  Writing is modelled only as the moment the `file` variable is set.
* Layout, banner text, namespaces, the `E` prefix of entry names, and trailing commas are formatting.
* Name uniqueness is not checked by the code (spec.md 9). The models do not check it either.
* Dangling enum and interface references are not validated (spec.md 9, open question).
  `DeclaredBeforeUse` is stated over the names this protocol declares only, so no property
  covers a reference to a name declared nowhere.
* Whether `int(value, 0)` should accept a decimal with a leading zero such as "07" (line 456):
  it raises, and `AcceptsWellFormed` over `DocsEnums` shows that this alone rejects a document,
  but spec.md does not say whether such a literal is decimal, so no run asserts acceptance.
* `reserved_identifiers` (line 18) is never consulted. Member names are abstracted.
* Where the emitter attaches documentation comments (`as_cxx_data_member` lines 97-110, the
  entry, message and interface comments, the banner at 322-330) is not part of the `DeclEmitter`
  model. The text of one comment is modelled (`DescriptionFormatter`); its placement is not.
* The Driver's argparse surface, `git ls-files` and reading the repository are I/O. The
  repository's documents are given as protocol trees; what happens to each is the Compiler's.
* A comment outside the root element: `remove_comment_nodes` would find it and crash on its
  missing parent (lines 621-622). The modelled documents have comments only inside the root.
* The magic-numbers file's `get_wayland_xml` and `__main__` block are retrieval and printing.

## 5. Plan

Done:

1. `WlDomain`, `SchemaParser` with `ParserContract` (refinement), `TypeMapper`, `DeclEmitter`,
   and the composition `Compiler`.
2. `MagicNumbersParser` and the composition `ParserViews`, checked against the restricted-view
   claim of spec.md 9.
3. `DescriptionFormatter`, checked against spec.md 4.3/4.4.
4. `Driver`, composed with the `Compiler`, with per-document atomicity and the set-order
   finding.
5. The comment-node run of the magic-numbers parser, and the empty-copyright head.

Left, in order:

1. Comment attachment in the emitter (spec.md 4.3). In `as_cxx_data_member` the spacer
   assigned at line 106 is overwritten at 107, and an extra blank line follows the comment.
   The arg's own summary is dropped when it has a description element.
2. The magic-numbers parser accepting documents the Schema Parser rejects (an interface of a
   comment and one request), if that is taken as a claim.
