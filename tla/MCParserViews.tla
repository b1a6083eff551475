---------------------------- MODULE MCParserViews ----------------------------
(* The two parsers over the document families of WlDocs.                  *)
EXTENDS ParserViews, WlDocs

=============================================================================
