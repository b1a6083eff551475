----------------------------- MODULE MCCompiler -----------------------------
(* Compiler over the document families of WlDocs.                         *)
EXTENDS Compiler, WlDocs

=============================================================================
