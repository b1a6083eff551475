---------------------------- MODULE MCSchemaParser ----------------------------
(* SchemaParser over the document families of WlDocs.                     *)
EXTENDS SchemaParser, WlDocs

=============================================================================
