------------------------ MODULE MCDescriptionFormatter ------------------------
(* Every text of up to 5 characters over printable, space and line break:  *)
(* enough for a blank line at either or both ends, two of them in a row,   *)
(* indented content, an inner blank line and a text of only blanks.        *)
EXTENDS DescriptionFormatter

TextsUpTo5 == BoundedSeq({"a", " ", "\n"}, 5)

=============================================================================
