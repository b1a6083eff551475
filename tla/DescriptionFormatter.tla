------------------------- MODULE DescriptionFormatter -------------------------
(***************************************************************************)
(* The Description Formatter: commentify and                               *)
(* wl_description.as_sphinx_comment.                                       *)
(*                                                                         *)
(* Text is a sequence of characters drawn from a small alphabet: "a"      *)
(* stands for any printable character, " " for whitespace, "\n" for a     *)
(* line break.  The comment marker (the indent followed by "///") and the *)
(* summary are single tokens; everything else is kept character by        *)
(* character, because what the properties compare is the text itself.    *)
(***************************************************************************)
EXTENDS Naturals, Sequences, SequencesExt

CONSTANTS
    None,        \* wl_description.description is None (empty element)
    Bodies       \* the description texts node.text may hold

VARIABLES
    description, \* self.description
    comment      \* the returned string, None before the call

vars == <<description, comment>>

Marker  == <<"///">>
Summary == "S"

-----------------------------------------------------------------------------
(* s.split("\n"): the pieces between line breaks, one more than there    *)
(* are breaks.                                                             *)
RECURSIVE SplitLines(_)
SplitLines(s) ==
    LET k == SelectInSeq(s, LAMBDA c : c = "\n")
    IN IF k = 0 THEN <<s>>
       ELSE <<SubSeq(s, 1, k - 1)>> \o SplitLines(SubSeq(s, k + 1, Len(s)))

(* str.lstrip(): the line from its first non-whitespace character on.    *)
LStrip(l) ==
    LET k == SelectInSeq(l, LAMBDA c : c # " ")
    IN IF k = 0 THEN <<>> ELSE SubSeq(l, k, Len(l))

(* One turn of commentify's loop: the marker, " " and the stripped line  *)
(* if it is not empty, then "\n".                                          *)
CommentLine(line, symbol) ==
    symbol \o (IF LStrip(line) # <<>> THEN <<" ">> \o LStrip(line) ELSE <<>>) \o <<"\n">>

(* Mutant: skip_last computed from the first line.                       *)
SkipLastFromFirst(lines) == LStrip(lines[1]) = <<>>

(* skip_last: the last line is blank after lstrip.                        *)
SkipLast(lines) == LStrip(lines[Len(lines)]) = <<>>

(* commentify: one blank line dropped at each end, the rest commented.   *)
(* lines[a:b] with b < a is empty, as SubSeq is.                          *)
Commentify(s, symbol) ==
    LET lines     == SplitLines(s)
        skipFirst == IF LStrip(lines[1]) = <<>> THEN 1 ELSE 0
        skipLast  == IF SkipLast(lines) THEN 1 ELSE 0
        body      == SubSeq(lines, 1 + skipFirst, Len(lines) - skipLast)
    IN FlattenSeq([k \in DOMAIN body |-> CommentLine(body[k], symbol)])

(* as_sphinx_comment: the summary line; then, unless the description is  *)
(* None or empty, a bare marker line and the commented body.              *)
AsSphinxComment(summary, text) ==
    LET header == Marker \o <<" ", summary, "\n">>
    IN IF text \in {None, <<>>} THEN header
       ELSE header \o Marker \o <<"\n">> \o Commentify(text, Marker)

-----------------------------------------------------------------------------
Init ==
    /\ description \in Bodies \cup {None}
    /\ comment = None

(* One call of as_sphinx_comment.                                          *)
Format ==
    /\ comment = None
    /\ comment' = AsSphinxComment(Summary, description)
    /\ UNCHANGED description

Next == Format

Spec == Init /\ [][Next]_vars

-----------------------------------------------------------------------------
(* Properties: spec.md 4.3 and 4.4 stated over lines found by the         *)
(* positions of the line breaks.                                          *)

Breaks(s) == SetToSortSeq({k \in DOMAIN s : s[k] = "\n"}, <)
LinesOf(s) ==
    LET b == <<0>> \o Breaks(s) \o <<Len(s) + 1>>
    IN [j \in 1..(Len(b) - 1) |-> SubSeq(s, b[j] + 1, b[j + 1] - 1)]
Blank(l) == \A k \in DOMAIN l : l[k] = " "
Content(l) ==
    LET first == CHOOSE k \in DOMAIN l : l[k] # " " /\ \A j \in 1..(k - 1) : l[j] = " "
    IN SubSeq(l, first, Len(l))
SpecLine(l) == Marker \o (IF Blank(l) THEN <<>> ELSE <<" ">> \o Content(l)) \o <<"\n">>
Reflowed(s) ==
    LET ls   == LinesOf(s)
        from == IF Blank(ls[1]) THEN 2 ELSE 1
        to   == IF Blank(ls[Len(ls)]) THEN Len(ls) - 1 ELSE Len(ls)
    IN FlattenSeq([j \in 1..(to - from + 1) |-> SpecLine(ls[from + j - 1])])

(* The comment as_sphinx_comment returns is the one spec.md describes:    *)
(* the summary alone when there is no body; otherwise the summary, a      *)
(* blank comment line and the body with exactly one wholly-blank line     *)
(* dropped at each end, inner blank lines as bare markers and every other *)
(* line as the marker, one space and the line without its indentation.   *)
CommentMatchesSpec ==
    comment # None =>
        comment = Marker \o <<" ", Summary, "\n">>
                  \o (IF description \in {None, <<>>} THEN <<>>
                      ELSE Marker \o <<"\n">> \o Reflowed(description))

=============================================================================
