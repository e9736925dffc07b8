--------------------------- MODULE MCRequestImages ---------------------------
(* Instances of RequestImages for TLC.                                     *)
EXTENDS RequestImages

CONSTANTS c0, c1, c2

\* A JSON submission, one image, two images.
Counts == [c \in Contents |-> CASE c = c0 -> 0 [] c = c1 -> 1 [] OTHER -> 2]

=============================================================================
