----------------------------- MODULE MCFraming ------------------------------
(* Small instances of Framing for TLC.                                     *)
EXTENDS Framing

\* Headers and longer messages fill a direction in the middle of a message.
Sizes == [request |-> 2, answer |-> 1, notification |-> 2, call |-> 1, reply |-> 1]
=============================================================================
