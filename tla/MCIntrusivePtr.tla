--------------------------- MODULE MCIntrusivePtr ---------------------------
(***************************************************************************)
(* Small instances of IntrusivePtr.                                        *)
(***************************************************************************)
EXTENDS IntrusivePtr

CONSTANTS o1, o2, s1, s2, s3, w1, w2

=============================================================================
