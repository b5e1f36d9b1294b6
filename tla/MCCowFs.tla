------------------------------ MODULE MCCowFs ------------------------------
(***************************************************************************)
(* Instances of CowFs for TLC: two names, paths of at most two of them.    *)
(* The host holds a directory a with a file a/a and, in the rich host, an  *)
(* empty directory a/b.                                                    *)
(***************************************************************************)
EXTENDS CowFs, TLC

CONSTANTS a, b, f, e, l

MCHost(x) == [p \in Path |-> CASE p = <<a>> -> Dir
                              [] p = <<a, a>> -> f
                              [] OTHER -> x[p]]

MCPlainHost == MCHost([p \in Path |-> Nil])
MCRichHost == MCHost([p \in Path |-> IF p = <<a, b>> THEN Dir ELSE Nil])
MCTarget == l :> f
MCNoTarget == <<>>
=============================================================================
