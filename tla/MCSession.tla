----------------------------- MODULE MCSession -----------------------------
(***************************************************************************)
(* Session on an instance TLC can enumerate: one tab makes two requests at *)
(* a time, the other one.                                                  *)
(***************************************************************************)
EXTENDS Session, TLC

CONSTANTS t1, t2, k1, k2

Symmetry == Permutations({k1, k2})

MCCalls == (t1 :> {k1, k2}) @@ (t2 :> {"k"})
=============================================================================
