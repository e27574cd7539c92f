----------------------- MODULE MCChannelVerification -----------------------
(***************************************************************************)
(* ChannelVerification on an instance TLC can enumerate: one chat belongs  *)
(* to a user with a name, the other to one without.                        *)
(***************************************************************************)
EXTENDS ChannelVerification, TLC

CONSTANTS c1, c2, u1

Symmetry == Permutations(Requests) \cup Permutations(Pollers) \cup
            Permutations(Emails)

MCUsernameOf == (c1 :> u1) @@ (c2 :> "none")
=============================================================================
