------------------------- MODULE MCIdentityService -------------------------
(* Instances of IdentityService for TLC. *)
EXTENDS IdentityService
CONSTANTS s1, s2, u1, u2, u3, u4, u5

TwoServices == {s1, s2}
TwoObjects == {<<"Deployment", s1>>, <<"SDPService", s2>>}
=============================================================================
