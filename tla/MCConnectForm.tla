--------------------------- MODULE MCConnectForm ---------------------------
(* The connect form over the hosts store, with two ids.                    *)
EXTENDS ConnectForm, TLC

CONSTANTS a, b, k1, k2, p1

MCIds == <<a, b>>
Symmetry == Permutations(Secrets)

=============================================================================
