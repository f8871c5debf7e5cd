---------------------------- MODULE MCG2Routes ----------------------------
(***************************************************************************)
(* Two gateways: the first sends a stream to each repeater, the second one *)
(* to the second repeater, under the number of the first's first stream.   *)
(***************************************************************************)
EXTENDS G2Routes
CONSTANTS g1, g2, s1, s2, s3, r1, r2, n1, n2

TwoGateways == (s1 :> g1) @@ (s2 :> g1) @@ (s3 :> g2)
TwoNumbers   == (s1 :> n1) @@ (s2 :> n2) @@ (s3 :> n1)
TwoRepeaters == (s1 :> r1) @@ (s2 :> r2) @@ (s3 :> r2)
=============================================================================
