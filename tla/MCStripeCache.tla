--------------------------- MODULE MCStripeCache ---------------------------
(* Instances of StripeCache for TLC. *)
EXTENDS StripeCache, TLC

CONSTANTS s1, s2, k1, k2, k3

\* One stripe head, or two; the list as grow_stripes leaves it.
OneStripe == {s1}
TwoStripes == {s1, s2}
OneList == << s1 >>
TwoList == << s1, s2 >>

OneSector == {k1}
TwoSectors == {k1, k2}
ThreeSectors == {k1, k2, k3}

\* Parity rotates with the stripe.
RotatingParity ==
    [k \in Sectors |-> CASE k = k1 -> NDisks - 1
                         [] k = k2 -> NDisks - 2
                         [] OTHER  -> 0]

ThreadSymmetry == Permutations(Threads)
=============================================================================
