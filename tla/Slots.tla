-------------------------------- MODULE Slots --------------------------------
(***************************************************************************)
(* The state of one part out of many: the part that was chosen, and slots  *)
(* for its variables, the first k of them for a part with k variables. The *)
(* other slots are empty.                                                  *)
(***************************************************************************)
EXTENDS Integers, Sequences

VARIABLES part, s1, s2, s3, s4, s5, s6, s7, s8, s9, s10, s11, s12, s13

slots == <<s1, s2, s3, s4, s5, s6, s7, s8, s9, s10, s11, s12, s13>>

Is(p) == part = p

\* The slots from the k-th on belong to nobody.
Unused(k) ==
    /\ k <= 1 => s1 = <<>> /\ s2 = <<>>
    /\ k <= 3 => s3 = <<>>
    /\ k <= 4 => s4 = <<>>
    /\ k <= 5 => s5 = <<>>
    /\ k <= 6 => s6 = <<>>
    /\ k <= 7 => s7 = <<>>
    /\ k <= 8 => s8 = <<>>
    /\ k <= 9 => s9 = <<>>
    /\ k <= 10 => s10 = <<>>
    /\ k <= 11 => s11 = <<>>
    /\ k <= 12 => s12 = <<>>
    /\ k <= 13 => s13 = <<>>

StayUnused(k) ==
    /\ k <= 1 => UNCHANGED <<s1, s2>>
    /\ k <= 3 => UNCHANGED s3
    /\ k <= 4 => UNCHANGED s4
    /\ k <= 5 => UNCHANGED s5
    /\ k <= 6 => UNCHANGED s6
    /\ k <= 7 => UNCHANGED s7
    /\ k <= 8 => UNCHANGED s8
    /\ k <= 9 => UNCHANGED s9
    /\ k <= 10 => UNCHANGED s10
    /\ k <= 11 => UNCHANGED s11
    /\ k <= 12 => UNCHANGED s12
    /\ k <= 13 => UNCHANGED s13
=============================================================================
