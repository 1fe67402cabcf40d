------------------------------ MODULE MCAdc333 ------------------------------
(* Instances of Adc333 for TLC.                                            *)
EXTENDS Adc333

(* Two channels with gains of their own, and all three: 3 does not divide  *)
(* a memory of four words, as it does not divide 65536.                    *)
Arguments == {[c \in 0..2 |-> s[c + 1]] : s \in {<<1, 0, 2>>, <<1, 1, 1>>}}
=============================================================================
