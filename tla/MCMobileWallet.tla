---------------------------- MODULE MCMobileWallet ----------------------------
(* Four credentials, two of them issued at the same time; the first is in     *)
(* the wallet, the fourth is yet to be issued, and the catalog has no service *)
(* for it.  Slots are interchangeable.                                        *)
EXTENDS MobileWallet, TLC

FourCreds == 1 .. 4
IssueTimes == <<1, 2, 2, 3>>
Catalog == [s \in Services |-> {1, 2, 3}]
AllLimits == {-1, 9}
TwoPages == {1, 2}

Symmetry == Permutations(Slots)
===============================================================================
