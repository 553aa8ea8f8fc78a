------------------------------- MODULE MCMmBoot -------------------------------
(* Four KILO pages to a MEGA page and four of those to a GIGA page, three   *)
(* GIGA pages of space.  mm's program lies at the start of a GIGA page,     *)
(* runs up to the middle or the end of one, or lies in that of the stack.   *)
(* Two of the RAM regions are of one size, and the kernel names them in     *)
(* another order than that of their addresses; the device tree crosses from *)
(* the second to the third.                                                 *)
EXTENDS MmBoot, TLC

MCRegion   == {"low", "small", "mid", "big"}
MCAddr     == "low" :> 1 @@ "small" :> 13 @@ "mid" :> 25 @@ "big" :> 44
MCSize     == "low" :> 12 @@ "small" :> 12 @@ "mid" :> 15 @@ "big" :> 48
MCMemCaps  == <<"mid", "small", "low", "big">>
MCUsed     == [MCRegion -> {0, 1, 3}] \cup
              {"low" :> l @@ "small" :> 12 @@ "mid" :> 15 @@ "big" :> b :
                 l \in 0 .. 5, b \in 0 .. 36}
MCRequests == {<<3, 0>>, <<6, 2>>, <<8, 8>>}
MCPageSize == 0 :> 1 @@ 1 :> 4 @@ 2 :> 16
MCObject   == [cap_space |-> <<2, 2>>, page_table |-> <<2, 2>>,
               task |-> <<3, 1>>, endpoint |-> <<1, 1>>]
MCElves    == {<<16, 1>>, <<20, 3>>, <<20, 4>>, <<28, 2>>, <<36, 1>>}
=============================================================================
