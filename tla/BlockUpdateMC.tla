---------------------------- MODULE BlockUpdateMC ----------------------------
(* A small instance of BlockUpdate: three transfers that write blocks 1-2, *)
(* 3 and 4; block 5 holds nothing useful in the target, block 6 is         *)
(* `extended`, block 7 exists in the source only.                          *)
EXTENDS BlockUpdate

CONSTANTS t1, t2, t3, z, a, b, c

MCTransfers == {t1, t2, t3}
MCTgt == {(t1 :> {1, 2}) @@ (t2 :> {3}) @@ (t3 :> {4})}
MCSrc == [MCTransfers -> {{}, {1, 2}, {1, 3}, {2, 4, 5}, {3, 7}}]
MCZero == {{}, {t2}}

(* One image in which blocks differ, and one in which most stashes share   *)
(* their content; reading blocks 1 and 3 is a move for t1.                 *)
MCSrcImages == {<<a, b, z, z, a, b, c>>, <<a, a, z, a, a, a, a>>}
MCTgtImages == {<<a, z, z, b, a, a, a>>}
=============================================================================
