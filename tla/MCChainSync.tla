----------------------------- MODULE MCChainSync -----------------------------
(* Instances of ChainSync: trees of blocks named <branch><height>, and the    *)
(* changes that the source may make.                                          *)
EXTENDS ChainSync, TLC

-----------------------------------------------------------------------------
(* Branches b and d leave the trunk one block and no block above the anchor: *)
(* from a3 they are two and three blocks deep.                               *)
ForkBlocks == {"a0", "a1", "a2", "a3", "b2", "b3", "d1", "d2", "d3"}
ForkParent ==
    "a1" :> "a0" @@ "a2" :> "a1" @@ "a3" :> "a2" @@ "b2" :> "a1" @@ "b3" :> "b2"
    @@ "d1" :> "a0" @@ "d2" :> "d1" @@ "d3" :> "d2"
ForkHeight ==
    "a0" :> 0 @@ "a1" :> 1 @@ "a2" :> 2 @@ "a3" :> 3 @@ "b2" :> 2 @@ "b3" :> 3
    @@ "d1" :> 1 @@ "d2" :> 2 @@ "d3" :> 3

\* Market m is discoverable and n is not.  The branches create and move them in
\* different blocks, together or apart.
ForkTxs == {"create_m", "create_n", "move_n", "move_both", "move_m", "move_n_again"}
ForkCreates == [t \in ForkTxs |->
    CASE t = "create_m" -> {"m"} [] t = "create_n" -> {"n"} [] OTHER -> {}]
ForkSpends == [t \in ForkTxs |-> [c \in {"m", "n"} |->
    CASE t = "move_n" /\ c = "n" -> "create_n"
      [] t \in {"move_both", "move_m"} /\ c = "m" -> "create_m"
      [] t \in {"move_both", "move_n_again"} /\ c = "n" -> "move_n"
      [] OTHER -> Null]]
ForkBody == [b \in ForkBlocks |->
    CASE b = "a1" -> <<"create_n", "move_n">>
      [] b = "a2" -> <<"create_m">>
      [] b = "a3" -> <<"move_both">>
      [] b = "b2" -> <<"move_n_again", "create_m">>
      [] b = "b3" -> <<"move_m">>
      [] b = "d2" -> <<"create_n", "move_n">>
      [] OTHER -> <<>>]

\* The source goes to the end of any branch.
ForkMoves == {<<x, y>> \in ForkBlocks \X {"a3", "b3", "d3"} : x # y}

-----------------------------------------------------------------------------
(* One market that is not discoverable, and a replacement two blocks deep    *)
(* that does not hold its last transition.                                   *)
SplitBlocks == {"a0", "a1", "a2", "a3", "b2", "b3"}
SplitParent ==
    "a1" :> "a0" @@ "a2" :> "a1" @@ "a3" :> "a2" @@ "b2" :> "a1" @@ "b3" :> "b2"
SplitHeight ==
    "a0" :> 0 @@ "a1" :> 1 @@ "a2" :> 2 @@ "a3" :> 3 @@ "b2" :> 2 @@ "b3" :> 3
SplitTxs == {"create", "move"}
SplitCreates == [t \in SplitTxs |-> IF t = "create" THEN {"n"} ELSE {}]
SplitSpends == [t \in SplitTxs |-> [c \in {"n"} |-> IF t = "move" THEN "create" ELSE Null]]
SplitBody == [b \in SplitBlocks |->
    CASE b = "a1" -> <<"create">> [] b = "a3" -> <<"move">> [] OTHER -> <<>>]

SplitMoves == {<<x, y>> \in SplitBlocks \X SplitBlocks :
                  x # y /\ SplitHeight[y] >= SplitHeight[x]}

-----------------------------------------------------------------------------
(* One market that is not discoverable and moves in every block, and two     *)
(* tips that compete.                                                        *)
RaceBlocks == {"a0", "a1", "a2", "a3", "b3"}
RaceParent == "a1" :> "a0" @@ "a2" :> "a1" @@ "a3" :> "a2" @@ "b3" :> "a2"
RaceHeight == "a0" :> 0 @@ "a1" :> 1 @@ "a2" :> 2 @@ "a3" :> 3 @@ "b3" :> 3
RaceTxs == {"create", "move", "move_again"}
RaceCreates == [t \in RaceTxs |-> IF t = "create" THEN {"n"} ELSE {}]
RaceSpends == [t \in RaceTxs |-> [c \in {"n"} |->
    CASE t = "move" -> "create" [] t = "move_again" -> "move" [] OTHER -> Null]]
RaceBody == [b \in RaceBlocks |->
    CASE b = "a1" -> <<"create">> [] b = "a2" -> <<"move">> [] b = "a3" -> <<"move_again">>
      [] OTHER -> <<>>]

RaceMoves == {<<x, y>> \in RaceBlocks \X RaceBlocks :
                 x # y /\ RaceHeight[y] >= RaceHeight[x]}

\* A source that may also go back, to an ancestor of its tip.
RaceFallsBack == {<<x, y>> \in RaceBlocks \X RaceBlocks : x # y}
=============================================================================
