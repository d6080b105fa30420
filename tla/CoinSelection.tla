---------------------------- MODULE CoinSelection ----------------------------
(***************************************************************************)
(* How the provider selects inventory for a quote (select_inventory): one  *)
(* exact coin, else the smallest sufficient coin, else the largest coins   *)
(* first, else a search for an exact subset under a node budget.  Change   *)
(* must be zero or at least the pair's minimum.                            *)
(***************************************************************************)
EXTENDS QuotePricing

\* A mutant: change of any size is accepted.
SufficientTotal(total, required, limits) == total >= required

ValidSelectedTotal(total, required, limits) ==
    \/ total = required
    \/ total >= required /\ total - required >= limits.minimumChange

TotalOf(coins) == SumOver(DOMAIN coins, LAMBDA i : coins[i].amount)
ByOutpoint(S) == SetToSortSeq(S, LAMBDA a, b : a.outpoint < b.outpoint)
SmallestFirst(S) ==
    SetToSortSeq(S, LAMBDA a, b : \/ a.amount < b.amount
                                  \/ a.amount = b.amount /\ a.outpoint < b.outpoint)
LargestFirst(S) ==
    SetToSortSeq(S, LAMBDA a, b : \/ a.amount > b.amount
                                  \/ a.amount = b.amount /\ a.outpoint < b.outpoint)

Selected(coins) == [coins |-> Some(ByOutpoint(coins)), error |-> "none"]
NotSelected(error) == [coins |-> None, error |-> error]

-----------------------------------------------------------------------------
(* ExactSubsetSearch *)

\* A node's outcome: found, or not, with the nodes still allowed.
Outcome(found, nodes, exhausted, chosen) ==
    [found |-> found, nodes |-> nodes, exhausted |-> exhausted, chosen |-> chosen]

RECURSIVE Visit(_, _, _, _, _, _, _)
RECURSIVE TryFrom(_, _, _, _, _, _, _, _)

\* visit: choose `slots` more coins from position `start` on.
Visit(coins, required, start, slots, sum, chosen, nodes) ==
    LET n == Len(coins)
        need == required - sum
        maximum == TotalOf(SubSeq(coins, start, start + slots - 1))
        minimum == TotalOf(SubSeq(coins, n - slots + 1, n))
    IN  IF nodes = 0 THEN Outcome(FALSE, 0, TRUE, chosen)
        ELSE IF slots = 0 THEN Outcome(sum = required, nodes - 1, FALSE, chosen)
        ELSE IF \/ n - start + 1 < slots
                \/ sum >= required
                \/ need > maximum \/ need < minimum
        THEN Outcome(FALSE, nodes - 1, FALSE, chosen)
        ELSE TryFrom(coins, required, start, None, slots, sum, chosen, nodes - 1)

\* The loop of visit: coins of equal amount are tried once.
TryFrom(coins, required, index, previous, slots, sum, chosen, nodes) ==
    IF index > Len(coins) - slots + 1 THEN Outcome(FALSE, nodes, FALSE, chosen)
    ELSE LET coin == coins[index]
             next == sum + coin.amount
             skip == TryFrom(coins, required, index + 1, Some(coin.amount), slots, sum, chosen, nodes)
         IN  IF previous = Some(coin.amount) \/ ~ Fits(next) \/ next > required THEN skip
             ELSE LET child == Visit(coins, required, index + 1, slots - 1, next,
                                     chosen \cup {coin}, nodes)
                  IN  IF child.found \/ child.exhausted THEN child
                      ELSE TryFrom(coins, required, index + 1, Some(coin.amount), slots, sum,
                                   chosen, child.nodes)

\* find: subsets of 2, 3, ... coins, sharing one budget.
RECURSIVE FindSubset(_, _, _, _, _)
FindSubset(coins, required, cardinality, maxInputs, nodes) ==
    IF cardinality > Min({maxInputs, Len(coins)}) THEN NotSelected("fragmented")
    ELSE LET found == Visit(coins, required, 1, cardinality, 0, {}, nodes) IN
         IF found.found THEN Selected(found.chosen)
         ELSE IF found.exhausted THEN NotSelected("budget")
         ELSE FindSubset(coins, required, cardinality + 1, maxInputs, found.nodes)

-----------------------------------------------------------------------------
SelectInventory(eligible, asset, required, limits) ==
    LET candidates == {c \in eligible : c.asset = asset}
        exact == {c \in candidates : c.amount = required}
        singletons == {c \in candidates : ValidSelectedTotal(c.amount, required, limits)}
        sorted == LargestFirst(candidates)
        total(k) == TotalOf(SubSeq(sorted, 1, k))
        most == Min({limits.maxInputs, Len(sorted)})
        sufficient == {k \in 1..most : ValidSelectedTotal(total(k), required, limits)}
    IN  IF exact # {} THEN Selected({ByOutpoint(exact)[1]})
        ELSE IF singletons # {} THEN Selected({SmallestFirst(singletons)[1]})
        ELSE IF ~ Fits(total(Len(sorted))) THEN NotSelected("overflow")
        ELSE IF total(Len(sorted)) < required THEN NotSelected("insufficient")
        ELSE IF sufficient # {} THEN Selected(ToSet(SubSeq(sorted, 1, Min(sufficient))))
        ELSE IF total(most) < required THEN NotSelected("fragmented")
        ELSE FindSubset(SelectSeq(sorted, LAMBDA c : c.amount <= required),
                        required, 2, limits.maxInputs, limits.nodeBudget)
=============================================================================
