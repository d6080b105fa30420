---------------------------- MODULE MarketReplay ----------------------------
(***************************************************************************)
(* The client's validation of what a node reports about a market           *)
(* (deadcat-client/src/validation.rs).  A response is                      *)
(*                                                                         *)
(*   [state, live, creation, entries, evidence, anchor]                    *)
(*                                                                         *)
(* live: a set of [role, outpoint]; creation and evidence[k]: [pos, tx];   *)
(* entries[k]: [pos, kind, payload]; anchor: the height of the snapshot.   *)
(* The client trusts its own chain, one transaction per height.            *)
(***************************************************************************)
EXTENDS MarketBuilder, Functions

-----------------------------------------------------------------------------
(* validate_contract_view *)

LiveRoles(live) == {item.role : item \in live}
OutpointOf(live, role) == (CHOOSE item \in live : item.role = role).outpoint

ExpectedRoles(state) ==
    CASE state.phase = "Trading" -> Range(InputSlots(CoordinatorSlot(state)))
      [] state.phase # "Trading" /\ state.amount = 0 -> {}
      [] OTHER -> {CollateralSlot(state)}

ValidateMarketLiveShape(state, live) ==
    /\ Cardinality(LiveRoles(live)) = Cardinality(live)
    /\ Cardinality({item.outpoint : item \in live}) = Cardinality(live)
    /\ LiveRoles(live) = ExpectedRoles(state)
    /\ state = Trading(0) => \A a, b \in live : a.outpoint[1] = b.outpoint[1]
    /\ (state.phase = "Trading" /\ state.amount > 0) =>
          LET yes == OutpointOf(live, "UnresolvedYesRt")
          IN /\ OutpointOf(live, "UnresolvedNoRt") = <<yes[1], yes[2] + 1>>
             /\ OutpointOf(live, "UnresolvedCollateral") = <<yes[1], yes[2] + 2>>

ValidateContractView(r) ==
    /\ r.anchor >= r.creation.pos
    /\ ValidateState(r.state)
    /\ ValidateMarketLiveShape(r.state, r.live)

-----------------------------------------------------------------------------
(* Evidence *)

ValidateEvidence(evidence, chain, trusted) ==
    /\ evidence.pos \in DOMAIN chain
    /\ chain[evidence.pos] = evidence.tx
    /\ evidence.pos <= trusted

ValidateHistory(r, chain, trusted) ==
    /\ Len(r.entries) = Len(r.evidence)
    /\ \A k \in DOMAIN r.entries :
          /\ r.entries[k].pos > (IF k = 1 THEN r.creation.pos ELSE r.entries[k - 1].pos)
          /\ r.entries[k].pos = r.evidence[k].pos
          /\ ValidateEvidence(r.evidence[k], chain, trusted)

-----------------------------------------------------------------------------
(* Replay *)

\* The inputs whose new issuance derives the assets of a defining outpoint.
IsNewIssuance(in) == in.issuance.nonce = "new" /\ in.issuance.amount = 0 /\ in.issuance.keys = 1
DefiningInputs(tx, outpoint) ==
    {i \in DOMAIN tx.ins : IsNewIssuance(tx.ins[i]) /\ tx.ins[i].prev = outpoint}
UniqueMarketOutput(tx, slot, leg) ==
    LET at == {o \in DOMAIN tx.outs : tx.outs[o] = RtOutput(slot, leg, "A")}
    IN IF Cardinality(at) = 1 THEN at ELSE {}

\* encode_market_transition: the record of a history entry.
EncodeTransition(path, applied) ==
    LET a == applied.action IN
    [kind |-> a.op,
     payload |-> <<path,
                   IF a.op \in {"Resolve", "Redeem"} THEN a.outcome ELSE "none",
                   IF a.op \in {"Issue", "Cancel", "Redeem"} THEN a.qty ELSE 0,
                   applied.collateral,
                   a.op \in {"Cancel", "Redeem"} /\ applied.whole>>]

\* market_live_outpoints
LiveOutpoints(live) ==
    {[role |-> item.txout.script, outpoint |-> item.outpoint]
        : item \in live.yes_rt \cup live.no_rt \cup live.collateral}

\* Where the replay of the first n entries ends; none after an error.
ReplayFrom(r, start) ==
    LET step[n \in 0 .. Len(r.entries)] ==
            IF n = 0 THEN {start}
            ELSE UNION {{[state |-> i.after, live |-> LiveFromContinuations(i.continuations)]
                           : i \in {j \in Interpret(at.state, at.live, r.evidence[n].tx) :
                                       EncodeTransition(j.path, j.applied)
                                         = [kind |-> r.entries[n].kind,
                                            payload |-> r.entries[n].payload]}}
                         : at \in step[n - 1]}
    IN step[Len(r.entries)]

CreationStart(tx) ==
    IF /\ Cardinality(DefiningInputs(tx, Params.yes)) = 1
       /\ Cardinality(DefiningInputs(tx, Params.no)) = 1
       /\ DefiningInputs(tx, Params.yes) # DefiningInputs(tx, Params.no)
    THEN {[state |-> Trading(0),
           live |-> [yes_rt |-> {Tracked(tx, yes)}, no_rt |-> {Tracked(tx, no)}, collateral |-> {}]]
           : yes \in UniqueMarketOutput(tx, "DormantYesRt", "YES"),
             no \in UniqueMarketOutput(tx, "DormantNoRt", "NO")}
    ELSE {}

\* A mutant: the reported live outputs are not compared with the replayed ones.
ReplayAcceptsAnyLive(r, contract, chain, trusted) ==
    /\ ValidateContractView(r)
    /\ r.anchor = trusted
    /\ ValidateEvidence(r.creation, chain, trusted)
    /\ r.creation.tx.id = contract[1]
    /\ ValidateHistory(r, chain, trusted)
    /\ \E start \in CreationStart(r.creation.tx) :
          /\ contract = The(start.live.yes_rt).outpoint
          /\ \E end \in ReplayFrom(r, start) : r.state = end.state

\* replay_contract_history; `contract` is the id the client asked for.
ReplayAccepts(r, contract, chain, trusted) ==
    /\ ValidateContractView(r)
    /\ r.anchor = trusted
    /\ ValidateEvidence(r.creation, chain, trusted)
    /\ r.creation.tx.id = contract[1]
    /\ ValidateHistory(r, chain, trusted)
    /\ \E start \in CreationStart(r.creation.tx) :
          /\ contract = The(start.live.yes_rt).outpoint
          /\ \E end \in ReplayFrom(r, start) :
                /\ r.state = end.state
                /\ r.live = LiveOutpoints(end.live)
=============================================================================
