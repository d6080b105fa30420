-------------------------------- MODULE Pset --------------------------------
(***************************************************************************)
(* Partially signed Elements transactions (PSETs) as the client's composer *)
(* and the provider's blinding, validation and signing code use them.  The *)
(* type belongs to the elements library: this module is its model, written *)
(* from the calls the repository makes.                                    *)
(*                                                                         *)
(* An option is a set of at most one element, and so is the result of a    *)
(* fallible function: empty for an error.  A commitment stands for the     *)
(* commitments and proofs that blinding writes together; a signature       *)
(* carries the message it signs; fields the code only requires to be       *)
(* absent are names in the set `extras`.                                   *)
(***************************************************************************)
EXTENDS Naturals, Sequences, FiniteSetsExt

CONSTANTS U64Max        \* the largest amount a u64 holds

ASSUME AmountAssumption == U64Max \in Nat \ {0}

None == {}
Some(x) == {x}
When(ok, result) == IF ok THEN {result} ELSE {}
The(S) == CHOOSE x \in S : TRUE
Fits(n) == n <= U64Max

SumOver(S, f(_)) == MapThenSumSet(f, S)

-----------------------------------------------------------------------------
(* Scripts, outputs and outpoints *)

Script(kind, key) == [kind |-> kind, key |-> key]
P2tr(key) == Script("p2tr", key)
FeeScript == Script("empty", <<>>)
IsWitnessProgram(s) == s.kind \in {"p2tr", "covenant"}
IsProvablyUnspendable(s) == s.kind = "return"
IsOversized(s) == s.kind = "oversized"

\* An outpoint is a number, and 0 the null, peg-in or issuance outpoint.
NullOutpoint == 0

\* A confidential output: its opening, its script and its rangeproof.
TxOut(asset, amount, script, proof) ==
    [asset |-> asset, amount |-> amount, script |-> script, proof |-> proof]

\* What a TxOut keeps inside PSET_IN_WITNESS_UTXO: the witness is not encoded.
Body(txout) == [txout EXCEPT !.proof = None]

ZeroLock == [unit |-> "height", value |-> 0]

-----------------------------------------------------------------------------
(* PSET inputs and outputs *)

NewInput(outpoint, utxo, sequence) ==
    [outpoint |-> outpoint, utxo |-> Some(utxo), proof |-> utxo.proof, sequence |-> sequence,
     key |-> None, sighash |-> None, sig |-> None, witness |-> None, extras |-> {}]

NewOutput(asset, amount, script, key, blinder) ==
    [asset |-> asset, amount |-> amount, script |-> script, key |-> key,
     blinder |-> blinder, comm |-> None, extras |-> {}]

NewPset(inputs, outputs, locktime) ==
    [inputs |-> inputs, outputs |-> outputs, locktime |-> locktime, scalars |-> 0, extras |-> {}]

\* Serialization to another party: input witnesses are dropped.
HandOff(pset) ==
    [pset EXCEPT !.inputs = [i \in DOMAIN @ |->
        [@[i] EXCEPT !.utxo = {Body(t) : t \in @}]]]

\* What extract_tx keeps of an output: the commitment once there is one.
TxOutput(o) ==
    [script |-> o.script, comm |-> o.comm,
     clear |-> IF o.comm = None THEN Some(<<o.asset, o.amount>>) ELSE None]

ExtractTx(pset) ==
    [ins |-> [i \in DOMAIN pset.inputs |->
                 [outpoint |-> pset.inputs[i].outpoint, sequence |-> pset.inputs[i].sequence]],
     outs |-> [o \in DOMAIN pset.outputs |-> TxOutput(pset.outputs[o])],
     locktime |-> pset.locktime]

-----------------------------------------------------------------------------
(* Collaborative blinding *)

\* The holder of the openings of the inputs `mine` blinds its outputs.
Blinded(pset, mine, balancing) ==
    LET blind(o) == IF o.comm = None /\ o.blinder # None /\ o.blinder \subseteq mine
                    THEN [o EXCEPT !.comm = Some([asset |-> o.asset, amount |-> o.amount,
                                                  nonce |-> o.key, balancing |-> balancing])]
                    ELSE o
    IN  [pset EXCEPT !.outputs = [o \in DOMAIN @ |-> blind(@[o])]]

BlindNonLast(pset, mine) ==
    LET blinded == Blinded(pset, mine, FALSE) IN
    When(blinded # pset, [blinded EXCEPT !.scalars = @ + 1])

BlindLast(pset, mine) ==
    LET blinded == Blinded(pset, mine, TRUE) IN
    When(blinded # pset, [blinded EXCEPT !.scalars = 0])

OpenedBy(out, key) == {<<c.asset, c.amount>> : c \in {k \in out.comm : k.nonce = Some(key)}}

\* verify_tx_amt_proofs: every asset balances, and so do the blinding factors.
VerifyAmounts(tx, prevouts) ==
    LET holds(o) == {<<c.asset, c.amount>> : c \in tx.outs[o].comm} \cup tx.outs[o].clear
        assets == {prevouts[i].asset : i \in DOMAIN prevouts}
                  \cup {v[1] : v \in UNION {holds(o) : o \in DOMAIN tx.outs}}
        paid(a) == SumOver(DOMAIN prevouts,
                           LAMBDA i : IF prevouts[i].asset = a THEN prevouts[i].amount ELSE 0)
        got(a) == SumOver(DOMAIN tx.outs,
                          LAMBDA o : IF The(holds(o))[1] = a THEN The(holds(o))[2] ELSE 0)
    IN  /\ \A a \in assets : paid(a) = got(a)
        /\ \E o \in DOMAIN tx.outs : \E c \in tx.outs[o].comm : c.balancing

-----------------------------------------------------------------------------
(* Signatures and size *)

\* The SIGHASH_ALL message: the whole transaction and the prevouts it spends.
Sighash(tx, prevouts, index, genesis) ==
    [tx |-> tx, prevouts |-> [i \in DOMAIN prevouts |-> Body(prevouts[i])],
     index |-> index, genesis |-> genesis]

Sign(key, tx, prevouts, index, genesis) ==
    [key |-> key, hashType |-> "all", msg |-> Sighash(tx, prevouts, index, genesis)]

VerifySignature(sig, key, tx, prevouts, index, genesis) ==
    sig.key = key /\ sig.msg = Sighash(tx, prevouts, index, genesis)

\* Sizes grow with the parts of the transaction and with its witnesses.
Weight(pset) ==
    4 * (Len(pset.inputs) + Len(pset.outputs))
    + Cardinality({i \in DOMAIN pset.inputs : pset.inputs[i].witness # None})
Vsize(pset) == (Weight(pset) + 3) \div 4
DiscountVsize(pset) == Len(pset.inputs) + Len(pset.outputs)
PayloadSize(pset) == Weight(pset) + Cardinality({i \in DOMAIN pset.inputs : pset.inputs[i].sig # None})
=============================================================================
