------------------------------ MODULE RfqWallet ------------------------------
(***************************************************************************)
(* The provider's hot wallet: the encrypted keystore, the authenticated    *)
(* locators that name its keys, the destinations they lead to, and the     *)
(* outputs it recognises as its own.                                       *)
(*                                                                         *)
(* Cryptography is symbolic.  Ciphertext carries what decrypts it, a tag   *)
(* carries its key and its message, and a derived key carries everything   *)
(* it is derived from, so that two are equal only when all of that is.     *)
(***************************************************************************)
EXTENDS Pset

-----------------------------------------------------------------------------
(* The records of the provider's wallet boundary *)

\* A confidential tree-less P2TR output the wallet can open and spend.
WalletOwnedOutput(outpoint, utxo, key, locator) ==
    When(/\ outpoint # NullOutpoint
         /\ utxo.amount # 0
         /\ utxo.proof # None
         /\ utxo.script = P2tr(key),
         [outpoint |-> outpoint, asset |-> utxo.asset, amount |-> utxo.amount,
          utxo |-> utxo, key |-> key, locator |-> locator])

\* The commitment to everything public about an output.
Binding(coin) == <<coin.outpoint, coin.utxo, coin.key, coin.locator>>

ConfidentialDestination(script, blinding, key, locator) ==
    When(script = P2tr(key), [script |-> script, blinding |-> blinding, key |-> key, locator |-> locator])

-----------------------------------------------------------------------------
(* The keystore *)

Seal(identity, passphrase, entropy, walletId) ==
    When(passphrase # "" /\ walletId # 0,
         [identity |-> identity, walletId |-> walletId, entropy |-> entropy, opensWith |-> passphrase])

Unlock(envelope, identity, passphrase) ==
    When(passphrase # "" /\ envelope.identity = identity /\ envelope.opensWith = passphrase,
         [seed |-> envelope.entropy, identity |-> identity, walletId |-> envelope.walletId])

-----------------------------------------------------------------------------
(* Locators and the keys they name *)

Purposes == {"deposit", "receive", "change"}

\* HMAC under the key derived from the wallet's seed, identity and id.
Tag(w, domain, message) == [wallet |-> w, domain |-> domain, message |-> message]

EncodeLocator(w, purpose, nonce) ==
    [purpose |-> purpose, nonce |-> nonce, tag |-> Tag(w, "locator", <<purpose, nonce>>)]

DecodeLocator(w, locator) ==
    When(/\ locator.purpose \in Purposes
         /\ locator.tag = Tag(w, "locator", <<locator.purpose, locator.nonce>>),
         [purpose |-> locator.purpose, nonce |-> locator.nonce])

SpendKey(w, decoded) == <<w.seed, w.identity, w.walletId, decoded.purpose, decoded.nonce>>
BlindingKey(w, script) == <<w.seed, script>>

DestinationForLocator(w, locator) ==
    UNION {LET key == SpendKey(w, d) IN
           ConfidentialDestination(P2tr(key), BlindingKey(w, P2tr(key)), key, locator) :
           d \in DecodeLocator(w, locator)}

\* The rangeproof of an output rewinds with the blinding key it was made for.
RecoverOwnedOutput(w, locator, outpoint, txout) ==
    UNION {LET key == SpendKey(w, d) IN
           IF txout.script = P2tr(key) /\ txout.proof = Some(BlindingKey(w, P2tr(key)))
           THEN WalletOwnedOutput(outpoint, txout, key, locator) ELSE {} :
           d \in DecodeLocator(w, locator)}
=============================================================================
