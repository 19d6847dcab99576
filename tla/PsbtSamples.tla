---------------------------- MODULE PsbtSamples ----------------------------
(***************************************************************************)
(* Transactions for the model checking of PsbtParser: every pair of an     *)
(* input and an output of the lists below, and transactions of several     *)
(* inputs and outputs, other versions, amounts and times.                  *)
(***************************************************************************)
EXTENDS Integers, Sequences, TLC

CONSTANT NoScript

P == INSTANCE PsbtParser WITH
    Transactions <- {}, MultisigWallets <- {}, NoDescriptor <- NoScript, Account <- <<1>>, Lookahead <- 1,
    MaxMoney <- 0, MaxFeeRate <- 0, Clock <- 0, Later <- 0, tx <- 0, signKey <- 0, descriptor <- 0, stage <- 0,
    verdict <- 0, policy <- 0, prefixes <- 0, maxIndex <- 0, scope <- 0, kinds <- 0, risks <- 0

Us(path) == [by |-> "us", at |-> path]
Them(path) == [by |-> "them", at |-> path]
Third(path) == [by |-> "third", at |-> path]
Claim(k, fp, path, form) == [key |-> k, fp |-> fp, path |-> path, form |-> form]
True(k) == Claim(k, k.by, k.at, "ecdsa")
Multi(need, keys) == [type |-> "multi", of |-> [need |-> need, keys |-> keys]]
Other(type, keys) == [type |-> type, of |-> [need |-> 0, keys |-> keys]]
Nothing(type) == [type |-> type, of |-> NoScript]

Out(pays, claims) ==
    [pays |-> pays, redeem |-> NoScript, witness |-> NoScript, claims |-> claims, value |-> 1000]
In(out) == [out EXCEPT !.value = 3000] @@ [utxo |-> {"previous"}, flaws |-> {}, sighash |-> "all", seq |-> "rbf"]
Wsh(w, claims) == [Out(P!P2wsh(w), claims) EXCEPT !.witness = w]
Nested(w, claims) == [Out(P!P2sh(P!P2wsh(w)), claims) EXCEPT !.witness = w, !.redeem = P!P2wsh(w)]
Legacy(w, claims) == [Out(P!P2sh(w), claims) EXCEPT !.redeem = w]
NestedKey(k, claims) == [Out(P!P2sh(P!P2wpkh(k)), claims) EXCEPT !.redeem = P!P2wpkh(k)]

\* Places: of the account, of its change branch, past the gap, of another
\* branch, of another account, below another level.
received == <<1, 0, 0>>
change == <<1, 1, 1>>
places == {received, change, <<1, 1, 2>>, <<1, 2, 0>>, <<2, 1, 0>>, <<1, 7, 1, 0>>}
Pair(path) == <<Us(path), Them(path)>>
Both(path) == {Us(path), Them(path)}
Claims(keys) == [j \in DOMAIN keys |-> True(keys[j])]
Taproot(k, form) == Claim(k, k.by, k.at, form)

plainIn == In(Out(P!P2wpkh(Us(received)), <<True(Us(received))>>))
pairIn == In(Wsh(Multi(2, Both(received)), Claims(Pair(received))))
ins == {plainIn, pairIn} \cup
    {In(s) : s \in
        {Out(P!P2pkh(Us(received)), <<True(Us(received))>>),
         Out(P!P2tr(Us(received)), <<Taproot(Us(received), "keypath")>>),
         Out(P!P2tr(Us(received)), <<Taproot(Us(received), "keypath"), True(Us(received))>>),
         NestedKey(Us(received), <<True(Us(received))>>),
         Out(P!P2wpkh(Us(received)), <<Claim(Us(received), "zero", received, "ecdsa")>>),
         Out(P!P2wpkh(Them(received)), <<True(Them(received))>>),
         Out(P!P2wpkh(Them(received)), <<Claim(Them(received), "us", received, "ecdsa")>>),
         Out(P!P2wpkh(Them(received)), <<True(Us(received))>>),
         Nested(Multi(1, Both(received)), Claims(Pair(received))),
         Legacy(Multi(1, Both(received)), Claims(Pair(received))),
         Legacy(Other("script", Both(received)), Claims(Pair(received))),
         Wsh(Other("locked", Both(received)), Claims(Pair(received)))}}

outs ==
    {Out(P!P2wpkh(Us(at)), <<True(Us(at))>>) : at \in places}
    \cup {Out(P!P2wpkh(Us(change)), <<>>),
          Out(P!P2wpkh(Us(change)), <<Claim(Us(change), "zero", change, "ecdsa")>>),
          Out(P!P2wpkh(Us(change)), <<Claim(Us(change), "them", change, "ecdsa")>>),
          Out(P!P2wpkh(Us(change)), <<Claim(Us(change), "us", <<2, 1, 1>>, "ecdsa")>>),
          Out(P!P2wpkh(Us(change)), <<True(Us(change)), True(Us(received))>>),
          Out(P!P2wpkh(Us(change)), <<Claim(Them(<<2, 1, 1>>), "them", <<2, 1, 1>>, "ecdsa")>>),
          Out(P!P2wpkh(Them(change)), <<True(Us(change))>>),
          Out(P!P2wpkh(Them(change)), <<True(Them(change))>>),
          Out(P!P2wpkh(Them(change)), <<>>),
          Out(P!P2pkh(Us(change)), <<True(Us(change))>>),
          Out(P!P2pkh(Them(change)), <<True(Us(change))>>),
          Out(P!P2tr(Us(change)), <<Taproot(Us(change), "keypath")>>),
          Out(P!P2tr(Us(change)), <<Taproot(Us(change), "keypath"), Taproot(Us(received), "keypath")>>),
          Out(P!P2tr(Them(change)), <<Taproot(Us(change), "leaf")>>),
          Out(P!P2tr(Us(change)), <<True(Us(change)), Taproot(Us(change), "keypath")>>),
          NestedKey(Us(change), <<True(Us(change))>>),
          [NestedKey(Them(change), <<True(Us(change))>>) EXCEPT !.redeem = NoScript],
          NestedKey(Them(change), <<True(Us(change))>>),
          Out(Nothing("data"), <<>>), [Out(Nothing("data"), <<>>) EXCEPT !.value = 0],
          Out(Nothing("odd"), <<>>), Out(Nothing("empty"), <<>>)}
    \cup {Wsh(Multi(2, Both(at)), Claims(Pair(at))) : at \in places}
    \cup {Wsh(Multi(2, Both(change)), <<>>),
          Wsh(Multi(1, Both(change)), Claims(Pair(change))),
          Wsh(Multi(2, {Us(change), Them(<<3, 1, 1>>)}), <<True(Us(change)), True(Them(<<3, 1, 1>>))>>),
          Wsh(Multi(2, {Us(change), Third(change)}), <<True(Us(change)), True(Third(change))>>),
          Wsh(Multi(2, {Them(received), Them(change)}), <<True(Us(change)), True(Them(change))>>),
          [Wsh(Multi(2, Both(change)), Claims(Pair(change))) EXCEPT !.witness = Multi(2, Both(received))],
          [Wsh(Multi(2, Both(change)), Claims(Pair(change))) EXCEPT !.witness = NoScript],
          Wsh(Other("locked", {Us(change)}), <<True(Us(change))>>),
          Nested(Multi(1, Both(change)), Claims(Pair(change))),
          Legacy(Multi(1, Both(change)), Claims(Pair(change))),
          Legacy(Multi(1, {Them(change)}), <<True(Us(change))>>),
          [Legacy(Multi(1, Both(change)), Claims(Pair(change))) EXCEPT !.redeem = NoScript]}

cosigners == {[by |-> b, fp |-> b, at |-> <<1>>] : b \in {"us", "them"}}
wallet == [need |-> 2, cosigners |-> cosigners]

Tx(i, o) ==
    [version |-> 0, modifiable |-> FALSE, txVersion |-> 2, ins |-> i, outs |-> o, xpubs |-> {},
     locktime |-> 0, reference |-> 0, anchor |-> [height |-> 0, time |-> 0]]
simple == Tx(<<plainIn>>, <<Out(P!P2wpkh(Them(change)), <<>>)>>)
With(xpubs) == [Tx(<<pairIn>>, <<Wsh(Multi(2, Both(change)), Claims(Pair(change)))>>) EXCEPT !.xpubs = xpubs]
Flawed(f) == [simple EXCEPT !.ins = <<f>>]

Samples ==
    {Tx(<<s>>, <<o>>) : s \in ins, o \in outs}
    \cup {[Tx(<<pairIn>>, <<o>>) EXCEPT !.xpubs = cosigners] :
             o \in {e \in outs : e.pays.type = "p2wsh"}}
    \cup {With({[x EXCEPT !.fp = IF x.by = "them" THEN "us" ELSE @] : x \in cosigners}),
          With({[x EXCEPT !.at = <<2>>] : x \in cosigners})}
    \* Several inputs and outputs.
    \cup {Tx(<<plainIn, s>>, <<o, Out(P!P2wpkh(Us(change)), <<True(Us(change))>>)>>) :
             s \in {plainIn, pairIn, In(Out(P!P2wpkh(Us(<<2, 0, 1>>)), <<True(Us(<<2, 0, 1>>))>>))},
             o \in {Out(P!P2wpkh(Us(<<1, 1, 2>>)), <<True(Us(<<1, 1, 2>>))>>), Out(P!P2wpkh(Them(change)), <<>>),
                    [Out(P!P2wpkh(Them(change)), <<>>) EXCEPT !.value = 9000]}}
    \* Versions.
    \cup {[simple EXCEPT !.version = 1]}
    \cup {[simple EXCEPT !.version = 2, !.modifiable = m] : m \in BOOLEAN}
    \cup {[simple EXCEPT !.version = 2, !.outs[1].value = -1], [simple EXCEPT !.outs[1].value = -1], [simple EXCEPT !.outs[1].value = 100],
          [simple EXCEPT !.version = 2, !.outs[1].pays = Nothing("empty")],
          [simple EXCEPT !.version = 2, !.ins[1].flaws = {"outpoint"}]}
    \* Inputs that do not show what they spend.
    \cup {Flawed([plainIn EXCEPT !.utxo = {}]),
          Flawed([plainIn EXCEPT !.flaws = {"txid"}]),
          Flawed([plainIn EXCEPT !.utxo = {"previous", "witness"}, !.flaws = {"utxos"}]),
          Flawed([plainIn EXCEPT !.value = -1]),
          Flawed([plainIn EXCEPT !.sighash = "single"]),
          Flawed([plainIn EXCEPT !.witness = Multi(1, Both(received))]),
          Flawed([pairIn EXCEPT !.witness = NoScript]),
          Flawed([In(Out(P!P2pkh(Us(received)), <<True(Us(received))>>)) EXCEPT !.utxo = {"witness"}]),
          Flawed([In(Legacy(Multi(1, Both(received)), Claims(Pair(received)))) EXCEPT !.utxo = {"witness"}]),
          Flawed([In(NestedKey(Us(received), <<True(Us(received))>>)) EXCEPT !.redeem = NoScript])}
    \* Times.
    \cup {[simple EXCEPT !.locktime = l, !.reference = r, !.anchor = a, !.ins[1].seq = q] :
             l \in {100, 600000000}, r \in {0, 500000000}, q \in {"final", "enabled", "relative"},
             a \in {[height |-> 0, time |-> 0], [height |-> 1, time |-> 500000000]}}
=============================================================================
