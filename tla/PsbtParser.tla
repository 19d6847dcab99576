----------------------------- MODULE PsbtParser -----------------------------
(***************************************************************************)
(* What models/psbt_parser.py makes of a transaction for one key: the      *)
(* checks in the order of parse, of which the first one that fails gives   *)
(* the verdict, what each output is shown as, and the warnings.            *)
(*                                                                         *)
(* A key is who holds its secret, "us" or "them", and the path at which it *)
(* is derived.  A script is a type and what it commits to, so that a hash  *)
(* commits to one script.  A claim is a derivation entry of an input or an *)
(* output: it names a key, a fingerprint and a path, and need not be true. *)
(***************************************************************************)
EXTENDS Integers, SequencesExt, FiniteSetsExt

CONSTANTS
    Transactions,     \* see IsTransaction for their fields
    MultisigWallets,  \* multisig wallets whose descriptor may be loaded
    NoDescriptor,
    NoScript,    \* a script that is not given
    Account,     \* the path of an account whose key is known and whose seed is not
    Lookahead,   \* setting: change indexes past those of the inputs, 0 for any
    MaxMoney,
    MaxFeeRate,  \* setting
    Clock,       \* time.time()
    Later        \* FAR_FUTURE_LOCKTIME_SECONDS

VARIABLES
    tx,
    signKey,     \* "seed", "account" or "wif"
    descriptor,  \* multisig_descriptor
    stage,       \* the next check
    verdict,     \* "ok", or the RejectCode that was raised, or "crash"
    policy, prefixes, maxIndex,
    scope,       \* the input or output that is parsed
    kinds,       \* what the outputs so far are
    risks

parserVars == <<tx, signKey, descriptor, stage, verdict, policy, prefixes, maxIndex, scope, kinds, risks>>

\* Scripts.
P2pkh(k) == [type |-> "p2pkh", of |-> k]
P2wpkh(k) == [type |-> "p2wpkh", of |-> k]
P2tr(k) == [type |-> "p2tr", of |-> k]
P2sh(s) == [type |-> "p2sh", of |-> s]
P2wsh(s) == [type |-> "p2wsh", of |-> s]
Nonstandard == {"multi", "script", "locked", "data", "odd", "empty"}  \* script_type() is None
KeysIn(s) == IF s # NoScript /\ s.type \in {"multi", "script", "locked"} THEN s.of.keys ELSE {}
IsMulti(s) == s # NoScript /\ s.type = "multi"

Prefix(path) == SubSeq(path, 1, Len(path) - 2)
Branch(path) == path[Len(path) - 1]
Index(path) == path[Len(path)]

HasTree == signKey # "wif"                       \* can_verify_derivations
rootPath == IF signKey = "account" THEN Account ELSE <<>>
Own(path) == [by |-> "us", at |-> path]
Owns(c) == IsPrefix(rootPath, c.path) /\ c.key = Own(c.path)

Ecdsa(s) == {c \in ToSet(s.claims) : c.form = "ecdsa"}
Taproot(s) == ToSet(s.claims) \ Ecdsa(s)
SeedClaims(s) == {c \in ToSet(s.claims) : c.fp = "us"}

\* What transactions are: the claims name paths, and so do extended keys.
OutputFields == {"pays", "redeem", "witness", "claims", "value"}
InputFields == OutputFields \cup {"utxo", "flaws", "sighash", "seq"}
IsSequence(s) == s \in Seq(ToSet(s))
IsScope(s) ==
    /\ s.pays # NoScript /\ s.pays.type \in {"p2pkh", "p2wpkh", "p2tr", "p2sh", "p2wsh"} \cup Nonstandard
    /\ IsSequence(s.claims)
    /\ \A c \in ToSet(s.claims) : DOMAIN c = {"key", "fp", "path", "form"} /\ c.path \in Seq(Nat)
IsTransaction(t) ==
    /\ DOMAIN t = {"version", "modifiable", "txVersion", "ins", "outs", "xpubs", "locktime", "reference", "anchor"}
    /\ IsSequence(t.ins) /\ \A s \in ToSet(t.ins) : IsScope(s) /\ DOMAIN s = InputFields
    /\ IsSequence(t.outs) /\ \A s \in ToSet(t.outs) : IsScope(s) /\ DOMAIN s = OutputFields
    /\ \A x \in t.xpubs : x.at \in Seq(Nat)

ASSUME TransactionsAssumption ==
    /\ \A t \in Transactions : IsTransaction(t)
    /\ \A w \in MultisigWallets : \A x \in w.cosigners : x.at \in Seq(Nat)
    /\ Account \in Seq(Nat) /\ Lookahead \in Nat

\* The first check that fails gives the code.
Code(fails, code) == IF fails THEN code ELSE "ok"
First(codes) ==
    LET bad == {j \in DOMAIN codes : codes[j] # "ok"}
    IN IF bad = {} THEN "ok" ELSE codes[Min(bad)]
OfAll(scopes, CodeOf(_)) == First([j \in DOMAIN scopes |-> CodeOf(scopes[j])])
InRange(value) == value \in 0..MaxMoney

VersionCode ==
    First(<<Code(tx.version \notin {0, 2}, "UNSUPPORTED_PSBT_VERSION"),
            Code(tx.version = 2 /\ tx.modifiable, "TX_MODIFIABLE"),
            Code(tx.version = 2 /\ \E s \in ToSet(tx.ins) : "outpoint" \in s.flaws, "MISSING_UTXO"),
            IF tx.version # 2 THEN "ok"
            ELSE OfAll(tx.outs, LAMBDA s : First(<<Code(~InRange(s.value), "AMOUNT_OUT_OF_RANGE"),
                                                   Code(s.pays.type = "empty", "UNDISPLAYABLE_OUTPUT")>>))>>)

\* A fingerprint of zeros becomes ours where the key is ours.
Filled(s) ==
    [s EXCEPT !.claims = [j \in DOMAIN s.claims |->
        IF s.claims[j].fp = "zero" /\ Owns(s.claims[j])
        THEN [s.claims[j] EXCEPT !.fp = "us"] ELSE s.claims[j]]]
FilledAll(scopes) == [j \in DOMAIN scopes |-> Filled(scopes[j])]

Forged(s) == \E c \in SeedClaims(s) : ~Owns(c)
ClaimsCode ==
    First(<<Code(\E s \in ToSet(tx.outs) : Forged(s), "FORGED_OUTPUT_OWNERSHIP"),
            Code(\E s \in ToSet(tx.ins) : Forged(s), "FORGED_INPUT_OWNERSHIP")>>)

MixedMaps(s) ==
    Code(SeedClaims(s) \cap Ecdsa(s) # {} /\ SeedClaims(s) \cap Taproot(s) # {}, "MIXED_DERIVATION_MAPS")
IsSingleKey(s) ==
    \/ s.pays.type \in {"p2pkh", "p2wpkh"}
    \/ s.pays.type = "p2sh" /\ s.redeem # NoScript /\ s.redeem.type = "p2wpkh"
Surplus(s) ==
    \/ IsSingleKey(s) /\ Cardinality(SeedClaims(s) \cap Ecdsa(s)) > 1
    \/ s.pays.type = "p2tr" /\ Cardinality({c \in SeedClaims(s) : c.form = "keypath"}) > 1
ShapesCode ==
    First(<<OfAll(tx.outs, LAMBDA s : First(<<MixedMaps(s), Code(Surplus(s), "SURPLUS_DERIVATIONS")>>)),
            OfAll(tx.ins, MixedMaps)>>)

\* Whether what is known of an output's script rules the key out.
PaysAnother(s, k) ==
    CASE s.pays.type = "p2wpkh" -> s.pays # P2wpkh(k)
      [] s.pays.type = "p2pkh" -> s.pays # P2pkh(k)
      [] s.pays.type = "p2wsh" -> s.witness # NoScript /\ (P2wsh(s.witness) # s.pays \/ k \notin KeysIn(s.witness))
      [] s.pays.type = "p2sh" ->
            /\ s.pays # P2sh(P2wpkh(k)) /\ s.redeem # NoScript
            /\ \/ P2sh(s.redeem) # s.pays
               \/ s.redeem.type = "p2wpkh"
               \/ IF s.redeem.type = "p2wsh"
                  THEN P2wsh(s.witness) # s.redeem \/ k \notin KeysIn(s.witness)
                  ELSE k \notin KeysIn(s.redeem)
      [] OTHER -> FALSE
ScriptsCode ==
    Code(\E s \in ToSet(tx.outs) : \E c \in SeedClaims(s) \cap Ecdsa(s) : PaysAnother(s, c.key),
         "FORGED_OUTPUT_OWNERSHIP")

LabelsCode ==
    Code(\E s \in ToSet(tx.outs) : \E c \in ToSet(s.claims) : c.fp # "us" /\ Owns(c),
         "MISLABELED_OUTPUT_OWNERSHIP")

SignableCode == Code(\A s \in ToSet(tx.ins) : SeedClaims(s) = {}, "SEED_CANNOT_SIGN")

\* What the input shows of the output it spends.
InputCode(s) ==
    LET isP2sh == s.pays.type = "p2sh"
        redeemed == IF isP2sh /\ s.redeem # NoScript THEN s.redeem ELSE s.pays
    IN First(<<Code(s.utxo = {}, "MISSING_UTXO"),
               Code("previous" \in s.utxo /\ {"txid", "vout"} \cap s.flaws # {}, "UTXO_MISMATCH"),
               Code(s.utxo = {"previous", "witness"} /\ "utxos" \in s.flaws, "UTXO_MISMATCH"),
               Code(~InRange(s.value), "AMOUNT_OUT_OF_RANGE"),
               Code(s.sighash \notin IF s.pays.type = "p2tr" THEN {"none", "all", "default"} ELSE {"none", "all"},
                    "UNSUPPORTED_SIGHASH"),
               Code("witness" \in s.utxo /\ s.pays.type \in {"p2pkh"} \cup Nonstandard, "INVALID_WITNESS_UTXO"),
               Code(isP2sh /\ P2sh(s.redeem) # s.pays, "SCRIPT_HASH_MISMATCH"),
               Code(isP2sh /\ "previous" \notin s.utxo /\ redeemed.type \notin {"p2wpkh", "p2wsh"},
                    "INVALID_WITNESS_UTXO"),
               Code(redeemed.type = "p2wsh" /\ P2wsh(s.witness) # redeemed, "SCRIPT_HASH_MISMATCH"),
               Code(redeemed.type # "p2wsh" /\ s.witness # NoScript, "EXTRANEOUS_WITNESS_SCRIPT")>>)

Commits(s, k) ==
    LET spent == IF s.pays.type = "p2sh" /\ s.redeem # NoScript THEN s.redeem ELSE s.pays
    IN CASE spent.type \in {"p2pkh", "p2wpkh", "p2tr"} -> spent.of = k
         [] spent.type = "p2wsh" -> k \in KeysIn(s.witness)
         [] OTHER -> k \in KeysIn(spent)

\* The claims of an input that are evidence of where the wallet keeps its keys.
Evidence(s) == {c \in ToSet(s.claims) : HasTree /\ c.path # <<>> /\ Owns(c) /\ Commits(s, c.key)}

\* The extended key among those of the transaction from which a key comes.
Derived(x, path) == [by |-> x.by, at |-> x.at \o SubSeq(path, Len(path) - 1, Len(path))]
XpubsOf(s, k) ==
    {x \in tx.xpubs : \E c \in Ecdsa(s) : /\ c.key = k /\ Len(c.path) >= 2
                                          /\ x.fp = c.fp /\ x.at = Prefix(c.path)
                                          /\ Derived(x, c.path) = k}

GetPolicy(s) ==
    LET type == IF s.pays.type \in Nonstandard THEN "none"
                ELSE IF s.pays.type # "p2sh" THEN s.pays.type
                ELSE IF s.witness # NoScript THEN "p2sh-p2wsh"
                ELSE IF s.redeem # NoScript /\ s.redeem.type = "p2wpkh" THEN "p2sh-p2wpkh" ELSE "p2sh"
        inner == IF type \in {"p2wsh", "p2sh-p2wsh"} THEN s.witness
                 ELSE IF type = "p2sh" THEN s.redeem ELSE NoScript
        keys == KeysIn(inner)
        of == [k \in keys |-> CHOOSE x \in XpubsOf(s, k) : TRUE]
    IN IF ~IsMulti(inner) THEN [type |-> type, need |-> 0, total |-> 0, cosigners |-> {}]
       ELSE [type |-> type, need |-> inner.of.need, total |-> Cardinality(keys),
             cosigners |-> IF \E k \in keys : XpubsOf(s, k) = {} THEN {}
                           ELSE {<<x, Cardinality({k \in keys : of[k] = x})>> : x \in {of[k] : k \in keys}}]
IsMultisig == policy.total > 0
NoPolicy == [type |-> "unread", need |-> 0, total |-> 0, cosigners |-> {}]

\* What the key, or the scripts of the output itself, make an output of the
\* inputs' policy pay; crash is a script that the code does not expect there.
Rederived(s) ==
    LET path(claims) == s.claims[Min({j \in DOMAIN s.claims : s.claims[j] \in claims})].path
        first(claims) == Own(rootPath \o SubSeq(path(claims), Len(rootPath) + 1, Len(path(claims))))
    IN CASE policy.type = "p2wsh" -> P2wsh(s.witness)
         [] policy.type = "p2sh-p2wsh" -> P2sh(P2wsh(s.witness))
         [] policy.type = "p2sh" -> P2sh(s.redeem)
         [] policy.type \in {"p2pkh", "p2wpkh", "p2sh-p2wpkh"} /\ HasTree /\ Ecdsa(s) # {} ->
                IF policy.type = "p2pkh" THEN P2pkh(first(Ecdsa(s)))
                ELSE IF policy.type = "p2wpkh" THEN P2wpkh(first(Ecdsa(s))) ELSE P2sh(P2wpkh(first(Ecdsa(s))))
         [] policy.type = "p2tr" /\ HasTree /\ Taproot(s) # {} -> P2tr(first(Taproot(s)))
         [] OTHER -> NoScript
Crashes(s) ==
    \/ GetPolicy(s) = policy /\ policy.type = "none"
    \/ GetPolicy(s) = policy /\ policy.type = "p2wsh" /\ s.witness = NoScript
    \/ GetPolicy(s) = policy /\ policy.type = "p2sh" /\ s.redeem = NoScript
    \/ s.pays.type = "empty"

\* The descriptor derives the output at the place that a claim names.
DescriptorOwns(w, s) ==
    LET here == {c \in Ecdsa(s) : \E x \in w.cosigners : /\ Len(c.path) >= 2 /\ Branch(c.path) \in {0, 1}
                                                          /\ x.fp = c.fp /\ x.at = Prefix(c.path)}
        at(c) == P2wsh([type |-> "multi", of |-> [need |-> w.need, keys |-> {Derived(x, c.path) : x \in w.cosigners}]])
    IN /\ here # {} /\ s.pays.type = "p2wsh"
       /\ \A c \in here : at(c) = s.pays /\ c.key \in s.pays.of.of.keys

LooksLikeChange(s) == GetPolicy(s) = policy /\ Rederived(s) = s.pays
NeedsDescriptor == IsMultisig /\ policy.cosigners = {}
AnyIsIdentified(s) == TRUE                   \* a mutant of IsIdentified
IsIdentified(s) == NeedsDescriptor => descriptor # NoDescriptor /\ DescriptorOwns(descriptor, s)
IsChange(s) == LooksLikeChange(s) /\ IsIdentified(s)

IsReachable(path) ==
    Len(path) >= 2 /\ Branch(path) \in {0, 1} /\ (HasTree => Prefix(path) \in prefixes)
IsTooFar(path) == Lookahead > 0 /\ maxIndex >= 0 /\ path # <<>> /\ Index(path) > maxIndex + Lookahead

OutputCode(s) ==
    First(<<Code(~InRange(s.value), "AMOUNT_OUT_OF_RANGE"),
            Code(Crashes(s), "crash"),
            Code(IsChange(s) /\ \E c \in ToSet(s.claims) : ~IsReachable(c.path), "UNREACHABLE_CHANGE_PATH"),
            Code(IsChange(s) /\ \E c \in ToSet(s.claims) : IsTooFar(c.path), "CHANGE_INDEX_TOO_FAR"),
            Code(s.pays.type = "data" /\ s.value > 0, "NONZERO_OP_RETURN"),
            Code(~IsChange(s) /\ s.pays.type \in Nonstandard \ {"data"}, "UNDISPLAYABLE_OUTPUT")>>)
KindOf(s) ==
    IF s.pays.type = "data" THEN "data"
    ELSE IF IsChange(s) THEN "change"
    ELSE IF LooksLikeChange(s) THEN "unidentified" ELSE "payment"

Total(scopes) == FoldSeq(LAMBDA s, sum : s.value + sum, 0, scopes)
Fee == Total(tx.ins) - Total(tx.outs)

\* Sizes in quarters of a virtual byte.
ScriptLength(s) == IF s = NoScript THEN 34 ELSE 3 + 34 * Cardinality(KeysIn(s))
SignaturesOf(s) == IF IsMulti(s) THEN s.of.need ELSE 1
InputSize(s) ==
    164 +
    CASE s.pays.type = "p2wpkh" -> 108
      [] s.pays.type = "p2tr" -> 66
      [] s.pays.type = "p2wsh" ->
            (IF IsMulti(s.witness) THEN 2 ELSE 1) + 73 * SignaturesOf(s.witness) + 1 + ScriptLength(s.witness)
      [] s.pays.type = "p2sh" /\ s.redeem # NoScript /\ s.redeem.type = "p2wpkh" -> 4 * 23 + 108
      [] s.pays.type = "p2sh" /\ s.redeem # NoScript /\ s.redeem.type = "p2wsh" ->
            4 * 35 + 2 + 73 * SignaturesOf(s.witness) + 1 + ScriptLength(s.witness)
      [] s.pays.type = "p2sh" -> 4 * (2 + 73 * SignaturesOf(s.redeem) + ScriptLength(s.redeem))
      [] OTHER -> 4 * 107
OutputSize(s) ==
    4 * (9 + CASE s.pays.type = "p2wpkh" -> 22 [] s.pays.type = "p2pkh" -> 25
               [] s.pays.type = "p2sh" -> 23 [] OTHER -> 34)
Size ==
    LET witness == \E s \in ToSet(tx.ins) : s.pays.type \in {"p2wpkh", "p2wsh", "p2tr"}
    IN 4 * 10 + (IF witness THEN 2 ELSE 0)
       + FoldSeq(LAMBDA s, sum : InputSize(s) + sum, 0, tx.ins)
       + FoldSeq(LAMBDA s, sum : OutputSize(s) + sum, 0, tx.outs)

IsHighRate == Fee > 0 /\ MaxFeeRate > 0 /\ 4 * Fee >= MaxFeeRate * Size

\* A sequence is "final", "enabled" (no more than that), "rbf" or "relative".
Enforced == \E s \in ToSet(tx.ins) : s.seq # "final"
IsTime == tx.locktime >= 500000000
IsFarFuture ==
    /\ Enforced /\ tx.locktime > 0 /\ tx.reference > 0
    /\ IF IsTime THEN tx.locktime - tx.reference >= Later
       ELSE /\ tx.anchor.height > 0 /\ tx.anchor.time > 0
            /\ tx.anchor.time + (tx.locktime - tx.anchor.height) * 600 - tx.reference >= Later

\* The script of an output, where the transaction shows it.
CommittedScript(s) ==
    IF s.witness # NoScript /\ s.pays \in {P2wsh(s.witness), P2sh(P2wsh(s.witness))} THEN s.witness
    ELSE IF s.redeem # NoScript /\ s.pays = P2sh(s.redeem) THEN s.redeem ELSE NoScript

RiskWarnings ==
    {r \in {"HIGH_FEE", "HIGH_FEE_RATE", "DUST_OUTPUT", "FUTURE_LOCKTIME", "RBF", "LOCKTIME_FAR_FUTURE",
            "RELATIVE_TIMELOCK", "SCRIPT_TIMELOCK"} :
        CASE r = "HIGH_FEE" -> Total(tx.ins) > 0 /\ Fee * 10 >= Total(tx.ins)
          [] r = "HIGH_FEE_RATE" -> IsHighRate
          [] r = "DUST_OUTPUT" -> \E s \in ToSet(tx.outs) : s.pays.type # "data" /\ s.value < 546
          [] r = "FUTURE_LOCKTIME" -> Enforced /\ IsTime /\ tx.locktime > Clock
          [] r = "RBF" -> \E s \in ToSet(tx.ins) : s.seq \in {"rbf", "relative"}
          [] r = "LOCKTIME_FAR_FUTURE" -> IsFarFuture
          [] r = "RELATIVE_TIMELOCK" -> tx.txVersion >= 2 /\ \E s \in ToSet(tx.ins) : s.seq = "relative"
          [] OTHER -> \E s \in ToSet(tx.outs) : CommittedScript(s) # NoScript /\ CommittedScript(s).type = "locked"}

\* A claim and the extended key from which its key comes disagree about whose it is.
FingerprintsCode ==
    Code(\E s \in ToSet(tx.ins) \cup ToSet(tx.outs) : \E c \in Ecdsa(s), x \in tx.xpubs :
            /\ c.fp # "zero" /\ x.fp # "zero" /\ x.fp # c.fp
            /\ Len(c.path) >= 2 /\ x.at = Prefix(c.path) /\ Derived(x, c.path) = c.key,
         "INCONSISTENT_FINGERPRINTS")

-----------------------------------------------------------------------------

ParserTypeOK ==
    /\ signKey \in {"seed", "account", "wif"}
    /\ descriptor \in MultisigWallets \cup {NoDescriptor}
    /\ IsTransaction(tx)
    /\ scope \in 1..(Max({Len(tx.ins), Len(tx.outs)}) + 1)
    /\ Len(kinds) <= Len(tx.outs)
    /\ \A j \in DOMAIN kinds : kinds[j] \in {"data", "change", "unidentified", "payment"}

ParserInit ==
    /\ tx \in Transactions
    /\ signKey \in {"seed", "account", "wif"}
    /\ descriptor \in MultisigWallets \cup {NoDescriptor}
    /\ stage = "version" /\ verdict = "ok"
    /\ policy = NoPolicy /\ prefixes = {} /\ maxIndex = -1
    /\ scope = 1 /\ kinds = <<>> /\ risks = {}

Check(here, next, code) ==
    /\ stage = here
    /\ verdict' = code
    /\ stage' = IF code = "ok" THEN next ELSE "refused"
OfTree(code) == IF HasTree THEN code ELSE "ok"
read == <<policy, prefixes, maxIndex, scope, kinds, risks>>

CheckVersion == Check("version", "fill", VersionCode) /\ UNCHANGED <<tx, signKey, descriptor, read>>

FillMissingFingerprints ==
    /\ Check("fill", "claims", "ok")
    /\ tx' = IF HasTree THEN [tx EXCEPT !.ins = FilledAll(@), !.outs = FilledAll(@)] ELSE tx
    /\ UNCHANGED <<signKey, descriptor, read>>

VerifyClaimedDerivationPaths ==
    Check("claims", "shapes", OfTree(ClaimsCode)) /\ UNCHANGED <<tx, signKey, descriptor, read>>
VerifyClaimShapes == Check("shapes", "scripts", OfTree(ShapesCode)) /\ UNCHANGED <<tx, signKey, descriptor, read>>
VerifyOutputClaims == Check("scripts", "labels", OfTree(ScriptsCode)) /\ UNCHANGED <<tx, signKey, descriptor, read>>
RejectMislabeled == Check("labels", "signable", OfTree(LabelsCode)) /\ UNCHANGED <<tx, signKey, descriptor, read>>
RejectIfSeedCannotSign ==
    Check("signable", "inputs", OfTree(SignableCode)) /\ UNCHANGED <<tx, signKey, descriptor, read>>

ParseInput ==
    LET s == tx.ins[scope]
        last == scope = Len(tx.ins)
        mixed == policy # NoPolicy /\ GetPolicy(s) # policy
    IN /\ scope \in DOMAIN tx.ins
       /\ Check("inputs", IF last THEN "outputs" ELSE "inputs",
                First(<<InputCode(s), Code(mixed, "MIXED_INPUTS")>>))
       /\ prefixes' = prefixes \cup {Prefix(c.path) : c \in {e \in Evidence(s) : Len(e.path) >= 2}}
       /\ maxIndex' = Max({maxIndex} \cup {Index(c.path) : c \in Evidence(s)})
       /\ policy' = IF policy = NoPolicy THEN GetPolicy(s) ELSE policy
       /\ scope' = IF last THEN 1 ELSE scope + 1
       /\ UNCHANGED <<tx, signKey, descriptor, kinds, risks>>

ParseOutput ==
    LET s == tx.outs[scope] IN
    /\ scope \in DOMAIN tx.outs
    /\ Check("outputs", IF scope = Len(tx.outs) THEN "fee" ELSE "outputs", OutputCode(s))
    /\ kinds' = IF OutputCode(s) = "ok" THEN Append(kinds, KindOf(s)) ELSE kinds
    /\ scope' = IF scope = Len(tx.outs) THEN 1 ELSE scope + 1
    /\ UNCHANGED <<tx, signKey, descriptor, policy, prefixes, maxIndex, risks>>

CheckFee ==
    /\ Check("fee", "fingerprints", Code(Fee < 0, "NEGATIVE_FEE"))
    /\ risks' = IF Fee < 0 THEN risks ELSE RiskWarnings
    /\ UNCHANGED <<tx, signKey, descriptor, policy, prefixes, maxIndex, scope, kinds>>

RejectInconsistentFingerprints ==
    Check("fingerprints", "read", FingerprintsCode) /\ UNCHANGED <<tx, signKey, descriptor, read>>

ParserNext ==
    \/ CheckVersion \/ FillMissingFingerprints
    \/ VerifyClaimedDerivationPaths \/ VerifyClaimShapes \/ VerifyOutputClaims
    \/ RejectMislabeled \/ RejectIfSeedCannotSign
    \/ ParseInput \/ ParseOutput \/ CheckFee
    \/ RejectInconsistentFingerprints

ParserSpec == ParserInit /\ [][ParserNext]_parserVars

-----------------------------------------------------------------------------

\* Whose an output really is, whatever the transaction claims: one key, at a
\* place that the wallet of the inputs scans, or the keys of a multisig wallet.
Spent(k) == \E s \in ToSet(tx.ins) : Commits(s, k)
Held == {k \in {c.key : c \in UNION {ToSet(s.claims) : s \in ToSet(tx.ins)}} : k.by = "us" /\ Spent(k)}
ScansKey(k) ==
    /\ k.by = "us" /\ Len(k.at) >= 2
    /\ Len(k.at) >= Len(rootPath) + 2 => Branch(k.at) \in {0, 1}
    /\ \E h \in Held : Prefix(h.at) = Prefix(k.at)
    /\ Lookahead > 0 => \E h \in Held : Index(k.at) <= Index(h.at) + Lookahead
CosignersOf(s) == {[by |-> k.by, at |-> Prefix(k.at)] : k \in KeysIn(s)}
ScriptOf(s) == IF s.witness # NoScript THEN s.witness ELSE s.redeem
KeyPaid(s) == IF s.pays.type = "p2sh" THEN s.pays.of.of ELSE s.pays.of
IsWalletScript(s, w) ==
    IsMulti(s) /\ s.of.need = w.need /\ CosignersOf(s) = {[by |-> x.by, at |-> x.at] : x \in w.cosigners}
BelongsToWallet(s) ==
    IF policy.total = 0 THEN ScansKey(KeyPaid(s))
    ELSE \/ /\ CosignersOf(ScriptOf(s)) = CosignersOf(ScriptOf(tx.ins[1]))
            /\ ScriptOf(s).of.need = ScriptOf(tx.ins[1]).of.need
         \/ descriptor # NoDescriptor /\ IsWalletScript(ScriptOf(s), descriptor)

\* What is shown as change comes back: the output pays a key of the seed on a
\* branch, in an account and at an index that follow from the inputs, or the
\* cosigners of the wallet whose coins are spent or whose descriptor is loaded
\* (_parse_outputs), whatever the claims of the transaction say.  A witness
\* script that is not an m-of-n has no cosigners to compare.
ChangeIsOurs ==
    \A j \in DOMAIN kinds :
        kinds[j] = "change" /\ (policy.type \in {"p2pkh", "p2wpkh", "p2sh-p2wpkh", "p2tr"} \/ policy.total > 0)
            => BelongsToWallet(tx.outs[j])
=============================================================================
