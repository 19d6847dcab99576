---------------------------- MODULE ScanSamples ----------------------------
(***************************************************************************)
(* QR codes for model checking: one for each type and decoder's answer,    *)
(* and the parts of animations.                                            *)
(***************************************************************************)
EXTENDS Naturals

Looking(looks) ==
    [utf8 |-> TRUE, looks |-> looks, payload |-> {}, trimmed |-> TRUE, valid |-> TRUE, words |-> 0, sums |-> {},
     whole |-> FALSE, of |-> "ur", total |-> 1, number |-> 1, indexes |-> {}]
Bytes(payload) == [Looking({}) EXCEPT !.utf8 = FALSE, !.payload = payload]
Words(look, n, sums) == [Looking({look}) EXCEPT !.words = n, !.sums = sums]
Invalid(c) == [c EXCEPT !.valid = FALSE]
Share(sums) == Words("seed__slip39", 20, sums)

\* Mixtures of the fragments of a UR of four, some of another one, one of a
\* UR of too many, and codes that hold a whole UR, or are damaged.
Fragment(u, indexes) == [Looking({"psbt__ur2"}) EXCEPT !.of = u, !.indexes = indexes]
UrCodes ==
    {Fragment("ur", x) : x \in (SUBSET (0..3)) \ {{}, {0, 3}, {1, 3}, {0, 1, 3}, {0, 1, 2, 3}}}
    \cup {Fragment("other", x) : x \in {{0}, {1, 2}}} \cup {Fragment("huge", {0})}
    \cup {[Looking({t}) EXCEPT !.whole = TRUE, !.of = "other"] :
            t \in {"psbt__ur2", "output__ur", "account__ur", "bytes__ur"}}
    \cup {Invalid(Looking({"psbt__ur2"}))}

\* Two animations of two parts, of which one has numbers that are too small
\* and too large, and one of three.  A part of a descriptor may consist of
\* characters that a part of a transaction may have.
Numbered(looks, u, n, total) == [Looking(looks) EXCEPT !.of = u, !.number = n, !.total = total]
NumberedCodes ==
    {Numbered({t}, u, n, 2) : t \in {"psbt__specter", "psbt__bbqr", "wallet__specter"},
                              u \in {"ur", "other"}, n \in {1, 2}}
    \cup {Numbered({t}, "ur", n, 2) : t \in {"psbt__specter", "wallet__specter"}, n \in {0, 3}}
    \cup {Numbered({"psbt__specter"}, "ur", 1, 3),
          Numbered({"psbt__specter", "wallet__specter"}, "ur", 2, 2)}

Phrases ==
    {Words(t, n, s) : t \in {"seed__seedqr", "seed__mnemonic", "seed__four_letter_mnemonic"},
                      n \in {13, 24}, s \in SUBSET {"bip39", "aezeed"}}
TextCodes ==
    {Looking({t}) : t \in {"settings", "set_time", "psbt__base64", "psbt__base43", "seed__xprv"}}
    \cup UNION {{Looking({t}), Invalid(Looking({t}))} :
            t \in {"wallet__configfile", "wallet__generic", "bitcoin_address", "sign_message"}}
    \cup UNION {{Looking({t}), [Looking({t}) EXCEPT !.trimmed = FALSE]} : t \in {"wif", "bip38"}}
    \cup {[Words("seed__seedqr", 24, {"bip39"}) EXCEPT !.trimmed = FALSE]}
    \cup {Share({}), Share({"slip39"})}
Blobs ==
    {Bytes(s) : s \in SUBSET {"seed__compactseedqr", "seed__encryptedqr"}}
    \cup {[Bytes(s) EXCEPT !.utf8 = TRUE] : s \in {{}, {"seed__encryptedqr"}}}

ScanCodes == UrCodes \cup NumberedCodes \cup Phrases \cup TextCodes \cup Blobs

\* Codes by name for the views: an encrypted text, an encrypted entropy that
\* may be an entropy itself, and an encrypted code with this one in it.
Tested ==
    [encrypted |-> Bytes({"seed__encryptedqr"}), either |-> Bytes({"seed__compactseedqr", "seed__encryptedqr"}),
     nested |-> Bytes({"seed__encryptedqr"}), entropy |-> Bytes({"seed__compactseedqr"}),
     note |-> Looking({}), blob |-> Bytes({}), xprv |-> Looking({"seed__xprv"}),
     phrase |-> Words("seed__mnemonic", 24, {"bip39", "aezeed"}), typo |-> Words("seed__seedqr", 12, {}),
     share |-> Share({"slip39"}), badShare |-> Share({}),
     psbt |-> Looking({"psbt__base64"}), address |-> Looking({"bitcoin_address"}),
     time |-> Looking({"set_time"}), wif |-> Looking({"wif"}), bip38 |-> Looking({"bip38"}),
     config |-> Invalid(Looking({"wallet__configfile"}))]
Contents == [encrypted |-> "note", either |-> "entropy", nested |-> "either"]
=============================================================================
