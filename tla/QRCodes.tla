------------------------------ MODULE QRCodes ------------------------------
(***************************************************************************)
(* What one QR code is taken for, and whether the decoder of that type     *)
(* accepts it (models/decode_qr.py).  A code is abstracted to the answers  *)
(* of the tests it is put to:                                              *)
(*   utf8      it can be decoded to a text                                 *)
(*   looks     the types whose test of the text it passes                  *)
(*   payload   the types whose test of the bytes it passes                 *)
(*   trimmed   it has no blanks around it                                  *)
(*   valid     it has the form the decoder demands                         *)
(*   words     the number of words of a mnemonic                           *)
(*   sums      the checksums that hold for them                            *)
(* and, for a code of an animation, what it carries (QRAnimation).         *)
(***************************************************************************)
EXTENDS Naturals, Sequences, FiniteSets

\* QRType, without the types that nothing detects.
Ur == {"psbt__ur2", "output__ur", "account__ur", "bytes__ur"}
Animated == {"psbt__specter", "psbt__bbqr", "wallet__specter"}
Binary == {"seed__compactseedqr", "seed__encryptedqr", "seed__ambiguous_qr"}

\* detect_segment_type tests the text in this order.
DetectionOrder ==
    <<"psbt__ur2", "output__ur", "account__ur", "psbt__specter", "bytes__ur", "psbt__base64",
      "psbt__bbqr", "wallet__specter", "wallet__configfile", "wallet__generic", "seed__seedqr",
      "bitcoin_address", "sign_message", "settings", "set_time", "seed__mnemonic",
      "seed__four_letter_mnemonic", "seed__slip39", "psbt__base43", "wif", "seed__xprv", "bip38">>

Looks == {DetectionOrder[k] : k \in DOMAIN DetectionOrder}
Payloads == {"seed__compactseedqr", "seed__encryptedqr", "seed__xprv"}
Types == Looks \cup Binary \cup {"passphrase", "encryption_key", "text", "invalid"}

\* resolve_payload_type; "invalid" stands for None, too.
PayloadType(c, preference) ==
    LET only == CHOOSE t \in c.payload : TRUE
        preferred == CASE preference = "compact" -> "seed__compactseedqr"
                       [] preference = "encrypted" -> "seed__encryptedqr"
                       [] preference = "prompt" -> "seed__ambiguous_qr"
    IN CASE c.payload = {} -> "invalid"
         [] Cardinality(c.payload) = 1 -> only
         [] OTHER -> IF preferred \in c.payload THEN preferred ELSE "seed__ambiguous_qr"

\* The first test that the text passes, and what the bytes are otherwise.
DetectedType(c, preference) ==
    LET passed == {k \in DOMAIN DetectionOrder : DetectionOrder[k] \in c.looks}
    IN IF c.utf8 /\ passed # {}
       THEN DetectionOrder[CHOOSE k \in passed : \A j \in passed : k <= j]
       ELSE PayloadType(c, preference)

\* The type for a decoder of this mode.
TypeFor(mode, c, preference) == IF mode = "any" THEN DetectedType(c, preference) ELSE mode

\* A code that may be encrypted becomes the candidate as soon as it is detected.
StoresCandidate(mode, c, preference) ==
    mode = "any" /\ DetectedType(c, preference) = "seed__encryptedqr"

----------------------------------------------------------------------------
(* The decoders of a single frame *)
HasValidWordCount(c) == c.words \in {12, 15, 18, 21, 24}

\* _classify_mnemonic; an aezeed has 24 words.
SeedType(c) ==
    LET sums == IF c.words = 24 THEN c.sums ELSE c.sums \ {"aezeed"}
    IN CASE sums = {} -> "none"
         [] sums = {"bip39"} -> "bip39"
         [] sums = {"aezeed"} -> "aezeed"
         [] OTHER -> "ambiguous"

\* A configuration file that cannot be converted raises an exception (in
\* multisig_setup_file_to_descriptor) where the other decoders answer INVALID.
Raises(t, c) == t = "wallet__configfile" /\ ~c.valid

AcceptsSeed(t, c) ==
    CASE t = "seed__compactseedqr" -> TRUE          \* any entropy has a checksum
      [] t = "seed__seedqr" -> c.trimmed /\ HasValidWordCount(c) /\ SeedType(c) # "none"
      [] t = "seed__mnemonic" -> HasValidWordCount(c) /\ SeedType(c) # "none"
      [] t = "seed__four_letter_mnemonic" -> HasValidWordCount(c) /\ "bip39" \in c.sums

AcceptsShare(c) == "slip39" \in c.sums
AcceptsAmbiguous(c) == Cardinality(c.payload) >= 2
\* signmessage, path, format and text; only ascii is supported.
AcceptsMessage(c) == c.valid
\* Anything may follow "bitcoin:" for the detection, and the prefixes differ.
AcceptsAddress(c) == c.valid
\* A text with "sortedmulti" in it need not be a descriptor.
AcceptsWallet(c) == c.valid
\* The detection strips blanks, the decoders do not.
AcceptsPrivateKey(c) == c.trimmed

\* These decoders repeat the test of the detection, or have none.
Untested ==
    {"psbt__base64", "psbt__base43", "seed__xprv", "seed__encryptedqr",
     "settings", "set_time", "passphrase", "encryption_key", "text"}

Accepts(t, c) ==
    CASE t \in Untested -> TRUE
      [] t \in {"seed__compactseedqr", "seed__seedqr", "seed__mnemonic", "seed__four_letter_mnemonic"} ->
            AcceptsSeed(t, c)
      [] t = "seed__slip39" -> AcceptsShare(c)
      [] t = "seed__ambiguous_qr" -> AcceptsAmbiguous(c)
      [] t = "sign_message" -> AcceptsMessage(c)
      [] t = "bitcoin_address" -> AcceptsAddress(c)
      [] t \in {"wallet__generic", "wallet__configfile"} -> AcceptsWallet(c)
      [] t \in {"wif", "bip38"} -> AcceptsPrivateKey(c)

\* DecodeQR.add_data for a code whose decoder takes one frame.
Outcome(mode, c, preference) ==
    LET t == TypeFor(mode, c, preference)
    IN CASE t = "invalid" -> "invalid"
         [] t \notin Binary /\ ~c.utf8 -> "invalid"
         [] Raises(t, c) -> "raises"
         [] OTHER -> IF Accepts(t, c) THEN "complete" ELSE "invalid"
=============================================================================
