------------------------------ MODULE GpgFiles ------------------------------
(***************************************************************************)
(* "File operations" under "GPG", on the folder of the microSD: one file   *)
(* and a manifest (sha256.txt, a SHA256SUMS), which lists the version of   *)
(* file that it was made from.  The folder is changed by the views, or     *)
(* elsewhere: the card can be taken out while any screen is shown.         *)
(*                                                                         *)
(* gpg is external: a signature is by a key and of a version; one beside a *)
(* file is valid when it is of the version there, one inside the file in   *)
(* any case, as lines around what is signed are no concern of gpg.  Either *)
(* way its key has to be in the keyring.                                   *)
(***************************************************************************)
EXTENDS Naturals, FiniteSets

CONSTANTS
    FileKeys,               \* that sign
    Shipped,            \* in gpg_keys, imported with the first verification
    Projects(_),        \* the projects a name may belong to
    Trusted(_),         \* the keys that sign for a project
    NoSig, NoProject,
    MaxVersion          \* bound: versions of the file

VARIABLES
    file, manifest,     \* versions: of the file, and the one that the manifest lists
    sig,                \* of either name: NoSig, or the key, the version signed and whether
                        \* the signature is inside the file
    pubs, secs,         \* the keyring
    imported,           \* gpg_keys_imported
    at, name,           \* of the view: what it does next, and which file was chosen
    status,             \* what gpg said of the signature
    told                \* what was on screen last

fileVars == <<file, manifest, sig, pubs, secs, imported, at, name, status, told>>
Folder == <<file, manifest, sig>>
Ring == <<pubs, secs, imported>>

Versions == 0..MaxVersion
Names == {"file", "manifest"}
Content(n) == IF n = "file" THEN file ELSE manifest
NoStatus == [signer |-> NoSig, valid |-> FALSE]

Done(what) == at' = "menu" /\ told' = what /\ status' = NoStatus /\ UNCHANGED name
Stay(to) == at' = to /\ UNCHANGED <<name, status, told>>
BackToMenu == Done("back")

-----------------------------------------------------------------------------
(* The folder, elsewhere *)
\* A new version of a file has no signature inside.
Rewritten(n) == [sig EXCEPT ![n] = IF @ # NoSig /\ @.inside THEN NoSig ELSE @]

AtScreen == at \notin {"encrypted", "decrypted", "gpg", "verdict"}

\* A file of the user's own.
EditFile ==
    /\ AtScreen
    /\ file' \in Versions \ {file}
    /\ sig' = Rewritten("file")
    /\ UNCHANGED <<manifest, Ring, at, name, status, told>>

\* A release: a file, or a manifest, with a signature beside it or inside.
Download ==
    /\ AtScreen
    /\ \E n \in Names, k \in FileKeys, v, w \in Versions, within \in BOOLEAN :
         /\ file' = IF n = "file" THEN v ELSE file
         /\ manifest' = IF n = "manifest" THEN v ELSE manifest
         /\ within => w = 0                \* of what, is not looked at
         /\ sig' = [sig EXCEPT ![n] = [key |-> k, of |-> w, inside |-> within]]
    /\ UNCHANGED <<Ring, at, name, status, told>>

-----------------------------------------------------------------------------
(* All views: the warning that a seed is stored, and the choice of a file *)
ChooseView ==
    /\ at = "menu"
    /\ at' \in {"encrypt", "decrypt", "verify", "sign", "hash"}
    /\ told' = "nothing"
    /\ UNCHANGED <<Folder, Ring, name, status>>

\* There may be none, or it cannot be opened.
ChooseFile(view, next) ==
    /\ at = view
    /\ BackToMenu \/ (name' \in Names /\ at' = next /\ UNCHANGED <<status, told>>)

-----------------------------------------------------------------------------
(* Encrypting *)
EncryptFile == ChooseFile("encrypt", "recipient") /\ UNCHANGED <<Folder, Ring>>

\* For any key of the keyring.
Recipient ==
    /\ at = "recipient"
    /\ BackToMenu \/ (pubs # {} /\ Stay("signer"))
    /\ UNCHANGED <<Folder, Ring>>

\* By any secret key, or by none.
FileSigner ==
    /\ at = "signer"
    /\ BackToMenu \/ Stay("encrypted")
    /\ UNCHANGED <<Folder, Ring>>

\* With a key that signs, a failure is taken for a missing passphrase.
Encrypted ==
    /\ at = "encrypted"
    /\ BackToMenu \/ Done("saved")
    /\ UNCHANGED <<Folder, Ring>>

-----------------------------------------------------------------------------
(* Decrypting *)
DecryptFile == ChooseFile("decrypt", "decrypted") /\ UNCHANGED <<Folder, Ring>>

\* gpg saves the content before its signature is looked at; the failure may
\* be a missing key, which leads to its import, and the file does not wait.
Decrypted ==
    /\ at = "decrypted"
    /\ BackToMenu \/ Done("import") \/ Stay("signature")
    /\ UNCHANGED <<Folder, Ring>>

Signature ==
    /\ at = "signature"
    /\ Done("saved") \/ Done("import")
    /\ UNCHANGED <<Folder, Ring>>

-----------------------------------------------------------------------------
(* Verifying *)
\* The keys that came with the program are added first, once.
AddShipped ==
    /\ at = "verify"
    /\ \/ BackToMenu /\ UNCHANGED <<pubs, imported>>
       \/ pubs' = (IF imported THEN pubs ELSE pubs \cup Shipped) /\ imported' = TRUE /\ Stay("choose")
    /\ UNCHANGED <<Folder, secs>>

\* A signature is chosen for the file it is of, which must be there.
VerifyFile == ChooseFile("choose", "gpg") /\ UNCHANGED <<Folder, Ring>>

\* gpg reports an unknown key as an error of the signature.  A file with no
\* signature beside it is verified as it is.
Verify ==
    /\ at = "gpg"
    /\ at' = "verdict"
    /\ status' = IF sig[name] = NoSig THEN NoStatus
                 ELSE [signer |-> sig[name].key,
                       valid |-> sig[name].key \in pubs /\ (sig[name].inside \/ sig[name].of = Content(name))]
    /\ UNCHANGED <<Folder, Ring, name, told>>

\* The one project of the name, or the one that the signer signs for.
Project ==
    LET own == {p \in Projects(name) : status.signer \in Trusted(p)}
    IN IF Cardinality(Projects(name)) = 1 THEN CHOOSE p \in Projects(name) : TRUE
       ELSE IF Cardinality(own) = 1 THEN CHOOSE p \in own : TRUE
       ELSE NoProject

\* A valid signature is shown as success, after a warning if its key does
\* not sign for the project.
Verdict ==
    /\ at = "verdict"
    /\ IF ~status.valid THEN Done("failed")
       ELSE /\ at' = "success" /\ UNCHANGED <<name, status>>
            /\ told' = IF Project = NoProject THEN "valid"
                       ELSE IF status.signer \in Trusted(Project) THEN "trusted" ELSE "warned"
    /\ UNCHANGED <<Folder, Ring>>

\* "Check SHA256Sum" is offered for a manifest.
OffersCheck == name = "manifest"

\* The files that are there and that the manifest lists, which is read again,
\* its lines outside of a signature inside included.
CheckFiles ==
    /\ at = "success"
    /\ \/ Done(told)
       \/ OffersCheck /\ Done(IF manifest = file THEN "checked" ELSE "differs")
    /\ UNCHANGED <<Folder, Ring>>

-----------------------------------------------------------------------------
(* Signing *)
SignFile == ChooseFile("sign", "key") /\ UNCHANGED <<Folder, Ring>>

\* gpg may fail.
Signs(n) ==
    \/ BackToMenu /\ UNCHANGED sig
    \/ \E k \in secs : sig' = [sig EXCEPT ![n] = [key |-> k, of |-> Content(n), inside |-> FALSE]] /\ Done("signed")

SignWith ==
    /\ at = "key"
    /\ Signs(name)
    /\ UNCHANGED <<file, manifest, Ring>>

\* The manifest is written before a key is asked for.
WriteManifest ==
    /\ at = "hash"
    /\ \/ BackToMenu /\ UNCHANGED <<manifest, sig>>
       \/ manifest' = file /\ sig' = Rewritten("manifest") /\ Stay("manifest")
    /\ UNCHANGED <<file, Ring>>

SignManifest ==
    /\ at = "manifest"
    /\ Signs("manifest")
    /\ UNCHANGED <<file, manifest, Ring>>

-----------------------------------------------------------------------------
(* The keyring; see GpgMessages *)
LoadKey ==
    /\ at = "menu"
    /\ \E k \in FileKeys : pubs' = pubs \cup {k} /\ secs' \in {secs, secs \cup {k}}
    /\ UNCHANGED <<Folder, imported, at, name, status, told>>

-----------------------------------------------------------------------------
FilesInit ==
    /\ file = 0 /\ manifest = 0 /\ sig = [n \in Names |-> NoSig]
    /\ pubs = {} /\ secs = {} /\ imported = FALSE
    /\ at = "menu" /\ name = "file" /\ status = NoStatus /\ told = "nothing"

FilesNext ==
    \/ EditFile \/ Download \/ ChooseView \/ LoadKey
    \/ EncryptFile \/ Recipient \/ FileSigner \/ Encrypted
    \/ DecryptFile \/ Decrypted \/ Signature
    \/ AddShipped \/ VerifyFile \/ Verify \/ Verdict \/ CheckFiles
    \/ SignFile \/ SignWith \/ WriteManifest \/ SignManifest

FilesSpec == FilesInit /\ [][FilesNext]_fileVars

-----------------------------------------------------------------------------
FilesTypeOK ==
    /\ {file, manifest} \subseteq Versions /\ pubs \cup secs \subseteq FileKeys
    /\ sig \in [Names -> [key : FileKeys, of : Versions, inside : BOOLEAN] \cup {NoSig}]
    /\ at \in {"menu", "encrypt", "recipient", "signer", "encrypted", "decrypt", "decrypted", "signature",
               "verify", "choose", "gpg", "verdict", "success", "sign", "key", "hash", "manifest"}
=============================================================================
