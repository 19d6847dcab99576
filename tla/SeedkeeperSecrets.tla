------------------------- MODULE SeedkeeperSecrets -------------------------
(***************************************************************************)
(* The secrets on SeedKeeper cards: viewing, saving, deleting and cloning  *)
(* them, and the multisig descriptors kept among them.  A version 1 card   *)
(* has no descriptor secrets: the descriptor is split into its keys, each  *)
(* named by its fingerprint, and a template that holds the names.          *)
(*                                                                         *)
(* A secret takes one unit of the card's memory.  A card that cannot say   *)
(* how much is free refuses the import itself, with the same outcome.  A   *)
(* view that the card or the user ends before its effect is no step.       *)
(***************************************************************************)
EXTENDS Integers, Sequences, SequencesExt

CONSTANTS Keepers,  \* the cards
          Space,    \* secrets that a card has memory for
          Wallets,  \* descriptors: sequences of keys [fp, path], path > 0
          Texts     \* passwords and NDEF records, as such sequences too

CONSTANTS NoWallet, NoKeeper

ASSUME KeeperAssumption ==
    /\ Space \in Nat \ {0} /\ NoKeeper \notin Keepers
    /\ \A w \in Wallets : w \in Seq(Range(w))

VARIABLES version,     \* the protocol version of each card, 1 or 2
          secrets,     \* the secrets on each card, in the order of its headers
          wallet,      \* controller.multisig_wallet_descriptor
          clip,        \* the secrets a clone carries; << >> when none runs
          clone        \* how the last attempt to clone ended, and the places
                       \* that its summary counts as unsupported

keeperVars == <<version, secrets, wallet, clip, clone>>

\* A descriptor with each key replaced by its name, the key's fingerprint.
Names(w) == [i \in DOMAIN w |-> [w[i] EXCEPT !.path = 0]]

Secret(type, text) == [type |-> type, text |-> text, locked |-> FALSE]
Seed == Secret("seed", << >>)

\* A secret of a type that the device has no name for, made elsewhere; what it
\* holds is no text of another one.
Unnamed == Secret("other", <<[fp |-> 0, path |-> 0]>>)

KeeperTypeOK ==
    /\ version \in [Keepers -> {1, 2}]
    /\ \A c \in Keepers :
         /\ Len(secrets[c]) <= Space
         /\ \A i \in DOMAIN secrets[c] :
              /\ secrets[c][i].type \in {"seed", "password", "xpub", "template", "descriptor", "other"}
              /\ secrets[c][i].locked \in BOOLEAN
    /\ wallet \in Wallets \cup {NoWallet}
                    \cup UNION {[DOMAIN w -> UNION {Range(v) : v \in Wallets}] : w \in Wallets}
    /\ clone \in [to : Keepers \cup {NoKeeper}, end : {"none", "running", "done", "failed"},
                  left : SUBSET DOMAIN clip]

NoClone == [to |-> NoKeeper, end |-> "none", left |-> {}]

KeeperInit ==
    /\ version \in [Keepers -> {1, 2}]
    /\ secrets \in [Keepers -> {<< >>, <<Seed>>, <<[Seed EXCEPT !.locked = TRUE]>>, <<Unnamed>>}]
    /\ wallet = NoWallet
    /\ clip = << >> /\ clone = NoClone

NotCloning == clip = << >>

\* The lists of the views show what the card exports in plaintext.
Listed(c) == {i \in DOMAIN secrets[c] : ~secrets[c][i].locked}

\* The ways to go through a set of places in order: there is one.
Orders(places) ==
    {f \in [1..Cardinality(places) -> places] :
       Range(f) = places /\ \A m, n \in DOMAIN f : m < n => f[m] < f[n]}
Taken(s, order) == [n \in DOMAIN order |-> s[order[n]]]

\* The capacity check before each import.
Fits(c, n) == Len(secrets[c]) + n <= Space

\* Saving a password, or the card's own NDEF record under a name that starts
\* with NDEF_.
ImportPassword(c) ==
    /\ NotCloning /\ Fits(c, 1)
    /\ \E t \in Texts :
         secrets' = [secrets EXCEPT ![c] = Append(@, Secret("password", t))]
    /\ UNCHANGED <<version, wallet, clip, clone>>

\* Deleting a listed secret, which a version 1 card does not support.
DeleteSecret(c) ==
    /\ NotCloning /\ version[c] = 2
    /\ \E i \in Listed(c) : secrets' = [secrets EXCEPT ![c] = RemoveAt(@, i)]
    /\ UNCHANGED <<version, wallet, clip, clone>>

\* A descriptor that another view loaded, from a QR code for instance.
WalletFromElsewhere ==
    /\ NotCloning
    /\ wallet' \in Wallets
    /\ UNCHANGED <<version, secrets, clip, clone>>

\* What saving the descriptor would write, in order.
Pieces(c) ==
    IF version[c] = 2 THEN <<Secret("descriptor", wallet)>>
    ELSE [i \in DOMAIN wallet |-> Secret("xpub", <<wallet[i]>>)]
         \o <<Secret("template", Names(wallet))>>

\* A piece is skipped when a listed template or descriptor reads the same.
\* (The names of the keys on the card are looked up among buttons, so that no
\* key is ever found.)
OnCard(c, p) ==
    \E i \in Listed(c) :
       secrets[c][i].type \in {"template", "descriptor"} /\ secrets[c][i].text = p.text

\* Saving the descriptor: piece by piece until the memory is full.
SaveDescriptor(c) ==
    /\ NotCloning /\ wallet \in Wallets
    /\ \E order \in Orders({i \in DOMAIN Pieces(c) : ~OnCard(c, Pieces(c)[i])}) :
         LET new == Taken(Pieces(c), order)
             n == IF Fits(c, Len(new)) THEN Len(new) ELSE Space - Len(secrets[c])
         IN n > 0 /\ secrets' = [secrets EXCEPT ![c] = @ \o SubSeq(new, 1, n)]
    /\ UNCHANGED <<version, wallet, clip, clone>>

\* The key that replaces a name in a template: the first listed of that name.
FirstNamed(c, fp) ==
    LET found == {i \in Listed(c) : /\ secrets[c][i].type = "xpub"
                                   /\ secrets[c][i].text[1].fp = fp}
    IN secrets[c][CHOOSE i \in found : \A j \in found : i <= j].text[1]

HasKeys(c, names) ==
    \A n \in DOMAIN names : \E i \in Listed(c) :
        secrets[c][i].type = "xpub" /\ secrets[c][i].text[1].fp = names[n].fp

\* Loading a descriptor; a template with a name left in it does not parse.
LoadDescriptor(c) ==
    /\ NotCloning
    /\ \E i \in Listed(c) :
         LET s == secrets[c][i]
         IN \/ s.type = "descriptor" /\ wallet' = s.text
            \/ /\ s.type = "template" /\ HasKeys(c, s.text)
               /\ wallet' = [n \in DOMAIN s.text |-> FirstNamed(c, s.text[n].fp)]
    /\ UNCHANGED <<version, secrets, clip, clone>>

\* Cloning starts by reading the listed secrets of the source card; those that
\* it does not export after all are counted with the locked ones.
CollectSecrets(c) ==
    /\ NotCloning
    /\ \E read \in SUBSET Listed(c) \ {{}} :
         \E order \in Orders(read) : clip' = Taken(secrets[c], order)
    /\ clone' = [NoClone EXCEPT !.end = "running"]
    /\ UNCHANGED <<version, secrets, wallet>>

\* A secret without a known type, rights or content is not written.
Unsupported(s) == s.type = "other"

\* Mutant: a secret of a type that the card has is taken for one it holds.
MissingTypes(c) ==
    {i \in DOMAIN clip : \A j \in DOMAIN secrets[c] : secrets[c][j].type # clip[i].type}

\* The card's fingerprint of a secret is one of its contents, locked or not;
\* a content that is there is skipped, also when it came with this clone.
Missing(c) ==
    {i \in DOMAIN clip :
       /\ \A j \in DOMAIN secrets[c] : secrets[c][j].text # clip[i].text
       /\ \A j \in 1..(i - 1) : clip[j].text # clip[i].text \/ Unsupported(clip[j])}

LeftOut(c) == {i \in Missing(c) : Unsupported(clip[i])}

\* Writing to a destination card, one secret after the other.  A full card, or a
\* command that fails, ends the attempt; the card keeps what it took, and the
\* user may try again, there or on another one.
CloneTo(c) ==
    /\ clip # << >> /\ clone.end \in {"running", "failed", "done"}
    /\ \E order \in Orders(Missing(c) \ LeftOut(c)) :
         LET new == Taken(clip, order)
         IN \E n \in 0..Len(new) :
              /\ Fits(c, n)
              /\ secrets' = [secrets EXCEPT ![c] = @ \o SubSeq(new, 1, n)]
              /\ \/ n = Len(new)
                    /\ clone' = [to |-> c, end |-> "done", left |-> LeftOut(c)]
                 \/ clone' = [to |-> c, end |-> "failed", left |-> {}]
    /\ UNCHANGED <<version, wallet, clip>>

\* After a success: no more cards.  After a failure: home.  Or backing out.
EndClone ==
    /\ clip # << >>
    /\ clip' = << >> /\ clone' = NoClone
    /\ UNCHANGED <<version, secrets, wallet>>

KeeperNext ==
    \/ \E c \in Keepers : ImportPassword(c) \/ DeleteSecret(c) \/ SaveDescriptor(c)
                          \/ LoadDescriptor(c) \/ CollectSecrets(c) \/ CloneTo(c)
    \/ WalletFromElsewhere \/ EndClone

KeeperSpec == KeeperInit /\ [][KeeperNext]_keeperVars

----------------------------------------------------------------------------
(* Properties *)

\* When a clone says it is complete, each secret that was read from the source
\* is on the destination or among those it counts as unsupported, and these are
\* such that the device cannot write.
CloneIsComplete ==
    clone.end = "done" =>
        \A i \in DOMAIN clip :
            IF i \in clone.left THEN Unsupported(clip[i])
            ELSE \E j \in DOMAIN secrets[clone.to] :
                     secrets[clone.to][j].text = clip[i].text
=============================================================================
