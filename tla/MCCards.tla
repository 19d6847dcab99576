------------------------------ MODULE MCCards ------------------------------
(***************************************************************************)
(* The smartcard components on small instances.  They share no state, so a *)
(* behaviour runs one of them, part, while the others keep one of their    *)
(* initial states: the numbers of states add up instead of multiplying.    *)
(* The components bring their own variables and properties; JavaCards,     *)
(* whose names are those of CardSession, is an instance.                   *)
(***************************************************************************)
EXTENDS CardSession, SatodimeKeys, SatodimeSlots, SeedkeeperSecrets, SignerCards, SpecterCard,
        CardTrials, TLC

CONSTANTS Things,                   \* neither cards nor PINs
          DefaultKey, None

VARIABLES part
VARIABLES cardKey, packages, inReader, loadedKeys, keyFile, keyNote, caps, picked

\* Two descriptors that share a key, a password that is neither.
Key(f) == [fp |-> f, path |-> 1]
TwoWallets == {<<Key(1), Key(2)>>, <<Key(1), Key(3)>>}
OneText == {<<[fp |-> 0, path |-> 1]>>}

Java == INSTANCE JavaCards WITH
    JCards <- Cards, Keys <- Pins, Applets <- Things, NoKeys <- NoPin, NoApplet <- None

javaVars == <<cardKey, packages, inReader, loadedKeys, keyFile, keyNote, caps, picked>>
allVars == <<part, cardVars, keyVars, slotVars, keeperVars, signerVars, specterVars,
          javaVars, trialVars>>

CardsInit ==
    /\ part \in {"session", "claims", "slots", "keeper", "signer", "specter", "java", "trials"}
    /\ Init
    /\ part # "session" => kind = [c \in Cards |-> "new"] /\ card = [c \in Cards |-> Fresh]
    /\ KeysInit /\ (part # "claims" => ~nfc)
    /\ SlotsInit
    /\ KeeperInit
    /\ \E c \in Keepers : \A d \in Keepers \ {c} : secrets[d] = << >>
    /\ part # "keeper" => version = [c \in Keepers |-> 2] /\ secrets = [c \in Keepers |-> << >>]
    /\ HoldersInit
    /\ part # "signer" => /\ backend = [c \in Signers |-> "satochip"]
                          /\ seedOf = [c \in Signers |-> NoSeed]
    /\ SpecterInit
    /\ part # "specter" => /\ pin = [c \in Specters |-> NoSpecterPin]
                           /\ stored = [c \in Specters |-> Empty] /\ held = {}
    /\ Java!Init
    /\ part # "java" => /\ cardKey = [c \in Cards |-> DefaultKey]
                        /\ packages = [c \in Cards |-> {}] /\ caps = {}
    /\ TrialsInit

rest(p) ==
    /\ IF p = "session" THEN TRUE ELSE UNCHANGED cardVars
    /\ IF p = "claims" THEN TRUE ELSE UNCHANGED keyVars
    /\ IF p = "slots" THEN TRUE ELSE UNCHANGED slotVars
    /\ IF p = "keeper" THEN TRUE ELSE UNCHANGED keeperVars
    /\ IF p = "signer" THEN TRUE ELSE UNCHANGED signerVars
    /\ IF p = "specter" THEN TRUE ELSE UNCHANGED specterVars
    /\ IF p = "java" THEN TRUE ELSE UNCHANGED javaVars
    /\ IF p = "trials" THEN TRUE ELSE UNCHANGED trialVars
    /\ UNCHANGED part

CardsNext ==
    \/ part = "session" /\ Next /\ rest("session")
    \/ part = "claims" /\ KeysNext /\ rest("claims")
    \/ part = "slots" /\ SlotsNext /\ rest("slots")
    \/ part = "keeper" /\ KeeperNext /\ rest("keeper")
    \/ part = "signer" /\ HoldersNext /\ rest("signer")
    \/ part = "specter" /\ SpecterNext /\ rest("specter")
    \/ part = "java" /\ Java!Next /\ rest("java")
    \/ part = "trials" /\ TrialsNext /\ rest("trials")

CardsSpec == CardsInit /\ [][CardsNext]_allVars

Symmetry == Permutations(Cards) \cup Permutations(Pins) \cup Permutations(Things)

----------------------------------------------------------------------------
(* Properties beside those of the components *)

\* Every component's variables keep their types.
TypesOK ==
    /\ TypeOK /\ KeysTypeOK /\ SlotsTypeOK /\ KeeperTypeOK
    /\ HoldersTypeOK /\ SpecterTypeOK /\ Java!TypeOK /\ TrialsTypeOK
=============================================================================
