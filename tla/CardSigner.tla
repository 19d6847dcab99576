----------------------------- MODULE CardSigner -----------------------------
(***************************************************************************)
(* Signing the inputs of a PSBT with a Satochip or a Keycard: the dummy    *)
(* signatures before and after, the repeated signatures of an input of     *)
(* which one is taken at random, the time limit of each call, and the      *)
(* retry that is offered when nothing was signed.                          *)
(*                                                                         *)
(* A call runs on a worker thread of its own.  When its time is up the     *)
(* caller gets an exception, but leaves the pool only when the worker has  *)
(* ended: a card that does not answer keeps the caller waiting.            *)
(***************************************************************************)
EXTENDS Integers, Sequences, FiniteSets

CONSTANTS Ins,       \* inputs of the PSBT
          Pubs,      \* public keys
          MaxExtra,  \* repeated or dummy signatures, at most
          MaxLimit   \* the longest time limit, in steps of 0.75 s

CONSTANTS NoIn, NoPub

VARIABLES cardKind,   \* "satochip" or "keycard"
          derivs,     \* the keys that each input names, with their paths
          own,        \* the keys the card derives along those paths
          need,       \* the time the card takes for a signature
          limitSet,   \* the time limit in the settings
          phase,      \* what PSBTFinalizeView is doing
          limit,      \* the time limit of this attempt
          retryLimit, \* controller._psbt_sign_retry_timeout, 0 when unset
          todo, now, tries, pub,  \* the signer's place in its loops
          planned, calls, call,   \* the repeated calls of one signature
          sigs,       \* the signatures put into the PSBT
          timedOut,   \* SignResult.timed_out
          refused     \* history: inputs a call for which failed

cardParams == <<cardKind, derivs, own, need, limitSet>>
loopVars == <<todo, now, tries, pub, planned, calls, call>>
signVars == <<cardParams, loopVars, phase, limit, retryLimit, sigs, timedOut, refused>>

Phases == {"review", "before", "inputs", "after", "offer", "signed"}
Answers == {"good", "bad", "none"}

SignerTypeOK ==
    /\ cardKind \in {"satochip", "keycard"}
    /\ derivs \in [Ins -> SUBSET Pubs] /\ own \subseteq Pubs
    /\ need \in 1..MaxLimit /\ limitSet \in 1..MaxLimit
    /\ phase \in Phases
    /\ limit \in 0..MaxLimit /\ retryLimit \in 0..MaxLimit
    /\ todo \subseteq Ins /\ now \in Ins \cup {NoIn}
    /\ tries \subseteq Pubs /\ pub \in Pubs \cup {NoPub}
    /\ planned \in 0..(MaxExtra + 1)
    /\ calls \in Seq(Answers) /\ Len(calls) <= planned
    /\ call \in {"none", "running", "late"}
    /\ sigs \subseteq Ins \X Pubs
    /\ timedOut \in BOOLEAN /\ refused \subseteq Ins

Idle ==
    /\ todo = {} /\ now = NoIn /\ tries = {} /\ pub = NoPub
    /\ planned = 0 /\ calls = << >> /\ call = "none"

SignerInit ==
    /\ cardKind \in {"satochip", "keycard"}
    /\ derivs \in [Ins -> SUBSET Pubs] /\ own \in SUBSET Pubs
    /\ need \in 1..MaxLimit /\ limitSet \in 1..(MaxLimit - 1)
    /\ phase = "review" /\ limit = 0 /\ retryLimit = 0
    /\ Idle
    /\ sigs = {} /\ timedOut = FALSE /\ refused = {}

\* The user approves the transaction.
Approve ==
    /\ phase = "review"
    /\ phase' = "before"
    /\ limit' = IF retryLimit # 0 THEN retryLimit ELSE limitSet
    /\ planned' \in 0..MaxExtra
    /\ sigs' = {} /\ timedOut' = FALSE /\ refused' = {}
    /\ UNCHANGED <<cardParams, retryLimit, todo, now, tries, pub, calls, call>>

StartCall ==
    /\ call = "none" /\ Len(calls) < planned
    /\ call' = "running"
    /\ UNCHANGED <<cardParams, phase, limit, retryLimit, todo, now, tries, pub,
                   planned, calls, sigs, timedOut, refused>>

\* future.result raises; the pool waits for its worker all the same.
TimeUp ==
    /\ call = "running" /\ need > limit
    /\ call' = "late"
    /\ UNCHANGED <<cardParams, phase, limit, retryLimit, todo, now, tries, pub,
                   planned, calls, sigs, timedOut, refused>>

\* The card answers a call.  The answer to a late one is thrown away, and only
\* a late call for an input counts as timed out.
CardAnswers ==
    /\ \/ call = "late"
       \/ call = "running" /\ need <= limit
    /\ \E a \in IF call = "late" THEN {"none"} ELSE {"good", "bad"} :
         /\ calls' = Append(calls, a)
         /\ refused' = IF now # NoIn /\ a # "good" THEN refused \cup {now} ELSE refused
    /\ timedOut' = (timedOut \/ (call = "late" /\ now # NoIn))
    /\ call' = "none"
    /\ UNCHANGED <<cardParams, phase, limit, retryLimit, todo, now, tries, pub, planned, sigs>>

AllAnswered == call = "none" /\ Len(calls) = planned

\* The dummies before are through: on to the inputs, in random order.
StartInputs ==
    /\ phase = "before" /\ AllAnswered
    /\ phase' = "inputs" /\ todo' = Ins /\ planned' = 0 /\ calls' = << >>
    /\ UNCHANGED <<cardParams, limit, retryLimit, now, tries, pub, call, sigs, timedOut, refused>>

PickInput ==
    /\ phase = "inputs" /\ now = NoIn
    /\ \E i \in todo : now' = i /\ tries' = derivs[i] /\ todo' = todo \ {i}
    /\ UNCHANGED <<cardParams, phase, limit, retryLimit, pub, planned, calls, call,
                   sigs, timedOut, refused>>

\* A Satochip is asked for the key at the path and the two are compared.  A
\* Keycard does not export it: a lone path is signed with, whatever its key.
Usable(p) ==
    IF cardKind = "satochip" THEN p \in own ELSE Cardinality(derivs[now]) = 1

TryKey ==
    /\ phase = "inputs" /\ now # NoIn /\ pub = NoPub
    /\ \E p \in tries :
         /\ tries' = tries \ {p}
         /\ IF Usable(p) THEN pub' = p /\ planned' \in 1..(MaxExtra + 1)
            ELSE UNCHANGED <<pub, planned>>
    /\ UNCHANGED <<cardParams, phase, limit, retryLimit, todo, now, calls, call,
                   sigs, timedOut, refused>>

\* Mutant: an input is given up with the first key that did not match.
GiveUpInput ==
    /\ phase = "inputs" /\ now # NoIn /\ pub = NoPub
    /\ now' = NoIn /\ tries' = {}
    /\ UNCHANGED <<cardParams, phase, limit, retryLimit, todo, pub, planned, calls, call,
                   sigs, timedOut, refused>>

\* No key is left to try for this input.
EndInput ==
    /\ phase = "inputs" /\ now # NoIn /\ pub = NoPub /\ tries = {}
    /\ now' = NoIn
    /\ UNCHANGED <<cardParams, phase, limit, retryLimit, todo, tries, pub, planned, calls, call,
                   sigs, timedOut, refused>>

\* One result at random; if it is that of a call that failed to return, the
\* first that did return.
Drawn ==
    LET returned == {calls[n] : n \in DOMAIN calls} \ {"none"}
    IN IF returned = {} THEN {"none"} ELSE returned

\* A good signature ends the input; otherwise its other keys are tried.
Choose ==
    /\ phase = "inputs" /\ pub # NoPub /\ AllAnswered
    /\ \E a \in Drawn :
         IF a = "good"
         THEN sigs' = sigs \cup {<<now, pub>>} /\ now' = NoIn /\ tries' = {}
         ELSE UNCHANGED <<sigs, now, tries>>
    /\ pub' = NoPub /\ planned' = 0 /\ calls' = << >>
    /\ UNCHANGED <<cardParams, phase, limit, retryLimit, todo, call, timedOut, refused>>

StartAfter ==
    /\ phase = "inputs" /\ now = NoIn /\ todo = {}
    /\ phase' = "after" /\ planned' \in 0..MaxExtra
    /\ UNCHANGED <<cardParams, limit, retryLimit, todo, now, tries, pub, calls, call,
                   sigs, timedOut, refused>>

\* Signatures were added: the signed PSBT is shown.  None was: the retry limit
\* is forgotten and, after a time-out, a new try is offered.
Finish ==
    /\ phase = "after" /\ AllAnswered
    /\ planned' = 0 /\ calls' = << >>
    /\ IF sigs # {} THEN phase' = "signed" /\ UNCHANGED retryLimit
       ELSE /\ retryLimit' = 0
            /\ phase' = IF timedOut THEN "offer" ELSE "review"
    /\ UNCHANGED <<cardParams, limit, todo, now, tries, pub, call, sigs, timedOut, refused>>

\* One step above the limit in the settings, whichever was tried last.
LongerLimit == limitSet + 1

Retry ==
    /\ phase = "offer"
    /\ retryLimit' = LongerLimit /\ phase' = "review"
    /\ UNCHANGED <<cardParams, limit, loopVars, sigs, timedOut, refused>>

CancelRetry ==
    /\ phase = "offer" /\ phase' = "review"
    /\ UNCHANGED <<cardParams, limit, retryLimit, loopVars, sigs, timedOut, refused>>

\* Another PSBT comes, and the user may have changed the setting.
NextPsbt ==
    /\ phase \in {"review", "signed"}
    /\ phase' = "review" /\ sigs' = {}
    /\ limitSet' \in 1..(MaxLimit - 1)
    /\ limit' = 0 /\ timedOut' = FALSE /\ refused' = {}
    /\ UNCHANGED <<cardKind, derivs, own, need, retryLimit, loopVars>>

Signer == StartCall \/ TimeUp \/ StartInputs \/ PickInput \/ TryKey \/ EndInput
          \/ Choose \/ StartAfter \/ Finish

SignerNext == Approve \/ Signer \/ CardAnswers \/ Retry \/ CancelRetry \/ NextPsbt

SignerSpec == SignerInit /\ [][SignerNext]_signVars

----------------------------------------------------------------------------
(* Properties *)

\* When the signer is through, an input it has a key for is signed unless a
\* call for it failed, and never twice; and whatever a Satochip adds is a
\* signature by a key of its own that the input names.  (A Keycard signs a
\* lone path with whatever key it holds there.)
InputsAreSigned ==
    phase \in {"after", "signed"} =>
        \A i \in Ins :
          /\ Cardinality({s \in sigs : s[1] = i}) <= 1
          /\ cardKind = "satochip" =>
               /\ \A s \in sigs : s[1] = i => s[2] \in derivs[i] \cap own
               /\ derivs[i] \cap own # {} /\ i \notin refused => \E s \in sigs : s[1] = i
=============================================================================
