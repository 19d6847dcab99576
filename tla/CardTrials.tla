----------------------------- MODULE CardTrials -----------------------------
(***************************************************************************)
(* The trials of a signing card: the bias check, which collects signatures *)
(* until it has enough or gives up and passes a verdict on them, and the   *)
(* benchmarks, which time a fixed number of signatures.                    *)
(*                                                                         *)
(* Each attempt of the check gets a line in its report.  A slow signature  *)
(* is dropped and the same hash tried once more, within the attempt loop   *)
(* but past its guard.                                                     *)
(***************************************************************************)
EXTENDS Naturals, FiniteSets, Sequences

CONSTANTS NumSamples,   \* signatures wanted (1000)
          AttemptsFactor, \* attempts allowed for each (5)
          MaxFailures,  \* failures in a row allowed (25)
          Tolerated,    \* slow or unreadable answers that do not fail it (1%)
          BenchSize     \* signatures of a benchmark (20)

VARIABLES trial,     \* "menu", "bias" or "bench"
          again,     \* the same hash is tried a second time
          samples,   \* good signatures
          idx,       \* attempts
          inRow,     \* consecutive_failures
          dropped,   \* the dropped answers by reason
          verdict,   \* what the check showed last
          timed,     \* durations of the benchmark: one entry for each answer,
                     \* TRUE when the signature verifies
          error,     \* the benchmark broke off
          verified   \* sigs_verified

trialVars == <<trial, again, samples, idx, inRow, dropped, verdict, timed, error, verified>>

Reasons == {"duplicate", "exception", "hard", "soft", "sw", "parse"}
NoReasons == [r \in Reasons |-> 0]
MaxAttempts == NumSamples * AttemptsFactor

TrialsTypeOK ==
    /\ trial \in {"menu", "bias", "bench"} /\ again \in BOOLEAN
    /\ samples \in 0..NumSamples /\ idx \in 0..(MaxAttempts + 1)
    /\ inRow \in 0..(MaxFailures + 1)
    /\ dropped \in [Reasons -> 0..(MaxAttempts + 1)]
    /\ verdict \in {"none", "pass", "warn", "fail", "abort", "timed", "failed"}
    /\ timed \in Seq(BOOLEAN) /\ Len(timed) <= BenchSize
    /\ error \in BOOLEAN /\ verified \in BOOLEAN

TrialsInit ==
    /\ trial = "menu" /\ again = FALSE
    /\ samples = 0 /\ idx = 0 /\ inRow = 0 /\ dropped = NoReasons
    /\ verdict = "none" /\ timed = << >> /\ error = FALSE /\ verified = FALSE

benchVars == <<timed, error, verified>>
biasVars == <<again, samples, idx, inRow, dropped>>

StartBias ==
    /\ trial = "menu" /\ trial' = "bias" /\ verdict' = "none"
    /\ again' = FALSE /\ samples' = 0 /\ idx' = 0 /\ inRow' = 0 /\ dropped' = NoReasons
    /\ UNCHANGED benchVars

\* Mutant: the failures in a row are not looked at.
OnlyAttempts == samples < NumSamples /\ idx < MaxAttempts

\* The guard of the attempt loop.
GoesOn == samples < NumSamples /\ idx < MaxAttempts /\ inRow < MaxFailures

\* A duplicate hash is dropped unsigned; a slow answer is tried again once.  An
\* answer past the time limit raises, an "exception" like any other: "hard" is
\* one that came in time and was measured past the limit all the same.
Drop ==
    /\ trial = "bias" /\ (again \/ GoesOn)
    /\ \E r \in IF again THEN Reasons \ {"duplicate"} ELSE Reasons :
         /\ dropped' = [dropped EXCEPT ![r] = @ + 1]
         /\ again' = (r = "soft" /\ ~again)
    /\ idx' = idx + 1 /\ inRow' = inRow + 1
    /\ UNCHANGED <<trial, samples, verdict>> /\ UNCHANGED benchVars

Sample ==
    /\ trial = "bias" /\ (again \/ GoesOn)
    /\ samples' = samples + 1 /\ idx' = idx + 1 /\ inRow' = 0 /\ again' = FALSE
    /\ UNCHANGED <<trial, dropped, verdict>> /\ UNCHANGED benchVars

\* The verdict, from the worst of the statistical tests; with no signature at
\* all these fail.
Judge(stats) ==
    IF samples < NumSamples THEN "abort"
    ELSE IF dropped["hard"] > 0 \/ dropped["soft"] > Tolerated \/ dropped["parse"] > Tolerated
         THEN "fail" ELSE stats

EndBias ==
    /\ trial = "bias" /\ ~again /\ ~GoesOn
    /\ \E stats \in {"pass", "warn", "fail"} : verdict' = Judge(stats)
    /\ trial' = "menu"
    /\ UNCHANGED biasVars /\ UNCHANGED benchVars

StartBench ==
    /\ trial = "menu" /\ trial' = "bench" /\ verdict' = "none"
    /\ timed' = << >> /\ error' = FALSE /\ verified' = FALSE
    /\ UNCHANGED biasVars

\* An answer is timed before its status is looked at.  Of the checks of the
\* signatures the first alone is remembered.
BenchAnswer ==
    /\ trial = "bench" /\ ~error /\ Len(timed) < BenchSize
    /\ \E good, refused \in BOOLEAN :
         /\ timed' = Append(timed, good /\ ~refused)
         /\ error' = refused
         /\ verified' = IF timed = << >> /\ ~refused THEN good ELSE verified
    /\ UNCHANGED <<trial, verdict>> /\ UNCHANGED biasVars

BenchFails ==
    /\ trial = "bench" /\ ~error /\ Len(timed) < BenchSize
    /\ error' = TRUE
    /\ UNCHANGED <<trial, verdict, timed, verified>> /\ UNCHANGED biasVars

Timed == timed # << >> /\ ~error

EndBench ==
    /\ trial = "bench" /\ (error \/ Len(timed) = BenchSize)
    /\ verdict' = IF Timed THEN "timed" ELSE "failed"
    /\ trial' = "menu"
    /\ UNCHANGED benchVars /\ UNCHANGED biasVars

TrialsNext == StartBias \/ Drop \/ Sample \/ EndBias
        \/ StartBench \/ BenchAnswer \/ BenchFails \/ EndBench

TrialsSpec == TrialsInit /\ [][TrialsNext]_trialVars
=============================================================================
