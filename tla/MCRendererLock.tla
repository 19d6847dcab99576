--------------------------- MODULE MCRendererLock ---------------------------
(* Instances of RendererLock for TLC: two or three toasts, two screens, and *)
(* one or two threads that activate toasts.  Toasts differ in nothing but   *)
(* their names, so they may be permuted in runs without liveness.          *)
EXTENDS RendererLock, TLC

CONSTANTS t1, t2, t3

ToastSymmetry == Permutations(Toasts)
=============================================================================
