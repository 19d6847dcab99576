----------------------------- MODULE MCSeedFlow -----------------------------
EXTENDS SeedFlow, TLC

CONSTANTS o1, o2, o3, k1, k2, locked

MCObjects == {o1, o2, o3}
MCTwoObjects == {o1, o2}
MCKeys == {k1, k2, locked}
MCLockedKeys == {locked}
MCAllKinds == {"bip39", "electrum", "aezeed"}
MCBip39 == {"bip39"}
MCElectrum == {"electrum"}

(* Seed objects and unlocked keys are interchangeable. *)
ObjectSymmetry == Permutations(MCObjects) \cup Permutations({k1, k2})
=============================================================================
