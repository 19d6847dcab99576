---------------------------- MODULE MCSeedBacking ---------------------------
EXTENDS SeedBacking

CONSTANTS o1, o2, k1, locked

MCObjects == {o1, o2}
MCKeys == {k1, locked}
MCLockedKeys == {locked}
MCBip39 == {"bip39"}
MCElectrum == {"electrum"}
=============================================================================
