-------------------------- MODULE MCStorageBreaker --------------------------
EXTENDS StorageBreaker, TLC

CONSTANTS k1, k2, k3

ThreeCalls == {k1, k2, k3}

============================================================================
