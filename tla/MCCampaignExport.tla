-------------------------- MODULE MCCampaignExport --------------------------
EXTENDS CampaignExport, TLC

CONSTANTS w1, w2

WorkerSlots == {w1, w2}
Symmetry == Permutations(WorkerSlots)

============================================================================
