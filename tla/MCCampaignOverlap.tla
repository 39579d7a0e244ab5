-------------------------- MODULE MCCampaignOverlap --------------------------
EXTENDS CampaignOverlap, TLC

CONSTANTS w1, w2

WorkerSlots == {w1, w2}

============================================================================
