------------------------------ MODULE MCAccess ------------------------------
EXTENDS Access, TLC

============================================================================
