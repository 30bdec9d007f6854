------------------------- MODULE MCActivityPrivacy -------------------------
EXTENDS ActivityPrivacy

\* A worker that fills a cache; workers meet only in the lock of the policy.
OneWorker == {"artwork"}
NoWorkers == {}

OneVideo == {"video"}
Few == {0, 1}
=============================================================================
