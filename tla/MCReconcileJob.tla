---------------------------- MODULE MCReconcileJob ----------------------------
\* Instances of ReconcileJob for TLC.
EXTENDS ReconcileJob

\* A host whose clock is either right or two units behind Kraken's; one unit is
\* within the tolerance.
MCSlowSkews == {-2, 0}

=============================================================================
