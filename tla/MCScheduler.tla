----------------------------- MODULE MCScheduler -----------------------------
EXTENDS Scheduler
\* Soon, without a reminder, and far enough ahead for one.
MCAhead == {1, 4}
=============================================================================
