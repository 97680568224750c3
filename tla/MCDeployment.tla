----------------------------- MODULE MCDeployment -----------------------------
EXTENDS Deployment, TLC

CONSTANTS t1, t2, t3

MCTasks == {t1, t2, t3}
MCImages == {3, 10}
=============================================================================
