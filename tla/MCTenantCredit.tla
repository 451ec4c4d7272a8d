---------------------------- MODULE MCTenantCredit ----------------------------
EXTENDS TenantCredit, TLC

CONSTANTS t1, t2, t3, w1, w2

MCTenants == {t1, t2, t3}
MCThreads == {w1, w2}
MCSymmetry == Permutations(MCTenants) \cup Permutations(MCThreads)
===========================================================================
