-------------------------- MODULE MC_ApprovalTerms --------------------------
EXTENDS ApprovalTerms

CONSTANTS t1, t2

TermsTabs == {t1, t2}
=============================================================================
