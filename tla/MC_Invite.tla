------------------------------ MODULE MC_Invite -----------------------------
EXTENDS Invite
CONSTANTS r1, r2
OneRequest == {r1}
TwoRequests == {r1, r2}
=============================================================================
