---------------------------- MODULE MCBugBounty ----------------------------
EXTENDS BugBounty, TLC

Symmetric == Permutations(Accounts) \cup Permutations(Packages)
=============================================================================
