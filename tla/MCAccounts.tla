----------------------------- MODULE MCAccounts -----------------------------
\* Two people, two requests at a time, three identities ever made.
EXTENDS Accounts, FiniteSetsExt, TLC

FewMinted == MapThenSumSet(LAMBDA u : minted[u], Users) <= 3
Symmetry == Permutations(Users) \cup Permutations(Calls)
=============================================================================
