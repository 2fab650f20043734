---------------------------- MODULE MC_LocalInit ----------------------------
\* LocalInit for TLC, on the types and initialisers of InitCases.
EXTENDS LocalInit, InitCases

\* int x = v1;  int x = {v1};  and the lists of MemberInits.
LocalInits == ScalarInits \cup ScalarListInits \cup MemberInits
=============================================================================
