------------------------------ MODULE MCNetRx -------------------------------
\* Instances of NetRx for TLC.
EXTENDS NetRx
CONSTANTS d1, d2

TwoContents == {d1, d2}
OneContent  == {d1}
=============================================================================
