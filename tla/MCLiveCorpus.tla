---------------------------- MODULE MCLiveCorpus ----------------------------
EXTENDS LiveCorpus, TLC

CONSTANTS c1, c2

TwoCollections == {c1, c2}
=============================================================================
