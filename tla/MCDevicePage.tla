---------------------------- MODULE MCDevicePage -----------------------------
EXTENDS DevicePage, TLC

CONSTANTS c1, c2, k1, k2, k3

\* Cards are alike, and so are the ids of keys.
Alike == Permutations(Cards) \cup Permutations(Keys)
=============================================================================
