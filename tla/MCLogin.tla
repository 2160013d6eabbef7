------------------------------ MODULE MCLogin ------------------------------
EXTENDS Login
CONSTANTS l1, l2
MCLogins == {l1, l2}
MCWriters == MCLogins \union {"other"}
MCTokens == {"expired", "ours", "theirs"}
MCValid == MCTokens \ {"expired"}
=============================================================================
