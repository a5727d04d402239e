------------------------------ MODULE MCSrvDb -------------------------------
EXTENDS SrvDb, TLC

CONSTANTS i1, s1
MCBookInfo == {i1}
MCShelfInfo == {s1}
=============================================================================
