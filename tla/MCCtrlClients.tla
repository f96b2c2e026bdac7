--------------------------- MODULE MCCtrlClients ---------------------------
EXTENDS CtrlClientsProofs

CONSTANTS p1, p2, c1, c2, c3

MCCallers == {p1, p2}
MCCallersOne == {p1}
MCCtrls == {c1, c2, c3}
MCCtrlsTwo == {c1, c2}

====
