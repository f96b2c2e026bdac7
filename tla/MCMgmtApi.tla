----------------------------- MODULE MCMgmtApi -----------------------------
EXTENDS MgmtApi

CONSTANTS p1, p2, n1, f1, f2

MCCallers == {p1, p2}
MCCallersOne == {p1}
MCNames == {n1}
MCFields == {f1, f2}
MCKindsService == {"service"}
MCKindsEdgeRouter == {"edgeRouter"}

====
