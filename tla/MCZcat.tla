------------------------------ MODULE MCZcat ------------------------------
EXTENDS ZcatRefinement

MCNetworks == {"zt", "bogus"}
MCNetworksTcp == {"tcp"}
MCNetworksZt == {"zt"}

====
