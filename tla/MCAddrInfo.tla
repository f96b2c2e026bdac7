---------------------------- MODULE MCAddrInfo ----------------------------
EXTENDS AddrInfo

MCChars == {"a", ":"}
MCProtocols == {<<"t">>}
MCHostnames == {<<>>, <<"h">>}
MCSourceAddrs == {<<>>, <<"s">>}

====
