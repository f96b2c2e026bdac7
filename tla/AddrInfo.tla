------------------------------ MODULE AddrInfo ------------------------------
(***************************************************************************)
(* The address and metadata helpers of src/tunnel/tunnel.go:               *)
(* GetIpAndPort (56-70) on an address that is neither a TCPAddr nor a      *)
(* UDPAddr, and GetAppInfo (72-84).  A string is a sequence of characters  *)
(* from a small alphabet; "" is <<>>.  The machine picks an address and    *)
(* the optional metadata, splits the address, then builds the appInfo.    *)
(***************************************************************************)
EXTENDS Naturals, Sequences, Functions, TLC

CONSTANTS Chars, MaxLen, Protocols, Hostnames, SourceAddrs

ASSUME CharsAssumption == ":" \in Chars
ASSUME MaxLenAssumption == MaxLen \in Nat

\* The strings of at most MaxLen characters.
Strings == UNION {[1..n -> Chars] : n \in 0..MaxLen}

\* strings.LastIndexByte: the 0-based index of the last b in s, or -1.
LastIndexByte(s, b) ==
  LET I == {i \in 1..Len(s) : s[i] = b}
  IN  IF I = {} THEN -1 ELSE (CHOOSE i \in I : \A j \in I : j <= i) - 1

\* The test `idx > 0` of line 65.
SplitAtNonNegative(idx) == idx >= 0
SplitAt(idx) == idx > 0

\* Lines 64-69: ipPort[0:idx] and ipPort[idx+1:], or ("", "").
GetIpAndPort(ipPort) ==
  LET idx == LastIndexByte(ipPort, ":")
  IN  IF SplitAt(idx)
        THEN <<SubSeq(ipPort, 1, idx), SubSeq(ipPort, idx + 2, Len(ipPort))>>
        ELSE <<<<>>, <<>>>>

\* An optional key of lines 75-77 and 80-82: set only for a non-empty value.
Optional(k, v) == IF v # <<>> THEN k :> v ELSE <<>>

\* Lines 72-84: the map built key by key.
GetAppInfo(protocol, dstHostname, dstIp, dstPort, sourceAddr) ==
  ("protocol" :> protocol) @@ Optional("hostname", dstHostname)
    @@ ("ip" :> dstIp) @@ ("port" :> dstPort) @@ Optional("source", sourceAddr)

VARIABLES addr, hostname, sourceAddr, ip, port, appInfo, pc

vars == <<addr, hostname, sourceAddr, ip, port, appInfo, pc>>

Init ==
  /\ addr \in Strings
  /\ hostname \in Hostnames
  /\ sourceAddr \in SourceAddrs
  /\ ip = <<>> /\ port = <<>>
  /\ appInfo = <<>>
  /\ pc = "split"

Split ==
  /\ pc = "split"
  /\ ip' = GetIpAndPort(addr)[1]
  /\ port' = GetIpAndPort(addr)[2]
  /\ pc' = "build"
  /\ UNCHANGED <<addr, hostname, sourceAddr, appInfo>>

Build ==
  /\ pc = "build"
  /\ \E protocol \in Protocols :
       appInfo' = GetAppInfo(protocol, hostname, ip, port, sourceAddr)
  /\ pc' = "done"
  /\ UNCHANGED <<addr, hostname, sourceAddr, ip, port>>

Done == pc = "done" /\ UNCHANGED vars

Next == Split \/ Build \/ Done

Spec == Init /\ [][Next]_vars

-----------------------------------------------------------------------------

HasColon(s) == \E i \in 1..Len(s) : s[i] = ":"

\* The split of line 65 is exact: either it yields nothing, or the ip is a
\* non-empty host, the port holds no colon, and ip ":" port is the address;
\* and it yields something whenever the address has a colon after its
\* first character (the boundary idx = 0 and the last-colon choice).
SplitCorrect ==
  pc # "split" =>
    /\ \/ ip = <<>> /\ port = <<>>
       \/ ip # <<>> /\ ~HasColon(port) /\ ip \o <<":">> \o port = addr
    /\ Len(addr) > 1 /\ HasColon(Tail(addr)) => ip # <<>>

\* spec.md §4.2 (line 53): the fallback parses "the last colon-delimited
\* segment" and returns two empty strings only "if no separator is found".
SplitMatchesSpec ==
  pc # "split" =>
    IF HasColon(addr)
      THEN LET idx == LastIndexByte(addr, ":")
           IN  ip = SubSeq(addr, 1, idx) /\ port = SubSeq(addr, idx + 2, Len(addr))
      ELSE ip = <<>> /\ port = <<>>

====
