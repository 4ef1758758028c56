-------------------------------- MODULE Lan --------------------------------
(***************************************************************************)
(* ARP, ICMP and UDP in libtanix-net (lib.rs, udp.rs) and the rounds of the *)
(* net server's event loop (net/src/main.rs): drain the receive ring into   *)
(* the stack, then probe for the gateway, ping it and log what came in.     *)
(* The LAN may lose every frame; a station may come back with another MAC.  *)
(***************************************************************************)
EXTENDS Naturals, Sequences, FiniteSets

CONSTANTS
  GwIp, ZeroIp,    \* the gateway's address and 0.0.0.0
  Stations,        \* addresses of the other stations
  Macs,            \* MAC addresses a station may use
  ARP_CACHE_MAX,   \* entries of the ARP cache (8)
  RX_MAX,          \* bound: frames in the receive ring (32 slots)
  MAX_PINGS,       \* bound: echo requests sent
  MAX_DATAGRAMS    \* bound: datagrams sent to UDP_IN_PORT

NoMac == 0
Ips == Stations \cup {GwIp, ZeroIp}

VARIABLES
  rx,         \* frames in the receive ring
  tx,         \* requests on their way to the gateway
  cache,      \* ARP cache: index -> << ip, mac >>
  cache_n,    \* entries in use
  gw_mac,     \* MAC of the gateway, or NoMac
  heard,      \* history: ip -> the last MAC cache_add was given for it
  ping_seq, pong_seq, last_pong,
  udp,        \* datagram waiting at the bound endpoint (0: none)
  sentDgrams, \* datagrams sent to it so far
  udpLog      \* history: datagrams the server has logged

lanVars == << rx, tx, cache, cache_n, gw_mac, heard, ping_seq, pong_seq,
              last_pong, udp, sentDgrams, udpLog >>
appVars == << ping_seq, pong_seq, last_pong, udp, sentDgrams, udpLog >>

ASSUME LanAssumption ==
  /\ NoMac \notin Macs /\ ARP_CACHE_MAX \in Nat \ {0}
  /\ {RX_MAX, MAX_PINGS, MAX_DATAGRAMS} \subseteq Nat
  /\ Cardinality(Stations \cup {GwIp, ZeroIp}) = Cardinality(Stations) + 2

LanInit ==
  /\ rx = << >> /\ tx = {}
  /\ cache = [ i \in 1 .. ARP_CACHE_MAX |-> << ZeroIp, NoMac >> ]
  /\ cache_n = 0 /\ gw_mac = NoMac
  /\ heard = [ ip \in Ips |-> NoMac ]
  /\ ping_seq = 0 /\ pong_seq = 0 /\ last_pong = 0
  /\ udp = 0 /\ sentDgrams = 0 /\ udpLog = << >>

-----------------------------------------------------------------------------
(* The ARP cache *)

First(P) == CHOOSE i \in P : \A j \in P : i <= j

\* The search covers the unused entries too, which hold ZeroIp.
Holding(ip) == { i \in 1 .. ARP_CACHE_MAX : cache[i][1] = ip }

\* The bug of not looking for an entry the address has already.
cache_add_Unsearched(ip, mac) ==
  /\ heard' = [heard EXCEPT ![ip] = mac]
  /\ IF cache_n < ARP_CACHE_MAX
     THEN /\ cache' = [cache EXCEPT ![cache_n + 1] = << ip, mac >>]
          /\ cache_n' = cache_n + 1
     ELSE /\ cache' = [cache EXCEPT ![1] = << ip, mac >>]
          /\ UNCHANGED cache_n

cache_add(ip, mac) ==
  /\ heard' = [heard EXCEPT ![ip] = mac]
  /\ IF Holding(ip) # {}
     THEN /\ cache' = [cache EXCEPT ![First(Holding(ip))] = << ip, mac >>]
          /\ UNCHANGED cache_n
     ELSE IF cache_n < ARP_CACHE_MAX
     THEN /\ cache' = [cache EXCEPT ![cache_n + 1] = << ip, mac >>]
          /\ cache_n' = cache_n + 1
     ELSE /\ cache' = [cache EXCEPT ![1] = << ip, mac >>]
          /\ UNCHANGED cache_n

Found(ip) == { i \in 1 .. cache_n : cache[i][1] = ip }

cache_get(ip) == IF ip = GwIp THEN gw_mac
                 ELSE IF Found(ip) # {} THEN cache[First(Found(ip))][2]
                 ELSE NoMac

-----------------------------------------------------------------------------
(* The wire *)

Station(f) == Len(rx) < RX_MAX /\ rx' = Append(rx, f)

\* A station sends any IPv4 frame or an ARP request (an address probe has
\* sender 0.0.0.0).
StationTalks ==
  /\ \E ip \in Ips, mac \in Macs : Station([ kind |-> "talk", ip |-> ip, mac |-> mac ])
  /\ UNCHANGED << tx, cache, cache_n, gw_mac, heard, appVars >>

StationSendsDatagram ==
  /\ sentDgrams < MAX_DATAGRAMS
  /\ \E ip \in Stations, mac \in Macs :
       Station([ kind |-> "udp", ip |-> ip, mac |-> mac, id |-> sentDgrams + 1 ])
  /\ sentDgrams' = sentDgrams + 1
  /\ UNCHANGED << tx, cache, cache_n, gw_mac, heard, ping_seq, pong_seq,
                  last_pong, udp, udpLog >>

\* The gateway answers a who-has or an echo request.
GwAnswers(r) ==
  /\ r \in tx /\ tx' = tx \ {r}
  /\ \E mac \in Macs : Station([ r EXCEPT !.mac = mac ])
  /\ UNCHANGED << cache, cache_n, gw_mac, heard, appVars >>

LoseRequest(r) ==
  /\ r \in tx /\ tx' = tx \ {r}
  /\ UNCHANGED << rx, cache, cache_n, gw_mac, heard, appVars >>

-----------------------------------------------------------------------------
(* The stack: on_frame *)

\* What each protocol does with a frame, after its sender has been learned.  A
\* reply from the gateway is the only ARP frame the probe waits for; the
\* answers to other stations' requests change nothing here.
handle_arp(f) == gw_mac' = IF f.kind = "arp" THEN f.mac ELSE gw_mac
handle_icmp(f) == pong_seq' = IF f.kind = "ping" THEN f.seq ELSE pong_seq
deliver(f) == udp' = IF f.kind = "udp" THEN f.id ELSE udp

OnFrame ==
  LET f == Head(rx) IN
  /\ rx # << >> /\ rx' = Tail(rx)
  /\ cache_add(f.ip, f.mac)
  /\ handle_arp(f) /\ handle_icmp(f) /\ deliver(f)
  /\ UNCHANGED << tx, ping_seq, last_pong, sentDgrams, udpLog >>

Probe == [ kind |-> "arp", ip |-> GwIp, mac |-> NoMac, seq |-> 0 ]
Ping(n) == [ kind |-> "ping", ip |-> GwIp, mac |-> NoMac, seq |-> n ]

\* The bug of probing only before the first frame is heard.
Round_ProbesOnce(pingTime) ==
  LET pings == gw_mac # NoMac /\ pingTime /\ ping_seq < MAX_PINGS IN
  /\ rx = << >>
  /\ tx' = tx \cup (IF gw_mac = NoMac /\ cache_n = 0 THEN {Probe} ELSE {})
              \cup (IF pings THEN {Ping(ping_seq)} ELSE {})
  /\ ping_seq' = IF pings THEN ping_seq + 1 ELSE ping_seq
  /\ last_pong' = pong_seq
  /\ udpLog' = IF udp # 0 THEN Append(udpLog, udp) ELSE udpLog
  /\ udp' = 0
  /\ UNCHANGED << rx, cache, cache_n, gw_mac, heard, pong_seq, sentDgrams >>

\* The rest of a round, once the ring is drained: probe until the gateway
\* resolves, or ping it when its time has come; log a new echo reply and the
\* datagram at the endpoint.
Round(pingTime) ==
  LET pings == gw_mac # NoMac /\ pingTime /\ ping_seq < MAX_PINGS IN
  /\ rx = << >>
  /\ tx' = tx \cup (IF gw_mac = NoMac THEN {Probe} ELSE {})
              \cup (IF pings THEN {Ping(ping_seq)} ELSE {})
  /\ ping_seq' = IF pings THEN ping_seq + 1 ELSE ping_seq
  /\ last_pong' = pong_seq
  /\ udpLog' = IF udp # 0 THEN Append(udpLog, udp) ELSE udpLog
  /\ udp' = 0
  /\ UNCHANGED << rx, cache, cache_n, gw_mac, heard, pong_seq, sentDgrams >>

LanNext ==
  \/ StationTalks \/ StationSendsDatagram \/ OnFrame
  \/ \E r \in tx : GwAnswers(r) \/ LoseRequest(r)
  \/ \E pingTime \in BOOLEAN : Round(pingTime)

LanSpec == LanInit /\ [][LanNext]_lanVars

\* The loop runs for ever, and not every who-has is lost.
LanFairness ==
  /\ WF_lanVars(OnFrame)
  /\ SF_lanVars(Round(FALSE))
  /\ SF_lanVars(GwAnswers(Probe))

LanFairSpec == LanSpec /\ LanFairness

-----------------------------------------------------------------------------
(* Properties *)

\* What the cache answers for a station is the MAC last heard from it, also
\* after entries have been evicted, re-learned or written for 0.0.0.0: no
\* address is ever held by two entries of which the search finds the older.
LearnedIsLatest ==
  \A ip \in Ips \ {GwIp} : cache_get(ip) \in {NoMac, heard[ip]}

\* Losing who-has frames only delays the gateway: it is probed until it
\* resolves, unless traffic keeps the server in its drain loop for ever.
GatewayResolves == []<>(rx = << >>) => <>(gw_mac # NoMac)
=============================================================================
