----------------------------- MODULE LanProofs -----------------------------
(***************************************************************************)
(* The ARP cache of Lan answers with the MAC last heard from a station, for *)
(* every number of stations, MACs and entries.  What makes it so is that    *)
(* the entries in use hold different addresses, that the unused ones hold   *)
(* 0.0.0.0, and that 0.0.0.0 enters the part in use only once it is full.   *)
(***************************************************************************)
EXTENDS Lan, WellFoundedInduction, TLAPS

NatLess == { p \in Nat \X Nat : p[1] < p[2] }

\* cache_add and cache_get take the first entry that matches: there is one
\* whenever some entry matches.
LEMMA FirstMember ==
  ASSUME NEW S \in SUBSET Nat, S # {}
  PROVE  First(S) \in S
<1>1. IsWellFoundedOn(NatLess, Nat)
  BY NatLessThanWellFounded DEF OpToRel, NatLess
<1>2. PICK x \in S : \A y \in S : ~ (<<y, x>> \in NatLess)
  BY Zenon, <1>1, WFMin
<1>3. ASSUME NEW y \in S PROVE x <= y
  <2>1. x \in Nat /\ y \in Nat
    OBVIOUS
  <2>2. ~ (y < x)
    BY Zenon, <1>2, <2>1 DEF NatLess
  <2>. QED BY <2>1, <2>2
<1>. QED BY Zenon, <1>3 DEF First

-----------------------------------------------------------------------------
Entries == 1 .. ARP_CACHE_MAX
Addresses == Macs \cup {NoMac}

\* Frames that reach the stack and requests on their way to the gateway.
Frames == [ kind : {"talk"}, ip : Ips, mac : Macs ]
     \cup [ kind : {"udp"}, ip : Stations, mac : Macs, id : Nat ]
     \cup [ kind : {"arp", "ping"}, ip : {GwIp}, mac : Macs, seq : Nat ]
Requests == [ kind : {"arp", "ping"}, ip : {GwIp}, mac : {NoMac}, seq : Nat ]

WireInv ==
  /\ rx \in Seq(Frames) /\ tx \subseteq Requests
  /\ ping_seq \in Nat /\ sentDgrams \in Nat

CacheInv ==
  /\ cache \in [Entries -> Ips \X Addresses]
  /\ cache_n \in 0 .. ARP_CACHE_MAX
  /\ heard \in [Ips -> Addresses]
  /\ \A i \in Entries : i > cache_n => cache[i][1] = ZeroIp
  /\ \A i, j \in Entries :
       i <= cache_n /\ j <= cache_n /\ cache[i][1] = cache[j][1] => i = j
  /\ \A i \in Entries :
       i <= cache_n /\ cache[i][1] = ZeroIp => cache_n = ARP_CACHE_MAX
  /\ \A i \in Entries : i <= cache_n => cache[i][2] = heard[cache[i][1]]

LanInv == WireInv /\ CacheInv

LEMMA LanInvInit == LanInit => LanInv
BY LanAssumption DEF LanInit, LanInv, WireInv, CacheInv, Entries, Addresses, Ips

\* cache_add keeps the cache, wherever the address is held.
LEMMA CacheAdd ==
  ASSUME CacheInv, NEW ip \in Ips, NEW mac \in Macs, cache_add(ip, mac)
  PROVE  CacheInv'
<1>. DEFINE f == First(Holding(ip))
<1>1. heard' = [heard EXCEPT ![ip] = mac] /\ mac \in Addresses
  BY Zenon DEF cache_add, Addresses
<1>2. heard' \in [Ips -> Addresses] /\ heard'[ip] = mac
      /\ \A o \in Ips : o # ip => heard'[o] = heard[o]
  BY <1>1 DEF CacheInv
<1>. USE LanAssumption DEF CacheInv, Entries
<1>3. CASE Holding(ip) # {}
  <2>1. cache' = [cache EXCEPT ![f] = << ip, mac >>] /\ cache_n' = cache_n
    BY Zenon, <1>3 DEF cache_add
  <2>2. Holding(ip) \in SUBSET Nat
    BY DEF Holding
  <2>3. f \in Holding(ip)
    BY Zenon, <1>3, <2>2, FirstMember
  <2>4. f \in Entries /\ cache[f][1] = ip
    BY Zenon, <2>3 DEF Holding
  <2>. HIDE DEF f
  <2>. QED BY <1>1, <1>2, <2>1, <2>4
<1>4. CASE Holding(ip) = {} /\ cache_n < ARP_CACHE_MAX
  <2>1. cache' = [cache EXCEPT ![cache_n + 1] = << ip, mac >>] /\ cache_n' = cache_n + 1
    BY Zenon, <1>4 DEF cache_add
  <2>2. \A i \in Entries : cache[i][1] # ip
    BY Zenon, <1>4 DEF Holding
  <2>. QED BY SMTT(30), <1>1, <1>2, <1>4, <2>1, <2>2
<1>5. CASE Holding(ip) = {} /\ ~ (cache_n < ARP_CACHE_MAX)
  <2>1. cache' = [cache EXCEPT ![1] = << ip, mac >>] /\ cache_n' = cache_n
    BY Zenon, <1>5 DEF cache_add
  <2>2. \A i \in Entries : cache[i][1] # ip
    BY Zenon, <1>5 DEF Holding
  <2>. QED BY <1>1, <1>2, <1>5, <2>1, <2>2
<1>. QED BY Zenon, <1>3, <1>4, <1>5

LEMMA LanInvStep == LanInv /\ [LanNext]_lanVars => LanInv'
<1>. SUFFICES ASSUME LanInv, [LanNext]_lanVars PROVE LanInv'
  OBVIOUS
<1>. DEFINE cacheVars == << cache, cache_n, heard >>
<1>0. UNCHANGED cacheVars => CacheInv'
  BY DEF LanInv, CacheInv
<1>1. CASE StationTalks
  <2>1. PICK ip \in Ips, mac \in Macs :
          rx' = Append(rx, [ kind |-> "talk", ip |-> ip, mac |-> mac ])
    BY Zenon, <1>1 DEF StationTalks, Station
  <2>2. UNCHANGED cacheVars /\ UNCHANGED << tx, ping_seq, sentDgrams >>
    BY Zenon, <1>1 DEF StationTalks, appVars
  <2>3. [ kind |-> "talk", ip |-> ip, mac |-> mac ] \in Frames
    BY DEF Frames
  <2>4. WireInv'
    BY <2>1, <2>2, <2>3 DEF LanInv, WireInv
  <2>. QED BY Zenon, <1>0, <2>2, <2>4 DEF LanInv
<1>2. CASE StationSendsDatagram
  <2>1. PICK ip \in Stations, mac \in Macs :
          rx' = Append(rx, [ kind |-> "udp", ip |-> ip, mac |-> mac, id |-> sentDgrams + 1 ])
    BY Zenon, <1>2 DEF StationSendsDatagram, Station
  <2>2. UNCHANGED cacheVars /\ UNCHANGED << tx, ping_seq >> /\ sentDgrams' = sentDgrams + 1
    BY Zenon, <1>2 DEF StationSendsDatagram
  <2>3. [ kind |-> "udp", ip |-> ip, mac |-> mac, id |-> sentDgrams + 1 ] \in Frames
    BY DEF Frames, LanInv, WireInv
  <2>4. WireInv'
    BY <2>1, <2>2, <2>3 DEF LanInv, WireInv
  <2>. QED BY Zenon, <1>0, <2>2, <2>4 DEF LanInv
<1>3. CASE OnFrame
  <2>. DEFINE f == Head(rx)
  <2>1. /\ rx # << >> /\ rx' = Tail(rx) /\ cache_add(f.ip, f.mac)
        /\ UNCHANGED << tx, ping_seq, sentDgrams >>
    BY Zenon, <1>3 DEF OnFrame
  <2>2. f \in Frames /\ rx' \in Seq(Frames)
    BY <2>1 DEF LanInv, WireInv
  <2>3. f.ip \in Ips /\ f.mac \in Macs
    BY <2>2 DEF Frames, Ips
  <2>4. CacheInv'
    BY Zenon, <2>1, <2>3, CacheAdd DEF LanInv
  <2>. QED BY <2>1, <2>2, <2>4 DEF LanInv, WireInv
<1>4. ASSUME NEW r \in tx, GwAnswers(r) PROVE LanInv'
  <2>1. PICK mac \in Macs : rx' = Append(rx, [ r EXCEPT !.mac = mac ])
    BY Zenon, <1>4 DEF GwAnswers, Station
  <2>2. /\ UNCHANGED cacheVars /\ UNCHANGED << ping_seq, sentDgrams >>
        /\ tx' = tx \ {r}
    BY Zenon, <1>4 DEF GwAnswers, appVars
  <2>3. [ r EXCEPT !.mac = mac ] \in Frames
    BY DEF Frames, Requests, LanInv, WireInv
  <2>4. WireInv'
    BY <2>1, <2>2, <2>3 DEF LanInv, WireInv
  <2>. QED BY Zenon, <1>0, <2>2, <2>4 DEF LanInv
<1>5. ASSUME NEW r \in tx, LoseRequest(r) PROVE LanInv'
  <2>1. /\ UNCHANGED cacheVars /\ UNCHANGED << rx, ping_seq, sentDgrams >>
        /\ tx' = tx \ {r}
    BY Zenon, <1>5 DEF LoseRequest, appVars
  <2>2. WireInv'
    BY <2>1 DEF LanInv, WireInv
  <2>. QED BY Zenon, <1>0, <2>1, <2>2 DEF LanInv
<1>6. ASSUME NEW pingTime \in BOOLEAN, Round(pingTime) PROVE LanInv'
  <2>1. /\ UNCHANGED cacheVars /\ UNCHANGED << rx, sentDgrams >>
        /\ tx' \subseteq tx \cup {Probe, Ping(ping_seq)}
        /\ ping_seq' \in {ping_seq, ping_seq + 1}
    BY Zenon, <1>6 DEF Round
  <2>2. Probe \in Requests /\ Ping(ping_seq) \in Requests
    BY DEF Probe, Ping, Requests, LanInv, WireInv
  <2>3. WireInv'
    BY <2>1, <2>2 DEF LanInv, WireInv
  <2>. QED BY Zenon, <1>0, <2>1, <2>3 DEF LanInv
<1>7. CASE UNCHANGED lanVars
  BY <1>7 DEF lanVars, LanInv, WireInv, CacheInv
<1>. QED BY Zenon, <1>1, <1>2, <1>3, <1>4, <1>5, <1>6, <1>7 DEF LanNext

\* cache_get never answers with a MAC a station no longer uses, whatever was
\* learned, evicted and learned again in between, for every size of the cache.
THEOREM CacheIsCurrent == LanSpec => []LearnedIsLatest
<1>1. ASSUME LanInv, NEW ip \in Ips \ {GwIp}
      PROVE  cache_get(ip) \in {NoMac, heard[ip]}
  <2>1. cache_get(ip) = IF Found(ip) # {} THEN cache[First(Found(ip))][2] ELSE NoMac
    BY Zenon DEF cache_get
  <2>2. CASE Found(ip) # {}
    <3>1. Found(ip) \in SUBSET Nat
      BY <1>1 DEF Found, LanInv, CacheInv
    <3>. DEFINE i == First(Found(ip))
    <3>2. i \in Found(ip)
      BY Zenon, <2>2, <3>1, FirstMember
    <3>. HIDE DEF i
    <3>3. i \in Entries /\ i <= cache_n /\ cache[i][1] = ip
      BY <1>1, <3>2, LanAssumption DEF Found, LanInv, CacheInv, Entries
    <3>4. cache[i][2] = heard[ip]
      BY <1>1, <3>3 DEF LanInv, CacheInv
    <3>. QED BY Zenon, <2>1, <2>2, <3>4 DEF i
  <2>3. CASE Found(ip) = {}
    BY Zenon, <2>1, <2>3
  <2>. QED BY Zenon, <2>2, <2>3
<1>2. LanInv => LearnedIsLatest
  BY Zenon, <1>1 DEF LearnedIsLatest
<1>. QED BY LanInvInit, LanInvStep, <1>2, PTL DEF LanSpec
=============================================================================
