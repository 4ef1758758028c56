----------------------------- MODULE MC_Network -----------------------------
(***************************************************************************)
(* The network components, checked in one run: TCP, the LAN side of the     *)
(* stack, and the virtio-net driver.  They share no state: a behaviour      *)
(* picks one part at the start and only that part moves, so the state graph *)
(* is the disjoint union of the parts' graphs and fairness conditions of    *)
(* different parts can be stated as one.                                    *)
(***************************************************************************)
EXTENDS Tcp, Lan, Nic

VARIABLE part

MC_ISS == [ c |-> << 13 >>, s |-> << 6 >> ]
MC_NET_MAX == [ c |-> 1, s |-> 1 ]

netVars == << part, tcpVars, lanVars, nicVars >>

Init == part \in {"tcp", "lan", "nic"} /\ TcpInit /\ LanInit /\ NicInit

\* Only part p may move.
Only(p) ==
  /\ part = p /\ UNCHANGED part
  /\ p # "tcp" => UNCHANGED tcpVars
  /\ p # "lan" => UNCHANGED lanVars
  /\ p # "nic" => UNCHANGED nicVars

Next ==
  \/ Only("tcp") /\ TcpNext
  \/ Only("lan") /\ LanNext
  \/ Only("nic") /\ NicNext

\* TcpFairSpec, LanFairness and NicFairness, condition by condition.
Fairness ==
  /\ WF_netVars(\/ Only("tcp") /\ Poll("c", TRUE)
                \/ Only("lan") /\ OnFrame
                \/ Only("nic") /\ (PollTx \/ recv \/ recv_copied \/ Timers \/ Flush))
  /\ WF_netVars(\/ Only("tcp") /\ Poll("s", TRUE)
                \/ Only("nic") /\ (DeviceFetchTx \/ DeviceSent))
  /\ SF_netVars(Only("lan") /\ Round(FALSE))
  /\ SF_netVars(Only("lan") /\ GwAnswers(Probe))

Spec == Init /\ [][Next]_netVars /\ Fairness

-----------------------------------------------------------------------------
\* GatewayResolves of Lan, for the behaviours in which that part moves: lost
\* who-has frames only delay the gateway (the probe of net/main.rs:204).
GatewayIsResolved == part = "lan" => GatewayResolves
=============================================================================
