------------------------- MODULE MCSocketConnection -------------------------
(***************************************************************************)
(* Instances of SocketConnection for TLC: a host with a loopback device,   *)
(* two network devices and a VLAN, and the network that is left when one   *)
(* of them goes down and with it its routes.                               *)
(***************************************************************************)
EXTENDS SocketConnection, TLC

Symmetry == Permutations(Hosts)

Device(base, vlan, addr, up) ==
    [name |-> Name(base, vlan), addr |-> addr, up |-> up, loopback |-> base = "lo",
     multicast |-> base # "lo"]

Route(dest, mask, base, vlan) == [dest |-> dest, mask |-> mask, iface |-> Name(base, vlan)]

DevicesWith(eth0up) ==
    <<Device("lo", 0, <<127, 0, 0, 1>>, TRUE), Device("eth0", 0, <<10, 0, 0, 1>>, eth0up),
      Device("eth0", 28, <<10, 28, 0, 1>>, eth0up),
      Device("eth1", 28, <<10, 28, 0, 2>>, TRUE), Device("eth1", 0, <<10, 0, 1, 1>>, TRUE)>>

Counters == [base \in {"lo", "eth0", "eth1"} |->
                CASE base = "lo" -> 0 [] base = "eth0" -> 7 [] base = "eth1" -> 9]

BothUp == [devices |-> DevicesWith(TRUE), dropped |-> Counters,
           routes  |-> <<Route(<<224, 0, 0, 0>>, 1, "eth1", 0),
                         Route(<<224, 1, 1, 0>>, 3, "eth0", 0),
                         Route(<<0, 0, 0, 0>>, 0, "eth1", 0),
                         Route(<<224, 1, 0, 0>>, 2, "eth1", 0)>>]

OneDown == [devices |-> DevicesWith(FALSE), dropped |-> Counters, routes |-> <<>>]

TwoNetworks == {BothUp, OneDown}

Request(interface, ip, vlan, port) ==
    [interface |-> interface, ip |-> ip, vlan |-> vlan, port |-> port]

Group     == <<224, 1, 1, 17>>
HighGroup == <<224, 1, 1, 250>>

SomeRequests ==
    {Request(NoName, Group, 0, 29495), Request(NoName, Group, 28, 29495),
     Request("eth1", Group, 0, 29496), Request("eth0", Group, 28, 29495),
     Request("eth2", Group, 0, 29495), Request(NoName, HighGroup, 0, 29495),
     Request(NoName, <<10, 0, 1, 1>>, 0, 29495), Request("eth1", AnyAddress, 0, 29495),
     Request(NoName, AnyAddress, 0, 1000), Request(NoName, <<10, 0, 0, 9>>, 0, 29495),
     Request(NoName, NoIp, 0, 29495)}

Row(id, local, port, remote, rport, queue) ==
    [id |-> id, local |-> local, port |-> port, remote |-> remote, rport |-> rport,
     queue |-> queue]

\* On the same address; on one whose last octet begins like it; on the next port; and a
\* socket connected to it.
SomeRows ==
    {Row(101, Group, 29495, AnyAddress, 0, 2),
     Row(102, <<224, 1, 1, 1>>, 29495, AnyAddress, 0, 3),
     Row(103, Group, 29496, AnyAddress, 0, 3),
     Row(104, <<10, 0, 0, 1>>, 5000, Group, 29495, 3)}
=============================================================================
