----------------------------- MODULE ProcNetUdp -----------------------------
(***************************************************************************)
(* How the component reads the fill of its socket's kernel buffer out of   *)
(* /proc/net/udp (get_rx_queue of AffinityUtils.h).  A row of that file    *)
(* holds the local and the remote address of a socket and the bytes in its *)
(* receive queue; addresses have 8 hexadecimal digits, the last octet      *)
(* first, and ports 4.  What is searched for is printed without leading    *)
(* zeros and followed by nothing, so it matches the end of an address and  *)
(* the beginning of a port.                                                *)
(***************************************************************************)
EXTENDS Integers, Sequences, SequencesExt

AddressDigits(ip) ==
    <<ip[4] \div 16, ip[4] % 16, ip[3] \div 16, ip[3] % 16,
      ip[2] \div 16, ip[2] % 16, ip[1] \div 16, ip[1] % 16>>

PortDigits(port) ==
    <<port \div 4096, (port \div 256) % 16, (port \div 16) % 16, port % 16>>

\* std::hex prints no leading zeros.
Printed(digits) ==
    LET nonzero == {i \in DOMAIN digits : digits[i] # 0}
    IN  IF nonzero = {} THEN <<0>> ELSE SubSeq(digits, Min(nonzero), Len(digits))

\* strstr finds the printed ip:port in the text of the address and port.
FoundInLoosely(ip, port, address, p) == IsSuffix(Printed(AddressDigits(ip)), AddressDigits(address))

FoundIn(ip, port, address, p) ==
    /\ IsSuffix(Printed(AddressDigits(ip)), AddressDigits(address))
    /\ IsPrefix(Printed(PortDigits(port)), PortDigits(p))

\* The remote address of a connected socket is found too.  The token then taken for
\* its queues is the timer of the socket, which is 0 for UDP.
LocalMatches(rows, ip, port)  == {row \in rows : FoundIn(ip, port, row.local, row.port)}
RemoteMatches(rows, ip, port) == {row \in rows : FoundIn(ip, port, row.remote, row.rport)}

get_rx_queue(rows, ip, port) ==
    [rx_queue      |-> Max({0} \cup {row.queue : row \in LocalMatches(rows, ip, port)}),
     num_listeners |-> Cardinality(LocalMatches(rows, ip, port))
                         + Cardinality(RemoteMatches(rows, ip, port))]
=============================================================================
