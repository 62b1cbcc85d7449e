-------------------------- MODULE SocketConnection --------------------------
(***************************************************************************)
(* The socket of the component: how setConnectionInfo chooses between      *)
(* multicast and unicast and among the network devices, the descriptors it *)
(* opens, the reader thread that uses and closes them, and what            *)
(* get_status_struct tells of the kernel's socket buffer by looking it up  *)
(* in /proc/net/udp.                                                       *)
(*                                                                         *)
(* An IP address is its four octets, a device name a base and a VLAN (0    *)
(* for none, "eth0" and "eth0.28"), a netmask the number of octets it      *)
(* covers: the masks of /proc/net/route, read as numbers, are in the order *)
(* of their lengths.                                                       *)
(*                                                                         *)
(* External: the kernel.  Its devices and routes may change at any time,   *)
(* and it may refuse a bind, a join or any other request.                  *)
(***************************************************************************)
EXTENDS Integers, Sequences, FiniteSets, ProcNetUdp

CONSTANTS
    NoName,         \* the empty interface name
    AllNames,       \* what a socket bound to every unicast address reports
    NoIp,           \* the empty IP address
    Networks,       \* the [devices, routes, dropped] there may be
    Requests,       \* the [interface, ip, vlan, port] the component may be given
    Hosts,          \* who may send
    NoHost,         \* m_host_addr of no host
    Descriptors,    \* file descriptors the process may have for sockets
    Sizes,          \* what a user may ask for as the socket buffer's size, as an int
    DefaultSize,    \* net.core.rmem_default
    MaxSize,        \* net.core.rmem_max
    OtherSockets,   \* rows of /proc/net/udp other sockets may have
    Fills           \* bytes that may wait in the receive queue of one's own

\* Standard input is open, so no socket is ever given descriptor 0.
ASSUME DescriptorAssumption == Descriptors \subseteq Nat \ {0}

ASSUME SizeAssumption ==
    /\ Sizes \subseteq Int
    /\ {DefaultSize, MaxSize} \subseteq Nat \ {0}
    /\ DefaultSize <= 2 * MaxSize

IsAddress(ip) == ip \in [1..4 -> 0..255]
IsGroup(ip)   == ip # NoIp /\ ip[1] \in 224..239

ASSUME RequestAssumption ==
    /\ NoHost \notin Hosts
    /\ ~IsAddress(NoIp)
    /\ \A req \in Requests : /\ {req.port, req.vlan} \subseteq Nat
                             /\ req.ip = NoIp \/ IsAddress(req.ip)

\* The kernel prints rows of finitely many sockets, with the addresses and ports they
\* have.
ASSUME OtherSocketsAssumption ==
    /\ IsFiniteSet(OtherSockets) /\ Fills \subseteq Nat
    /\ \A row \in OtherSockets : /\ {row.port, row.rport, row.queue} \subseteq Nat
                                 /\ IsAddress(row.local) /\ IsAddress(row.remote)

\* Devices and the interfaces of routes have names, and no device has the address of
\* a group.
ASSUME NetworkAssumption ==
    \A net \in Networks :
        /\ {Len(net.devices), Len(net.routes)} \subseteq Nat
        /\ DOMAIN net.devices = 1..Len(net.devices)
        /\ \A ii \in DOMAIN net.devices :
              net.devices[ii].name.base # NoName /\ ~IsGroup(net.devices[ii].addr)
        /\ DOMAIN net.routes = 1..Len(net.routes)
        /\ \A row \in DOMAIN net.routes :
              net.routes[row].iface.base # NoName /\ net.routes[row].mask \in 0..4

VARIABLES
    network,                \* kernel: devices in order, routes, rx_dropped counters
    sockets,                \* kernel: the sockets of the process, by descriptor
    m_multicast_connection, m_unicast_connection,   \* their descriptors, or 0
    m_interface,            \* the name it reports
    m_socket_buffer_size, m_running, m_shuttingDown, m_host_addr,
    thread,                 \* none, created, starting, reading, ended; dead with the process
    joining,                \* stop waits for the thread
    fd,                     \* of run: the descriptor it reads from
    asked,                  \* history: the size a user asked for last
    request,                \* history: of the last setConnectionInfo
    answer,                 \* history: its outcome, and the kernel's part in it
    heard,                  \* history: hosts heard since run began
    warned                  \* history: has run warned of a second host?

connectionVars == <<m_multicast_connection, m_unicast_connection, m_interface>>
sizeVars       == <<m_socket_buffer_size, asked>>
flagVars       == <<m_running, m_shuttingDown>>
hostVars       == <<m_host_addr, heard, warned>>
vars == <<network, sockets, connectionVars, sizeVars, flagVars, hostVars, thread,
          joining, fd, request, answer>>

AnyAddress == <<0, 0, 0, 0>>        \* INADDR_ANY
Name(base, vlan) == [base |-> base, vlan |-> vlan]
Empty == Name(NoName, 0)

-----------------------------------------------------------------------------
(***************************************************************************)
(* Multicast or unicast.  inet_network yields host byte order and          *)
(* inet_addr network byte order, so that one comparison is decided by the  *)
(* first octet of the address and the other by its last.                   *)
(***************************************************************************)
TreatedAsMulticastByFirst(ip) == ip[1] > 224 /\ ip[4] <= 239

TreatedAsMulticast(ip) == ip[1] >= 224 /\ ip[4] <= 239

\* A row of /proc/net/route with a longer mask takes priority, then a later row.
RouteMatches(route, group) == \A octet \in 1..route.mask : route.dest[octet] = group[octet]

Matching(routes, group) == {row \in DOMAIN routes : RouteMatches(routes[row], group)}

RouteOfFirstRow(routes, group) ==
    IF Matching(routes, group) = {} THEN Empty
    ELSE LET best == CHOOSE row \in Matching(routes, group) :
                        \A other \in Matching(routes, group) : other >= row
         IN  routes[best].iface

getMcastIfaceFromRoutes(routes, group) ==
    IF Matching(routes, group) = {} THEN Empty
    ELSE LET best == CHOOSE row \in Matching(routes, group) :
                        \A other \in Matching(routes, group) :
                           \/ routes[other].mask < routes[row].mask
                           \/ routes[other].mask = routes[row].mask /\ other <= row
         IN  routes[best].iface

\* The name that is looked for.  Only a blank one is left to the routing table.
Wanted(net, req) ==
    LET iface == Name(req.interface, req.vlan)
    IN  IF TreatedAsMulticast(req.ip) /\ iface = Empty
        THEN getMcastIfaceFromRoutes(net.routes, req.ip)
        ELSE iface

(***************************************************************************)
(* multicast_open_ and unicast_open_ go through the devices in the order   *)
(* SIOCGIFCONF lists them.  A blank name fits every device, ".28" every    *)
(* one of that VLAN, any other name itself.                                *)
(***************************************************************************)
NameFits(iface, dev) ==
    \/ iface = Empty
    \/ iface.base = NoName /\ iface.vlan # 0 /\ dev.name.vlan = iface.vlan
    \/ iface = dev.name

\* The devices for which a bind is attempted.
MulticastDevices(net, iface) ==
    {ii \in DOMAIN net.devices : LET dev == net.devices[ii]
                                 IN  /\ NameFits(iface, dev)
                                     /\ dev.up /\ ~dev.loopback /\ dev.multicast}

UnicastDevices(net, iface, ip) ==
    {ii \in DOMAIN net.devices : LET dev == net.devices[ii]
                                 IN  /\ NameFits(iface, dev)
                                     /\ ip = AnyAddress \/ ip = dev.addr
                                     /\ dev.up}

(***************************************************************************)
(* A device for which the kernel refuses anything up to the bind is passed *)
(* over for the next; first is the one whose bind succeeds, or 0.  A       *)
(* second bind of the socket fails, so a join that is refused is final.    *)
(* With a blank name the socket is bound to all addresses and the kernel   *)
(* picks the device of the membership.                                     *)
(***************************************************************************)
Candidates(net, req) ==
    IF TreatedAsMulticast(req.ip) THEN MulticastDevices(net, Wanted(net, req))
    ELSE UnicastDevices(net, Wanted(net, req), req.ip)

NotOpened == [ok |-> FALSE, bound |-> NoIp, member |-> 0, chosen |-> NoName]

OpenedMulticast(net, req, first, joins, where) ==
    LET iface == Wanted(net, req)
    IN  [ok     |-> joins,
         bound  |-> IF iface = Empty THEN AnyAddress ELSE req.ip,
         member |-> IF iface = Empty THEN where ELSE first,
         chosen |-> net.devices[first].name.base]

OpenedUnicast(net, req, first) ==
    [ok     |-> TRUE,
     bound  |-> req.ip,
     member |-> 0,
     chosen |-> IF Wanted(net, req) = Empty /\ req.ip = AnyAddress THEN AllNames
                ELSE net.devices[first].name.base]

Opened(net, req, first, joins, where) ==
    CASE first = 0 -> NotOpened
      [] OTHER -> IF TreatedAsMulticast(req.ip)
                  THEN OpenedMulticast(net, req, first, joins, where)
                  ELSE OpenedUnicast(net, req, first)

-----------------------------------------------------------------------------
(***************************************************************************)
(* _start, of a component whose reader thread has been joined:             *)
(* setConnectionInfo and, unless it throws, the creation of the thread.    *)
(* An empty address is refused before anything is closed.  A check that    *)
(* fails before the loop over the devices throws with the new socket open: *)
(* for a group no variable holds it then; for a unicast address what is    *)
(* thrown is not in the list of unicast_client, and the process ends.      *)
(***************************************************************************)
Held == {m_multicast_connection, m_unicast_connection} \ {0}

ClosedIfMulticast(fds) ==
    [d \in DOMAIN sockets \ (fds \ {m_unicast_connection}) |-> sockets[d]]

Closed(fds) == [d \in DOMAIN sockets \ fds |-> sockets[d]]

With(table, d, bound, port, member) ==
    [other \in DOMAIN table \cup {d} |->
        IF other = d THEN [bound |-> bound, port |-> port, member |-> member,
                           size |-> DefaultSize]
        ELSE table[other]]

Refuses(req) ==
    /\ req.ip = NoIp
    /\ answer' = [outcome |-> "invalid", network |-> network, agreed |-> TRUE]
    /\ UNCHANGED <<sockets, connectionVars, thread>>

Leaks(req, d) ==
    /\ TreatedAsMulticast(req.ip)
    /\ answer' = [outcome |-> "leaked", network |-> network, agreed |-> TRUE]
    /\ sockets' = With(Closed(Held), d, NoIp, 0, 0)
    /\ m_multicast_connection' = 0 /\ m_unicast_connection' = 0
    /\ UNCHANGED <<m_interface, thread>>

Dies(req) ==
    /\ ~TreatedAsMulticast(req.ip)
    /\ answer' = [outcome |-> "terminated", network |-> network, agreed |-> TRUE]
    /\ sockets' = Closed(DOMAIN sockets)
    /\ m_multicast_connection' = 0 /\ m_unicast_connection' = 0
    /\ thread' = "dead"
    /\ UNCHANGED m_interface

ThreadRegardless(opened) == "created"

\* setConnectionInfo throws if nothing could be opened, and _start gives up.
ThreadAfter(opened) == IF opened.ok THEN "created" ELSE thread

Opens(req, d, first, joins, where) ==
    LET opened == Opened(network, req, first, joins, where)
        closed == Closed(Held)
        multi  == TreatedAsMulticast(req.ip)
    IN  /\ answer' = [outcome |-> IF opened.ok THEN "opened" ELSE "refused",
                      network |-> network,
                      agreed |-> (first # 0 \/ Candidates(network, req) = {}) /\ joins]
        /\ sockets' = IF opened.ok
                      THEN With(closed, d, opened.bound, req.port, opened.member)
                      ELSE closed
        /\ m_multicast_connection' = IF opened.ok /\ multi THEN d ELSE 0
        /\ m_unicast_connection'   = IF opened.ok /\ ~multi THEN d ELSE 0
        /\ m_interface' = IF opened.ok THEN opened.chosen ELSE m_interface
        /\ thread' = ThreadAfter(opened)

\* Where the kernel may join a group for a blank name.
RoutedAnywhere(req) ==
    IF TreatedAsMulticast(req.ip) /\ Wanted(network, req) = Empty
    THEN {ii \in DOMAIN network.devices : network.devices[ii].multicast}
    ELSE {0}

\* A new socket has the lowest free descriptor.
start(req) ==
    /\ thread = "none"
    /\ request' = req
    /\ \/ Refuses(req)
       \/ /\ req.ip # NoIp
          /\ Descriptors \ DOMAIN sockets # {}
          /\ LET d == Min(Descriptors \ DOMAIN sockets)
             IN  \/ Leaks(req, d)
                 \/ Dies(req)
                 \/ \E first \in Candidates(network, req) \cup {0}, joins \in BOOLEAN,
                       where \in RoutedAnywhere(req) : Opens(req, d, first, joins, where)
    /\ UNCHANGED <<network, sizeVars, flagVars, hostVars, fd, joining>>

-----------------------------------------------------------------------------
(***************************************************************************)
(* The reader thread.  m_socket_buffer_size is a size_t, here its two      *)
(* words: the user's int is extended to it with its sign, while setsockopt *)
(* and getsockopt read and write an int, the low word.  The kernel doubles *)
(* the size it is asked for, up to twice its maximum, and run replaces the *)
(* user's value with the kernel's.                                         *)
(***************************************************************************)
Extended(size) == [high |-> IF size < 0 THEN "ones" ELSE "zeros", low |-> size]

Zero == Extended(0)

GrantedSigned(size) == 2 * (IF size <= MaxSize THEN size ELSE MaxSize)

\* As an unsigned number, a negative one is beyond the maximum.
Granted(size) == 2 * (IF size \in 0..MaxSize THEN size ELSE MaxSize)

\* Of a new socket.
GrantedAlways(before) == Granted(before.low)

GrantedFor(before) == IF before = Zero THEN DefaultSize ELSE Granted(before.low)

Connection == IF m_multicast_connection # 0 THEN m_multicast_connection
              ELSE m_unicast_connection

RunStarts ==
    /\ thread = "created"
    /\ thread' = "starting"
    /\ m_shuttingDown' = FALSE
    /\ UNCHANGED <<network, sockets, connectionVars, sizeVars, m_running,
                   hostVars, fd, request, answer, joining>>

ReportedAsked(size) == m_socket_buffer_size

Reported(size) == [m_socket_buffer_size EXCEPT !.low = size]

RunBegins ==
    LET size == GrantedFor(m_socket_buffer_size)
    IN  /\ thread = "starting"
        /\ thread' = "reading"
        /\ fd' = Connection
        /\ m_running' = TRUE
        /\ sockets' = [sockets EXCEPT ![Connection].size = size]
        /\ m_socket_buffer_size' = Reported(size)
        /\ heard' = {} /\ warned' = FALSE
        /\ UNCHANGED <<network, connectionVars, asked, m_shuttingDown, m_host_addr,
                       request, answer, joining>>

OtherHostAtFirst(host) == heard = {} /\ m_host_addr \notin {host, NoHost}

OtherHost(host) == m_host_addr \notin {host, NoHost}

\* recvmmsg returns a packet, of which check_for_duplicate_sender has the sender
\* compared with the one before.
confirmSingleHost(host) ==
    /\ thread = "reading" /\ ~m_shuttingDown
    /\ heard' = heard \cup {host}
    /\ warned' = (warned \/ OtherHost(host))
    /\ m_host_addr' = host
    /\ UNCHANGED <<network, sockets, connectionVars, sizeVars, flagVars,
                   thread, fd, request, answer, joining>>

\* recvmmsg fails.
ReadFails ==
    /\ thread = "reading" /\ ~m_shuttingDown
    /\ m_shuttingDown' = TRUE /\ m_running' = FALSE
    /\ UNCHANGED <<network, sockets, connectionVars, sizeVars, hostVars,
                   thread, fd, request, answer, joining>>

RunEnds ==
    /\ thread = "reading" /\ m_shuttingDown
    /\ thread' = "ended"
    /\ m_running' = FALSE
    /\ sockets' = Closed(Held)
    /\ m_multicast_connection' = 0 /\ m_unicast_connection' = 0
    /\ UNCHANGED <<network, m_interface, sizeVars, m_shuttingDown, hostVars,
                   fd, request, answer, joining>>

-----------------------------------------------------------------------------
(***************************************************************************)
(* stop: shutDown, which a thread that has not begun its run will miss,    *)
(* and the join.                                                           *)
(***************************************************************************)
shutDown ==
    /\ thread \notin {"none", "dead"} /\ ~joining
    /\ m_shuttingDown' = TRUE /\ m_running' = FALSE
    /\ joining' = TRUE
    /\ UNCHANGED <<network, sockets, connectionVars, sizeVars, hostVars,
                   thread, fd, request, answer>>

Join ==
    /\ thread = "ended" /\ joining
    /\ thread' = "none"
    /\ joining' = FALSE
    /\ UNCHANGED <<network, sockets, connectionVars, sizeVars, flagVars,
                   hostVars, fd, request, answer>>

\* Refused while the reader runs; a started component does not ask.
setSocketBufferSize(size) ==
    /\ thread = "none"
    /\ m_socket_buffer_size' = IF m_running THEN m_socket_buffer_size ELSE Extended(size)
    /\ asked' = size
    /\ UNCHANGED <<network, sockets, connectionVars, flagVars, hostVars, thread, fd,
                   request, answer, joining>>

ChangeNetwork(net) ==
    /\ network' = net
    /\ UNCHANGED <<sockets, connectionVars, sizeVars, flagVars, hostVars,
                   thread, fd, request, answer, joining>>

-----------------------------------------------------------------------------
Init ==
    /\ network \in Networks
    /\ sockets = [d \in {} |-> AnyAddress]
    /\ m_multicast_connection = 0 /\ m_unicast_connection = 0
    /\ m_interface = NoName
    /\ m_socket_buffer_size = Extended(-1) /\ asked = -1
    /\ m_running = FALSE /\ m_shuttingDown = FALSE
    /\ m_host_addr = NoHost /\ heard = {} /\ warned = FALSE
    /\ thread = "none" /\ fd = 0 /\ joining = FALSE
    /\ request \in Requests
    /\ answer = [outcome |-> "none", network |-> network, agreed |-> TRUE]

Next ==
    \/ \E req \in Requests : start(req)
    \/ RunStarts
    \/ RunBegins
    \/ \E host \in Hosts : confirmSingleHost(host)
    \/ ReadFails
    \/ RunEnds
    \/ shutDown
    \/ Join
    \/ \E size \in Sizes : setSocketBufferSize(size)
    \/ \E net \in Networks : ChangeNetwork(net)

Spec == Init /\ [][Next]_vars
-----------------------------------------------------------------------------
(***************************************************************************)
(* get_status_struct: the queue of the address in use and the drop counter *)
(* of the interface it names.                                              *)
(***************************************************************************)
OwnRows(queue) ==
    {[id |-> d, local |-> sockets[d].bound, port |-> sockets[d].port,
      remote |-> AnyAddress, rport |-> 0, queue |-> queue] :
        d \in {e \in DOMAIN sockets : sockets[e].bound # NoIp}}

Bases(net) == {net.devices[ii].name.base : ii \in DOMAIN net.devices}

get_rx_dropped(interface) ==
    CASE interface = NoName           -> 0
      [] interface \in Bases(network) -> network.dropped[interface]
      [] OTHER                        -> -1

\* rows is the contents of /proc/net/udp; req the override or the stream attached at the
\* time of the query, which need not be what the socket was opened for.
get_status_struct(rows, req) ==
    LET found == get_rx_queue(rows, req.ip, req.port)
    IN  [udp_socket_buffer_queue    |-> found.rx_queue,
         udp_socket_buffer_size     |-> m_socket_buffer_size,
         num_udp_socket_readers     |-> found.num_listeners,
         num_packets_dropped_by_nic |-> get_rx_dropped(m_interface)]

-----------------------------------------------------------------------------
(***************************************************************************)
(* Properties.                                                             *)
(***************************************************************************)
Ips == {req.ip : req \in Requests} \cup {AnyAddress, NoIp}

\* Type invariant.
TypeOK ==
    /\ network \in Networks
    /\ DOMAIN sockets \subseteq Descriptors
    /\ sockets \in [DOMAIN sockets -> [bound : Ips, port : Nat, member : Nat, size : Nat]]
    /\ {m_multicast_connection, m_unicast_connection, fd} \subseteq Descriptors \cup {0}
    /\ m_socket_buffer_size \in [high : {"zeros", "ones"}, low : Int] /\ asked \in Int
    /\ {m_running, m_shuttingDown, joining, warned} \subseteq BOOLEAN
    /\ m_host_addr \in Hosts \cup {NoHost} /\ heard \subseteq Hosts
    /\ thread \in {"none", "created", "starting", "reading", "ended", "dead"}
    /\ request \in Requests
    /\ answer.outcome \in {"none", "invalid", "leaked", "refused", "opened", "terminated"}

Reading == thread \in {"created", "starting", "reading"}

(***************************************************************************)
(* However sessions follow each other, fail to open or end by an error,    *)
(* the process keeps no bound socket beyond the one connection, and none   *)
(* without a thread: "After this call the socket will be closed"           *)
(* (SourceSDDS.cpp:464).  This needs descriptor 0 never to be a socket:    *)
(* the code takes it for no connection and would not close it.             *)
(***************************************************************************)
NoSocketLeft ==
    /\ \A d \in DOMAIN sockets : sockets[d].bound # NoIp => d \in Held
    /\ Held \subseteq DOMAIN sockets
    /\ m_multicast_connection = 0 \/ m_unicast_connection = 0
    /\ Held # {} => Reading

(***************************************************************************)
(* The reader reads an open descriptor, and it is the socket of the last   *)
(* setConnectionInfo: a session never receives what an earlier one was     *)
(* asked for.  No session leaves m_running set, with which the next        *)
(* setConnectionInfo would return without an error and without a socket    *)
(* (SocketReader.cpp:105).                                                 *)
(***************************************************************************)
ReadsWhatWasAskedFor ==
    /\ Reading => /\ answer.outcome = "opened"
                  /\ Held = {Connection}
                  /\ thread = "reading" => fd = Connection
                  /\ sockets[Connection].port = request.port
                  /\ sockets[Connection].bound \in {request.ip, AnyAddress}
    /\ thread \in {"none", "ended"} => ~m_running

(***************************************************************************)
(* A group is joined on the device the user named, if any, and otherwise   *)
(* on one the kernel routes it to by a longest match; that device is the   *)
(* one whose name and drop counter the status shows.                       *)
(***************************************************************************)
Routed(net, req) ==
    req.interface = NoName /\ req.vlan = 0 => Matching(net.routes, req.ip) # {}

JoinedWhereAsked ==
    Reading /\ IsGroup(request.ip) /\ Routed(answer.network, request) =>
        LET net == answer.network
            dev == net.devices[sockets[Connection].member]
        IN  /\ sockets[Connection].bound = request.ip
            /\ dev.up /\ dev.multicast /\ ~dev.loopback
            /\ request.interface # NoName => dev.name = Name(request.interface, request.vlan)
            /\ request.vlan \in {0, dev.name.vlan}
            /\ request.interface = NoName /\ request.vlan = 0 =>
                  \E row \in Matching(net.routes, request.ip) :
                     /\ net.routes[row].iface = dev.name
                     /\ \A other \in Matching(net.routes, request.ip) :
                           net.routes[other].mask <= net.routes[row].mask
            /\ network = net => get_rx_dropped(m_interface) = net.dropped[dev.name.base]

(***************************************************************************)
(* "For the multicast case this is the multicast group to join" (README.md *)
(* :79): a group whose last octet is below 240 is refused only if the      *)
(* kernel refused a bind or a join, or no device that is up fits the names *)
(* given; one that is down or the loopback never gets in the way of a      *)
(* later one.  Groups above are opened as unicast addresses, and refused.  *)
(***************************************************************************)
NameAskedFor(net, req, dev) ==
    \/ req.interface # NoName /\ dev.name = Name(req.interface, req.vlan)
    \/ req.interface = NoName /\ req.vlan # 0 /\ dev.name.vlan = req.vlan
    \/ /\ req.interface = NoName /\ req.vlan = 0
       /\ getMcastIfaceFromRoutes(net.routes, req.ip) \in {Empty, dev.name}

CanJoin(net, req) ==
    \E ii \in DOMAIN net.devices :
        LET dev == net.devices[ii]
        IN  dev.up /\ ~dev.loopback /\ dev.multicast /\ NameAskedFor(net, req, dev)

GroupRefused ==
    /\ answer.outcome = "refused" /\ IsGroup(request.ip)
    /\ answer.agreed

LowGroupsOpened ==
    GroupRefused /\ request.ip[4] < 240 => ~CanJoin(answer.network, request)

(***************************************************************************)
(* "the user provided value will be replaced with the true value returned  *)
(* by the kernel" (README.md:64).  In every session the size shown is that *)
(* of the socket read, and once a user has asked for a size the status,    *)
(* which shows both words, shows it too; and though later sessions ask for *)
(* what the last one was granted, none has less than the size asked for.   *)
(***************************************************************************)
Enough(size) == IF size = 0 THEN DefaultSize ELSE Granted(size)

BufferSizeTrue ==
    thread = "reading" =>
        /\ m_socket_buffer_size.low = sockets[fd].size
        /\ asked >= 0 => m_socket_buffer_size.high = "zeros"
        /\ sockets[fd].size >= Enough(asked)

(***************************************************************************)
(* check_for_duplicate_sender: a session that heard two hosts has warned   *)
(* of it (README.md:71).                                                   *)
(***************************************************************************)
DuplicateSenderWarned == Cardinality(heard) > 1 => warned

(***************************************************************************)
(* num_udp_socket_readers and udp_socket_buffer_queue, "the max value of   *)
(* fullness" of the sockets on the address (README.md:102): whichever      *)
(* address is configured or attached by the time of the query, whatever    *)
(* sockets are left or other processes have, they are of the sockets on    *)
(* it, if the hexadecimal port and the last octet of the address have no   *)
(* leading zero and no socket is connected to it; and the component's own  *)
(* socket is one of them as long as the address is that of its session.    *)
(***************************************************************************)
At(rows, req) == {row \in rows : row.local = req.ip /\ row.port = req.port}

NoLeadingZero(req) == req.port >= 4096 /\ req.ip[4] >= 16

ShownRight(req, rows) ==
    LET status == get_status_struct(rows, req)
    IN  /\ status.num_udp_socket_readers = Cardinality(At(rows, req))
        /\ status.udp_socket_buffer_queue
              \in {row.queue : row \in At(rows, req)} \cup (IF At(rows, req) = {} THEN {0} ELSE {})
        /\ \A row \in At(rows, req) : status.udp_socket_buffer_queue >= row.queue
        /\ /\ Reading /\ req = [ip |-> request.ip, port |-> request.port]
           /\ sockets[Connection].bound = req.ip
           => \E row \in At(rows, req) : row.id = Connection

Asked == {req \in {[ip |-> r.ip, port |-> r.port] : r \in {q \in Requests : q.ip # NoIp}} :
             NoLeadingZero(req)}

ReadersFound ==
    \A req \in Asked, others \in SUBSET OtherSockets, queue \in Fills :
        LET rows == OwnRows(queue) \cup others
        IN  (\A row \in rows : row.remote # req.ip) => ShownRight(req, rows)
=============================================================================
