----------------------- MODULE SocketConnection_proofs -----------------------
(***************************************************************************)
(* Proofs about SocketConnection, for any networks, requests, hosts and    *)
(* buffer sizes.                                                           *)
(***************************************************************************)
EXTENDS SocketConnection, FiniteSetTheorems, WellFoundedInduction, TLAPS

-----------------------------------------------------------------------------
(***************************************************************************)
(* A set of naturals has a least element.                                  *)
(***************************************************************************)
Less == {ss \in Nat \X Nat : ss[1] < ss[2]}

LEMMA LessWellFounded == IsWellFoundedOn(Less, Nat)
  BY NatLessThanWellFounded, SMT DEF OpToRel, Less

LEMMA LeastElement ==
    ASSUME NEW S \in SUBSET Nat, S # {}
    PROVE  \E x \in S : \A y \in S : x <= y
<1>1. PICK x \in S : \A y \in S : ~(<<y, x>> \in Less)
  BY LessWellFounded, WFMin
<1>2. ASSUME NEW y \in S PROVE x <= y
  <2>1. <<y, x>> \in Nat \X Nat
    OBVIOUS
  <2>2. <<y, x>> \notin Less
    BY <1>1
  <2>3. ~(y < x)
    BY <2>1, <2>2 DEF Less
  <2>. QED  BY <2>3
<1>. QED  BY <1>2

LEMMA MinOf ==
    ASSUME NEW S \in SUBSET Nat, S # {}
    PROVE  Min(S) \in S
  BY LeastElement DEF Min

-----------------------------------------------------------------------------
(***************************************************************************)
(* The interface of a route: among the rows that match there is a last one *)
(* of those with the longest mask.                                         *)
(***************************************************************************)
LEMMA GreatestElement ==
    ASSUME NEW S \in SUBSET Nat, S # {}, NEW bound \in Nat, \A x \in S : x <= bound
    PROVE  \E x \in S : \A y \in S : y <= x
<1>. DEFINE T == {bound - x : x \in S}
<1>1. T \in SUBSET Nat /\ T # {}
  <2>1. \A x \in S : bound - x \in Nat
    OBVIOUS
  <2>2. PICK x \in S : TRUE
    OBVIOUS
  <2>3. bound - x \in T
    BY <2>2
  <2>. QED  BY <2>1, <2>3
<1>2. PICK t \in T : \A u \in T : t <= u
  BY <1>1, LeastElement
<1>3. PICK x \in S : t = bound - x
  OBVIOUS
<1>4. ASSUME NEW y \in S PROVE y <= x
  <2>1. bound - y \in T
    OBVIOUS
  <2>. QED  BY <1>2, <1>3, <2>1
<1>. QED  BY <1>4

LEMMA RouteOfMatch ==
    ASSUME NEW net \in Networks, NEW group, Matching(net.routes, group) # {}
    PROVE  \E row \in Matching(net.routes, group) :
              /\ getMcastIfaceFromRoutes(net.routes, group) = net.routes[row].iface
              /\ \A other \in Matching(net.routes, group) :
                    net.routes[other].mask <= net.routes[row].mask
<1>. DEFINE M == Matching(net.routes, group)
            masks == {net.routes[row].mask : row \in M}
<1>1. /\ M \subseteq 1..Len(net.routes) /\ Len(net.routes) \in Nat
      /\ \A row \in M : net.routes[row].mask \in 0..4
  BY NetworkAssumption DEF Matching
<1>2. PICK longest \in masks : \A mask \in masks : mask <= longest
  <2>1. masks \in SUBSET Nat /\ masks # {} /\ \A mask \in masks : mask <= 4
    BY <1>1
  <2>. HIDE DEF masks
  <2>. QED  BY <2>1, GreatestElement
<1>. DEFINE L == {row \in M : net.routes[row].mask = longest}
<1>3. PICK best \in L : \A other \in L : other <= best
  <2>1. L \in SUBSET Nat /\ L # {} /\ \A row \in L : row <= Len(net.routes)
    BY <1>1, <1>2
  <2>. HIDE DEF L
  <2>. QED  BY <1>1, <2>1, GreatestElement
<1>. DEFINE Best(row) == \A other \in M :
                            \/ net.routes[other].mask < net.routes[row].mask
                            \/ net.routes[other].mask = net.routes[row].mask /\ other <= row
<1>4. best \in M /\ net.routes[best].mask = longest
  BY <1>3
<1>5. Best(best)
  <2>1. SUFFICES ASSUME NEW other \in M
                 PROVE  \/ net.routes[other].mask < net.routes[best].mask
                        \/ net.routes[other].mask = net.routes[best].mask /\ other <= best
    OBVIOUS
  <2>2. net.routes[other].mask <= longest
    BY <1>2
  <2>3. net.routes[other].mask = longest => other \in L
    OBVIOUS
  <2>4. net.routes[other].mask \in Nat /\ longest \in Nat
    BY <1>1, <1>2
  <2>. QED  BY <1>3, <1>4, <2>2, <2>3, <2>4
<1>6. PICK row \in M : /\ Best(row)
                       /\ getMcastIfaceFromRoutes(net.routes, group) = net.routes[row].iface
  BY <1>4, <1>5 DEF getMcastIfaceFromRoutes
<1>7. ASSUME NEW other \in M PROVE net.routes[other].mask <= net.routes[row].mask
  <2>1. net.routes[other].mask \in Nat /\ net.routes[row].mask \in Nat
    BY <1>1
  <2>2. \/ net.routes[other].mask < net.routes[row].mask
        \/ net.routes[other].mask = net.routes[row].mask
    BY <1>6
  <2>. QED  BY <2>1, <2>2
<1>. QED  BY <1>6, <1>7

-----------------------------------------------------------------------------
(***************************************************************************)
(* What is opened depends on the network and the request alone, but for    *)
(* the device the kernel chose for a blank name.                           *)
(***************************************************************************)
LEMMA CandidatesAreDevices ==
    ASSUME NEW net \in Networks, NEW req \in Requests
    PROVE  /\ Candidates(net, req) \subseteq DOMAIN net.devices
           /\ \A first \in Candidates(net, req) : first \in Nat /\ first # 0
  BY NetworkAssumption DEF Candidates, MulticastDevices, UnicastDevices

\* The bind to device first made a socket of this address and membership, and this
\* name.
FromDevice(net, req, first, bound, member, chosen) ==
    LET again == Opened(net, req, first, TRUE, member)
    IN  /\ first \in Candidates(net, req)
        /\ bound = again.bound /\ member = again.member /\ chosen = again.chosen

LEMMA OpenedIs ==
    ASSUME NEW net \in Networks, NEW req \in Requests,
           NEW first \in Candidates(net, req) \cup {0}, NEW joins, NEW where \in Nat,
           Opened(net, req, first, joins, where).ok
    PROVE  LET opened == Opened(net, req, first, joins, where)
           IN  /\ opened.bound \in {req.ip, AnyAddress} /\ opened.member \in Nat
               /\ FromDevice(net, req, first, opened.bound, opened.member, opened.chosen)
<1>1. first # 0 /\ first \in Candidates(net, req) /\ first \in Nat
  BY CandidatesAreDevices DEF Opened, NotOpened
<1>2. CASE TreatedAsMulticast(req.ip)
  <2>1. \A j, w : Opened(net, req, first, j, w) = OpenedMulticast(net, req, first, j, w)
    BY <1>1, <1>2 DEF Opened
  <2>2. \A j, w :
           /\ OpenedMulticast(net, req, first, j, w).bound
                = IF Wanted(net, req) = Empty THEN AnyAddress ELSE req.ip
           /\ OpenedMulticast(net, req, first, j, w).member
                = IF Wanted(net, req) = Empty THEN w ELSE first
           /\ OpenedMulticast(net, req, first, j, w).chosen
                = net.devices[first].name.base
    BY DEF OpenedMulticast
  <2>. DEFINE used  == OpenedMulticast(net, req, first, joins, where)
              again == OpenedMulticast(net, req, first, TRUE, used.member)
  <2>3. used.bound \in {req.ip, AnyAddress} /\ used.member \in Nat
    BY <1>1, <2>2
  <2>4. used.bound = again.bound
    BY <2>2, Zenon
  <2>5. used.chosen = again.chosen
    BY <2>2, Zenon
  <2>6. used.member = again.member
    BY <2>2
  <2>. QED  BY <1>1, <2>1, <2>3, <2>4, <2>5, <2>6 DEF FromDevice
<1>3. CASE ~TreatedAsMulticast(req.ip)
  <2>1. \A j, w : Opened(net, req, first, j, w) = OpenedUnicast(net, req, first)
    BY <1>1, <1>3 DEF Opened
  <2>2. /\ OpenedUnicast(net, req, first).bound = req.ip
        /\ OpenedUnicast(net, req, first).member = 0
    BY DEF OpenedUnicast
  <2>. DEFINE used == Opened(net, req, first, joins, where)
  <2>3. used.bound = req.ip /\ used.member \in Nat
    BY <2>1, <2>2
  <2>4. Opened(net, req, first, TRUE, used.member) = used
    BY <2>1, Zenon
  <2>. QED  BY <1>1, <2>3, <2>4 DEF FromDevice
<1>. QED  BY <1>2, <1>3

LEMMA RefusedIs ==
    ASSUME NEW net, NEW req, NEW first, NEW where,
           ~Opened(net, req, first, TRUE, where).ok
    PROVE  first = 0
  BY DEF Opened, OpenedMulticast, OpenedUnicast

-----------------------------------------------------------------------------
(***************************************************************************)
(* The inductive invariant: the socket in use is one the last              *)
(* setConnectionInfo opened for a device it found, whatever became of the  *)
(* network since; what it was refused with the kernel's agreement had no   *)
(* candidates; no second host has been heard without a warning; and        *)
(* whatever the size has been doubled to, the next socket will be granted  *)
(* no less than the user asked for.                                        *)
(***************************************************************************)
Connected ==
    Reading =>
        LET used == sockets[Connection]
        IN  /\ answer.network \in Networks /\ request.ip # NoIp
            /\ \E first \in Candidates(answer.network, request) :
                  FromDevice(answer.network, request, first, used.bound, used.member,
                             m_interface)

Refused ==
    answer.outcome = "refused" /\ answer.agreed => Candidates(answer.network, request) = {}

OneHost == ~warned => heard \subseteq {m_host_addr}

SizeKept ==
    /\ asked >= 0 => m_socket_buffer_size.high = "zeros"
    /\ GrantedFor(m_socket_buffer_size) >= Enough(asked)

IInv ==
    /\ TypeOK
    /\ NoSocketLeft
    /\ ReadsWhatWasAskedFor
    /\ BufferSizeTrue
    /\ Connected
    /\ Refused
    /\ OneHost
    /\ SizeKept

-----------------------------------------------------------------------------
(***************************************************************************)
(* What the kernel grants.                                                 *)
(***************************************************************************)
LEMMA EnoughIs ==
    ASSUME NEW size \in Int
    PROVE  Enough(size) \in Nat \ {0} /\ Enough(size) <= 2 * MaxSize
  BY SizeAssumption DEF Enough, Granted

LEMMA ExtendedIs ==
    ASSUME NEW size \in Int
    PROVE  GrantedFor(Extended(size)) = Enough(size)
<1>1. Extended(size) = Zero <=> size = 0
  BY DEF Extended, Zero
<1>2. Extended(size).low = size
  BY DEF Extended
<1>. QED  BY <1>1, <1>2 DEF GrantedFor, Enough

LEMMA GrantedType ==
    ASSUME NEW before, before.low \in Int
    PROVE  GrantedFor(before) \in Nat
  BY SizeAssumption DEF GrantedFor, Granted

LEMMA GrantedAgain ==
    ASSUME NEW size \in Nat, NEW least \in Nat \ {0}, NEW after,
           size >= least, least <= 2 * MaxSize, after.low = size
    PROVE  GrantedFor(after) >= least
<1>1. after # Zero
  BY DEF Zero, Extended
<1>2. Granted(size) >= least
  BY SizeAssumption DEF Granted
<1>. QED  BY <1>1, <1>2 DEF GrantedFor

-----------------------------------------------------------------------------
LEMMA InitIInv == Init => IInv
<1>. SUFFICES ASSUME Init PROVE IInv
  OBVIOUS
<1>. USE DEF Init
<1>1. TypeOK
  <2>1. Extended(-1) \in [high : {"zeros", "ones"}, low : Int]
    BY DEF Extended
  <2>2. m_socket_buffer_size \in [high : {"zeros", "ones"}, low : Int] /\ asked \in Int
    BY <2>1
  <2>3. /\ DOMAIN sockets = {}
        /\ sockets \in [{} -> [bound : Ips, port : Nat, member : Nat, size : Nat]]
    OBVIOUS
  <2>. QED  BY <2>2, <2>3 DEF TypeOK
<1>2. NoSocketLeft
  BY DEF NoSocketLeft, Held, Reading
<1>3. ReadsWhatWasAskedFor /\ BufferSizeTrue
  BY DEF ReadsWhatWasAskedFor, BufferSizeTrue, Reading
<1>4. Connected /\ Refused /\ OneHost
  BY DEF Connected, Refused, OneHost, Reading
<1>5. SizeKept
  <2>1. GrantedFor(Extended(-1)) >= Enough(-1)
    BY ExtendedIs, EnoughIs
  <2>2. m_socket_buffer_size = Extended(-1) /\ asked = -1
    OBVIOUS
  <2>. QED  BY <2>1, <2>2 DEF SizeKept
<1>. QED  BY <1>1, <1>2, <1>3, <1>4, <1>5 DEF IInv

-----------------------------------------------------------------------------
(***************************************************************************)
(* The start of a session.  Everything that is bound is closed first; the  *)
(* new socket has the descriptor d, which was free.                        *)
(***************************************************************************)
SocketType == [bound : Ips, port : Nat, member : Nat, size : Nat]

LEMMA ClosedIs ==
    ASSUME TypeOK, NEW fds
    PROVE  /\ DOMAIN Closed(fds) = DOMAIN sockets \ fds
           /\ Closed(fds) \in [DOMAIN Closed(fds) -> SocketType]
           /\ \A d \in DOMAIN Closed(fds) : Closed(fds)[d] = sockets[d]
  BY DEF Closed, TypeOK, SocketType

Adds(new, table, d, bound, port, member) ==
    /\ DOMAIN new = DOMAIN table \cup {d}
    /\ new \in [DOMAIN new -> SocketType]
    /\ new[d].bound = bound /\ new[d].port = port /\ new[d].member = member
    /\ \A other \in DOMAIN table \ {d} : new[other] = table[other]

LEMMA WithIs ==
    ASSUME NEW table, table \in [DOMAIN table -> SocketType], NEW d,
           NEW bound \in Ips, NEW port \in Nat, NEW member \in Nat
    PROVE  Adds(With(table, d, bound, port, member), table, d, bound, port, member)
  BY SizeAssumption DEF With, SocketType, Adds

LEMMA LowestFree ==
    ASSUME Descriptors \ DOMAIN sockets # {}
    PROVE  /\ Min(Descriptors \ DOMAIN sockets) \in Descriptors \ DOMAIN sockets
           /\ Min(Descriptors \ DOMAIN sockets) # 0
<1>1. Descriptors \ DOMAIN sockets \in SUBSET Nat
  BY DescriptorAssumption
<1>. QED  BY <1>1, MinOf, DescriptorAssumption

LEMMA OpensStep ==
    ASSUME IInv, NEW req \in Requests, request' = req, req.ip # NoIp, thread = "none",
           NEW d \in Descriptors \ DOMAIN sockets, d # 0,
           NEW first \in Candidates(network, req) \cup {0}, NEW joins \in BOOLEAN,
           NEW where \in Nat, Opens(req, d, first, joins, where),
           UNCHANGED <<network, sizeVars, flagVars, hostVars, fd, joining>>
    PROVE  IInv'
<1>. DEFINE opened == Opened(network, req, first, joins, where)
            agreed == (first # 0 \/ Candidates(network, req) = {}) /\ joins
            closed == Closed(Held)
<1>1. /\ network \in Networks /\ req.port \in Nat /\ {req.ip, AnyAddress} \subseteq Ips
      /\ DOMAIN sockets \subseteq Descriptors
  BY RequestAssumption DEF IInv, TypeOK, Ips
<1>2. /\ DOMAIN closed = DOMAIN sockets \ Held
      /\ closed \in [DOMAIN closed -> SocketType]
      /\ \A other \in DOMAIN closed : closed[other].bound = NoIp
  <2>1. TypeOK
    BY DEF IInv
  <2>2. /\ DOMAIN closed = DOMAIN sockets \ Held
        /\ closed \in [DOMAIN closed -> SocketType]
        /\ \A other \in DOMAIN closed : closed[other] = sockets[other]
    BY <2>1, ClosedIs, Zenon
  <2>. QED  BY <2>2, Zenon DEF IInv, NoSocketLeft
<1>3. CASE ~opened.ok
  <2>1. /\ sockets' = closed /\ m_multicast_connection' = 0 /\ m_unicast_connection' = 0
        /\ m_interface' = m_interface /\ thread' = "none" /\ answer'.outcome = "refused"
        /\ answer' = [outcome |-> "refused", network |-> network, agreed |-> agreed]
    BY <1>3 DEF Opens, ThreadAfter
  <2>2. TypeOK'
    BY <1>1, <1>2, <2>1 DEF IInv, TypeOK, SocketType, flagVars, hostVars, sizeVars, Ips
  <2>3. NoSocketLeft'
    BY <1>2, <2>1 DEF NoSocketLeft, Held
  <2>4. ReadsWhatWasAskedFor' /\ BufferSizeTrue' /\ Connected'
    BY <2>1 DEF IInv, ReadsWhatWasAskedFor, BufferSizeTrue, Connected, Reading, flagVars
  <2>5. Refused'
    <3>1. CASE agreed
      <4>1. ~Opened(network, req, first, TRUE, where).ok
        BY <1>3, <3>1
      <4>2. first = 0
        BY <4>1, RefusedIs
      <4>. QED  BY <2>1, <3>1, <4>2 DEF Refused
    <3>2. CASE ~agreed
      BY <2>1, <3>2 DEF Refused
    <3>. QED  BY <3>1, <3>2
  <2>6. OneHost' /\ SizeKept'
    BY DEF IInv, OneHost, SizeKept, hostVars, sizeVars
  <2>. QED  BY <2>2, <2>3, <2>4, <2>5, <2>6 DEF IInv
<1>4. CASE opened.ok
  <2>. DEFINE new == With(closed, d, opened.bound, req.port, opened.member)
  <2>1. /\ opened.bound \in {req.ip, AnyAddress} /\ opened.member \in Nat
        /\ FromDevice(network, req, first, opened.bound, opened.member, opened.chosen)
    BY <1>1, <1>4, OpenedIs
  <2>2. /\ sockets' = new /\ m_interface' = opened.chosen /\ thread' = "created"
        /\ m_multicast_connection' = IF TreatedAsMulticast(req.ip) THEN d ELSE 0
        /\ m_unicast_connection' = IF TreatedAsMulticast(req.ip) THEN 0 ELSE d
        /\ answer' = [outcome |-> "opened", network |-> network, agreed |-> agreed]
    BY <1>4 DEF Opens, ThreadAfter
  <2>3. Adds(new, closed, d, opened.bound, req.port, opened.member)
    <3>1. opened.bound \in Ips /\ opened.member \in Nat
      BY <1>1, <2>1
    <3>. QED  BY <1>1, <1>2, <3>1, WithIs
  <2>. HIDE DEF new, opened, closed, agreed
  <2>4. Held' = {d} /\ Connection' = d
    BY <2>2 DEF Held, Connection
  <2>5. TypeOK'
    BY <1>1, <1>2, <2>2, <2>3 DEF Adds, IInv, TypeOK, SocketType, flagVars, hostVars,
                                     sizeVars, Ips
  <2>6. NoSocketLeft'
    BY <1>2, <2>2, <2>3, <2>4 DEF Adds, NoSocketLeft, Reading
  <2>7. ReadsWhatWasAskedFor'
    BY <2>1, <2>2, <2>3, <2>4 DEF Adds, ReadsWhatWasAskedFor, Reading
  <2>8. BufferSizeTrue' /\ Refused' /\ OneHost' /\ SizeKept'
    BY <2>2 DEF IInv, BufferSizeTrue, Refused, OneHost, SizeKept, hostVars, sizeVars
  <2>9. Connected'
    <3>1. sockets'[d].bound = opened.bound /\ sockets'[d].member = opened.member
      BY <2>2, <2>3 DEF Adds
    <3>2. answer'.network = network
      BY <2>2
    <3>3. first \in Candidates(network, req)
      BY <2>1 DEF FromDevice
    <3>4. FromDevice(network, req, first, sockets'[d].bound, sockets'[d].member,
                     m_interface')
      BY <2>1, <2>2, <3>1
    <3>. QED  BY <1>1, <2>4, <3>2, <3>3, <3>4 DEF Connected
  <2>. QED  BY <2>5, <2>6, <2>7, <2>8, <2>9 DEF IInv
<1>. QED  BY <1>3, <1>4

LEMMA StartStep ==
    ASSUME IInv, NEW req \in Requests, start(req)
    PROVE  IInv'
<1>1. /\ thread = "none" /\ request' = req
      /\ UNCHANGED <<network, sizeVars, flagVars, hostVars, fd, joining>>
  BY DEF start
<1>2. TypeOK
  BY DEF IInv
<1>3. CASE Refuses(req)
  <2>. USE <1>1, <1>3 DEF Refuses, connectionVars, flagVars, hostVars, sizeVars
  <2>1. TypeOK'
    BY DEF IInv, TypeOK, Ips
  <2>2. NoSocketLeft'
    BY DEF IInv, NoSocketLeft, Held, Reading
  <2>3. ReadsWhatWasAskedFor' /\ BufferSizeTrue' /\ Connected' /\ Refused' /\ OneHost'
        /\ SizeKept'
    BY DEF IInv, ReadsWhatWasAskedFor, BufferSizeTrue, Connected, Refused, OneHost,
           SizeKept, Reading
  <2>. QED  BY <2>1, <2>2, <2>3 DEF IInv
<1>. DEFINE d == Min(Descriptors \ DOMAIN sockets)
            closed == Closed(Held)
<1>4. CASE /\ req.ip # NoIp /\ Descriptors \ DOMAIN sockets # {}
           /\ Leaks(req, d)
  <2>1. d \in Descriptors \ DOMAIN sockets /\ d # 0
    BY <1>4, LowestFree
  <2>2. /\ DOMAIN closed = DOMAIN sockets \ Held
        /\ closed \in [DOMAIN closed -> SocketType]
        /\ \A other \in DOMAIN closed : closed[other] = sockets[other]
    BY <1>2, ClosedIs
  <2>3. Adds(sockets', closed, d, NoIp, 0, 0)
    <3>1. sockets' = With(closed, d, NoIp, 0, 0)
      BY <1>4 DEF Leaks
    <3>2. NoIp \in Ips
      BY DEF Ips
    <3>. QED  BY <2>2, <3>1, <3>2, WithIs
  <2>4. /\ answer'.outcome = "leaked" /\ UNCHANGED <<m_interface, thread>>
        /\ m_multicast_connection' = 0 /\ m_unicast_connection' = 0
    BY <1>4 DEF Leaks
  <2>. HIDE DEF d, closed
  <2>5. TypeOK'
    BY <1>1, <1>2, <2>1, <2>2, <2>3, <2>4 DEF TypeOK, Adds, SocketType, flagVars, hostVars,
                                               sizeVars, Ips
  <2>6. NoSocketLeft'
    BY <2>1, <2>2, <2>3, <2>4 DEF IInv, NoSocketLeft, Held, Adds
  <2>7. ReadsWhatWasAskedFor' /\ BufferSizeTrue' /\ Connected' /\ Refused' /\ OneHost'
        /\ SizeKept'
    BY <1>1, <2>4 DEF IInv, ReadsWhatWasAskedFor, BufferSizeTrue, Connected, Refused,
                      OneHost, SizeKept, Reading, flagVars, hostVars, sizeVars
  <2>. QED  BY <2>5, <2>6, <2>7 DEF IInv
<1>5. CASE Dies(req)
  <2>1. /\ answer'.outcome = "terminated" /\ thread' = "dead" /\ m_interface' = m_interface
        /\ m_multicast_connection' = 0 /\ m_unicast_connection' = 0
        /\ DOMAIN sockets' = {} /\ sockets' \in [DOMAIN sockets' -> SocketType]
    <3>1. sockets' = Closed(DOMAIN sockets)
      BY <1>5 DEF Dies
    <3>2. DOMAIN sockets' = {} /\ sockets' \in [{} -> SocketType]
      BY <3>1 DEF Closed
    <3>. QED  BY <1>5, <3>1, <3>2 DEF Dies
  <2>2. TypeOK'
    BY <1>1, <1>2, <2>1 DEF TypeOK, SocketType, flagVars, hostVars, sizeVars, Ips
  <2>3. NoSocketLeft'
    BY <2>1 DEF NoSocketLeft, Held
  <2>4. ReadsWhatWasAskedFor' /\ BufferSizeTrue' /\ Connected' /\ Refused' /\ OneHost'
        /\ SizeKept'
    BY <1>1, <2>1 DEF IInv, ReadsWhatWasAskedFor, BufferSizeTrue, Connected, Refused,
                      OneHost, SizeKept, Reading, hostVars, sizeVars
  <2>. QED  BY <2>2, <2>3, <2>4 DEF IInv
<1>6. CASE /\ req.ip # NoIp /\ Descriptors \ DOMAIN sockets # {}
           /\ \E first \in Candidates(network, req) \cup {0}, joins \in BOOLEAN,
                 where \in RoutedAnywhere(req) : Opens(req, d, first, joins, where)
  <2>1. d \in Descriptors \ DOMAIN sockets /\ d # 0
    BY <1>6, LowestFree
  <2>2. RoutedAnywhere(req) \subseteq Nat
    BY <1>2, NetworkAssumption DEF RoutedAnywhere, TypeOK
  <2>3. PICK first \in Candidates(network, req) \cup {0}, joins \in BOOLEAN, where \in Nat :
              Opens(req, d, first, joins, where)
    BY <1>6, <2>2
  <2>. HIDE DEF d
  <2>. QED  BY <1>1, <1>6, <2>1, <2>3, OpensStep
<1>. QED  BY <1>3, <1>4, <1>5, <1>6 DEF start

-----------------------------------------------------------------------------
(***************************************************************************)
(* The reader thread and the rest.                                         *)
(***************************************************************************)
LEMMA RunBeginsStep == IInv /\ RunBegins => IInv'
<1>. SUFFICES ASSUME IInv, RunBegins PROVE IInv'
  OBVIOUS
<1>. DEFINE size == GrantedFor(m_socket_buffer_size)
<1>1. /\ thread = "starting" /\ thread' = "reading" /\ fd' = Connection
      /\ m_running' = TRUE /\ heard' = {} /\ warned' = FALSE
      /\ m_socket_buffer_size' = [m_socket_buffer_size EXCEPT !.low = size]
      /\ UNCHANGED <<network, connectionVars, asked, m_shuttingDown, m_host_addr, request,
                     answer, joining>>
  BY DEF RunBegins, Reported
<1>2. Connection \in DOMAIN sockets /\ Held = {Connection}
  BY <1>1 DEF IInv, NoSocketLeft, ReadsWhatWasAskedFor, Reading
<1>3. sockets \in [DOMAIN sockets -> SocketType] /\ size \in Nat
  BY GrantedType DEF IInv, TypeOK, SocketType
<1>4. /\ DOMAIN sockets' = DOMAIN sockets
      /\ sockets' \in [DOMAIN sockets -> SocketType]
      /\ sockets'[Connection].size = size
      /\ \A d \in DOMAIN sockets : /\ sockets'[d].bound = sockets[d].bound
                                   /\ sockets'[d].port = sockets[d].port
                                   /\ sockets'[d].member = sockets[d].member
  <2>1. sockets' = [sockets EXCEPT ![Connection].size = size]
    BY DEF RunBegins
  <2>. HIDE DEF size
  <2>. QED  BY <1>2, <1>3, <2>1 DEF SocketType
<1>. HIDE DEF size
<1>5. Held' = Held /\ Connection' = Connection
  BY <1>1 DEF Held, Connection, connectionVars
<1>6. /\ m_socket_buffer_size'.low = size
      /\ m_socket_buffer_size'.high = m_socket_buffer_size.high
      /\ m_socket_buffer_size' \in [high : {"zeros", "ones"}, low : Int]
  BY <1>1, <1>3 DEF IInv, TypeOK
<1>7. SizeKept' /\ size >= Enough(asked)
  <2>1. Enough(asked) \in Nat \ {0} /\ Enough(asked) <= 2 * MaxSize
    BY EnoughIs DEF IInv, TypeOK
  <2>2. size >= Enough(asked)
    BY DEF IInv, SizeKept, size
  <2>3. GrantedFor(m_socket_buffer_size') >= Enough(asked)
    BY <1>3, <1>6, <2>1, <2>2, GrantedAgain
  <2>. QED  BY <1>1, <1>6, <2>2, <2>3 DEF IInv, SizeKept
<1>8. TypeOK'
  BY <1>1, <1>2, <1>3, <1>4, <1>6 DEF IInv, TypeOK, SocketType, connectionVars, Ips
<1>9. NoSocketLeft'
  BY <1>1, <1>4, <1>5 DEF IInv, NoSocketLeft, Reading, connectionVars
<1>10. ReadsWhatWasAskedFor'
  BY <1>1, <1>2, <1>4, <1>5 DEF IInv, ReadsWhatWasAskedFor, Reading
<1>11. BufferSizeTrue' /\ Refused' /\ OneHost'
  BY <1>1, <1>2, <1>4, <1>6, <1>7 DEF IInv, BufferSizeTrue, SizeKept, Refused, OneHost
<1>12. Connected'
  BY <1>1, <1>2, <1>4, <1>5 DEF IInv, Connected, Reading, connectionVars
<1>. QED  BY <1>8, <1>9, <1>10, <1>11, <1>12, <1>7 DEF IInv

LEMMA RunEndsStep == IInv /\ RunEnds => IInv'
<1>. SUFFICES ASSUME IInv, RunEnds PROVE IInv'
  OBVIOUS
<1>1. /\ thread' = "ended" /\ m_running' = FALSE /\ sockets' = Closed(Held)
      /\ m_multicast_connection' = 0 /\ m_unicast_connection' = 0
      /\ UNCHANGED <<network, m_interface, sizeVars, m_shuttingDown, hostVars,
                     fd, request, answer, joining>>
  BY DEF RunEnds
<1>2. TypeOK
  BY DEF IInv
<1>3. /\ DOMAIN sockets' = DOMAIN sockets \ Held
      /\ sockets' \in [DOMAIN sockets' -> SocketType]
      /\ \A d \in DOMAIN sockets' : sockets'[d] = sockets[d]
  BY <1>1, <1>2, ClosedIs
<1>4. TypeOK'
  BY <1>1, <1>2, <1>3 DEF TypeOK, SocketType, hostVars, sizeVars, Ips
<1>5. NoSocketLeft'
  BY <1>1, <1>3 DEF IInv, NoSocketLeft, Held
<1>6. ReadsWhatWasAskedFor' /\ BufferSizeTrue' /\ Connected' /\ Refused' /\ OneHost'
      /\ SizeKept'
  BY <1>1 DEF IInv, ReadsWhatWasAskedFor, BufferSizeTrue, Connected, Refused, OneHost,
              SizeKept, Reading, hostVars, sizeVars
<1>. QED  BY <1>4, <1>5, <1>6 DEF IInv

\* A step that leaves the connection and its answer alone, and the thread among those
\* that read or among those that do not.
LEMMA OtherStep ==
    ASSUME IInv, TypeOK', UNCHANGED <<sockets, connectionVars, request, answer>>,
           \/ UNCHANGED <<thread, fd>>
           \/ thread = "created" /\ thread' = "starting"
           \/ thread = "ended" /\ thread' = "none",
           thread' \in {"none", "ended"} => ~m_running',
           thread' = "reading" => UNCHANGED sizeVars,
           OneHost', SizeKept'
    PROVE  IInv'
<1>1. Held' = Held /\ Connection' = Connection
  BY DEF Held, Connection, connectionVars
<1>2. Reading' = Reading
  BY DEF Reading
<1>3. NoSocketLeft' /\ ReadsWhatWasAskedFor'
  BY <1>1, <1>2 DEF IInv, NoSocketLeft, ReadsWhatWasAskedFor, connectionVars
<1>4. BufferSizeTrue' /\ Refused'
  BY DEF IInv, BufferSizeTrue, Refused, sizeVars
<1>5. Connected'
  BY <1>1, <1>2 DEF IInv, Connected, connectionVars
<1>. QED  BY <1>3, <1>4, <1>5 DEF IInv

LEMMA StepIInv == IInv /\ [Next]_vars => IInv'
<1>. SUFFICES ASSUME IInv, [Next]_vars PROVE IInv'
  OBVIOUS
<1>. USE DEF connectionVars, flagVars, hostVars, sizeVars
<1>1. ASSUME NEW req \in Requests, start(req) PROVE IInv'
  BY <1>1, StartStep
<1>2. CASE RunStarts
  <2>1. TypeOK' /\ OneHost' /\ SizeKept'
    BY <1>2 DEF RunStarts, IInv, TypeOK, OneHost, SizeKept, Ips
  <2>. QED  BY <1>2, <2>1, OtherStep DEF RunStarts
<1>3. CASE RunBegins
  BY <1>3, RunBeginsStep
<1>4. ASSUME NEW host \in Hosts, confirmSingleHost(host) PROVE IInv'
  <2>1. TypeOK'
    BY <1>4 DEF confirmSingleHost, IInv, TypeOK, Ips, OtherHost
  <2>2. OneHost' /\ SizeKept'
    BY <1>4, RequestAssumption DEF confirmSingleHost, IInv, TypeOK, OneHost, SizeKept,
                                   OtherHost
  <2>. QED  BY <1>4, <2>1, <2>2, OtherStep DEF confirmSingleHost
<1>5. CASE ReadFails
  <2>1. TypeOK' /\ OneHost' /\ SizeKept'
    BY <1>5 DEF ReadFails, IInv, TypeOK, OneHost, SizeKept, Ips
  <2>. QED  BY <1>5, <2>1, OtherStep DEF ReadFails
<1>6. CASE RunEnds
  BY <1>6, RunEndsStep
<1>7. CASE shutDown
  <2>1. TypeOK' /\ OneHost' /\ SizeKept'
    BY <1>7 DEF shutDown, IInv, TypeOK, OneHost, SizeKept, Ips
  <2>. QED  BY <1>7, <2>1, OtherStep DEF shutDown
<1>8. CASE Join
  <2>1. TypeOK' /\ OneHost' /\ SizeKept'
    BY <1>8 DEF Join, IInv, TypeOK, OneHost, SizeKept, Ips
  <2>2. ~m_running'
    BY <1>8 DEF Join, IInv, ReadsWhatWasAskedFor
  <2>. QED  BY <1>8, <2>1, <2>2, OtherStep DEF Join
<1>9. ASSUME NEW size \in Sizes, setSocketBufferSize(size) PROVE IInv'
  <2>1. ~m_running /\ m_socket_buffer_size' = Extended(size) /\ asked' = size
    BY <1>9 DEF setSocketBufferSize, IInv, ReadsWhatWasAskedFor
  <2>2. size \in Int
    BY SizeAssumption
  <2>3. Extended(size) \in [high : {"zeros", "ones"}, low : Int]
    BY <2>2 DEF Extended
  <2>4. TypeOK' /\ OneHost'
    BY <1>9, <2>1, <2>2, <2>3 DEF setSocketBufferSize, IInv, TypeOK, OneHost, Ips
  <2>5. SizeKept'
    <3>1. GrantedFor(Extended(size)) >= Enough(size)
      BY <2>2, ExtendedIs, EnoughIs
    <3>2. size >= 0 => Extended(size).high = "zeros"
      BY <2>2 DEF Extended
    <3>. QED  BY <2>1, <3>1, <3>2 DEF SizeKept
  <2>. QED  BY <1>9, <2>1, <2>4, <2>5, OtherStep DEF setSocketBufferSize
<1>10. ASSUME NEW net \in Networks, ChangeNetwork(net) PROVE IInv'
  <2>1. TypeOK' /\ OneHost' /\ SizeKept'
    BY <1>10 DEF ChangeNetwork, IInv, TypeOK, OneHost, SizeKept, Ips
  <2>2. thread' \in {"none", "ended"} => ~m_running'
    BY <1>10 DEF ChangeNetwork, IInv, ReadsWhatWasAskedFor
  <2>. QED  BY <1>10, <2>1, <2>2, OtherStep DEF ChangeNetwork
<1>11. CASE UNCHANGED vars
  <2>1. TypeOK' /\ OneHost' /\ SizeKept'
    BY <1>11 DEF vars, IInv, TypeOK, OneHost, SizeKept, Ips
  <2>2. thread' \in {"none", "ended"} => ~m_running'
    BY <1>11 DEF vars, IInv, ReadsWhatWasAskedFor
  <2>. QED  BY <1>11, <2>1, <2>2, OtherStep DEF vars
<1>. QED  BY <1>1, <1>2, <1>3, <1>4, <1>5, <1>6, <1>7, <1>8, <1>9, <1>10, <1>11 DEF Next

LEMMA InvariantHolds == Spec => []IInv
  BY InitIInv, StepIInv, PTL DEF Spec

-----------------------------------------------------------------------------
(***************************************************************************)
(* The state has its types.                                                *)
(***************************************************************************)
THEOREM TypeCorrect == Spec => []TypeOK
  BY InvariantHolds, PTL DEF IInv

(***************************************************************************)
(* However sessions of any requests follow each other, fail to open or end *)
(* by an error, on any networks: the process keeps no bound socket beyond  *)
(* the one connection, and none without a thread.                          *)
(***************************************************************************)
THEOREM NothingLeft == Spec => []NoSocketLeft
  BY InvariantHolds, PTL DEF IInv

(***************************************************************************)
(* The reader reads the socket of the last setConnectionInfo, whatever the *)
(* requests before it were.                                                *)
(***************************************************************************)
THEOREM ReadsTheLastAsked == Spec => []ReadsWhatWasAskedFor
  BY InvariantHolds, PTL DEF IInv

(***************************************************************************)
(* For any sizes asked for, any limits of the kernel and any number of     *)
(* sessions, each of which asks for what the one before was granted: the   *)
(* size shown is that of the socket read, and no less than the user asked  *)
(* for or the kernel allows.                                               *)
(***************************************************************************)
THEOREM BufferSizeIsTrue == Spec => []BufferSizeTrue
  BY InvariantHolds, PTL DEF IInv

(***************************************************************************)
(* Of any number of hosts, a second one is never heard in a session        *)
(* without a warning.                                                      *)
(***************************************************************************)
THEOREM SecondHostWarned == Spec => []DuplicateSenderWarned
<1>1. IInv => DuplicateSenderWarned
  <2>. SUFFICES ASSUME IInv, ~warned PROVE ~(Cardinality(heard) > 1)
    BY DEF DuplicateSenderWarned
  <2>1. heard \subseteq {m_host_addr}
    BY DEF IInv, OneHost
  <2>2. IsFiniteSet({m_host_addr}) /\ Cardinality({m_host_addr}) = 1
    BY FS_Singleton
  <2>3. Cardinality(heard) \in Nat /\ Cardinality(heard) <= 1
    BY <2>1, <2>2, FS_Subset, FS_CardinalityType
  <2>. QED  BY <2>3
<1>. QED  BY <1>1, InvariantHolds, PTL

(***************************************************************************)
(* A group is joined on the device the user named, or on one that a        *)
(* longest matching route leads to, for any devices and routes; the status *)
(* shows the drops of that device.                                         *)
(***************************************************************************)
THEOREM GroupJoinedWhereAsked == Spec => []JoinedWhereAsked
<1>1. IInv => JoinedWhereAsked
  <2>. SUFFICES ASSUME IInv, Reading, IsGroup(request.ip), Routed(answer.network, request)
                PROVE  LET net == answer.network
                           dev == net.devices[sockets[Connection].member]
                       IN  /\ sockets[Connection].bound = request.ip
                           /\ dev.up /\ dev.multicast /\ ~dev.loopback
                           /\ request.interface # NoName
                                => dev.name = Name(request.interface, request.vlan)
                           /\ request.vlan \in {0, dev.name.vlan}
                           /\ request.interface = NoName /\ request.vlan = 0 =>
                                 \E row \in Matching(net.routes, request.ip) :
                                    /\ net.routes[row].iface = dev.name
                                    /\ \A other \in Matching(net.routes, request.ip) :
                                          net.routes[other].mask <= net.routes[row].mask
                           /\ network = net
                                => get_rx_dropped(m_interface) = net.dropped[dev.name.base]
    BY DEF JoinedWhereAsked
  <2>. DEFINE net  == answer.network
              used == sockets[Connection]
              dev  == net.devices[used.member]
              C    == Candidates(net, request)
              want == Wanted(net, request)
  <2>1. PICK first \in C :
           FromDevice(net, request, first, used.bound, used.member, m_interface)
    BY DEF IInv, Connected
  <2>2. /\ net \in Networks /\ request \in Requests
        /\ used.bound = Opened(net, request, first, TRUE, used.member).bound
        /\ used.member = Opened(net, request, first, TRUE, used.member).member
        /\ m_interface = Opened(net, request, first, TRUE, used.member).chosen
    BY <2>1 DEF IInv, Connected, TypeOK, FromDevice
  <2>. HIDE DEF net, used
  <2>3. TreatedAsMulticast(request.ip)
    <3>1. ASSUME ~TreatedAsMulticast(request.ip) PROVE FALSE
      <4>1. PICK ii \in DOMAIN net.devices :
                    request.ip = AnyAddress \/ request.ip = net.devices[ii].addr
        BY <2>1, <3>1 DEF Candidates, UnicastDevices
      <4>2. request.ip # AnyAddress
        BY DEF IsGroup, AnyAddress
      <4>. QED  BY <2>2, <4>1, <4>2, NetworkAssumption
    <3>. QED  BY <3>1
  <2>4. want # Empty
    <3>1. CASE request.interface = NoName /\ request.vlan = 0
      <4>1. want = getMcastIfaceFromRoutes(net.routes, request.ip)
        BY <2>3, <3>1 DEF Wanted, Empty
      <4>2. PICK row \in Matching(net.routes, request.ip) : want = net.routes[row].iface
        BY <2>2, <3>1, <4>1, RouteOfMatch DEF Routed, net
      <4>3. row \in DOMAIN net.routes
        BY <4>2 DEF Matching
      <4>. QED  BY <2>2, <4>2, <4>3, NetworkAssumption DEF Empty, Name
    <3>2. CASE ~(request.interface = NoName /\ request.vlan = 0)
      BY <3>2 DEF Wanted, Empty, Name
    <3>. QED  BY <3>1, <3>2
  <2>5. /\ used.bound = request.ip /\ used.member = first
        /\ m_interface = net.devices[first].name.base
    <3>1. first # 0
      BY <2>2, CandidatesAreDevices
    <3>2. Opened(net, request, first, TRUE, used.member)
            = OpenedMulticast(net, request, first, TRUE, used.member)
      BY <2>3, <3>1 DEF Opened
    <3>3. /\ OpenedMulticast(net, request, first, TRUE, used.member).bound = request.ip
          /\ OpenedMulticast(net, request, first, TRUE, used.member).member = first
          /\ OpenedMulticast(net, request, first, TRUE, used.member).chosen
               = net.devices[first].name.base
      BY <2>4 DEF OpenedMulticast
    <3>. QED  BY <2>2, <3>2, <3>3
  <2>6. used.member \in C
    BY <2>5
  <2>7. /\ used.member \in DOMAIN net.devices /\ NameFits(want, dev)
        /\ dev.up /\ ~dev.loopback /\ dev.multicast
    BY <2>3, <2>6 DEF Candidates, MulticastDevices
  <2>8. dev.name.base # NoName
    BY <2>2, <2>7, NetworkAssumption
  <2>9. request.interface # NoName => dev.name = Name(request.interface, request.vlan)
    BY <2>4, <2>7 DEF Wanted, NameFits, Empty, Name
  <2>10. request.vlan \in {0, dev.name.vlan}
    BY <2>7 DEF Wanted, NameFits, Empty, Name
  <2>11. ASSUME request.interface = NoName, request.vlan = 0
         PROVE  \E row \in Matching(net.routes, request.ip) :
                   /\ net.routes[row].iface = dev.name
                   /\ \A other \in Matching(net.routes, request.ip) :
                         net.routes[other].mask <= net.routes[row].mask
    <3>1. want = getMcastIfaceFromRoutes(net.routes, request.ip)
      BY <2>3, <2>11 DEF Wanted, Empty
    <3>2. PICK row \in Matching(net.routes, request.ip) :
             /\ want = net.routes[row].iface
             /\ \A other \in Matching(net.routes, request.ip) :
                   net.routes[other].mask <= net.routes[row].mask
      BY <2>2, <2>11, <3>1, RouteOfMatch DEF Routed, net
    <3>3. want.base # NoName
      BY <2>2, <3>2, NetworkAssumption DEF Matching
    <3>4. want = dev.name
      BY <2>4, <2>7, <3>3 DEF NameFits
    <3>. QED  BY <3>2, <3>4
  <2>12. network = net => get_rx_dropped(m_interface) = net.dropped[dev.name.base]
    BY <2>5, <2>7, <2>8 DEF get_rx_dropped, Bases
  <2>. QED  BY <2>5, <2>7, <2>9, <2>10, <2>11, <2>12 DEF net, used
<1>. QED  BY <1>1, InvariantHolds, PTL

(***************************************************************************)
(* A group whose last octet is below 240 is refused only if the kernel     *)
(* refused, or no device that is up fits what was asked for.               *)
(***************************************************************************)
THEOREM LowGroupsAreOpened == Spec => []LowGroupsOpened
<1>1. IInv => LowGroupsOpened
  <2>. SUFFICES ASSUME IInv, GroupRefused, request.ip[4] < 240,
                       CanJoin(answer.network, request)
                PROVE  FALSE
    BY DEF LowGroupsOpened
  <2>. DEFINE net == answer.network
  <2>1. Candidates(net, request) = {} /\ request \in Requests
    BY DEF IInv, Refused, GroupRefused, TypeOK
  <2>2. TreatedAsMulticast(request.ip)
    <3>1. IsAddress(request.ip)
      BY <2>1, RequestAssumption DEF GroupRefused, IsGroup
    <3>. QED  BY <3>1 DEF GroupRefused, IsGroup, IsAddress, TreatedAsMulticast
  <2>3. PICK ii \in DOMAIN net.devices :
                /\ net.devices[ii].up /\ ~net.devices[ii].loopback
                /\ net.devices[ii].multicast
                /\ NameAskedFor(net, request, net.devices[ii])
    BY DEF CanJoin
  <2>4. NameFits(Wanted(net, request), net.devices[ii])
    BY <2>2, <2>3 DEF NameAskedFor, NameFits, Wanted, Empty, Name
  <2>5. ii \in Candidates(net, request)
    BY <2>2, <2>3, <2>4 DEF Candidates, MulticastDevices
  <2>. QED  BY <2>1, <2>5
<1>. QED  BY <1>1, InvariantHolds, PTL

-----------------------------------------------------------------------------
(***************************************************************************)
(* A finite set of naturals has an upper bound, hence a greatest element.  *)
(***************************************************************************)
LEMMA FiniteIsBounded ==
    ASSUME NEW S \in SUBSET Nat, IsFiniteSet(S)
    PROVE  \E bound \in Nat : \A x \in S : x <= bound
<1>. DEFINE Bounded(T) == \E bound \in Nat : \A x \in T : x <= bound
            left == {Cardinality(S \ T) : T \in {U \in SUBSET S : Bounded(U)}}
<1>1. \A T \in SUBSET S : /\ IsFiniteSet(S \ T) /\ Cardinality(S \ T) \in Nat
  <2>. SUFFICES ASSUME NEW T \in SUBSET S
                PROVE  IsFiniteSet(S \ T) /\ Cardinality(S \ T) \in Nat
    OBVIOUS
  <2>1. IsFiniteSet(S \ T)
    BY FS_Subset
  <2>. QED  BY <2>1, FS_CardinalityType
<1>2. left \in SUBSET Nat /\ left # {}
  <2>1. Bounded({})
    OBVIOUS
  <2>2. {} \in {U \in SUBSET S : Bounded(U)}
    BY <2>1
  <2>3. Cardinality(S \ {}) \in left
    BY <2>2
  <2>4. left \in SUBSET Nat
    BY <1>1
  <2>. QED  BY <2>3, <2>4
<1>3. PICK n \in left : \A m \in left : n <= m
  BY <1>2, LeastElement
<1>4. PICK T \in SUBSET S : Bounded(T) /\ n = Cardinality(S \ T)
  BY <1>3
<1>5. ASSUME NEW y \in S \ T PROVE FALSE
  <2>1. PICK bound \in Nat : \A x \in T : x <= bound
    BY <1>4
  <2>. DEFINE more == T \cup {y}
  <2>2. Bounded(more)
    <3>1. CASE y <= bound
      BY <2>1, <3>1
    <3>2. CASE ~(y <= bound)
      <4>1. y \in Nat /\ \A x \in more : x <= y
        BY <2>1, <3>2
      <4>. QED  BY <4>1
    <3>. QED  BY <3>1, <3>2
  <2>3. Cardinality(S \ more) \in left
    BY <2>2
  <2>4. S \ more = (S \ T) \ {y}
    OBVIOUS
  <2>5. Cardinality(S \ more) = n - 1
    <3>. DEFINE rest == S \ T
    <3>1. IsFiniteSet(rest) /\ y \in rest /\ n = Cardinality(rest)
      BY <1>1, <1>4
    <3>2. Cardinality(rest \ {y}) = Cardinality(rest) - 1
      <4>. HIDE DEF rest
      <4>. QED  BY <3>1, FS_RemoveElement
    <3>. QED  BY <2>4, <3>1, <3>2
  <2>6. n \in Nat
    BY <1>1, <1>4
  <2>. HIDE DEF left
  <2>. QED  BY <1>3, <2>3, <2>5, <2>6
<1>6. T = S
  BY <1>5
<1>. QED  BY <1>4, <1>6

LEMMA MaxOf ==
    ASSUME NEW S \in SUBSET Nat, S # {}, IsFiniteSet(S)
    PROVE  Max(S) \in S /\ \A y \in S : y <= Max(S)
<1>1. PICK bound \in Nat : \A x \in S : x <= bound
  BY FiniteIsBounded
<1>2. PICK x \in S : \A y \in S : y <= x
  BY <1>1, GreatestElement
<1>3. x \in S /\ \A y \in S : x >= y
  BY <1>2
<1>4. Max(S) \in S /\ \A y \in S : Max(S) >= y
  BY <1>3, Zenon DEF Max
<1>. QED  BY <1>4

-----------------------------------------------------------------------------
(***************************************************************************)
(* What is searched for in /proc/net/udp, where it is printed in full.     *)
(***************************************************************************)
LEMMA PrintedInFull ==
    ASSUME NEW digits \in Seq(Int), Len(digits) > 0, digits[1] # 0
    PROVE  Printed(digits) = digits
<1>. DEFINE nonzero == {i \in DOMAIN digits : digits[i] # 0}
<1>1. 1 \in nonzero /\ nonzero \in SUBSET Nat /\ \A i \in nonzero : 1 <= i
  OBVIOUS
<1>2. Min(nonzero) = 1
  <2>1. \E x \in nonzero : \A y \in nonzero : x =< y
    BY <1>1
  <2>2. Min(nonzero) \in nonzero /\ \A y \in nonzero : Min(nonzero) =< y
    BY <2>1, Zenon DEF Min
  <2>. DEFINE least == Min(nonzero)
  <2>3. least \in nonzero /\ least =< 1
    BY <1>1, <2>2
  <2>4. least \in Nat /\ 1 <= least
    BY <1>1, <2>3
  <2>. HIDE DEF least
  <2>. QED  BY <2>3, <2>4 DEF least
<1>3. nonzero # {}
  BY <1>1
<1>4. Printed(digits) = SubSeq(digits, 1, Len(digits))
  BY <1>2, <1>3 DEF Printed
<1>. QED  BY <1>4

LEMMA FullPrefix ==
    ASSUME NEW s \in Seq(Int), NEW t \in Seq(Int), Len(s) = Len(t)
    PROVE  IsPrefix(s, t) <=> s = t
  BY DEF IsPrefix

LEMMA FullSuffix ==
    ASSUME NEW s \in Seq(Int), NEW t \in Seq(Int), Len(s) = Len(t)
    PROVE  IsSuffix(s, t) <=> s = t
<1>1. /\ Reverse(s) \in Seq(Int) /\ Len(Reverse(s)) = Len(s)
      /\ Reverse(t) \in Seq(Int) /\ Len(Reverse(t)) = Len(t)
  BY DEF Reverse
<1>2. ASSUME Reverse(s) = Reverse(t) PROVE s = t
  <2>1. ASSUME NEW i \in 1..Len(s) PROVE s[i] = t[i]
    <3>1. (Len(s) - i) + 1 \in 1..Len(s) /\ (Len(s) - ((Len(s) - i) + 1)) + 1 = i
      OBVIOUS
    <3>2. Reverse(s)[(Len(s) - i) + 1] = s[i]
      BY <3>1 DEF Reverse
    <3>3. Reverse(t)[(Len(s) - i) + 1] = t[i]
      BY <3>1 DEF Reverse
    <3>. QED  BY <1>2, <3>2, <3>3
  <2>. QED  BY <2>1
<1>3. IsSuffix(s, t) <=> Reverse(s) = Reverse(t)
  BY <1>1, FullPrefix DEF IsSuffix
<1>. QED  BY <1>2, <1>3

LEMMA HexDigits ==
    ASSUME NEW x \in Nat, NEW y \in Nat, x \div 16 = y \div 16, x % 16 = y % 16
    PROVE  x = y
  OBVIOUS

LEMMA SameAddress ==
    ASSUME NEW ip, IsAddress(ip), NEW address, IsAddress(address), ip[4] >= 16
    PROVE  IsSuffix(Printed(AddressDigits(ip)), AddressDigits(address)) <=> ip = address
<1>1. ASSUME NEW a, IsAddress(a)
      PROVE  AddressDigits(a) \in Seq(Int) /\ Len(AddressDigits(a)) = 8
  BY <1>1 DEF IsAddress, AddressDigits
<1>2. AddressDigits(ip)[1] # 0
  BY DEF IsAddress, AddressDigits
<1>3. Printed(AddressDigits(ip)) = AddressDigits(ip)
  BY <1>1, <1>2, PrintedInFull
<1>4. IsSuffix(Printed(AddressDigits(ip)), AddressDigits(address))
        <=> AddressDigits(ip) = AddressDigits(address)
  BY <1>1, <1>3, FullSuffix
<1>5. ASSUME AddressDigits(ip) = AddressDigits(address) PROVE ip = address
  <2>1. \A i \in 1..4 : ip[i] \in Nat /\ address[i] \in Nat
    BY DEF IsAddress
  <2>2. /\ ip[4] \div 16 = address[4] \div 16 /\ ip[4] % 16 = address[4] % 16
        /\ ip[3] \div 16 = address[3] \div 16 /\ ip[3] % 16 = address[3] % 16
        /\ ip[2] \div 16 = address[2] \div 16 /\ ip[2] % 16 = address[2] % 16
        /\ ip[1] \div 16 = address[1] \div 16 /\ ip[1] % 16 = address[1] % 16
    BY <1>5 DEF AddressDigits
  <2>3. ip[1] = address[1] /\ ip[2] = address[2] /\ ip[3] = address[3] /\ ip[4] = address[4]
    BY <2>1, <2>2, HexDigits
  <2>. QED  BY <2>3 DEF IsAddress
<1>. QED  BY <1>4, <1>5

LEMMA SamePort ==
    ASSUME NEW port \in Nat, NEW p \in Nat, port >= 4096
    PROVE  IsPrefix(Printed(PortDigits(port)), PortDigits(p)) <=> port = p
<1>1. ASSUME NEW n \in Nat
      PROVE  PortDigits(n) \in Seq(Int) /\ Len(PortDigits(n)) = 4
  BY DEF PortDigits
<1>2. PortDigits(port)[1] # 0
  BY DEF PortDigits
<1>3. Printed(PortDigits(port)) = PortDigits(port)
  BY <1>1, <1>2, PrintedInFull
<1>4. IsPrefix(Printed(PortDigits(port)), PortDigits(p)) <=> PortDigits(port) = PortDigits(p)
  BY <1>1, <1>3, FullPrefix
<1>5. ASSUME PortDigits(port) = PortDigits(p) PROVE port = p
  <2>1. /\ port \div 4096 = p \div 4096
        /\ (port \div 256) % 16 = (p \div 256) % 16
        /\ (port \div 16) % 16 = (p \div 16) % 16
        /\ port % 16 = p % 16
    BY <1>5 DEF PortDigits
  <2>2. ASSUME NEW n \in Nat
        PROVE  n = 4096 * (n \div 4096) + 256 * ((n \div 256) % 16)
                     + 16 * ((n \div 16) % 16) + (n % 16)
    OBVIOUS
  <2>. QED  BY <2>1, <2>2
<1>. QED  BY <1>4, <1>5

LEMMA FoundIs ==
    ASSUME NEW ip, IsAddress(ip), ip[4] >= 16, NEW address, IsAddress(address),
           NEW port \in Nat, port >= 4096, NEW p \in Nat
    PROVE  FoundIn(ip, port, address, p) <=> ip = address /\ port = p
  BY SameAddress, SamePort DEF FoundIn

LEMMA ImageIsFinite ==
    ASSUME NEW S, IsFiniteSet(S), NEW f, f = [x \in S |-> f[x]]
    PROVE  IsFiniteSet({f[x] : x \in S})
<1>1. f \in Surjection(S, {f[x] : x \in S})
  BY DEF Surjection
<1>. QED  BY <1>1, FS_Surjection

RowType(row) ==
    /\ IsAddress(row.local) /\ IsAddress(row.remote)
    /\ {row.port, row.rport, row.queue} \subseteq Nat

LEMMA OwnRowsAre ==
    ASSUME TypeOK, NoSocketLeft, NEW queue \in Nat
    PROVE  IsFiniteSet(OwnRows(queue)) /\ \A row \in OwnRows(queue) : RowType(row)
<1>. DEFINE bound == {e \in DOMAIN sockets : sockets[e].bound # NoIp}
            Entry(d) == [id |-> d, local |-> sockets[d].bound, port |-> sockets[d].port,
                         remote |-> AnyAddress, rport |-> 0, queue |-> queue]
<1>1. OwnRows(queue) = {Entry(d) : d \in bound}
  BY DEF OwnRows
<1>2. IsFiniteSet(bound)
  <2>1. bound \subseteq {m_multicast_connection} \cup {m_unicast_connection}
    BY DEF NoSocketLeft, Held
  <2>2. IsFiniteSet({m_multicast_connection} \cup {m_unicast_connection})
    BY FS_Singleton, FS_AddElement
  <2>. HIDE DEF bound
  <2>. QED  BY <2>1, <2>2, FS_Subset
<1>3. IsFiniteSet({Entry(d) : d \in bound})
  <2>. DEFINE entry == [d \in bound |-> Entry(d)]
  <2>. HIDE DEF bound, Entry
  <2>1. {entry[d] : d \in bound} = {Entry(d) : d \in bound}
    OBVIOUS
  <2>2. entry = [d \in bound |-> entry[d]]
    OBVIOUS
  <2>. HIDE DEF entry
  <2>. QED  BY <1>2, <2>1, <2>2, ImageIsFinite
<1>4. ASSUME NEW d \in bound PROVE RowType(Entry(d))
  <2>1. IsAddress(AnyAddress)
    BY DEF IsAddress, AnyAddress
  <2>2. IsAddress(sockets[d].bound) /\ sockets[d].port \in Nat
    BY <2>1, RequestAssumption DEF TypeOK, Ips
  <2>. QED  BY <2>1, <2>2 DEF RowType
<1>. QED  BY <1>1, <1>3, <1>4

LEMMA ShownRightOf ==
    ASSUME IInv, NEW req, IsAddress(req.ip), req.port \in Nat, NoLeadingZero(req),
           NEW others \in SUBSET OtherSockets, NEW queue \in Nat,
           \A row \in OwnRows(queue) \cup others : row.remote # req.ip
    PROVE  ShownRight(req, OwnRows(queue) \cup others)
<1>. DEFINE rows == OwnRows(queue) \cup others
            here == At(rows, req)
            queues == {row.queue : row \in here}
            status == get_status_struct(rows, req)
<1>1. req.port >= 4096 /\ req.ip[4] >= 16
  BY DEF NoLeadingZero
<1>2. IsFiniteSet(rows) /\ \A row \in rows : RowType(row)
  <2>1. IsFiniteSet(OwnRows(queue)) /\ \A row \in OwnRows(queue) : RowType(row)
    BY OwnRowsAre DEF IInv
  <2>2. IsFiniteSet(others) /\ \A row \in others : RowType(row)
    BY OtherSocketsAssumption, FS_Subset DEF RowType
  <2>. QED  BY <2>1, <2>2, FS_Union
<1>3. ASSUME Reading, req = [ip |-> request.ip, port |-> request.port],
             sockets[Connection].bound = req.ip
      PROVE  \E row \in here : row.id = Connection
  <2>1. Connection \in DOMAIN sockets /\ sockets[Connection].port = req.port
    <3>1. Held = {Connection} /\ Held \subseteq DOMAIN sockets
      BY <1>3 DEF IInv, ReadsWhatWasAskedFor, NoSocketLeft
    <3>. QED  BY <1>3, <3>1 DEF IInv, ReadsWhatWasAskedFor
  <2>2. req.ip # NoIp
    BY RequestAssumption
  <2>. DEFINE own == [id |-> Connection, local |-> sockets[Connection].bound,
                      port |-> sockets[Connection].port, remote |-> AnyAddress,
                      rport |-> 0, queue |-> queue]
  <2>3. Connection \in {e \in DOMAIN sockets : sockets[e].bound # NoIp}
    BY <1>3, <2>1, <2>2
  <2>4. own \in OwnRows(queue)
    BY <2>3 DEF OwnRows
  <2>5. own.local = req.ip /\ own.port = req.port /\ own.id = Connection
    BY <1>3, <2>1
  <2>. HIDE DEF own
  <2>6. own \in here
    BY <2>4, <2>5 DEF At
  <2>. QED  BY <2>5, <2>6
<1>4. \A row \in rows : row.remote # req.ip
  OBVIOUS
<1>. HIDE DEF rows
<1>5. LocalMatches(rows, req.ip, req.port) = here
  <2>1. \A row \in rows :
           FoundIn(req.ip, req.port, row.local, row.port)
             <=> req.ip = row.local /\ req.port = row.port
    BY <1>1, <1>2, FoundIs DEF RowType
  <2>. QED  BY <2>1 DEF LocalMatches, At
<1>6. RemoteMatches(rows, req.ip, req.port) = {}
  <2>1. \A row \in rows :
           FoundIn(req.ip, req.port, row.remote, row.rport) => req.ip = row.remote
    BY <1>1, <1>2, FoundIs DEF RowType
  <2>. QED  BY <1>4, <2>1 DEF RemoteMatches
<1>7. IsFiniteSet(here) /\ Cardinality(here) \in Nat
  <2>1. here \in SUBSET rows
    BY DEF At
  <2>2. IsFiniteSet(here)
    BY <1>2, <2>1, FS_Subset
  <2>. QED  BY <2>2, FS_CardinalityType
<1>8. \A row \in here : row.queue \in Nat
  BY <1>2 DEF At, RowType
<1>9. status.num_udp_socket_readers = Cardinality(here)
  <2>1. Cardinality({}) = 0
    BY FS_EmptySet
  <2>. QED  BY <1>5, <1>6, <1>7, <2>1 DEF get_status_struct, get_rx_queue
<1>10. status.udp_socket_buffer_queue = Max({0} \cup queues)
  BY <1>5 DEF get_status_struct, get_rx_queue
<1>. HIDE DEF here, status
<1>11. IsFiniteSet({0} \cup queues) /\ {0} \cup queues \in SUBSET Nat
  <2>. DEFINE queueOf == [row \in here |-> row.queue]
  <2>1. {queueOf[row] : row \in here} = queues
    OBVIOUS
  <2>2. queueOf = [row \in here |-> queueOf[row]]
    OBVIOUS
  <2>. HIDE DEF queueOf
  <2>3. IsFiniteSet(queues)
    BY <1>7, <2>1, <2>2, ImageIsFinite
  <2>4. queues \in SUBSET Nat
    BY <1>8
  <2>. HIDE DEF queues
  <2>5. IsFiniteSet(queues \cup {0})
    BY <2>3, FS_AddElement
  <2>6. queues \cup {0} = {0} \cup queues
    OBVIOUS
  <2>7. {0} \cup queues \in SUBSET Nat
    BY <2>4
  <2>. QED  BY <2>5, <2>6, <2>7, Zenon
<1>. DEFINE most == Max({0} \cup queues)
<1>12. most \in {0} \cup queues /\ \A n \in {0} \cup queues : n <= most
  BY <1>11, MaxOf
<1>13. most \in Nat /\ \A row \in here : row.queue <= most
  BY <1>11, <1>12
<1>. HIDE DEF most
<1>14. most \in queues \cup (IF here = {} THEN {0} ELSE {})
  <2>1. CASE most \in queues
    BY <2>1
  <2>2. CASE most = 0 /\ here # {}
    <3>1. PICK row \in here : TRUE
      BY <2>2
    <3>2. row.queue = most
      BY <1>8, <1>13, <2>2, <3>1
    <3>. QED  BY <3>2
  <2>3. CASE most = 0 /\ here = {}
    BY <2>3
  <2>. QED  BY <1>12, <2>1, <2>2, <2>3
<1>15. status.udp_socket_buffer_queue = most
  BY <1>10 DEF most
<1>16. \A row \in here : status.udp_socket_buffer_queue >= row.queue
  BY <1>8, <1>13, <1>15
<1>17. status.udp_socket_buffer_queue \in queues \cup (IF here = {} THEN {0} ELSE {})
  BY <1>14, <1>15
<1>. QED  BY <1>3, <1>9, <1>16, <1>17 DEF ShownRight, here, status, rows

(***************************************************************************)
(* num_udp_socket_readers counts the sockets on the address in use at the  *)
(* time of the query, and udp_socket_buffer_queue is the fill of the       *)
(* fullest of them, for any other sockets the host has, where the port and *)
(* the last octet of the address are printed in full and no socket is      *)
(* connected to the address.                                               *)
(***************************************************************************)
THEOREM ReadersAreFound == Spec => []ReadersFound
<1>1. IInv => ReadersFound
  <2>. SUFFICES ASSUME IInv, NEW req \in Asked, NEW others \in SUBSET OtherSockets,
                       NEW queue \in Fills,
                       \A row \in OwnRows(queue) \cup others : row.remote # req.ip
                PROVE  ShownRight(req, OwnRows(queue) \cup others)
    BY DEF ReadersFound
  <2>1. IsAddress(req.ip) /\ req.port \in Nat /\ NoLeadingZero(req)
    BY RequestAssumption DEF Asked
  <2>2. queue \in Nat
    BY OtherSocketsAssumption
  <2>. QED  BY <2>1, <2>2, ShownRightOf
<1>. QED  BY <1>1, InvariantHolds, PTL
=============================================================================
