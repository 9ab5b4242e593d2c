------------------------------ MODULE NetTools ------------------------------
(***************************************************************************)
(* The network tools 010 (net_interface.cpp, main.cpp), 012 (main.cpp, a   *)
(* router solicitation) and 013 (main.c, one RTP packet), and the quit     *)
(* flag of debug.cpp that 010 and 012 use.  One action is one call of the  *)
(* system's libraries.  A program calls the functions of net_interface.h   *)
(* several times; only sockets outlive a call.                             *)
(***************************************************************************)
EXTENDS Integers, Sequences, FiniteSets

CONSTANTS
  NetFaults,   \* the calls that may fail
  FdMax,       \* sockets a process can have
  MaxNetCalls, \* bound: calls of a program of 010
  MaxEntries   \* bound: entries of a list of interfaces or addresses

NetSys == {"sigaction", "inet_pton", "socket", "connect", "getsockname", "getifaddrs",
           "getnameinfo", "if_nameindex", "getaddrinfo", "gethostbyname", "sendto"}

ASSUME NetAssumption ==
  /\ NetFaults \subseteq NetSys
  /\ FdMax \in Nat /\ MaxNetCalls \in Nat \ {0} /\ MaxEntries \in Nat

VARIABLES
  prog,     \* the program: "010", "012" or "013"
  little,   \* it runs on a little-endian machine
  np,       \* the call it makes next
  fun,      \* the function it is in
  entries,  \* entries left of the list a loop is in
  held,     \* the lists that are allocated
  sockets,  \* the sockets that are open
  kept,     \* calls of functions that do not close the socket they got
  told,     \* calls made by the program
  net_ret,  \* what the function returned last
  trouble,  \* the calls that failed in it
  handler,  \* debug_sig_handle is installed
  g_debug_quit,
  killed,
  wire      \* the bytes 013 sent

netVars == <<prog, little, np, fun, entries, held, sockets, kept, told, net_ret, trouble,
             handler, g_debug_quit, killed, wire>>
netSignal == <<handler, g_debug_quit, killed>>
netFixed == <<prog, little>>

Library == {"get_sockaddr", "get_ifaddr", "if_nameindex_demo", "addrinfo", "addrinfo_obsolete"}

NetInit ==
  /\ prog \in {"010", "012", "013"} /\ little \in BOOLEAN
  /\ prog # "013" => little
  /\ np = IF prog = "013" THEN "socket" ELSE "debug_init"
  /\ fun = IF prog = "013" THEN "main" ELSE "none"
  /\ entries = 0 /\ held = {} /\ sockets = 0 /\ kept = 0 /\ told = 0
  /\ net_ret = 0 /\ trouble = {}
  /\ handler = FALSE /\ g_debug_quit = FALSE /\ killed = FALSE
  /\ wire = <<>>

NetTypeOK ==
  /\ np \in NetSys \cup {"debug_init", "main", "entry", "exit"}
  /\ fun \in Library \cup {"none", "main", "router_solicitation"}
  /\ entries \in 0..MaxEntries /\ held \subseteq NetSys
  /\ sockets \in 0..FdMax /\ kept \in 0..FdMax /\ told \in 0..MaxNetCalls
  /\ net_ret \in {-1, 0} /\ trouble \subseteq NetSys \cup {"family", "EMFILE"}
  /\ handler \in BOOLEAN /\ g_debug_quit \in BOOLEAN /\ killed \in BOOLEAN

-----------------------------------------------------------------------------
(* The quit flag                                                           *)

NetAt(l) == ~killed /\ np = l

\* A failing sigaction is reported and its result dropped by both mains.
DebugInit ==
  /\ NetAt("debug_init")
  /\ handler' \in {TRUE} \cup {FALSE : x \in {"sigaction"} \cap NetFaults}
  /\ np' = "main"
  /\ UNCHANGED <<netFixed, fun, entries, held, sockets, kept, told, net_ret, trouble,
                 g_debug_quit, killed, wire>>

\* SIGUSR1 runs the handler or, when there is none, ends the process.
Sigusr1 ==
  /\ ~killed /\ np # "exit" /\ prog # "013"
  /\ IF handler THEN g_debug_quit' = TRUE /\ UNCHANGED killed
     ELSE killed' = TRUE /\ UNCHANGED g_debug_quit
  /\ UNCHANGED <<netFixed, np, fun, entries, held, sockets, kept, told, net_ret, trouble,
                 handler, wire>>

-----------------------------------------------------------------------------
(* Calls and results                                                       *)

\* The function in progress goes on to l, with n entries of a list before it.
NetGo(l, n) ==
  /\ np' = l /\ entries' = n
  /\ UNCHANGED <<netFixed, fun, told, net_ret, netSignal, wire>>

\* The call x of the function may fail.
NetFails(x) == x \in NetFaults /\ trouble' = trouble \cup {x}

\* The function returns r to main.
NetReturn(r) ==
  /\ np' = "main" /\ net_ret' = r /\ entries' = 0
  /\ UNCHANGED <<netFixed, fun, told, netSignal, wire>>

Begin(f, l) ==
  /\ fun' = f /\ np' = l /\ told' = told + 1 /\ net_ret' = 0 /\ trouble' = {}
  /\ UNCHANGED <<netFixed, entries, held, sockets, kept, netSignal, wire>>

\* The first call each function of net_interface.h makes.
FirstCall(f) ==
  CASE f = "get_sockaddr" -> "inet_pton" [] f = "get_ifaddr" -> "getifaddrs"
    [] f = "if_nameindex_demo" -> "if_nameindex" [] f = "addrinfo" -> "getaddrinfo"
    [] f = "addrinfo_obsolete" -> "gethostbyname"

NetCall(f) ==
  /\ NetAt("main") /\ prog = "010" /\ told < MaxNetCalls
  /\ Begin(f, FirstCall(f))

\* 012: without an argument main returns at once.
RouterSolicitation ==
  /\ NetAt("main") /\ prog = "012" /\ told = 0
  /\ Begin("router_solicitation", "socket")

-----------------------------------------------------------------------------
(* get_sockaddr, router_solicitation, main of 013                           *)

\* Neither ":" nor "." in the peer: -1.  What inet_pton cannot read leaves the
\* address zero and the function goes on.
InetPton ==
  /\ NetAt("inet_pton") /\ UNCHANGED <<held, sockets, kept>>
  /\ \/ trouble' = trouble \cup {"family"} /\ NetReturn(-1)
     \/ NetFails("inet_pton") /\ NetGo("socket", 0)
     \/ UNCHANGED trouble /\ NetGo("socket", 0)

\* Only main of 013 closes its socket.
Socket ==
  /\ NetAt("socket") /\ UNCHANGED held
  /\ \/ /\ sockets < FdMax /\ sockets' = sockets + 1
        /\ kept' = kept + IF prog = "013" THEN 0 ELSE 1
        /\ UNCHANGED trouble
        /\ NetGo(IF fun = "get_sockaddr" THEN "connect" ELSE "sendto", 0)
     \/ /\ "socket" \in NetFaults \/ sockets = FdMax
        /\ trouble' = trouble \cup {IF sockets = FdMax THEN "EMFILE" ELSE "socket"}
        /\ UNCHANGED <<sockets, kept>>
        /\ NetReturn(-1)

\* No exit of get_sockaddr closes the socket.
Connect ==
  /\ NetAt("connect") /\ UNCHANGED <<held, sockets, kept>>
  /\ \/ UNCHANGED trouble /\ NetGo("getsockname", 0)
     \/ NetFails("connect") /\ NetReturn(-1)

Getsockname ==
  /\ NetAt("getsockname") /\ UNCHANGED <<held, sockets, kept>>
  /\ \/ UNCHANGED trouble /\ NetReturn(0)
     \/ NetFails("getsockname") /\ NetReturn(-1)

-----------------------------------------------------------------------------
(* The packet of 013                                                       *)

htons(n) == IF little THEN (n % 256) * 256 + n \div 256 ELSE n

Rtp == [version |-> 2, padding |-> 0, extension |-> 0, csrc_ct |-> 0, marker |-> 0,
        payload |-> 96, sequence_num |-> htons(30241)]

\* Two bit fields, declared in this order, as one: <<value, number of values>>.
\* The ABI of a little-endian machine allots from the low bits, that of a
\* big-endian one from the high bits.
Join(f, g) ==
  LET low == IF little THEN f ELSE g
      high == IF little THEN g ELSE f
  IN  <<low[1] + low[2] * high[1], low[2] * high[2]>>

\* A uint16_t in memory.
Word(s) == IF little THEN <<s % 256, s \div 256>> ELSE <<s \div 256, s % 256>>

\* Mutant: the bit fields are declared in one order only.
BytesUnordered(h) ==
  LET cc == <<h.csrc_ct, 16>>  x == <<h.extension, 2>>  p == <<h.padding, 2>>  v == <<h.version, 4>>
      pt == <<h.payload, 128>>  m == <<h.marker, 2>>
  IN  <<Join(cc, Join(x, Join(p, v)))[1], Join(pt, m)[1]>> \o Word(h.sequence_num)

\* struct rtp_protocol in memory; __BYTE_ORDER selects the order of the fields.
Bytes(h) ==
  LET cc == <<h.csrc_ct, 16>>  x == <<h.extension, 2>>  p == <<h.padding, 2>>  v == <<h.version, 4>>
      pt == <<h.payload, 128>>  m == <<h.marker, 2>>
  IN  (IF little THEN <<Join(cc, Join(x, Join(p, v)))[1], Join(pt, m)[1]>>
       ELSE <<Join(v, Join(p, Join(x, cc)))[1], Join(m, pt)[1]>>) \o Word(h.sequence_num)

\* The dissectors of rtpslice.lua and Tool_Lua_Evaluate.lua show the first four
\* bytes as hexadecimal digits.
dissector(Tvb) ==
  [i \in 1..8 |-> LET b == Tvb[(i + 1) \div 2] IN IF i % 2 = 1 THEN b \div 16 ELSE b % 16]

\* sendto; its result goes to main, which does not look at it, and closes.
send_udp_data ==
  /\ NetAt("sendto") /\ prog = "013"
  /\ \/ UNCHANGED trouble /\ wire' = Bytes(Rtp)
     \/ NetFails("sendto") /\ wire' = <<>>
  /\ sockets' = sockets - 1 /\ np' = "main" /\ net_ret' = 0
  /\ UNCHANGED <<netFixed, fun, entries, held, kept, told, netSignal>>

\* setsockopt five times, inet_pton, if_nametoindex and sendto: nobody looks at
\* the results.
SendSolicitation ==
  /\ NetAt("sendto") /\ prog = "012" /\ UNCHANGED <<held, sockets, kept>>
  /\ UNCHANGED trouble \/ NetFails("sendto")
  /\ NetReturn(0)

-----------------------------------------------------------------------------
(* Lists                                                                   *)

\* The list a function obtains, named for the call that returns it.
List == CASE fun = "get_ifaddr" -> "getifaddrs" [] fun = "if_nameindex_demo" -> "if_nameindex"
          [] fun = "addrinfo" -> "getaddrinfo"

Obtain == held' = held \cup {np} /\ UNCHANGED trouble /\ \E n \in 0..MaxEntries : NetGo("entry", n)

GetIfaddrs ==
  /\ NetAt("getifaddrs") /\ UNCHANGED <<sockets, kept>>
  /\ Obtain \/ (NetFails(np) /\ UNCHANGED held /\ NetReturn(-1))

IfNameindex ==
  /\ NetAt("if_nameindex") /\ UNCHANGED <<sockets, kept>>
  /\ Obtain \/ (NetFails(np) /\ UNCHANGED held /\ NetReturn(-1))

\* addrinfo goes on without a list when there is none.
GetAddrinfo ==
  /\ NetAt("getaddrinfo") /\ UNCHANGED <<sockets, kept>>
  /\ Obtain \/ (NetFails(np) /\ UNCHANGED held /\ NetGo("entry", 0))

\* The body of a loop ends and the next entry is looked at.
NextEntry == NetGo("entry", entries - 1) /\ UNCHANGED <<held, trouble>>

InLoop(f) == NetAt("entry") /\ fun = f /\ entries > 0 /\ UNCHANGED <<sockets, kept>>

\* Mutant: the list is not freed when getnameinfo fails.
IfaddrEntryReturns ==
  /\ InLoop("get_ifaddr")
  /\ NextEntry \/ (NetFails("getnameinfo") /\ UNCHANGED held /\ NetReturn(-1))

\* An entry without an address, or with one of another family, is not looked up.
IfaddrEntry ==
  /\ InLoop("get_ifaddr")
  /\ NextEntry \/ (NetFails("getnameinfo") /\ held' = held \ {List} /\ NetReturn(-1))

NameindexEntry == InLoop("if_nameindex_demo") /\ NextEntry

\* name_info prints that getnameinfo failed and returns 0 all the same.
name_info == UNCHANGED trouble \/ NetFails("getnameinfo")

AddrinfoEntry == InLoop("addrinfo") /\ name_info /\ NetGo("entry", entries - 1) /\ UNCHANGED held

\* Mutant: addrinfo returns what getaddrinfo said.
FreeListReports ==
  /\ NetAt("entry") /\ entries = 0
  /\ held' = held \ {List}
  /\ NetReturn(IF "getaddrinfo" \in trouble THEN -1 ELSE 0)
  /\ UNCHANGED <<sockets, kept, trouble>>

\* freeifaddrs, if_freenameindex, freeaddrinfo, the last of which accepts NULL.
FreeList ==
  /\ NetAt("entry") /\ entries = 0
  /\ held' = held \ {List}
  /\ NetReturn(0)
  /\ UNCHANGED <<sockets, kept, trouble>>

\* gethostbyname returns memory of the library.
Gethostbyname ==
  /\ NetAt("gethostbyname") /\ UNCHANGED <<held, sockets, kept>>
  /\ \/ UNCHANGED trouble /\ NetReturn(0)
     \/ NetFails("gethostbyname") /\ NetReturn(-1)

-----------------------------------------------------------------------------
(* The end of main                                                         *)

\* Mutant: main waits for SIGUSR1 instead of setting the flag itself.
NetExitWaits ==
  /\ NetAt("main") /\ (prog # "013" => g_debug_quit)
  /\ np' = "exit"
  /\ UNCHANGED <<netFixed, fun, entries, held, sockets, kept, told, net_ret, trouble,
                 netSignal, wire>>

\* The flag is set before the loop that tests it, so that pause is never called.
NetExit ==
  /\ NetAt("main")
  /\ np' = "exit" /\ g_debug_quit' = (g_debug_quit \/ prog # "013")
  /\ UNCHANGED <<netFixed, fun, entries, held, sockets, kept, told, net_ret, trouble,
                 handler, killed, wire>>

NetStep ==
  \/ DebugInit \/ \E f \in Library : NetCall(f)
  \/ RouterSolicitation
  \/ InetPton \/ Socket \/ Connect \/ Getsockname \/ send_udp_data \/ SendSolicitation
  \/ GetIfaddrs \/ IfNameindex \/ GetAddrinfo
  \/ IfaddrEntry \/ NameindexEntry \/ AddrinfoEntry \/ FreeList \/ Gethostbyname
  \/ NetExit

NetNext == NetStep \/ Sigusr1

NetSpec == NetInit /\ [][NetNext]_netVars

-----------------------------------------------------------------------------
(* Properties                                                              *)

Between == NetAt("main") \/ NetAt("exit")

\* Whichever calls fail, and wherever in a list, between two calls no list of
\* interfaces or addresses is allocated (net_interface.cpp:157, 171, 190, 234).
\* Every call of get_sockaddr or router_solicitation that gets a socket keeps it
\* on all of its exits (net_interface.cpp:92, 97, 104; 012/main.cpp:43), while
\* 013 closes its own: a program runs out of descriptors by exactly those calls,
\* and not before FdMax of them.
NetResources ==
  /\ NetTypeOK
  /\ Between => held = {} /\ sockets = kept
  /\ "EMFILE" \in trouble => kept = FdMax

\* What a function returns tells whether it failed, but of four calls whose
\* failure it only prints (net_interface.cpp:53, 207, 223) or ignores
\* (012/main.cpp:41, 013/main.c:69).
NetReports ==
  Between /\ told > 0 =>
    (net_ret < 0 <=>
       trouble \ ({"inet_pton", "getaddrinfo", "sendto"}
                    \cup {x \in {"getnameinfo"} : fun = "addrinfo"}) # {})

\* The four bytes of 013 are those of Add_New_Protocols_And_Dissectors.md:49: V=2,
\* P, X, CC, M, PT and the sequence number in network order, on either machine, and
\* the dissectors show them as 0x80607621 (the comment at main.c:67 has the 7621).
RtpOnWire ==
  wire # <<>> =>
    /\ Len(wire) = 4
    /\ wire[1] \div 64 = 2 /\ wire[1] % 64 = 0
    /\ wire[2] \div 128 = 0 /\ wire[2] % 128 = 96
    /\ wire[3] * 256 + wire[4] = 30241
    /\ dissector(wire) = <<8, 0, 6, 0, 7, 6, 2, 1>>

\* The programs of 010 and 012 end with "all clean up", or SIGUSR1 kills them;
\* pause never blocks them, since they set the flag themselves (010/main.cpp:16).
NetEnds == <>(np = "exit" \/ killed)
=============================================================================
