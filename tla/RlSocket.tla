------------------------------- MODULE RlSocket -------------------------------
(***************************************************************************)
(* rlsocket.cpp: the socket objects of one process and the descriptors the  *)
(* kernel has given it.  A gate owns an object that connects, a server one  *)
(* that is handed the descriptors of accepted connections.  The kernel      *)
(* gives out the lowest free number, so a number that has been closed soon  *)
(* means something else.                                                    *)
(***************************************************************************)
EXTENDS Integers, FiniteSets

CONSTANTS Gate,      \* objects that connect (active = 1)
          Server,    \* objects that get descriptors by setHandl
          MaxFd      \* number of descriptors the kernel grants

Object == Gate \cup Server
Fd == 0 .. (MaxFd - 1)
Listener == 0 .. (Cardinality(Server) - 1)   \* the listening sockets come first

ASSUME SocketAssumption == /\ IsFiniteSet(Object)
                           /\ MaxFd \in Nat
                           /\ Gate \cap Server = {}
                           /\ Cardinality(Server) <= MaxFd

VARIABLES s,          \* the descriptor of each object, or -1
          open,       \* the descriptors the kernel holds open for the process
          serving,    \* is the machine of a server in state process
          gone,       \* has the peer closed its end
          reachable,  \* can the gateway be reached
          failed      \* number of connects that failed

vars == <<s, open, serving, gone, reachable, failed>>

Init ==
    /\ s = [o \in Object |-> -1]
    /\ open = Listener
    /\ serving = [v \in Server |-> FALSE]
    /\ gone = [o \in Object |-> FALSE]
    /\ reachable \in BOOLEAN
    /\ failed = 0

-----------------------------------------------------------------------------
\* Operators named Bad... are faulty variants of the definition that follows them;
\* PROJECT.json (mutants) says which property notices each.

\* The number the kernel gives out next, if there is one.
Lowest(fds) == {fd \in Fd \ fds : \A other \in Fd \ fds : fd <= other}

\* The number is kept after close.
BadDisconnect(o) == s' = s /\ open' = open \ {s[o]}

\* Nothing is closed.
BadDisconnectOpen(o) == s' = [s EXCEPT ![o] = -1] /\ open' = open

Disconnect(o) == s' = [s EXCEPT ![o] = -1] /\ open' = open \ {s[o]}

-----------------------------------------------------------------------------
\* connect.  The new descriptor stays open when the attempt fails, and also if the
\* address before it is no address.
Connect(g) ==
    LET left == open \ {s[g]}
    IN  /\ \/ /\ left = Fd
              /\ open' = left
              /\ s' = [s EXCEPT ![g] = -1]
              /\ UNCHANGED failed
           \/ \E fd \in Lowest(left) :
                 /\ open' = left \cup {fd}
                 /\ s' = [s EXCEPT ![g] = IF reachable THEN fd ELSE -1]
                 /\ failed' = IF reachable THEN failed ELSE failed + 1
        /\ gone' = [gone EXCEPT ![g] = FALSE]
        /\ UNCHANGED <<serving, reachable>>

\* LinkAcceptorRl::accept and setHandl, which does not look at the old descriptor.
\* Without a free number accept fails and the server stays where it is.
Accept(v) ==
    /\ ~serving[v]
    /\ \E fd \in Lowest(open) :
          /\ open' = open \cup {fd}
          /\ s' = [s EXCEPT ![v] = fd]
    /\ serving' = [serving EXCEPT ![v] = TRUE]
    /\ gone' = [gone EXCEPT ![v] = FALSE]
    /\ UNCHANGED <<reachable, failed>>

\* read and write close the socket themselves when recv or send fails.
Fail(o) ==
    /\ s[o] # -1 /\ gone[o]
    /\ Disconnect(o)
    /\ UNCHANGED <<serving, gone, reachable, failed>>

\* disconnect at the end of a session, or in the error state of a machine.
CloseGate(g) ==
    /\ s[g] # -1
    /\ Disconnect(g)
    /\ UNCHANGED <<serving, gone, reachable, failed>>

\* A server gives a connection up, whatever is left of it.
ResetServer(v) ==
    /\ serving[v]
    /\ Disconnect(v)
    /\ serving' = [serving EXCEPT ![v] = FALSE]
    /\ UNCHANGED <<gone, reachable, failed>>

-----------------------------------------------------------------------------
\* The network.

PeerLeaves(o) ==
    /\ s[o] # -1 /\ ~gone[o]
    /\ gone' = [gone EXCEPT ![o] = TRUE]
    /\ UNCHANGED <<s, open, serving, reachable, failed>>

Outage ==
    /\ reachable' = ~reachable
    /\ UNCHANGED <<s, open, serving, gone, failed>>

Next ==
    \/ \E g \in Gate : Connect(g) \/ CloseGate(g)
    \/ \E v \in Server : Accept(v) \/ ResetServer(v)
    \/ \E o \in Object : Fail(o) \/ PeerLeaves(o)
    \/ Outage

Safety == Init /\ [][Next]_vars

\* The gates go on polling (EveryGateKeepsPolling of BusGate), the servers serving.
Spec ==
    /\ Safety
    /\ \A g \in Gate : WF_vars(Connect(g))
    /\ \A v \in Server : WF_vars(Accept(v)) /\ WF_vars(ResetServer(v))

-----------------------------------------------------------------------------
\* Properties.

\* No object uses the descriptor of another, or one that is closed and may belong
\* to another soon: whatever order of failures, closes and connects they go through.
OwnDescriptor ==
    /\ \A o \in Object : s[o] # -1 => s[o] \in open \ Listener
    /\ \A o, p \in Object : s[o] = s[p] /\ s[o] # -1 => o = p

\* The descriptors lost for good are those of failed connects and no others.
LostByFailedConnects ==
    Cardinality(open \ (Listener \cup {s[o] : o \in Object})) = failed

\* docs/tz_template.txt, "24x7": the process outlives an outage of the network,
\* whatever its length; every gate then gets connections again.
OutlivesOutages == \A g \in Gate : <>[]reachable => []<>(s[g] # -1)
===============================================================================
