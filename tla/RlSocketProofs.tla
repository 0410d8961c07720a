---------------------------- MODULE RlSocketProofs ----------------------------
(***************************************************************************)
(* For every number of objects and descriptors: no object ever uses the     *)
(* descriptor of another one, and of the open descriptors that belong to    *)
(* nobody there are as many as connects have failed.                        *)
(***************************************************************************)
EXTENDS RlSocket, FiniteSetTheorems, TLAPS

\* The types the argument needs, and that the listening sockets stay open.
SocketTypes ==
    /\ s \in [Object -> Fd \cup {-1}]
    /\ open \subseteq Fd
    /\ Listener \subseteq open

\* The inductive invariant: a descriptor is given out only when it is not open, and
\* what an object holds is open.
IInv == SocketTypes /\ OwnDescriptor

LEMMA ListenersAreDescriptors == Listener \subseteq Fd
<1>1. Cardinality(Server) \in Nat
  BY SocketAssumption, FS_Subset, FS_CardinalityType DEF Object
<1>2. QED
  BY <1>1, SocketAssumption DEF Listener, Fd

LEMMA MinusOneIsNoDescriptor == -1 \notin Fd
BY SocketAssumption DEF Fd

LEMMA LowestIsFree == ASSUME NEW fds, NEW fd \in Lowest(fds) PROVE fd \in Fd \ fds
BY DEF Lowest

LEMMA InitIInv == Init => IInv
BY ListenersAreDescriptors DEF Init, IInv, SocketTypes, OwnDescriptor

\* disconnect takes nothing from anybody but the object itself.
LEMMA DisconnectIInv == ASSUME IInv, NEW o \in Object, Disconnect(o) PROVE IInv'
<1> USE MinusOneIsNoDescriptor
<1>1. /\ s' \in [Object -> Fd \cup {-1}]
      /\ open' = open \ {s[o]}
      /\ s'[o] = -1
      /\ \A p \in Object \ {o} : s'[p] = s[p]
  BY DEF Disconnect, IInv, SocketTypes
<1>2. s[o] \notin Listener
  BY ListenersAreDescriptors DEF IInv, OwnDescriptor
<1>3. SocketTypes'
  BY <1>1, <1>2 DEF IInv, SocketTypes, Listener
<1>4. OwnDescriptor'
  BY <1>1 DEF IInv, OwnDescriptor, Listener
<1>5. QED
  BY <1>3, <1>4 DEF IInv

\* A number that is not open can be given to any object.
LEMMA GrantIInv ==
    ASSUME IInv, NEW o \in Object, NEW left, left = open \/ left = open \ {s[o]},
           NEW fd \in Fd \ left, open' = left \cup {fd}, s' = [s EXCEPT ![o] = fd]
    PROVE  IInv'
<1> USE MinusOneIsNoDescriptor
<1>1. /\ s' \in [Object -> Fd \cup {-1}]
      /\ s'[o] = fd
      /\ \A p \in Object \ {o} : s'[p] = s[p]
  BY DEF IInv, SocketTypes
<1>2. s[o] \notin Listener
  BY ListenersAreDescriptors DEF IInv, OwnDescriptor
<1>3. Listener \subseteq left /\ fd \notin Listener
  BY <1>2 DEF IInv, SocketTypes
<1>4. \A p \in Object \ {o} : s[p] # -1 => s[p] \in left \ Listener
  BY DEF IInv, OwnDescriptor
<1>5. SocketTypes'
  BY <1>1, <1>3 DEF IInv, SocketTypes, Listener
<1>6. OwnDescriptor'
  <2>1. \A p \in Object : s'[p] # -1 => s'[p] \in open' \ Listener
    BY <1>1, <1>3, <1>4
  <2>2. \A p, q \in Object : s'[p] = s'[q] /\ s'[p] # -1 => p = q
    BY <1>1, <1>4 DEF IInv, OwnDescriptor
  <2>3. QED
    BY <2>1, <2>2 DEF OwnDescriptor, Listener
<1>7. QED
  BY <1>5, <1>6 DEF IInv

\* A failed connect leaves a descriptor open that nobody holds.
LEMMA LoseIInv ==
    ASSUME IInv, NEW g \in Gate, NEW fds \in SUBSET Fd,
           open' = (open \ {s[g]}) \cup fds, s' = [s EXCEPT ![g] = -1]
    PROVE  IInv'
<1> USE MinusOneIsNoDescriptor
<1>1. /\ s' \in [Object -> Fd \cup {-1}]
      /\ s'[g] = -1
      /\ \A p \in Object \ {g} : s'[p] = s[p]
  BY DEF IInv, SocketTypes, Object
<1>2. s[g] \notin Listener
  BY ListenersAreDescriptors DEF IInv, OwnDescriptor, Object
<1>3. SocketTypes'
  BY <1>1, <1>2 DEF IInv, SocketTypes, Listener
<1>4. OwnDescriptor'
  BY <1>1 DEF IInv, OwnDescriptor, Listener, Object
<1>5. QED
  BY <1>3, <1>4 DEF IInv

LEMMA NextIInv == IInv /\ [Next]_vars => IInv'
<1> SUFFICES ASSUME IInv, [Next]_vars PROVE IInv'
  OBVIOUS
<1> USE DEF Object
<1>1. ASSUME NEW g \in Gate, Connect(g) PROVE IInv'
  <2>1. CASE open \ {s[g]} = Fd /\ open' = open \ {s[g]} /\ s' = [s EXCEPT ![g] = -1]
    BY <2>1, LoseIInv
  <2>2. ASSUME NEW fd \in Lowest(open \ {s[g]}), open' = (open \ {s[g]}) \cup {fd},
               s' = [s EXCEPT ![g] = IF reachable THEN fd ELSE -1]
        PROVE  IInv'
    <3>1. fd \in Fd \ (open \ {s[g]})
      BY <2>2, LowestIsFree
    <3>2. CASE reachable
      BY <2>2, <3>1, <3>2, GrantIInv
    <3>3. CASE ~reachable
      <4>1. {fd} \in SUBSET Fd /\ s' = [s EXCEPT ![g] = -1]
        BY <2>2, <3>1, <3>3
      <4>2. QED
        BY <2>2, <4>1, LoseIInv
    <3>4. QED
      BY <3>2, <3>3
  <2>3. QED
    BY <1>1, <2>1, <2>2 DEF Connect
<1>2. ASSUME NEW v \in Server, Accept(v) PROVE IInv'
  <2>1. PICK fd \in Lowest(open) : open' = open \cup {fd} /\ s' = [s EXCEPT ![v] = fd]
    BY <1>2 DEF Accept
  <2>2. fd \in Fd \ open
    BY LowestIsFree
  <2>3. QED
    BY <2>1, <2>2, GrantIInv
<1>3. ASSUME NEW o \in Object, Fail(o) PROVE IInv'
  BY <1>3, DisconnectIInv DEF Fail
<1>4. ASSUME NEW g \in Gate, CloseGate(g) PROVE IInv'
  BY <1>4, DisconnectIInv DEF CloseGate
<1>5. ASSUME NEW v \in Server, ResetServer(v) PROVE IInv'
  BY <1>5, DisconnectIInv DEF ResetServer
<1>6. ASSUME UNCHANGED <<s, open>> PROVE IInv'
  BY <1>6 DEF IInv, SocketTypes, OwnDescriptor, Listener
<1>7. ASSUME NEW o \in Object, PeerLeaves(o) PROVE IInv'
  BY <1>6, <1>7 DEF PeerLeaves
<1>8. CASE Outage \/ UNCHANGED vars
  BY <1>6, <1>8 DEF Outage, vars
<1>9. QED
  BY <1>1, <1>2, <1>3, <1>4, <1>5, <1>7, <1>8 DEF Next

\* OwnDescriptor for every process, however many sockets and descriptors it has: a
\* number closed by one object and given to another is never used by the first.
THEOREM DescriptorsAreNotShared == Safety => []OwnDescriptor
<1>1. IInv => OwnDescriptor
  BY DEF IInv
<1>2. QED
  BY InitIInv, NextIInv, <1>1, PTL DEF Safety

-----------------------------------------------------------------------------
\* The descriptors that are open and belong to nobody.

Lost == open \ (Listener \cup {s[o] : o \in Object})

\* setHandl overwrites nothing: a server that serves nobody holds no descriptor.
IdleServersHoldNone ==
    /\ serving \in [Server -> BOOLEAN]
    /\ \A v \in Server : ~serving[v] => s[v] = -1

LostIInv == IInv /\ IdleServersHoldNone /\ failed \in Nat /\ LostByFailedConnects

\* There are finitely many of them, so one more is counted as one more.
LEMMA LostIsFinite == ASSUME IInv PROVE IsFiniteSet(Lost)
<1>1. IsFiniteSet(Fd)
  BY SocketAssumption, FS_Interval DEF Fd
<1>2. Lost \subseteq Fd
  BY DEF IInv, SocketTypes, Lost
<1>3. QED
  BY <1>1, <1>2, FS_Subset

LEMMA InitLost == Init => LostIInv
<1> SUFFICES ASSUME Init PROVE LostIInv
  OBVIOUS
<1>1. Lost = {} /\ failed = 0
  BY DEF Init, Lost
<1>2. Cardinality(Lost) = 0
  BY <1>1, FS_EmptySet
<1>3. QED
  BY InitIInv, <1>1, <1>2 DEF Init, IdleServersHoldNone, LostIInv, LostByFailedConnects, Lost, Object

\* A disconnect loses nothing: what is closed was nobody else's.
LEMMA DisconnectLosesNothing ==
    ASSUME IInv, NEW o \in Object, s' = [s EXCEPT ![o] = -1], open' = open \ {s[o]}
    PROVE  Lost' = Lost
<1> USE MinusOneIsNoDescriptor
<1>1. s'[o] = -1 /\ \A p \in Object \ {o} : s'[p] = s[p]
  BY DEF IInv, SocketTypes
<1>2. Listener' = Listener
  BY DEF Listener
<1>3. ASSUME NEW fd \in Fd
      PROVE  fd \in Lost' <=> fd \in Lost
  <2>1. fd \in Lost' <=> fd \in open /\ fd # s[o] /\ fd \notin Listener
                         /\ \A p \in Object : fd # s'[p]
    BY <1>2 DEF Lost
  <2>2. (\A p \in Object : fd # s'[p]) <=> \A p \in Object \ {o} : fd # s[p]
    BY <1>1, <1>3
  <2>3. fd \in Lost <=> fd \in open /\ fd \notin Listener /\ \A p \in Object : fd # s[p]
    BY DEF Lost
  <2>4. QED
    BY <2>1, <2>2, <2>3
<1>4. Lost \subseteq Fd /\ Lost' \subseteq Fd
  BY DEF IInv, SocketTypes, Lost
<1>5. QED
  BY <1>3, <1>4

\* Nor does a connect that succeeds: what is opened is held.
LEMMA GrantLosesNothing ==
    ASSUME IInv, NEW o \in Object, NEW left, left = open \ {s[o]} \/ (left = open /\ s[o] = -1),
           NEW fd \in Fd \ left, open' = left \cup {fd}, s' = [s EXCEPT ![o] = fd]
    PROVE  Lost' = Lost
<1> USE MinusOneIsNoDescriptor
<1>1. s'[o] = fd /\ \A p \in Object \ {o} : s'[p] = s[p]
  BY DEF IInv, SocketTypes
<1>2. Listener' = Listener
  BY DEF Listener
<1>3. Lost \subseteq Fd /\ Lost' \subseteq Fd /\ left = open \ {s[o]}
  BY DEF IInv, SocketTypes, Lost
<1>4. ASSUME NEW other \in Fd
      PROVE  other \in Lost' <=> other \in Lost
  <2>1. other \in Lost' <=> /\ other \in left \cup {fd} /\ other \notin Listener
                            /\ \A p \in Object : other # s'[p]
    BY <1>2 DEF Lost
  <2>2. (\A p \in Object : other # s'[p]) <=> other # fd /\ \A p \in Object \ {o} : other # s[p]
    BY <1>1
  <2>3. other \in Lost <=> other \in open /\ other \notin Listener /\ \A p \in Object : other # s[p]
    BY DEF Lost
  <2>4. fd \in Lost => FALSE
    BY <1>3 DEF Lost
  <2>5. QED
    BY <1>3, <2>1, <2>2, <2>3, <2>4
<1>5. QED
  BY <1>3, <1>4

\* A connect that fails loses one descriptor.
LEMMA FailureLosesOne ==
    ASSUME IInv, NEW g \in Gate, NEW fd \in Fd \ (open \ {s[g]}),
           open' = (open \ {s[g]}) \cup {fd}, s' = [s EXCEPT ![g] = -1]
    PROVE  fd \notin Lost /\ Lost' = Lost \cup {fd}
<1> USE MinusOneIsNoDescriptor DEF Object
<1>1. s'[g] = -1 /\ \A p \in Object \ {g} : s'[p] = s[p]
  BY DEF IInv, SocketTypes
<1>2. Listener' = Listener
  BY DEF Listener
<1>3. fd \notin Lost
  BY DEF Lost
<1>4. fd \notin Listener /\ \A p \in Object \ {g} : fd # s[p]
  BY DEF IInv, SocketTypes, OwnDescriptor
<1>5. Lost \subseteq Fd /\ Lost' \subseteq Fd
  BY DEF IInv, SocketTypes, Lost
<1>6. ASSUME NEW other \in Fd
      PROVE  other \in Lost' <=> other \in Lost \/ other = fd
  <2>1. other \in Lost' <=> /\ (other \in open /\ other # s[g]) \/ other = fd
                            /\ other \notin Listener
                            /\ \A p \in Object : other # s'[p]
    BY <1>2 DEF Lost
  <2>2. (\A p \in Object : other # s'[p]) <=> \A p \in Object \ {g} : other # s[p]
    BY <1>1
  <2>3. other \in Lost <=> other \in open /\ other \notin Listener /\ \A p \in Object : other # s[p]
    BY DEF Lost
  <2>4. QED
    BY <1>4, <2>1, <2>2, <2>3
<1>7. QED
  BY <1>3, <1>5, <1>6

LEMMA NextIdle == IInv /\ IdleServersHoldNone /\ [Next]_vars => IdleServersHoldNone'
<1> SUFFICES ASSUME IInv, IdleServersHoldNone, [Next]_vars PROVE IdleServersHoldNone'
  OBVIOUS
<1> USE SocketAssumption DEF Object
<1>1. s \in [Object -> Fd \cup {-1}]
  BY DEF IInv, SocketTypes
<1>2. ASSUME NEW g \in Gate, NEW x, s' = [s EXCEPT ![g] = x], UNCHANGED serving
      PROVE  IdleServersHoldNone'
  BY <1>1, <1>2 DEF IdleServersHoldNone
<1>3. ASSUME NEW g \in Gate, Connect(g) PROVE IdleServersHoldNone'
  BY <1>2, <1>3 DEF Connect
<1>4. ASSUME NEW v \in Server, Accept(v) PROVE IdleServersHoldNone'
  BY <1>1, <1>4 DEF Accept, IdleServersHoldNone
<1>5. ASSUME NEW o \in Object, Disconnect(o), UNCHANGED serving PROVE IdleServersHoldNone'
  BY <1>1, <1>5 DEF Disconnect, IdleServersHoldNone
<1>6. ASSUME NEW v \in Server, ResetServer(v) PROVE IdleServersHoldNone'
  BY <1>1, <1>6 DEF ResetServer, Disconnect, IdleServersHoldNone
<1>7. CASE UNCHANGED <<s, serving>>
  BY <1>7 DEF IdleServersHoldNone
<1>8. QED
  BY <1>3, <1>4, <1>5, <1>6, <1>7 DEF Next, Fail, CloseGate, PeerLeaves, Outage, vars

LEMMA NextLost == LostIInv /\ [Next]_vars => LostIInv'
<1> SUFFICES ASSUME LostIInv, [Next]_vars PROVE LostIInv'
  OBVIOUS
<1>1. /\ IInv /\ IInv' /\ IdleServersHoldNone /\ IdleServersHoldNone'
      /\ failed \in Nat /\ Cardinality(Lost) = failed
  BY NextIInv, NextIdle DEF LostIInv, LostByFailedConnects, Lost
<1>2. ASSUME Lost' = Lost, failed' = failed PROVE LostIInv'
  <2>1. Cardinality(Lost') = failed'
    BY <1>1, <1>2
  <2>2. QED
    BY <1>1, <1>2, <2>1 DEF LostIInv, LostByFailedConnects, Lost
<1>3. ASSUME NEW g \in Gate, Connect(g) PROVE LostIInv'
  <2> USE DEF Object
  <2>1. CASE open' = open \ {s[g]} /\ s' = [s EXCEPT ![g] = -1] /\ failed' = failed
    BY <1>1, <1>2, <2>1, DisconnectLosesNothing
  <2>2. ASSUME NEW fd \in Fd \ (open \ {s[g]}), open' = (open \ {s[g]}) \cup {fd},
               s' = [s EXCEPT ![g] = fd], failed' = failed
        PROVE  LostIInv'
    BY <1>1, <1>2, <2>2, GrantLosesNothing
  <2>3. ASSUME NEW fd \in Fd \ (open \ {s[g]}), open' = (open \ {s[g]}) \cup {fd},
               s' = [s EXCEPT ![g] = -1], failed' = failed + 1
        PROVE  LostIInv'
    <3>1. fd \notin Lost /\ Lost' = Lost \cup {fd}
      BY <1>1, <2>3, FailureLosesOne
    <3>2. Cardinality(Lost') = Cardinality(Lost) + 1
      BY <1>1, <3>1, LostIsFinite, FS_AddElement
    <3>3. Cardinality(Lost') = failed' /\ failed' \in Nat
      BY <1>1, <2>3, <3>2
    <3>4. QED
      BY <1>1, <3>3 DEF LostIInv, LostByFailedConnects, Lost
  <2>4. QED
    BY <1>3, <2>1, <2>2, <2>3, LowestIsFree DEF Connect
<1>4. ASSUME NEW v \in Server, Accept(v) PROVE LostIInv'
  <2>1. PICK fd \in Lowest(open) : open' = open \cup {fd} /\ s' = [s EXCEPT ![v] = fd]
    BY <1>4 DEF Accept
  <2>2. fd \in Fd \ open /\ v \in Object /\ s[v] = -1 /\ failed' = failed
    BY <1>1, <1>4, LowestIsFree DEF Accept, IdleServersHoldNone, Object
  <2>3. QED
    BY <1>1, <1>2, <2>1, <2>2, GrantLosesNothing
<1>5. ASSUME NEW o \in Object, Disconnect(o), UNCHANGED failed PROVE LostIInv'
  BY <1>1, <1>2, <1>5, DisconnectLosesNothing DEF Disconnect
<1>6. ASSUME UNCHANGED <<s, open, failed>> PROVE LostIInv'
  <2>1. Lost' = Lost
    BY <1>6 DEF Lost, Listener
  <2>2. QED
    BY <1>2, <1>6, <2>1
<1>7. QED
  BY <1>3, <1>4, <1>5, <1>6 DEF Next, Fail, CloseGate, ResetServer, PeerLeaves, Outage, vars, Object

\* LostByFailedConnects for every process and outage: however connects, failures and
\* accepts follow each other, nothing but a failed connect leaves a descriptor open
\* that belongs to nobody, and each of those leaves exactly one.
THEOREM FailedConnectsLose == Safety => []LostByFailedConnects
<1>1. LostIInv => LostByFailedConnects
  BY DEF LostIInv
<1>2. QED
  BY InitLost, NextLost, <1>1, PTL DEF Safety

===============================================================================
