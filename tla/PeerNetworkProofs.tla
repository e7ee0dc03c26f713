-------------------------- MODULE PeerNetworkProofs --------------------------
(***************************************************************************)
(* The safety invariants of PeerNetwork for every set of nodes, callers,   *)
(* connections and ports.  They are not inductive by themselves: that the  *)
(* entries of byKey are ends of this node, with this key, whose            *)
(* OnConnection has run (Registered), and that an end that is being        *)
(* handled belongs to a connection (Linked), has to be carried along.      *)
(***************************************************************************)
EXTENDS PeerNetwork, TLAPS

\* The stages of an end after its OnConnection.
Handled == {"served", "kind", "ended"}

\* An end that a goroutine has handled belongs to an established connection.
Linked == \A e \in End : stage[e] # "none" => link[e[1]] # NoLink

\* A request runs on an established connection.
RequestsLinked == \A t \in Caller : pc[t] \in Requesting => link[via[t][1]] # NoLink

\* An entry of byKey is a handled end of this node whose peer has that key.
Registered ==
    \A n \in Node, m \in Node :
        byKey[n][m] # None =>
            /\ stage[byKey[n][m]] \in Handled
            /\ Owner(link, byKey[n][m]) = n
            /\ PeerKey(link, byKey[n][m]) = m

\* An address leads to an end of this node.
AddressesOwned ==
    \A n \in Node, a \in Address :
        byAddress[n][a] # None => Owner(link, byAddress[n][a]) = n

IInv ==
    /\ TypeOK /\ Linked /\ RequestsLinked /\ Registered /\ AddressesOwned
    /\ OpenIsRegistered /\ AddressesAreCurrent /\ RequestsOnCurrentPeer

\* An end of an established connection has an owner, a peer and an address.
LEMMA EndData ==
    ASSUME TypeOK, NEW e \in End, link[e[1]] # NoLink
    PROVE  /\ Owner(link, e) \in Node /\ PeerKey(link, e) \in Node
           /\ RemoteAddr(link, e) \in Address
  BY DEF TypeOK, End, Sides, Owner, PeerKey, RemoteAddr, Address

\* Only an established connection has ends with an owner.
LEMMA OwnedIsLinked ==
    ASSUME NEW l, NEW e, Owner(l, e) \in Node
    PROVE  l[e[1]] # NoLink
  BY PeerAssumption DEF Owner, NoLink

\* A connection that is not established is established by one Dial and keeps its
\* data: the ends of all others have the same owner, peer and address after it.
LEMMA DialKeeps ==
    ASSUME TypeOK, NEW c \in Conn, NEW r, link' = [link EXCEPT ![c] = r],
           NEW e \in End, e[1] # c
    PROVE  /\ Owner(link', e) = Owner(link, e)
           /\ PeerKey(link', e) = PeerKey(link, e)
           /\ RemoteAddr(link', e) = RemoteAddr(link, e)
           /\ link'[e[1]] = link[e[1]]
  BY DEF TypeOK, End, Owner, PeerKey, RemoteAddr

\* What an entry of byKey is.
LEMMA RegisteredEnd ==
    ASSUME TypeOK, Linked, Registered, NEW n \in Node, NEW m \in Node,
           byKey[n][m] # None
    PROVE  /\ byKey[n][m] \in End
           /\ link[byKey[n][m][1]] # NoLink
           /\ stage[byKey[n][m]] \in Handled
           /\ Owner(link, byKey[n][m]) = n
           /\ PeerKey(link, byKey[n][m]) = m
  <1>1. byKey[n][m] \in End
    BY DEF TypeOK
  <1>2. /\ stage[byKey[n][m]] \in Handled
        /\ Owner(link, byKey[n][m]) = n
        /\ PeerKey(link, byKey[n][m]) = m
    BY DEF Registered
  <1>3. link[byKey[n][m][1]] # NoLink
    BY <1>1, <1>2 DEF Linked, Handled
  <1> QED BY <1>1, <1>2, <1>3

\* The value for "no connection" is not an end of a connection.
LEMMA NoneIsNoEnd == None \notin End
  BY DEF None, End

\* The initial state satisfies the inductive invariant.
LEMMA InitIInv == Init => IInv
  <1> SUFFICES ASSUME Init PROVE IInv
    OBVIOUS
  <1>1. TypeOK
    BY PeerAssumption DEF Init, TypeOK, Requesting, Address, NoLink, None
  <1>2. Linked /\ RequestsLinked /\ Registered /\ AddressesOwned
    BY DEF Init, Requesting, Linked, RequestsLinked, Registered, AddressesOwned
  <1>3. OpenIsRegistered /\ AddressesAreCurrent /\ RequestsOnCurrentPeer
    BY DEF Init, Requesting, OpenIsRegistered, AddressesAreCurrent, RequestsOnCurrentPeer
  <1> QED BY <1>1, <1>2, <1>3 DEF IInv

\* Every step preserves the types.
LEMMA TypeStep == TypeOK /\ Linked /\ Registered /\ [Next]_vars => TypeOK'
  <1> SUFFICES ASSUME TypeOK, Linked, Registered, [Next]_vars PROVE TypeOK'
    OBVIOUS
  <1> USE PeerAssumption
  <1>1. ASSUME NEW n \in Node, NodeStep(n) PROVE TypeOK'
    <2>1. CASE Start(n) BY <2>1 DEF Start, TypeOK
    <2>2. CASE Stop(n) BY <2>2 DEF Stop, TypeOK, Close
    <2>3. CASE StopReturns(n) BY <2>3 DEF StopReturns, TypeOK
    <2>4. CASE LoopReturns(n) BY <2>4 DEF LoopReturns, TypeOK
    <2> QED BY <1>1, <2>1, <2>2, <2>3, <2>4 DEF NodeStep
  <1>2. ASSUME NEW e \in End, EndStep(e) PROVE TypeOK'
    <2>1. CASE Accept(e) BY <2>1 DEF Accept, TypeOK
    <2>2. CASE OnConnection(e)
      <3> DEFINE n == Owner(link, e)
                 m == PeerKey(link, e)
      <3>1. link[e[1]] # NoLink
        BY <2>2 DEF OnConnection, Linked
      <3>2. n \in Node /\ m \in Node /\ RemoteAddr(link, e) \in Address
        BY <3>1, EndData
      <3>3. byKey[n][m] # None => /\ byKey[n][m] \in End
                                  /\ link[byKey[n][m][1]] # NoLink
        BY <3>2, RegisteredEnd
      <3>4. byKey' \in [Node -> [Node -> End \cup {None}]]
        <4> DEFINE old == byKey[n][m]
                   kept == IF old = None THEN byKey[n]
                           ELSE [byKey[n] EXCEPT ![PeerKey(link, old)] = None]
        <4>1. byKey[n] \in [Node -> End \cup {None}]
          BY <3>2 DEF TypeOK
        <4>2. kept \in [Node -> End \cup {None}]
          BY <4>1
        <4>3. byKey' = [byKey EXCEPT ![n] = [kept EXCEPT ![m] = e]]
          BY <2>2 DEF OnConnection, AddPeer, RemovePeer
        <4> QED BY <3>2, <4>2, <4>3 DEF TypeOK
      <3>5. byAddress' \in [Node -> [Address -> End \cup {None}]]
        <4>1. byAddress[n] \in [Address -> End \cup {None}]
          BY <3>2 DEF TypeOK
        <4> QED BY <2>2, <3>2, <3>3, <4>1, EndData DEF OnConnection, TypeOK, AddPeer, RemovePeer
      <3>6. quic' \in [End -> {"none", "open", "remote", "idle", "closed", "dropped"}]
        BY <2>2, <3>3 DEF OnConnection, TypeOK, Close
      <3>7. /\ pc' \in [Caller -> {"idle", "dial", "handle"} \cup Requesting]
            /\ dest' \in [Caller -> Node]
            /\ via' \in [Caller -> End \cup {None}]
            /\ \A t \in Caller : pc'[t] \in {"handle"} \cup Requesting => via'[t] \in End
        BY <2>2, ZenonT(60) DEF OnConnection, TypeOK, Requesting
      <3> QED BY <2>2, <3>4, <3>5, <3>6, <3>7, ZenonT(60) DEF OnConnection, TypeOK
    <2>3. CASE HandleStreams(e) BY <2>3 DEF HandleStreams, TypeOK, Close
    <2>4. CASE RemoteClosed(e) BY <2>4 DEF RemoteClosed, TypeOK
    <2>5. CASE IdleTimeout(e) BY <2>5 DEF IdleTimeout, TypeOK
    <2>6. CASE KindArrives(e)
      <3>1. /\ pc' \in [Caller -> {"idle", "dial", "handle"} \cup Requesting]
            /\ \A t \in Caller : pc'[t] \in {"handle"} \cup Requesting => via[t] \in End
        BY <2>6 DEF KindArrives, TypeOK, Requesting
      <3> QED BY <2>6, <3>1 DEF KindArrives, TypeOK
    <2>7. CASE KindFails(e) BY <2>7 DEF KindFails, TypeOK
    <2> QED BY <1>2, <2>1, <2>2, <2>3, <2>4, <2>5, <2>6, <2>7 DEF EndStep
  <1>3. ASSUME NEW t \in Caller, CallerStep(t) PROVE TypeOK'
    <2>1. ASSUME NEW m \in Node, CheckPeer(t, m) PROVE TypeOK'
      BY <2>1 DEF CheckPeer, TypeOK, Requesting
    <2>2. ASSUME NEW m \in Node, RequestBlocks(t, m) PROVE TypeOK'
      <3>1. byKey[Home[t]][m] \in End
        BY <2>2 DEF RequestBlocks, TypeOK
      <3> QED BY <2>2, <3>1 DEF RequestBlocks, TypeOK, Requesting
    <2>3. ASSUME NEW c \in Conn, NEW p \in Port, Dial(t, c, p) PROVE TypeOK'
      <3>1. <<c, "dial">> \in End /\ <<c, "accept">> \in End
        BY DEF End, Sides
      <3>2. /\ quic' \in [End -> {"none", "open", "remote", "idle", "closed", "dropped"}]
            /\ stage' \in [End -> {"none", "accept", "lock", "served", "kind", "ended"}]
        BY <2>3, <3>1 DEF Dial, TypeOK
      <3>3. link' \in [Conn -> {NoLink} \cup [from : Node, to : Node, port : Port]]
        <4>1. [from |-> Home[t], to |-> dest[t], port |-> p]
                \in [from : Node, to : Node, port : Port]
          BY DEF TypeOK
        <4> QED BY <2>3, <4>1 DEF Dial, TypeOK
      <3>4. /\ pc' \in [Caller -> {"idle", "dial", "handle"} \cup Requesting]
            /\ via' \in [Caller -> End \cup {None}]
            /\ \A u \in Caller : pc'[u] \in {"handle"} \cup Requesting => via'[u] \in End
        BY <2>3, <3>1, ZenonT(60) DEF Dial, TypeOK
      <3> QED BY <2>3, <3>2, <3>3, <3>4 DEF Dial, TypeOK
    <2>4. CASE DialFails(t) BY <2>4 DEF DialFails, Leave, TypeOK, Requesting
    <2>5. CASE RequestAnswered(t) BY <2>5 DEF RequestAnswered, Leave, TypeOK, Requesting
    <2>6. CASE RequestFails(t) BY <2>6 DEF RequestFails, Leave, TypeOK, Requesting
    <2>7. CASE RequestCancelled(t) BY <2>7 DEF RequestCancelled, Leave, TypeOK, Requesting
    <2>8. CASE AcceptStream(t) BY <2>8 DEF AcceptStream, TypeOK, Requesting
    <2> QED BY <1>3, <2>1, <2>2, <2>3, <2>4, <2>5, <2>6, <2>7, <2>8 DEF CallerStep
  <1>4. CASE UNCHANGED vars BY <1>4 DEF vars, TypeOK
  <1> QED BY <1>1, <1>2, <1>3, <1>4 DEF Next

\* What OnConnection does to the peer set of its node, entry by entry.
LEMMA OnConnectionEntries ==
    ASSUME TypeOK, Linked, Registered, AddressesOwned, AddressesAreCurrent,
           NEW e \in End, OnConnection(e)
    PROVE  LET n == Owner(link, e)
               m == PeerKey(link, e)
               old == byKey[n][m]
           IN  /\ n \in Node /\ m \in Node /\ RemoteAddr(link, e) \in Address
               /\ \A i \in Node, j \in Node :
                    byKey'[i][j] = IF i = n /\ j = m THEN e ELSE byKey[i][j]
               /\ \A i \in Node, a \in Address :
                    byAddress'[i][a] =
                        IF i # n THEN byAddress[i][a]
                        ELSE IF a = RemoteAddr(link, e) THEN e
                        ELSE IF old # None /\ a = RemoteAddr(link, old) THEN None
                        ELSE byAddress[i][a]
               /\ \A x \in End : quic'[x] = IF x = old THEN Close(quic[x]) ELSE quic[x]
  <1> DEFINE n == Owner(link, e)
             m == PeerKey(link, e)
             old == byKey[n][m]
             keys == IF old = None THEN byKey[n]
                     ELSE [byKey[n] EXCEPT ![PeerKey(link, old)] = None]
             addrs == IF old = None THEN byAddress[n]
                      ELSE [byAddress[n] EXCEPT ![RemoteAddr(link, old)] = None]
  <1>1. link[e[1]] # NoLink
    BY DEF OnConnection, Linked
  <1>2. n \in Node /\ m \in Node /\ RemoteAddr(link, e) \in Address
    BY <1>1, EndData
  <1>3. old # None => old \in End /\ PeerKey(link, old) = m /\ link[old[1]] # NoLink
    BY <1>2, RegisteredEnd
  <1>4. byKey' = [byKey EXCEPT ![n] = [keys EXCEPT ![m] = e]]
    BY DEF OnConnection, AddPeer, RemovePeer
  <1>5. byAddress' = [byAddress EXCEPT ![n] = [addrs EXCEPT ![RemoteAddr(link, e)] = e]]
    BY DEF OnConnection, AddPeer, RemovePeer
  <1>6. byKey[n] \in [Node -> End \cup {None}] /\ byAddress[n] \in [Address -> End \cup {None}]
    BY <1>2 DEF TypeOK
  <1>7. \A i \in Node, j \in Node :
            byKey'[i][j] = IF i = n /\ j = m THEN e ELSE byKey[i][j]
    <2> SUFFICES ASSUME NEW i \in Node, NEW j \in Node
                 PROVE  byKey'[i][j] = IF i = n /\ j = m THEN e ELSE byKey[i][j]
      OBVIOUS
    <2>1. CASE i # n BY <2>1, <1>2, <1>4 DEF TypeOK
    <2>2. CASE i = n
      <3>1. byKey'[i] = [keys EXCEPT ![m] = e]
        BY <2>2, <1>2, <1>4 DEF TypeOK
      <3>2. keys \in [Node -> End \cup {None}] /\ (j # m => keys[j] = byKey[n][j])
        BY <1>2, <1>3, <1>6
      <3> HIDE DEF keys
      <3> QED BY <2>2, <3>1, <3>2, <1>2
    <2> QED BY <2>1, <2>2
  <1>8. \A i \in Node, a \in Address :
            byAddress'[i][a] =
                IF i # n THEN byAddress[i][a]
                ELSE IF a = RemoteAddr(link, e) THEN e
                ELSE IF old # None /\ a = RemoteAddr(link, old) THEN None
                ELSE byAddress[i][a]
    <2> SUFFICES ASSUME NEW i \in Node, NEW a \in Address
                 PROVE  byAddress'[i][a] =
                            IF i # n THEN byAddress[i][a]
                            ELSE IF a = RemoteAddr(link, e) THEN e
                            ELSE IF old # None /\ a = RemoteAddr(link, old) THEN None
                            ELSE byAddress[i][a]
      OBVIOUS
    <2>1. CASE i # n BY <2>1, <1>2, <1>5 DEF TypeOK
    <2>2. CASE i = n
      <3>1. byAddress'[i] = [addrs EXCEPT ![RemoteAddr(link, e)] = e]
        BY <2>2, <1>2, <1>5 DEF TypeOK
      <3>2. /\ DOMAIN addrs = Address
            /\ addrs[a] = IF old # None /\ a = RemoteAddr(link, old) THEN None
                          ELSE byAddress[n][a]
        BY <1>6
      <3>3. [addrs EXCEPT ![RemoteAddr(link, e)] = e][a]
                = IF a = RemoteAddr(link, e) THEN e ELSE addrs[a]
        <4> HIDE DEF addrs
        <4> QED BY <3>2
      <3> HIDE DEF addrs
      <3> QED BY <2>2, <3>1, <3>2, <3>3
    <2> QED BY <2>1, <2>2
  <1>9. \A x \in End : quic'[x] = IF x = old THEN Close(quic[x]) ELSE quic[x]
    <2>1. CASE old = None
      BY <2>1, NoneIsNoEnd DEF OnConnection
    <2>2. CASE old # None
      <3>1. quic' = [quic EXCEPT ![old] = Close(quic[old])]
        BY <2>2, ZenonT(60) DEF OnConnection
      <3> QED BY <2>2, <3>1, <1>3 DEF TypeOK
    <2> QED BY <2>1, <2>2
  <1> QED BY <1>2, <1>7, <1>8, <1>9

Rest ==
    /\ Linked /\ RequestsLinked /\ Registered /\ AddressesOwned
    /\ OpenIsRegistered /\ AddressesAreCurrent /\ RequestsOnCurrentPeer

\* A step that leaves the peer sets alone, registers and opens nothing, and starts
\* requests only on registered ends keeps the invariants.
LEMMA QuietStep ==
    ASSUME IInv, UNCHANGED <<link, byKey, byAddress>>,
           \A e \in End :
            /\ stage'[e] # "none" => stage[e] # "none"
            /\ stage[e] \in Handled => stage'[e] \in Handled
            /\ stage'[e] \in {"served", "kind"} /\ quic'[e] = "open"
                => stage[e] \in {"served", "kind"} /\ quic[e] = "open",
           \A t \in Caller :
            pc'[t] \in Requesting
                => /\ byKey[Home[t]][PeerKey(link, via'[t])] = via'[t]
                   /\ link[via'[t][1]] # NoLink
    PROVE  Rest'
  <1>1. Linked' BY DEF IInv, Linked
  <1>2. Registered'
    <2> SUFFICES ASSUME NEW n \in Node, NEW m \in Node, byKey[n][m] # None
                 PROVE  /\ stage'[byKey[n][m]] \in Handled
                        /\ Owner(link, byKey[n][m]) = n
                        /\ PeerKey(link, byKey[n][m]) = m
      BY DEF Registered
    <2> QED BY RegisteredEnd DEF IInv
  <1>3. AddressesOwned' BY DEF IInv, AddressesOwned
  <1>4. OpenIsRegistered' BY DEF IInv, OpenIsRegistered
  <1>5. AddressesAreCurrent' BY DEF IInv, AddressesAreCurrent
  <1>6. RequestsOnCurrentPeer' /\ RequestsLinked'
    BY DEF RequestsOnCurrentPeer, RequestsLinked
  <1> QED BY <1>1, <1>2, <1>3, <1>4, <1>5, <1>6 DEF Rest

\* Steps of a node's transport.
LEMMA NodeRest == ASSUME IInv, NEW n \in Node, NodeStep(n) PROVE Rest'
  <1>1. UNCHANGED <<link, byKey, byAddress, pc, via>>
    BY DEF NodeStep, Start, Stop, StopReturns, LoopReturns
  <1>2. \A e \in End :
            /\ stage'[e] # "none" => stage[e] # "none"
            /\ stage[e] \in Handled => stage'[e] \in Handled
            /\ stage'[e] \in {"served", "kind"} /\ quic'[e] = "open"
                => stage[e] \in {"served", "kind"} /\ quic[e] = "open"
    BY DEF NodeStep, Start, Stop, StopReturns, LoopReturns, Handled
  <1>3. \A t \in Caller :
            pc'[t] \in Requesting
                => /\ byKey[Home[t]][PeerKey(link, via'[t])] = via'[t]
                   /\ link[via'[t][1]] # NoLink
    BY <1>1 DEF IInv, RequestsOnCurrentPeer, RequestsLinked
  <1> QED BY <1>1, <1>2, <1>3, QuietStep

\* Steps of an end other than its registration.
LEMMA EndRest ==
    ASSUME IInv, NEW e \in End,
           \/ Accept(e) \/ KindArrives(e) \/ KindFails(e) \/ HandleStreams(e)
           \/ RemoteClosed(e) \/ IdleTimeout(e)
    PROVE  Rest'
  <1>1. UNCHANGED <<link, byKey, byAddress, via>>
    BY DEF Accept, KindArrives, KindFails, HandleStreams, RemoteClosed, IdleTimeout
  <1>2. \A x \in End :
            /\ stage'[x] # "none" => stage[x] # "none"
            /\ stage[x] \in Handled => stage'[x] \in Handled
            /\ stage'[x] \in {"served", "kind"} /\ quic'[x] = "open"
                => stage[x] \in {"served", "kind"} /\ quic[x] = "open"
    BY DEF Accept, KindArrives, KindFails, HandleStreams, RemoteClosed, IdleTimeout, Close,
           Handled, IInv, TypeOK
  <1>3. \A t \in Caller : pc'[t] \in Requesting => pc[t] \in Requesting
    <2>1. CASE KindArrives(e) BY <2>1 DEF KindArrives, Requesting, IInv, TypeOK
    <2>2. CASE ~KindArrives(e)
      BY <2>2 DEF Accept, KindFails, HandleStreams, RemoteClosed, IdleTimeout
    <2> QED BY <2>1, <2>2
  <1>4. \A t \in Caller :
            pc'[t] \in Requesting
                => /\ byKey[Home[t]][PeerKey(link, via'[t])] = via'[t]
                   /\ link[via'[t][1]] # NoLink
    BY <1>1, <1>3 DEF IInv, RequestsOnCurrentPeer, RequestsLinked
  <1> QED BY <1>1, <1>2, <1>4, QuietStep

\* A stream is accepted: one end goes on to its kind, and its caller is still
\* requesting.
LEMMA StreamRest == ASSUME IInv, NEW t \in Caller, AcceptStream(t) PROVE Rest'
  <1>1. UNCHANGED <<link, byKey, byAddress, via, quic>>
    BY DEF AcceptStream
  <1>2. \A x \in End :
            stage'[x] = stage[x] \/ (stage[x] = "served" /\ stage'[x] = "kind")
    <2> DEFINE e == OtherEnd(via[t])
    <2>1. stage[e] = "served" /\ stage' = [stage EXCEPT ![e] = "kind"]
      BY DEF AcceptStream
    <2>2. DOMAIN stage = End
      BY DEF IInv, TypeOK
    <2> HIDE DEF e
    <2>3. \A x \in End : stage'[x] = IF x = e THEN "kind" ELSE stage[x]
      BY <2>1, <2>2
    <2> QED BY <2>1, <2>3
  <1>3. \A x \in End :
            /\ stage'[x] # "none" => stage[x] # "none"
            /\ stage[x] \in Handled => stage'[x] \in Handled
            /\ stage'[x] \in {"served", "kind"} /\ quic'[x] = "open"
                => stage[x] \in {"served", "kind"} /\ quic[x] = "open"
    BY <1>1, <1>2 DEF Handled
  <1>4. \A u \in Caller : pc'[u] \in Requesting => pc[u] \in Requesting
    BY DEF AcceptStream, Requesting, IInv, TypeOK
  <1>5. \A u \in Caller :
            pc'[u] \in Requesting
                => /\ byKey[Home[u]][PeerKey(link, via'[u])] = via'[u]
                   /\ link[via'[u][1]] # NoLink
    BY <1>1, <1>4 DEF IInv, RequestsOnCurrentPeer, RequestsLinked
  <1> QED BY <1>1, <1>3, <1>5, QuietStep

\* Steps of a caller other than the dial and an accepted stream.
LEMMA CallerRest ==
    ASSUME IInv, NEW t \in Caller,
           \/ \E m \in Node : CheckPeer(t, m) \/ RequestBlocks(t, m)
           \/ DialFails(t) \/ RequestAnswered(t) \/ RequestFails(t) \/ RequestCancelled(t)
    PROVE  Rest'
  <1>1. UNCHANGED <<link, byKey, byAddress, quic, stage>>
    BY DEF CheckPeer, RequestBlocks, DialFails, RequestAnswered, RequestFails,
           RequestCancelled
  <1> DEFINE Fine(u) == /\ byKey[Home[u]][PeerKey(link, via'[u])] = via'[u]
                        /\ link[via'[u][1]] # NoLink
  <1>2. \A u \in Caller : pc'[u] \in Requesting => Fine(u)
    <2>0. \A u \in Caller : pc[u] \in Requesting /\ via'[u] = via[u] => Fine(u)
      BY DEF IInv, RequestsOnCurrentPeer, RequestsLinked
    <2>1. CASE \E m \in Node : CheckPeer(t, m)
      <3>1. \A u \in Caller : pc'[u] \in Requesting => pc[u] \in Requesting /\ via'[u] = via[u]
        BY <2>1 DEF CheckPeer, Requesting, IInv, TypeOK
      <3> QED BY <2>0, <3>1
    <2>2. CASE \E m \in Node : RequestBlocks(t, m)
      <3>0. PICK m \in Node : RequestBlocks(t, m)
        BY <2>2
      <3>1. Home[t] \in Node /\ byKey[Home[t]][m] # None
        BY <3>0, PeerAssumption DEF RequestBlocks
      <3>2. /\ PeerKey(link, byKey[Home[t]][m]) = m
            /\ link[byKey[Home[t]][m][1]] # NoLink
        BY <3>1, RegisteredEnd DEF IInv
      <3>3. via'[t] = byKey[Home[t]][m]
        BY <3>0 DEF RequestBlocks, IInv, TypeOK
      <3>4. \A u \in Caller : u # t => pc'[u] = pc[u] /\ via'[u] = via[u]
        BY <3>0 DEF RequestBlocks, IInv, TypeOK
      <3>5. Fine(t)
        BY <3>2, <3>3
      <3> QED BY <2>0, <3>4, <3>5
    <2>3. CASE \/ DialFails(t) \/ RequestAnswered(t)
               \/ RequestFails(t) \/ RequestCancelled(t)
      <3>1. Leave(t)
        BY <2>3 DEF DialFails, RequestAnswered, RequestFails, RequestCancelled
      <3>2. \A u \in Caller : pc'[u] \in Requesting => pc[u] \in Requesting /\ via'[u] = via[u]
        BY <3>1 DEF Leave, Requesting, IInv, TypeOK
      <3> QED BY <2>0, <3>2
    <2> QED BY <2>1, <2>2, <2>3
  <1> QED BY <1>1, <1>2, QuietStep

\* A dial: the ends of the new connection were not known to anybody.
LEMMA DialRest ==
    ASSUME IInv, NEW t \in Caller, NEW c \in Conn, NEW p \in Port, Dial(t, c, p)
    PROVE  Rest'
  <1> DEFINE r == [from |-> Home[t], to |-> dest[t], port |-> p]
  <1>1. link' = [link EXCEPT ![c] = r] /\ link[c] = NoLink /\ UNCHANGED <<byKey, byAddress>>
    BY DEF Dial
  <1>2. r # NoLink
    BY PeerAssumption DEF NoLink
  <1>3. \A e \in End : e[1] = c => stage[e] = "none"
    BY <1>1 DEF IInv, Linked
  <1>4. <<c, "dial">> \in End /\ <<c, "accept">> \in End
    BY DEF End, Sides
  <1>5. \A e \in End : e[1] # c => stage'[e] = stage[e] /\ quic'[e] = quic[e]
    BY <1>4 DEF Dial, IInv, TypeOK
  <1>6. \A e \in End : e[1] = c => stage'[e] \in {"lock", "accept"}
    <2> SUFFICES ASSUME NEW e \in End, e[1] = c
                 PROVE  stage'[e] \in {"lock", "accept"}
      OBVIOUS
    <2>1. e = <<c, "dial">> \/ e = <<c, "accept">>
      BY DEF End, Sides
    <2>2. stage' = [stage EXCEPT ![<<c, "dial">>] = "lock", ![<<c, "accept">>] = "accept"]
      BY DEF Dial
    <2> QED BY <2>1, <2>2, <1>4 DEF IInv, TypeOK
  <1>7. \A e \in End : e[1] # c =>
            /\ Owner(link', e) = Owner(link, e)
            /\ PeerKey(link', e) = PeerKey(link, e)
            /\ RemoteAddr(link', e) = RemoteAddr(link, e)
            /\ link'[e[1]] = link[e[1]]
    BY <1>1, DialKeeps DEF IInv
  <1>8. \A n \in Node, m \in Node :
            byKey[n][m] # None => /\ byKey[n][m] \in End /\ byKey[n][m][1] # c
                                  /\ stage[byKey[n][m]] \in Handled
                                  /\ Owner(link, byKey[n][m]) = n
                                  /\ PeerKey(link, byKey[n][m]) = m
    BY <1>3, RegisteredEnd DEF IInv, Handled
  <1>9. \A n \in Node, a \in Address :
            byAddress[n][a] # None => /\ byAddress[n][a] \in End /\ byAddress[n][a][1] # c
                                      /\ PeerKey(link, byAddress[n][a]) \in Node
    <2> SUFFICES ASSUME NEW n \in Node, NEW a \in Address, byAddress[n][a] # None
                 PROVE  /\ byAddress[n][a] \in End /\ byAddress[n][a][1] # c
                        /\ PeerKey(link, byAddress[n][a]) \in Node
      OBVIOUS
    <2> DEFINE x == byAddress[n][a]
    <2>1. x \in End
      BY DEF IInv, TypeOK
    <2>2. byKey[n][PeerKey(link, x)] = x
      BY DEF IInv, AddressesAreCurrent
    <2>3. PeerKey(link, x) = None \/ PeerKey(link, x) \in Node
      BY <2>1 DEF PeerKey, IInv, TypeOK, End, NoLink
    <2>4. link[x[1]] = NoLink => PeerKey(link, x) = None /\ Owner(link, x) = None
      BY <2>1 DEF PeerKey, Owner, NoLink
    <2>5. Owner(link, x) = n
      BY DEF IInv, AddressesOwned
    <2>6. link[x[1]] # NoLink
      BY <2>4, <2>5, PeerAssumption
    <2> QED BY <2>1, <2>6, <1>1, EndData DEF IInv
  <1>10. Linked'
    BY <1>1, <1>2, <1>5, <1>7 DEF IInv, Linked, TypeOK
  <1>11. Registered'
    BY <1>1, <1>5, <1>7, <1>8, ZenonT(60) DEF Registered
  <1>12. AddressesOwned'
    BY <1>1, <1>7, <1>9 DEF IInv, AddressesOwned
  <1>13. OpenIsRegistered'
    <2> SUFFICES ASSUME NEW e \in End, stage'[e] \in {"served", "kind"}, quic'[e] = "open"
                 PROVE  byKey[Owner(link', e)][PeerKey(link', e)] = e
      BY <1>1 DEF OpenIsRegistered
    <2>1. e[1] # c
      BY <1>6
    <2> QED BY <2>1, <1>5, <1>7 DEF IInv, OpenIsRegistered
  <1>14. AddressesAreCurrent'
    <2> SUFFICES ASSUME NEW n \in Node, NEW a \in Address, byAddress[n][a] # None
                 PROVE  /\ RemoteAddr(link', byAddress[n][a]) = a
                        /\ byKey[n][PeerKey(link', byAddress[n][a])] = byAddress[n][a]
      BY <1>1 DEF AddressesAreCurrent
    <2>1. /\ RemoteAddr(link, byAddress[n][a]) = a
          /\ byKey[n][PeerKey(link, byAddress[n][a])] = byAddress[n][a]
      BY DEF IInv, AddressesAreCurrent
    <2> QED BY <2>1, <1>7, <1>9
  <1>15. RequestsOnCurrentPeer' /\ RequestsLinked'
    <2> SUFFICES ASSUME NEW u \in Caller, pc'[u] \in Requesting
                 PROVE  /\ byKey[Home[u]][PeerKey(link', via'[u])] = via'[u]
                        /\ link'[via'[u][1]] # NoLink
      BY <1>1 DEF RequestsOnCurrentPeer, RequestsLinked
    <2>1. pc[u] \in Requesting /\ via'[u] = via[u] /\ via[u] \in End
      BY DEF Dial, Requesting, IInv, TypeOK
    <2>2. byKey[Home[u]][PeerKey(link, via[u])] = via[u] /\ link[via[u][1]] # NoLink
      BY <2>1 DEF IInv, RequestsOnCurrentPeer, RequestsLinked
    <2>3. via[u][1] # c
      BY <2>2, <1>1
    <2> QED BY <2>1, <2>2, <2>3, <1>7
  <1> QED BY <1>10, <1>11, <1>12, <1>13, <1>14, <1>15 DEF Rest

\* The registration of an end.
LEMMA OnConnectionRest == ASSUME IInv, NEW e \in End, OnConnection(e) PROVE Rest'
  <1> DEFINE n == Owner(link, e)
             m == PeerKey(link, e)
             old == byKey[n][m]
  <1>1. link' = link /\ stage[e] = "lock" /\ link[e[1]] # NoLink /\ CanLock(n)
    BY ZenonT(60) DEF OnConnection, IInv, Linked
  <1>2. n \in Node /\ m \in Node /\ RemoteAddr(link, e) \in Address
    BY <1>1, EndData DEF IInv
  <1>3. \A i \in Node, j \in Node :
            byKey'[i][j] = IF i = n /\ j = m THEN e ELSE byKey[i][j]
    BY OnConnectionEntries DEF IInv
  <1>4. \A i \in Node, a \in Address :
            byAddress'[i][a] =
                IF i # n THEN byAddress[i][a]
                ELSE IF a = RemoteAddr(link, e) THEN e
                ELSE IF old # None /\ a = RemoteAddr(link, old) THEN None
                ELSE byAddress[i][a]
    BY OnConnectionEntries DEF IInv
  <1>5. \A x \in End : quic'[x] = IF x = old THEN Close(quic[x]) ELSE quic[x]
    BY OnConnectionEntries DEF IInv
  <1>6. \A x \in End : stage'[x] = IF x = e THEN "served" ELSE stage[x]
    BY ZenonT(60) DEF OnConnection, IInv, TypeOK
  <1>7. \A t \in Caller : pc'[t] \in Requesting => pc[t] \in Requesting /\ via'[t] = via[t]
    BY DEF OnConnection, Requesting, IInv, TypeOK
  <1>8. Linked'
    BY <1>1, <1>6 DEF IInv, Linked
  <1>9. Registered'
    <2> SUFFICES ASSUME NEW i \in Node, NEW j \in Node, byKey'[i][j] # None
                 PROVE  /\ stage'[byKey'[i][j]] \in Handled
                        /\ Owner(link, byKey'[i][j]) = i
                        /\ PeerKey(link, byKey'[i][j]) = j
      BY <1>1 DEF Registered
    <2>1. CASE i = n /\ j = m
      BY <2>1, <1>3, <1>6 DEF Handled
    <2>2. CASE ~(i = n /\ j = m)
      <3>1. byKey'[i][j] = byKey[i][j] /\ byKey[i][j] # None
        BY <2>2, <1>3
      <3> QED BY <3>1, <1>6, RegisteredEnd DEF IInv, Handled
    <2> QED BY <2>1, <2>2
  <1>10. AddressesOwned'
    BY <1>1, <1>2, <1>4 DEF IInv, AddressesOwned
  <1>11. OpenIsRegistered'
    <2> SUFFICES ASSUME NEW x \in End, stage'[x] \in {"served", "kind"}, quic'[x] = "open"
                 PROVE  byKey'[Owner(link, x)][PeerKey(link, x)] = x
      BY <1>1 DEF OpenIsRegistered
    <2>1. CASE x = e
      BY <2>1, <1>2, <1>3
    <2>2. CASE x # e
      <3>1. stage[x] \in {"served", "kind"} /\ x # old /\ quic[x] = "open"
        BY <2>2, <1>5, <1>6 DEF Close
      <3>2. link[x[1]] # NoLink
        BY <3>1 DEF IInv, Linked
      <3>3. Owner(link, x) \in Node /\ PeerKey(link, x) \in Node
        BY <3>2, EndData DEF IInv
      <3>4. byKey[Owner(link, x)][PeerKey(link, x)] = x
        BY <3>1 DEF IInv, OpenIsRegistered
      <3> QED BY <3>1, <3>3, <3>4, <1>3
    <2> QED BY <2>1, <2>2
  <1>12. AddressesAreCurrent'
    <2> SUFFICES ASSUME NEW i \in Node, NEW a \in Address, byAddress'[i][a] # None
                 PROVE  /\ RemoteAddr(link, byAddress'[i][a]) = a
                        /\ byKey'[i][PeerKey(link, byAddress'[i][a])] = byAddress'[i][a]
      BY <1>1 DEF AddressesAreCurrent
    <2>1. CASE i = n /\ a = RemoteAddr(link, e)
      BY <2>1, <1>2, <1>3, <1>4
    <2>2. CASE ~(i = n /\ a = RemoteAddr(link, e))
      <3> DEFINE x == byAddress[i][a]
      <3>1. byAddress'[i][a] = x /\ x # None
        BY <2>2, <1>4
      <3>2. /\ RemoteAddr(link, x) = a /\ byKey[i][PeerKey(link, x)] = x
            /\ Owner(link, x) = i /\ x \in End
        BY <3>1 DEF IInv, AddressesAreCurrent, AddressesOwned, TypeOK
      <3>3. link[x[1]] # NoLink
        BY <3>2, OwnedIsLinked
      <3>4. PeerKey(link, x) \in Node
        BY <3>2, <3>3, EndData DEF IInv
      <3>5. ~(i = n /\ PeerKey(link, x) = m)
        BY <2>2, <3>1, <3>2, <1>4
      <3> QED BY <3>1, <3>2, <3>4, <3>5, <1>3
    <2> QED BY <2>1, <2>2
  <1>13. RequestsOnCurrentPeer' /\ RequestsLinked'
    <2> SUFFICES ASSUME NEW t \in Caller, pc'[t] \in Requesting
                 PROVE  /\ byKey'[Home[t]][PeerKey(link, via'[t])] = via'[t]
                        /\ link[via'[t][1]] # NoLink
      BY <1>1 DEF RequestsOnCurrentPeer, RequestsLinked
    <2>1. pc[t] \in Requesting /\ via'[t] = via[t] /\ via[t] \in End
      BY <1>7 DEF IInv, TypeOK
    <2>2. byKey[Home[t]][PeerKey(link, via[t])] = via[t] /\ link[via[t][1]] # NoLink
      BY <2>1 DEF IInv, RequestsOnCurrentPeer, RequestsLinked
    <2>3. Home[t] # n /\ Home[t] \in Node
      BY <2>1, <1>1, PeerAssumption DEF CanLock, Readers
    <2>4. PeerKey(link, via[t]) \in Node
      BY <2>1, <2>2, EndData DEF IInv
    <2> QED BY <2>1, <2>2, <2>3, <2>4, <1>3
  <1> QED BY <1>8, <1>9, <1>10, <1>11, <1>12, <1>13 DEF Rest

\* Every step preserves the inductive invariant.
LEMMA NextIInv == IInv /\ [Next]_vars => IInv'
  <1> SUFFICES ASSUME IInv, [Next]_vars PROVE IInv'
    OBVIOUS
  <1>1. TypeOK'
    BY TypeStep DEF IInv
  <1>2. Rest'
    <2>1. ASSUME NEW n \in Node, NodeStep(n) PROVE Rest'
      BY <2>1, NodeRest
    <2>2. ASSUME NEW e \in End, EndStep(e) PROVE Rest'
      BY <2>2, EndRest, OnConnectionRest DEF EndStep
    <2>3. ASSUME NEW t \in Caller, CallerStep(t) PROVE Rest'
      BY <2>3, CallerRest, DialRest, StreamRest DEF CallerStep
    <2>4. CASE UNCHANGED vars
      <3>1. Rest
        BY DEF IInv, Rest
      <3> QED BY <2>4, <3>1, ZenonT(60) DEF vars, Rest, Linked, RequestsLinked, Registered,
              AddressesOwned, OpenIsRegistered, AddressesAreCurrent, RequestsOnCurrentPeer
    <2> QED BY <2>1, <2>2, <2>3, <2>4 DEF Next
  <1> QED BY <1>1, <1>2 DEF IInv, Rest

\* The inductive invariant holds in every reachable state.
THEOREM Invariance == Spec => []IInv
  <1>1. Init => IInv BY InitIInv
  <1>2. IInv /\ [Next]_vars => IInv' BY NextIInv
  <1> QED BY <1>1, <1>2, PTL DEF Spec

\* Every variable keeps its type (NewPeerSet and the handlers).
THEOREM TypeTheorem == Spec => []TypeOK
  BY Invariance, PTL DEF IInv

\* OnConnection closes what it replaces: no open connection is outside the peer set.
THEOREM NoLeakTheorem == Spec => []OpenIsRegistered
  BY Invariance, PTL DEF IInv

\* RemovePeer and AddPeer keep the address map on registered peers.
THEOREM AddressTheorem == Spec => []AddressesAreCurrent
  BY Invariance, PTL DEF IInv

\* RequestBlocks holds peersLock, so its connection stays the registered one.
THEOREM RequestTheorem == Spec => []RequestsOnCurrentPeer
  BY Invariance, PTL DEF IInv
=============================================================================
