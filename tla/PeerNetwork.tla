----------------------------- MODULE PeerNetwork -----------------------------
(***************************************************************************)
(* The peer layer of several nodes: the QUIC transport (Start, Connect,    *)
(* Stop, the accept loop), the protocol manager's stream loop per          *)
(* connection, and Node's peer set with its read-write lock                *)
(* (ConnectToPeer, OnConnection, RequestBlocks).                           *)
(*                                                                         *)
(* A connection has two ends, the dialling one and the accepting one.      *)
(* Each end is a QUIC connection of its own: it is open until it is closed *)
(* here, until the CLOSE frame of the other end arrives, or until it was   *)
(* idle for too long (the frame may be lost).  The goroutines are the      *)
(* callers of ConnectToPeer and RequestBlocks (Caller, one home node       *)
(* each), one accept loop per node, one handleConnection per accepted      *)
(* connection and one stream loop per registered end.  The stages of an    *)
(* end are those of the goroutine that handles it:                         *)
(*   none -> accept (in the listener's queue, the accepting end only)      *)
(*        -> lock (in OnConnection, waiting for peersLock)                 *)
(*        -> served (registered, its stream loop waits for a stream)       *)
(*        -> kind (it waits for the first octet of a stream) -> served     *)
(*        -> ended                                                         *)
(* A request is opened ("request"), its stream is accepted by the other    *)
(* end ("taken"), and given to a handler ("handled").                      *)
(*                                                                         *)
(* A dialling socket has an ephemeral port, so an accepting node knows its *)
(* peer under that port and not under the peer's listen address.  Nodes    *)
(* share the host part of the address, as nodes behind one router do.      *)
(* Certificates are valid and all nodes have the same chain hash, which    *)
(* NewNode fixes: the handshake's checks always succeed.  The blocks a     *)
(* request returns are left to the chain store.                            *)
(***************************************************************************)
EXTENDS Naturals, FiniteSets

CONSTANTS Node, Caller, Home, Conn, Port,
    Stoppable   \* the nodes that are shut down at some time

None == <<>>

ASSUME PeerAssumption ==
    /\ Conn \subseteq Nat
    /\ Home \in [Caller -> Node]
    /\ Node \cap Port = {} /\ None \notin Node \cup Port
    /\ Stoppable \subseteq Node

VARIABLES
    link,       \* per connection: who dialled whom from which port
    quic,       \* per end: state of the QUIC connection
    stage,      \* per end: where its handling goroutine is
    byKey,      \* peersSet.byEd25519Key of each node
    byAddress,  \* peersSet.byAddress of each node
    pc,         \* per caller: which call it is in, and where
    dest,       \* per caller: the address ConnectToPeer was given
    via,        \* per caller: the end it is handling or sending a request on
    life,       \* per node: new | listening | cancelled (ctx.Done)
    loop,       \* per node: accept loop none | running | done
    stopping    \* per node: no | waiting (on <-t.done) | returned

vars == <<link, quic, stage, byKey, byAddress, pc, dest, via, life, loop, stopping>>

Sides == {"dial", "accept"}

\* Where a caller of RequestBlocks can be.
Requesting == {"request", "taken", "handled"}

End == Conn \X Sides

Address == Node \cup Port   \* a node stands for its listen address

NoLink == [from |-> None, to |-> None, port |-> None]

OtherEnd(e) == <<e[1], IF e[2] = "dial" THEN "accept" ELSE "dial">>

\* The node an end belongs to, the key in the peer's certificate (PeerKey)
\* and the remote address of the end (NewPeer: QConn.RemoteAddr()).
Owner(l, e) == IF e[2] = "dial" THEN l[e[1]].from ELSE l[e[1]].to

PeerKey(l, e) == IF e[2] = "dial" THEN l[e[1]].to ELSE l[e[1]].from

RemoteAddr(l, e) == IF e[2] = "dial" THEN l[e[1]].to ELSE l[e[1]].port

\* Mutant: Close only cancels the context.
Close_ContextOnly(q) == q

\* Conn.Close: the context is done, and a QUIC connection that is still alive
\* sends its CLOSE frame; one that is already dead has nobody to send it to.
Close(q) == IF q \in {"open", "closed"} THEN "closed" ELSE "dropped"

EndsOf(n) == {e \in End : link[e[1]] # NoLink /\ Owner(link, e) = n}

\* peersLock is a Go RWMutex: a writer waits for the readers that hold it, and
\* a waiting writer keeps new readers out.
Readers(n) == {t \in Caller : Home[t] = n /\ pc[t] \in Requesting}

\* Mutant: requests do not hold the lock while they wait.
CanLock_Released(n) == n \in Node

CanLock(n) == Readers(n) = {}

CanRLock(n) == \A e \in EndsOf(n) : stage[e] # "lock"

Init ==
    /\ link = [c \in Conn |-> NoLink]
    /\ quic = [e \in End |-> "none"]
    /\ stage = [e \in End |-> "none"]
    /\ byKey = [n \in Node |-> [m \in Node |-> None]]
    /\ byAddress = [n \in Node |-> [a \in Address |-> None]]
    /\ pc = [t \in Caller |-> "idle"]
    /\ dest = [t \in Caller |-> Home[t]]
    /\ via = [t \in Caller |-> None]
    /\ life = [n \in Node |-> "new"]
    /\ loop = [n \in Node |-> "none"]
    /\ stopping = [n \in Node |-> "no"]

----------------------------------------------------------------------------
(* Transport lifecycle *)

\* Start: the listener is opened and the accept loop started.
Start(n) ==
    /\ life[n] = "new" /\ loop[n] = "none"
    /\ life' = [life EXCEPT ![n] = "listening"]
    /\ loop' = [loop EXCEPT ![n] = "running"]
    /\ UNCHANGED <<link, quic, stage, byKey, byAddress, pc, dest, via, stopping>>

\* Stop cancels the context and closes the listener, which drops what is still
\* in its queue; then it waits for the accept loop.
Stop(n) ==
    /\ n \in Stoppable /\ stopping[n] = "no"
    /\ stopping' = [stopping EXCEPT ![n] = "waiting"]
    /\ life' = [life EXCEPT ![n] = "cancelled"]
    /\ LET queued == {e \in EndsOf(n) : stage[e] = "accept"} IN
       /\ stage' = [e \in End |-> IF e \in queued THEN "ended" ELSE stage[e]]
       /\ quic' = [e \in End |-> IF e \in queued THEN Close(quic[e]) ELSE quic[e]]
    /\ UNCHANGED <<link, byKey, byAddress, pc, dest, via, loop>>

\* <-t.done: receives once the loop has returned.  The channel of a transport
\* that was never started is nil.
StopReturns(n) ==
    /\ stopping[n] = "waiting" /\ loop[n] = "done"
    /\ stopping' = [stopping EXCEPT ![n] = "returned"]
    /\ UNCHANGED <<link, quic, stage, byKey, byAddress, pc, dest, via, life, loop>>

\* One turn of acceptLoop: hand the connection to a goroutine, ...
Accept(e) ==
    /\ stage[e] = "accept"
    /\ life[Owner(link, e)] = "listening"
    /\ loop[Owner(link, e)] = "running"
    /\ stage' = [stage EXCEPT ![e] = "lock"]
    /\ UNCHANGED <<link, quic, byKey, byAddress, pc, dest, via, life, loop, stopping>>

\* ... or return, when the context is done.
LoopReturns(n) ==
    /\ loop[n] = "running" /\ life[n] = "cancelled"
    /\ loop' = [loop EXCEPT ![n] = "done"]
    /\ UNCHANGED <<link, quic, stage, byKey, byAddress, pc, dest, via, life, stopping>>

----------------------------------------------------------------------------
(* ConnectToPeer *)

Leave(t) ==
    /\ pc' = [pc EXCEPT ![t] = "idle"]
    /\ dest' = [dest EXCEPT ![t] = Home[t]]
    /\ via' = [via EXCEPT ![t] = None]

\* The address is looked up under the read lock, which is released again; a
\* known address ends the call with an error, which changes nothing.
CheckPeer(t, m) ==
    /\ pc[t] = "idle" /\ m # Home[t]
    /\ CanRLock(Home[t])
    /\ byAddress[Home[t]][m] = None
    /\ pc' = [pc EXCEPT ![t] = "dial"]
    /\ dest' = [dest EXCEPT ![t] = m]
    /\ UNCHANGED <<link, quic, stage, byKey, byAddress, via, life, loop, stopping>>

\* transport.Connect: the handshake succeeds, the listener queues its end, and
\* the caller goes on into handleConnection.  The socket gets a port that no
\* open dialling socket has.
Dial(t, c, p) ==
    LET n == Home[t] m == dest[t] IN
    /\ pc[t] = "dial"
    /\ life[n] # "cancelled" /\ life[m] = "listening"
    /\ link[c] = NoLink /\ \A d \in Conn : d < c => link[d] # NoLink
    /\ \A d \in Conn : link[d].port = p => quic[<<d, "dial">>] # "open"
    /\ link' = [link EXCEPT ![c] = [from |-> n, to |-> m, port |-> p]]
    /\ quic' = [quic EXCEPT ![<<c, "dial">>] = "open", ![<<c, "accept">>] = "open"]
    /\ stage' = [stage EXCEPT ![<<c, "dial">>] = "lock", ![<<c, "accept">>] = "accept"]
    /\ pc' = [pc EXCEPT ![t] = "handle"]
    /\ via' = [via EXCEPT ![t] = <<c, "dial">>]
    /\ UNCHANGED <<byKey, byAddress, dest, life, loop, stopping>>

\* The dial fails: no route, nobody listens, or the context is done.
DialFails(t) ==
    /\ pc[t] = "dial"
    /\ Leave(t)
    /\ UNCHANGED <<link, quic, stage, byKey, byAddress, life, loop, stopping>>

----------------------------------------------------------------------------
(* The peer set *)

\* Mutant: only the key is deleted.
RemovePeer_KeyOnly(l, keys, addrs, e) ==
    <<[keys EXCEPT ![PeerKey(l, e)] = None], addrs>>

RemovePeer(l, keys, addrs, e) ==
    <<[keys EXCEPT ![PeerKey(l, e)] = None], [addrs EXCEPT ![RemoteAddr(l, e)] = None]>>

AddPeer(l, keys, addrs, e) ==
    <<[keys EXCEPT ![PeerKey(l, e)] = e], [addrs EXCEPT ![RemoteAddr(l, e)] = e]>>

\* OnConnection under the write lock: an existing peer with this key is closed
\* and removed, the new one registered and its stream loop started; the dialling
\* caller returns.
OnConnection(e) ==
    LET n == Owner(link, e)
        old == byKey[n][PeerKey(link, e)]
        kept == IF old = None THEN <<byKey[n], byAddress[n]>>
                ELSE RemovePeer(link, byKey[n], byAddress[n], old)
        peers == AddPeer(link, kept[1], kept[2], e)
        mine == {t \in Caller : pc[t] = "handle" /\ via[t] = e}
    IN
    /\ stage[e] = "lock" /\ CanLock(n)
    /\ quic' = IF old = None THEN quic ELSE [quic EXCEPT ![old] = Close(@)]
    /\ byKey' = [byKey EXCEPT ![n] = peers[1]]
    /\ byAddress' = [byAddress EXCEPT ![n] = peers[2]]
    /\ stage' = [stage EXCEPT ![e] = "served"]
    /\ pc' = [t \in Caller |-> IF t \in mine THEN "idle" ELSE pc[t]]
    /\ dest' = [t \in Caller |-> IF t \in mine THEN Home[t] ELSE dest[t]]
    /\ via' = [t \in Caller |-> IF t \in mine THEN None ELSE via[t]]
    /\ UNCHANGED <<link, life, loop, stopping>>

----------------------------------------------------------------------------
(* Connections *)

\* Mutant: the context is not looked at after an error.
HandleStreams_NoContext(e) ==
    /\ stage[e] = "served"
    /\ quic[e] = "idle"
    /\ stage' = [stage EXCEPT ![e] = "ended"]
    /\ quic' = [quic EXCEPT ![e] = Close(@)]
    /\ UNCHANGED <<link, byKey, byAddress, pc, dest, via, life, loop, stopping>>

\* AcceptStream takes the next stream, also after the context is done, ...
AcceptStream(t) ==
    LET e == OtherEnd(via[t]) IN
    /\ pc[t] = "request" /\ quic[via[t]] = "open"
    /\ stage[e] = "served" /\ quic[e] = "open"
    /\ stage' = [stage EXCEPT ![e] = "kind"]
    /\ pc' = [pc EXCEPT ![t] = "taken"]
    /\ UNCHANGED <<link, quic, byKey, byAddress, dest, via, life, loop, stopping>>

\* ... and reads its kind without a context: the read returns when the octet is
\* there, and a goroutine runs the handler, ...
KindArrives(e) ==
    /\ stage[e] = "kind" /\ quic[e] = "open"
    /\ stage' = [stage EXCEPT ![e] = "served"]
    /\ pc' = [t \in Caller |-> IF pc[t] = "taken" /\ via[t] = OtherEnd(e)
                              THEN "handled" ELSE pc[t]]
    /\ UNCHANGED <<link, quic, byKey, byAddress, dest, via, life, loop, stopping>>

\* ... or when the connection is not open any more.
KindFails(e) ==
    /\ stage[e] = "kind" /\ quic[e] # "open"
    /\ stage' = [stage EXCEPT ![e] = "served"]
    /\ UNCHANGED <<link, quic, byKey, byAddress, pc, dest, via, life, loop, stopping>>

\* handleStreams ends, and closes the connection, when AcceptStream fails after
\* the connection's context is done (closed here, or the node stopped) or with
\* the idle timeout.  Any other error, the other end's CLOSE among them, only
\* makes it try again.
HandleStreams(e) ==
    /\ stage[e] = "served"
    /\ \/ quic[e] \in {"closed", "dropped"} \/ life[Owner(link, e)] = "cancelled"
       \/ quic[e] = "idle"
    /\ stage' = [stage EXCEPT ![e] = "ended"]
    /\ quic' = [quic EXCEPT ![e] = Close(@)]
    /\ UNCHANGED <<link, byKey, byAddress, pc, dest, via, life, loop, stopping>>

\* The other end's CLOSE frame arrives.
RemoteClosed(e) ==
    /\ quic[e] = "open" /\ quic[OtherEnd(e)] = "closed"
    /\ quic' = [quic EXCEPT ![e] = "remote"]
    /\ UNCHANGED <<link, stage, byKey, byAddress, pc, dest, via, life, loop, stopping>>

\* Nothing arrived for MaxIdleTimeout: no traffic, lost packets, or a peer that
\* is gone.
IdleTimeout(e) ==
    /\ quic[e] = "open"
    /\ quic' = [quic EXCEPT ![e] = "idle"]
    /\ UNCHANGED <<link, stage, byKey, byAddress, pc, dest, via, life, loop, stopping>>

----------------------------------------------------------------------------
(* RequestBlocks, which holds the read lock until it returns *)

\* A peer without an entry ends the call with an error, which changes nothing.
RequestBlocks(t, m) ==
    LET n == Home[t] IN
    /\ pc[t] = "idle" /\ m # n
    /\ CanRLock(n)
    /\ byKey[n][m] # None
    /\ pc' = [pc EXCEPT ![t] = "request"]
    /\ via' = [via EXCEPT ![t] = byKey[n][m]]
    /\ UNCHANGED <<link, quic, stage, byKey, byAddress, dest, life, loop, stopping>>

\* The handler's answer arrives.  A handler that fails leaves the stream as it is,
\* so there need not be one.
RequestAnswered(t) ==
    /\ pc[t] = "handled"
    /\ quic[via[t]] = "open"
    /\ Leave(t)
    /\ UNCHANGED <<link, quic, stage, byKey, byAddress, life, loop, stopping>>

\* Opening, writing or reading the stream fails once the connection is not open.
RequestFails(t) ==
    /\ pc[t] \in Requesting
    /\ quic[via[t]] # "open"
    /\ Leave(t)
    /\ UNCHANGED <<link, quic, stage, byKey, byAddress, life, loop, stopping>>

\* The context that the caller gave is done, whatever the request waits for.
RequestCancelled(t) ==
    /\ pc[t] \in Requesting
    /\ Leave(t)
    /\ UNCHANGED <<link, quic, stage, byKey, byAddress, life, loop, stopping>>

----------------------------------------------------------------------------

NodeStep(n) == Start(n) \/ Stop(n) \/ StopReturns(n) \/ LoopReturns(n)

EndStep(e) ==
    \/ Accept(e) \/ OnConnection(e)
    \/ KindArrives(e) \/ KindFails(e) \/ HandleStreams(e)
    \/ RemoteClosed(e) \/ IdleTimeout(e)

CallerStep(t) ==
    \/ \E m \in Node : CheckPeer(t, m) \/ RequestBlocks(t, m)
    \/ \E c \in Conn, p \in Port : Dial(t, c, p)
    \/ DialFails(t) \/ AcceptStream(t)
    \/ RequestAnswered(t) \/ RequestFails(t) \/ RequestCancelled(t)

Next ==
    \/ \E n \in Node : NodeStep(n)
    \/ \E e \in End : EndStep(e)
    \/ \E t \in Caller : CallerStep(t)

Spec == Init /\ [][Next]_vars

\* Goroutines that can run do run, the lock is granted, a call that has failed
\* returns, an end whose other end is gone learns of it, and the first octet of a
\* stream arrives while both ends are open.  A stream loop that finds its context
\* done between two streams again and again ends: a caller makes one request at a
\* time.  (An end ends once, so fairness for some of the finitely many ends is
\* fairness for each.)  Nothing is assumed of answers, of new calls, of the callers'
\* contexts or of Start and Stop.
Fairness ==
    /\ \A n \in Node : WF_vars(LoopReturns(n) \/ StopReturns(n))
    /\ SF_vars(\E e \in End : HandleStreams(e))
    /\ \A e \in End :
        /\ WF_vars(\/ Accept(e) \/ OnConnection(e) \/ KindFails(e)
                   \/ quic[OtherEnd(e)] = "open" /\ KindArrives(e))
        /\ WF_vars(quic[OtherEnd(e)] # "open" /\ (RemoteClosed(e) \/ IdleTimeout(e)))
    /\ \A t \in Caller :
        WF_vars(DialFails(t) \/ RequestFails(t) \/ \E c \in Conn, p \in Port : Dial(t, c, p))

FairSpec == Spec /\ Fairness

----------------------------------------------------------------------------
(* Properties *)

\* Every variable has its type.
TypeOK ==
    /\ link \in [Conn -> {NoLink} \cup [from : Node, to : Node, port : Port]]
    /\ quic \in [End -> {"none", "open", "remote", "idle", "closed", "dropped"}]
    /\ stage \in [End -> {"none", "accept", "lock", "served", "kind", "ended"}]
    /\ byKey \in [Node -> [Node -> End \cup {None}]]
    /\ byAddress \in [Node -> [Address -> End \cup {None}]]
    /\ pc \in [Caller -> {"idle", "dial", "handle"} \cup Requesting]
    /\ dest \in [Caller -> Node]
    /\ via \in [Caller -> End \cup {None}]
    /\ \A t \in Caller : pc[t] \in {"handle"} \cup Requesting => via[t] \in End
    /\ life \in [Node -> {"new", "listening", "cancelled"}]
    /\ loop \in [Node -> {"none", "running", "done"}]
    /\ stopping \in [Node -> {"no", "waiting", "returned"}]

\* No connection leaks: an open end whose OnConnection has run is the one the
\* peer set holds for the peer's key, so a node has at most one of them per peer
\* (OnConnection closes what it replaces).
OpenIsRegistered ==
    \A e \in End :
        stage[e] \in {"served", "kind"} /\ quic[e] = "open"
            => byKey[Owner(link, e)][PeerKey(link, e)] = e

\* The two maps of a peer set do not diverge on what they hold: an address leads
\* to a peer that is also registered under its key, never to one that
\* OnConnection has replaced (RemovePeer deletes from both maps).
AddressesAreCurrent ==
    \A n \in Node, a \in Address :
        byAddress[n][a] # None
            => /\ RemoteAddr(link, byAddress[n][a]) = a
               /\ byKey[n][PeerKey(link, byAddress[n][a])] = byAddress[n][a]

\* A block request in flight runs on the connection that the peer set holds for
\* that peer: RequestBlocks keeps the read lock, so OnConnection cannot close the
\* connection under it.
RequestsOnCurrentPeer ==
    \A t \in Caller :
        pc[t] \in Requesting => byKey[Home[t]][PeerKey(link, via[t])] = via[t]

\* From every state after Stop the node comes to rest: all its ends are closed and
\* a call that is under way has returned, whichever of them held or waited for
\* peersLock when the node was stopped (the context ends the stream loops, which
\* fail the requests, which release the lock), although a loop that reads the kind
\* of a stream does not look at the context.
StopWindsDown ==
    \A n \in Stoppable :
        \A t \in {u \in Caller : Home[u] = n} :
            life[n] = "cancelled" ~>
                pc[t] = "idle" /\ \A e \in EndsOf(n) : stage[e] = "ended"

\* "[ConnectToPeer] prevents duplicate connections to the same peer": a caller
\* that has dialled a peer finds no open connection to it in the peer set.
NoDuplicateConnections ==
    \A e \in End :
        stage[e] = "lock" /\ e[2] = "dial"
            => LET old == byKey[Owner(link, e)][PeerKey(link, e)]
               IN  old # None => quic[old] # "open"

\* "[PeerSet] maintains mappings between peer identifiers (Ed25519 keys, network
\* addresses, ...) and Peer objects": a peer registered under its key is found
\* under its address.
PeersHaveTheirAddress ==
    \A n \in Node, m \in Node :
        byKey[n][m] # None => byAddress[n][RemoteAddr(link, byKey[n][m])] = byKey[n][m]

\* "[OnConnection] If peer already exists, close existing connection and replace
\* with new one": when all connections have been handled, and no node was
\* stopped and no connection timed out, two nodes that have each other as a peer
\* have an open connection.
ReplacementConnects ==
    (\A n \in Node : life[n] # "cancelled")
    /\ (\A e \in End : stage[e] \notin {"accept", "lock"} /\ quic[e] \notin {"idle", "dropped"})
    => \A n, m \in Node :
        n # m /\ byKey[n][m] # None /\ byKey[m][n] # None => quic[byKey[n][m]] = "open"

\* "[handleStreams] continuously accepts new streams and handles connection
\* closure and timeouts": the loop of an end whose connection the other end has
\* closed comes to its end.
ClosureIsHandled ==
    \A e \in End :
        quic[e] = "remote" /\ stage[e] \in {"served", "kind"} ~> stage[e] = "ended"

\* "[Stop] gracefully shuts down the transport and all active connections": a
\* call of Stop returns.
StopCompletes ==
    \A n \in Node : stopping[n] = "waiting" ~> stopping[n] = "returned"
=============================================================================
