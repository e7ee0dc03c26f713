----------------------------- MODULE ChainStore -----------------------------
(***************************************************************************)
(* The blocks in the chain store (internal/store/chain.go, pkg/db/pebble)  *)
(* and a CE 128 block request served from it                               *)
(* (pkg/network/handlers/block_request.go, message.go).  The handler reads *)
(* the store one operation at a time, and blocks are put in between.       *)
(*                                                                         *)
(* Data abstraction.  A block is identified with the hash of its header.   *)
(* Pebble orders keys by their bytes: KeyOrder.  Every operation on the    *)
(* store is one step; an iterator sees the store as it was when it was     *)
(* made, so FindChildren is one step too.  The answer's message is its     *)
(* size followed by its blocks; the stream may break after any of them,    *)
(* and a context that is cancelled fails the side that waits on it.        *)
(*                                                                         *)
(* kept and cut are history: the blocks stored when the request was made,  *)
(* and whether FindChildren missed a child.                                *)
(***************************************************************************)
EXTENDS Integers, Sequences, FiniteSets

CONSTANTS
    Blocks,       \* hashes of blocks
    FirstBlock,   \* the block initializeState stores
    ParentHash,   \* Header.ParentHash of each block
    KeyOrder,     \* position of a block's key in the order of keys
    MaxBlocks     \* values of maxBlocks a request may name

ASSUME StoreAssumption ==
    /\ FirstBlock \in Blocks
    /\ DOMAIN ParentHash = Blocks
    \* a header contains the hash of its parent: there are no cycles
    /\ \A S \in SUBSET Blocks : S # {} => \E b \in S : ParentHash[b] \notin S
    /\ KeyOrder \in [Blocks -> Nat]
    /\ \A b, c \in Blocks : KeyOrder[b] = KeyOrder[c] => b = c
    /\ MaxBlocks \subseteq Nat

VARIABLES
    blocks,    \* hashes under prefixBlock
    closed,    \* Chain.closed
    request,   \* the request: startHash, ascending and maxBlocks
    handler,   \* the server's side: where HandleStream is
    current,   \* currentHash
    sequence,  \* the blocks collected by GetBlockSequence
    wire,      \* the answer on the stream: its size, -1 if not written, and blocks
    client,    \* the requester's side: "idle", "waiting", "failed" or "answered"
    answer,    \* what RequestBlocks returned
    kept,
    cut

storeVars == <<blocks, closed, request, handler, current, sequence, wire, client,
               answer, kept, cut>>
serving == <<current, sequence, cut>>

Silence == [size |-> 0 - 1, content |-> <<>>]
Requests == [start : Blocks, ascending : BOOLEAN, max : MaxBlocks]

StoreInit ==
    /\ blocks = {FirstBlock}
    /\ closed = FALSE
    /\ request \in Requests
    /\ handler = "idle"
    /\ current = request.start
    /\ sequence = <<>>
    /\ wire = Silence
    /\ client = "idle"
    /\ answer = <<>>
    /\ kept = {}
    /\ cut = FALSE

-----------------------------------------------------------------------------
\* PutBlock: header and block in one batch, of which a failure leaves nothing.
PutBlock(b) ==
    /\ ~closed
    /\ b \notin blocks
    /\ blocks' = blocks \cup {b}
    /\ UNCHANGED <<closed, request, handler, serving, wire, client, answer, kept>>

Close ==
    /\ ~closed
    /\ closed' = TRUE
    /\ UNCHANGED <<blocks, request, handler, serving, wire, client, answer, kept>>

\* RequestBlocks writes the request and waits for the answer.
RequestBlocks ==
    /\ client = "idle"
    /\ client' = "waiting"
    /\ handler' = "start"
    /\ kept' = blocks
    /\ UNCHANGED <<blocks, closed, request, serving, wire, answer>>

-----------------------------------------------------------------------------
HandlerMoves(to) ==
    /\ handler' = to
    /\ UNCHANGED <<blocks, closed, request, client, answer, kept>>

\* GetBlockSequence finds the starting block or returns an error.
FindStart ==
    /\ handler = "start"
    /\ HandlerMoves(IF ~closed /\ request.start \in blocks THEN "loop" ELSE "failed")
    /\ UNCHANGED <<serving, wire>>

\* A read of the database fails, other than by finding nothing.
GetFails ==
    /\ handler \in {"start", "next"}
    /\ HandlerMoves("failed")
    /\ UNCHANGED <<serving, wire>>

LoopEnds ==
    /\ handler = "loop"
    /\ Len(sequence) >= request.max
    /\ HandlerMoves("reply")
    /\ UNCHANGED <<serving, wire>>

Children(b) == {c \in blocks : ParentHash[c] = b}

\* FindChildren skips a block it cannot read; where it returns an error, which a
\* closed store makes certain, its caller goes on as if it had found none.
FindChildren(b) == IF closed THEN {{}} ELSE SUBSET Children(b)

FirstByKey(S) == CHOOSE c \in S : \A d \in S : KeyOrder[c] <= KeyOrder[d]

\* One iteration upwards, which leaves out the starting block.
Ascend ==
    /\ handler = "loop"
    /\ Len(sequence) < request.max
    /\ request.ascending
    /\ sequence' = IF current = request.start THEN sequence ELSE Append(sequence, current)
    /\ \E children \in FindChildren(current) :
        /\ cut' = (cut \/ children # Children(current))
        /\ current' = IF children = {} THEN current ELSE FirstByKey(children)
        /\ HandlerMoves(IF children = {} THEN "reply" ELSE "next")
    /\ UNCHANGED wire

\* One iteration downwards, the starting block included.
Descend ==
    /\ handler = "loop"
    /\ Len(sequence) < request.max
    /\ ~request.ascending
    /\ sequence' = Append(sequence, current)
    /\ current' = ParentHash[current]
    /\ HandlerMoves("next")
    /\ UNCHANGED <<wire, cut>>

\* The next block is read; a missing one ends the sequence, a closed store is an
\* error.
GetNext ==
    /\ handler = "next"
    /\ HandlerMoves(IF closed THEN "failed" ELSE IF current \in blocks THEN "loop" ELSE "reply")
    /\ UNCHANGED <<serving, wire>>

\* WriteMessageWithContext: the size, then the content.  Its goroutine goes on
\* when the context of HandleStream is cancelled.
WriteSize ==
    /\ handler = "reply"
    /\ wire' = [wire EXCEPT !.size = Len(sequence)]
    /\ HandlerMoves("writing")
    /\ UNCHANGED serving

WriteBlock ==
    /\ handler = "writing"
    /\ Len(wire.content) < Len(sequence)
    /\ wire' = [wire EXCEPT !.content = Append(@, sequence[Len(@) + 1])]
    /\ HandlerMoves("writing")
    /\ UNCHANGED serving

\* Mutant: a read that returns less than the size is accepted.
ReadAnswer_Short ==
    /\ client = "waiting"
    /\ wire.size >= 0
    /\ client' = "answered"
    /\ answer' = wire.content
    /\ UNCHANGED <<blocks, closed, request, handler, serving, wire, kept>>

\* ReadMessageWithContext reads the size and then all of the content.
ReadAnswer ==
    /\ client = "waiting"
    /\ wire.size >= 0
    /\ Len(wire.content) = wire.size
    /\ client' = "answered"
    /\ answer' = wire.content
    /\ UNCHANGED <<blocks, closed, request, handler, serving, wire, kept>>

\* The stream breaks, the handler gave up or the context is cancelled.
GiveUp ==
    /\ client = "waiting"
    /\ client' = "failed"
    /\ UNCHANGED <<blocks, closed, request, handler, serving, wire, answer, kept>>

ServeStep ==
    FindStart \/ GetFails \/ LoopEnds \/ Ascend \/ Descend \/ GetNext \/ WriteSize \/ WriteBlock

StoreNext ==
    \/ \E b \in Blocks : PutBlock(b)
    \/ Close
    \/ RequestBlocks
    \/ ServeStep
    \/ ReadAnswer
    \/ GiveUp

StoreSpec == StoreInit /\ [][StoreNext]_storeVars

-----------------------------------------------------------------------------
\* The request, both sides of it and the stream have their types.
StoreTypeOK ==
    /\ blocks \subseteq Blocks
    /\ closed \in BOOLEAN
    /\ request \in Requests
    /\ handler \in {"idle", "start", "loop", "next", "reply", "writing", "failed"}
    /\ sequence \in Seq(Blocks)
    /\ answer \in Seq(Blocks)
    /\ wire \in [size : Int, content : Seq(Blocks)]
    /\ client \in {"idle", "waiting", "failed", "answered"}

\* What the requester is given is a line of the chain as the request asked for,
\* however the store changed while it was read and wherever the stream broke: up
\* from a child of the starting block or down from that block itself, every block
\* next to the one before, no more than maxBlocks, and fewer only if the line
\* could not be continued with the blocks stored when the request was made
\* (GetBlockSequence, HandleStream, RequestBlocks).  A child that
\* FindChildren could not read may cut an ascending line short.
AnswersAreLines ==
    client = "answered" =>
        LET n == Len(answer)
            last == IF n = 0 THEN request.start ELSE answer[n]
        IN
        /\ n <= request.max
        /\ \A i \in 1..n : answer[i] \in blocks
        /\ request.ascending =>
            \A i \in 1..n : ParentHash[answer[i]] = IF i = 1 THEN request.start ELSE answer[i - 1]
        /\ ~request.ascending =>
            \A i \in 1..n : answer[i] = IF i = 1 THEN request.start ELSE ParentHash[answer[i - 1]]
        /\ n < request.max /\ ~cut =>
            IF request.ascending THEN \A b \in kept : ParentHash[b] # last
            ELSE ParentHash[last] \notin kept
=============================================================================
