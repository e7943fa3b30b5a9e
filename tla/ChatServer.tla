----------------------------- MODULE ChatServer -----------------------------
(***************************************************************************)
(* The multi-threaded chat server (src/examples/chat/                      *)
(* server_threaded_efficient.cc): every connection lives on its own I/O    *)
(* loop thread; its callbacks run there.  onConnection inserts or erases   *)
(* the connection in connections_, a shared_ptr to a std::set, under       *)
(* mutex_, copying the set first when someone else holds it               *)
(* (copy-on-write); onStringMessage takes a copy of the shared_ptr under   *)
(* mutex_ and iterates that set without the lock, sending the message to   *)
(* every member.  The messages come from the LengthHeaderCodec, which      *)
(* decodes the bytes each read hands it.                                   *)
(*                                                                         *)
(* The heap of sets: a set is an id with its members and its shared_ptr    *)
(* use count; a set whose count drops to 0 is deleted and its id may be    *)
(* handed out again by the next new ConnectionList.                         *)
(***************************************************************************)
EXTENDS Integers, FiniteSets, LengthHeaderCodec

CONSTANTS
    Conns,  \* the TcpConnections, each on its own loop thread
    Talk    \* the messages each connection's peer sends, in order

ASSUME Talk \in [Conns -> Seq(Seq(0..255))]

\* Live sets: connections_, plus one snapshot per other thread, plus the
\* copy under construction.
Ids == 1..(Cardinality(Conns) + 1)

\* The bytes a connection's peer puts on the wire.
Wire(c) == Frames(Talk[c])

VARIABLES
    conn,         \* conn->connected() as the callbacks see it: new, up, down
    rcvd,         \* bytes of Wire the connection has read
    consumed,     \* bytes of them onMessage has retrieved from inputBuffer_
    inbox,        \* messages onMessage decoded whose callback is still to run
    heard,        \* history: messages decoded from the connection's peer
    lists,        \* the ConnectionList each id holds
    refs,         \* each id's shared_ptr use count (0: deleted)
    connections,  \* connections_
    pc,           \* the connection's thread: idle, or iterating a snapshot
    snap,         \* onStringMessage's local ConnectionListPtr
    seen,         \* history: the set's members when the snapshot was taken
    sentTo        \* the members the iteration has sent to

vars == <<conn, rcvd, consumed, inbox, heard, lists, refs, connections, pc,
          snap, seen, sentTo>>

heap == <<lists, refs, connections>>

\* The ChatServer constructor: connections_(new ConnectionList).
Init ==
    /\ conn = [c \in Conns |-> "new"]
    /\ rcvd = [c \in Conns |-> 0] /\ consumed = [c \in Conns |-> 0]
    /\ inbox = [c \in Conns |-> <<>>] /\ heard = [c \in Conns |-> <<>>]
    /\ lists = [i \in Ids |-> {}]
    /\ refs = [i \in Ids |-> IF i = 1 THEN 1 ELSE 0]
    /\ connections = 1
    /\ pc = [c \in Conns |-> "idle"]
    /\ snap = [c \in Conns |-> 0]
    /\ seen = [c \in Conns |-> {}] /\ sentTo = [c \in Conns |-> {}]

\* The ids whose set has been deleted.
FreeIds == {i \in Ids : refs[i] = 0}

\* insert(conn) or erase(conn).
Edit(s, c, up) == IF up THEN s \cup {c} ELSE s \ {c}

----------------------------------------------------------------------------
(* onConnection, under mutex_                                              *)

\* Mutant: the set is edited in place even while a snapshot shares it.
OnConnectionInPlace(c, up) ==
    /\ lists' = [lists EXCEPT ![connections] = Edit(@, c, up)]
    /\ UNCHANGED <<refs, connections>>

\* if (!connections_.unique()) connections_.reset(new ConnectionList(
\* *connections_)); then insert or erase on the now unique set.
OnConnection(c, up) ==
    \/ /\ refs[connections] = 1
       /\ lists' = [lists EXCEPT ![connections] = Edit(@, c, up)]
       /\ UNCHANGED <<refs, connections>>
    \/ /\ refs[connections] > 1
       /\ \E n \in FreeIds :
            /\ lists' = [lists EXCEPT ![n] = Edit(lists[connections], c, up)]
            /\ refs' = [refs EXCEPT ![connections] = @ - 1, ![n] = 1]
            /\ connections' = n

\* connectEstablished runs the connection callback with connected() true.
ConnectionUp(c) ==
    /\ conn[c] = "new"
    /\ conn' = [conn EXCEPT ![c] = "up"]
    /\ OnConnection(c, TRUE)
    /\ UNCHANGED <<rcvd, consumed, inbox, heard, pc, snap, seen, sentTo>>

\* The peer goes away: handleClose runs the callback with connected()
\* false, on the connection's thread, between two of its reads.
ConnectionDown(c) ==
    /\ conn[c] = "up" /\ pc[c] = "idle" /\ inbox[c] = <<>>
    /\ conn' = [conn EXCEPT ![c] = "down"]
    /\ OnConnection(c, FALSE)
    /\ UNCHANGED <<rcvd, consumed, inbox, heard, pc, snap, seen, sentTo>>

----------------------------------------------------------------------------
(* A read and the codec's onMessage                                        *)

\* handleRead appends the next k bytes the peer sent (TCP delivers them in
\* any segmentation) to inputBuffer_; onMessage takes every whole message
\* off it, to be handed to onStringMessage in order.
Read(c, k) ==
    LET buf == SubSeq(Wire(c), consumed[c] + 1, rcvd[c] + k)
        r   == OnMessage(buf)
    IN
    /\ conn[c] = "up" /\ pc[c] = "idle" /\ inbox[c] = <<>>
    /\ rcvd' = [rcvd EXCEPT ![c] = @ + k]
    /\ consumed' = [consumed EXCEPT ![c] = rcvd[c] + k - Len(r.rest)]
    /\ inbox' = [inbox EXCEPT ![c] = r.msgs]
    /\ heard' = [heard EXCEPT ![c] = @ \o r.msgs]
    /\ UNCHANGED <<conn, heap, pc, snap, seen, sentTo>>

----------------------------------------------------------------------------
(* onStringMessage                                                         *)

\* getConnectionList(): copy connections_ under mutex_.
GetConnectionList(c) ==
    /\ pc[c] = "idle" /\ inbox[c] # <<>>
    /\ pc' = [pc EXCEPT ![c] = "iter"]
    /\ snap' = [snap EXCEPT ![c] = connections]
    /\ refs' = [refs EXCEPT ![connections] = @ + 1]
    /\ seen' = [seen EXCEPT ![c] = lists[connections]]
    /\ UNCHANGED <<conn, rcvd, consumed, inbox, heard, lists, connections,
                   sentTo>>

\* codec_.send(*it, message) to the next member of the snapshot.
SendTo(c, x) ==
    /\ pc[c] = "iter"
    /\ x \in lists[snap[c]] \ sentTo[c]
    /\ sentTo' = [sentTo EXCEPT ![c] = @ \cup {x}]
    /\ UNCHANGED <<conn, rcvd, consumed, inbox, heard, heap, pc, snap, seen>>

\* The iteration ends; the local shared_ptr goes out of scope and deletes
\* the set if it was the last owner.  The next decoded message follows.
EndBroadcast(c) ==
    LET i == snap[c] IN
    /\ pc[c] = "iter" /\ lists[i] \subseteq sentTo[c]
    /\ refs' = [refs EXCEPT ![i] = @ - 1]
    /\ lists' = IF refs[i] = 1 THEN [lists EXCEPT ![i] = {}] ELSE lists
    /\ pc' = [pc EXCEPT ![c] = "idle"]
    /\ snap' = [snap EXCEPT ![c] = 0]
    /\ inbox' = [inbox EXCEPT ![c] = Tail(@)]
    /\ seen' = [seen EXCEPT ![c] = {}] /\ sentTo' = [sentTo EXCEPT ![c] = {}]
    /\ UNCHANGED <<conn, rcvd, consumed, heard, connections>>

----------------------------------------------------------------------------

Broadcast(c) ==
    \/ GetConnectionList(c)
    \/ \E x \in Conns : SendTo(c, x)
    \/ EndBroadcast(c)

Next ==
    \E c \in Conns :
        \/ ConnectionUp(c) \/ ConnectionDown(c)
        \/ \E k \in 1..(Len(Wire(c)) - rcvd[c]) : Read(c, k)
        \/ Broadcast(c)

\* Each loop thread runs its callbacks to the end, and a connected peer's
\* bytes keep arriving.  Connecting and disconnecting are up to the peers.
Fairness ==
    \A c \in Conns :
        /\ WF_vars(Broadcast(c))
        /\ WF_vars(\E k \in 1..(Len(Wire(c)) - rcvd[c]) : Read(c, k))

Spec == Init /\ [][Next]_vars /\ Fairness

----------------------------------------------------------------------------
(* Properties                                                              *)

\* A broadcast iterates a set nobody changes: while a thread walks its
\* snapshot, the members are those it had when getConnectionList copied
\* the pointer, however other threads connect and disconnect meanwhile.
\* A write to a shared set would invalidate the iterator.
SnapshotStable ==
    \A c \in Conns : pc[c] = "iter" => lists[snap[c]] = seen[c]

\* The codec hands on exactly the messages the peer sent, whole and in
\* order, however TCP splits the bytes: what is decoded is always a prefix
\* of what was sent, and all of it is decoded while the connection stays.
MessagesFramed ==
    /\ [](\A c \in Conns : IsPrefix(heard[c], Talk[c]))
    /\ \A c \in Conns : (conn[c] = "up") ~> (heard[c] = Talk[c] \/ conn[c] = "down")

=============================================================================
