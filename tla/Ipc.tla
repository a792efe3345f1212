-------------------------------- MODULE Ipc --------------------------------
(***************************************************************************)
(* The daemon's IPC channel: clients, the encrypted session of a           *)
(* connection, the server's connection tasks, its limits and its shutdown. *)
(*                                                                         *)
(* Code: crates/cpoe/src/ipc/async_client.rs, crypto.rs, server.rs and     *)
(* server_handler.rs.                                                      *)
(*                                                                         *)
(* A connection is a pair of byte streams that lose and reorder nothing;   *)
(* what is written in one call is one frame.  Every connection has keys of *)
(* its own, so a ciphertext is its sequence number: the server seals with  *)
(* odd numbers, the client with even ones.  A client waits for one answer  *)
(* at a time.  Every client has the role User and no message asks for      *)
(* more, so the refusal for a role is left out, and the access log with it. *)
(***************************************************************************)
EXTENDS Integers, Sequences, FiniteSets

CONSTANTS Clients,
          Strangers,    \* clients of another user or an executable not on the list
          Operations,   \* rate limit categories
          MaxOps,       \* operations of a category in a window
          MaxConns,     \* MAX_CONCURRENT_CONNECTIONS (16)
          SeqMax,       \* u64::MAX
          MaxConnects,  \* bound on connections made
          MaxRequests,  \* bound on requests made
          MaxStops      \* bound on stops and crashes of the daemon

ASSUME IpcAssumption ==
    /\ Clients # {} /\ Strangers \subseteq Clients /\ Operations # {}
    /\ MaxOps \in Nat /\ MaxConns \in Nat
    /\ SeqMax \in Nat /\ SeqMax >= 3   \* the handshake takes the numbers 0 and 1
    /\ MaxConnects \in Nat /\ MaxRequests \in Nat /\ MaxStops \in Nat

VARIABLES server,    \* run_with_shutdown: "up", "draining" or "down"
          active,    \* active_connections
          limiter,   \* operations of each category in the current window
          conn,      \* connections, by number
          client,
          requests,  \* number of requests made
          executed,  \* history: requests handed to the handler
          got,       \* history: <<request, request of the answer>>
          burnt,     \* history: connections whose client sealed a message it did not send
          desynced,  \* history: connections the server closed for a wrong sequence number
          stops      \* stops and crashes of the daemon so far

vars == <<server, active, limiter, conn, client, requests, executed, got, burnt, desynced, stops>>

-----------------------------------------------------------------------------
(* Values *)

Kinds == {"plain", "large", "verbose", "invalid"}

\* "large": over MAX_MESSAGE_SIZE when sealed.  "verbose": its answer is.
\* "invalid": it does not decode, or validate_paths refuses it.
Message == [op : Operations, kind : Kinds]

Connections == 1..MaxConnects
NoConn == 0

\* "length" and "message" are the two writes of a request.
Frame == [kind : {"hello", "confirm", "length", "message", "key", "answer"},
          seq : Nat, req : Nat, msg : Message]

Tasks == {"none", "backlog", "peer", "magic", "confirming", "length", "body", "handling", "ended"}

NoMsg == CHOOSE m \in Message : TRUE
Plain(kind, seq) == [kind |-> kind, seq |-> seq, req |-> 0, msg |-> NoMsg]

NewConn(c) ==
    [client |-> c, task |-> "backlog", open |-> TRUE, tx |-> 1, rx |-> 0,
     up |-> <<>>, down |-> <<>>, req |-> 0, msg |-> NoMsg]

Unmade == [client |-> CHOOSE c \in Clients : TRUE, task |-> "none", open |-> FALSE, tx |-> 1, rx |-> 0,
           up |-> <<>>, down |-> <<>>, req |-> 0, msg |-> NoMsg]

Down == [at |-> "down", conn |-> NoConn, tx |-> 0, rx |-> 1, req |-> 0, msg |-> NoMsg, junk |-> FALSE]

\* The server has a task for the connection.
Live(k) == conn[k].task \in {"peer", "magic", "confirming", "length", "body", "handling"}

\* encrypt takes a sequence number, if one is left.
Exhausted(seq) == seq >= SeqMax - 1

Init ==
    /\ server = "up"
    /\ active = 0
    /\ limiter = [o \in Operations |-> 0]
    /\ conn = [k \in Connections |-> Unmade]
    /\ client = [c \in Clients |-> Down]
    /\ requests = 0
    /\ executed = {} /\ got = {} /\ burnt = {} /\ desynced = {}
    /\ stops = 0

-----------------------------------------------------------------------------
(* Client: connect *)

Connect(c) ==
    \E k \in Connections :
        /\ client[c].at = "down" /\ server = "up"
        /\ conn[k].task = "none" /\ \A j \in 1..(k - 1) : conn[j].task # "none"
        /\ conn' = [conn EXCEPT ![k] = NewConn(c)]
        /\ client' = [client EXCEPT ![c] = [Down EXCEPT !.at = "connected", !.conn = k]]
        /\ UNCHANGED <<server, active, limiter, requests, executed, got, burnt, desynced, stops>>

\* Writing to a connection the server has closed fails.
Write(k, f) == IF conn[k].task = "ended" THEN conn[k].up ELSE Append(conn[k].up, f)

\* establish_secure_session: magic, version and public key.
SendHello(c) ==
    LET k == client[c].conn IN
    /\ client[c].at = "connected"
    /\ conn' = [conn EXCEPT ![k].up = Write(k, Plain("hello", 0))]
    /\ client' = [client EXCEPT ![c].at = "shaking"]
    /\ UNCHANGED <<server, active, limiter, requests, executed, got, burnt, desynced, stops>>

\* The server's key and confirmation arrive, the client's confirmation is sent.
FinishHandshake(c) ==
    LET k == client[c].conn IN
    /\ client[c].at = "shaking" /\ conn[k].down # <<>>
    /\ Head(conn[k].down).kind = "key" /\ Head(conn[k].down).seq = client[c].rx
    /\ conn' = [conn EXCEPT ![k].down = Tail(@), ![k].up = Write(k, Plain("confirm", client[c].tx))]
    /\ client' = [client EXCEPT ![c].at = "ready", ![c].rx = @ + 2, ![c].tx = @ + 2]
    /\ UNCHANGED <<server, active, limiter, requests, executed, got, burnt, desynced, stops>>

\* The client lets go of its stream.
Drop(c) ==
    /\ client' = [client EXCEPT ![c] = Down]
    /\ conn' = [conn EXCEPT ![client[c].conn].open = FALSE]

-----------------------------------------------------------------------------
(* Client: request *)

\* send_message seals first.  A message that turns out too large has used up a
\* sequence number; an exhausted session only reports it.
SendRefused(c) ==
    \E m \in Message :
        /\ client[c].at = "ready" /\ requests < MaxRequests
        /\ Exhausted(client[c].tx) \/ m.kind = "large"
        /\ requests' = requests + 1
        /\ IF Exhausted(client[c].tx)
           THEN UNCHANGED <<client, burnt>>
           ELSE /\ client' = [client EXCEPT ![c].tx = @ + 2]
                /\ burnt' = burnt \cup {client[c].conn}
        /\ UNCHANGED <<server, active, limiter, conn, executed, got, desynced, stops>>

\* Mutant of SendLength: the sequence number advances by one.
SendLengthByOne(c) ==
    LET k == client[c].conn IN
    \E m \in Message :
        /\ client[c].at = "ready" /\ requests < MaxRequests
        /\ ~Exhausted(client[c].tx) /\ m.kind # "large"
        /\ requests' = requests + 1
        /\ client' = [client EXCEPT ![c] = [client[c] EXCEPT !.at = "sending", !.tx = @ + 1,
                                                             !.req = requests', !.msg = m]]
        /\ conn' = [conn EXCEPT ![k].up = Write(k, Plain("length", 0))]
        /\ UNCHANGED <<server, active, limiter, executed, got, burnt, desynced, stops>>

\* The message is sealed and its length is written ...
SendLength(c) ==
    LET k == client[c].conn IN
    \E m \in Message :
        /\ client[c].at = "ready" /\ requests < MaxRequests
        /\ ~Exhausted(client[c].tx) /\ m.kind # "large"
        /\ requests' = requests + 1
        /\ client' = [client EXCEPT ![c] = [client[c] EXCEPT !.at = "sending", !.tx = @ + 2,
                                                             !.req = requests', !.msg = m]]
        /\ conn' = [conn EXCEPT ![k].up = Write(k, Plain("length", 0))]
        /\ UNCHANGED <<server, active, limiter, executed, got, burnt, desynced, stops>>

\* ... and then the message.
SendBody(c) ==
    LET k == client[c].conn
        f == [kind |-> "message", seq |-> client[c].tx - 2, req |-> client[c].req, msg |-> client[c].msg]
    IN
    /\ client[c].at = "sending" /\ conn[k].task # "ended"
    /\ conn' = [conn EXCEPT ![k].up = Write(k, f)]
    /\ client' = [client EXCEPT ![c].at = "waiting"]
    /\ UNCHANGED <<server, active, limiter, requests, executed, got, burnt, desynced, stops>>

\* A send or receive on a connection the server has closed fails: connect gives
\* the stream up, a request leaves it as it is.
Closed(c) ==
    LET k == client[c].conn IN
    /\ client[c].at \in {"shaking", "sending", "waiting"}
    /\ conn[k].task = "ended"
    /\ client[c].at # "sending" => conn[k].down = <<>>
    /\ IF client[c].at = "shaking"
       THEN Drop(c)
       ELSE client' = [client EXCEPT ![c].at = "ready"] /\ UNCHANGED conn
    /\ UNCHANGED <<server, active, limiter, requests, executed, got, burnt, desynced, stops>>

\* recv_message: an answer over MAX_MESSAGE_SIZE is left unread in the stream,
\* and what is read there afterwards makes no sense.
ReceiveAnswer(c) ==
    LET k == client[c].conn
        f == Head(conn[k].down)
    IN
    /\ client[c].at = "waiting" /\ ~client[c].junk /\ conn[k].down # <<>>
    /\ conn' = [conn EXCEPT ![k].down = Tail(@)]
    /\ IF f.msg.kind = "verbose" \/ f.seq # client[c].rx
       THEN /\ client' = [client EXCEPT ![c].at = "ready", ![c].junk = f.msg.kind = "verbose"]
            /\ UNCHANGED got
       ELSE /\ client' = [client EXCEPT ![c].at = "ready", ![c].rx = @ + 2]
            /\ got' = got \cup {<<client[c].req, f.req>>}
    /\ UNCHANGED <<server, active, limiter, requests, executed, burnt, desynced, stops>>

ReceiveJunk(c) ==
    /\ client[c].at = "waiting" /\ client[c].junk
    /\ client' = [client EXCEPT ![c].at = "ready"]
    /\ UNCHANGED <<server, active, limiter, conn, requests, executed, got, burnt, desynced, stops>>

\* Mutant of Timeout: a request that timed out keeps its connection.
TimeoutKeepsStream(c) ==
    /\ client[c].at \in {"connected", "shaking", "sending", "waiting"}
    /\ IF client[c].at = "waiting"
       THEN client' = [client EXCEPT ![c].at = "ready"] /\ UNCHANGED conn
       ELSE Drop(c)
    /\ UNCHANGED <<server, active, limiter, requests, executed, got, burnt, desynced, stops>>

\* Mutant of Timeout: waiting for an answer has no limit.
TimeoutOfSendOnly(c) ==
    /\ client[c].at \in {"connected", "shaking", "sending"}
    /\ Drop(c)
    /\ UNCHANGED <<server, active, limiter, requests, executed, got, burnt, desynced, stops>>

\* IO_TIMEOUT: the connection is poisoned.
Timeout(c) ==
    /\ client[c].at \in {"connected", "shaking", "sending", "waiting"}
    /\ Drop(c)
    /\ UNCHANGED <<server, active, limiter, requests, executed, got, burnt, desynced, stops>>

\* disconnect, reconnect, or the end of the client's process.
Disconnect(c) ==
    /\ client[c].at # "down"
    /\ Drop(c)
    /\ UNCHANGED <<server, active, limiter, requests, executed, got, burnt, desynced, stops>>

-----------------------------------------------------------------------------
(* Server: a connection task *)

\* Mutant of End: the task returns before the slot is given back.
EndKeepsSlot(k, record) ==
    /\ conn' = [conn EXCEPT ![k] = [record EXCEPT !.task = "ended"]]
    /\ active' = IF record.task \in {"peer", "magic"} THEN active ELSE active - 1

\* handle_connection returns, and the slot is given back.
End(k, record) ==
    /\ conn' = [conn EXCEPT ![k] = [record EXCEPT !.task = "ended"]]
    /\ active' = active - 1

Accept(k) ==
    /\ server = "up" /\ conn[k].task = "backlog"
    /\ IF active < MaxConns
       THEN conn' = [conn EXCEPT ![k].task = "peer"] /\ active' = active + 1
       ELSE conn' = [conn EXCEPT ![k].task = "ended"] /\ UNCHANGED active
    /\ UNCHANGED <<server, limiter, client, requests, executed, got, burnt, desynced, stops>>

CheckPeer(k) ==
    /\ conn[k].task = "peer"
    /\ IF conn[k].client \in Strangers
       THEN End(k, conn[k])
       ELSE conn' = [conn EXCEPT ![k].task = "magic"] /\ UNCHANGED active
    /\ UNCHANGED <<server, limiter, client, requests, executed, got, burnt, desynced, stops>>

\* The next frame of the client.
Arrives(k, kind) == conn[k].up # <<>> /\ Head(conn[k].up).kind = kind

\* secure_handshake_server: the key and the confirmation are sent.
ReadHello(k) ==
    /\ conn[k].task = "magic" /\ Arrives(k, "hello")
    /\ conn' = [conn EXCEPT ![k] = [conn[k] EXCEPT !.up = Tail(@), !.task = "confirming", !.tx = @ + 2,
                                                   !.down = Append(@, Plain("key", conn[k].tx))]]
    /\ UNCHANGED <<server, active, limiter, client, requests, executed, got, burnt, desynced, stops>>

ReadConfirm(k) ==
    /\ conn[k].task = "confirming" /\ Arrives(k, "confirm")
    /\ Head(conn[k].up).seq = conn[k].rx
    /\ conn' = [conn EXCEPT ![k] = [conn[k] EXCEPT !.up = Tail(@), !.task = "length", !.rx = @ + 2]]
    /\ UNCHANGED <<server, active, limiter, client, requests, executed, got, burnt, desynced, stops>>

ReadLength(k) ==
    /\ conn[k].task = "length" /\ Arrives(k, "length")
    /\ conn' = [conn EXCEPT ![k].up = Tail(@), ![k].task = "body"]
    /\ UNCHANGED <<server, active, limiter, client, requests, executed, got, burnt, desynced, stops>>

\* HANDSHAKE_TIMEOUT and IDLE_TIMEOUT.  The magic and the body of a message are
\* read without one.
ServerTimeout(k) ==
    /\ conn[k].task \in {"confirming", "length"} /\ conn[k].up = <<>>
    /\ End(k, conn[k])
    /\ UNCHANGED <<server, limiter, client, requests, executed, got, burnt, desynced, stops>>

\* Mutant of ReadEof: an end of file in the middle of a message is not noticed.
ReadEofAtLength(k) ==
    /\ conn[k].task \in {"magic", "confirming", "length"} /\ conn[k].up = <<>>
    /\ ~conn[k].open
    /\ End(k, conn[k])
    /\ UNCHANGED <<server, limiter, client, requests, executed, got, burnt, desynced, stops>>

\* The client is gone and what it wrote has been read.
ReadEof(k) ==
    /\ conn[k].task \in {"magic", "confirming", "length", "body"} /\ conn[k].up = <<>>
    /\ ~conn[k].open
    /\ End(k, conn[k])
    /\ UNCHANGED <<server, limiter, client, requests, executed, got, burnt, desynced, stops>>

\* decrypt refuses a sequence number other than the next.
ReadDesync(k) ==
    /\ conn[k].task = "body" /\ Arrives(k, "message")
    /\ Head(conn[k].up).seq # conn[k].rx
    /\ desynced' = desynced \cup {k}
    /\ End(k, [conn[k] EXCEPT !.up = Tail(@)])
    /\ UNCHANGED <<server, limiter, client, requests, executed, got, burnt, stops>>

\* send_encrypted for an answer to frame f.
Sealed(r, f) ==
    IF Exhausted(r.tx)
    THEN r
    ELSE [r EXCEPT !.tx = @ + 2,
                   !.down = IF r.open THEN Append(@, [f EXCEPT !.kind = "answer", !.seq = r.tx]) ELSE @]

Refuses(m) == m.kind = "invalid" \/ limiter[m.op] >= MaxOps

\* An error is answered as well as it can be, and the task goes on.
ReadRefused(k) ==
    LET f == Head(conn[k].up) IN
    /\ conn[k].task = "body" /\ Arrives(k, "message")
    /\ f.seq = conn[k].rx /\ Refuses(f.msg)
    /\ conn' = [conn EXCEPT ![k] =
                   Sealed([conn[k] EXCEPT !.up = Tail(@), !.rx = @ + 2, !.task = "length"],
                          [f EXCEPT !.msg.kind = "invalid"])]
    /\ UNCHANGED <<server, active, limiter, client, requests, executed, got, burnt, desynced, stops>>

ReadRequest(k) ==
    LET f == Head(conn[k].up) IN
    /\ conn[k].task = "body" /\ Arrives(k, "message")
    /\ f.seq = conn[k].rx /\ ~Refuses(f.msg)
    /\ limiter' = [limiter EXCEPT ![f.msg.op] = @ + 1]
    /\ executed' = executed \cup {f.req}
    /\ conn' = [conn EXCEPT ![k] = [conn[k] EXCEPT !.up = Tail(@), !.rx = @ + 2, !.task = "handling",
                                                   !.req = f.req, !.msg = f.msg]]
    /\ UNCHANGED <<server, active, client, requests, got, burnt, desynced, stops>>

\* The handler returns; an answer that cannot be sealed or sent ends the task.
Respond(k) ==
    LET f == [kind |-> "answer", seq |-> 0, req |-> conn[k].req, msg |-> conn[k].msg] IN
    /\ conn[k].task = "handling"
    /\ IF conn[k].open /\ ~Exhausted(conn[k].tx)
       THEN conn' = [conn EXCEPT ![k] = Sealed([conn[k] EXCEPT !.task = "length"], f)] /\ UNCHANGED active
       ELSE End(k, conn[k])
    /\ UNCHANGED <<server, limiter, client, requests, executed, got, burnt, desynced, stops>>

-----------------------------------------------------------------------------
(* Server: limits and shutdown *)

\* The window of a category is over: its next operation starts a new one.
WindowElapses(o) ==
    /\ limiter[o] > 0
    /\ limiter' = [limiter EXCEPT ![o] = 0]
    /\ UNCHANGED <<server, active, conn, client, requests, executed, got, burnt, desynced, stops>>

\* run_with_shutdown removes the socket and lets the tasks finish.
Shutdown ==
    /\ server = "up" /\ stops < MaxStops
    /\ server' = "draining"
    /\ UNCHANGED <<active, limiter, conn, client, requests, executed, got, burnt, desynced, stops>>

\* The drain is over, or the process ends: all streams are closed.
Stop ==
    /\ server # "down" /\ stops < MaxStops
    /\ server' = "down"
    /\ stops' = stops + 1
    /\ active' = 0
    /\ limiter' = [o \in Operations |-> 0]
    /\ conn' = [k \in Connections |->
                   IF conn[k].task = "none" THEN conn[k] ELSE [conn[k] EXCEPT !.task = "ended"]]
    /\ UNCHANGED <<client, requests, executed, got, burnt, desynced>>

Start ==
    /\ server = "down"
    /\ server' = "up"
    /\ UNCHANGED <<active, limiter, conn, client, requests, executed, got, burnt, desynced, stops>>

-----------------------------------------------------------------------------

\* What a client does without being asked to.
ClientReacts(c) ==
    FinishHandshake(c) \/ Closed(c) \/ ReceiveAnswer(c) \/ ReceiveJunk(c) \/ Timeout(c)

ClientActs(c) ==
    \/ Connect(c) \/ SendHello(c)
    \/ SendRefused(c) \/ SendLength(c) \/ SendBody(c)
    \/ Disconnect(c)

TaskStep(k) ==
    \/ Accept(k) \/ CheckPeer(k) \/ ReadHello(k) \/ ReadConfirm(k)
    \/ ReadLength(k) \/ ReadDesync(k) \/ ReadRefused(k) \/ ReadRequest(k)
    \/ ReadEof(k) \/ ServerTimeout(k)

Next ==
    \/ \E c \in Clients : ClientReacts(c) \/ ClientActs(c)
    \/ \E k \in Connections : TaskStep(k) \/ Respond(k)
    \/ \E o \in Operations : WindowElapses(o)
    \/ Shutdown \/ Stop \/ Start

Spec == Init /\ [][Next]_vars

\* The runtime schedules every task that can run, and every read with a time limit
\* ends.  Nothing is assumed of handlers, of users and of clients that stall.
FairSpec ==
    /\ Spec
    /\ \A c \in Clients : WF_vars(ClientReacts(c))
    /\ \A k \in Connections : WF_vars(TaskStep(k))

-----------------------------------------------------------------------------
(* Properties *)

ConnState == [client : Clients, task : Tasks, open : BOOLEAN, tx : 0..SeqMax, rx : 0..SeqMax,
              up : Seq(Frame), down : Seq(Frame), req : Nat, msg : Message]

ClientState == [at : {"down", "connected", "shaking", "ready", "sending", "waiting"},
                conn : 0..MaxConnects, tx : 0..SeqMax, rx : 0..SeqMax,
                req : Nat, msg : Message, junk : BOOLEAN]

\* Sequence numbers stay within their 64 bits on both sides.
TypeOK ==
    /\ server \in {"up", "draining", "down"}
    /\ active \in 0..MaxConns
    /\ limiter \in [Operations -> 0..MaxOps]
    /\ conn \in [Connections -> ConnState]
    /\ client \in [Clients -> ClientState]
    /\ requests \in Nat
    /\ executed \in SUBSET Nat
    /\ got \in SUBSET (Nat \X Nat)
    /\ burnt \in SUBSET Connections /\ desynced \in SUBSET Connections
    /\ stops \in Nat

\* An answer that recv_message accepts is the answer to the request the client has
\* just sent, also after timeouts, answers that were too large, lost answers and
\* restarts of the daemon.
AnswerIsToItsRequest == \A p \in got : p[1] = p[2]

\* The server meets a wrong sequence number only on a connection on which the client
\* sealed a message and then found it too large to send.
DesyncOnlyAfterRefusal == desynced \subseteq burnt

\* active_connections counts the tasks that run: no way out of a task leaks a slot.
SlotsMatchTasks == active = Cardinality({k \in Connections : Live(k)})

\* Every request ends, with an answer or an error, whatever the daemon does.
RequestsEnd ==
    \A c \in Clients : (client[c].at \in {"sending", "waiting"}) ~> (client[c].at \in {"ready", "down"})

\* The task of a client that is gone ends, unless its handler never returns.
TasksEnd ==
    \A k \in Connections : (Live(k) /\ ~conn[k].open) ~> (~Live(k) \/ conn[k].task = "handling")
=============================================================================
