----------------------------- MODULE IpcProofs -----------------------------
(***************************************************************************)
(* Slots, sequence numbers and answers of the IPC channel, for any number  *)
(* of clients, connections, requests and restarts of the daemon.           *)
(*                                                                         *)
(* The properties speak of what was counted, received or refused; that     *)
(* they hold follows from what is under way.  ConnOK says where the        *)
(* sequence numbers of the messages in the stream to the server stand      *)
(* against the one it expects, ClientOK where the next one of the client   *)
(* does, and InStep that a client which could read every answer so far     *)
(* never has more than one request out.                                    *)
(***************************************************************************)
EXTENDS Ipc, FiniteSetTheorems, SequenceTheorems, TLAPS

Early == {"none", "backlog", "peer", "magic"}
Talking == {"confirming", "length", "body", "handling"}

\* The number that a message at the head of the stream to the server would have to have,
\* less one: in between messages there is a length to be read first.
Base(k) == conn[k].rx - (IF conn[k].task \in {"confirming", "body"} THEN 1 ELSE 2)

\* A connection, whatever its client is doing.
ConnOK(k) ==
    /\ conn[k].task \in Early =>
          /\ conn[k].tx = 1 /\ conn[k].rx = 0
          /\ Len(conn[k].up) <= 1 /\ conn[k].down = <<>>
          /\ \A i \in 1..Len(conn[k].up) : conn[k].up[i].kind = "hello"
    /\ \A i \in 1..Len(conn[k].up) :
          conn[k].up[i].kind \in {"confirm", "message"} => conn[k].up[i].seq + 2 <= SeqMax
    /\ \A i \in 1..Len(conn[k].down) : conn[k].down[i].seq + 2 <= SeqMax
    /\ conn[k].task \in Talking /\ k \notin burnt =>
          \A i \in 1..Len(conn[k].up) :
             conn[k].up[i].kind = "message" => conn[k].up[i].seq = Base(k) + i

\* No message is on its way to the server.
NoMessage(k) == \A i \in 1..Len(conn[k].up) : conn[k].up[i].kind # "message"

\* The request of client c, if it waits for the answer, is on its way, is being handled
\* or is answered, and it is the only one.
InStep(c, k) ==
    /\ client[c].at \in {"ready", "sending"} => conn[k].down = <<>>
    /\ client[c].at \in {"ready", "sending"} /\ conn[k].task # "ended" =>
          NoMessage(k) /\ conn[k].task # "handling"
    /\ client[c].at = "waiting" /\ conn[k].task # "ended" =>
          /\ \A i \in 1..Len(conn[k].up) : conn[k].up[i].kind = "message" =>
                i = Len(conn[k].up) /\ conn[k].up[i].req = client[c].req
          /\ conn[k].task = "handling" =>
                NoMessage(k) /\ conn[k].down = <<>> /\ conn[k].req = client[c].req
          /\ conn[k].down # <<>> => NoMessage(k)
    /\ client[c].at = "waiting" /\ conn[k].down # <<>> =>
          Len(conn[k].down) = 1 /\ conn[k].down[1].req = client[c].req

\* A client and its connection.
Joined(c, k) ==
    /\ k \in Connections /\ conn[k].client = c /\ conn[k].task # "none"
    /\ client[c].at \in {"connected", "shaking"} => client[c].tx = 0 /\ client[c].rx = 1
    /\ client[c].at \in {"ready", "sending", "waiting"} =>
          client[c].tx >= 2 /\ conn[k].task \in Talking \cup {"ended"}
    /\ client[c].at = "connected" =>
          /\ conn[k].task \in Early \cup {"ended"} /\ conn[k].down = <<>>
          /\ conn[k].task # "ended" => conn[k].up = <<>>
    /\ client[c].at = "shaking" =>
          /\ conn[k].task \in Early \cup {"confirming", "ended"} /\ Len(conn[k].down) <= 1
          /\ conn[k].task = "confirming" => conn[k].up = <<>> /\ conn[k].rx = 0
    /\ conn[k].task # "ended" /\ k \notin burnt =>
          /\ client[c].at \in {"ready", "waiting"} => client[c].tx = Base(k) + Len(conn[k].up) + 2
          /\ client[c].at = "sending" => client[c].tx = Base(k) + Len(conn[k].up) + 3
    /\ ~client[c].junk => InStep(c, k)

ClientOK(c) == client[c].at # "down" => Joined(c, client[c].conn)

IInv ==
    /\ TypeOK
    /\ SlotsMatchTasks
    /\ \A k \in Connections : ConnOK(k)
    /\ \A c \in Clients : ClientOK(c)
    /\ AnswerIsToItsRequest
    /\ DesyncOnlyAfterRefusal

-----------------------------------------------------------------------------
(* Streams and records *)

LEMMA Defaults == NoMsg \in Message /\ Unmade \in ConnState /\ Down \in ClientState
  <1>1. NoMsg \in Message
    <2>1. PICK o \in Operations : TRUE
      BY IpcAssumption
    <2>2. [op |-> o, kind |-> "plain"] \in Message
      BY DEF Message, Kinds
    <2> QED
      BY <2>2 DEF NoMsg
  <1>2. (CHOOSE c \in Clients : TRUE) \in Clients
    BY IpcAssumption
  <1>3. Unmade \in ConnState
    BY <1>1, <1>2, IpcAssumption DEF Unmade, ConnState, Tasks
  <1>4. Down \in ClientState
    BY <1>1, IpcAssumption DEF Down, ClientState, NoConn
  <1> QED
    BY <1>1, <1>3, <1>4

\* What is left of a stream when its first frame has been read.
LEMMA Shorter ==
  ASSUME NEW s \in Seq(Frame), s # <<>>
  PROVE  /\ Len(s) \in Nat /\ Len(s) >= 1
         /\ Head(s) = s[1] /\ s[1] \in Frame
         /\ Tail(s) \in Seq(Frame) /\ Len(Tail(s)) = Len(s) - 1
         /\ \A i \in 1..Len(Tail(s)) : i + 1 \in 1..Len(s) /\ Tail(s)[i] = s[i + 1]
  BY HeadTailProperties, LenProperties

\* ... and when one has been written.
LEMMA Longer ==
  ASSUME NEW s \in Seq(Frame), NEW f \in Frame
  PROVE  /\ Append(s, f) \in Seq(Frame) /\ Append(s, f) # <<>>
         /\ Len(Append(s, f)) = Len(s) + 1 /\ Len(s) \in Nat
         /\ \A i \in 1..Len(s) : Append(s, f)[i] = s[i]
         /\ Append(s, f)[Len(s) + 1] = f
  BY AppendProperties, LenProperties

LEMMA Empty ==
  ASSUME NEW s \in Seq(Frame)
  PROVE  Len(s) \in Nat /\ (s = <<>> <=> Len(s) = 0)
  BY EmptySeq, LenProperties

LEMMA EmptyFrames == <<>> \in Seq(Frame) /\ Len(<<>>) = 0
  OBVIOUS

\* A stream with one frame in it is empty when that has been read.
LEMMA LastOne ==
  ASSUME NEW s \in Seq(Frame), s # <<>>, Len(s) <= 1
  PROVE  Tail(s) = <<>>
  <1>1. Tail(s) \in Seq(Frame) /\ Len(Tail(s)) = Len(s) - 1 /\ Len(s) \in Nat /\ Len(s) >= 1
    BY Shorter
  <1>2. Len(Tail(s)) = 0
    BY <1>1
  <1> QED
    BY <1>1, <1>2, Empty

LEMMA PlainType ==
  ASSUME NEW kind \in {"hello", "confirm", "length", "key"}, NEW seq \in Nat
  PROVE  Plain(kind, seq) \in Frame /\ Plain(kind, seq).kind = kind /\ Plain(kind, seq).seq = seq
  BY Defaults DEF Plain, Frame

\* Only connection k changes.
ConnTo(k, r) ==
    /\ conn' \in [Connections -> ConnState] /\ conn'[k] = r
    /\ \A j \in Connections \ {k} : conn'[j] = conn[j]

\* Only client c changes.
ClientTo(c, q) ==
    /\ client' \in [Clients -> ClientState] /\ client'[c] = q
    /\ \A d \in Clients \ {c} : client'[d] = client[d]

LEMMA ConnMoves ==
  ASSUME TypeOK, NEW k \in Connections, NEW r \in ConnState, conn' = [conn EXCEPT ![k] = r]
  PROVE  ConnTo(k, r)
  BY DEF TypeOK, ConnTo

LEMMA ClientMoves ==
  ASSUME TypeOK, NEW c \in Clients, NEW q \in ClientState, client' = [client EXCEPT ![c] = q]
  PROVE  ClientTo(c, q)
  BY DEF TypeOK, ClientTo

\* A connection that nothing happens to.
LEMMA ConnKeeps ==
  ASSUME NEW j \in Connections, ConnOK(j), conn'[j] = conn[j], burnt \subseteq burnt'
  PROVE  ConnOK(j)'
  BY DEF ConnOK, Base

\* A client that nothing happens to, nor to its connection.
LEMMA ClientKeeps ==
  ASSUME NEW d \in Clients, ClientOK(d), client'[d] = client[d],
         client[d].at # "down" => conn'[client[d].conn] = conn[client[d].conn],
         burnt \subseteq burnt'
  PROVE  ClientOK(d)'
  BY DEF ClientOK, Joined, InStep, NoMessage, Base

\* Two clients have connections of their own.
LEMMA Apart ==
  ASSUME NEW c \in Clients, NEW d \in Clients, ClientOK(c), ClientOK(d),
         client[c].at # "down", client[d].at # "down", client[c].conn = client[d].conn
  PROVE  c = d
  BY DEF ClientOK, Joined

-----------------------------------------------------------------------------
(* Slots *)

LiveSet == {k \in Connections : Live(k)}

LEMMA SlotsKeep ==
  ASSUME SlotsMatchTasks, active' = active, \A k \in Connections : Live(k)' <=> Live(k)
  PROVE  SlotsMatchTasks'
  <1>1. LiveSet' = LiveSet
    BY DEF LiveSet
  <1> QED
    BY <1>1 DEF SlotsMatchTasks, LiveSet

LEMMA LiveFinite == IsFiniteSet(LiveSet) /\ Cardinality(LiveSet) \in Nat
  <1>1. IsFiniteSet(Connections)
    BY FS_Interval, IpcAssumption DEF Connections
  <1>2. IsFiniteSet(LiveSet)
    BY <1>1, FS_Subset DEF LiveSet
  <1> QED
    BY <1>2, FS_CardinalityType

LEMMA SlotTaken ==
  ASSUME SlotsMatchTasks, NEW k \in Connections, active' = active + 1, ~Live(k), Live(k)',
         \A j \in Connections \ {k} : Live(j)' <=> Live(j)
  PROVE  SlotsMatchTasks'
  <1>1. LiveSet' = LiveSet \cup {k} /\ k \notin LiveSet
    BY DEF LiveSet
  <1>2. Cardinality(LiveSet \cup {k}) = Cardinality(LiveSet) + 1
    BY <1>1, LiveFinite, FS_AddElement
  <1> QED
    BY <1>1, <1>2 DEF SlotsMatchTasks, LiveSet

LEMMA SlotReturned ==
  ASSUME SlotsMatchTasks, NEW k \in Connections, active' = active - 1, Live(k), ~Live(k)',
         \A j \in Connections \ {k} : Live(j)' <=> Live(j)
  PROVE  SlotsMatchTasks' /\ active >= 1
  <1>1. LiveSet' = LiveSet \ {k} /\ k \in LiveSet
    BY DEF LiveSet
  <1>2. Cardinality(LiveSet \ {k}) = Cardinality(LiveSet) - 1 /\ Cardinality(LiveSet \ {k}) \in Nat
    BY <1>1, LiveFinite, FS_RemoveElement, FS_CardinalityType
  <1>3. Cardinality(LiveSet) >= 1
    BY <1>2, LiveFinite
  <1> QED
    BY <1>1, <1>2, <1>3 DEF SlotsMatchTasks, LiveSet

-----------------------------------------------------------------------------
(* A step of one connection task *)

\* A step of the server at connection k disturbs that connection and its client.
LEMMA ServerStep ==
  ASSUME IInv, NEW k \in Connections, NEW r \in ConnState, ConnTo(k, r),
         client' = client, burnt' = burnt, ConnOK(k)',
         \A c \in Clients : client[c].at # "down" /\ client[c].conn = k => Joined(c, k)'
  PROVE  (\A j \in Connections : ConnOK(j)') /\ (\A c \in Clients : ClientOK(c)')
  <1>1. ASSUME NEW j \in Connections
        PROVE  ConnOK(j)'
    <2>1. CASE j = k
      BY <2>1
    <2>2. CASE j # k
      BY <2>2, ConnKeeps DEF IInv, ConnTo
    <2> QED
      BY <2>1, <2>2
  <1>2. ASSUME NEW c \in Clients
        PROVE  ClientOK(c)'
    <2>1. CASE client[c].at # "down" /\ client[c].conn = k
      BY <2>1 DEF ClientOK
    <2>2. CASE ~(client[c].at # "down" /\ client[c].conn = k)
      <3>1. client[c].at # "down" => client[c].conn \in Connections
        BY DEF IInv, ClientOK, Joined
      <3> QED
        BY <2>2, <3>1, ClientKeeps DEF IInv, ConnTo
    <2> QED
      BY <2>1, <2>2
  <1> QED
    BY <1>1, <1>2

\* The task of connection k ends, having read all or all but one of what it used to have.
LEMMA Ends ==
  ASSUME IInv, NEW k \in Connections, NEW r \in ConnState, ConnTo(k, r),
         client' = client, burnt' = burnt,
         r.client = conn[k].client, r.task = "ended", r.down = conn[k].down,
         \/ r.up = conn[k].up
         \/ conn[k].up # <<>> /\ r.up = Tail(conn[k].up)
  PROVE  (\A j \in Connections : ConnOK(j)') /\ (\A c \in Clients : ClientOK(c)')
  <1>0. conn[k] \in ConnState /\ conn[k].up \in Seq(Frame) /\ conn'[k] = r
    BY DEF IInv, TypeOK, ConnState, ConnTo
  <1>1. /\ conn'[k].client = conn[k].client /\ conn'[k].task = "ended"
        /\ conn'[k].down = conn[k].down /\ conn'[k].up = r.up
    BY <1>0
  <1>2. \A i \in 1..Len(r.up) : r.up[i].kind \in {"confirm", "message"} => r.up[i].seq + 2 <= SeqMax
    <2>1. CASE r.up = conn[k].up
      BY <2>1 DEF IInv, ConnOK
    <2>2. CASE conn[k].up # <<>> /\ r.up = Tail(conn[k].up)
      BY <2>2, <1>0, Shorter DEF IInv, ConnOK
    <2> QED
      BY <2>1, <2>2
  <1>3. ConnOK(k)'
    <2>1. ConnOK(k)
      BY DEF IInv
    <2> QED
      BY <1>1, <1>2, <2>1 DEF ConnOK, Early, Talking
  <1>4. ASSUME NEW c \in Clients, client[c].at # "down", client[c].conn = k
        PROVE  Joined(c, k)'
    <2>1. Joined(c, k)
      BY <1>4 DEF IInv, ClientOK
    <2> QED
      BY <1>1, <2>1 DEF Joined, InStep
  <1> QED
    BY <1>3, <1>4, ServerStep

\* A connection the server has not said anything on yet is accepted, or its peer is let in.
LEMMA LetsIn ==
  ASSUME IInv, NEW k \in Connections, NEW r \in ConnState, ConnTo(k, r),
         client' = client, burnt' = burnt, conn[k].task \in Early, r.task \in Early \ {"none"},
         conn[k].task # "none",
         r.client = conn[k].client, r.up = conn[k].up, r.down = conn[k].down,
         r.tx = conn[k].tx, r.rx = conn[k].rx
  PROVE  (\A j \in Connections : ConnOK(j)') /\ (\A c \in Clients : ClientOK(c)')
  <1>1. /\ conn'[k].client = conn[k].client /\ conn'[k].task = r.task /\ conn'[k].down = conn[k].down
        /\ conn'[k].up = conn[k].up /\ conn'[k].tx = conn[k].tx /\ conn'[k].rx = conn[k].rx
    BY DEF ConnTo
  <1>2. ConnOK(k)'
    <2>1. ConnOK(k)
      BY DEF IInv
    <2> QED
      BY <1>1, <2>1 DEF ConnOK, Early, Talking
  <1>3. ASSUME NEW c \in Clients, client[c].at # "down", client[c].conn = k
        PROVE  Joined(c, k)'
    <2>1. Joined(c, k)
      BY <1>3 DEF IInv, ClientOK
    <2>2. client[c].at \notin {"ready", "sending", "waiting"}
      BY <2>1 DEF Joined, Early, Talking
    <2> QED
      BY <1>1, <2>1, <2>2 DEF Joined, InStep, Early
  <1> QED
    BY <1>2, <1>3, ServerStep

\* The server reads one frame of a session that is open: every message left behind it
\* moves up by one, and so does the number the first of them would have.
LEMMA ReadsOne ==
  ASSUME IInv, NEW k \in Connections, NEW r \in ConnState, ConnTo(k, r),
         client' = client, burnt' = burnt,
         conn[k].task \in Talking, conn[k].up # <<>>,
         r.task \in {"length", "body", "handling"}, r.up = Tail(conn[k].up),
         r.client = conn[k].client, Base(k)' = Base(k) + 1,
         \A i \in 1..Len(r.down) : r.down[i].seq + 2 <= SeqMax,
         \A c \in Clients : Joined(c, k) /\ ~client[c].junk => InStep(c, k)'
  PROVE  (\A j \in Connections : ConnOK(j)') /\ (\A c \in Clients : ClientOK(c)')
  <1>0. conn[k] \in ConnState /\ conn[k].up \in Seq(Frame) /\ conn'[k] = r
    BY DEF IInv, TypeOK, ConnState, ConnTo
  <1>1. /\ conn'[k].client = conn[k].client /\ conn'[k].task = r.task
        /\ conn'[k].up = Tail(conn[k].up) /\ conn'[k].down = r.down
    BY <1>0
  <1>2. ConnOK(k)
    BY DEF IInv
  <1>3. /\ Len(conn[k].up) \in Nat /\ Len(conn'[k].up) = Len(conn[k].up) - 1
        /\ \A i \in 1..Len(conn'[k].up) : i + 1 \in 1..Len(conn[k].up) /\ conn'[k].up[i] = conn[k].up[i + 1]
    <2>1. conn[k].up \in Seq(Frame) /\ conn[k].up # <<>>
      BY <1>0
    <2> HIDE <1>0
    <2> QED
      BY <2>1, <1>1, Shorter
  <1>4. Base(k) \in Int
    BY <1>0 DEF Base, ConnState
  <1>5. ConnOK(k)'
    <2>1. \A i \in 1..Len(conn'[k].up) :
             conn'[k].up[i].kind \in {"confirm", "message"} => conn'[k].up[i].seq + 2 <= SeqMax
      BY <1>2, <1>3 DEF ConnOK
    <2>2. k \notin burnt => \A i \in 1..Len(conn'[k].up) :
             conn'[k].up[i].kind = "message" => conn'[k].up[i].seq = Base(k)' + i
      <3>1. ASSUME k \notin burnt, NEW i \in 1..Len(conn'[k].up), conn'[k].up[i].kind = "message"
            PROVE  conn'[k].up[i].seq = Base(k)' + i
        <4>1. i + 1 \in 1..Len(conn[k].up) /\ conn'[k].up[i] = conn[k].up[i + 1]
          BY <1>3
        <4>2. conn[k].up[i + 1].seq = Base(k) + (i + 1)
          BY <1>2, <3>1, <4>1 DEF ConnOK
        <4> QED
          BY <4>1, <4>2, <1>3, <1>4
      <3> QED
        BY <3>1
    <2> QED
      BY <1>1, <2>1, <2>2 DEF ConnOK, Early, Talking
  <1>6. ASSUME NEW c \in Clients, client[c].at # "down", client[c].conn = k
        PROVE  Joined(c, k)'
    <2>1. Joined(c, k)
      BY <1>6 DEF IInv, ClientOK
    <2>2. client[c].at \notin {"connected", "shaking"}
      BY <2>1 DEF Joined, Early, Talking
    <2>3. Base(k)' + Len(conn'[k].up) = Base(k) + Len(conn[k].up)
      BY <1>3, <1>4
    <2>4. k \notin burnt =>
            /\ client[c].at \in {"ready", "waiting"} => client[c].tx = Base(k)' + Len(conn'[k].up) + 2
            /\ client[c].at = "sending" => client[c].tx = Base(k)' + Len(conn'[k].up) + 3
      BY <2>1, <2>3 DEF Joined, Talking
    <2>5. ~client[c].junk => InStep(c, k)'
      BY <2>1
    <2> QED
      BY <1>1, <2>1, <2>2, <2>4, <2>5 DEF Joined, Talking
  <1> QED
    BY <1>5, <1>6, ServerStep

\* A frame that is left behind the first one, as the client of the connection sees it.
LEMMA StillInStep ==
  ASSUME NEW k \in Connections, NEW c \in Clients, conn[k].up \in Seq(Frame), conn[k].up # <<>>,
         InStep(c, k), client' = client, conn[k].task # "ended", conn'[k].task \in {"length", "body"},
         conn'[k].up = Tail(conn[k].up), conn'[k].down = conn[k].down
  PROVE  InStep(c, k)'
  <1>1. /\ Len(conn[k].up) \in Nat /\ Len(conn'[k].up) = Len(conn[k].up) - 1
        /\ \A i \in 1..Len(conn'[k].up) : i + 1 \in 1..Len(conn[k].up) /\ conn'[k].up[i] = conn[k].up[i + 1]
    BY Shorter
  <1>2. NoMessage(k) => NoMessage(k)'
    BY <1>1 DEF NoMessage
  <1>3. ASSUME client[c].at = "waiting", NEW i \in 1..Len(conn'[k].up), conn'[k].up[i].kind = "message"
        PROVE  i = Len(conn'[k].up) /\ conn'[k].up[i].req = client[c].req
    <2>1. i + 1 \in 1..Len(conn[k].up) /\ conn'[k].up[i] = conn[k].up[i + 1]
      BY <1>1
    <2>2. i + 1 = Len(conn[k].up) /\ conn[k].up[i + 1].req = client[c].req
      BY <1>3, <2>1 DEF InStep
    <2> QED
      BY <1>1, <2>1, <2>2
  <1> QED
    BY <1>2, <1>3 DEF InStep

LEMMA LiveMoves ==
  ASSUME NEW k \in Connections, NEW r, ConnTo(k, r)
  PROVE  /\ Live(k)' <=> r.task \in {"peer"} \cup {"magic"} \cup Talking
         /\ \A j \in Connections \ {k} : Live(j)' <=> Live(j)
         /\ Live(k) <=> conn[k].task \in {"peer"} \cup {"magic"} \cup Talking
  BY DEF ConnTo, Live, Talking

\* What a step at one connection leaves to be shown when its session is in order.
LEMMA ServerSettles ==
  ASSUME IInv, NEW k \in Connections, NEW r \in ConnState, ConnTo(k, r),
         UNCHANGED <<server, client, requests, got, burnt, stops>>,
         active' \in 0..MaxConns, limiter' \in [Operations -> 0..MaxOps], executed' \in SUBSET Nat,
         desynced' \subseteq burnt,
         SlotsMatchTasks',
         \A j \in Connections : ConnOK(j)', \A c \in Clients : ClientOK(c)'
  PROVE  IInv'
  <1>1. TypeOK'
    BY DEF IInv, TypeOK, ConnTo
  <1>2. AnswerIsToItsRequest' /\ DesyncOnlyAfterRefusal'
    BY DEF IInv, AnswerIsToItsRequest, DesyncOnlyAfterRefusal
  <1> QED
    BY <1>1, <1>2 DEF IInv

\* ... also when the task has ended and its slot is given back.
LEMMA EndSettles ==
  ASSUME IInv, NEW k \in Connections, NEW r \in ConnState, ConnTo(k, r), Live(k),
         UNCHANGED <<server, limiter, client, requests, executed, got, burnt, stops>>,
         active' = active - 1, desynced' \subseteq burnt,
         r.client = conn[k].client, r.task = "ended", r.down = conn[k].down,
         \/ r.up = conn[k].up
         \/ conn[k].up # <<>> /\ r.up = Tail(conn[k].up)
  PROVE  IInv'
  <1>1. (\A j \in Connections : ConnOK(j)') /\ (\A c \in Clients : ClientOK(c)')
    BY Ends
  <1>2. ~Live(k)' /\ \A j \in Connections \ {k} : Live(j)' <=> Live(j)
    BY LiveMoves DEF Talking
  <1>3. SlotsMatchTasks' /\ active >= 1
    BY <1>2, SlotReturned DEF IInv
  <1>4. active' \in 0..MaxConns /\ limiter' \in [Operations -> 0..MaxOps] /\ executed' \in SUBSET Nat
    BY <1>3, IpcAssumption DEF IInv, TypeOK
  <1> QED
    BY <1>1, <1>3, <1>4, ServerSettles

\* The record of a task that ends with everything else as it was.
LEMMA EndedRecord ==
  ASSUME NEW q \in ConnState, NEW r, r = [q EXCEPT !.task = "ended"]
  PROVE  /\ r \in ConnState /\ r.client = q.client /\ r.task = "ended"
         /\ r.down = q.down /\ r.up = q.up
  BY DEF ConnState, Tasks

LEMMA ConnType ==
  ASSUME IInv, NEW k \in Connections
  PROVE  conn[k] \in ConnState /\ conn[k].up \in Seq(Frame) /\ conn[k].down \in Seq(Frame)
         /\ conn[k].tx \in 0..SeqMax /\ conn[k].rx \in 0..SeqMax
  BY DEF IInv, TypeOK, ConnState

\* End(k, conn[k]) of a live task.
LEMMA PlainEnd ==
  ASSUME IInv, NEW k \in Connections, Live(k), End(k, conn[k]),
         UNCHANGED <<server, limiter, client, requests, executed, got, burnt, desynced, stops>>
  PROVE  IInv'
  <1> DEFINE r == [conn[k] EXCEPT !.task = "ended"]
  <1>1. /\ r \in ConnState /\ r.client = conn[k].client /\ r.task = "ended"
        /\ r.down = conn[k].down /\ r.up = conn[k].up
    BY ConnType, EndedRecord
  <1>2. conn' = [conn EXCEPT ![k] = r] /\ active' = active - 1
    BY DEF End
  <1> HIDE DEF r
  <1>3. ConnTo(k, r)
    BY <1>1, <1>2, ConnMoves DEF IInv
  <1>4. desynced' \subseteq burnt
    BY DEF IInv, DesyncOnlyAfterRefusal
  <1> QED
    BY <1>1, <1>2, <1>3, <1>4, EndSettles

LEMMA ServerTimeoutKeeps ==
  ASSUME IInv, NEW k \in Connections, ServerTimeout(k)
  PROVE  IInv'
  BY PlainEnd DEF ServerTimeout, Live

LEMMA ReadEofKeeps ==
  ASSUME IInv, NEW k \in Connections, ReadEof(k)
  PROVE  IInv'
  BY PlainEnd DEF ReadEof, Live

LEMMA AcceptKeeps ==
  ASSUME IInv, NEW k \in Connections, Accept(k)
  PROVE  IInv'
  <1> DEFINE r(t) == [conn[k] EXCEPT !.task = t]
  <1>1. \A t \in Tasks : /\ r(t) \in ConnState /\ r(t).client = conn[k].client /\ r(t).task = t
                         /\ r(t).down = conn[k].down /\ r(t).up = conn[k].up
                         /\ r(t).tx = conn[k].tx /\ r(t).rx = conn[k].rx
    BY ConnType DEF ConnState, Tasks
  <1>2. desynced' \subseteq burnt /\ conn[k].task = "backlog" /\ server' = server
        /\ UNCHANGED <<client, requests, got, burnt, stops>> /\ limiter' = limiter /\ executed' = executed
    BY DEF IInv, DesyncOnlyAfterRefusal, Accept
  <1>3. limiter' \in [Operations -> 0..MaxOps] /\ executed' \in SUBSET Nat
    BY <1>2 DEF IInv, TypeOK
  <1>4. CASE active < MaxConns
    <2>1. conn' = [conn EXCEPT ![k] = r("peer")] /\ active' = active + 1
      BY <1>4 DEF Accept
    <2>2. "peer" \in Tasks
      BY DEF Tasks
    <2> HIDE DEF r
    <2>3. ConnTo(k, r("peer"))
      BY <1>1, <2>1, <2>2, ConnMoves DEF IInv
    <2>4. (\A j \in Connections : ConnOK(j)') /\ (\A c \in Clients : ClientOK(c)')
      BY <1>1, <1>2, <2>2, <2>3, LetsIn DEF Early
    <2>5. ~Live(k) /\ Live(k)' /\ \A j \in Connections \ {k} : Live(j)' <=> Live(j)
      BY <1>1, <1>2, <2>2, <2>3, LiveMoves DEF Talking
    <2>6. SlotsMatchTasks' /\ active' \in 0..MaxConns
      BY <1>4, <2>1, <2>5, SlotTaken, IpcAssumption DEF IInv, TypeOK
    <2> QED
      BY <1>1, <1>2, <1>3, <2>2, <2>3, <2>4, <2>6, ServerSettles
  <1>5. CASE ~(active < MaxConns)
    <2>1. conn' = [conn EXCEPT ![k] = r("ended")] /\ active' = active
      BY <1>5 DEF Accept
    <2>2. "ended" \in Tasks
      BY DEF Tasks
    <2> HIDE DEF r
    <2>3. ConnTo(k, r("ended"))
      BY <1>1, <2>1, <2>2, ConnMoves DEF IInv
    <2>4. (\A j \in Connections : ConnOK(j)') /\ (\A c \in Clients : ClientOK(c)')
      BY <1>1, <1>2, <2>2, <2>3, Ends
    <2>5. \A j \in Connections : Live(j)' <=> Live(j)
      BY <1>1, <1>2, <2>2, <2>3, LiveMoves DEF Talking
    <2>6. SlotsMatchTasks' /\ active' \in 0..MaxConns
      BY <2>1, <2>5, SlotsKeep DEF IInv, TypeOK
    <2> QED
      BY <1>1, <1>2, <1>3, <2>2, <2>3, <2>4, <2>6, ServerSettles
  <1> QED
    BY <1>4, <1>5

LEMMA CheckPeerKeeps ==
  ASSUME IInv, NEW k \in Connections, CheckPeer(k)
  PROVE  IInv'
  <1>1. CASE conn[k].client \in Strangers
    BY <1>1, PlainEnd DEF CheckPeer, Live
  <1>2. CASE conn[k].client \notin Strangers
    <2> DEFINE r == [conn[k] EXCEPT !.task = "magic"]
    <2>1. /\ r \in ConnState /\ r.client = conn[k].client /\ r.task = "magic"
          /\ r.down = conn[k].down /\ r.up = conn[k].up
          /\ r.tx = conn[k].tx /\ r.rx = conn[k].rx
      BY ConnType DEF ConnState, Tasks
    <2>2. conn' = [conn EXCEPT ![k] = r] /\ active' = active /\ conn[k].task = "peer"
      BY <1>2 DEF CheckPeer
    <2> HIDE DEF r
    <2>3. ConnTo(k, r)
      BY <2>1, <2>2, ConnMoves DEF IInv
    <2>4. UNCHANGED <<server, client, requests, got, burnt, stops>> /\ limiter' = limiter
          /\ executed' = executed /\ desynced' = desynced
      BY DEF CheckPeer
    <2>5. (\A j \in Connections : ConnOK(j)') /\ (\A c \in Clients : ClientOK(c)')
      BY <2>1, <2>2, <2>3, <2>4, LetsIn DEF Early
    <2>6. \A j \in Connections : Live(j)' <=> Live(j)
      BY <2>1, <2>2, <2>3, LiveMoves DEF Talking
    <2>7. SlotsMatchTasks' /\ active' \in 0..MaxConns
      BY <2>2, <2>6, SlotsKeep DEF IInv, TypeOK
    <2>8. limiter' \in [Operations -> 0..MaxOps] /\ executed' \in SUBSET Nat /\ desynced' \subseteq burnt
      BY <2>4 DEF IInv, TypeOK, DesyncOnlyAfterRefusal
    <2> QED
      BY <2>1, <2>3, <2>4, <2>5, <2>7, <2>8, ServerSettles
  <1> QED
    BY <1>1, <1>2

\* A task that goes on.
LEMMA TalkSettles ==
  ASSUME IInv, NEW k \in Connections, NEW r \in ConnState, ConnTo(k, r), Live(k), r.task \in Talking,
         UNCHANGED <<server, active, client, requests, got, burnt, desynced, stops>>,
         limiter' \in [Operations -> 0..MaxOps], executed' \in SUBSET Nat,
         \A j \in Connections : ConnOK(j)', \A c \in Clients : ClientOK(c)'
  PROVE  IInv'
  <1>1. \A j \in Connections : Live(j)' <=> Live(j)
    BY LiveMoves
  <1>2. SlotsMatchTasks' /\ active' \in 0..MaxConns
    BY <1>1, SlotsKeep DEF IInv, TypeOK
  <1>3. desynced' \subseteq burnt
    BY DEF IInv, DesyncOnlyAfterRefusal
  <1> QED
    BY <1>2, <1>3, ServerSettles

\* The frame a task reads, and what is left.
LEMMA FirstFrame ==
  ASSUME IInv, NEW k \in Connections, conn[k].up # <<>>
  PROVE  /\ Head(conn[k].up) = conn[k].up[1] /\ conn[k].up[1] \in Frame
         /\ Tail(conn[k].up) \in Seq(Frame)
         /\ 1 \in 1..Len(conn[k].up)
  BY ConnType, Shorter

LEMMA ReadHelloKeeps ==
  ASSUME IInv, NEW k \in Connections, ReadHello(k)
  PROVE  IInv'
  <1> DEFINE u == Tail(conn[k].up)
             d == Append(conn[k].down, Plain("key", conn[k].tx))
             r == [conn[k] EXCEPT !.up = u, !.task = "confirming", !.tx = @ + 2, !.down = d]
  <1>1. /\ conn[k].task = "magic" /\ conn[k].up # <<>> /\ conn' = [conn EXCEPT ![k] = r]
        /\ UNCHANGED <<server, active, limiter, client, requests, executed, got, burnt, desynced, stops>>
    BY DEF ReadHello, Arrives
  <1>2. /\ conn[k].tx = 1 /\ conn[k].rx = 0 /\ Len(conn[k].up) <= 1 /\ conn[k].down = <<>>
    BY <1>1 DEF IInv, ConnOK, Early
  <1>3. u \in Seq(Frame) /\ u = <<>> /\ Len(u) = 0
    <2>1. conn[k].up \in Seq(Frame) /\ Len(conn[k].up) <= 1 /\ conn[k].up # <<>>
      BY <1>1, <1>2, ConnType
    <2>2. u = <<>>
      BY <2>1, LastOne
    <2> HIDE DEF u
    <2> QED
      BY <2>2, EmptyFrames
  <1>4. Plain("key", 1) \in Frame /\ Plain("key", 1).seq = 1
    BY PlainType
  <1>5. d \in Seq(Frame) /\ Len(d) = 1 /\ d[1].seq = 1
    <2>1. conn[k].down \in Seq(Frame) /\ Len(conn[k].down) = 0
      BY <1>2, ConnType, Empty
    <2>2. /\ Append(conn[k].down, Plain("key", 1)) \in Seq(Frame)
          /\ Len(Append(conn[k].down, Plain("key", 1))) = 1
          /\ Append(conn[k].down, Plain("key", 1))[1] = Plain("key", 1)
      BY <2>1, <1>4, Longer
    <2> QED
      BY <2>2, <1>2, <1>4
  <1> HIDE DEF u, d
  <1>6. /\ r \in ConnState /\ r.client = conn[k].client /\ r.task = "confirming"
        /\ r.up = u /\ r.down = d /\ r.rx = 0
    <2>1. conn[k].tx + 2 \in 0..SeqMax
      BY <1>2, IpcAssumption
    <2>2. conn[k] \in ConnState /\ "confirming" \in Tasks
      BY ConnType DEF Tasks
    <2> QED
      BY <1>2, <1>3, <1>5, <2>1, <2>2 DEF ConnState
  <1> HIDE DEF r
  <1>7. ConnTo(k, r)
    BY <1>1, <1>6, ConnMoves DEF IInv
  <1>8. conn'[k].client = conn[k].client /\ conn'[k].task = "confirming" /\ conn'[k].up = <<>>
        /\ conn'[k].down = d /\ conn'[k].rx = 0 /\ Len(conn'[k].up) = 0
    BY <1>3, <1>6, <1>7 DEF ConnTo
  <1>9. ConnOK(k)'
    <2>1. \A i \in 1..Len(conn'[k].down) : conn'[k].down[i].seq + 2 <= SeqMax
      <3>1. conn'[k].down = d
        BY <1>8
      <3>2. Len(d) = 1 /\ d[1].seq + 2 <= SeqMax
        BY <1>5, IpcAssumption
      <3>3. \A i \in 1..1 : i = 1
        OBVIOUS
      <3>4. \A i \in 1..Len(d) : d[i].seq + 2 <= SeqMax
        BY <3>2, <3>3
      <3> QED
        BY <3>1, <3>4
    <2>2. \A i \in 1..Len(conn'[k].up) : FALSE
      BY <1>8
    <2>3. conn'[k].task \notin Early
      BY <1>8 DEF Early
    <2> QED
      BY <2>1, <2>2, <2>3 DEF ConnOK
  <1>10. ASSUME NEW c \in Clients, client[c].at # "down", client[c].conn = k
         PROVE  Joined(c, k)'
    <2>1. Joined(c, k)
      BY <1>10 DEF IInv, ClientOK
    <2>2. client[c].at = "shaking"
      <3>1. client[c].at \notin {"ready", "sending", "waiting"}
        BY <2>1, <1>1 DEF Joined, Talking
      <3>2. client[c].at # "connected"
        BY <2>1, <1>1 DEF Joined
      <3>3. client[c].at \in {"down", "connected", "shaking", "ready", "sending", "waiting"}
        BY DEF IInv, TypeOK, ClientState
      <3> QED
        BY <3>1, <3>2, <3>3, <1>10
    <2>3. client'[c] = client[c] /\ Len(conn'[k].down) = 1
      BY <1>1, <1>5, <1>8
    <2>4. InStep(c, k)'
      BY <2>2, <2>3 DEF InStep
    <2> QED
      BY <1>8, <2>1, <2>2, <2>3, <2>4 DEF Joined
  <1>11. (\A j \in Connections : ConnOK(j)') /\ (\A c \in Clients : ClientOK(c)')
    BY <1>1, <1>6, <1>7, <1>9, <1>10, ServerStep
  <1>12. Live(k) /\ r.task \in Talking /\ limiter' \in [Operations -> 0..MaxOps] /\ executed' \in SUBSET Nat
    BY <1>1, <1>6 DEF Live, Talking, IInv, TypeOK
  <1> QED
    BY <1>1, <1>6, <1>7, <1>11, <1>12, TalkSettles

LEMMA ReadConfirmKeeps ==
  ASSUME IInv, NEW k \in Connections, ReadConfirm(k)
  PROVE  IInv'
  <1> DEFINE u == Tail(conn[k].up)
             r == [conn[k] EXCEPT !.up = u, !.task = "length", !.rx = @ + 2]
  <1>1. /\ conn[k].task = "confirming" /\ conn[k].up # <<>> /\ conn' = [conn EXCEPT ![k] = r]
        /\ Head(conn[k].up).kind = "confirm" /\ Head(conn[k].up).seq = conn[k].rx
        /\ UNCHANGED <<server, active, limiter, client, requests, executed, got, burnt, desynced, stops>>
    BY DEF ReadConfirm, Arrives
  <1>2. ConnOK(k)
    BY DEF IInv
  <1>3. u \in Seq(Frame) /\ conn[k].rx + 2 \in 0..SeqMax
    <2>1. conn[k].up[1].kind = "confirm" /\ conn[k].up[1].seq = conn[k].rx /\ 1 \in 1..Len(conn[k].up)
      BY <1>1, FirstFrame
    <2>2. conn[k].rx + 2 <= SeqMax
      BY <2>1, <1>2 DEF ConnOK
    <2> QED
      BY <2>2, <1>1, FirstFrame, ConnType, IpcAssumption
  <1>4. /\ r \in ConnState /\ r.client = conn[k].client /\ r.task = "length"
        /\ r.up = u /\ r.down = conn[k].down /\ r.rx = conn[k].rx + 2
    BY <1>3, ConnType DEF ConnState, Tasks
  <1> HIDE DEF r
  <1>5. ConnTo(k, r)
    BY <1>1, <1>4, ConnMoves DEF IInv
  <1>6. /\ conn'[k].task = "length" /\ conn'[k].rx = conn[k].rx + 2
        /\ conn'[k].up = Tail(conn[k].up) /\ conn'[k].down = conn[k].down
    BY <1>4, <1>5 DEF ConnTo
  <1>7. Base(k)' = Base(k) + 1
    BY <1>1, <1>6, ConnType DEF Base
  <1>8. \A c \in Clients : Joined(c, k) /\ ~client[c].junk => InStep(c, k)'
    BY <1>1, <1>6, ConnType, StillInStep DEF Joined
  <1>9. \A i \in 1..Len(r.down) : r.down[i].seq + 2 <= SeqMax
    BY <1>2, <1>4 DEF ConnOK
  <1>10. (\A j \in Connections : ConnOK(j)') /\ (\A c \in Clients : ClientOK(c)')
    BY <1>1, <1>4, <1>5, <1>7, <1>8, <1>9, ReadsOne DEF Talking
  <1>11. Live(k) /\ r.task \in Talking /\ limiter' \in [Operations -> 0..MaxOps] /\ executed' \in SUBSET Nat
    BY <1>1, <1>4 DEF Live, Talking, IInv, TypeOK
  <1> QED
    BY <1>1, <1>4, <1>5, <1>10, <1>11, TalkSettles

LEMMA ReadLengthKeeps ==
  ASSUME IInv, NEW k \in Connections, ReadLength(k)
  PROVE  IInv'
  <1> DEFINE u == Tail(conn[k].up)
             r == [conn[k] EXCEPT !.up = u, !.task = "body"]
  <1>1. /\ conn[k].task = "length" /\ conn[k].up # <<>>
        /\ conn' = [conn EXCEPT ![k].up = Tail(@), ![k].task = "body"]
        /\ UNCHANGED <<server, active, limiter, client, requests, executed, got, burnt, desynced, stops>>
    BY DEF ReadLength, Arrives
  <1>2. ConnOK(k)
    BY DEF IInv
  <1>3. u \in Seq(Frame)
    BY <1>1, FirstFrame
  <1>4. /\ r \in ConnState /\ r.client = conn[k].client /\ r.task = "body"
        /\ r.up = u /\ r.down = conn[k].down /\ r.rx = conn[k].rx
    BY <1>3, ConnType DEF ConnState, Tasks
  <1>5. conn' = [conn EXCEPT ![k] = r]
    BY <1>1 DEF IInv, TypeOK
  <1> HIDE DEF r
  <1>6. ConnTo(k, r)
    BY <1>4, <1>5, ConnMoves DEF IInv
  <1>7. /\ conn'[k].task = "body" /\ conn'[k].rx = conn[k].rx
        /\ conn'[k].up = Tail(conn[k].up) /\ conn'[k].down = conn[k].down
    BY <1>4, <1>6 DEF ConnTo
  <1>8. Base(k)' = Base(k) + 1
    BY <1>1, <1>7, ConnType DEF Base
  <1>9. \A c \in Clients : Joined(c, k) /\ ~client[c].junk => InStep(c, k)'
    BY <1>1, <1>7, ConnType, StillInStep DEF Joined
  <1>10. \A i \in 1..Len(r.down) : r.down[i].seq + 2 <= SeqMax
    BY <1>2, <1>4 DEF ConnOK
  <1>11. (\A j \in Connections : ConnOK(j)') /\ (\A c \in Clients : ClientOK(c)')
    BY <1>1, <1>4, <1>6, <1>8, <1>9, <1>10, ReadsOne DEF Talking
  <1>12. Live(k) /\ r.task \in Talking /\ limiter' \in [Operations -> 0..MaxOps] /\ executed' \in SUBSET Nat
    BY <1>1, <1>4 DEF Live, Talking, IInv, TypeOK
  <1> QED
    BY <1>1, <1>4, <1>6, <1>11, <1>12, TalkSettles

\* The stream to the client after an answer has been sealed, or not.
Answered(q, f, down) ==
    \/ down = q.down
    \/ \E g \in Frame : g.req = f.req /\ g.seq + 2 <= SeqMax /\ down = Append(q.down, g)

LEMMA SealedRecord ==
  ASSUME NEW q \in ConnState, NEW f \in Frame, NEW z, z = Sealed(q, f)
  PROVE  /\ z \in ConnState /\ z.client = q.client /\ z.task = q.task
         /\ z.up = q.up /\ z.rx = q.rx /\ Answered(q, f, z.down)
  <1>0. q.tx \in 0..SeqMax /\ q.down \in Seq(Frame) /\ SeqMax \in Nat
    BY IpcAssumption DEF ConnState
  <1>1. CASE Exhausted(q.tx)
    <2>1. z = q
      BY <1>1 DEF Sealed
    <2> QED
      BY <2>1 DEF Answered
  <1>2. CASE ~Exhausted(q.tx)
    <2> DEFINE g == [f EXCEPT !.kind = "answer", !.seq = q.tx]
               d == IF q.open THEN Append(q.down, g) ELSE q.down
    <2>1. z = [q EXCEPT !.tx = @ + 2, !.down = d]
      BY <1>2 DEF Sealed
    <2>2. g \in Frame /\ g.req = f.req /\ g.seq = q.tx
      <3>1. q.tx \in Nat
        BY <1>0
      <3> QED
        BY <3>1 DEF Frame
    <2>3. q.tx + 2 \in 0..SeqMax
      BY <1>0, <1>2 DEF Exhausted
    <2> HIDE DEF g
    <2>4. Append(q.down, g) \in Seq(Frame)
      BY <1>0, <2>2, Longer
    <2>5. d \in Seq(Frame) /\ Answered(q, f, d)
      <3>1. CASE q.open
        BY <3>1, <2>2, <2>3, <2>4, <1>0 DEF Answered
      <3>2. CASE ~q.open
        BY <3>2, <1>0 DEF Answered
      <3> QED
        BY <3>1, <3>2
    <2> HIDE DEF d
    <2>6. /\ z \in ConnState /\ z.client = q.client /\ z.task = q.task
          /\ z.up = q.up /\ z.rx = q.rx /\ z.down = d
      BY <2>1, <2>3, <2>5 DEF ConnState
    <2> QED
      BY <2>5, <2>6
  <1> QED
    BY <1>1, <1>2

\* An answer leaves every frame on its way to the client with a number that fits.
LEMMA AnsweredFits ==
  ASSUME NEW q \in ConnState, NEW f, NEW d, Answered(q, f, d),
         \A i \in 1..Len(q.down) : q.down[i].seq + 2 <= SeqMax
  PROVE  \A i \in 1..Len(d) : d[i].seq + 2 <= SeqMax
  <1>0. q.down \in Seq(Frame)
    BY DEF ConnState
  <1>1. CASE d = q.down
    BY <1>1
  <1>2. CASE \E g \in Frame : g.req = f.req /\ g.seq + 2 <= SeqMax /\ d = Append(q.down, g)
    <2>1. PICK g \in Frame : g.seq + 2 <= SeqMax /\ d = Append(q.down, g)
      BY <1>2
    <2>2. /\ Len(d) = Len(q.down) + 1 /\ Len(q.down) \in Nat
          /\ \A i \in 1..Len(q.down) : d[i] = q.down[i]
          /\ d[Len(q.down) + 1] = g
      BY <1>0, <2>1, Longer
    <2> QED
      BY <2>1, <2>2
  <1> QED
    BY <1>1, <1>2 DEF Answered

\* ... and is the only one if there was none.
LEMMA AnsweredOnce ==
  ASSUME NEW q \in ConnState, NEW f, NEW d, Answered(q, f, d), q.down = <<>>, d # <<>>
  PROVE  Len(d) = 1 /\ d[1].req = f.req
  <1>1. PICK g \in Frame : g.req = f.req /\ d = Append(<<>>, g)
    BY DEF Answered
  <1>2. Len(Append(<<>>, g)) = Len(<<>>) + 1 /\ Append(<<>>, g)[Len(<<>>) + 1] = g
    BY EmptyFrames, Longer
  <1> QED
    BY <1>1, <1>2, EmptyFrames

\* A message that is read is the request its client waits for, and nothing follows it.
LEMMA MessageOfWaiting ==
  ASSUME IInv, NEW k \in Connections, NEW c \in Clients, Joined(c, k), ~client[c].junk,
         conn[k].task = "body", conn[k].up # <<>>, conn[k].up[1].kind = "message"
  PROVE  /\ client[c].at \notin {"ready", "sending"}
         /\ client[c].at = "waiting" =>
               conn[k].down = <<>> /\ conn[k].up[1].req = client[c].req /\ Tail(conn[k].up) = <<>>
  <1>1. InStep(c, k) /\ 1 \in 1..Len(conn[k].up) /\ ~NoMessage(k)
    BY FirstFrame DEF Joined, NoMessage
  <1>2. client[c].at \notin {"ready", "sending"}
    BY <1>1 DEF InStep
  <1>3. ASSUME client[c].at = "waiting"
        PROVE  conn[k].down = <<>> /\ conn[k].up[1].req = client[c].req /\ Tail(conn[k].up) = <<>>
    <2>1. conn[k].down = <<>>
      BY <1>1, <1>3 DEF InStep
    <2>2. 1 = Len(conn[k].up) /\ conn[k].up[1].req = client[c].req
      BY <1>1, <1>3 DEF InStep
    <2>3. conn[k].up \in Seq(Frame) /\ Len(conn[k].up) <= 1
      <3>1. conn[k].up \in Seq(Frame)
        BY ConnType
      <3>2. Len(conn[k].up) = 1
        BY <2>2
      <3> QED
        BY <3>1, <3>2
    <2>4. Tail(conn[k].up) = <<>>
      BY <2>3, LastOne
    <2> QED
      BY <2>1, <2>2, <2>4
  <1> QED
    BY <1>2, <1>3

LEMMA ReadDesyncKeeps ==
  ASSUME IInv, NEW k \in Connections, ReadDesync(k)
  PROVE  IInv'
  <1> DEFINE u == Tail(conn[k].up)
             p == [conn[k] EXCEPT !.up = u]
             r == [p EXCEPT !.task = "ended"]
  <1>1. /\ conn[k].task = "body" /\ conn[k].up # <<>> /\ Head(conn[k].up).kind = "message"
        /\ Head(conn[k].up).seq # conn[k].rx
        /\ conn' = [conn EXCEPT ![k] = r] /\ active' = active - 1
        /\ desynced' = desynced \cup {k}
        /\ UNCHANGED <<server, limiter, client, requests, executed, got, burnt, stops>>
    BY DEF ReadDesync, Arrives, End
  <1>2. u \in Seq(Frame)
    BY <1>1, FirstFrame
  <1>3. /\ r \in ConnState /\ r.client = conn[k].client /\ r.task = "ended"
        /\ r.down = conn[k].down /\ r.up = u
    <2>1. p \in ConnState /\ p.client = conn[k].client /\ p.down = conn[k].down /\ p.up = u
      BY <1>2, ConnType DEF ConnState
    <2> HIDE DEF p
    <2> QED
      BY <2>1 DEF ConnState, Tasks
  <1> HIDE DEF r
  <1>4. ConnTo(k, r)
    BY <1>1, <1>3, ConnMoves DEF IInv
  <1>5. k \in burnt
    <2>1. SUFFICES ASSUME k \notin burnt PROVE FALSE
      OBVIOUS
    <2>2. conn[k].up[1].seq = Base(k) + 1 /\ Head(conn[k].up) = conn[k].up[1]
      BY <1>1, <2>1, FirstFrame DEF IInv, ConnOK, Talking
    <2>3. Base(k) = conn[k].rx - 1
      BY <1>1 DEF Base
    <2>4. conn[k].up[1].seq = conn[k].rx
      BY <2>2, <2>3, ConnType
    <2> QED
      BY <1>1, <2>2, <2>4
  <1>6. desynced' \subseteq burnt
    BY <1>1, <1>5 DEF IInv, DesyncOnlyAfterRefusal
  <1>7. Live(k)
    BY <1>1 DEF Live
  <1> QED
    BY <1>1, <1>3, <1>4, <1>6, <1>7, EndSettles

\* What holds of a message that is accepted.
LEMMA MessageInTurn ==
  ASSUME IInv, NEW k \in Connections, conn[k].task = "body", Arrives(k, "message"),
         Head(conn[k].up).seq = conn[k].rx
  PROVE  /\ conn[k].up # <<>> /\ conn[k].up[1].kind = "message"
         /\ Head(conn[k].up) = conn[k].up[1] /\ Head(conn[k].up) \in Frame
         /\ Tail(conn[k].up) \in Seq(Frame) /\ conn[k].rx + 2 \in 0..SeqMax
  <1>1. /\ conn[k].up # <<>> /\ conn[k].up[1].kind = "message" /\ conn[k].up[1].seq = conn[k].rx
        /\ Head(conn[k].up) = conn[k].up[1] /\ Head(conn[k].up) \in Frame
        /\ Tail(conn[k].up) \in Seq(Frame) /\ 1 \in 1..Len(conn[k].up)
    BY FirstFrame DEF Arrives
  <1>2. conn[k].rx + 2 <= SeqMax
    BY <1>1 DEF IInv, ConnOK
  <1> QED
    BY <1>1, <1>2, ConnType, IpcAssumption

LEMMA ReadRefusedKeeps ==
  ASSUME IInv, NEW k \in Connections, ReadRefused(k)
  PROVE  IInv'
  <1> DEFINE u == Tail(conn[k].up)
             g == [Head(conn[k].up) EXCEPT !.msg.kind = "invalid"]
             q == [conn[k] EXCEPT !.up = u, !.rx = @ + 2, !.task = "length"]
             r == Sealed(q, g)
  <1>1. /\ conn[k].task = "body" /\ Arrives(k, "message") /\ Head(conn[k].up).seq = conn[k].rx
        /\ conn' = [conn EXCEPT ![k] = r]
        /\ UNCHANGED <<server, active, limiter, client, requests, executed, got, burnt, desynced, stops>>
    BY DEF ReadRefused
  <1>2. /\ conn[k].up # <<>> /\ conn[k].up[1].kind = "message" /\ Head(conn[k].up) = conn[k].up[1]
        /\ Head(conn[k].up) \in Frame /\ u \in Seq(Frame) /\ conn[k].rx + 2 \in 0..SeqMax
    BY <1>1, MessageInTurn
  <1>3. g \in Frame /\ g.req = conn[k].up[1].req
    BY <1>2 DEF Frame, Message, Kinds
  <1>4. /\ q \in ConnState /\ q.client = conn[k].client /\ q.task = "length"
        /\ q.up = u /\ q.down = conn[k].down /\ q.rx = conn[k].rx + 2
    BY <1>2, ConnType DEF ConnState, Tasks
  <1> HIDE DEF g, q
  <1>5. /\ r \in ConnState /\ r.client = conn[k].client /\ r.task = "length"
        /\ r.up = u /\ r.rx = conn[k].rx + 2 /\ Answered(q, g, r.down)
    BY <1>3, <1>4, SealedRecord
  <1> HIDE DEF r
  <1>6. ConnTo(k, r)
    BY <1>1, <1>5, ConnMoves DEF IInv
  <1>7. /\ conn'[k].task = "length" /\ conn'[k].rx = conn[k].rx + 2
        /\ conn'[k].up = u /\ conn'[k].down = r.down
    BY <1>5, <1>6 DEF ConnTo
  <1>8. Base(k)' = Base(k) + 1
    BY <1>1, <1>7, ConnType DEF Base
  <1>9. \A i \in 1..Len(r.down) : r.down[i].seq + 2 <= SeqMax
    <2>1. \A i \in 1..Len(q.down) : q.down[i].seq + 2 <= SeqMax
      BY <1>4 DEF IInv, ConnOK
    <2> QED
      BY <1>4, <1>5, <2>1, AnsweredFits
  <1>10. ASSUME NEW c \in Clients, Joined(c, k), ~client[c].junk
         PROVE  InStep(c, k)'
    <2>1. /\ client[c].at \notin {"ready", "sending"}
          /\ client[c].at = "waiting" =>
                conn[k].down = <<>> /\ conn[k].up[1].req = client[c].req /\ u = <<>>
      BY <1>1, <1>2, <1>10, MessageOfWaiting
    <2>2. client[c].at = "waiting" =>
             \A i \in 1..Len(conn'[k].up) : FALSE
      BY <1>7, <2>1, EmptyFrames
    <2>3. client[c].at = "waiting" => NoMessage(k)'
      BY <2>2 DEF NoMessage
    <2>4. client[c].at = "waiting" /\ conn'[k].down # <<>> =>
             Len(conn'[k].down) = 1 /\ conn'[k].down[1].req = client[c].req
      BY <1>3, <1>4, <1>5, <1>7, <2>1, AnsweredOnce
    <2> QED
      BY <1>1, <1>7, <2>1, <2>2, <2>3, <2>4 DEF InStep
  <1>11. (\A j \in Connections : ConnOK(j)') /\ (\A c \in Clients : ClientOK(c)')
    BY <1>1, <1>2, <1>5, <1>6, <1>8, <1>9, <1>10, ReadsOne DEF Talking
  <1>12. Live(k) /\ r.task \in Talking /\ limiter' \in [Operations -> 0..MaxOps] /\ executed' \in SUBSET Nat
    BY <1>1, <1>5 DEF Live, Talking, IInv, TypeOK
  <1> QED
    BY <1>1, <1>5, <1>6, <1>11, <1>12, TalkSettles

LEMMA ReadRequestKeeps ==
  ASSUME IInv, NEW k \in Connections, ReadRequest(k)
  PROVE  IInv'
  <1> DEFINE u == Tail(conn[k].up)
             f == Head(conn[k].up)
             r == [conn[k] EXCEPT !.up = u, !.rx = @ + 2, !.task = "handling", !.req = f.req, !.msg = f.msg]
  <1>1. /\ conn[k].task = "body" /\ Arrives(k, "message") /\ Head(conn[k].up).seq = conn[k].rx
        /\ conn' = [conn EXCEPT ![k] = r]
        /\ limiter' = [limiter EXCEPT ![f.msg.op] = @ + 1] /\ executed' = executed \cup {f.req}
        /\ ~Refuses(f.msg)
        /\ UNCHANGED <<server, active, client, requests, got, burnt, desynced, stops>>
    BY DEF ReadRequest
  <1>2. /\ conn[k].up # <<>> /\ conn[k].up[1].kind = "message" /\ f = conn[k].up[1]
        /\ f \in Frame /\ u \in Seq(Frame) /\ conn[k].rx + 2 \in 0..SeqMax
    BY <1>1, MessageInTurn
  <1> HIDE DEF f
  <1>3. f.req \in Nat /\ f.msg \in Message /\ f.msg.op \in Operations
    BY <1>2 DEF Frame, Message
  <1>4. /\ r \in ConnState /\ r.client = conn[k].client /\ r.task = "handling"
        /\ r.up = u /\ r.down = conn[k].down /\ r.rx = conn[k].rx + 2 /\ r.req = f.req
    BY <1>2, <1>3, ConnType DEF ConnState, Tasks
  <1> HIDE DEF r
  <1>5. ConnTo(k, r)
    BY <1>1, <1>4, ConnMoves DEF IInv
  <1>6. /\ conn'[k].task = "handling" /\ conn'[k].rx = conn[k].rx + 2
        /\ conn'[k].up = u /\ conn'[k].down = conn[k].down /\ conn'[k].req = f.req
    BY <1>4, <1>5 DEF ConnTo
  <1>7. Base(k)' = Base(k) + 1
    BY <1>1, <1>6, ConnType DEF Base
  <1>8. \A i \in 1..Len(r.down) : r.down[i].seq + 2 <= SeqMax
    BY <1>4 DEF IInv, ConnOK
  <1>9. ASSUME NEW c \in Clients, Joined(c, k), ~client[c].junk
        PROVE  InStep(c, k)'
    <2>1. /\ client[c].at \notin {"ready", "sending"}
          /\ client[c].at = "waiting" =>
                conn[k].down = <<>> /\ conn[k].up[1].req = client[c].req /\ u = <<>>
      BY <1>1, <1>2, <1>9, MessageOfWaiting
    <2>2. client[c].at = "waiting" => \A i \in 1..Len(conn'[k].up) : FALSE
      <3>1. client[c].at = "waiting" => conn'[k].up = <<>>
        BY <1>6, <2>1
      <3> QED
        BY <3>1, EmptyFrames
    <2>3. client[c].at = "waiting" => NoMessage(k)'
      BY <2>2 DEF NoMessage
    <2>4. client[c].at = "waiting" => conn'[k].down = <<>> /\ conn'[k].req = client[c].req
      BY <1>2, <1>6, <2>1
    <2> QED
      BY <1>1, <2>1, <2>2, <2>3, <2>4 DEF InStep
  <1>10. (\A j \in Connections : ConnOK(j)') /\ (\A c \in Clients : ClientOK(c)')
    BY <1>1, <1>2, <1>4, <1>5, <1>7, <1>8, <1>9, ReadsOne DEF Talking
  <1>11. limiter' \in [Operations -> 0..MaxOps]
    <2>1. limiter \in [Operations -> 0..MaxOps] /\ limiter[f.msg.op] < MaxOps
      <3>1. limiter \in [Operations -> 0..MaxOps]
        BY DEF IInv, TypeOK
      <3>2. limiter[f.msg.op] \in 0..MaxOps /\ ~(limiter[f.msg.op] >= MaxOps)
        BY <1>1, <1>3, <3>1 DEF Refuses
      <3> QED
        BY <3>1, <3>2, IpcAssumption
    <2> QED
      BY <1>1, <1>3, <2>1, IpcAssumption
  <1>12. executed' \in SUBSET Nat
    BY <1>1, <1>3 DEF IInv, TypeOK
  <1>13. Live(k) /\ r.task \in Talking
    BY <1>1, <1>4 DEF Live, Talking
  <1> QED
    BY <1>1, <1>4, <1>5, <1>10, <1>11, <1>12, <1>13, TalkSettles

LEMMA RespondKeeps ==
  ASSUME IInv, NEW k \in Connections, Respond(k)
  PROVE  IInv'
  <1> DEFINE g == [kind |-> "answer", seq |-> 0, req |-> conn[k].req, msg |-> conn[k].msg]
             q == [conn[k] EXCEPT !.task = "length"]
             r == Sealed(q, g)
  <1>1. /\ conn[k].task = "handling"
        /\ UNCHANGED <<server, limiter, client, requests, executed, got, burnt, desynced, stops>>
    BY DEF Respond
  <1>2. CASE ~(conn[k].open /\ ~Exhausted(conn[k].tx))
    <2>1. End(k, conn[k]) /\ Live(k)
      BY <1>2 DEF Respond, Live
    <2> QED
      BY <1>1, <2>1, PlainEnd
  <1>3. CASE conn[k].open /\ ~Exhausted(conn[k].tx)
    <2>1. conn' = [conn EXCEPT ![k] = r] /\ active' = active
      BY <1>3 DEF Respond
    <2>2. g \in Frame /\ g.req = conn[k].req
      BY ConnType DEF Frame, ConnState
    <2>3. /\ q \in ConnState /\ q.client = conn[k].client /\ q.task = "length"
          /\ q.up = conn[k].up /\ q.down = conn[k].down /\ q.rx = conn[k].rx
      BY ConnType DEF ConnState, Tasks
    <2> HIDE DEF g, q
    <2>4. /\ r \in ConnState /\ r.client = conn[k].client /\ r.task = "length"
          /\ r.up = conn[k].up /\ r.rx = conn[k].rx /\ Answered(q, g, r.down)
      BY <2>2, <2>3, SealedRecord
    <2> HIDE DEF r
    <2>5. ConnTo(k, r)
      BY <2>1, <2>4, ConnMoves DEF IInv
    <2>6. /\ conn'[k].task = "length" /\ conn'[k].rx = conn[k].rx /\ conn'[k].client = conn[k].client
          /\ conn'[k].up = conn[k].up /\ conn'[k].down = r.down
      BY <2>4, <2>5 DEF ConnTo
    <2>7. Base(k)' = Base(k)
      BY <1>1, <2>6 DEF Base
    <2>8. ConnOK(k)'
      <3>1. ConnOK(k)
        BY DEF IInv
      <3>2. \A i \in 1..Len(r.down) : r.down[i].seq + 2 <= SeqMax
        <4>1. \A i \in 1..Len(q.down) : q.down[i].seq + 2 <= SeqMax
          BY <2>3, <3>1 DEF ConnOK
        <4> QED
          BY <2>3, <2>4, <4>1, AnsweredFits
      <3> QED
        BY <1>1, <2>6, <2>7, <3>1, <3>2 DEF ConnOK, Early, Talking
    <2>9. ASSUME NEW c \in Clients, client[c].at # "down", client[c].conn = k
          PROVE  Joined(c, k)'
      <3>1. Joined(c, k)
        BY <2>9 DEF IInv, ClientOK
      <3>2. client[c].at \notin {"connected", "shaking"}
        BY <1>1, <3>1 DEF Joined, Early
      <3>3. ASSUME ~client[c].junk PROVE InStep(c, k)'
        <4>1. InStep(c, k)
          BY <3>1, <3>3 DEF Joined
        <4>2. client[c].at \notin {"ready", "sending"}
          BY <1>1, <4>1 DEF InStep
        <4>3. client[c].at = "waiting" =>
                 NoMessage(k) /\ conn[k].down = <<>> /\ conn[k].req = client[c].req
          BY <1>1, <4>1 DEF InStep
        <4>4. NoMessage(k)' <=> NoMessage(k)
          BY <2>6 DEF NoMessage
        <4>5. client[c].at = "waiting" /\ conn'[k].down # <<>> =>
                 Len(conn'[k].down) = 1 /\ conn'[k].down[1].req = client[c].req
          BY <2>2, <2>3, <2>4, <2>6, <4>3, AnsweredOnce
        <4>6. client[c].at = "waiting" =>
                 \A i \in 1..Len(conn'[k].up) : conn'[k].up[i].kind # "message"
          BY <2>6, <4>3 DEF NoMessage
        <4> QED
          BY <1>1, <2>6, <4>2, <4>3, <4>4, <4>5, <4>6 DEF InStep
      <3> QED
        BY <1>1, <2>6, <2>7, <3>1, <3>2, <3>3 DEF Joined, Talking
    <2>10. (\A j \in Connections : ConnOK(j)') /\ (\A c \in Clients : ClientOK(c)')
      BY <1>1, <2>4, <2>5, <2>8, <2>9, ServerStep
    <2>11. Live(k) /\ r.task \in Talking /\ limiter' \in [Operations -> 0..MaxOps] /\ executed' \in SUBSET Nat
      BY <1>1, <2>4 DEF Live, Talking, IInv, TypeOK
    <2> QED
      BY <1>1, <2>1, <2>4, <2>5, <2>10, <2>11, TalkSettles
  <1> QED
    BY <1>2, <1>3

-----------------------------------------------------------------------------
(* A step of one client *)

\* A step of client c disturbs that client and at most its connection, k.
LEMMA ClientSettles ==
  ASSUME IInv, NEW c \in Clients, NEW q \in ClientState, ClientTo(c, q),
         NEW k \in Connections, NEW r \in ConnState, ConnTo(k, r),
         \A d \in Clients : client[d].at # "down" /\ client[d].conn = k => d = c,
         Live(k)' <=> Live(k),
         UNCHANGED <<server, active, limiter, executed, desynced, stops>>,
         requests' \in Nat, got' \in SUBSET (Nat \X Nat), AnswerIsToItsRequest',
         burnt \subseteq burnt', burnt' \in SUBSET Connections,
         ConnOK(k)', ClientOK(c)'
  PROVE  IInv'
  <1>1. TypeOK'
    BY DEF IInv, TypeOK, ConnTo, ClientTo
  <1>2. SlotsMatchTasks'
    <2>1. \A j \in Connections : Live(j)' <=> Live(j)
      BY LiveMoves
    <2> QED
      BY <2>1, SlotsKeep DEF IInv
  <1>3. ASSUME NEW j \in Connections
        PROVE  ConnOK(j)'
    <2>1. CASE j = k
      BY <2>1
    <2>2. CASE j # k
      BY <2>2, ConnKeeps DEF IInv, ConnTo
    <2> QED
      BY <2>1, <2>2
  <1>4. ASSUME NEW d \in Clients
        PROVE  ClientOK(d)'
    <2>1. CASE d = c
      BY <2>1
    <2>2. CASE d # c
      <3>1. client'[d] = client[d] /\ ClientOK(d)
        BY <2>2 DEF IInv, ClientTo
      <3>2. client[d].at # "down" => client[d].conn \in Connections \ {k}
        BY <2>2, <3>1 DEF ClientOK, Joined
      <3>3. client[d].at # "down" => conn'[client[d].conn] = conn[client[d].conn]
        BY <3>2 DEF ConnTo
      <3> QED
        BY <3>1, <3>3, ClientKeeps
    <2> QED
      BY <2>1, <2>2
  <1>5. DesyncOnlyAfterRefusal'
    BY DEF IInv, DesyncOnlyAfterRefusal
  <1> QED
    BY <1>1, <1>2, <1>3, <1>4, <1>5 DEF IInv

LEMMA ClientType ==
  ASSUME IInv, NEW c \in Clients
  PROVE  /\ client[c] \in ClientState
         /\ client[c].at \in {"down", "connected", "shaking", "ready", "sending", "waiting"}
         /\ client[c].tx \in 0..SeqMax /\ client[c].rx \in 0..SeqMax /\ client[c].req \in Nat
         /\ client[c].conn \in 0..MaxConnects
  BY DEF IInv, TypeOK, ClientState

\* A client that is not down, and its connection.
LEMMA OwnConnection ==
  ASSUME IInv, NEW c \in Clients, client[c].at # "down", NEW k, k = client[c].conn
  PROVE  /\ k \in Connections /\ Joined(c, k)
         /\ \A d \in Clients : client[d].at # "down" /\ client[d].conn = k => d = c
  <1>1. Joined(c, k)
    BY DEF IInv, ClientOK
  <1>2. \A d \in Clients : client[d].at # "down" /\ client[d].conn = k => d = c
    BY Apart DEF IInv
  <1> QED
    BY <1>1, <1>2 DEF Joined

\* A step of a client that has a connection, before which nothing is refused or answered.
LEMMA OwnStep ==
  ASSUME IInv, NEW c \in Clients, client[c].at # "down", NEW k, k = client[c].conn,
         NEW q \in ClientState, ClientTo(c, q), NEW r \in ConnState, ConnTo(k, r),
         r.task = conn[k].task, q.at = "down" \/ q.conn = k,
         UNCHANGED <<server, active, limiter, executed, got, burnt, desynced, stops>>,
         requests' \in Nat, ConnOK(k)', q.at # "down" => Joined(c, k)'
  PROVE  IInv'
  <1>1. /\ k \in Connections
        /\ \A d \in Clients : client[d].at # "down" /\ client[d].conn = k => d = c
    BY OwnConnection
  <1>2. Live(k)' <=> Live(k)
    BY <1>1, LiveMoves
  <1>3. ClientOK(c)'
    BY DEF ClientOK, ClientTo
  <1>4. /\ got' \in SUBSET (Nat \X Nat) /\ AnswerIsToItsRequest'
        /\ burnt \subseteq burnt' /\ burnt' \in SUBSET Connections
    BY DEF IInv, TypeOK, AnswerIsToItsRequest
  <1> QED
    BY <1>1, <1>2, <1>3, <1>4, ClientSettles

\* The stream to the server after a client has written frame f.
LEMMA Written ==
  ASSUME IInv, NEW k \in Connections, NEW f \in Frame, NEW w, w = Write(k, f)
  PROVE  /\ w \in Seq(Frame)
         /\ conn[k].task = "ended" => w = conn[k].up
         /\ conn[k].task # "ended" =>
               /\ Len(w) = Len(conn[k].up) + 1 /\ Len(conn[k].up) \in Nat
               /\ \A i \in 1..Len(conn[k].up) : w[i] = conn[k].up[i]
               /\ w[Len(conn[k].up) + 1] = f
  <1>1. CASE conn[k].task = "ended"
    BY <1>1, ConnType DEF Write
  <1>2. CASE conn[k].task # "ended"
    <2>1. w = Append(conn[k].up, f) /\ conn[k].up \in Seq(Frame)
      BY <1>2, ConnType DEF Write
    <2> QED
      BY <1>2, <2>1, Longer
  <1> QED
    BY <1>1, <1>2

LEMMA ConnectKeeps ==
  ASSUME IInv, NEW c \in Clients, Connect(c)
  PROVE  IInv'
  <1>1. PICK k \in Connections :
          /\ conn[k].task = "none"
          /\ conn' = [conn EXCEPT ![k] = NewConn(c)]
          /\ client' = [client EXCEPT ![c] = [Down EXCEPT !.at = "connected", !.conn = k]]
          /\ UNCHANGED <<server, active, limiter, requests, executed, got, burnt, desynced, stops>>
    BY DEF Connect
  <1> DEFINE r == NewConn(c)
             q == [Down EXCEPT !.at = "connected", !.conn = k]
  <1>2. /\ r \in ConnState /\ r.client = c /\ r.task = "backlog" /\ r.tx = 1 /\ r.rx = 0
        /\ r.up = <<>> /\ r.down = <<>>
    BY Defaults, IpcAssumption, EmptyFrames DEF NewConn, ConnState, Tasks
  <1>3. /\ q \in ClientState /\ q.at = "connected" /\ q.conn = k /\ q.tx = 0 /\ q.rx = 1
    <2>1. k \in 0..MaxConnects /\ 0 \in 0..SeqMax /\ 1 \in 0..SeqMax /\ 0 \in Nat
      BY IpcAssumption DEF Connections
    <2> QED
      BY <2>1, Defaults DEF Down, ClientState
  <1> HIDE DEF r, q
  <1>4. ConnTo(k, r) /\ ClientTo(c, q)
    BY <1>1, <1>2, <1>3, ConnMoves, ClientMoves DEF IInv, r, q
  <1>5. \A d \in Clients : client[d].at # "down" /\ client[d].conn = k => d = c
    BY <1>1 DEF IInv, ClientOK, Joined
  <1>6. conn'[k] = r /\ client'[c] = q /\ Len(conn'[k].up) = 0 /\ Len(conn'[k].down) = 0
    BY <1>2, <1>4, EmptyFrames DEF ConnTo, ClientTo
  <1>7. ConnOK(k)'
    BY <1>2, <1>6 DEF ConnOK, Early, Talking
  <1>8. Joined(c, k)'
    BY <1>2, <1>3, <1>6 DEF Joined, InStep, Early
  <1>9. ClientOK(c)'
    BY <1>3, <1>6, <1>8 DEF ClientOK
  <1>10. Live(k)' <=> Live(k)
    BY <1>1, <1>2, <1>6 DEF Live
  <1>11. /\ requests' \in Nat /\ got' \in SUBSET (Nat \X Nat) /\ AnswerIsToItsRequest'
         /\ burnt \subseteq burnt' /\ burnt' \in SUBSET Connections
    BY <1>1 DEF IInv, TypeOK, AnswerIsToItsRequest
  <1> QED
    BY <1>1, <1>2, <1>3, <1>4, <1>5, <1>7, <1>9, <1>10, <1>11, ClientSettles

LEMMA SendHelloKeeps ==
  ASSUME IInv, NEW c \in Clients, SendHello(c)
  PROVE  IInv'
  <1>0. client[c].at = "connected"
    BY DEF SendHello
  <1>1. PICK k \in Connections : k = client[c].conn
    BY <1>0, OwnConnection
  <1> DEFINE f == Plain("hello", 0)
             w == Write(k, f)
             r == [conn[k] EXCEPT !.up = w]
             q == [client[c] EXCEPT !.at = "shaking"]
  <1>2. /\ conn' = [conn EXCEPT ![k] = r] /\ client' = [client EXCEPT ![c] = q]
        /\ UNCHANGED <<server, active, limiter, requests, executed, got, burnt, desynced, stops>>
    BY <1>1 DEF SendHello, IInv, TypeOK
  <1>3. Joined(c, k) /\ ConnOK(k)
    BY <1>0, <1>1, OwnConnection DEF IInv
  <1>4. /\ conn[k].task \in Early \cup {"ended"} /\ conn[k].down = <<>>
        /\ client[c].tx = 0 /\ client[c].rx = 1
    BY <1>0, <1>3 DEF Joined
  <1>5. conn[k].task # "ended" => Len(conn[k].up) = 0
    BY <1>0, <1>3, EmptyFrames DEF Joined
  <1>6. f \in Frame /\ f.kind = "hello"
    BY PlainType
  <1> HIDE DEF f
  <1>7. /\ w \in Seq(Frame)
        /\ conn[k].task = "ended" => w = conn[k].up
        /\ conn[k].task # "ended" => Len(w) = Len(conn[k].up) + 1 /\ w[Len(conn[k].up) + 1] = f
    BY <1>6, Written
  <1> HIDE DEF w
  <1>8. conn[k].task # "ended" => Len(w) = 1 /\ Len(w) <= 1 /\ w[1] = f
    <2>1. ASSUME conn[k].task # "ended"
          PROVE  Len(w) = 1 /\ Len(w) <= 1 /\ w[1] = f
      <3>1. Len(conn[k].up) = 0
        BY <1>5, <2>1
      <3>2. Len(w) = Len(conn[k].up) + 1 /\ w[Len(conn[k].up) + 1] = f
        BY <1>7, <2>1
      <3>3. Len(conn[k].up) + 1 = 1
        BY <3>1
      <3>4. Len(w) = 1 /\ w[1] = f
        BY <3>2, <3>3
      <3>5. 1 <= 1
        OBVIOUS
      <3> QED
        BY <3>4, <3>5
    <2> QED
      BY <2>1
  <1>9. /\ r \in ConnState /\ r.client = conn[k].client /\ r.task = conn[k].task
        /\ r.up = w /\ r.down = conn[k].down /\ r.tx = conn[k].tx /\ r.rx = conn[k].rx
    BY <1>7, ConnType DEF ConnState
  <1>10. /\ q \in ClientState /\ q.at = "shaking" /\ q.conn = k /\ q.tx = 0 /\ q.rx = 1
    BY <1>1, <1>4, ClientType DEF ClientState
  <1> HIDE DEF r, q
  <1>11. ConnTo(k, r) /\ ClientTo(c, q)
    BY <1>2, <1>9, <1>10, ConnMoves, ClientMoves DEF IInv
  <1>12. /\ conn'[k].client = conn[k].client /\ conn'[k].task = conn[k].task
         /\ conn'[k].up = w /\ conn'[k].down = conn[k].down
         /\ conn'[k].tx = conn[k].tx /\ conn'[k].rx = conn[k].rx
         /\ client'[c] = q
    BY <1>9, <1>11 DEF ConnTo, ClientTo
  <1>13. ConnOK(k)'
    <2>1. CASE conn[k].task = "ended"
      BY <1>2, <1>3, <1>7, <1>12, <2>1 DEF ConnOK, Early, Talking
    <2>2. CASE conn[k].task # "ended"
      <3>1. \A i \in 1..Len(conn'[k].up) : conn'[k].up[i].kind = "hello"
        BY <1>6, <1>8, <1>12, <2>2
      <3>2. Len(conn'[k].up) <= 1
        BY <1>8, <1>12, <2>2
      <3>3. conn[k].task \in Early /\ conn[k].task \notin Talking
        BY <1>4, <2>2 DEF Early, Talking
      <3> QED
        BY <1>3, <1>12, <3>1, <3>2, <3>3 DEF ConnOK
    <2> QED
      BY <2>1, <2>2
  <1>14. Joined(c, k)'
    <2>1. Len(conn'[k].down) <= 1
      BY <1>4, <1>12, EmptyFrames
    <2>2. conn[k].task # "confirming"
      BY <1>4 DEF Early
    <2>3. InStep(c, k)'
      BY <1>10, <1>12 DEF InStep
    <2> QED
      BY <1>3, <1>4, <1>10, <1>12, <2>1, <2>2, <2>3 DEF Joined
  <1>15. requests' \in Nat
    BY <1>2 DEF IInv, TypeOK
  <1> QED
    BY <1>0, <1>1, <1>2, <1>9, <1>10, <1>11, <1>13, <1>14, <1>15, OwnStep

\* A client that lets go of its stream.
LEMMA DropKeeps ==
  ASSUME IInv, NEW c \in Clients, client[c].at # "down", Drop(c),
         UNCHANGED <<server, active, limiter, requests, executed, got, burnt, desynced, stops>>
  PROVE  IInv'
  <1>1. PICK k \in Connections : k = client[c].conn
    BY OwnConnection
  <1> DEFINE r == [conn[k] EXCEPT !.open = FALSE]
  <1>2. conn' = [conn EXCEPT ![k] = r] /\ client' = [client EXCEPT ![c] = Down]
    BY <1>1 DEF Drop, IInv, TypeOK
  <1>3. /\ r \in ConnState /\ r.client = conn[k].client /\ r.task = conn[k].task
        /\ r.up = conn[k].up /\ r.down = conn[k].down /\ r.tx = conn[k].tx /\ r.rx = conn[k].rx
    BY ConnType DEF ConnState
  <1> HIDE DEF r
  <1>4. ConnTo(k, r) /\ ClientTo(c, Down) /\ Down \in ClientState /\ Down.at = "down"
    <2>1. Down \in ClientState /\ Down.at = "down"
      BY Defaults DEF Down
    <2> QED
      BY <1>2, <1>3, <2>1, ConnMoves, ClientMoves DEF IInv
  <1>5. /\ conn'[k].task = conn[k].task /\ conn'[k].up = conn[k].up /\ conn'[k].down = conn[k].down
        /\ conn'[k].tx = conn[k].tx /\ conn'[k].rx = conn[k].rx
    BY <1>3, <1>4 DEF ConnTo
  <1>6. ConnOK(k)' <=> ConnOK(k)
    BY <1>5 DEF ConnOK, Base
  <1>7. ConnOK(k)' /\ requests' \in Nat
    BY <1>6 DEF IInv, TypeOK
  <1> QED
    BY <1>1, <1>3, <1>4, <1>7, OwnStep

LEMMA TimeoutKeeps ==
  ASSUME IInv, NEW c \in Clients, Timeout(c)
  PROVE  IInv'
  BY DropKeeps DEF Timeout

LEMMA DisconnectKeeps ==
  ASSUME IInv, NEW c \in Clients, Disconnect(c)
  PROVE  IInv'
  BY DropKeeps DEF Disconnect

\* A step of a client alone, its connection staying as it is.
LEMMA ClientAlone ==
  ASSUME IInv, NEW c \in Clients, client[c].at # "down", NEW k, k = client[c].conn,
         NEW q \in ClientState, q.at # "down", q.conn = k,
         client' = [client EXCEPT ![c] = q],
         UNCHANGED <<conn, server, active, limiter, executed, got, burnt, desynced, stops>>,
         requests' \in Nat, Joined(c, k)'
  PROVE  IInv'
  <1>1. k \in Connections
    BY OwnConnection
  <1>2. ConnTo(k, conn[k]) /\ conn[k] \in ConnState /\ ClientTo(c, q)
    BY <1>1, ConnType, ClientMoves DEF ConnTo, IInv, TypeOK
  <1>3. ConnOK(k)'
    BY <1>1, ConnKeeps DEF IInv
  <1> QED
    BY <1>2, <1>3, OwnStep

LEMMA ClosedKeeps ==
  ASSUME IInv, NEW c \in Clients, Closed(c)
  PROVE  IInv'
  <1>0. /\ client[c].at \in {"shaking", "sending", "waiting"} /\ client[c].at # "down"
        /\ conn[client[c].conn].task = "ended"
        /\ client[c].at # "sending" => conn[client[c].conn].down = <<>>
        /\ UNCHANGED <<server, active, limiter, requests, executed, got, burnt, desynced, stops>>
    BY DEF Closed
  <1>1. CASE client[c].at = "shaking"
    BY <1>0, <1>1, DropKeeps DEF Closed
  <1>2. CASE client[c].at # "shaking"
    <2>1. PICK k \in Connections : k = client[c].conn
      BY <1>0, OwnConnection
    <2> DEFINE q == [client[c] EXCEPT !.at = "ready"]
    <2>2. client' = [client EXCEPT ![c] = q] /\ conn' = conn
      BY <1>2 DEF Closed, IInv, TypeOK
    <2>3. Joined(c, k)
      BY <1>0, <2>1, OwnConnection
    <2>4. /\ q \in ClientState /\ q.at = "ready" /\ q.conn = k
          /\ q.tx = client[c].tx /\ q.junk = client[c].junk
      BY <2>1, ClientType DEF ClientState
    <2> HIDE DEF q
    <2>5. client'[c] = q
      BY <2>2 DEF IInv, TypeOK
    <2>6. ~client[c].junk => conn[k].down = <<>>
      BY <1>0, <1>2, <2>1, <2>3 DEF Joined, InStep
    <2>7. Joined(c, k)'
      BY <1>0, <1>2, <2>1, <2>2, <2>3, <2>4, <2>5, <2>6 DEF Joined, InStep
    <2>8. requests' \in Nat
      BY <1>0 DEF IInv, TypeOK
    <2> QED
      BY <1>0, <2>1, <2>2, <2>4, <2>7, <2>8, ClientAlone
  <1> QED
    BY <1>1, <1>2

LEMMA ReceiveJunkKeeps ==
  ASSUME IInv, NEW c \in Clients, ReceiveJunk(c)
  PROVE  IInv'
  <1>0. /\ client[c].at = "waiting" /\ client[c].junk
        /\ UNCHANGED <<conn, server, active, limiter, requests, executed, got, burnt, desynced, stops>>
    BY DEF ReceiveJunk
  <1>1. PICK k \in Connections : k = client[c].conn
    BY <1>0, OwnConnection
  <1> DEFINE q == [client[c] EXCEPT !.at = "ready"]
  <1>2. client' = [client EXCEPT ![c] = q]
    BY DEF ReceiveJunk, IInv, TypeOK
  <1>3. Joined(c, k)
    BY <1>0, <1>1, OwnConnection
  <1>4. /\ q \in ClientState /\ q.at = "ready" /\ q.conn = k
        /\ q.tx = client[c].tx /\ q.junk = client[c].junk
    BY <1>1, ClientType DEF ClientState
  <1> HIDE DEF q
  <1>5. client'[c] = q
    BY <1>2 DEF IInv, TypeOK
  <1>6. Base(k)' = Base(k)
    BY <1>0 DEF Base
  <1>7. Joined(c, k)'
    BY <1>0, <1>3, <1>4, <1>5, <1>6 DEF Joined
  <1>8. requests' \in Nat
    BY <1>0 DEF IInv, TypeOK
  <1> QED
    BY <1>0, <1>1, <1>2, <1>4, <1>7, <1>8, ClientAlone

LEMMA FinishHandshakeKeeps ==
  ASSUME IInv, NEW c \in Clients, FinishHandshake(c)
  PROVE  IInv'
  <1>0. client[c].at = "shaking"
    BY DEF FinishHandshake
  <1>1. PICK k \in Connections : k = client[c].conn
    BY <1>0, OwnConnection
  <1> DEFINE f == Plain("confirm", client[c].tx)
             w == Write(k, f)
             d == Tail(conn[k].down)
             r == [conn[k] EXCEPT !.down = d, !.up = w]
             q == [client[c] EXCEPT !.at = "ready", !.rx = @ + 2, !.tx = @ + 2]
  <1>2. /\ conn' = [conn EXCEPT ![k] = r] /\ client' = [client EXCEPT ![c] = q]
        /\ conn[k].down # <<>>
        /\ UNCHANGED <<server, active, limiter, requests, executed, got, burnt, desynced, stops>>
    BY <1>1 DEF FinishHandshake, IInv, TypeOK
  <1>3. Joined(c, k) /\ ConnOK(k)
    BY <1>0, <1>1, OwnConnection DEF IInv
  <1>4. /\ client[c].tx = 0 /\ client[c].rx = 1
        /\ conn[k].task \in {"confirming", "ended"} /\ Len(conn[k].down) <= 1
    BY <1>0, <1>2, <1>3 DEF Joined, ConnOK
  <1>5. conn[k].task # "ended" => Len(conn[k].up) = 0 /\ conn[k].rx = 0 /\ conn[k].task = "confirming"
    BY <1>0, <1>3, <1>4, EmptyFrames DEF Joined
  <1>6. f \in Frame /\ f.kind = "confirm" /\ f.seq = 0
    BY <1>4, PlainType
  <1>7. d \in Seq(Frame) /\ d = <<>>
    <2>1. conn[k].down \in Seq(Frame)
      BY ConnType
    <2> QED
      BY <1>2, <1>4, <2>1, LastOne, EmptyFrames
  <1> HIDE DEF f, d
  <1>8. /\ w \in Seq(Frame)
        /\ conn[k].task = "ended" => w = conn[k].up
        /\ conn[k].task # "ended" => Len(w) = Len(conn[k].up) + 1 /\ w[Len(conn[k].up) + 1] = f
    BY <1>6, Written
  <1> HIDE DEF w
  <1>9. /\ r \in ConnState /\ r.client = conn[k].client /\ r.task = conn[k].task
        /\ r.up = w /\ r.down = d /\ r.tx = conn[k].tx /\ r.rx = conn[k].rx
    BY <1>7, <1>8, ConnType DEF ConnState
  <1>10. /\ q \in ClientState /\ q.at = "ready" /\ q.conn = k /\ q.tx = 2 /\ q.junk = client[c].junk
    <2>1. client[c].rx + 2 \in 0..SeqMax /\ client[c].tx + 2 \in 0..SeqMax /\ client[c].tx + 2 = 2
      BY <1>4, IpcAssumption
    <2> QED
      BY <1>1, <2>1, ClientType DEF ClientState
  <1> HIDE DEF r, q
  <1>11. ConnTo(k, r) /\ ClientTo(c, q)
    BY <1>2, <1>9, <1>10, ConnMoves, ClientMoves DEF IInv
  <1>12. /\ conn'[k].client = conn[k].client /\ conn'[k].task = conn[k].task
         /\ conn'[k].up = w /\ conn'[k].down = d /\ conn'[k].rx = conn[k].rx /\ client'[c] = q
    BY <1>9, <1>11 DEF ConnTo, ClientTo
  <1>13. conn[k].task # "ended" => Len(w) = 1 /\ w[1] = f
    <2>1. ASSUME conn[k].task # "ended"
          PROVE  Len(w) = 1 /\ w[1] = f
      <3>1. Len(conn[k].up) = 0
        BY <1>5, <2>1
      <3>2. Len(w) = Len(conn[k].up) + 1 /\ w[Len(conn[k].up) + 1] = f
        BY <1>8, <2>1
      <3>3. Len(conn[k].up) + 1 = 1
        BY <3>1
      <3> QED
        BY <3>2, <3>3
    <2> QED
      BY <2>1
  <1>14. \A i \in 1..Len(conn'[k].down) : FALSE
    BY <1>7, <1>12, EmptyFrames
  <1>15. conn[k].task # "ended" => \A i \in 1..Len(conn'[k].up) : conn'[k].up[i] = f
    <2>1. ASSUME conn[k].task # "ended", NEW i \in 1..Len(conn'[k].up)
          PROVE  conn'[k].up[i] = f
      <3>1. Len(conn'[k].up) = 1 /\ conn'[k].up[1] = f
        BY <1>12, <1>13, <2>1
      <3>2. i = 1
        BY <3>1
      <3> QED
        BY <3>1, <3>2
    <2> QED
      BY <2>1
  <1>16. ConnOK(k)'
    <2>1. CASE conn[k].task = "ended"
      BY <1>3, <1>8, <1>12, <1>14, <2>1 DEF ConnOK, Early, Talking
    <2>2. CASE conn[k].task # "ended"
      <3>1. \A i \in 1..Len(conn'[k].up) : conn'[k].up[i].kind = "confirm" /\ conn'[k].up[i].seq + 2 <= SeqMax
        BY <1>6, <1>15, <2>2, IpcAssumption
      <3> QED
        BY <1>5, <1>12, <1>14, <2>2, <3>1 DEF ConnOK, Early
    <2> QED
      BY <2>1, <2>2
  <1>17. Joined(c, k)'
    <2>1. conn[k].task # "ended" => q.tx = Base(k)' + Len(conn'[k].up) + 2
      <3>1. ASSUME conn[k].task # "ended"
            PROVE  q.tx = Base(k)' + Len(conn'[k].up) + 2
        <4>1. conn'[k].task = "confirming" /\ conn'[k].rx = 0 /\ Len(conn'[k].up) = 1
          BY <1>5, <1>12, <1>13, <3>1
        <4>2. Base(k)' = -1
          BY <4>1 DEF Base
        <4> QED
          BY <1>10, <4>1, <4>2
      <3> QED
        BY <3>1
    <2>2. conn[k].task # "ended" => NoMessage(k)'
      BY <1>6, <1>15 DEF NoMessage
    <2>3. InStep(c, k)'
      BY <1>4, <1>7, <1>10, <1>12, <2>2 DEF InStep
    <2> QED
      BY <1>3, <1>4, <1>10, <1>12, <2>1, <2>3 DEF Joined, Talking
  <1>18. requests' \in Nat
    BY <1>2 DEF IInv, TypeOK
  <1> QED
    BY <1>0, <1>1, <1>2, <1>9, <1>10, <1>11, <1>16, <1>17, <1>18, OwnStep

LEMMA SendRefusedKeeps ==
  ASSUME IInv, NEW c \in Clients, SendRefused(c)
  PROVE  IInv'
  <1>0. /\ client[c].at = "ready" /\ requests' = requests + 1
        /\ IF Exhausted(client[c].tx)
           THEN UNCHANGED <<client, burnt>>
           ELSE /\ client' = [client EXCEPT ![c].tx = @ + 2]
                /\ burnt' = burnt \cup {client[c].conn}
        /\ UNCHANGED <<server, active, limiter, conn, executed, got, desynced, stops>>
    BY DEF SendRefused
  <1>1. PICK k \in Connections : k = client[c].conn
    BY <1>0, OwnConnection
  <1>2. /\ Joined(c, k) /\ ConnOK(k)
        /\ \A d \in Clients : client[d].at # "down" /\ client[d].conn = k => d = c
    BY <1>0, <1>1, OwnConnection DEF IInv
  <1>3. burnt \subseteq burnt' /\ burnt' \in SUBSET Connections
    BY <1>0, <1>1 DEF IInv, TypeOK
  <1>4. \E q \in ClientState : ClientTo(c, q) /\ ClientOK(c)'
    <2>1. CASE Exhausted(client[c].tx)
      <3>1. client' = client /\ burnt' = burnt
        BY <1>0, <2>1
      <3>2. client[c] \in ClientState /\ ClientTo(c, client[c])
        BY <3>1, ClientType DEF ClientTo, IInv, TypeOK
      <3>3. ClientOK(c)'
        BY <1>0, <3>1, ClientKeeps DEF IInv
      <3> QED
        BY <3>2, <3>3
    <2>2. CASE ~Exhausted(client[c].tx)
      <3> DEFINE q == [client[c] EXCEPT !.tx = @ + 2]
      <3>1. client' = [client EXCEPT ![c] = q] /\ k \in burnt'
        BY <1>0, <1>1, <2>2 DEF IInv, TypeOK
      <3>2. client[c].tx + 2 \in 0..SeqMax
        BY <2>2, ClientType, IpcAssumption DEF Exhausted
      <3>3. /\ q \in ClientState /\ q.at = "ready" /\ q.conn = k /\ q.junk = client[c].junk
            /\ q.tx = client[c].tx + 2
        BY <1>0, <1>1, <3>2, ClientType DEF ClientState
      <3> HIDE DEF q
      <3>4. ClientTo(c, q) /\ client'[c] = q
        BY <3>1, <3>3, ClientMoves DEF IInv, ClientTo
      <3>5. q.tx >= 2
        BY <1>0, <1>2, <3>3, ClientType DEF Joined
      <3>6. InStep(c, k) => InStep(c, k)'
        BY <1>0, <3>3, <3>4 DEF InStep, NoMessage
      <3>7. Joined(c, k)'
        BY <1>0, <1>2, <3>1, <3>3, <3>4, <3>5, <3>6 DEF Joined
      <3> QED
        BY <3>3, <3>4, <3>7 DEF ClientOK
    <2> QED
      BY <2>1, <2>2
  <1>5. PICK q \in ClientState : ClientTo(c, q) /\ ClientOK(c)'
    BY <1>4
  <1>6. ConnTo(k, conn[k]) /\ conn[k] \in ConnState /\ (Live(k)' <=> Live(k))
    BY <1>0, ConnType DEF ConnTo, IInv, TypeOK, Live
  <1>7. ConnOK(k)'
    BY <1>0, <1>2, <1>3, ConnKeeps
  <1>8. requests' \in Nat /\ got' \in SUBSET (Nat \X Nat) /\ AnswerIsToItsRequest'
    BY <1>0 DEF IInv, TypeOK, AnswerIsToItsRequest
  <1> QED
    BY <1>0, <1>2, <1>3, <1>5, <1>6, <1>7, <1>8, ClientSettles

LEMMA ReceiveAnswerKeeps ==
  ASSUME IInv, NEW c \in Clients, ReceiveAnswer(c)
  PROVE  IInv'
  <1>0. /\ client[c].at = "waiting" /\ ~client[c].junk
        /\ UNCHANGED <<server, active, limiter, requests, executed, burnt, desynced, stops>>
    BY DEF ReceiveAnswer
  <1>1. PICK k \in Connections : k = client[c].conn
    BY <1>0, OwnConnection
  <1> DEFINE f == Head(conn[k].down)
             d == Tail(conn[k].down)
             r == [conn[k] EXCEPT !.down = d]
             lost == [client[c] EXCEPT !.at = "ready", !.junk = f.msg.kind = "verbose"]
             read == [client[c] EXCEPT !.at = "ready", !.rx = @ + 2]
  <1>2. /\ conn[k].down # <<>> /\ conn' = [conn EXCEPT ![k] = r]
        /\ \/ client' = [client EXCEPT ![c] = lost] /\ got' = got
           \/ /\ f.seq = client[c].rx
              /\ client' = [client EXCEPT ![c] = read] /\ got' = got \cup {<<client[c].req, f.req>>}
    BY <1>1 DEF ReceiveAnswer, IInv, TypeOK
  <1>3. /\ Joined(c, k) /\ ConnOK(k)
        /\ \A j \in Clients : client[j].at # "down" /\ client[j].conn = k => j = c
    BY <1>0, <1>1, OwnConnection DEF IInv
  <1>4. /\ Len(conn[k].down) = 1 /\ conn[k].down[1].req = client[c].req
        /\ conn[k].task # "ended" => NoMessage(k) /\ conn[k].task # "handling"
    BY <1>0, <1>2, <1>3 DEF Joined, InStep
  <1>5. /\ f = conn[k].down[1] /\ f \in Frame /\ d = <<>>
        /\ f.req = client[c].req /\ f.seq + 2 <= SeqMax
    <2>1. conn[k].down \in Seq(Frame) /\ Len(conn[k].down) <= 1
      <3>1. conn[k].down \in Seq(Frame) /\ 1 <= 1
        BY ConnType
      <3> QED
        BY <1>4, <3>1
    <2>2. f = conn[k].down[1] /\ f \in Frame
      BY <2>1, <1>2, Shorter
    <2>3. d = <<>>
      BY <2>1, <1>2, LastOne
    <2>4. 1 \in 1..Len(conn[k].down)
      BY <1>4
    <2>5. conn[k].down[1].seq + 2 <= SeqMax
      BY <1>3, <2>4 DEF ConnOK
    <2> QED
      BY <1>4, <2>2, <2>3, <2>5
  <1>6. d \in Seq(Frame) /\ Len(d) = 0
    BY <1>5, EmptyFrames
  <1> HIDE DEF f, d
  <1>7. /\ r \in ConnState /\ r.client = conn[k].client /\ r.task = conn[k].task
        /\ r.up = conn[k].up /\ r.down = d /\ r.tx = conn[k].tx /\ r.rx = conn[k].rx
    BY <1>6, ConnType DEF ConnState
  <1> HIDE DEF r
  <1>8. ConnTo(k, r)
    BY <1>2, <1>7, ConnMoves DEF IInv
  <1>9. PICK q \in ClientState : /\ client' = [client EXCEPT ![c] = q]
                                 /\ q.at = "ready" /\ q.conn = k /\ q.tx = client[c].tx
    <2>1. CASE client' = [client EXCEPT ![c] = lost]
      <3>1. lost \in ClientState /\ lost.at = "ready" /\ lost.conn = k /\ lost.tx = client[c].tx
        BY <1>1, ClientType DEF ClientState
      <3> QED
        BY <2>1, <3>1
    <2>2. CASE f.seq = client[c].rx /\ client' = [client EXCEPT ![c] = read]
      <3>1. client[c].rx + 2 \in 0..SeqMax
        BY <1>5, <2>2, ClientType, IpcAssumption
      <3>2. read \in ClientState /\ read.at = "ready" /\ read.conn = k /\ read.tx = client[c].tx
        BY <1>1, <3>1, ClientType DEF ClientState
      <3> QED
        BY <2>2, <3>2
    <2> QED
      BY <1>2, <2>1, <2>2
  <1>10. ClientTo(c, q) /\ client'[c] = q
    BY <1>9, ClientMoves DEF IInv, ClientTo
  <1>11. /\ conn'[k].client = conn[k].client /\ conn'[k].task = conn[k].task
         /\ conn'[k].up = conn[k].up /\ conn'[k].down = <<>>
         /\ conn'[k].tx = conn[k].tx /\ conn'[k].rx = conn[k].rx
    BY <1>5, <1>7, <1>8 DEF ConnTo
  <1>12. Base(k)' = Base(k) /\ (NoMessage(k)' <=> NoMessage(k))
    BY <1>11 DEF Base, NoMessage
  <1>13. ConnOK(k)'
    <2>1. \A i \in 1..Len(conn'[k].down) : FALSE
      BY <1>11, EmptyFrames
    <2> QED
      BY <1>0, <1>3, <1>11, <1>12, <2>1 DEF ConnOK
  <1>14. Joined(c, k)'
    <2>1. InStep(c, k)'
      BY <1>4, <1>9, <1>10, <1>11, <1>12 DEF InStep
    <2> QED
      BY <1>0, <1>3, <1>9, <1>10, <1>11, <1>12, <2>1 DEF Joined
  <1>15. ClientOK(c)'
    BY <1>9, <1>10, <1>14 DEF ClientOK
  <1>16. got' \in SUBSET (Nat \X Nat) /\ AnswerIsToItsRequest'
    <2>1. client[c].req \in Nat
      BY ClientType
    <2>2. got' = got \/ got' = got \cup {<<client[c].req, client[c].req>>}
      BY <1>2, <1>5
    <2> QED
      BY <2>1, <2>2 DEF IInv, TypeOK, AnswerIsToItsRequest
  <1>17. /\ requests' \in Nat /\ burnt \subseteq burnt' /\ burnt' \in SUBSET Connections
         /\ (Live(k)' <=> Live(k))
    BY <1>0, <1>11 DEF IInv, TypeOK, Live
  <1> QED
    BY <1>0, <1>3, <1>7, <1>8, <1>10, <1>13, <1>15, <1>16, <1>17, ClientSettles

\* A client that has written the length of a message, and then the message.
LEMMA SendLengthKeeps ==
  ASSUME IInv, NEW c \in Clients, SendLength(c)
  PROVE  IInv'
  <1>0. client[c].at = "ready"
    BY DEF SendLength
  <1>1. PICK k \in Connections : k = client[c].conn
    BY <1>0, OwnConnection
  <1>2. PICK m \in Message :
          /\ ~Exhausted(client[c].tx) /\ requests' = requests + 1
          /\ client' = [client EXCEPT ![c] = [client[c] EXCEPT !.at = "sending", !.tx = @ + 2,
                                                               !.req = requests', !.msg = m]]
          /\ conn' = [conn EXCEPT ![k].up = Write(k, Plain("length", 0))]
          /\ UNCHANGED <<server, active, limiter, executed, got, burnt, desynced, stops>>
    BY <1>1 DEF SendLength
  <1> DEFINE f == Plain("length", 0)
             w == Write(k, f)
             r == [conn[k] EXCEPT !.up = w]
  <1>3. PICK q : q = [client[c] EXCEPT !.at = "sending", !.tx = @ + 2, !.req = requests', !.msg = m]
    OBVIOUS
  <1>4. conn' = [conn EXCEPT ![k] = r] /\ client' = [client EXCEPT ![c] = q]
    BY <1>2, <1>3 DEF IInv, TypeOK
  <1>5. Joined(c, k) /\ ConnOK(k)
    BY <1>0, <1>1, OwnConnection DEF IInv
  <1>6. f \in Frame /\ f.kind = "length"
    BY PlainType
  <1> HIDE DEF f
  <1>7. /\ w \in Seq(Frame)
        /\ conn[k].task = "ended" => w = conn[k].up
        /\ conn[k].task # "ended" =>
              /\ Len(w) = Len(conn[k].up) + 1 /\ Len(conn[k].up) \in Nat
              /\ \A i \in 1..Len(conn[k].up) : w[i] = conn[k].up[i]
              /\ w[Len(conn[k].up) + 1] = f
    BY <1>6, Written
  <1> HIDE DEF w
  <1>8. /\ r \in ConnState /\ r.client = conn[k].client /\ r.task = conn[k].task
        /\ r.up = w /\ r.down = conn[k].down /\ r.tx = conn[k].tx /\ r.rx = conn[k].rx
    BY <1>7, ConnType DEF ConnState
  <1>9. requests' \in Nat
    BY <1>2 DEF IInv, TypeOK
  <1>10. /\ q \in ClientState /\ q.at = "sending" /\ q.conn = k /\ q.tx = client[c].tx + 2
         /\ q.junk = client[c].junk
    <2>1. client[c].tx + 2 \in 0..SeqMax
      BY <1>2, ClientType, IpcAssumption DEF Exhausted
    <2> QED
      BY <1>1, <1>3, <1>9, <2>1, ClientType DEF ClientState
  <1> HIDE DEF r
  <1>11. ConnTo(k, r) /\ ClientTo(c, q)
    BY <1>4, <1>8, <1>10, ConnMoves, ClientMoves DEF IInv
  <1>12. /\ conn'[k].client = conn[k].client /\ conn'[k].task = conn[k].task
         /\ conn'[k].up = w /\ conn'[k].down = conn[k].down
         /\ conn'[k].tx = conn[k].tx /\ conn'[k].rx = conn[k].rx
         /\ client'[c] = q
    BY <1>8, <1>11 DEF ConnTo, ClientTo
  <1>13. Base(k)' = Base(k) /\ conn[k].task \in Talking \cup {"ended"} /\ client[c].tx >= 2
    BY <1>0, <1>5, <1>12 DEF Base, Joined
  <1>14. CASE conn[k].task = "ended"
    <2>1. conn'[k].up = conn[k].up
      BY <1>7, <1>12, <1>14
    <2>2. ConnOK(k)'
      BY <1>2, <1>5, <1>12, <1>14, <2>1 DEF ConnOK, Early, Talking
    <2>3. InStep(c, k) => InStep(c, k)'
      BY <1>0, <1>10, <1>12, <1>14 DEF InStep
    <2>4. q.tx >= 2
      BY <1>10, <1>13, ClientType
    <2>5. Joined(c, k)'
      BY <1>0, <1>5, <1>10, <1>12, <1>14, <2>3, <2>4 DEF Joined
    <2> QED
      BY <1>0, <1>1, <1>2, <1>8, <1>9, <1>10, <1>11, <2>2, <2>5, OwnStep
  <1>15. CASE conn[k].task # "ended"
    <2>1. /\ Len(w) = Len(conn[k].up) + 1 /\ Len(conn[k].up) \in Nat
          /\ \A i \in 1..Len(w) : (i \in 1..Len(conn[k].up) /\ w[i] = conn[k].up[i]) \/ w[i].kind = "length"
      BY <1>6, <1>7, <1>15
    <2>2. conn[k].task \in Talking /\ conn[k].task \notin Early
      BY <1>13, <1>15 DEF Talking, Early
    <2>3. ConnOK(k)'
      <3>1. \A i \in 1..Len(conn'[k].up) :
               conn'[k].up[i].kind \in {"confirm", "message"} => conn'[k].up[i].seq + 2 <= SeqMax
        BY <1>5, <1>12, <2>1 DEF ConnOK
      <3>2. k \notin burnt => \A i \in 1..Len(conn'[k].up) :
               conn'[k].up[i].kind = "message" => conn'[k].up[i].seq = Base(k)' + i
        BY <1>5, <1>12, <1>13, <2>1, <2>2 DEF ConnOK
      <3> QED
        BY <1>2, <1>5, <1>12, <2>2, <3>1, <3>2 DEF ConnOK
    <2>4. NoMessage(k) => NoMessage(k)'
      BY <1>12, <2>1 DEF NoMessage
    <2>5. InStep(c, k) => InStep(c, k)'
      BY <1>0, <1>10, <1>12, <1>15, <2>4 DEF InStep
    <2>6. k \notin burnt => q.tx = Base(k)' + Len(conn'[k].up) + 3
      <3>1. Base(k) \in Int
        BY ConnType DEF Base
      <3>2. Len(conn'[k].up) = Len(conn[k].up) + 1 /\ Len(conn[k].up) \in Nat
        BY <1>12, <2>1
      <3>3. q.tx = client[c].tx + 2 /\ Base(k)' = Base(k)
        BY <1>10, <1>13
      <3>4. ASSUME k \notin burnt
            PROVE  q.tx = Base(k)' + Len(conn'[k].up) + 3
        <4>1. client[c].tx = Base(k) + Len(conn[k].up) + 2
          BY <1>0, <1>5, <1>15, <3>4 DEF Joined
        <4>2. PICK b \in Int : b = Base(k)
          BY <3>1
        <4>3. PICK n \in Nat : n = Len(conn[k].up)
          BY <3>2
        <4>4. client[c].tx = b + n + 2
          BY <4>1, <4>2, <4>3
        <4>5. q.tx = b + n + 2 + 2
          BY <3>3, <4>4
        <4>6. Base(k)' + Len(conn'[k].up) + 3 = b + (n + 1) + 3
          BY <3>2, <3>3, <4>2, <4>3
        <4>7. b + n + 2 + 2 = b + (n + 1) + 3
          OBVIOUS
        <4> QED
          BY <4>5, <4>6, <4>7
      <3> QED
        BY <3>4
    <2>7. q.tx >= 2
      BY <1>10, <1>13, ClientType
    <2>8. Joined(c, k)'
      BY <1>0, <1>2, <1>5, <1>10, <1>12, <1>15, <2>2, <2>5, <2>6, <2>7 DEF Joined
    <2> QED
      BY <1>0, <1>1, <1>2, <1>8, <1>9, <1>10, <1>11, <2>3, <2>8, OwnStep
  <1> QED
    BY <1>14, <1>15

LEMMA SendBodyKeeps ==
  ASSUME IInv, NEW c \in Clients, SendBody(c)
  PROVE  IInv'
  <1>0. client[c].at = "sending"
    BY DEF SendBody
  <1>1. PICK k \in Connections : k = client[c].conn
    BY <1>0, OwnConnection
  <1> DEFINE f == [kind |-> "message", seq |-> client[c].tx - 2, req |-> client[c].req, msg |-> client[c].msg]
             w == Write(k, f)
             r == [conn[k] EXCEPT !.up = w]
             q == [client[c] EXCEPT !.at = "waiting"]
  <1>2. /\ conn[k].task # "ended"
        /\ conn' = [conn EXCEPT ![k] = r] /\ client' = [client EXCEPT ![c] = q]
        /\ UNCHANGED <<server, active, limiter, requests, executed, got, burnt, desynced, stops>>
    BY <1>1 DEF SendBody, IInv, TypeOK
  <1>3. Joined(c, k) /\ ConnOK(k)
    BY <1>0, <1>1, OwnConnection DEF IInv
  <1>4. conn[k].task \in Talking /\ conn[k].task \notin Early /\ client[c].tx >= 2
    BY <1>0, <1>2, <1>3 DEF Joined, Talking, Early
  <1>5. /\ f \in Frame /\ f.kind = "message" /\ f.req = client[c].req
        /\ f.seq = client[c].tx - 2 /\ f.seq + 2 <= SeqMax
    <2>1. client[c].tx - 2 \in Nat /\ client[c].tx - 2 + 2 <= SeqMax
      BY <1>4, ClientType, IpcAssumption
    <2>2. client[c].req \in Nat /\ client[c].msg \in Message
      BY ClientType DEF ClientState
    <2> QED
      BY <2>1, <2>2 DEF Frame
  <1> HIDE DEF f
  <1>6. PICK n \in Nat : n = Len(conn[k].up)
    BY ConnType, Empty
  <1>7. /\ w \in Seq(Frame) /\ Len(w) = n + 1 /\ w[n + 1] = f
        /\ \A i \in 1..n : w[i] = conn[k].up[i]
    BY <1>2, <1>5, <1>6, Written
  <1> HIDE DEF w
  <1>8. /\ r \in ConnState /\ r.client = conn[k].client /\ r.task = conn[k].task
        /\ r.up = w /\ r.down = conn[k].down /\ r.tx = conn[k].tx /\ r.rx = conn[k].rx
    BY <1>7, ConnType DEF ConnState
  <1>9. /\ q \in ClientState /\ q.at = "waiting" /\ q.conn = k /\ q.tx = client[c].tx
        /\ q.junk = client[c].junk /\ q.req = client[c].req
    BY <1>1, ClientType DEF ClientState
  <1> HIDE DEF r, q
  <1>10. ConnTo(k, r) /\ ClientTo(c, q)
    BY <1>2, <1>8, <1>9, ConnMoves, ClientMoves DEF IInv
  <1>11. /\ conn'[k].client = conn[k].client /\ conn'[k].task = conn[k].task
         /\ conn'[k].up = w /\ conn'[k].down = conn[k].down
         /\ conn'[k].tx = conn[k].tx /\ conn'[k].rx = conn[k].rx
         /\ client'[c] = q
    BY <1>8, <1>10 DEF ConnTo, ClientTo
  <1>12. PICK b \in Int : b = Base(k)
    BY ConnType DEF Base
  <1>13. Base(k)' = b
    BY <1>11, <1>12 DEF Base
  <1>14. k \notin burnt => client[c].tx = b + n + 3
    BY <1>0, <1>2, <1>3, <1>6, <1>12 DEF Joined
  <1>15. ASSUME NEW i \in 1..Len(w)
         PROVE  (i \in 1..n /\ w[i] = conn[k].up[i]) \/ (i = n + 1 /\ w[i] = f)
    <2>1. i \in 1..(n + 1)
      BY <1>7, <1>15
    <2>2. i \in 1..n \/ i = n + 1
      BY <2>1
    <2>3. CASE i \in 1..n
      <3>1. \A j \in 1..n : w[j] = conn[k].up[j]
        BY <1>7
      <3>2. w[i] = conn[k].up[i]
        BY <2>3, <3>1
      <3> QED
        BY <2>3, <3>2
    <2>4. CASE i = n + 1
      BY <1>7, <2>4
    <2> QED
      BY <2>2, <2>3, <2>4
  <1>16. ConnOK(k)'
    <2>1. \A i \in 1..Len(w) : w[i].kind \in {"confirm", "message"} => w[i].seq + 2 <= SeqMax
      BY <1>3, <1>5, <1>6, <1>15 DEF ConnOK
    <2>2. ASSUME k \notin burnt, NEW i \in 1..Len(w), w[i].kind = "message"
          PROVE  w[i].seq = b + i
      <3>1. CASE i \in 1..n /\ w[i] = conn[k].up[i]
        BY <1>3, <1>4, <1>6, <1>12, <2>2, <3>1 DEF ConnOK
      <3>2. CASE i = n + 1 /\ w[i] = f
        <4>1. client[c].tx - 2 = b + (n + 1)
          BY <1>14, <2>2
        <4> QED
          BY <1>5, <3>2, <4>1
      <3> QED
        BY <1>15, <3>1, <3>2
    <2>3. \A i \in 1..Len(conn'[k].down) : conn'[k].down[i].seq + 2 <= SeqMax
      BY <1>3, <1>11 DEF ConnOK
    <2> QED
      BY <1>2, <1>4, <1>11, <1>13, <2>1, <2>2, <2>3 DEF ConnOK
  <1>17. Joined(c, k)'
    <2>1. ASSUME ~client[c].junk PROVE InStep(c, k)'
      <3>1. NoMessage(k) /\ conn[k].down = <<>> /\ conn[k].task # "handling"
        BY <1>0, <1>2, <1>3, <2>1 DEF Joined, InStep
      <3>2. ASSUME NEW i \in 1..Len(w), w[i].kind = "message"
            PROVE  i = Len(w) /\ w[i].req = client[c].req
        BY <1>5, <1>6, <1>7, <1>15, <3>1, <3>2 DEF NoMessage
      <3> QED
        BY <1>9, <1>11, <3>1, <3>2 DEF InStep
    <2>2. k \notin burnt => q.tx = Base(k)' + Len(w) + 2
      <3>1. ASSUME k \notin burnt
            PROVE  q.tx = Base(k)' + Len(w) + 2
        <4>1. q.tx = b + n + 3
          BY <1>9, <1>14, <3>1
        <4>2. Base(k)' + Len(w) + 2 = b + (n + 1) + 2
          BY <1>7, <1>13
        <4>3. b + (n + 1) + 2 = b + n + 3
          OBVIOUS
        <4> QED
          BY <4>1, <4>2, <4>3
      <3> QED
        BY <3>1
    <2> QED
      BY <1>0, <1>2, <1>3, <1>4, <1>9, <1>11, <2>1, <2>2 DEF Joined
  <1>18. requests' \in Nat
    BY <1>2 DEF IInv, TypeOK
  <1> QED
    BY <1>0, <1>1, <1>2, <1>8, <1>9, <1>10, <1>16, <1>17, <1>18, OwnStep

-----------------------------------------------------------------------------
(* The server as a whole *)

LEMMA WindowElapsesKeeps ==
  ASSUME IInv, NEW o \in Operations, WindowElapses(o)
  PROVE  IInv'
  <1>1. /\ limiter' = [limiter EXCEPT ![o] = 0]
        /\ UNCHANGED <<server, active, conn, client, requests, executed, got, burnt, desynced, stops>>
    BY DEF WindowElapses
  <1>2. TypeOK'
    BY <1>1, IpcAssumption DEF IInv, TypeOK
  <1>3. SlotsMatchTasks' /\ AnswerIsToItsRequest' /\ DesyncOnlyAfterRefusal'
    BY <1>1 DEF IInv, SlotsMatchTasks, Live, AnswerIsToItsRequest, DesyncOnlyAfterRefusal
  <1>4. (\A k \in Connections : ConnOK(k)') /\ (\A c \in Clients : ClientOK(c)')
    BY <1>1, ConnKeeps, ClientKeeps DEF IInv
  <1> QED
    BY <1>2, <1>3, <1>4 DEF IInv

\* A step that changes at most what the server as a whole is doing.
LEMMA TurnKeeps ==
  ASSUME IInv, UNCHANGED <<active, limiter, conn, client, requests, executed, got, burnt, desynced, stops>>,
         server' \in {"up", "draining", "down"}
  PROVE  IInv'
  <1>1. TypeOK'
    BY DEF IInv, TypeOK
  <1>2. SlotsMatchTasks' /\ AnswerIsToItsRequest' /\ DesyncOnlyAfterRefusal'
    BY DEF IInv, SlotsMatchTasks, Live, AnswerIsToItsRequest, DesyncOnlyAfterRefusal
  <1>3. (\A k \in Connections : ConnOK(k)') /\ (\A c \in Clients : ClientOK(c)')
    BY ConnKeeps, ClientKeeps DEF IInv
  <1> QED
    BY <1>1, <1>2, <1>3 DEF IInv

LEMMA StopKeeps ==
  ASSUME IInv, Stop
  PROVE  IInv'
  <1>1. /\ server' = "down" /\ stops' = stops + 1 /\ active' = 0
        /\ limiter' = [o \in Operations |-> 0]
        /\ conn' = [k \in Connections |->
                       IF conn[k].task = "none" THEN conn[k] ELSE [conn[k] EXCEPT !.task = "ended"]]
        /\ UNCHANGED <<client, requests, executed, got, burnt, desynced>>
    BY DEF Stop
  <1>2. ASSUME NEW k \in Connections
        PROVE  /\ conn'[k] \in ConnState
               /\ conn[k].task = "none" => conn'[k] = conn[k]
               /\ conn[k].task # "none" =>
                     /\ conn'[k].client = conn[k].client /\ conn'[k].task = "ended"
                     /\ conn'[k].down = conn[k].down /\ conn'[k].up = conn[k].up
               /\ ~Live(k)'
    <2>1. CASE conn[k].task = "none"
      <3>1. conn'[k] = conn[k]
        BY <1>1, <2>1
      <3> QED
        BY <2>1, <3>1, ConnType DEF Live
    <2>2. CASE conn[k].task # "none"
      <3>1. conn'[k] = [conn[k] EXCEPT !.task = "ended"]
        BY <1>1, <2>2
      <3>2. /\ conn'[k] \in ConnState /\ conn'[k].client = conn[k].client /\ conn'[k].task = "ended"
            /\ conn'[k].down = conn[k].down /\ conn'[k].up = conn[k].up
        BY <3>1, ConnType, EndedRecord
      <3> QED
        BY <2>2, <3>2 DEF Live
    <2> QED
      BY <2>1, <2>2
  <1>3. TypeOK'
    <2>1. conn' \in [Connections -> ConnState]
      BY <1>1, <1>2
    <2>2. /\ active' \in 0..MaxConns /\ limiter' \in [Operations -> 0..MaxOps] /\ stops' \in Nat
          /\ client' \in [Clients -> ClientState] /\ requests' \in Nat /\ executed' \in SUBSET Nat
          /\ got' \in SUBSET (Nat \X Nat) /\ burnt' \in SUBSET Connections
          /\ desynced' \in SUBSET Connections
      BY <1>1, IpcAssumption DEF IInv, TypeOK
    <2> QED
      BY <1>1, <2>1, <2>2 DEF TypeOK
  <1>4. SlotsMatchTasks'
    <2>1. {k \in Connections : Live(k)'} = {}
      BY <1>2
    <2> QED
      BY <1>1, <2>1, FS_EmptySet DEF SlotsMatchTasks
  <1>5. ASSUME NEW k \in Connections
        PROVE  ConnOK(k)'
    <2>1. ConnOK(k)
      BY DEF IInv
    <2>2. CASE conn[k].task = "none"
      BY <1>1, <1>2, <2>1, <2>2, ConnKeeps
    <2>3. CASE conn[k].task # "none"
      BY <1>2, <2>1, <2>3 DEF ConnOK, Early, Talking
    <2> QED
      BY <2>2, <2>3
  <1>6. ASSUME NEW c \in Clients
        PROVE  ClientOK(c)'
    <2>1. client'[c] = client[c]
      BY <1>1
    <2>2. ASSUME client[c].at # "down"
          PROVE  Joined(c, client[c].conn)'
      <3>1. PICK k \in Connections : k = client[c].conn
        BY <2>2, OwnConnection
      <3>2. Joined(c, k)
        BY <2>2, <3>1, OwnConnection
      <3>3. /\ conn'[k].client = conn[k].client /\ conn'[k].task = "ended"
            /\ conn'[k].down = conn[k].down /\ conn'[k].up = conn[k].up
        BY <1>2, <3>2 DEF Joined
      <3>4. Joined(c, k)'
        BY <2>1, <3>2, <3>3 DEF Joined, InStep
      <3> QED
        BY <2>1, <3>1, <3>4
    <2> QED
      BY <2>1, <2>2 DEF ClientOK
  <1>7. AnswerIsToItsRequest' /\ DesyncOnlyAfterRefusal'
    BY <1>1 DEF IInv, AnswerIsToItsRequest, DesyncOnlyAfterRefusal
  <1> QED
    BY <1>3, <1>4, <1>5, <1>6, <1>7 DEF IInv

LEMMA InitHolds == Init => IInv
  <1> SUFFICES ASSUME Init PROVE IInv
    OBVIOUS
  <1>1. /\ server = "up" /\ active = 0 /\ limiter = [o \in Operations |-> 0]
        /\ conn = [k \in Connections |-> Unmade] /\ client = [c \in Clients |-> Down]
        /\ requests = 0 /\ executed = {} /\ got = {} /\ burnt = {} /\ desynced = {} /\ stops = 0
    BY DEF Init
  <1>2. TypeOK
    BY <1>1, Defaults, IpcAssumption DEF TypeOK
  <1>3. \A k \in Connections :
           /\ conn[k].task = "none" /\ conn[k].tx = 1 /\ conn[k].rx = 0
           /\ conn[k].up = <<>> /\ conn[k].down = <<>>
    <2>1. /\ Unmade.task = "none" /\ Unmade.tx = 1 /\ Unmade.rx = 0
          /\ Unmade.up = <<>> /\ Unmade.down = <<>>
      BY Zenon DEF Unmade
    <2> QED
      BY <1>1, <2>1
  <1>4. SlotsMatchTasks
    <2>1. {k \in Connections : Live(k)} = {}
      BY <1>3 DEF Live
    <2> QED
      BY <1>1, <2>1, FS_EmptySet DEF SlotsMatchTasks
  <1>5. ASSUME NEW k \in Connections
        PROVE  ConnOK(k)
    <2>1. /\ conn[k].task = "none" /\ conn[k].tx = 1 /\ conn[k].rx = 0
          /\ conn[k].up = <<>> /\ conn[k].down = <<>>
      BY <1>3
    <2>2. Len(conn[k].up) = 0 /\ Len(conn[k].down) = 0
      BY <2>1
    <2> QED
      BY <2>1, <2>2 DEF ConnOK, Early, Talking
  <1>6. \A c \in Clients : ClientOK(c)
    BY <1>1 DEF ClientOK, Down
  <1>7. AnswerIsToItsRequest /\ DesyncOnlyAfterRefusal
    BY <1>1 DEF AnswerIsToItsRequest, DesyncOnlyAfterRefusal
  <1> QED
    BY <1>2, <1>4, <1>5, <1>6, <1>7 DEF IInv

LEMMA StepHolds == IInv /\ [Next]_vars => IInv'
  <1> SUFFICES ASSUME IInv, [Next]_vars PROVE IInv'
    OBVIOUS
  <1>1. ASSUME NEW c \in Clients, ClientReacts(c) \/ ClientActs(c)
        PROVE  IInv'
    BY <1>1, FinishHandshakeKeeps, ClosedKeeps, ReceiveAnswerKeeps, ReceiveJunkKeeps, TimeoutKeeps,
       ConnectKeeps, SendHelloKeeps, SendRefusedKeeps, SendLengthKeeps, SendBodyKeeps, DisconnectKeeps
       DEF ClientReacts, ClientActs
  <1>2. ASSUME NEW k \in Connections, TaskStep(k) \/ Respond(k)
        PROVE  IInv'
    BY <1>2, AcceptKeeps, CheckPeerKeeps, ReadHelloKeeps, ReadConfirmKeeps, ReadLengthKeeps, ReadDesyncKeeps,
       ReadRefusedKeeps, ReadRequestKeeps, ReadEofKeeps, ServerTimeoutKeeps, RespondKeeps
       DEF TaskStep
  <1>3. CASE \E o \in Operations : WindowElapses(o)
    BY <1>3, WindowElapsesKeeps
  <1>4. CASE Shutdown
    BY <1>4, TurnKeeps DEF Shutdown
  <1>5. CASE Stop
    BY <1>5, StopKeeps
  <1>6. CASE Start
    BY <1>6, TurnKeeps DEF Start
  <1>7. CASE UNCHANGED vars
    BY <1>7, TurnKeeps DEF vars, IInv, TypeOK
  <1> QED
    BY <1>1, <1>2, <1>3, <1>4, <1>5, <1>6, <1>7 DEF Next

LEMMA IpcInv == Spec => []IInv
  BY InitHolds, StepHolds, PTL DEF Spec

-----------------------------------------------------------------------------
(* Results *)

\* Every value of the channel keeps its type; above all, encrypt of crypto.rs never hands
\* out a sequence number past the last of its 64 bits, on either side and on any connection.
THEOREM IpcTypeCorrect == Spec => []TypeOK
  <1>1. IInv => TypeOK
    BY DEF IInv
  <1> QED
    BY <1>1, IpcInv, PTL

\* active_connections is the number of connection tasks: handle_connection gives its slot
\* back on every way out, also out of a refused peer, a time limit, a lost stream and a stop.
THEOREM SlotsAreReturned == Spec => []SlotsMatchTasks
  <1>1. IInv => SlotsMatchTasks
    BY DEF IInv
  <1> QED
    BY <1>1, IpcInv, PTL

\* An answer that recv_message accepts answers the request just sent: a late answer
\* to an earlier one is never taken for it.
THEOREM AnswersAreMatched == Spec => []AnswerIsToItsRequest
  <1>1. IInv => AnswerIsToItsRequest
    BY DEF IInv
  <1> QED
    BY <1>1, IpcInv, PTL

\* decrypt refuses a message for its number only if the client had sealed one it then did
\* not send: nothing else parts the two counts.
THEOREM ServerStaysInStep == Spec => []DesyncOnlyAfterRefusal
  <1>1. IInv => DesyncOnlyAfterRefusal
    BY DEF IInv
  <1> QED
    BY <1>1, IpcInv, PTL
=============================================================================
