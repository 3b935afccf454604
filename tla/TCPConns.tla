------------------------------ MODULE TCPConns ------------------------------
(***************************************************************************)
(* The client's TCP forwarder (internal/tcp/transport.go, pipe.go): one    *)
(* goroutine and one tunnel stream per local connection, copied in both    *)
(* directions, each of which half-closes its destination when its source   *)
(* has ended.  The bytes are left out.                                     *)
(***************************************************************************)
EXTENDS Integers

CONSTANT Conns   \* the local connections

VARIABLES
  listener,  \* the local listener is open
  acceptor,  \* where acceptLocalConns is
  conn,      \* per connection, where handleLocalConn is
  copying,   \* per connection, the directions of pipe still running
  tunnel,    \* per connection, its stream as this side reads it
  local      \* per connection, whether the application has closed its side

tcpVars == <<listener, acceptor, conn, copying, tunnel, local>>

Directions == {"local_to_tunnel", "tunnel_to_local"}

TCPTypeOK ==
  /\ listener \in BOOLEAN
  /\ acceptor \in {"none", "accepting", "waiting", "returned"}
  /\ conn \in [Conns -> {"none", "opening", "piping", "gone"}]
  /\ copying \in [Conns -> SUBSET Directions]
  /\ tunnel \in [Conns -> {"none", "open", "eof", "cut"}]
  /\ local \in [Conns -> {"open", "closed"}]

TCPInit ==
  /\ listener = FALSE
  /\ acceptor = "none"
  /\ conn = [c \in Conns |-> "none"]
  /\ copying = [c \in Conns |-> {}]
  /\ tunnel = [c \in Conns |-> "none"]
  /\ local = [c \in Conns |-> "open"]

-----------------------------------------------------------------------------
Accept(c) ==
  /\ acceptor = "accepting" /\ listener
  /\ conn[c] = "none"
  /\ conn' = [conn EXCEPT ![c] = "opening"]
  /\ UNCHANGED <<listener, acceptor, copying, tunnel, local>>

StreamOpened(c) ==
  /\ conn[c] = "opening"
  /\ conn' = [conn EXCEPT ![c] = "piping"]
  /\ tunnel' = [tunnel EXCEPT ![c] = "open"]
  /\ copying' = [copying EXCEPT ![c] = Directions]
  /\ UNCHANGED <<listener, acceptor, local>>

StreamRefused(c) ==
  /\ conn[c] = "opening"
  /\ conn' = [conn EXCEPT ![c] = "gone"]
  /\ UNCHANGED <<listener, acceptor, copying, tunnel, local>>

\* copyAndCloseWrite, when its source has ended or its destination failed.
CopyEnds(c, dir) ==
  /\ dir \in copying[c]
  /\ copying' = [copying EXCEPT ![c] = @ \ {dir}]
  /\ UNCHANGED <<listener, acceptor, conn, tunnel, local>>

\* Copying from the application ends with its data, and from the tunnel with the
\* stream.  Neither end is told of the other's by more than a half-close.
UpEnds(c)   == local[c] = "closed" /\ CopyEnds(c, "local_to_tunnel")
DownEnds(c) == tunnel[c] \in {"eof", "cut"} /\ CopyEnds(c, "tunnel_to_local")

\* A write fails: the application sends into a stream that is gone, or the other way.
UpFails(c)   == tunnel[c] = "cut" /\ CopyEnds(c, "local_to_tunnel")
DownFails(c) == local[c] = "closed" /\ CopyEnds(c, "tunnel_to_local")

\* Both directions have ended; the stream and the connection are closed.
PipeReturns(c) ==
  /\ conn[c] = "piping" /\ copying[c] = {}
  /\ conn' = [conn EXCEPT ![c] = "gone"]
  /\ tunnel' = [tunnel EXCEPT ![c] = "cut"]
  /\ UNCHANGED <<listener, acceptor, copying, local>>

\* The listener is closed: wait for the connections.
AcceptEnds ==
  /\ acceptor = "accepting" /\ ~listener
  /\ acceptor' = "waiting"
  /\ UNCHANGED <<listener, conn, copying, tunnel, local>>

AcceptReturns ==
  /\ acceptor = "waiting"
  /\ \A c \in Conns : conn[c] \in {"none", "gone"}
  /\ acceptor' = "returned"
  /\ UNCHANGED <<listener, conn, copying, tunnel, local>>

-----------------------------------------------------------------------------
(* The two ends.                                                           *)

LocalCloses(c) ==
  /\ conn[c] = "piping" /\ local[c] = "open"
  /\ local' = [local EXCEPT ![c] = "closed"]
  /\ UNCHANGED <<listener, acceptor, conn, copying, tunnel>>

\* The service behind the host has sent all it had.
RemoteEnds(c) ==
  /\ tunnel[c] = "open"
  /\ tunnel' = [tunnel EXCEPT ![c] = "eof"]
  /\ UNCHANGED <<listener, acceptor, conn, copying, local>>

ConnRuns(c) == UpEnds(c) \/ DownEnds(c) \/ PipeReturns(c)
AcceptorRuns == AcceptEnds \/ AcceptReturns
TCPWaits ==
  \E c \in Conns : Accept(c) \/ UpFails(c) \/ DownFails(c) \/ LocalCloses(c) \/ RemoteEnds(c)
=============================================================================
