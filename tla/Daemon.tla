------------------------------- MODULE Daemon -------------------------------
(***************************************************************************)
(* twepd and its clients: the life of the Unix socket at one path, over    *)
(* the start, the end and the crash of several daemon processes, and the   *)
(* connections of twep-cli processes, one request and one response each.   *)
(*                                                                         *)
(* An element of Daemons is one process, and an element of Clients one     *)
(* connection: a daemon that is started again is another element.  The     *)
(* request itself is one step here; ReeRuntime is what happens in it.      *)
(***************************************************************************)
EXTENDS Naturals, Sequences

CONSTANTS
    Daemons,    \* the twepd processes
    Once,       \* those of them started with --once
    Clients,    \* the connections
    MaxCrashes  \* how many daemons are killed

ASSUME OnceAssumption == Once \subseteq Daemons
ASSUME DaemonsAssumption == "nothing" \notin Daemons /\ "file" \notin Daemons
ASSUME CrashesAssumption == MaxCrashes \in Nat

VARIABLES
    path,       \* what is at the socket path: nothing, a file, or a daemon's socket
    pc,         \* what each daemon does next
    backlog,    \* the connections a daemon has not accepted, in order
    conn,       \* the connection it handles: a sequence of at most one
    client,     \* the state of each connection, as its client sees it
    frame,      \* what the client has written
    crashes,
    alone       \* no daemon has been started while another was running

vars == <<path, pc, backlog, conn, client, frame, crashes, alone>>

Startup == {"prepare", "remove", "init", "listen"}
Loop == {"accept", "read", "execute", "reply", "close"}
Ending == {"unlink", "lnclose", "shutdown"}
Gone == {"exited", "refused", "crashed"}
Frames == {"whole", "undecodable", "toolong"}

\* The kernel queues connections from listen until the descriptor is closed.
Listens(d) == pc[d] \in {"chmod"} \cup Loop \cup {"unlink", "lnclose"}

TypeOK ==
    /\ path \in Daemons \cup {"nothing", "file"}
    /\ pc \in [Daemons -> {"off", "chmod"} \cup Startup \cup Loop \cup Ending \cup Gone]
    /\ backlog \in [Daemons -> Seq(Clients)]
    /\ conn \in [Daemons -> {<<>>} \cup {<<c>> : c \in Clients}]
    /\ client \in [Clients -> {"idle", "connected", "answered", "failed", "killed"}]
    /\ frame \in [Clients -> Frames \cup {"nothing"}]
    /\ crashes \in 0..MaxCrashes
    /\ alone \in BOOLEAN
    /\ \A d \in Daemons : (conn[d] # <<>>) <=> (pc[d] \in Loop \ {"accept"})
    /\ \A d \in Daemons : backlog[d] # <<>> => Listens(d)

Init ==
    /\ path \in {"nothing", "file"}
    /\ pc = [d \in Daemons |-> "off"]
    /\ backlog = [d \in Daemons |-> <<>>]
    /\ conn = [d \in Daemons |-> <<>>]
    /\ client = [c \in Clients |-> "idle"]
    /\ frame = [c \in Clients |-> "nothing"]
    /\ crashes = 0
    /\ alone = TRUE

Goto(d, step) == pc' = [pc EXCEPT ![d] = step]

\* The connections in s are closed: their clients read an end of file.
Closed(s) ==
    [c \in Clients |->
        IF client[c] = "connected" /\ \E i \in DOMAIN s : s[i] = c THEN "failed" ELSE client[c]]

----------------------------------------------------------------------------
(* Startup: run, prepareSocketPath, listenUnixSocket.                      *)

Start(d) ==
    /\ pc[d] = "off"
    /\ Goto(d, "prepare")
    /\ alone' = (alone /\ \A e \in Daemons \ {d} : pc[e] \in {"off"} \cup Gone)
    /\ UNCHANGED <<path, backlog, conn, client, frame, crashes>>

MutKeepsSocket(d) ==
    /\ pc[d] = "prepare"
    /\ Goto(d, IF path = "file" THEN "refused" ELSE "init")
    /\ UNCHANGED <<path, backlog, conn, client, frame, crashes, alone>>

\* os.Lstat: a socket is removed, anything else is refused.
prepareSocketPath(d) ==
    /\ pc[d] = "prepare"
    /\ Goto(d, CASE path = "nothing" -> "init"
                 [] path = "file" -> "refused"
                 [] OTHER -> "remove")
    /\ UNCHANGED <<path, backlog, conn, client, frame, crashes, alone>>

\* os.Remove, of whatever is there by now; nothing is an error.
RemoveSocket(d) ==
    /\ pc[d] = "remove"
    /\ Goto(d, IF path = "nothing" THEN "refused" ELSE "init")
    /\ path' = "nothing"
    /\ UNCHANGED <<backlog, conn, client, frame, crashes, alone>>

\* The state directory and twepwr.InitWithConfig.
InitWithConfig(d) ==
    /\ pc[d] = "init"
    /\ \E step \in {"listen", "refused"} : Goto(d, step)
    /\ UNCHANGED <<path, backlog, conn, client, frame, crashes, alone>>

\* net.Listen: bind creates the socket, and refuses a path that exists.
Listen(d) ==
    /\ pc[d] = "listen"
    /\ IF path = "nothing"
       THEN path' = d /\ Goto(d, "chmod")
       ELSE UNCHANGED path /\ Goto(d, "refused")
    /\ UNCHANGED <<backlog, conn, client, frame, crashes, alone>>

\* os.Chmod of the path, whoever's socket it is; ln.Close when it is gone.
Chmod(d) ==
    /\ pc[d] = "chmod"
    /\ IF path # "nothing"
       THEN Goto(d, "accept") /\ UNCHANGED <<backlog, client>>
       ELSE /\ Goto(d, "refused")
            /\ client' = Closed(backlog[d])
            /\ backlog' = [backlog EXCEPT ![d] = <<>>]
    /\ UNCHANGED <<path, conn, frame, crashes, alone>>

----------------------------------------------------------------------------
(* The accept loop and handleConn.                                         *)

Accept(d) ==
    /\ pc[d] = "accept" /\ backlog[d] # <<>>
    /\ conn' = [conn EXCEPT ![d] = <<Head(backlog[d])>>]
    /\ backlog' = [backlog EXCEPT ![d] = Tail(@)]
    /\ Goto(d, "read")
    /\ UNCHANGED <<path, client, frame, crashes, alone>>

\* An error of Accept ends the daemon, through its deferred calls.
AcceptFails(d) ==
    /\ pc[d] = "accept"
    /\ Goto(d, "unlink")
    /\ UNCHANGED <<path, backlog, conn, client, frame, crashes, alone>>

\* ipc.ReadFrame and DecodeRequest.  Without a deadline: until the frame is
\* complete or the client has closed the connection.
ReadFrame(d) ==
    /\ pc[d] = "read"
    /\ LET c == Head(conn[d]) IN
        /\ frame[c] # "nothing" \/ client[c] = "killed"
        /\ Goto(d, CASE frame[c] = "whole" -> "execute"
                     [] frame[c] = "undecodable" -> "reply"
                     [] OTHER -> "close")
    /\ UNCHANGED <<path, backlog, conn, client, frame, crashes, alone>>

\* ctx.Execute or tc-inventory.  An error is a response too; a response that
\* cannot be encoded, or is longer than a frame, is dropped.
Execute(d) ==
    /\ pc[d] = "execute"
    /\ \E step \in {"reply", "close"} : Goto(d, step)
    /\ UNCHANGED <<path, backlog, conn, client, frame, crashes, alone>>

\* ipc.WriteFrame; the error of a connection the client has closed is logged.
WriteFrame(d) ==
    /\ pc[d] = "reply"
    /\ LET c == Head(conn[d]) IN
        client' = [client EXCEPT ![c] = IF @ = "connected" THEN "answered" ELSE @]
    /\ Goto(d, "close")
    /\ UNCHANGED <<path, backlog, conn, frame, crashes, alone>>

MutKeepsConn(d) ==
    /\ pc[d] = "close"
    /\ conn' = [conn EXCEPT ![d] = <<>>]
    /\ Goto(d, IF d \in Once THEN "unlink" ELSE "accept")
    /\ UNCHANGED <<path, backlog, client, frame, crashes, alone>>

MutUnlinksEarly(d) ==
    /\ pc[d] = "close"
    /\ client' = Closed(conn[d])
    /\ conn' = [conn EXCEPT ![d] = <<>>]
    /\ path' = "nothing"
    /\ Goto(d, IF d \in Once THEN "lnclose" ELSE "accept")
    /\ UNCHANGED <<backlog, frame, crashes, alone>>

\* The deferred conn.Close, and --once.
CloseConn(d) ==
    /\ pc[d] = "close"
    /\ client' = Closed(conn[d])
    /\ conn' = [conn EXCEPT ![d] = <<>>]
    /\ Goto(d, IF d \in Once THEN "unlink" ELSE "accept")
    /\ UNCHANGED <<path, backlog, frame, crashes, alone>>

----------------------------------------------------------------------------
(* The end: the deferred calls of run, last first.                         *)

\* os.Remove of the path, its error ignored.
Unlink(d) ==
    /\ pc[d] = "unlink"
    /\ path' = "nothing"
    /\ Goto(d, "lnclose")
    /\ UNCHANGED <<backlog, conn, client, frame, crashes, alone>>

\* ln.Close unlinks the path once more and closes the queued connections.
CloseListener(d) ==
    /\ pc[d] = "lnclose"
    /\ path' = "nothing"
    /\ client' = Closed(backlog[d])
    /\ backlog' = [backlog EXCEPT ![d] = <<>>]
    /\ Goto(d, "shutdown")
    /\ UNCHANGED <<conn, frame, crashes, alone>>

Shutdown(d) ==
    /\ pc[d] = "shutdown"
    /\ Goto(d, "exited")
    /\ UNCHANGED <<path, backlog, conn, client, frame, crashes, alone>>

\* The daemon is killed, or dies in the C library: the socket file stays.
Crash(d) ==
    /\ pc[d] \notin {"off"} \cup Gone /\ crashes < MaxCrashes
    /\ crashes' = crashes + 1
    /\ Goto(d, "crashed")
    /\ client' = Closed(backlog[d] \o conn[d])
    /\ backlog' = [backlog EXCEPT ![d] = <<>>]
    /\ conn' = [conn EXCEPT ![d] = <<>>]
    /\ UNCHANGED <<path, frame, alone>>

----------------------------------------------------------------------------
(* The client: run of twep-cli, or another program that speaks the protocol. *)

\* net.Dial reaches the daemon whose socket is at the path.
Dial(c) ==
    /\ client[c] = "idle"
    /\ IF path \in Daemons /\ Listens(path)
       THEN /\ client' = [client EXCEPT ![c] = "connected"]
            /\ backlog' = [backlog EXCEPT ![path] = Append(@, c)]
       ELSE /\ client' = [client EXCEPT ![c] = "failed"]
            /\ UNCHANGED backlog
    /\ UNCHANGED <<path, pc, conn, frame, crashes, alone>>

Send(c) ==
    /\ client[c] = "connected" /\ frame[c] = "nothing"
    /\ \E f \in Frames : frame' = [frame EXCEPT ![c] = f]
    /\ UNCHANGED <<path, pc, backlog, conn, client, crashes, alone>>

\* The client exits; what it has written can still be read.
Kill(c) ==
    /\ client[c] = "connected"
    /\ client' = [client EXCEPT ![c] = "killed"]
    /\ UNCHANGED <<path, pc, backlog, conn, frame, crashes, alone>>

----------------------------------------------------------------------------
Run(d) == \/ prepareSocketPath(d) \/ RemoveSocket(d) \/ InitWithConfig(d) \/ Listen(d)
          \/ Chmod(d) \/ Accept(d) \/ ReadFrame(d) \/ Execute(d) \/ WriteFrame(d)
          \/ CloseConn(d) \/ Unlink(d) \/ CloseListener(d) \/ Shutdown(d)

Next == \/ \E d \in Daemons : Start(d) \/ Run(d) \/ AcceptFails(d) \/ Crash(d)
        \/ \E c \in Clients : Dial(c) \/ Send(c) \/ Kill(c)

Spec == Init /\ [][Next]_vars

\* A daemon goes on while it can, and a client that has connected writes its
\* request (twep-cli has it at hand) or exits.
FairSpec == /\ Spec
            /\ \A d \in Daemons : WF_vars(Run(d))
            /\ \A c \in Clients : WF_vars(Send(c))

----------------------------------------------------------------------------
(* Properties.                                                             *)

\* As long as daemons are run one after the other, a daemon that accepts
\* connections has its own socket at the path: no removal of a daemon that has
\* ended, or of its own start, takes it away (run, prepareSocketPath).
ListenerReachable ==
    alone => \A d \in Daemons : pc[d] \in Loop => path = d

\* A daemon that is started after the others have ended comes to accept requests,
\* whatever socket a killed one has left: it is refused only by a file that is not
\* a socket, or by InitWithConfig (prepareSocketPath).
DaemonComesUp ==
    \A d \in Daemons :
        pc[d] = "listen" ~> (pc[d] \in {"accept", "crashed"} \/ ~alone)

\* Whoever has connected is answered, reads an end of file, or exits: whatever the
\* clients before it write, and however the daemon ends (handleConn, ln.Close).
ClientEnds ==
    \A c \in Clients : client[c] = "connected" ~> client[c] # "connected"

----------------------------------------------------------------------------
(* The inductive strengthening of ListenerReachable.                       *)

Running(d) == pc[d] \notin {"off"} \cup Gone

\* While daemons are run one after the other: from Listen to the end of the loop
\* the path is the daemon's, and what prepareSocketPath saw is what is there.
PathInv ==
    alone =>
        /\ \A d, e \in Daemons : Running(d) /\ Running(e) => d = e
        /\ \A d \in Daemons : pc[d] \in {"chmod"} \cup Loop => path = d
        /\ \A d \in Daemons : pc[d] \in {"init", "listen"} => path = "nothing"
        /\ \A d \in Daemons : pc[d] = "remove" => path # "nothing"

\* A daemon that is started after the others have ended is never refused by what is
\* at the path once it has looked: nothing is there when it calls net.Listen, and
\* its own socket when it calls os.Chmod (listenUnixSocket).
NeverRefused ==
    [][\A d \in Daemons :
          alone /\ pc[d] \in {"remove", "listen", "chmod"} => pc'[d] # "refused"]_vars
=============================================================================
