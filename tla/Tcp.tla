-------------------------------- MODULE Tcp --------------------------------
(***************************************************************************)
(* What pkg/listen and pkg/send use of TCP, modelled from their use of the *)
(* net package: one listening socket with its backlog, and a one-way byte  *)
(* stream per client, in chunks, with a receive buffer of Buffer chunks.   *)
(***************************************************************************)
EXTENDS Integers, Sequences

CONSTANTS Client, Buffer

ASSUME BufferAssumption == Buffer \in Nat \ {0}

VARIABLES
    socket,     \* the listening socket: "closing" from the mark to close(2)
    backlog,    \* connections the kernel has completed, not yet accepted
    link        \* per client: state of the server's end, unread chunks, FIN

tcpVars == <<socket, backlog, link>>

Down == [up |-> "none", unread |-> 0, fin |-> FALSE]

TcpInit ==
    /\ socket = "none"
    /\ backlog = << >>
    /\ link = [c \in Client |-> Down]

TcpTypeOK ==
    /\ socket \in {"none", "open", "closing", "closed"}
    /\ backlog \in Seq(Client)
    /\ link \in [Client -> [up : {"none", "open", "gone"}, unread : 0..Buffer,
                            fin : BOOLEAN]]

\* net.Listen.
OpenSocket == socket' = "open" /\ UNCHANGED <<backlog, link>>

\* The first half of Listener.Close: no Accept begins from here on, while the
\* kernel goes on completing handshakes.
MarkClosed == socket' = "closing" /\ UNCHANGED <<backlog, link>>

\* Is c in the backlog?
Waiting(c) == \E i \in 1..Len(backlog) : backlog[i] = c

\* The second half, once no Accept is under way: close(2), which resets what is
\* still in the backlog.
CloseSocket ==
    /\ socket = "closing"
    /\ socket' = "closed"
    /\ backlog' = << >>
    /\ link' = [c \in Client |->
                  IF Waiting(c) THEN [link[c] EXCEPT !.up = "gone"] ELSE link[c]]

\* The kernel completes a handshake before anyone accepts.
Connect(c) ==
    /\ socket \in {"open", "closing"}
    /\ backlog' = Append(backlog, c)
    /\ link' = [link EXCEPT ![c].up = "open"]
    /\ UNCHANGED socket

\* A write is buffered while there is room; towards an end that is gone the
\* bytes are lost, and the write may or may not say so.
Write(c) ==
    /\ IF link[c].up = "open"
       THEN link[c].unread < Buffer /\ link' = [link EXCEPT ![c].unread = @ + 1]
       ELSE UNCHANGED link
    /\ UNCHANGED <<socket, backlog>>

\* Closing the client's end: FIN follows what was written.
CloseWrite(c) ==
    /\ link' = [link EXCEPT ![c].fin = TRUE]
    /\ UNCHANGED <<socket, backlog>>

\* The server reads one chunk, or sees the end of the stream.
Read(c) ==
    /\ link[c].unread > 0
    /\ link' = [link EXCEPT ![c].unread = @ - 1]
    /\ UNCHANGED <<socket, backlog>>

AtEOF(c) == link[c].unread = 0 /\ link[c].fin

\* The server closes its end.
CloseRead(c) ==
    /\ link' = [link EXCEPT ![c].up = "gone"]
    /\ UNCHANGED <<socket, backlog>>
=============================================================================
