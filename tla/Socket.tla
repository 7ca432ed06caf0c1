------------------------------- MODULE Socket -------------------------------
(***************************************************************************)
(* The sockets of socket.c: a server, a client that connects to it, and    *)
(* the server's side of the connection, with the bytes that the client     *)
(* sends.  The kernel may fail any call, take or give fewer bytes than     *)
(* asked for, or none.  Data that waits to be written is in tx_buffer and  *)
(* data that was read in rx_buffer; the bytes are 1, 2, 3, ... in order.   *)
(***************************************************************************)
EXTENDS Integers, Sequences, FiniteSets, FiniteSetsExt, SequencesExt

CONSTANTS Fds,               \* descriptors that the kernel gives out
          TX_LIMIT,          \* bytes of the largest buffer that is kept: 64*1024
          MIN_READ,          \* bytes that are asked for at least: 4096
          MAX_ADD,           \* bound: bytes added at once
          MAX_BYTES,         \* bound: bytes on a connection
          MAX_CONNECTIONS    \* bound: connections in all

VARIABLES open_fds,          \* the kernel's table: descriptors that are open
          sock,              \* "server", "client" and "peer" -> clib_socket_t
          kernel,            \* the connection: bytes on the way, who closed it
          n_added,           \* history: bytes the client added to tx_buffer
          dropped,           \* history: a tx_buffer was freed with bytes in it
          garbled,           \* history: a read failed
          n_connections      \* history

vars == <<open_fds, sock, kernel, n_added, dropped, garbled, n_connections>>

GARBAGE == 0
NONE == -1

(* The state after clib_socket_free, which clears everything; at says what *)
(* the user may do with the socket.                                        *)
CLEARED == [at |-> "free", fd |-> NONE, tx |-> <<>>, rx |-> <<>>, eof |-> FALSE]
NO_CONNECTION == [bytes |-> <<>>, waiting |-> FALSE, closed |-> {}]

Init ==
  /\ open_fds = {}
  /\ sock = [s \in {"server", "client", "peer"} |-> CLEARED]
  /\ kernel = NO_CONNECTION
  /\ n_added = 0 /\ dropped = FALSE /\ garbled = FALSE /\ n_connections = 0

NewFd == Min(Fds \ open_fds)

\* Mutant: the descriptor stays open.
LeftOpen(fd) == open_fds \cup {fd}

Closed(fd) == open_fds \ {fd}

history == <<n_added, dropped, garbled, n_connections>>

-----------------------------------------------------------------------------
(* clib_socket_init up to the call of socket: the config string is not     *)
(* understood, or there is no descriptor.  Nothing is open yet.            *)
InitFailsEarly(s) ==
  /\ sock[s].at = "free"
  /\ sock' = [sock EXCEPT ![s].at = "failed"]
  /\ UNCHANGED <<open_fds, kernel, history>>

(* No free port, bind, listen, fcntl or connect fails: the label done      *)
(* closes the descriptor, whose number stays in the socket.                *)
InitFailsLate(s) ==
  /\ sock[s].at = "free"
  /\ open_fds' = Closed(NewFd)
  /\ sock' = [sock EXCEPT ![s].at = "failed", ![s].fd = NewFd]
  /\ UNCHANGED <<kernel, history>>

ServerInit ==
  /\ sock["server"].at = "free"
  /\ open_fds' = open_fds \cup {NewFd}
  /\ sock' = [sock EXCEPT !["server"].at = "listen", !["server"].fd = NewFd]
  /\ UNCHANGED <<kernel, history>>

(* connect, which need not have completed (EINPROGRESS).                   *)
ClientInit ==
  /\ sock["client"].at = "free" /\ sock["server"].at = "listen"
  /\ sock["peer"].at = "free" /\ n_connections < MAX_CONNECTIONS
  /\ open_fds' = open_fds \cup {NewFd}
  /\ sock' = [sock EXCEPT !["client"].at = "connected", !["client"].fd = NewFd]
  /\ kernel' = [NO_CONNECTION EXCEPT !.waiting = TRUE]
  /\ n_added' = 0 /\ dropped' = FALSE /\ garbled' = FALSE
  /\ n_connections' = n_connections + 1

(* clib_socket_accept.                                                     *)
Accept ==
  /\ sock["server"].at = "listen" /\ sock["peer"].at = "free" /\ kernel.waiting
  /\ open_fds' = open_fds \cup {NewFd}
  /\ sock' = [sock EXCEPT !["peer"].at = "connected", !["peer"].fd = NewFd]
  /\ kernel' = [kernel EXCEPT !.waiting = FALSE]
  /\ UNCHANGED history

(* fcntl or getpeername fails: close_client.                               *)
AcceptFails ==
  /\ sock["server"].at = "listen" /\ sock["peer"].at = "free" /\ kernel.waiting
  /\ open_fds' = Closed(NewFd)
  /\ sock' = [sock EXCEPT !["peer"].at = "failed", !["peer"].fd = NewFd]
  /\ kernel' = [kernel EXCEPT !.waiting = FALSE, !.closed = @ \cup {"peer"}]
  /\ UNCHANGED history

-----------------------------------------------------------------------------
(* clib_socket_tx_add, or tx_add_formatted.                                *)
TxAdd(n) ==
  /\ sock["client"].at = "connected" /\ n_added + n <= MAX_BYTES
  /\ sock' = [sock EXCEPT !["client"].tx = @ \o [k \in 1 .. n |-> n_added + k]]
  /\ n_added' = n_added + n
  /\ UNCHANGED <<open_fds, kernel, dropped, garbled, n_connections>>

\* Mutant: what was written is not taken off a buffer that is not empty.
KeptUntilEmpty(tx, written) == IF written = Len(tx) THEN <<>> ELSE tx

(* The transmitted part of tx_buffer is reclaimed.                         *)
Reclaimed(tx, written) ==
  IF written = Len(tx) THEN <<>> ELSE SubSeq(tx, written + 1, Len(tx))

(* default_socket_write: the kernel takes the first bytes of the buffer.   *)
TxWritten ==
  LET tx == sock["client"].tx
  IN  /\ sock["client"].at = "connected" /\ kernel.closed = {}
      /\ \E written \in 1 .. Len(tx) :
           /\ sock' = [sock EXCEPT !["client"].tx = Reclaimed(tx, written)]
           /\ kernel' = [kernel EXCEPT !.bytes = @ \o SubSeq(tx, 1, written)]
      /\ UNCHANGED <<open_fds, history>>

(* It takes none: a buffer above the limit is freed.                       *)
TxNothing ==
  LET tx == sock["client"].tx
  IN  /\ sock["client"].at = "connected"
      /\ Len(tx) > TX_LIMIT
      /\ sock' = [sock EXCEPT !["client"].tx = <<>>]
      /\ dropped' = TRUE
      /\ UNCHANGED <<open_fds, kernel, n_added, garbled, n_connections>>

(* A fatal error: the buffer is freed.                                     *)
TxFails ==
  /\ sock["client"].at = "connected" /\ sock["client"].tx # <<>>
  /\ sock' = [sock EXCEPT !["client"].tx = <<>>]
  /\ dropped' = TRUE
  /\ UNCHANGED <<open_fds, kernel, n_added, garbled, n_connections>>

-----------------------------------------------------------------------------
MayRead == sock["peer"].at = "connected" /\ ~sock["peer"].eof

(* default_socket_read: room for the bytes that are asked for is added to  *)
(* rx_buffer, and what was not read is taken off again.  A read that would *)
(* block or is interrupted so leaves everything as it was.                 *)
RxAdded(rx, n_bytes, read) ==
  LET room == rx \o [k \in 1 .. n_bytes |-> IF k <= Len(read) THEN read[k] ELSE GARBAGE]
  IN  SubSeq(room, 1, Len(room) + Len(read) - n_bytes)

RxRead ==
  /\ MayRead
  /\ \E n \in 1 .. Min({MIN_READ, Len(kernel.bytes)}) :
       /\ sock' = [sock EXCEPT !["peer"].rx = RxAdded(@, MIN_READ, SubSeq(kernel.bytes, 1, n))]
       /\ kernel' = [kernel EXCEPT !.bytes = SubSeq(@, n + 1, Len(@))]
  /\ UNCHANGED <<open_fds, history>>

RxEndOfFile ==
  /\ MayRead /\ kernel.bytes = <<>> /\ "client" \in kernel.closed
  /\ sock' = [sock EXCEPT !["peer"].rx = RxAdded(@, MIN_READ, <<>>), !["peer"].eof = TRUE]
  /\ UNCHANGED <<open_fds, kernel, history>>

(* A fatal error: the room stays in the buffer.                            *)
RxFails ==
  /\ MayRead /\ ~garbled
  /\ sock' = [sock EXCEPT !["peer"].rx = @ \o [k \in 1 .. MIN_READ |-> GARBAGE]]
  /\ garbled' = TRUE
  /\ UNCHANGED <<open_fds, kernel, n_added, dropped, n_connections>>

-----------------------------------------------------------------------------
(* clib_socket_close.  What is on the way still arrives.                   *)
Close(s) ==
  /\ sock[s].at \in {"listen", "connected"}
  /\ open_fds' = Closed(sock[s].fd)
  /\ sock' = [sock EXCEPT ![s].at = "closed"]
  /\ kernel' = IF s = "server" THEN [kernel EXCEPT !.waiting = FALSE]
               ELSE [kernel EXCEPT !.closed = @ \cup {s}]
  /\ UNCHANGED history

(* clib_socket_free.                                                       *)
Free(s) ==
  /\ sock[s].at \in {"closed", "failed"}
  /\ sock' = [sock EXCEPT ![s] = CLEARED]
  /\ UNCHANGED <<open_fds, kernel, history>>

Connect ==
  \/ \E s \in {"server", "client"} : InitFailsEarly(s) \/ InitFailsLate(s)
  \/ ServerInit \/ ClientInit \/ Accept \/ AcceptFails

Transfer ==
  \/ \E n \in 1 .. MAX_ADD : TxAdd(n)
  \/ TxWritten \/ TxNothing \/ TxFails
  \/ RxRead \/ RxEndOfFile \/ RxFails

Next == Connect \/ Transfer \/ \E s \in DOMAIN sock : Close(s) \/ Free(s)

Spec == Init /\ [][Next]_vars

-----------------------------------------------------------------------------
(* The bytes in rx_buffer that were read, and those still in the kernel.   *)
Arrived == SelectSeq(sock["peer"].rx, LAMBDA b : b # GARBAGE) \o kernel.bytes
OnTheWay == Arrived \o sock["client"].tx

(* The bytes arrive in order and once each, before and after a failed read *)
(* and after the client has closed.  None is missing of those written, and *)
(* none of those added as long as the client keeps its tx_buffer, unless   *)
(* that buffer was freed with bytes in it (dropped).  Only a failed read   *)
(* puts anything else in rx_buffer: the bytes that it reserved stay there  *)
(* (socket.c:223-233), and the property says nothing of where.  The end of *)
(* file is noted after the last byte that the client wrote.  Every open    *)
(* descriptor is that of one socket in use, on all error paths.            *)
DeliversInOrder ==
  /\ sock["peer"].at \in {"connected", "closed"} =>
       /\ \A k \in 1 .. Len(OnTheWay) - 1 : OnTheWay[k] < OnTheWay[k + 1]
       /\ ~dropped => IsPrefix(Arrived, [k \in 1 .. n_added |-> k])
       /\ ~dropped /\ sock["client"].at \in {"connected", "closed"} =>
            OnTheWay = [k \in 1 .. n_added |-> k]
       /\ ~garbled => GARBAGE \notin ToSet(sock["peer"].rx)
  /\ sock["peer"].eof => kernel.bytes = <<>> /\ sock["client"].at # "connected"
  /\ LET used == {s \in DOMAIN sock : sock[s].at \in {"listen", "connected"}}
     IN  /\ open_fds = {sock[s].fd : s \in used}
         /\ Cardinality(open_fds) = Cardinality(used)
=============================================================================
