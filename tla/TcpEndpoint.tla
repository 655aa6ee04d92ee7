---------------------------- MODULE TcpEndpoint ----------------------------
(***************************************************************************)
(* How connection objects come and go (network/TcpServer.cpp,              *)
(* TcpClient.cpp, with NetServer, NetClient and NetEvent): a server        *)
(* accepts, a client connects, and the close callback of libuv deletes.    *)
(* What a connection does while it is open is in TcpSocket and NetConnect. *)
(*                                                                         *)
(* The handle is a member of the connection object: libuv uses the         *)
(* object's memory until it has finished closing the handle.               *)
(***************************************************************************)
EXTENDS Sequences

CONSTANT Conn    \* connection objects

VARIABLES
  listener,      \* the server's handle: "init", "listening", "closing", "closed"
  sock,          \* connections: the state of the handle, and whether closing calls on_uv_close
  memory,        \* "none", "live" or "freed"
  user_conn,     \* connections whose connect request is allocated
  told,          \* ghost: the callbacks the application got for a connection
  setupError,    \* ghost: what went wrong when the connection was set up
  misuse         \* ghost: libuv used the memory of a deleted object

endpointVars == <<listener, sock, memory, user_conn, told, setupError, misuse>>

NoHandle == [handle |-> "none", calls |-> FALSE]

EndpointInit ==
  /\ listener = "init"
  /\ sock = [c \in Conn |-> NoHandle]
  /\ memory = [c \in Conn |-> "none"]
  /\ user_conn = {}
  /\ told = [c \in Conn |-> << >>]
  /\ setupError = [c \in Conn |-> "nothing"]
  /\ misuse = FALSE

\* uv_close: the handle closes, with or without a callback.
uv_close(c, calls) == sock' = [sock EXCEPT ![c] = [handle |-> "closing", calls |-> calls]]

Tell(c, what) == told' = [told EXCEPT ![c] = Append(@, what)]

Fails(c, what) == setupError' = [setupError EXCEPT ![c] = what]

----------------------------------------------------------------------------
\* uv_listen may fail; the script gets the error and may call listen again.
listen ==
  /\ listener = "init"
  /\ listener' = "listening"
  /\ UNCHANGED <<sock, memory, user_conn, told, setupError, misuse>>

\* The connections stay as they are.
shutdown ==
  /\ listener \in {"init", "listening"}
  /\ listener' = "closing"
  /\ UNCHANGED <<sock, memory, user_conn, told, setupError, misuse>>

listenerClosed ==
  /\ listener = "closing"
  /\ listener' = "closed"
  /\ UNCHANGED <<sock, memory, user_conn, told, setupError, misuse>>

\* createSocket, accept, on_read_start, onAccept; if uv_accept fails the handle
\* is closed without a callback and the object deleted at once.
on_new_connection(c) ==
  /\ listener = "listening" /\ memory[c] = "none"
  /\ \/ /\ memory' = [memory EXCEPT ![c] = "live"]
        /\ sock' = [sock EXCEPT ![c].handle = "open"]
        /\ Tell(c, "onAccept")
        /\ UNCHANGED setupError
     \/ /\ memory' = [memory EXCEPT ![c] = "freed"]
        /\ uv_close(c, FALSE)
        /\ Fails(c, "accept")
        /\ UNCHANGED told
  /\ UNCHANGED <<listener, user_conn, misuse>>

\* uv_tcp_connect fails at once, or calls back later.
connect(c) ==
  /\ memory[c] = "none"
  /\ memory' = [memory EXCEPT ![c] = "live"]
  /\ user_conn' = user_conn \cup {c}
  /\ \/ sock' = [sock EXCEPT ![c].handle = "connecting"] /\ UNCHANGED setupError
     \/ sock' = [sock EXCEPT ![c].handle = "init"] /\ Fails(c, "start")
  /\ UNCHANGED <<listener, told, misuse>>

connected(c) ==
  /\ sock[c].handle = "connecting"
  /\ sock' = [sock EXCEPT ![c].handle = "open"]
  /\ user_conn' = user_conn \ {c}
  /\ Tell(c, "onConnect")
  /\ UNCHANGED <<listener, memory, setupError, misuse>>

\* Fault: the object is deleted here, as on_new_connection does.
refused_Deletes(c) ==
  /\ sock[c].handle = "connecting"
  /\ uv_close(c, FALSE)
  /\ memory' = [memory EXCEPT ![c] = "freed"]
  /\ user_conn' = user_conn \ {c}
  /\ Tell(c, "onConnect NULL") /\ Fails(c, "connect")
  /\ UNCHANGED <<listener, misuse>>

\* status < 0: the application is told with a NULL connection, and nobody has
\* the object any more.
refused(c) ==
  /\ sock[c].handle = "connecting"
  /\ uv_close(c, FALSE)
  /\ user_conn' = user_conn \ {c}
  /\ Tell(c, "onConnect NULL") /\ Fails(c, "connect")
  /\ UNCHANGED <<listener, memory, misuse>>

\* The application's close, or a read error.
close(c) ==
  /\ sock[c].handle = "open"
  /\ uv_close(c, TRUE)
  /\ UNCHANGED <<listener, memory, user_conn, told, setupError, misuse>>

\* libuv finishes closing; on_uv_close leads to onClose and destroyConnect.
on_uv_close(c) ==
  /\ sock[c].handle = "closing"
  /\ sock' = [sock EXCEPT ![c].handle = "closed"]
  /\ misuse' = (misuse \/ memory[c] = "freed")
  /\ IF sock[c].calls
       THEN Tell(c, "onClose") /\ memory' = [memory EXCEPT ![c] = "freed"]
       ELSE UNCHANGED <<told, memory>>
  /\ UNCHANGED <<listener, user_conn, setupError>>

EndpointNext ==
  \/ listen \/ shutdown \/ listenerClosed
  \/ \E c \in Conn :
       \/ on_new_connection(c) \/ connect(c) \/ connected(c) \/ refused(c)
       \/ close(c) \/ on_uv_close(c)

EndpointSpec == EndpointInit /\ [][EndpointNext]_endpointVars

----------------------------------------------------------------------------
\* The application hears of a connection once, and of its end once and last,
\* unless it was told that there is none.
ToldOnce ==
  \A c \in Conn :
    told[c] \in {<< >>, <<"onAccept">>, <<"onConnect">>, <<"onConnect NULL">>,
                 <<"onAccept", "onClose">>, <<"onConnect", "onClose">>}

\* What goes wrong follows a failed set-up, and only that.  libuv uses the memory
\* of a deleted object only after uv_accept has failed.  When the handle of a
\* connection is closed its object is deleted, unless connecting failed; a
\* connect that failed at once keeps its request, its object and its handle.
EndpointsSound ==
  /\ ToldOnce
  /\ misuse => \E c \in Conn : setupError[c] = "accept"
  /\ \A c \in Conn :
       /\ sock[c].handle = "closed" => (memory[c] = "live" <=> setupError[c] = "connect")
       /\ c \in user_conn <=> sock[c].handle = "connecting" \/ setupError[c] = "start"
       /\ memory[c] = "freed" => setupError[c] = "accept" \/ told[c][Len(told[c])] = "onClose"

============================================================================
