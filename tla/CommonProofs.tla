--------------------------- MODULE CommonProofs ---------------------------
(***************************************************************************)
(* Proofs about parts that MCCommon and MCData check together with others: *)
(* TcpEndpoint, for any number of connections; XLog, for any number of     *)
(* threads and lines; SqlStatement, for any parameters, answers and number *)
(* of runs; RedisClient, for any commands, words and replies.              *)
(***************************************************************************)
EXTENDS TcpEndpoint, XLog, SqlStatement, RedisClient, TLAPS, SequenceTheorems, FiniteSetTheorems,
        WellFoundedInduction

----------------------------------------------------------------------------
(***************************************************************************)
(* TcpEndpoint: the inductive invariant                                    *)
(***************************************************************************)

Handle == {"none", "init", "connecting", "open", "closing", "closed"}
Callback == {"onAccept", "onConnect", "onConnect NULL", "onClose"}

EndpointTypes ==
  /\ sock \in [Conn -> [handle : Handle, calls : BOOLEAN]]
  /\ memory \in [Conn -> {"none", "live", "freed"}]
  /\ user_conn \in SUBSET Conn
  /\ told \in [Conn -> Seq(Callback)]
  /\ setupError \in [Conn -> {"nothing", "accept", "start", "connect"}]
  /\ misuse \in BOOLEAN

\* What is known of connection c when its handle is in state h.
At(c, h, m, e) ==
  /\ sock[c].handle = h
  /\ memory[c] = m
  /\ setupError[c] = e

\* The application has the connection.
Greeted(c) == told[c] = <<"onAccept">> \/ told[c] = <<"onConnect">>

\* The application has had the connection and knows that it is gone.
Parted(c) == told[c] = <<"onAccept", "onClose">> \/ told[c] = <<"onConnect", "onClose">>

\* The stages in the life of a connection object.
Unused(c) ==
  At(c, "none", "none", "nothing") /\ ~sock[c].calls /\ told[c] = << >> /\ c \notin user_conn
Connecting(c) ==
  At(c, "connecting", "live", "nothing") /\ ~sock[c].calls /\ told[c] = << >> /\ c \in user_conn
Stillborn(c) == At(c, "init", "live", "start") /\ told[c] = << >> /\ c \in user_conn
InUse(c) == At(c, "open", "live", "nothing") /\ Greeted(c) /\ c \notin user_conn
Closing(c) ==
  At(c, "closing", "live", "nothing") /\ sock[c].calls /\ Greeted(c) /\ c \notin user_conn
Gone(c) == At(c, "closed", "freed", "nothing") /\ Parted(c) /\ c \notin user_conn
Rejected(c) ==
  /\ \/ At(c, "closing", "freed", "accept") /\ ~sock[c].calls
     \/ At(c, "closed", "freed", "accept")
  /\ told[c] = << >> /\ c \notin user_conn
Refused(c) ==
  /\ \/ At(c, "closing", "live", "connect") /\ ~sock[c].calls
     \/ At(c, "closed", "live", "connect")
  /\ told[c] = <<"onConnect NULL">> /\ c \notin user_conn

Stage(c) ==
  \/ Unused(c) \/ Connecting(c) \/ Stillborn(c) \/ InUse(c)
  \/ Closing(c) \/ Gone(c) \/ Rejected(c) \/ Refused(c)

EndpointInv ==
  /\ EndpointTypes
  /\ \A c \in Conn : Stage(c)
  /\ misuse => \E c \in Conn : setupError[c] = "accept"

----------------------------------------------------------------------------
\* The callbacks that the application gets, written out.
LEMMA Callbacks ==
  ASSUME NEW x \in Callback, NEW y \in Callback
  PROVE  /\ Append(<< >>, x) = <<x>>
         /\ Append(<<x>>, y) = <<x, y>>
<1>1. Append(<< >>, x) = <<x>>
  OBVIOUS
<1>2. <<x>> \in Seq(Callback) /\ <<x, y>> \in Seq(Callback) /\ Len(<<x, y>>) = 2
  OBVIOUS
<1>3. Append(<<x>>, y) \in Seq(Callback) /\ Len(Append(<<x>>, y)) = 2
  BY <1>2
<1>4. Append(<<x>>, y)[1] = x /\ <<x, y>>[1] = x
  BY <1>2
<1>5. Append(<<x>>, y)[2] = y /\ <<x, y>>[2] = y
  BY <1>2
<1>6. \A i \in 1 .. 2 : Append(<<x>>, y)[i] = <<x, y>>[i]
  <2>1. \A i \in 1 .. 2 : i = 1 \/ i = 2
    OBVIOUS
  <2> QED
    BY <1>4, <1>5, <2>1
<1>7. Append(<<x>>, y) = <<x, y>>
  BY <1>2, <1>3, <1>6, SeqEqual
<1> QED
  BY <1>1, <1>7

\* What a connection's steps do to the table of callbacks.
LEMMA TellOne ==
  ASSUME EndpointTypes, NEW c \in Conn, NEW what \in Callback, Tell(c, what)
  PROVE  /\ told' \in [Conn -> Seq(Callback)]
         /\ told'[c] = Append(told[c], what)
         /\ \A d \in Conn : d # c => told'[d] = told[d]
<1>1. told[c] \in Seq(Callback) /\ Append(told[c], what) \in Seq(Callback)
  BY DEF EndpointTypes
<1> QED
  BY <1>1 DEF EndpointTypes, Tell

\* A handle changes state, and keeps what it calls when it is closed.
LEMMA HandleChanges ==
  ASSUME EndpointTypes, NEW c \in Conn, NEW h \in Handle, sock' = [sock EXCEPT ![c].handle = h]
  PROVE  /\ sock' \in [Conn -> [handle : Handle, calls : BOOLEAN]]
         /\ sock'[c].handle = h
         /\ sock'[c].calls <=> sock[c].calls
         /\ \A d \in Conn : d # c => sock'[d] = sock[d]
<1>1. sock \in [Conn -> [handle : Handle, calls : BOOLEAN]]
  BY DEF EndpointTypes
<1> QED
  BY <1>1

\* uv_close on one handle.
LEMMA HandleCloses ==
  ASSUME EndpointTypes, NEW c \in Conn, NEW b \in BOOLEAN, uv_close(c, b)
  PROVE  /\ sock' \in [Conn -> [handle : Handle, calls : BOOLEAN]]
         /\ sock'[c].handle = "closing"
         /\ sock'[c].calls <=> b
         /\ \A d \in Conn : d # c => sock'[d] = sock[d]
<1>1. sock \in [Conn -> [handle : Handle, calls : BOOLEAN]]
  BY DEF EndpointTypes
<1> QED
  BY <1>1 DEF uv_close, Handle

\* Every step keeps the types of the state.
LEMMA TypesStep ==
  ASSUME EndpointInv, [EndpointNext]_endpointVars
  PROVE  EndpointTypes'
<1> USE DEF Handle
<1>1. EndpointTypes
  BY DEF EndpointInv
<1>2. ASSUME NEW c \in Conn, on_new_connection(c) PROVE EndpointTypes'
  <2>1. told' \in [Conn -> Seq(Callback)]
    BY <1>1, <1>2, TellOne DEF on_new_connection, EndpointTypes, Callback
  <2>2. sock' \in [Conn -> [handle : Handle, calls : BOOLEAN]]
    BY <1>1, <1>2, HandleChanges, HandleCloses DEF on_new_connection
  <2>3. setupError' \in [Conn -> {"nothing", "accept", "start", "connect"}]
    BY <1>1, <1>2 DEF EndpointTypes, on_new_connection, Fails
  <2>4. memory' \in [Conn -> {"none", "live", "freed"}]
    BY <1>1, <1>2 DEF EndpointTypes, on_new_connection
  <2>5. user_conn' \in SUBSET Conn /\ misuse' \in BOOLEAN
    BY <1>1, <1>2 DEF EndpointTypes, on_new_connection
  <2> HIDE DEF Handle
  <2> QED
    BY <2>1, <2>2, <2>3, <2>4, <2>5 DEF EndpointTypes
<1>3. ASSUME NEW c \in Conn, connect(c) PROVE EndpointTypes'
  <2>1. sock' \in [Conn -> [handle : Handle, calls : BOOLEAN]]
    <3>1. PICK h \in Handle : sock' = [sock EXCEPT ![c].handle = h]
      BY <1>3 DEF connect
    <3> QED
      BY <1>1, <3>1, HandleChanges
  <2>2. setupError' \in [Conn -> {"nothing", "accept", "start", "connect"}]
    BY <1>1, <1>3 DEF EndpointTypes, connect, Fails
  <2>3. memory' \in [Conn -> {"none", "live", "freed"}] /\ user_conn' \in SUBSET Conn
    BY <1>1, <1>3 DEF EndpointTypes, connect
  <2> QED
    BY <1>1, <1>3, <2>1, <2>2, <2>3 DEF EndpointTypes, connect
<1>4. ASSUME NEW c \in Conn, connected(c) PROVE EndpointTypes'
  <2>1. told' \in [Conn -> Seq(Callback)]
    BY <1>1, <1>4, TellOne DEF connected, Callback
  <2> QED
    BY <1>1, <1>4, <2>1 DEF EndpointTypes, connected
<1>5. ASSUME NEW c \in Conn, refused(c) PROVE EndpointTypes'
  <2>1. told' \in [Conn -> Seq(Callback)]
    BY <1>1, <1>5, TellOne DEF refused, Callback
  <2> QED
    BY <1>1, <1>5, <2>1 DEF EndpointTypes, refused, uv_close, Fails
<1>6. ASSUME NEW c \in Conn, close(c) PROVE EndpointTypes'
  BY <1>1, <1>6 DEF EndpointTypes, close, uv_close
<1>7. ASSUME NEW c \in Conn, on_uv_close(c) PROVE EndpointTypes'
  <2>1. told' \in [Conn -> Seq(Callback)]
    BY <1>1, <1>7, TellOne DEF on_uv_close, EndpointTypes, Callback
  <2>2. misuse' \in BOOLEAN
    BY <1>7 DEF on_uv_close
  <2>3. sock' \in [Conn -> [handle : Handle, calls : BOOLEAN]]
    BY <1>1, <1>7 DEF EndpointTypes, on_uv_close
  <2> QED
    BY <1>1, <1>7, <2>1, <2>2, <2>3 DEF EndpointTypes, on_uv_close
<1>8. ASSUME listen \/ shutdown \/ listenerClosed \/ UNCHANGED endpointVars PROVE EndpointTypes'
  BY <1>1, <1>8 DEF EndpointTypes, listen, shutdown, listenerClosed, endpointVars
<1> QED
  BY <1>2, <1>3, <1>4, <1>5, <1>6, <1>7, <1>8 DEF EndpointNext

\* A step of one connection leaves the stages of the others alone.
LEMMA OthersStay ==
  ASSUME \A d \in Conn : Stage(d), NEW c \in Conn, Stage(c)',
         \A d \in Conn : d # c => /\ sock'[d] = sock[d] /\ memory'[d] = memory[d]
                                  /\ told'[d] = told[d] /\ setupError'[d] = setupError[d]
                                  /\ (d \in user_conn' <=> d \in user_conn)
  PROVE  \A d \in Conn : Stage(d)'
<1> SUFFICES ASSUME NEW d \in Conn, d # c PROVE Stage(d)'
  OBVIOUS
<1> USE DEF At, Greeted, Parted
<1>1. /\ Unused(d) => Unused(d)'
      /\ Connecting(d) => Connecting(d)'
      /\ Stillborn(d) => Stillborn(d)'
      /\ InUse(d) => InUse(d)'
  BY DEF Unused, Connecting, Stillborn, InUse
<1>2. /\ Closing(d) => Closing(d)'
      /\ Gone(d) => Gone(d)'
      /\ Rejected(d) => Rejected(d)'
      /\ Refused(d) => Refused(d)'
  BY DEF Closing, Gone, Rejected, Refused
<1> QED
  BY <1>1, <1>2 DEF Stage

\* Which stage a connection is in follows from its handle.
LEMMA StageByHandle ==
  ASSUME NEW c \in Conn, Stage(c)
  PROVE  /\ memory[c] = "none" => Unused(c)
         /\ sock[c].handle = "connecting" => Connecting(c)
         /\ sock[c].handle = "open" => InUse(c)
         /\ sock[c].handle = "closing" => \/ Closing(c)
                                          \/ Rejected(c) /\ memory[c] = "freed" /\ ~sock[c].calls
                                          \/ Refused(c) /\ memory[c] = "live" /\ ~sock[c].calls
  BY DEF Stage, Unused, Connecting, Stillborn, InUse, Closing, Gone, Rejected, Refused, At

\* Every step takes a connection from one stage to the next.
LEMMA StageStep ==
  ASSUME EndpointInv, [EndpointNext]_endpointVars
  PROVE  \A c \in Conn : Stage(c)'
<1>1. EndpointTypes /\ \A c \in Conn : Stage(c)
  BY DEF EndpointInv
<1>2. ASSUME NEW c \in Conn, on_new_connection(c) PROVE \A d \in Conn : Stage(d)'
  <2>1. Unused(c)
    BY <1>1, <1>2, StageByHandle DEF on_new_connection
  <2>2. CASE Tell(c, "onAccept") /\ memory' = [memory EXCEPT ![c] = "live"]
             /\ sock' = [sock EXCEPT ![c].handle = "open"] /\ UNCHANGED setupError
    <3>1. told'[c] = <<"onAccept">> /\ \A d \in Conn : d # c => told'[d] = told[d]
      BY <1>1, <2>1, <2>2, TellOne, Callbacks DEF Unused, Callback
    <3>2. InUse(c)'
      BY <1>1, <1>2, <2>1, <2>2, <3>1 DEF EndpointTypes, Unused, InUse, At, Greeted, on_new_connection
    <3> QED
      BY <1>1, <1>2, <2>2, <3>1, <3>2, OthersStay DEF EndpointTypes, Stage, on_new_connection
  <2>3. CASE uv_close(c, FALSE) /\ memory' = [memory EXCEPT ![c] = "freed"]
             /\ Fails(c, "accept") /\ UNCHANGED told
    <3>1. Rejected(c)'
      BY <1>1, <1>2, <2>1, <2>3 DEF EndpointTypes, Unused, Rejected, At, uv_close, Fails, on_new_connection
    <3> QED
      BY <1>1, <1>2, <2>3, <3>1, OthersStay DEF EndpointTypes, Stage, uv_close, Fails, on_new_connection
  <2> QED
    BY <1>2, <2>2, <2>3 DEF on_new_connection
<1>3. ASSUME NEW c \in Conn, connect(c) PROVE \A d \in Conn : Stage(d)'
  <2>1. Unused(c)
    BY <1>1, <1>3, StageByHandle DEF connect
  <2>2. Connecting(c)' \/ Stillborn(c)'
    <3>1. memory'[c] = "live" /\ c \in user_conn' /\ told' = told /\ told[c] = << >>
      BY <1>1, <1>3, <2>1 DEF EndpointTypes, Unused, connect
    <3>2. CASE sock' = [sock EXCEPT ![c].handle = "connecting"] /\ UNCHANGED setupError
      BY <1>1, <2>1, <3>1, <3>2, HandleChanges DEF Unused, Connecting, At, Handle
    <3>3. CASE sock' = [sock EXCEPT ![c].handle = "init"] /\ Fails(c, "start")
      BY <1>1, <2>1, <3>1, <3>3, HandleChanges DEF EndpointTypes, Stillborn, At, Handle, Fails
    <3> QED
      BY <1>3, <3>2, <3>3 DEF connect
  <2>3. Stage(c)'
    BY <2>2 DEF Stage
  <2> QED
    BY <1>1, <1>3, <2>3, OthersStay DEF EndpointTypes, Fails, connect
<1>4. ASSUME NEW c \in Conn, connected(c) PROVE \A d \in Conn : Stage(d)'
  <2>1. Connecting(c)
    BY <1>1, <1>4, StageByHandle DEF connected
  <2>2. told'[c] = <<"onConnect">> /\ \A d \in Conn : d # c => told'[d] = told[d]
    BY <1>1, <1>4, <2>1, TellOne, Callbacks DEF Connecting, Callback, connected
  <2>3. InUse(c)'
    BY <1>1, <1>4, <2>1, <2>2 DEF EndpointTypes, Connecting, InUse, At, Greeted, connected
  <2> QED
    BY <1>1, <1>4, <2>2, <2>3, OthersStay DEF EndpointTypes, Stage, connected
<1>5. ASSUME NEW c \in Conn, refused(c) PROVE \A d \in Conn : Stage(d)'
  <2>1. Connecting(c)
    BY <1>1, <1>5, StageByHandle DEF refused
  <2>2. told'[c] = <<"onConnect NULL">> /\ \A d \in Conn : d # c => told'[d] = told[d]
    BY <1>1, <1>5, <2>1, TellOne, Callbacks DEF Connecting, Callback, refused
  <2>3. Refused(c)'
    BY <1>1, <1>5, <2>1, <2>2 DEF EndpointTypes, Connecting, Refused, At, uv_close, Fails, refused
  <2> QED
    BY <1>1, <1>5, <2>2, <2>3, OthersStay DEF EndpointTypes, Stage, uv_close, Fails, refused
<1>6. ASSUME NEW c \in Conn, close(c) PROVE \A d \in Conn : Stage(d)'
  <2>1. InUse(c)
    BY <1>1, <1>6, StageByHandle DEF close
  <2>2. Closing(c)'
    BY <1>1, <1>6, <2>1 DEF EndpointTypes, InUse, Closing, At, Greeted, uv_close, close
  <2> QED
    BY <1>1, <1>6, <2>2, OthersStay DEF EndpointTypes, Stage, uv_close, close
<1>7. ASSUME NEW c \in Conn, on_uv_close(c) PROVE \A d \in Conn : Stage(d)'
  <2>1. CASE Closing(c)
    <3>1. sock[c].calls /\ Tell(c, "onClose") /\ memory' = [memory EXCEPT ![c] = "freed"]
      BY <1>7, <2>1 DEF Closing, At, on_uv_close
    <3>2. told'[c] = Append(told[c], "onClose") /\ \A d \in Conn : d # c => told'[d] = told[d]
      BY <1>1, <3>1, TellOne DEF Callback
    <3>3. Parted(c)'
      BY <2>1, <3>2, Callbacks DEF Closing, Greeted, Parted, Callback
    <3>4. Gone(c)'
      BY <1>1, <1>7, <2>1, <3>1, <3>3 DEF EndpointTypes, Closing, Gone, At, on_uv_close
    <3> QED
      BY <1>1, <1>7, <3>1, <3>2, <3>4, OthersStay DEF EndpointTypes, Stage, on_uv_close
  <2>2. CASE Rejected(c) /\ memory[c] = "freed" /\ ~sock[c].calls
    <3>1. UNCHANGED <<told, memory>>
      BY <1>7, <2>2 DEF At, on_uv_close
    <3>2. Rejected(c)'
      BY <1>1, <1>7, <2>2, <3>1 DEF EndpointTypes, Rejected, At, on_uv_close
    <3> QED
      BY <1>1, <1>7, <3>1, <3>2, OthersStay DEF EndpointTypes, Stage, on_uv_close
  <2>3. CASE Refused(c) /\ memory[c] = "live" /\ ~sock[c].calls
    <3>1. UNCHANGED <<told, memory>>
      BY <1>7, <2>3 DEF At, on_uv_close
    <3>2. Refused(c)'
      BY <1>1, <1>7, <2>3, <3>1 DEF EndpointTypes, Refused, At, on_uv_close
    <3> QED
      BY <1>1, <1>7, <3>1, <3>2, OthersStay DEF EndpointTypes, Stage, on_uv_close
  <2> QED
    BY <1>1, <1>7, <2>1, <2>2, <2>3, StageByHandle DEF on_uv_close
<1>8. ASSUME listen \/ shutdown \/ listenerClosed \/ UNCHANGED endpointVars
      PROVE \A d \in Conn : Stage(d)'
  <2>1. UNCHANGED <<sock, memory, user_conn, told, setupError>>
    BY <1>8 DEF listen, shutdown, listenerClosed, endpointVars
  <2>2. ASSUME NEW d \in Conn PROVE Stage(d)'
    <3> USE DEF At, Greeted, Parted
    <3>1. /\ Unused(d) => Unused(d)'
          /\ Connecting(d) => Connecting(d)'
          /\ Stillborn(d) => Stillborn(d)'
          /\ InUse(d) => InUse(d)'
      BY <2>1 DEF Unused, Connecting, Stillborn, InUse
    <3>2. /\ Closing(d) => Closing(d)'
          /\ Gone(d) => Gone(d)'
          /\ Rejected(d) => Rejected(d)'
          /\ Refused(d) => Refused(d)'
      BY <2>1 DEF Closing, Gone, Rejected, Refused
    <3> QED
      BY <1>1, <3>1, <3>2 DEF Stage
  <2> QED
    BY <2>2
<1> QED
  BY <1>2, <1>3, <1>4, <1>5, <1>6, <1>7, <1>8 DEF EndpointNext

\* Deleted memory is used only by a handle that could not be accepted.
LEMMA MisuseStep ==
  ASSUME EndpointInv, [EndpointNext]_endpointVars, misuse'
  PROVE  \E c \in Conn : setupError'[c] = "accept"
<1>1. EndpointTypes /\ (\A c \in Conn : Stage(c)) /\ EndpointTypes'
  BY TypesStep DEF EndpointInv
<1>2. ASSUME NEW d \in Conn, setupError[d] = "accept" PROVE setupError'[d] = "accept"
  <2>1. memory[d] # "none" /\ sock[d].handle # "connecting"
    BY <1>1, <1>2 DEF Stage, Unused, Connecting, Stillborn, InUse, Closing, Gone,
                      Rejected, Refused, At
  <2>2. \A c \in Conn : c # d => \A e : Fails(c, e) => setupError'[d] = setupError[d]
    BY <1>1 DEF EndpointTypes, Fails
  <2> QED
    BY <1>2, <2>1, <2>2 DEF EndpointNext, listen, shutdown, listenerClosed, endpointVars,
       on_new_connection, connect, connected, refused, close, on_uv_close
<1>3. CASE misuse
  BY <1>2, <1>3 DEF EndpointInv
<1>4. CASE ~misuse
  <2>1. PICK c \in Conn : on_uv_close(c)
    BY <1>4 DEF EndpointNext, listen, shutdown, listenerClosed, endpointVars,
       on_new_connection, connect, connected, refused, close
  <2>2. memory[c] = "freed" /\ sock[c].handle = "closing" /\ UNCHANGED setupError
    BY <1>4, <2>1 DEF on_uv_close
  <2>3. setupError[c] = "accept"
    <3>1. Rejected(c)
      BY <1>1, <2>2, StageByHandle DEF Closing, At
    <3> QED
      BY <3>1 DEF Rejected, At
  <2> QED
    BY <2>2, <2>3
<1> QED
  BY <1>3, <1>4

----------------------------------------------------------------------------
\* For any number of connections, accepted or made, in any order and with any
\* of the set-up steps failing: the application hears of a connection once and
\* of its end last, an object is deleted when its handle is closed unless
\* connecting failed, and libuv touches deleted memory only after a failed
\* uv_accept (TcpServer.cpp, TcpClient.cpp).
THEOREM EndpointsAreSound == EndpointSpec => []EndpointsSound
<1>1. EndpointInit => EndpointInv
  <2> SUFFICES ASSUME EndpointInit PROVE EndpointInv
    OBVIOUS
  <2>1. EndpointTypes
    <3>1. told \in [Conn -> Seq(Callback)]
      BY DEF EndpointInit
    <3> QED
      BY <3>1 DEF EndpointInit, EndpointTypes, NoHandle, Handle
  <2>2. \A c \in Conn : Unused(c)
    BY DEF EndpointInit, Unused, At, NoHandle
  <2> QED
    BY <2>1, <2>2 DEF EndpointInit, EndpointInv, Stage
<1>2. EndpointInv /\ [EndpointNext]_endpointVars => EndpointInv'
  BY TypesStep, StageStep, MisuseStep DEF EndpointInv
<1>3. EndpointInv => EndpointsSound
  <2> SUFFICES ASSUME EndpointInv PROVE EndpointsSound
    OBVIOUS
  <2>1. ASSUME NEW c \in Conn
        PROVE  told[c] \in {<< >>, <<"onAccept">>, <<"onConnect">>, <<"onConnect NULL">>,
                            <<"onAccept", "onClose">>, <<"onConnect", "onClose">>}
    <3>1. Stage(c)
      BY DEF EndpointInv
    <3> QED
      BY <3>1 DEF Stage, Unused, Connecting, Stillborn, InUse, Closing, Gone, Rejected,
                  Refused, Greeted, Parted
  <2>2. ASSUME NEW c \in Conn
        PROVE  /\ sock[c].handle = "closed" => (memory[c] = "live" <=> setupError[c] = "connect")
               /\ c \in user_conn <=> sock[c].handle = "connecting" \/ setupError[c] = "start"
               /\ memory[c] = "freed" => setupError[c] = "accept" \/ Parted(c)
    <3>1. Stage(c)
      BY DEF EndpointInv
    <3> QED
      BY <3>1 DEF Stage, Unused, Connecting, Stillborn, InUse, Closing, Gone, Rejected,
                  Refused, At
  <2>3. \A c \in Conn : Parted(c) => told[c][Len(told[c])] = "onClose"
    <3>1. ASSUME NEW x \in Callback PROVE <<x, "onClose">>[Len(<<x, "onClose">>)] = "onClose"
      <4>1. Len(<<x, "onClose">>) = 2
        OBVIOUS
      <4> QED
        BY <4>1
    <3> QED
      BY <3>1 DEF Parted, Callback
  <2> QED
    BY <2>1, <2>2, <2>3 DEF EndpointInv, EndpointsSound, ToldOnce
<1> QED
  BY <1>1, <1>2, <1>3, PTL DEF EndpointSpec

----------------------------------------------------------------------------
(***************************************************************************)
(* XLog: the inductive invariant                                           *)
(***************************************************************************)

Line == Writer \X Nat
FileType == [day : Nat, held : SUBSET Line, open : BOOLEAN]

LogTypes ==
  /\ today \in Nat /\ tm \in Nat /\ writeday \in Nat /\ currsize \in Nat
  /\ files \in Seq(FileType)
  /\ file \in 0 .. Len(files)
  /\ writer = [w \in Writer |-> writer[w]]
  /\ \A w \in Writer : writer[w].at = "localtime" => writer[w].t \in Nat
  /\ begun \in [Writer -> 0 .. MaxLine]
  /\ \A w \in Writer : writer[w].at # "out" => begun[w] >= 1
  /\ dropped \in SUBSET Line
  /\ failed \in BOOLEAN /\ nowhere \in BOOLEAN

\* The file in use, and only that one, is open.
OpenInv == \A f \in 1 .. Len(files) : files[f].open <=> f = file

\* Threads between the two locked parts.
Pending == {w \in Writer : writer[w].at = "write"}

\* A thread only finds no file between the locked parts if fopen has failed.
PendingInv ==
  /\ nowhere => failed
  /\ file = 0 /\ Pending # {} => failed

\* currsize counts the lines of the file in use; with those that are on their way
\* to it, they stay below the limit.
SizeInv ==
  /\ \A f \in 1 .. Len(files) :
       /\ IsFiniteSet(files[f].held)
       /\ Cardinality(files[f].held) < maxsize + Cardinality(Writer)
  /\ ~nowhere /\ file # 0 =>
       /\ currsize = Cardinality(files[file].held)
       /\ currsize + Cardinality(Pending) < maxsize + Cardinality(Writer)

LogInv == LogTypes /\ OpenInv /\ PendingInv /\ SizeInv /\ NoLineLost

----------------------------------------------------------------------------
(***************************************************************************)
(* XLog: lemmas                                                            *)
(***************************************************************************)

\* The step of one thread.
LEMMA WriterMoves ==
  ASSUME LogTypes, NEW w \in Writer, NEW r, writer' = [writer EXCEPT ![w] = r]
  PROVE  /\ writer' = [v \in Writer |-> writer'[v]]
         /\ writer'[w] = r
         /\ \A v \in Writer : v # w => writer'[v] = writer[v]
BY DEF LogTypes

\* closefile keeps the lines of every file and closes the one in use.
LEMMA ClosedFiles ==
  ASSUME LogTypes, OpenInv
  PROVE  /\ Closed \in Seq(FileType)
         /\ Len(Closed) = Len(files) /\ Len(files) \in Nat
         /\ \A f \in 1 .. Len(files) : Closed[f].held = files[f].held /\ ~Closed[f].open
<1>1. CASE file = 0
  <2>1. \A f \in 1 .. Len(files) : files[f] \in FileType
    BY DEF LogTypes
  <2> QED
    BY <1>1, <2>1 DEF LogTypes, OpenInv, Closed, FileType
<1>2. CASE file # 0
  <2>1. file \in 1 .. Len(files) /\ Len(files) \in Nat
    BY <1>2 DEF LogTypes
  <2>2. files[file] \in FileType
    BY <2>1 DEF LogTypes
  <2>3. PICK r : r = [files[file] EXCEPT !.open = FALSE]
    OBVIOUS
  <2>4. r \in FileType /\ r.held = files[file].held /\ ~r.open
    BY <2>2, <2>3 DEF FileType
  <2>5. Closed = [files EXCEPT ![file] = r]
    BY <1>2, <2>3 DEF Closed
  <2> QED
    BY <2>1, <2>4, <2>5 DEF LogTypes, OpenInv
<1> QED
  BY <1>1, <1>2

\* The threads are finitely many.
LEMMA PendingFinite ==
  ASSUME NEW S, S \subseteq Writer
  PROVE  /\ IsFiniteSet(S) /\ Cardinality(S) \in Nat
         /\ Cardinality(Writer) \in Nat /\ Cardinality(S) <= Cardinality(Writer)
BY XLogAssumption, FS_Subset, FS_CardinalityType

\* A line on its way is in no file and has not been dropped.
LEMMA OnItsWay ==
  ASSUME LogInv, ~nowhere, NEW w \in Writer, writer[w].at # "out"
  PROVE  /\ begun[w] \in 1 .. MaxLine /\ LineOf(w) = <<w, begun[w]>> /\ LineOf(w) \in Line
         /\ LineOf(w) \notin dropped
         /\ \A f \in 1 .. Len(files) : LineOf(w) \notin files[f].held
<1>1. begun[w] \in 1 .. MaxLine
  BY XLogAssumption DEF LogInv, LogTypes
<1>2. LineOf(w) = <<w, begun[w]>> /\ LineOf(w) \in Line
  BY <1>1, XLogAssumption DEF LineOf, Line
<1>3. ~Returned(w, begun[w])
  BY <1>1, XLogAssumption DEF Returned
<1>4. Ends(LineOf(w)) = {}
  BY <1>1, <1>2, <1>3 DEF LogInv, NoLineLost
<1>5. Len(files) \in Nat
  BY DEF LogInv, LogTypes
<1> QED
  BY <1>1, <1>2, <1>4, <1>5 DEF Ends

\* A step that moves no line into a file and drops none, and that returns from no
\* call.
LEMMA NoneMoves ==
  ASSUME LogInv, ~nowhere, Len(files) \in Nat, Len(files') \in Nat,
         Len(files') >= Len(files), dropped' = dropped,
         \A f \in 1 .. Len(files) : files'[f].held = files[f].held,
         \A f \in Len(files) + 1 .. Len(files') : files'[f].held = {},
         \A w \in Writer : \A k \in 1 .. MaxLine : Returned(w, k)' <=> Returned(w, k)
  PROVE  NoLineLost'
<1>1. ASSUME NEW l PROVE Ends(l)' = Ends(l)
  BY DEF Ends
<1>2. ASSUME NEW w \in Writer, NEW k \in 1 .. MaxLine
      PROVE  IF Returned(w, k)' THEN \E f \in 0 .. Len(files') : Ends(<<w, k>>)' = {f}
                                ELSE Ends(<<w, k>>)' = {}
  <2>1. Ends(<<w, k>>)' = Ends(<<w, k>>)
    BY <1>1
  <2>2. Returned(w, k) => \E f \in 0 .. Len(files) : Ends(<<w, k>>) = {f}
    BY DEF LogInv, NoLineLost
  <2>3. ~Returned(w, k) => Ends(<<w, k>>) = {}
    BY DEF LogInv, NoLineLost
  <2>4. \A f \in 0 .. Len(files) : f \in 0 .. Len(files')
    OBVIOUS
  <2> QED
    BY <2>1, <2>2, <2>3, <2>4
<1> QED
  BY <1>2 DEF NoLineLost

\* A step in which the call of w returns and its line ends up at e.
LEMMA OneMoves ==
  ASSUME LogInv, ~nowhere, NEW w \in Writer, writer[w].at # "out",
         NEW e \in 0 .. Len(files),
         writer'[w].at = "out", \A v \in Writer : v # w => writer'[v] = writer[v],
         begun' = begun, Len(files') = Len(files),
         dropped' = (IF e = 0 THEN dropped \cup {LineOf(w)} ELSE dropped),
         \A f \in 1 .. Len(files) :
           files'[f].held = IF f = e THEN files[f].held \cup {LineOf(w)} ELSE files[f].held
  PROVE  NoLineLost'
<1>1. begun[w] \in 1 .. MaxLine /\ LineOf(w) = <<w, begun[w]>>
  BY OnItsWay
<1>2. Ends(LineOf(w))' = {e}
  <2>1. LineOf(w)' = LineOf(w)
    BY DEF LineOf
  <2>2. Len(files) \in Nat
    BY DEF LogInv, LogTypes
  <2>3. PICK l : l = LineOf(w)
    OBVIOUS
  <2>4. l \notin dropped /\ \A f \in 1 .. Len(files) : l \notin files[f].held
    BY <2>3, OnItsWay
  <2>5. (l \in dropped' <=> e = 0) /\ \A f \in 1 .. Len(files) : l \in files'[f].held <=> f = e
    BY <2>3, <2>4
  <2>6. {f \in 0 .. Len(files') : IF f = 0 THEN l \in dropped' ELSE l \in files'[f].held} = {e}
    <3>1. ASSUME NEW f \in 0 .. Len(files)
          PROVE  (IF f = 0 THEN l \in dropped' ELSE l \in files'[f].held) <=> f = e
      <4>1. CASE f = 0
        BY <2>5, <4>1
      <4>2. CASE f # 0
        <5>1. f \in 1 .. Len(files)
          BY <2>2, <4>2
        <5> QED
          BY <2>5, <4>2, <5>1
      <4> QED
        BY <4>1, <4>2
    <3> QED
      BY <3>1
  <2> QED
    BY <2>1, <2>3, <2>6 DEF Ends
<1>3. ASSUME NEW v \in Writer, NEW k \in 1 .. MaxLine, <<v, k>> # LineOf(w)
      PROVE  Ends(<<v, k>>)' = Ends(<<v, k>>) /\ (Returned(v, k)' <=> Returned(v, k))
  <2>1. Ends(<<v, k>>)' = Ends(<<v, k>>)
    <3>1. Len(files) \in Nat
      BY DEF LogInv, LogTypes
    <3>2. PICK l, m : l = <<v, k>> /\ m = LineOf(w)
      OBVIOUS
    <3>3. l # m
      BY <1>3, <3>2
    <3>4. (l \in dropped' <=> l \in dropped)
          /\ \A f \in 1 .. Len(files) : l \in files'[f].held <=> l \in files[f].held
      BY <3>2, <3>3
    <3>5. ASSUME NEW f \in 0 .. Len(files)
          PROVE  (IF f = 0 THEN l \in dropped' ELSE l \in files'[f].held)
                   <=> (IF f = 0 THEN l \in dropped ELSE l \in files[f].held)
      <4>1. f # 0 => f \in 1 .. Len(files)
        BY <3>1
      <4> QED
        BY <3>4, <4>1
    <3> QED
      BY <3>2, <3>5 DEF Ends
  <2>2. CASE v # w
    BY <2>1, <2>2 DEF Returned
  <2>3. CASE v = w
    BY <1>1, <1>3, <2>1, <2>3 DEF Returned
  <2> QED
    BY <2>2, <2>3
<1>4. ASSUME NEW v \in Writer, NEW k \in 1 .. MaxLine
      PROVE  IF Returned(v, k)' THEN \E f \in 0 .. Len(files') : Ends(<<v, k>>)' = {f}
                                ELSE Ends(<<v, k>>)' = {}
  <2>1. CASE <<v, k>> = LineOf(w)
    <3>1. v = w /\ k = begun[w]
      BY <1>1, <2>1
    <3>2. Returned(v, k)'
      BY <3>1 DEF Returned
    <3>3. Ends(<<v, k>>)' = {e}
      <4>1. LineOf(w)' = <<v, k>>
        BY <3>1 DEF LineOf
      <4> QED
        BY <1>2, <4>1
    <3> QED
      BY <3>2, <3>3
  <2>2. CASE <<v, k>> # LineOf(w)
    <3>1. Ends(<<v, k>>)' = Ends(<<v, k>>) /\ (Returned(v, k)' <=> Returned(v, k))
      BY <1>3, <2>2
    <3>2. Returned(v, k) => \E f \in 0 .. Len(files) : Ends(<<v, k>>) = {f}
      BY DEF LogInv, NoLineLost
    <3>3. ~Returned(v, k) => Ends(<<v, k>>) = {}
      BY DEF LogInv, NoLineLost
    <3> QED
      BY <3>1, <3>2, <3>3
  <2> QED
    BY <2>1, <2>2
<1> QED
  BY <1>4 DEF NoLineLost

----------------------------------------------------------------------------
(***************************************************************************)
(* XLog: the steps                                                         *)
(***************************************************************************)

\* What the steps outside the locked parts leave alone.
LEMMA OutsideStep ==
  ASSUME LogInv, ~nowhere, LogTypes', Pending' = Pending,
         UNCHANGED <<file, files, currsize, failed, nowhere, dropped>>,
         \A w \in Writer : \A k \in 1 .. MaxLine : Returned(w, k)' <=> Returned(w, k)
  PROVE  LogInv'
<1>1. OpenInv' /\ PendingInv' /\ SizeInv'
  BY DEF LogInv, OpenInv, PendingInv, SizeInv
<1>2. NoLineLost'
  <2>1. Len(files) \in Nat
    BY DEF LogInv, LogTypes
  <2> QED
    BY <2>1, NoneMoves
<1> QED
  BY <1>1, <1>2 DEF LogInv

\* time(NULL) at the start of a call.
LEMMA WriteFileStep ==
  ASSUME LogInv, NEW w \in Writer, writeFile(w)
  PROVE  LogInv'
<1>0. LogTypes /\ ~nowhere /\ writer[w].at = "out" /\ begun[w] < MaxLine
  BY DEF LogInv, writeFile
<1>1. PICK r : r = [at |-> "localtime", t |-> today]
  OBVIOUS
<1>2. r.at = "localtime" /\ r.t = today
  BY <1>1
<1>3. /\ writer' = [v \in Writer |-> writer'[v]] /\ writer'[w] = r
      /\ \A v \in Writer : v # w => writer'[v] = writer[v]
  BY <1>0, <1>1, WriterMoves DEF writeFile
<1>4. /\ begun' \in [Writer -> 0 .. MaxLine] /\ begun'[w] = begun[w] + 1
      /\ begun[w] \in Nat /\ \A v \in Writer : v # w => begun'[v] = begun[v]
  BY <1>0, XLogAssumption DEF LogTypes, writeFile
<1>5. LogTypes'
  <2>1. \A v \in Writer : writer'[v].at = "localtime" => writer'[v].t \in Nat
    BY <1>0, <1>2, <1>3 DEF LogTypes
  <2>2. \A v \in Writer : writer'[v].at # "out" => begun'[v] >= 1
    <3>1. begun'[w] >= 1
      BY <1>4
    <3>2. \A v \in Writer : writer[v].at # "out" => begun[v] >= 1
      BY <1>0 DEF LogTypes
    <3> QED
      BY <1>3, <1>4, <3>1, <3>2
  <2>3. UNCHANGED <<today, tm, writeday, currsize, files, file, dropped, failed, nowhere>>
    BY DEF writeFile
  <2> QED
    BY <1>0, <1>3, <1>4, <2>1, <2>2, <2>3 DEF LogTypes
<1>6. Pending' = Pending
  BY <1>0, <1>2, <1>3 DEF Pending
<1>7. ASSUME NEW v \in Writer, NEW k \in 1 .. MaxLine PROVE Returned(v, k)' <=> Returned(v, k)
  <2>1. CASE v # w
    BY <1>3, <1>4, <2>1 DEF Returned
  <2>2. CASE v = w
    BY <1>0, <1>2, <1>3, <1>4, <2>2 DEF Returned
  <2> QED
    BY <2>1, <2>2
<1> QED
  BY <1>0, <1>5, <1>6, <1>7, OutsideStep DEF writeFile

\* localtime, in the struct that all threads share.
LEMMA LocaltimeStep ==
  ASSUME LogInv, NEW w \in Writer, localtime(w)
  PROVE  LogInv'
<1>0. LogTypes /\ ~nowhere /\ writer[w].at = "localtime"
  BY DEF LogInv, localtime
<1>1. PICK r : r = [at |-> "choose"]
  OBVIOUS
<1>2. r.at = "choose"
  BY <1>1
<1>3. /\ writer' = [v \in Writer |-> writer'[v]] /\ writer'[w] = r
      /\ \A v \in Writer : v # w => writer'[v] = writer[v]
  BY <1>0, <1>1, WriterMoves DEF localtime
<1>4. LogTypes'
  <2>1. \A v \in Writer : writer'[v].at = "localtime" => writer'[v].t \in Nat
    BY <1>0, <1>2, <1>3 DEF LogTypes
  <2>2. \A v \in Writer : writer'[v].at # "out" => begun'[v] >= 1
    BY <1>0, <1>3 DEF LogTypes, localtime
  <2> QED
    BY <1>0, <1>3, <2>1, <2>2 DEF LogTypes, localtime
<1>5. Pending' = Pending
  BY <1>0, <1>2, <1>3 DEF Pending
<1>6. ASSUME NEW v \in Writer, NEW k \in 1 .. MaxLine PROVE Returned(v, k)' <=> Returned(v, k)
  BY <1>0, <1>2, <1>3 DEF Returned, localtime
<1> QED
  BY <1>0, <1>4, <1>5, <1>6, OutsideStep DEF localtime

\* The day ends.
LEMMA DayStep ==
  ASSUME LogInv, dayEnds
  PROVE  LogInv'
<1>1. ~nowhere /\ LogTypes' /\ Pending' = Pending
  BY DEF LogInv, LogTypes, dayEnds, Pending
<1>2. ASSUME NEW v \in Writer, NEW k \in 1 .. MaxLine PROVE Returned(v, k)' <=> Returned(v, k)
  BY DEF Returned, dayEnds
<1> QED
  BY <1>1, <1>2, OutsideStep DEF dayEnds

\* The first locked part finds the file in use good.
LEMMA ChooseSame ==
  ASSUME LogInv, NEW w \in Writer, choose(w), UNCHANGED <<file, files>>, file # 0,
         currsize < maxsize, UNCHANGED <<currsize, failed, dropped>>,
         writer' = [writer EXCEPT ![w] = [at |-> "write", chosen |-> file]]
  PROVE  LogInv'
<1>0. LogTypes /\ ~nowhere /\ nowhere' = nowhere /\ writer[w].at = "choose"
      /\ UNCHANGED <<begun, tm, today>>
      /\ writeday' = tm
  BY DEF LogInv, choose
<1>1. PICK r : r = [at |-> "write", chosen |-> file]
  OBVIOUS
<1>2. r.at = "write"
  BY <1>1
<1>3. /\ writer' = [v \in Writer |-> writer'[v]] /\ writer'[w] = r
      /\ \A v \in Writer : v # w => writer'[v] = writer[v]
  BY <1>0, <1>1, WriterMoves
<1>4. LogTypes'
  <2>1. \A v \in Writer : writer'[v].at = "localtime" => writer'[v].t \in Nat
    BY <1>0, <1>2, <1>3 DEF LogTypes
  <2>2. \A v \in Writer : writer'[v].at # "out" => begun'[v] >= 1
    BY <1>0, <1>3 DEF LogTypes
  <2>3. nowhere' \in BOOLEAN
    BY <1>0 DEF LogTypes
  <2> QED
    BY <1>0, <1>3, <2>1, <2>2, <2>3 DEF LogTypes
<1>5. OpenInv' /\ PendingInv'
  BY <1>0 DEF LogInv, OpenInv, PendingInv
<1>6. SizeInv'
  <2>1. PICK pending : pending = Pending' /\ pending \subseteq Writer
    BY DEF Pending
  <2>2. currsize + Cardinality(pending) < maxsize + Cardinality(Writer)
    BY <1>0, <2>1, PendingFinite, XLogAssumption DEF LogTypes
  <2> QED
    BY <1>0, <2>1, <2>2 DEF LogInv, SizeInv
<1>7. NoLineLost'
  <2>1. Len(files) \in Nat
    BY <1>0 DEF LogTypes
  <2>2. ASSUME NEW v \in Writer, NEW k \in 1 .. MaxLine PROVE Returned(v, k)' <=> Returned(v, k)
    BY <1>0, <1>2, <1>3 DEF Returned
  <2> QED
    BY <1>0, <2>1, <2>2, NoneMoves
<1> QED
  BY <1>4, <1>5, <1>6, <1>7 DEF LogInv

\* The first locked part opens a new file.
LEMMA ChooseNew ==
  ASSUME LogInv, NEW w \in Writer, choose(w),
         files' = Append(Closed, [day |-> tm, held |-> {}, open |-> TRUE]),
         file' = Len(files) + 1, currsize' = 0, UNCHANGED <<failed, dropped>>,
         writer' = [writer EXCEPT ![w] = [at |-> "write", chosen |-> Len(files) + 1]]
  PROVE  LogInv'
<1>0. LogTypes /\ ~nowhere /\ nowhere' = nowhere /\ writer[w].at = "choose"
      /\ UNCHANGED <<begun, tm, today>>
      /\ writeday' = tm
  BY DEF LogInv, choose
<1>1. PICK r : r = [at |-> "write", chosen |-> Len(files) + 1]
  OBVIOUS
<1>2. r.at = "write"
  BY <1>1
<1>3. /\ writer' = [v \in Writer |-> writer'[v]] /\ writer'[w] = r
      /\ \A v \in Writer : v # w => writer'[v] = writer[v]
  BY <1>0, <1>1, WriterMoves
<1>4. /\ Closed \in Seq(FileType)
      /\ Len(Closed) = Len(files) /\ Len(files) \in Nat
      /\ \A f \in 1 .. Len(files) : Closed[f].held = files[f].held /\ ~Closed[f].open
  BY <1>0, ClosedFiles DEF LogInv
<1>5. PICK new \in FileType : new = [day |-> tm, held |-> {}, open |-> TRUE]
  BY <1>0 DEF LogTypes, FileType
<1>6. /\ files' \in Seq(FileType) /\ Len(files') = Len(files) + 1
      /\ \A f \in 1 .. Len(files) : files'[f].held = files[f].held /\ ~files'[f].open
      /\ files'[Len(files) + 1].held = {} /\ files'[Len(files) + 1].open
  <2>1. files' = Append(Closed, new)
    BY <1>5
  <2>2. new.held = {} /\ new.open
    BY <1>5
  <2> QED
    BY <1>4, <2>1, <2>2
<1>7. LogTypes'
  <2>1. \A v \in Writer : writer'[v].at = "localtime" => writer'[v].t \in Nat
    BY <1>0, <1>2, <1>3 DEF LogTypes
  <2>2. \A v \in Writer : writer'[v].at # "out" => begun'[v] >= 1
    BY <1>0, <1>3 DEF LogTypes
  <2>3. nowhere' \in BOOLEAN /\ file' \in 0 .. Len(files')
    BY <1>0, <1>4, <1>6 DEF LogTypes
  <2> QED
    BY <1>0, <1>3, <1>6, <2>1, <2>2, <2>3 DEF LogTypes
<1>8. OpenInv' /\ PendingInv'
  <2>1. OpenInv'
    BY <1>4, <1>6 DEF OpenInv
  <2>2. file' # 0
    BY <1>4
  <2> QED
    BY <1>0, <2>1, <2>2 DEF PendingInv
<1>9. SizeInv'
  <2>1. PICK pending : pending = Pending' /\ pending \subseteq Writer
    BY DEF Pending
  <2>2. Cardinality(pending) < maxsize + Cardinality(Writer)
        /\ 0 < maxsize + Cardinality(Writer) /\ 0 + Cardinality(pending) = Cardinality(pending)
    BY <2>1, PendingFinite, XLogAssumption
  <2>3. IsFiniteSet({}) /\ Cardinality({}) = 0
    BY FS_EmptySet
  <2>4. ASSUME NEW f \in 1 .. Len(files')
        PROVE  IsFiniteSet(files'[f].held)
               /\ Cardinality(files'[f].held) < maxsize + Cardinality(Writer)
    <3>1. CASE f \in 1 .. Len(files)
      BY <1>6, <3>1 DEF LogInv, SizeInv
    <3>2. CASE f = Len(files) + 1
      BY <1>6, <2>2, <2>3, <3>2
    <3> QED
      BY <1>4, <1>6, <3>1, <3>2
  <2> QED
    BY <1>6, <2>1, <2>2, <2>3, <2>4 DEF SizeInv
<1>10. NoLineLost'
  <2>1. ASSUME NEW v \in Writer, NEW k \in 1 .. MaxLine PROVE Returned(v, k)' <=> Returned(v, k)
    BY <1>0, <1>2, <1>3 DEF Returned
  <2>2. \A f \in Len(files) + 1 .. Len(files') : files'[f].held = {}
    BY <1>4, <1>6
  <2>3. Len(files') \in Nat /\ Len(files') >= Len(files)
    BY <1>4, <1>6
  <2> QED
    BY <1>0, <1>4, <1>6, <2>1, <2>2, <2>3, NoneMoves
<1> QED
  BY <1>7, <1>8, <1>9, <1>10 DEF LogInv

\* The first locked part cannot open the new file and drops the line.
LEMMA ChooseFails ==
  ASSUME LogInv, NEW w \in Writer, choose(w), files' = Closed, file' = 0, failed' = TRUE,
         currsize' = (IF file = 0 THEN currsize ELSE 0), writer' = [writer EXCEPT ![w] = Out],
         dropped' = dropped \cup {LineOf(w)}
  PROVE  LogInv'
<1>0. LogTypes /\ ~nowhere /\ nowhere' = nowhere /\ writer[w].at = "choose"
      /\ UNCHANGED <<begun, tm, today>>
      /\ writeday' = tm
  BY DEF LogInv, choose
<1>1. PICK r : r = Out
  OBVIOUS
<1>2. r.at = "out"
  BY <1>1 DEF Out
<1>3. /\ writer' = [v \in Writer |-> writer'[v]] /\ writer'[w] = r
      /\ \A v \in Writer : v # w => writer'[v] = writer[v]
  BY <1>0, <1>1, WriterMoves
<1>4. /\ files' \in Seq(FileType)
      /\ Len(files') = Len(files) /\ Len(files) \in Nat
      /\ \A f \in 1 .. Len(files) : files'[f].held = files[f].held /\ ~files'[f].open
  BY <1>0, ClosedFiles DEF LogInv
<1>5. LogTypes'
  <2>1. \A v \in Writer : writer'[v].at = "localtime" => writer'[v].t \in Nat
    BY <1>0, <1>2, <1>3 DEF LogTypes
  <2>2. \A v \in Writer : writer'[v].at # "out" => begun'[v] >= 1
    BY <1>0, <1>2, <1>3 DEF LogTypes
  <2>3. nowhere' \in BOOLEAN /\ file' \in 0 .. Len(files')
    BY <1>0, <1>4 DEF LogTypes
  <2>4. dropped' \in SUBSET Line
    BY <1>0, OnItsWay DEF LogTypes
  <2> QED
    BY <1>0, <1>3, <1>4, <2>1, <2>2, <2>3, <2>4 DEF LogTypes
<1>6. OpenInv' /\ PendingInv' /\ SizeInv'
  BY <1>0, <1>4 DEF LogInv, OpenInv, PendingInv, SizeInv
<1>7. NoLineLost'
  <2>1. 0 \in 0 .. Len(files) /\ writer[w].at # "out" /\ writer'[w].at = "out"
    BY <1>0, <1>2, <1>3, <1>4
  <2>2. dropped' = (IF 0 = 0 THEN dropped \cup {LineOf(w)} ELSE dropped)
    OBVIOUS
  <2>3. \A f \in 1 .. Len(files) :
           files'[f].held = IF f = 0 THEN files[f].held \cup {LineOf(w)} ELSE files[f].held
    BY <1>4
  <2> QED
    BY <1>0, <1>3, <1>4, <2>1, <2>2, <2>3, OneMoves
<1> QED
  BY <1>5, <1>6, <1>7 DEF LogInv

\* The first locked part.
LEMMA ChooseStep ==
  ASSUME LogInv, NEW w \in Writer, choose(w)
  PROVE  LogInv'
<1>1. CASE /\ ~(file = 0 \/ tm # writeday \/ currsize >= maxsize)
           /\ writer' = [writer EXCEPT ![w] = [at |-> "write", chosen |-> file]]
           /\ UNCHANGED <<file, files, currsize, failed, dropped>>
  <2>1. file # 0 /\ currsize < maxsize
    BY <1>1, XLogAssumption DEF LogInv, LogTypes
  <2> QED
    BY <1>1, <2>1, ChooseSame
<1>2. CASE /\ files' = Append(Closed, [day |-> tm, held |-> {}, open |-> TRUE])
           /\ file' = Len(files) + 1 /\ currsize' = 0 /\ UNCHANGED <<failed, dropped>>
           /\ writer' = [writer EXCEPT ![w] = [at |-> "write", chosen |-> Len(files) + 1]]
  BY <1>2, ChooseNew
<1>3. CASE /\ files' = Closed /\ file' = 0 /\ failed' = TRUE
           /\ currsize' = (IF file = 0 THEN currsize ELSE 0)
           /\ writer' = [writer EXCEPT ![w] = Out] /\ dropped' = dropped \cup {LineOf(w)}
  BY <1>3, ChooseFails
<1> QED
  BY <1>1, <1>2, <1>3 DEF choose

\* The second locked part finds no file: only after a failed fopen.
LEMMA WriteNowhere ==
  ASSUME LogInv, NEW w \in Writer, write(w), file = 0
  PROVE  LogInv'
<1>0. LogTypes /\ ~nowhere /\ nowhere' = TRUE /\ writer[w].at = "write" /\ currsize' = currsize + 1
      /\ UNCHANGED <<file, files, begun, tm, today, writeday, failed, dropped>>
      /\ writer' = [writer EXCEPT ![w] = Out]
  BY DEF LogInv, write, emit
<1>1. PICK r : r = Out
  OBVIOUS
<1>2. r.at = "out"
  BY <1>1 DEF Out
<1>3. /\ writer' = [v \in Writer |-> writer'[v]] /\ writer'[w] = r
      /\ \A v \in Writer : v # w => writer'[v] = writer[v]
  BY <1>0, <1>1, WriterMoves
<1>4. LogTypes'
  <2>1. \A v \in Writer : writer'[v].at = "localtime" => writer'[v].t \in Nat
    BY <1>0, <1>2, <1>3 DEF LogTypes
  <2>2. \A v \in Writer : writer'[v].at # "out" => begun'[v] >= 1
    BY <1>0, <1>2, <1>3 DEF LogTypes
  <2> QED
    BY <1>0, <1>3, <2>1, <2>2 DEF LogTypes
<1>5. failed
  BY <1>0 DEF LogInv, PendingInv, Pending
<1> QED
  BY <1>0, <1>4, <1>5 DEF LogInv, OpenInv, PendingInv, SizeInv, NoLineLost

\* The second locked part writes to the file in use now, which is open.
LEMMA WriteStep ==
  ASSUME LogInv, NEW w \in Writer, write(w), file # 0
  PROVE  LogInv'
<1>0. LogTypes /\ ~nowhere /\ writer[w].at = "write" /\ currsize' = currsize + 1
      /\ UNCHANGED <<file, begun, tm, today, writeday, failed, dropped>>
      /\ writer' = [writer EXCEPT ![w] = Out] /\ nowhere' = ~files[file].open
      /\ files' = [files EXCEPT ![file].held = @ \cup {LineOf(w)}]
  BY DEF LogInv, write, emit
<1>1. PICK r : r = Out
  OBVIOUS
<1>2. r.at = "out"
  BY <1>1 DEF Out
<1>3. /\ writer' = [v \in Writer |-> writer'[v]] /\ writer'[w] = r
      /\ \A v \in Writer : v # w => writer'[v] = writer[v]
  BY <1>0, <1>1, WriterMoves
<1>4. file \in 1 .. Len(files) /\ Len(files) \in Nat
  BY <1>0 DEF LogTypes
<1>5. nowhere' = FALSE
  BY <1>0, <1>4 DEF LogInv, OpenInv
<1>6. PICK l \in Line : l = LineOf(w) /\ l \notin files[file].held
  BY <1>0, <1>4, OnItsWay
<1>7. /\ files' \in Seq(FileType) /\ Len(files') = Len(files)
      /\ \A f \in 1 .. Len(files) : files'[f].open = files[f].open
      /\ \A f \in 1 .. Len(files) :
           files'[f].held = IF f = file THEN files[f].held \cup {l} ELSE files[f].held
  <2>1. files[file] \in FileType
    BY <1>4, <1>0 DEF LogTypes
  <2>2. PICK g : g = [files[file] EXCEPT !.held = @ \cup {l}]
    OBVIOUS
  <2>3. g \in FileType /\ g.open = files[file].open /\ g.held = files[file].held \cup {l}
    BY <2>1, <2>2 DEF FileType
  <2>4. files' = [files EXCEPT ![file] = g]
    BY <1>0, <1>6, <2>2
  <2>5. files' \in Seq(FileType) /\ Len(files') = Len(files)
    <3>1. files \in Seq(FileType) /\ g \in FileType
      BY <1>0, <2>3 DEF LogTypes
    <3> QED
      BY <1>4, <2>4, <3>1, ExceptSeq
  <2>6. files'[file] = g /\ \A f \in 1 .. Len(files) : f # file => files'[f] = files[f]
    BY <1>0, <1>4, <2>4 DEF LogTypes
  <2> QED
    BY <2>3, <2>5, <2>6
<1>8. LogTypes'
  <2>1. \A v \in Writer : writer'[v].at = "localtime" => writer'[v].t \in Nat
    BY <1>0, <1>2, <1>3 DEF LogTypes
  <2>2. \A v \in Writer : writer'[v].at # "out" => begun'[v] >= 1
    BY <1>0, <1>2, <1>3 DEF LogTypes
  <2> QED
    BY <1>0, <1>3, <1>5, <1>7, <2>1, <2>2 DEF LogTypes
<1>9. OpenInv' /\ PendingInv'
  BY <1>0, <1>5, <1>7 DEF LogInv, OpenInv, PendingInv
<1>10. SizeInv'
  <2>1. PICK pending, left : pending = Pending /\ left = Pending'
    OBVIOUS
  <2>2. pending \subseteq Writer /\ w \in pending /\ left = pending \ {w}
    BY <1>0, <1>2, <1>3, <2>1 DEF Pending
  <2>3. Cardinality(left) = Cardinality(pending) - 1 /\ Cardinality(pending) \in Nat
        /\ Cardinality(left) \in Nat /\ Cardinality(Writer) \in Nat
    <3>1. IsFiniteSet(pending) /\ left \subseteq Writer
      BY <2>2, PendingFinite
    <3> QED
      BY <2>2, <3>1, PendingFinite, FS_RemoveElement
  <2>4. /\ IsFiniteSet(files[file].held) /\ currsize = Cardinality(files[file].held)
        /\ currsize + Cardinality(pending) < maxsize + Cardinality(Writer)
    BY <1>0, <1>4, <2>1 DEF LogInv, SizeInv
  <2>5. IsFiniteSet(files'[file].held) /\ Cardinality(files'[file].held) = currsize + 1
    <3>1. files'[file].held = files[file].held \cup {l}
      BY <1>4, <1>7
    <3>2. PICK held : held = files[file].held
      OBVIOUS
    <3>3. IsFiniteSet(held) /\ l \notin held /\ Cardinality(held) = currsize
      BY <1>6, <2>4, <3>2
    <3>4. IsFiniteSet(held \cup {l}) /\ Cardinality(held \cup {l}) = currsize + 1
      BY <3>3, FS_AddElement
    <3> QED
      BY <3>1, <3>2, <3>4
  <2>6. currsize + 1 + Cardinality(left) < maxsize + Cardinality(Writer)
        /\ currsize + 1 < maxsize + Cardinality(Writer)
    <3>1. PICK c \in Nat, p \in Nat, t \in Nat, m \in Nat, n \in Nat :
            /\ c = currsize /\ p = Cardinality(pending) /\ t = Cardinality(left)
            /\ m = maxsize /\ n = Cardinality(Writer)
      BY <1>0, <2>3, XLogAssumption DEF LogTypes
    <3>2. t = p - 1 /\ c + p < m + n
      BY <2>3, <2>4, <3>1
    <3>3. c + 1 + t < m + n /\ c + 1 < m + n
      BY <3>2
    <3> QED
      BY <3>1, <3>3
  <2>7. ASSUME NEW f \in 1 .. Len(files')
        PROVE  IsFiniteSet(files'[f].held)
               /\ Cardinality(files'[f].held) < maxsize + Cardinality(Writer)
    <3>1. CASE f = file
      BY <2>5, <2>6, <3>1
    <3>2. CASE f # file
      BY <1>7, <3>2 DEF LogInv, SizeInv
    <3> QED
      BY <3>1, <3>2
  <2> QED
    BY <1>0, <2>1, <2>5, <2>6, <2>7 DEF SizeInv
<1>11. NoLineLost'
  <2>1. file \in 0 .. Len(files) /\ writer[w].at # "out" /\ writer'[w].at = "out"
    BY <1>0, <1>2, <1>3, <1>4
  <2>2. dropped' = (IF file = 0 THEN dropped \cup {LineOf(w)} ELSE dropped)
    BY <1>0
  <2>3. \A f \in 1 .. Len(files) :
           files'[f].held = IF f = file THEN files[f].held \cup {LineOf(w)} ELSE files[f].held
    BY <1>6, <1>7
  <2> QED
    BY <1>0, <1>3, <1>7, <2>1, <2>2, <2>3, OneMoves
<1> QED
  BY <1>8, <1>9, <1>10, <1>11 DEF LogInv

----------------------------------------------------------------------------
\* For any number of threads and lines, with days that end and files that cannot
\* be opened at any time: between the two locked parts of writeFile a line can lose
\* its file only after a failed fopen, one file is open at a time, a file outgrows
\* its limit by less than one line per thread, and every line is in exactly one
\* file once its call returns, or was dropped for want of a file (XLog.cpp).
THEOREM LogIsSound == LogSpec => []LogSound
<1>1. LogInit => LogInv
  <2> SUFFICES ASSUME LogInit PROVE LogInv
    OBVIOUS
  <2>1. files \in Seq(FileType) /\ Len(files) = 0
    BY DEF LogInit
  <2>2. \A w \in Writer : writer[w].at = "out" /\ begun[w] = 0
    BY DEF LogInit, Out
  <2>3. begun \in [Writer -> 0 .. MaxLine]
    BY XLogAssumption DEF LogInit
  <2>4. writer = [w \in Writer |-> writer[w]]
    BY DEF LogInit
  <2>5. LogTypes
    <3>1. file \in 0 .. Len(files) /\ dropped \in SUBSET Line
      BY <2>1 DEF LogInit
    <3>2. today \in Nat /\ tm \in Nat /\ writeday \in Nat /\ currsize \in Nat
      BY DEF LogInit
    <3>3. failed \in BOOLEAN /\ nowhere \in BOOLEAN
      BY DEF LogInit
    <3> QED
      BY <2>1, <2>2, <2>3, <2>4, <3>1, <3>2, <3>3 DEF LogTypes
  <2>6. OpenInv /\ PendingInv /\ SizeInv
    BY <2>1, <2>2 DEF LogInit, OpenInv, PendingInv, SizeInv, Pending
  <2>7. \A w \in Writer : \A k \in 1 .. MaxLine : ~Returned(w, k) /\ Ends(<<w, k>>) = {}
    BY <2>1, <2>2 DEF LogInit, Returned, Ends
  <2> QED
    BY <2>5, <2>6, <2>7 DEF LogInv, NoLineLost
<1>2. LogInv /\ [LogNext]_logVars => LogInv'
  <2> SUFFICES ASSUME LogInv, [LogNext]_logVars PROVE LogInv'
    OBVIOUS
  <2>1. ASSUME NEW w \in Writer, writeFile(w) PROVE LogInv'
    BY <2>1, WriteFileStep
  <2>2. ASSUME NEW w \in Writer, localtime(w) PROVE LogInv'
    BY <2>2, LocaltimeStep
  <2>3. ASSUME NEW w \in Writer, choose(w) PROVE LogInv'
    BY <2>3, ChooseStep
  <2>4. ASSUME NEW w \in Writer, write(w) PROVE LogInv'
    BY <2>4, WriteStep, WriteNowhere
  <2>5. CASE dayEnds
    BY <2>5, DayStep
  <2>6. CASE UNCHANGED logVars
    <3>1. LogTypes' /\ OpenInv' /\ PendingInv' /\ SizeInv'
      BY <2>6 DEF logVars, LogInv, LogTypes, OpenInv, PendingInv, SizeInv, Pending
    <3>2. NoLineLost'
      BY <2>6 DEF logVars, LogInv, NoLineLost, Returned, Ends
    <3> QED
      BY <3>1, <3>2 DEF LogInv
  <2> QED
    BY <2>1, <2>2, <2>3, <2>4, <2>5, <2>6 DEF LogNext
<1>3. LogInv => LogSound
  <2> SUFFICES ASSUME LogInv PROVE LogSound
    OBVIOUS
  <2>1. Len(files) \in Nat /\ DOMAIN files = 1 .. Len(files) /\ file \in 0 .. Len(files)
    BY DEF LogInv, LogTypes
  <2>2. OneFileOpen
    BY <2>1 DEF LogInv, OpenInv, OneFileOpen
  <2>3. LimitKept
    BY <2>1 DEF LogInv, SizeInv, LimitKept
  <2> QED
    BY <2>2, <2>3 DEF LogInv, PendingInv, LogSound, WrittenSomewhere
<1> QED
  BY <1>1, <1>2, <1>3, PTL DEF LogSpec

----------------------------------------------------------------------------
(***************************************************************************)
(* SqlStatement: the inductive invariant                                   *)
(***************************************************************************)

Bind == [cap : Nat, id : Nat, len : Nat]

SqlTypes ==
  /\ m_paramBind \in [1 .. m_count -> Bind]
  /\ m_widx \in Nat
  /\ m_stmt \in BOOLEAN /\ alive \in BOOLEAN
  /\ stmts \in Int /\ runs \in Nat /\ clears \in Nat
  /\ m_currRowIdx \in Int /\ m_currColIdx \in Nat
  /\ given \in Seq(Nat)

\* The binds hold what was pushed; a bind that no push has reached has no buffer
\* as long as clear was not called.
BindsHold ==
  /\ Len(given) = m_widx
  /\ wild = "none" => m_widx <= m_count
  /\ \A k \in 1 .. m_widx : k <= m_count => m_paramBind[k].id = given[k]
  /\ clears = 0 => \A k \in m_widx + 1 .. m_count : m_paramBind[k].cap = 0

\* The statements of a command that has been run at most once.
StatementKept ==
  /\ stmts <= runs
  /\ alive /\ runs = 0 => stmts = 0 /\ ~m_stmt
  /\ alive /\ runs = 1 => stmts = IF m_stmt THEN 1 ELSE 0
  /\ ~alive /\ runs <= 1 => stmts = 0

\* What an execution can answer.
Answered ==
  {NoAnswer} \cup UNION {{[rows |-> t, fetched |-> n, bound |-> b] :
                            n \in 0 .. Len(t), b \in BOOLEAN} : t \in Answers}

\* The result is the one of the answer.
ResultKept == answer \in Answered /\ result = setResult(answer)

SqlInv ==
  /\ SqlTypes /\ BindsHold /\ StatementKept /\ ResultKept
  /\ SentIsGiven /\ WildOnlyFor /\ ReadsTheCell

----------------------------------------------------------------------------
(***************************************************************************)
(* SqlStatement: rows and columns in the vector of fields                  *)
(***************************************************************************)

\* Where getField looks for column c of row r.
IndexOf(r, c, n) == r * n + c + 1

\* Row r and column c of a table with n columns are found again from the index.
LEMMA RowAndColumn ==
  ASSUME NEW r \in Nat, NEW c \in Nat, NEW n \in Nat, c < n
  PROVE  (IndexOf(r, c, n) - 1) \div n = r /\ (IndexOf(r, c, n) - 1) % n = c
<1>1. (r * n + c) \div n = r /\ (r * n + c) % n = c
  BY Z3
<1>2. IndexOf(r, c, n) - 1 = r * n + c
  BY Z3 DEF IndexOf
<1> QED
  BY <1>1, <1>2, Zenon

\* The index of a row that there is lies within the vector.
LEMMA IndexInside ==
  ASSUME NEW r \in Nat, NEW c \in Nat, NEW n \in Nat, c < n, NEW m \in Nat, r < m
  PROVE  m * n \in Nat /\ IndexOf(r, c, n) \in 1 .. m * n
<1>1. PICK d \in Nat : m = r + 1 + d
  <2>1. m - (r + 1) \in Nat /\ m = r + 1 + (m - (r + 1))
    OBVIOUS
  <2> QED
    BY <2>1
<1>2. m * n = r * n + n + d * n
  BY <1>1, Z3
<1>3. d * n \in Nat /\ r * n \in Nat
  BY Z3
<1> QED
  BY <1>2, <1>3, Z3 DEF IndexOf

\* Every answer is a table of cells whose rows are as long as the first.
LEMMA AnswerTypes ==
  ASSUME NEW a \in Answered
  PROVE  /\ a = [rows |-> a.rows, fetched |-> a.fetched, bound |-> a.bound]
         /\ a.rows \in Seq(Seq(Cell)) /\ a.fetched \in Nat /\ a.bound \in BOOLEAN
         /\ \A i \in 1 .. Len(a.rows) : Len(a.rows[i]) = Len(a.rows[1])
<1>1. CASE a = NoAnswer
  BY <1>1 DEF NoAnswer
<1>2. CASE a # NoAnswer
  <2>1. PICK t \in Answers : a \in {[rows |-> t, fetched |-> n, bound |-> b] :
                                      n \in 0 .. Len(t), b \in BOOLEAN}
    BY <1>2 DEF Answered
  <2>2. PICK n \in 0 .. Len(t), b \in BOOLEAN : a = [rows |-> t, fetched |-> n, bound |-> b]
    BY <2>1
  <2>3. t \in Seq(Seq(Cell)) /\ \A i \in 1 .. Len(t) : Len(t[i]) = Len(t[1])
    BY SqlAssumption
  <2>4. n \in Nat
    BY <2>3, LenProperties
  <2>5. a.rows = t /\ a.fetched = n /\ a.bound = b
    BY <2>2
  <2> QED
    BY <2>2, <2>3, <2>4, <2>5
<1> QED
  BY <1>1, <1>2

\* What the column's buffer holds of a cell.
Known(cell) ==
  IF cell.null THEN 0 ELSE IF cell.len > cell.cap THEN cell.cap ELSE cell.len

\* The field of a cell.
Made(cell) ==
  [made |-> TRUE, id |-> IF cell.null THEN 0 ELSE cell.id,
   len |-> IF cell.null THEN 0 ELSE cell.len, known |-> Known(cell)]

\* A place that no row has reached.
Unmade == [made |-> FALSE, id |-> 0, len |-> 0, known |-> 0]

\* The field behind the index of row r and column c is that cell of the answer, if
\* the row has arrived.
FieldIsCell(a, r, c) ==
  LET k == IndexOf(r, c, setResult(a).fieldCount)
      fields == setResult(a).fields
      cell == a.rows[r + 1][c + 1]
  IN  /\ k \in Nat \ {0} /\ Len(fields) \in Nat
      /\ ~a.bound => fields = << >>
      /\ a.bound =>
           /\ k <= Len(fields)
           /\ fields[k].made <=> r + 1 <= a.fetched
           /\ fields[k].made =>
                /\ fields[k].id = IF cell.null THEN 0 ELSE cell.id
                /\ fields[k].len = IF cell.null THEN 0 ELSE cell.len
                /\ fields[k].known = Known(cell)

\* setResult puts every cell where getField looks for it.
LEMMA FieldOfCell ==
  ASSUME NEW a \in Answered, NEW r \in Nat, NEW c \in Nat,
         r < setResult(a).rowCount, c < setResult(a).fieldCount
  PROVE  FieldIsCell(a, r, c)
<1> PICK rows \in Seq(Seq(Cell)) : rows = a.rows
  BY AnswerTypes
<1> PICK f \in Nat : f = a.fetched
  BY AnswerTypes
<1> PICK m \in Nat : m = Len(rows)
  BY LenProperties
<1>1. setResult(a).rowCount = m
  BY DEF setResult
<1>2. rows # << >> /\ r + 1 \in 1 .. Len(rows)
  <2>1. r < Len(rows)
    BY <1>1
  <2> QED
    BY <2>1
<1> PICK n \in Nat : n = Len(rows[1])
  <2>1. 1 \in 1 .. Len(rows)
    BY <1>2
  <2>2. rows[1] \in Seq(Cell)
    BY <2>1, ElementOfSeq
  <2> QED
    BY <2>2, LenProperties
<1>3. setResult(a).fieldCount = n
  BY <1>2 DEF setResult
<1>4. c < n /\ r < m
  BY <1>1, <1>3
<1> PICK size \in Nat : size = m * n /\ IndexOf(r, c, n) \in 1 .. size
  BY <1>4, IndexInside
<1> PICK k \in 1 .. size : k = IndexOf(r, c, n)
  OBVIOUS
<1>5. (k - 1) \div n = r /\ (k - 1) % n = c
  BY <1>4, RowAndColumn
<1>6. ASSUME a.bound
      PROVE  /\ setResult(a).fields = Fields(rows, f, n)
             /\ Len(Fields(rows, f, n)) = size
             /\ Fields(rows, f, n)[k] =
                  IF r + 1 > f THEN Unmade ELSE Made(rows[r + 1][c + 1])
  <2>1. setResult(a).fields = Fields(rows, f, n)
    BY <1>2, <1>6 DEF setResult
  <2>2. Len(Fields(rows, f, n)) = size
    BY DEF Fields
  <2>3. Fields(rows, f, n)[k] =
          LET q == (k - 1) \div n + 1
          IN  IF q > f THEN Unmade ELSE Made(rows[q][((k - 1) % n) + 1])
    <3> DEFINE q == (k - 1) \div n + 1
               cell == rows[q][((k - 1) % n) + 1]
    <3>1. Fields(rows, f, n)[k] =
            IF q > f THEN [made |-> FALSE, id |-> 0, len |-> 0, known |-> 0]
            ELSE IF cell.null THEN [made |-> TRUE, id |-> 0, len |-> 0, known |-> 0]
            ELSE [made |-> TRUE, id |-> cell.id, len |-> cell.len,
                  known |-> IF cell.len > cell.cap THEN cell.cap ELSE cell.len]
      BY DEF Fields
    <3> HIDE DEF q, cell
    <3>2. Fields(rows, f, n)[k] = IF q > f THEN Unmade ELSE Made(cell)
      BY <3>1 DEF Unmade, Made, Known
    <3> QED
      BY <3>2 DEF q, cell
  <2> QED
    BY <2>1, <2>2, <2>3, <1>5
<1>7. ~a.bound => setResult(a).fields = << >>
  BY DEF setResult
<1> QED
  <2>1. IndexOf(r, c, setResult(a).fieldCount) = k
    BY <1>3
  <2>2. ASSUME a.bound
        PROVE  /\ k <= Len(setResult(a).fields)
               /\ setResult(a).fields[k].made <=> r + 1 <= a.fetched
               /\ setResult(a).fields[k].made =>
                    /\ setResult(a).fields[k].id =
                         IF a.rows[r + 1][c + 1].null THEN 0 ELSE a.rows[r + 1][c + 1].id
                    /\ setResult(a).fields[k].len =
                         IF a.rows[r + 1][c + 1].null THEN 0 ELSE a.rows[r + 1][c + 1].len
                    /\ setResult(a).fields[k].known = Known(a.rows[r + 1][c + 1])
    <3>1. k <= Len(setResult(a).fields)
      BY <2>2, <1>6
    <3>2. CASE r + 1 > f
      <4>1. setResult(a).fields[k] = Unmade
        BY <3>2, <2>2, <1>6
      <4>2. ~(r + 1 <= f)
        BY <3>2
      <4> QED
        BY <3>1, <4>1, <4>2 DEF Unmade
    <3>3. CASE ~(r + 1 > f)
      <4> DEFINE cell == a.rows[r + 1][c + 1]
      <4>1. setResult(a).fields[k] = Made(cell)
        BY <3>3, <2>2, <1>6
      <4>2. r + 1 <= f
        BY <3>3
      <4> HIDE DEF cell
      <4>3. /\ setResult(a).fields[k].made
            /\ setResult(a).fields[k].id = IF cell.null THEN 0 ELSE cell.id
            /\ setResult(a).fields[k].len = IF cell.null THEN 0 ELSE cell.len
            /\ setResult(a).fields[k].known = Known(cell)
        BY <4>1 DEF Made
      <4> QED
        BY <3>1, <4>2, <4>3 DEF cell
    <3> QED
      BY <3>2, <3>3
  <2>3. k \in Nat \ {0} /\ Len(setResult(a).fields) \in Nat
    <3>1. CASE a.bound
      BY <3>1, <1>6
    <3>2. CASE ~a.bound
      BY <3>2, <1>7
    <3> QED
      BY <3>1, <3>2
  <2> QED
    BY <2>1, <2>2, <2>3, <1>7 DEF FieldIsCell

\* The number of columns is a number.
LEMMA FieldCountType ==
  ASSUME NEW a \in Answered
  PROVE  setResult(a).fieldCount \in Nat /\ setResult(a).rowCount \in Nat
<1>1. a.rows \in Seq(Seq(Cell))
  BY AnswerTypes
<1>2. CASE a.rows = << >>
  BY <1>1, <1>2, LenProperties DEF setResult
<1>3. CASE a.rows # << >>
  <2>1. 1 \in 1 .. Len(a.rows)
    BY <1>1, <1>3
  <2>2. a.rows[1] \in Seq(Cell)
    BY <1>1, <2>1, ElementOfSeq
  <2>3. setResult(a).fieldCount = Len(a.rows[1])
    BY <1>3 DEF setResult
  <2> QED
    BY <1>1, <2>2, <2>3, LenProperties DEF setResult
<1> QED
  BY <1>2, <1>3

----------------------------------------------------------------------------
(***************************************************************************)
(* SqlStatement: the steps                                                 *)
(***************************************************************************)

\* fill: the bind holds the parameter, and a bind without a buffer gets one that
\* is long enough.
LEMMA Filled ==
  ASSUME NEW b \in Bind, NEW p \in Params
  PROVE  /\ fill(b, p) \in Bind
         /\ fill(b, p).id = p.id
         /\ b.cap = 0 => fill(b, p).cap = p.len
<1>1. p \in [id : Nat, len : Nat, fixed : BOOLEAN]
  BY SqlAssumption
<1> QED
  BY <1>1 DEF fill, Bind

\* What a step that leaves the result alone leaves alone.
LEMMA ResultStays ==
  ASSUME SqlInv, UNCHANGED resultVars
  PROVE  /\ ResultKept' /\ ReadsTheCell'
         /\ m_currRowIdx' \in Int /\ m_currColIdx' \in Nat
BY DEF SqlInv, SqlTypes, ResultKept, ReadsTheCell, Asked, resultVars

\* A parameter behind the last bind: memory is written that is not the
\* statement's, and nobody has looked.
LEMMA PushPast ==
  ASSUME SqlInv, wild = "none", NEW p \in Params, push(p), m_widx + 1 > m_count
  PROVE  SqlInv'
<1> USE DEF SqlInv
<1>1. m_count \in Nat /\ m_widx = m_count
  BY SqlAssumption DEF SqlTypes, BindsHold
<1>2. /\ m_widx' = m_widx + 1 /\ given' = Append(given, p.id) /\ wild' = "binds"
      /\ UNCHANGED <<m_paramBind, m_stmt, stmts, sent, runs, clears, alive>>
      /\ UNCHANGED resultVars
  BY DEF push
<1>3. p.id \in Nat
  BY SqlAssumption
<1>4. /\ given' \in Seq(Nat) /\ Len(given') = m_widx + 1
      /\ \A i \in 1 .. m_widx : given'[i] = given[i]
  BY <1>2, <1>3, AppendProperties DEF SqlTypes, BindsHold
<1>5. SqlTypes'
  <2>1. m_widx' \in Nat
    BY <1>2 DEF SqlTypes
  <2> QED
    BY <1>2, <1>4, <2>1, ResultStays DEF SqlTypes
<1>6. BindsHold'
  <2>1. Len(given') = m_widx'
    BY <1>2, <1>4
  <2>2. \A i \in 1 .. m_widx' : i <= m_count => m_paramBind'[i].id = given'[i]
    <3> TAKE i \in 1 .. m_widx'
    <3> HAVE i <= m_count
    <3>1. i \in 1 .. m_widx
      BY <1>1, <1>2
    <3> QED
      BY <3>1, <1>2, <1>4 DEF BindsHold
  <2>3. clears' = 0 => \A i \in m_widx' + 1 .. m_count : m_paramBind'[i].cap = 0
    BY <1>1, <1>2
  <2> QED
    BY <1>2, <2>1, <2>2, <2>3 DEF BindsHold
<1>7. WildOnlyFor'
  BY <1>1, <1>2, <1>4 DEF WildOnlyFor
<1>8. StatementKept' /\ SentIsGiven'
  BY <1>2 DEF StatementKept, SentIsGiven
<1> QED
  BY <1>5, <1>6, <1>7, <1>8, <1>2, ResultStays

\* pushString and the others: the next value is bound.
LEMMA PushStep ==
  ASSUME SqlInv, wild = "none", NEW p \in Params, push(p), m_widx + 1 <= m_count
  PROVE  SqlInv'
<1> USE DEF SqlInv
<1> PICK k \in 1 .. m_count : k = m_widx + 1
  BY SqlAssumption DEF SqlTypes
<1>1. m_count \in Nat /\ m_widx \in Nat /\ k = m_widx + 1
  BY SqlAssumption DEF SqlTypes
<1>2. p \in [id : Nat, len : Nat, fixed : BOOLEAN]
  BY SqlAssumption
<1> PICK b \in Bind : b = m_paramBind[k]
  BY DEF SqlTypes
<1> PICK f \in Bind : f = fill(b, p) /\ f.id = p.id /\ (b.cap = 0 => f.cap = p.len)
  BY Filled
<1>3. m_paramBind' = [m_paramBind EXCEPT ![k] = f]
  BY <1>1 DEF push
<1>4. /\ m_widx' = k /\ given' = Append(given, p.id)
      /\ wild' = IF p.len > f.cap THEN "buffer" ELSE wild
      /\ UNCHANGED <<m_stmt, stmts, sent, runs, clears, alive>> /\ UNCHANGED resultVars
  BY <1>1 DEF push
<1>5. m_paramBind' \in [1 .. m_count -> Bind] /\ m_paramBind'[k] = f
      /\ \A i \in 1 .. m_count : i # k => m_paramBind'[i] = m_paramBind[i]
  BY <1>3 DEF SqlTypes
<1>6. /\ given' \in Seq(Nat) /\ Len(given') = m_widx + 1
      /\ \A i \in 1 .. m_widx : given'[i] = given[i]
      /\ given'[m_widx + 1] = p.id
  BY <1>2, <1>4, AppendProperties DEF SqlTypes, BindsHold
<1>7. SqlTypes'
  <2>1. m_widx' \in Nat
    BY <1>1, <1>4
  <2> QED
    BY <1>4, <1>5, <1>6, <2>1, ResultStays DEF SqlTypes
<1>8. BindsHold'
  <2>1. Len(given') = m_widx'
    BY <1>1, <1>4, <1>6
  <2>2. \A i \in 1 .. m_widx' : i <= m_count => m_paramBind'[i].id = given'[i]
    <3> TAKE i \in 1 .. m_widx'
    <3>1. CASE i = k
      BY <3>1, <1>1, <1>5, <1>6
    <3>2. CASE i # k
      <4>1. i \in 1 .. m_widx /\ i \in 1 .. m_count
        BY <3>2, <1>1, <1>4
      <4> QED
        BY <3>2, <4>1, <1>5, <1>6 DEF BindsHold
    <3> QED
      BY <3>1, <3>2
  <2>3. clears' = 0 => \A i \in m_widx' + 1 .. m_count : m_paramBind'[i].cap = 0
    <3> SUFFICES ASSUME clears = 0, NEW i \in m_widx' + 1 .. m_count
                 PROVE  m_paramBind'[i].cap = 0
      BY <1>4
    <3>1. i \in m_widx + 1 .. m_count /\ i \in 1 .. m_count /\ i # k
      BY <1>1, <1>4
    <3> QED
      BY <3>1, <1>5 DEF BindsHold
  <2>4. m_widx' <= m_count
    BY <1>4
  <2> QED
    BY <2>1, <2>2, <2>3, <2>4 DEF BindsHold
<1>9. WildOnlyFor'
  <2>1. CASE clears = 0
    <3>1. k \in m_widx + 1 .. m_count
      BY <1>1
    <3>2. b.cap = 0
      BY <2>1, <3>1 DEF BindsHold
    <3>3. ~(p.len > f.cap)
      BY <3>2, <1>2
    <3> QED
      BY <3>3, <1>4 DEF WildOnlyFor
  <2>2. CASE clears # 0
    <3>1. clears' > 0
      BY <2>2, <1>4 DEF SqlTypes
    <3>2. Len(given') <= m_count
      BY <1>1, <1>6
    <3>3. wild' \in {"none", "buffer"}
      BY <1>4
    <3> QED
      BY <3>1, <3>2, <3>3 DEF WildOnlyFor
  <2> QED
    BY <2>1, <2>2
<1>10. StatementKept' /\ SentIsGiven'
  BY <1>4 DEF StatementKept, SentIsGiven
<1> QED
  BY <1>4, <1>7, <1>8, <1>9, <1>10, ResultStays

\* clear: the statement has no values.
LEMMA ClearStep ==
  ASSUME SqlInv, wild = "none", clear
  PROVE  SqlInv'
<1> USE DEF SqlInv
<1>1. /\ clears' = clears + 1 /\ m_widx' = 0 /\ given' = << >>
      /\ UNCHANGED <<m_paramBind, m_stmt, stmts, sent, runs, wild, alive>>
      /\ UNCHANGED resultVars
  BY DEF clear
<1>2. clears' \in Nat /\ clears' > 0
  BY <1>1 DEF SqlTypes
<1>3. SqlTypes'
  <2>1. m_widx' \in Nat
    BY <1>1
  <2>2. given' \in Seq(Nat)
    BY <1>1
  <2> QED
    BY <1>1, <1>2, <2>1, <2>2, ResultStays DEF SqlTypes
<1>4. BindsHold'
  BY <1>1, <1>2, SqlAssumption DEF BindsHold
<1>5. StatementKept' /\ SentIsGiven' /\ WildOnlyFor'
  BY <1>1, <1>2 DEF StatementKept, SentIsGiven, WildOnlyFor
<1> QED
  BY <1>1, <1>3, <1>4, <1>5, ResultStays

\* The destructor frees what the statement holds.
LEMMA DestructStep ==
  ASSUME SqlInv, wild = "none", destruct
  PROVE  SqlInv'
<1> USE DEF SqlInv
<1>1. /\ alive /\ alive' = FALSE /\ m_stmt' = FALSE
      /\ stmts' = IF m_stmt THEN stmts - 1 ELSE stmts
      /\ UNCHANGED <<m_paramBind, m_widx, given, sent, runs, clears, wild>>
      /\ UNCHANGED resultVars
  BY DEF destruct
<1>2. stmts' \in Int
  BY <1>1 DEF SqlTypes
<1>3. SqlTypes'
  <2>1. alive' \in BOOLEAN /\ m_stmt' \in BOOLEAN
    BY <1>1
  <2> QED
    BY <1>1, <1>2, <2>1, ResultStays DEF SqlTypes
<1>4. StatementKept'
  <2>1. stmts' <= runs'
    BY <1>1 DEF StatementKept, SqlTypes
  <2>2. runs' <= 1 => stmts' = 0
    BY <1>1 DEF StatementKept, SqlTypes
  <2> QED
    BY <1>1, <2>1, <2>2 DEF StatementKept
<1>5. BindsHold' /\ SentIsGiven' /\ WildOnlyFor'
  BY <1>1 DEF BindsHold, SentIsGiven, WildOnlyFor
<1> QED
  BY <1>1, <1>3, <1>4, <1>5, ResultStays

\* A worker runs the statement, or fails.
LEMMA ProcessStep ==
  ASSUME SqlInv, wild = "none", NEW o \in Outcomes, process(o)
  PROVE  SqlInv'
<1> USE DEF SqlInv
<1>1. /\ alive /\ runs' = runs + 1 /\ m_stmt' = (o.step # "init")
      /\ stmts' = IF o.step # "init" THEN stmts + 1 ELSE stmts
      /\ result' = IF o.step = "done" THEN setResult(o.answer) ELSE NoResult
      /\ answer' = o.answer
      /\ m_currRowIdx' = -1 /\ m_currColIdx' = 0 /\ got' = Unread
      /\ wild' = IF NoBuffer(o.answer) THEN "column" ELSE wild
      /\ UNCHANGED <<m_paramBind, m_widx, given, clears, alive>>
  BY DEF process
<1>2. SqlTypes'
  <2>1. m_stmt' \in BOOLEAN
    BY <1>1
  <2>2. stmts' \in Int /\ runs' \in Nat
    BY <1>1 DEF SqlTypes
  <2>3. m_currRowIdx' \in Int /\ m_currColIdx' \in Nat
    BY <1>1
  <2> QED
    BY <1>1, <2>1, <2>2, <2>3 DEF SqlTypes
<1>3. StatementKept'
  <2>1. stmts' <= runs'
    BY <1>1 DEF StatementKept, SqlTypes
  <2>2. alive' /\ runs' # 0
    BY <1>1 DEF SqlTypes
  <2>3. runs' = 1 => stmts' = IF m_stmt' THEN 1 ELSE 0
    <3>1. runs' = 1 => stmts = 0
      BY <1>1 DEF StatementKept, SqlTypes
    <3>2. CASE o.step = "init"
      <4>1. stmts' = stmts /\ ~m_stmt'
        BY <3>2, <1>1
      <4> QED
        BY <3>1, <4>1
    <3>3. CASE o.step # "init"
      <4>1. stmts' = stmts + 1 /\ m_stmt'
        BY <3>3, <1>1
      <4> QED
        BY <3>1, <4>1
    <3> QED
      BY <3>2, <3>3
  <2> QED
    BY <2>1, <2>2, <2>3 DEF StatementKept
<1>4. ResultKept'
  <2>1. setResult(NoAnswer) = NoResult
    BY DEF setResult, NoAnswer, NoResult, Fields
  <2>2. CASE o.step # "done"
    <3>1. o.answer = NoAnswer
      BY <2>2 DEF Outcomes
    <3> QED
      BY <2>1, <2>2, <3>1, <1>1 DEF ResultKept, Answered
  <2>3. CASE o.step = "done"
    <3>1. PICK t \in Answers : o \in {[step |-> "done", answer |-> [rows |-> t, fetched |-> n, bound |-> b]] :
                                       n \in 0 .. Len(t), b \in BOOLEAN}
      BY <2>3 DEF Outcomes
    <3>2. PICK n \in 0 .. Len(t), b \in BOOLEAN :
             o = [step |-> "done", answer |-> [rows |-> t, fetched |-> n, bound |-> b]]
      BY <3>1
    <3>3. o.answer \in {[rows |-> t, fetched |-> i, bound |-> c] : i \in 0 .. Len(t), c \in BOOLEAN}
      BY <3>2
    <3>4. o.answer \in Answered
      BY <3>3 DEF Answered
    <3> QED
      BY <2>3, <3>4, <1>1 DEF ResultKept
  <2> QED
    BY <2>2, <2>3
<1>5. ReadsTheCell'
  BY <1>1 DEF ReadsTheCell, Unread
<1>6. SentIsGiven'
  <2>1. CASE sent' = sent
    BY <2>1 DEF SentIsGiven
  <2>2. CASE sent' = [ids |-> [k \in 1 .. m_count |-> m_paramBind[k].id], want |-> given]
    <3>1. sent'.ids = [k \in 1 .. m_count |-> m_paramBind[k].id] /\ sent'.want = given
      BY <2>2
    <3>2. Len(given) = m_widx /\ m_widx \in Nat /\ m_count \in Nat
      BY SqlAssumption DEF BindsHold, SqlTypes
    <3>3. \A k \in 1 .. Len(sent'.want) : k <= m_count => sent'.ids[k] = sent'.want[k]
      BY <3>1, <3>2 DEF BindsHold
    <3> QED
      BY <3>3 DEF SentIsGiven
  <2> QED
    BY <2>1, <2>2 DEF process
<1>7. BindsHold'
  BY <1>1 DEF BindsHold
<1>8. WildOnlyFor'
  <2>1. CASE NoBuffer(o.answer)
    <3>1. \E r \in 1 .. answer'.fetched : \E c \in 1 .. Len(answer'.rows[r]) :
            answer'.rows[r][c].cap = 0
      BY <2>1, <1>1 DEF NoBuffer
    <3> QED
      BY <2>1, <3>1, <1>1 DEF WildOnlyFor
  <2>2. CASE ~NoBuffer(o.answer)
    BY <2>2, <1>1 DEF WildOnlyFor
  <2> QED
    BY <2>1, <2>2
<1> QED
  BY <1>2, <1>3, <1>4, <1>5, <1>6, <1>7, <1>8

\* fetch: the next row, or none.
LEMMA FetchStep ==
  ASSUME SqlInv, wild = "none", fetch
  PROVE  SqlInv'
<1> USE DEF SqlInv
<1>1. /\ m_currRowIdx' = m_currRowIdx + 1 /\ m_currColIdx' = 0 /\ got' = Unread
      /\ UNCHANGED <<m_paramBind, m_widx, m_stmt, stmts, result, answer, given, sent, runs, clears,
                     wild, alive>>
  BY DEF fetch
<1>2. m_currRowIdx' \in Int /\ m_currColIdx' \in Nat
  BY <1>1 DEF SqlTypes
<1>3. SqlTypes'
  BY <1>1, <1>2 DEF SqlTypes
<1>4. ReadsTheCell'
  BY <1>1 DEF ReadsTheCell, Unread
<1>5. BindsHold' /\ StatementKept' /\ ResultKept'
  BY <1>1 DEF BindsHold, StatementKept, ResultKept
<1>6. SentIsGiven' /\ WildOnlyFor'
  BY <1>1 DEF SentIsGiven, WildOnlyFor
<1> QED
  BY <1>3, <1>4, <1>5, <1>6

\* getField and readField find the cell the server sent, or say why not.
LEMMA ReadRight ==
  ASSUME SqlInv, NEW w \in Nat, get(w)
  PROVE  ReadsTheCell'
<1> PICK a \in Answered : a = answer /\ result = setResult(a)
  BY DEF SqlInv, ResultKept
<1> PICK r \in Int, c \in Nat : r = m_currRowIdx /\ c = m_currColIdx
  BY DEF SqlInv, SqlTypes
<1> PICK n \in Nat, m \in Nat : n = result.fieldCount /\ m = result.rowCount
  BY FieldCountType
<1> PICK f \in Nat : f = a.fetched
  BY AnswerTypes
<1> DEFINE field == getField(c)
           taking == readField(w)
           cell == a.rows[r + 1][c + 1]
           there == r >= 0 /\ r < m /\ c < n
<1>1. m = Len(a.rows)
  BY DEF setResult
<1>2. answer' = a /\ result' = result /\ got'.row = r /\ got'.col = c /\ got'.width = w
      /\ got'.read = taking
  BY DEF get
<1>3. SUFFICES /\ taking.what \in {"value", "part"} =>
                     there /\ (IF cell.null THEN taking.id = 0
                               ELSE taking.id = cell.id
                                    /\ (IF w = 0 THEN cell.len ELSE w) <= cell.cap)
               /\ taking.what = "past the field" => there /\ (cell.null \/ w > cell.len)
               /\ taking.what = "foreign" => there /\ ~cell.null /\ cell.len > cell.cap
               /\ taking.what = "outside" => ~a.bound
               /\ taking.what = "nothing" => ~there \/ r + 1 > a.fetched
  <2>1. Asked' = cell
    BY <1>2 DEF Asked
  <2> HIDE DEF taking, cell
  <2> QED
    BY <1>1, <1>2, <2>1 DEF ReadsTheCell
<1>4. field.what # "field" => taking = field
  BY DEF readField
<1>5. CASE ~there
  <2>1. m_currRowIdx < 0 \/ m_currRowIdx >= result.rowCount \/ c >= result.fieldCount
    BY <1>5
  <2>2. field = NoRead
    BY <2>1 DEF getField
  <2>3. taking = NoRead
    BY <2>2, <1>4 DEF NoRead
  <2> QED
    BY <1>5, <2>3 DEF NoRead
<1>6. CASE there
  <2> PICK k \in Nat \ {0} :
        /\ k = IndexOf(r, c, n)
        /\ Len(result.fields) \in Nat
        /\ ~a.bound => result.fields = << >>
        /\ a.bound =>
             /\ k <= Len(result.fields)
             /\ result.fields[k].made <=> r + 1 <= f
             /\ result.fields[k].made =>
                  /\ result.fields[k].id = IF cell.null THEN 0 ELSE cell.id
                  /\ result.fields[k].len = IF cell.null THEN 0 ELSE cell.len
                  /\ result.fields[k].known = Known(cell)
    <3>1. r \in Nat /\ r < setResult(a).rowCount /\ c < setResult(a).fieldCount
      BY <1>6
    <3>2. FieldIsCell(a, r, c)
      BY <3>1, FieldOfCell
    <3> HIDE DEF cell
    <3> QED
      BY <3>2 DEF FieldIsCell, cell
  <2>1. ~(m_currRowIdx < 0 \/ m_currRowIdx >= result.rowCount \/ c >= result.fieldCount)
    BY <1>6
  <2>2. field = IF k > Len(result.fields) THEN [what |-> "outside", id |-> 0]
                ELSE IF ~result.fields[k].made THEN NoRead
                ELSE [what |-> "field", id |-> k]
    <3>1. m_currRowIdx * result.fieldCount + c + 1 = k
      BY DEF IndexOf
    <3> QED
      BY <2>1, <3>1, Zenon DEF getField
  <2>3. CASE ~a.bound
    <3>1. field = [what |-> "outside", id |-> 0]
      BY <2>2, <2>3
    <3>2. taking = [what |-> "outside", id |-> 0]
      BY <3>1, <1>4
    <3> QED
      BY <2>3, <3>2
  <2>4. CASE a.bound /\ ~result.fields[k].made
    <3>1. field = NoRead
      BY <2>2, <2>4
    <3>2. taking = NoRead
      BY <3>1, <1>4 DEF NoRead
    <3>3. r + 1 > f
      BY <2>4
    <3> QED
      BY <3>2, <3>3 DEF NoRead
  <2>5. CASE a.bound /\ result.fields[k].made
    <3>1. field = [what |-> "field", id |-> k]
      BY <2>2, <2>5
    <3>2. /\ result.fields[k].id = IF cell.null THEN 0 ELSE cell.id
          /\ result.fields[k].len = IF cell.null THEN 0 ELSE cell.len
          /\ result.fields[k].known = Known(cell)
      BY <2>5
    <3>3. cell \in Cell
      <4>1. a.rows \in Seq(Seq(Cell)) /\ r + 1 \in 1 .. Len(a.rows)
        BY <1>1, <1>6, AnswerTypes
      <4>2. a.rows[r + 1] \in Seq(Cell) /\ Len(a.rows[r + 1]) = Len(a.rows[1])
        BY <4>1, AnswerTypes, ElementOfSeq
      <4>3. n = Len(a.rows[1])
        BY <4>1 DEF setResult
      <4>4. c + 1 \in 1 .. Len(a.rows[r + 1])
        BY <4>2, <4>3, <1>6
      <4> QED
        BY <4>2, <4>4, ElementOfSeq
    <3> HIDE DEF cell
    <3>4. cell.len \in Nat /\ cell.cap \in Nat /\ cell.null \in BOOLEAN
      BY <3>3 DEF Cell
    <3>5. PICK l \in Nat : l = result.fields[k].len /\ l = IF cell.null THEN 0 ELSE cell.len
      BY <3>2, <3>4
    <3>6. PICK size \in Nat : size = IF w = 0 THEN l ELSE w
      OBVIOUS
    <3> DEFINE e == result.fields[k]
    <3>11. taking = IF w > e.len THEN [what |-> "past the field", id |-> 0]
                  ELSE IF (IF w = 0 THEN e.len ELSE w) > e.known
                         THEN [what |-> "foreign", id |-> e.id]
                  ELSE IF w \in {0, e.len} THEN [what |-> "value", id |-> e.id]
                  ELSE [what |-> "part", id |-> e.id]
      BY <3>1 DEF readField
    <3>7. taking = IF w > l THEN [what |-> "past the field", id |-> 0]
                 ELSE IF size > Known(cell)
                        THEN [what |-> "foreign", id |-> result.fields[k].id]
                 ELSE IF w \in {0, l}
                        THEN [what |-> "value", id |-> result.fields[k].id]
                 ELSE [what |-> "part", id |-> result.fields[k].id]
      BY <3>2, <3>5, <3>6, <3>11
    <3> HIDE DEF taking
    <3>8. CASE w > l
      <4>1. taking = [what |-> "past the field", id |-> 0]
        BY <3>7, <3>8
      <4>2. cell.null \/ w > cell.len
        BY <3>5, <3>8
      <4> QED
        BY <4>1, <4>2, <1>6
    <3>9. CASE ~(w > l) /\ size > Known(cell)
      <4>1. taking.what = "foreign"
        BY <3>7, <3>9
      <4>2. ~cell.null
        BY <3>4, <3>5, <3>6, <3>9 DEF Known
      <4>3. cell.len > cell.cap
        BY <4>2, <3>4, <3>5, <3>6, <3>9 DEF Known
      <4> QED
        BY <4>1, <4>2, <4>3, <1>6
    <3>10. CASE ~(w > l) /\ ~(size > Known(cell))
      <4>1. taking.what \in {"value", "part"} /\ taking.id = result.fields[k].id
        BY <3>7, <3>10
      <4>2. ~cell.null => (IF w = 0 THEN cell.len ELSE w) <= cell.cap
        BY <3>4, <3>5, <3>6, <3>10 DEF Known
      <4> QED
        BY <4>1, <4>2, <3>2, <1>6
    <3> QED
      BY <3>8, <3>9, <3>10
  <2> QED
    BY <2>3, <2>4, <2>5
<1> QED
  BY <1>5, <1>6

\* getInt32 and the others: a cell of the current row is read.
LEMMA GetStep ==
  ASSUME SqlInv, wild = "none", NEW w \in Widths, get(w)
  PROVE  SqlInv'
<1>1. w \in Nat
  BY SqlAssumption
<1>2. ReadsTheCell'
  BY <1>1, ReadRight
<1> USE DEF SqlInv
<1>3. /\ m_currColIdx' = m_currColIdx + 1
      /\ UNCHANGED <<m_paramBind, m_widx, m_stmt, stmts, result, m_currRowIdx, answer, given, sent,
                     runs, clears, wild, alive>>
  BY DEF get
<1>4. SqlTypes'
  <2>1. m_currColIdx' \in Nat
    BY <1>3 DEF SqlTypes
  <2> QED
    BY <1>3, <2>1 DEF SqlTypes
<1>5. BindsHold' /\ StatementKept' /\ ResultKept'
  BY <1>3 DEF BindsHold, StatementKept, ResultKept
<1>6. SentIsGiven' /\ WildOnlyFor'
  BY <1>3 DEF SentIsGiven, WildOnlyFor
<1> QED
  BY <1>2, <1>4, <1>5, <1>6

\* A statement sends what was pushed; memory is misused by a longer value after
\* clear, by more values than question marks or by a type without a buffer, and
\* else never; a run leaves at most one statement open; a read returns the cell
\* the server sent for the row and the column, with foreign bytes only where it
\* was truncated (SqlPrepare, SqlResultSet::setResult, getField).
THEOREM SqlIsSound == SqlSpec => []SqlSound
<1>1. SqlInit => SqlInv
  <2> SUFFICES ASSUME SqlInit PROVE SqlInv
    OBVIOUS
  <2> USE DEF SqlInit
  <2>1. SqlTypes
    <3>1. m_paramBind \in [1 .. m_count -> Bind]
      BY DEF NoBind, Bind
    <3>2. m_widx \in Nat
      OBVIOUS
    <3>3. m_stmt \in BOOLEAN /\ alive \in BOOLEAN
      OBVIOUS
    <3>4. given \in Seq(Nat)
      OBVIOUS
    <3> QED
      BY <3>1, <3>2, <3>3, <3>4 DEF SqlTypes
  <2>2. BindsHold
    BY SqlAssumption DEF BindsHold, NoBind
  <2>3. StatementKept
    BY DEF StatementKept
  <2>4. ResultKept
    BY DEF ResultKept, Answered, setResult, NoAnswer, NoResult, Fields
  <2>5. SentIsGiven
    BY DEF SentIsGiven
  <2>6. WildOnlyFor
    BY DEF WildOnlyFor
  <2>7. ReadsTheCell
    BY DEF ReadsTheCell, Unread
  <2> QED
    BY <2>1, <2>2, <2>3, <2>4, <2>5, <2>6, <2>7 DEF SqlInv
<1>2. SqlInv /\ [SqlNext]_sqlVars => SqlInv'
  <2> SUFFICES ASSUME SqlInv, [SqlNext]_sqlVars PROVE SqlInv'
    OBVIOUS
  <2>1. ASSUME wild = "none", NEW p \in Params, push(p) PROVE SqlInv'
    <3>1. CASE m_widx + 1 > m_count
      BY <2>1, <3>1, PushPast
    <3>2. CASE m_widx + 1 <= m_count
      BY <2>1, <3>2, PushStep
    <3>3. m_widx \in Nat /\ m_count \in Nat
      BY SqlAssumption DEF SqlInv, SqlTypes
    <3> QED
      BY <3>1, <3>2, <3>3
  <2>2. CASE wild = "none" /\ clear
    BY <2>2, ClearStep
  <2>3. CASE wild = "none" /\ destruct
    BY <2>3, DestructStep
  <2>4. CASE wild = "none" /\ fetch
    BY <2>4, FetchStep
  <2>5. ASSUME wild = "none", NEW o \in Outcomes, process(o) PROVE SqlInv'
    BY <2>5, ProcessStep
  <2>6. ASSUME wild = "none", NEW w \in Widths, get(w) PROVE SqlInv'
    BY <2>6, GetStep
  <2>7. CASE UNCHANGED sqlVars
    <3>1. UNCHANGED resultVars
      BY <2>7 DEF sqlVars, resultVars
    <3>2. UNCHANGED <<m_paramBind, m_widx, m_stmt, stmts, given, sent, runs, clears, wild, alive>>
      BY <2>7 DEF sqlVars
    <3>3. SqlTypes' /\ BindsHold' /\ StatementKept'
      BY <3>1, <3>2, ResultStays DEF SqlInv, SqlTypes, BindsHold, StatementKept
    <3>4. SentIsGiven' /\ WildOnlyFor'
      BY <3>1, <3>2 DEF SqlInv, SentIsGiven, WildOnlyFor, resultVars
    <3> QED
      BY <3>1, <3>3, <3>4, ResultStays DEF SqlInv
  <2> QED
    BY <2>1, <2>2, <2>3, <2>4, <2>5, <2>6, <2>7 DEF SqlNext
<1>3. SqlInv => SqlSound
  <2> SUFFICES ASSUME SqlInv PROVE SqlSound
    OBVIOUS
  <2>1. OneStatementPerRun
    BY DEF SqlInv, StatementKept, OneStatementPerRun
  <2> QED
    BY <2>1 DEF SqlInv, SqlSound
<1> QED
  BY <1>1, <1>2, <1>3, PTL DEF SqlSpec

----------------------------------------------------------------------------
(***************************************************************************)
(* RedisClient: the inductive invariant                                    *)
(***************************************************************************)

Bytes == Seq(Nat)

\* What a read returned.
Reading == [how : {"all", "word", "number", "past"}, value : Seq(Int)]

RedisTypes ==
  /\ m_context \in {"null", "ok", "err"}
  /\ broken \in BOOLEAN
  /\ m_param \in Seq(Bytes)
  /\ m_len \in Seq(Nat)
  /\ pushedWords \in Seq(Bytes)
  /\ onWire.of \in Nat
  /\ reply \in Replies \cup {NoReply}
  /\ readBack \in Seq(Reading)
  /\ pos \in Nat

\* The bytes p of a parameter start with what was pushed; tostr may have added
\* to them.
StartsWith(p, w) ==
  /\ Len(w) <= Len(p)
  /\ \A i \in 1 .. Len(w) : p[i] = w[i]

\* The lengths are those of what was pushed, and only NULs are behind the command.
CommandKept ==
  /\ Len(m_param) >= 1
  /\ Len(m_len) = Len(m_param)
  /\ Len(pushedWords) = Len(m_param)
  /\ \A k \in 1 .. Len(m_param) :
       m_len[k] = Len(pushedWords[k]) /\ StartsWith(m_param[k], pushedWords[k])
  /\ pushedWords[1] \in Commands
  /\ \A i \in Len(pushedWords[1]) + 1 .. Len(m_param[1]) : m_param[1][i] = NUL

\* What was sent is still the first of what was pushed.
WireKept == onWire.of <= Len(pushedWords) /\ SendsWhatWasPushed

\* r is what reading part k of the reply returns.
RightRead(r, k) ==
  LET part == Part(k)
      blank == \E i \in 1 .. Len(part) : part[i] \in {SPACE, NUL}
  IN  /\ reply.kind # "string" => k <= Len(reply.elements)
      /\ r.how = "all" => r.value = IF part = NilStr THEN << >> ELSE part
      /\ r.how = "word" => IF blank THEN Len(r.value) < Len(part) ELSE r.value = part
      /\ r.how = "number" => IsPrefix(r.value, Append(part, NUL))
      /\ r.how = "past" => \E size \in Sizes : size > Len(part) + 1
      /\ r.how # "all" => part # NilStr /\ (reply.kind = "string" => k = 1)

RedisInv ==
  /\ RedisTypes /\ CommandKept /\ WireKept /\ ReadsTheReply /\ MisusedOnlyBy
  /\ RepliesFreed /\ NoReconnect

----------------------------------------------------------------------------
(***************************************************************************)
(* RedisClient: what is sent                                               *)
(***************************************************************************)

\* A sequence that agrees with the first elements of another is a prefix of it.
LEMMA PrefixByElements ==
  ASSUME NEW S, NEW s \in Seq(S), NEW t \in Seq(S), Len(s) <= Len(t),
         \A k \in 1 .. Len(s) : s[k] = t[k]
  PROVE  IsPrefix(s, t)
<1>1. /\ SubSeq(s, 1, Len(s)) \in Seq(S)
      /\ Len(SubSeq(s, 1, Len(s))) = Len(s)
      /\ \A i \in 1 .. Len(s) : SubSeq(s, 1, Len(s))[i] = s[i]
  <2>1. \A i \in 1 .. Len(s) : s[i] \in S
    BY ElementOfSeq
  <2> QED
    BY <2>1, SubSeqProperties, LenProperties, Z3
<1>2. /\ SubSeq(t, 1, Len(s)) \in Seq(S)
      /\ Len(SubSeq(t, 1, Len(s))) = Len(s)
      /\ \A i \in 1 .. Len(s) : SubSeq(t, 1, Len(s))[i] = t[i]
  <2>1. \A i \in 1 .. Len(s) : t[i] \in S
    BY ElementOfSeq, LenProperties
  <2> QED
    BY <2>1, SubSeqProperties, LenProperties, Z3
<1>3. SubSeq(s, 1, Len(s)) = SubSeq(t, 1, Len(s))
  BY <1>1, <1>2, SeqEqual
<1> QED
  BY <1>3 DEF IsPrefix

\* The first elements of a longer sequence stay.
LEMMA SamePrefix ==
  ASSUME NEW S, NEW s \in Seq(S), NEW t \in Seq(S), NEW n \in Nat, n <= Len(s), n <= Len(t),
         \A k \in 1 .. n : s[k] = t[k]
  PROVE  SubSeq(s, 1, n) = SubSeq(t, 1, n)
<1>1. /\ SubSeq(s, 1, n) \in Seq(S) /\ Len(SubSeq(s, 1, n)) = n
      /\ \A i \in 1 .. n : SubSeq(s, 1, n)[i] = s[i]
  <2>1. \A i \in 1 .. n : s[i] \in S
    BY ElementOfSeq, LenProperties
  <2> QED
    BY <2>1, SubSeqProperties, LenProperties, Z3
<1>2. /\ SubSeq(t, 1, n) \in Seq(S) /\ Len(SubSeq(t, 1, n)) = n
      /\ \A i \in 1 .. n : SubSeq(t, 1, n)[i] = t[i]
  <2>1. \A i \in 1 .. n : t[i] \in S
    BY ElementOfSeq, LenProperties
  <2> QED
    BY <2>1, SubSeqProperties, LenProperties, Z3
<1> QED
  BY <1>1, <1>2, SeqEqual

\* The smallest of some naturals.
LEMMA Smallest ==
  ASSUME NEW N, N \subseteq Nat, N # {}
  PROVE  Min(N) \in N /\ \A y \in N : Min(N) =< y
<1>1. \E x \in N : \A y \in N : ~ (y < x)
  <2>1. \E x \in N : \A y \in N : ~ (<<y, x>> \in OpToRel(<, Nat))
    BY NatLessThanWellFounded, WFMin
  <2> QED
    BY <2>1 DEF OpToRel
<1>2. \E x \in N : \A y \in N : x =< y
  BY <1>1
<1> QED
  BY <1>2 DEF Min

\* operator>>: the first word is all of a string without blanks, and less than a
\* string with one.
LEMMA WordOf ==
  ASSUME NEW s \in Seq(Int)
  PROVE  /\ FirstWord(s) \in Seq(Int)
         /\ IF \E i \in 1 .. Len(s) : s[i] \in {SPACE, NUL}
              THEN Len(FirstWord(s)) < Len(s) ELSE FirstWord(s) = s
<1> PICK n \in Nat : n = Len(s)
  BY LenProperties
<1> DEFINE A == {k \in 1 .. n + 1 : k = n + 1 \/ s[k] # SPACE}
           a == Min(A)
           B == {k \in a .. n + 1 : k = n + 1 \/ s[k] \in {SPACE, NUL}}
           b == Min(B)
<1>1. a \in A /\ \A y \in A : a =< y
  <2>1. A \subseteq Nat /\ n + 1 \in A
    OBVIOUS
  <2> HIDE DEF A
  <2> QED
    BY <2>1, Smallest
<1>2. a \in 1 .. n + 1 /\ (a = n + 1 \/ s[a] # SPACE)
  BY <1>1
<1>3. (n >= 1 /\ s[1] # SPACE) => a = 1
  <2>1. (n >= 1 /\ s[1] # SPACE) => 1 \in A
    OBVIOUS
  <2> QED
    BY <2>1, <1>1, <1>2
<1> HIDE DEF a, A
<1>4. b \in B /\ \A y \in B : b =< y
  <2>1. B \subseteq Nat /\ n + 1 \in B
    BY <1>2
  <2> HIDE DEF B
  <2> QED
    BY <2>1, Smallest
<1>5. b \in a .. n + 1 /\ (b = n + 1 \/ s[b] \in {SPACE, NUL})
  BY <1>4
<1>6. \A y \in a .. n : s[y] \in {SPACE, NUL} => b =< y
  BY <1>4, <1>2
<1>7. FirstWord(s) = SubSeq(s, a, b - 1)
  BY DEF FirstWord, a, A
<1> HIDE DEF b, B
<1>8. /\ SubSeq(s, a, b - 1) \in Seq(Int)
      /\ Len(SubSeq(s, a, b - 1)) = IF a <= b - 1 THEN b - 1 - a + 1 ELSE 0
      /\ \A i \in 1 .. b - 1 - a + 1 : SubSeq(s, a, b - 1)[i] = s[a + i - 1]
  <2>1. \A i \in a .. b - 1 : s[i] \in Int
    BY <1>2, <1>5, ElementOfSeq
  <2>2. a \in Int /\ b - 1 \in Int
    BY <1>2, <1>5
  <2> QED
    BY <2>1, <2>2, SubSeqProperties
<1>9. CASE \E i \in 1 .. n : s[i] \in {SPACE, NUL}
  <2> PICK i \in 1 .. n : s[i] \in {SPACE, NUL}
    BY <1>9
  <2>1. CASE a = 1
    <3>1. b =< i
      BY <2>1, <1>6
    <3> QED
      BY <2>1, <3>1, <1>5, <1>7, <1>8, <1>9
  <2>2. CASE a # 1
    BY <2>2, <1>2, <1>5, <1>7, <1>8, <1>9
  <2> QED
    BY <2>1, <2>2
<1>10. CASE ~ \E i \in 1 .. n : s[i] \in {SPACE, NUL}
  <2>1. a = 1
    BY <1>2, <1>3, <1>10
  <2>2. b = n + 1
    BY <2>1, <1>5, <1>10
  <2>3. FirstWord(s) = s
    BY <2>1, <2>2, <1>7, <1>8, SeqEqual
  <2> QED
    BY <2>3, <1>10
<1> QED
  BY <1>7, <1>8, <1>9, <1>10

\* As many bytes of a parameter as were pushed are what was pushed.
LEMMA CutToLength ==
  ASSUME NEW p \in Bytes, NEW w \in Bytes, StartsWith(p, w)
  PROVE  SubSeq(p, 1, Len(w)) = w
<1>1. \A i \in 1 .. Len(w) : p[i] \in Nat
  BY ElementOfSeq, LenProperties DEF StartsWith, Bytes
<1>2. /\ SubSeq(p, 1, Len(w)) \in Seq(Nat)
      /\ Len(SubSeq(p, 1, Len(w))) = Len(w)
      /\ \A i \in 1 .. Len(w) : SubSeq(p, 1, Len(w))[i] = p[i]
  BY <1>1, SubSeqProperties, LenProperties, Z3 DEF Bytes
<1> QED
  BY <1>2, SeqEqual DEF StartsWith, Bytes

\* argv: the parameters with their lengths are what was pushed.
LEMMA ArgvIsPushed ==
  ASSUME RedisTypes, CommandKept
  PROVE  argv = pushedWords
<1>1. Len(m_param) \in Nat /\ Len(pushedWords) = Len(m_param)
  BY LenProperties DEF RedisTypes, CommandKept
<1>2. \A k \in 1 .. Len(m_param) : SubSeq(m_param[k], 1, m_len[k]) = pushedWords[k]
  <2> TAKE k \in 1 .. Len(m_param)
  <2>1. m_param[k] \in Bytes /\ pushedWords[k] \in Bytes
    BY <1>1, ElementOfSeq DEF RedisTypes
  <2>2. StartsWith(m_param[k], pushedWords[k]) /\ m_len[k] = Len(pushedWords[k])
    BY DEF CommandKept
  <2> QED
    BY <2>1, <2>2, CutToLength
<1>3. pushedWords = [k \in 1 .. Len(m_param) |-> pushedWords[k]]
  BY <1>1, LenProperties DEF RedisTypes
<1> QED
  BY <1>2, <1>3 DEF argv

\* tostr: redisCommand reads the command up to the first NUL, which is the one
\* behind it, however many tostr has added.
LEMMA UpToTheNul ==
  ASSUME NEW p \in Bytes, NEW w \in Seq(Nat \ {NUL}), StartsWith(p, w),
         \A i \in Len(w) + 1 .. Len(p) : p[i] = NUL
  PROVE  /\ tostr(p) \in Bytes
         /\ StartsWith(tostr(p), w)
         /\ \A i \in Len(w) + 1 .. Len(tostr(p)) : tostr(p)[i] = NUL
         /\ UpToNul(tostr(p)) = w
<1> PICK q : q = tostr(p)
  OBVIOUS
<1>1. Len(p) \in Nat /\ Len(w) \in Nat
  BY LenProperties DEF Bytes
<1>2. /\ q \in Bytes /\ Len(q) = Len(p) + 1
      /\ \A i \in 1 .. Len(p) : q[i] = p[i]
      /\ q[Len(p) + 1] = NUL
  <2>1. NUL \in Nat
    BY DEF NUL
  <2> QED
    BY <2>1, AppendProperties DEF Bytes, tostr
<1>3. StartsWith(q, w)
  BY <1>1, <1>2 DEF StartsWith
<1>4. \A i \in Len(w) + 1 .. Len(q) : q[i] = NUL
  <2> TAKE i \in Len(w) + 1 .. Len(q)
  <2>1. CASE i = Len(p) + 1
    BY <2>1, <1>2
  <2>2. CASE i # Len(p) + 1
    BY <2>2, <1>1, <1>2
  <2> QED
    BY <2>1, <2>2
<1>5. \A i \in 1 .. Len(w) : q[i] # NUL
  <2> TAKE i \in 1 .. Len(w)
  <2>1. w[i] \in Nat \ {NUL}
    BY ElementOfSeq
  <2> QED
    BY <2>1, <1>3 DEF StartsWith
<1>6. Min({k \in 1 .. Len(q) : q[k] = NUL}) = Len(w) + 1
  <2> DEFINE N == {k \in 1 .. Len(q) : q[k] = NUL}
  <2>1. Len(w) + 1 \in N
    BY <1>1, <1>2, <1>4 DEF StartsWith
  <2>2. \A k \in N : k \in Int /\ Len(w) + 1 <= k
    BY <1>1, <1>5
  <2>3. \A k \in N : (\A y \in N : k =< y) => k = Len(w) + 1
    BY <2>1, <2>2, <1>1
  <2> HIDE DEF N
  <2>4. Min(N) \in N /\ \A y \in N : Min(N) =< y
    <3>1. \E x \in N : \A y \in N : x =< y
      BY <2>1, <2>2
    <3> QED
      BY <3>1 DEF Min
  <2>5. Min(N) = Len(w) + 1
    BY <2>3, <2>4
  <2> QED
    BY <2>5 DEF N
<1>7. w \in Bytes
  BY SeqMonotonic DEF Bytes, NUL
<1>8. UpToNul(q) = SubSeq(q, 1, Len(w))
  <2>1. UpToNul(q) = SubSeq(q, 1, (Len(w) + 1) - 1)
    BY <1>6, Zenon DEF UpToNul
  <2>2. (Len(w) + 1) - 1 = Len(w)
    BY <1>1
  <2> QED
    BY <2>1, <2>2, Zenon
<1> QED
  BY <1>2, <1>3, <1>4, <1>7, <1>8, CutToLength

----------------------------------------------------------------------------
(***************************************************************************)
(* RedisClient: the steps                                                  *)
(***************************************************************************)

\* connect, detach and ping leave the command and the reply alone.
LEMMA ContextStep ==
  ASSUME RedisInv, DBInterfaceRedis_connect \/ detach \/ ping
  PROVE  RedisInv'
<1>1. UNCHANGED <<m_param, m_len, pushedWords, reply, pos, readBack, onWire, replies, misused>>
  BY DEF DBInterfaceRedis_connect, detach, ping, commandVars, replyVars
<1>2. m_context' \in {"null", "ok", "err"} /\ broken' \in BOOLEAN /\ NoReconnect'
  <2>1. m_context \in {"null", "ok", "err"} /\ broken \in BOOLEAN /\ NoReconnect
    BY DEF RedisInv, RedisTypes
  <2>2. CASE DBInterfaceRedis_connect
    <3>1. CASE m_context' = "ok" /\ broken' = FALSE
      BY <3>1 DEF NoReconnect
    <3>2. CASE m_context' = "null" /\ broken' = TRUE
      BY <3>2 DEF NoReconnect
    <3> QED
      BY <2>2, <3>1, <3>2 DEF DBInterfaceRedis_connect
  <2>3. CASE detach
    BY <2>3 DEF detach, NoReconnect
  <2>4. CASE ping
    <3>1. CASE UNCHANGED <<m_context, broken>>
      BY <3>1, <2>1 DEF NoReconnect
    <3>2. CASE m_context' = "err" /\ broken' = TRUE
      BY <3>2 DEF NoReconnect
    <3> QED
      BY <2>4, <3>1, <3>2 DEF ping
  <2> QED
    BY <2>2, <2>3, <2>4
<1>3. RedisTypes'
  BY <1>1, <1>2 DEF RedisInv, RedisTypes
<1>4. CommandKept' /\ WireKept'
  BY <1>1 DEF RedisInv, CommandKept, WireKept, SendsWhatWasPushed
<1>5. ReadsTheReply' /\ RepliesFreed' /\ MisusedOnlyBy'
  BY <1>1 DEF RedisInv, ReadsTheReply, Part, RepliesFreed, MisusedOnlyBy
<1> QED
  BY <1>2, <1>3, <1>4, <1>5 DEF RedisInv

\* append: the command and what was sent of it stay where they are.
LEMMA AppendStep ==
  ASSUME RedisInv, misused = "none", NEW w \in Words, append(w)
  PROVE  RedisInv'
<1> USE DEF RedisInv
<1>1. w \in Bytes /\ Len(w) \in Nat
  BY RedisAssumption, LenProperties DEF Bytes
<1>2. Len(m_param) \in Nat /\ Len(m_param) >= 1 /\ Len(m_len) = Len(m_param)
      /\ Len(pushedWords) = Len(m_param)
  BY LenProperties DEF RedisTypes, CommandKept
<1>3. /\ m_param' \in Seq(Bytes) /\ Len(m_param') = Len(m_param) + 1
      /\ \A k \in 1 .. Len(m_param) : m_param'[k] = m_param[k]
      /\ m_param'[Len(m_param) + 1] = w
  BY <1>1, AppendProperties DEF append, RedisTypes
<1>4. /\ m_len' \in Seq(Nat) /\ Len(m_len') = Len(m_param) + 1
      /\ \A k \in 1 .. Len(m_param) : m_len'[k] = m_len[k]
      /\ m_len'[Len(m_param) + 1] = Len(w)
  BY <1>1, <1>2, AppendProperties DEF append, RedisTypes
<1>5. /\ pushedWords' \in Seq(Bytes) /\ Len(pushedWords') = Len(m_param) + 1
      /\ \A k \in 1 .. Len(m_param) : pushedWords'[k] = pushedWords[k]
      /\ pushedWords'[Len(m_param) + 1] = w
  BY <1>1, <1>2, AppendProperties DEF append, RedisTypes
<1>6. UNCHANGED <<m_context, broken, onWire, reply, pos, readBack, replies, misused>>
  BY DEF append, replyVars
<1>7. RedisTypes'
  BY <1>3, <1>4, <1>5, <1>6 DEF RedisTypes
<1>8. CommandKept'
  <2>1. \A k \in 1 .. Len(m_param') :
          m_len'[k] = Len(pushedWords'[k]) /\ StartsWith(m_param'[k], pushedWords'[k])
    <3> TAKE k \in 1 .. Len(m_param')
    <3>1. CASE k = Len(m_param) + 1
      BY <3>1, <1>1, <1>3, <1>4, <1>5 DEF StartsWith
    <3>2. CASE k # Len(m_param) + 1
      <4>1. k \in 1 .. Len(m_param)
        BY <3>2, <1>2, <1>3
      <4> QED
        BY <4>1, <1>3, <1>4, <1>5 DEF CommandKept
    <3> QED
      BY <3>1, <3>2
  <2>2. m_param'[1] = m_param[1] /\ pushedWords'[1] = pushedWords[1]
    BY <1>2, <1>3, <1>5
  <2> QED
    BY <2>1, <2>2, <1>2, <1>3, <1>4, <1>5 DEF CommandKept
<1>9. WireKept'
  <2>1. onWire'.of <= Len(pushedWords') /\ onWire.of <= Len(pushedWords)
    BY <1>2, <1>5, <1>6 DEF WireKept, RedisTypes
  <2>2. SubSeq(pushedWords', 1, onWire.of) = SubSeq(pushedWords, 1, onWire.of)
    BY <2>1, <1>2, <1>5, <1>6, SamePrefix DEF RedisTypes
  <2>3. pushedWords'[1] = pushedWords[1]
    BY <1>2, <1>5
  <2> QED
    BY <2>1, <2>2, <2>3, <1>6 DEF WireKept, SendsWhatWasPushed
<1>10. ReadsTheReply' /\ RepliesFreed' /\ NoReconnect'
  BY <1>6 DEF ReadsTheReply, Part, RepliesFreed, NoReconnect
<1>11. MisusedOnlyBy'
  BY <1>6 DEF MisusedOnlyBy
<1> QED
  BY <1>7, <1>8, <1>9, <1>10, <1>11

\* A part of a reply is a sequence of bytes.
LEMMA PartType ==
  ASSUME RedisTypes, reply # NoReply, NEW k \in Nat, k >= 1,
         reply.kind # "string" => k <= Len(reply.elements)
  PROVE  Part(k) \in Seq(Int) /\ Len(reply.elements) \in Nat
<1>1. reply \in [kind : {"string", "int", "array"}, str : Seq(Nat), elements : Seq(Seq(Int))]
  BY RedisAssumption DEF RedisTypes
<1>2. CASE reply.kind = "string"
  <2>1. reply.str \in Seq(Int)
    BY <1>1, SeqMonotonic
  <2> QED
    BY <2>1, <1>1, <1>2, LenProperties DEF Part
<1>3. CASE reply.kind # "string"
  <2>1. k \in 1 .. Len(reply.elements)
    BY <1>3
  <2>2. reply.elements[k] \in Seq(Int)
    BY <2>1, <1>1, ElementOfSeq
  <2> QED
    BY <2>2, <1>1, <1>3, LenProperties DEF Part
<1> QED
  BY <1>2, <1>3

\* A read that is right for the part at pos goes behind the ones before.
LEMMA ReadNext ==
  ASSUME RedisInv, misused = "none", NEW r \in Reading, read(r), RightRead(r, pos + 1),
         UNCHANGED readVars
  PROVE  RedisInv'
<1> USE DEF RedisInv
<1>1. UNCHANGED <<m_context, m_param, m_len, pushedWords, onWire, reply, replies, broken, misused>>
  BY DEF readVars, commandVars, read
<1>2. Len(readBack) = pos /\ pos \in Nat
  BY DEF ReadsTheReply, RedisTypes
<1>3. /\ readBack' \in Seq(Reading) /\ Len(readBack') = Len(readBack) + 1
      /\ \A k \in 1 .. Len(readBack) : readBack'[k] = readBack[k]
      /\ readBack'[Len(readBack) + 1] = r
  BY AppendProperties DEF RedisTypes, read
<1>4. pos' = pos + 1
  BY DEF read
<1>5. RedisTypes'
  BY <1>1, <1>2, <1>3, <1>4 DEF RedisTypes
<1>6. ReadsTheReply'
  <2>1. \A k \in 1 .. pos : RightRead(readBack[k], k)
    BY DEF ReadsTheReply, RightRead
  <2>2. \A k \in 1 .. pos' : RightRead(readBack'[k], k)
    BY <2>1, <1>2, <1>3, <1>4
  <2>3. \A k \in 1 .. pos' : RightRead(readBack[k], k)'
    BY <2>2, <1>1 DEF RightRead, Part
  <2>4. Len(readBack') = pos'
    BY <1>2, <1>3, <1>4
  <2> QED
    BY <2>3, <2>4 DEF ReadsTheReply, RightRead
<1>7. CommandKept' /\ WireKept' /\ RepliesFreed' /\ NoReconnect'
  BY <1>1 DEF CommandKept, WireKept, SendsWhatWasPushed, RepliesFreed, NoReconnect
<1>8. MisusedOnlyBy'
  BY <1>1 DEF MisusedOnlyBy
<1> QED
  BY <1>5, <1>6, <1>7, <1>8

\* A read that goes astray, for one of the causes there are.
LEMMA Astray ==
  ASSUME RedisInv, NEW w \in {"reply", "element", "nil"}, astray(w),
         UNCHANGED readVars,
         w = "reply" => reply = NoReply,
         w = "element" => reply.kind # "string" /\ pos >= Len(reply.elements),
         w = "nil" => reply.kind # "string" /\ reply.elements[pos + 1] = NilStr
  PROVE  RedisInv'
<1> USE DEF RedisInv
<1>1. UNCHANGED <<m_context, m_param, m_len, pushedWords, onWire, reply, replies, broken, readBack, pos>>
  BY DEF readVars, commandVars, astray
<1>2. RedisTypes' /\ CommandKept' /\ RepliesFreed' /\ NoReconnect'
  BY <1>1 DEF RedisTypes, CommandKept, RepliesFreed, NoReconnect
<1>3. WireKept' /\ ReadsTheReply'
  BY <1>1 DEF WireKept, SendsWhatWasPushed, ReadsTheReply, Part
<1>4. MisusedOnlyBy'
  BY <1>1 DEF MisusedOnlyBy, astray
<1> QED
  BY <1>2, <1>3, <1>4

\* getData reads the next part of the reply, or follows what is no pointer.
LEMMA GetDataStep ==
  ASSUME RedisInv, misused = "none", getData
  PROVE  RedisInv'
<1>1. UNCHANGED readVars /\ pos \in Nat /\ RedisTypes
  BY DEF getData, RedisInv, RedisTypes
<1>2. CASE reply = NoReply
  <2>1. astray("reply")
    BY <1>2 DEF getData
  <2> QED
    BY <2>1, <1>1, <1>2, Astray
<1>3. CASE reply # NoReply /\ reply.kind # "string" /\ pos >= Len(reply.elements)
  <2>1. astray("element")
    BY <1>3 DEF getData
  <2> QED
    BY <2>1, <1>1, <1>3, Astray
<1>4. CASE reply # NoReply /\ ~(reply.kind # "string" /\ pos >= Len(reply.elements))
  <2>1. reply.kind # "string" => pos + 1 <= Len(reply.elements)
    <3>1. reply \in [kind : {"string", "int", "array"}, str : Seq(Nat), elements : Seq(Seq(Int))]
      BY <1>1, <1>4, RedisAssumption DEF RedisTypes
    <3>2. Len(reply.elements) \in Nat
      BY <3>1, LenProperties
    <3> QED
      BY <3>2, <1>1, <1>4
  <2> PICK part \in Seq(Int) : part = Part(pos + 1)
    BY <2>1, <1>1, <1>4, PartType
  <2> PICK v \in Seq(Int) : v = IF part = NilStr THEN << >> ELSE part
    <3>1. << >> \in Seq(Int)
      OBVIOUS
    <3> QED
      BY <3>1
  <2> PICK r \in Reading : r = [how |-> "all", value |-> v]
    BY DEF Reading
  <2>2. read(r)
    BY <1>4 DEF getData
  <2>3. RightRead(r, pos + 1)
    BY <2>1 DEF RightRead
  <2> QED
    BY <2>2, <2>3, <1>1, ReadNext
<1> QED
  BY <1>2, <1>3, <1>4

\* What an operator >> takes of a string is right for its part.
LEMMA Taken ==
  ASSUME NEW s \in Seq(Int), NEW size \in Sizes
  PROVE  /\ taken(size, s) \in Reading
         /\ taken(size, s).how # "all"
         /\ taken(size, s).how = "word" =>
              IF \E i \in 1 .. Len(s) : s[i] \in {SPACE, NUL}
                THEN Len(taken(size, s).value) < Len(s) ELSE taken(size, s).value = s
         /\ taken(size, s).how = "number" => IsPrefix(taken(size, s).value, Append(s, NUL))
         /\ taken(size, s).how = "past" => size > Len(s) + 1
<1>1. size \in Nat /\ Len(s) \in Nat
  BY RedisAssumption, LenProperties
<1>2. CASE size = 0
  <2> PICK v \in Seq(Int) : v = FirstWord(s)
    BY WordOf
  <2>1. taken(size, s) = [how |-> "word", value |-> v]
    BY <1>2 DEF taken
  <2>2. IF \E i \in 1 .. Len(s) : s[i] \in {SPACE, NUL} THEN Len(v) < Len(s) ELSE v = s
    BY WordOf
  <2> QED
    BY <2>1, <2>2 DEF Reading
<1>3. CASE size # 0 /\ size > Len(s) + 1
  <2>1. taken(size, s) = [how |-> "past", value |-> << >>]
    BY <1>3 DEF taken
  <2>2. << >> \in Seq(Int)
    OBVIOUS
  <2> QED
    BY <2>1, <2>2, <1>3 DEF Reading
<1>4. CASE size # 0 /\ ~(size > Len(s) + 1)
  <2> PICK t : t = Append(s, NUL)
    OBVIOUS
  <2>1. t \in Seq(Int) /\ Len(t) = Len(s) + 1
    BY AppendProperties DEF NUL
  <2>2. /\ SubSeq(t, 1, size) \in Seq(Int) /\ Len(SubSeq(t, 1, size)) = size
        /\ \A i \in 1 .. size : SubSeq(t, 1, size)[i] = t[i]
    <3>1. \A i \in 1 .. size : t[i] \in Int
      BY <2>1, <1>1, <1>4, ElementOfSeq
    <3> QED
      BY <3>1, <1>1, <1>4, SubSeqProperties, Z3
  <2>3. IsPrefix(SubSeq(t, 1, size), t)
    <3>1. /\ Len(SubSeq(t, 1, size)) <= Len(t)
          /\ \A k \in 1 .. Len(SubSeq(t, 1, size)) : SubSeq(t, 1, size)[k] = t[k]
      BY <2>1, <2>2, <1>1, <1>4
    <3> QED
      BY <3>1, <2>1, <2>2, PrefixByElements
  <2>4. taken(size, s) = [how |-> "number", value |-> SubSeq(t, 1, size)]
    BY <1>4 DEF taken
  <2>5. PICK v \in Seq(Int) : v = SubSeq(t, 1, size) /\ IsPrefix(v, t)
    BY <2>2, <2>3
  <2>6. taken(size, s) = [how |-> "number", value |-> v] /\ IsPrefix(v, Append(s, NUL))
    BY <2>4, <2>5
  <2> QED
    BY <2>6 DEF Reading
<1> QED
  BY <1>1, <1>2, <1>3, <1>4

\* operator>> reads the next part of the reply, as a word or a number.
LEMMA ExtractStep ==
  ASSUME RedisInv, misused = "none", NEW size \in Sizes, extract(size)
  PROVE  RedisInv'
<1>1. UNCHANGED readVars /\ pos \in Nat /\ RedisTypes
  BY DEF extract, RedisInv, RedisTypes
<1>2. CASE reply = NoReply
  <2>1. astray("reply")
    BY <1>2 DEF extract
  <2> QED
    BY <2>1, <1>1, <1>2, Astray
<1>3. CASE reply # NoReply
  <2>1. reply \in [kind : {"string", "int", "array"}, str : Seq(Nat), elements : Seq(Seq(Int))]
    BY <1>1, <1>3, RedisAssumption DEF RedisTypes
  <2>2. pos < getRowCount /\ Len(reply.elements) \in Nat
    BY <2>1, <1>3, LenProperties DEF extract
  <2>3. /\ reply.kind # "string" => pos + 1 <= Len(reply.elements)
        /\ reply.kind = "string" => pos + 1 = 1
    BY <2>2, <1>1 DEF getRowCount
  <2> PICK part \in Seq(Int) : part = Part(pos + 1)
    BY <2>3, <1>1, <1>3, PartType
  <2>4. CASE part = NilStr
    <3>1. astray("nil")
      BY <2>4, <1>3 DEF extract
    <3>2. CASE reply.kind # "string"
      <4>1. reply.elements[pos + 1] = NilStr
        BY <3>2, <2>4 DEF Part
      <4> QED
        BY <3>1, <3>2, <4>1, <1>1, Astray
    <3>3. CASE reply.kind = "string"
      <4>1. reply.str # NilStr
        <5>1. NilStr[1] = -1 /\ Len(NilStr) = 1
          BY DEF NilStr
        <5>2. ASSUME NilStr \in Seq(Nat) PROVE FALSE
          <6>1. 1 \in 1 .. Len(NilStr)
            BY <5>1
          <6>2. NilStr[1] \in Nat
            BY <5>2, <6>1, ElementOfSeq
          <6> QED
            BY <5>1, <6>2
        <5> QED
          BY <2>1, <5>2
      <4> QED
        BY <4>1, <3>3, <2>4 DEF Part
    <3> QED
      BY <3>2, <3>3
  <2>5. CASE part # NilStr
    <3> PICK r \in Reading :
          /\ r = taken(size, part) /\ r.how # "all"
          /\ r.how = "word" =>
               IF \E i \in 1 .. Len(part) : part[i] \in {SPACE, NUL}
                 THEN Len(r.value) < Len(part) ELSE r.value = part
          /\ r.how = "number" => IsPrefix(r.value, Append(part, NUL))
          /\ r.how = "past" => size > Len(part) + 1
      BY Taken
    <3>1. read(r)
      BY <2>5, <1>3 DEF extract
    <3>2. RightRead(r, pos + 1)
      BY <2>3, <2>5 DEF RightRead
    <3> QED
      BY <3>1, <3>2, <1>1, ReadNext
  <2> QED
    BY <2>4, <2>5
<1> QED
  BY <1>2, <1>3

\* execute sends the command as it was pushed, and leaves it so that it can be
\* sent again.
LEMMA SendsCommand ==
  ASSUME RedisTypes, CommandKept, execute
  PROVE  /\ Len(pushedWords) >= 1 /\ Len(m_param) = Len(pushedWords)
         /\ Len(m_param) = 1 => UpToNul(tostr(m_param[1])) = pushedWords[1]
         /\ m_param' \in Seq(Bytes)
         /\ CommandKept'
<1>1. UNCHANGED <<m_len, pushedWords>>
  BY DEF execute
<1>2. CASE Len(m_param) > 1
  <2>1. m_param' = m_param
    BY <1>2 DEF execute
  <2> QED
    <3>0. Len(m_param) \in Nat /\ Len(m_param) = Len(pushedWords)
      <4>1. m_param \in Seq(Bytes) /\ Len(m_param) = Len(pushedWords)
        BY DEF RedisTypes, CommandKept
      <4> QED
        BY <4>1, LenProperties
    <3>1. Len(m_param) # 1
      BY <1>2, <3>0
    <3>2. CommandKept'
      BY <1>1, <2>1 DEF CommandKept
    <3> QED
      BY <3>0, <3>1, <3>2, <1>2, <2>1 DEF RedisTypes
<1>3. CASE ~(Len(m_param) > 1)
  <2>1. Len(m_param) = 1 /\ Len(pushedWords) = 1 /\ Len(m_len) = 1
    BY <1>3, LenProperties DEF RedisTypes, CommandKept
  <2> PICK p \in Bytes, w \in Seq(Nat \ {NUL}) :
          p = m_param[1] /\ w = pushedWords[1] /\ m_len[1] = Len(w) /\ StartsWith(p, w)
          /\ \A i \in Len(w) + 1 .. Len(p) : p[i] = NUL
    <3>3. 1 \in 1 .. Len(m_param)
      BY <2>1
    <3>1. m_param[1] \in Bytes
      BY <3>3, ElementOfSeq, Zenon DEF RedisTypes
    <3>2. pushedWords[1] \in Seq(Nat \ {NUL})
      BY RedisAssumption DEF CommandKept
    <3>4. m_len[1] = Len(pushedWords[1]) /\ StartsWith(m_param[1], pushedWords[1])
      BY <3>3 DEF CommandKept
    <3> QED
      BY <3>1, <3>2, <3>4 DEF CommandKept
  <2>2. m_param' = <<tostr(p)>>
    BY <1>3 DEF execute
  <2> PICK q \in Bytes : q = tostr(p) /\ StartsWith(q, w) /\ UpToNul(q) = w
                         /\ \A i \in Len(w) + 1 .. Len(q) : q[i] = NUL
    BY UpToTheNul
  <2>3. m_param' = <<q>>
    BY <2>2
  <2>5. m_param' \in Seq(Bytes)
    BY <2>3
  <2>6. CommandKept'
    <3>1. Len(m_param') = 1 /\ m_param'[1] = q /\ pushedWords'[1] = w /\ m_len'[1] = Len(w)
          /\ Len(m_len') = 1 /\ Len(pushedWords') = 1
      BY <1>1, <2>1, <2>3
    <3>2. \A k \in 1 .. Len(m_param') :
            m_len'[k] = Len(pushedWords'[k]) /\ StartsWith(m_param'[k], pushedWords'[k])
      BY <3>1
    <3>3. pushedWords'[1] \in Commands
      BY <1>1 DEF CommandKept
    <3>4. \A i \in Len(pushedWords'[1]) + 1 .. Len(m_param'[1]) : m_param'[1][i] = NUL
      BY <3>1
    <3> QED
      BY <3>1, <3>2, <3>3, <3>4 DEF CommandKept
  <2> QED
    BY <2>1, <2>5, <2>6
<1> QED
  BY <1>2, <1>3

\* setResult takes a reply, or the result is left without one.
LEMMA ReplaceStep ==
  ASSUME RedisInv, NEW r \in Replies \cup {NoReply}, replace(r)
  PROVE  /\ reply' \in Replies \cup {NoReply} /\ readBack' \in Seq(Reading) /\ pos' \in Nat
         /\ ReadsTheReply' /\ RepliesFreed'
<1>1. reply' = r /\ pos' = 0 /\ readBack' = << >>
  BY DEF replace
<1>2. replies' = IF r = NoReply THEN 0 ELSE 1
  BY DEF replace, RedisInv, RepliesFreed
<1>3. RepliesFreed'
  BY <1>1, <1>2 DEF RepliesFreed
<1>4. ReadsTheReply'
  BY <1>1 DEF ReadsTheReply
<1> QED
  BY <1>1, <1>3, <1>4

\* A failed execution has no reply, and breaks the connection.
LEMMA FailStep ==
  ASSUME RedisInv, fail
  PROVE  /\ reply' \in Replies \cup {NoReply} /\ readBack' \in Seq(Reading) /\ pos' \in Nat
         /\ ReadsTheReply' /\ RepliesFreed'
         /\ m_context' \in {"null", "ok", "err"} /\ broken' \in BOOLEAN /\ NoReconnect'
<1>1. replace(NoReply) /\ NoReply \in Replies \cup {NoReply}
  BY DEF fail
<1>2. m_context' = "err" /\ broken' = TRUE
  BY DEF fail
<1>3. m_context' \in {"null", "ok", "err"} /\ broken' \in BOOLEAN /\ NoReconnect'
  BY <1>2 DEF NoReconnect
<1> QED
  BY <1>1, <1>3, ReplaceStep

\* execute: the command is sent and its reply is read, or it holds a conversion.
LEMMA ExecuteStep ==
  ASSUME RedisInv, misused = "none", execute
  PROVE  RedisInv'
<1> USE DEF RedisInv
<1>1. /\ Len(pushedWords) >= 1 /\ Len(m_param) = Len(pushedWords)
      /\ Len(m_param) = 1 => UpToNul(tostr(m_param[1])) = pushedWords[1]
      /\ m_param' \in Seq(Bytes) /\ CommandKept'
  BY SendsCommand
<1>2. UNCHANGED <<m_len, pushedWords>>
  BY DEF execute
<1> PICK n \in Nat : n = Len(m_param) /\ n = Len(pushedWords)
  BY <1>1, LenProperties DEF RedisTypes
<1> DEFINE convert == n = 1 /\ Converts(UpToNul(tostr(m_param[1])))
<1>3. CASE convert
  <2>1. onWire' = onWire
    BY <1>3 DEF execute
  <2>2. WireKept'
    BY <2>1, <1>2 DEF WireKept, SendsWhatWasPushed
  <2>3. CASE misused' = "format" /\ UNCHANGED <<last, m_context, broken, replies, replyVars>>
    <3>1. UNCHANGED <<m_context, broken, replies, reply, pos, readBack>>
      BY <2>3 DEF replyVars
    <3>2. RedisTypes'
      BY <3>1, <2>1, <1>1, <1>2 DEF RedisTypes
    <3>3. ReadsTheReply' /\ RepliesFreed' /\ NoReconnect'
      BY <3>1 DEF ReadsTheReply, Part, RepliesFreed, NoReconnect
    <3>4. MisusedOnlyBy'
      BY <2>3, <1>1, <1>2, <1>3 DEF MisusedOnlyBy
    <3> QED
      BY <3>2, <3>3, <3>4, <2>2, <1>1
  <2>4. CASE fail /\ UNCHANGED misused
    <3>1. /\ reply' \in Replies \cup {NoReply} /\ readBack' \in Seq(Reading) /\ pos' \in Nat
          /\ ReadsTheReply' /\ RepliesFreed'
          /\ m_context' \in {"null", "ok", "err"} /\ broken' \in BOOLEAN /\ NoReconnect'
      BY <2>4, FailStep
    <3>2. RedisTypes'
      BY <3>1, <2>1, <1>1, <1>2 DEF RedisTypes
    <3>3. MisusedOnlyBy'
      BY <2>4 DEF MisusedOnlyBy
    <3> QED
      BY <3>1, <3>2, <3>3, <2>2, <1>1
  <2> QED
    BY <2>3, <2>4, <1>3 DEF execute
<1>4. CASE ~convert
  <2> DEFINE words == IF n > 1 THEN argv ELSE Formatted(UpToNul(tostr(m_param[1])))
  <2>1. onWire' = [of |-> n, words |-> words] /\ UNCHANGED misused
    BY <1>4 DEF execute
  <2>2. WireKept'
    <3>1. n > 1 => words = SubSeq(pushedWords, 1, n)
      <4>1. argv = pushedWords
        BY ArgvIsPushed
      <4>2. SubSeq(pushedWords, 1, n) = pushedWords
        BY SubSeqFull DEF RedisTypes
      <4> QED
        BY <4>1, <4>2
    <3>2. n = 1 => words = Formatted(pushedWords[1])
      BY <1>1
    <3> HIDE DEF words
    <3>3. onWire'.of = n /\ onWire'.words = words
      BY <2>1
    <3> QED
      BY <3>1, <3>2, <3>3, <1>2 DEF WireKept, SendsWhatWasPushed
  <2>3. /\ reply' \in Replies \cup {NoReply} /\ readBack' \in Seq(Reading) /\ pos' \in Nat
        /\ ReadsTheReply' /\ RepliesFreed'
        /\ m_context' \in {"null", "ok", "err"} /\ broken' \in BOOLEAN /\ NoReconnect'
    <3>1. CASE fail
      BY <3>1, FailStep
    <3>2. CASE UNCHANGED <<m_context, broken>> /\ \E r \in Replies : replace(r)
      <4>1. m_context' \in {"null", "ok", "err"} /\ broken' \in BOOLEAN /\ NoReconnect'
        BY <3>2 DEF RedisTypes, NoReconnect
      <4> QED
        BY <3>2, <4>1, ReplaceStep
    <3> QED
      BY <3>1, <3>2, <1>4 DEF execute
  <2>4. RedisTypes'
    <3>1. onWire'.of \in Nat
      BY <2>1
    <3> QED
      BY <3>1, <2>3, <1>1, <1>2 DEF RedisTypes
  <2>5. MisusedOnlyBy'
    BY <2>1 DEF MisusedOnlyBy
  <2> QED
    BY <2>2, <2>3, <2>4, <2>5, <1>1
<1> QED
  BY <1>3, <1>4

\* A redis command with parameters goes out as it was pushed and a lone one as
\* the words redisCommand makes of it, however often it is executed and whatever
\* is pushed in between; its reply is read in order, whole by getData and up to a
\* blank by operator>>, and freed once; memory is misused for the named causes
\* only; and after a failure no execution succeeds (DBInterfaceRedis,
\* RedisCommand, RedisResult).
THEOREM RedisIsSound == RedisSpec => []RedisSound
<1>1. RedisInit => RedisInv
  <2> SUFFICES ASSUME RedisInit PROVE RedisInv
    OBVIOUS
  <2> PICK w \in Commands : m_param = <<w>> /\ m_len = <<Len(w)>> /\ pushedWords = <<w>>
    BY DEF RedisInit
  <2>1. w \in Bytes /\ Len(w) \in Nat
    BY RedisAssumption, SeqMonotonic, LenProperties DEF Bytes
  <2>2. m_context = "null" /\ onWire.of = 0 /\ reply = NoReply /\ pos = 0 /\ readBack = << >>
        /\ replies = 0 /\ broken = FALSE /\ misused = "none"
    BY DEF RedisInit
  <2>3. RedisTypes
    <3>1. m_param \in Seq(Bytes) /\ m_len \in Seq(Nat) /\ pushedWords \in Seq(Bytes)
      BY <2>1
    <3>2. onWire.of \in Nat /\ readBack \in Seq(Reading)
      BY <2>2
    <3>3. broken \in BOOLEAN /\ pos \in Nat
      BY <2>2
    <3> QED
      BY <2>2, <3>1, <3>2, <3>3 DEF RedisTypes
  <2>4. CommandKept
    BY <2>1 DEF CommandKept, StartsWith
  <2>5. WireKept
    <3>1. Len(pushedWords) = 1
      OBVIOUS
    <3> QED
      BY <2>2, <3>1 DEF WireKept, SendsWhatWasPushed
  <2>6. ReadsTheReply
    BY <2>2 DEF ReadsTheReply
  <2>7. RepliesFreed /\ NoReconnect /\ MisusedOnlyBy
    BY <2>2 DEF RepliesFreed, NoReconnect, MisusedOnlyBy
  <2> QED
    BY <2>3, <2>4, <2>5, <2>6, <2>7 DEF RedisInv
<1>2. RedisInv /\ [RedisNext]_redisVars => RedisInv'
  <2> SUFFICES ASSUME RedisInv, [RedisNext]_redisVars PROVE RedisInv'
    OBVIOUS
  <2>1. CASE DBInterfaceRedis_connect \/ detach \/ ping
    BY <2>1, ContextStep
  <2>2. CASE misused = "none" /\ execute
    BY <2>2, ExecuteStep
  <2>3. CASE misused = "none" /\ getData
    BY <2>3, GetDataStep
  <2>4. ASSUME misused = "none", NEW w \in Words, append(w) PROVE RedisInv'
    BY <2>4, AppendStep
  <2>6. ASSUME misused = "none", NEW size \in Sizes, extract(size) PROVE RedisInv'
    BY <2>6, ExtractStep
  <2>5. CASE UNCHANGED redisVars
    <3> USE <2>5 DEF redisVars
    <3>1. RedisTypes' /\ CommandKept'
      BY DEF RedisInv, RedisTypes, CommandKept
    <3>2. WireKept' /\ RepliesFreed' /\ NoReconnect'
      BY DEF RedisInv, WireKept, SendsWhatWasPushed, RepliesFreed, NoReconnect
    <3>3. ReadsTheReply' /\ MisusedOnlyBy'
      BY DEF RedisInv, ReadsTheReply, Part, MisusedOnlyBy
    <3> QED
      BY <3>1, <3>2, <3>3 DEF RedisInv
  <2> QED
    BY <2>1, <2>2, <2>3, <2>4, <2>5, <2>6 DEF RedisNext
<1>3. RedisInv => RedisSound
  BY DEF RedisInv, WireKept, RedisSound
<1> QED
  BY <1>1, <1>2, <1>3, PTL DEF RedisSpec
=============================================================================
