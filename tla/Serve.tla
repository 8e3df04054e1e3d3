-------------------------------- MODULE Serve --------------------------------
(***************************************************************************)
(* `aetronyx serve`: the HTTP server around the event bus, from binding    *)
(* the port to the end of the process.  A request passes the logging and   *)
(* authentication middleware and is an SSE stream of the bus or becomes a  *)
(* WebSocket, with its main loop and its reader goroutine.  A signal       *)
(* starts a graceful shutdown that waits ten seconds for the streams,      *)
(* which their clients or ReadTimeout end, but not for WebSockets, whose   *)
(* connections are hijacked.                                               *)
(*                                                                         *)
(* net/http is external and modelled from how serve uses it.               *)
(***************************************************************************)
EXTENDS EventBus

VARIABLES
  main,      \* where serveCmd is
  listener,  \* what ListenAndServe has done
  plain,     \* the handlers get net/http's own writer, which flushes and can be
             \* hijacked, as in the tests; New gives them LoggingMiddleware's
  request,   \* handler |-> its request
  socket     \* handler |-> [main, reader]: the goroutines of a WebSocket

serve     == <<main, listener>>
requests  == <<request, socket>>
serveVars == <<vars, serve, plain, requests>>

ServeInit ==
  /\ Init
  /\ main = "starting" /\ listener = "binding"
  /\ plain \in BOOLEAN
  /\ request = [h \in Handlers |-> "none"]
  /\ socket = [h \in Handlers |-> [main |-> "none", reader |-> "none"]]

IdleBus == UNCHANGED <<bus, clients, calls>>

\* Requests that Shutdown waits for: accepted, not answered and not hijacked.
Active == {h \in Handlers : request[h] = "active" /\ stream[h].at # "returned"}

-----------------------------------------------------------------------------
(* The server goroutine: Start, ListenAndServe                             *)

\* The port is bound, unless Shutdown came first; or it cannot be, and Start
\* returns the error.
Bind ==
  /\ listener = "binding"
  /\ listener' = IF main = "draining" THEN "closed" ELSE "open"
  /\ IdleBus /\ UNCHANGED <<main, plain, requests>> /\ Alive

BindFails ==
  /\ listener = "binding" /\ listener' = "error"
  /\ IdleBus /\ UNCHANGED <<main, plain, requests>> /\ Alive

Accept(h) ==
  /\ listener = "open" /\ request[h] = "none"
  /\ request' = [request EXCEPT ![h] = "active"]
  /\ IdleBus /\ UNCHANGED <<serve, plain, socket>> /\ Alive

-----------------------------------------------------------------------------
(* serveCmd                                                                *)

\* SIGINT or SIGTERM before signal.Notify.
Killed ==
  /\ main = "starting" /\ process = "up" /\ process' = "killed"
  /\ IdleBus /\ UNCHANGED <<serve, plain, requests>>

Notify ==
  /\ main = "starting" /\ main' = "select"
  /\ IdleBus /\ UNCHANGED <<listener, plain, requests>> /\ Alive

\* The select: the server's error, or the signal.
ServerError ==
  /\ main = "select" /\ listener = "error"
  /\ process = "up" /\ process' = "failed"
  /\ IdleBus /\ UNCHANGED <<serve, plain, requests>>

\* A signal, which waits in sigChan until the select takes it.  Shutdown closes
\* the listener first.
BeginShutdown ==
  /\ main = "select" /\ main' = "draining"
  /\ listener' = IF listener = "open" THEN "closed" ELSE listener
  /\ IdleBus /\ UNCHANGED <<plain, requests>> /\ Alive

\* Shutdown returns nil and serve exits with 0.
Drained ==
  /\ main = "draining" /\ Active = {}
  /\ process = "up" /\ process' = "stopped"
  /\ IdleBus /\ UNCHANGED <<serve, plain, requests>>

\* Mutant of DrainTimesOut: Shutdown waits for ever.
DrainWaits == FALSE /\ UNCHANGED serveVars

\* The ten seconds are over: serve returns the error.
DrainTimesOut ==
  /\ main = "draining" /\ Active # {}
  /\ process = "up" /\ process' = "failed"
  /\ IdleBus /\ UNCHANGED <<serve, plain, requests>>

-----------------------------------------------------------------------------
(* Handlers                                                                *)

\* StreamRun, which panics before it subscribes when the writer is not a
\* Flusher; RecoveryMiddleware answers 500.
StreamRun(h) ==
  /\ request[h] = "active"
  /\ plain \/ stream[h].at # "start"
  /\ Stream(h)
  /\ UNCHANGED <<serve, plain, requests>>

\* A token that is not ours, the panic of StreamRun, an Upgrade without a
\* Hijacker or from an Origin that is not local: an error response.
RefuseHandler(h) ==
  /\ request[h] = "active" /\ stream[h].at = "start"
  /\ request' = [request EXCEPT ![h] = "over"]
  /\ IdleBus /\ UNCHANGED <<serve, plain, socket>> /\ Alive

Upgrade(h) ==
  /\ request[h] = "active" /\ stream[h].at = "start" /\ plain
  /\ request' = [request EXCEPT ![h] = "hijacked"]
  /\ socket' = [socket EXCEPT ![h] = [main |-> "loop", reader |-> "reading"]]
  /\ IdleBus /\ UNCHANGED <<serve, plain>> /\ Alive

\* wsReadLoop ends: the client has gone, its connection was closed here, or no
\* pong came for 40 seconds.
ReadEnds(h) ==
  /\ socket[h].reader = "reading"
  /\ socket' = [socket EXCEPT ![h].reader = "done"]
  /\ IdleBus /\ UNCHANGED <<serve, plain, request>> /\ Alive

\* The main loop sees readDone closed, or a ping fails; it closes the connection.
SocketReturns(h) ==
  /\ socket[h].main = "loop" /\ (socket[h].reader = "done" \/ h \in gone)
  /\ socket' = [socket EXCEPT ![h].main = "returned"]
  /\ IdleBus /\ UNCHANGED <<serve, plain, request>> /\ Alive

\* A client goes, while something can still notice: the select of a stream, or
\* the goroutines of a socket.
Leave(h) ==
  /\ \/ request[h] = "active" /\ stream[h].at \in {"start", "select"}
     \/ socket[h].main = "loop" \/ socket[h].reader = "reading"
  /\ Disconnect(h) /\ UNCHANGED <<serve, plain, requests>>

\* Runs publish once the server is up (nothing in the repository does yet).
Publish(p) ==
  /\ \/ Copy(p) /\ main # "starting" /\ listener # "binding"
     \/ Continue(p) \/ Panic(p)
  /\ UNCHANGED <<serve, plain, requests>>

-----------------------------------------------------------------------------
ServeNext ==
  \/ Bind \/ BindFails \/ Killed \/ Notify \/ ServerError
  \/ BeginShutdown \/ Drained \/ DrainTimesOut
  \/ \E h \in Handlers : \/ Accept(h) \/ StreamRun(h) \/ RefuseHandler(h)
                         \/ Upgrade(h) \/ ReadEnds(h) \/ SocketReturns(h)
                         \/ Leave(h)
  \/ \E p \in Publishers : Publish(p)

ServeSpec == ServeInit /\ [][ServeNext]_serveVars

\* What each goroutine does when it need not wait for a client: the publishers,
\* the handlers, the readers of the sockets, serveCmd and the server.
GoOn(p) == (Continue(p) \/ Panic(p)) /\ UNCHANGED <<serve, plain, requests>>

Handle(h) ==
  \/ /\ request[h] = "active" /\ (plain \/ stream[h].at # "start")
     /\ Subscribe(h) \/ Done(h) \/ Unsubscribe(h)
     /\ UNCHANGED <<serve, plain, requests>>
  \/ RefuseHandler(h) \/ Upgrade(h)
  \/ socket[h].reader = "done" /\ SocketReturns(h)

Read(h) == ReadEnds(h) /\ (h \in gone \/ socket[h].main = "returned")

Main == Notify \/ ServerError \/ Drained \/ DrainTimesOut

\* Goroutines go on while they can; a port that is tried is bound or refused.
\* Clients need do nothing: one that has gone sends no pong, and a connection
\* that is closed here fails its reader.
ServeFairness ==
  /\ WF_serveVars(Bind \/ BindFails) /\ WF_serveVars(Main)
  /\ \A p \in Publishers : WF_serveVars(GoOn(p))
  /\ \A h \in Handlers : WF_serveVars(Handle(h)) /\ WF_serveVars(Read(h))

ServeFairSpec == ServeSpec /\ ServeFairness

-----------------------------------------------------------------------------
ServeTypeOK ==
  /\ TypeOK
  /\ main \in {"starting", "select", "draining"}
  /\ listener \in {"binding", "open", "closed", "error"}
  /\ plain \in BOOLEAN
  /\ request \in [Handlers -> {"none", "active", "hijacked", "over"}]
  /\ socket \in [Handlers -> [main : {"none", "loop", "returned"},
                              reader : {"none", "reading", "done"}]]

\* A signal ends the process, whatever streams and sockets are open and however
\* long their clients stay (Shutdown: "with a 10-second timeout").
ShutdownEnds == main = "draining" ~> process # "up"

\* The goroutines of a WebSocket both end when its client has gone.
SocketsEnd ==
  \A h \in Handlers :
    (h \in gone /\ request[h] = "hijacked") ~>
       (socket[h] = [main |-> "returned", reader |-> "done"] \/ process # "up")

\* A handler whose client has gone before or after it began leaves the bus, also
\* without the help of a read deadline.
StreamsEnd ==
  \A h \in Handlers : (h \in gone /\ h \in Active) ~> (h \notin Active \/ process # "up")

\* Nobody waits for anybody else: a publisher for a slow subscriber, a handler
\* for a publisher, a socket's goroutines for each other.
NobodyIsHeldUp == PublishReturns /\ StreamsEnd /\ SocketsEnd
=============================================================================
