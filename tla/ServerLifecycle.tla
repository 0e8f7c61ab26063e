-------------------------- MODULE ServerLifecycle --------------------------
(***************************************************************************)
(* Start and end of the server: TcpServer::run (src/server/TcpServer.cpp)  *)
(* on the main thread, the thread of src/http/HttpServer.cpp it starts and *)
(* stops, the worker pool, and signals.                                    *)
(*                                                                         *)
(* An exception in run() unwinds its objects: the pool first (its          *)
(* destructor stops it), then the HTTP server (its destructor calls        *)
(* stop()).  After a shutdown the same destructors run, too.               *)
(***************************************************************************)
EXTENDS Naturals

VARIABLES
  main,      \* where run() is
  failing,   \* it is left by an exception
  graceful,  \* "LMonitor Server stopped gracefully" was logged
  masked,    \* SIGINT and SIGTERM are blocked in the main thread
  unread,    \* one of them waits in the signalfd
  killed,    \* one of them took its default action
  workers,   \* the pool's threads exist
  http,      \* where HttpServer::run is
  running,   \* running_
  listenFd,  \* listenFd_ >= 0
  socket,    \* the listening socket: "none", "plain", "listening", "shut", "closed"
  client     \* the HTTP client: "none", "silent" (neither sends nor reads),
             \* "asking" (sends and reads), "gone"

serverVars == <<main, failing, graceful, masked, unread, killed, workers, http,
                running, listenFd, socket, client>>
mainVars == <<main, failing, graceful, masked, workers>>
signalVars == <<unread, killed>>
httpVars == <<http, running, listenFd, socket>>

StartSteps == {"startHttp", "createPool", "blockSignals", "listen"}
StopSteps == {"stopFlag", "shutdown", "close", "join", "finish", "stopPool"}

ServerInit ==
  /\ main = "startHttp"
  /\ failing = FALSE /\ graceful = FALSE /\ masked = FALSE
  /\ unread = FALSE /\ killed = FALSE
  /\ workers = FALSE
  /\ http = "none"
  /\ running = FALSE
  /\ listenFd = FALSE
  /\ socket = "none"
  /\ client = "none"

-----------------------------------------------------------------------------
(* run(): the HTTP server, the workers, then the signal mask, then the     *)
(* listening socket of the agents, then the loop.                          *)
StartHttp ==
  /\ main = "startHttp"
  /\ running' = TRUE
  /\ http' = "socket"
  /\ main' = "createPool"
  /\ UNCHANGED <<failing, graceful, masked, workers, signalVars, listenFd,
                 socket, client>>

CreatePool ==
  /\ main = "createPool"
  /\ workers' = TRUE
  /\ main' = "blockSignals"
  /\ UNCHANGED <<failing, graceful, masked, signalVars, httpVars, client>>

BlockSignals ==
  /\ main = "blockSignals"
  /\ masked' = TRUE
  /\ main' = "listen"
  /\ UNCHANGED <<failing, graceful, workers, signalVars, httpVars, client>>

Listen ==
  /\ main = "listen"
  /\ main' = "looping"
  /\ UNCHANGED <<failing, graceful, masked, workers, signalVars, httpVars, client>>

(* A thread, a descriptor or the port cannot be had, or a callback or      *)
(* epoll_wait throws in the loop.  HttpServer::start() has set running_    *)
(* when it fails to create its thread.                                     *)
Throw ==
  /\ main \in StartSteps \cup {"looping"}
  /\ failing' = TRUE
  /\ running' = (running \/ main = "startHttp")
  /\ main' = IF workers THEN "stopPool" ELSE "stopFlag"
  /\ UNCHANGED <<graceful, masked, workers, signalVars, http, listenFd, socket,
                 client>>

(* The signal callback reads the signalfd and quits the loop.              *)
ReadSignal ==
  /\ main = "looping"
  /\ unread
  /\ unread' = FALSE
  /\ main' = "stopFlag"
  /\ UNCHANGED <<failing, graceful, masked, workers, killed, httpVars, client>>

-----------------------------------------------------------------------------
(* Operators named Mutant... are not part of the program: each is the one  *)
(* after with one plausible slip, and makes one property below fail.       *)

(* stop() that returns at once if running_ is already false.               *)
MutantStopFlagReturns ==
  /\ main = "stopFlag"
  /\ running' = FALSE
  /\ main' = IF running THEN "shutdown"
             ELSE IF workers THEN "finish" ELSE "over"
  /\ UNCHANGED <<failing, graceful, masked, workers, signalVars, http,
                 listenFd, socket, client>>

(* HttpServer::stop(): running_ first, then the socket, then join.         *)
StopFlag ==
  /\ main = "stopFlag"
  /\ running' = FALSE
  /\ main' = "shutdown"
  /\ UNCHANGED <<failing, graceful, masked, workers, signalVars, http,
                 listenFd, socket, client>>

(* shutdown has no effect on a socket that does not listen yet; there may  *)
(* be none at all.                                                         *)
Shutdown ==
  /\ main = "shutdown"
  /\ \/ ~listenFd /\ main' = "join" /\ UNCHANGED socket
     \/ /\ listenFd /\ main' = "close"
        /\ socket' = IF socket = "listening" THEN "shut" ELSE socket
  /\ UNCHANGED <<failing, graceful, masked, workers, signalVars, http, running,
                 listenFd, client>>

(* stop() without listenFd_ = -1: the second stop() closes the number again. *)
MutantCloseKeepsNumber ==
  /\ main = "close"
  /\ socket' = IF socket = "listening" /\ http = "accept" THEN socket ELSE "closed"
  /\ main' = "join"
  /\ UNCHANGED <<failing, graceful, masked, workers, signalVars, http, running,
                 listenFd, client>>

(* A listening socket stays alive for an accept4 that blocks on it.        *)
Close ==
  /\ main = "close"
  /\ socket' = IF socket = "listening" /\ http = "accept" THEN socket ELSE "closed"
  /\ listenFd' = FALSE
  /\ main' = "join"
  /\ UNCHANGED <<failing, graceful, masked, workers, signalVars, http, running,
                 client>>

(* stop() is called at shutdown and again by the destructor, the second    *)
(* time without a thread to join.                                          *)
Join ==
  /\ main = "join"
  /\ http \in {"none", "ended", "joined"}
  /\ http' = IF http = "ended" THEN "joined" ELSE http
  /\ main' = IF workers THEN "finish" ELSE "over"
  /\ UNCHANGED <<failing, graceful, masked, workers, signalVars, running,
                 listenFd, socket, client>>

(* Timer and signal channels removed, the last line logged.                *)
Finish ==
  /\ main = "finish"
  /\ graceful' = TRUE
  /\ main' = "stopPool"
  /\ UNCHANGED <<failing, masked, workers, signalVars, httpVars, client>>

StopPool ==
  /\ main = "stopPool"
  /\ workers' = FALSE
  /\ main' = "stopFlag"
  /\ UNCHANGED <<failing, graceful, masked, signalVars, httpVars, client>>

-----------------------------------------------------------------------------
(* HttpServer::run().                                                      *)
HttpEnds == http' = "ended" /\ running' = FALSE

CreateSocket ==
  /\ http = "socket"
  /\ \/ http' = "bind" /\ listenFd' = TRUE /\ socket' = "plain" /\ UNCHANGED running
     \/ HttpEnds /\ UNCHANGED <<listenFd, socket>>
  /\ UNCHANGED <<mainVars, signalVars, client>>

(* bind and listen: the port may be taken, the descriptor closed.          *)
Bind ==
  /\ http = "bind"
  /\ \/ socket = "plain" /\ socket' = "listening" /\ http' = "test" /\ UNCHANGED running
     \/ HttpEnds /\ UNCHANGED socket
  /\ UNCHANGED <<mainVars, signalVars, listenFd, client>>

(* accept4 in a loop that does not look at running_.                       *)
MutantTestNot ==
  /\ http = "test"
  /\ http' = "accept"
  /\ UNCHANGED <<mainVars, signalVars, running, listenFd, socket, client>>

Test ==
  /\ http = "test"
  /\ IF running THEN http' = "accept" /\ UNCHANGED running ELSE HttpEnds
  /\ UNCHANGED <<mainVars, signalVars, listenFd, socket, client>>

(* EINTR leads back to the test, any other error out of the loop: the      *)
(* socket was shut, or ECONNABORTED, EMFILE, ...                           *)
Accept ==
  /\ http = "accept"
  /\ \/ socket = "listening" /\ client # "none" /\ http' = "client" /\ UNCHANGED running
     \/ socket = "listening" /\ http' = "test" /\ UNCHANGED running
     \/ HttpEnds
  /\ UNCHANGED <<mainVars, signalVars, listenFd, socket, client>>

(* handleClient(): recv without a timeout.  The answer may not fit into    *)
(* the buffers of a client that does not read it.                          *)
HandleClient ==
  /\ http = "client"
  /\ \/ client = "gone" /\ client' = "none" /\ http' = "test"
     \/ client = "asking" /\ client' \in {"asking", "silent"} /\ http' = "answer"
  /\ UNCHANGED <<mainVars, signalVars, running, listenFd, socket>>

(* sendAll() blocks until the client has room or is gone; then close.      *)
SendAnswer ==
  /\ http = "answer"
  /\ client \in {"asking", "gone"}
  /\ client' = "none"
  /\ http' = "test"
  /\ UNCHANGED <<mainVars, signalVars, running, listenFd, socket>>

-----------------------------------------------------------------------------
(* HTTP clients.                                                           *)
ClientConnects ==
  /\ client = "none"
  /\ socket = "listening"
  /\ client' = "silent"
  /\ UNCHANGED <<mainVars, signalVars, httpVars>>

ClientActs ==
  /\ client = "silent"
  /\ client' \in {"asking", "gone"}
  /\ UNCHANGED <<mainVars, signalVars, httpVars>>

(* A signal to the process goes to a thread that does not block it, and is *)
(* kept only if there is none.  New threads inherit the mask: the HTTP     *)
(* thread and the workers were created before BlockSignals.                *)
Taken == ~masked \/ workers \/ http \notin {"none", "ended", "joined"}

SignalProcess ==
  /\ ~unread
  /\ IF Taken THEN killed' = TRUE /\ UNCHANGED unread
              ELSE unread' = TRUE /\ UNCHANGED killed
  /\ UNCHANGED <<mainVars, httpVars, client>>

(* A signal to the main thread alone (tgkill).                             *)
SignalMain ==
  /\ ~unread
  /\ IF masked THEN unread' = TRUE /\ UNCHANGED killed
               ELSE killed' = TRUE /\ UNCHANGED unread
  /\ UNCHANGED <<mainVars, httpVars, client>>

-----------------------------------------------------------------------------
Main ==
  \/ StartHttp \/ CreatePool \/ BlockSignals \/ Listen \/ ReadSignal
  \/ StopFlag \/ Shutdown \/ Close \/ Join \/ Finish \/ StopPool
Http == CreateSocket \/ Bind \/ Test \/ Accept \/ HandleClient \/ SendAnswer
Clients == ClientConnects \/ ClientActs

Alive == ~killed /\ main # "over"
Over == ~Alive /\ UNCHANGED serverVars

ServerNext ==
  \/ Alive /\ (Main \/ Throw \/ Http \/ Clients \/ SignalProcess \/ SignalMain)
  \/ Over

ServerSpec == ServerInit /\ [][ServerNext]_serverVars

(* The threads are scheduled.  An accept4 on a listening socket need not   *)
(* return: nobody need connect.                                            *)
HttpMoves == (socket = "listening" => http # "accept") /\ Http
ServerFairSpec ==
  ServerSpec /\ WF_serverVars(Alive /\ Main) /\ WF_serverVars(Alive /\ HttpMoves)

-----------------------------------------------------------------------------
ServerTypeOK ==
  /\ main \in StartSteps \cup StopSteps \cup {"looping", "over"}
  /\ failing \in BOOLEAN /\ graceful \in BOOLEAN /\ masked \in BOOLEAN
  /\ unread \in BOOLEAN /\ killed \in BOOLEAN /\ workers \in BOOLEAN
  /\ http \in {"none", "socket", "bind", "test", "accept", "client", "answer",
               "ended", "joined"}
  /\ running \in BOOLEAN /\ listenFd \in BOOLEAN
  /\ socket \in {"none", "plain", "listening", "shut", "closed"}
  /\ listenFd => socket \notin {"none", "closed"}
  /\ client \in {"none", "silent", "asking", "gone"}

(* run() never destroys the stores under a thread that uses them, nor a    *)
(* joinable std::thread, which would call std::terminate, whether it       *)
(* returns or throws (HttpServer.cpp:96-122).                              *)
NoThreadLeft == main = "over" => ~workers /\ http \in {"none", "joined"}

(* The HTTP thread waits, without a timeout, for a client that neither     *)
(* sends nor reads nor leaves.                                             *)
Held == http \in {"client", "answer"} /\ client = "silent"

(* Whatever way run() is left, and wherever the HTTP thread is meanwhile,  *)
(* it ends: nothing but such a client holds stop() (HttpServer.cpp:96-122). *)
StopEnds ==
  []<>~Held => ((main \in StopSteps) ~> (main = "over" \/ killed))

(* TcpServer.cpp:463-465 "Shutdown signal received": a signal that finds   *)
(* the server in its loop is handled there.                                *)
SignalIsRead == [][main = "looping" => ~killed']_serverVars
=============================================================================
