--------------------------- MODULE ProtocolServer ---------------------------
(***************************************************************************)
(* The life of a ProtocolServer (src/uhcr/network/server.py) on its event  *)
(* loop: start() and stop() as the coroutines they are, cut where an await *)
(* really suspends, so that the main task and the tasks that the signal    *)
(* handler schedules interleave there and nowhere else.                    *)
(*                                                                         *)
(* Main is a program of the documented form, repeated: start, wait for the *)
(* shutdown event (or decide to leave on its own), stop.  It starts again  *)
(* only after every stop in progress has returned.                         *)
(*                                                                         *)
(* aiohttp and grpc.aio are external: a runner or server is the state of   *)
(* its socket.  The HTTP port is fixed, so a second listener cannot bind.  *)
(* Stopping a site and the shutdown signals of an application without      *)
(* receivers do not suspend; setup, bind, cleanup, start and stop may.     *)
(***************************************************************************)
EXTENDS Integers, FiniteSets

CONSTANTS
  Signals,    (* the SIGINT/SIGTERM that may arrive: each a stop task      *)
  Main,       (* the task of the program itself                            *)
  MaxStarts   (* bound on the calls of start() (model only)                *)

ASSUME ServerAssumption == Main \notin Signals /\ MaxStarts \in Nat

VARIABLES
  running, ready, started,  (* _running, _ready, _start_time is not None   *)
  event,        (* _shutdown_event: "none", "clear" or "set"               *)
  handlers,     (* are the signal handlers installed?                      *)
  httpRunner, httpSite,     (* _http_runner, _http_site: a start or None   *)
  grpcServer,   (* _grpc_server: the start it belongs to, or None          *)
  http, grpc,   (* the sockets of each start: "new", "open" (bound),       *)
                (* "serving", "draining" or "closed"                       *)
  starts,       (* number of calls of start() so far                       *)
  task          (* task[t]: where t is, and the object it awaits           *)

objects == <<httpRunner, httpSite, grpcServer, http, grpc>>
flags   == <<running, ready, started, event, handlers>>
serverVars == <<objects, flags, starts, task>>

None   == 0
Starts == 1 .. MaxStarts
Tasks  == Signals \cup {Main}

At(t, where) == task[t].pc = where
Go(t, where, what) == task' = [task EXCEPT ![t] = [pc |-> where, on |-> what]]

Stopping(t) == task[t].pc \in {"drain", "grpcStop"}
StopInFlight == \E t \in Tasks : Stopping(t)

ServerInit ==
  /\ running = FALSE /\ ready = FALSE /\ started = FALSE
  /\ event = "none"
  /\ handlers = FALSE
  /\ httpRunner = None /\ httpSite = None /\ grpcServer = None
  /\ http = [n \in Starts |-> "new"]
  /\ grpc = [n \in Starts |-> "new"]
  /\ starts = 0
  /\ task = [t \in Tasks |-> [pc |-> "idle", on |-> None]]

-----------------------------------------------------------------------------
(* start() up to its first await, the setup of a new runner.               *)
Start ==
  /\ task[Main].pc \in {"idle", "stopped"}
  /\ ~StopInFlight
  /\ starts < MaxStarts
  /\ starts' = starts + 1
  /\ IF running
     THEN Go(Main, "waiting", None) /\ UNCHANGED <<objects, flags>>
     ELSE /\ event' = "clear"
          /\ httpRunner' = starts'
          /\ Go(Main, "setup", starts')
          /\ UNCHANGED <<running, ready, started, handlers, httpSite, grpcServer,
                         http, grpc>>

HttpSetUp ==
  /\ At(Main, "setup")
  /\ httpSite' = httpRunner
  /\ Go(Main, "bind", httpRunner)
  /\ UNCHANGED <<httpRunner, grpcServer, http, grpc, flags, starts>>

HttpPortTaken == \E n \in Starts : http[n] = "serving"

(* Another process, or a listener of this server that was never closed.    *)
HttpBindFails ==
  /\ At(Main, "bind")
  /\ Go(Main, "cleanup", httpRunner)
  /\ UNCHANGED <<objects, flags, starts>>

(* The except clause cleans up and raises PortBindError.                   *)
HttpCleanUp ==
  /\ At(Main, "cleanup")
  /\ http' = [http EXCEPT ![task[Main].on] = "closed"]
  /\ httpRunner' = None /\ httpSite' = None
  /\ Go(Main, "idle", None)
  /\ UNCHANGED <<grpcServer, grpc, flags, starts>>

(* The HTTP listener is up; _start_grpc runs on to its own await, unless   *)
(* add_insecure_port answers 0 and PortBindError is raised.                *)
HttpBinds(grpcPortFree) ==
  /\ At(Main, "bind")
  /\ ~HttpPortTaken
  /\ http' = [http EXCEPT ![httpRunner] = "serving"]
  /\ grpcServer' = starts
  /\ IF grpcPortFree
     THEN /\ grpc' = [grpc EXCEPT ![starts] = "open"]
          /\ Go(Main, "grpcStart", starts)
     ELSE /\ Go(Main, "idle", None)
          /\ UNCHANGED grpc
  /\ UNCHANGED <<httpRunner, httpSite, flags, starts>>

(* The end of start(), in one step after the last await.                   *)
GrpcStarts ==
  /\ At(Main, "grpcStart")
  /\ grpc' = [grpc EXCEPT ![task[Main].on] = "serving"]
  /\ handlers' = TRUE
  /\ running' = TRUE /\ started' = TRUE /\ ready' = TRUE
  /\ Go(Main, "waiting", None)
  /\ UNCHANGED <<httpRunner, httpSite, grpcServer, http, event, starts>>

GrpcStartFails ==
  /\ At(Main, "grpcStart")
  /\ Go(Main, "idle", None)
  /\ UNCHANGED <<objects, flags, starts>>

-----------------------------------------------------------------------------
(* A signal makes the loop schedule a task that will call stop().          *)
SignalArrives(s) ==
  /\ handlers
  /\ At(s, "idle")
  /\ Go(s, "scheduled", None)
  /\ UNCHANGED <<objects, flags, starts>>

(* wait_for_shutdown returns, or the program leaves the context itself.    *)
WaitEnds(why) ==
  /\ At(Main, "waiting")
  /\ why = "event" => event = "set"
  /\ Go(Main, "scheduled", None)
  /\ UNCHANGED <<objects, flags, starts>>

(* Mutant: stop() forgets to reset _running.                               *)
EndWithoutReset ==
  /\ ready' = FALSE /\ started' = FALSE
  /\ UNCHANGED <<running, event, handlers>>

(* The last lines of stop().                                               *)
EndOfStop ==
  /\ running' = FALSE /\ ready' = FALSE /\ started' = FALSE
  /\ UNCHANGED <<event, handlers>>

(* _stop_grpc, entered by t: await the server's stop, if there is one.     *)
EnterStopGrpc(t) ==
  IF grpcServer # None
  THEN /\ grpc' = [grpc EXCEPT ![grpcServer] =
                     IF @ = "closed" THEN @ ELSE "draining"]
       /\ Go(t, "grpcStop", grpcServer)
       /\ UNCHANGED flags
  ELSE /\ EndOfStop
       /\ Go(t, "stopped", None)
       /\ UNCHANGED grpc

StopSite ==
  /\ http' = [n \in Starts |->
       IF n = httpSite /\ http[n] = "serving" THEN "draining" ELSE http[n]]
  /\ httpSite' = None

EnterStop(t) ==
  /\ event' = "set"
  /\ StopSite
  /\ Go(t, "drain", httpRunner)
  /\ UNCHANGED <<httpRunner, grpcServer, grpc, running, ready, started, handlers,
                 starts>>

(* Mutant: running is cleared before the listeners are drained.            *)
StopClearsFirst(t) ==
  /\ At(t, "scheduled")
  /\ running
  /\ event' = "set"
  /\ StopSite
  /\ running' = FALSE /\ ready' = FALSE /\ started' = FALSE
  /\ Go(t, "drain", httpRunner)
  /\ UNCHANGED <<httpRunner, grpcServer, grpc, handlers, starts>>

(* Mutant: stop() without its early return.                                *)
StopAnyway(t) ==
  /\ At(t, "scheduled")
  /\ httpRunner # None
  /\ EnterStop(t)

(* stop() of a running server whose HTTP runner is still there ...         *)
StopHttp(t) ==
  /\ At(t, "scheduled")
  /\ running /\ httpRunner # None
  /\ EnterStop(t)

(* ... or already taken down by another stop, which is now at gRPC.        *)
StopAfterHttp(t) ==
  /\ At(t, "scheduled")
  /\ running /\ httpRunner = None
  /\ EnterStopGrpc(t)
  /\ UNCHANGED <<httpRunner, httpSite, grpcServer, http, starts>>

StopNotRunning(t) ==
  /\ At(t, "scheduled")
  /\ ~running
  /\ Go(t, "stopped", None)
  /\ UNCHANGED <<objects, flags, starts>>

(* runner.cleanup() returns: requests are finished, or cut by a timeout.   *)
Drained(t) ==
  /\ At(t, "drain")
  /\ http' = [http EXCEPT ![task[t].on] = "closed"]
  /\ httpRunner' = None
  /\ EnterStopGrpc(t)
  /\ UNCHANGED <<httpSite, grpcServer, starts>>

GrpcStopped(t) ==
  /\ At(t, "grpcStop")
  /\ grpc' = [grpc EXCEPT ![task[t].on] = "closed"]
  /\ grpcServer' = None
  /\ EndOfStop
  /\ Go(t, "stopped", None)
  /\ UNCHANGED <<httpRunner, httpSite, http, starts>>

Stop(t) ==
  \/ StopHttp(t) \/ StopAfterHttp(t) \/ StopNotRunning(t)
  \/ Drained(t) \/ GrpcStopped(t)

StartSteps ==
  \/ HttpSetUp
  \/ HttpBindFails \/ HttpCleanUp
  \/ \E free \in BOOLEAN : HttpBinds(free)
  \/ GrpcStarts \/ GrpcStartFails

ServerNext ==
  \/ Start
  \/ StartSteps
  \/ \E s \in Signals : SignalArrives(s)
  \/ \E why \in {"event", "own"} : WaitEnds(why)
  \/ \E t \in Tasks : Stop(t)

ServerSpec == ServerInit /\ [][ServerNext]_serverVars

(* The loop runs every task that can run, and what is awaited completes:   *)
(* setup and bind by themselves, cleanup and stop by their time limits.    *)
(* Nothing is assumed of signals, nor of a program leaving on its own.     *)
ServerFairness ==
  /\ WF_serverVars(StartSteps)
  /\ WF_serverVars(WaitEnds("event"))
  /\ \A t \in Tasks : WF_serverVars(Stop(t))

FairServerSpec == ServerSpec /\ ServerFairness

-----------------------------------------------------------------------------
(* Properties.                                                             *)

AllClosed == \A n \in Starts :
  http[n] \in {"new", "closed"} /\ grpc[n] \in {"new", "closed"}

(* A server that says it is running, with no stop() under way, serves both *)
(* protocols through the very objects that stop() will close, and nobody   *)
(* has been told to shut down: whichever signals arrived, in particular    *)
(* while start() was still awaiting a bind.                                *)
RunningMeansServing == running /\ ~StopInFlight =>
  /\ httpRunner # None /\ httpSite = httpRunner /\ http[httpRunner] = "serving"
  /\ grpcServer # None /\ grpc[grpcServer] = "serving"
  /\ event = "clear"

(* When the program's own stop() returns, both listeners are drained and   *)
(* closed, also when a signal's stop() was there first: the main task,     *)
(* woken before the drain began, cannot exit the process in its middle.    *)
StopReturnsDrained == At(Main, "stopped") => AllClosed

(* A signal that reaches a running server brings it down: the program is   *)
(* released from wait_for_shutdown and both listeners get closed.          *)
SignalEndsServing == \A s \in Signals :
  At(s, "scheduled") /\ running ~> ~running /\ AllClosed /\ At(Main, "stopped")

(* "Whether the server is currently running and accepting connections": a  *)
(* server at rest that is not running accepts none.                        *)
IsRunningTellsAccepting ==
  ~running /\ task[Main].pc \in {"idle", "stopped"} => ~HttpPortTaken
=============================================================================
