---------------------------- MODULE ServiceThreads ----------------------------
(***************************************************************************)
(* The four threads of the service and the one mutex they share: the main  *)
(* loop of Daemon::Run, the control pipe's thread, the dashboard's HTTP    *)
(* thread and the coordination client's.  Each of the last three is ended  *)
(* by a flag it polls and a join, from the main loop or from a reload; a   *)
(* reload runs in the main loop's poll or, after SetRole, in the dashboard *)
(* thread.  What the critical sections do is Daemon.tla's subject; here    *)
(* they are only entered, left and waited for.                             *)
(***************************************************************************)
EXTENDS Naturals

CONSTANT ReloadableSections   \* sections of config.json that edits change
ASSUME ThreadsAssumption == ReloadableSections \subseteq {"coordination", "dashboard"}

VARIABLES
  owner,      \* the thread inside mutex_, or "none"
  main,       \* where each thread is
  pipe,
  dash,
  coord,
  stopping,   \* the threads whose stopping_ flag is up
  edits,      \* sections of the file that differ from cfg_
  dirty,      \* dashboardDirty_
  stopEvent   \* the stop event is signalled

vars == <<owner, main, pipe, dash, coord, stopping, edits, dirty, stopEvent>>

Init ==
  /\ owner = "none"
  /\ main = "top"
  /\ pipe = "check"
  /\ dash = "off"
  /\ coord \in {"off", "check"}
  /\ stopping = {}
  /\ edits = {}
  /\ dirty = TRUE
  /\ stopEvent = FALSE

Enter(t) == owner = "none" /\ owner' = t
Leave(t) == owner = t /\ owner' = "none"

-----------------------------------------------------------------------------
(* The outside world: the administrator edits the file and stops the       *)
(* service ("stop", sc stop, Ctrl+C); clients connect, write and read, or   *)
(* go away, in their own time.                                             *)

EditFile(section) ==
  /\ main # "done"
  /\ edits' = edits \cup {section}
  /\ UNCHANGED <<owner, main, pipe, dash, coord, stopping, dirty, stopEvent>>

RequestStop ==
  /\ ~stopEvent
  /\ stopEvent' = TRUE
  /\ UNCHANGED <<owner, main, pipe, dash, coord, stopping, edits, dirty>>

PipeClient ==
  /\ pipe = "listen"
  /\ pipe' = "connected"
  /\ UNCHANGED <<owner, main, dash, coord, stopping, edits, dirty, stopEvent>>

(* A client's request arrives in ReadFile(), or the client goes away. *)
PipeClientWrites ==
  /\ pipe = "reading"
  /\ pipe' \in {"request", "close"}
  /\ UNCHANGED <<owner, main, dash, coord, stopping, edits, dirty, stopEvent>>

(* WriteFile() and FlushFileBuffers() wait until the client has read the   *)
(* answer, or goes away.                                                   *)
PipeClientReads ==
  /\ pipe = "replying"
  /\ pipe' = "close"
  /\ UNCHANGED <<owner, main, dash, coord, stopping, edits, dirty, stopEvent>>

Browser ==
  /\ dash = "select"
  /\ dash' = "reading"
  /\ UNCHANGED <<owner, main, pipe, coord, stopping, edits, dirty, stopEvent>>

(* SendAll() has no time-out: it ends when the browser has taken the        *)
(* answer, or has gone away.                                               *)
BrowserReads ==
  /\ dash = "sending"
  /\ dash' = "select"
  /\ UNCHANGED <<owner, main, pipe, coord, stopping, edits, dirty, stopEvent>>

Controller ==
  /\ coord \in {"connecting", "session"}
  /\ coord' = "callback"
  /\ UNCHANGED <<owner, main, pipe, dash, stopping, edits, dirty, stopEvent>>

(* Nor has the send() of the channel: the controller takes the message, or *)
(* the connection breaks.                                                  *)
ControllerReads ==
  /\ coord = "sending"
  /\ coord' \in {"session", "check"}
  /\ UNCHANGED <<owner, main, pipe, dash, stopping, edits, dirty, stopEvent>>

-----------------------------------------------------------------------------
(* Coordination.  Loop() and Session() poll stopping_; everything they     *)
(* have to say (log_, status_, command_) goes through mutex_.  "off" is a  *)
(* client that does not exist.                                             *)

CoordEnters ==
  /\ coord = "callback" /\ Enter("coord")
  /\ coord' = "inside"
  /\ UNCHANGED <<main, pipe, dash, stopping, edits, dirty, stopEvent>>

CoordLeaves ==
  /\ coord = "inside" /\ Leave("coord")
  /\ coord' \in {"session", "sending", "check"}
  /\ UNCHANGED <<main, pipe, dash, stopping, edits, dirty, stopEvent>>

(* Loop()'s head; the back-off before it wakes early on the flag. *)
CoordChecks ==
  /\ coord = "check"
  /\ coord' = IF "coord" \in stopping THEN "exited" ELSE "connecting"
  /\ UNCHANGED <<owner, main, pipe, dash, stopping, edits, dirty, stopEvent>>

(* No controller answers. *)
CoordFails ==
  /\ coord = "connecting"
  /\ coord' = "check"
  /\ UNCHANGED <<owner, main, pipe, dash, stopping, edits, dirty, stopEvent>>

(* A heartbeat or the events of the outbox; what a callback returned, and  *)
(* the handshake after the first one, are sent as it is left.              *)
CoordSends ==
  /\ coord = "session"
  /\ coord' = "sending"
  /\ UNCHANGED <<owner, main, pipe, dash, stopping, edits, dirty, stopEvent>>

CoordSeesStop ==
  /\ coord = "session" /\ "coord" \in stopping
  /\ coord' = "check"
  /\ UNCHANGED <<owner, main, pipe, dash, stopping, edits, dirty, stopEvent>>

-----------------------------------------------------------------------------
(* A reload by the thread that holds mutex_: what ApplyConfig() does to    *)
(* the other threads.  The dashboard is only marked; the coordination      *)
(* client is stopped, joined and replaced on the spot.                     *)

Reload(here, joining, done) ==
  /\ edits' = {}
  /\ dirty' = (dirty \/ "dashboard" \in edits)
  /\ IF "coordination" \in edits
     THEN /\ stopping' = IF coord = "off" THEN stopping ELSE stopping \cup {"coord"}
          /\ here' = joining
     ELSE /\ UNCHANGED stopping
          /\ here' = done

(* Stop() has returned; the new settings enable a new client or not. *)
Replace(here, done) ==
  /\ coord \in {"off", "exited"}
  /\ coord' \in {"off", "check"}
  /\ stopping' = stopping \ {"coord"}
  /\ here' = done

-----------------------------------------------------------------------------
(* The control pipe.  stopping_ is looked at before an instance of the     *)
(* pipe exists and again once a client, real or throwaway, is connected;   *)
(* ConnectNamedPipe itself waits for ever, and so do the calls that read   *)
(* the request and write the answer.                                       *)

PipeChecks ==
  /\ pipe = "check"
  /\ pipe' = IF "pipe" \in stopping THEN "exited" ELSE "create"
  /\ UNCHANGED <<owner, main, dash, coord, stopping, edits, dirty, stopEvent>>

(* Mutant: the thread gives up when it cannot create an instance. *)
PipeCreatesOnce ==
  /\ pipe = "create"
  /\ pipe' \in {"listen", "failed"}
  /\ UNCHANGED <<owner, main, dash, coord, stopping, edits, dirty, stopEvent>>

(* CreateNamedPipe may fail, and is then tried again after a second. *)
PipeCreates ==
  /\ pipe = "create"
  /\ pipe' \in {"listen", "check"}
  /\ UNCHANGED <<owner, main, dash, coord, stopping, edits, dirty, stopEvent>>

PipeReads ==
  /\ pipe = "connected"
  /\ pipe' = IF "pipe" \in stopping THEN "close" ELSE "reading"
  /\ UNCHANGED <<owner, main, dash, coord, stopping, edits, dirty, stopEvent>>

PipeEnters ==
  /\ pipe = "request" /\ Enter("pipe")
  /\ pipe' = "inside"
  /\ UNCHANGED <<main, dash, coord, stopping, edits, dirty, stopEvent>>

(* Mutant: the answer is sent without leaving the mutex. *)
PipeKeepsMutex ==
  /\ pipe = "inside" /\ owner = "pipe"
  /\ pipe' = "replying"
  /\ UNCHANGED <<owner, main, dash, coord, stopping, edits, dirty, stopEvent>>

PipeLeaves ==
  /\ pipe = "inside" /\ Leave("pipe")
  /\ pipe' = "replying"
  /\ UNCHANGED <<main, dash, coord, stopping, edits, dirty, stopEvent>>

PipeCloses ==
  /\ pipe = "close"
  /\ pipe' = "check"
  /\ UNCHANGED <<owner, main, dash, coord, stopping, edits, dirty, stopEvent>>

-----------------------------------------------------------------------------
(* The dashboard.  select() gives up every 200 ms to look at stopping_, a  *)
(* read from a silent client after three seconds; a request that is not    *)
(* authorised never reaches the daemon.  SetRole() reloads before it       *)
(* leaves mutex_.                                                          *)

DashSeesStop ==
  /\ dash = "select" /\ "dash" \in stopping
  /\ dash' = "exited"
  /\ UNCHANGED <<owner, main, pipe, coord, stopping, edits, dirty, stopEvent>>

(* Serve(): a whole request, one that is answered as malformed or too      *)
(* large, or an abandoned one.                                             *)
DashReads ==
  /\ dash = "reading"
  /\ dash' \in {"request", "sending", "select"}
  /\ UNCHANGED <<owner, main, pipe, coord, stopping, edits, dirty, stopEvent>>

DashRefuses ==
  /\ dash = "request"
  /\ dash' = "sending"
  /\ UNCHANGED <<owner, main, pipe, coord, stopping, edits, dirty, stopEvent>>

DashEnters ==
  /\ dash = "request" /\ Enter("dash")
  /\ dash' \in {"inside", "set_role"}
  /\ UNCHANGED <<main, pipe, coord, stopping, edits, dirty, stopEvent>>

DashReloads ==
  /\ dash = "set_role"
  /\ Reload(dash, "join_coord", "inside")
  /\ UNCHANGED <<owner, main, pipe, coord, stopEvent>>

DashReplaces ==
  /\ dash = "join_coord"
  /\ Replace(dash, "inside")
  /\ UNCHANGED <<owner, main, pipe, edits, dirty, stopEvent>>

DashLeaves ==
  /\ dash = "inside" /\ Leave("dash")
  /\ dash' = "sending"
  /\ UNCHANGED <<main, pipe, coord, stopping, edits, dirty, stopEvent>>

-----------------------------------------------------------------------------
(* The main loop.  UpdateDashboard() enters mutex_ for the flag and again  *)
(* for the report, and stops and starts the dashboard in between.          *)

(* Mutant: the dashboard is joined without being told to stop. *)
UpdateDashboardSilently ==
  /\ main = "top" /\ owner = "none"
  /\ dirty' = FALSE
  /\ main' = IF dirty THEN "restart_dash" ELSE "poll"
  /\ UNCHANGED <<owner, pipe, dash, coord, stopping, edits, stopEvent>>

UpdateDashboard ==
  /\ main = "top" /\ owner = "none"
  /\ dirty' = FALSE
  /\ IF dirty
     THEN /\ main' = "restart_dash"
          /\ stopping' = IF dash = "off" THEN stopping ELSE stopping \cup {"dash"}
     ELSE main' = "poll" /\ UNCHANGED stopping
  /\ UNCHANGED <<owner, pipe, dash, coord, edits, stopEvent>>

(* The dashboard may be disabled, or its port taken. *)
RestartDashboard ==
  /\ main = "restart_dash"
  /\ dash \in {"off", "exited"}
  /\ dash' \in {"off", "select"}
  /\ stopping' = stopping \ {"dash"}
  /\ main' = "report_dash"
  /\ UNCHANGED <<owner, pipe, coord, edits, dirty, stopEvent>>

ReportDashboard ==
  /\ main = "report_dash" /\ owner = "none"
  /\ main' = "poll"
  /\ UNCHANGED <<owner, pipe, dash, coord, stopping, edits, dirty, stopEvent>>

PollEnters ==
  /\ main = "poll" /\ Enter("main")
  /\ main' = "reload"
  /\ UNCHANGED <<pipe, dash, coord, stopping, edits, dirty, stopEvent>>

PollReloads ==
  /\ main = "reload"
  /\ Reload(main, "join_coord", "inside")
  /\ UNCHANGED <<owner, pipe, dash, coord, stopEvent>>

PollReplaces ==
  /\ main = "join_coord"
  /\ Replace(main, "inside")
  /\ UNCHANGED <<owner, pipe, dash, edits, dirty, stopEvent>>

PollLeaves ==
  /\ main = "inside" /\ Leave("main")
  /\ main' = "wait"
  /\ UNCHANGED <<pipe, dash, coord, stopping, edits, dirty, stopEvent>>

(* WaitForSingleObject on the stop event, for the rest of the interval. *)
Wait ==
  /\ main = "wait"
  /\ main' = IF stopEvent THEN "stop_dash" ELSE "top"
  /\ UNCHANGED <<owner, pipe, dash, coord, stopping, edits, dirty, stopEvent>>

(* HttpServer::Stop(): raise the flag, join. *)
StopDashboard ==
  /\ \/ /\ main = "stop_dash"
        /\ stopping' = stopping \cup {"dash"}
        /\ main' = "join_dash"
     \/ /\ main = "join_dash" /\ dash \in {"off", "exited"}
        /\ main' = "stop_pipe"
        /\ UNCHANGED stopping
  /\ UNCHANGED <<owner, pipe, dash, coord, edits, dirty, stopEvent>>

(* Mutant: the pipe's thread is told to stop but not waited for. *)
StopPipeAtOnce ==
  /\ \/ /\ main = "stop_pipe"
        /\ stopping' = stopping \cup {"pipe"}
        /\ main' = "wake_pipe"
        /\ UNCHANGED pipe
     \/ /\ main = "wake_pipe"
        /\ pipe' = IF pipe = "listen" THEN "connected" ELSE pipe
        /\ main' = "restore"
        /\ UNCHANGED stopping
  /\ UNCHANGED <<owner, dash, coord, edits, dirty, stopEvent>>

(* ControlPipeServer::Stop(): raise the flag, connect once, join.  The     *)
(* connection goes nowhere unless an instance is waiting for a client.     *)
StopPipe ==
  /\ \/ /\ main = "stop_pipe"
        /\ stopping' = stopping \cup {"pipe"}
        /\ main' = "wake_pipe"
        /\ UNCHANGED pipe
     \/ /\ main = "wake_pipe"
        /\ pipe' = IF pipe = "listen" THEN "connected" ELSE pipe
        /\ main' = "join_pipe"
        /\ UNCHANGED stopping
     \/ /\ main = "join_pipe" /\ pipe = "exited"
        /\ main' = "restore"
        /\ UNCHANGED <<stopping, pipe>>
  /\ UNCHANGED <<owner, dash, coord, edits, dirty, stopEvent>>

(* ForceRecoverAllForShutdown() and RestoreAll(), under mutex_. *)
RestoreEnters ==
  /\ main = "restore" /\ Enter("main")
  /\ main' = "restoring"
  /\ UNCHANGED <<pipe, dash, coord, stopping, edits, dirty, stopEvent>>

RestoreLeaves ==
  /\ main = "restoring" /\ Leave("main")
  /\ main' = "stop_coord"
  /\ UNCHANGED <<pipe, dash, coord, stopping, edits, dirty, stopEvent>>

StopCoordination ==
  /\ \/ /\ main = "stop_coord"
        /\ stopping' = stopping \cup {"coord"}
        /\ main' = "join_exit"
     \/ /\ main = "join_exit" /\ coord \in {"off", "exited"}
        /\ main' = "done"
        /\ UNCHANGED stopping
  /\ UNCHANGED <<owner, pipe, dash, coord, edits, dirty, stopEvent>>

-----------------------------------------------------------------------------
Outside == (\E section \in ReloadableSections : EditFile(section))
             \/ RequestStop \/ PipeClient \/ PipeClientWrites \/ PipeClientReads
             \/ Browser \/ BrowserReads \/ Controller \/ ControllerReads

CoordStep == CoordEnters \/ CoordLeaves \/ CoordChecks \/ CoordFails \/ CoordSends
               \/ CoordSeesStop
PipeStep  == PipeChecks \/ PipeCreates \/ PipeReads \/ PipeEnters \/ PipeLeaves \/ PipeCloses
DashStep  == DashSeesStop \/ DashReads \/ DashRefuses \/ DashEnters \/ DashReloads \/ DashReplaces
               \/ DashLeaves
MainStep  ==
  \/ UpdateDashboard \/ RestartDashboard \/ ReportDashboard
  \/ PollEnters \/ PollReloads \/ PollReplaces \/ PollLeaves \/ Wait
  \/ StopDashboard \/ StopPipe \/ RestoreEnters \/ RestoreLeaves \/ StopCoordination

Next == Outside \/ CoordStep \/ PipeStep \/ DashStep \/ MainStep

Spec == Init /\ [][Next]_vars

(* Every thread is scheduled, and one that waits for a mutex released over *)
(* and over gets it: the main loop sleeps outside it after every poll.     *)
(* Nobody outside has to do anything: to edit, to connect, to stop the     *)
(* service, nor to write a request or to read an answer.  A thread that    *)
(* keeps being called back still looks at its flag in between.             *)
Fairness ==
  /\ SF_vars(CoordEnters) /\ SF_vars(CoordSeesStop) /\ WF_vars(CoordStep)
  /\ SF_vars(PipeEnters) /\ WF_vars(PipeStep)
  /\ SF_vars(DashSeesStop) /\ WF_vars(DashStep)
  /\ SF_vars(MainStep)

FairSpec == Spec /\ Fairness

-----------------------------------------------------------------------------
(* Every variable stays in its range. *)
TypeOK ==
  /\ owner \in {"none", "main", "pipe", "dash", "coord"}
  /\ main \in {"top", "restart_dash", "report_dash", "poll", "reload", "join_coord", "inside",
               "wait", "stop_dash", "join_dash", "stop_pipe", "wake_pipe", "join_pipe",
               "restore", "restoring", "stop_coord", "join_exit", "done"}
  /\ pipe \in {"check", "create", "listen", "connected", "reading", "request", "inside",
               "replying", "close", "exited"}
  /\ dash \in {"off", "select", "reading", "request", "set_role", "join_coord", "inside",
               "sending", "exited"}
  /\ coord \in {"off", "check", "connecting", "callback", "inside", "session", "sending",
                "exited"}
  /\ stopping \subseteq {"pipe", "dash", "coord"}
  /\ edits \subseteq ReloadableSections
  /\ dirty \in BOOLEAN
  /\ stopEvent \in BOOLEAN

(* The threads that are inside mutex_. *)
Inside ==
  {t \in {"main", "pipe", "dash", "coord"} :
     \/ t = "main" /\ main \in {"reload", "join_coord", "inside", "restoring"}
     \/ t = "pipe" /\ pipe = "inside"
     \/ t = "dash" /\ dash \in {"set_role", "join_coord", "inside"}
     \/ t = "coord" /\ coord = "inside"}

(* The Actuator is only ever touched by one thread at a time               *)
(* (Daemon.h:35-37), the reload that runs in the dashboard thread and the  *)
(* join it waits in included.                                              *)
OneThreadInside == Inside = IF owner = "none" THEN {} ELSE {owner}

(* The processes are restored after the last local command: by then the    *)
(* pipe and the dashboard have ended, and neither ever comes back.         *)
LocalCommandsAreOver ==
  main \in {"restore", "restoring", "stop_coord", "join_exit", "done"} =>
    pipe = "exited" /\ dash \in {"off", "exited"}

(* A client that exists is the one the last reload asked for: no thread    *)
(* outlives the object that replaced it, and none is told to stop but by   *)
(* somebody who waits for it.                                              *)
StoppedByAJoiner ==
  /\ "coord" \in stopping =>
       main \in {"join_coord", "join_exit", "done"} \/ dash = "join_coord"
  /\ coord = "exited" => "coord" \in stopping
  /\ dash = "exited" => "dash" \in stopping

JoinsCoord == main = "join_coord" \/ dash = "join_coord"

(* The four ways to wait for ever.  The pipe listens again after its       *)
(* wake-up call; a reload joins, inside mutex_, a client that waits for    *)
(* mutex_; a thread is joined that waits for somebody outside, who need    *)
(* never write or read: the controller, a client of the pipe, a browser.   *)
LostWakeUp       == main = "join_pipe" /\ pipe = "listen"
HeldJoin         == coord = "callback" /\ JoinsCoord
SilentController == coord = "sending" /\ (JoinsCoord \/ main = "join_exit")
SilentClient     == \/ main = "join_pipe" /\ pipe \in {"reading", "replying"}
                    \/ main \in {"restart_dash", "join_dash"} /\ dash = "sending"

(* Polling goes on for ever until the service is asked to stop, whatever   *)
(* the sections that a reload changes, as long as those outside take what  *)
(* they are sent (README.md:295, Daemon.h:113-115).                        *)
PollsForever == []<>(main = "inside") \/ <>stopEvent \/ <>[]SilentController \/ <>[]SilentClient

(* There is no fifth one: the service polls for ever, or is asked to stop  *)
(* and does so, or hangs in one of the four.                               *)
NoOtherHang ==
  \/ []<>(main = "inside") /\ []~stopEvent
  \/ <>(main = "done")
  \/ <>[]LostWakeUp \/ <>[]HeldJoin \/ <>[]SilentController \/ <>[]SilentClient

(* A request the pipe has read gets its answer, whoever competes for       *)
(* mutex_ and whichever other clients do not read theirs, unless a reload  *)
(* never comes out of its join (ControlPipe.cpp:79).                       *)
RequestsAnswered ==
  \/ pipe = "request" ~> pipe = "replying"
  \/ <>[]HeldJoin \/ <>[](SilentController /\ JoinsCoord)
=============================================================================
