---------------------------- MODULE ScriptBridge ----------------------------
(***************************************************************************)
(* The scripting engine (nemclass-script/src/engine_rusty.rs): the UI      *)
(* thread and the v8 worker thread, joined by two channels that point in   *)
(* opposite directions.                                                    *)
(*                                                                         *)
(* Commands go to the worker: load scripts, dispatch an event, resolve a   *)
(* class address, shut down.  Host requests come back from running JS and  *)
(* are answered when the UI thread pumps, once per frame.  A script may    *)
(* block on a host request; the UI thread blocks on the worker in a        *)
(* synchronous resolve and when it drops the engine.                       *)
(***************************************************************************)
EXTENDS Integers, Sequences

CONSTANTS
  MaxCommands,   \* bound on queued commands (the channel itself has none)
  MaxLogs,       \* bound on unpumped log requests (likewise)
  MaxLoads       \* bound on the number of loads

ASSUME MaxCommandsAssumption == MaxCommands \in Nat \ {0}
ASSUME MaxLogsAssumption == MaxLogs \in Nat
ASSUME MaxLoadsAssumption == MaxLoads \in Nat

VARIABLES
  cmds,          \* the command channel
  requests,      \* the host-request channel
  worker,        \* "idle", "running" JS, "waiting" for a host reply, "exited"
  cmd,           \* the command the worker is executing
  resolving,     \* the flag HostBridge::call looks at
  generation,    \* bumped by every load
  handlers,      \* the generations whose handlers are registered
  main,          \* UI thread: "frame", "resolving", "joining" or "dropped"
  background,    \* a pool thread in ScriptResolver::resolve: "idle" or "waiting"
  attached,      \* the app has a process
  loads          \* ghost: loads sent so far

vars == <<cmds, requests, worker, cmd, resolving, generation, handlers, main,
          background, attached, loads>>

\* gen: ghost, the loads sent before this command.
Command(k, from) == [kind |-> k, from |-> from, gen |-> loads]
NoCommand == [kind |-> "none", from |-> "main", gen |-> 0]

\* spawn has returned: the runtime and its host functions exist.
Init ==
  /\ cmds = <<>> /\ requests = <<>>
  /\ worker = "idle" /\ cmd = NoCommand
  /\ resolving = FALSE
  /\ generation = 0 /\ handlers = {}
  /\ main = "frame" /\ background = "idle"
  /\ attached = FALSE
  /\ loads = 0

-----------------------------------------------------------------------------
(* The UI thread.                                                          *)

\* Mutation: a command overtakes the ones that wait.
SendFirst(c) == <<c>> \o cmds

Send(c) == Append(cmds, c)

\* on_event: a lifecycle event, a tick or a hotkey; an attach or detach among them.
OnEvent(a) ==
  /\ main = "frame" /\ Len(cmds) < MaxCommands
  /\ cmds' = Send(Command("event", "main"))
  /\ attached' = a
  /\ UNCHANGED <<requests, worker, cmd, resolving, generation, handlers, main,
                 background, loads>>

LoadScripts ==
  /\ main = "frame" /\ Len(cmds) < MaxCommands /\ loads < MaxLoads
  /\ loads' = loads + 1
  /\ cmds' = Send([Command("load", "main") EXCEPT !.gen = loads + 1])
  /\ UNCHANGED <<requests, worker, cmd, resolving, generation, handlers, main,
                 background, attached>>

\* resolve_class_address on the UI thread itself: it blocks for the reply.
ResolveClassAddress ==
  /\ main = "frame" /\ Len(cmds) < MaxCommands
  /\ cmds' = Send(Command("resolve", "main"))
  /\ main' = "resolving"
  /\ UNCHANGED <<requests, worker, cmd, resolving, generation, handlers,
                 background, attached, loads>>

\* The same from a pool thread, with a detached ScriptResolver, which may outlive the
\* engine.  Once the worker is gone it returns None at once.
BackgroundResolve ==
  /\ background = "idle" /\ worker # "exited" /\ Len(cmds) < MaxCommands
  /\ cmds' = Send(Command("resolve", "background"))
  /\ background' = "waiting"
  /\ UNCHANGED <<requests, worker, cmd, resolving, generation, handlers, main,
                 attached, loads>>

\* ScriptHost::is_active.
EngineActive == main # "dropped"

\* Mutation: without a process nobody asks for the next frame.
RepaintWhileAttached == attached

\* logic asks for the next frame while attached or while an engine is live.
RepaintRequested == attached \/ EngineActive

\* pump_host_requests drains the channel; the reply lets a waiting script go on.
Pump ==
  /\ main = "frame" /\ RepaintRequested /\ requests # <<>>
  /\ requests' = <<>>
  /\ worker' = IF worker = "waiting" THEN "running" ELSE worker
  /\ UNCHANGED <<cmds, cmd, resolving, generation, handlers, main, background,
                 attached, loads>>

\* Drop: send Shutdown and join the worker, with the request channel still open.
DropEngine ==
  /\ main = "frame"
  /\ cmds' = Send(Command("shutdown", "main"))
  /\ main' = "joining"
  /\ UNCHANGED <<requests, worker, cmd, resolving, generation, handlers,
                 background, attached, loads>>

Joined ==
  /\ main = "joining" /\ worker = "exited"
  /\ main' = "dropped"
  /\ UNCHANGED <<cmds, requests, worker, cmd, resolving, generation, handlers,
                 background, attached, loads>>

-----------------------------------------------------------------------------
(* The worker: worker_main and the JS it runs.                             *)

\* Mutation: a reload keeps the handlers of the scripts before it.
KeepHandlers == handlers

ResetHandlers == {}

GenerationAfterLoad == generation + 1

\* The next command starts.  A load first drops the old generation's handlers.
WorkerTakes ==
  /\ worker = "idle" /\ cmds # <<>> /\ Head(cmds).kind # "shutdown"
  /\ cmd' = Head(cmds)
  /\ cmds' = Tail(cmds)
  /\ worker' = "running"
  /\ resolving' = (cmd'.kind = "resolve")
  /\ IF cmd'.kind = "load"
       THEN generation' = GenerationAfterLoad /\ handlers' = ResetHandlers
       ELSE UNCHANGED <<generation, handlers>>
  /\ UNCHANGED <<requests, main, background, attached, loads>>

\* Shutdown: the queue dies with the worker, and with it the replies it held.
WorkerExits ==
  /\ worker = "idle" /\ cmds # <<>> /\ Head(cmds).kind = "shutdown"
  /\ worker' = "exited"
  /\ cmds' = <<>>
  /\ background' = "idle"
  /\ UNCHANGED <<requests, cmd, resolving, generation, handlers, main, attached, loads>>

\* Before the first load there is no script that could act.
ScriptsLoaded == generation > 0

\* nemclass.on in a script being loaded, or in a handler or resolver that runs.
RegisterHandler ==
  /\ worker = "running" /\ ScriptsLoaded
  /\ handlers' = handlers \cup {generation}
  /\ UNCHANGED <<cmds, requests, worker, cmd, resolving, generation, main,
                 background, attached, loads>>

\* HostBridge::call answers with an error at once inside a resolver.
RefusedWhileResolving == resolving

\* A script calls a replying host function and waits.
HostCall ==
  /\ worker = "running" /\ ScriptsLoaded /\ ~RefusedWhileResolving
  /\ requests' = Append(requests, "call")
  /\ worker' = "waiting"
  /\ UNCHANGED <<cmds, cmd, resolving, generation, handlers, main, background,
                 attached, loads>>

\* nemclass.log, and the worker's own error reports: nobody waits.
Log ==
  /\ worker = "running" /\ Len(requests) < MaxLogs
  /\ requests' = Append(requests, "log")
  /\ UNCHANGED <<cmds, worker, cmd, resolving, generation, handlers, main,
                 background, attached, loads>>

\* The script returned or threw; a resolve sends its answer either way.
WorkerFinishes ==
  /\ worker = "running"
  /\ worker' = "idle"
  /\ cmd' = NoCommand
  /\ resolving' = FALSE
  /\ main' = IF cmd.kind = "resolve" /\ cmd.from = "main" THEN "frame" ELSE main
  /\ background' = IF cmd.kind = "resolve" /\ cmd.from = "background" THEN "idle"
                   ELSE background
  /\ UNCHANGED <<cmds, requests, generation, handlers, attached, loads>>

UiNext ==
  \/ \E a \in BOOLEAN : OnEvent(a)
  \/ LoadScripts \/ ResolveClassAddress \/ Pump \/ DropEngine \/ Joined

WorkerNext ==
  WorkerTakes \/ WorkerExits \/ RegisterHandler \/ HostCall \/ Log \/ WorkerFinishes

Next == UiNext \/ BackgroundResolve \/ WorkerNext

Spec == Init /\ [][Next]_vars

\* Frames go on while they are asked for; the worker's loop goes on; a script that
\* can go on returns in the end, however often it calls the host.
FairSpec ==
  /\ Spec
  /\ WF_vars(Pump)
  /\ WF_vars(WorkerTakes) /\ WF_vars(WorkerExits)
  /\ SF_vars(WorkerFinishes)
  /\ WF_vars(Joined)

-----------------------------------------------------------------------------
Commands == [kind : {"none", "event", "load", "resolve", "shutdown"},
             from : {"main", "background"}, gen : 0 .. MaxLoads]

TypeOK ==
  /\ cmds \in Seq(Commands)
  /\ requests \in Seq({"call", "log"})
  /\ worker \in {"idle", "running", "waiting", "exited"}
  /\ cmd \in Commands
  /\ resolving \in BOOLEAN
  /\ generation \in 0 .. MaxLoads
  /\ handlers \subseteq 0 .. MaxLoads
  /\ main \in {"frame", "resolving", "joining", "dropped"}
  /\ background \in {"idle", "waiting"}
  /\ attached \in BOOLEAN
  /\ loads \in 0 .. MaxLoads

\* An event is dispatched to the scripts that were loaded when it was emitted, and to
\* no handler of a script that was loaded over: a reload neither overtakes the events
\* before it nor lags behind those after it, and leaves no handler of the scripts
\* before it registered.
EventsMeetTheirScripts ==
  /\ handlers \subseteq {generation}
  /\ cmd.kind = "event" => cmd.gen = generation

\* While the UI thread goes on with its frames, a script that called the host gets
\* its answer, with a process attached or not.
HostCallsAnswered == worker = "waiting" ~> (worker # "waiting" \/ main # "frame")

\* Likewise a resolve on a pool thread gets its answer, whatever was queued before it.
BackgroundResolveReturns == background = "waiting" ~> (background = "idle" \/ main # "frame")

\* Dropping the engine ends: the worker is told to stop and is joined.
DropCompletes == main = "joining" ~> main = "dropped"
=============================================================================
