---------------------------- MODULE ProxyDaemon ----------------------------
(***************************************************************************)
(* The life of the registry proxy as a background process                  *)
(* (src/src/proxy-daemon.ts, commands/proxy.ts, and the files of           *)
(* proxy-uplinks.ts, proxy-env.ts and proxy-tls.ts): daemons that boot,    *)
(* serve and shut down, one state file through which the commands find     *)
(* them, and the commands start, ensure, stop, status, exec, setup and     *)
(* teardown, any number of which run at once.                              *)
(*                                                                         *)
(* A command sees the state file only through liveProxyState, which reads  *)
(* it, asks whether the process lives, and removes a stale file: two steps *)
(* here, since another process may write in between.                       *)
(***************************************************************************)
EXTENDS Naturals, FiniteSets

CONSTANTS
  Daemons,    \* the pids of the daemons started
  Ports,      \* the values of --port
  Captures,   \* what setup may capture from a project as uplinks
  Actors,     \* the targate processes
  None,       \* no file, no uplinks, no pid
  Polls,      \* how often a command looks for a change before it gives up
  MaxCommands \* bound on the commands started

Args == [port: Ports, tls: BOOLEAN]
Entries == [pid: Daemons, args: Args]  \* its address

ASSUME DaemonAssumption ==
  /\ None \notin Daemons \cup Captures \cup Entries
  /\ Polls \in Nat /\ MaxCommands \in Nat

VARIABLES
  file,     \* proxy.json
  uplinks,  \* proxy-uplinks.json
  material, \* the CA and the certificate exist
  env,      \* proxy.env exists
  st,       \* st[d]: the state of the process with pid d
  args,     \* args[d]: the port and scheme it was started with
  loaded,   \* loaded[d]: the uplinks it read when it booted
  term,     \* the processes that have a SIGTERM to handle
  cmd,      \* cmd[a]: the command an actor runs, or what its last one said
  crossed,  \* history: daemons whose entry in the state file another process removed
  clashed,  \* history: two commands arranged the files at once
  commands

files == <<uplinks, material, env>>
daemons == <<st, args, loaded, term>>
history == <<crossed, clashed>>
vars == <<file, files, daemons, cmd, history, commands>>

States == {"free", "boot", "bind", "bound", "serve", "closing", "dead", "stranger"}
NoArgs == [port |-> None, tls |-> FALSE]
Pids == Daemons \cup {None}
Names == {"start", "ensure", "status", "stop", "exec", "setup", "teardown"}
Questions == {"status", "ensure", "start", "started", "exec", "use", "stop", "stopped"}
Places == {"idle", "ask", "clear", "spawn", "signal", "erase",
           "mint", "capture", "env", "unenv", "uncapture", "unmint"}
Commands == [name: Names \cup {"none"}, at: Places,
             why: Questions,  \* the question liveProxyState is to answer
             tries: 0 .. Polls,
             args: Args \cup {NoArgs},  \* for the daemon it may start
             stale: Pids,     \* the pid liveProxyState found dead
             child: Pids,     \* the daemon it started
             saw: Pids,       \* the daemon it found started, or signals
             told: {"nothing", "started", "stopped"}]

TypeOK ==
  /\ file \in Entries \cup {None}
  /\ uplinks \in Captures \cup {None}
  /\ material \in BOOLEAN /\ env \in BOOLEAN
  /\ st \in [Daemons -> States]
  /\ args \in [Daemons -> Args \cup {NoArgs}]
  /\ loaded \in [Daemons -> Captures \cup {None}]
  /\ term \subseteq {d \in Daemons : st[d] \notin {"free", "dead"}}
  /\ cmd \in [Actors -> Commands]
  /\ crossed \subseteq Daemons /\ clashed \in BOOLEAN
  /\ commands \in 0 .. MaxCommands

NoCommand == [name |-> "none", at |-> "idle", why |-> "status", tries |-> 0, args |-> NoArgs,
              stale |-> None, child |-> None, saw |-> None, told |-> "nothing"]

Init ==
  /\ file = None /\ uplinks = None /\ material = FALSE /\ env = FALSE
  /\ st = [d \in Daemons |-> "free"]
  /\ args = [d \in Daemons |-> NoArgs]
  /\ loaded = [d \in Daemons |-> None]
  /\ term = {}
  /\ cmd = [a \in Actors |-> NoCommand]
  /\ crossed = {} /\ clashed = FALSE /\ commands = 0

Alive(d) == st[d] \notin {"free", "dead"}
Named == {d \in Daemons : file # None /\ file.pid = d}

-----------------------------------------------------------------------------
(* The daemon: runForeground. *)

Become(d, s) == st' = [st EXCEPT ![d] = s]
End(d) ==
  /\ Become(d, "dead")
  /\ term' = term \ {d}
  /\ args' = [args EXCEPT ![d] = NoArgs] /\ loaded' = [loaded EXCEPT ![d] = None]

(* TLS without material ends it; the uplinks are read once. *)
LoadNothing(d) ==
  /\ st[d] = "boot"
  /\ Become(d, "bind")
  /\ UNCHANGED <<file, files, args, loaded, term, cmd, history, commands>>
Load(d) ==
  /\ st[d] = "boot"
  /\ IF args[d].tls /\ ~material THEN End(d)
     ELSE Become(d, "bind") /\ loaded' = [loaded EXCEPT ![d] = uplinks] /\ UNCHANGED <<args, term>>
  /\ UNCHANGED <<file, files, cmd, history, commands>>

PortTaken(d) ==
  \E e \in Daemons : st[e] \in {"bound", "serve"} /\ args[e].port = args[d].port

ListenOrClear(d) ==
  /\ st[d] = "bind"
  /\ IF PortTaken(d) THEN End(d) /\ file' = None
     ELSE Become(d, "bound") /\ UNCHANGED <<file, args, loaded, term>>
  /\ UNCHANGED <<files, cmd, history, commands>>
Listen(d) ==
  /\ st[d] = "bind"
  /\ IF PortTaken(d) THEN End(d) ELSE Become(d, "bound") /\ UNCHANGED <<args, loaded, term>>
  /\ UNCHANGED <<file, files, cmd, history, commands>>

(* writeProxyState and the signal handlers, in one turn of the event loop. *)
Enter(d) ==
  /\ file' = [pid |-> d, args |-> args[d]]
  /\ crossed' = crossed \cup (Named \ {d})

PublishUnbound(d) ==
  /\ st[d] = "bind"
  /\ Become(d, "bound")
  /\ Enter(d)
  /\ UNCHANGED <<files, args, loaded, term, cmd, clashed, commands>>
Publish(d) ==
  /\ st[d] = "bound"
  /\ Become(d, "serve")
  /\ Enter(d)
  /\ UNCHANGED <<files, args, loaded, term, cmd, clashed, commands>>

(* SIGTERM to a daemon that serves: it removes the state file, whoever wrote it,
   and stops listening.                                                      *)
Shutdown(d) ==
  /\ d \in term /\ st[d] = "serve"
  /\ term' = term \ {d}
  /\ Become(d, "closing")
  /\ file' = None
  /\ crossed' = crossed \cup (Named \ {d})
  /\ UNCHANGED <<files, args, loaded, cmd, clashed, commands>>

(* Before the handlers are there, and a second time, it kills; a stranger may
   survive it.                                                               *)
Killed(d) ==
  /\ d \in term /\ st[d] # "serve"
  /\ \/ End(d)
     \/ st[d] = "stranger" /\ term' = term \ {d} /\ UNCHANGED <<st, args, loaded>>
  /\ UNCHANGED <<file, files, cmd, history, commands>>

(* server.close is done when the last request is. *)
Closed(d) ==
  /\ st[d] = "closing"
  /\ End(d)
  /\ UNCHANGED <<file, files, cmd, history, commands>>

Die(d) ==
  /\ Alive(d)
  /\ End(d)
  /\ UNCHANGED <<file, files, cmd, history, commands>>

(* The pid of a daemon that died may come to belong to a stranger. *)
Reuse(d) ==
  /\ st[d] = "dead" /\ d \in Named
  /\ Become(d, "stranger")
  /\ UNCHANGED <<file, files, args, loaded, term, cmd, history, commands>>

-----------------------------------------------------------------------------
(* The commands. *)

Ask(k, why) == [k EXCEPT !.at = "ask", !.why = why]
Say(k, told) == [NoCommand EXCEPT !.saw = k.saw, !.told = told]
Quit == NoCommand

(* startDaemon has found the daemon d. *)
Started(k, d) ==
  CASE k.name \in {"start", "ensure"} -> Say([k EXCEPT !.saw = d], "started")
    [] k.name = "setup" -> [k EXCEPT !.at = "env", !.saw = d]
    [] k.name = "exec" -> Ask(k, "use")

(* stopDaemon is done; teardown goes on whatever it said. *)
StoppedHastily(k, otherwise) ==
  IF k.name = "teardown" THEN [k EXCEPT !.at = "uncapture"] ELSE otherwise
Stopped(k, otherwise) ==
  IF k.name = "teardown" THEN [k EXCEPT !.at = "unenv"] ELSE otherwise

WaitLonger(k, otherwise) == IF k.tries <= Polls THEN [Ask(k, k.why) EXCEPT !.tries = @ + 1] ELSE otherwise
WaitAndErase(k, otherwise) ==
  IF k.tries < Polls THEN [Ask(k, k.why) EXCEPT !.tries = @ + 1]
  ELSE IF k.why = "stopped" THEN [k EXCEPT !.at = "erase"] ELSE otherwise
Wait(k, otherwise) == IF k.tries < Polls THEN [Ask(k, k.why) EXCEPT !.tries = @ + 1] ELSE otherwise

(* What a command does when liveProxyState answers it with d. *)
Answer(k, d) ==
  CASE k.why \in {"status", "use"} -> Quit
    [] k.why = "ensure" -> Ask(k, IF d = None THEN "start" ELSE "status")
    [] k.why = "exec" -> Ask(k, IF d = None THEN "start" ELSE "use")
    [] k.why = "start" -> IF d = None THEN [k EXCEPT !.at = "spawn"] ELSE Started(k, d)
    [] k.why = "started" -> IF d = None THEN Wait(k, Quit) ELSE Started(k, d)
    [] k.why = "stop" -> IF d = None THEN Stopped(k, Quit)
                         ELSE [k EXCEPT !.at = "signal", !.saw = d]
    [] k.why = "stopped" -> IF d = None THEN [k EXCEPT !.at = "erase"]
                            ELSE Wait(k, Stopped(k, Quit))

Command(a, k) == cmd' = [cmd EXCEPT ![a] = k]
At(a, place) == cmd[a].at = place

First(name) == CASE name = "setup" -> "mint" [] name # "setup" -> "ask"
Question(name) == CASE name = "setup" -> "start" [] name = "teardown" -> "stop"
                    [] name \notin {"setup", "teardown"} -> name
Arranges(name) == name \in {"setup", "teardown"}

(* A user runs a command. *)
Run(a, name, x) ==
  /\ At(a, "idle")
  /\ commands < MaxCommands
  /\ commands' = commands + 1
  /\ x.tls \/ name \notin {"exec", "setup"}
  /\ Command(a, [NoCommand EXCEPT !.name = name, !.at = First(name), !.why = Question(name),
                                  !.args = IF name \in {"status", "stop", "teardown"} THEN NoArgs ELSE x])
  /\ clashed' = (clashed \/ (Arranges(name) /\ \E b \in Actors : Arranges(cmd[b].name)))
  /\ UNCHANGED <<file, files, daemons, crossed>>

Boot(d, x) ==
  /\ st[d] = "free"
  /\ Become(d, "boot")
  /\ args' = [args EXCEPT ![d] = x]
  /\ UNCHANGED <<loaded, term>>

(* `start --foreground` asks nobody. *)
RunForeground(d, x) ==
  /\ commands < MaxCommands
  /\ commands' = commands + 1
  /\ Boot(d, x)
  /\ UNCHANGED <<file, files, cmd, history>>

(* liveProxyState reads the state file and asks whether the process lives. *)
Look(a) ==
  /\ At(a, "ask")
  /\ Command(a, IF file = None THEN Answer(cmd[a], None)
                ELSE IF Alive(file.pid) THEN Answer(cmd[a], file.pid)
                ELSE [cmd[a] EXCEPT !.at = "clear", !.stale = file.pid])
  /\ UNCHANGED <<file, files, daemons, history, commands>>

(* It removes a stale file, or the one that has replaced it. *)
ClearStale(a) ==
  /\ At(a, "clear")
  /\ file' = None
  /\ crossed' = crossed \cup (Named \ {cmd[a].stale})
  /\ Command(a, Answer([cmd[a] EXCEPT !.stale = None], None))
  /\ UNCHANGED <<files, daemons, clashed, commands>>

Spawn(a) ==
  /\ At(a, "spawn")
  /\ \E d \in Daemons :
       Boot(d, cmd[a].args) /\ Command(a, [Ask(cmd[a], "started") EXCEPT !.child = d])
  /\ UNCHANGED <<file, files, history, commands>>

Signal(a) ==
  /\ At(a, "signal")
  /\ term' = IF Alive(cmd[a].saw) THEN term \cup {cmd[a].saw} ELSE term
  /\ Command(a, Ask(cmd[a], "stopped"))
  /\ UNCHANGED <<file, files, st, args, loaded, history, commands>>

(* stopDaemon removes the state file once more. *)
Erase(a) ==
  /\ At(a, "erase")
  /\ file' = None
  /\ crossed' = crossed \cup (Named \ {cmd[a].saw})
  /\ Command(a, Stopped(cmd[a], Say(cmd[a], "stopped")))
  /\ UNCHANGED <<files, daemons, clashed, commands>>

-----------------------------------------------------------------------------
(* setup and teardown. *)

Goes(a, here, k) ==
  /\ At(a, here)
  /\ Command(a, k)
  /\ UNCHANGED <<file, daemons, history, commands>>

Mint(a) ==
  /\ Goes(a, "mint", [cmd[a] EXCEPT !.at = "capture"])
  /\ material' = TRUE /\ UNCHANGED <<uplinks, env>>

Capture(a) ==
  /\ Goes(a, "capture", Ask(cmd[a], "start"))
  /\ uplinks' \in Captures /\ UNCHANGED <<material, env>>

WriteEnv(a) ==
  /\ Goes(a, "env", Quit)
  /\ env' = TRUE /\ UNCHANGED <<uplinks, material>>

RemoveEnv(a) ==
  /\ Goes(a, "unenv", [cmd[a] EXCEPT !.at = "uncapture"])
  /\ env' = FALSE /\ UNCHANGED <<uplinks, material>>

RemoveUplinks(a) ==
  /\ Goes(a, "uncapture", [cmd[a] EXCEPT !.at = "unmint"])
  /\ uplinks' = None /\ UNCHANGED <<material, env>>

RemoveMaterial(a) ==
  /\ Goes(a, "unmint", Quit)
  /\ material' = FALSE /\ UNCHANGED <<uplinks, env>>

(* The user interrupts a command, or it fails: openssl may be missing. *)
Interrupt(a) ==
  /\ ~At(a, "idle")
  /\ Command(a, Quit)
  /\ UNCHANGED <<file, files, daemons, history, commands>>

-----------------------------------------------------------------------------
DaemonNext(d) ==
  \/ Load(d) \/ Listen(d) \/ Publish(d)
  \/ Shutdown(d) \/ Killed(d) \/ Closed(d) \/ Die(d) \/ Reuse(d)

Proceed(a) ==
  \/ Look(a) \/ ClearStale(a) \/ Spawn(a) \/ Signal(a) \/ Erase(a)
  \/ Mint(a) \/ Capture(a) \/ WriteEnv(a)
  \/ RemoveEnv(a) \/ RemoveUplinks(a) \/ RemoveMaterial(a)

Next ==
  \/ \E d \in Daemons : DaemonNext(d)
  \/ \E a \in Actors : Proceed(a) \/ Interrupt(a)
  \/ \E a \in Actors, name \in Names, x \in Args : Run(a, name, x)
  \/ \E d \in Daemons, x \in Args : RunForeground(d, x)

Spec == Init /\ [][Next]_vars

-----------------------------------------------------------------------------
(* A daemon that serves can be found and stopped: the state file names it,
   unless another process overwrote or removed its entry - a second daemon that
   published or shut down, a command that found an older entry stale, or one
   that erased the file after a stop.  Nothing else loses a daemon: not a boot
   that fails, a crash, a reused pid or a start that gave up
   (proxy-daemon.ts:99-106, commands/proxy.ts:118-143).                            *)
ServingIsNamed == \A d \in Daemons : st[d] = "serve" => d \in Named \cup crossed

(* A start that says the proxy has started found one that had bound its port
   (commands/proxy.ts:167-181).                                               *)
StartedHasBound ==
  \A a \in Actors : cmd[a].told = "started" => st[cmd[a].saw] \notin {"free", "boot", "bind", "bound"}

(* When stop says a daemon has stopped, that daemon accepts no connections,
   although stop only looks whether the state file is gone, unless another
   process had removed its entry (commands/proxy.ts:185-206).                 *)
StoppedIsStopped ==
  \A a \in Actors :
    cmd[a].told = "stopped" => (st[cmd[a].saw] # "serve" \/ cmd[a].saw \in crossed)

(* A shell that sources the env file finds the CA it names and a proxy that knows
   its uplinks has them: setup writes the env file last and teardown removes it
   first, wherever they are interrupted, unless two of them ran at once
   (commands/proxy.ts:262-336).                                               *)
EnvBacked == env /\ ~clashed => material /\ uplinks # None

(* The daemon that setup itself started serves with the uplinks setup captured
   (commands/proxy.ts:289-295).                                               *)
SetupCaptured ==
  \A a \in Actors, d \in Daemons :
    At(a, "env") /\ cmd[a].saw = d /\ cmd[a].child = d /\ st[d] = "serve" /\ ~clashed =>
      loaded[d] = uplinks

(* What start, stop and setup say they did is so, although each of them only
   looks at files that others write, and pids die and are reused meanwhile.   *)
CommandsTakeEffect == StartedHasBound /\ StoppedIsStopped /\ EnvBacked /\ SetupCaptured
=============================================================================
