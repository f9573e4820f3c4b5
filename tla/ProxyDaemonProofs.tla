------------------------- MODULE ProxyDaemonProofs -------------------------
(***************************************************************************)
(* Proofs about ProxyDaemon, for every number of daemons, commands and     *)
(* ports, and every set of uplinks a project may configure.                *)
(***************************************************************************)
EXTENDS ProxyDaemon, TLAPS

(***************************************************************************)
(* The inductive invariant.                                                *)
(***************************************************************************)
Past(d) == st[d] \notin {"free", "boot", "bind", "bound"}  \* it has published its entry
Gone(d) == st[d] \in {"dead", "stranger"}
Lost(d) == st[d] # "serve" \/ d \in crossed

Starters == {"start", "ensure", "exec", "setup"}

(* What a command does depends on its name. *)
Coherent(k) ==
  /\ k \in Commands
  /\ k.at \in {"mint", "capture", "env"} => k.name = "setup"
  /\ k.at \in {"unenv", "uncapture", "unmint"} => k.name = "teardown"
  /\ k.at = "spawn" \/ k.why \in {"start", "started"} => k.name \in Starters
  /\ k.why = "ensure" => k.name = "ensure"
  /\ k.why = "exec" => k.name = "exec"
  /\ k.at \in {"mint", "capture"} => k.child = None
  /\ k.at \in {"signal", "erase"} \/ k.why = "stopped" \/ k.told # "nothing" => k.saw \in Daemons
  /\ k.told # "nothing" => k.at = "idle"
  /\ k.name \in Starters => k.args \in Args

(* What a command knows of the daemons it met stays true of them. *)
Informed(k) ==
  /\ k.saw # None => Past(k.saw)
  /\ k.at = "clear" => k.stale \in Daemons /\ Gone(k.stale)
  /\ k.at = "erase" \/ k.told = "stopped" => Lost(k.saw)

DaemonsKnown ==
  \A d \in Daemons : st[d] \in {"boot", "bind", "bound", "serve", "closing"} => args[d] \in Args

FileKnown == file # None => Past(file.pid)

CommandsKnown == \A a \in Actors : Coherent(cmd[a]) /\ Informed(cmd[a])

OneArranges ==
  \A a, b \in Actors : Arranges(cmd[a].name) /\ Arranges(cmd[b].name) => a = b

(* How far setup and teardown are. *)
SetupKnown ==
  \A a \in Actors : cmd[a].name = "setup" =>
    /\ cmd[a].at # "mint" => material
    /\ cmd[a].at \notin {"mint", "capture"} => uplinks # None

TeardownKnown == \A a \in Actors : cmd[a].at \in {"uncapture", "unmint"} => ~env

SpawnedKnown ==
  \A a \in Actors, d \in Daemons :
    cmd[a].name = "setup" /\ cmd[a].child = d /\ st[d] \in {"bind", "bound", "serve"} =>
      loaded[d] = uplinks

Arranged ==
  ~clashed => OneArranges /\ SetupKnown /\ TeardownKnown /\ SpawnedKnown
              /\ (env => material /\ uplinks # None)

IInv == TypeOK /\ DaemonsKnown /\ FileKnown /\ CommandsKnown /\ ServingIsNamed /\ Arranged

(***************************************************************************)
(* The commands.                                                           *)
(***************************************************************************)
LEMMA NoCommandFacts ==
  DaemonAssumption => Coherent(NoCommand) /\ NoCommand.saw = None /\ NoCommand.told = "nothing"
                      /\ NoCommand.at = "idle" /\ NoCommand.name = "none"
<1> SUFFICES ASSUME DaemonAssumption PROVE Coherent(NoCommand)
  BY DEF NoCommand
<1>1. NoCommand \in Commands
  BY DEF NoCommand, Commands, DaemonAssumption, Pids, Places, Questions
<1> QED  BY <1>1 DEF NoCommand, Coherent, Starters

(* What an answer leaves of a command: it goes on under its name with the daemon
   it started, or ends.                                                       *)
GoesOn(k, r) ==
  /\ r.name = "none" \/ (r.name = k.name /\ r.child = k.child)
  /\ r.at \notin {"mint", "capture", "clear", "uncapture", "unmint"}

(* What liveProxyState's answer d makes of the command k. *)
LEMMA AnswerFacts ==
  ASSUME DaemonAssumption, NEW k, Coherent(k), k.at \in {"ask", "clear"}, NEW d \in Pids
  PROVE  LET r == Answer(k, d)
         IN /\ Coherent(r)
            /\ GoesOn(k, r)
            /\ r.saw # None => r.saw \in {k.saw, d}
            /\ r.told # "stopped"
            /\ r.at = "erase" => d = None /\ k.saw \in Daemons /\ r.saw = k.saw
<1> DEFINE Good(r) ==
      /\ Coherent(r)
      /\ GoesOn(k, r)
      /\ r.saw # None => r.saw \in {k.saw, d}
      /\ r.told # "stopped"
      /\ r.at = "erase" => d = None /\ k.saw \in Daemons /\ r.saw = k.saw
<1>0. /\ k \in Commands /\ k.why \in Questions /\ k.told = "nothing" /\ None \notin Daemons
  BY DEF Coherent, Commands, DaemonAssumption
<1>1. Good(Quit)
  BY NoCommandFacts DEF Quit, GoesOn
(* An update that keeps name, child and what was told is good. *)
<1>a. ASSUME NEW r \in Commands, r.name = k.name, r.child = k.child, r.args = k.args, r.told = "nothing",
             r.at \in {"ask", "env", "unenv", "spawn", "signal", "erase"},
             r.saw \in {k.saw, d}, r.why \in {k.why, "start", "status", "use"},
             r.at = "env" => k.name = "setup",
             r.at = "unenv" => k.name = "teardown",
             r.at = "spawn" \/ r.why = "start" => k.name \in Starters,
             r.at = "signal" => r.saw \in Daemons,
             r.at = "erase" => d = None /\ k.why = "stopped" /\ r.saw = k.saw,
             r.saw = k.saw \/ r.saw \in Daemons
      PROVE  Good(r)
  BY <1>0, <1>a DEF Coherent, GoesOn
<1>2. ASSUME NEW w \in {"start", "status", "use"}, w = "start" => k.name \in Starters
      PROVE  Good(Ask(k, w))
  <2> DEFINE r == Ask(k, w)
  <2>1. /\ r \in Commands /\ r.name = k.name /\ r.child = k.child /\ r.args = k.args /\ r.told = k.told
        /\ r.at = "ask" /\ r.saw = k.saw /\ r.why = w
    BY <1>0, <1>2 DEF Ask, Commands, Places, Questions
  <2> HIDE DEF r, Good
  <2>2. Good(r)
    BY <2>1, <1>0, <1>2, <1>a
  <2> QED  BY <2>2 DEF r
<1>3. ASSUME d # None, k.name \in Starters PROVE Good(Started(k, d))
  <2>0. d \in Daemons
    BY <1>3 DEF Pids
  <2>1. CASE k.name \in {"start", "ensure"}
    <3>1. Started(k, d) = Say([k EXCEPT !.saw = d], "started")
      BY <2>1 DEF Started
    <3> DEFINE r == Say([k EXCEPT !.saw = d], "started")
    <3>2. /\ r \in Commands /\ r.name = "none" /\ r.at = "idle" /\ r.saw = d
          /\ r.told = "started" /\ r.why = "status"
      BY <1>0, <2>0, NoCommandFacts DEF Coherent, Say, NoCommand, Commands, Pids
    <3> HIDE DEF r
    <3>3. Good(r)
      BY <2>0, <3>2 DEF Coherent, GoesOn, Starters
    <3> QED  BY <3>1, <3>3 DEF r
  <2>2. CASE k.name = "setup"
    <3>1. Started(k, d) = [k EXCEPT !.at = "env", !.saw = d]
      BY <2>2 DEF Started
    <3> DEFINE r == [k EXCEPT !.at = "env", !.saw = d]
    <3>2. /\ r \in Commands /\ r.name = k.name /\ r.child = k.child /\ r.args = k.args /\ r.told = k.told
          /\ r.at = "env" /\ r.saw = d /\ r.why = k.why
      BY <1>0, <2>0 DEF Commands, Pids, Places
    <3> HIDE DEF r, Good
    <3>3. Good(r)
      BY <2>0, <2>2, <3>2, <1>0, <1>3, <1>a
    <3> QED  BY <3>1, <3>3 DEF r
  <2>3. CASE k.name = "exec"
    <3>1. Started(k, d) = Ask(k, "use")
      BY <2>3 DEF Started
    <3> HIDE DEF Good
    <3> QED  BY <3>1, <1>2
  <2> QED  BY <1>3, <2>1, <2>2, <2>3 DEF Starters
<1>b. ASSUME NEW p \in {"unenv", "spawn", "erase"},
             p = "unenv" => k.name = "teardown",
             p = "spawn" => k.why = "start",
             p = "erase" => d = None /\ k.why = "stopped"
      PROVE  Good([k EXCEPT !.at = p])
  <2> DEFINE r == [k EXCEPT !.at = p]
  <2>1. /\ r \in Commands /\ r.name = k.name /\ r.child = k.child /\ r.args = k.args /\ r.told = k.told
        /\ r.at = p /\ r.saw = k.saw /\ r.why = k.why
    BY <1>0 DEF Commands, Places
  <2>2. k.why = "start" => k.name \in Starters
    BY DEF Coherent
  <2> HIDE DEF r, Good
  <2>3. Good(r)
    BY <2>1, <2>2, <1>0, <1>a, <1>b
  <2> QED  BY <2>3 DEF r
<1>4. Good(Stopped(k, Quit))
  <2> HIDE DEF Good
  <2> QED  BY <1>b, <1>1 DEF Stopped
<1>5. ASSUME NEW o, Good(o), k.why \in {"started", "stopped"} PROVE Good(Wait(k, o))
  <2>1. k.tries < Polls => Good([Ask(k, k.why) EXCEPT !.tries = @ + 1])
    <3> DEFINE r == [Ask(k, k.why) EXCEPT !.tries = @ + 1]
    <3>1. k.tries < Polls =>
          /\ r \in Commands /\ r.name = k.name /\ r.child = k.child /\ r.args = k.args /\ r.told = k.told
          /\ r.at = "ask" /\ r.saw = k.saw /\ r.why = k.why
      <4>1. k.tries < Polls => k.tries + 1 \in 0 .. Polls
        BY <1>0 DEF Commands, DaemonAssumption
      <4>2. r = [k EXCEPT !.at = "ask", !.why = k.why, !.tries = k.tries + 1]
        BY <1>0 DEF Ask, Commands
      <4> HIDE DEF r
      <4> QED  BY <1>0, <4>1, <4>2 DEF Commands, Places
    <3> HIDE DEF r, Good
    <3>2. k.tries < Polls => Good(r)
      BY <3>1, <1>0, <1>5, <1>a
    <3> QED  BY <3>2 DEF r
  <2> QED  BY <2>1, <1>5 DEF Wait
<1>6. k.why = "start" => Good([k EXCEPT !.at = "spawn"])
  BY <1>b
<1>7. k.why = "stop" /\ d # None => Good([k EXCEPT !.at = "signal", !.saw = d])
  <2> DEFINE r == [k EXCEPT !.at = "signal", !.saw = d]
  <2>1. /\ r \in Commands /\ r.name = k.name /\ r.child = k.child /\ r.args = k.args /\ r.told = k.told
        /\ r.at = "signal" /\ r.saw = d /\ r.why = k.why
    BY <1>0 DEF Commands, Places
  <2> HIDE DEF r, Good
  <2>2. k.why = "stop" /\ d # None => Good(r)
    BY <2>1, <1>0, <1>a DEF Pids
  <2> QED  BY <2>2 DEF r
<1>8. k.why = "stopped" /\ d = None => Good([k EXCEPT !.at = "erase"])
  BY <1>b
<1> HIDE DEF Good
<1>9. Good(Answer(k, d))
  <2>1. CASE k.why \in {"status", "use"}
    BY <2>1, <1>1 DEF Answer
  <2>2. CASE k.why = "ensure"
    <3>1. k.name \in Starters
      BY <2>2 DEF Coherent, Starters
    <3> QED  BY <2>2, <3>1, <1>2 DEF Answer
  <2>3. CASE k.why = "exec"
    <3>1. k.name \in Starters
      BY <2>3 DEF Coherent, Starters
    <3> QED  BY <2>3, <3>1, <1>2 DEF Answer
  <2>4. CASE k.why = "start"
    <3>1. k.name \in Starters
      BY <2>4 DEF Coherent
    <3> QED  BY <2>4, <3>1, <1>3, <1>6 DEF Answer
  <2>5. CASE k.why = "started"
    <3>1. k.name \in Starters
      BY <2>5 DEF Coherent
    <3> QED  BY <2>5, <3>1, <1>1, <1>3, <1>5 DEF Answer
  <2>6. CASE k.why = "stop"
    BY <2>6, <1>4, <1>7 DEF Answer
  <2>7. CASE k.why = "stopped"
    BY <2>7, <1>4, <1>5, <1>8 DEF Answer
  <2> QED  BY <1>0, <2>1, <2>2, <2>3, <2>4, <2>5, <2>6, <2>7 DEF Questions
<1> QED  BY <1>9 DEF Good

-----------------------------------------------------------------------------
(***************************************************************************)
(* The daemons: what has been published stays so, the dead do not return,  *)
(* and nobody serves with other uplinks than it loaded.                    *)
(***************************************************************************)
Moves ==
  /\ crossed \subseteq crossed'
  /\ \A d \in Daemons :
       /\ Past(d) => Past(d)'
       /\ Gone(d) => Gone(d)'
       /\ Past(d) /\ st'[d] = "serve" => st[d] = "serve"

LEMMA InformedStays ==
  ASSUME DaemonAssumption, NEW k, Coherent(k), Informed(k), Moves
  PROVE  Informed(k)'
<1>1. k.saw # None => k.saw \in Daemons
  BY DEF Coherent, Commands, Pids
<1>2. k.at = "clear" => k.stale \in Daemons
  BY DEF Informed
<1>3. k.at = "erase" \/ k.told = "stopped" => k.saw \in Daemons /\ k.saw # None
  BY DEF Coherent, DaemonAssumption
<1> QED  BY <1>1, <1>2, <1>3 DEF Informed, Moves, Lost

LEMMA CommandsKept ==
  ASSUME DaemonAssumption, IInv, Moves, UNCHANGED cmd PROVE CommandsKnown'
BY InformedStays DEF IInv, CommandsKnown

LEMMA CommandStep ==
  ASSUME DaemonAssumption, IInv, Moves, NEW a \in Actors, NEW r,
         Command(a, r), Coherent(r), Informed(r)'
  PROVE  CommandsKnown' /\ cmd' \in [Actors -> Commands]
<1>1. cmd \in [Actors -> Commands] /\ r \in Commands
  BY DEF IInv, TypeOK, Coherent
<1>2. \A b \in Actors : cmd'[b] = IF b = a THEN r ELSE cmd[b]
  BY <1>1 DEF Command
<1>3. ASSUME NEW b \in Actors, NEW k, k = cmd'[b], b # a PROVE Coherent(k) /\ Informed(k)'
  BY <1>2, <1>3, InformedStays DEF IInv, CommandsKnown
<1>4. ASSUME NEW b \in Actors, NEW k, k = cmd'[b] PROVE Coherent(k) /\ Informed(k)'
  BY <1>2, <1>3, <1>4
<1>5. ASSUME NEW b \in Actors PROVE Coherent(cmd[b])' /\ Informed(cmd[b])'
  BY <1>4 DEF Informed, Lost, Past, Gone
<1> QED  BY <1>1, <1>5 DEF CommandsKnown, Command

(* A step that leaves the files of setup and teardown alone. *)
LEMMA ArrangedStep ==
  ASSUME IInv, NEW a \in Actors, NEW r, Command(a, r),
         UNCHANGED <<files, loaded, clashed>>,
         \A d \in Daemons : st'[d] \in {"bind", "bound", "serve"} => st'[d] = st[d],
         \/ r.name = "none"
         \/ r.name = cmd[a].name /\ r.child = cmd[a].child /\ cmd[a].at \notin {"mint", "capture"},
         r.at \notin {"uncapture", "unmint"}
  PROVE  Arranged'
<1>1. \A b \in Actors : cmd'[b] = IF b = a THEN r ELSE cmd[b]
  BY DEF IInv, TypeOK, Command
<1> SUFFICES ASSUME ~clashed
             PROVE  (OneArranges /\ SetupKnown /\ TeardownKnown /\ SpawnedKnown
                      /\ (env => material /\ uplinks # None))'
  BY DEF Arranged
<1>2. OneArranges /\ SetupKnown /\ TeardownKnown /\ SpawnedKnown
      /\ (env => material /\ uplinks # None)
  BY DEF IInv, Arranged
<1>3. OneArranges'
  BY <1>1, <1>2 DEF OneArranges, Arranges
<1>4. SetupKnown'
  BY <1>1, <1>2 DEF SetupKnown, files
<1>5. TeardownKnown'
  BY <1>1, <1>2 DEF TeardownKnown, files
<1>6. SpawnedKnown'
  BY <1>1, <1>2 DEF SpawnedKnown, files
<1> QED  BY <1>2, <1>3, <1>4, <1>5, <1>6 DEF files

(* A daemon's step. *)
LEMMA ArrangedKept ==
  ASSUME IInv, UNCHANGED <<files, cmd, clashed>>,
         \A d \in Daemons : st'[d] \in {"bind", "bound", "serve"} =>
            \/ loaded'[d] = uplinks
            \/ loaded'[d] = loaded[d] /\ st[d] \in {"bind", "bound", "serve"}
  PROVE  Arranged'
BY DEF IInv, Arranged, OneArranges, SetupKnown, TeardownKnown, SpawnedKnown, files

-----------------------------------------------------------------------------
LEMMA TypeFacts ==
  ASSUME IInv
  PROVE  /\ file # None => file \in Entries /\ file.pid \in Daemons
         /\ st \in [Daemons -> States] /\ args \in [Daemons -> Args \cup {NoArgs}]
         /\ loaded \in [Daemons -> Captures \cup {None}]
         /\ cmd \in [Actors -> Commands] /\ Named \subseteq Daemons
BY DEF IInv, TypeOK, Entries, Named

LEMMA EndFacts ==
  ASSUME IInv, NEW d \in Daemons, End(d)
  PROVE  /\ st' \in [Daemons -> States] /\ args' \in [Daemons -> Args \cup {NoArgs}]
         /\ loaded' \in [Daemons -> Captures \cup {None}]
         /\ term' \subseteq {e \in Daemons : st'[e] \notin {"free", "dead"}}
         /\ st'[d] = "dead"
         /\ \A e \in Daemons :
              e # d => st'[e] = st[e] /\ loaded'[e] = loaded[e] /\ args'[e] = args[e]
BY DEF IInv, TypeOK, End, Become, States

LEMMA LoadKeeps ==
  ASSUME DaemonAssumption, IInv, NEW d \in Daemons, Load(d) PROVE IInv'
<1>1. /\ TypeOK' /\ DaemonsKnown' /\ Moves
      /\ \A e \in Daemons : st'[e] \in {"bind", "bound", "serve"} =>
            \/ loaded'[e] = uplinks
            \/ loaded'[e] = loaded[e] /\ st[e] \in {"bind", "bound", "serve"}
      /\ \A e \in Daemons : (st'[e] = "serve" => st[e] = "serve") /\ (Past(e) => Past(e)')
  <2>1. CASE End(d)
    BY <2>1, EndFacts DEF Load, IInv, TypeOK, DaemonsKnown, Moves, Past, Gone, history, files
  <2>2. CASE Become(d, "bind") /\ loaded' = [loaded EXCEPT ![d] = uplinks] /\ UNCHANGED <<args, term>>
    BY <2>2 DEF Load, IInv, TypeOK, DaemonsKnown, Moves, Past, Gone, history, files, Become, States
  <2> QED  BY <2>1, <2>2 DEF Load
<1>2. FileKnown' /\ ServingIsNamed'
  BY <1>1, TypeFacts DEF Load, IInv, FileKnown, ServingIsNamed, Named, history
<1>3. CommandsKnown'
  BY <1>1, CommandsKept DEF Load
<1>4. Arranged'
  BY <1>1, ArrangedKept DEF Load, history
<1> QED  BY <1>1, <1>2, <1>3, <1>4 DEF IInv

LEMMA ListenKeeps ==
  ASSUME DaemonAssumption, IInv, NEW d \in Daemons, Listen(d) PROVE IInv'
<1>1. /\ TypeOK' /\ DaemonsKnown' /\ Moves
      /\ \A e \in Daemons : st'[e] \in {"bind", "bound", "serve"} =>
            loaded'[e] = loaded[e] /\ st[e] \in {"bind", "bound", "serve"}
      /\ \A e \in Daemons : (st'[e] = "serve" => st[e] = "serve") /\ (Past(e) => Past(e)')
  <2>1. CASE End(d)
    BY <2>1, EndFacts DEF Listen, IInv, TypeOK, DaemonsKnown, Moves, Past, Gone, history, files
  <2>2. CASE Become(d, "bound") /\ UNCHANGED <<args, loaded, term>>
    BY <2>2 DEF Listen, IInv, TypeOK, DaemonsKnown, Moves, Past, Gone, history, files, Become, States
  <2> QED  BY <2>1, <2>2 DEF Listen
<1>2. FileKnown' /\ ServingIsNamed'
  BY <1>1, TypeFacts DEF Listen, IInv, FileKnown, ServingIsNamed, Named, history
<1>3. CommandsKnown'
  BY <1>1, CommandsKept DEF Listen
<1>4. Arranged'
  BY <1>1, ArrangedKept DEF Listen, history
<1> QED  BY <1>1, <1>2, <1>3, <1>4 DEF IInv

LEMMA PublishKeeps ==
  ASSUME DaemonAssumption, IInv, NEW d \in Daemons, Publish(d) PROVE IInv'
<1>0. args[d] \in Args
  BY DEF IInv, DaemonsKnown, Publish
<1>1. /\ TypeOK' /\ DaemonsKnown' /\ Moves
      /\ \A e \in Daemons : st'[e] = IF e = d THEN "serve" ELSE st[e]
  <2>1. st' \in [Daemons -> States] /\ \A e \in Daemons : st'[e] = IF e = d THEN "serve" ELSE st[e]
    BY TypeFacts DEF Publish, Become, States
  <2>2. file' \in Entries
    BY <1>0 DEF Publish, Enter, Entries
  <2>3. TypeOK'
    BY <2>1, <2>2, TypeFacts DEF Publish, IInv, TypeOK, Enter, files
  <2>4. DaemonsKnown' /\ Moves
    BY <2>1 DEF Publish, IInv, DaemonsKnown, Moves, Past, Gone, Enter
  <2> QED  BY <2>1, <2>3, <2>4
<1>2. FileKnown' /\ ServingIsNamed'
  <2>1. file' = [pid |-> d, args |-> args[d]] /\ file' # None /\ file'.pid = d
    BY <1>0 DEF Publish, Enter, Entries, DaemonAssumption
  <2> QED  BY <1>1, <2>1 DEF Publish, Enter, IInv, FileKnown, ServingIsNamed, Named, Past
<1>3. CommandsKnown'
  BY <1>1, CommandsKept DEF Publish
<1>4. Arranged'
  BY <1>1, ArrangedKept DEF Publish
<1> QED  BY <1>1, <1>2, <1>3, <1>4 DEF IInv

LEMMA ShutdownKeeps ==
  ASSUME DaemonAssumption, IInv, NEW d \in Daemons, Shutdown(d) PROVE IInv'
<1>1. /\ TypeOK' /\ DaemonsKnown' /\ Moves
      /\ \A e \in Daemons : st'[e] = IF e = d THEN "closing" ELSE st[e]
  <2>1. st' \in [Daemons -> States]
        /\ \A e \in Daemons : st'[e] = IF e = d THEN "closing" ELSE st[e]
    BY TypeFacts DEF Shutdown, Become, States
  <2>2. TypeOK'
    BY <2>1, TypeFacts DEF Shutdown, IInv, TypeOK, files
  <2>3. DaemonsKnown' /\ Moves
    BY <2>1 DEF Shutdown, IInv, DaemonsKnown, Moves, Past, Gone
  <2> QED  BY <2>1, <2>2, <2>3
<1>2. FileKnown' /\ ServingIsNamed'
  BY <1>1 DEF Shutdown, IInv, FileKnown, ServingIsNamed, Named
<1>3. CommandsKnown'
  BY <1>1, CommandsKept DEF Shutdown
<1>4. Arranged'
  BY <1>1, ArrangedKept DEF Shutdown
<1> QED  BY <1>1, <1>2, <1>3, <1>4 DEF IInv

(* Killed, Closed, Die and Reuse take a daemon that serves nobody any more, or end
   one: no entry and no uplinks change.                                         *)
LEMMA EndingKeeps ==
  ASSUME DaemonAssumption, IInv, NEW d \in Daemons,
         UNCHANGED <<file, files, cmd, history, commands>>,
         \/ End(d) /\ Alive(d)
         \/ Reuse(d)
         \/ term' = term \ {d} /\ UNCHANGED <<st, args, loaded>>
  PROVE  IInv'
<1>1. /\ TypeOK' /\ DaemonsKnown' /\ Moves
      /\ \A e \in Daemons :
            \/ st'[e] = st[e] /\ loaded'[e] = loaded[e]
            \/ st[e] # "free" /\ st'[e] \in {"dead", "stranger"}
  <2>1. CASE End(d) /\ Alive(d)
    <3>1. TypeOK'
      BY <2>1, EndFacts DEF IInv, TypeOK, history, files
    <3> QED  BY <2>1, <3>1, EndFacts DEF IInv, DaemonsKnown, Moves, Past, Gone, history, Alive
  <2>2. CASE Reuse(d)
    <3>1. st' \in [Daemons -> States]
          /\ \A e \in Daemons : st'[e] = IF e = d THEN "stranger" ELSE st[e]
      BY <2>2, TypeFacts DEF Reuse, Become, States
    <3>2. TypeOK'
      BY <2>2, <3>1 DEF Reuse, IInv, TypeOK, history, files
    <3> QED  BY <2>2, <3>1, <3>2 DEF Reuse, IInv, DaemonsKnown, Moves, Past, Gone, history
  <2>3. CASE term' = term \ {d} /\ UNCHANGED <<st, args, loaded>>
    <3>1. TypeOK'
      BY <2>3 DEF IInv, TypeOK, history, files
    <3> QED  BY <2>3, <3>1 DEF IInv, DaemonsKnown, Moves, Past, Gone, history
  <2> QED  BY <2>1, <2>2, <2>3
<1>2. FileKnown' /\ ServingIsNamed'
  BY <1>1, TypeFacts DEF IInv, FileKnown, ServingIsNamed, Named, Past, history
<1>3. CommandsKnown'
  BY <1>1, CommandsKept
<1>4. Arranged'
  BY <1>1, ArrangedKept DEF history
<1> QED  BY <1>1, <1>2, <1>3, <1>4 DEF IInv

-----------------------------------------------------------------------------
(***************************************************************************)
(* The commands.                                                           *)
(***************************************************************************)
(* No process changes but for daemons that have just been started. *)
LEMMA StillMoves ==
  ASSUME IInv, crossed \subseteq crossed',
         \A d \in Daemons : st'[d] = st[d] \/ (st[d] = "free" /\ st'[d] = "boot")
  PROVE  Moves
BY DEF Moves, Past, Gone

LEMMA LookKeeps ==
  ASSUME DaemonAssumption, IInv, NEW a \in Actors, Look(a) PROVE IInv'
<1>1. PICK k : k = cmd[a]
  OBVIOUS
<1>2. Coherent(k) /\ Informed(k) /\ k.at = "ask" /\ Moves
  BY <1>1, StillMoves DEF IInv, CommandsKnown, Look, At, daemons, history
<1>3. PICK r : /\ Command(a, r)
               /\ r = IF file = None THEN Answer(k, None)
                      ELSE IF Alive(file.pid) THEN Answer(k, file.pid)
                      ELSE [k EXCEPT !.at = "clear", !.stale = file.pid]
  BY <1>1 DEF Look
<1> DEFINE Fine == /\ Coherent(r) /\ Informed(r)
                   /\ r.name = "none" \/ (r.name = k.name /\ r.child = k.child)
                   /\ r.at \notin {"uncapture", "unmint"}
<1>4. ASSUME file = None PROVE Fine
  <2>1. r = Answer(k, None) /\ None \in Pids
    BY <1>3, <1>4 DEF Pids
  <2>2. /\ Coherent(r) /\ GoesOn(k, r) /\ (r.saw # None => r.saw \in {k.saw, None})
        /\ r.told # "stopped"
        /\ (r.at = "erase" => k.saw \in Daemons /\ r.saw = k.saw)
    BY <1>2, <2>1, AnswerFacts
  <2>3. \A d \in Daemons : Lost(d)
    BY <1>4 DEF IInv, ServingIsNamed, Named, Lost
  <2> QED  BY <1>2, <2>2, <2>3 DEF Informed, GoesOn
<1>5. ASSUME file # None /\ Alive(file.pid) PROVE Fine
  <2>1. r = Answer(k, file.pid) /\ file.pid \in Pids /\ file.pid \in Daemons /\ Past(file.pid)
    BY <1>3, <1>5, TypeFacts DEF Pids, IInv, FileKnown
  <2>2. /\ Coherent(r) /\ GoesOn(k, r) /\ (r.saw # None => r.saw \in {k.saw, file.pid})
        /\ r.told # "stopped" /\ r.at # "erase"
    BY <1>2, <2>1, AnswerFacts DEF DaemonAssumption
  <2> QED  BY <1>2, <2>1, <2>2 DEF Informed, GoesOn
<1>6. ASSUME file # None /\ ~Alive(file.pid) PROVE Fine
  <2>1. r = [k EXCEPT !.at = "clear", !.stale = file.pid] /\ file.pid \in Daemons /\ Gone(file.pid)
    BY <1>3, <1>6, TypeFacts DEF IInv, FileKnown, Past, Alive, Gone
  <2>2. /\ r \in Commands /\ r.name = k.name /\ r.child = k.child /\ r.args = k.args
        /\ r.told = k.told /\ r.at = "clear" /\ r.stale = file.pid /\ r.saw = k.saw /\ r.why = k.why
    BY <1>2, <2>1 DEF Coherent, Commands, Places, Pids
  <2>3. Coherent(r)
    BY <1>2, <2>1, <2>2 DEF Coherent
  <2> QED  BY <1>2, <2>1, <2>2, <2>3 DEF Informed, Coherent
<1>7. Fine
  BY <1>4, <1>5, <1>6
<1>8. Informed(r)'
  BY <1>2, <1>7, InformedStays
<1>9. CommandsKnown' /\ cmd' \in [Actors -> Commands]
  BY <1>2, <1>3, <1>7, <1>8, CommandStep
<1>10. Arranged'
  BY <1>1, <1>2, <1>3, <1>7, ArrangedStep DEF Look, daemons, history
<1>11. TypeOK' /\ DaemonsKnown' /\ FileKnown' /\ ServingIsNamed'
  BY <1>9 DEF Look, IInv, TypeOK, DaemonsKnown, FileKnown, ServingIsNamed, Named, Past,
              files, daemons, history
<1> QED  BY <1>9, <1>10, <1>11 DEF IInv

LEMMA ClearStaleKeeps ==
  ASSUME DaemonAssumption, IInv, NEW a \in Actors, ClearStale(a) PROVE IInv'
<1>1. PICK k : k = cmd[a]
  OBVIOUS
<1>2. /\ Coherent(k) /\ Informed(k) /\ k.at = "clear" /\ Moves
  BY <1>1, StillMoves DEF IInv, CommandsKnown, ClearStale, At, daemons
<1>3. k.stale \in Daemons /\ st[k.stale] # "serve"
  BY <1>2 DEF Informed, Gone
<1>4. PICK j : j = [k EXCEPT !.stale = None]
  OBVIOUS
<1>5. /\ j \in Commands /\ j.name = k.name /\ j.child = k.child /\ j.args = k.args
      /\ j.told = k.told /\ j.at = k.at /\ j.saw = k.saw /\ j.why = k.why
  BY <1>2, <1>4 DEF Coherent, Commands, Pids
<1>6. Coherent(j)
  BY <1>2, <1>5 DEF Coherent
<1>7. PICK r : Command(a, r) /\ r = Answer(j, None)
  BY <1>1, <1>4 DEF ClearStale
<1>8. /\ Coherent(r) /\ GoesOn(j, r) /\ (r.saw # None => r.saw = k.saw)
      /\ r.told # "stopped"
      /\ (r.at = "erase" => k.saw \in Daemons /\ r.saw = k.saw)
  BY <1>2, <1>5, <1>6, <1>7, AnswerFacts DEF Pids
<1>9. ServingIsNamed' /\ FileKnown' /\ \A d \in Daemons : Lost(d)'
  BY <1>1, <1>3 DEF ClearStale, IInv, ServingIsNamed, FileKnown, Named, Lost, daemons
<1>10. Informed(r)'
  <2>1. k.saw # None => k.saw \in Daemons
    BY <1>2 DEF Coherent, Commands, Pids
  <2> QED  BY <1>2, <1>8, <1>9, <2>1 DEF Informed, Moves, GoesOn
<1>11. CommandsKnown' /\ cmd' \in [Actors -> Commands]
  BY <1>2, <1>7, <1>8, <1>10, CommandStep
<1>12. Arranged'
  BY <1>1, <1>2, <1>5, <1>7, <1>8, ArrangedStep DEF ClearStale, daemons, GoesOn
<1>13. TypeOK' /\ DaemonsKnown'
  BY <1>11, TypeFacts DEF ClearStale, IInv, TypeOK, DaemonsKnown, files, daemons
<1> QED  BY <1>9, <1>11, <1>12, <1>13 DEF IInv

LEMMA SignalKeeps ==
  ASSUME DaemonAssumption, IInv, NEW a \in Actors, Signal(a) PROVE IInv'
<1>1. PICK k : k = cmd[a]
  OBVIOUS
<1>2. /\ Coherent(k) /\ Informed(k) /\ k.at = "signal" /\ k.saw \in Daemons /\ Moves
  BY <1>1, StillMoves DEF IInv, CommandsKnown, Signal, At, history, Coherent
<1>3. PICK r : Command(a, r) /\ r = Ask(k, "stopped")
  BY <1>1 DEF Signal
<1>4. /\ r \in Commands /\ r.name = k.name /\ r.child = k.child /\ r.args = k.args
      /\ r.told = k.told /\ r.at = "ask" /\ r.saw = k.saw /\ r.why = "stopped"
  BY <1>2, <1>3 DEF Coherent, Ask, Commands, Places, Questions
<1>5. Coherent(r) /\ Informed(r)
  BY <1>2, <1>4 DEF Coherent, Informed
<1>6. CommandsKnown' /\ cmd' \in [Actors -> Commands]
  BY <1>2, <1>3, <1>5, InformedStays, CommandStep
<1>7. Arranged'
  BY <1>1, <1>2, <1>3, <1>4, ArrangedStep DEF Signal, history
<1>8. TypeOK'
  <2>1. term' \subseteq {d \in Daemons : st[d] \notin {"free", "dead"}}
    BY <1>1, <1>2 DEF Signal, IInv, TypeOK, Alive
  <2> QED  BY <1>6, <2>1 DEF Signal, IInv, TypeOK, files, history
<1>9. DaemonsKnown' /\ FileKnown' /\ ServingIsNamed'
  BY DEF Signal, IInv, DaemonsKnown, FileKnown, ServingIsNamed, Named, Past, history
<1> QED  BY <1>6, <1>7, <1>8, <1>9 DEF IInv

LEMMA EraseKeeps ==
  ASSUME DaemonAssumption, IInv, NEW a \in Actors, Erase(a) PROVE IInv'
<1>1. PICK k : k = cmd[a]
  OBVIOUS
<1>2. /\ Coherent(k) /\ Informed(k) /\ k.at = "erase" /\ k.saw \in Daemons /\ Moves
      /\ k \in Commands /\ Lost(k.saw)
  BY <1>1, StillMoves DEF IInv, CommandsKnown, Erase, At, daemons, Coherent, Informed
<1>3. PICK r : Command(a, r) /\ r = Stopped(k, Say(k, "stopped"))
  BY <1>1 DEF Erase
<1>4. Coherent(r) /\ Informed(r) /\ r.at \notin {"uncapture", "unmint"}
      /\ (r.name = "none" \/ (r.name = k.name /\ r.child = k.child))
  <2>1. CASE k.name = "teardown"
    <3>1. /\ r \in Commands /\ r.name = k.name /\ r.child = k.child /\ r.args = k.args
          /\ r.told = k.told /\ r.at = "unenv" /\ r.saw = k.saw /\ r.why = k.why
      BY <1>2, <1>3, <2>1 DEF Stopped, Commands, Places
    <3>2. k.told = "nothing"
      BY <1>2 DEF Coherent, Commands
    <3> QED  BY <1>2, <2>1, <3>1, <3>2 DEF Coherent, Informed
  <2>2. CASE k.name # "teardown"
    <3>1. /\ r \in Commands /\ r.name = "none" /\ r.at = "idle" /\ r.told = "stopped"
          /\ r.saw = k.saw /\ r.why = "status"
      BY <1>2, <1>3, <2>2, NoCommandFacts DEF Stopped, Say, Coherent, NoCommand, Commands, Pids
    <3> QED  BY <1>2, <3>1 DEF Coherent, Informed, Starters
  <2> QED  BY <2>1, <2>2
<1>5. CommandsKnown' /\ cmd' \in [Actors -> Commands]
  BY <1>2, <1>3, <1>4, InformedStays, CommandStep
<1>6. Arranged'
  BY <1>1, <1>2, <1>3, <1>4, ArrangedStep DEF Erase, daemons
<1>7. TypeOK' /\ DaemonsKnown' /\ FileKnown'
  BY <1>5, TypeFacts DEF Erase, IInv, TypeOK, DaemonsKnown, FileKnown, files, daemons
<1>8. ServingIsNamed'
  BY <1>1, <1>2 DEF Erase, IInv, ServingIsNamed, Named, Lost, daemons
<1> QED  BY <1>5, <1>6, <1>7, <1>8 DEF IInv

-----------------------------------------------------------------------------
(***************************************************************************)
(* The steps of setup and teardown.                                        *)
(***************************************************************************)
MovedTo(k, p) == [k EXCEPT !.at = p]

LEMMA PlaceFacts ==
  ASSUME DaemonAssumption, NEW k, Coherent(k), NEW p \in Places,
         k.at # "idle",
         p \in {"capture", "unenv", "uncapture", "unmint", "ask", "env"},
         p = "capture" => k.name = "setup" /\ k.child = None,
         p = "env" => k.name = "setup",
         p \in {"unenv", "uncapture", "unmint"} => k.name = "teardown"
  PROVE  LET r == MovedTo(k, p)
         IN /\ Coherent(r) /\ r.at = p /\ r.name = k.name /\ r.child = k.child
            /\ r.saw = k.saw /\ r.told = "nothing"
<1> DEFINE r == MovedTo(k, p)
<1>1. /\ r \in Commands /\ r.name = k.name /\ r.child = k.child /\ r.args = k.args
      /\ r.told = k.told /\ r.at = p /\ r.saw = k.saw /\ r.why = k.why
  BY DEF Coherent, Commands, MovedTo
<1>2. k.told = "nothing"
  BY DEF Coherent, Commands
<1> HIDE DEF r
<1>3. Coherent(r)
  BY <1>1, <1>2 DEF Coherent
<1> QED  BY <1>1, <1>2, <1>3 DEF r

(* All but the arrangement of the files. *)
LEMMA GoesKeeps ==
  ASSUME DaemonAssumption, IInv, NEW a \in Actors, NEW r,
         Command(a, r), UNCHANGED <<file, daemons, history, commands>>,
         Coherent(r), r.saw \in {cmd[a].saw, None}, r.at \notin {"clear", "erase"}, r.told = "nothing",
         uplinks' \in Captures \cup {None}, material' \in BOOLEAN, env' \in BOOLEAN
  PROVE  /\ TypeOK' /\ DaemonsKnown' /\ FileKnown' /\ CommandsKnown' /\ ServingIsNamed'
         /\ \A b \in Actors : cmd'[b] = IF b = a THEN r ELSE cmd[b]
<1>1. Moves
  BY StillMoves DEF daemons, history
<1>2. Informed(r)'
  BY DEF IInv, CommandsKnown, Informed, daemons, Past
<1>3. CommandsKnown' /\ cmd' \in [Actors -> Commands]
  BY <1>1, <1>2, CommandStep
<1>4. TypeOK' /\ DaemonsKnown' /\ FileKnown' /\ ServingIsNamed'
  BY <1>3 DEF IInv, TypeOK, DaemonsKnown, FileKnown, ServingIsNamed, Named, Past, daemons, history
<1> QED  BY <1>3, <1>4, TypeFacts DEF Command

LEMMA InterruptKeeps ==
  ASSUME DaemonAssumption, IInv, NEW a \in Actors, Interrupt(a) PROVE IInv'
<1>1. PICK r : r = NoCommand /\ Command(a, r)
  BY DEF Interrupt, Quit
<1>2. Coherent(r) /\ r.saw = None /\ r.told = "nothing" /\ r.at = "idle" /\ r.name = "none"
  BY <1>1, NoCommandFacts
<1>3. TypeOK' /\ DaemonsKnown' /\ FileKnown' /\ CommandsKnown' /\ ServingIsNamed'
  BY <1>1, <1>2, GoesKeeps DEF Interrupt, IInv, TypeOK, files
<1>4. Arranged'
  BY <1>1, <1>2, ArrangedStep DEF Interrupt, daemons, history
<1> QED  BY <1>3, <1>4 DEF IInv

LEMMA MintKeeps ==
  ASSUME DaemonAssumption, IInv, NEW a \in Actors, Mint(a) PROVE IInv'
<1>1. PICK k : k = cmd[a]
  OBVIOUS
<1>2. Coherent(k) /\ k.at = "mint" /\ k.name = "setup" /\ k.child = None
  BY <1>1 DEF IInv, CommandsKnown, Mint, Goes, At, Coherent
<1>3. PICK r : Command(a, r) /\ r = MovedTo(k, "capture")
  BY <1>1 DEF Mint, Goes, MovedTo
<1>4. Coherent(r) /\ r.at = "capture" /\ r.name = "setup" /\ r.child = None /\ r.saw = k.saw
      /\ r.told = "nothing"
  <2>1. "capture" \in Places
    BY DEF Places
  <2> QED  BY <1>2, <1>3, <2>1, PlaceFacts
<1>5. /\ TypeOK' /\ DaemonsKnown' /\ FileKnown' /\ CommandsKnown' /\ ServingIsNamed'
      /\ \A b \in Actors : cmd'[b] = IF b = a THEN r ELSE cmd[b]
  <2>1. uplinks' \in Captures \cup {None} /\ material' \in BOOLEAN /\ env' \in BOOLEAN
    BY DEF Mint, IInv, TypeOK
  <2>2. UNCHANGED <<file, daemons, history, commands>>
    BY DEF Mint, Goes
  <2> QED  BY <1>1, <1>3, <1>4, <2>1, <2>2, GoesKeeps
<1>6. Arranged'
  <2> SUFFICES ASSUME ~clashed
               PROVE  (OneArranges /\ SetupKnown /\ TeardownKnown /\ SpawnedKnown
                        /\ (env => material /\ uplinks # None))'
    BY DEF Arranged, Mint, Goes, history
  <2>1. OneArranges /\ SetupKnown /\ TeardownKnown /\ SpawnedKnown
        /\ (env => material /\ uplinks # None)
    BY DEF IInv, Arranged
  <2>2. OneArranges'
    BY <1>1, <1>2, <1>4, <1>5, <2>1 DEF OneArranges, Arranges
  <2>3. SetupKnown'
    BY <1>4, <1>5, <2>1 DEF SetupKnown, Mint
  <2>4. TeardownKnown'
    BY <1>4, <1>5, <2>1 DEF TeardownKnown, Mint
  <2>5. SpawnedKnown'
    BY <1>4, <1>5, <2>1 DEF SpawnedKnown, Mint, Goes, daemons, DaemonAssumption
  <2> QED  BY <2>1, <2>2, <2>3, <2>4, <2>5 DEF Mint
<1> QED  BY <1>5, <1>6 DEF IInv

LEMMA CaptureKeeps ==
  ASSUME DaemonAssumption, IInv, NEW a \in Actors, Capture(a) PROVE IInv'
<1>1. PICK k : k = cmd[a]
  OBVIOUS
<1>2. Coherent(k) /\ k.at = "capture" /\ k.name = "setup" /\ k.child = None
  BY <1>1 DEF IInv, CommandsKnown, Capture, Goes, At, Coherent
<1>3. PICK r : Command(a, r) /\ r = Ask(k, "start")
  BY <1>1 DEF Capture, Goes
<1>4. Coherent(r) /\ r.at = "ask" /\ r.name = "setup" /\ r.child = None /\ r.saw = k.saw
      /\ r.told = "nothing"
  <2>1. /\ r \in Commands /\ r.name = k.name /\ r.child = k.child /\ r.args = k.args
        /\ r.told = k.told /\ r.at = "ask" /\ r.saw = k.saw /\ r.why = "start"
    BY <1>2, <1>3 DEF Ask, Coherent, Commands, Places, Questions
  <2>2. k.told = "nothing"
    BY <1>2 DEF Coherent, Commands
  <2> QED  BY <1>2, <2>1, <2>2 DEF Coherent, Starters
<1>5. /\ TypeOK' /\ DaemonsKnown' /\ FileKnown' /\ CommandsKnown' /\ ServingIsNamed'
      /\ \A b \in Actors : cmd'[b] = IF b = a THEN r ELSE cmd[b]
  BY <1>1, <1>3, <1>4, GoesKeeps DEF Capture, Goes, IInv, TypeOK
<1>6. Arranged'
  <2> SUFFICES ASSUME ~clashed
               PROVE  (OneArranges /\ SetupKnown /\ TeardownKnown /\ SpawnedKnown
                        /\ (env => material /\ uplinks # None))'
    BY DEF Arranged, Capture, Goes, history
  <2>1. OneArranges /\ SetupKnown /\ TeardownKnown /\ SpawnedKnown
        /\ (env => material /\ uplinks # None)
    BY DEF IInv, Arranged
  <2>0. uplinks' # None
    BY DEF Capture, DaemonAssumption
  <2>2. OneArranges'
    BY <1>1, <1>2, <1>4, <1>5, <2>1 DEF OneArranges, Arranges
  <2>3. SetupKnown'
    BY <1>1, <1>2, <1>4, <1>5, <2>0, <2>1 DEF SetupKnown, Capture
  <2>4. TeardownKnown'
    BY <1>4, <1>5, <2>1 DEF TeardownKnown, Capture
  <2>5. SpawnedKnown'
    <3>1. \A b \in Actors : cmd'[b].name = "setup" => b = a
      BY <1>1, <1>2, <1>4, <1>5, <2>1 DEF OneArranges, Arranges
    <3> QED  BY <1>4, <1>5, <3>1 DEF SpawnedKnown, DaemonAssumption
  <2> QED  BY <2>0, <2>1, <2>2, <2>3, <2>4, <2>5 DEF Capture
<1> QED  BY <1>5, <1>6 DEF IInv

LEMMA WriteEnvKeeps ==
  ASSUME DaemonAssumption, IInv, NEW a \in Actors, WriteEnv(a) PROVE IInv'
<1>1. cmd[a].name = "setup" /\ cmd[a].at = "env"
  BY DEF IInv, CommandsKnown, Coherent, WriteEnv, Goes, At
<1>2. PICK r : r = NoCommand /\ Command(a, r)
  BY DEF WriteEnv, Goes, Quit
<1>3. Coherent(r) /\ r.saw = None /\ r.told = "nothing" /\ r.at = "idle" /\ r.name = "none"
  BY <1>2, NoCommandFacts
<1>4. /\ TypeOK' /\ DaemonsKnown' /\ FileKnown' /\ CommandsKnown' /\ ServingIsNamed'
      /\ \A b \in Actors : cmd'[b] = IF b = a THEN r ELSE cmd[b]
  BY <1>2, <1>3, GoesKeeps DEF WriteEnv, Goes, IInv, TypeOK
<1>5. Arranged'
  <2> SUFFICES ASSUME ~clashed
               PROVE  (OneArranges /\ SetupKnown /\ TeardownKnown /\ SpawnedKnown
                        /\ (env => material /\ uplinks # None))'
    BY DEF Arranged, WriteEnv, Goes, history
  <2>1. OneArranges /\ SetupKnown /\ TeardownKnown /\ SpawnedKnown
    BY DEF IInv, Arranged
  <2>2. OneArranges'
    BY <1>3, <1>4, <2>1 DEF OneArranges, Arranges
  <2>3. material /\ uplinks # None /\ SetupKnown'
    BY <1>1, <1>3, <1>4, <2>1 DEF SetupKnown, WriteEnv
  <2>4. TeardownKnown'
    <3>1. \A b \in Actors : cmd[b].at \in {"uncapture", "unmint"} => cmd[b].name = "teardown"
      BY DEF IInv, CommandsKnown, Coherent
    <3>2. \A b \in Actors : cmd[b].name # "teardown"
      BY <1>1, <2>1 DEF OneArranges, Arranges
    <3> QED  BY <1>3, <1>4, <3>1, <3>2 DEF TeardownKnown
  <2>5. SpawnedKnown'
    BY <1>3, <1>4, <2>1 DEF SpawnedKnown, WriteEnv, Goes, daemons
  <2> QED  BY <2>2, <2>3, <2>4, <2>5 DEF WriteEnv
<1> QED  BY <1>4, <1>5 DEF IInv

(* While a command tears down, no other sets up. *)
LEMMA TeardownStep ==
  ASSUME IInv, NEW a \in Actors, NEW r, cmd[a].name = "teardown",
         r.name \in {"teardown", "none"},
         \A b \in Actors : cmd'[b] = IF b = a THEN r ELSE cmd[b],
         UNCHANGED <<daemons, clashed>>, ~clashed => ~env'
  PROVE  Arranged'
<1> SUFFICES ASSUME ~clashed
             PROVE  (OneArranges /\ SetupKnown /\ TeardownKnown /\ SpawnedKnown
                      /\ (env => material /\ uplinks # None))'
  BY DEF Arranged
<1>1. OneArranges
  BY DEF IInv, Arranged
<1>2. OneArranges' /\ \A b \in Actors : cmd'[b].name # "setup"
  BY <1>1 DEF OneArranges, Arranges
<1> QED  BY <1>2 DEF SetupKnown, TeardownKnown, SpawnedKnown

LEMMA TeardownKeeps ==
  ASSUME DaemonAssumption, IInv, NEW a \in Actors,
         RemoveEnv(a) \/ RemoveUplinks(a) \/ RemoveMaterial(a)
  PROVE  IInv'
<1>1. PICK k : k = cmd[a]
  OBVIOUS
<1>2. Coherent(k) /\ k.at \in {"unenv", "uncapture", "unmint"} /\ k.name = "teardown"
  BY <1>1 DEF IInv, CommandsKnown, RemoveEnv, RemoveUplinks, RemoveMaterial, Goes, At, Coherent
<1>3. PICK r : Command(a, r) /\ r \in {MovedTo(k, "uncapture"), MovedTo(k, "unmint"), NoCommand}
  BY <1>1 DEF RemoveEnv, RemoveUplinks, RemoveMaterial, Goes, MovedTo, Quit
<1>4. /\ Coherent(r) /\ r.name \in {"teardown", "none"} /\ r.saw \in {k.saw, None}
      /\ r.told = "nothing" /\ r.at \in {"uncapture", "unmint", "idle"}
  <2>1. "uncapture" \in Places /\ "unmint" \in Places
    BY DEF Places
  <2>2. k.at # "idle"
    BY <1>2
  <2>3. CASE r = MovedTo(k, "uncapture")
    BY <1>2, <2>1, <2>2, <2>3, PlaceFacts
  <2>4. CASE r = MovedTo(k, "unmint")
    BY <1>2, <2>1, <2>2, <2>4, PlaceFacts
  <2>5. CASE r = NoCommand
    BY <2>5, NoCommandFacts
  <2> QED  BY <1>3, <2>3, <2>4, <2>5
<1>5. /\ UNCHANGED <<file, daemons, history, commands>>
      /\ uplinks' \in Captures \cup {None} /\ material' \in BOOLEAN /\ env' \in BOOLEAN
  <2>1. uplinks \in Captures \cup {None} /\ material \in BOOLEAN /\ env \in BOOLEAN
    BY DEF IInv, TypeOK
  <2>2. CASE RemoveEnv(a)
    BY <2>1, <2>2 DEF RemoveEnv, Goes
  <2>3. CASE RemoveUplinks(a)
    BY <2>1, <2>3 DEF RemoveUplinks, Goes
  <2>4. CASE RemoveMaterial(a)
    BY <2>1, <2>4 DEF RemoveMaterial, Goes
  <2> QED  BY <2>2, <2>3, <2>4
<1>6. /\ TypeOK' /\ DaemonsKnown' /\ FileKnown' /\ CommandsKnown' /\ ServingIsNamed'
      /\ \A b \in Actors : cmd'[b] = IF b = a THEN r ELSE cmd[b]
  BY <1>1, <1>3, <1>4, <1>5, GoesKeeps
<1>7. ~clashed => ~env'
  BY DEF RemoveEnv, RemoveUplinks, RemoveMaterial, Goes, At, IInv, Arranged, TeardownKnown
<1>8. Arranged'
  BY <1>1, <1>2, <1>4, <1>5, <1>6, <1>7, TeardownStep DEF history
<1> QED  BY <1>6, <1>8 DEF IInv

-----------------------------------------------------------------------------
(***************************************************************************)
(* Starting.                                                               *)
(***************************************************************************)
LEMMA BootFacts ==
  ASSUME IInv, NEW d \in Daemons, NEW x \in Args, Boot(d, x), UNCHANGED <<file, history>>
  PROVE  /\ Moves /\ DaemonsKnown' /\ FileKnown' /\ ServingIsNamed'
         /\ st' \in [Daemons -> States] /\ args' \in [Daemons -> Args \cup {NoArgs}]
         /\ term' \subseteq {e \in Daemons : st'[e] \notin {"free", "dead"}}
         /\ \A e \in Daemons : st'[e] = IF e = d THEN "boot" ELSE st[e]
<1>1. /\ st' \in [Daemons -> States] /\ st[d] = "free"
      /\ \A e \in Daemons : st'[e] = IF e = d THEN "boot" ELSE st[e]
  BY TypeFacts DEF Boot, Become, States
<1>2. args' \in [Daemons -> Args \cup {NoArgs}] /\ DaemonsKnown'
  BY <1>1, TypeFacts DEF Boot, IInv, DaemonsKnown
<1>3. Moves
  BY <1>1, StillMoves DEF history
<1>4. FileKnown' /\ ServingIsNamed'
  BY <1>1, TypeFacts DEF IInv, FileKnown, ServingIsNamed, Named, Past, history
<1>5. term' \subseteq {e \in Daemons : st'[e] \notin {"free", "dead"}}
  BY <1>1 DEF Boot, IInv, TypeOK
<1> QED  BY <1>1, <1>2, <1>3, <1>4, <1>5

LEMMA RunForegroundKeeps ==
  ASSUME DaemonAssumption, IInv, NEW d \in Daemons, NEW x \in Args, RunForeground(d, x) PROVE IInv'
<1>1. Boot(d, x) /\ UNCHANGED <<file, history>>
  BY DEF RunForeground
<1>2. /\ Moves /\ DaemonsKnown' /\ FileKnown' /\ ServingIsNamed'
      /\ st' \in [Daemons -> States] /\ args' \in [Daemons -> Args \cup {NoArgs}]
      /\ term' \subseteq {e \in Daemons : st'[e] \notin {"free", "dead"}}
      /\ \A e \in Daemons : st'[e] = IF e = d THEN "boot" ELSE st[e]
  BY <1>1, BootFacts
<1>3. commands' \in 0 .. MaxCommands
  BY DEF RunForeground, IInv, TypeOK, DaemonAssumption
<1>4. TypeOK'
  BY <1>2, <1>3 DEF RunForeground, Boot, IInv, TypeOK, files, history
<1>5. CommandsKnown'
  BY <1>2, CommandsKept DEF RunForeground
<1>6. Arranged'
  BY <1>2, ArrangedKept DEF RunForeground, Boot, history
<1> QED  BY <1>2, <1>4, <1>5, <1>6 DEF IInv

LEMMA SpawnKeeps ==
  ASSUME DaemonAssumption, IInv, NEW a \in Actors, Spawn(a) PROVE IInv'
<1>1. PICK k : k = cmd[a]
  OBVIOUS
<1>2. Coherent(k) /\ Informed(k) /\ k.at = "spawn" /\ k.args \in Args
      /\ k \in Commands /\ k.name \in Starters /\ k.told = "nothing"
  BY <1>1 DEF IInv, CommandsKnown, Spawn, At, Coherent, Commands
<1>3. PICK d \in Daemons : Boot(d, k.args) /\ Command(a, [Ask(k, "started") EXCEPT !.child = d])
  BY <1>1 DEF Spawn
<1>4. PICK r : Command(a, r) /\ r = [Ask(k, "started") EXCEPT !.child = d]
  BY <1>3
<1>5. /\ r \in Commands /\ r.name = k.name /\ r.child = d /\ r.args = k.args
      /\ r.told = k.told /\ r.at = "ask" /\ r.saw = k.saw /\ r.why = "started"
  <2>1. r = [k EXCEPT !.at = "ask", !.why = "started", !.child = d]
    BY <1>2, <1>4 DEF Ask, Commands
  <2> QED  BY <1>2, <2>1 DEF Commands, Places, Questions, Pids
<1>6. /\ Moves /\ DaemonsKnown' /\ FileKnown' /\ ServingIsNamed'
      /\ st' \in [Daemons -> States] /\ args' \in [Daemons -> Args \cup {NoArgs}]
      /\ term' \subseteq {e \in Daemons : st'[e] \notin {"free", "dead"}}
      /\ \A e \in Daemons : st'[e] = IF e = d THEN "boot" ELSE st[e]
  BY <1>2, <1>3, BootFacts DEF Spawn
<1>7. Coherent(r) /\ Informed(r)
  BY <1>2, <1>5 DEF Coherent, Informed
<1>8. CommandsKnown' /\ cmd' \in [Actors -> Commands]
  BY <1>4, <1>6, <1>7, InformedStays, CommandStep
<1>9. TypeOK'
  BY <1>3, <1>6, <1>8 DEF Spawn, Boot, IInv, TypeOK, files, history
<1>10. Arranged'
  <2> SUFFICES ASSUME ~clashed
               PROVE  (OneArranges /\ SetupKnown /\ TeardownKnown /\ SpawnedKnown
                        /\ (env => material /\ uplinks # None))'
    BY DEF Arranged, Spawn, history
  <2>1. OneArranges /\ SetupKnown /\ TeardownKnown /\ SpawnedKnown
        /\ (env => material /\ uplinks # None)
    BY DEF IInv, Arranged
  <2>2. \A b \in Actors : cmd'[b] = IF b = a THEN r ELSE cmd[b]
    BY <1>4, TypeFacts DEF Command
  <2>3. OneArranges'
    BY <1>1, <1>5, <2>1, <2>2 DEF OneArranges, Arranges
  <2>4. SetupKnown' /\ TeardownKnown'
    BY <1>1, <1>2, <1>5, <2>1, <2>2 DEF SetupKnown, TeardownKnown, Spawn, files
  <2>5. SpawnedKnown'
    BY <1>3, <1>5, <1>6, <2>1, <2>2 DEF SpawnedKnown, Spawn, Boot, files
  <2> QED  BY <2>1, <2>3, <2>4, <2>5 DEF Spawn, files
<1> QED  BY <1>6, <1>8, <1>9, <1>10 DEF IInv

(* A command before its first step. *)
LEMMA FirstFacts ==
  ASSUME DaemonAssumption, NEW name \in Names, NEW x \in Args
  PROVE  LET r == [NoCommand EXCEPT !.name = name, !.at = First(name), !.why = Question(name),
                     !.args = IF name \in {"status", "stop", "teardown"} THEN NoArgs ELSE x]
         IN /\ Coherent(r) /\ r.name = name /\ r.saw = None /\ r.told = "nothing" /\ r.child = None
            /\ r.at \in {"mint", "ask"} /\ (r.name = "setup" => r.at = "mint")
<1> DEFINE r == [NoCommand EXCEPT !.name = name, !.at = First(name), !.why = Question(name),
                   !.args = IF name \in {"status", "stop", "teardown"} THEN NoArgs ELSE x]
<1>1. /\ First(name) \in {"mint", "ask"} /\ (First(name) = "mint" <=> name = "setup")
      /\ Question(name) \in {"start", "stop", "status", "ensure", "exec"}
      /\ (Question(name) = "start" => name \in {"start", "setup"})
      /\ (Question(name) = "ensure" => name = "ensure") /\ (Question(name) = "exec" => name = "exec")
  BY DEF First, Question, Names
<1>2. /\ r.name = name /\ r.at = First(name) /\ r.why = Question(name) /\ r.tries = 0
      /\ r.saw = None /\ r.told = "nothing" /\ r.child = None /\ r.stale = None
      /\ r.args = IF name \in {"status", "stop", "teardown"} THEN NoArgs ELSE x
  BY DEF NoCommand
<1>3. r.args \in Args \cup {NoArgs} /\ (name \in Starters => r.args \in Args)
  BY <1>2 DEF Starters
<1>4. r \in Commands
  <2>1. First(name) \in Places /\ Question(name) \in Questions /\ NoCommand \in Commands
    BY <1>1, NoCommandFacts DEF Places, Questions, Coherent
  <2> QED  BY <2>1 DEF Commands
<1> HIDE DEF r
<1>5. Coherent(r)
  BY <1>1, <1>2, <1>3, <1>4 DEF Coherent, Starters
<1> QED  BY <1>1, <1>2, <1>5 DEF r

LEMMA RunKeeps ==
  ASSUME DaemonAssumption, IInv, NEW a \in Actors, NEW name \in Names, NEW x \in Args,
         Run(a, name, x)
  PROVE  IInv'
<1>1. PICK r : /\ Command(a, r)
               /\ r = [NoCommand EXCEPT !.name = name, !.at = First(name), !.why = Question(name),
                         !.args = IF name \in {"status", "stop", "teardown"} THEN NoArgs ELSE x]
  BY DEF Run
<1>2. /\ Coherent(r) /\ r.name = name /\ r.saw = None /\ r.told = "nothing" /\ r.child = None
      /\ r.at \in {"mint", "ask"} /\ (r.name = "setup" => r.at = "mint")
  BY <1>1, FirstFacts
<1>3. Moves /\ Informed(r)'
  BY <1>2, StillMoves DEF Run, daemons, Informed
<1>4. CommandsKnown' /\ cmd' \in [Actors -> Commands]
  BY <1>1, <1>2, <1>3, CommandStep
<1>5. TypeOK'
  <2>1. commands' \in 0 .. MaxCommands
    BY DEF Run, IInv, TypeOK, DaemonAssumption
  <2>2. clashed' \in BOOLEAN
    BY DEF Run, IInv, TypeOK
  <2> QED  BY <1>4, <2>1, <2>2 DEF Run, IInv, TypeOK, files, daemons
<1>6. DaemonsKnown' /\ FileKnown' /\ ServingIsNamed'
  BY DEF Run, IInv, DaemonsKnown, FileKnown, ServingIsNamed, Named, Past, daemons
<1>7. Arranged'
  <2> SUFFICES ASSUME ~clashed'
               PROVE  (OneArranges /\ SetupKnown /\ TeardownKnown /\ SpawnedKnown
                        /\ (env => material /\ uplinks # None))'
    BY DEF Arranged
  <2>1. ~clashed /\ ~(Arranges(name) /\ \E b \in Actors : Arranges(cmd[b].name))
    BY DEF Run
  <2>2. OneArranges /\ SetupKnown /\ TeardownKnown /\ SpawnedKnown
        /\ (env => material /\ uplinks # None)
    BY <2>1 DEF IInv, Arranged
  <2>3. \A b \in Actors : cmd'[b] = IF b = a THEN r ELSE cmd[b]
    BY <1>1, TypeFacts DEF Command
  <2>4. OneArranges'
    BY <1>2, <2>1, <2>2, <2>3 DEF OneArranges
  <2>5. SetupKnown' /\ TeardownKnown'
    BY <1>2, <2>2, <2>3 DEF SetupKnown, TeardownKnown, Run, files
  <2>6. SpawnedKnown'
    BY <1>2, <2>2, <2>3 DEF SpawnedKnown, Run, files, daemons, DaemonAssumption
  <2> QED  BY <2>2, <2>4, <2>5, <2>6 DEF Run, files
<1> QED  BY <1>4, <1>5, <1>6, <1>7 DEF IInv

-----------------------------------------------------------------------------
LEMMA IInvInit == DaemonAssumption /\ Init => IInv
<1> SUFFICES ASSUME DaemonAssumption, Init PROVE IInv
  OBVIOUS
<1>1. Coherent(NoCommand) /\ NoCommand.saw = None /\ NoCommand.told = "nothing"
      /\ NoCommand.at = "idle" /\ NoCommand.name = "none"
  BY NoCommandFacts
<1>2. CommandsKnown /\ cmd \in [Actors -> Commands]
  <2>1. NoCommand \in Commands /\ Informed(NoCommand)
    BY <1>1 DEF Informed, Coherent
  <2>2. \A a \in Actors : cmd[a] = NoCommand
    BY DEF Init
  <2>3. CommandsKnown
    BY <1>1, <2>1, <2>2 DEF CommandsKnown
  <2>4. cmd \in [Actors -> Commands]
    BY <2>1 DEF Init
  <2> QED  BY <2>3, <2>4
<1>3. TypeOK
  <2>0. material \in BOOLEAN /\ env \in BOOLEAN /\ clashed \in BOOLEAN
    BY DEF Init
  <2>1. /\ file \in Entries \cup {None} /\ uplinks \in Captures \cup {None}
        /\ crossed \subseteq Daemons /\ commands \in 0 .. MaxCommands
        /\ term \subseteq {d \in Daemons : st[d] \notin {"free", "dead"}}
    BY DEF Init, DaemonAssumption
  <2>2. /\ st \in [Daemons -> States] /\ args \in [Daemons -> Args \cup {NoArgs}]
        /\ loaded \in [Daemons -> Captures \cup {None}]
    BY DEF Init, States
  <2> QED  BY <1>2, <2>0, <2>1, <2>2 DEF TypeOK
<1>4. DaemonsKnown /\ FileKnown /\ ServingIsNamed
  BY DEF Init, DaemonsKnown, FileKnown, ServingIsNamed
<1>5. Arranged
  BY <1>1 DEF Init, Arranged, OneArranges, SetupKnown, TeardownKnown, SpawnedKnown, Arranges
<1> QED  BY <1>2, <1>3, <1>4, <1>5 DEF IInv

LEMMA IInvStep == DaemonAssumption /\ IInv /\ [Next]_vars => IInv'
<1> SUFFICES ASSUME DaemonAssumption, IInv, [Next]_vars PROVE IInv'
  OBVIOUS
<1>1. ASSUME NEW d \in Daemons, DaemonNext(d) PROVE IInv'
  <2>1. CASE Load(d) \/ Listen(d) \/ Publish(d) \/ Shutdown(d)
    BY <2>1, LoadKeeps, ListenKeeps, PublishKeeps, ShutdownKeeps
  <2>2. CASE Killed(d) \/ Closed(d) \/ Die(d) \/ Reuse(d)
    <3>1. UNCHANGED <<file, files, cmd, history, commands>>
      BY <2>2 DEF Killed, Closed, Die, Reuse
    <3>2. \/ End(d) /\ Alive(d)
          \/ Reuse(d)
          \/ term' = term \ {d} /\ UNCHANGED <<st, args, loaded>>
      BY <2>2 DEF Killed, Closed, Die, Alive, IInv, TypeOK
    <3> QED  BY <3>1, <3>2, EndingKeeps
  <2> QED  BY <1>1, <2>1, <2>2 DEF DaemonNext
<1>2. ASSUME NEW a \in Actors, Proceed(a) \/ Interrupt(a) PROVE IInv'
  BY <1>2, LookKeeps, ClearStaleKeeps, SpawnKeeps, SignalKeeps, EraseKeeps, MintKeeps, CaptureKeeps,
     WriteEnvKeeps, TeardownKeeps, InterruptKeeps DEF Proceed
<1>3. ASSUME UNCHANGED vars PROVE IInv'
  <2>1. TypeOK' /\ DaemonsKnown' /\ FileKnown' /\ ServingIsNamed'
    BY <1>3 DEF vars, IInv, TypeOK, DaemonsKnown, FileKnown, ServingIsNamed, Named, Past,
                files, daemons, history
  <2>2. CommandsKnown'
    BY <1>3, StillMoves, CommandsKept DEF vars, daemons, history
  <2>3. Arranged'
    BY <1>3 DEF vars, files, daemons, history, IInv, Arranged, OneArranges, SetupKnown, TeardownKnown,
                SpawnedKnown
  <2> QED  BY <2>1, <2>2, <2>3 DEF IInv
<1> QED  BY <1>1, <1>2, <1>3, RunKeeps, RunForegroundKeeps DEF Next

(***************************************************************************)
(* Theorems.                                                               *)
(***************************************************************************)
(* The inductive invariant holds in every state of every behaviour. *)
THEOREM DaemonInvariance == Spec => []IInv
<1> USE DaemonAssumption
<1> QED  BY IInvInit, IInvStep, PTL DEF Spec

(* The variables always have their types. *)
THEOREM DaemonTypeCorrect == Spec => []TypeOK
BY DaemonInvariance, PTL DEF IInv

(* A daemon that serves is named by the state file, unless another process took its
   entry away (proxy-daemon.ts:99-106).                                            *)
THEOREM ServingDaemonFound == Spec => []ServingIsNamed
BY DaemonInvariance, PTL DEF IInv

(* Every start that reports success found a daemon that had bound its port
   (commands/proxy.ts:167-181).                                            *)
THEOREM StartIsTrue == Spec => []StartedHasBound
<1>1. ASSUME IInv, NEW a \in Actors, cmd[a].told = "started" PROVE Past(cmd[a].saw)
  <2>1. cmd[a].saw \in Daemons
    BY <1>1 DEF IInv, CommandsKnown, Coherent
  <2> QED  BY <1>1, <2>1, DaemonAssumption DEF IInv, CommandsKnown, Informed
<1>2. IInv => StartedHasBound
  BY <1>1 DEF StartedHasBound, Past
<1> QED  BY <1>2, DaemonInvariance, PTL

(* Every stop that reports success leaves its daemon accepting nothing, unless
   another process had removed its entry (commands/proxy.ts:185-206).          *)
THEOREM StopIsTrue == Spec => []StoppedIsStopped
<1>1. IInv => StoppedIsStopped
  BY DEF IInv, CommandsKnown, Informed, StoppedIsStopped, Lost
<1> QED  BY <1>1, DaemonInvariance, PTL

(* An env file is backed by certificates and uplinks while setup and teardown do not
   overlap, wherever they are interrupted (commands/proxy.ts:262-336).             *)
THEOREM EnvIsBacked == Spec => []EnvBacked
<1>1. IInv => EnvBacked
  BY DEF IInv, Arranged, EnvBacked
<1> QED  BY <1>1, DaemonInvariance, PTL

(* The daemon setup itself started serves with the uplinks it captured
   (commands/proxy.ts:289-295).                                            *)
THEOREM SetupIsServed == Spec => []SetupCaptured
<1>1. IInv => SetupCaptured
  BY DEF IInv, CommandsKnown, Coherent, Arranged, SpawnedKnown, SetupCaptured, At
<1> QED  BY <1>1, DaemonInvariance, PTL


(* What start, stop and setup say they did is so. *)
THEOREM CommandsDoTakeEffect == Spec => []CommandsTakeEffect
BY StartIsTrue, StopIsTrue, EnvIsBacked, SetupIsServed, PTL DEF CommandsTakeEffect
=============================================================================
