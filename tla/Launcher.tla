------------------------------- MODULE Launcher -------------------------------
(***************************************************************************)
(* The launcher scripts of the two checkpoints (scripts/                     *)
(* helios_glm53_server.sh, helios_glm53flash_abl_server.sh) on one port: each *)
(* has a process id file of its own, and either may meet a server of the      *)
(* other.  A script holds a lock while it runs.  That of the port is what     *)
(* both are to hold; but one of them names its lock file before it reads      *)
(* --port, from the environment, and does without a lock where there is no    *)
(* flock.                                                                  *)
(*                                                                         *)
(* A server loads its model for minutes before it listens, so until then    *)
(* nothing is to be seen on the port; then it listens with SO_REUSEPORT     *)
(* (third_party/httplib.h), so a second one may too.  A process id is used   *)
(* again only when nothing mentions it any more: the files keep the start    *)
(* time beside it.                                                         *)
(*                                                                         *)
(* A test and the command that acts on it are one step where nothing is      *)
(* between them but reading; what a sleep, a wait or another process         *)
(* separates are steps of their own.                                       *)
(***************************************************************************)
EXTENDS Integers, FiniteSets

CONSTANTS
  Shells,         \* terminals that run the scripts
  NServers,       \* bound: processes at once
  Mishaps         \* bound: the values of <<interrupts, lapses>>

VARIABLES
  servers,        \* process -> what it does and whose launcher started it
  pidFile,        \* launcher -> the process in its file, or NoProcess
  shells,         \* shell -> where in which script it is, and the lock it holds
  interrupts,     \* scripts that were interrupted
  lapses          \* scripts with another lock than the port's, or that could not
                  \* ask whether the port is taken

launching == <<servers, pidFile, shells, interrupts, lapses>>

Launchers == {"glm53", "abl"}
Processes == 1..NServers
NoProcess == 0

Gone == [state |-> "gone", by |-> "nobody"]
Idle == [at |-> "idle", of |-> "nobody", again |-> FALSE, pid |-> NoProcess, lock |-> "other"]

LauncherInit ==
  /\ servers = [p \in Processes |-> Gone]
  /\ pidFile = [l \in Launchers |-> NoProcess]
  /\ shells = [s \in Shells |-> Idle] /\ interrupts = 0 /\ lapses = 0

Alive == {p \in Processes : servers[p] # Gone}

\* The curl of wait_ready and the ss of start() ask the port, not a process.
Answered == \E p \in Alive : servers[p].state = "serving"

IsRunning(l) == pidFile[l] \in Alive

At(s, place) == shells[s].at = place
Go(s, place) == shells' = [shells EXCEPT ![s].at = place] /\ UNCHANGED interrupts
Exit(s)      == shells' = [shells EXCEPT ![s] = Idle] /\ UNCHANGED interrupts
Killed(set)  == servers' = [p \in Processes |-> IF p \in set THEN Gone ELSE servers[p]]
Forget(s)    == pidFile' = [pidFile EXCEPT ![shells[s].of] = NoProcess]
Lapse        == <<interrupts, lapses + 1>> \in Mishaps /\ lapses' = lapses + 1

-----------------------------------------------------------------------------

\* SERVER_LOCK_FILE is set from PORT after the arguments are read, or before, and
\* then it may be another port's; that, and no lock where there is no flock, is
\* "other": no script waits for it.
MayName(l) == IF l = "glm53" THEN {"port", "other"} ELSE {"port"}

\* Mutant: a script that cannot lock goes on.
AnyoneMay(lock) == TRUE

\* flock -n 9; whoever does not get it exits at once.
MayLock(lock) == lock = "port" => \A o \in Shells : shells[o].lock # lock

Run(s) ==
  /\ At(s, "idle")
  /\ \E l \in Launchers, command \in {"start", "stop", "restart"} : \E lock \in MayName(l) :
       /\ MayLock(lock)
       /\ IF lock = "port" THEN UNCHANGED lapses ELSE Lapse
       /\ shells' = [shells EXCEPT ![s] =
                       [at |-> IF command = "start" THEN "start" ELSE "stop",
                        of |-> l, again |-> command = "restart", pid |-> NoProcess, lock |-> lock]]
  /\ UNCHANGED <<servers, pidFile, interrupts>>

(* start().                                                                *)

\* The engine, the model and the programs it needs must be there.
CheckRunning(s) ==
  /\ At(s, "start")
  /\ Exit(s) \/ (~IsRunning(shells[s].of) /\ Go(s, "port"))
  /\ UNCHANGED <<servers, pidFile, lapses>>

\* Without ss (or rg) the port counts as free.
CheckPort(s) ==
  /\ At(s, "port")
  /\ \/ Answered /\ Exit(s) /\ UNCHANGED lapses
     \/ ~Answered /\ Go(s, "memory") /\ UNCHANGED lapses
     \/ Answered /\ Go(s, "memory") /\ Lapse
  /\ UNCHANGED <<servers, pidFile>>

\* wait_vram: without enough memory one launcher warns, the other gives up.
WaitMemory(s) ==
  /\ At(s, "memory")
  /\ Go(s, "clean") \/ (shells[s].of = "abl" /\ Exit(s))
  /\ UNCHANGED <<servers, pidFile, lapses>>

Clean(s) ==
  /\ At(s, "clean")
  /\ Forget(s) /\ Go(s, "spawn")
  /\ UNCHANGED <<servers, lapses>>

Mentioned == {pidFile[l] : l \in Launchers} \union {shells[s].pid : s \in Shells}

\* The server does not inherit the lock: 9>&-.
Spawn(s) ==
  /\ At(s, "spawn")
  /\ \E p \in Processes \ (Alive \union Mentioned) :
       /\ servers' = [servers EXCEPT ![p] = [state |-> "loading", by |-> shells[s].of]]
       /\ shells' = [shells EXCEPT ![s].at = "record", ![s].pid = p]
  /\ UNCHANGED <<pidFile, interrupts, lapses>>

\* A process that has already ended has no start time, and the script ends: one
\* of the launchers has opened its file by then, and leaves it empty.
Record(s) ==
  /\ At(s, "record")
  /\ \/ /\ shells[s].pid \in Alive
        /\ pidFile' = [pidFile EXCEPT ![shells[s].of] = shells[s].pid] /\ Go(s, "ready")
     \/ /\ shells[s].pid \notin Alive
        /\ (shells[s].of = "glm53" /\ Forget(s)) \/ (shells[s].of = "abl" /\ UNCHANGED pidFile)
        /\ Exit(s)
  /\ UNCHANGED <<servers, lapses>>

\* wait_ready: the process lives and the port answers, or it is dead or late.
AwaitReady(s) ==
  /\ At(s, "ready")
  /\ IF shells[s].pid \in Alive /\ Answered THEN Exit(s) ELSE Go(s, "late")
  /\ UNCHANGED <<servers, pidFile, lapses>>

GiveUp(s) ==
  /\ At(s, "late")
  /\ Killed({shells[s].pid}) /\ Go(s, "failed")
  /\ UNCHANGED <<pidFile, lapses>>

Fail(s) ==
  /\ At(s, "failed")
  /\ Forget(s) /\ Exit(s)
  /\ UNCHANGED <<servers, lapses>>

(* stop().                                                                 *)

\* Mutant: only what the file names is stopped.
NoStrays(s) == {}

\* pgrep: one of the launchers looks for servers that no file names.
Strays(s) == IF shells[s].of = "glm53" THEN Alive ELSE {}

\* Where a stop that asked for strays ends, and one that did not.
Reaped(s) == IF shells[s].of = "glm53" THEN "reaped" ELSE "stopped"

\* The strays are asked to end, and after two seconds those that are there
\* are killed.
AskStrays(s) ==
  /\ At(s, "stop") /\ ~IsRunning(shells[s].of)
  /\ servers' = [p \in Processes |->
                   IF p \in Strays(s) THEN [servers[p] EXCEPT !.state = "stopping"] ELSE servers[p]]
  /\ Go(s, IF Strays(s) = {} THEN Reaped(s) ELSE "strays")
  /\ UNCHANGED <<pidFile, lapses>>

KillStrays(s) ==
  /\ At(s, "strays")
  /\ Killed(Strays(s)) /\ Go(s, Reaped(s))
  /\ UNCHANGED <<pidFile, lapses>>

Terminate(s) ==
  /\ At(s, "stop") /\ IsRunning(shells[s].of)
  /\ servers' = [servers EXCEPT ![pidFile[shells[s].of]].state = "stopping"]
  /\ shells' = [shells EXCEPT ![s].at = "stopping", ![s].pid = pidFile[shells[s].of]]
  /\ UNCHANGED <<pidFile, interrupts, lapses>>

\* It has ended within 30 seconds, or is killed.
AwaitStopped(s) ==
  /\ At(s, "stopping")
  /\ (~IsRunning(shells[s].of) /\ UNCHANGED servers)
       \/ (IsRunning(shells[s].of) /\ Killed({shells[s].pid}))
  /\ Go(s, "stopped")
  /\ UNCHANGED <<pidFile, lapses>>

EndStop(s) ==
  /\ At(s, "reaped") \/ At(s, "stopped")
  /\ Forget(s) /\ (IF shells[s].again THEN Go(s, "start") ELSE Exit(s))
  /\ UNCHANGED <<servers, lapses>>

-----------------------------------------------------------------------------

\* ^C, or the terminal is closed; nohup keeps the server.
Interrupt(s) ==
  /\ ~At(s, "idle") /\ <<interrupts + 1, lapses>> \in Mishaps
  /\ shells' = [shells EXCEPT ![s] = Idle]
  /\ interrupts' = interrupts + 1
  /\ UNCHANGED <<servers, pidFile, lapses>>

Listen(p) ==
  /\ servers[p].state = "loading"
  /\ servers' = [servers EXCEPT ![p].state = "serving"]
  /\ UNCHANGED <<pidFile, shells, interrupts, lapses>>

\* A server may fail to load, crash, or follow its signal.
Die(p) ==
  /\ p \in Alive
  /\ Killed({p})
  /\ UNCHANGED <<pidFile, shells, interrupts, lapses>>

Start(s) ==
  CheckRunning(s) \/ CheckPort(s) \/ WaitMemory(s) \/ Clean(s) \/ Spawn(s) \/ Record(s)
    \/ AwaitReady(s) \/ GiveUp(s) \/ Fail(s)

Stop(s) == AskStrays(s) \/ KillStrays(s) \/ Terminate(s) \/ AwaitStopped(s) \/ EndStop(s)

LauncherNext ==
  \/ \E s \in Shells : Run(s) \/ Start(s) \/ Stop(s) \/ Interrupt(s)
  \/ \E p \in Processes : Listen(p) \/ Die(p)

LauncherSpec == LauncherInit /\ [][LauncherNext]_launching

-----------------------------------------------------------------------------
(* Properties.                                                             *)

\* Where all scripts hold the lock of the port and ask for it, and none is
\* interrupted, there is at most one server process, whichever launcher is
\* asked for what and whenever servers die.
OneServer == interrupts = 0 /\ lapses = 0 => Cardinality(Alive) <= 1

\* helios_glm53_server.sh:211 "Never start a second server on the same port -
\* most likely the other model's server is already up": the same of scripts
\* that may be interrupted, or hold another lock.
NeverSecondServer == Cardinality(Alive) <= 1

\* "kill any stray helios serve for THIS port before declaring it stopped": when
\* a stop is done, this launcher leaves no server, whoever started it, and the
\* other none of its own.  This is so where all scripts hold the lock of the
\* port; and where a script was interrupted, only of a stop that looked for
\* strays.
StopMeansStopped ==
  [][\A s \in Shells :
       LET before == shells[s].at
       IN (/\ before \in {"reaped", "stopped"} /\ shells'[s].at \in {"idle", "start"}
           /\ interrupts' = interrupts /\ lapses = 0
           /\ interrupts = 0 \/ before = "reaped")
          => \A p \in Alive' : shells[s].of = "abl" /\ servers'[p].by = "glm53"]_launching
=============================================================================
