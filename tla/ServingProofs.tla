---------------------------- MODULE ServingProofs ----------------------------
(***************************************************************************)
(* Theorems about Serving, for any number of requests, workers, shells and *)
(* processes: what gen_mu guards, whose figures an answer reports, that    *)
(* the launcher scripts start one server where nobody interrupts them,     *)
(* what an answer and its finish reason say of the generation, and what    *)
(* the parser emits of a text that comes in pieces, for every text, any    *)
(* pieces and markers as TextAssumption has them.                          *)
(***************************************************************************)
EXTENDS Serving, FiniteSetTheorems, SequenceTheorems, WellFoundedInduction, NaturalsInduction, TLAPS

-----------------------------------------------------------------------------
(* Proof: for any number of requests and workers.                            *)

\* The handler is inside the section that gen_mu guards.
Engaged(r) == at[r] \in {"encoding", "prefill", "decode", "report"}

\* Every connection is once in the list.
JobsOnce == \A i, k \in DOMAIN jobs : jobs[i] = jobs[k] => i = k

\* The mutex is held by the request that is in its section, and by no other.
LockInv == \A r \in Requests : Engaged(r) <=> lock = r

\* From the prefill to the end of its section the runner's figures are those of
\* the request that holds the mutex, and so are those that are reported.
FiguresInv ==
  \A r \in Requests \ Empties :
    /\ at[r] \in {"decode", "report"} => resume = r /\ pos = r
    /\ usage[r] # Nothing => usage[r] = [cached |-> r, length |-> r]

ServerInv == TypeOK /\ JobsOnce /\ LockInv /\ FiguresInv

LEMMA InitKeeps == Init => ServerInv
BY ServerAssumption
   DEF Init, ServerInv, TypeOK, JobsOnce, LockInv, FiguresInv, Engaged, Phases, Nothing

\* The list is as long as the connections that wait.
LEMMA SendKeeps ==
  ASSUME TypeOK, JobsOnce, NEW r \in Requests, Send(r)
  PROVE  TypeOK' /\ JobsOnce'
<1> DEFINE Q == {o \in Requests : at[o] = "queued"}
           R == {o \in Requests : at'[o] = "queued"}
<1>1. /\ at[r] = "unsent" /\ at' = [at EXCEPT ![r] = "queued"] /\ jobs' = Append(jobs, r)
      /\ UNCHANGED <<lock, resume, pos, usage, gone>>
      /\ at \in [Requests -> Phases] /\ jobs \in Seq(Q)
  BY DEF Send, Goes, TypeOK
<1>2. at' \in [Requests -> Phases] /\ R = Q \union {r} /\ r \notin Q
  BY <1>1 DEF Phases
<1> HIDE DEF Q, R
<1>3. jobs' \in Seq(R) /\ jobs \in Seq(R)
  BY <1>1, <1>2
<1>4. JobsOnce'
  <2>1. \A i \in DOMAIN jobs : jobs[i] \in Q /\ jobs'[i] = jobs[i]
    BY <1>1
  <2>2. DOMAIN jobs' = DOMAIN jobs \union {Len(jobs) + 1} /\ jobs'[Len(jobs) + 1] = r
    BY <1>1
  <2> QED
    BY <1>2, <2>1, <2>2 DEF JobsOnce
<1>5. TypeOK'
  BY <1>1, <1>2, <1>3 DEF TypeOK, R
<1> QED
  BY <1>4, <1>5

LEMMA WorkerTakesKeeps ==
  ASSUME TypeOK, JobsOnce, WorkerTakes
  PROVE  /\ TypeOK' /\ JobsOnce' /\ Head(jobs) \in Requests
         /\ at[Head(jobs)] = "queued" /\ at' = [at EXCEPT ![Head(jobs)] = "started"]
         /\ UNCHANGED <<lock, resume, pos, usage, gone>>
<1> DEFINE Q == {o \in Requests : at[o] = "queued"}
           R == {o \in Requests : at'[o] = "queued"}
           h == Head(jobs)
<1>1. /\ jobs # <<>> /\ at[h] = "queued" /\ at' = [at EXCEPT ![h] = "started"]
      /\ jobs' = Tail(jobs) /\ UNCHANGED <<lock, resume, pos, usage, gone>>
      /\ at \in [Requests -> Phases] /\ jobs \in Seq(Q)
  BY DEF WorkerTakes, Goes, TypeOK
<1>2. h \in Q /\ h \in Requests
  BY <1>1
<1>3. at' \in [Requests -> Phases] /\ R = Q \ {h}
  BY <1>1, <1>2 DEF Phases
<1>4. /\ DOMAIN jobs = 1..Len(jobs) /\ Len(jobs) \in Nat \ {0} /\ h = jobs[1]
      /\ Len(jobs') = Len(jobs) - 1 /\ DOMAIN jobs' = 1..(Len(jobs) - 1)
      /\ \A i \in DOMAIN jobs' : i + 1 \in DOMAIN jobs /\ jobs'[i] = jobs[i + 1]
      /\ jobs' \in Seq(Q)
  BY <1>1
<1> HIDE DEF Q, R, h
<1>5. \A i \in DOMAIN jobs' : jobs'[i] \in R
  <2> SUFFICES ASSUME NEW i \in DOMAIN jobs'
               PROVE  jobs'[i] \in R
    OBVIOUS
  <2>1. jobs'[i] = jobs[i + 1] /\ i + 1 \in DOMAIN jobs /\ 1 \in DOMAIN jobs /\ i + 1 # 1
    BY <1>4
  <2>2. jobs'[i] # h
    BY <1>4, <2>1 DEF JobsOnce
  <2> QED
    BY <1>3, <1>4, <2>2
<1>6. jobs' \in Seq(R)
  BY <1>4, <1>5
<1>7. JobsOnce'
  BY <1>4 DEF JobsOnce
<1>8. TypeOK'
  BY <1>1, <1>3, <1>6 DEF TypeOK, R
<1> QED
  BY <1>1, <1>2, <1>7, <1>8 DEF h

\* Where a handler moves its request between phases outside the list, the list
\* stays as it is.
LEMMA OffTheList ==
  ASSUME TypeOK, JobsOnce, NEW r \in Requests, NEW p \in Phases, at[r] # "queued", p # "queued",
         at' = [at EXCEPT ![r] = p], jobs' = jobs
  PROVE  at' \in [Requests -> Phases] /\ jobs' \in Seq({o \in Requests : at'[o] = "queued"}) /\ JobsOnce'
<1>1. at' \in [Requests -> Phases]
  BY DEF TypeOK
<1>2. {o \in Requests : at'[o] = "queued"} = {o \in Requests : at[o] = "queued"}
  BY DEF TypeOK
<1>3. jobs' \in Seq({o \in Requests : at'[o] = "queued"})
  BY <1>2 DEF TypeOK
<1> QED
  BY <1>1, <1>3 DEF JobsOnce

LEMMA HandlerKeeps ==
  ASSUME ServerInv, NEW r \in Requests, Handler(r)
  PROVE  ServerInv'
<1> USE DEF Goes
<1>1. PICK p \in Phases \ {"queued"} :
        at' = [at EXCEPT ![r] = p] /\ at[r] # "queued" /\ jobs' = jobs /\ gone' = gone
  BY DEF Handler, Status, Refuse, Parse, Encode, Encoded, EncodeFails, ImagesRefused, Begin,
         FirstWriteFails, Prefill, Decoded, Report, Phases
<1>2. at' \in [Requests -> Phases] /\ jobs' \in Seq({o \in Requests : at'[o] = "queued"}) /\ JobsOnce'
  BY <1>1, OffTheList DEF ServerInv
<1>3. r # NoOne /\ NoOne \notin Requests /\ at \in [Requests -> Phases]
  BY ServerAssumption DEF ServerInv, TypeOK
<1>4. /\ {lock', resume', pos'} \subseteq Requests \union {NoOne} /\ gone' \subseteq Requests
      /\ usage' \in [Requests -> [cached: Requests \union {NoOne}, length: Requests \union {NoOne}]]
  BY <1>1 DEF Handler, Status, Refuse, Parse, Encode, Encoded, EncodeFails, ImagesRefused, Begin,
         FirstWriteFails, Prefill, Decoded, Report, ServerInv, TypeOK
<1>5. TypeOK'
  BY <1>2, <1>4 DEF TypeOK
<1>6. LockInv'
  <2> USE <1>3 DEF LockInv, Engaged, ServerInv
  <2>1. CASE Status(r) \/ Refuse(r) \/ Parse(r) \/ ImagesRefused(r) \/ FirstWriteFails(r)
    BY <2>1 DEF Status, Refuse, Parse, ImagesRefused, FirstWriteFails
  <2>2. CASE Encode(r) \/ Begin(r)
    BY <2>2 DEF Encode, Begin
  <2>3. CASE Encoded(r) \/ EncodeFails(r)
    BY <2>3 DEF Encoded, EncodeFails
  <2>4. CASE Prefill(r) \/ Decoded(r)
    BY <2>4 DEF Prefill, Decoded
  <2>5. CASE Report(r)
    BY <2>5 DEF Report
  <2> QED
    BY <2>1, <2>2, <2>3, <2>4, <2>5 DEF Handler
<1>7. FiguresInv'
  <2> USE <1>3 DEF FiguresInv, ServerInv
  <2>1. CASE Prefill(r)
    BY <2>1 DEF Prefill, LockInv, Engaged
  <2>2. CASE Report(r)
    <3>1. \A o \in Requests : usage'[o] = IF o = r THEN [cached |-> resume, length |-> pos] ELSE usage[o]
      BY <2>2 DEF Report, TypeOK
    <3>2. /\ at[r] = "report" /\ UNCHANGED <<resume, pos>>
          /\ \A o \in Requests : o # r => at'[o] = at[o]
          /\ at'[r] \notin {"decode", "report"}
      BY <2>2 DEF Report
    <3>3. \A o \in Requests \ Empties :
            /\ at[o] \in {"decode", "report"} => resume = o /\ pos = o
            /\ usage[o] # Nothing => usage[o] = [cached |-> o, length |-> o]
      OBVIOUS
    <3>4. ASSUME NEW o \in Requests \ Empties
          PROVE  /\ at'[o] \in {"decode", "report"} => resume' = o /\ pos' = o
                 /\ usage'[o] # Nothing => usage'[o] = [cached |-> o, length |-> o]
      BY <3>1, <3>2, <3>3
    <3> QED
      BY <3>4
  <2>3. CASE ~Prefill(r) /\ ~Report(r)
    <3>1. UNCHANGED <<resume, pos, usage>>
      BY <2>3 DEF Handler, Status, Refuse, Parse, Encode, Encoded, EncodeFails, ImagesRefused, Begin,
           FirstWriteFails, Decoded
    <3>2. \A o \in Requests : at'[o] \in {"decode", "report"} => at[o] \in {"decode", "report"}
      BY <2>3 DEF Handler, Status, Refuse, Parse, Encode, Encoded, EncodeFails, ImagesRefused, Begin,
           FirstWriteFails, Decoded
    <3> QED
      BY <3>1, <3>2
  <2> QED
    BY <2>1, <2>2, <2>3
<1> QED
  BY <1>2, <1>5, <1>6, <1>7 DEF ServerInv

LEMMA ServerKeeps == ServerInv /\ [Next]_vars => ServerInv'
<1> SUFFICES ASSUME ServerInv, [Next]_vars
             PROVE  ServerInv'
  OBVIOUS
<1>1. CASE WorkerTakes
  <2>1. /\ TypeOK' /\ JobsOnce' /\ Head(jobs) \in Requests
        /\ at[Head(jobs)] = "queued" /\ at' = [at EXCEPT ![Head(jobs)] = "started"]
        /\ UNCHANGED <<lock, resume, pos, usage, gone>>
    BY <1>1, WorkerTakesKeeps DEF ServerInv
  <2>2. at \in [Requests -> Phases]
    BY DEF ServerInv, TypeOK
  <2>3. LockInv' /\ FiguresInv'
    BY <2>1, <2>2 DEF ServerInv, LockInv, FiguresInv, Engaged
  <2> QED
    BY <2>1, <2>3 DEF ServerInv
<1>2. CASE \E r \in Requests : Send(r)
  <2>1. PICK r \in Requests : Send(r)
    BY <1>2
  <2>2. TypeOK' /\ JobsOnce'
    BY <2>1, SendKeeps DEF ServerInv
  <2>3. LockInv' /\ FiguresInv'
    BY <2>1 DEF Send, Goes, ServerInv, TypeOK, LockInv, FiguresInv, Engaged
  <2> QED
    BY <2>2, <2>3 DEF ServerInv
<1>3. CASE \E r \in Requests : ClientLeaves(r)
  <2>1. gone' \subseteq Requests /\ UNCHANGED <<jobs, at, lock, resume, pos, usage>>
    BY <1>3 DEF ClientLeaves, ServerInv, TypeOK
  <2> QED
    BY <2>1 DEF ServerInv, TypeOK, JobsOnce, LockInv, FiguresInv, Engaged
<1>4. CASE \E r \in Requests : Handler(r)
  BY <1>4, HandlerKeeps
<1>5. CASE UNCHANGED vars
  BY <1>5 DEF vars, ServerInv, TypeOK, JobsOnce, LockInv, FiguresInv, Engaged
<1> QED
  BY <1>1, <1>2, <1>3, <1>4, <1>5 DEF Next

\* Whichever part of Serving moves, the requests take their steps or none.
LEMMA ServingParts ==
  /\ ServingInit => Init
  /\ [ServingNext]_serving => [Next]_vars
BY DEF ServingInit, ServingNext, serving, vars, ScriptsMove, ServerMoves, ImagesMove, BytesMove, ParserMoves,
       ResponseMoves, TokensMove, ChatMoves, SamplerMoves

LEMMA ServerInductive == ServingSpec => []ServerInv
<1>1. ServingInit => ServerInv
  BY ServingParts, InitKeeps
<1>2. ServerInv /\ [ServingNext]_serving => ServerInv'
  BY ServingParts, ServerKeeps
<1> QED
  BY <1>1, <1>2, PTL DEF ServingSpec

\* Every variable of the server keeps its type, and httplib's list holds the
\* connections that wait and no other.
THEOREM ServerTypes == ServingSpec => []TypeOK
<1>1. ServerInv => TypeOK
  BY DEF ServerInv
<1> QED
  BY <1>1, ServerInductive, PTL

\* "one generation at a time" (server.cpp:221): however many requests the pool's
\* threads serve and wherever their handlers fail, at most one of them is in the
\* engine or the encoder.
THEOREM OneAtATime == ServingSpec => []EngineIsExclusive
<1>1. ServerInv => EngineIsExclusive
  <2> SUFFICES ASSUME ServerInv
               PROVE  EngineIsExclusive
    OBVIOUS
  <2> DEFINE E == {r \in Requests : at[r] \in {"encoding", "prefill", "decode"}}
  <2>1. E \subseteq {lock}
    BY DEF ServerInv, LockInv, Engaged
  <2>2. IsFiniteSet({lock}) /\ Cardinality({lock}) = 1
    BY FS_Singleton
  <2>3. Cardinality(E) <= 1
    BY <2>1, <2>2, FS_Subset
  <2> QED
    BY <2>3 DEF EngineIsExclusive
<1> QED
  BY <1>1, ServerInductive, PTL

\* The figures an answer carries are read from the runner after its generation,
\* and where its prompt is not empty they are its own, although other requests
\* generate before and after, of which some generate nothing.
THEOREM FiguresAreOwn == ServingSpec => []UsageIsOwn
<1>1. ServerInv => UsageIsOwn
  BY DEF ServerInv, FiguresInv, UsageIsOwn
<1> QED
  BY <1>1, ServerInductive, PTL

-----------------------------------------------------------------------------
(* The launcher scripts.                                                   *)

Places == {"idle", "start", "port", "memory", "clean", "spawn", "record", "ready", "late", "failed",
           "stop", "strays", "stopping", "reaped", "stopped"}
Shell  == [at: Places, of: Scripts!Launchers \union {"nobody"}, again: BOOLEAN,
           pid: Scripts!Processes \union {Scripts!NoProcess}, lock: {"port", "other"}]
State  == [state: {"gone", "loading", "serving", "stopping"}, by: Scripts!Launchers \union {"nobody"}]

ProcessTypes ==
  /\ servers \in [Scripts!Processes -> State]
  /\ pidFile \in [Scripts!Launchers -> Scripts!Processes \union {Scripts!NoProcess}]
  /\ \A p \in Scripts!Alive : servers[p].state # "gone" /\ servers[p].by \in Scripts!Launchers

LauncherTypes ==
  ProcessTypes /\ shells \in [Shells -> Shell] /\ interrupts \in Nat /\ lapses \in Nat

\* One script holds the lock of the port, and without a lapse every script that
\* runs holds it.
PortLock ==
  /\ \A s, o \in Shells : shells[s].lock = "port" /\ shells[o].lock = "port" => s = o
  /\ \A s \in Shells : shells[s].at # "idle" =>
       /\ shells[s].of \in Scripts!Launchers
       /\ shells[s].at \in {"strays", "reaped"} => shells[s].of = "glm53"
       /\ lapses = 0 => shells[s].lock = "port" /\ (shells[s].at = "reaped" => Scripts!Alive = {})

\* Every server serves, and its launcher's file names it.
Settled ==
  \A p \in Scripts!Alive : servers[p].state = "serving" /\ pidFile[servers[p].by] = p

\* No server but the one that the script in s has started.
Own(s) ==
  \A p \in Scripts!Alive : p = shells[s].pid /\ servers[p].by = shells[s].of

\* What the script in shell s knows of the servers where it stands.
Attended(s) ==
  LET Is(places) == shells[s].at \in places
  IN  /\ Is({"start", "port", "stop", "stopped"}) => Settled
      /\ Is({"memory", "clean", "spawn", "failed", "reaped"}) => Scripts!Alive = {}
      /\ Is({"record", "ready", "late"}) => Own(s)
      /\ Is({"stopping"}) => Scripts!Alive \subseteq {shells[s].pid}
      /\ Is({"ready", "late", "stopping"}) =>
           \A p \in Scripts!Alive : pidFile[shells[s].of] = p
      /\ Is({"stopped"}) => \A p \in Scripts!Alive : shells[s].of = "abl" /\ servers[p].by = "glm53"

\* While no script was interrupted and none lapsed there is at most one server;
\* where no script runs it serves and is on file, and where one runs it is what
\* the script takes it for.
Undisturbed ==
  /\ \A p, q \in Scripts!Alive : p = q
  /\ (\A s \in Shells : shells[s].at = "idle") => Settled
  /\ \A s \in Shells : Attended(s)

Quiet == interrupts = 0 /\ lapses = 0

LauncherInv == LauncherTypes /\ PortLock /\ (Quiet => Undisturbed)

LEMMA LauncherInitKeeps == Scripts!LauncherInit => LauncherInv
BY LauncherAssumption
   DEF Scripts!LauncherInit, LauncherInv, LauncherTypes, ProcessTypes, PortLock, Undisturbed, Settled, Attended,
       Own, Scripts!Alive, Scripts!Gone, Scripts!Idle, Shell, State, Places, Scripts!Processes,
       Scripts!NoProcess, Scripts!Launchers

\* A step inside a script, and its last one.
LEMMA GoMoves ==
  ASSUME LauncherTypes, NEW s \in Shells, NEW place \in Places, Scripts!Go(s, place)
  PROVE  /\ shells' \in [Shells -> Shell] /\ UNCHANGED interrupts
         /\ \A o \in Shells \ {s} : shells'[o] = shells[o]
         /\ shells'[s].at = place /\ shells'[s].of = shells[s].of /\ shells'[s].pid = shells[s].pid
         /\ shells'[s].lock = shells[s].lock
BY DEF LauncherTypes, Scripts!Go, Shell

LEMMA ExitMoves ==
  ASSUME LauncherTypes, NEW s \in Shells, Scripts!Exit(s)
  PROVE  /\ shells' \in [Shells -> Shell] /\ UNCHANGED interrupts
         /\ \A o \in Shells \ {s} : shells'[o] = shells[o]
         /\ shells'[s] = Scripts!Idle /\ shells'[s].at = "idle"
BY DEF LauncherTypes, Scripts!Exit, Shell, Scripts!Idle, Places, Scripts!Processes, Scripts!NoProcess

\* Servers that end.
LEMMA KilledMoves ==
  ASSUME LauncherTypes, NEW set, Scripts!Killed(set)
  PROVE  /\ servers' \in [Scripts!Processes -> State]
         /\ Scripts!Alive' = Scripts!Alive \ set
         /\ \A p \in Scripts!Alive' : servers'[p] = servers[p]
BY DEF LauncherTypes, ProcessTypes, Scripts!Killed, Scripts!Alive, Scripts!Gone, State

\* The file of the launcher is removed.
LEMMA ForgetMoves ==
  ASSUME LauncherTypes, NEW s \in Shells, Scripts!Forget(s)
  PROVE  /\ pidFile' \in [Scripts!Launchers -> Scripts!Processes \union {Scripts!NoProcess}]
         /\ \A l \in Scripts!Launchers \ {shells[s].of} : pidFile'[l] = pidFile[l]
BY DEF LauncherTypes, ProcessTypes, Scripts!Forget

LEMMA Known ==
  ASSUME LauncherInv, NEW s \in Shells, shells[s].at # "idle"
  PROVE  /\ LauncherTypes /\ ProcessTypes /\ shells[s] \in Shell /\ shells[s].of \in Scripts!Launchers
         /\ lapses = 0 => \A o \in Shells \ {s} : shells[o].at = "idle"
         /\ Quiet => Attended(s) /\ \A p, q \in Scripts!Alive : p = q
BY DEF LauncherInv, LauncherTypes, PortLock, Undisturbed

\* What a step of a script has to leave behind.
LEMMA ScriptKeeps ==
  ASSUME LauncherInv, NEW s \in Shells, shells[s].at # "idle",
         shells' \in [Shells -> Shell], UNCHANGED interrupts,
         \A o \in Shells \ {s} : shells'[o] = shells[o],
         shells'[s].lock = IF shells'[s].at = "idle" THEN "other" ELSE shells[s].lock,
         shells'[s].at # "idle" => shells'[s].of = shells[s].of,
         ProcessTypes', lapses' \in Nat, lapses' = 0 => lapses = 0,
         shells'[s].at \in {"strays", "reaped"} => shells[s].of = "glm53",
         lapses' = 0 /\ shells'[s].at = "reaped" => Scripts!Alive' = {},
         Quiet /\ Quiet' => /\ \A p, q \in Scripts!Alive' : p = q
                            /\ shells'[s].at = "idle" => Settled'
                            /\ Attended(s)'
  PROVE  LauncherInv'
<1>1. shells[s].of \in Scripts!Launchers /\ (lapses = 0 => \A o \in Shells \ {s} : shells[o].at = "idle")
  BY Known
<1>2. LauncherTypes'
  BY DEF LauncherInv, LauncherTypes
<1>3. PortLock'
  <2>1. \A o, q \in Shells : shells'[o].lock = "port" /\ shells'[q].lock = "port" => o = q
    BY DEF LauncherInv, PortLock
  <2>2. ASSUME NEW o \in Shells, shells'[o].at # "idle"
        PROVE  /\ shells'[o].of \in Scripts!Launchers
               /\ shells'[o].at \in {"strays", "reaped"} => shells'[o].of = "glm53"
               /\ lapses' = 0 => shells'[o].lock = "port" /\ (shells'[o].at = "reaped" => Scripts!Alive' = {})
    <3>1. CASE o = s
      BY <1>1, <2>2, <3>1 DEF LauncherInv, PortLock
    <3>2. CASE o # s
      BY <1>1, <2>2, <3>2 DEF LauncherInv, PortLock
    <3> QED
      BY <3>1, <3>2
  <2> QED
    BY <2>1, <2>2 DEF PortLock
<1>4. Quiet' => Undisturbed'
  <2> SUFFICES ASSUME Quiet' PROVE Undisturbed'
    OBVIOUS
  <2>1. Quiet /\ \A o \in Shells \ {s} : shells'[o].at = "idle"
    BY <1>1 DEF Quiet
  <2>2. \A o \in Shells \ {s} : Attended(o)'
    BY <2>1 DEF Attended
  <2> QED
    BY <2>1, <2>2 DEF Undisturbed
<1> QED
  BY <1>2, <1>3, <1>4 DEF LauncherInv

LEMMA GoKeeps ==
  ASSUME LauncherInv, NEW s \in Shells, shells[s].at # "idle",
         NEW place \in Places \ {"idle"}, Scripts!Go(s, place),
         ProcessTypes', lapses' \in Nat, lapses' = 0 => lapses = 0,
         place \in {"strays", "reaped"} => shells[s].of = "glm53",
         lapses' = 0 /\ place = "reaped" => Scripts!Alive' = {},
         Quiet /\ Quiet' => (\A p, q \in Scripts!Alive' : p = q) /\ Attended(s)'
  PROVE  LauncherInv'
<1>1. /\ shells' \in [Shells -> Shell] /\ UNCHANGED interrupts
      /\ \A o \in Shells \ {s} : shells'[o] = shells[o]
      /\ shells'[s].at = place /\ shells'[s].of = shells[s].of /\ shells'[s].lock = shells[s].lock
  BY GoMoves DEF LauncherInv
<1> QED
  BY <1>1, ScriptKeeps

LEMMA ExitKeeps ==
  ASSUME LauncherInv, NEW s \in Shells, shells[s].at # "idle", Scripts!Exit(s),
         ProcessTypes', lapses' \in Nat, lapses' = 0 => lapses = 0,
         Quiet /\ Quiet' => (\A p, q \in Scripts!Alive' : p = q) /\ Settled'
  PROVE  LauncherInv'
<1>1. /\ shells' \in [Shells -> Shell] /\ UNCHANGED interrupts
      /\ \A o \in Shells \ {s} : shells'[o] = shells[o]
      /\ shells'[s].at = "idle" /\ shells'[s].lock = "other"
  BY ExitMoves DEF LauncherInv, Scripts!Idle
<1>2. Attended(s)'
  BY <1>1 DEF Attended
<1> QED
  BY <1>1, <1>2, ScriptKeeps

\* A step of start() that looks at the servers and touches nothing.
LEMMA LookKeeps ==
  ASSUME LauncherInv, NEW s \in Shells,
         Scripts!CheckRunning(s) \/ Scripts!CheckPort(s) \/ Scripts!WaitMemory(s) \/ Scripts!AwaitReady(s)
  PROVE  LauncherInv'
<1>1. /\ shells[s].at \in {"start", "port", "memory", "ready"} /\ UNCHANGED <<servers, pidFile>>
      /\ lapses' = lapses \/ lapses' = lapses + 1
  BY DEF Scripts!CheckRunning, Scripts!CheckPort, Scripts!WaitMemory, Scripts!AwaitReady, Scripts!At, Scripts!Lapse
<1>2. /\ LauncherTypes /\ ProcessTypes /\ shells[s] \in Shell /\ shells[s].of \in Scripts!Launchers
      /\ Quiet => Attended(s) /\ \A p, q \in Scripts!Alive : p = q
  BY <1>1, Known
<1>3. /\ Scripts!Alive' = Scripts!Alive /\ ProcessTypes'
      /\ Settled => Settled'
      /\ lapses' \in Nat /\ (lapses' = 0 => lapses = 0)
  <2>1. Scripts!Alive' = Scripts!Alive
    BY <1>1 DEF Scripts!Alive
  <2>2. ProcessTypes' /\ (Settled => Settled')
    BY <1>1, <1>2, <2>1 DEF ProcessTypes, Settled
  <2>3. lapses' \in Nat /\ (lapses' = 0 => lapses = 0)
    BY <1>1, <1>2 DEF LauncherTypes
  <2> QED
    BY <2>1, <2>2, <2>3
<1>4. ASSUME Scripts!Exit(s), Quiet => Settled
      PROVE  LauncherInv'
  <2>1. shells[s].at # "idle" /\ (Quiet => (\A p, q \in Scripts!Alive' : p = q) /\ Settled')
    BY <1>1, <1>2, <1>3, <1>4
  <2> QED
    BY <1>3, <1>4, <2>1, ExitKeeps
<1>5. ASSUME NEW place \in {"port", "memory", "clean", "late"}, Scripts!Go(s, place),
             Quiet /\ Quiet' => /\ place = "port" => Settled
                                /\ place \in {"memory", "clean"} => Scripts!Alive = {}
                                /\ place = "late" => shells[s].at = "ready"
      PROVE  LauncherInv'
  <2>1. place \in Places \ {"idle"} /\ place \notin {"strays", "reaped"}
    BY DEF Places
  <2>2. shells'[s].at = place /\ shells'[s].of = shells[s].of /\ shells'[s].pid = shells[s].pid
    BY <1>2, <1>5, <2>1, GoMoves
  <2>3. Quiet /\ Quiet' => Attended(s)'
    BY <1>1, <1>2, <1>3, <1>5, <2>2 DEF Attended, Own
  <2>4. shells[s].at # "idle" /\ (Quiet => \A p, q \in Scripts!Alive' : p = q)
    BY <1>1, <1>2, <1>3
  <2> QED
    BY <1>3, <1>5, <2>1, <2>3, <2>4, GoKeeps
<1>6. CASE Scripts!CheckRunning(s)
  <2>1. shells[s].at = "start" /\ (Scripts!Exit(s) \/ Scripts!Go(s, "port"))
    BY <1>6 DEF Scripts!CheckRunning, Scripts!At
  <2>2. Quiet => Settled
    BY <1>2, <2>1 DEF Attended
  <2> QED
    BY <1>4, <1>5, <2>1, <2>2
<1>7. CASE Scripts!CheckPort(s)
  <2>1. /\ shells[s].at = "port"
        /\ Scripts!Exit(s) \/ Scripts!Go(s, "memory")
        /\ Scripts!Exit(s) \/ ~Scripts!Answered \/ lapses' = lapses + 1
    BY <1>7 DEF Scripts!CheckPort, Scripts!At, Scripts!Lapse
  <2>2. Quiet => Settled /\ (~Scripts!Answered => Scripts!Alive = {})
    BY <1>2, <2>1 DEF Attended, Settled, Scripts!Answered
  <2>3. lapses' = lapses + 1 => ~Quiet'
    BY <1>2 DEF Quiet, LauncherTypes
  <2> QED
    BY <1>4, <1>5, <2>1, <2>2, <2>3
<1>8. CASE Scripts!WaitMemory(s)
  <2>1. shells[s].at = "memory" /\ (Scripts!Exit(s) \/ Scripts!Go(s, "clean"))
    BY <1>8 DEF Scripts!WaitMemory, Scripts!At
  <2>2. Quiet => Settled /\ Scripts!Alive = {}
    BY <1>2, <2>1 DEF Attended, Settled
  <2> QED
    BY <1>4, <1>5, <2>1, <2>2
<1>9. CASE Scripts!AwaitReady(s)
  <2>1. shells[s].at = "ready" /\ ((Scripts!Answered /\ Scripts!Exit(s)) \/ Scripts!Go(s, "late"))
    BY <1>9 DEF Scripts!AwaitReady, Scripts!At
  <2>2. Quiet /\ Scripts!Answered => Settled
    BY <1>2, <2>1 DEF Attended, Own, Settled, Scripts!Answered
  <2> QED
    BY <1>4, <1>5, <2>1, <2>2
<1> QED
  BY <1>6, <1>7, <1>8, <1>9

\* The steps of start() that make or end a server, and those that change its file.
LEMMA SpawnKeeps ==
  ASSUME LauncherInv, NEW s \in Shells, Scripts!Spawn(s)
  PROVE  LauncherInv'
<1>1. PICK p \in Scripts!Processes \ (Scripts!Alive \union Scripts!Mentioned) :
        /\ servers' = [servers EXCEPT ![p] = [state |-> "loading", by |-> shells[s].of]]
        /\ shells' = [shells EXCEPT ![s].at = "record", ![s].pid = p]
  BY DEF Scripts!Spawn
<1>2. shells[s].at = "spawn" /\ UNCHANGED <<pidFile, interrupts, lapses>>
  BY DEF Scripts!Spawn, Scripts!At
<1>3. /\ LauncherTypes /\ ProcessTypes /\ shells[s] \in Shell /\ shells[s].of \in Scripts!Launchers
      /\ Quiet => Scripts!Alive = {}
  BY <1>2, Known DEF Attended
<1>4. /\ shells' \in [Shells -> Shell]
      /\ \A o \in Shells \ {s} : shells'[o] = shells[o]
      /\ shells'[s].at = "record" /\ shells'[s].of = shells[s].of /\ shells'[s].pid = p
      /\ shells'[s].lock = shells[s].lock
  <2>1. /\ shells \in [Shells -> Shell]
        /\ shells' = [shells EXCEPT ![s] = [shells[s] EXCEPT !.at = "record", !.pid = p]]
    BY <1>1, <1>3 DEF LauncherTypes
  <2>2. PICK new : new = [shells[s] EXCEPT !.at = "record", !.pid = p]
    OBVIOUS
  <2>3. new \in Shell /\ new.at = "record" /\ new.of = shells[s].of /\ new.pid = p /\ new.lock = shells[s].lock
    BY <1>3, <2>2 DEF Shell, Places
  <2> QED
    BY <2>1, <2>2, <2>3
<1>5. /\ servers' \in [Scripts!Processes -> State]
      /\ servers'[p] = [state |-> "loading", by |-> shells[s].of]
      /\ \A q \in Scripts!Processes \ {p} : servers'[q] = servers[q]
      /\ Scripts!Alive' = Scripts!Alive \union {p}
  <2>1. [state |-> "loading", by |-> shells[s].of] \in State
    BY <1>3 DEF State
  <2>2. /\ servers' \in [Scripts!Processes -> State] /\ p \in Scripts!Processes
        /\ servers'[p] = [state |-> "loading", by |-> shells[s].of]
        /\ \A q \in Scripts!Processes \ {p} : servers'[q] = servers[q]
    BY <1>1, <1>3, <2>1 DEF ProcessTypes
  <2>3. servers'[p] # Scripts!Gone
    BY <2>2 DEF Scripts!Gone
  <2>4. Scripts!Alive' = Scripts!Alive \union {p}
    BY <2>2, <2>3 DEF Scripts!Alive
  <2> QED
    BY <2>2, <2>4
<1>6. ProcessTypes'
  <2>1. \A q \in Scripts!Alive' : servers'[q].state # "gone" /\ servers'[q].by \in Scripts!Launchers
    <3> SUFFICES ASSUME NEW q \in Scripts!Alive'
                 PROVE  servers'[q].state # "gone" /\ servers'[q].by \in Scripts!Launchers
      OBVIOUS
    <3>1. CASE q = p
      BY <1>3, <1>5, <3>1
    <3>2. CASE q # p
      <4>1. q \in Scripts!Alive /\ q \in Scripts!Processes \ {p}
        BY <1>5, <3>2 DEF Scripts!Alive
      <4> QED
        BY <1>3, <1>5, <4>1 DEF ProcessTypes
    <3> QED
      BY <3>1, <3>2
  <2> QED
    BY <1>2, <1>3, <1>5, <2>1 DEF ProcessTypes
<1>7. Quiet => (\A q, r \in Scripts!Alive' : q = r) /\ Attended(s)'
  BY <1>3, <1>4, <1>5 DEF Attended, Own
<1>8. lapses' \in Nat
  BY <1>2, <1>3 DEF LauncherTypes
<1> QED
  BY <1>2, <1>4, <1>6, <1>7, <1>8, ScriptKeeps

LEMMA CleanKeeps ==
  ASSUME LauncherInv, NEW s \in Shells, Scripts!Clean(s) \/ Scripts!Fail(s)
  PROVE  LauncherInv'
<1>1. /\ shells[s].at \in {"clean", "failed"} /\ Scripts!Forget(s) /\ UNCHANGED <<servers, lapses>>
      /\ Scripts!Go(s, "spawn") \/ Scripts!Exit(s)
  BY DEF Scripts!Clean, Scripts!Fail, Scripts!At
<1>2. /\ LauncherTypes /\ ProcessTypes /\ shells[s] \in Shell
      /\ Quiet => Scripts!Alive = {}
  BY <1>1, Known DEF Attended
<1>3. Scripts!Alive' = Scripts!Alive
  BY <1>1 DEF Scripts!Alive
<1>4. ProcessTypes' /\ lapses' \in Nat
  BY <1>1, <1>2, <1>3, ForgetMoves DEF ProcessTypes, LauncherTypes
<1>5. CASE Scripts!Go(s, "spawn")
  <2>1. "spawn" \in Places \ {"idle"}
    BY DEF Places
  <2>2. shells'[s].at = "spawn"
    BY <1>2, <1>5, <2>1, GoMoves
  <2>3. Quiet => (\A p, q \in Scripts!Alive' : p = q) /\ Attended(s)'
    BY <1>2, <1>3, <2>2 DEF Attended
  <2> QED
    BY <1>1, <1>4, <1>5, <2>1, <2>3, GoKeeps
<1>6. CASE Scripts!Exit(s)
  <2>1. Quiet => (\A p, q \in Scripts!Alive' : p = q) /\ Settled'
    BY <1>2, <1>3 DEF Settled
  <2> QED
    BY <1>1, <1>4, <1>6, <2>1, ExitKeeps
<1> QED
  BY <1>1, <1>5, <1>6

LEMMA RecordKeeps ==
  ASSUME LauncherInv, NEW s \in Shells, Scripts!Record(s)
  PROVE  LauncherInv'
<1>1. /\ shells[s].at = "record" /\ UNCHANGED <<servers, lapses>>
      /\ \/ /\ shells[s].pid \in Scripts!Alive
            /\ pidFile' = [pidFile EXCEPT ![shells[s].of] = shells[s].pid] /\ Scripts!Go(s, "ready")
         \/ /\ shells[s].pid \notin Scripts!Alive
            /\ Scripts!Forget(s) \/ UNCHANGED pidFile
            /\ Scripts!Exit(s)
  BY DEF Scripts!Record, Scripts!At
<1>2. /\ LauncherTypes /\ ProcessTypes /\ shells[s] \in Shell /\ shells[s].of \in Scripts!Launchers
      /\ Quiet => Own(s) /\ \A p, q \in Scripts!Alive : p = q
  BY <1>1, Known DEF Attended
<1>3. Scripts!Alive' = Scripts!Alive /\ lapses' \in Nat
  BY <1>1, <1>2 DEF Scripts!Alive, LauncherTypes
<1>4. CASE shells[s].pid \in Scripts!Alive
  <2>1. Scripts!Go(s, "ready") /\ pidFile' = [pidFile EXCEPT ![shells[s].of] = shells[s].pid]
    BY <1>1, <1>4
  <2>2. "ready" \in Places \ {"idle"}
    BY DEF Places
  <2>3. shells'[s].at = "ready" /\ shells'[s].of = shells[s].of /\ shells'[s].pid = shells[s].pid
    BY <1>2, <2>1, <2>2, GoMoves
  <2>4. /\ pidFile' \in [Scripts!Launchers -> Scripts!Processes \union {Scripts!NoProcess}]
        /\ pidFile'[shells[s].of] = shells[s].pid
    BY <1>2, <2>1 DEF ProcessTypes, Shell
  <2>5. ProcessTypes'
    BY <1>1, <1>2, <1>3, <2>4 DEF ProcessTypes
  <2>6. Quiet => (\A p, q \in Scripts!Alive' : p = q) /\ Attended(s)'
    BY <1>1, <1>2, <1>3, <2>3, <2>4 DEF Attended, Own
  <2> QED
    BY <1>1, <1>3, <2>1, <2>2, <2>5, <2>6, GoKeeps
<1>5. CASE shells[s].pid \notin Scripts!Alive
  <2>1. Scripts!Exit(s) /\ (Scripts!Forget(s) \/ UNCHANGED pidFile)
    BY <1>1, <1>5
  <2>2. pidFile' \in [Scripts!Launchers -> Scripts!Processes \union {Scripts!NoProcess}]
    BY <1>2, <2>1, ForgetMoves DEF ProcessTypes
  <2>3. ProcessTypes'
    BY <1>1, <1>2, <1>3, <2>2 DEF ProcessTypes
  <2>4. Quiet => (\A p, q \in Scripts!Alive' : p = q) /\ Settled'
    BY <1>2, <1>3, <1>5 DEF Own, Settled
  <2> QED
    BY <1>1, <1>3, <2>1, <2>3, <2>4, ExitKeeps
<1> QED
  BY <1>4, <1>5

\* A step that ends processes, or may.
LEMMA EndingKeeps ==
  ASSUME LauncherInv, NEW s \in Shells,
         Scripts!GiveUp(s) \/ Scripts!KillStrays(s) \/ Scripts!AwaitStopped(s)
  PROVE  LauncherInv'
<1>1. /\ shells[s].at \in {"late", "strays", "stopping"} /\ UNCHANGED <<pidFile, lapses>>
  BY DEF Scripts!GiveUp, Scripts!KillStrays, Scripts!AwaitStopped, Scripts!At
<1>2. /\ LauncherTypes /\ ProcessTypes /\ shells[s] \in Shell /\ shells[s].of \in Scripts!Launchers
      /\ Quiet => Attended(s) /\ \A p, q \in Scripts!Alive : p = q
      /\ shells[s].at = "strays" => shells[s].of = "glm53"
  BY <1>1, Known DEF LauncherInv, PortLock
<1>3. ASSUME NEW place \in {"failed", "reaped", "stopped"}, Scripts!Go(s, place),
             (\E set : Scripts!Killed(set)) \/ UNCHANGED servers,
             place = "reaped" => shells[s].of = "glm53" /\ Scripts!Alive' = {},
             Quiet => Scripts!Alive' = {}
      PROVE  LauncherInv'
  <2>1. place \in Places \ {"idle"}
    BY DEF Places
  <2>2. /\ servers' \in [Scripts!Processes -> State]
        /\ Scripts!Alive' \subseteq Scripts!Alive
        /\ \A p \in Scripts!Alive' : servers'[p] = servers[p]
    <3>1. CASE UNCHANGED servers
      BY <1>2, <3>1 DEF ProcessTypes, Scripts!Alive
    <3>2. CASE \E set : Scripts!Killed(set)
      BY <1>2, <3>2, KilledMoves
    <3> QED
      BY <1>3, <3>1, <3>2
  <2>3. ProcessTypes' /\ lapses' \in Nat
    BY <1>1, <1>2, <2>2 DEF ProcessTypes, LauncherTypes
  <2>4. shells'[s].at = place
    BY <1>2, <1>3, <2>1, GoMoves
  <2>5. Quiet => (\A p, q \in Scripts!Alive' : p = q) /\ Attended(s)'
    BY <1>3, <2>4 DEF Attended, Settled
  <2> QED
    BY <1>1, <1>3, <2>1, <2>3, <2>5, GoKeeps
<1>4. CASE Scripts!GiveUp(s)
  <2>1. shells[s].at = "late" /\ Scripts!Killed({shells[s].pid}) /\ Scripts!Go(s, "failed")
    BY <1>4 DEF Scripts!GiveUp, Scripts!At
  <2>2. Quiet => Scripts!Alive' = {}
    BY <1>2, <2>1, KilledMoves DEF Attended, Own
  <2> QED
    BY <1>3, <2>1, <2>2
<1>5. CASE Scripts!KillStrays(s)
  <2>1. shells[s].at = "strays" /\ Scripts!Killed(Scripts!Strays(s)) /\ Scripts!Go(s, Scripts!Reaped(s))
    BY <1>5 DEF Scripts!KillStrays, Scripts!At
  <2>2. Scripts!Strays(s) = Scripts!Alive /\ Scripts!Reaped(s) = "reaped"
    BY <1>2, <2>1 DEF Scripts!Strays, Scripts!Reaped
  <2>3. Scripts!Alive' = {}
    BY <1>2, <2>1, <2>2, KilledMoves
  <2> QED
    BY <1>2, <1>3, <2>1, <2>2, <2>3
<1>6. CASE Scripts!AwaitStopped(s)
  <2>1. /\ shells[s].at = "stopping" /\ Scripts!Go(s, "stopped")
        /\ \/ pidFile[shells[s].of] \notin Scripts!Alive /\ UNCHANGED servers
           \/ Scripts!Killed({shells[s].pid})
    BY <1>6 DEF Scripts!AwaitStopped, Scripts!At, Scripts!IsRunning
  <2>2. Quiet => \A p \in Scripts!Alive : p = shells[s].pid /\ pidFile[shells[s].of] = p
    BY <1>2, <2>1 DEF Attended
  <2>3. Quiet => Scripts!Alive' = {}
    <3>1. CASE pidFile[shells[s].of] \notin Scripts!Alive /\ UNCHANGED servers
      BY <2>2, <3>1 DEF Scripts!Alive
    <3>2. CASE Scripts!Killed({shells[s].pid})
      BY <1>2, <2>2, <3>2, KilledMoves
    <3> QED
      BY <2>1, <3>1, <3>2
  <2> QED
    BY <1>3, <2>1, <2>3
<1> QED
  BY <1>4, <1>5, <1>6

LEMMA AskStraysKeeps ==
  ASSUME LauncherInv, NEW s \in Shells, Scripts!AskStrays(s)
  PROVE  LauncherInv'
<1> DEFINE place == IF Scripts!Strays(s) = {} THEN Scripts!Reaped(s) ELSE "strays"
<1>1. /\ shells[s].at = "stop" /\ pidFile[shells[s].of] \notin Scripts!Alive
      /\ servers' = [p \in Scripts!Processes |->
                       IF p \in Scripts!Strays(s) THEN [servers[p] EXCEPT !.state = "stopping"]
                                                  ELSE servers[p]]
      /\ Scripts!Go(s, place) /\ UNCHANGED <<pidFile, lapses>>
  BY DEF Scripts!AskStrays, Scripts!At, Scripts!IsRunning
<1>2. /\ LauncherTypes /\ ProcessTypes /\ shells[s] \in Shell /\ shells[s].of \in Scripts!Launchers
      /\ Quiet => Settled /\ \A p, q \in Scripts!Alive : p = q
  BY <1>1, Known DEF Attended
<1>3. /\ servers' \in [Scripts!Processes -> State]
      /\ \A p \in Scripts!Processes :
           /\ servers'[p].by = servers[p].by
           /\ servers'[p].state = IF p \in Scripts!Strays(s) THEN "stopping" ELSE servers[p].state
           /\ p \notin Scripts!Strays(s) => servers'[p] = servers[p]
  BY <1>1, <1>2 DEF ProcessTypes, State
<1>4. Scripts!Alive' = Scripts!Alive
  BY <1>1, <1>3 DEF Scripts!Alive, Scripts!Gone, Scripts!Strays
<1>5. ProcessTypes' /\ lapses' \in Nat
  <2>1. \A p \in Scripts!Alive :
          p \in Scripts!Processes /\ servers[p].state # "gone" /\ servers[p].by \in Scripts!Launchers
    BY <1>2 DEF ProcessTypes, Scripts!Alive
  <2>2. \A p \in Scripts!Alive' : servers'[p].state # "gone" /\ servers'[p].by \in Scripts!Launchers
    BY <1>3, <1>4, <2>1
  <2> QED
    BY <1>1, <1>2, <1>3, <2>2 DEF ProcessTypes, LauncherTypes
<1>6. CASE shells[s].of = "glm53"
  <2>1. place \in {"strays", "reaped"} /\ (place = "reaped" => Scripts!Alive = {})
    BY <1>6 DEF Scripts!Strays, Scripts!Reaped
  <2>2. place \in Places \ {"idle"}
    BY <2>1 DEF Places
  <2>3. shells'[s].at = place
    BY <1>1, <1>2, <2>2, GoMoves
  <2>4. Quiet => (\A p, q \in Scripts!Alive' : p = q) /\ Attended(s)'
    BY <1>2, <1>4, <2>1, <2>3 DEF Attended
  <2> QED
    BY <1>1, <1>4, <1>5, <1>6, <2>1, <2>2, <2>4, GoKeeps
<1>7. CASE shells[s].of = "abl"
  <2>1. place = "stopped" /\ Scripts!Strays(s) = {}
    BY <1>7 DEF Scripts!Strays, Scripts!Reaped
  <2>2. place \in Places \ {"idle"}
    BY <2>1 DEF Places
  <2>3. shells'[s].at = "stopped" /\ shells'[s].of = "abl"
    BY <1>1, <1>2, <1>7, <2>1, <2>2, GoMoves
  <2>4. \A p \in Scripts!Alive : p \in Scripts!Processes /\ servers'[p] = servers[p]
    BY <1>3, <2>1 DEF Scripts!Alive
  <2>5. Quiet => \A p \in Scripts!Alive : servers[p].by # "abl" /\ servers[p].by \in Scripts!Launchers
    BY <1>1, <1>2, <1>7 DEF Settled, ProcessTypes
  <2>6. Quiet => Settled' /\ \A p \in Scripts!Alive' : servers'[p].by = "glm53"
    BY <1>1, <1>2, <1>4, <2>4, <2>5 DEF Settled, Scripts!Launchers
  <2>7. Quiet => (\A p, q \in Scripts!Alive' : p = q) /\ Attended(s)'
    BY <1>2, <1>4, <2>3, <2>6 DEF Attended
  <2> QED
    BY <1>1, <1>5, <2>1, <2>2, <2>7, GoKeeps
<1> QED
  BY <1>2, <1>6, <1>7 DEF Scripts!Launchers

LEMMA TerminateKeeps ==
  ASSUME LauncherInv, NEW s \in Shells, Scripts!Terminate(s)
  PROVE  LauncherInv'
<1>1. PICK p : p = pidFile[shells[s].of]
  OBVIOUS
<1>2. /\ shells[s].at = "stop" /\ p \in Scripts!Alive
      /\ servers' = [servers EXCEPT ![p].state = "stopping"]
      /\ shells' = [shells EXCEPT ![s].at = "stopping", ![s].pid = p]
      /\ UNCHANGED <<pidFile, interrupts, lapses>>
  BY <1>1 DEF Scripts!Terminate, Scripts!At, Scripts!IsRunning
<1>3. /\ LauncherTypes /\ ProcessTypes /\ shells[s] \in Shell /\ shells[s].of \in Scripts!Launchers
      /\ Quiet => Settled /\ \A q, r \in Scripts!Alive : q = r
  BY <1>2, Known DEF Attended
<1>4. /\ shells' \in [Shells -> Shell]
      /\ \A o \in Shells \ {s} : shells'[o] = shells[o]
      /\ shells'[s].at = "stopping" /\ shells'[s].of = shells[s].of /\ shells'[s].pid = p
      /\ shells'[s].lock = shells[s].lock
  <2>1. /\ shells \in [Shells -> Shell]
        /\ shells' = [shells EXCEPT ![s] = [shells[s] EXCEPT !.at = "stopping", !.pid = p]]
    BY <1>2, <1>3 DEF LauncherTypes
  <2>2. PICK new : new = [shells[s] EXCEPT !.at = "stopping", !.pid = p]
    OBVIOUS
  <2>3. /\ new \in Shell /\ new.at = "stopping" /\ new.of = shells[s].of /\ new.pid = p
        /\ new.lock = shells[s].lock
    BY <1>2, <1>3, <2>2 DEF Shell, Places, Scripts!Alive
  <2> QED
    BY <2>1, <2>2, <2>3
<1>5. /\ servers' \in [Scripts!Processes -> State]
      /\ \A q \in Scripts!Processes :
           /\ servers'[q].by = servers[q].by
           /\ servers'[q].state = IF q = p THEN "stopping" ELSE servers[q].state
           /\ q # p => servers'[q] = servers[q]
      /\ p \in Scripts!Processes
  BY <1>2, <1>3 DEF ProcessTypes, State, Scripts!Alive
<1>6. Scripts!Alive' = Scripts!Alive
  BY <1>2, <1>5 DEF Scripts!Alive, Scripts!Gone
<1>7. ProcessTypes' /\ lapses' \in Nat
  <2>1. \A q \in Scripts!Alive :
          q \in Scripts!Processes /\ servers[q].state # "gone" /\ servers[q].by \in Scripts!Launchers
    BY <1>3 DEF ProcessTypes, Scripts!Alive
  <2>2. \A q \in Scripts!Alive' : servers'[q].state # "gone" /\ servers'[q].by \in Scripts!Launchers
    BY <1>5, <1>6, <2>1
  <2> QED
    BY <1>2, <1>3, <1>5, <2>2 DEF ProcessTypes, LauncherTypes
<1>8. Quiet => (\A q, r \in Scripts!Alive' : q = r) /\ Attended(s)'
  BY <1>1, <1>2, <1>3, <1>4, <1>6 DEF Attended
<1> QED
  BY <1>2, <1>4, <1>7, <1>8, ScriptKeeps

LEMMA EndStopKeeps ==
  ASSUME LauncherInv, NEW s \in Shells, Scripts!EndStop(s)
  PROVE  LauncherInv'
<1>1. /\ shells[s].at \in {"reaped", "stopped"} /\ Scripts!Forget(s) /\ UNCHANGED <<servers, lapses>>
      /\ Scripts!Go(s, "start") \/ Scripts!Exit(s)
  BY DEF Scripts!EndStop, Scripts!At
<1>2. /\ LauncherTypes /\ ProcessTypes /\ shells[s] \in Shell /\ shells[s].of \in Scripts!Launchers
      /\ Quiet => Attended(s) /\ \A p, q \in Scripts!Alive : p = q
  BY <1>1, Known
<1>3. /\ Scripts!Alive' = Scripts!Alive
      /\ pidFile' \in [Scripts!Launchers -> Scripts!Processes \union {Scripts!NoProcess}]
      /\ \A l \in Scripts!Launchers \ {shells[s].of} : pidFile'[l] = pidFile[l]
  BY <1>1, <1>2, ForgetMoves DEF Scripts!Alive
<1>4. ProcessTypes' /\ lapses' \in Nat
  BY <1>1, <1>2, <1>3 DEF ProcessTypes, LauncherTypes
<1>5. Quiet => Settled'
  <2>1. Quiet => Settled /\ \A p \in Scripts!Alive : servers[p].by \in Scripts!Launchers \ {shells[s].of}
    BY <1>1, <1>2 DEF Attended, Settled, Scripts!Launchers
  <2> QED
    BY <1>1, <1>3, <2>1 DEF Settled
<1>6. CASE Scripts!Go(s, "start")
  <2>1. "start" \in Places \ {"idle"}
    BY DEF Places
  <2>2. shells'[s].at = "start"
    BY <1>2, <1>6, <2>1, GoMoves
  <2>3. Quiet => (\A p, q \in Scripts!Alive' : p = q) /\ Attended(s)'
    BY <1>2, <1>3, <1>5, <2>2 DEF Attended
  <2> QED
    BY <1>1, <1>4, <1>6, <2>1, <2>3, GoKeeps
<1>7. CASE Scripts!Exit(s)
  BY <1>1, <1>2, <1>3, <1>4, <1>5, <1>7, ExitKeeps
<1> QED
  BY <1>1, <1>6, <1>7

LEMMA RunKeeps ==
  ASSUME LauncherInv, NEW s \in Shells, Scripts!Run(s)
  PROVE  LauncherInv'
<1>1. PICK l \in Scripts!Launchers, command \in {"start", "stop", "restart"}, file \in {"port", "other"} :
        /\ file = "port" => \A o \in Shells : shells[o].lock # "port"
        /\ IF file = "port" THEN UNCHANGED lapses ELSE lapses' = lapses + 1
        /\ shells' = [shells EXCEPT ![s] =
                       [at |-> IF command = "start" THEN "start" ELSE "stop",
                        of |-> l, again |-> command = "restart", pid |-> Scripts!NoProcess, lock |-> file]]
  <2>1. PICK l \in Scripts!Launchers, command \in {"start", "stop", "restart"} :
          \E file \in Scripts!MayName(l) :
            /\ Scripts!MayLock(file)
            /\ IF file = "port" THEN UNCHANGED lapses ELSE Scripts!Lapse
            /\ shells' = [shells EXCEPT ![s] =
                            [at |-> IF command = "start" THEN "start" ELSE "stop", of |-> l,
                             again |-> command = "restart", pid |-> Scripts!NoProcess, lock |-> file]]
    BY DEF Scripts!Run
  <2>2. PICK file \in Scripts!MayName(l) :
            /\ Scripts!MayLock(file)
            /\ IF file = "port" THEN UNCHANGED lapses ELSE Scripts!Lapse
            /\ shells' = [shells EXCEPT ![s] =
                            [at |-> IF command = "start" THEN "start" ELSE "stop", of |-> l,
                             again |-> command = "restart", pid |-> Scripts!NoProcess, lock |-> file]]
    BY <2>1
  <2>3. file \in {"port", "other"}
    BY <2>2 DEF Scripts!MayName
  <2>4. file = "port" => \A o \in Shells : shells[o].lock # "port"
    BY <2>2 DEF Scripts!MayLock
  <2>5. IF file = "port" THEN UNCHANGED lapses ELSE lapses' = lapses + 1
    BY <2>2 DEF Scripts!Lapse
  <2> QED
    BY <2>2, <2>3, <2>4, <2>5
<1>2. shells[s].at = "idle" /\ LauncherTypes /\ ProcessTypes /\ UNCHANGED <<servers, pidFile, interrupts>>
  BY DEF Scripts!Run, Scripts!At, LauncherInv, LauncherTypes
<1>3. /\ shells' \in [Shells -> Shell]
      /\ \A o \in Shells \ {s} : shells'[o] = shells[o]
      /\ shells'[s].at \in {"start", "stop"} /\ shells'[s].of = l /\ shells'[s].lock = file
  BY <1>1, <1>2 DEF LauncherTypes, Shell, Places, Scripts!Processes, Scripts!NoProcess
<1>4. Scripts!Alive' = Scripts!Alive /\ lapses' \in Nat /\ (lapses' = 0 => file = "port" /\ lapses = 0)
  BY <1>1, <1>2 DEF Scripts!Alive, LauncherTypes
<1>5. LauncherTypes'
  BY <1>2, <1>3, <1>4 DEF LauncherTypes, ProcessTypes
<1>6. PortLock'
  <2>1. \A o, q \in Shells : shells'[o].lock = "port" /\ shells'[q].lock = "port" => o = q
    BY <1>1, <1>3 DEF LauncherInv, PortLock
  <2>2. ASSUME NEW o \in Shells, shells'[o].at # "idle"
        PROVE  /\ shells'[o].of \in Scripts!Launchers
               /\ shells'[o].at \in {"strays", "reaped"} => shells'[o].of = "glm53"
               /\ lapses' = 0 => shells'[o].lock = "port" /\ (shells'[o].at = "reaped" => Scripts!Alive' = {})
    <3>1. CASE o = s
      BY <1>3, <1>4, <3>1
    <3>2. CASE o # s
      BY <1>3, <1>4, <2>2, <3>2 DEF LauncherInv, PortLock
    <3> QED
      BY <3>1, <3>2
  <2> QED
    BY <2>1, <2>2 DEF PortLock
<1>7. Quiet' => Undisturbed'
  <2> SUFFICES ASSUME Quiet' PROVE Undisturbed'
    OBVIOUS
  <2>1. Quiet /\ \A o \in Shells : shells[o].lock # "port"
    BY <1>1, <1>2, <1>4 DEF Quiet
  <2>2. \A o \in Shells : shells[o].at = "idle"
    BY <2>1 DEF LauncherInv, PortLock, Quiet
  <2>3. Settled' /\ \A p, q \in Scripts!Alive' : p = q
    BY <1>2, <1>4, <2>1, <2>2 DEF LauncherInv, Undisturbed, Settled
  <2>4. \A o \in Shells : Attended(o)'
    BY <1>3, <2>2, <2>3 DEF Attended
  <2> QED
    BY <2>3, <2>4 DEF Undisturbed
<1> QED
  BY <1>5, <1>6, <1>7 DEF LauncherInv

LEMMA InterruptKeeps ==
  ASSUME LauncherInv, NEW s \in Shells, Scripts!Interrupt(s)
  PROVE  LauncherInv' /\ interrupts' # interrupts
<1>1. /\ shells' = [shells EXCEPT ![s] = Scripts!Idle]
      /\ interrupts' = interrupts + 1 /\ UNCHANGED <<servers, pidFile, lapses>> /\ LauncherTypes
  BY DEF Scripts!Interrupt, LauncherInv
<1>2. /\ shells' \in [Shells -> Shell]
      /\ \A o \in Shells \ {s} : shells'[o] = shells[o]
      /\ shells'[s].at = "idle" /\ shells'[s].lock = "other"
  BY <1>1 DEF LauncherTypes, Scripts!Idle, Shell, Places, Scripts!Processes, Scripts!NoProcess
<1>3. Scripts!Alive' = Scripts!Alive
  BY <1>1 DEF Scripts!Alive
<1>4. LauncherTypes' /\ ~Quiet' /\ interrupts' # interrupts
  BY <1>1, <1>2, <1>3 DEF LauncherTypes, ProcessTypes, Quiet
<1>5. PortLock'
  BY <1>1, <1>2, <1>3 DEF LauncherInv, PortLock
<1> QED
  BY <1>4, <1>5 DEF LauncherInv

\* What servers do of themselves.
LEMMA ServersKeep ==
  ASSUME LauncherInv, NEW p \in Scripts!Processes, Scripts!Listen(p) \/ Scripts!Die(p)
  PROVE  LauncherInv'
<1>1. UNCHANGED <<pidFile, shells, interrupts, lapses>> /\ LauncherTypes /\ ProcessTypes
  BY DEF Scripts!Listen, Scripts!Die, LauncherInv, LauncherTypes
<1>2. /\ servers' \in [Scripts!Processes -> State]
      /\ Scripts!Alive' \subseteq Scripts!Alive
      /\ \A q \in Scripts!Alive' : /\ servers'[q].by = servers[q].by
                                  /\ servers'[q].state \in {servers[q].state, "serving"}
  <2>1. CASE Scripts!Listen(p)
    <3>1. /\ servers[p].state = "loading" /\ servers' = [servers EXCEPT ![p].state = "serving"]
          /\ servers \in [Scripts!Processes -> State]
      BY <1>1, <2>1 DEF Scripts!Listen, ProcessTypes
    <3>2. /\ servers' \in [Scripts!Processes -> State]
          /\ \A q \in Scripts!Processes :
               /\ servers'[q].by = servers[q].by
               /\ servers'[q].state = IF q = p THEN "serving" ELSE servers[q].state
               /\ q # p => servers'[q] = servers[q]
      BY <3>1 DEF State
    <3> QED
      BY <3>1, <3>2 DEF Scripts!Alive, Scripts!Gone
  <2>2. CASE Scripts!Die(p)
    BY <1>1, <2>2, KilledMoves DEF Scripts!Die
  <2> QED
    BY <2>1, <2>2
<1>3. LauncherTypes'
  BY <1>1, <1>2 DEF LauncherTypes, ProcessTypes
<1>4. PortLock'
  BY <1>1, <1>2 DEF LauncherInv, PortLock
<1>5. Quiet' => Undisturbed'
  <2> SUFFICES ASSUME Quiet', Undisturbed
               PROVE  Undisturbed'
    BY <1>1 DEF LauncherInv, Quiet
  <2>1. Settled => Settled'
    BY <1>1, <1>2 DEF Settled
  <2>2. \A s \in Shells : Own(s) => Own(s)'
    BY <1>1, <1>2 DEF Own
  <2>3. \A s \in Shells : Attended(s) => Attended(s)'
    BY <1>1, <1>2, <2>1, <2>2 DEF Attended
  <2> QED
    BY <1>1, <1>2, <2>1, <2>3 DEF Undisturbed
<1> QED
  BY <1>3, <1>4, <1>5 DEF LauncherInv

LEMMA LauncherStutters == LauncherInv /\ UNCHANGED scripts => LauncherInv'
BY DEF scripts, LauncherInv, LauncherTypes, ProcessTypes, PortLock, Undisturbed, Settled, Attended, Own, Quiet,
       Scripts!Alive

LEMMA LauncherKeeps == LauncherInv /\ [Scripts!LauncherNext]_scripts => LauncherInv'
BY RunKeeps, LookKeeps, CleanKeeps, SpawnKeeps, RecordKeeps, EndingKeeps, AskStraysKeeps, TerminateKeeps,
   EndStopKeeps, InterruptKeeps, ServersKeep, LauncherStutters
   DEF Scripts!LauncherNext, Scripts!Start, Scripts!Stop

LEMMA ScriptsPart ==
  /\ ServingInit => Scripts!LauncherInit
  /\ [ServingNext]_serving => [Scripts!LauncherNext]_scripts
BY DEF ServingInit, ServingNext, serving, scripts, ScriptsMove, ServerMoves, ImagesMove, BytesMove, ParserMoves,
       ResponseMoves, TokensMove, ChatMoves, SamplerMoves

LEMMA LauncherInductive == ServingSpec => []LauncherInv
<1>1. ServingInit => LauncherInv
  BY ScriptsPart, LauncherInitKeeps
<1>2. LauncherInv /\ [ServingNext]_serving => LauncherInv'
  BY ScriptsPart, LauncherKeeps
<1> QED
  BY <1>1, <1>2, PTL DEF ServingSpec

\* The scripts count as everyone does.
LEMMA ScriptsCount == \A S : Scripts!Cardinality(S) = Cardinality(S)
BY DEF Scripts!Cardinality, Cardinality

\* Where every script holds the lock of the port and asks for the port, and none
\* is interrupted, there is at most one server however many terminals run the
\* scripts of both checkpoints and whenever servers die.
THEOREM AtMostOneServer == ServingSpec => []OneServer
<1>1. LauncherInv => OneServer
  <2> SUFFICES ASSUME LauncherInv, Quiet
               PROVE  Cardinality(Scripts!Alive) <= 1
    BY ScriptsCount DEF OneServer, Scripts!OneServer, Quiet
  <2>1. \A p, q \in Scripts!Alive : p = q
    BY DEF LauncherInv, Undisturbed
  <2>2. CASE Scripts!Alive = {}
    BY <2>2, FS_EmptySet
  <2>3. CASE Scripts!Alive # {}
    <3>1. PICK p \in Scripts!Alive : Scripts!Alive = {p}
      BY <2>1, <2>3
    <3>2. Cardinality({p}) = 1
      BY FS_Singleton
    <3> QED
      BY <3>1, <3>2
  <2> QED
    BY <2>2, <2>3
<1> QED
  BY <1>1, LauncherInductive, PTL

\* A step of one script leaves the others where they are.
LEMMA OneMoves ==
  ASSUME LauncherInv, NEW s \in Shells, NEW o \in Shells \ {s},
         Scripts!Run(o) \/ Scripts!Start(o) \/ Scripts!Stop(o)
  PROVE  shells'[s] = shells[s]
<1>1. shells \in [Shells -> Shell]
  BY DEF LauncherInv, LauncherTypes
<1> QED
  BY <1>1
     DEF Scripts!Run, Scripts!Start, Scripts!Stop, Scripts!CheckRunning, Scripts!CheckPort, Scripts!WaitMemory,
         Scripts!Clean, Scripts!Spawn, Scripts!Record, Scripts!AwaitReady, Scripts!GiveUp, Scripts!Fail,
         Scripts!AskStrays, Scripts!KillStrays, Scripts!Terminate, Scripts!AwaitStopped, Scripts!EndStop,
         Scripts!Go, Scripts!Exit

\* Where a script ends its stop, it took the step itself.
LEMMA StopEnds ==
  ASSUME LauncherInv, [Scripts!LauncherNext]_scripts, NEW s \in Shells,
         shells[s].at \in {"reaped", "stopped"}, shells'[s].at \in {"idle", "start"},
         interrupts' = interrupts
  PROVE  UNCHANGED servers
<1>1. Scripts!LauncherNext /\ ~(\E p \in Scripts!Processes : Scripts!Listen(p) \/ Scripts!Die(p))
  BY DEF scripts, Scripts!Listen, Scripts!Die
<1>2. PICK o \in Shells : Scripts!Run(o) \/ Scripts!Start(o) \/ Scripts!Stop(o)
  BY <1>1, InterruptKeeps DEF Scripts!LauncherNext
<1>3. o = s
  BY <1>2, OneMoves
<1>4. Scripts!EndStop(s)
  BY <1>2, <1>3
     DEF Scripts!Run, Scripts!At, Scripts!Start, Scripts!Stop, Scripts!CheckRunning, Scripts!CheckPort,
         Scripts!WaitMemory, Scripts!Clean, Scripts!Spawn, Scripts!Record, Scripts!AwaitReady, Scripts!GiveUp,
         Scripts!Fail, Scripts!AskStrays, Scripts!KillStrays, Scripts!Terminate, Scripts!AwaitStopped
<1> QED
  BY <1>4 DEF Scripts!EndStop

\* When a stop is done its launcher has left no server, whoever started it, and
\* the other launcher none of its own, where every script holds the lock of the
\* port; a stop that looked for strays says so even after interruptions.
THEOREM StopsMeanStopped == ServingSpec => StopMeansStopped
<1> DEFINE Stopped(s) ==
      (/\ shells[s].at \in {"reaped", "stopped"} /\ shells'[s].at \in {"idle", "start"}
       /\ interrupts' = interrupts /\ lapses = 0
       /\ interrupts = 0 \/ shells[s].at = "reaped")
      => \A p \in Scripts!Alive' : shells[s].of = "abl" /\ servers'[p].by = "glm53"
<1>1. ASSUME LauncherInv, [Scripts!LauncherNext]_scripts, NEW s \in Shells
      PROVE  Stopped(s)
  <2> SUFFICES ASSUME shells[s].at \in {"reaped", "stopped"}, shells'[s].at \in {"idle", "start"},
                      interrupts' = interrupts, lapses = 0,
                      interrupts = 0 \/ shells[s].at = "reaped",
                      NEW p \in Scripts!Alive'
               PROVE  shells[s].of = "abl" /\ servers'[p].by = "glm53"
    OBVIOUS
  <2>1. UNCHANGED servers
    BY <1>1, StopEnds
  <2>2. p \in Scripts!Alive /\ servers'[p] = servers[p]
    BY <2>1 DEF Scripts!Alive
  <2>3. shells[s].at # "reaped"
    BY <1>1, <2>2 DEF LauncherInv, PortLock
  <2>4. Attended(s)
    BY <1>1, <2>3, Known DEF Quiet
  <2> QED
    BY <2>2, <2>3, <2>4 DEF Attended
<1>2. LauncherInv /\ [Scripts!LauncherNext]_scripts => [\A s \in Shells : Stopped(s)]_(Scripts!launching)
  BY <1>1
<1>3. LauncherInv /\ [ServingNext]_serving => [\A s \in Shells : Stopped(s)]_(Scripts!launching)
  BY <1>2, ScriptsPart
<1>4. ServingSpec => [][\A s \in Shells : Stopped(s)]_(Scripts!launching)
  BY <1>3, LauncherInductive, PTL DEF ServingSpec
<1> QED
  BY <1>4 DEF StopMeansStopped, Scripts!StopMeansStopped

-----------------------------------------------------------------------------
(* Induction over numbers, for the loops of the text path.                 *)

LEMMA Reaches ==
  ASSUME NEW S \in SUBSET Nat, 0 \in S, \A n \in S : n + 1 \in S
  PROVE  S = Nat
<1> SUFFICES ASSUME Nat \ S # {} PROVE FALSE
  OBVIOUS
<1>1. \E x \in Nat \ S : \A y \in Nat \ S : ~(<<y, x>> \in OpToRel(<, Nat))
  BY NatLessThanWellFounded, WFMin
<1>2. PICK x \in Nat \ S : \A y \in Nat \ S : ~(y < x)
  BY <1>1 DEF OpToRel
<1>3. x # 0 /\ x - 1 \in Nat /\ x - 1 < x /\ x - 1 + 1 = x
  BY <1>2
<1>4. x - 1 \in S
  BY <1>2, <1>3
<1> QED
  BY <1>2, <1>3, <1>4

\* Sets of numbers have a least one, and a greatest one where they are bounded.
LEMMA LeastOf ==
  ASSUME NEW S \in SUBSET Nat, S # {}
  PROVE  \E x \in S : \A y \in S : x <= y
<1>1. S \subseteq Nat
  OBVIOUS
<1>2. \E x \in S : \A y \in S : ~(<<y, x>> \in OpToRel(<, Nat))
  BY <1>1, NatLessThanWellFounded, WFMin
<1>3. PICK x \in S : \A y \in S : ~(y < x)
  BY <1>1, <1>2 DEF OpToRel
<1>4. \A y \in S : x <= y
  BY <1>3
<1> QED
  BY <1>4

LEMMA GreatestOf ==
  ASSUME NEW n \in Nat, NEW S \in SUBSET (0..n), S # {}
  PROVE  \E x \in S : \A y \in S : y <= x
<1> DEFINE T == {n - x : x \in S}
<1>1. T \in SUBSET Nat /\ T # {}
  <2>1. \A x \in S : n - x \in Nat
    OBVIOUS
  <2> QED
    BY <2>1
<1> HIDE DEF T
<1>2. PICK t \in T : \A y \in T : t <= y
  BY <1>1, LeastOf
<1>3. PICK x \in S : t = n - x
  BY <1>2 DEF T
<1>4. \A y \in S : n - y \in T
  BY DEF T
<1>5. \A y \in S : y <= x
  <2> SUFFICES ASSUME NEW y \in S PROVE y <= x
    OBVIOUS
  <2>1. n - x <= n - y
    BY <1>2, <1>3, <1>4
  <2> QED
    BY <2>1
<1> QED
  BY <1>5

\* What n rounds of a loop keep.
LEMMA Stays ==
  ASSUME NEW n \in Nat, NEW X, NEW f, f[0] \in X, \A k \in 1..n : f[k - 1] \in X => f[k] \in X
  PROVE  \A k \in 0..n : f[k] \in X
<1> DEFINE T == {m \in Nat : m <= n => f[m] \in X}
<1>1. 0 \in T
  OBVIOUS
<1>2. ASSUME NEW m \in T PROVE m + 1 \in T
  <2>1. CASE m + 1 <= n
    <3>1. m \in Nat /\ f[m] \in X /\ m + 1 \in 1..n /\ (m + 1) - 1 = m
      BY <1>2, <2>1
    <3>2. f[m + 1] \in X
      BY <3>1
    <3> QED
      BY <3>1, <3>2
  <2> QED
    BY <2>1
<1>3. T \in SUBSET Nat
  OBVIOUS
<1>4. T = Nat
  <2> HIDE DEF T
  <2> QED
    BY <1>1, <1>2, <1>3, Reaches
<1> QED
  BY <1>4

\* A loop of n rounds on states in X, from a, can be run.
Run(f, n, a, step) == f = [k \in 0..n |-> IF k = 0 THEN a ELSE step[k][f[k - 1]]]

LEMMA Runs ==
  ASSUME NEW n \in Nat, NEW X, NEW a \in X, NEW step \in [1..n -> [X -> X]]
  PROVE  \E f \in [0..n -> X] : Run(f, n, a, step)
<1> DEFINE S == {m \in Nat : m <= n => \E f \in [0..m -> X] : Run(f, m, a, step)}
<1>1. 0 \in S
  <2>1. PICK f : f = [k \in 0..0 |-> a]
    OBVIOUS
  <2>2. f \in [0..0 -> X] /\ Run(f, 0, a, step)
    BY <2>1 DEF Run
  <2> QED
    BY <2>2
<1>2. ASSUME NEW m \in S, m + 1 <= n PROVE m + 1 \in S
  <2>1. m \in Nat /\ m <= n
    BY <1>2
  <2>2. PICK f \in [0..m -> X] : Run(f, m, a, step)
    BY <1>2, <2>1
  <2>3. PICK g : g = [k \in 0..(m + 1) |-> IF k <= m THEN f[k] ELSE step[m + 1][f[m]]]
    OBVIOUS
  <2>4. m + 1 \in 1..n /\ f[m] \in X /\ step[m + 1][f[m]] \in X
    BY <1>2, <2>1, <2>2
  <2>5. g \in [0..(m + 1) -> X]
    BY <2>1, <2>2, <2>3, <2>4
  <2>6. ASSUME NEW k \in 0..(m + 1)
        PROVE  g[k] = IF k = 0 THEN a ELSE step[k][g[k - 1]]
    <3>1. CASE k = m + 1
      BY <2>1, <2>3, <3>1
    <3>2. CASE k # m + 1
      <4>1. k \in 0..m /\ g[k] = f[k] /\ (k # 0 => g[k - 1] = f[k - 1])
        BY <2>1, <2>3, <2>6, <3>2
      <4>2. f[k] = IF k = 0 THEN a ELSE step[k][f[k - 1]]
        BY <2>2, <4>1 DEF Run
      <4> QED
        BY <4>1, <4>2
    <3> QED
      BY <3>1, <3>2
  <2>7. g = [k \in 0..(m + 1) |-> IF k = 0 THEN a ELSE step[k][g[k - 1]]]
    BY <2>5, <2>6
  <2>8. \E h \in [0..(m + 1) -> X] : Run(h, m + 1, a, step)
    BY <2>5, <2>7 DEF Run
  <2> QED
    BY <2>1, <2>8
<1>3. \A m \in S : m + 1 \in S
  BY <1>2
<1>4. S \in SUBSET Nat
  OBVIOUS
<1>5. n \in S
  <2> HIDE DEF S
  <2> QED
    BY <1>1, <1>3, <1>4, Reaches
<1> QED
  BY <1>5

-----------------------------------------------------------------------------
(* Text.                                                                   *)

Strings == {ThinkEnd, ToolBegin, ToolEnd, Boundary} \union Pieces \union Tokens \union Stops
Letters == UNION {{s[i] : i \in DOMAIN s} : s \in Strings}
Text    == Seq(Letters)
Delta   == [channel : {"reasoning", "content", "call", "stop"}, text : Text]
Loop    == [buf : Text, think : BOOLEAN, tool : BOOLEAN, body : Text, done : BOOLEAN,
            deltas : Seq(Delta), more : BOOLEAN]

LEMMA StringsAreText ==
  /\ \A s \in Strings : s \in Text
  /\ \A m \in Response!Markers : m \in Text /\ Len(m) \in Nat /\ Len(m) >= 2
<1>1. ASSUME NEW s \in Strings PROVE s \in Text
  <2>1. s \in Seq({s[i] : i \in DOMAIN s}) /\ {s[i] : i \in DOMAIN s} \subseteq Letters
    BY <1>1, TextAssumption DEF Strings, Letters
  <2> QED
    BY <2>1, SeqMonotonic DEF Text
<1>2. ASSUME NEW m \in Response!Markers PROVE m \in Text /\ Len(m) \in Nat /\ Len(m) >= 2
  <2>1. m \in Strings /\ Len(m) >= 2
    BY TextAssumption DEF Response!Markers, Strings
  <2>2. m \in Text
    BY <1>1, <2>1
  <2> QED
    BY <2>1, <2>2 DEF Text
<1> QED
  BY <1>1, <1>2

LEMMA FirstIsLeast ==
  ASSUME NEW S \in SUBSET Nat, S # {}
  PROVE  Response!First(S) \in S /\ \A j \in S : Response!First(S) <= j
<1>1. \E x \in S : \A y \in S : x <= y
  BY LeastOf
<1> QED
  BY <1>1 DEF Response!First

LEMMA Cuts ==
  ASSUME NEW s \in Text, NEW i \in Nat \ {0}, NEW j \in Int, j <= Len(s)
  PROVE  /\ SubSeq(s, i, j) \in Text
         /\ Len(SubSeq(s, i, j)) = IF i <= j THEN j - i + 1 ELSE 0
         /\ \A k \in 1..(j - i + 1) : SubSeq(s, i, j)[k] = s[i + k - 1]
<1>1. \A k \in i..j : s[k] \in Letters
  <2>1. \A k \in i..j : k \in 1..Len(s)
    BY DEF Text
  <2> QED
    BY <2>1 DEF Text
<1>2. i \in Int
  OBVIOUS
<1>3. /\ SubSeq(s, i, j) \in Seq(Letters)
      /\ Len(SubSeq(s, i, j)) = IF i <= j THEN j - i + 1 ELSE 0
      /\ \A k \in 1..(j - i + 1) : SubSeq(s, i, j)[k] = s[i + k - 1]
  BY <1>1, <1>2, SubSeqProperties
<1> QED
  BY <1>3 DEF Text

LEMMA FromIsText ==
  ASSUME NEW s \in Text, NEW i \in Nat \ {0}
  PROVE  Response!From(s, i) \in Text
<1>1. Len(s) \in Int /\ Len(s) <= Len(s)
  BY DEF Text
<1>2. SubSeq(s, i, Len(s)) \in Text
  BY <1>1, Cuts
<1> QED
  BY <1>2 DEF Response!From

\* The text that ends in s and may become a marker.
Fits(s, n) ==
  n = 0 \/ \E m \in Response!Markers : n < Len(m) /\ Response!At(s, Len(s) - n + 1, SubSeq(m, 1, n))

LEMMA HoldbackIsLongest ==
  ASSUME NEW s \in Text
  PROVE  /\ Response!Holdback(s) \in 0..Len(s) /\ Fits(s, Response!Holdback(s))
         /\ \A k \in (Response!Holdback(s) + 1)..Len(s) : ~Fits(s, k)
<1> DEFINE S == {n \in 0..Len(s) : Fits(s, n)}
<1>1. Len(s) \in Nat
  BY DEF Text
<1>2. 0 \in S
  BY <1>1 DEF Fits
<1>3. S \in SUBSET (0..Len(s)) /\ S # {}
  BY <1>2
<1>4. PICK x \in S : \A y \in S : y <= x
  <2> HIDE DEF S
  <2> QED
    BY <1>1, <1>3, GreatestOf
<1>5. x \in 0..Len(s) /\ Fits(s, x) /\ \A k \in (x + 1)..Len(s) : ~Fits(s, k)
  BY <1>1, <1>4
<1>6. \E n \in 0..Len(s) : Fits(s, n) /\ \A k \in (n + 1)..Len(s) : ~Fits(s, k)
  BY <1>5
<1>7. Response!Holdback(s) = CHOOSE n \in 0..Len(s) : Fits(s, n) /\ \A k \in (n + 1)..Len(s) : ~Fits(s, k)
  BY DEF Response!Holdback, Fits
<1> QED
  BY <1>6, <1>7

LEMMA PlacesInText ==
  ASSUME NEW s \in Text, NEW m
  PROVE  /\ Response!Places(s, m) \in SUBSET Nat
         /\ \A i \in Response!Places(s, m) : i \in 1..Len(s) /\ Response!At(s, i, m)
BY DEF Response!Places, Text

-----------------------------------------------------------------------------
(* The parser's loop.                                                      *)

LEMMA DrainToolTyped ==
  ASSUME NEW p \in Loop, NEW lim \in 0..Len(p.buf)
  PROVE  Response!DrainTool(p, lim) \in Loop
<1> DEFINE ends == Response!Places(p.buf, ToolEnd)
           e    == Response!First(ends)
<1>1. p.buf \in Text /\ p.body \in Text /\ Len(p.buf) \in Nat /\ p.deltas \in Seq(Delta)
  BY DEF Loop, Text
<1>2. CASE ends = {}
  <2>1. SubSeq(p.buf, 1, lim) \in Text /\ Response!From(p.buf, lim + 1) \in Text
    BY <1>1, Cuts, FromIsText
  <2>2. PICK b : b = p.body \o SubSeq(p.buf, 1, lim)
    OBVIOUS
  <2>3. PICK r : r = Response!From(p.buf, lim + 1)
    OBVIOUS
  <2>4. b \in Text /\ r \in Text
    BY <1>1, <2>1, <2>2, <2>3 DEF Text
  <2>5. Response!DrainTool(p, lim) = [[p EXCEPT !.body = b, !.buf = r] EXCEPT !.more = FALSE]
    BY <1>2, <2>2, <2>3 DEF Response!DrainTool, Response!Break
  <2> QED
    BY <2>4, <2>5 DEF Loop
<1>3. CASE ends # {}
  <2>1. ends \in SUBSET Nat /\ e \in ends /\ e \in 1..Len(p.buf)
    BY <1>1, <1>3, PlacesInText, FirstIsLeast
  <2>2. Len(ToolEnd) \in Nat
    BY StringsAreText DEF Response!Markers
  <2>3. e - 1 \in Int /\ e - 1 <= Len(p.buf) /\ e + Len(ToolEnd) \in Nat \ {0} /\ 1 \in Nat \ {0}
    BY <1>1, <2>1, <2>2
  <2>4. SubSeq(p.buf, 1, e - 1) \in Text /\ Response!From(p.buf, e + Len(ToolEnd)) \in Text
    BY <1>1, <2>3, Cuts, FromIsText
  <2>5. PICK d : d = p.deltas \o Response!CallDelta(p.body \o SubSeq(p.buf, 1, e - 1))
    OBVIOUS
  <2>6. PICK r : r = Response!From(p.buf, e + Len(ToolEnd))
    OBVIOUS
  <2>7. d \in Seq(Delta) /\ r \in Text
    <3>1. p.body \o SubSeq(p.buf, 1, e - 1) \in Text
      BY <1>1, <2>4 DEF Text
    <3>2. [channel |-> "call", text |-> p.body \o SubSeq(p.buf, 1, e - 1)] \in Delta
      BY <3>1 DEF Delta
    <3>3. Response!CallDelta(p.body \o SubSeq(p.buf, 1, e - 1)) \in Seq(Delta)
      BY <3>2 DEF Response!CallDelta
    <3> QED
      BY <1>1, <2>4, <2>5, <2>6, <3>3
  <2>8. Response!DrainTool(p, lim) = [p EXCEPT !.deltas = d, !.body = <<>>, !.tool = FALSE, !.buf = r]
    BY <1>3, <2>5, <2>6 DEF Response!DrainTool
  <2>9. <<>> \in Text
    BY DEF Text
  <2> QED
    BY <2>7, <2>8, <2>9 DEF Loop
<1> QED
  BY <1>2, <1>3

LEMMA SaidTyped ==
  ASSUME NEW p \in Loop, NEW n \in Int, n <= Len(p.buf)
  PROVE  p.deltas \o Response!TextDelta(p.think, SubSeq(p.buf, 1, n)) \in Seq(Delta)
<1>1. p.buf \in Text /\ p.deltas \in Seq(Delta)
  BY DEF Loop
<1>2. SubSeq(p.buf, 1, n) \in Text
  BY <1>1, Cuts
<1>3. PICK t : t = SubSeq(p.buf, 1, n)
  OBVIOUS
<1>4. [channel |-> IF p.think THEN "reasoning" ELSE "content", text |-> t] \in Delta
  BY <1>2, <1>3 DEF Delta
<1>5. Response!TextDelta(p.think, t) \in Seq(Delta)
  BY <1>4 DEF Response!TextDelta
<1> QED
  BY <1>1, <1>3, <1>5

LEMMA AfterMarkerTyped ==
  ASSUME NEW p \in Loop, NEW m
  PROVE  Response!AfterMarker(p, m) \in Loop
<1>1. <<>> \in Text
  BY DEF Text
<1>2. CASE m = ThinkEnd
  BY <1>2 DEF Response!AfterMarker, Loop
<1>3. CASE m = ToolBegin /\ m # ThinkEnd
  BY <1>1, <1>3 DEF Response!AfterMarker, Loop
<1>4. CASE m # ToolBegin /\ m # ThinkEnd
  <2>1. PICK d : d = p.deltas \o Response!StopDelta
    OBVIOUS
  <2>2. d \in Seq(Delta)
    <3>1. [channel |-> "stop", text |-> <<>>] \in Delta
      BY <1>1 DEF Delta
    <3>2. p.deltas \in Seq(Delta)
      BY DEF Loop
    <3> QED
      BY <2>1, <3>1, <3>2 DEF Response!StopDelta
  <2>3. Response!AfterMarker(p, m) = [[p EXCEPT !.deltas = d, !.done = TRUE, !.buf = <<>>] EXCEPT !.more = FALSE]
    BY <1>4, <2>1 DEF Response!AfterMarker, Response!Break
  <2> QED
    BY <1>1, <2>2, <2>3 DEF Loop
<1> QED
  BY <1>2, <1>3, <1>4

LEMMA DrainTextTyped ==
  ASSUME NEW p \in Loop, NEW lim \in 0..Len(p.buf)
  PROVE  Response!DrainText(p, lim) \in Loop
<1> DEFINE starts(m) == {i \in Response!Places(p.buf, m) : i <= lim}
           all == UNION {starts(m) : m \in Response!Searched}
           i   == Response!First(all)
           mk  == CHOOSE m \in Response!Searched : i \in starts(m)
<1>1. p.buf \in Text /\ Len(p.buf) \in Nat
  BY DEF Loop, Text
<1>2. \A m : starts(m) \subseteq 1..Len(p.buf)
  BY <1>1, PlacesInText
<1>3. CASE all = {}
  <2>1. PICK d : d = p.deltas \o Response!TextDelta(p.think, SubSeq(p.buf, 1, lim))
    OBVIOUS
  <2>2. PICK r : r = Response!From(p.buf, lim + 1)
    OBVIOUS
  <2>3. d \in Seq(Delta) /\ r \in Text
    BY <1>1, <2>1, <2>2, SaidTyped, FromIsText
  <2>4. Response!DrainText(p, lim) = [[[p EXCEPT !.deltas = d] EXCEPT !.buf = r] EXCEPT !.more = FALSE]
    BY <1>3, <2>1, <2>2 DEF Response!DrainText, Response!Break, Loop
  <2> QED
    BY <2>3, <2>4 DEF Loop
<1>4. CASE all # {}
  <2>1. all \in SUBSET Nat /\ i \in all
    <3>1. all \in SUBSET Nat
      BY <1>1, <1>2
    <3> HIDE DEF all
    <3> QED
      BY <1>4, <3>1, FirstIsLeast
  <2>2. i \in 1..Len(p.buf) /\ mk \in Response!Searched
    BY <1>2, <2>1
  <2>3. Len(mk) \in Nat
    BY <2>2, StringsAreText DEF Response!Markers, Response!Searched
  <2>4. PICK d : d = p.deltas \o Response!TextDelta(p.think, SubSeq(p.buf, 1, i - 1))
    OBVIOUS
  <2>5. PICK r : r = Response!From(p.buf, i + Len(mk))
    OBVIOUS
  <2>6. d \in Seq(Delta) /\ r \in Text
    BY <1>1, <2>2, <2>3, <2>4, <2>5, SaidTyped, FromIsText
  <2>7. PICK q : q = [[p EXCEPT !.deltas = d] EXCEPT !.buf = r]
    OBVIOUS
  <2>8. q \in Loop
    BY <2>6, <2>7 DEF Loop
  <2>9. Response!DrainText(p, lim) = Response!AfterMarker(q, mk)
    BY <1>4, <2>4, <2>5, <2>7 DEF Response!DrainText, Loop
  <2> QED
    BY <2>8, <2>9, AfterMarkerTyped
<1> QED
  BY <1>3, <1>4

LEMMA IterationTyped ==
  ASSUME NEW p \in Loop, NEW flush \in BOOLEAN
  PROVE  Response!Iteration(p, flush) \in Loop
<1> DEFINE lim == Len(p.buf) - (IF flush THEN 0 ELSE Response!Holdback(p.buf))
<1>1. p.buf \in Text /\ Len(p.buf) \in Nat /\ Response!Holdback(p.buf) \in 0..Len(p.buf)
  BY HoldbackIsLongest DEF Loop, Text
<1>2. lim \in 0..Len(p.buf)
  BY <1>1
<1> HIDE DEF lim
<1>3. Response!DrainTool(p, lim) \in Loop /\ Response!DrainText(p, lim) \in Loop
  BY <1>2, DrainToolTyped, DrainTextTyped
<1>4. Response!Iteration(p, flush) \in {p, Response!DrainTool(p, lim), Response!DrainText(p, lim)}
  BY DEF Response!Iteration, lim
<1> QED
  BY <1>3, <1>4

ParserTypes ==
  /\ opened \in BOOLEAN /\ think \in BOOLEAN /\ tool \in BOOLEAN /\ done \in BOOLEAN /\ finished \in BOOLEAN
  /\ fed \in Text /\ buf \in Text /\ body \in Text

Begins(text0) == [buf |-> text0, think |-> think, tool |-> tool, body |-> body,
                  done |-> done, deltas |-> <<>>, more |-> TRUE]

\* drain() is its iterations, one after the other.
LEMMA DrainIterates ==
  ASSUME ParserTypes, NEW s \in Text, NEW flush \in BOOLEAN
  PROVE  \E f \in [0..(Len(s) + 1) -> Loop] :
           /\ f[0] = Begins(s) /\ f[Len(s) + 1] = Response!Drain(s, flush)
           /\ \A k \in 1..(Len(s) + 1) : f[k] = Response!Iteration(f[k - 1], flush)
<1> DEFINE n == Len(s) + 1
           IsLoop(f) == f = [k \in 0..n |-> IF k = 0 THEN Begins(s) ELSE Response!Iteration(f[k - 1], flush)]
           F == CHOOSE f : IsLoop(f)
<1>1. n \in Nat /\ n = Len(s) + 1
  BY DEF Text
<1>2. Begins(s) \in Loop
  BY DEF ParserTypes, Begins, Loop
<1>3. Response!Drain(s, flush) = F[n]
  BY DEF Response!Drain, Begins
<1> HIDE DEF n
<1>4. \E f : IsLoop(f)
  <2>1. PICK step : step = [k \in 1..n |-> [p \in Loop |-> Response!Iteration(p, flush)]]
    OBVIOUS
  <2>2. step \in [1..n -> [Loop -> Loop]]
    <3>1. [p \in Loop |-> Response!Iteration(p, flush)] \in [Loop -> Loop]
      BY IterationTyped
    <3> QED
      BY <2>1, <3>1
  <2>3. PICK f \in [0..n -> Loop] : Run(f, n, Begins(s), step)
    BY <1>1, <1>2, <2>2, Runs
  <2>4. ASSUME NEW k \in 0..n, k # 0 PROVE step[k][f[k - 1]] = Response!Iteration(f[k - 1], flush)
    <3>1. k - 1 \in 0..n /\ k \in 1..n
      BY <1>1, <2>4
    <3>2. f[k - 1] \in Loop
      BY <2>3, <3>1
    <3> QED
      BY <2>1, <3>1, <3>2
  <2>5. IsLoop(f)
    BY <2>3, <2>4 DEF Run
  <2> QED
    BY <2>5
<1>5. IsLoop(F)
  BY <1>4
<1> HIDE DEF F
<1>6. F[0] = Begins(s) /\ \A k \in 1..n : F[k] = Response!Iteration(F[k - 1], flush)
  BY <1>1, <1>5
<1>7. F = [k \in 0..n |-> F[k]]
  BY <1>5
<1> HIDE DEF IsLoop
<1>8. \A k \in 0..n : F[k] \in Loop
  BY <1>1, <1>2, <1>6, IterationTyped, Stays
<1>9. F \in [0..n -> Loop]
  BY <1>7, <1>8
<1> QED
  BY <1>1, <1>3, <1>6, <1>9

\* What feed() and finish() return are deltas.
LEMMA DrainTyped ==
  ASSUME ParserTypes, NEW s \in Text, NEW flush \in BOOLEAN
  PROVE  Response!Drain(s, flush) \in Loop
<1>1. Len(s) \in Nat
  BY DEF Text
<1>2. PICK f \in [0..(Len(s) + 1) -> Loop] : f[Len(s) + 1] = Response!Drain(s, flush)
  BY DrainIterates
<1>3. Len(s) + 1 \in 0..(Len(s) + 1)
  BY <1>1
<1> QED
  BY <1>2, <1>3

LEMMA FeedTyped ==
  ASSUME ParserTypes, NEW piece \in Text
  PROVE  Response!FeedDeltas(piece) \in Seq(Delta)
<1>1. buf \o piece \in Text
  BY DEF ParserTypes, Text
<1>2. PICK p : p = Response!Drain(buf \o piece, FALSE)
  OBVIOUS
<1>3. p.deltas \in Seq(Delta) /\ <<>> \in Seq(Delta)
  <2>1. FALSE \in BOOLEAN
    OBVIOUS
  <2>2. p \in Loop
    BY <1>1, <1>2, <2>1, DrainTyped, Zenon
  <2> QED
    BY <2>2 DEF Loop
<1>4. Response!FeedDeltas(piece) = IF done THEN <<>> ELSE p.deltas
  BY <1>2 DEF Response!FeedDeltas
<1> QED
  BY <1>3, <1>4

LEMMA FinishTyped ==
  ASSUME ParserTypes
  PROVE  Response!FinishDeltas \in Seq(Delta)
<1>1. PICK p : p = Response!Drain(buf, TRUE)
  OBVIOUS
<1>2. p \in Loop
  BY <1>1, DrainTyped DEF ParserTypes
<1>3. p.deltas \in Seq(Delta) /\ [channel |-> "call", text |-> p.body] \in Delta
  BY <1>2 DEF Loop, Delta
<1>4. Response!Unterminated(p) \in Seq(Delta)
  BY <1>3 DEF Response!Unterminated, Response!CallDelta
<1>5. Response!FinishDeltas = p.deltas \o Response!Unterminated(p)
  BY <1>1 DEF Response!FinishDeltas
<1> HIDE DEF Response!Unterminated
<1> QED
  BY <1>3, <1>4, <1>5

LEMMA SpelledTyped ==
  ASSUME NEW d \in Delta
  PROVE  Response!Spelled(d) \in Seq(Delta)
<1>1. d.text \in Seq(Letters) /\ Len(d.text) \in Nat /\ DOMAIN d.text = 1..Len(d.text)
  BY DEF Delta, Text
<1>2. CASE d.channel \in {"call", "stop"}
  BY <1>2 DEF Response!Spelled
<1>3. CASE d.channel \notin {"call", "stop"}
  <2>1. ASSUME NEW i \in 1..Len(d.text)
        PROVE  [channel |-> d.channel, text |-> <<d.text[i]>>] \in Delta
    <3>1. <<d.text[i]>> \in Text
      BY <1>1 DEF Text
    <3> QED
      BY <3>1 DEF Delta
  <2>2. Response!Spelled(d) = [i \in 1..Len(d.text) |-> [channel |-> d.channel, text |-> <<d.text[i]>>]]
    BY <1>1, <1>3 DEF Response!Spelled
  <2> QED
    BY <1>1, <2>1, <2>2
<1> QED
  BY <1>2, <1>3

\* Deltas are spelled one after the other.
LEMMA SpellsOn ==
  ASSUME NEW ds \in Seq(Delta)
  PROVE  \E f \in [0..Len(ds) -> Seq(Delta)] :
           /\ f[0] = <<>> /\ f[Len(ds)] = Response!SpelledAll(ds)
           /\ \A k \in 1..Len(ds) : f[k] = f[k - 1] \o Response!Spelled(ds[k])
<1> DEFINE n == Len(ds)
           IsLoop(f) == f = [k \in 0..n |-> IF k = 0 THEN <<>> ELSE f[k - 1] \o Response!Spelled(ds[k])]
           F == CHOOSE f : IsLoop(f)
<1>1. n \in Nat /\ n = Len(ds) /\ \A k \in 1..n : Response!Spelled(ds[k]) \in Seq(Delta)
  BY SpelledTyped
<1>2. <<>> \in Seq(Delta)
  OBVIOUS
<1>3. Response!SpelledAll(ds) = F[n]
  BY DEF Response!SpelledAll
<1> HIDE DEF n
<1>4. \E f : IsLoop(f)
  <2>1. PICK step : step = [k \in 1..n |-> [p \in Seq(Delta) |-> p \o Response!Spelled(ds[k])]]
    OBVIOUS
  <2>2. step \in [1..n -> [Seq(Delta) -> Seq(Delta)]]
    <3>1. ASSUME NEW k \in 1..n, NEW p \in Seq(Delta)
          PROVE  p \o Response!Spelled(ds[k]) \in Seq(Delta)
      BY <1>1
    <3>2. \A k \in 1..n : [p \in Seq(Delta) |-> p \o Response!Spelled(ds[k])] \in [Seq(Delta) -> Seq(Delta)]
      BY <3>1
    <3> QED
      BY <2>1, <3>2
  <2>3. PICK f \in [0..n -> Seq(Delta)] : Run(f, n, <<>>, step)
    BY <1>1, <1>2, <2>2, Runs
  <2>4. ASSUME NEW k \in 0..n, k # 0 PROVE step[k][f[k - 1]] = f[k - 1] \o Response!Spelled(ds[k])
    <3>1. k - 1 \in 0..n /\ k \in 1..n
      BY <1>1, <2>4
    <3>2. f[k - 1] \in Seq(Delta)
      BY <2>3, <3>1
    <3> QED
      BY <2>1, <3>1, <3>2
  <2>5. IsLoop(f)
    BY <2>3, <2>4 DEF Run
  <2> QED
    BY <2>5
<1>5. IsLoop(F)
  BY <1>4
<1> HIDE DEF F
<1>6. F[0] = <<>> /\ \A k \in 1..n : F[k] = F[k - 1] \o Response!Spelled(ds[k])
  <2>1. 0 \in 0..n /\ \A k \in 1..n : k \in 0..n /\ k # 0
    BY <1>1
  <2>2. \A k \in 0..n : F[k] = IF k = 0 THEN <<>> ELSE F[k - 1] \o Response!Spelled(ds[k])
    BY <1>5, Zenon
  <2> QED
    BY <2>1, <2>2, Zenon
<1>7. F = [k \in 0..n |-> F[k]]
  BY <1>5
<1> HIDE DEF IsLoop
<1>8. ASSUME NEW k \in 1..n, F[k - 1] \in Seq(Delta) PROVE F[k] \in Seq(Delta)
  <2>1. PICK d : d = Response!Spelled(ds[k])
    OBVIOUS
  <2>2. d \in Seq(Delta) /\ F[k] = F[k - 1] \o d
    BY <1>1, <1>6, <2>1
  <2> QED
    BY <1>8, <2>2
<1>9. \A k \in 0..n : F[k] \in Seq(Delta)
  BY <1>1, <1>2, <1>6, <1>8, Stays
<1>10. F \in [0..n -> Seq(Delta)]
  BY <1>7, <1>9
<1> QED
  BY <1>1, <1>3, <1>6, <1>10

LEMMA SpelledAllTyped ==
  ASSUME NEW ds \in Seq(Delta)
  PROVE  Response!SpelledAll(ds) \in Seq(Delta) /\ (ds = <<>> => Response!SpelledAll(ds) = <<>>)
<1>1. PICK f \in [0..Len(ds) -> Seq(Delta)] : f[0] = <<>> /\ f[Len(ds)] = Response!SpelledAll(ds)
  BY SpellsOn
<1>2. Len(ds) \in Nat /\ Len(ds) \in 0..Len(ds)
  OBVIOUS
<1> QED
  BY <1>1, <1>2

-----------------------------------------------------------------------------
(* The driver's loop over the deltas of a token.                           *)

Driven == [go : BOOLEAN, stop : BOOLEAN, cause : {"none", "stop", "gone"}, sent : Seq(Delta), visible : Text]

\* Decoding goes on exactly while nothing has ended it.
Explained == {st \in Driven : /\ st.go => ~st.stop /\ st.cause = "none"
                              /\ ~st.go => st.cause = IF st.stop THEN "stop" ELSE "gone"}

DriverTypes ==
  /\ limit \in Nat /\ streaming \in BOOLEAN /\ alive \in BOOLEAN /\ stopHit \in BOOLEAN
  /\ sent \in Seq(Delta) /\ visible \in Text /\ tokens \in Nat /\ rows \in Nat

StartOfDeltas == [go |-> TRUE, stop |-> stopHit, cause |-> "none", sent |-> sent, visible |-> visible]

LEMMA TakenTyped ==
  ASSUME DriverTypes, NEW st \in Explained, NEW d \in Delta
  PROVE  Response!Taken(st, d) \in Explained
<1>1. st \in Driven /\ st.visible \in Text /\ st.sent \in Seq(Delta) /\ d.text \in Text
  BY DEF Explained, Driven, Delta
<1>2. CASE ~st.go
  BY <1>2 DEF Response!Taken
<1>3. CASE st.go
  <2>1. PICK seen : seen = IF d.channel = "content" THEN st.visible \o d.text ELSE st.visible
    OBVIOUS
  <2>2. PICK next : next = [st EXCEPT !.visible = seen]
    OBVIOUS
  <2>3. seen \in Text
    BY <1>1, <2>1 DEF Text
  <2>4. next \in Explained /\ next.sent = st.sent /\ next.go
    BY <1>1, <1>3, <2>2, <2>3 DEF Explained, Driven
  <2>5. PICK longer : longer = next.sent \o Response!Spelled(d)
    OBVIOUS
  <2>6. longer \in Seq(Delta)
    BY <1>1, <2>4, <2>5, SpelledTyped
  <2>7. \A q \in Explained : Response!Stopped(q) \in Explained
    BY DEF Response!Stopped, Explained, Driven
  <2>8. Response!Emitted(next, d) \in Explained
    <3>1. Response!Emitted(next, d) \in
            {next, [next EXCEPT !.sent = longer], [next EXCEPT !.go = FALSE, !.cause = "gone"]}
      BY <2>4, <2>5 DEF Response!Emitted, Explained, Driven
    <3> QED
      BY <2>4, <2>6, <3>1 DEF Explained, Driven
  <2>9. Response!Taken(st, d) \in {Response!Stopped(st), Response!Stopped(next), Response!Emitted(next, d)}
    BY <1>3, <2>1, <2>2 DEF Response!Taken
  <2> QED
    BY <2>4, <2>7, <2>8, <2>9
<1> QED
  BY <1>2, <1>3

\* Every delta of a token is taken, one after the other.
LEMMA TakesOn ==
  ASSUME DriverTypes, ~stopHit, NEW ds \in Seq(Delta)
  PROVE  \E f \in [0..Len(ds) -> Explained] :
           /\ f[0] = StartOfDeltas /\ f[Len(ds)] = Response!TakenAll(ds)
           /\ \A k \in 1..Len(ds) : f[k] = Response!Taken(f[k - 1], ds[k])
<1> DEFINE n == Len(ds)
           IsLoop(f) == f = [k \in 0..n |-> IF k = 0 THEN StartOfDeltas ELSE Response!Taken(f[k - 1], ds[k])]
           F == CHOOSE f : IsLoop(f)
<1>1. n \in Nat /\ n = Len(ds) /\ \A k \in 1..n : ds[k] \in Delta
  OBVIOUS
<1>2. StartOfDeltas \in Explained
  BY DEF StartOfDeltas, Explained, Driven, DriverTypes
<1>3. Response!TakenAll(ds) = F[n]
  BY DEF Response!TakenAll, StartOfDeltas
<1> HIDE DEF n
<1>4. \E f : IsLoop(f)
  <2>1. PICK step : step = [k \in 1..n |-> [p \in Explained |-> Response!Taken(p, ds[k])]]
    OBVIOUS
  <2>2. step \in [1..n -> [Explained -> Explained]]
    <3>1. \A k \in 1..n : \A p \in Explained : Response!Taken(p, ds[k]) \in Explained
      BY <1>1, TakenTyped
    <3> QED
      BY <2>1, <3>1
  <2>3. PICK f \in [0..n -> Explained] : Run(f, n, StartOfDeltas, step)
    BY <1>1, <1>2, <2>2, Runs
  <2>4. ASSUME NEW k \in 0..n, k # 0 PROVE step[k][f[k - 1]] = Response!Taken(f[k - 1], ds[k])
    <3>1. k - 1 \in 0..n /\ k \in 1..n
      BY <1>1, <2>4
    <3>2. f[k - 1] \in Explained
      BY <2>3, <3>1
    <3> QED
      BY <2>1, <3>1, <3>2
  <2>5. IsLoop(f)
    BY <2>3, <2>4 DEF Run
  <2> QED
    BY <2>5
<1>5. IsLoop(F)
  BY <1>4
<1> HIDE DEF F
<1>6. F[0] = StartOfDeltas /\ \A k \in 1..n : F[k] = Response!Taken(F[k - 1], ds[k])
  BY <1>1, <1>5
<1>7. F = [k \in 0..n |-> F[k]]
  BY <1>5
<1> HIDE DEF IsLoop
<1>8. \A k \in 1..n : F[k - 1] \in Explained => F[k] \in Explained
  BY <1>1, <1>6, TakenTyped
<1>9. \A k \in 0..n : F[k] \in Explained
  BY <1>1, <1>2, <1>6, <1>8, Stays
<1>10. F \in [0..n -> Explained]
  BY <1>7, <1>9
<1> QED
  BY <1>1, <1>3, <1>6, <1>10

-----------------------------------------------------------------------------
(* The answer to a request.                                                *)

ResponseTypes ==
  /\ ParserTypes /\ DriverTypes /\ out \in Seq(Delta)
  /\ phase \in {"decode", "ending", "ended"}

\* Why decoding ended is what the limits and the flag say.
CauseInv ==
  /\ phase = "decode" => ~stopHit /\ cause = "none" /\ tokens < limit
  /\ phase # "decode" =>
       \/ cause = "stop" /\ stopHit
       \/ cause = "gone" /\ ~stopHit
       \/ cause = "context" /\ ~stopHit /\ rows >= Room
       \/ cause = "max_tokens" /\ ~stopHit /\ tokens >= limit
       \/ cause = "end_of_text" /\ ~stopHit /\ rows < Room /\ tokens < limit
  /\ phase = "ended" =>
       reason = IF Response!HasCall(out) THEN "tool_calls"
                ELSE IF stopHit THEN "stop"
                ELSE IF Response!LengthReason THEN "length" ELSE "stop"

LEMMA FeedKeepsTypes ==
  ASSUME ParserTypes, out \in Seq(Delta), NEW piece \in Text, Response!Feed(piece)
  PROVE  /\ ParserTypes' /\ out' \in Seq(Delta)
         /\ out' = out \o Response!SpelledAll(Response!FeedDeltas(piece))
<1>1. buf \o piece \in Text /\ fed' \in Text
  BY DEF ParserTypes, Text, Response!Feed
<1>2. PICK p : p = Response!Drain(buf \o piece, FALSE)
  OBVIOUS
<1>3. p \in Loop
  <2>1. FALSE \in BOOLEAN
    OBVIOUS
  <2> QED
    BY <1>1, <1>2, <2>1, DrainTyped, Zenon
<1>4. /\ Response!FeedDeltas(piece) \in Seq(Delta)
      /\ Response!SpelledAll(Response!FeedDeltas(piece)) \in Seq(Delta)
  BY FeedTyped, SpelledAllTyped
<1>5. UNCHANGED <<opened, finished>>
  BY DEF Response!Feed
<1>6. CASE done
  <2>1. /\ UNCHANGED <<buf, think, tool, body, done, out>>
        /\ Response!FeedDeltas(piece) = <<>>
    BY <1>6 DEF Response!Feed, Response!parser, Response!FeedDeltas
  <2>2. Response!SpelledAll(Response!FeedDeltas(piece)) = <<>>
    BY <1>4, <2>1, SpelledAllTyped
  <2> QED
    BY <1>1, <1>5, <2>1, <2>2 DEF ParserTypes
<1>7. CASE ~done
  <2>1. /\ buf' = p.buf /\ think' = p.think /\ done' = p.done /\ tool' = p.tool /\ body' = p.body
        /\ out' = out \o Response!SpelledAll(p.deltas)
        /\ Response!FeedDeltas(piece) = p.deltas
    BY <1>2, <1>7 DEF Response!Feed, Response!FeedDeltas, Response!Became
  <2>2. ParserTypes'
    BY <1>1, <1>3, <1>5, <2>1 DEF ParserTypes, Loop
  <2> QED
    BY <1>4, <2>1, <2>2
<1> QED
  BY <1>6, <1>7

LEMMA FinishKeepsTypes ==
  ASSUME ParserTypes, out \in Seq(Delta), Response!Finish
  PROVE  /\ ParserTypes' /\ out' \in Seq(Delta)
         /\ Response!SpelledAll(Response!FinishDeltas) \in Seq(Delta)
         /\ out' = out \o Response!SpelledAll(Response!FinishDeltas)
<1>1. PICK p : p = Response!Drain(buf, TRUE)
  OBVIOUS
<1>2. p \in Loop
  BY <1>1, DrainTyped DEF ParserTypes
<1>3. /\ buf' = p.buf /\ think' = p.think /\ done' = p.done
      /\ tool' = (p.tool /\ Response!Unterminated(p) = <<>>)
      /\ body' = IF Response!Unterminated(p) = <<>> THEN p.body ELSE <<>>
      /\ finished' = TRUE /\ UNCHANGED <<opened, fed>>
  BY <1>1 DEF Response!Finish, Response!Became
<1>4. out' = out \o Response!SpelledAll(Response!FinishDeltas)
  BY DEF Response!Finish, Response!Became, Response!FinishDeltas
<1>5. <<>> \in Text
  BY DEF Text
<1>6. ParserTypes'
  BY <1>2, <1>3, <1>5 DEF ParserTypes, Loop
<1>7. Response!SpelledAll(Response!FinishDeltas) \in Seq(Delta)
  BY FinishTyped, SpelledAllTyped
<1> QED
  BY <1>4, <1>6, <1>7

LEMMA TokenKeeps ==
  ASSUME ResponseTypes, CauseInv, NEW piece \in Tokens, Response!Token(piece)
  PROVE  /\ ResponseTypes' /\ CauseInv'
         /\ \E f \in [0..Len(Response!FeedDeltas(piece)) -> Explained] :
              /\ f[0] = StartOfDeltas
              /\ \A k \in 1..Len(Response!FeedDeltas(piece)) :
                   f[k] = Response!Taken(f[k - 1], Response!FeedDeltas(piece)[k])
              /\ f[Len(Response!FeedDeltas(piece))] = Response!TakenAll(Response!FeedDeltas(piece))
<1>1. piece \in Text /\ Response!Feed(piece) /\ phase = "decode"
  BY StringsAreText DEF Strings, Response!Token
<1>2. ParserTypes' /\ out' \in Seq(Delta)
  BY <1>1, FeedKeepsTypes DEF ResponseTypes
<1>3. PICK ds : ds = Response!FeedDeltas(piece)
  OBVIOUS
<1>4. ds \in Seq(Delta)
  BY <1>1, <1>3, FeedTyped DEF ResponseTypes
<1>5. PICK f \in [0..Len(ds) -> Explained] :
        /\ f[0] = StartOfDeltas /\ f[Len(ds)] = Response!TakenAll(ds)
        /\ \A k \in 1..Len(ds) : f[k] = Response!Taken(f[k - 1], ds[k])
  BY <1>1, <1>4, TakesOn DEF ResponseTypes, CauseInv
<1>6. PICK st : st = Response!TakenAll(ds)
  OBVIOUS
<1>7. Len(ds) \in 0..Len(ds)
  BY <1>4
<1>8. st \in Explained
  BY <1>5, <1>6, <1>7
<1>9. /\ sent' = st.sent /\ visible' = st.visible /\ stopHit' = st.stop /\ tokens' = tokens + 1
      /\ IF st.go /\ tokens' < limit
         THEN rows' = rows + 1 /\ phase' = phase /\ cause' = cause
         ELSE /\ phase' = "ending" /\ rows' = rows
              /\ cause' = IF st.go THEN "max_tokens" ELSE st.cause
      /\ UNCHANGED <<limit, streaming, alive, reason>>
  BY <1>3, <1>6 DEF Response!Token
<1>10. DriverTypes' /\ phase' \in {"decode", "ending", "ended"}
  BY <1>1, <1>8, <1>9 DEF ResponseTypes, DriverTypes, Explained, Driven
<1>11. ResponseTypes'
  BY <1>2, <1>10 DEF ResponseTypes
<1>12. /\ st.go => ~st.stop /\ st.cause = "none"
       /\ ~st.go => st.cause = IF st.stop THEN "stop" ELSE "gone"
       /\ tokens \in Nat /\ limit \in Nat
       /\ ~stopHit /\ cause = "none"
  BY <1>1, <1>8 DEF Explained, ResponseTypes, DriverTypes, CauseInv
<1>13. CauseInv'
  BY <1>1, <1>9, <1>12 DEF CauseInv
<1> QED
  BY <1>3, <1>5, <1>11, <1>13

LEMMA OthersKeep ==
  ASSUME ResponseTypes, CauseInv,
         Response!EndOfText \/ Response!ContextFull \/ Response!ClientLeaves
  PROVE  ResponseTypes' /\ CauseInv'
<1>1. UNCHANGED <<opened, fed, buf, think, tool, body, done, out, finished>>
  BY DEF Response!EndOfText, Response!ContextFull, Response!ClientLeaves, Response!Ends, Response!vars,
         Response!parser
<1>2. /\ UNCHANGED <<limit, streaming, sent, visible, stopHit, tokens, rows, reason>> /\ alive' \in BOOLEAN
      /\ \/ phase' = phase /\ cause' = cause /\ phase # "ended"
         \/ /\ phase = "decode" /\ phase' = "ending"
            /\ \/ cause' = "end_of_text" /\ rows < Room
               \/ cause' = "context" /\ rows >= Room
  BY DEF Response!EndOfText, Response!ContextFull, Response!ClientLeaves, Response!Ends, ResponseTypes,
         DriverTypes
<1>3. ResponseTypes'
  BY <1>1, <1>2 DEF ResponseTypes, ParserTypes, DriverTypes
<1>4. CauseInv'
  BY <1>2 DEF CauseInv
<1> QED
  BY <1>3, <1>4

LEMMA RespondKeeps ==
  ASSUME ResponseTypes, CauseInv, Response!Respond
  PROVE  ResponseTypes' /\ CauseInv'
<1>1. /\ phase = "ending" /\ phase' = "ended" /\ Response!Finish
      /\ sent' = IF streaming /\ alive THEN sent \o Response!SpelledAll(Response!FinishDeltas) ELSE sent
      /\ reason' = IF Response!HasCall(out') THEN "tool_calls"
                   ELSE IF stopHit THEN "stop" ELSE IF Response!LengthReason THEN "length" ELSE "stop"
      /\ UNCHANGED <<limit, streaming, alive, visible, stopHit, tokens, rows, cause>>
  BY DEF Response!Respond, Response!SentRest
<1>2. /\ ParserTypes' /\ out' \in Seq(Delta)
      /\ Response!SpelledAll(Response!FinishDeltas) \in Seq(Delta)
  BY <1>1, FinishKeepsTypes DEF ResponseTypes
<1>3. sent' \in Seq(Delta)
  BY <1>1, <1>2 DEF ResponseTypes, DriverTypes
<1>4. DriverTypes'
  BY <1>1, <1>3 DEF ResponseTypes, DriverTypes
<1>5. ResponseTypes'
  BY <1>1, <1>2, <1>4 DEF ResponseTypes
<1>6. CauseInv'
  BY <1>1 DEF CauseInv, Response!LengthReason, Response!HasCall
<1> QED
  BY <1>5, <1>6

ResponseInv ==
  /\ ResponseTypes /\ CauseInv
  /\ part # "response" => phase = "decode" /\ ~streaming

LEMMA ResponseInitKeeps == ServingInit => ResponseInv
<1> SUFFICES ASSUME ServingInit PROVE ResponseInv
  OBVIOUS
<1>1. /\ Response!DeliveryInit
      /\ part # "response" => ~streaming
  BY DEF ServingInit
<1>2. <<>> \in Text /\ <<>> \in Seq(Delta)
  BY DEF Text
<1>3. ParserTypes /\ out \in Seq(Delta)
  BY <1>2, <1>1 DEF Response!DeliveryInit, Response!Init, ParserTypes
<1>4. DriverTypes /\ phase = "decode" /\ cause = "none" /\ tokens < limit /\ stopHit = FALSE
  <2>1. limit \in 1..MaxTokens /\ MaxTokens \in Nat /\ tokens = 0
    BY <1>1, TextAssumption DEF Response!DeliveryInit
  <2>2. limit \in Nat /\ tokens \in Nat /\ tokens < limit
    BY <2>1
  <2> QED
    BY <1>2, <1>1, <2>2 DEF Response!DeliveryInit, DriverTypes
<1> QED
  BY <1>1, <1>3, <1>4 DEF ResponseInv, ResponseTypes, CauseInv

\* What a step of the system is to the response.
LEMMA ResponsePart ==
  ASSUME [ServingNext]_serving
  PROVE  /\ part' = part
         /\ \/ part = "response" /\ Response!DeliveryNext
            \/ part = "parser" /\ Response!Next /\ UNCHANGED driver
            \/ UNCHANGED response
BY DEF ServingNext, serving, ScriptsMove, ServerMoves, ImagesMove, BytesMove, ParserMoves, ResponseMoves,
       TokensMove, ChatMoves, SamplerMoves

LEMMA ResponseKeeps == ResponseInv /\ [ServingNext]_serving => ResponseInv'
<1> SUFFICES ASSUME ResponseInv, [ServingNext]_serving PROVE ResponseInv'
  OBVIOUS
<1>1. ResponseTypes /\ CauseInv /\ part' = part /\ (part # "response" => phase = "decode" /\ ~streaming)
  BY ResponsePart DEF ResponseInv
<1>2. CASE part = "response" /\ Response!DeliveryNext
  <2>1. ResponseTypes' /\ CauseInv'
    BY <1>1, <1>2, TokenKeeps, OthersKeep, RespondKeeps DEF Response!DeliveryNext
  <2> QED
    BY <1>1, <1>2, <2>1 DEF ResponseInv
<1>3. CASE part = "parser" /\ Response!Next /\ UNCHANGED driver
  <2>1. ParserTypes' /\ out' \in Seq(Delta)
    <3>1. CASE Response!Finish
      BY <1>1, <3>1, FinishKeepsTypes DEF ResponseTypes
    <3>2. CASE \E piece \in Pieces : Response!Feed(piece)
      <4>1. PICK piece \in Pieces : Response!Feed(piece)
        BY <3>2
      <4>2. piece \in Text
        BY StringsAreText DEF Strings
      <4> QED
        BY <1>1, <4>1, <4>2, FeedKeepsTypes DEF ResponseTypes
    <3> QED
      BY <1>3, <3>1, <3>2 DEF Response!Next
  <2>2. phase = "decode" /\ ~streaming
    BY <1>1, <1>3
  <2> QED
    BY <1>1, <1>3, <2>1, <2>2 DEF ResponseInv, ResponseTypes, DriverTypes, CauseInv, driver
<1>4. CASE UNCHANGED response
  BY <1>1, <1>4 DEF ResponseInv, ResponseTypes, ParserTypes, DriverTypes, CauseInv, response, parsed, driver,
     Response!HasCall, Response!LengthReason
<1> QED
  BY <1>2, <1>3, <1>4, ResponsePart

LEMMA ResponseInductive == ServingSpec => []ResponseInv
BY ResponseInitKeeps, ResponseKeeps, PTL DEF ServingSpec

\* "A stop caused by running out of KV capacity is reported as length"
\* (server.cpp:226): an answer without a call is reported as "length" exactly if
\* its budget or its context ran out, in whatever order the limits were met.
THEOREM LengthIsTruncation == ServingSpec => []LengthMeansTruncated
<1>1. ResponseInv => LengthMeansTruncated
  <2>1. Room \in Nat
    BY TextAssumption
  <2> QED
    BY <2>1 DEF ResponseInv, ResponseTypes, DriverTypes, CauseInv, LengthMeansTruncated,
                Response!LengthMeansTruncated, Response!LengthReason
<1> QED
  BY <1>1, ResponseInductive, PTL

\* One delta that cannot be sent is enough.
LEMMA GoneStops ==
  ASSUME ResponseTypes, CauseInv, streaming, ~alive, NEW piece \in Tokens, Response!Token(piece), out' # out
  PROVE  phase' # "decode"
<1>1. piece \in Text /\ Response!Feed(piece) /\ phase = "decode"
  BY StringsAreText DEF Strings, Response!Token
<1>2. PICK ds : ds = Response!FeedDeltas(piece)
  OBVIOUS
<1>3. ds \in Seq(Delta) /\ ds # <<>>
  BY <1>1, <1>2, FeedTyped, FeedKeepsTypes, SpelledAllTyped, ConcatEmptySeq DEF ResponseTypes
<1>4. PICK n : n = Len(ds)
  OBVIOUS
<1>5. n \in Nat /\ n >= 1
  BY <1>3, <1>4
<1>6. PICK f \in [0..n -> Explained] :
        /\ f[0] = StartOfDeltas /\ f[n] = Response!TakenAll(ds)
        /\ \A k \in 1..n : f[k] = Response!Taken(f[k - 1], ds[k])
  BY <1>2, <1>4, TokenKeeps
<1>7. ~f[1].go
  <2>1. f[1] = Response!Taken(StartOfDeltas, ds[1])
    BY <1>5, <1>6
  <2>2. ds[1] \in Delta
    BY <1>3, <1>4, <1>5
  <2>3. \A q \in Explained : ~Response!Stopped(q).go /\ ~Response!Emitted(q, ds[1]).go
    BY DEF Response!Stopped, Response!Emitted, Explained, Driven
  <2>4. PICK seen : seen = IF ds[1].channel = "content" THEN StartOfDeltas.visible \o ds[1].text
                           ELSE StartOfDeltas.visible
    OBVIOUS
  <2>5. seen \in Text /\ StartOfDeltas \in Explained
    BY <1>1, <2>2, <2>4 DEF StartOfDeltas, Explained, Driven, ResponseTypes, DriverTypes, CauseInv, Delta, Text
  <2>6. PICK next : next = [StartOfDeltas EXCEPT !.visible = seen]
    OBVIOUS
  <2>7. next \in Explained
    BY <2>5, <2>6 DEF Explained, Driven
  <2>8. Response!Taken(StartOfDeltas, ds[1]) \in
          {Response!Stopped(StartOfDeltas), Response!Stopped(next), Response!Emitted(next, ds[1])}
    <3>1. StartOfDeltas.go
      BY DEF StartOfDeltas
    <3> QED
      BY <2>4, <2>6, <3>1 DEF Response!Taken
  <2> QED
    BY <2>1, <2>3, <2>5, <2>7, <2>8
<1>8. ~f[n].go
  <2> DEFINE h == [k \in 0..(n - 1) |-> f[k + 1]]
             X == {st \in Explained : ~st.go}
  <2>1. n - 1 \in Nat /\ \A k \in 0..(n - 1) : k + 1 \in 1..n /\ k + 1 \in 0..n
    BY <1>5
  <2>2. h[0] \in X
    BY <1>5, <1>6, <1>7, <2>1
  <2>3. ASSUME NEW k \in 1..(n - 1), h[k - 1] \in X PROVE h[k] \in X
    <3>1. k \in 1..n /\ k + 1 \in 1..n /\ k \in 0..(n - 1) /\ k - 1 \in 0..(n - 1) /\ (k - 1) + 1 = k /\ (k + 1) - 1 = k
      BY <1>5, <2>3
    <3>2. h[k - 1] = f[k] /\ h[k] = f[k + 1] /\ f[k + 1] = Response!Taken(f[k], ds[k + 1])
      BY <1>6, <3>1
    <3> QED
      BY <2>3, <3>2 DEF Response!Taken
  <2>4. n - 1 \in 0..(n - 1) /\ h[n - 1] = f[n]
    BY <1>5
  <2> HIDE DEF h
  <2>5. \A k \in 0..(n - 1) : h[k] \in X
    <3> HIDE DEF X
    <3> QED
      BY <2>1, <2>2, <2>3, Stays
  <2> QED
    BY <2>4, <2>5
<1> QED
  BY <1>2, <1>6, <1>8 DEF Response!Token

\* STATUS.md:1575: a token of which a gone client should have got something is
\* the last one.
THEOREM GoneClientStopsDecoding == ServingSpec => GoneClientEndsDecoding
<1> DEFINE A == (streaming /\ ~alive /\ phase = "decode" /\ out' # out) => phase' # "decode"
<1>1. ResponseInv /\ [ServingNext]_serving => [A]_(Response!dvars)
  <2> SUFFICES ASSUME ResponseInv, [ServingNext]_serving,
                      streaming, ~alive, phase = "decode", out' # out
               PROVE  phase' # "decode"
    OBVIOUS
  <2>1. ResponseTypes /\ CauseInv /\ (part # "response" => ~streaming)
    BY DEF ResponseInv
  <2>2. Response!DeliveryNext
    BY <2>1, ResponsePart DEF response, parsed
  <2>3. CASE \E piece \in Tokens : Response!Token(piece)
    BY <2>1, <2>3, GoneStops
  <2>4. CASE Response!EndOfText \/ Response!ContextFull \/ Response!ClientLeaves
    BY <2>4 DEF Response!EndOfText, Response!ContextFull, Response!ClientLeaves, Response!Ends, Response!vars
  <2>5. CASE Response!Respond
    BY <2>5 DEF Response!Respond
  <2> QED
    BY <2>2, <2>3, <2>4, <2>5 DEF Response!DeliveryNext
<1>2. ServingSpec => [][A]_(Response!dvars)
  BY <1>1, ResponseInductive, PTL DEF ServingSpec
<1> QED
  BY <1>2 DEF GoneClientEndsDecoding, Response!GoneClientEndsDecoding

-----------------------------------------------------------------------------
(* Reading a whole text.                                                   *)

\* What is true of a position when it is of all later ones is true of all.
LEMMA Downward ==
  ASSUME NEW n \in Nat, NEW T, \A i \in 1..n : (\A j \in (i + 1)..n : j \in T) => i \in T
  PROVE  \A i \in 1..n : i \in T
<1> DEFINE S == {i \in 1..n : i \notin T}
<1> SUFFICES ASSUME S # {} PROVE FALSE
  OBVIOUS
<1>1. S \in SUBSET (0..n)
  OBVIOUS
<1> HIDE DEF S
<1>2. PICK x \in S : \A y \in S : y <= x
  BY <1>1, GreatestOf
<1>3. x \in 1..n /\ x \notin T
  BY DEF S
<1>4. ASSUME NEW j \in (x + 1)..n PROVE j \in T
  <2>1. j \in 1..n /\ ~(j <= x)
    BY <1>3, <1>4
  <2> QED
    BY <1>2, <2>1 DEF S
<1> QED
  BY <1>3, <1>4

\* What is read of s from position i on, given what R reads of later positions.
CallsEnd(s, b) == {j \in Response!Places(s, ToolEnd) : j >= b}

Reads(R, s, i, th) ==
  IF i > Len(s) THEN <<>>
  ELSE IF Response!At(s, i, Boundary) THEN Response!StopDelta
  ELSE IF Response!At(s, i, ThinkEnd) THEN R[<<i + Len(ThinkEnd), FALSE>>]
  ELSE IF Response!At(s, i, ToolBegin)
  THEN IF CallsEnd(s, i + Len(ToolBegin)) # {}
       THEN Response!CallDelta(SubSeq(s, i + Len(ToolBegin), Response!First(CallsEnd(s, i + Len(ToolBegin))) - 1))
              \o R[<<Response!First(CallsEnd(s, i + Len(ToolBegin))) + Len(ToolEnd), th>>]
       ELSE IF i + Len(ToolBegin) <= Len(s) THEN Response!CallDelta(Response!From(s, i + Len(ToolBegin))) ELSE <<>>
  ELSE Response!TextDelta(th, <<s[i]>>) \o R[<<i + 1, th>>]

Positions(s) == (1..(Len(s) + 1)) \X BOOLEAN

Scan(s) == CHOOSE R : R = [x \in Positions(s) |-> Reads(R, s, x[1], x[2])]

LEMMA ReadingScans == \A s : Response!Reading(s) = Scan(s)[<<1, opened>>]
BY DEF Response!Reading, Scan, Positions, Reads, CallsEnd

LEMMA AtInText ==
  ASSUME NEW s \in Text, NEW i \in 1..(Len(s) + 1), NEW m \in Response!Markers, Response!At(s, i, m)
  PROVE  i + Len(m) \in (i + 2)..(Len(s) + 1) /\ i + Len(m) - 1 <= Len(s) /\ i <= Len(s)
<1>1. Len(m) \in Nat /\ Len(m) >= 2 /\ Len(s) \in Nat
  BY StringsAreText DEF Text
<1>2. i + Len(m) - 1 <= Len(s)
  BY DEF Response!At
<1> QED
  BY <1>1, <1>2

LEMMA FirstEnd ==
  ASSUME NEW s \in Text, NEW b \in Nat, CallsEnd(s, b) # {}
  PROVE  /\ Response!First(CallsEnd(s, b)) \in CallsEnd(s, b)
         /\ \A j \in CallsEnd(s, b) : Response!First(CallsEnd(s, b)) <= j
         /\ Response!First(CallsEnd(s, b)) \in 1..Len(s)
         /\ Response!First(CallsEnd(s, b)) >= b
         /\ Response!At(s, Response!First(CallsEnd(s, b)), ToolEnd)
         /\ Response!First(CallsEnd(s, b)) + Len(ToolEnd) \in (b + 2)..(Len(s) + 1)
<1> DEFINE S == CallsEnd(s, b)
<1>1. S \in SUBSET Nat /\ \A j \in S : j \in 1..Len(s) /\ j >= b /\ Response!At(s, j, ToolEnd)
  BY PlacesInText DEF CallsEnd
<1> HIDE DEF S
<1>2. PICK e : e = Response!First(S)
  OBVIOUS
<1>3. e \in S /\ \A j \in S : e <= j
  <2>1. S # {}
    BY DEF S
  <2> QED
    BY <1>1, <1>2, <2>1, FirstIsLeast
<1>4. e \in 1..Len(s) /\ e >= b /\ Response!At(s, e, ToolEnd)
  BY <1>1, <1>3
<1>5. Len(s) \in Nat /\ e \in 1..(Len(s) + 1) /\ ToolEnd \in Response!Markers
  BY <1>4 DEF Text, Response!Markers
<1>6. e + Len(ToolEnd) \in (e + 2)..(Len(s) + 1)
  BY <1>4, <1>5, AtInText
<1>7. e + Len(ToolEnd) \in (b + 2)..(Len(s) + 1)
  BY <1>4, <1>5, <1>6
<1> QED
  BY <1>2, <1>3, <1>4, <1>7 DEF S

LEMMA CallTyped ==
  ASSUME NEW t \in Text
  PROVE  Response!CallDelta(t) \in Seq(Delta)
<1>1. [channel |-> "call", text |-> t] \in Delta
  BY DEF Delta
<1> QED
  BY <1>1 DEF Response!CallDelta

LEMMA TextTyped ==
  ASSUME NEW t \in Text, NEW th \in BOOLEAN
  PROVE  Response!TextDelta(th, t) \in Seq(Delta)
<1>1. [channel |-> IF th THEN "reasoning" ELSE "content", text |-> t] \in Delta
  BY DEF Delta
<1> QED
  BY <1>1 DEF Response!TextDelta

LEMMA StopTyped == Response!StopDelta \in Seq(Delta) /\ <<>> \in Text /\ <<>> \in Seq(Delta)
<1>1. <<>> \in Text
  BY DEF Text
<1>2. [channel |-> "stop", text |-> <<>>] \in Delta
  BY <1>1 DEF Delta
<1> QED
  BY <1>1, <1>2 DEF Response!StopDelta

\* Reading goes to one later position at most.
LEMMA ReadsOnce ==
  ASSUME NEW s \in Text, NEW i \in 1..(Len(s) + 1), NEW th \in BOOLEAN
  PROVE  \/ \E ds \in Seq(Delta) : \A R : Reads(R, s, i, th) = ds
         \/ \E j \in (i + 1)..(Len(s) + 1), t \in BOOLEAN : \A R : Reads(R, s, i, th) = R[<<j, t>>]
         \/ \E ds \in Seq(Delta), j \in (i + 1)..(Len(s) + 1), t \in BOOLEAN :
              \A R : Reads(R, s, i, th) = ds \o R[<<j, t>>]
<1>1. Len(s) \in Nat /\ i \in Nat \ {0}
  BY DEF Text
<1>2. CASE i > Len(s)
  BY <1>2, StopTyped DEF Reads
<1>3. CASE i <= Len(s) /\ Response!At(s, i, Boundary)
  BY <1>1, <1>3, StopTyped DEF Reads
<1>4. CASE i <= Len(s) /\ ~Response!At(s, i, Boundary) /\ Response!At(s, i, ThinkEnd)
  <2>1. i + Len(ThinkEnd) \in (i + 2)..(Len(s) + 1)
    BY <1>4, AtInText DEF Response!Markers
  <2>2. i + Len(ThinkEnd) \in (i + 1)..(Len(s) + 1)
    BY <1>1, <2>1
  <2>3. \A R : Reads(R, s, i, th) = R[<<i + Len(ThinkEnd), FALSE>>]
    BY <1>1, <1>4 DEF Reads
  <2>4. FALSE \in BOOLEAN
    OBVIOUS
  <2> QED
    BY <2>2, <2>3, <2>4, Zenon
<1>5. CASE /\ i <= Len(s) /\ ~Response!At(s, i, Boundary) /\ ~Response!At(s, i, ThinkEnd)
           /\ Response!At(s, i, ToolBegin)
  <2> DEFINE b == i + Len(ToolBegin)
             e == Response!First(CallsEnd(s, b))
  <2>1. b \in (i + 2)..(Len(s) + 1)
    BY <1>5, AtInText DEF Response!Markers
  <2>2. b \in Nat \ {0} /\ Len(s) \in Int /\ Len(s) <= Len(s)
    BY <1>1, <2>1
  <2>3. CASE CallsEnd(s, b) # {}
    <3>1. e \in 1..Len(s) /\ e + Len(ToolEnd) \in (b + 2)..(Len(s) + 1)
      BY <2>2, <2>3, FirstEnd
    <3>2. e - 1 \in Int /\ e - 1 <= Len(s) /\ e + Len(ToolEnd) \in (i + 1)..(Len(s) + 1)
      BY <1>1, <2>1, <3>1
    <3>3. Response!CallDelta(SubSeq(s, b, e - 1)) \in Seq(Delta)
      BY <2>2, <3>2, Cuts, CallTyped
    <3>4. \A R : Reads(R, s, i, th) = Response!CallDelta(SubSeq(s, b, e - 1)) \o R[<<e + Len(ToolEnd), th>>]
      <4>1. ~(i > Len(s))
        BY <1>1, <1>5
      <4> QED
        BY <1>5, <2>3, <4>1, Zenon DEF Reads
    <3>5. PICK ds \in Seq(Delta) : ds = Response!CallDelta(SubSeq(s, b, e - 1))
      BY <3>3
    <3>6. PICK j \in (i + 1)..(Len(s) + 1) : j = e + Len(ToolEnd)
      BY <3>2
    <3>7. \A R : Reads(R, s, i, th) = ds \o R[<<j, th>>]
      BY <3>4, <3>5, <3>6
    <3> QED
      BY <3>7, Zenon
  <2>4. CASE CallsEnd(s, b) = {}
    <3>1. Response!CallDelta(Response!From(s, b)) \in Seq(Delta) /\ <<>> \in Seq(Delta)
      BY <2>2, FromIsText, CallTyped
    <3>2. \A R : Reads(R, s, i, th) = IF b <= Len(s) THEN Response!CallDelta(Response!From(s, b)) ELSE <<>>
      BY <1>1, <1>5, <2>4 DEF Reads
    <3> HIDE DEF b
    <3>3. CASE b <= Len(s)
      BY <3>1, <3>2, <3>3
    <3>4. CASE ~(b <= Len(s))
      BY <3>1, <3>2, <3>4
    <3> QED
      BY <3>3, <3>4
  <2> QED
    BY <2>3, <2>4
<1>6. CASE /\ i <= Len(s) /\ ~Response!At(s, i, Boundary) /\ ~Response!At(s, i, ThinkEnd)
           /\ ~Response!At(s, i, ToolBegin)
  <2>1. <<s[i]>> \in Text /\ i + 1 \in (i + 1)..(Len(s) + 1)
    BY <1>1, <1>6 DEF Text
  <2>2. Response!TextDelta(th, <<s[i]>>) \in Seq(Delta)
    BY <2>1, TextTyped
  <2>3. \A R : Reads(R, s, i, th) = Response!TextDelta(th, <<s[i]>>) \o R[<<i + 1, th>>]
    BY <1>1, <1>6 DEF Reads
  <2>4. PICK ds \in Seq(Delta) : ds = Response!TextDelta(th, <<s[i]>>)
    BY <2>2
  <2>5. PICK j \in (i + 1)..(Len(s) + 1) : j = i + 1
    BY <2>1
  <2>6. \A R : Reads(R, s, i, th) = ds \o R[<<j, th>>]
    BY <2>3, <2>4, <2>5
  <2> QED
    BY <2>6, Zenon
<1>7. i > Len(s) \/ i <= Len(s)
  BY <1>1
<1> QED
  BY <1>2, <1>3, <1>4, <1>5, <1>6, <1>7, Zenon

\* Two readings of a text are the same behind a position.
AgreeAfter(R, R2, s, i) == \A j \in (i + 1)..(Len(s) + 1), t \in BOOLEAN : R[<<j, t>>] = R2[<<j, t>>]

LEMMA ReadsAgree ==
  ASSUME NEW s \in Text, NEW i \in 1..(Len(s) + 1), NEW th \in BOOLEAN, NEW R, NEW R2,
         AgreeAfter(R, R2, s, i)
  PROVE  Reads(R, s, i, th) = Reads(R2, s, i, th)
<1> USE DEF AgreeAfter
<1>1. CASE \E ds \in Seq(Delta) : \A Q : Reads(Q, s, i, th) = ds
  BY <1>1, Zenon
<1>2. CASE \E j \in (i + 1)..(Len(s) + 1), t \in BOOLEAN : \A Q : Reads(Q, s, i, th) = Q[<<j, t>>]
  BY <1>2, Zenon
<1>3. CASE \E ds \in Seq(Delta), j \in (i + 1)..(Len(s) + 1), t \in BOOLEAN :
             \A Q : Reads(Q, s, i, th) = ds \o Q[<<j, t>>]
  BY <1>3, Zenon
<1> QED
  BY <1>1, <1>2, <1>3, ReadsOnce

LEMMA ReadsTyped ==
  ASSUME NEW s \in Text, NEW i \in 1..(Len(s) + 1), NEW th \in BOOLEAN, NEW R,
         \A j \in (i + 1)..(Len(s) + 1), t \in BOOLEAN : R[<<j, t>>] \in Seq(Delta)
  PROVE  Reads(R, s, i, th) \in Seq(Delta)
<1>1. CASE \E ds \in Seq(Delta) : \A Q : Reads(Q, s, i, th) = ds
  BY <1>1, Zenon
<1>2. CASE \E j \in (i + 1)..(Len(s) + 1), t \in BOOLEAN : \A Q : Reads(Q, s, i, th) = Q[<<j, t>>]
  BY <1>2, Zenon
<1>3. CASE \E ds \in Seq(Delta), j \in (i + 1)..(Len(s) + 1), t \in BOOLEAN :
             \A Q : Reads(Q, s, i, th) = ds \o Q[<<j, t>>]
  <2>1. PICK ds \in Seq(Delta), j \in (i + 1)..(Len(s) + 1), t \in BOOLEAN :
          \A Q : Reads(Q, s, i, th) = ds \o Q[<<j, t>>]
    BY <1>3
  <2>2. PICK later : later = R[<<j, t>>]
    OBVIOUS
  <2>3. later \in Seq(Delta) /\ Reads(R, s, i, th) = ds \o later
    BY <2>1, <2>2, Zenon
  <2> QED
    BY <2>3
<1> QED
  BY <1>1, <1>2, <1>3, ReadsOnce

\* The reading of a text satisfies its recursion.
LEMMA ScanReads ==
  ASSUME NEW s \in Text
  PROVE  \A i \in 1..(Len(s) + 1), th \in BOOLEAN :
           Scan(s)[<<i, th>>] \in Seq(Delta) /\ Scan(s)[<<i, th>>] = Reads(Scan(s), s, i, th)
<1> DEFINE N == Len(s) + 1
           OK(R, i) == \A j \in i..N, th \in BOOLEAN : R[<<j, th>>] = Reads(R, s, j, th)
           T == {i \in 1..N : \E R : OK(R, i)}
           F == CHOOSE R : R = [x \in Positions(s) |-> Reads(R, s, x[1], x[2])]
<1>1. N \in Nat /\ 1 \in 1..N
  BY DEF Text
<1>2. ASSUME NEW i \in 1..N, \A j \in (i + 1)..N : j \in T PROVE i \in T
  <2>1. PICK R : OK(R, i + 1)
    <3>1. CASE i = N
      <4>1. (i + 1)..N = {}
        BY <1>1, <3>1
      <4> QED
        BY <4>1
    <3>2. CASE i # N
      <4>1. i + 1 \in (i + 1)..N
        BY <1>1, <3>2
      <4> QED
        BY <1>2, <4>1
    <3> QED
      BY <3>1, <3>2
  <2>2. PICK Q : Q = [x \in (i..N) \X BOOLEAN |-> IF x[1] = i THEN Reads(R, s, i, x[2]) ELSE R[x]]
    OBVIOUS
  <2>3. \A th \in BOOLEAN : Q[<<i, th>>] = Reads(R, s, i, th)
    BY <1>1, <2>2
  <2>4. \A j \in (i + 1)..N, th \in BOOLEAN : Q[<<j, th>>] = R[<<j, th>>]
    <3>1. \A j \in (i + 1)..N : j \in i..N /\ j # i
      BY <1>1
    <3>2. \A j \in i..N, th \in BOOLEAN : j # i => Q[<<j, th>>] = R[<<j, th>>]
      BY <2>2
    <3> QED
      BY <3>1, <3>2
  <2>5. ASSUME NEW j \in i..N, NEW th \in BOOLEAN PROVE Q[<<j, th>>] = Reads(Q, s, j, th)
    <3>1. j \in 1..(Len(s) + 1)
      BY <1>1
    <3>2. \A k \in (j + 1)..N : k \in (i + 1)..N
      BY <1>1
    <3>3. AgreeAfter(R, Q, s, j)
      BY <1>1, <2>4, <3>2 DEF AgreeAfter
    <3>4. Reads(R, s, j, th) = Reads(Q, s, j, th)
      BY <3>1, <3>3, ReadsAgree
    <3>5. CASE j = i
      BY <2>3, <3>4, <3>5
    <3>6. CASE j # i
      <4>1. j \in (i + 1)..N
        BY <1>1, <3>6
      <4>2. R[<<j, th>>] = Reads(R, s, j, th)
        BY <2>1, <4>1
      <4> QED
        BY <2>4, <3>4, <4>1, <4>2
    <3> QED
      BY <3>5, <3>6
  <2>6. OK(Q, i)
    BY <2>5
  <2> HIDE DEF OK
  <2> QED
    BY <2>6
<1>3. 1 \in T
  <2> HIDE DEF T
  <2> QED
    BY <1>1, <1>2, Downward
<1>4. PICK R : \A j \in 1..N, th \in BOOLEAN : R[<<j, th>>] = Reads(R, s, j, th)
  BY <1>3
<1>5. PICK Q : Q = [x \in Positions(s) |-> R[x]]
  OBVIOUS
<1>6. \A j \in 1..N, th \in BOOLEAN : Q[<<j, th>>] = R[<<j, th>>]
  BY <1>5 DEF Positions
<1>7. \A j \in 1..N, th \in BOOLEAN : Q[<<j, th>>] = Reads(Q, s, j, th)
  <2> SUFFICES ASSUME NEW j \in 1..N, NEW th \in BOOLEAN PROVE Q[<<j, th>>] = Reads(Q, s, j, th)
    OBVIOUS
  <2>1. j \in 1..(Len(s) + 1)
    BY <1>1
  <2>2. \A k \in (j + 1)..N : k \in 1..N
    BY <1>1
  <2>3. AgreeAfter(R, Q, s, j)
    BY <1>1, <1>6, <2>2 DEF AgreeAfter
  <2>4. Reads(R, s, j, th) = Reads(Q, s, j, th)
    BY <2>1, <2>3, ReadsAgree
  <2> QED
    BY <1>4, <1>6, <2>4
<1>8. \A x \in Positions(s) : Q[x] = Reads(Q, s, x[1], x[2])
  <2> SUFFICES ASSUME NEW x \in Positions(s) PROVE Q[x] = Reads(Q, s, x[1], x[2])
    OBVIOUS
  <2>1. x[1] \in 1..N /\ x[2] \in BOOLEAN /\ x = <<x[1], x[2]>>
    BY DEF Positions
  <2> QED
    BY <1>7, <2>1
<1>9. Q = [x \in Positions(s) |-> Reads(Q, s, x[1], x[2])]
  BY <1>5, <1>8
<1>10. F = [x \in Positions(s) |-> Reads(F, s, x[1], x[2])]
  BY <1>9
<1>11. F = Scan(s)
  BY DEF Scan
<1> HIDE DEF F
<1>12. \A i \in 1..N, th \in BOOLEAN : F[<<i, th>>] = Reads(F, s, i, th)
  <2> SUFFICES ASSUME NEW i \in 1..N, NEW th \in BOOLEAN PROVE F[<<i, th>>] = Reads(F, s, i, th)
    OBVIOUS
  <2>1. PICK x : x = <<i, th>>
    OBVIOUS
  <2>2. x \in Positions(s) /\ x[1] = i /\ x[2] = th
    BY <2>1 DEF Positions
  <2>3. F[x] = Reads(F, s, x[1], x[2])
    BY <1>10, <2>2, Zenon
  <2> QED
    BY <2>1, <2>2, <2>3
<1>13. \A i \in 1..N : \A th \in BOOLEAN : F[<<i, th>>] \in Seq(Delta)
  <2> DEFINE X == {i \in 1..N : \A th \in BOOLEAN : F[<<i, th>>] \in Seq(Delta)}
  <2>1. ASSUME NEW i \in 1..N, \A j \in (i + 1)..N : j \in X PROVE i \in X
    <3>1. \A j \in (i + 1)..(Len(s) + 1), t \in BOOLEAN : F[<<j, t>>] \in Seq(Delta)
      BY <2>1
    <3>2. \A th \in BOOLEAN : Reads(F, s, i, th) \in Seq(Delta)
      BY <3>1, ReadsTyped
    <3> QED
      BY <1>12, <3>2
  <2>2. \A i \in 1..N : i \in X
    <3> HIDE DEF X
    <3> QED
      BY <1>1, <2>1, Downward
  <2> QED
    BY <2>2
<1> QED
  BY <1>11, <1>12, <1>13

-----------------------------------------------------------------------------
(* Deltas character by character.                                          *)

LEMMA Joined ==
  ASSUME NEW a \in Seq(Delta), NEW b \in Seq(Delta)
  PROVE  /\ a \o b \in Seq(Delta) /\ Len(a \o b) = Len(a) + Len(b)
         /\ Len(a) \in Nat /\ Len(b) \in Nat
         /\ \A i \in 1..(Len(a) + Len(b)) : (a \o b)[i] = IF i <= Len(a) THEN a[i] ELSE b[i - Len(a)]
BY ConcatProperties

LEMMA Associative ==
  ASSUME NEW a \in Seq(Delta), NEW b \in Seq(Delta), NEW c \in Seq(Delta)
  PROVE  a \o (b \o c) = (a \o b) \o c
<1>1. PICK x \in Seq(Delta) : x = a \o b
  BY Joined
<1>2. PICK y \in Seq(Delta) : y = b \o c
  BY Joined
<1>3. PICK l \in Seq(Delta) : l = a \o y
  BY Joined
<1>4. PICK r \in Seq(Delta) : r = x \o c
  BY Joined
<1>5. /\ Len(x) = Len(a) + Len(b) /\ Len(y) = Len(b) + Len(c)
      /\ Len(l) = Len(a) + Len(y) /\ Len(r) = Len(x) + Len(c)
      /\ Len(a) \in Nat /\ Len(b) \in Nat /\ Len(c) \in Nat
  BY <1>1, <1>2, <1>3, <1>4, Joined
<1>6. /\ \A i \in 1..Len(x) : x[i] = IF i <= Len(a) THEN a[i] ELSE b[i - Len(a)]
      /\ \A i \in 1..Len(y) : y[i] = IF i <= Len(b) THEN b[i] ELSE c[i - Len(b)]
      /\ \A i \in 1..Len(l) : l[i] = IF i <= Len(a) THEN a[i] ELSE y[i - Len(a)]
      /\ \A i \in 1..Len(r) : r[i] = IF i <= Len(x) THEN x[i] ELSE c[i - Len(x)]
  BY <1>1, <1>2, <1>3, <1>4, <1>5, Joined
<1>7. ASSUME NEW i \in 1..Len(l) PROVE l[i] = r[i]
  <2>1. i \in 1..Len(r) /\ i \in Nat
    BY <1>5
  <2>2. CASE i <= Len(a)
    <3>1. i \in 1..Len(x) /\ i <= Len(x)
      BY <1>5, <2>1, <2>2
    <3> QED
      BY <1>6, <2>1, <2>2, <3>1
  <2>3. CASE ~(i <= Len(a)) /\ i <= Len(x)
    <3>1. i \in 1..Len(x) /\ i - Len(a) \in 1..Len(y) /\ i - Len(a) <= Len(b)
      BY <1>5, <2>1, <2>3
    <3> QED
      BY <1>6, <2>1, <2>3, <3>1
  <2>4. CASE ~(i <= Len(a)) /\ ~(i <= Len(x))
    <3>1. i - Len(a) \in 1..Len(y) /\ ~(i - Len(a) <= Len(b)) /\ (i - Len(a)) - Len(b) = i - Len(x)
      BY <1>5, <2>1, <2>4
    <3> QED
      BY <1>6, <2>1, <2>4, <3>1
  <2> QED
    BY <2>2, <2>3, <2>4
<1>8. l = r
  <2>1. Len(l) = Len(r)
    BY <1>5
  <2> QED
    BY <1>7, <2>1, SeqEqual
<1> QED
  BY <1>1, <1>2, <1>3, <1>4, <1>8

LEMMA SpelledOneMore ==
  ASSUME NEW ds \in Seq(Delta), NEW d \in Delta
  PROVE  Response!SpelledAll(ds \o <<d>>) = Response!SpelledAll(ds) \o Response!Spelled(d)
<1>1. PICK n : n = Len(ds)
  OBVIOUS
<1>2. PICK es : es = ds \o <<d>>
  OBVIOUS
<1>3. /\ n \in Nat /\ es \in Seq(Delta) /\ Len(es) = n + 1 /\ es[n + 1] = d
      /\ \A k \in 1..n : es[k] = ds[k]
  BY <1>1, <1>2
<1>4. PICK f \in [0..n -> Seq(Delta)] :
        /\ f[0] = <<>> /\ f[n] = Response!SpelledAll(ds)
        /\ \A k \in 1..n : f[k] = f[k - 1] \o Response!Spelled(ds[k])
  BY <1>1, SpellsOn
<1>5. PICK g \in [0..Len(es) -> Seq(Delta)] :
        /\ g[0] = <<>> /\ g[Len(es)] = Response!SpelledAll(es)
        /\ \A k \in 1..Len(es) : g[k] = g[k - 1] \o Response!Spelled(es[k])
  BY <1>3, SpellsOn
<1> DEFINE T == {m \in Nat : m <= n => g[m] = f[m]}
<1>6. T = Nat
  <2>1. 0 \in T
    BY <1>4, <1>5
  <2>2. ASSUME NEW m \in T PROVE m + 1 \in T
    <3> SUFFICES ASSUME m + 1 <= n PROVE g[m + 1] = f[m + 1]
      OBVIOUS
    <3>1. m \in Nat /\ g[m] = f[m] /\ m + 1 \in 1..n /\ m + 1 \in 1..Len(es) /\ (m + 1) - 1 = m
      BY <1>3, <2>2
    <3>2. f[m + 1] = f[m] \o Response!Spelled(ds[m + 1])
      BY <1>4, <3>1
    <3>3. g[m + 1] = g[m] \o Response!Spelled(es[m + 1])
      BY <1>5, <3>1
    <3> QED
      BY <1>3, <3>1, <3>2, <3>3
  <2>3. T \in SUBSET Nat
    OBVIOUS
  <2> HIDE DEF T
  <2> QED
    BY <2>1, <2>2, <2>3, Reaches
<1>7. g[n] = f[n]
  <2>1. n \in T
    BY <1>3, <1>6
  <2> QED
    BY <1>3, <2>1
<1>8. n + 1 \in 1..Len(es) /\ (n + 1) - 1 = n /\ Len(es) = n + 1
  BY <1>3
<1>9. g[n + 1] = g[n] \o Response!Spelled(es[n + 1])
  BY <1>5, <1>8
<1> QED
  BY <1>2, <1>3, <1>4, <1>5, <1>7, <1>8, <1>9

Plain(th, t) ==
  [i \in 1..Len(t) |-> [channel |-> IF th THEN "reasoning" ELSE "content", text |-> <<t[i]>>]]

LEMMA PlainTyped ==
  ASSUME NEW t \in Text, NEW th \in BOOLEAN
  PROVE  /\ Plain(th, t) \in Seq(Delta) /\ Len(Plain(th, t)) = Len(t)
         /\ \A i \in 1..Len(t) :
              Plain(th, t)[i] = [channel |-> IF th THEN "reasoning" ELSE "content", text |-> <<t[i]>>]
<1>1. Len(t) \in Nat /\ \A i \in 1..Len(t) : t[i] \in Letters
  BY DEF Text
<1>2. ASSUME NEW i \in 1..Len(t)
      PROVE  [channel |-> IF th THEN "reasoning" ELSE "content", text |-> <<t[i]>>] \in Delta
  <2>1. <<t[i]>> \in Text
    BY <1>1 DEF Text
  <2> QED
    BY <2>1 DEF Delta
<1>3. Plain(th, t) \in [1..Len(t) -> Delta]
  BY <1>2 DEF Plain
<1>4. Plain(th, t) \in Seq(Delta) /\ Len(Plain(th, t)) = Len(t)
  BY <1>1, <1>3
<1> QED
  BY <1>4 DEF Plain

LEMMA SpelledSays ==
  ASSUME NEW ds \in Seq(Delta), NEW t \in Text, NEW th \in BOOLEAN
  PROVE  /\ Response!SpelledAll(ds \o Response!TextDelta(th, t)) = Response!SpelledAll(ds) \o Plain(th, t)
         /\ Response!SpelledAll(ds \o Response!CallDelta(t)) = Response!SpelledAll(ds) \o Response!CallDelta(t)
         /\ Response!SpelledAll(ds \o Response!StopDelta) = Response!SpelledAll(ds) \o Response!StopDelta
<1>1. PICK d : d = [channel |-> IF th THEN "reasoning" ELSE "content", text |-> t]
  OBVIOUS
<1>2. d \in Delta /\ d.text = t /\ d.channel = (IF th THEN "reasoning" ELSE "content")
  BY <1>1 DEF Delta
<1>3. Response!SpelledAll(ds) \in Seq(Delta)
  BY SpelledAllTyped
<1>4. Response!SpelledAll(ds \o Response!TextDelta(th, t)) = Response!SpelledAll(ds) \o Plain(th, t)
  <2>1. CASE t = <<>>
    <3>1. Response!TextDelta(th, t) = <<>>
      BY <2>1 DEF Response!TextDelta
    <3>2. Plain(th, t) = <<>>
      <4>1. Plain(th, t) \in Seq(Delta) /\ Len(Plain(th, t)) = Len(t) /\ Len(t) = 0
        BY <2>1, PlainTyped
      <4> QED
        BY <4>1, EmptySeq
    <3> QED
      BY <1>3, <3>1, <3>2, ConcatEmptySeq
  <2>2. CASE t # <<>>
    <3>1. Response!TextDelta(th, t) = <<d>>
      BY <1>1, <2>2 DEF Response!TextDelta
    <3>2. Response!Spelled(d) = Plain(th, t)
      <4>1. d.channel \notin {"call", "stop"} /\ DOMAIN t = 1..Len(t)
        BY <1>2 DEF Text
      <4>2. Response!Spelled(d) = [i \in DOMAIN d.text |-> [channel |-> d.channel, text |-> <<d.text[i]>>]]
        BY <4>1 DEF Response!Spelled
      <4> QED
        BY <1>2, <4>1, <4>2 DEF Plain
    <3> QED
      BY <1>2, <3>1, <3>2, SpelledOneMore
  <2> QED
    BY <2>1, <2>2
<1>5. [channel |-> "call", text |-> t] \in Delta /\ [channel |-> "stop", text |-> <<>>] \in Delta
  BY StopTyped DEF Delta
<1>6. Response!SpelledAll(ds \o Response!CallDelta(t)) = Response!SpelledAll(ds) \o Response!CallDelta(t)
  <2>1. PICK c \in Delta : c = [channel |-> "call", text |-> t]
    BY <1>5
  <2>2. Response!CallDelta(t) = <<c>> /\ Response!Spelled(c) = <<c>>
    BY <2>1 DEF Response!CallDelta, Response!Spelled
  <2> QED
    BY <2>2, SpelledOneMore
<1>7. Response!SpelledAll(ds \o Response!StopDelta) = Response!SpelledAll(ds) \o Response!StopDelta
  <2>1. PICK c \in Delta : c = [channel |-> "stop", text |-> <<>>]
    BY <1>5
  <2>2. Response!StopDelta = <<c>> /\ Response!Spelled(c) = <<c>>
    BY <2>1 DEF Response!StopDelta, Response!Spelled
  <2> QED
    BY <2>2, SpelledOneMore
<1> QED
  BY <1>4, <1>6, <1>7

\* Text in which no marker begins is read letter by letter.
LEMMA ReadsPlain ==
  ASSUME NEW s \in Text, NEW i \in 1..(Len(s) + 1), NEW e \in i..(Len(s) + 1), NEW th \in BOOLEAN,
         \A j \in i..(e - 1) : \A m \in Response!Searched : ~Response!At(s, j, m)
  PROVE  Scan(s)[<<i, th>>] = Plain(th, SubSeq(s, i, e - 1)) \o Scan(s)[<<e, th>>]
<1> DEFINE R(j) == Scan(s)[<<j, th>>]
           Good(j) == R(i) = Plain(th, SubSeq(s, i, j - 1)) \o R(j)
           T == {k \in Nat : i + k <= e => Good(i + k)}
<1>1. i \in Nat \ {0} /\ e \in Nat /\ Len(s) \in Nat /\ e - 1 <= Len(s)
  BY DEF Text
<1>2. Good(i)
  <2>1. SubSeq(s, i, i - 1) = <<>>
    BY <1>1, SubSeqEmpty
  <2>2. Plain(th, <<>>) = <<>>
    <3>1. Plain(th, <<>>) \in Seq(Delta) /\ Len(Plain(th, <<>>)) = 0
      BY PlainTyped, StopTyped
    <3> QED
      BY <3>1, EmptySeq
  <2>3. R(i) \in Seq(Delta)
    BY <1>1, ScanReads
  <2>4. R(i) = <<>> \o R(i)
    BY <2>3, ConcatEmptySeq
  <2> QED
    BY <2>1, <2>2, <2>4, Zenon
<1>3. ASSUME NEW j \in i..(e - 1), Good(j) PROVE Good(j + 1)
  <2>1. PICK k : k = j - i
    OBVIOUS
  <2>2. /\ k \in Nat /\ j \in 1..Len(s) /\ j \in 1..(Len(s) + 1) /\ j + 1 \in 1..(Len(s) + 1)
        /\ j - 1 \in Int /\ j - 1 <= Len(s) /\ j - 1 = i + k - 1 /\ j = i + k /\ (j + 1) - 1 = j
    BY <1>1, <2>1
  <2>3. R(i) = Plain(th, SubSeq(s, i, j - 1)) \o R(j)
    BY <1>3
  <2>4. R(j) = Response!TextDelta(th, <<s[j]>>) \o R(j + 1)
    <3>1. R(j) = Reads(Scan(s), s, j, th)
      BY <2>2, ScanReads
    <3>2. ~(j > Len(s)) /\ ~Response!At(s, j, Boundary) /\ ~Response!At(s, j, ThinkEnd) /\ ~Response!At(s, j, ToolBegin)
      BY <1>1, <2>2 DEF Response!Searched
    <3> QED
      BY <3>1, <3>2, Zenon DEF Reads
  <2>5. R(j + 1) \in Seq(Delta)
    BY <2>2, ScanReads
  <2>6. SubSeq(s, i, j - 1) \in Text /\ SubSeq(s, i, j) \in Text /\ <<s[j]>> \in Text
    BY <1>1, <2>2, Cuts DEF Text
  <2>7. Plain(th, SubSeq(s, i, j)) = Plain(th, SubSeq(s, i, j - 1)) \o Response!TextDelta(th, <<s[j]>>)
    <3>1. PICK c : c = [channel |-> IF th THEN "reasoning" ELSE "content", text |-> <<s[j]>>]
      OBVIOUS
    <3>2. Response!TextDelta(th, <<s[j]>>) = <<c>> /\ c \in Delta
      <4>1. <<s[j]>> # <<>>
        OBVIOUS
      <4> QED
        BY <2>6, <3>1, <4>1 DEF Response!TextDelta, Delta
    <3>3. /\ Len(SubSeq(s, i, j - 1)) = k /\ Len(SubSeq(s, i, j)) = k + 1
          /\ \A x \in 1..k : SubSeq(s, i, j - 1)[x] = s[i + x - 1]
          /\ \A x \in 1..(k + 1) : SubSeq(s, i, j)[x] = s[i + x - 1]
      <4>1. /\ Len(SubSeq(s, i, j - 1)) = IF i <= j - 1 THEN (j - 1) - i + 1 ELSE 0
            /\ \A x \in 1..((j - 1) - i + 1) : SubSeq(s, i, j - 1)[x] = s[i + x - 1]
        BY <1>1, <2>2, Cuts
      <4>2. /\ Len(SubSeq(s, i, j)) = IF i <= j THEN j - i + 1 ELSE 0
            /\ \A x \in 1..(j - i + 1) : SubSeq(s, i, j)[x] = s[i + x - 1]
        BY <1>1, <2>2, Cuts
      <4>3. (j - 1) - i + 1 = k /\ j - i + 1 = k + 1 /\ i <= j /\ (i <= j - 1 <=> k # 0)
        BY <1>1, <2>2
      <4> QED
        BY <4>1, <4>2, <4>3
    <3>4. PICK a : a = Plain(th, SubSeq(s, i, j - 1))
      OBVIOUS
    <3>5. PICK b : b = Plain(th, SubSeq(s, i, j))
      OBVIOUS
    <3>6. /\ a \in Seq(Delta) /\ Len(a) = k
          /\ \A x \in 1..k : a[x] = [channel |-> IF th THEN "reasoning" ELSE "content", text |-> <<s[i + x - 1]>>]
      <4>1. PICK t : t = SubSeq(s, i, j - 1)
        OBVIOUS
      <4>2. /\ a \in Seq(Delta) /\ Len(a) = Len(t)
            /\ \A x \in 1..Len(t) : a[x] = [channel |-> IF th THEN "reasoning" ELSE "content", text |-> <<t[x]>>]
        BY <2>6, <3>4, <4>1, PlainTyped
      <4>3. Len(t) = k /\ \A x \in 1..k : t[x] = s[i + x - 1]
        BY <3>3, <4>1
      <4> QED
        BY <4>2, <4>3
    <3>7. /\ b \in Seq(Delta) /\ Len(b) = k + 1
          /\ \A x \in 1..(k + 1) : b[x] = [channel |-> IF th THEN "reasoning" ELSE "content", text |-> <<s[i + x - 1]>>]
      <4>1. PICK t : t = SubSeq(s, i, j)
        OBVIOUS
      <4>2. /\ b \in Seq(Delta) /\ Len(b) = Len(t)
            /\ \A x \in 1..Len(t) : b[x] = [channel |-> IF th THEN "reasoning" ELSE "content", text |-> <<t[x]>>]
        BY <2>6, <3>5, <4>1, PlainTyped
      <4>3. Len(t) = k + 1 /\ \A x \in 1..(k + 1) : t[x] = s[i + x - 1]
        BY <3>3, <4>1
      <4> QED
        BY <4>2, <4>3
    <3>8. \A x \in 1..(k + 1) : b[x] = IF x <= k THEN a[x] ELSE c
      <4>1. \A x \in 1..(k + 1) : ~(x <= k) => x = k + 1 /\ i + x - 1 = j
        BY <2>2
      <4>2. \A x \in 1..(k + 1) : x <= k => x \in 1..k
        BY <2>2
      <4> QED
        BY <3>1, <3>6, <3>7, <4>1, <4>2
    <3>9. b = a \o <<c>>
      <4>1. k \in Nat /\ a \in Seq(Delta) /\ Len(a) = k /\ b \in Seq(Delta) /\ Len(b) = k + 1 /\ c \in Delta
        BY <2>2, <3>2, <3>6, <3>7
      <4>2. \A x \in 1..(k + 1) : (a \o <<c>>)[x] = IF x <= k THEN a[x] ELSE c
        BY <4>1
      <4>3. a \o <<c>> \in Seq(Delta) /\ Len(a \o <<c>>) = k + 1
        BY <4>1
      <4>4. \A x \in 1..Len(b) : b[x] = (a \o <<c>>)[x]
        BY <3>8, <4>1, <4>2
      <4> QED
        BY <4>1, <4>3, <4>4, SeqEqual
    <3> QED
      BY <3>2, <3>4, <3>5, <3>9
  <2>8. PICK a : a = Plain(th, SubSeq(s, i, j - 1))
    OBVIOUS
  <2>9. PICK c : c = Response!TextDelta(th, <<s[j]>>)
    OBVIOUS
  <2>10. PICK r : r = R(j + 1)
    OBVIOUS
  <2>11. a \in Seq(Delta) /\ c \in Seq(Delta) /\ r \in Seq(Delta)
    BY <2>5, <2>6, <2>8, <2>9, <2>10, PlainTyped, TextTyped
  <2>12. a \o (c \o r) = (a \o c) \o r
    BY <2>11, Associative
  <2>13. R(i) = Plain(th, SubSeq(s, i, j)) \o R(j + 1)
    <3>1. R(i) = a \o (c \o r)
      BY <2>3, <2>4, <2>8, <2>9, <2>10, Zenon
    <3>2. Plain(th, SubSeq(s, i, j)) = a \o c
      BY <2>7, <2>8, <2>9, Zenon
    <3> QED
      BY <2>10, <2>12, <3>1, <3>2, Zenon
  <2> HIDE DEF R
  <2> QED
    BY <2>2, <2>13
<1> HIDE DEF R, Good
<1>4. T \in SUBSET Nat
  OBVIOUS
<1>5. T = Nat
  <2>1. 0 \in T
    <3>1. i + 0 = i
      BY <1>1
    <3> QED
      BY <1>2, <3>1
  <2>2. ASSUME NEW k \in T PROVE k + 1 \in T
    <3>1. CASE i + (k + 1) <= e
      <4>1. PICK j : j = i + k
        OBVIOUS
      <4>2. j \in i..(e - 1) /\ j <= e /\ i + (k + 1) = j + 1 /\ k \in Nat
        BY <1>1, <2>2, <3>1, <4>1
      <4>3. Good(j)
        BY <2>2, <4>1, <4>2
      <4>4. Good(i + (k + 1))
        BY <1>3, <4>2, <4>3
      <4> QED
        BY <4>2, <4>4
    <3> QED
      BY <3>1
  <2> HIDE DEF T
  <2> QED
    BY <1>4, <2>1, <2>2, Reaches
<1>6. e - i \in Nat /\ i + (e - i) = e
  BY <1>1
<1>7. Good(e)
  <2>1. Good(i + (e - i))
    <3>1. e - i \in T
      BY <1>5, <1>6
    <3> QED
      BY <1>1, <1>6, <3>1
  <2> QED
    BY <1>6, <2>1
<1> QED
  BY <1>7 DEF Good, R

-----------------------------------------------------------------------------
(* What the buffer shows of the text: u is s from w on, as far as L.       *)

LEMMA WindowFacts ==
  ASSUME NEW s \in Text, NEW L \in 0..Len(s), NEW w \in 1..(L + 1), NEW u, u = SubSeq(s, w, L)
  PROVE  /\ u \in Text /\ Len(u) = L + 1 - w /\ Len(u) \in Nat
         /\ \A i \in 1..Len(u), k \in 1..Len(u) : SubSeq(u, i, k) = SubSeq(s, w + i - 1, w + k - 1)
<1>1. Len(s) \in Nat /\ w \in Nat \ {0} /\ L \in Nat /\ L <= Len(s) /\ L \in Int
  BY DEF Text
<1>2. /\ SubSeq(s, w, L) \in Text
      /\ Len(SubSeq(s, w, L)) = IF w <= L THEN L - w + 1 ELSE 0
  BY <1>1, Cuts
<1>3. u \in Text /\ Len(u) = L + 1 - w /\ Len(u) \in Nat
  BY <1>1, <1>2
<1>4. ASSUME NEW i \in 1..Len(u), NEW k \in 1..Len(u)
      PROVE  SubSeq(u, i, k) = SubSeq(s, w + i - 1, w + k - 1)
  <2>1. /\ w \in 1..Len(s) /\ L \in 1..Len(s)
        /\ i \in 1..(L - w + 1) /\ k \in 1..(L - w + 1)
    BY <1>1, <1>3, <1>4
  <2>2. s \in Seq(Letters)
    BY DEF Text
  <2>3. SubSeq(SubSeq(s, w, L), i, k) = SubSeq(s, w + i - 1, w + k - 1)
    BY <2>1, <2>2, SubSeqOfSubSeq
  <2> QED
    BY <2>3
<1> QED
  BY <1>3, <1>4

LEMMA WindowShows ==
  ASSUME NEW s \in Text, NEW L \in 0..Len(s), NEW w \in 1..(L + 1), NEW u, u = SubSeq(s, w, L),
         NEW m \in Response!Markers
  PROVE  /\ \A i \in Response!Places(u, m) :
              /\ i \in 1..Len(u) /\ w + i - 1 \in w..L /\ w + i - 1 + Len(m) - 1 <= L
              /\ Response!At(s, w + i - 1, m)
         /\ \A j \in w..L : Response!At(s, j, m) /\ j + Len(m) - 1 <= L => j - w + 1 \in Response!Places(u, m)
<1>1. Len(s) \in Nat /\ w \in Nat \ {0} /\ L \in Nat /\ L <= Len(s) /\ Len(m) \in Nat /\ Len(m) >= 2
  BY StringsAreText DEF Text
<1>2. u \in Text /\ Len(u) = L + 1 - w /\ Len(u) \in Nat
  BY WindowFacts
<1>3. \A i \in 1..Len(u), k \in 1..Len(u) : SubSeq(u, i, k) = SubSeq(s, w + i - 1, w + k - 1)
  BY WindowFacts
<1>4. ASSUME NEW i \in Response!Places(u, m)
      PROVE  /\ i \in 1..Len(u) /\ w + i - 1 \in w..L /\ w + i - 1 + Len(m) - 1 <= L
             /\ Response!At(s, w + i - 1, m)
  <2>1. i \in 1..Len(u) /\ i + Len(m) - 1 <= Len(u) /\ SubSeq(u, i, i + Len(m) - 1) = m
    BY <1>2, <1>4, PlacesInText DEF Response!At
  <2>2. i + Len(m) - 1 \in 1..Len(u)
    BY <1>1, <1>2, <2>1
  <2>3. SubSeq(u, i, i + Len(m) - 1) = SubSeq(s, w + i - 1, w + (i + Len(m) - 1) - 1)
    BY <1>3, <2>1, <2>2
  <2>4. /\ w + (i + Len(m) - 1) - 1 = w + i - 1 + Len(m) - 1
        /\ w + i - 1 \in w..L /\ w + i - 1 + Len(m) - 1 <= L /\ w + i - 1 + Len(m) - 1 <= Len(s)
    BY <1>1, <1>2, <2>1
  <2>5. SubSeq(s, w + i - 1, w + i - 1 + Len(m) - 1) = m
    BY <2>1, <2>3, <2>4
  <2> QED
    BY <2>1, <2>4, <2>5 DEF Response!At
<1>5. ASSUME NEW j \in w..L, Response!At(s, j, m), j + Len(m) - 1 <= L
      PROVE  j - w + 1 \in Response!Places(u, m)
  <2>1. PICK i : i = j - w + 1
    OBVIOUS
  <2>2. /\ i \in 1..Len(u) /\ i + Len(m) - 1 \in 1..Len(u) /\ i + Len(m) - 1 <= Len(u)
        /\ w + i - 1 = j /\ w + (i + Len(m) - 1) - 1 = j + Len(m) - 1
    BY <1>1, <1>2, <1>5, <2>1
  <2>3. SubSeq(u, i, i + Len(m) - 1) = SubSeq(s, j, j + Len(m) - 1)
    BY <1>3, <2>2
  <2>4. SubSeq(u, i, i + Len(m) - 1) = m
    BY <1>5, <2>3 DEF Response!At
  <2> QED
    BY <2>1, <2>2, <2>4 DEF Response!Places, Response!At
<1> QED
  BY <1>4, <1>5

\* A marker that the buffer shows only the beginning of is held back.
LEMMA WindowHolds ==
  ASSUME NEW s \in Text, NEW L \in 0..Len(s), NEW w \in 1..(L + 1), NEW u, u = SubSeq(s, w, L),
         NEW m \in Response!Markers, NEW j \in w..L, Response!At(s, j, m), j + Len(m) - 1 > L
  PROVE  L + 1 - j <= Response!Holdback(u)
<1>1. /\ Len(s) \in Nat /\ w \in Nat \ {0} /\ L \in Nat /\ L <= Len(s) /\ m \in Text
      /\ Len(m) \in Nat /\ Len(m) >= 2 /\ j \in Nat \ {0} /\ w <= j /\ j <= L
  BY StringsAreText DEF Text
<1>2. u \in Text /\ Len(u) = L + 1 - w /\ Len(u) \in Nat
  BY WindowFacts
<1>3. PICK n : n = L + 1 - j
  OBVIOUS
<1>4. /\ n \in 1..Len(u) /\ n \in 1..Len(m) /\ n < Len(m) /\ n \in Nat /\ n \in Int /\ n <= Len(m) /\ n # 0
      /\ Len(u) - n + 1 \in 1..Len(u) /\ Len(u) \in 1..Len(u)
      /\ w + (Len(u) - n + 1) - 1 = j /\ w + Len(u) - 1 = L /\ j + n - 1 = L
      /\ Len(u) - n + 1 + n - 1 = Len(u)
  BY <1>1, <1>2, <1>3
<1>5. SubSeq(u, Len(u) - n + 1, Len(u)) = SubSeq(s, j, L)
  <2>1. \A i \in 1..Len(u), k \in 1..Len(u) : SubSeq(u, i, k) = SubSeq(s, w + i - 1, w + k - 1)
    BY WindowFacts
  <2>2. SubSeq(u, Len(u) - n + 1, Len(u)) = SubSeq(s, w + (Len(u) - n + 1) - 1, w + Len(u) - 1)
    BY <1>4, <2>1
  <2> QED
    BY <1>4, <2>2
<1>6. SubSeq(m, 1, n) = SubSeq(s, j, L)
  <2>1. PICK E : E = j + Len(m) - 1
    OBVIOUS
  <2>2. E \in 0..Len(s) /\ j \in 1..(E + 1) /\ E \in Nat
    BY <1>1, <2>1 DEF Response!At
  <2>3. m = SubSeq(s, j, E)
    BY <2>1 DEF Response!At
  <2>4. \A i \in 1..Len(m), k \in 1..Len(m) : SubSeq(m, i, k) = SubSeq(s, j + i - 1, j + k - 1)
    BY <2>2, <2>3, WindowFacts
  <2>5. 1 \in 1..Len(m) /\ j + 1 - 1 = j
    BY <1>1
  <2>6. SubSeq(m, 1, n) = SubSeq(s, j + 1 - 1, j + n - 1)
    BY <1>4, <2>4, <2>5
  <2> QED
    BY <1>4, <2>5, <2>6
<1>7. Fits(u, n)
  <2>1. PICK q : q = SubSeq(m, 1, n)
    OBVIOUS
  <2>2. Len(q) = n
    <3>1. Len(SubSeq(m, 1, n)) = IF 1 <= n THEN n - 1 + 1 ELSE 0
      BY <1>1, <1>4, Cuts
    <3> QED
      BY <1>4, <2>1, <3>1
  <2>3. Response!At(u, Len(u) - n + 1, q)
    <3>1. (Len(u) - n + 1) + Len(q) - 1 = Len(u) /\ Len(u) <= Len(u)
      BY <1>2, <1>4, <2>2
    <3>2. SubSeq(u, Len(u) - n + 1, Len(u)) = q
      BY <1>5, <1>6, <2>1
    <3> QED
      BY <3>1, <3>2 DEF Response!At
  <2> QED
    BY <1>4, <2>1, <2>3 DEF Fits
<1>8. Response!Holdback(u) \in 0..Len(u) /\ \A k \in (Response!Holdback(u) + 1)..Len(u) : ~Fits(u, k)
  BY <1>2, HoldbackIsLongest
<1>9. ~(n \in (Response!Holdback(u) + 1)..Len(u))
  BY <1>7, <1>8
<1> QED
  BY <1>2, <1>3, <1>4, <1>8, <1>9

\* How much of the buffer an iteration may pass on.
Limit(u, flush) == Len(u) - (IF flush THEN 0 ELSE Response!Holdback(u))

LEMMA WindowCatches ==
  ASSUME NEW s \in Text, NEW L \in 0..Len(s), NEW w \in 1..(L + 1), NEW u, u = SubSeq(s, w, L),
         NEW flush \in BOOLEAN, flush => L = Len(s)
  PROVE  /\ Limit(u, flush) \in 0..Len(u)
         /\ \A m \in Response!Markers : \A j \in w..(w + Limit(u, flush) - 1) :
              Response!At(s, j, m) => j - w + 1 \in Response!Places(u, m) /\ j - w + 1 <= Limit(u, flush)
<1>1. Len(s) \in Nat /\ w \in Nat \ {0} /\ L \in Nat /\ L <= Len(s)
  BY DEF Text
<1>2. u \in Text /\ Len(u) = L + 1 - w /\ Len(u) \in Nat
  BY WindowFacts
<1>3. Response!Holdback(u) \in 0..Len(u)
  BY <1>2, HoldbackIsLongest
<1>4. PICK lim : lim = Limit(u, flush)
  OBVIOUS
<1>5. lim \in 0..Len(u) /\ (flush => lim = Len(u)) /\ (~flush => lim = Len(u) - Response!Holdback(u))
  BY <1>2, <1>3, <1>4 DEF Limit
<1>6. ASSUME NEW m \in Response!Markers, NEW j \in w..(w + lim - 1), Response!At(s, j, m)
      PROVE  j - w + 1 \in Response!Places(u, m) /\ j - w + 1 <= lim
  <2>1. j \in w..L /\ j - w + 1 <= lim /\ j \in 1..(Len(s) + 1) /\ j \in Nat
    BY <1>1, <1>2, <1>5, <1>6
  <2>2. Len(m) \in Nat /\ j + Len(m) - 1 <= Len(s)
    BY <1>6, <2>1, AtInText, StringsAreText
  <2>3. j + Len(m) - 1 <= L
    <3> SUFFICES ASSUME ~(j + Len(m) - 1 <= L) PROVE FALSE
      OBVIOUS
    <3>1. ~flush /\ j + Len(m) - 1 > L
      BY <1>1, <2>1, <2>2
    <3>2. L + 1 - j <= Response!Holdback(u)
      BY <1>6, <2>1, <3>1, WindowHolds
    <3> QED
      BY <1>1, <1>2, <1>3, <1>5, <1>6, <2>1, <3>1, <3>2
  <2>4. j - w + 1 \in Response!Places(u, m)
    BY <1>6, <2>1, <2>3, WindowShows
  <2> QED
    BY <2>1, <2>4
<1> QED
  BY <1>4, <1>5, <1>6

LEMMA WindowFrom ==
  ASSUME NEW s \in Text, NEW L \in 0..Len(s), NEW w \in 1..(L + 1), NEW u, u = SubSeq(s, w, L)
  PROVE  \A k \in 1..(Len(u) + 1) : Response!From(u, k) = SubSeq(s, w + k - 1, L)
<1>1. Len(s) \in Nat /\ w \in Nat \ {0} /\ L \in Nat /\ L <= Len(s)
  BY DEF Text
<1>2. /\ u \in Text /\ Len(u) = L + 1 - w /\ Len(u) \in Nat
      /\ \A i \in 1..Len(u), k \in 1..Len(u) : SubSeq(u, i, k) = SubSeq(s, w + i - 1, w + k - 1)
  <2>1. u \in Text /\ Len(u) = L + 1 - w /\ Len(u) \in Nat
    BY WindowFacts
  <2>2. \A i \in 1..Len(u), k \in 1..Len(u) : SubSeq(u, i, k) = SubSeq(s, w + i - 1, w + k - 1)
    BY WindowFacts
  <2> QED
    BY <2>1, <2>2
<1>3. ASSUME NEW k \in 1..(Len(u) + 1)
      PROVE  Response!From(u, k) = SubSeq(s, w + k - 1, L)
  <2>1. k \in Nat \ {0} /\ k \in Int /\ Len(u) \in Int /\ Len(u) <= Len(u)
    BY <1>2
  <2>2. SubSeq(u, k, Len(u)) = SubSeq(s, w + k - 1, L)
    <3>1. CASE k <= Len(u)
      <4>1. k \in 1..Len(u) /\ Len(u) \in 1..Len(u) /\ w + Len(u) - 1 = L
        BY <1>1, <1>2, <1>3, <3>1
      <4>2. SubSeq(u, k, Len(u)) = SubSeq(s, w + k - 1, w + Len(u) - 1)
        BY <1>2, <4>1
      <4> QED
        BY <4>1, <4>2
    <3>2. CASE ~(k <= Len(u))
      <4>1. k \in Int /\ Len(u) \in Int /\ Len(u) < k
        BY <1>2, <1>3, <3>2
      <4>2. w + k - 1 \in Int /\ L \in Int /\ L < w + k - 1
        BY <1>1, <1>2, <1>3, <3>2
      <4>3. SubSeq(u, k, Len(u)) = <<>>
        BY <4>1, SubSeqEmpty
      <4>4. SubSeq(s, w + k - 1, L) = <<>>
        BY <4>2, SubSeqEmpty
      <4> QED
        BY <4>3, <4>4
    <3> QED
      BY <3>1, <3>2
  <2> QED
    BY <2>2 DEF Response!From
<1> QED
  BY <1>3

LEMMA WindowTo ==
  ASSUME NEW s \in Text, NEW L \in 0..Len(s), NEW w \in 1..(L + 1), NEW u, u = SubSeq(s, w, L)
  PROVE  \A k \in 0..Len(u) : SubSeq(u, 1, k) = SubSeq(s, w, w + k - 1) /\ SubSeq(u, 1, k) \in Text
<1>1. Len(s) \in Nat /\ w \in Nat \ {0} /\ L \in Nat /\ L <= Len(s)
  BY DEF Text
<1>2. /\ u \in Text /\ Len(u) = L + 1 - w /\ Len(u) \in Nat
      /\ \A i \in 1..Len(u), k \in 1..Len(u) : SubSeq(u, i, k) = SubSeq(s, w + i - 1, w + k - 1)
  <2>1. u \in Text /\ Len(u) = L + 1 - w /\ Len(u) \in Nat
    BY WindowFacts
  <2>2. \A i \in 1..Len(u), k \in 1..Len(u) : SubSeq(u, i, k) = SubSeq(s, w + i - 1, w + k - 1)
    BY WindowFacts
  <2> QED
    BY <2>1, <2>2
<1>3. ASSUME NEW k \in 0..Len(u)
      PROVE  SubSeq(u, 1, k) = SubSeq(s, w, w + k - 1) /\ SubSeq(u, 1, k) \in Text
  <2>1. k \in Int /\ k <= Len(u) /\ 1 \in Nat \ {0}
    BY <1>2
  <2>2. SubSeq(u, 1, k) \in Text
    BY <1>2, <2>1, Cuts
  <2>3. CASE k # 0
    <3>1. k \in 1..Len(u) /\ 1 \in 1..Len(u) /\ w + 1 - 1 = w
      BY <1>1, <1>2, <1>3, <2>3
    <3>2. SubSeq(u, 1, k) = SubSeq(s, w + 1 - 1, w + k - 1)
      BY <1>2, <3>1
    <3> QED
      BY <2>2, <3>1, <3>2
  <2>4. CASE k = 0
    <3>1. 1 \in Int /\ 0 \in Int /\ 0 < 1 /\ w \in Int /\ w + 0 - 1 \in Int /\ w + 0 - 1 < w
      BY <1>1
    <3>2. SubSeq(u, 1, 0) = <<>>
      BY <3>1, SubSeqEmpty
    <3>3. SubSeq(s, w, w + 0 - 1) = <<>>
      BY <3>1, SubSeqEmpty
    <3> QED
      BY <2>2, <2>4, <3>2, <3>3
  <2> QED
    BY <2>3, <2>4
<1> QED
  BY <1>3

LEMMA Adjacent ==
  ASSUME NEW s \in Text, NEW b \in Nat \ {0}, NEW w \in Nat \ {0}, NEW k \in Nat, b <= w, w - 1 <= k, k <= Len(s)
  PROVE  SubSeq(s, b, w - 1) \o SubSeq(s, w, k) = SubSeq(s, b, k)
<1>1. Len(s) \in Nat /\ s \in Seq(Letters)
  BY DEF Text
<1>2. PICK v : v = w - 1
  OBVIOUS
<1>3. b \in 1..(Len(s) + 1) /\ v \in (b - 1)..Len(s) /\ k \in v..Len(s) /\ v + 1 = w
  BY <1>1, <1>2
<1>4. SubSeq(s, b, v) \o SubSeq(s, v + 1, k) = SubSeq(s, b, k)
  BY <1>1, <1>3, ConcatAdjacentSubSeq
<1> QED
  BY <1>2, <1>3, <1>4

\* Where in s the buffer of a state of the loop begins, and the body of its call.
Place(p, L)  == L + 1 - Len(p.buf)
CallAt(p, L) == Place(p, L) - Len(p.body)

InCall(s, b, th) ==
  IF CallsEnd(s, b) # {}
  THEN Response!CallDelta(SubSeq(s, b, Response!First(CallsEnd(s, b)) - 1))
         \o Scan(s)[<<Response!First(CallsEnd(s, b)) + Len(ToolEnd), th>>]
  ELSE IF b <= Len(s) THEN Response!CallDelta(Response!From(s, b)) ELSE <<>>

\* What is still to be read of s in state p.
StillRead(s, L, p) ==
  IF p.done THEN <<>>
  ELSE IF p.tool THEN InCall(s, CallAt(p, L), p.think) ELSE Scan(s)[<<Place(p, L), p.think>>]

Shows(s, L, p) ==
  /\ Len(p.buf) <= L /\ p.buf = SubSeq(s, Place(p, L), L)
  /\ p.done => ~p.tool /\ p.buf = <<>>
  /\ p.tool => /\ CallAt(p, L) >= 1 /\ p.body = SubSeq(s, CallAt(p, L), Place(p, L) - 1)
               /\ \A j \in CallsEnd(s, CallAt(p, L)) : j >= Place(p, L)

LEMMA InCallTyped ==
  ASSUME NEW s \in Text, NEW b \in Nat \ {0}, NEW th \in BOOLEAN
  PROVE  InCall(s, b, th) \in Seq(Delta)
<1>1. Len(s) \in Nat
  BY DEF Text
<1>2. CASE CallsEnd(s, b) # {}
  <2>1. PICK e : e = Response!First(CallsEnd(s, b))
    OBVIOUS
  <2>2. e \in 1..Len(s) /\ e + Len(ToolEnd) \in (b + 2)..(Len(s) + 1)
    BY <1>2, <2>1, FirstEnd
  <2>3. e - 1 \in Int /\ e - 1 <= Len(s) /\ e + Len(ToolEnd) \in 1..(Len(s) + 1)
    BY <1>1, <2>2
  <2>4. Response!CallDelta(SubSeq(s, b, e - 1)) \in Seq(Delta)
    BY <2>3, Cuts, CallTyped
  <2>5. Scan(s)[<<e + Len(ToolEnd), th>>] \in Seq(Delta)
    BY <2>3, ScanReads
  <2>6. Response!CallDelta(SubSeq(s, b, e - 1)) \o Scan(s)[<<e + Len(ToolEnd), th>>] \in Seq(Delta)
    BY <2>4, <2>5, Joined
  <2> QED
    BY <1>2, <2>1, <2>6 DEF InCall
<1>3. CASE CallsEnd(s, b) = {}
  <2>1. Response!CallDelta(Response!From(s, b)) \in Seq(Delta)
    BY FromIsText, CallTyped
  <2> QED
    BY <1>3, <2>1, StopTyped DEF InCall
<1> QED
  BY <1>2, <1>3

LEMMA ShowsFacts ==
  ASSUME NEW s \in Text, NEW L \in 0..Len(s), NEW p \in Loop, Shows(s, L, p)
  PROVE  /\ p.buf \in Text /\ p.body \in Text /\ p.think \in BOOLEAN /\ p.tool \in BOOLEAN /\ p.deltas \in Seq(Delta)
         /\ Len(p.buf) \in Nat /\ Len(p.body) \in Nat
         /\ Place(p, L) \in 1..(L + 1) /\ Place(p, L) \in 1..(Len(s) + 1)
         /\ p.buf = SubSeq(s, Place(p, L), L)
         /\ Response!SpelledAll(p.deltas) \in Seq(Delta)
         /\ StillRead(s, L, p) \in Seq(Delta)
<1>1. /\ p.buf \in Text /\ p.body \in Text /\ p.think \in BOOLEAN /\ p.tool \in BOOLEAN /\ p.deltas \in Seq(Delta)
  BY DEF Loop
<1>2. Len(p.buf) \in Nat /\ Len(p.body) \in Nat /\ Len(s) \in Nat /\ L \in Nat /\ L <= Len(s)
  BY <1>1 DEF Text
<1>3. Place(p, L) \in 1..(L + 1) /\ Place(p, L) \in 1..(Len(s) + 1) /\ Place(p, L) \in Nat
  <2>1. Len(p.buf) <= L
    BY DEF Shows
  <2>2. PICK k : k = Len(p.buf)
    OBVIOUS
  <2>3. Place(p, L) = L + 1 - k
    BY <2>2 DEF Place
  <2>4. k \in Nat /\ k <= L /\ L \in Nat /\ Len(s) \in Nat /\ L <= Len(s)
    BY <1>2, <2>1, <2>2
  <2> HIDE DEF Place
  <2> QED
    BY <2>3, <2>4
<1>4. Response!SpelledAll(p.deltas) \in Seq(Delta)
  BY <1>1, SpelledAllTyped
<1>5. StillRead(s, L, p) \in Seq(Delta)
  <2>1. p.tool => InCall(s, CallAt(p, L), p.think) \in Seq(Delta)
    <3> SUFFICES ASSUME p.tool PROVE InCall(s, CallAt(p, L), p.think) \in Seq(Delta)
      OBVIOUS
    <3>1. CallAt(p, L) >= 1
      BY DEF Shows
    <3>2. CallAt(p, L) \in Nat \ {0}
      BY <1>2, <1>3, <3>1 DEF CallAt
    <3> QED
      BY <1>1, <3>2, InCallTyped
  <2>2. Scan(s)[<<Place(p, L), p.think>>] \in Seq(Delta)
    BY <1>1, <1>3, ScanReads
  <2> QED
    BY <2>1, <2>2, StopTyped DEF StillRead
<1> QED
  BY <1>1, <1>2, <1>3, <1>4, <1>5 DEF Shows

LEMMA ShowsOutside ==
  ASSUME NEW s \in Text, NEW L \in 0..Len(s), NEW q \in Loop, NEW x \in 1..(L + 1),
         q.buf = SubSeq(s, x, L), Len(q.buf) = L + 1 - x, ~q.tool, ~q.done
  PROVE  Shows(s, L, q) /\ StillRead(s, L, q) = Scan(s)[<<x, q.think>>]
<1>1. L \in Nat /\ x \in Nat /\ x >= 1
  BY DEF Text
<1>2. Place(q, L) = x
  BY <1>1 DEF Place
<1>3. Len(q.buf) <= L
  BY <1>1
<1> QED
  BY <1>2, <1>3 DEF Shows, StillRead

LEMMA ShowsInside ==
  ASSUME NEW s \in Text, NEW L \in 0..Len(s), NEW q \in Loop, NEW x \in 1..(L + 1), NEW b \in 1..x,
         q.buf = SubSeq(s, x, L), Len(q.buf) = L + 1 - x, q.tool, ~q.done,
         q.body = SubSeq(s, b, x - 1), Len(q.body) = x - b, \A j \in CallsEnd(s, b) : j >= x
  PROVE  Shows(s, L, q) /\ StillRead(s, L, q) = InCall(s, b, q.think)
<1>1. L \in Nat /\ x \in Nat /\ x >= 1 /\ b \in Nat /\ b >= 1
  BY DEF Text
<1>2. Place(q, L) = x
  BY <1>1 DEF Place
<1>3. CallAt(q, L) = b
  BY <1>1, <1>2 DEF CallAt
<1>4. Len(q.buf) <= L
  BY <1>1
<1> QED
  BY <1>1, <1>2, <1>3, <1>4 DEF Shows, StillRead

\* What an iteration leaves of the text, and what it has said of it.
Same(s, L, p, q) ==
  /\ Shows(s, L, q)
  /\ Response!SpelledAll(q.deltas) \o StillRead(s, L, q) = Response!SpelledAll(p.deltas) \o StillRead(s, L, p)

\* The body of a call goes on in the buffer.
LEMMA BodyGrows ==
  ASSUME NEW s \in Text, NEW L \in 0..Len(s), NEW p \in Loop, Shows(s, L, p), p.tool, NEW k \in 0..Len(p.buf)
  PROVE  /\ p.body \o SubSeq(p.buf, 1, k) = SubSeq(s, CallAt(p, L), Place(p, L) + k - 1)
         /\ Len(p.body \o SubSeq(p.buf, 1, k)) = Place(p, L) + k - CallAt(p, L)
         /\ CallAt(p, L) \in Nat \ {0} /\ CallAt(p, L) <= Place(p, L)
<1>1. PICK w : w = Place(p, L)
  OBVIOUS
<1>2. PICK b : b = CallAt(p, L)
  OBVIOUS
<1>3. PICK u : u = p.buf
  OBVIOUS
<1>4. /\ w \in 1..(L + 1) /\ u = SubSeq(s, w, L) /\ Len(p.body) \in Nat /\ p.body \in Text
  BY <1>1, <1>3, ShowsFacts
<1>5. b >= 1 /\ p.body = SubSeq(s, b, w - 1)
  BY <1>1, <1>2 DEF Shows
<1>6. b = w - Len(p.body)
  BY <1>1, <1>2 DEF CallAt
<1>7. L \in Nat /\ w \in Nat \ {0} /\ Len(s) \in Nat /\ L <= Len(s) /\ w <= L + 1
  BY <1>4 DEF Text
<1>8. b \in Nat \ {0} /\ b <= w
  BY <1>4, <1>5, <1>6, <1>7
<1>9. SubSeq(u, 1, k) = SubSeq(s, w, w + k - 1) /\ SubSeq(u, 1, k) \in Text
  BY <1>3, <1>4, WindowTo
<1>10. Len(u) = L + 1 - w
  BY <1>4, WindowFacts
<1>11. w + k - 1 \in Nat /\ w - 1 <= w + k - 1 /\ w + k - 1 <= Len(s) /\ k \in Nat
  BY <1>3, <1>7, <1>10
<1>12. SubSeq(s, b, w - 1) \o SubSeq(s, w, w + k - 1) = SubSeq(s, b, w + k - 1)
  BY <1>7, <1>8, <1>11, Adjacent
<1>13. Len(SubSeq(s, b, w + k - 1)) = w + k - b
  <2>1. w + k - 1 \in Int
    BY <1>11
  <2>2. Len(SubSeq(s, b, w + k - 1)) = IF b <= w + k - 1 THEN (w + k - 1) - b + 1 ELSE 0
    BY <1>8, <1>11, <2>1, Cuts
  <2> QED
    BY <1>7, <1>8, <1>11, <2>2
<1> QED
  BY <1>1, <1>2, <1>3, <1>5, <1>8, <1>9, <1>12, <1>13

\* No end of the call in sight: all but the hold-back is its body.
GoesOn(p, q, k) ==
  /\ Response!Places(p.buf, ToolEnd) = {}
  /\ q.body = p.body \o SubSeq(p.buf, 1, k) /\ q.buf = Response!From(p.buf, k + 1)
  /\ q.tool /\ ~q.done /\ q.think = p.think /\ q.deltas = p.deltas

LEMMA CallGoesOn ==
  ASSUME NEW s \in Text, NEW L \in 0..Len(s), NEW p \in Loop, Shows(s, L, p), p.tool,
         NEW flush \in BOOLEAN, flush => L = Len(s), NEW q \in Loop, GoesOn(p, q, Limit(p.buf, flush))
  PROVE  Same(s, L, p, q)
<1>1. PICK w : w = Place(p, L)
  OBVIOUS
<1>2. PICK b : b = CallAt(p, L)
  OBVIOUS
<1>3. PICK u : u = p.buf
  OBVIOUS
<1>4. PICK k : k = Limit(u, flush)
  OBVIOUS
<1>5. GoesOn(p, q, k)
  BY <1>3, <1>4
<1>6. w \in 1..(L + 1) /\ u = SubSeq(s, w, L) /\ L \in Nat /\ Len(s) \in Nat /\ w \in Nat
  <2>1. w \in 1..(L + 1) /\ u = SubSeq(s, w, L)
    BY <1>1, <1>3, ShowsFacts
  <2>2. L \in Nat /\ Len(s) \in Nat
    BY DEF Text
  <2> QED
    BY <2>1, <2>2
<1>7. k \in 0..Len(u)
  BY <1>4, <1>6, WindowCatches
<1>8. /\ q.body = SubSeq(s, b, w + k - 1) /\ Len(q.body) = w + k - b
      /\ b \in Nat \ {0} /\ b <= w
  <2>1. k \in 0..Len(p.buf) /\ q.body = p.body \o SubSeq(p.buf, 1, k)
    BY <1>3, <1>5, <1>7 DEF GoesOn
  <2>2. /\ p.body \o SubSeq(p.buf, 1, k) = SubSeq(s, CallAt(p, L), Place(p, L) + k - 1)
        /\ Len(p.body \o SubSeq(p.buf, 1, k)) = Place(p, L) + k - CallAt(p, L)
        /\ CallAt(p, L) \in Nat \ {0} /\ CallAt(p, L) <= Place(p, L)
    BY <2>1, BodyGrows
  <2> QED
    BY <1>1, <1>2, <2>1, <2>2
<1>9. Len(u) = L + 1 - w /\ Len(u) \in Nat
  BY <1>6, WindowFacts
<1>10. PICK x : x = w + k
  OBVIOUS
<1>11. PICK y : y = k + 1
  OBVIOUS
<1>12. /\ y \in 1..(Len(u) + 1) /\ w + y - 1 = x /\ Len(u) + 1 - y = L + 1 - x
       /\ x \in 1..(L + 1) /\ b \in 1..x
  <2>1. PICK lu : lu = Len(u)
    OBVIOUS
  <2>2. w \in Nat /\ L \in Nat /\ w \in 1..(L + 1) /\ k \in 0..lu /\ lu \in Nat /\ lu = L + 1 - w
    BY <1>6, <1>7, <1>9, <2>1
  <2>3. b \in Nat \ {0} /\ b <= w
    BY <1>8
  <2>4. /\ y \in 1..(lu + 1) /\ w + y - 1 = x /\ lu + 1 - y = L + 1 - x
        /\ x \in 1..(L + 1) /\ b \in 1..x
    BY <1>10, <1>11, <2>2, <2>3
  <2> QED
    BY <2>1, <2>4
<1>13. q.buf = SubSeq(s, x, L) /\ Len(q.buf) = L + 1 - x
  <2>1. Response!From(u, y) = SubSeq(s, x, L)
    <3>1. w \in 1..(L + 1) /\ u = SubSeq(s, w, L) /\ y \in 1..(Len(u) + 1) /\ w + y - 1 = x
      BY <1>6, <1>12
    <3>2. Response!From(u, y) = SubSeq(s, w + y - 1, L)
      BY <3>1, WindowFrom
    <3> QED
      BY <3>1, <3>2
  <2>2. q.buf = Response!From(u, y)
    BY <1>3, <1>5, <1>11 DEF GoesOn
  <2>3. q.buf = SubSeq(s, x, L)
    BY <2>1, <2>2
  <2>4. Len(q.buf) = L + 1 - x
    BY <1>12, <2>3, WindowFacts
  <2> QED
    BY <2>3, <2>4
<1>14. ASSUME NEW j \in CallsEnd(s, b) PROVE j >= x
  <2>1. j >= w /\ Response!At(s, j, ToolEnd) /\ j \in Nat
    BY <1>1, <1>2, <1>14, PlacesInText DEF Shows, CallsEnd
  <2>2. CASE ~(j >= x)
    <3>1. j \in w..(w + k - 1)
      BY <1>6, <1>7, <1>10, <2>1, <2>2
    <3>2. ToolEnd \in Response!Markers
      BY DEF Response!Markers
    <3>3. j - w + 1 \in Response!Places(u, ToolEnd)
      BY <1>4, <1>6, <2>1, <3>1, <3>2, WindowCatches
    <3> QED
      BY <1>3, <1>5, <3>3 DEF GoesOn
  <2> QED
    BY <2>2
<1>15. q.body = SubSeq(s, b, x - 1) /\ Len(q.body) = x - b
  <2>1. w \in Nat /\ k \in Int /\ b \in Nat
    BY <1>6, <1>7, <1>8, <1>9
  <2>2. w + k - 1 = x - 1 /\ w + k - b = x - b
    BY <1>10, <2>1
  <2> QED
    BY <1>8, <2>2
<1>16. Shows(s, L, q) /\ StillRead(s, L, q) = InCall(s, b, q.think)
  BY <1>12, <1>13, <1>14, <1>15, <1>5, ShowsInside DEF GoesOn
<1>17. StillRead(s, L, p) = InCall(s, b, p.think)
  BY <1>2 DEF Shows, StillRead
<1> QED
  BY <1>16, <1>17, <1>5 DEF Same, GoesOn

\* The end of the call is in the buffer.
Ends(p, q, e) ==
  /\ Response!Places(p.buf, ToolEnd) # {} /\ e = Response!First(Response!Places(p.buf, ToolEnd))
  /\ q.deltas = p.deltas \o Response!CallDelta(p.body \o SubSeq(p.buf, 1, e - 1))
  /\ q.buf = Response!From(p.buf, e + Len(ToolEnd))
  /\ ~q.tool /\ ~q.done /\ q.think = p.think

LEMMA CallEnds ==
  ASSUME NEW s \in Text, NEW L \in 0..Len(s), NEW p \in Loop, Shows(s, L, p), p.tool, NEW q \in Loop,
         NEW e, Ends(p, q, e)
  PROVE  Same(s, L, p, q) /\ Len(q.buf) < Len(p.buf)
<1>1. PICK w : w = Place(p, L)
  OBVIOUS
<1>2. PICK b : b = CallAt(p, L)
  OBVIOUS
<1>3. PICK u : u = p.buf
  OBVIOUS
<1>4. PICK n : n = Len(ToolEnd)
  OBVIOUS
<1>5. w \in 1..(L + 1) /\ u = SubSeq(s, w, L) /\ L \in Nat /\ Len(s) \in Nat /\ w \in Nat /\ L <= Len(s)
  <2>1. w \in 1..(L + 1) /\ u = SubSeq(s, w, L)
    BY <1>1, <1>3, ShowsFacts
  <2>2. L \in Nat /\ Len(s) \in Nat
    BY DEF Text
  <2> QED
    BY <2>1, <2>2
<1>6. ToolEnd \in Response!Markers /\ n \in Nat /\ n >= 2
  <2>1. ToolEnd \in Response!Markers
    BY DEF Response!Markers
  <2> QED
    BY <1>4, <2>1, StringsAreText
<1>7. e \in Response!Places(u, ToolEnd) /\ \A j \in Response!Places(u, ToolEnd) : e <= j
  <2>1. Response!Places(u, ToolEnd) \in SUBSET Nat
    BY <1>3, ShowsFacts, PlacesInText
  <2> QED
    BY <1>3, <2>1, FirstIsLeast DEF Ends
<1>8. Len(u) = L + 1 - w /\ Len(u) \in Nat
  BY <1>5, WindowFacts
<1>9. PICK E : E = w + e - 1
  OBVIOUS
<1>10. e \in 1..Len(u) /\ E \in w..L /\ E + n - 1 <= L /\ Response!At(s, E, ToolEnd)
  <2>1. /\ e \in 1..Len(u) /\ w + e - 1 \in w..L /\ w + e - 1 + Len(ToolEnd) - 1 <= L
        /\ Response!At(s, w + e - 1, ToolEnd)
    BY <1>5, <1>6, <1>7, WindowShows
  <2>2. w + e - 1 = E /\ Len(ToolEnd) = n
    BY <1>4, <1>9
  <2>3. E \in w..L /\ E + n - 1 <= L
    BY <2>1, <2>2
  <2>4. Response!At(s, E, ToolEnd)
    BY <2>1, <2>2, Zenon
  <2> QED
    BY <2>1, <2>3, <2>4
<1>11. b \in Nat \ {0} /\ b <= w
  <2>1. 0 \in 0..Len(p.buf)
    BY <1>3, <1>8
  <2> QED
    BY <1>1, <1>2, <2>1, BodyGrows
<1>12. PICK lu : lu = Len(u)
  OBVIOUS
<1>13. /\ w \in Nat \ {0} /\ L \in Nat /\ Len(s) \in Nat /\ L <= Len(s) /\ e \in 1..lu /\ lu \in Nat /\ lu = L + 1 - w
       /\ E \in w..L /\ E + n - 1 <= L /\ n \in Nat /\ n >= 2 /\ E = w + e - 1
  BY <1>12, <1>5, <1>6, <1>8, <1>9, <1>10
<1>14. E \in CallsEnd(s, b)
  BY <1>5, <1>10, <1>11 DEF CallsEnd, Response!Places
<1>15. ASSUME NEW j \in CallsEnd(s, b) PROVE E <= j
  <2>1. j >= w /\ Response!At(s, j, ToolEnd) /\ j \in Nat
    BY <1>1, <1>2, <1>15, PlacesInText DEF Shows, CallsEnd
  <2>2. CASE ~(E <= j)
    <3>1. j \in w..L /\ j + n - 1 <= L /\ j - w + 1 < e
      BY <1>13, <2>1, <2>2
    <3>2. j - w + 1 \in Response!Places(u, ToolEnd)
      BY <1>4, <1>5, <1>6, <2>1, <3>1, WindowShows
    <3>3. e <= j - w + 1
      BY <1>7, <3>2
    <3> QED
      BY <1>5, <1>10, <2>1, <3>1, <3>3
  <2> QED
    BY <2>2
<1>16. Response!First(CallsEnd(s, b)) = E
  <2>1. PICK f : f = Response!First(CallsEnd(s, b))
    OBVIOUS
  <2>2. f \in CallsEnd(s, b) /\ f <= E /\ f \in 1..Len(s)
    BY <1>11, <1>14, <2>1, FirstEnd
  <2>3. E <= f
    BY <1>15, <2>2
  <2> QED
    BY <1>5, <1>10, <2>1, <2>2, <2>3
<1>17. PICK x : x = E + n
  OBVIOUS
<1>18. PICK y : y = e + n
  OBVIOUS
<1>19. /\ y \in 1..(Len(u) + 1) /\ w + y - 1 = x /\ Len(u) + 1 - y = L + 1 - x /\ Len(u) + 1 - y < Len(u)
       /\ x \in 1..(L + 1)
  <2>1. /\ y \in 1..(lu + 1) /\ w + y - 1 = x /\ lu + 1 - y = L + 1 - x /\ lu + 1 - y < lu
        /\ x \in 1..(L + 1)
    BY <1>13, <1>17, <1>18
  <2> QED
    BY <1>12, <2>1
<1>20. q.buf = SubSeq(s, x, L) /\ Len(q.buf) = L + 1 - x /\ Len(q.buf) < Len(p.buf)
  <2>1. Response!From(u, y) = SubSeq(s, x, L)
    <3>1. w \in 1..(L + 1) /\ u = SubSeq(s, w, L) /\ y \in 1..(Len(u) + 1) /\ w + y - 1 = x
      BY <1>5, <1>19
    <3>2. Response!From(u, y) = SubSeq(s, w + y - 1, L)
      BY <3>1, WindowFrom
    <3> QED
      BY <3>1, <3>2
  <2>2. q.buf = Response!From(u, y)
    BY <1>3, <1>4, <1>18 DEF Ends
  <2>3. q.buf = SubSeq(s, x, L)
    BY <2>1, <2>2
  <2>4. Len(q.buf) = L + 1 - x
    BY <1>19, <2>3, WindowFacts
  <2> QED
    BY <1>3, <1>19, <2>3, <2>4
<1>21. Shows(s, L, q) /\ StillRead(s, L, q) = Scan(s)[<<x, p.think>>]
  BY <1>19, <1>20, ShowsOutside DEF Ends
<1>22. p.body \o SubSeq(p.buf, 1, e - 1) = SubSeq(s, b, E - 1)
  <2>1. PICK k : k = e - 1
    OBVIOUS
  <2>2. k \in 0..Len(p.buf) /\ w + k - 1 = E - 1
    <3>1. k \in 0..lu /\ w + k - 1 = E - 1
      BY <1>13, <2>1
    <3> QED
      BY <1>12, <1>3, <3>1
  <2>3. p.body \o SubSeq(p.buf, 1, k) = SubSeq(s, CallAt(p, L), Place(p, L) + k - 1)
    BY <2>2, BodyGrows
  <2> QED
    BY <1>1, <1>2, <2>1, <2>2, <2>3
<1>23. StillRead(s, L, p) = Response!CallDelta(SubSeq(s, b, E - 1)) \o Scan(s)[<<x, p.think>>]
  <2>1. StillRead(s, L, p) = InCall(s, b, p.think)
    BY <1>2 DEF Shows, StillRead
  <2>2. CallsEnd(s, b) # {}
    BY <1>14
  <2>3. InCall(s, b, p.think) = Response!CallDelta(SubSeq(s, b, E - 1)) \o Scan(s)[<<E + Len(ToolEnd), p.think>>]
    BY <1>16, <2>2, Zenon DEF InCall
  <2> QED
    BY <1>4, <1>17, <2>1, <2>3
<1>24. PICK t : t = SubSeq(s, b, E - 1)
  OBVIOUS
<1>25. t \in Text
  <2>1. E - 1 \in Int /\ E - 1 <= Len(s)
    BY <1>5, <1>10
  <2> QED
    BY <1>11, <1>24, <2>1, Cuts
<1>26. Response!SpelledAll(q.deltas) = Response!SpelledAll(p.deltas) \o Response!CallDelta(t)
  <2>1. p.deltas \in Seq(Delta) /\ q.deltas = p.deltas \o Response!CallDelta(t)
    BY <1>22, <1>24, ShowsFacts DEF Ends
  <2> QED
    BY <1>25, <2>1, SpelledSays
<1>27. /\ Response!SpelledAll(p.deltas) \in Seq(Delta) /\ Response!CallDelta(t) \in Seq(Delta)
       /\ Scan(s)[<<x, p.think>>] \in Seq(Delta)
  <2>1. Response!CallDelta(t) \in Seq(Delta)
    BY <1>25, CallTyped
  <2>2. p.think \in BOOLEAN /\ Response!SpelledAll(p.deltas) \in Seq(Delta)
    BY ShowsFacts
  <2>3. x \in 1..(Len(s) + 1)
    BY <1>5, <1>19
  <2> QED
    BY <2>1, <2>2, <2>3, ScanReads
<1>28. Response!SpelledAll(q.deltas) \o StillRead(s, L, q) = Response!SpelledAll(p.deltas) \o StillRead(s, L, p)
  <2>1. PICK v1 : v1 = Response!SpelledAll(p.deltas)
    OBVIOUS
  <2>2. PICK v2 : v2 = Response!CallDelta(t)
    OBVIOUS
  <2>3. PICK v3 : v3 = Scan(s)[<<x, p.think>>]
    OBVIOUS
  <2>4. v1 \in Seq(Delta) /\ v2 \in Seq(Delta) /\ v3 \in Seq(Delta)
    BY <1>27, <2>1, <2>2, <2>3
  <2>5. v1 \o (v2 \o v3) = (v1 \o v2) \o v3
    BY <2>4, Associative
  <2>6. StillRead(s, L, p) = v2 \o v3
    BY <1>23, <1>24, <2>2, <2>3, Zenon
  <2>7. StillRead(s, L, q) = v3 /\ Response!SpelledAll(q.deltas) = v1 \o v2
    BY <1>21, <1>26, <2>1, <2>2, <2>3, Zenon
  <2> QED
    BY <2>1, <2>5, <2>6, <2>7, Zenon
<1> QED
  BY <1>20, <1>21, <1>28 DEF Same

\* The text up to the next marker is said as it is read.
LEMMA SaysUpTo ==
  ASSUME NEW s \in Text, NEW L \in 0..Len(s), NEW p \in Loop, Shows(s, L, p), ~p.tool, ~p.done,
         NEW k \in 0..Len(p.buf), NEW x, x = Place(p, L) + k,
         \A j \in Place(p, L)..(x - 1) : \A m \in Response!Searched : ~Response!At(s, j, m)
  PROVE  /\ p.deltas \o Response!TextDelta(p.think, SubSeq(p.buf, 1, k)) \in Seq(Delta)
         /\ Response!SpelledAll(p.deltas \o Response!TextDelta(p.think, SubSeq(p.buf, 1, k))) \in Seq(Delta)
         /\ x \in 1..(L + 1) /\ x \in 1..(Len(s) + 1)
         /\ Response!SpelledAll(p.deltas \o Response!TextDelta(p.think, SubSeq(p.buf, 1, k)))
              \o Scan(s)[<<x, p.think>>]
              = Response!SpelledAll(p.deltas) \o StillRead(s, L, p)
<1>1. PICK w : w = Place(p, L)
  OBVIOUS
<1>2. PICK u : u = p.buf
  OBVIOUS
<1>3. PICK t : t = SubSeq(u, 1, k)
  OBVIOUS
<1>4. w \in 1..(L + 1) /\ u = SubSeq(s, w, L) /\ L \in Nat /\ Len(s) \in Nat /\ L <= Len(s)
  <2>1. w \in 1..(L + 1) /\ u = SubSeq(s, w, L)
    BY <1>1, <1>2, ShowsFacts
  <2>2. L \in Nat /\ Len(s) \in Nat
    BY DEF Text
  <2> QED
    BY <2>1, <2>2
<1>5. PICK lu : lu = Len(u)
  OBVIOUS
<1>6. lu = L + 1 - w /\ lu \in Nat
  BY <1>4, <1>5, WindowFacts
<1>7. k \in 0..lu
  BY <1>2, <1>5
<1>8. x = w + k
  BY <1>1
<1>9. w \in Nat /\ L \in Nat /\ Len(s) \in Nat /\ L <= Len(s) /\ w \in 1..(L + 1)
  BY <1>4
<1>10. /\ x \in 1..(L + 1) /\ x \in 1..(Len(s) + 1) /\ x \in w..(Len(s) + 1) /\ w \in 1..(Len(s) + 1)
       /\ w + k - 1 = x - 1
  <2> HIDE <1>4
  <2> QED
    BY <1>6, <1>7, <1>8, <1>9
<1>11. t = SubSeq(s, w, x - 1) /\ t \in Text
  <2>1. k \in 0..Len(u)
    BY <1>5, <1>7
  <2>2. SubSeq(u, 1, k) = SubSeq(s, w, w + k - 1) /\ SubSeq(u, 1, k) \in Text
    BY <1>4, <2>1, WindowTo
  <2> QED
    BY <1>3, <1>10, <2>2
<1>12. PICK th : th = p.think
  OBVIOUS
<1>13. th \in BOOLEAN /\ p.deltas \in Seq(Delta)
  BY <1>12, ShowsFacts
<1>14. Scan(s)[<<w, th>>] = Plain(th, t) \o Scan(s)[<<x, th>>]
  <2>1. \A j \in w..(x - 1) : \A m \in Response!Searched : ~Response!At(s, j, m)
    BY <1>1
  <2>2. Scan(s)[<<w, th>>] = Plain(th, SubSeq(s, w, x - 1)) \o Scan(s)[<<x, th>>]
    BY <1>10, <1>13, <2>1, ReadsPlain
  <2> QED
    BY <1>11, <2>2
<1>15. StillRead(s, L, p) = Scan(s)[<<w, th>>]
  BY <1>1, <1>12 DEF StillRead
<1>16. PICK ds : ds = p.deltas \o Response!TextDelta(th, t)
  OBVIOUS
<1>17. ds \in Seq(Delta)
  <2>1. Response!TextDelta(th, t) \in Seq(Delta)
    BY <1>11, <1>13, TextTyped
  <2> QED
    BY <1>13, <1>16, <2>1, Joined
<1>18. Response!SpelledAll(ds) \in Seq(Delta)
  BY <1>17, SpelledAllTyped
<1>19. Response!SpelledAll(ds) = Response!SpelledAll(p.deltas) \o Plain(th, t)
  BY <1>11, <1>13, <1>16, SpelledSays
<1>20. Response!SpelledAll(ds) \o Scan(s)[<<x, th>>] = Response!SpelledAll(p.deltas) \o StillRead(s, L, p)
  <2>1. PICK v1 : v1 = Response!SpelledAll(p.deltas)
    OBVIOUS
  <2>2. PICK v2 : v2 = Plain(th, t)
    OBVIOUS
  <2>3. PICK v3 : v3 = Scan(s)[<<x, th>>]
    OBVIOUS
  <2>4. v1 \in Seq(Delta)
    BY <1>13, <2>1, SpelledAllTyped
  <2>5. v2 \in Seq(Delta)
    BY <1>11, <1>13, <2>2, PlainTyped
  <2>6. v3 \in Seq(Delta)
    BY <1>10, <1>13, <2>3, ScanReads
  <2>7. v1 \o (v2 \o v3) = (v1 \o v2) \o v3
    BY <2>4, <2>5, <2>6, Associative
  <2>8. StillRead(s, L, p) = v2 \o v3
    BY <1>14, <1>15, <2>2, <2>3, Zenon
  <2>9. Response!SpelledAll(ds) = v1 \o v2
    BY <1>19, <2>1, <2>2, Zenon
  <2> QED
    BY <2>1, <2>3, <2>7, <2>8, <2>9, Zenon
<1>21. ds = p.deltas \o Response!TextDelta(p.think, SubSeq(p.buf, 1, k))
  BY <1>2, <1>3, <1>12, <1>16
<1> QED
  BY <1>10, <1>12, <1>17, <1>18, <1>20, <1>21, Zenon

\* No marker begins before the hold-back: all but it is said.
Silent(p, q, k) ==
  /\ \A m \in Response!Searched : \A i \in Response!Places(p.buf, m) : ~(i <= k)
  /\ q.deltas = p.deltas \o Response!TextDelta(p.think, SubSeq(p.buf, 1, k))
  /\ q.buf = Response!From(p.buf, k + 1) /\ ~q.tool /\ ~q.done /\ q.think = p.think

LEMMA TextGoesOn ==
  ASSUME NEW s \in Text, NEW L \in 0..Len(s), NEW p \in Loop, Shows(s, L, p), ~p.tool, ~p.done,
         NEW flush \in BOOLEAN, flush => L = Len(s), NEW q \in Loop, Silent(p, q, Limit(p.buf, flush))
  PROVE  Same(s, L, p, q)
<1>1. PICK w : w = Place(p, L)
  OBVIOUS
<1>2. PICK u : u = p.buf
  OBVIOUS
<1>3. PICK k : k = Limit(u, flush)
  OBVIOUS
<1>4. Silent(p, q, k)
  BY <1>2, <1>3
<1>5. w \in 1..(L + 1) /\ u = SubSeq(s, w, L)
  BY <1>1, <1>2, ShowsFacts
<1>6. k \in 0..Len(u)
  BY <1>3, <1>5, WindowCatches
<1>7. PICK x : x = w + k
  OBVIOUS
<1>8. PICK y : y = k + 1
  OBVIOUS
<1>9. /\ y \in 1..(Len(u) + 1) /\ w + y - 1 = x /\ x - 1 = w + k - 1
  <2>1. PICK lu : lu = Len(u)
    OBVIOUS
  <2>2. lu \in Nat
    BY <1>5, <2>1, WindowFacts
  <2>3. k \in 0..lu /\ w \in Int
    BY <1>5, <1>6, <2>1
  <2>4. y \in 1..(lu + 1) /\ w + y - 1 = x /\ x - 1 = w + k - 1
    BY <1>7, <1>8, <2>2, <2>3
  <2> QED
    BY <2>1, <2>4
<1>10. ASSUME NEW j \in w..(x - 1), NEW m \in Response!Searched PROVE ~Response!At(s, j, m)
  <2> SUFFICES ASSUME Response!At(s, j, m) PROVE FALSE
    OBVIOUS
  <2>1. m \in Response!Markers /\ j \in w..(w + k - 1)
    BY <1>9, <1>10 DEF Response!Markers, Response!Searched
  <2>2. j - w + 1 \in Response!Places(u, m) /\ j - w + 1 <= k
    BY <1>3, <1>5, <2>1, WindowCatches
  <2> QED
    BY <1>2, <1>4, <2>2 DEF Silent
<1>11. /\ x \in 1..(L + 1) /\ q.think = p.think /\ ~q.tool /\ ~q.done
       /\ Response!SpelledAll(q.deltas) \o Scan(s)[<<x, p.think>>] = Response!SpelledAll(p.deltas) \o StillRead(s, L, p)
  <2>1. k \in 0..Len(p.buf) /\ x = Place(p, L) + k
    BY <1>1, <1>2, <1>6, <1>7
  <2>2. \A j \in Place(p, L)..(x - 1) : \A m \in Response!Searched : ~Response!At(s, j, m)
    BY <1>1, <1>10
  <2>3. q.deltas = p.deltas \o Response!TextDelta(p.think, SubSeq(p.buf, 1, k))
    BY <1>4 DEF Silent
  <2>4. /\ x \in 1..(L + 1)
        /\ Response!SpelledAll(p.deltas \o Response!TextDelta(p.think, SubSeq(p.buf, 1, k)))
             \o Scan(s)[<<x, p.think>>]
             = Response!SpelledAll(p.deltas) \o StillRead(s, L, p)
    BY <2>1, <2>2, SaysUpTo
  <2> QED
    BY <1>4, <2>3, <2>4 DEF Silent
<1>12. q.buf = SubSeq(s, x, L)
  <2>1. q.buf = Response!From(u, y)
    BY <1>2, <1>4, <1>8 DEF Silent
  <2>2. Response!From(u, y) = SubSeq(s, w + y - 1, L)
    BY <1>5, <1>9, WindowFrom
  <2> QED
    BY <1>9, <2>1, <2>2
<1>13. Len(q.buf) = L + 1 - x
  BY <1>11, <1>12, WindowFacts
<1>14. Shows(s, L, q) /\ StillRead(s, L, q) = Scan(s)[<<x, p.think>>]
  BY <1>11, <1>12, <1>13, ShowsOutside
<1> QED
  BY <1>11, <1>14 DEF Same

\* No two of the markers looked for begin at one place.
LEMMA NoneBeginsAnother ==
  ASSUME NEW m \in Response!Searched, NEW n \in Response!Searched, m # n, Len(n) <= Len(m)
  PROVE  SubSeq(m, 1, Len(n)) # n
<1>1. PICK three : three = <<ThinkEnd, ToolBegin, Boundary>>
  OBVIOUS
<1>2. \A i, j \in 1..3 :
        i # j => ~(Len(three[j]) <= Len(three[i]) /\ SubSeq(three[i], 1, Len(three[j])) = three[j])
  BY <1>1, TextAssumption
<1>3. three[1] = ThinkEnd /\ three[2] = ToolBegin /\ three[3] = Boundary
  BY <1>1
<1>4. 1 \in 1..3 /\ 2 \in 1..3 /\ 3 \in 1..3 /\ 1 # 2 /\ 1 # 3 /\ 2 # 3
  OBVIOUS
<1>5. /\ \E i \in 1..3 : m = three[i]
      /\ \E j \in 1..3 : n = three[j]
  BY <1>3, <1>4 DEF Response!Searched
<1>6. PICK i \in 1..3, j \in 1..3 : m = three[i] /\ n = three[j]
  BY <1>5
<1>7. i # j
  BY <1>6
<1> QED
  BY <1>2, <1>6, <1>7

LEMMA SearchedDiffer == ThinkEnd # ToolBegin /\ ThinkEnd # Boundary /\ ToolBegin # Boundary
<1>1. PICK three : three = <<ThinkEnd, ToolBegin, Boundary>>
  OBVIOUS
<1>2. \A i, j \in 1..3 :
        i # j => ~(Len(three[j]) <= Len(three[i]) /\ SubSeq(three[i], 1, Len(three[j])) = three[j])
  BY <1>1, TextAssumption
<1>3. three[1] = ThinkEnd /\ three[2] = ToolBegin /\ three[3] = Boundary
  BY <1>1
<1>4. 1 \in 1..3 /\ 2 \in 1..3 /\ 3 \in 1..3 /\ 1 # 2 /\ 1 # 3 /\ 2 # 3
  OBVIOUS
<1>5. \A m \in Response!Searched : Len(m) <= Len(m) /\ SubSeq(m, 1, Len(m)) = m
  <2>1. ASSUME NEW m \in Response!Searched PROVE Len(m) <= Len(m) /\ SubSeq(m, 1, Len(m)) = m
    <3>1. m \in Text /\ Len(m) \in Nat
      BY StringsAreText DEF Response!Markers, Response!Searched
    <3> QED
      BY <3>1, SubSeqFull DEF Text
  <2> QED
    BY <2>1
<1>6. ASSUME NEW i \in 1..3, NEW j \in 1..3, i # j, three[i] \in Response!Searched PROVE three[i] # three[j]
  BY <1>2, <1>5, <1>6
<1>7. ThinkEnd \in Response!Searched /\ ToolBegin \in Response!Searched
  BY DEF Response!Searched
<1> QED
  BY <1>3, <1>4, <1>6, <1>7

LEMMA OneMarker ==
  ASSUME NEW s \in Text, NEW E \in 1..Len(s), NEW m \in Response!Searched, NEW n \in Response!Searched,
         Response!At(s, E, m), Response!At(s, E, n)
  PROVE  m = n
<1>1. ASSUME NEW a \in Response!Searched, NEW b \in Response!Searched, Response!At(s, E, a), Response!At(s, E, b),
             Len(b) <= Len(a)
      PROVE  a = b
  <2>1. /\ Len(a) \in Nat /\ Len(a) >= 2 /\ Len(b) \in Nat /\ Len(b) >= 2
    BY StringsAreText DEF Response!Searched, Response!Markers
  <2>2. PICK L : L = E + Len(a) - 1
    OBVIOUS
  <2>3. L <= Len(s) /\ a = SubSeq(s, E, L)
    BY <1>1, <2>2 DEF Response!At
  <2>4. b = SubSeq(s, E, E + Len(b) - 1)
    BY <1>1 DEF Response!At
  <2>5. PICK la : la = Len(a)
    OBVIOUS
  <2>6. PICK lb : lb = Len(b)
    OBVIOUS
  <2>7. L \in 0..Len(s) /\ E \in 1..(L + 1)
    <3>1. la \in Nat /\ la >= 2 /\ L = E + la - 1 /\ E \in Nat \ {0} /\ Len(s) \in Nat
      BY <2>1, <2>2, <2>5 DEF Text
    <3> QED
      BY <2>3, <3>1
  <2>8. 1 \in 1..la /\ lb \in 1..la /\ lb \in 0..la
    BY <1>1, <2>1, <2>5, <2>6
  <2>9. SubSeq(a, 1, lb) = SubSeq(s, E, E + lb - 1)
    BY <2>3, <2>5, <2>7, <2>8, WindowTo
  <2> QED
    BY <1>1, <2>4, <2>6, <2>9, NoneBeginsAnother
<1>2. Len(m) \in Nat /\ Len(n) \in Nat
  BY StringsAreText DEF Response!Searched, Response!Markers
<1>3. Len(m) <= Len(n) \/ Len(n) <= Len(m)
  BY <1>2
<1> QED
  BY <1>1, <1>3

\* The earliest marker that begins before the hold-back.
Earliest(u, i, m, k) ==
  /\ m \in Response!Searched /\ i \in Response!Places(u, m) /\ i <= k
  /\ \A n \in Response!Searched : \A j \in Response!Places(u, n) : j <= k => i <= j

Spot(w, i) == w + i - 1

\* The buffer is s from w to L, and its first k letters are not held back.
Window(s, L, w, u) == s \in Text /\ L \in 0..Len(s) /\ w \in 1..(L + 1) /\ u = SubSeq(s, w, L)

Catches(s, w, u, k) ==
  /\ k \in 0..Len(u)
  /\ \A m \in Response!Markers : \A j \in w..(w + k - 1) :
       Response!At(s, j, m) => j - w + 1 \in Response!Places(u, m) /\ j - w + 1 <= k

FirstOfText(s, L, w, u, i, m, E) ==
  /\ i \in 1..Len(u) /\ E \in w..L /\ Response!At(s, E, m)
  /\ E + Len(m) - 1 <= L
  /\ \A n \in Response!Searched : Response!At(s, E, n) => n = m
  /\ \A j \in w..(E - 1) : \A n \in Response!Searched : ~Response!At(s, j, n)

LEMMA EarliestOfText ==
  ASSUME NEW s, NEW L, NEW w, NEW u, Window(s, L, w, u), NEW k, Catches(s, w, u, k),
         NEW m, NEW i, Earliest(u, i, m, k)
  PROVE  FirstOfText(s, L, w, u, i, m, Spot(w, i))
<1>1. PICK E : E = Spot(w, i)
  OBVIOUS
<1>2. s \in Text /\ L \in 0..Len(s) /\ w \in 1..(L + 1) /\ u = SubSeq(s, w, L)
  BY DEF Window
<1>3. Earliest(u, i, m, k)
  OBVIOUS
<1>4. m \in Response!Markers /\ m \in Response!Searched /\ i \in Response!Places(u, m) /\ i <= k
  BY <1>3 DEF Earliest, Response!Markers, Response!Searched
<1>5. /\ i \in 1..Len(u) /\ w + i - 1 \in w..L /\ w + i - 1 + Len(m) - 1 <= L
      /\ Response!At(s, w + i - 1, m)
  BY <1>2, <1>4, WindowShows
<1>6. w + i - 1 = E
  BY <1>1 DEF Spot
<1>7. E \in w..L /\ E + Len(m) - 1 <= L /\ Response!At(s, E, m)
  BY <1>5, <1>6
<1>8. PICK lu : lu = Len(u)
  OBVIOUS
<1>9. k \in 0..lu /\ lu \in Nat
  <2>1. k \in 0..Len(u)
    BY DEF Catches
  <2>2. Len(u) \in Nat
    BY <1>2, WindowFacts
  <2> QED
    BY <1>8, <2>1, <2>2
<1>10. i \in Nat \ {0} /\ w \in Nat \ {0} /\ L \in Nat /\ E \in 1..Len(s) /\ i <= k /\ k \in Nat /\ E = w + i - 1
  <2>1. L \in Nat /\ Len(s) \in Nat /\ L <= Len(s) /\ w \in Nat \ {0}
    BY <1>2 DEF Text
  <2>2. E \in 1..Len(s)
    BY <1>7, <2>1
  <2> QED
    BY <1>4, <1>5, <1>6, <1>9, <2>1, <2>2
<1>11. \A n \in Response!Searched : Response!At(s, E, n) => n = m
  BY <1>2, <1>4, <1>7, <1>10, OneMarker
<1>12. ASSUME NEW j \in w..(E - 1), NEW n \in Response!Searched, Response!At(s, j, n) PROVE FALSE
  <2>1. n \in Response!Markers
    BY DEF Response!Markers, Response!Searched
  <2>2. j \in Nat /\ j \in w..(w + k - 1) /\ ~(i <= j - w + 1)
    BY <1>10, <1>12
  <2>3. j - w + 1 \in Response!Places(u, n) /\ j - w + 1 <= k
    BY <1>12, <2>1, <2>2 DEF Catches
  <2> QED
    BY <1>3, <2>2, <2>3 DEF Earliest
<1> QED
  BY <1>1, <1>5, <1>7, <1>11, <1>12 DEF FirstOfText

\* What was said and what is left when marker m, at i of the buffer, is taken off.
Reached(p, L, i, m, d, r, E, x) ==
  /\ d = p.deltas \o Response!TextDelta(p.think, SubSeq(p.buf, 1, i - 1))
  /\ r = Response!From(p.buf, i + Len(m))
  /\ E = Spot(Place(p, L), i) /\ x = E + Len(m)

Left(s, L, p, m, d, r, E, x) ==
  /\ d \in Seq(Delta) /\ Response!SpelledAll(d) \in Seq(Delta)
  /\ E \in 1..Len(s) /\ Response!At(s, E, m)
  /\ \A n \in Response!Searched : Response!At(s, E, n) => n = m
  /\ Response!SpelledAll(d) \o Scan(s)[<<E, p.think>>] = Response!SpelledAll(p.deltas) \o StillRead(s, L, p)
  /\ x \in 1..(L + 1) /\ x \in 1..(Len(s) + 1) /\ r = SubSeq(s, x, L)
  /\ Len(r) = L + 1 - x /\ Len(r) < Len(p.buf)

LEMMA MarkerReached ==
  ASSUME NEW s \in Text, NEW L \in 0..Len(s), NEW p \in Loop, Shows(s, L, p), ~p.tool, ~p.done,
         NEW k, Catches(s, Place(p, L), p.buf, k), NEW m, NEW i, Earliest(p.buf, i, m, k),
         NEW d, NEW r, NEW E, NEW x, Reached(p, L, i, m, d, r, E, x)
  PROVE  Left(s, L, p, m, d, r, E, x)
<1>1. PICK w : w = Place(p, L)
  OBVIOUS
<1>2. PICK u : u = p.buf
  OBVIOUS
<1>3. w \in 1..(L + 1) /\ u = SubSeq(s, w, L)
  BY <1>1, <1>2, ShowsFacts
<1>4. Earliest(u, i, m, k) /\ Catches(s, w, u, k) /\ Window(s, L, w, u) /\ E = Spot(w, i)
  BY <1>1, <1>2, <1>3 DEF Reached, Window
<1>5. /\ i \in 1..Len(u) /\ E \in w..L /\ Response!At(s, E, m)
      /\ E + Len(m) - 1 <= L
      /\ \A n \in Response!Searched : Response!At(s, E, n) => n = m
      /\ \A j \in w..(E - 1) : \A n \in Response!Searched : ~Response!At(s, j, n)
  BY <1>4, EarliestOfText DEF FirstOfText
<1>6. PICK lu : lu = Len(u)
  OBVIOUS
<1>7. PICK n : n = Len(m)
  OBVIOUS
<1>8. n \in Nat /\ n >= 2
  <2>1. m \in Response!Markers
    BY <1>4 DEF Earliest, Response!Searched, Response!Markers
  <2> QED
    BY <1>7, <2>1, StringsAreText
<1>9. lu = L + 1 - w /\ lu \in Nat
  BY <1>3, <1>6, WindowFacts
<1>10. w \in Nat \ {0} /\ L \in Nat /\ Len(s) \in Nat /\ L <= Len(s)
  BY <1>3 DEF Text
<1>11. PICK v : v = i - 1
  OBVIOUS
<1>12. PICK y : y = i + n
  OBVIOUS
<1>13. i \in 1..lu /\ E \in w..L /\ E + n - 1 <= L /\ E = w + i - 1 /\ x = E + n
  BY <1>4, <1>5, <1>6, <1>7 DEF Reached, Spot
<1>14. /\ v \in 0..lu /\ E = w + v /\ E \in 1..Len(s) /\ x \in 1..(L + 1) /\ x \in 1..(Len(s) + 1)
       /\ y \in 1..(lu + 1) /\ w + y - 1 = x /\ L + 1 - x < lu
  <2>1. i \in Nat /\ i >= 1 /\ i <= lu /\ E \in Int /\ E >= w /\ E + n - 1 <= L /\ E = w + i - 1 /\ x = E + n
    BY <1>9, <1>10, <1>13
  <2> QED
    BY <1>8, <1>9, <1>10, <1>11, <1>12, <2>1
<1>15. /\ d \in Seq(Delta) /\ Response!SpelledAll(d) \in Seq(Delta)
       /\ Response!SpelledAll(d) \o Scan(s)[<<E, p.think>>] = Response!SpelledAll(p.deltas) \o StillRead(s, L, p)
  <2>1. d = p.deltas \o Response!TextDelta(p.think, SubSeq(p.buf, 1, v))
    BY <1>11 DEF Reached
  <2>2. v \in 0..Len(p.buf) /\ E = Place(p, L) + v
    BY <1>1, <1>2, <1>6, <1>14
  <2>3. \A j \in Place(p, L)..(E - 1) : \A c \in Response!Searched : ~Response!At(s, j, c)
    BY <1>1, <1>5
  <2>4. /\ p.deltas \o Response!TextDelta(p.think, SubSeq(p.buf, 1, v)) \in Seq(Delta)
        /\ Response!SpelledAll(p.deltas \o Response!TextDelta(p.think, SubSeq(p.buf, 1, v))) \in Seq(Delta)
        /\ Response!SpelledAll(p.deltas \o Response!TextDelta(p.think, SubSeq(p.buf, 1, v)))
              \o Scan(s)[<<E, p.think>>]
              = Response!SpelledAll(p.deltas) \o StillRead(s, L, p)
    BY <2>2, <2>3, SaysUpTo
  <2> QED
    BY <2>1, <2>4
<1>16. r = SubSeq(s, x, L)
  <2>1. r = Response!From(u, y)
    BY <1>2, <1>7, <1>12 DEF Reached
  <2>2. y \in 1..(Len(u) + 1)
    BY <1>6, <1>14
  <2>3. Response!From(u, y) = SubSeq(s, w + y - 1, L)
    BY <1>3, <2>2, WindowFrom
  <2> QED
    BY <1>14, <2>1, <2>3
<1>17. Len(r) = L + 1 - x
  BY <1>14, <1>16, WindowFacts
<1>18. Len(r) < Len(p.buf)
  BY <1>2, <1>6, <1>14, <1>17
<1> QED
  BY <1>5, <1>14, <1>15, <1>16, <1>17, <1>18 DEF Left

Taken(p, q, i, m) ==
  /\ q.deltas = p.deltas \o Response!TextDelta(p.think, SubSeq(p.buf, 1, i - 1))
  /\ q.buf = Response!From(p.buf, i + Len(m))

\* The end of the thinking block.
LEMMA ThinkingEnds ==
  ASSUME NEW s \in Text, NEW L \in 0..Len(s), NEW p \in Loop, Shows(s, L, p), ~p.tool, ~p.done,
         NEW k, Catches(s, Place(p, L), p.buf, k), NEW i, Earliest(p.buf, i, ThinkEnd, k),
         NEW q \in Loop, Taken(p, q, i, ThinkEnd), ~q.tool, ~q.done, q.think = FALSE
  PROVE  Same(s, L, p, q) /\ Len(q.buf) < Len(p.buf)
<1>1. PICK E : E = Spot(Place(p, L), i)
  OBVIOUS
<1>2. PICK x : x = E + Len(ThinkEnd)
  OBVIOUS
<1>3. Reached(p, L, i, ThinkEnd, q.deltas, q.buf, E, x)
  BY <1>1, <1>2 DEF Reached, Taken
<1>4. /\ E \in 1..Len(s) /\ Response!At(s, E, ThinkEnd)
      /\ \A n \in Response!Searched : Response!At(s, E, n) => n = ThinkEnd
      /\ Response!SpelledAll(q.deltas) \o Scan(s)[<<E, p.think>>] = Response!SpelledAll(p.deltas) \o StillRead(s, L, p)
      /\ x \in 1..(L + 1) /\ q.buf = SubSeq(s, x, L) /\ Len(q.buf) = L + 1 - x /\ Len(q.buf) < Len(p.buf)
  <2>1. Left(s, L, p, ThinkEnd, q.deltas, q.buf, E, x)
    BY <1>3, MarkerReached
  <2> QED
    BY <2>1 DEF Left
<1>5. Shows(s, L, q) /\ StillRead(s, L, q) = Scan(s)[<<x, FALSE>>]
  BY <1>4, ShowsOutside
<1>6. Scan(s)[<<E, p.think>>] = Scan(s)[<<x, FALSE>>]
  <2>1. E \in 1..(Len(s) + 1) /\ E <= Len(s) /\ ~(E > Len(s)) /\ p.think \in BOOLEAN
    BY <1>4, ShowsFacts DEF Text
  <2>2. Scan(s)[<<E, p.think>>] = Reads(Scan(s), s, E, p.think)
    BY <2>1, ScanReads
  <2>3. Boundary # ThinkEnd /\ Boundary \in Response!Searched
    BY SearchedDiffer DEF Response!Searched
  <2>4. ~Response!At(s, E, Boundary)
    BY <1>4, <2>3
  <2> QED
    BY <1>2, <1>4, <2>1, <2>2, <2>4, Zenon DEF Reads
<1> QED
  BY <1>4, <1>5, <1>6 DEF Same

\* The beginning of a call.
LEMMA CallBegins ==
  ASSUME NEW s \in Text, NEW L \in 0..Len(s), NEW p \in Loop, Shows(s, L, p), ~p.tool, ~p.done,
         NEW k, Catches(s, Place(p, L), p.buf, k), NEW i, Earliest(p.buf, i, ToolBegin, k),
         NEW q \in Loop, Taken(p, q, i, ToolBegin), q.tool, ~q.done, q.think = p.think, q.body = <<>>
  PROVE  Same(s, L, p, q) /\ Len(q.buf) < Len(p.buf)
<1>1. PICK E : E = Spot(Place(p, L), i)
  OBVIOUS
<1>2. PICK x : x = E + Len(ToolBegin)
  OBVIOUS
<1>3. Reached(p, L, i, ToolBegin, q.deltas, q.buf, E, x)
  BY <1>1, <1>2 DEF Reached, Taken
<1>4. /\ E \in 1..Len(s) /\ Response!At(s, E, ToolBegin)
      /\ \A n \in Response!Searched : Response!At(s, E, n) => n = ToolBegin
      /\ Response!SpelledAll(q.deltas) \o Scan(s)[<<E, p.think>>] = Response!SpelledAll(p.deltas) \o StillRead(s, L, p)
      /\ x \in 1..(L + 1) /\ q.buf = SubSeq(s, x, L) /\ Len(q.buf) = L + 1 - x /\ Len(q.buf) < Len(p.buf)
  <2>1. Left(s, L, p, ToolBegin, q.deltas, q.buf, E, x)
    BY <1>3, MarkerReached
  <2> QED
    BY <2>1 DEF Left
<1>5. PICK b : b = x
  OBVIOUS
<1>6. b \in 1..x /\ b \in Int /\ x - 1 \in Int /\ x - 1 < b /\ x - b = 0
  BY <1>4, <1>5
<1>7. q.body = SubSeq(s, b, x - 1) /\ Len(q.body) = x - b
  <2>1. SubSeq(s, b, x - 1) = <<>>
    BY <1>6, SubSeqEmpty
  <2> QED
    BY <1>6, <2>1
<1>8. \A j \in CallsEnd(s, b) : j >= x
  BY <1>5 DEF CallsEnd
<1>9. Shows(s, L, q) /\ StillRead(s, L, q) = InCall(s, x, p.think)
  <2>1. Shows(s, L, q) /\ StillRead(s, L, q) = InCall(s, b, q.think)
    BY <1>4, <1>6, <1>7, <1>8, ShowsInside
  <2> QED
    BY <1>5, <2>1
<1>10. Scan(s)[<<E, p.think>>] = InCall(s, x, p.think)
  <2>1. E \in 1..(Len(s) + 1) /\ E <= Len(s) /\ ~(E > Len(s)) /\ p.think \in BOOLEAN
    BY <1>4, ShowsFacts DEF Text
  <2>2. Scan(s)[<<E, p.think>>] = Reads(Scan(s), s, E, p.think)
    BY <2>1, ScanReads
  <2>3. ToolBegin # Boundary /\ ToolBegin # ThinkEnd /\ Boundary \in Response!Searched /\ ThinkEnd \in Response!Searched
    BY SearchedDiffer DEF Response!Searched
  <2>4. ~Response!At(s, E, Boundary) /\ ~Response!At(s, E, ThinkEnd)
    BY <1>4, <2>3
  <2>5. Reads(Scan(s), s, E, p.think) = InCall(s, x, p.think)
    BY <1>2, <1>4, <2>1, <2>4, Zenon DEF Reads, InCall
  <2> QED
    BY <2>2, <2>5
<1> QED
  BY <1>4, <1>9, <1>10 DEF Same

\* The end of the turn.
TurnOver(p, q, i) ==
  /\ q.deltas = (p.deltas \o Response!TextDelta(p.think, SubSeq(p.buf, 1, i - 1))) \o Response!StopDelta
  /\ q.buf = <<>> /\ ~q.tool /\ q.done

LEMMA TurnEnds ==
  ASSUME NEW s \in Text, NEW L \in 0..Len(s), NEW p \in Loop, Shows(s, L, p), ~p.tool, ~p.done,
         NEW k, Catches(s, Place(p, L), p.buf, k), NEW i, Earliest(p.buf, i, Boundary, k),
         NEW q \in Loop, TurnOver(p, q, i)
  PROVE  Same(s, L, p, q)
<1>1. PICK E : E = Spot(Place(p, L), i)
  OBVIOUS
<1>2. PICK x : x = E + Len(Boundary)
  OBVIOUS
<1>3. PICK d : d = p.deltas \o Response!TextDelta(p.think, SubSeq(p.buf, 1, i - 1))
  OBVIOUS
<1>4. PICK r : r = Response!From(p.buf, i + Len(Boundary))
  OBVIOUS
<1>5. Reached(p, L, i, Boundary, d, r, E, x)
  BY <1>1, <1>2, <1>3, <1>4 DEF Reached
<1>6. /\ E \in 1..Len(s) /\ Response!At(s, E, Boundary) /\ d \in Seq(Delta)
      /\ Response!SpelledAll(d) \o Scan(s)[<<E, p.think>>] = Response!SpelledAll(p.deltas) \o StillRead(s, L, p)
  <2>1. Left(s, L, p, Boundary, d, r, E, x)
    BY <1>5, MarkerReached
  <2> QED
    BY <2>1 DEF Left
<1>7. Scan(s)[<<E, p.think>>] = Response!StopDelta
  <2>1. E \in 1..(Len(s) + 1) /\ E <= Len(s) /\ ~(E > Len(s)) /\ p.think \in BOOLEAN
    BY <1>6, ShowsFacts DEF Text
  <2>2. Scan(s)[<<E, p.think>>] = Reads(Scan(s), s, E, p.think)
    BY <2>1, ScanReads
  <2> QED
    BY <1>6, <2>1, <2>2, Zenon DEF Reads
<1>8. Response!SpelledAll(q.deltas) = Response!SpelledAll(d) \o Response!StopDelta
  <2>1. q.deltas = d \o Response!StopDelta
    BY <1>3 DEF TurnOver
  <2>2. <<>> \in Text /\ TRUE \in BOOLEAN
    BY StopTyped
  <2> QED
    BY <1>6, <2>1, <2>2, SpelledSays
<1>9. Shows(s, L, q)
  <2>1. L \in Nat
    BY DEF Text
  <2>2. Len(q.buf) = 0
    BY DEF TurnOver
  <2>3. Place(q, L) = L + 1
    BY <2>1, <2>2 DEF Place
  <2>4. L \in Int /\ L + 1 \in Int /\ L < L + 1
    BY <2>1
  <2>5. q.buf = SubSeq(s, Place(q, L), L)
    BY <2>3, <2>4, SubSeqEmpty DEF TurnOver
  <2> QED
    <3>1. ~q.tool /\ q.buf = <<>> /\ Len(q.buf) <= L
      BY <2>1, <2>2 DEF TurnOver
    <3> QED
      BY <2>5, <3>1 DEF Shows
<1>10. StillRead(s, L, q) = <<>>
  BY DEF StillRead, TurnOver
<1>11. Response!SpelledAll(q.deltas) \in Seq(Delta)
  BY <1>9, ShowsFacts
<1>12. Response!SpelledAll(q.deltas) \o StillRead(s, L, q) = Response!SpelledAll(q.deltas)
  BY <1>10, <1>11, ConcatEmptySeq
<1> QED
  BY <1>6, <1>7, <1>8, <1>9, <1>12 DEF Same

\* What may be in the buffer between two pieces: the beginning of a marker.
Partial(b) == \E m \in Response!Markers : Len(b) < Len(m) /\ b = SubSeq(m, 1, Len(b))

AtRest(b, flush) == IF flush THEN b = <<>> ELSE Partial(b)

LEMMA EmptyIsPartial == Partial(<<>>)
<1>1. ToolEnd \in Response!Markers /\ Len(ToolEnd) \in Nat /\ Len(ToolEnd) >= 2
  <2>1. ToolEnd \in Response!Markers
    BY DEF Response!Markers
  <2> QED
    BY <2>1, StringsAreText
<1>2. Len(<<>>) = 0
  OBVIOUS
<1>3. SubSeq(ToolEnd, 1, 0) = <<>>
  BY SubSeqEmpty
<1> QED
  BY <1>1, <1>2, <1>3 DEF Partial

LEMMA HeldBackIsPartial ==
  ASSUME NEW u \in Text, NEW flush \in BOOLEAN
  PROVE  AtRest(Response!From(u, Limit(u, flush) + 1), flush)
<1>1. PICK lu : lu = Len(u)
  OBVIOUS
<1>2. lu \in Nat
  BY <1>1 DEF Text
<1>3. CASE flush
  <2>1. Limit(u, flush) = lu
    BY <1>1, <1>2, <1>3 DEF Limit
  <2>2. lu + 1 \in Int /\ lu \in Int /\ lu < lu + 1
    BY <1>2
  <2>3. SubSeq(u, lu + 1, lu) = <<>>
    BY <2>2, SubSeqEmpty
  <2> QED
    BY <1>1, <1>3, <2>1, <2>3 DEF AtRest, Response!From
<1>4. CASE ~flush
  <2>1. PICK n : n = Response!Holdback(u)
    OBVIOUS
  <2>2. n \in 0..lu /\ Fits(u, n)
    BY <1>1, <2>1, HoldbackIsLongest
  <2>3. PICK a : a = lu - n + 1
    OBVIOUS
  <2>4. Limit(u, flush) + 1 = a /\ a \in Nat \ {0} /\ a + n - 1 = lu
    BY <1>1, <1>2, <1>4, <2>1, <2>2, <2>3 DEF Limit
  <2>5. Response!From(u, Limit(u, flush) + 1) = SubSeq(u, a, lu)
    BY <1>1, <2>4 DEF Response!From
  <2>6. CASE n = 0
    <3>1. a \in Int /\ lu \in Int /\ lu < a
      BY <1>2, <2>3, <2>6
    <3>2. SubSeq(u, a, lu) = <<>>
      BY <3>1, SubSeqEmpty
    <3> QED
      BY <1>4, <2>5, <3>2, EmptyIsPartial DEF AtRest
  <2>7. CASE n # 0
    <3>1. PICK m \in Response!Markers : n < Len(m) /\ Response!At(u, a, SubSeq(m, 1, n))
      BY <1>1, <2>2, <2>3, <2>7 DEF Fits
    <3>2. m \in Text /\ Len(m) \in Nat
      BY StringsAreText
    <3>3. 1 \in Nat \ {0} /\ n \in Int /\ n <= Len(m) /\ 1 <= n /\ n - 1 + 1 = n
      BY <1>2, <2>2, <2>7, <3>1, <3>2
    <3>4. Len(SubSeq(m, 1, n)) = n
      <4>1. Len(SubSeq(m, 1, n)) = IF 1 <= n THEN n - 1 + 1 ELSE 0
        BY <3>2, <3>3, Cuts
      <4> QED
        BY <3>3, <4>1
    <3>5. SubSeq(u, a, a + n - 1) = SubSeq(m, 1, n)
      BY <3>1, <3>4 DEF Response!At
    <3>6. SubSeq(u, a, lu) = SubSeq(m, 1, n)
      BY <2>4, <3>5
    <3>7. PICK b : b = Response!From(u, Limit(u, flush) + 1)
      OBVIOUS
    <3>8. b = SubSeq(m, 1, n) /\ Len(b) = n
      BY <2>5, <3>4, <3>6, <3>7
    <3>9. Partial(b)
      BY <3>1, <3>8 DEF Partial
    <3> QED
      BY <1>4, <3>7, <3>9 DEF AtRest
  <2> QED
    BY <2>6, <2>7
<1> QED
  BY <1>3, <1>4

\* An iteration takes a marker off, or all it may.
Iterates(s, L, p, q, flush) ==
  /\ Same(s, L, p, q)
  /\ q.more => Len(q.buf) < Len(p.buf)
  /\ ~q.more => AtRest(q.buf, flush)

LEMMA ToolIteration ==
  ASSUME NEW s \in Text, NEW L \in 0..Len(s), NEW p \in Loop, Shows(s, L, p), p.tool, p.more,
         NEW flush \in BOOLEAN, flush => L = Len(s), NEW k, k = Limit(p.buf, flush),
         NEW q, q = Response!DrainTool(p, k)
  PROVE  Iterates(s, L, p, q, flush)
<1>1. /\ p.buf \in Text /\ p.body \in Text /\ Len(p.buf) \in Nat /\ p.deltas \in Seq(Delta) /\ ~p.done
      /\ Place(p, L) \in 1..(L + 1) /\ p.buf = SubSeq(s, Place(p, L), L)
  <2>1. ~p.done
    BY DEF Shows
  <2> QED
    BY <2>1, ShowsFacts
<1>2. k \in 0..Len(p.buf)
  BY <1>1, WindowCatches
<1>3. q \in Loop
  BY <1>2, DrainToolTyped
<1>4. CASE Response!Places(p.buf, ToolEnd) = {}
  <2>1. PICK b : b = p.body \o SubSeq(p.buf, 1, k)
    OBVIOUS
  <2>2. PICK r : r = Response!From(p.buf, k + 1)
    OBVIOUS
  <2>3. q = [[p EXCEPT !.body = b, !.buf = r] EXCEPT !.more = FALSE]
    BY <1>4, <2>1, <2>2 DEF Response!DrainTool, Response!Break
  <2>4. /\ q.body = b /\ q.buf = r /\ q.more = FALSE /\ q.tool = p.tool /\ q.done = p.done
        /\ q.think = p.think /\ q.deltas = p.deltas
    BY <2>3 DEF Loop
  <2>5. GoesOn(p, q, k)
    BY <1>1, <1>4, <2>1, <2>2, <2>4 DEF GoesOn
  <2>6. Same(s, L, p, q)
    BY <1>3, <2>5, CallGoesOn
  <2>7. AtRest(q.buf, flush)
    BY <1>1, <2>2, <2>4, HeldBackIsPartial
  <2> QED
    BY <2>4, <2>6, <2>7 DEF Iterates
<1>5. CASE Response!Places(p.buf, ToolEnd) # {}
  <2>1. PICK e : e = Response!First(Response!Places(p.buf, ToolEnd))
    OBVIOUS
  <2>2. PICK d : d = p.deltas \o Response!CallDelta(p.body \o SubSeq(p.buf, 1, e - 1))
    OBVIOUS
  <2>3. PICK r : r = Response!From(p.buf, e + Len(ToolEnd))
    OBVIOUS
  <2>4. q = [p EXCEPT !.deltas = d, !.body = <<>>, !.tool = FALSE, !.buf = r]
    BY <1>5, <2>1, <2>2, <2>3 DEF Response!DrainTool
  <2>5. q.deltas = d /\ q.buf = r /\ q.tool = FALSE /\ q.done = p.done /\ q.think = p.think /\ q.more = p.more
    BY <2>4 DEF Loop
  <2>6. Ends(p, q, e)
    BY <1>1, <1>5, <2>1, <2>2, <2>3, <2>5 DEF Ends
  <2>7. Same(s, L, p, q) /\ Len(q.buf) < Len(p.buf)
    BY <1>3, <2>6, CallEnds
  <2> QED
    BY <2>5, <2>7 DEF Iterates
<1> QED
  BY <1>4, <1>5

LEMMA TextIteration ==
  ASSUME NEW s \in Text, NEW L \in 0..Len(s), NEW p \in Loop, Shows(s, L, p), ~p.tool, ~p.done, p.more,
         NEW flush \in BOOLEAN, flush => L = Len(s), NEW k, k = Limit(p.buf, flush),
         NEW q, q = Response!DrainText(p, k)
  PROVE  Iterates(s, L, p, q, flush)
<1> DEFINE starts(m) == {j \in Response!Places(p.buf, m) : j <= k}
           all == UNION {starts(m) : m \in Response!Searched}
           i   == Response!First(all)
           mk  == CHOOSE m \in Response!Searched : i \in starts(m)
<1>1. /\ p.buf \in Text /\ Len(p.buf) \in Nat /\ p.deltas \in Seq(Delta)
      /\ Place(p, L) \in 1..(L + 1) /\ p.buf = SubSeq(s, Place(p, L), L)
  BY ShowsFacts
<1>2. k \in 0..Len(p.buf)
  BY <1>1, WindowCatches
<1>3. q \in Loop
  BY <1>2, DrainTextTyped
<1>4. Catches(s, Place(p, L), p.buf, k)
  <2>1. \A m \in Response!Markers : \A j \in Place(p, L)..(Place(p, L) + k - 1) :
          Response!At(s, j, m) => j - Place(p, L) + 1 \in Response!Places(p.buf, m) /\ j - Place(p, L) + 1 <= k
    BY <1>1, WindowCatches
  <2> QED
    BY <1>2, <2>1 DEF Catches
<1>5. CASE all = {}
  <2>1. PICK d : d = p.deltas \o Response!TextDelta(p.think, SubSeq(p.buf, 1, k))
    OBVIOUS
  <2>2. PICK r : r = Response!From(p.buf, k + 1)
    OBVIOUS
  <2>3. q = [[[p EXCEPT !.deltas = d] EXCEPT !.buf = r] EXCEPT !.more = FALSE]
    BY <1>5, <2>1, <2>2 DEF Response!DrainText, Response!Break, Loop
  <2>4. q.deltas = d /\ q.buf = r /\ q.more = FALSE /\ q.tool = p.tool /\ q.done = p.done /\ q.think = p.think
    BY <2>3 DEF Loop
  <2>5. \A m \in Response!Searched : \A j \in Response!Places(p.buf, m) : ~(j <= k)
    BY <1>5
  <2>6. Silent(p, q, k)
    BY <2>1, <2>2, <2>4, <2>5 DEF Silent
  <2>7. Same(s, L, p, q)
    BY <1>3, <2>6, TextGoesOn
  <2>8. AtRest(q.buf, flush)
    BY <1>1, <2>2, <2>4, HeldBackIsPartial
  <2> QED
    BY <2>4, <2>7, <2>8 DEF Iterates
<1>6. CASE all # {}
  <2>1. \A m : starts(m) \subseteq 1..Len(p.buf)
    BY <1>1, PlacesInText
  <2>2. i \in all /\ \A j \in all : i <= j
    <3>1. all \in SUBSET Nat
      BY <1>1, <2>1
    <3> HIDE DEF all
    <3> QED
      BY <1>6, <3>1, FirstIsLeast
  <2>3. PICK f : f = i
    OBVIOUS
  <2>4. PICK m : m = mk
    OBVIOUS
  <2>5. m \in Response!Searched /\ f \in starts(m)
    BY <2>2, <2>3, <2>4
  <2>6. Earliest(p.buf, f, m, k)
    BY <2>2, <2>3, <2>5 DEF Earliest
  <2>7. PICK d : d = p.deltas \o Response!TextDelta(p.think, SubSeq(p.buf, 1, f - 1))
    OBVIOUS
  <2>8. PICK r : r = Response!From(p.buf, f + Len(m))
    OBVIOUS
  <2>9. PICK t : t = [[p EXCEPT !.deltas = d] EXCEPT !.buf = r]
    OBVIOUS
  <2>10. q = Response!AfterMarker(t, m)
    BY <1>6, <2>3, <2>4, <2>7, <2>8, <2>9 DEF Response!DrainText, Loop
  <2>11. /\ t.deltas = d /\ t.buf = r /\ t.more = p.more /\ t.tool = p.tool /\ t.done = p.done /\ t.think = p.think
         /\ t = [buf |-> t.buf, think |-> t.think, tool |-> t.tool, body |-> t.body, done |-> t.done,
                 deltas |-> t.deltas, more |-> t.more]
    BY <2>9 DEF Loop
  <2> HIDE DEF all, i, mk, starts
  <2>12. CASE m = ThinkEnd
    <3>1. q.deltas = d /\ q.buf = r /\ q.more = p.more /\ q.tool = p.tool /\ q.done = p.done /\ q.think = FALSE
      BY <2>10, <2>11, <2>12 DEF Response!AfterMarker
    <3>2. Taken(p, q, f, ThinkEnd)
      BY <2>7, <2>8, <2>12, <3>1 DEF Taken
    <3>3. Same(s, L, p, q) /\ Len(q.buf) < Len(p.buf)
      BY <1>3, <1>4, <2>6, <2>12, <3>1, <3>2, ThinkingEnds
    <3> QED
      BY <3>1, <3>3 DEF Iterates
  <2>13. CASE m = ToolBegin /\ m # ThinkEnd
    <3>1. /\ q.deltas = d /\ q.buf = r /\ q.more = p.more /\ q.tool = TRUE /\ q.done = p.done
          /\ q.think = p.think /\ q.body = <<>>
      BY <2>10, <2>11, <2>13 DEF Response!AfterMarker
    <3>2. Taken(p, q, f, ToolBegin)
      BY <2>7, <2>8, <2>13, <3>1 DEF Taken
    <3>3. Same(s, L, p, q) /\ Len(q.buf) < Len(p.buf)
      BY <1>3, <1>4, <2>6, <2>13, <3>1, <3>2, CallBegins
    <3> QED
      BY <3>1, <3>3 DEF Iterates
  <2>14. CASE m # ToolBegin /\ m # ThinkEnd
    <3>1. m = Boundary
      BY <2>5, <2>14 DEF Response!Searched
    <3>2. PICK e : e = d \o Response!StopDelta
      OBVIOUS
    <3>3. q = [[t EXCEPT !.deltas = e, !.done = TRUE, !.buf = <<>>] EXCEPT !.more = FALSE]
      BY <2>10, <2>11, <2>14, <3>2 DEF Response!AfterMarker, Response!Break
    <3>4. q.deltas = e /\ q.done = TRUE /\ q.buf = <<>> /\ q.more = FALSE /\ q.tool = p.tool
      BY <2>11, <3>3
    <3>5. TurnOver(p, q, f)
      BY <2>7, <3>2, <3>4 DEF TurnOver
    <3>6. Same(s, L, p, q)
      BY <1>3, <1>4, <2>6, <3>1, <3>5, TurnEnds
    <3> QED
      BY <3>4, <3>6, EmptyIsPartial DEF Iterates, AtRest
  <2> QED
    BY <2>12, <2>13, <2>14
<1> QED
  BY <1>5, <1>6

LEMMA IterationGoes ==
  ASSUME NEW s \in Text, NEW L \in 0..Len(s), NEW p \in Loop, Shows(s, L, p),
         NEW flush \in BOOLEAN, flush => L = Len(s)
  PROVE  \/ (~p.more \/ p.buf = <<>>) /\ Response!Iteration(p, flush) = p
         \/ p.more /\ p.buf # <<>> /\ Iterates(s, L, p, Response!Iteration(p, flush), flush)
<1>1. CASE ~p.more \/ p.buf = <<>>
  BY <1>1 DEF Response!Iteration
<1>2. CASE p.more /\ p.buf # <<>>
  <2>1. ~p.done
    BY <1>2 DEF Shows
  <2>2. PICK k : k = Limit(p.buf, flush)
    OBVIOUS
  <2>3. CASE p.tool
    <3>1. Response!Iteration(p, flush) = Response!DrainTool(p, k)
      BY <1>2, <2>2, <2>3 DEF Response!Iteration, Limit
    <3>2. PICK q : q = Response!DrainTool(p, k)
      OBVIOUS
    <3>3. Iterates(s, L, p, q, flush)
      BY <1>2, <2>2, <2>3, <3>2, ToolIteration
    <3> QED
      BY <1>2, <3>1, <3>2, <3>3
  <2>4. CASE ~p.tool
    <3>1. Response!Iteration(p, flush) = Response!DrainText(p, k)
      BY <1>2, <2>2, <2>4 DEF Response!Iteration, Limit
    <3>2. PICK q : q = Response!DrainText(p, k)
      OBVIOUS
    <3>3. Iterates(s, L, p, q, flush)
      BY <1>2, <2>1, <2>2, <2>4, <3>2, TextIteration
    <3> QED
      BY <1>2, <3>1, <3>2, <3>3
  <2> QED
    BY <2>3, <2>4
<1> QED
  BY <1>1, <1>2

\* drain() goes on until nothing more can be taken, and loses nothing of the text.
LEMMA DrainGoes ==
  ASSUME ParserTypes, NEW s \in Text, NEW L \in 0..Len(s), NEW u \in Text, Shows(s, L, Begins(u)),
         NEW flush \in BOOLEAN, flush => L = Len(s), NEW q, q = Response!Drain(u, flush)
  PROVE  q \in Loop /\ Same(s, L, Begins(u), q) /\ AtRest(q.buf, flush)
<1>1. PICK n : n = Len(u) + 1
  OBVIOUS
<1>2. n \in Nat /\ n >= 1 /\ Len(u) = n - 1
  BY <1>1 DEF Text
<1>3. PICK f \in [0..n -> Loop] :
        /\ f[0] = Begins(u) /\ f[n] = q
        /\ \A k \in 1..n : f[k] = Response!Iteration(f[k - 1], flush)
  BY <1>1, DrainIterates
<1>4. PICK p : p = Begins(u)
  OBVIOUS
<1>5. p \in Loop /\ Shows(s, L, p) /\ p.buf = u /\ p.more /\ p = f[0]
  <2>1. 0 \in 0..n
    BY <1>2
  <2>2. p \in Loop /\ p = f[0]
    BY <1>3, <1>4, <2>1
  <2>3. Shows(s, L, p)
    BY <1>4
  <2>4. p.buf = u /\ p.more
    BY <1>4 DEF Begins
  <2> QED
    BY <2>2, <2>3, <2>4
<1> DEFINE Good(r) == Same(s, L, p, r) /\ (~r.more => AtRest(r.buf, flush))
           T == {k \in Nat : k <= n => Good(f[k]) /\ (f[k].more /\ f[k].buf # <<>> => Len(f[k].buf) + k < n)}
<1>6. 0 \in T
  <2>1. Same(s, L, p, p)
    BY <1>5 DEF Same
  <2> QED
    BY <1>2, <1>5, <2>1
<1> HIDE DEF Good
<1>7. ASSUME NEW k \in T PROVE k + 1 \in T
  <2>1. k \in Nat /\ k + 1 \in Nat
    OBVIOUS
  <2> SUFFICES ASSUME k + 1 <= n
               PROVE  Good(f[k + 1]) /\ (f[k + 1].more /\ f[k + 1].buf # <<>> => Len(f[k + 1].buf) + (k + 1) < n)
    BY <2>1
  <2>2. PICK j : j = k + 1
    OBVIOUS
  <2>3. k \in Nat /\ k \in 0..n /\ j \in 1..n /\ j - 1 = k /\ k <= n /\ j \in 0..n
    BY <1>2, <2>2
  <2>4. PICK a \in Loop : a = f[k]
    BY <1>3, <2>3
  <2>5. PICK b \in Loop : b = f[j]
    BY <1>3, <2>3
  <2>6. b = Response!Iteration(a, flush)
    BY <1>3, <2>3, <2>4, <2>5
  <2>7. Good(a) /\ (a.more /\ a.buf # <<>> => Len(a.buf) + k < n)
    BY <1>7, <2>3, <2>4
  <2>8. Same(s, L, p, a)
    BY <2>7 DEF Good
  <2>9. Shows(s, L, a)
    BY <2>8 DEF Same
  <2>10. CASE b = a /\ (~a.more \/ a.buf = <<>>)
    BY <2>2, <2>5, <2>7, <2>10
  <2>11. CASE a.more /\ a.buf # <<>> /\ Iterates(s, L, a, b, flush)
    <3>1. Same(s, L, a, b)
      BY <2>11 DEF Iterates
    <3>2. Same(s, L, p, b)
      BY <2>8, <3>1 DEF Same
    <3>3. Good(b)
      BY <2>11, <3>2 DEF Iterates, Good
    <3>4. Len(a.buf) \in Nat /\ Len(b.buf) \in Nat
      BY DEF Loop, Text
    <3>5. Len(a.buf) + k < n
      BY <2>7, <2>11
    <3>6. b.more => Len(b.buf) < Len(a.buf)
      BY <2>11 DEF Iterates
    <3>7. b.more => Len(b.buf) + j < n
      <4>1. PICK la : la = Len(a.buf)
        OBVIOUS
      <4>2. PICK lb : lb = Len(b.buf)
        OBVIOUS
      <4>3. la \in Nat /\ lb \in Nat /\ la + k < n /\ k \in Nat /\ n \in Nat /\ j = k + 1
        BY <1>2, <2>2, <2>3, <3>4, <3>5, <4>1, <4>2
      <4>4. lb < la => lb + j < n
        BY <4>3
      <4> QED
        BY <3>6, <4>1, <4>2, <4>4
    <3> QED
      BY <2>2, <2>5, <3>3, <3>7
  <2> QED
    BY <2>6, <2>9, <2>10, <2>11, IterationGoes
<1>8. T \in SUBSET Nat
  OBVIOUS
<1>9. n \in T
  <2> HIDE DEF T
  <2>1. T = Nat
    BY <1>6, <1>7, <1>8, Reaches
  <2> QED
    BY <1>2, <2>1
<1>10. Good(q) /\ (q.more /\ q.buf # <<>> => Len(q.buf) + n < n)
  BY <1>2, <1>3, <1>9
<1>11. q \in Loop
  <2>1. n \in 0..n
    BY <1>2
  <2> QED
    BY <1>3, <2>1
<1>12. q.more => q.buf = <<>>
  <2>1. Len(q.buf) \in Nat
    BY <1>11 DEF Loop, Text
  <2>2. ~(Len(q.buf) + n < n)
    BY <1>2, <2>1
  <2> QED
    BY <1>10, <2>2
<1>13. AtRest(q.buf, flush)
  BY <1>10, <1>12, EmptyIsPartial DEF Good, AtRest
<1> QED
  BY <1>4, <1>10, <1>11, <1>13 DEF Good

-----------------------------------------------------------------------------
(* What was emitted and what is left of the text, between two pieces.      *)

\* Of a state of the loop, Shows and StillRead see all but the deltas.
Alike(p, q) ==
  p.buf = q.buf /\ p.think = q.think /\ p.tool = q.tool /\ p.body = q.body /\ p.done = q.done

LEMMA AlikeShows ==
  ASSUME NEW s, NEW L, NEW p, NEW q, Alike(p, q)
  PROVE  (Shows(s, L, p) <=> Shows(s, L, q)) /\ StillRead(s, L, p) = StillRead(s, L, q)
<1>1. Place(p, L) = Place(q, L) /\ CallAt(p, L) = CallAt(q, L)
  BY DEF Alike, Place, CallAt
<1>2. Shows(s, L, p) <=> Shows(s, L, q)
  BY <1>1 DEF Alike, Shows
<1>3. StillRead(s, L, p) = StillRead(s, L, q)
  BY <1>1 DEF Alike, StillRead
<1> QED
  BY <1>2, <1>3

IsJoin(a, b, t) ==
  /\ t \in Text /\ Len(t) = Len(a) + Len(b) /\ Len(a) \in Nat /\ Len(b) \in Nat
  /\ \A i \in 1..(Len(a) + Len(b)) : t[i] = IF i <= Len(a) THEN a[i] ELSE b[i - Len(a)]

LEMMA TextsJoin ==
  ASSUME NEW a \in Text, NEW b \in Text, NEW t, t = a \o b
  PROVE  IsJoin(a, b, t)
<1>1. a \in Seq(Letters) /\ b \in Seq(Letters)
  BY DEF Text
<1>2. /\ t \in Seq(Letters) /\ Len(t) = Len(a) + Len(b)
      /\ \A i \in 1..(Len(a) + Len(b)) : t[i] = IF i <= Len(a) THEN a[i] ELSE b[i - Len(a)]
  BY <1>1, ConcatProperties
<1>3. Len(a) \in Nat /\ Len(b) \in Nat
  BY <1>1
<1> QED
  BY <1>2, <1>3 DEF Text, IsJoin

LEMMA TextsAssociate ==
  ASSUME NEW a \in Text, NEW b \in Text, NEW c \in Text
  PROVE  a \o (b \o c) = (a \o b) \o c
  BY ConcatAssociative DEF Text

\* A piece is the text from where the ones before it end.
LEMMA PieceOfText ==
  ASSUME NEW a \in Text, NEW b \in Text, NEW c \in Text
  PROVE  SubSeq((a \o b) \o c, Len(a) + 1, Len(a) + Len(b)) = b
<1>1. PICK s : s = (a \o b) \o c
  OBVIOUS
<1>2. PICK la : la = Len(a)
  OBVIOUS
<1>3. PICK lb : lb = Len(b)
  OBVIOUS
<1>4. /\ s \in Text /\ la \in Nat /\ lb \in Nat /\ Len(c) \in Nat /\ Len(s) = la + lb + Len(c)
      /\ \A i \in 1..(la + lb) : s[i] = IF i <= la THEN a[i] ELSE b[i - la]
  <2>1. PICK d : d = a \o b
    OBVIOUS
  <2>2. IsJoin(a, b, d)
    BY <2>1, TextsJoin
  <2>3. d \in Text
    BY <2>2 DEF IsJoin
  <2>4. IsJoin(d, c, s)
    BY <1>1, <2>1, <2>3, TextsJoin
  <2>5. Len(d) = la + lb /\ \A i \in 1..(la + lb) : d[i] = IF i <= la THEN a[i] ELSE b[i - la]
    BY <1>2, <1>3, <2>2 DEF IsJoin
  <2>6. la \in Nat /\ lb \in Nat /\ s \in Text /\ Len(c) \in Nat /\ Len(s) = la + lb + Len(c)
    BY <1>2, <1>3, <2>2, <2>4, <2>5 DEF IsJoin
  <2>7. ASSUME NEW i \in 1..(la + lb) PROVE s[i] = IF i <= la THEN a[i] ELSE b[i - la]
    <3>1. i \in 1..(Len(d) + Len(c)) /\ i <= Len(d)
      BY <2>5, <2>6
    <3>2. s[i] = d[i]
      BY <2>4, <3>1 DEF IsJoin
    <3> QED
      BY <2>5, <3>2
  <2> QED
    BY <2>6, <2>7
<1>5. PICK v : v = SubSeq(s, la + 1, la + lb)
  OBVIOUS
<1>6. /\ v \in Text /\ Len(v) = lb
      /\ \A k \in 1..lb : v[k] = s[la + k]
  <2>1. la + 1 \in Nat \ {0} /\ la + lb \in Int /\ la + lb <= Len(s)
    BY <1>4
  <2>2. /\ v \in Text /\ Len(v) = IF la + 1 <= la + lb THEN la + lb - (la + 1) + 1 ELSE 0
        /\ \A k \in 1..(la + lb - (la + 1) + 1) : v[k] = s[la + 1 + k - 1]
    BY <1>4, <1>5, <2>1, Cuts
  <2>3. la + lb - (la + 1) + 1 = lb /\ (~(la + 1 <= la + lb) => lb = 0)
    BY <1>4
  <2>4. \A k \in 1..lb : la + 1 + k - 1 = la + k
    BY <1>4
  <2> QED
    BY <2>2, <2>3, <2>4
<1>7. \A k \in 1..lb : v[k] = b[k]
  <2> SUFFICES ASSUME NEW k \in 1..lb PROVE v[k] = b[k]
    OBVIOUS
  <2>1. la + k \in 1..(la + lb) /\ ~(la + k <= la) /\ la + k - la = k
    BY <1>4
  <2>2. s[la + k] = b[la + k - la]
    BY <1>4, <2>1
  <2> QED
    BY <1>6, <2>1, <2>2
<1>8. v = b
  <2>1. v \in Seq(Letters) /\ b \in Seq(Letters) /\ Len(v) = Len(b)
    BY <1>3, <1>6 DEF Text
  <2>2. \A k \in 1..Len(v) : v[k] = b[k]
    BY <1>6, <1>7
  <2> QED
    BY <2>1, <2>2, SeqEqual
<1> QED
  BY <1>1, <1>2, <1>3, <1>5, <1>8

\* What was emitted, o, and what is left of s in state p make up what s is read to.
Accounts(s, L, p, o) == Shows(s, L, p) /\ Scan(s)[<<1, opened>>] = o \o StillRead(s, L, p)

\* A piece arrives in the buffer.
Arrives(p, q, piece) ==
  q.buf = p.buf \o piece /\ q.think = p.think /\ q.tool = p.tool /\ q.body = p.body /\ q.done = p.done

GoesOnWith(s, a, piece, rest) == s = (a \o piece) \o rest

LEMMA PieceArrives ==
  ASSUME NEW a \in Text, NEW piece \in Text, NEW rest \in Text, NEW s, GoesOnWith(s, a, piece, rest),
         NEW p \in Loop, ~p.done, Shows(s, Len(a), p),
         NEW q, Arrives(p, q, piece)
  PROVE  Shows(s, Len(a) + Len(piece), q) /\ StillRead(s, Len(a) + Len(piece), q) = StillRead(s, Len(a), p)
<1>1. PICK L : L = Len(a)
  OBVIOUS
<1>2. PICK l : l = Len(piece)
  OBVIOUS
<1>3. PICK M : M = L + l
  OBVIOUS
<1>4. PICK b : b = Len(p.buf)
  OBVIOUS
<1>5. s \in Text /\ L \in Nat /\ l \in Nat /\ M \in 0..Len(s) /\ L \in 0..Len(s) /\ Len(s) \in Nat
  <2>1. PICK c : c = a \o piece
    OBVIOUS
  <2>2. IsJoin(a, piece, c)
    BY <2>1, TextsJoin
  <2>3. c \in Text
    BY <2>2 DEF IsJoin
  <2>4. IsJoin(c, rest, s)
    BY <2>1, <2>3, TextsJoin DEF GoesOnWith
  <2>5. s \in Text /\ Len(s) = Len(c) + Len(rest) /\ Len(rest) \in Nat /\ Len(c) = L + l /\ L \in Nat /\ l \in Nat
    BY <1>1, <1>2, <2>2, <2>4 DEF IsJoin
  <2> QED
    BY <1>3, <2>5
<1>6. p.buf \in Text /\ b \in Nat /\ b <= L /\ p.buf = SubSeq(s, Place(p, L), L)
  <2>1. p.buf \in Text
    BY DEF Loop
  <2>2. b \in Nat
    BY <1>4, <2>1 DEF Text
  <2>3. b <= L /\ p.buf = SubSeq(s, Place(p, L), L)
    BY <1>1, <1>4 DEF Shows
  <2> QED
    BY <2>1, <2>2, <2>3
<1>7. PICK w : w = Place(p, L)
  OBVIOUS
<1>8. w = L + 1 - b
  BY <1>4, <1>7 DEF Place
<1>9. w \in Nat \ {0} /\ L + 1 \in Nat \ {0} /\ w <= L + 1 /\ L + 1 - 1 = L /\ L <= M /\ M \in Nat /\ M <= Len(s)
  BY <1>3, <1>5, <1>6, <1>8
<1>10. q.buf = SubSeq(s, w, M)
  <2>1. piece = SubSeq(s, L + 1, M)
    BY <1>1, <1>2, <1>3, PieceOfText DEF GoesOnWith
  <2>2. PICK v : v = L + 1
    OBVIOUS
  <2>3. v \in Nat \ {0} /\ w <= v /\ v - 1 = L /\ v - 1 <= M
    <3>1. v \in Nat /\ w \in Nat /\ w <= v /\ L \in Nat
      BY <1>5, <1>9, <2>2
    <3>2. v - 1 = L
      BY <1>5, <2>2
    <3> QED
      BY <1>9, <2>2, <3>1, <3>2
  <2>4. SubSeq(s, w, v - 1) \o SubSeq(s, v, M) = SubSeq(s, w, M)
    BY <1>5, <1>9, <2>3, Adjacent
  <2> QED
    BY <1>6, <1>7, <2>1, <2>2, <2>3, <2>4 DEF Arrives
<1>11. Len(q.buf) = M + 1 - w
  <2>1. w \in 1..(M + 1)
    <3>1. w \in Nat /\ w >= 1 /\ L \in Nat /\ w <= L + 1
      BY <1>5, <1>9
    <3> HIDE <1>3
    <3> QED
      BY <1>9, <3>1
  <2> QED
    BY <1>5, <1>10, <2>1, WindowFacts
<1>12. PICK d : d = Len(q.buf)
  OBVIOUS
<1>13. Place(q, M) = w /\ d <= M
  <2>1. Place(q, M) = M + 1 - d
    BY <1>12 DEF Place
  <2>2. d = M + 1 - w
    BY <1>11, <1>12
  <2> QED
    BY <1>9, <2>1, <2>2
<1>14. CallAt(q, M) = CallAt(p, L)
  BY <1>7, <1>13 DEF CallAt, Arrives
<1>15. Shows(s, M, q)
  <2>1. q.tool => /\ CallAt(p, L) >= 1 /\ q.body = SubSeq(s, CallAt(p, L), w - 1)
                  /\ \A j \in CallsEnd(s, CallAt(p, L)) : j >= w
    BY <1>1, <1>7 DEF Shows, Arrives
  <2>2. ~q.done
    BY DEF Arrives
  <2> QED
    BY <1>10, <1>12, <1>13, <1>14, <2>1, <2>2 DEF Shows
<1>16. StillRead(s, M, q) = StillRead(s, L, p)
  BY <1>7, <1>13, <1>14 DEF StillRead, Arrives
<1> QED
  BY <1>1, <1>2, <1>3, <1>15, <1>16

\* Of a finished turn, the rest of the text shows nothing.
LEMMA DoneAccounts ==
  ASSUME NEW s, NEW L, NEW p, NEW M \in Nat, p.done, Shows(s, L, p)
  PROVE  Shows(s, M, p) /\ StillRead(s, M, p) = <<>> /\ StillRead(s, L, p) = <<>>
<1>1. ~p.tool /\ p.buf = <<>> /\ Len(p.buf) = 0
  BY DEF Shows
<1>2. PICK w : w = Place(p, M)
  OBVIOUS
<1>3. w \in Int /\ M \in Int /\ M < w
  BY <1>1, <1>2 DEF Place
<1>4. SubSeq(s, w, M) = <<>>
  BY <1>3, SubSeqEmpty
<1>5. Shows(s, M, p)
  BY <1>1, <1>2, <1>4 DEF Shows
<1> QED
  BY <1>5 DEF StillRead

\* When no text is left, what is still read is the call that nothing terminates.
LEMMA LeftAtEnd ==
  ASSUME NEW s \in Text, NEW q \in Loop, Shows(s, Len(s), q), q.buf = <<>>
  PROVE  Response!Unterminated(q) = StillRead(s, Len(s), q)
<1>1. PICK n : n = Len(s)
  OBVIOUS
<1>2. n \in Nat
  BY <1>1 DEF Text
<1>3. Place(q, n) = n + 1
  <2>1. Len(q.buf) = 0
    OBVIOUS
  <2> QED
    BY <1>2, <2>1 DEF Place
<1>4. CASE q.done
  BY <1>4 DEF Shows, StillRead, Response!Unterminated
<1>5. CASE ~q.done /\ ~q.tool
  <2>1. Scan(s)[<<n + 1, q.think>>] = Reads(Scan(s), s, n + 1, q.think)
    <3>1. n + 1 \in 1..(Len(s) + 1) /\ q.think \in BOOLEAN
      BY <1>1, <1>2 DEF Loop
    <3> QED
      BY <3>1, ScanReads
  <2>2. n + 1 > Len(s)
    BY <1>1, <1>2
  <2>3. Scan(s)[<<n + 1, q.think>>] = <<>>
    BY <2>1, <2>2 DEF Reads
  <2> QED
    BY <1>1, <1>3, <1>5, <2>3 DEF StillRead, Response!Unterminated
<1>6. CASE ~q.done /\ q.tool
  <2>1. PICK b : b = CallAt(q, n)
    OBVIOUS
  <2>2. PICK k : k = Len(q.body)
    OBVIOUS
  <2>3. q.body \in Text /\ k \in Nat
    BY <2>2 DEF Loop, Text
  <2>4. b = n + 1 - k
    <3>1. b = Place(q, n) - k
      BY <2>1, <2>2 DEF CallAt
    <3>2. PICK w : w = Place(q, n)
      OBVIOUS
    <3>3. b = w - k /\ w = n + 1
      BY <1>3, <3>1, <3>2
    <3> QED
      BY <1>2, <2>3, <3>3
  <2>5. b >= 1 /\ q.body = SubSeq(s, b, n) /\ \A j \in CallsEnd(s, b) : j >= n + 1
    <3>1. n + 1 - 1 = n
      BY <1>2
    <3> QED
      BY <1>1, <1>3, <1>6, <2>1, <3>1 DEF Shows
  <2>6. CallsEnd(s, b) = {}
    <3>1. \A j \in CallsEnd(s, b) : j \in 1..Len(s)
      BY PlacesInText DEF CallsEnd
    <3>2. \A j \in 1..n : ~(j >= n + 1)
      BY <1>2
    <3> QED
      BY <1>1, <2>5, <3>1, <3>2
  <2>7. q.body # <<>> <=> b <= n
    <3>1. q.body = <<>> <=> k = 0
      BY <2>2, <2>3, EmptySeq DEF Text
    <3> QED
      BY <1>2, <2>4, <2>3, <3>1
  <2>8. InCall(s, b, q.think) = IF q.body # <<>> THEN Response!CallDelta(q.body) ELSE <<>>
    BY <1>1, <2>5, <2>6, <2>7 DEF InCall, Response!From
  <2> QED
    BY <1>1, <1>6, <2>1, <2>8 DEF StillRead, Response!Unterminated
<1> QED
  BY <1>4, <1>5, <1>6

Now == Begins(buf)

LEMMA NowTyped == ParserTypes => Now \in Loop
<1> SUFFICES ASSUME ParserTypes PROVE Now \in Loop
  OBVIOUS
<1>1. <<>> \in Seq(Delta)
  OBVIOUS
<1> QED
  BY <1>1 DEF ParserTypes, Loop, Now, Begins

\* A round of drain() loses nothing: what it says comes from what was left.
LEMMA DrainAccounts ==
  ASSUME ParserTypes, out \in Seq(Delta), NEW s \in Text, NEW L \in 0..Len(s), NEW u \in Text,
         Accounts(s, L, Begins(u), out), NEW flush \in BOOLEAN, flush => L = Len(s),
         NEW q, q = Response!Drain(u, flush)
  PROVE  /\ q \in Loop /\ AtRest(q.buf, flush) /\ Response!SpelledAll(q.deltas) \in Seq(Delta)
         /\ StillRead(s, L, q) \in Seq(Delta)
         /\ Accounts(s, L, q, out \o Response!SpelledAll(q.deltas))
<1>1. Shows(s, L, Begins(u))
  BY DEF Accounts
<1>2. q \in Loop /\ Same(s, L, Begins(u), q) /\ AtRest(q.buf, flush)
  BY <1>1, DrainGoes
<1>3. PICK a : a = Response!SpelledAll(q.deltas)
  OBVIOUS
<1>4. PICK c : c = StillRead(s, L, q)
  OBVIOUS
<1>5. PICK r : r = StillRead(s, L, Begins(u))
  OBVIOUS
<1>6. Shows(s, L, q)
  BY <1>2 DEF Same
<1>7. a \in Seq(Delta) /\ c \in Seq(Delta)
  BY <1>2, <1>3, <1>4, <1>6, ShowsFacts
<1>8. Begins(u) \in Loop
  <2>1. <<>> \in Seq(Delta)
    OBVIOUS
  <2> QED
    BY <2>1 DEF ParserTypes, Loop, Begins
<1>9. r \in Seq(Delta)
  BY <1>1, <1>5, <1>8, ShowsFacts
<1>10. a \o c = r
  <2>1. Begins(u).deltas = <<>>
    BY DEF Begins
  <2>2. <<>> \in Seq(Delta)
    OBVIOUS
  <2>3. Response!SpelledAll(Begins(u).deltas) = <<>>
    BY <2>1, <2>2, SpelledAllTyped
  <2>4. a \o c = <<>> \o r
    BY <1>2, <1>3, <1>4, <1>5, <2>3 DEF Same
  <2> QED
    BY <1>9, <2>4, ConcatEmptySeq
<1>11. out \o (a \o c) = (out \o a) \o c
  BY <1>7, Associative
<1>12. Scan(s)[<<1, opened>>] = out \o r
  BY <1>5 DEF Accounts
<1>13. Accounts(s, L, q, out \o a)
  BY <1>4, <1>6, <1>10, <1>11, <1>12 DEF Accounts
<1> QED
  BY <1>2, <1>3, <1>4, <1>7, <1>13

\* Between two pieces, whatever comes: what was emitted and what is left are
\* what the text will be read to; and only the beginning of a marker waits.
TextInv ==
  /\ Partial(buf)
  /\ ~finished => \A rest \in Text : Accounts(fed \o rest, Len(fed), Now, out)
  /\ finished => out = Scan(fed)[<<1, opened>>]

FeedAccounts(rest) ==
  Accounts(fed' \o rest, Len(fed'),
           [buf |-> buf', think |-> think', tool |-> tool', body |-> body', done |-> done',
            deltas |-> <<>>, more |-> TRUE], out')

LEMMA FeedGoes ==
  ASSUME ParserTypes, out \in Seq(Delta), TextInv, NEW piece \in Text, Response!Feed(piece)
  PROVE  Partial(buf') /\ \A rest \in Text : FeedAccounts(rest)
<1>1. ~finished /\ fed' = fed \o piece /\ Partial(buf)
  BY DEF Response!Feed, TextInv
<1>2. fed \in Text /\ buf \in Text /\ Now \in Loop /\ Now.done = done
  BY NowTyped DEF ParserTypes, Now, Begins
<1>3. \A rest \in Text : /\ IsJoin(fed, piece, fed') /\ fed' \in Text /\ Len(fed') = Len(fed) + Len(piece)
                         /\ IsJoin(fed', rest, fed' \o rest) /\ fed' \o rest \in Text
                         /\ Len(fed') \in 0..Len(fed' \o rest) /\ Len(fed') \in Nat
  <2>1. IsJoin(fed, piece, fed')
    BY <1>1, <1>2, TextsJoin
  <2>2. PICK g : g = fed'
    OBVIOUS
  <2>3. g \in Text /\ Len(g) = Len(fed) + Len(piece)
    BY <2>1, <2>2 DEF IsJoin
  <2>4. ASSUME NEW rest \in Text
        PROVE  IsJoin(g, rest, g \o rest) /\ g \o rest \in Text /\ Len(g) \in 0..Len(g \o rest) /\ Len(g) \in Nat
    <3>1. PICK s : s = g \o rest
      OBVIOUS
    <3>2. IsJoin(g, rest, s)
      BY <2>3, <3>1, TextsJoin
    <3>3. s \in Text /\ Len(s) = Len(g) + Len(rest) /\ Len(g) \in Nat /\ Len(rest) \in Nat
      BY <3>2 DEF IsJoin
    <3>4. Len(g) \in 0..Len(s)
      BY <3>3
    <3> QED
      BY <3>1, <3>2, <3>3, <3>4
  <2> QED
    BY <2>1, <2>2, <2>3, <2>4
<1>4. ASSUME NEW rest \in Text
      PROVE  Accounts(fed' \o rest, Len(fed), Now, out)
  <2>1. IsJoin(piece, rest, piece \o rest)
    BY TextsJoin
  <2>2. piece \o rest \in Text
    BY <2>1 DEF IsJoin
  <2>3. Accounts(fed \o (piece \o rest), Len(fed), Now, out)
    BY <1>1, <2>2 DEF TextInv
  <2>4. fed \o (piece \o rest) = fed' \o rest
    BY <1>1, <1>2, TextsAssociate
  <2> QED
    BY <2>3, <2>4
<1>5. CASE done
  <2>1. UNCHANGED <<buf, think, tool, body, done, out>>
    BY <1>5 DEF Response!Feed, Response!parser
  <2>2. ASSUME NEW rest \in Text PROVE FeedAccounts(rest)
    <3>1. PICK s : s = fed' \o rest
      OBVIOUS
    <3>2. PICK M : M = Len(fed')
      OBVIOUS
    <3>3. M \in Nat
      BY <1>3, <3>2
    <3>4. Accounts(s, Len(fed), Now, out)
      BY <1>4, <3>1
    <3>5. Shows(s, M, Now) /\ StillRead(s, M, Now) = StillRead(s, Len(fed), Now)
      BY <1>2, <1>5, <3>3, <3>4, DoneAccounts DEF Accounts
    <3>6. Accounts(s, M, Now, out)
      BY <3>4, <3>5 DEF Accounts
    <3>7. Now = [buf |-> buf', think |-> think', tool |-> tool', body |-> body', done |-> done',
                 deltas |-> <<>>, more |-> TRUE]
      BY <2>1 DEF Now, Begins
    <3> QED
      BY <2>1, <3>1, <3>2, <3>6, <3>7 DEF FeedAccounts
  <2> QED
    BY <1>1, <2>1, <2>2
<1>6. CASE ~done
  <2>1. PICK u : u = buf \o piece
    OBVIOUS
  <2>2. u \in Text
    BY <1>2, <2>1, TextsJoin DEF IsJoin
  <2>3. PICK q : q = Response!Drain(u, FALSE)
    OBVIOUS
  <2>4. /\ buf' = q.buf /\ think' = q.think /\ done' = q.done /\ tool' = q.tool /\ body' = q.body
        /\ out' = out \o Response!SpelledAll(q.deltas)
    BY <1>6, <2>1, <2>3 DEF Response!Feed, Response!Became
  <2>5. PICK after : after = [buf |-> buf', think |-> think', tool |-> tool', body |-> body', done |-> done',
                              deltas |-> <<>>, more |-> TRUE]
    OBVIOUS
  <2>6. Alike(q, after)
    BY <2>4, <2>5 DEF Alike
  <2>7. ASSUME NEW rest \in Text PROVE FeedAccounts(rest) /\ Partial(q.buf)
    <3>1. PICK s : s = fed' \o rest
      OBVIOUS
    <3>2. PICK M : M = Len(fed')
      OBVIOUS
    <3>3. s \in Text /\ M \in 0..Len(s) /\ M = Len(fed) + Len(piece)
      BY <1>3, <3>1, <3>2
    <3>4. Accounts(s, Len(fed), Now, out)
      BY <1>4, <3>1
    <3>5. Shows(s, Len(fed), Now) /\ Scan(s)[<<1, opened>>] = out \o StillRead(s, Len(fed), Now)
      BY <3>4 DEF Accounts
    <3>6. Arrives(Now, Begins(u), piece)
      BY <2>1 DEF Arrives, Now, Begins
    <3>7. GoesOnWith(s, fed, piece, rest) /\ ~Now.done
      BY <1>1, <1>2, <1>6, <3>1 DEF GoesOnWith
    <3>8. /\ Shows(s, Len(fed) + Len(piece), Begins(u))
          /\ StillRead(s, Len(fed) + Len(piece), Begins(u)) = StillRead(s, Len(fed), Now)
      BY <1>2, <3>5, <3>6, <3>7, PieceArrives
    <3>9. Accounts(s, M, Begins(u), out)
      BY <3>3, <3>5, <3>8 DEF Accounts
    <3>10. /\ AtRest(q.buf, FALSE)
           /\ Accounts(s, M, q, out \o Response!SpelledAll(q.deltas))
      BY <2>2, <2>3, <3>3, <3>9, DrainAccounts
    <3>11. Accounts(s, M, after, out')
      BY <2>4, <2>6, <3>10, AlikeShows DEF Accounts
    <3> QED
      BY <2>5, <3>1, <3>2, <3>10, <3>11 DEF FeedAccounts, AtRest
  <2>8. <<>> \in Text
    BY StopTyped
  <2> QED
    BY <2>4, <2>7, <2>8
<1> QED
  BY <1>5, <1>6

LEMMA FinishGoes ==
  ASSUME ParserTypes, out \in Seq(Delta), TextInv, Response!Finish
  PROVE  out' = Scan(fed)[<<1, opened>>] /\ finished' /\ fed' = fed /\ opened' = opened /\ buf' = <<>>
<1>1. ~finished /\ finished' = TRUE /\ UNCHANGED <<opened, fed>>
  BY DEF Response!Finish
<1>2. PICK q : q = Response!Drain(buf, TRUE)
  OBVIOUS
<1>3. PICK last : last = Response!Unterminated(q)
  OBVIOUS
<1>4. out' = out \o Response!SpelledAll(q.deltas \o last)
  BY <1>2, <1>3 DEF Response!Finish, Response!Became
<1>5. PICK s : s = fed
  OBVIOUS
<1>6. s \in Text /\ buf \in Text /\ Len(s) \in 0..Len(s)
  BY <1>5 DEF ParserTypes, Text
<1>7. Accounts(s, Len(s), Begins(buf), out)
  <2>1. <<>> \in Text
    BY StopTyped
  <2>2. fed \o <<>> = s
    BY <1>5, <1>6, ConcatEmptySeq DEF Text
  <2> QED
    BY <1>1, <1>5, <2>1, <2>2 DEF TextInv, Now
<1>8. /\ q \in Loop /\ AtRest(q.buf, TRUE) /\ Response!SpelledAll(q.deltas) \in Seq(Delta)
      /\ Accounts(s, Len(s), q, out \o Response!SpelledAll(q.deltas))
  BY <1>2, <1>6, <1>7, DrainAccounts
<1>9. q.buf = <<>>
  BY <1>8 DEF AtRest
<1>10. PICK a : a = Response!SpelledAll(q.deltas)
  OBVIOUS
<1>11. Scan(s)[<<1, opened>>] = (out \o a) \o last
  <2>1. last = StillRead(s, Len(s), q)
    BY <1>3, <1>6, <1>8, <1>9, LeftAtEnd DEF Accounts
  <2> QED
    BY <1>8, <1>10, <2>1 DEF Accounts
<1>12. Response!SpelledAll(q.deltas \o last) = a \o last /\ last \in Seq(Delta)
  <2>1. q.deltas \in Seq(Delta) /\ q.body \in Text
    BY <1>8 DEF Loop
  <2>2. CASE last = Response!CallDelta(q.body)
    <3>1. FALSE \in BOOLEAN
      OBVIOUS
    <3>2. Response!SpelledAll(q.deltas \o Response!CallDelta(q.body))
            = Response!SpelledAll(q.deltas) \o Response!CallDelta(q.body)
      BY <2>1, <3>1, SpelledSays
    <3> QED
      BY <1>10, <2>1, <2>2, <3>2, CallTyped
  <2>3. CASE last = <<>>
    <3>1. q.deltas \o <<>> = q.deltas /\ a \o <<>> = a
      BY <1>8, <1>10, <2>1, ConcatEmptySeq
    <3> QED
      BY <1>10, <2>3, <3>1, StopTyped
  <2> QED
    BY <1>3, <2>2, <2>3 DEF Response!Unterminated
<1>13. out \o (a \o last) = (out \o a) \o last
  BY <1>8, <1>10, <1>12, Associative
<1>14. buf' = q.buf
  BY <1>2 DEF Response!Finish, Response!Became
<1> QED
  BY <1>1, <1>4, <1>5, <1>9, <1>11, <1>12, <1>13, <1>14

ParsedInv == ResponseInv /\ TextInv

LEMMA FeedKeepsText ==
  ASSUME ParserTypes, out \in Seq(Delta), TextInv, NEW piece \in Text, Response!Feed(piece)
  PROVE  TextInv'
<1>1. Partial(buf') /\ \A rest \in Text : FeedAccounts(rest)
  BY FeedGoes
<1>2. finished' = finished /\ ~finished /\ opened' = opened
  BY DEF Response!Feed
<1>3. \A rest \in Text : Accounts(fed \o rest, Len(fed), Now, out)'
  BY <1>1, <1>2 DEF FeedAccounts, Accounts, Now, Begins
<1>4. Partial(buf)'
  BY <1>1
<1> QED
  BY <1>2, <1>3, <1>4 DEF TextInv

LEMMA FinishKeepsText ==
  ASSUME ParserTypes, out \in Seq(Delta), TextInv, Response!Finish
  PROVE  TextInv'
BY FinishGoes, EmptyIsPartial DEF TextInv

LEMMA ParsedInitKeeps == ServingInit => ParsedInv
<1> SUFFICES ASSUME ServingInit PROVE ParsedInv
  OBVIOUS
<1>1. ResponseInv
  BY ResponseInitKeeps
<1>2. /\ think = opened /\ fed = <<>> /\ buf = <<>> /\ tool = FALSE /\ body = <<>> /\ done = FALSE
      /\ out = <<>> /\ finished = FALSE
  BY DEF ServingInit, Response!DeliveryInit, Response!Init
<1>3. Now \in Loop
  BY <1>1, NowTyped DEF ResponseInv, ResponseTypes
<1>4. ASSUME NEW rest \in Text PROVE Accounts(fed \o rest, Len(fed), Now, out)
  <2>1. fed \o rest = rest /\ Len(fed) = 0
    BY <1>2, ConcatEmptySeq DEF Text
  <2>2. Now.buf = <<>> /\ ~Now.tool /\ ~Now.done /\ Now.think = opened /\ Len(Now.buf) = 0
    BY <1>2 DEF Now, Begins
  <2>3. 0 \in 0..Len(rest) /\ 1 \in 1..(0 + 1)
    BY DEF Text
  <2>4. SubSeq(rest, 1, 0) = <<>>
    BY SubSeqEmpty
  <2>5. Shows(rest, 0, Now) /\ StillRead(rest, 0, Now) = Scan(rest)[<<1, opened>>]
    <3>1. Now.buf = SubSeq(rest, 1, 0) /\ Len(Now.buf) = 0 + 1 - 1
      BY <2>2, <2>4
    <3> QED
      BY <1>3, <2>2, <2>3, <3>1, ShowsOutside
  <2>6. Scan(rest)[<<1, opened>>] \in Seq(Delta)
    <3>1. 1 \in 1..(Len(rest) + 1) /\ opened \in BOOLEAN
      BY <1>1 DEF Text, ResponseInv, ResponseTypes, ParserTypes
    <3> QED
      BY <3>1, ScanReads
  <2>7. Scan(rest)[<<1, opened>>] = out \o Scan(rest)[<<1, opened>>]
    BY <1>2, <2>6, ConcatEmptySeq
  <2>8. Accounts(rest, 0, Now, out)
    BY <2>5, <2>7 DEF Accounts
  <2> QED
    BY <2>1, <2>8
<1>5. Partial(buf)
  BY <1>2, EmptyIsPartial
<1> QED
  BY <1>1, <1>2, <1>4, <1>5 DEF ParsedInv, TextInv

LEMMA ParsedKeeps == ParsedInv /\ [ServingNext]_serving => ParsedInv'
<1> SUFFICES ASSUME ParsedInv, [ServingNext]_serving PROVE ParsedInv'
  OBVIOUS
<1>1. ResponseInv'
  BY ResponseKeeps DEF ParsedInv
<1>2. ParserTypes /\ out \in Seq(Delta) /\ TextInv
  BY DEF ParsedInv, ResponseInv, ResponseTypes
<1>3. CASE Response!DeliveryNext
  <2>1. CASE \E piece \in Tokens : Response!Token(piece)
    <3>1. PICK piece \in Tokens : Response!Feed(piece)
      BY <2>1 DEF Response!Token
    <3>2. piece \in Text
      BY StringsAreText DEF Strings
    <3>3. TextInv'
      BY <1>2, <3>1, <3>2, FeedKeepsText
    <3> QED
      BY <1>1, <3>3 DEF ParsedInv
  <2>2. CASE Response!EndOfText \/ Response!ContextFull \/ Response!ClientLeaves
    <3>1. UNCHANGED parsed
      BY <2>2 DEF Response!EndOfText, Response!ContextFull, Response!Ends, Response!ClientLeaves,
                  Response!vars, Response!parser, parsed
    <3>2. TextInv'
      BY <1>2, <3>1 DEF parsed, TextInv, Accounts, Now, Begins
    <3> QED
      BY <1>1, <3>2 DEF ParsedInv
  <2>3. CASE Response!Respond
    BY <1>1, <1>2, <2>3, FinishKeepsText DEF Response!Respond, ParsedInv
  <2> QED
    BY <1>3, <2>1, <2>2, <2>3 DEF Response!DeliveryNext
<1>4. CASE Response!Next
  <2>1. CASE \E piece \in Pieces : Response!Feed(piece)
    <3>1. PICK piece \in Pieces : Response!Feed(piece)
      BY <2>1
    <3>2. piece \in Text
      BY StringsAreText DEF Strings
    <3>3. TextInv'
      BY <1>2, <3>1, <3>2, FeedKeepsText
    <3> QED
      BY <1>1, <3>3 DEF ParsedInv
  <2>2. CASE Response!Finish
    BY <1>1, <1>2, <2>2, FinishKeepsText DEF ParsedInv
  <2> QED
    BY <1>4, <2>1, <2>2 DEF Response!Next
<1>5. CASE UNCHANGED response
  <2>1. TextInv'
    BY <1>2, <1>5 DEF response, parsed, TextInv, Accounts, Now, Begins
  <2> QED
    BY <1>1, <2>1 DEF ParsedInv
<1> QED
  BY <1>3, <1>4, <1>5, ResponsePart

LEMMA ParsedInductive == ServingSpec => []ParsedInv
BY ParsedInitKeeps, ParsedKeeps, PTL DEF ServingSpec

\* test_chat.cpp:6: however the output is cut into pieces, what the client sees
\* is what the reference reads in the whole text.
THEOREM PiecesDoNotShow == ServingSpec => []ChunkingInvisible
<1>1. ParsedInv => ChunkingInvisible
  BY ReadingScans DEF ParsedInv, TextInv, ChunkingInvisible, Response!ChunkingInvisible
<1> QED
  BY <1>1, ParsedInductive, PTL

LEMMA StartOfJoin ==
  ASSUME NEW a \in Seq(Delta), NEW b \in Seq(Delta)
  PROVE  Len(a) <= Len(a \o b) /\ SubSeq(a \o b, 1, Len(a)) = a
<1>1. PICK c : c = a \o b
  OBVIOUS
<1>2. PICK n : n = Len(a)
  OBVIOUS
<1>3. /\ c \in Seq(Delta) /\ Len(c) = n + Len(b) /\ n \in Nat /\ Len(b) \in Nat
      /\ \A i \in 1..n : c[i] = a[i]
  <2>1. /\ a \o b \in Seq(Delta) /\ Len(a \o b) = Len(a) + Len(b) /\ Len(a) \in Nat /\ Len(b) \in Nat
        /\ \A i \in 1..(Len(a) + Len(b)) : (a \o b)[i] = IF i <= Len(a) THEN a[i] ELSE b[i - Len(a)]
    BY Joined
  <2> QED
    BY <1>1, <1>2, <2>1
<1>4. PICK d : d = SubSeq(c, 1, n)
  OBVIOUS
<1>5. d \in Seq(Delta) /\ Len(d) = n /\ \A i \in 1..n : d[i] = c[i]
  BY <1>3, <1>4
<1>6. d = a
  BY <1>2, <1>3, <1>5, SeqEqual
<1>7. n <= Len(c)
  BY <1>3
<1> QED
  BY <1>1, <1>2, <1>4, <1>6, <1>7

\* "emit text that is safe" (chat.h): what was emitted is the beginning of what
\* every continuation of the text will be read to, and what waits is the
\* beginning of one marker.
THEOREM EmittedIsCertain == ServingSpec => []EmitsWhatIsCertain
<1>1. ASSUME ParsedInv PROVE EmitsWhatIsCertain
  <2>1. Response!NothingRetracted
    <3> SUFFICES ASSUME ~finished, NEW piece \in Pieces \union {<<>>}, NEW r, r = Response!Reading(fed \o piece)
                 PROVE  Len(out) <= Len(r) /\ SubSeq(r, 1, Len(out)) = out
      BY DEF Response!NothingRetracted
    <3>1. piece \in Text
      BY StringsAreText, StopTyped DEF Strings
    <3>2. PICK s : s = fed \o piece
      OBVIOUS
    <3>3. Accounts(s, Len(fed), Now, out)
      BY <1>1, <3>1, <3>2 DEF ParsedInv, TextInv
    <3>4. r = out \o StillRead(s, Len(fed), Now)
      BY <3>2, <3>3, ReadingScans DEF Accounts
    <3>5. out \in Seq(Delta) /\ fed \in Text /\ Now \in Loop
      BY <1>1, NowTyped DEF ParsedInv, ResponseInv, ResponseTypes, ParserTypes
    <3>6. s \in Text /\ Len(fed) \in 0..Len(s)
      <4>1. IsJoin(fed, piece, s)
        BY <3>1, <3>2, <3>5, TextsJoin
      <4> QED
        BY <4>1 DEF IsJoin
    <3>7. StillRead(s, Len(fed), Now) \in Seq(Delta)
      BY <3>3, <3>5, <3>6, ShowsFacts DEF Accounts
    <3> QED
      BY <3>4, <3>5, <3>7, StartOfJoin
  <2>2. Response!HoldsOnlyMarkerPrefix
    BY <1>1 DEF ParsedInv, TextInv, Partial, Response!HoldsOnlyMarkerPrefix
  <2> QED
    BY <2>1, <2>2 DEF EmitsWhatIsCertain, Response!EmitsWhatIsCertain
<1> QED
  BY <1>1, ParsedInductive, PTL

-----------------------------------------------------------------------------
(* The answer that is matched against the stop strings.                      *)

\* What a delta adds to the answer a client reads.
Heard(t, d) == IF d.channel = "content" THEN t \o d.text ELSE t

LEMMA HeardTyped ==
  ASSUME NEW t \in Text, NEW d \in Delta
  PROVE  Heard(t, d) \in Text
<1>1. d.text \in Text
  BY DEF Delta
<1>2. t \o d.text \in Text
  BY <1>1, ConcatProperties DEF Text
<1> QED
  BY <1>2 DEF Heard

LEMMA HearsOn ==
  ASSUME NEW ds \in Seq(Delta)
  PROVE  \E f \in [0..Len(ds) -> Text] :
           /\ f[0] = <<>> /\ f[Len(ds)] = Response!Content(ds)
           /\ \A k \in 1..Len(ds) : f[k] = Heard(f[k - 1], ds[k])
<1> DEFINE n == Len(ds)
           IsLoop(f) == f = [k \in 0..n |-> IF k = 0 THEN <<>> ELSE Heard(f[k - 1], ds[k])]
           F == CHOOSE f : IsLoop(f)
<1>1. n \in Nat /\ n = Len(ds) /\ \A k \in 1..n : ds[k] \in Delta
  OBVIOUS
<1>2. <<>> \in Text
  BY DEF Text
<1>3. Response!Content(ds) = F[n]
  BY DEF Response!Content, Heard
<1> HIDE DEF n
<1>4. \E f : IsLoop(f)
  <2>1. PICK step : step = [k \in 1..n |-> [p \in Text |-> Heard(p, ds[k])]]
    OBVIOUS
  <2>2. step \in [1..n -> [Text -> Text]]
    <3>1. \A k \in 1..n : \A p \in Text : Heard(p, ds[k]) \in Text
      BY <1>1, HeardTyped
    <3> QED
      BY <2>1, <3>1
  <2>3. PICK f \in [0..n -> Text] : Run(f, n, <<>>, step)
    BY <1>1, <1>2, <2>2, Runs
  <2>4. ASSUME NEW k \in 0..n, k # 0 PROVE step[k][f[k - 1]] = Heard(f[k - 1], ds[k])
    <3>1. k - 1 \in 0..n /\ k \in 1..n
      BY <1>1, <2>4
    <3>2. f[k - 1] \in Text
      BY <2>3, <3>1
    <3> QED
      BY <2>1, <3>1, <3>2
  <2>5. IsLoop(f)
    BY <2>3, <2>4 DEF Run
  <2> QED
    BY <2>5
<1>5. IsLoop(F)
  BY <1>4
<1> HIDE DEF F
<1>6. F[0] = <<>> /\ \A k \in 1..n : F[k] = Heard(F[k - 1], ds[k])
  BY <1>1, <1>5
<1>7. F = [k \in 0..n |-> F[k]]
  BY <1>5
<1> HIDE DEF IsLoop
<1>8. \A k \in 1..n : F[k - 1] \in Text => F[k] \in Text
  BY <1>1, <1>6, HeardTyped
<1>9. \A k \in 0..n : F[k] \in Text
  BY <1>1, <1>2, <1>6, <1>8, Stays
<1>10. F \in [0..n -> Text]
  BY <1>7, <1>9
<1> QED
  BY <1>1, <1>3, <1>6, <1>10

LEMMA ContentTyped ==
  ASSUME NEW ds \in Seq(Delta)
  PROVE  Response!Content(ds) \in Text
<1>1. PICK f \in [0..Len(ds) -> Text] : f[Len(ds)] = Response!Content(ds)
  BY HearsOn
<1>2. Len(ds) \in 0..Len(ds)
  OBVIOUS
<1> QED
  BY <1>1, <1>2

LEMMA ContentOneMore ==
  ASSUME NEW ds \in Seq(Delta), NEW d \in Delta
  PROVE  Response!Content(ds \o <<d>>) = Heard(Response!Content(ds), d)
<1>1. PICK n : n = Len(ds)
  OBVIOUS
<1>2. PICK es : es = ds \o <<d>>
  OBVIOUS
<1>3. /\ n \in Nat /\ es \in Seq(Delta) /\ Len(es) = n + 1 /\ es[n + 1] = d
      /\ \A k \in 1..n : es[k] = ds[k]
  BY <1>1, <1>2
<1>4. PICK f \in [0..n -> Text] :
        /\ f[0] = <<>> /\ f[n] = Response!Content(ds)
        /\ \A k \in 1..n : f[k] = Heard(f[k - 1], ds[k])
  BY <1>1, HearsOn
<1>5. PICK g \in [0..Len(es) -> Text] :
        /\ g[0] = <<>> /\ g[Len(es)] = Response!Content(es)
        /\ \A k \in 1..Len(es) : g[k] = Heard(g[k - 1], es[k])
  BY <1>3, HearsOn
<1> DEFINE T == {m \in Nat : m <= n => g[m] = f[m]}
<1>6. T = Nat
  <2>1. 0 \in T
    BY <1>4, <1>5
  <2>2. ASSUME NEW m \in T PROVE m + 1 \in T
    <3> SUFFICES ASSUME m + 1 <= n PROVE g[m + 1] = f[m + 1]
      OBVIOUS
    <3>1. m \in Nat /\ g[m] = f[m] /\ m + 1 \in 1..n /\ m + 1 \in 1..Len(es) /\ (m + 1) - 1 = m
      BY <1>3, <2>2
    <3>2. f[m + 1] = Heard(f[m], ds[m + 1])
      BY <1>4, <3>1
    <3>3. g[m + 1] = Heard(g[m], es[m + 1])
      BY <1>5, <3>1
    <3> QED
      BY <1>3, <3>1, <3>2, <3>3
  <2>3. T \in SUBSET Nat
    OBVIOUS
  <2> HIDE DEF T
  <2> QED
    BY <2>1, <2>2, <2>3, Reaches
<1>7. g[n] = f[n]
  <2>1. n \in T
    BY <1>3, <1>6
  <2> QED
    BY <1>3, <2>1
<1>8. n + 1 \in 1..Len(es) /\ (n + 1) - 1 = n /\ Len(es) = n + 1
  BY <1>3
<1>9. g[n + 1] = Heard(g[n], es[n + 1])
  BY <1>5, <1>8
<1> QED
  BY <1>2, <1>3, <1>4, <1>5, <1>7, <1>8, <1>9

\* The beginnings of a sequence behind another one, each one element longer.
LEMMA OneFurther ==
  ASSUME NEW S, NEW a \in Seq(S), NEW b \in Seq(S)
  PROVE  /\ \A k \in 0..Len(b) : a \o SubSeq(b, 1, k) \in Seq(S)
         /\ \A k \in 1..Len(b) : a \o SubSeq(b, 1, k) = (a \o SubSeq(b, 1, k - 1)) \o <<b[k]>>
         /\ a \o SubSeq(b, 1, 0) = a /\ SubSeq(b, 1, Len(b)) = b
<1>1. Len(a) \in Nat /\ Len(b) \in Nat
  OBVIOUS
<1>2. ASSUME NEW k \in 0..Len(b)
      PROVE  /\ SubSeq(b, 1, k) \in Seq(S) /\ Len(SubSeq(b, 1, k)) = k
             /\ \A i \in 1..k : SubSeq(b, 1, k)[i] = b[i]
  BY <1>1
<1>3. ASSUME NEW k \in 1..Len(b) PROVE a \o SubSeq(b, 1, k) = (a \o SubSeq(b, 1, k - 1)) \o <<b[k]>>
  <2>1. k \in 0..Len(b) /\ k - 1 \in 0..Len(b) /\ k \in Nat
    BY <1>1
  <2>2. PICK p : p = SubSeq(b, 1, k)
    OBVIOUS
  <2>3. PICK q : q = SubSeq(b, 1, k - 1)
    OBVIOUS
  <2>4. /\ p \in Seq(S) /\ Len(p) = k /\ \A i \in 1..k : p[i] = b[i]
        /\ q \in Seq(S) /\ Len(q) = k - 1 /\ \A i \in 1..(k - 1) : q[i] = b[i]
    BY <1>2, <2>1, <2>2, <2>3
  <2>5. PICK c : c = b[k]
    OBVIOUS
  <2>6. c \in S /\ <<c>> \in Seq(S)
    BY <2>5
  <2>7. PICK l : l = a \o p
    OBVIOUS
  <2>8. PICK r : r = (a \o q) \o <<c>>
    OBVIOUS
  <2>9. l \in Seq(S) /\ r \in Seq(S) /\ Len(l) = Len(a) + k /\ Len(r) = Len(a) + k
    <3>1. a \o q \in Seq(S) /\ Len(a \o q) = Len(a) + (k - 1)
      BY <2>4, ConcatProperties
    <3>2. l \in Seq(S) /\ Len(l) = Len(a) + k
      BY <2>4, <2>7, ConcatProperties
    <3>3. Len(<<c>>) = 1
      OBVIOUS
    <3>4. r \in Seq(S) /\ Len(r) = (Len(a) + (k - 1)) + 1
      BY <2>6, <2>8, <3>1, <3>3, ConcatProperties
    <3> QED
      BY <1>1, <2>1, <3>2, <3>4
  <2>10. ASSUME NEW i \in 1..Len(l) PROVE l[i] = r[i]
    <3>1. i \in 1..(Len(a) + k) /\ i \in Nat
      BY <1>1, <2>1, <2>9
    <3>2. CASE i <= Len(a)
      BY <1>1, <2>1, <2>4, <2>6, <2>7, <2>8, <3>1, <3>2
    <3>3. CASE i > Len(a) /\ i < Len(a) + k
      <4>1. i - Len(a) \in 1..(k - 1) /\ i - Len(a) \in 1..k
        BY <1>1, <2>1, <3>1, <3>3
      <4> QED
        <5>1. l[i] = p[i - Len(a)] /\ p[i - Len(a)] = b[i - Len(a)]
          BY <1>1, <2>1, <2>4, <2>7, <3>1, <3>3, <4>1, ConcatProperties
        <5>2. PICK m : m = a \o q
          OBVIOUS
        <5>3. m \in Seq(S) /\ Len(m) = Len(a) + (k - 1) /\ m[i] = q[i - Len(a)]
          <6>1. m \in Seq(S) /\ Len(m) = Len(a) + Len(q)
                /\ \A e \in 1..(Len(a) + Len(q)) : m[e] = IF e <= Len(a) THEN a[e] ELSE q[e - Len(a)]
            BY <2>4, <5>2, ConcatProperties
          <6>2. i \in 1..(Len(a) + Len(q)) /\ ~(i <= Len(a))
            BY <1>1, <2>1, <2>4, <3>1, <3>3
          <6> QED
            BY <2>4, <6>1, <6>2
        <5>4. r[i] = m[i]
          BY <1>1, <2>1, <2>6, <2>8, <3>1, <3>3, <5>2, <5>3, ConcatProperties
        <5> QED
          BY <2>4, <4>1, <5>1, <5>3, <5>4
    <3>4. CASE i = Len(a) + k
      <4>1. PICK m : m = a \o q
        OBVIOUS
      <4>2. m \in Seq(S) /\ Len(m) = Len(a) + (k - 1)
        BY <2>4, <4>1, ConcatProperties
      <4>3. i - Len(a) = k /\ k \in 1..k /\ ~(i <= Len(a)) /\ ~(i <= Len(m)) /\ i - Len(m) = 1 /\ i \in 1..(Len(m) + 1)
            /\ i \in 1..(Len(a) + Len(p))
        BY <1>1, <2>1, <2>4, <3>4, <4>2
      <4>4. l[i] = p[k]
        BY <2>4, <2>7, <4>3, ConcatProperties
      <4>5. Len(<<c>>) = 1 /\ <<c>>[1] = c
        OBVIOUS
      <4>6. r[i] = c
        <5>1. PICK w : w = <<c>>
          OBVIOUS
        <5>2. w \in Seq(S) /\ Len(w) = 1 /\ w[1] = c
          BY <2>6, <4>5, <5>1
        <5>3. r = m \o w
          BY <2>8, <4>1, <5>1
        <5>4. \A e \in 1..(Len(m) + Len(w)) : r[e] = IF e <= Len(m) THEN m[e] ELSE w[e - Len(m)]
          BY <4>2, <5>2, <5>3, ConcatProperties
        <5>5. i \in 1..(Len(m) + Len(w))
          BY <4>3, <5>2
        <5> QED
          BY <4>3, <5>2, <5>4, <5>5
      <4> QED
        BY <2>4, <2>5, <4>3, <4>4, <4>6
    <3> QED
      BY <1>1, <2>1, <3>1, <3>2, <3>3, <3>4
  <2>11. l = r
    BY <2>9, <2>10, SeqEqual
  <2> QED
    BY <2>2, <2>3, <2>5, <2>7, <2>8, <2>11
<1>4. \A k \in 0..Len(b) : a \o SubSeq(b, 1, k) \in Seq(S)
  BY <1>2
<1>5. a \o SubSeq(b, 1, 0) = a /\ SubSeq(b, 1, Len(b)) = b
  <2>1. SubSeq(b, 1, 0) = <<>>
    BY SubSeqEmpty
  <2>2. SubSeq(b, 1, Len(b)) = b
    <3>1. Len(b) \in 0..Len(b)
      BY <1>1
    <3>2. PICK p : p = SubSeq(b, 1, Len(b))
      OBVIOUS
    <3>3. p \in Seq(S) /\ Len(p) = Len(b) /\ \A i \in 1..Len(b) : p[i] = b[i]
      BY <1>2, <3>1, <3>2
    <3> QED
      BY <3>2, <3>3, SeqEqual
  <2> QED
    BY <2>1, <2>2, ConcatEmptySeq
<1> QED
  BY <1>3, <1>4, <1>5

LEMMA FurtherDeltas ==
  ASSUME NEW a \in Seq(Delta), NEW b \in Seq(Delta)
  PROVE  /\ \A k \in 0..Len(b) : a \o SubSeq(b, 1, k) \in Seq(Delta)
         /\ \A k \in 1..Len(b) : a \o SubSeq(b, 1, k) = (a \o SubSeq(b, 1, k - 1)) \o <<b[k]>>
         /\ a \o SubSeq(b, 1, 0) = a /\ SubSeq(b, 1, Len(b)) = b
BY OneFurther

LEMMA FurtherText ==
  ASSUME NEW a \in Text, NEW b \in Text
  PROVE  /\ \A k \in 1..Len(b) : a \o SubSeq(b, 1, k) = (a \o SubSeq(b, 1, k - 1)) \o <<b[k]>>
         /\ a \o SubSeq(b, 1, 0) = a /\ SubSeq(b, 1, Len(b)) = b
<1>1. a \in Seq(Letters) /\ b \in Seq(Letters)
  BY DEF Text
<1> QED
  BY <1>1, OneFurther

\* A delta adds what its characters add one by one.
LEMMA SpelledAddsAsWhole ==
  ASSUME NEW o \in Seq(Delta), NEW d \in Delta
  PROVE  Response!Content(o \o Response!Spelled(d)) = Heard(Response!Content(o), d)
<1>1. CASE d.channel \in {"call", "stop"}
  <2>1. Response!Spelled(d) = <<d>>
    BY <1>1 DEF Response!Spelled
  <2> QED
    BY <2>1, ContentOneMore
<1>2. CASE d.channel \notin {"call", "stop"}
  <2>1. PICK es : es = Response!Spelled(d)
    OBVIOUS
  <2>2. PICK t : t = d.text
    OBVIOUS
  <2>3. PICK n : n = Len(t)
    OBVIOUS
  <2>4. PICK c : c = Response!Content(o)
    OBVIOUS
  <2>5. t \in Text /\ n \in Nat /\ c \in Text
    <3>1. t \in Text
      BY <2>2 DEF Delta
    <3>2. n \in Nat
      BY <2>3, <3>1 DEF Text
    <3> QED
      BY <2>4, <3>1, <3>2, ContentTyped
  <2>6. /\ es \in Seq(Delta) /\ Len(es) = n
        /\ \A i \in 1..n : es[i].channel = d.channel /\ es[i].text = <<t[i]>>
    <3>1. es \in Seq(Delta)
      BY <2>1, SpelledTyped
    <3>2. es = [i \in 1..n |-> [channel |-> d.channel, text |-> <<t[i]>>]]
      BY <1>2, <2>1, <2>2, <2>3, <2>5 DEF Response!Spelled, Text
    <3> QED
      BY <2>5, <3>1, <3>2
  <2>7. PICK begun : begun = [k \in 0..n |-> o \o SubSeq(es, 1, k)]
    OBVIOUS
  <2>8. PICK heard : heard = [k \in 0..n |-> c \o SubSeq(t, 1, k)]
    OBVIOUS
  <2>9. /\ \A k \in 0..n : begun[k] \in Seq(Delta)
        /\ \A k \in 1..n : begun[k] = begun[k - 1] \o <<es[k]>>
        /\ begun[0] = o /\ begun[n] = o \o es
    <3>1. \A k \in 1..n : k \in 0..n /\ k - 1 \in 0..n
      BY <2>5
    <3>2. 0 \in 0..n /\ n \in 0..n
      BY <2>5
    <3>3. /\ \A k \in 0..n : o \o SubSeq(es, 1, k) \in Seq(Delta)
          /\ \A k \in 1..n : o \o SubSeq(es, 1, k) = (o \o SubSeq(es, 1, k - 1)) \o <<es[k]>>
          /\ o \o SubSeq(es, 1, 0) = o /\ SubSeq(es, 1, n) = es
      BY <2>6, FurtherDeltas
    <3> QED
      BY <2>7, <3>1, <3>2, <3>3
  <2>10. /\ \A k \in 1..n : heard[k] = heard[k - 1] \o <<t[k]>>
         /\ heard[0] = c /\ heard[n] = c \o t
    <3>1. \A k \in 1..n : k \in 0..n /\ k - 1 \in 0..n
      BY <2>5
    <3>2. 0 \in 0..n /\ n \in 0..n
      BY <2>5
    <3>3. /\ \A k \in 1..n : c \o SubSeq(t, 1, k) = (c \o SubSeq(t, 1, k - 1)) \o <<t[k]>>
          /\ c \o SubSeq(t, 1, 0) = c /\ SubSeq(t, 1, n) = t
      BY <2>3, <2>5, FurtherText
    <3> QED
      BY <2>8, <3>1, <3>2, <3>3
  <2> DEFINE T == {m \in Nat : m <= n =>
                     Response!Content(begun[m]) = IF d.channel = "content" THEN heard[m] ELSE c}
  <2>11. T = Nat
    <3>1. 0 \in T
      BY <2>4, <2>9, <2>10
    <3>2. ASSUME NEW m \in T PROVE m + 1 \in T
      <4> SUFFICES ASSUME m + 1 <= n
                   PROVE  Response!Content(begun[m + 1]) =
                            IF d.channel = "content" THEN heard[m + 1] ELSE c
        OBVIOUS
      <4>1. m + 1 \in 1..n /\ m \in 0..n /\ (m + 1) - 1 = m
        BY <2>5, <3>2
      <4>2. Response!Content(begun[m]) = IF d.channel = "content" THEN heard[m] ELSE c
        BY <2>5, <3>2, <4>1
      <4>3. begun[m + 1] = begun[m] \o <<es[m + 1]>> /\ begun[m] \in Seq(Delta)
        BY <2>9, <4>1
      <4>4. heard[m + 1] = heard[m] \o <<t[m + 1]>>
        BY <2>10, <4>1
      <4>5. es[m + 1] \in Delta /\ es[m + 1].channel = d.channel /\ es[m + 1].text = <<t[m + 1]>>
        BY <2>6, <4>1
      <4>6. Response!Content(begun[m + 1]) = Heard(Response!Content(begun[m]), es[m + 1])
        BY <4>3, <4>5, ContentOneMore
      <4> HIDE DEF T
      <4> QED
        BY <4>2, <4>4, <4>5, <4>6 DEF Heard
    <3>3. T \in SUBSET Nat
      OBVIOUS
    <3> HIDE DEF T
    <3> QED
      BY <3>1, <3>2, <3>3, Reaches
  <2>12. Response!Content(begun[n]) = IF d.channel = "content" THEN heard[n] ELSE c
    <3>1. n \in T /\ n <= n
      BY <2>5, <2>11
    <3> QED
      BY <3>1
  <2> QED
    BY <2>1, <2>2, <2>4, <2>9, <2>10, <2>12 DEF Heard
<1> QED
  BY <1>1, <1>2

LEMMA SpelledAllAddsAsWhole ==
  ASSUME NEW o \in Seq(Delta), NEW ds \in Seq(Delta)
  PROVE  Response!Content(o \o Response!SpelledAll(ds)) = Response!Content(o \o ds)
<1>1. PICK n : n = Len(ds)
  OBVIOUS
<1>2. n \in Nat /\ n \in 0..n /\ 0 \in 0..n /\ \A k \in 1..n : k \in 0..n /\ k - 1 \in 0..n /\ ds[k] \in Delta
  BY <1>1
<1>3. PICK g \in [0..n -> Seq(Delta)] :
        /\ g[0] = <<>> /\ g[n] = Response!SpelledAll(ds)
        /\ \A k \in 1..n : g[k] = g[k - 1] \o Response!Spelled(ds[k])
  BY <1>1, SpellsOn
<1>4. PICK begun : begun = [k \in 0..n |-> o \o SubSeq(ds, 1, k)]
  OBVIOUS
<1>5. /\ \A k \in 0..n : begun[k] \in Seq(Delta)
      /\ \A k \in 1..n : begun[k] = begun[k - 1] \o <<ds[k]>>
      /\ begun[0] = o /\ begun[n] = o \o ds
  <2>1. /\ \A k \in 0..n : o \o SubSeq(ds, 1, k) \in Seq(Delta)
        /\ \A k \in 1..n : o \o SubSeq(ds, 1, k) = (o \o SubSeq(ds, 1, k - 1)) \o <<ds[k]>>
        /\ o \o SubSeq(ds, 1, 0) = o /\ SubSeq(ds, 1, n) = ds
    BY <1>1, FurtherDeltas
  <2> QED
    BY <1>2, <1>4, <2>1
<1> DEFINE T == {m \in Nat : m <= n => Response!Content(o \o g[m]) = Response!Content(begun[m])}
<1>6. T = Nat
  <2>1. 0 \in T
    BY <1>3, <1>5, ConcatEmptySeq
  <2>2. ASSUME NEW m \in T PROVE m + 1 \in T
    <3> SUFFICES ASSUME m + 1 <= n
                 PROVE  Response!Content(o \o g[m + 1]) = Response!Content(begun[m + 1])
      OBVIOUS
    <3>1. m + 1 \in 1..n /\ m \in 0..n /\ (m + 1) - 1 = m
      BY <1>2, <2>2
    <3>2. Response!Content(o \o g[m]) = Response!Content(begun[m])
      BY <1>2, <2>2, <3>1
    <3> HIDE DEF T
    <3>3. PICK d : d = ds[m + 1]
      OBVIOUS
    <3>4. d \in Delta /\ g[m] \in Seq(Delta) /\ begun[m] \in Seq(Delta)
      BY <1>2, <1>3, <1>5, <3>1, <3>3
    <3>5. g[m + 1] = g[m] \o Response!Spelled(d) /\ begun[m + 1] = begun[m] \o <<d>>
      BY <1>3, <1>5, <3>1, <3>3
    <3>6. o \o g[m + 1] = (o \o g[m]) \o Response!Spelled(d) /\ o \o g[m] \in Seq(Delta)
      <4>1. PICK e : e = Response!Spelled(d)
        OBVIOUS
      <4>2. e \in Seq(Delta)
        BY <3>4, <4>1, SpelledTyped
      <4>3. PICK h : h = g[m]
        OBVIOUS
      <4>4. h \in Seq(Delta) /\ g[m + 1] = h \o e
        BY <3>4, <3>5, <4>1, <4>3
      <4>5. o \o (h \o e) = (o \o h) \o e
        BY <4>2, <4>4, Associative
      <4>6. o \o h \in Seq(Delta)
        BY <4>4, Joined
      <4> QED
        BY <4>1, <4>3, <4>4, <4>5, <4>6
    <3>7. Response!Content(o \o g[m + 1]) = Heard(Response!Content(o \o g[m]), d)
      BY <3>4, <3>6, SpelledAddsAsWhole
    <3>8. Response!Content(begun[m + 1]) = Heard(Response!Content(begun[m]), d)
      BY <3>4, <3>5, ContentOneMore
    <3> QED
      BY <3>2, <3>7, <3>8
  <2>3. T \in SUBSET Nat
    OBVIOUS
  <2> HIDE DEF T
  <2> QED
    BY <2>1, <2>2, <2>3, Reaches
<1>7. Response!Content(o \o g[n]) = Response!Content(begun[n])
  <2>1. n \in T
    BY <1>2, <1>6
  <2>2. n <= n
    BY <1>2
  <2> QED
    BY <2>1, <2>2
<1> QED
  BY <1>3, <1>5, <1>7

\* A delta after which decoding may go on ends with no stop string.
LEMMA TakenHeard ==
  ASSUME NEW st \in Explained, NEW d \in Delta, Response!Taken(st, d).go
  PROVE  /\ st.go /\ Response!Taken(st, d).visible = Heard(st.visible, d)
         /\ d.channel = "content" => ~Response!StopMatched(Heard(st.visible, d))
<1>1. PICK seen : seen = Heard(st.visible, d)
  OBVIOUS
<1>2. PICK next : next = [st EXCEPT !.visible = seen]
  OBVIOUS
<1>3. seen \in Text
  BY <1>1, HeardTyped DEF Explained, Driven
<1>4. next \in Driven /\ next.visible = seen /\ next.go = st.go
  BY <1>2, <1>3 DEF Explained, Driven
<1>5. Response!Taken(st, d) = IF ~st.go THEN st
                              ELSE IF d.channel = "stop" THEN Response!Stopped(st)
                              ELSE IF d.channel = "content" /\ Response!StopMatched(seen)
                                   THEN Response!Stopped(next) ELSE Response!Emitted(next, d)
  BY <1>1, <1>2 DEF Response!Taken, Heard
<1>6. \A q \in Driven : ~Response!Stopped(q).go
  BY DEF Response!Stopped, Driven
<1>7. st \in Driven
  BY DEF Explained
<1>8. /\ st.go /\ d.channel # "stop" /\ ~(d.channel = "content" /\ Response!StopMatched(seen))
      /\ Response!Taken(st, d) = Response!Emitted(next, d)
  BY <1>4, <1>5, <1>6, <1>7
<1>9. Response!Emitted(next, d).visible = seen
  BY <1>4 DEF Response!Emitted, Driven
<1> QED
  BY <1>1, <1>8, <1>9

\* While decoding goes on, what is matched is all of the answer.
HeardInv == part = "response" /\ phase = "decode" => visible = Response!Content(out)

LEMMA TokenHeard ==
  ASSUME ResponseTypes, CauseInv, visible = Response!Content(out),
         NEW piece \in Tokens, Response!Token(piece), phase' = "decode",
         NEW ds, ds = Response!FeedDeltas(piece)
  PROVE  /\ visible' = Response!Content(out')
         /\ \A k \in DOMAIN ds :
              ds[k].channel = "content" => ~Response!StopMatched(Response!Content(out \o SubSeq(ds, 1, k)))
<1>1. piece \in Text /\ Response!Feed(piece) /\ phase = "decode"
  BY StringsAreText DEF Strings, Response!Token
<1>2. ds \in Seq(Delta) /\ out \in Seq(Delta) /\ out' = out \o Response!SpelledAll(ds)
  BY <1>1, FeedTyped, FeedKeepsTypes DEF ResponseTypes
<1>3. PICK n : n = Len(ds)
  OBVIOUS
<1>4. /\ n \in Nat /\ n \in 0..n /\ 0 \in 0..n /\ DOMAIN ds = 1..n
      /\ \A k \in 1..n : k \in 0..n /\ k - 1 \in 0..n /\ ds[k] \in Delta
  BY <1>2, <1>3
<1>5. PICK f \in [0..n -> Explained] :
        /\ f[0] = StartOfDeltas /\ f[n] = Response!TakenAll(ds)
        /\ \A k \in 1..n : f[k] = Response!Taken(f[k - 1], ds[k])
  BY <1>3, TokenKeeps
<1>6. f[n].go /\ visible' = f[n].visible
  BY <1>1, <1>5 DEF Response!Token
<1>7. PICK begun : begun = [k \in 0..n |-> out \o SubSeq(ds, 1, k)]
  OBVIOUS
<1>8. /\ \A k \in 0..n : begun[k] \in Seq(Delta)
      /\ \A k \in 1..n : begun[k] = begun[k - 1] \o <<ds[k]>>
      /\ begun[0] = out /\ begun[n] = out \o ds
  <2>1. /\ \A k \in 0..n : out \o SubSeq(ds, 1, k) \in Seq(Delta)
        /\ \A k \in 1..n : out \o SubSeq(ds, 1, k) = (out \o SubSeq(ds, 1, k - 1)) \o <<ds[k]>>
        /\ out \o SubSeq(ds, 1, 0) = out /\ SubSeq(ds, 1, n) = ds
    BY <1>2, <1>3, FurtherDeltas
  <2> QED
    BY <1>4, <1>7, <2>1
<1> DEFINE Matched(k) == ds[k].channel = "content" /\ Response!StopMatched(f[k].visible)
           T == {m \in Nat : m <= n /\ f[m].go =>
                   /\ f[m].visible = Response!Content(begun[m])
                   /\ \A k \in 1..m : ~Matched(k) /\ f[k].visible = Response!Content(begun[k])}
<1>9. T = Nat
  <2>1. 0 \in T
    <3>1. f[0].visible = Response!Content(begun[0])
      BY <1>5, <1>8 DEF StartOfDeltas
    <3> QED
      BY <3>1
  <2>2. ASSUME NEW m \in T PROVE m + 1 \in T
    <3>1. PICK j : j = m + 1
      OBVIOUS
    <3> SUFFICES ASSUME j <= n, f[j].go
                 PROVE  /\ f[j].visible = Response!Content(begun[j])
                        /\ \A k \in 1..j : ~Matched(k) /\ f[k].visible = Response!Content(begun[k])
      BY <2>2, <3>1
    <3>2. j \in 1..n /\ m \in 0..n /\ j - 1 = m /\ m <= n
      BY <1>4, <2>2, <3>1
    <3>3. f[m] \in Explained /\ ds[j] \in Delta /\ f[j] = Response!Taken(f[m], ds[j])
      BY <1>4, <1>5, <3>2
    <3>4. /\ f[m].go /\ f[j].visible = Heard(f[m].visible, ds[j])
          /\ ds[j].channel = "content" => ~Response!StopMatched(Heard(f[m].visible, ds[j]))
      BY <3>3, TakenHeard
    <3>5. /\ f[m].visible = Response!Content(begun[m])
          /\ \A k \in 1..m : ~Matched(k) /\ f[k].visible = Response!Content(begun[k])
      BY <2>2, <3>2, <3>4
    <3> HIDE DEF T
    <3>6. Response!Content(begun[j]) = Heard(Response!Content(begun[m]), ds[j])
      <4>1. begun[j] = begun[m] \o <<ds[j]>> /\ begun[m] \in Seq(Delta)
        BY <1>8, <3>2
      <4> QED
        BY <3>3, <4>1, ContentOneMore
    <3>7. ~Matched(j) /\ f[j].visible = Response!Content(begun[j])
      BY <3>4, <3>5, <3>6
    <3> HIDE DEF Matched
    <3>8. \A k \in 1..j : k = j \/ k \in 1..m
      BY <1>4, <3>2
    <3> QED
      BY <3>5, <3>7, <3>8
  <2>3. T \in SUBSET Nat
    OBVIOUS
  <2> HIDE DEF T
  <2> QED
    BY <2>1, <2>2, <2>3, Reaches
<1>10. /\ f[n].visible = Response!Content(begun[n])
       /\ \A k \in 1..n : ~Matched(k) /\ f[k].visible = Response!Content(begun[k])
  <2>1. n \in T
    BY <1>4, <1>9
  <2>2. n <= n
    BY <1>4
  <2> HIDE DEF Matched
  <2> QED
    BY <1>6, <2>1, <2>2
<1>11. visible' = Response!Content(out')
  BY <1>2, <1>6, <1>8, <1>10, SpelledAllAddsAsWhole
<1>12. ASSUME NEW k \in 1..n, ds[k].channel = "content"
       PROVE  ~Response!StopMatched(Response!Content(out \o SubSeq(ds, 1, k)))
  <2>1. begun[k] = out \o SubSeq(ds, 1, k)
    BY <1>4, <1>7
  <2>2. ~Response!StopMatched(f[k].visible) /\ f[k].visible = Response!Content(begun[k])
    BY <1>10, <1>12
  <2> QED
    BY <2>1, <2>2
<1> QED
  BY <1>4, <1>11, <1>12

LEMMA HeardInit == ServingInit => HeardInv
<1> SUFFICES ASSUME ServingInit PROVE HeardInv
  OBVIOUS
<1>1. out = <<>> /\ visible = <<>>
  BY DEF ServingInit, Response!DeliveryInit, Response!Init
<1>2. <<>> \in Seq(Delta) /\ Len(<<>>) = 0
  OBVIOUS
<1>3. Response!Content(<<>>) = <<>>
  <2>1. PICK f \in [0..0 -> Text] : f[0] = <<>> /\ f[0] = Response!Content(<<>>)
    BY <1>2, HearsOn
  <2> QED
    BY <2>1
<1> QED
  BY <1>1, <1>3 DEF HeardInv

LEMMA HeardKeeps ==
  ASSUME ResponseInv, HeardInv, [ServingNext]_serving
  PROVE  HeardInv'
<1>1. ResponseTypes /\ CauseInv /\ part' = part
  BY ResponsePart DEF ResponseInv
<1>2. CASE part = "response" /\ Response!DeliveryNext
  <2>1. CASE \E piece \in Tokens : Response!Token(piece)
    <3>1. PICK piece \in Tokens : Response!Token(piece)
      BY <2>1
    <3>2. phase = "decode"
      BY <3>1 DEF Response!Token
    <3>3. phase' = "decode" => visible' = Response!Content(out')
      BY <1>1, <1>2, <3>1, <3>2, TokenHeard DEF HeardInv
    <3> QED
      BY <3>3 DEF HeardInv
  <2>2. CASE Response!EndOfText \/ Response!ContextFull \/ Response!ClientLeaves
    BY <1>1, <2>2 DEF Response!EndOfText, Response!ContextFull, Response!ClientLeaves, Response!Ends,
                      Response!vars, HeardInv
  <2>3. CASE Response!Respond
    BY <2>3 DEF Response!Respond, HeardInv
  <2> QED
    BY <1>2, <2>1, <2>2, <2>3 DEF Response!DeliveryNext
<1>3. CASE part # "response"
  BY <1>1, <1>3 DEF HeardInv
<1>4. CASE UNCHANGED response
  BY <1>1, <1>4 DEF response, parsed, driver, HeardInv
<1> QED
  BY <1>2, <1>3, <1>4, ResponsePart

LEMMA HeardInductive == ServingSpec => [](ResponseInv /\ HeardInv)
<1>1. ServingInit => ResponseInv /\ HeardInv
  BY ResponseInitKeeps, HeardInit
<1>2. ResponseInv /\ HeardInv /\ [ServingNext]_serving => (ResponseInv /\ HeardInv)'
  BY ResponseKeeps, HeardKeeps
<1> QED
  BY <1>1, <1>2, PTL DEF ServingSpec

\* What was fed last is what the text got longer by.
LEMMA PieceOfFed ==
  ASSUME fed \in Text, NEW piece \in Text, fed' = fed \o piece
  PROVE  Response!From(fed', Len(fed) + 1) = piece
<1>1. PICK n : n = Len(fed)
  OBVIOUS
<1>2. PICK m : m = Len(piece)
  OBVIOUS
<1>3. n \in Nat /\ m \in Nat
  BY <1>1, <1>2 DEF Text
<1>4. PICK s : s = fed \o piece
  OBVIOUS
<1>5. s \in Seq(Letters) /\ Len(s) = n + m /\ \A i \in 1..(n + m) : s[i] = IF i <= n THEN fed[i] ELSE piece[i - n]
  BY <1>1, <1>2, <1>4, ConcatProperties DEF Text
<1>6. PICK r : r = SubSeq(s, n + 1, n + m)
  OBVIOUS
<1>7. r \in Seq(Letters) /\ Len(r) = m /\ \A i \in 1..m : r[i] = s[n + i]
  <2>1. n + 1 \in Int /\ n + m \in Int /\ (n + m) - (n + 1) + 1 = m
        /\ (n + 1 <= n + m => (n + m) - (n + 1) + 1 = m) /\ (~(n + 1 <= n + m) => m = 0)
    BY <1>3
  <2>2. \A i \in (n + 1)..(n + m) : s[i] \in Letters
    <3>1. \A i \in (n + 1)..(n + m) : i \in 1..Len(s)
      BY <1>3, <1>5
    <3> QED
      BY <1>5, <3>1
  <2>3. /\ r \in Seq(Letters) /\ Len(r) = m
        /\ \A i \in 1..m : r[i] = s[(n + 1) + i - 1]
    BY <1>6, <2>1, <2>2, SubSeqProperties
  <2>4. \A i \in 1..m : (n + 1) + i - 1 = n + i
    BY <1>3
  <2> QED
    BY <2>3, <2>4
<1>8. ASSUME NEW i \in 1..m PROVE r[i] = piece[i]
  <2>1. n + i \in 1..(n + m) /\ ~(n + i <= n) /\ (n + i) - n = i
    BY <1>3
  <2> QED
    BY <1>5, <1>7, <2>1
<1>9. r = piece
  BY <1>2, <1>7, <1>8, SeqEqual DEF Text
<1> QED
  BY <1>1, <1>4, <1>5, <1>6, <1>9 DEF Response!From

\* server.cpp:301: whatever the tokens, the deltas and the stop strings, and
\* wherever a stop string began: no token is sampled after a delta that ended
\* the answer with one.
THEOREM StopsWhereStringEnds == ServingSpec => StopsAtDeltaEnd
<1> DEFINE A == tokens' # tokens /\ phase' = "decode" =>
                  LET new == Response!FeedDeltas(Response!From(fed', Len(fed) + 1))
                  IN  \A k \in DOMAIN new :
                        new[k].channel = "content" =>
                          ~Response!StopMatched(Response!Content(out \o SubSeq(new, 1, k)))
<1>1. ResponseInv /\ HeardInv /\ [ServingNext]_serving => [A]_(Response!dvars)
  <2> SUFFICES ASSUME ResponseInv, HeardInv, [ServingNext]_serving,
                      tokens' # tokens, phase' = "decode",
                      NEW new, new = Response!FeedDeltas(Response!From(fed', Len(fed) + 1))
               PROVE  \A k \in DOMAIN new :
                        new[k].channel = "content" =>
                          ~Response!StopMatched(Response!Content(out \o SubSeq(new, 1, k)))
    OBVIOUS
  <2>1. ResponseTypes /\ CauseInv
    BY DEF ResponseInv
  <2>2. part = "response" /\ Response!DeliveryNext
    BY ResponsePart DEF response, driver
  <2>3. PICK piece \in Tokens : Response!Token(piece)
    BY <2>2 DEF Response!DeliveryNext, Response!EndOfText, Response!ContextFull, Response!ClientLeaves,
                Response!Ends, Response!Respond
  <2>4. piece \in Text /\ fed \in Text /\ fed' = fed \o piece /\ phase = "decode"
    BY <2>1, <2>3, StringsAreText DEF Strings, Response!Token, Response!Feed, ResponseTypes, ParserTypes
  <2>5. new = Response!FeedDeltas(piece)
    BY <2>4, PieceOfFed
  <2>6. visible = Response!Content(out)
    BY <2>2, <2>4 DEF HeardInv
  <2> QED
    BY <2>1, <2>3, <2>5, <2>6, TokenHeard
<1>2. ServingSpec => [][A]_(Response!dvars)
  BY <1>1, HeardInductive, PTL DEF ServingSpec
<1> QED
  BY <1>2 DEF StopsAtDeltaEnd, Response!StopsAtDeltaEnd

-----------------------------------------------------------------------------
(* Where a turn ends.                                                      *)

NoStop(ds) == \A i \in 1..Len(ds) : ds[i].channel # "stop"

\* Nothing comes after the end of a turn.
StopLast(ds) == \A i \in 1..Len(ds) : ds[i].channel = "stop" => i = Len(ds)

LEMMA NoStopJoined ==
  ASSUME NEW a \in Seq(Delta), NEW b \in Seq(Delta), NoStop(a)
  PROVE  NoStop(b) => NoStop(a \o b)
<1> SUFFICES ASSUME NoStop(b) PROVE NoStop(a \o b)
  OBVIOUS
<1>1. PICK c : c = a \o b
  OBVIOUS
<1>2. /\ Len(c) = Len(a) + Len(b) /\ Len(a) \in Nat /\ Len(b) \in Nat
      /\ \A i \in 1..(Len(a) + Len(b)) : c[i] = IF i <= Len(a) THEN a[i] ELSE b[i - Len(a)]
  BY <1>1, Joined
<1>3. ASSUME NEW i \in 1..Len(c) PROVE c[i].channel # "stop"
  <2>1. CASE i <= Len(a)
    <3>1. i \in 1..Len(a) /\ i \in 1..(Len(a) + Len(b))
      BY <1>2, <2>1
    <3> QED
      BY <1>2, <2>1, <3>1 DEF NoStop
  <2>2. CASE ~(i <= Len(a))
    <3>1. i - Len(a) \in 1..Len(b) /\ i \in 1..(Len(a) + Len(b))
      BY <1>2, <2>2
    <3> QED
      BY <1>2, <2>2, <3>1 DEF NoStop
  <2> QED
    BY <2>1, <2>2
<1> QED
  BY <1>1, <1>3 DEF NoStop

LEMMA StopComesLast ==
  ASSUME NEW a \in Seq(Delta), NoStop(a)
  PROVE  StopLast(a) /\ StopLast(a \o Response!StopDelta)
<1>1. Response!StopDelta \in Seq(Delta) /\ Len(Response!StopDelta) = 1
  BY StopTyped DEF Response!StopDelta
<1>2. PICK c : c = a \o Response!StopDelta
  OBVIOUS
<1>3. /\ Len(c) = Len(a) + 1 /\ Len(a) \in Nat
      /\ \A i \in 1..(Len(a) + 1) : c[i] = IF i <= Len(a) THEN a[i] ELSE Response!StopDelta[i - Len(a)]
  <2>1. PICK e : e = Response!StopDelta
    OBVIOUS
  <2>2. e \in Seq(Delta) /\ Len(e) = 1 /\ Len(a) \in Nat /\ c = a \o e
    BY <1>1, <1>2, <2>1
  <2>3. /\ Len(a \o e) = Len(a) + Len(e)
        /\ \A i \in 1..(Len(a) + Len(e)) : (a \o e)[i] = IF i <= Len(a) THEN a[i] ELSE e[i - Len(a)]
    BY <2>2, Joined
  <2> QED
    BY <2>1, <2>2, <2>3
<1>4. ASSUME NEW i \in 1..Len(c), c[i].channel = "stop" PROVE i = Len(c)
  <2> SUFFICES ASSUME i <= Len(a) PROVE FALSE
    BY <1>3
  <2>1. i \in 1..Len(a) /\ i \in 1..(Len(a) + 1)
    BY <1>3
  <2> QED
    BY <1>3, <1>4, <2>1 DEF NoStop
<1> QED
  BY <1>2, <1>4 DEF NoStop, StopLast

LEMMA NoStopInText ==
  ASSUME NEW th, NEW t
  PROVE  NoStop(Response!TextDelta(th, t)) /\ NoStop(Response!CallDelta(t)) /\ NoStop(<<>>)
<1>e. NoStop(<<>>)
  <2>1. Len(<<>>) = 0
    OBVIOUS
  <2>2. 1..0 = {}
    OBVIOUS
  <2> QED
    BY <2>1, <2>2 DEF NoStop
<1>o. ASSUME NEW d, d.channel # "stop" PROVE NoStop(<<d>>)
  <2>1. PICK s : s = <<d>>
    OBVIOUS
  <2>2. Len(s) = 1 /\ s[1] = d
    BY <2>1
  <2>3. \A i \in 1..1 : i = 1
    OBVIOUS
  <2> QED
    BY <1>o, <2>1, <2>2, <2>3 DEF NoStop
<1>1. ASSUME t = <<>> PROVE NoStop(Response!TextDelta(th, t))
  <2>1. Response!TextDelta(th, t) = <<>>
    BY <1>1 DEF Response!TextDelta
  <2> QED
    BY <1>e, <2>1
<1>2. ASSUME t # <<>> PROVE NoStop(Response!TextDelta(th, t))
  <2>1. PICK d : d = [channel |-> IF th THEN "reasoning" ELSE "content", text |-> t]
    OBVIOUS
  <2>2. d.channel # "stop"
    BY <2>1
  <2>3. Response!TextDelta(th, t) = <<d>>
    BY <1>2, <2>1 DEF Response!TextDelta
  <2> QED
    BY <1>o, <2>2, <2>3
<1>3. NoStop(Response!CallDelta(t))
  <2>1. PICK d : d = [channel |-> "call", text |-> t]
    OBVIOUS
  <2>2. Response!CallDelta(t) = <<d>> /\ d.channel = "call"
    BY <2>1 DEF Response!CallDelta
  <2> QED
    BY <1>o, <2>2
<1> QED
  BY <1>1, <1>2, <1>3, <1>e

\* What one pass adds: no end of a turn, and some text behind is left.
Proceeds(p, q) ==
  \E new \in Seq(Delta), i \in Nat \ {0} :
    NoStop(new) /\ q.deltas = p.deltas \o new /\ q.buf = Response!From(p.buf, i)

\* Or its last delta is the end of the turn, which is in the text.
EndsTurn(p, q) ==
  \E new \in Seq(Delta) :
    /\ NoStop(new) /\ q.deltas = (p.deltas \o new) \o Response!StopDelta /\ ~q.more
    /\ Response!Places(p.buf, Boundary) # {} /\ q.buf = <<>>

LEMMA DrainToolProceeds ==
  ASSUME NEW p \in Loop, NEW lim \in 0..Len(p.buf)
  PROVE  Proceeds(p, Response!DrainTool(p, lim))
<1> DEFINE ends == Response!Places(p.buf, ToolEnd)
           e    == Response!First(ends)
<1>1. p.buf \in Text /\ p.body \in Text /\ Len(p.buf) \in Nat /\ p.deltas \in Seq(Delta)
  BY DEF Loop, Text
<1>2. CASE ends = {}
  <2>1. PICK b : b = p.body \o SubSeq(p.buf, 1, lim)
    OBVIOUS
  <2>2. PICK r : r = Response!From(p.buf, lim + 1)
    OBVIOUS
  <2>3. Response!DrainTool(p, lim) = [[p EXCEPT !.body = b, !.buf = r] EXCEPT !.more = FALSE]
    BY <1>2, <2>1, <2>2 DEF Response!DrainTool, Response!Break
  <2>4. PICK q : q = Response!DrainTool(p, lim)
    OBVIOUS
  <2>5. q.deltas = p.deltas /\ q.buf = r
    BY <2>3, <2>4 DEF Loop
  <2>6. <<>> \in Seq(Delta) /\ p.deltas \o <<>> = p.deltas /\ NoStop(<<>>)
    BY <1>1, ConcatEmptySeq, NoStopInText
  <2>7. lim + 1 \in Nat \ {0}
    BY <1>1
  <2> QED
    BY <2>2, <2>4, <2>5, <2>6, <2>7 DEF Proceeds
<1>3. CASE ends # {}
  <2>1. ends \in SUBSET Nat /\ e \in ends /\ e \in 1..Len(p.buf)
    BY <1>1, <1>3, PlacesInText, FirstIsLeast
  <2>2. Len(ToolEnd) \in Nat
    BY StringsAreText DEF Response!Markers
  <2>3. e - 1 \in Int /\ e - 1 <= Len(p.buf) /\ e + Len(ToolEnd) \in Nat \ {0}
    BY <1>1, <2>1, <2>2
  <2>4. PICK t : t = p.body \o SubSeq(p.buf, 1, e - 1)
    OBVIOUS
  <2>5. t \in Text
    <3>1. SubSeq(p.buf, 1, e - 1) \in Text
      BY <1>1, <2>3, Cuts
    <3> QED
      BY <1>1, <2>4, <3>1 DEF Text
  <2>6. PICK new : new = Response!CallDelta(t)
    OBVIOUS
  <2>7. new \in Seq(Delta) /\ NoStop(new)
    BY <2>5, <2>6, CallTyped, NoStopInText
  <2>8. PICK r : r = Response!From(p.buf, e + Len(ToolEnd))
    OBVIOUS
  <2>9. PICK d : d = p.deltas \o new
    OBVIOUS
  <2>10. PICK q : q = Response!DrainTool(p, lim)
    OBVIOUS
  <2>11. q = [p EXCEPT !.deltas = d, !.body = <<>>, !.tool = FALSE, !.buf = r]
    BY <1>3, <2>4, <2>6, <2>8, <2>9, <2>10 DEF Response!DrainTool
  <2>12. q.deltas = d /\ q.buf = r
    BY <2>11 DEF Loop
  <2> QED
    BY <2>3, <2>7, <2>8, <2>9, <2>10, <2>12 DEF Proceeds
<1> QED
  BY <1>2, <1>3

LEMMA DrainTextProceeds ==
  ASSUME NEW p \in Loop, NEW lim \in 0..Len(p.buf)
  PROVE  Proceeds(p, Response!DrainText(p, lim)) \/ EndsTurn(p, Response!DrainText(p, lim))
<1> DEFINE starts(m) == {i \in Response!Places(p.buf, m) : i <= lim}
           all == UNION {starts(m) : m \in Response!Searched}
           i   == Response!First(all)
           mk  == CHOOSE m \in Response!Searched : i \in starts(m)
<1>1. p.buf \in Text /\ Len(p.buf) \in Nat /\ p.deltas \in Seq(Delta)
  BY DEF Loop, Text
<1>2. \A m : starts(m) \subseteq 1..Len(p.buf)
  BY <1>1, PlacesInText
<1>3. ASSUME NEW n \in Int, n <= Len(p.buf)
      PROVE  LET new == Response!TextDelta(p.think, SubSeq(p.buf, 1, n))
             IN  new \in Seq(Delta) /\ NoStop(new)
  <2>1. PICK t : t = SubSeq(p.buf, 1, n)
    OBVIOUS
  <2>2. t \in Text
    BY <1>1, <1>3, <2>1, Cuts
  <2>3. [channel |-> IF p.think THEN "reasoning" ELSE "content", text |-> t] \in Delta
    BY <2>2 DEF Delta
  <2>4. Response!TextDelta(p.think, t) \in Seq(Delta)
    BY <2>3 DEF Response!TextDelta
  <2> QED
    BY <2>1, <2>4, NoStopInText
<1>4. CASE all = {}
  <2>1. PICK new : new = Response!TextDelta(p.think, SubSeq(p.buf, 1, lim))
    OBVIOUS
  <2>2. new \in Seq(Delta) /\ NoStop(new)
    BY <1>1, <1>3, <2>1
  <2>3. PICK d : d = p.deltas \o new
    OBVIOUS
  <2>4. PICK r : r = Response!From(p.buf, lim + 1)
    OBVIOUS
  <2>5. PICK q : q = Response!DrainText(p, lim)
    OBVIOUS
  <2>6. q = [[[p EXCEPT !.deltas = d] EXCEPT !.buf = r] EXCEPT !.more = FALSE]
    BY <1>4, <2>1, <2>3, <2>4, <2>5 DEF Response!DrainText, Response!Break, Loop
  <2>7. q.deltas = d /\ q.buf = r
    BY <2>6 DEF Loop
  <2>8. lim + 1 \in Nat \ {0}
    BY <1>1
  <2> QED
    BY <2>2, <2>3, <2>4, <2>5, <2>7, <2>8 DEF Proceeds
<1>5. CASE all # {}
  <2>1. all \in SUBSET Nat /\ i \in all
    <3>1. all \in SUBSET Nat
      BY <1>1, <1>2
    <3> HIDE DEF all
    <3> QED
      BY <1>5, <3>1, FirstIsLeast
  <2>2. i \in 1..Len(p.buf) /\ mk \in Response!Searched /\ i \in starts(mk)
    BY <1>2, <2>1
  <2>3. Len(mk) \in Nat
    BY <2>2, StringsAreText DEF Response!Markers, Response!Searched
  <2>4. PICK new : new = Response!TextDelta(p.think, SubSeq(p.buf, 1, i - 1))
    OBVIOUS
  <2>5. new \in Seq(Delta) /\ NoStop(new)
    <3>1. i - 1 \in Int /\ i - 1 <= Len(p.buf)
      BY <1>1, <2>2
    <3> QED
      BY <1>3, <2>4, <3>1
  <2>6. PICK d : d = p.deltas \o new
    OBVIOUS
  <2>7. PICK r : r = Response!From(p.buf, i + Len(mk))
    OBVIOUS
  <2>8. PICK b : b = [[p EXCEPT !.deltas = d] EXCEPT !.buf = r]
    OBVIOUS
  <2>9. PICK q : q = Response!DrainText(p, lim)
    OBVIOUS
  <2>10. q = Response!AfterMarker(b, mk)
    BY <1>5, <2>4, <2>6, <2>7, <2>8, <2>9 DEF Response!DrainText, Loop
  <2>11. i + Len(mk) \in Nat \ {0}
    BY <2>2, <2>3
  <2>12. CASE mk \in {ThinkEnd, ToolBegin}
    <3>1. q.deltas = d /\ q.buf = r
      BY <2>8, <2>10, <2>12 DEF Response!AfterMarker, Loop
    <3> QED
      BY <2>5, <2>6, <2>7, <2>9, <2>11, <3>1 DEF Proceeds
  <2>13. CASE mk \notin {ThinkEnd, ToolBegin}
    <3>1. mk = Boundary
      BY <2>2, <2>13 DEF Response!Searched
    <3>2. Response!Places(p.buf, Boundary) # {}
      BY <2>2, <3>1
    <3>3. PICK e : e = d \o Response!StopDelta
      OBVIOUS
    <3>4. q = [[b EXCEPT !.deltas = e, !.done = TRUE, !.buf = <<>>] EXCEPT !.more = FALSE]
      BY <2>8, <2>10, <2>13, <3>3 DEF Response!AfterMarker, Response!Break, Loop
    <3>5. q.deltas = e /\ q.buf = <<>> /\ ~q.more
      BY <2>8, <3>4 DEF Loop
    <3> QED
      BY <2>5, <2>6, <2>9, <3>2, <3>3, <3>5 DEF EndsTurn
  <2> QED
    BY <2>12, <2>13
<1> QED
  BY <1>4, <1>5

LEMMA IterationProceeds ==
  ASSUME NEW p \in Loop, NEW flush \in BOOLEAN, NEW q, q = Response!Iteration(p, flush)
  PROVE  \/ q = p
         \/ p.more /\ (Proceeds(p, q) \/ EndsTurn(p, q))
<1> DEFINE lim == Len(p.buf) - (IF flush THEN 0 ELSE Response!Holdback(p.buf))
<1>1. p.buf \in Text /\ Len(p.buf) \in Nat /\ Response!Holdback(p.buf) \in 0..Len(p.buf)
  BY HoldbackIsLongest DEF Loop, Text
<1>2. lim \in 0..Len(p.buf)
  BY <1>1
<1> HIDE DEF lim
<1>3. /\ Proceeds(p, Response!DrainTool(p, lim))
      /\ Proceeds(p, Response!DrainText(p, lim)) \/ EndsTurn(p, Response!DrainText(p, lim))
  BY <1>2, DrainToolProceeds, DrainTextProceeds
<1>4. q = p \/ (p.more /\ q \in {Response!DrainTool(p, lim), Response!DrainText(p, lim)})
  BY DEF Response!Iteration, lim, Loop
<1> QED
  BY <1>3, <1>4

\* A turn that ends in this piece ends with the last delta.
LEMMA FeedStopsLast ==
  ASSUME ParserTypes, NEW piece \in Text
  PROVE  StopLast(Response!FeedDeltas(piece))
<1> DEFINE X == {p \in Loop : (p.more => NoStop(p.deltas)) /\ StopLast(p.deltas)}
<1>1. PICK s : s = buf \o piece
  OBVIOUS
<1>2. s \in Text /\ Len(s) \in Nat
  BY <1>1 DEF ParserTypes, Text
<1>3. <<>> \in Seq(Delta) /\ NoStop(<<>>) /\ StopLast(<<>>)
  BY StopTyped, NoStopInText, StopComesLast
<1>4. PICK f \in [0..(Len(s) + 1) -> Loop] :
        /\ f[0] = Begins(s) /\ f[Len(s) + 1] = Response!Drain(s, FALSE)
        /\ \A k \in 1..(Len(s) + 1) : f[k] = Response!Iteration(f[k - 1], FALSE)
  <2>1. FALSE \in BOOLEAN
    OBVIOUS
  <2> QED
    BY <1>2, <2>1, DrainIterates
<1>5. f[0] \in X
  <2>1. f[0] \in Loop /\ f[0].deltas = <<>>
    BY <1>2, <1>4 DEF Begins
  <2> QED
    BY <1>3, <2>1
<1>6. ASSUME NEW k \in 1..(Len(s) + 1), f[k - 1] \in X PROVE f[k] \in X
  <2>1. PICK p : p = f[k - 1]
    OBVIOUS
  <2>2. PICK q : q = f[k]
    OBVIOUS
  <2>3. p \in Loop /\ (p.more => NoStop(p.deltas)) /\ StopLast(p.deltas)
    BY <1>6, <2>1
  <2>4. q \in Loop
    BY <1>2, <1>4, <2>2
  <2>5. q = Response!Iteration(p, FALSE)
    BY <1>4, <2>1, <2>2
  <2>6. p.deltas \in Seq(Delta)
    BY <2>3 DEF Loop
  <2>7. \/ q = p
        \/ p.more /\ (Proceeds(p, q) \/ EndsTurn(p, q))
    <3>1. FALSE \in BOOLEAN
      OBVIOUS
    <3> QED
      BY <2>3, <2>5, <3>1, IterationProceeds
  <2>8. CASE q = p
    BY <2>2, <2>3, <2>8
  <2>9. CASE p.more /\ Proceeds(p, q)
    <3>1. PICK new \in Seq(Delta) : NoStop(new) /\ q.deltas = p.deltas \o new
      BY <2>9 DEF Proceeds
    <3>2. NoStop(q.deltas) /\ q.deltas \in Seq(Delta)
      BY <2>3, <2>6, <2>9, <3>1, NoStopJoined, Joined
    <3>3. StopLast(q.deltas)
      BY <3>2, StopComesLast
    <3> QED
      BY <2>2, <2>4, <3>2, <3>3
  <2>10. CASE p.more /\ EndsTurn(p, q)
    <3>1. PICK new \in Seq(Delta) :
            NoStop(new) /\ q.deltas = (p.deltas \o new) \o Response!StopDelta /\ ~q.more
      BY <2>10 DEF EndsTurn
    <3>2. NoStop(p.deltas \o new) /\ p.deltas \o new \in Seq(Delta)
      BY <2>3, <2>6, <2>10, <3>1, NoStopJoined, Joined
    <3>3. StopLast(q.deltas)
      BY <3>1, <3>2, StopComesLast
    <3> QED
      BY <2>2, <2>4, <3>1, <3>3
  <2> QED
    BY <2>7, <2>8, <2>9, <2>10
<1>7. PICK n : n = Len(s) + 1
  OBVIOUS
<1>8. n \in Nat /\ n \in 0..n
  BY <1>2, <1>7
<1>9. f[n] \in X
  <2> HIDE DEF X
  <2> QED
    BY <1>5, <1>6, <1>7, <1>8, Stays
<1>10. StopLast(f[n].deltas)
  BY <1>9
<1>11. Response!FeedDeltas(piece) = IF done THEN <<>> ELSE f[n].deltas
  BY <1>1, <1>4, <1>7 DEF Response!FeedDeltas
<1> QED
  BY <1>3, <1>10, <1>11

\* What is left behind a place shows no marker the text did not.
LEMMA PlacesBehind ==
  ASSUME NEW s \in Text, NEW i \in Nat \ {0}, NEW m \in Response!Markers, Response!Places(s, m) = {}
  PROVE  Response!Places(Response!From(s, i), m) = {}
<1>1. PICK L : L = Len(s)
  OBVIOUS
<1>2. L \in Nat /\ L \in 0..Len(s) /\ L <= Len(s) /\ L \in Int
  BY <1>1 DEF Text
<1>3. PICK u : u = SubSeq(s, i, L)
  OBVIOUS
<1>4. Response!From(s, i) = u
  BY <1>1, <1>3 DEF Response!From
<1>5. CASE i \in 1..(L + 1)
  <2>1. ASSUME NEW k \in Response!Places(u, m) PROVE FALSE
    <3>1. i + k - 1 \in i..L /\ Response!At(s, i + k - 1, m)
      BY <1>2, <1>3, <1>5, <2>1, WindowShows
    <3>2. i + k - 1 \in 1..Len(s)
      BY <1>1, <1>2, <1>5, <3>1
    <3> QED
      BY <3>1, <3>2 DEF Response!Places
  <2> QED
    BY <1>4, <2>1
<1>6. CASE i \notin 1..(L + 1)
  <2>1. ~(i <= L)
    BY <1>2, <1>6
  <2>2. u \in Text /\ Len(u) = 0
    BY <1>2, <1>3, <2>1, Cuts
  <2>3. \A k \in Response!Places(u, m) : k \in 1..0
    BY <2>2, PlacesInText
  <2> QED
    BY <1>4, <2>3
<1> QED
  BY <1>5, <1>6

\* What is held back holds no end of a turn.
LEMMA HeldBackHasNoBoundary ==
  ASSUME NEW b \in Text, Partial(b)
  PROVE  Response!Places(b, Boundary) = {}
<1>1. PICK m \in Response!Markers : Len(b) < Len(m) /\ b = SubSeq(m, 1, Len(b))
  BY DEF Partial
<1>2. /\ Boundary \in Response!Markers /\ m \in Text /\ Len(m) \in Nat /\ Len(Boundary) \in Nat
      /\ Len(Boundary) >= 2 /\ Len(b) \in Nat
  <2>1. Boundary \in Response!Markers
    BY DEF Response!Markers
  <2> QED
    BY <1>1, <2>1, StringsAreText DEF Text
<1>3. ASSUME NEW i \in Response!Places(b, Boundary) PROVE FALSE
  <2>1. /\ Len(b) \in 0..Len(m) /\ 1 \in 1..(Len(b) + 1)
    BY <1>1, <1>2
  <2>2. /\ i \in 1..Len(b) /\ 1 + i - 1 + Len(Boundary) - 1 <= Len(b) /\ Response!At(m, 1 + i - 1, Boundary)
    BY <1>1, <1>2, <1>3, <2>1, WindowShows
  <2>3. 1 + i - 1 = i /\ i + Len(Boundary) <= Len(m) /\ i \in 1..Len(m)
    BY <1>1, <1>2, <2>2
  <2>4. SubSeq(m, i, i + Len(Boundary) - 1) = Boundary
    BY <2>2, <2>3 DEF Response!At
  <2>5. m \in {ThinkEnd, ToolBegin, ToolEnd, Boundary}
    BY <1>1 DEF Response!Markers
  <2> QED
    BY <2>3, <2>4, <2>5, TextAssumption
<1> QED
  BY <1>3

\* What finish() returns ends no turn.
LEMMA FinishEndsNoTurn ==
  ASSUME ParserTypes, Partial(buf)
  PROVE  NoStop(Response!FinishDeltas)
<1> DEFINE Y == {p \in Loop : NoStop(p.deltas) /\ Response!Places(p.buf, Boundary) = {}}
<1>1. buf \in Text /\ Len(buf) \in Nat /\ Boundary \in Response!Markers /\ TRUE \in BOOLEAN
  BY DEF ParserTypes, Text, Response!Markers
<1>2. <<>> \in Seq(Delta) /\ NoStop(<<>>)
  BY StopTyped, NoStopInText
<1>3. PICK f \in [0..(Len(buf) + 1) -> Loop] :
        /\ f[0] = Begins(buf) /\ f[Len(buf) + 1] = Response!Drain(buf, TRUE)
        /\ \A k \in 1..(Len(buf) + 1) : f[k] = Response!Iteration(f[k - 1], TRUE)
  BY <1>1, DrainIterates
<1>4. f[0] \in Y
  <2>1. f[0] \in Loop /\ f[0].deltas = <<>> /\ f[0].buf = buf
    BY <1>1, <1>3 DEF Begins
  <2> QED
    BY <1>1, <1>2, <2>1, HeldBackHasNoBoundary
<1>5. ASSUME NEW k \in 1..(Len(buf) + 1), f[k - 1] \in Y PROVE f[k] \in Y
  <2>1. PICK p : p = f[k - 1]
    OBVIOUS
  <2>2. PICK q : q = f[k]
    OBVIOUS
  <2>3. p \in Loop /\ NoStop(p.deltas) /\ Response!Places(p.buf, Boundary) = {}
    BY <1>5, <2>1
  <2>4. q \in Loop
    BY <1>1, <1>3, <2>2
  <2>5. q = Response!Iteration(p, TRUE)
    BY <1>3, <2>1, <2>2
  <2>6. p.deltas \in Seq(Delta) /\ p.buf \in Text
    BY <2>3 DEF Loop
  <2>7. \/ q = p
        \/ p.more /\ (Proceeds(p, q) \/ EndsTurn(p, q))
    BY <1>1, <2>3, <2>5, IterationProceeds
  <2>8. CASE q = p
    BY <2>2, <2>3, <2>8
  <2>9. CASE Proceeds(p, q)
    <3>1. PICK new \in Seq(Delta), i \in Nat \ {0} :
            NoStop(new) /\ q.deltas = p.deltas \o new /\ q.buf = Response!From(p.buf, i)
      BY <2>9 DEF Proceeds
    <3>2. NoStop(q.deltas)
      BY <2>3, <2>6, <3>1, NoStopJoined
    <3>3. Response!Places(q.buf, Boundary) = {}
      BY <1>1, <2>3, <2>6, <3>1, PlacesBehind
    <3> QED
      BY <2>2, <2>4, <3>2, <3>3
  <2>10. ~EndsTurn(p, q)
    BY <2>3 DEF EndsTurn
  <2> QED
    BY <2>7, <2>8, <2>9, <2>10
<1>6. PICK n : n = Len(buf) + 1
  OBVIOUS
<1>7. n \in Nat /\ n \in 0..n
  BY <1>1, <1>6
<1>8. f[n] \in Y
  <2> HIDE DEF Y
  <2> QED
    BY <1>4, <1>5, <1>6, <1>7, Stays
<1>9. PICK p : p = f[n]
  OBVIOUS
<1>10. p \in Loop /\ NoStop(p.deltas) /\ p.deltas \in Seq(Delta) /\ p.body \in Text
  BY <1>8, <1>9 DEF Loop
<1>11. Response!FinishDeltas = p.deltas \o Response!Unterminated(p)
  BY <1>3, <1>6, <1>9 DEF Response!FinishDeltas
<1>12. Response!Unterminated(p) \in Seq(Delta) /\ NoStop(Response!Unterminated(p))
  <2>1. Response!CallDelta(p.body) \in Seq(Delta) /\ NoStop(Response!CallDelta(p.body))
    BY <1>10, CallTyped, NoStopInText
  <2> QED
    BY <1>2, <2>1 DEF Response!Unterminated
<1> QED
  BY <1>10, <1>11, <1>12, NoStopJoined

-----------------------------------------------------------------------------
(* The stream without the ends of turns.                                     *)

\* What a delta adds to the stream.
Told(o, d) == IF d.channel = "stop" THEN o ELSE o \o <<d>>

LEMMA ToldTyped ==
  ASSUME NEW o \in Seq(Delta), NEW d \in Delta
  PROVE  Told(o, d) \in Seq(Delta)
BY DEF Told

LEMMA TellsOn ==
  ASSUME NEW ds \in Seq(Delta)
  PROVE  \E f \in [0..Len(ds) -> Seq(Delta)] :
           /\ f[0] = <<>> /\ f[Len(ds)] = Response!WithoutStops(ds)
           /\ \A k \in 1..Len(ds) : f[k] = Told(f[k - 1], ds[k])
<1> DEFINE n == Len(ds)
           IsLoop(f) == f = [k \in 0..n |-> IF k = 0 THEN <<>> ELSE Told(f[k - 1], ds[k])]
           F == CHOOSE f : IsLoop(f)
<1>1. n \in Nat /\ n = Len(ds) /\ \A k \in 1..n : ds[k] \in Delta
  OBVIOUS
<1>2. <<>> \in Seq(Delta)
  OBVIOUS
<1>3. Response!WithoutStops(ds) = F[n]
  BY DEF Response!WithoutStops, Told
<1> HIDE DEF n
<1>4. \E f : IsLoop(f)
  <2>1. PICK step : step = [k \in 1..n |-> [p \in Seq(Delta) |-> Told(p, ds[k])]]
    OBVIOUS
  <2>2. step \in [1..n -> [Seq(Delta) -> Seq(Delta)]]
    <3>1. \A k \in 1..n : \A p \in Seq(Delta) : Told(p, ds[k]) \in Seq(Delta)
      BY <1>1, ToldTyped
    <3> QED
      BY <2>1, <3>1
  <2>3. PICK f \in [0..n -> Seq(Delta)] : Run(f, n, <<>>, step)
    BY <1>1, <1>2, <2>2, Runs
  <2>4. ASSUME NEW k \in 0..n, k # 0 PROVE step[k][f[k - 1]] = Told(f[k - 1], ds[k])
    <3>1. k - 1 \in 0..n /\ k \in 1..n
      BY <1>1, <2>4
    <3>2. f[k - 1] \in Seq(Delta)
      BY <2>3, <3>1
    <3> QED
      BY <2>1, <3>1, <3>2
  <2>5. IsLoop(f)
    BY <2>3, <2>4 DEF Run
  <2> QED
    BY <2>5
<1>5. IsLoop(F)
  BY <1>4
<1> HIDE DEF F
<1>6. F[0] = <<>> /\ \A k \in 1..n : F[k] = Told(F[k - 1], ds[k])
  BY <1>1, <1>5
<1>7. F = [k \in 0..n |-> F[k]]
  BY <1>5
<1> HIDE DEF IsLoop
<1>8. \A k \in 1..n : F[k - 1] \in Seq(Delta) => F[k] \in Seq(Delta)
  BY <1>1, <1>6, ToldTyped
<1>9. \A k \in 0..n : F[k] \in Seq(Delta)
  BY <1>1, <1>2, <1>6, <1>8, Stays
<1>10. F \in [0..n -> Seq(Delta)]
  BY <1>7, <1>9
<1> QED
  BY <1>1, <1>3, <1>6, <1>10

LEMMA WithoutStopsTyped ==
  ASSUME NEW ds \in Seq(Delta)
  PROVE  Response!WithoutStops(ds) \in Seq(Delta)
<1>1. PICK f \in [0..Len(ds) -> Seq(Delta)] : f[Len(ds)] = Response!WithoutStops(ds)
  BY TellsOn
<1>2. Len(ds) \in 0..Len(ds)
  OBVIOUS
<1> QED
  BY <1>1, <1>2

LEMMA TellsOneMore ==
  ASSUME NEW ds \in Seq(Delta), NEW d \in Delta
  PROVE  Response!WithoutStops(ds \o <<d>>) = Told(Response!WithoutStops(ds), d)
<1>1. PICK n : n = Len(ds)
  OBVIOUS
<1>2. PICK es : es = ds \o <<d>>
  OBVIOUS
<1>3. /\ n \in Nat /\ es \in Seq(Delta) /\ Len(es) = n + 1 /\ es[n + 1] = d
      /\ \A k \in 1..n : es[k] = ds[k]
  BY <1>1, <1>2
<1>4. PICK f \in [0..n -> Seq(Delta)] :
        /\ f[0] = <<>> /\ f[n] = Response!WithoutStops(ds)
        /\ \A k \in 1..n : f[k] = Told(f[k - 1], ds[k])
  BY <1>1, TellsOn
<1>5. PICK g \in [0..Len(es) -> Seq(Delta)] :
        /\ g[0] = <<>> /\ g[Len(es)] = Response!WithoutStops(es)
        /\ \A k \in 1..Len(es) : g[k] = Told(g[k - 1], es[k])
  BY <1>3, TellsOn
<1> DEFINE T == {m \in Nat : m <= n => g[m] = f[m]}
<1>6. T = Nat
  <2>1. 0 \in T
    BY <1>4, <1>5
  <2>2. ASSUME NEW m \in T PROVE m + 1 \in T
    <3> SUFFICES ASSUME m + 1 <= n PROVE g[m + 1] = f[m + 1]
      OBVIOUS
    <3>1. m \in Nat /\ g[m] = f[m] /\ m + 1 \in 1..n /\ m + 1 \in 1..Len(es) /\ (m + 1) - 1 = m
      BY <1>3, <2>2
    <3>2. f[m + 1] = Told(f[m], ds[m + 1])
      BY <1>4, <3>1
    <3>3. g[m + 1] = Told(g[m], es[m + 1])
      BY <1>5, <3>1
    <3> QED
      BY <1>3, <3>1, <3>2, <3>3
  <2>3. T \in SUBSET Nat
    OBVIOUS
  <2> HIDE DEF T
  <2> QED
    BY <2>1, <2>2, <2>3, Reaches
<1>7. g[n] = f[n]
  <2>1. n \in T
    BY <1>3, <1>6
  <2> QED
    BY <1>3, <2>1
<1>8. n + 1 \in 1..Len(es) /\ (n + 1) - 1 = n /\ Len(es) = n + 1
  BY <1>3
<1>9. g[n + 1] = Told(g[n], es[n + 1])
  BY <1>5, <1>8
<1> QED
  BY <1>2, <1>3, <1>4, <1>5, <1>7, <1>8, <1>9

\* Deltas that end no turn are told as they are.
LEMMA TellsAll ==
  ASSUME NEW o \in Seq(Delta), NEW es \in Seq(Delta), NoStop(es)
  PROVE  Response!WithoutStops(o \o es) = Response!WithoutStops(o) \o es
<1>1. PICK n : n = Len(es)
  OBVIOUS
<1>2. n \in Nat /\ n \in 0..n /\ 0 \in 0..n /\ \A k \in 1..n : k \in 0..n /\ k - 1 \in 0..n /\ es[k] \in Delta
  BY <1>1
<1>3. PICK w : w = Response!WithoutStops(o)
  OBVIOUS
<1>4. w \in Seq(Delta)
  BY <1>3, WithoutStopsTyped
<1>5. PICK a : a = [k \in 0..n |-> o \o SubSeq(es, 1, k)]
  OBVIOUS
<1>6. PICK b : b = [k \in 0..n |-> w \o SubSeq(es, 1, k)]
  OBVIOUS
<1>7. /\ \A k \in 0..n : a[k] \in Seq(Delta)
      /\ \A k \in 1..n : a[k] = a[k - 1] \o <<es[k]>>
      /\ a[0] = o /\ a[n] = o \o es
  <2>1. /\ \A k \in 0..n : o \o SubSeq(es, 1, k) \in Seq(Delta)
        /\ \A k \in 1..n : o \o SubSeq(es, 1, k) = (o \o SubSeq(es, 1, k - 1)) \o <<es[k]>>
        /\ o \o SubSeq(es, 1, 0) = o /\ SubSeq(es, 1, n) = es
    BY <1>1, FurtherDeltas
  <2> QED
    BY <1>2, <1>5, <2>1
<1>8. /\ \A k \in 1..n : b[k] = b[k - 1] \o <<es[k]>>
      /\ b[0] = w /\ b[n] = w \o es
  <2>1. /\ \A k \in 1..n : w \o SubSeq(es, 1, k) = (w \o SubSeq(es, 1, k - 1)) \o <<es[k]>>
        /\ w \o SubSeq(es, 1, 0) = w /\ SubSeq(es, 1, n) = es
    BY <1>1, <1>4, FurtherDeltas
  <2> QED
    BY <1>2, <1>6, <2>1
<1> DEFINE T == {m \in Nat : m <= n => Response!WithoutStops(a[m]) = b[m]}
<1>9. T = Nat
  <2>1. 0 \in T
    BY <1>3, <1>7, <1>8
  <2>2. ASSUME NEW m \in T PROVE m + 1 \in T
    <3> SUFFICES ASSUME m + 1 <= n PROVE Response!WithoutStops(a[m + 1]) = b[m + 1]
      OBVIOUS
    <3>1. m + 1 \in 1..n /\ m \in 0..n /\ (m + 1) - 1 = m
      BY <1>2, <2>2
    <3>2. Response!WithoutStops(a[m]) = b[m]
      BY <1>2, <2>2, <3>1
    <3> HIDE DEF T
    <3>3. PICK d : d = es[m + 1]
      OBVIOUS
    <3>4. d \in Delta /\ d.channel # "stop" /\ a[m] \in Seq(Delta)
      BY <1>1, <1>2, <1>7, <3>1, <3>3 DEF NoStop
    <3>5. a[m + 1] = a[m] \o <<d>> /\ b[m + 1] = b[m] \o <<d>>
      BY <1>7, <1>8, <3>1, <3>3
    <3>6. Response!WithoutStops(a[m] \o <<d>>) = Told(Response!WithoutStops(a[m]), d)
      BY <3>4, TellsOneMore
    <3> QED
      BY <3>2, <3>4, <3>5, <3>6 DEF Told
  <2>3. T \in SUBSET Nat
    OBVIOUS
  <2> HIDE DEF T
  <2> QED
    BY <2>1, <2>2, <2>3, Reaches
<1>10. Response!WithoutStops(a[n]) = b[n]
  <2>1. n \in T
    BY <1>2, <1>9
  <2>2. n <= n
    BY <1>2
  <2> QED
    BY <2>1, <2>2
<1> QED
  BY <1>3, <1>7, <1>8, <1>10

\* A delta of text or a call is sent character by character.
LEMMA SpelledEndsNoTurn ==
  ASSUME NEW d \in Delta, d.channel # "stop"
  PROVE  NoStop(Response!Spelled(d))
<1>1. d.text \in Seq(Letters) /\ Len(d.text) \in Nat /\ DOMAIN d.text = 1..Len(d.text)
  BY DEF Delta, Text
<1>2. CASE d.channel \in {"call", "stop"}
  <2>1. PICK s : s = <<d>>
    OBVIOUS
  <2>2. Len(s) = 1 /\ s[1] = d /\ \A i \in 1..1 : i = 1
    BY <2>1
  <2>3. Response!Spelled(d) = s
    BY <1>2, <2>1 DEF Response!Spelled
  <2> QED
    BY <2>2, <2>3 DEF NoStop
<1>3. CASE d.channel \notin {"call", "stop"}
  <2>1. PICK s : s = [i \in 1..Len(d.text) |-> [channel |-> d.channel, text |-> <<d.text[i]>>]]
    OBVIOUS
  <2>2. Len(s) = Len(d.text)
    BY <1>1, <2>1
  <2>3. \A i \in 1..Len(d.text) : s[i].channel = d.channel
    BY <2>1
  <2>4. Response!Spelled(d) = s
    BY <1>1, <1>3, <2>1 DEF Response!Spelled
  <2> QED
    BY <2>2, <2>3, <2>4 DEF NoStop
<1> QED
  BY <1>2, <1>3

LEMMA AllSpelledEndsNoTurn ==
  ASSUME NEW ds \in Seq(Delta), NoStop(ds)
  PROVE  NoStop(Response!SpelledAll(ds))
<1>1. PICK n : n = Len(ds)
  OBVIOUS
<1>2. n \in Nat /\ n \in 0..n /\ \A k \in 1..n : ds[k] \in Delta /\ ds[k].channel # "stop"
  BY <1>1 DEF NoStop
<1>3. PICK g \in [0..n -> Seq(Delta)] :
        /\ g[0] = <<>> /\ g[n] = Response!SpelledAll(ds)
        /\ \A k \in 1..n : g[k] = g[k - 1] \o Response!Spelled(ds[k])
  BY <1>1, SpellsOn
<1> DEFINE X == {o \in Seq(Delta) : NoStop(o)}
<1>4. g[0] \in X
  BY <1>3, StopTyped, NoStopInText
<1>5. ASSUME NEW k \in 1..n, g[k - 1] \in X PROVE g[k] \in X
  <2>1. PICK o : o = g[k - 1]
    OBVIOUS
  <2>2. PICK e : e = Response!Spelled(ds[k])
    OBVIOUS
  <2>3. o \in Seq(Delta) /\ NoStop(o)
    BY <1>5, <2>1
  <2>4. e \in Seq(Delta) /\ NoStop(e)
    BY <1>2, <2>2, SpelledTyped, SpelledEndsNoTurn
  <2>5. NoStop(o \o e) /\ o \o e \in Seq(Delta)
    BY <2>3, <2>4, NoStopJoined, Joined
  <2>6. g[k] = o \o e
    BY <1>3, <2>1, <2>2
  <2> QED
    BY <2>5, <2>6
<1>6. g[n] \in X
  <2> HIDE DEF X
  <2> QED
    BY <1>2, <1>4, <1>5, Stays
<1> QED
  BY <1>3, <1>6

\* What taking a delta sends to a client that is there.
LEMMA TakenSends ==
  ASSUME NEW st \in Explained, NEW d \in Delta, st.go, streaming, alive,
         NEW q, q = Response!Taken(st, d)
  PROVE  \/ Response!StopMatched(q.visible) /\ ~q.go
         \/ d.channel = "stop" /\ q.sent = st.sent
         \/ d.channel # "stop" /\ q.sent = st.sent \o Response!Spelled(d) /\ q.go
<1>1. PICK seen : seen = Heard(st.visible, d)
  OBVIOUS
<1>2. PICK next : next = [st EXCEPT !.visible = seen]
  OBVIOUS
<1>3. seen \in Text /\ st \in Driven
  BY <1>1, HeardTyped DEF Explained, Driven
<1>4. next \in Driven /\ next.visible = seen /\ next.go /\ next.sent = st.sent
  BY <1>2, <1>3 DEF Driven
<1>5. q = IF d.channel = "stop" THEN Response!Stopped(st)
          ELSE IF d.channel = "content" /\ Response!StopMatched(seen)
               THEN Response!Stopped(next) ELSE Response!Emitted(next, d)
  BY <1>1, <1>2 DEF Response!Taken, Heard
<1>6. \A r \in Driven : ~Response!Stopped(r).go /\ Response!Stopped(r).sent = r.sent
                        /\ Response!Stopped(r).visible = r.visible
  BY DEF Response!Stopped, Driven
<1>7. CASE d.channel = "stop"
  BY <1>3, <1>5, <1>6, <1>7
<1>8. CASE d.channel # "stop" /\ d.channel = "content" /\ Response!StopMatched(seen)
  BY <1>4, <1>5, <1>6, <1>8
<1>9. CASE d.channel # "stop" /\ ~(d.channel = "content" /\ Response!StopMatched(seen))
  <2>1. PICK longer : longer = st.sent \o Response!Spelled(d)
    OBVIOUS
  <2>2. Response!Emitted(next, d) = [next EXCEPT !.sent = longer]
    BY <1>4, <2>1 DEF Response!Emitted, Driven
  <2>3. q = [next EXCEPT !.sent = longer]
    BY <1>5, <1>9, <2>2
  <2>4. q.sent = longer /\ q.go
    BY <1>4, <2>3 DEF Driven
  <2> QED
    BY <1>9, <2>1, <2>4
<1> QED
  BY <1>7, <1>8, <1>9

\* A client that is there has got all that was told, unless a stop string ended
\* the answer.
SentInv ==
  streaming /\ alive /\ (phase = "decode" \/ ~Response!StopMatched(visible)) =>
    sent = Response!WithoutStops(out)

LEMMA TokenSends ==
  ASSUME ResponseTypes, CauseInv, streaming, alive, sent = Response!WithoutStops(out),
         NEW piece \in Tokens, Response!Token(piece)
  PROVE  (Response!StopMatched(visible') /\ phase' # "decode") \/ sent' = Response!WithoutStops(out')
<1>1. piece \in Text /\ Response!Feed(piece) /\ ParserTypes
  BY StringsAreText DEF Strings, Response!Token, ResponseTypes
<1>2. PICK ds : ds = Response!FeedDeltas(piece)
  OBVIOUS
<1>3. ds \in Seq(Delta) /\ out \in Seq(Delta) /\ out' = out \o Response!SpelledAll(ds) /\ StopLast(ds)
  BY <1>1, <1>2, FeedTyped, FeedKeepsTypes, FeedStopsLast DEF ResponseTypes
<1>4. PICK n : n = Len(ds)
  OBVIOUS
<1>5. /\ n \in Nat /\ n \in 0..n /\ 0 \in 0..n
      /\ \A k \in 1..n : k \in 0..n /\ k - 1 \in 0..n /\ ds[k] \in Delta
  BY <1>3, <1>4
<1>6. PICK f \in [0..n -> Explained] :
        /\ f[0] = StartOfDeltas /\ f[n] = Response!TakenAll(ds)
        /\ \A k \in 1..n : f[k] = Response!Taken(f[k - 1], ds[k])
  BY <1>2, <1>4, TokenKeeps
<1>7. PICK g \in [0..n -> Seq(Delta)] :
        /\ g[0] = <<>> /\ g[n] = Response!SpelledAll(ds)
        /\ \A k \in 1..n : g[k] = g[k - 1] \o Response!Spelled(ds[k])
  BY <1>3, <1>4, SpellsOn
<1>8. sent' = f[n].sent /\ visible' = f[n].visible /\ (phase' = "decode" => f[n].go)
  BY <1>2, <1>6 DEF Response!Token
<1> DEFINE Matched(k) == Response!StopMatched(f[k].visible) /\ ~f[k].go
           Whole(k) == f[k].sent = Response!WithoutStops(out \o g[k]) /\ (~f[k].go => k = n)
           T == {m \in Nat : m <= n => Matched(m) \/ Whole(m)}
<1>9. T = Nat
  <2>1. 0 \in T
    <3>1. f[0].sent = sent /\ f[0].go
      BY <1>6 DEF StartOfDeltas
    <3>2. out \o g[0] = out
      BY <1>3, <1>7, ConcatEmptySeq
    <3> QED
      BY <3>1, <3>2
  <2>2. ASSUME NEW m \in T PROVE m + 1 \in T
    <3>1. PICK j : j = m + 1
      OBVIOUS
    <3> SUFFICES ASSUME j <= n PROVE Matched(j) \/ Whole(j)
      BY <2>2, <3>1
    <3>2. j \in 1..n /\ m \in 0..n /\ j - 1 = m /\ m <= n /\ m # n
      BY <1>5, <2>2, <3>1
    <3>3. Matched(m) \/ Whole(m)
      BY <2>2, <3>2
    <3> HIDE DEF T
    <3>4. PICK st : st = f[m]
      OBVIOUS
    <3>5. PICK q : q = f[j]
      OBVIOUS
    <3>6. PICK d : d = ds[j]
      OBVIOUS
    <3>7. st \in Explained /\ d \in Delta /\ q = Response!Taken(st, d) /\ g[m] \in Seq(Delta)
          /\ g[j] = g[m] \o Response!Spelled(d)
      BY <1>5, <1>6, <1>7, <3>2, <3>4, <3>5, <3>6
    <3>8. CASE Matched(m)
      <4>1. Response!StopMatched(st.visible) /\ ~st.go
        BY <3>4, <3>8
      <4>2. q = st
        BY <3>7, <4>1 DEF Response!Taken
      <4> QED
        BY <3>5, <4>1, <4>2
    <3>9. CASE Whole(m)
      <4>1. st.go /\ st.sent = Response!WithoutStops(out \o g[m])
        BY <3>2, <3>4, <3>9
      <4> HIDE DEF Matched, Whole
      <4>2. PICK a : a = out \o g[m]
        OBVIOUS
      <4>3. PICK e : e = Response!Spelled(d)
        OBVIOUS
      <4>4. a \in Seq(Delta) /\ e \in Seq(Delta)
        BY <1>3, <3>7, <4>2, <4>3, Joined, SpelledTyped
      <4>5. out \o g[j] = a \o e
        <5>1. out \o (g[m] \o e) = (out \o g[m]) \o e
          BY <1>3, <3>7, <4>4, Associative
        <5> QED
          BY <3>7, <4>2, <4>3, <5>1
      <4>6. \/ Response!StopMatched(q.visible) /\ ~q.go
            \/ d.channel = "stop" /\ q.sent = st.sent
            \/ d.channel # "stop" /\ q.sent = st.sent \o e /\ q.go
        BY <3>7, <4>1, <4>3, TakenSends
      <4>7. CASE Response!StopMatched(q.visible) /\ ~q.go
        BY <3>5, <4>7 DEF Matched
      <4>8. CASE d.channel = "stop" /\ q.sent = st.sent
        <5>1. j = n
          <6>1. j \in 1..Len(ds) /\ ds[j].channel = "stop"
            BY <1>4, <3>2, <3>6, <4>8
          <6> QED
            BY <1>3, <1>4, <6>1 DEF StopLast
        <5>2. e = <<d>>
          BY <4>3, <4>8 DEF Response!Spelled
        <5>3. Response!WithoutStops(a \o e) = Told(Response!WithoutStops(a), d)
          BY <3>7, <4>4, <5>2, TellsOneMore
        <5>4. Response!WithoutStops(a \o e) = Response!WithoutStops(a)
          BY <4>8, <5>3 DEF Told
        <5>5. q.sent = Response!WithoutStops(out \o g[j])
          BY <4>1, <4>2, <4>5, <4>8, <5>4
        <5> QED
          BY <3>5, <5>1, <5>5 DEF Whole
      <4>9. CASE d.channel # "stop" /\ q.sent = st.sent \o e /\ q.go
        <5>1. NoStop(e)
          BY <3>7, <4>3, <4>9, SpelledEndsNoTurn
        <5>2. Response!WithoutStops(a \o e) = Response!WithoutStops(a) \o e
          BY <4>4, <5>1, TellsAll
        <5>3. q.sent = Response!WithoutStops(out \o g[j])
          BY <4>1, <4>2, <4>5, <4>9, <5>2
        <5> QED
          BY <3>5, <4>9, <5>3 DEF Whole
      <4> QED
        BY <4>6, <4>7, <4>8, <4>9
    <3> QED
      BY <3>3, <3>8, <3>9
  <2>3. T \in SUBSET Nat
    OBVIOUS
  <2> HIDE DEF T
  <2> QED
    BY <2>1, <2>2, <2>3, Reaches
<1>10. Matched(n) \/ Whole(n)
  <2>1. n \in T
    BY <1>5, <1>9
  <2>2. n <= n
    BY <1>5
  <2> HIDE DEF Matched, Whole
  <2> QED
    BY <2>1, <2>2
<1> QED
  BY <1>3, <1>7, <1>8, <1>10

LEMMA RespondSends ==
  ASSUME ResponseTypes, TextInv, SentInv, Response!Respond
  PROVE  SentInv'
<1>1. /\ phase = "ending" /\ phase' = "ended" /\ Response!Finish
      /\ sent' = IF streaming /\ alive THEN sent \o Response!SpelledAll(Response!FinishDeltas) ELSE sent
      /\ UNCHANGED <<streaming, alive, visible>>
  BY DEF Response!Respond, Response!SentRest
<1> SUFFICES ASSUME streaming, alive, ~Response!StopMatched(visible)
             PROVE  sent' = Response!WithoutStops(out')
  BY <1>1 DEF SentInv, Response!StopMatched
<1>2. ParserTypes /\ out \in Seq(Delta) /\ Partial(buf)
  BY DEF ResponseTypes, TextInv
<1>3. PICK ds : ds = Response!FinishDeltas
  OBVIOUS
<1>4. ds \in Seq(Delta) /\ NoStop(ds)
  BY <1>2, <1>3, FinishTyped, FinishEndsNoTurn
<1>5. PICK e : e = Response!SpelledAll(ds)
  OBVIOUS
<1>6. e \in Seq(Delta) /\ NoStop(e)
  BY <1>4, <1>5, SpelledAllTyped, AllSpelledEndsNoTurn
<1>7. out' = out \o e
  BY <1>1, <1>2, <1>3, <1>5, FinishKeepsTypes
<1>8. sent = Response!WithoutStops(out) /\ sent' = sent \o e
  BY <1>1, <1>3, <1>5 DEF SentInv
<1> QED
  BY <1>2, <1>6, <1>7, <1>8, TellsAll

LEMMA SentInit == ServingInit => SentInv
<1> SUFFICES ASSUME ServingInit PROVE SentInv
  OBVIOUS
<1>1. out = <<>> /\ sent = <<>>
  BY DEF ServingInit, Response!DeliveryInit, Response!Init
<1>2. <<>> \in Seq(Delta) /\ Len(<<>>) = 0
  OBVIOUS
<1>3. Response!WithoutStops(<<>>) = <<>>
  <2>1. PICK f \in [0..0 -> Seq(Delta)] : f[0] = <<>> /\ f[0] = Response!WithoutStops(<<>>)
    BY <1>2, TellsOn
  <2> QED
    BY <2>1
<1> QED
  BY <1>1, <1>3 DEF SentInv

LEMMA SentKeeps ==
  ASSUME ParsedInv, SentInv, [ServingNext]_serving
  PROVE  SentInv'
<1>1. ResponseTypes /\ CauseInv /\ TextInv /\ part' = part /\ (part # "response" => ~streaming)
  BY ResponsePart DEF ParsedInv, ResponseInv
<1>2. CASE part = "response" /\ Response!DeliveryNext
  <2>1. CASE \E piece \in Tokens : Response!Token(piece)
    <3>1. PICK piece \in Tokens : Response!Token(piece)
      BY <2>1
    <3>2. phase = "decode" /\ streaming' = streaming /\ alive' = alive
      BY <3>1 DEF Response!Token
    <3>3. streaming /\ alive =>
            (Response!StopMatched(visible') /\ phase' # "decode") \/ sent' = Response!WithoutStops(out')
      BY <1>1, <3>1, <3>2, TokenSends DEF SentInv
    <3> QED
      BY <3>2, <3>3 DEF SentInv, Response!StopMatched
  <2>2. CASE Response!EndOfText \/ Response!ContextFull
    BY <2>2 DEF Response!EndOfText, Response!ContextFull, Response!Ends, Response!vars, SentInv
  <2>3. CASE Response!ClientLeaves
    BY <2>3 DEF Response!ClientLeaves, SentInv
  <2>4. CASE Response!Respond
    BY <1>1, <2>4, RespondSends
  <2> QED
    BY <1>2, <2>1, <2>2, <2>3, <2>4 DEF Response!DeliveryNext
<1>3. CASE part = "parser" /\ Response!Next /\ UNCHANGED driver
  <2>1. streaming' = streaming /\ ~streaming
    BY <1>1, <1>3 DEF driver
  <2> QED
    BY <2>1 DEF SentInv
<1>4. CASE UNCHANGED response
  BY <1>4 DEF response, parsed, driver, SentInv, Response!StopMatched
<1> QED
  BY <1>2, <1>3, <1>4, ResponsePart

\* A client that stays gets everything the parser made of the output, in order,
\* whatever the tokens and the stop strings, unless a stop string ended it: no
\* delta is dropped when decoding ends, and what the parser held back comes last.
THEOREM ClientGetsEverything == ServingSpec => []StreamIsWhole
<1>1. ServingInit => ParsedInv /\ SentInv
  BY ParsedInitKeeps, SentInit
<1>2. ParsedInv /\ SentInv /\ [ServingNext]_serving => (ParsedInv /\ SentInv)'
  BY ParsedKeeps, SentKeeps
<1>3. ParsedInv /\ SentInv => StreamIsWhole
  BY DEF SentInv, StreamIsWhole, Response!StreamIsWhole
<1> QED
  BY <1>1, <1>2, <1>3, PTL DEF ServingSpec

-----------------------------------------------------------------------------
(* The cache of images: ImageCache's proof, of every behaviour of the whole.   *)

LEMMA ImagesPart ==
  /\ ServingInit => Images!ImagesInv
  /\ Images!ImagesInv /\ [ServingNext]_serving => Images!ImagesInv'
<1>1. Images!SizesAssumed
  BY ImageAssumption DEF Images!SizesAssumed
<1>2. ServingInit => Images!ImagesInv
  BY <1>1, Images!ImagesStart DEF ServingInit
<1>3. [ServingNext]_serving => [Images!Next]_(Images!vars)
  BY DEF ServingNext, serving, images, Images!vars, ScriptsMove, ServerMoves, ImagesMove, BytesMove, ParserMoves,
         ResponseMoves, TokensMove, ChatMoves, SamplerMoves
<1>4. Images!ImagesInv /\ [Images!Next]_(Images!vars) => Images!ImagesInv'
  BY <1>1, Images!ImagesStep
<1> QED
  BY <1>2, <1>3, <1>4

\* Whatever images are asked for, however large they are and in whatever order: the
\* cache counts its bytes exactly and stays within its budget, answers a hit with
\* what was stored last under the url, and has let no image go that was used after
\* one it kept.
THEOREM RecentImagesStay == ServingSpec => []KeepsTheRecent
<1>1. Images!ImagesInv => KeepsTheRecent
  BY Images!ImagesSound DEF KeepsTheRecent
<1> QED
  BY <1>1, ImagesPart, PTL DEF ServingSpec
=============================================================================
