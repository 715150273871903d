----------------------------- MODULE App_proofs -----------------------------
(***************************************************************************)
(* What App promises about the bots, for any number of bots, any files and *)
(* any requests.  The heart is an invariant of the sources that holds at   *)
(* every step of the sequence that stops, prepares and starts them: which  *)
(* bots the sequence has still to bring up, what is already true of those, *)
(* and that all others are as the config says.                             *)
(***************************************************************************)
EXTENDS App, FiniteSetTheorems, FunctionTheorems, TLAPS

-----------------------------------------------------------------------------
(* Types.                                                                  *)

Task == [name : Names, state : {"starting", "running", "backoff", "failed", "stopped"},
         cut : BOOLEAN, tok : Nat, up : Upstreams]
Watcher == [name : Names, tok : Nat]
Work == [pc : {"idle", "stop", "identify", "route", "hooks", "register", "poll", "spawn", "ready"},
         who : {"none", "boot", "reload", "resume"},
         todo : SUBSET Bots, moved : SUBSET Bots, bots : SUBSET Bots]
Source == [kind : {"none", "poll", "hook"}, src : Nat]
Move == [bot : Bots, how : {"logOut", "close"}]
Budget == [first : Files, edits : SUBSET (Files \cup {Bad}),
           moves : SUBSET {"logOut", "close"}, stop : BOOLEAN]

Loader == [pc : {"none", "settle", "select", "end", "begin", "read", "apply", "drain",
                 "deliver", "gate", "sending", "call", "resume", "resuming"},
           bot : Bots \cup {NoBot}, how : {"none", "logOut", "close"}, deleted : BOOLEAN]

TasksType ==
    /\ tasks \subseteq Task
    /\ entries \in [Names -> Nat]
    /\ force \in BOOLEAN
    /\ reapers \subseteq Watcher

RegistryType ==
    /\ config \in [Bots -> Bot \cup {Absent}]
    /\ started \in [Bots -> Source]
    /\ starting \subseteq Bots /\ parked \subseteq Bots /\ notReady \subseteq Bots
    /\ gateParked \subseteq Bots /\ rejected \subseteq Bots
    /\ calls \in [Bots -> {"none", "counted", "sending"}]
    /\ work \in Work

TokensType ==
    /\ tokens \in Nat
    /\ stops \in [Bots -> 0 .. tokens]
    /\ cancelled \subseteq 1 .. tokens
    /\ routes \in [Bots -> Int]
    /\ ingest \in BOOLEAN

ReloaderType ==
    /\ file \in Files \cup {Bad} /\ loaded \in Files
    /\ budget \in Budget
    /\ moves \in Seq(Move)
    /\ rl \in Loader

TypesOK == TasksType /\ RegistryType /\ TokensType /\ ReloaderType

-----------------------------------------------------------------------------
(* Control: when the sequence runs, and what a move has behind it.         *)

ParkedPcs == {"deliver", "gate", "sending", "call", "resume"}

Process == [pc : {"boot", "run", "lame", "drain", "exit"}, left : 0 .. 2]

ControlOK ==
    /\ app \in Process
    /\ app.pc = "boot" => rl.pc = "none"
    /\ app.pc \in {"run", "lame"} => rl.pc # "none"
    /\ app.pc \in {"drain", "exit"} => ingest
    /\ force => ingest
    /\ rl.pc \notin {"none", "apply", "resuming"} => work = Idle
    /\ rl.pc \in ParkedPcs \cup {"drain", "resuming"} => rl.bot \in Bots

MoveOK ==
    /\ rl.pc \in {"sending", "call"} => rl.bot \in gateParked
    /\ rl.pc = "call" => calls[rl.bot] # "sending"

\* The bot that is started by long poll now.
Current == CHOOSE c \in work.bots : TRUE

SequenceOK ==
    /\ work.pc = "idle" => work = Idle
    /\ work.pc # "stop" => work.todo = {}
    /\ work.pc \in {"poll", "spawn", "ready"} => \A b \in work.bots : Ingress(b) = "poll"
    /\ work.pc \in {"spawn", "ready"} => work.bots # {}

\* A long poll that is not being started is listed under its bot's name.
ListedOK ==
    /\ \A b \in Bots : started[b].kind = "poll" /\ b \notin starting
                          => entries[<<"source", b>>] = started[b].src
    /\ work.pc \notin {"idle", "stop"} =>
          \A b \in work.bots : Ingress(b) = "poll" => b \in starting
    /\ work.pc \in {"spawn", "ready"} => started[Current].kind = "poll"
    /\ work.pc = "ready" => entries[<<"source", Current>>] = started[Current].src

-----------------------------------------------------------------------------
(* The sources, until a shutdown stops their ingest.                       *)

BotOf(t) == t.name[2]
Dead(tok) == tok = NoToken \/ tok \in cancelled

\* The bots the sequence has still to stop or to start, and the others that
\* no move has parked.
Pending == work.todo \cup work.bots
Settled == (Bots \ Pending) \ parked

PendingOK ==
    /\ work.bots \cap parked = {}
    /\ \A b \in work.bots : Ingress(b) # "none"
    /\ starting \subseteq work.bots /\ notReady \subseteq work.bots
    /\ work.pc = "register" => \A b \in starting : Ingress(b) = "poll"
    /\ rl.pc = "drain" => config[rl.bot] # Absent
    /\ rl.pc \in ParkedPcs => rl.bot \in parked
    /\ gateParked \subseteq parked
    /\ \A b \in gateParked : config[b] # Absent

TokensOK ==
    /\ \A b \in Bots : Ingress(b) = "none" => b \in work.todo \/ stops[b] = NoToken
    /\ \A b \in parked : /\ Dead(stops[b])
                         /\ started[b] = NotStarted
                         /\ config[b] # Absent \/ b \in work.todo
    /\ work.pc = "stop" => \A b \in work.bots : Dead(stops[b])
    /\ work.pc # "stop" => \A b \in work.bots : ~Dead(stops[b])
    /\ \A b \in Settled : Ingress(b) # "none" => ~Dead(stops[b])
    /\ \A b, c \in Bots : b # c /\ stops[b] # NoToken => stops[b] # stops[c]

Routed == work.pc \in {"hooks", "register", "poll", "spawn", "ready"}
          \/ (work.pc = "identify" /\ work.who # "boot")

RoutesOK ==
    /\ \A b \in Bots :
          \/ routes[b] = Closed
          \/ routes[b] \in cancelled
          \/ /\ routes[b] = stops[b] /\ stops[b] # NoToken
             /\ b \in work.todo \/ b \in Hooked
    /\ \A b \in Hooked \ parked : b \notin Pending \/ Routed => routes[b] = stops[b]

\* A task that nothing has stopped is one that the config asks for.
Fits(t) ==
    /\ t.name[1] = "source" => Ingress(BotOf(t)) = "poll"
    /\ t.name[1] = "register" => Ingress(BotOf(t)) = "hook"
    /\ t.name[1] = "identity" => BotOf(t) \in Hooked
    /\ t.up = config[BotOf(t)].up

Spawned(b) ==
    CASE work.pc \in {"idle", "stop"} -> {"identity", "register", "source"}
      [] work.pc = "identify" -> {}
      [] work.pc = "route" -> IF work.who = "boot" THEN {"identity"} ELSE {}
      [] work.pc \in {"hooks", "register"} -> {"identity"}
      [] work.pc \in {"poll", "spawn"} -> {"identity", "register"}
      [] work.pc = "ready" -> {"identity", "register"} \cup (IF b = Current THEN {"source"} ELSE {})

\* A name and a token make one task.
OneEach(all) == \A t, u \in all : t.name = u.name /\ t.tok = u.tok => t = u

TasksOK ==
    /\ \A t \in tasks : \/ t.tok \in cancelled
                        \/ /\ t.tok = stops[BotOf(t)] /\ t.tok # NoToken
                           /\ BotOf(t) \in work.todo \/ Fits(t)
    /\ OneEach(tasks)
    /\ \A t \in tasks : t.tok = stops[BotOf(t)] /\ BotOf(t) \in work.bots
                          => t.name[1] \in Spawned(BotOf(t)) \/ t.tok \in cancelled

Polling(b) ==
    /\ started[b] = [kind |-> "poll", src |-> stops[b]]
    /\ \E t \in tasks : /\ t.name = <<"source", b>> /\ t.tok = stops[b] /\ ~t.cut
                        /\ t.up = config[b].up
    /\ entries[<<"source", b>>] = stops[b]

StartedOK ==
    /\ \A b \in Settled : /\ Ingress(b) = "poll" => Polling(b)
                          /\ started[b].kind = "hook" <=> b \in Hooked
    /\ work.pc = "register" => \A b \in work.bots \cap Hooked : started[b].kind = "hook"
    /\ work.pc = "spawn" => started[Current].kind = "poll"
    /\ work.pc = "ready" => Polling(Current)

HookSet(b) ==
    \/ <<config[b].up, b>> \in hooks
    \/ b \in rejected
    \/ \E t \in tasks : /\ t.name = <<"register", b>> /\ t.tok = stops[b] /\ t.up = config[b].up
                        /\ ~Ended(t) /\ ~t.cut

HooksOK == \A b \in Settled : Ingress(b) = "hook" => HookSet(b)

SourcesOK == PendingOK /\ TokensOK /\ RoutesOK /\ TasksOK /\ StartedOK /\ HooksOK

AppInv ==
    /\ TypesOK /\ ControlOK /\ MoveOK /\ SequenceOK /\ ListedOK
    /\ ~ingest => SourcesOK

-----------------------------------------------------------------------------
(* The operators the model is built from.                                  *)

\* Forget drops only ended tasks that nothing lists.
LEMMA ForgetKeeps ==
    ASSUME NEW all, NEW listed, NEW watching
    PROVE  /\ Forget(all, listed, watching) \subseteq all
           /\ \A t \in all : ~Ended(t) \/ listed[t.name] = t.tok => t \in Forget(all, listed, watching)
BY DEF Forget

\* Publish replaces a task by one that differs in its state only.
LEMMA Published ==
    ASSUME NEW t \in Task, NEW s \in {"starting", "running", "backoff", "failed", "stopped"}
    PROVE  /\ [t EXCEPT !.state = s] \in Task
           /\ [t EXCEPT !.state = s].state = s
           /\ [t EXCEPT !.state = s].name = t.name
           /\ [t EXCEPT !.state = s].tok = t.tok
           /\ [t EXCEPT !.state = s].cut = t.cut
           /\ [t EXCEPT !.state = s].up = t.up
BY DEF Task

LEMMA CutTask ==
    ASSUME NEW t \in Task
    PROVE  /\ [t EXCEPT !.cut = TRUE] \in Task
           /\ [t EXCEPT !.cut = TRUE].state = t.state
           /\ [t EXCEPT !.cut = TRUE].name = t.name
           /\ [t EXCEPT !.cut = TRUE].tok = t.tok
           /\ [t EXCEPT !.cut = TRUE].up = t.up
BY DEF Task

LEMMA NameParts ==
    /\ \A b \in Bots, k \in {"source", "identity", "register"} :
          /\ <<k, b>> \in Names
          /\ <<k, b>>[1] = k
          /\ <<k, b>>[2] = b
    /\ \A n \in Names : /\ n = <<n[1], n[2]>>
                        /\ n[1] \in {"source", "identity", "register"}
                        /\ n[2] \in Bots
BY DEF Names

LEMMA IdleWork ==
    /\ Idle \in Work /\ Idle.pc = "idle" /\ Idle.todo = {} /\ Idle.bots = {}
BY DEF Idle, Work

LEMMA AtFields ==
    ASSUME rl \in Loader,
           NEW p \in {"none", "settle", "select", "end", "begin", "read", "apply", "drain",
                      "deliver", "gate", "sending", "call", "resume", "resuming"}
    PROVE  /\ At(p) \in Loader /\ At(p).pc = p /\ At(p).bot = rl.bot
BY DEF At, Loader

LEMMA FreeFields == Free \in Loader /\ Free.pc = "select"
BY DEF Free, Loader

\* A bot that has an ingress is configured.
LEMMA Configured ==
    ASSUME config \in [Bots -> Bot \cup {Absent}], NEW b \in Bots, Ingress(b) # "none"
    PROVE  /\ config[b] # Absent /\ config[b] \in Bot
           /\ config[b].up \in Upstreams /\ Ingress(b) = config[b].ingress
           /\ Ingress(b) \in {"poll", "hook", "served"}
BY DEF Ingress, Bot

LEMMA IngressKinds ==
    ASSUME config \in [Bots -> Bot \cup {Absent}], NEW b \in Bots
    PROVE  Ingress(b) \in {"none", "poll", "hook", "served"}
BY DEF Ingress, Bot

\* The task that Spawn makes for a name.
NewTask(n, on) ==
    [name |-> n, state |-> IF n[1] = "source" THEN "starting" ELSE "running", cut |-> FALSE,
     tok |-> on[n[2]].tok, up |-> on[n[2]].up]

LEMMA NewTaskFields ==
    ASSUME NEW n \in Names, NEW on, on[n[2]].tok \in Nat, on[n[2]].up \in Upstreams
    PROVE  /\ NewTask(n, on) \in Task
           /\ NewTask(n, on).name = n
           /\ NewTask(n, on).tok = on[n[2]].tok
           /\ NewTask(n, on).up = on[n[2]].up
           /\ ~NewTask(n, on).cut
           /\ ~Ended(NewTask(n, on))
BY DEF NewTask, Task, Ended

\* Spawn: the tasks after it are old ones, old ones of the names that are
\* told to stop, and a new one for each name.
SpawnMade(names, on) ==
    /\ \A n \in Names : entries'[n] = IF n \in names THEN on[n[2]].tok ELSE entries[n]
    /\ \A t \in tasks' : \/ t \in tasks
                         \/ \E s \in tasks : s.name \in names /\ t = [s EXCEPT !.cut = TRUE]
                         \/ \E n \in names : t = NewTask(n, on)
    /\ OneEach(tasks) /\ (\A s \in tasks : s.name \in names => s.tok # on[s.name[2]].tok)
         => OneEach(tasks')
    /\ \A t \in tasks : (~Ended(t) \/ entries[t.name] = t.tok) /\ t.name \notin names
                          => t \in tasks'
    /\ \A n \in names : NewTask(n, on) \in tasks'

LEMMA SpawnDoes ==
    ASSUME TasksType, NEW names \in SUBSET Names, NEW on,
           \A n \in names : on[n[2]].tok \in Nat /\ on[n[2]].up \in Upstreams,
           Spawn(names, on)
    PROVE  /\ tasks' \subseteq Task
           /\ entries' \in [Names -> Nat]
           /\ SpawnMade(names, on)
<1> DEFINE previous == UNION {Listed(n) : n \in names}
           new == {NewTask(n, on) : n \in names}
           cut == {[t EXCEPT !.cut = TRUE] : t \in previous}
           all == (tasks \ previous) \cup cut \cup new
<1>1. /\ entries' = [n \in Names |-> IF n \in names THEN on[n[2]].tok ELSE entries[n]]
      /\ tasks' = Forget(all, entries', reapers)
  BY DEF Spawn, NewTask
<1>2. /\ tasks \subseteq Task /\ entries \in [Names -> Nat]
  BY DEF TasksType
<1>3. \A n \in names : /\ NewTask(n, on) \in Task /\ NewTask(n, on).name = n
                       /\ NewTask(n, on).tok = on[n[2]].tok /\ ~Ended(NewTask(n, on))
  BY NewTaskFields
<1>4. previous \subseteq tasks /\ \A t \in previous : t.name \in names
  BY DEF Listed
<1>5. \A t \in cut : t \in Task /\ \E s \in tasks : s.name \in names /\ t = [s EXCEPT !.cut = TRUE]
  BY <1>2, <1>4, CutTask
<1> HIDE DEF previous
<1>6. all \subseteq Task
  BY <1>2, <1>3, <1>5
<1>7. tasks' \subseteq all /\ \A t \in all : ~Ended(t) \/ entries'[t.name] = t.tok => t \in tasks'
  BY <1>1, ForgetKeeps
<1>8. entries' \in [Names -> Nat] /\ \A n \in Names : entries'[n] = IF n \in names THEN on[n[2]].tok ELSE entries[n]
  BY <1>1, <1>2
<1>9. \A t \in tasks' : \/ t \in tasks
                        \/ \E s \in tasks : s.name \in names /\ t = [s EXCEPT !.cut = TRUE]
                        \/ \E n \in names : t = NewTask(n, on)
  BY <1>5, <1>7
<1>10. ASSUME OneEach(tasks), \A s \in tasks : s.name \in names => s.tok # on[s.name[2]].tok
       PROVE  OneEach(tasks')
  <2>1. ASSUME NEW t \in all, NEW u \in all, t.name = u.name, t.tok = u.tok, u \in new
        PROVE  t \in new
    <3>1. PICK n \in names : u = NewTask(n, on)
      BY <2>1
    <3>2. u.name = n /\ u.tok = on[n[2]].tok
      BY <3>1, <1>3
    <3>3. t \notin tasks
      BY <1>10, <2>1, <3>2
    <3>4. ASSUME t \in cut PROVE FALSE
      <4>1. PICK s \in tasks : s.name \in names /\ t = [s EXCEPT !.cut = TRUE]
        BY <3>4, <1>5
      <4>2. s.name = t.name /\ s.tok = t.tok
        BY <4>1, <1>2, CutTask
      <4> QED BY <1>10, <2>1, <3>2, <4>1, <4>2
    <3> QED BY <3>3, <3>4
  <2>2. ASSUME NEW t \in new, NEW u \in new, t.name = u.name
        PROVE  t = u
    BY <2>2, <1>3
  <2>3. ASSUME NEW t \in cut, NEW u \in tasks, t.name = u.name, t.tok = u.tok
        PROVE  u \in previous /\ t = [u EXCEPT !.cut = TRUE]
    <3>1. PICK s \in previous : t = [s EXCEPT !.cut = TRUE]
      BY <2>3
    <3>2. s \in tasks /\ s.name = t.name /\ s.tok = t.tok
      BY <3>1, <1>2, <1>4, CutTask
    <3>3. s = u
      BY <1>10, <2>3, <3>2 DEF OneEach
    <3> QED BY <3>1, <3>3
  <2>4. ASSUME NEW t \in cut, NEW u \in cut, t.name = u.name, t.tok = u.tok
        PROVE  t = u
    <3>1. PICK s \in previous : u = [s EXCEPT !.cut = TRUE]
      BY <2>4
    <3>2. s \in tasks /\ s.name = u.name /\ s.tok = u.tok
      BY <3>1, <1>2, <1>4, CutTask
    <3>3. t = [s EXCEPT !.cut = TRUE]
      BY <2>3, <2>4, <3>2
    <3> QED BY <3>1, <3>3
  <2> HIDE DEF cut, new
  <2>5. \A t, u \in all : t.name = u.name /\ t.tok = u.tok => t = u
    <3> SUFFICES ASSUME NEW t \in all, NEW u \in all, t.name = u.name, t.tok = u.tok
                 PROVE  t = u
      OBVIOUS
    <3>1. CASE t \in new \/ u \in new
      BY <2>1, <2>2, <3>1
    <3>2. CASE t \in cut /\ u \in cut
      BY <2>4, <3>2
    <3>3. CASE t \in tasks \ previous /\ u \in tasks \ previous
      BY <1>10, <3>3 DEF OneEach
    <3>4. CASE t \in cut /\ u \in tasks \ previous
      BY <2>3, <3>4
    <3>5. CASE u \in cut /\ t \in tasks \ previous
      BY <2>3, <3>5
    <3> QED BY <3>1, <3>2, <3>3, <3>4, <3>5
  <2> QED BY <2>5, <1>7 DEF OneEach
<1>11. \A t \in tasks : (~Ended(t) \/ entries[t.name] = t.tok) /\ t.name \notin names => t \in tasks'
  <2> SUFFICES ASSUME NEW t \in tasks, ~Ended(t) \/ entries[t.name] = t.tok, t.name \notin names
               PROVE  t \in tasks'
    OBVIOUS
  <2>1. t.name \in Names
    BY <1>2 DEF Task
  <2>2. t \in all
    BY <1>4
  <2> QED BY <2>1, <2>2, <1>7, <1>8
<1>12. \A n \in names : NewTask(n, on) \in tasks'
  BY <1>3, <1>7
<1>13. SpawnMade(names, on)
  BY <1>8, <1>9, <1>10, <1>11, <1>12 DEF SpawnMade
<1> QED BY <1>6, <1>7, <1>8, <1>13

-----------------------------------------------------------------------------
(* Types are kept.                                                         *)

LEMMA PublishTypes ==
    ASSUME TasksType, NEW t \in tasks,
           NEW s \in {"starting", "running", "backoff", "failed", "stopped"}, Publish(t, s)
    PROVE  TasksType'
<1>1. [t EXCEPT !.state = s] \in Task
  BY Published DEF TasksType
<1>2. tasks' \subseteq (tasks \ {t}) \cup {[t EXCEPT !.state = s]}
  BY ForgetKeeps DEF Publish
<1> QED BY <1>1, <1>2 DEF Publish, TasksType

LEMMA TaskStepTypes ==
    ASSUME TypesOK, TaskStep
    PROVE  TypesOK'
<1>1. PICK t \in tasks : TaskBegins(t) \/ TaskDone(t) \/ TaskFails(t) \/ TaskRetries(t) \/ TaskStops(t)
  BY DEF TaskStep
<1>2. TasksType'
  BY <1>1, PublishTypes DEF TypesOK, TaskBegins, TaskDone, TaskFails, TaskRetries, TaskStops,
       Begin, Done, Fatal, Retry, StopOnCancel
<1>3. UNCHANGED <<config, registryVars, routes, cancelled, ingest, tokens, notReady, gateVars, work, reloaderVars>>
  BY <1>1 DEF TaskBegins, TaskDone, TaskFails, TaskRetries, TaskStops, sourceVars
<1>4. rejected' \subseteq Bots
  <2>1. t.name[2] \in Bots
    BY NameParts DEF TypesOK, TasksType, Task
  <2>2. rejected' = rejected \/ rejected' = rejected \cup {t.name[2]}
    BY <1>1 DEF TaskBegins, TaskDone, TaskFails, TaskRetries, TaskStops, sourceVars, serverVars
  <2> QED BY <2>1, <2>2 DEF TypesOK, RegistryType
<1>5. RegistryType' /\ TokensType' /\ ReloaderType'
  BY <1>3, <1>4 DEF TypesOK, RegistryType, TokensType, ReloaderType, registryVars, gateVars,
       reloaderVars, queueVars, fileVars
<1> QED BY <1>2, <1>5 DEF TypesOK

LEMMA ReaperTypes ==
    ASSUME TypesOK, NEW r \in reapers, Reaps(r) \/ ReaperGivesUp(r)
    PROVE  TypesOK'
<1>1. UNCHANGED <<force, sourceVars, reloaderVars>>
  BY DEF Reaps, ReaperGivesUp, Reap, ReapGivesUp
<1>2. reapers' \subseteq reapers
  BY DEF Reaps, ReaperGivesUp, Reap, ReapGivesUp
<1>3. tasks' \subseteq tasks
  BY ForgetKeeps DEF Reaps, ReaperGivesUp, Reap, ReapGivesUp, Remove
<1>4. entries' = entries \/ entries' = [entries EXCEPT ![r.name] = NoTask]
  BY DEF Reaps, ReaperGivesUp, Reap, ReapGivesUp, Remove
<1>5. TasksType'
  BY <1>1, <1>2, <1>3, <1>4 DEF TypesOK, TasksType, NoTask
<1>6. RegistryType' /\ TokensType' /\ ReloaderType'
  BY <1>1 DEF TypesOK, RegistryType, TokensType, ReloaderType, sourceVars, registryVars, gateVars,
       serverVars, reloaderVars, queueVars, fileVars
<1> QED BY <1>5, <1>6 DEF TypesOK

LEMMA CallTypes ==
    ASSUME TypesOK, NEW b \in Bots, Enter(b) \/ Pass(b) \/ Sent(b)
    PROVE  TypesOK'
<1>1. UNCHANGED gateUnchanged
  BY DEF Enter, Pass, Sent
<1>2. calls' \in [Bots -> {"none", "counted", "sending"}]
  BY DEF TypesOK, RegistryType, Enter, Pass, Sent
<1> QED BY <1>1, <1>2 DEF TypesOK, TasksType, RegistryType, TokensType, ReloaderType, gateUnchanged,
       supervisorVars, registryVars, serverVars, reloaderVars, queueVars, fileVars

LEMMA WatchTypes ==
    ASSUME TasksType, NEW b
    PROVE  Watch(b) \subseteq Watcher
BY DEF Watch, Watcher, TasksType

LEMMA StopNextTypes ==
    ASSUME TypesOK, StopNext, UNCHANGED <<reloaderVars, app>>
    PROVE  TypesOK'
<1>1. PICK b : b = CHOOSE c \in work.todo : TRUE
  OBVIOUS
<1>2. b \in work.todo /\ b \in Bots
  BY <1>1 DEF StopNext, TypesOK, RegistryType, Work
<1> DEFINE skip == WhyStop(b) = "Restart" /\ b \in parked /\ b \notin work.moved
<1>3. /\ IF skip THEN UNCHANGED <<registryVars, gateParked, notReady, cancelled, reapers>>
                 ELSE StopBot(b, WhyStop(b), b \in work.moved)
      /\ work' = [work EXCEPT !.todo = @ \ {b},
                              !.bots = IF WhyStop(b) = "Restart" /\ ~skip THEN @ \cup {b} ELSE @]
      /\ UNCHANGED <<tasks, entries, force, config, routes, ingest, tokens, calls, serverVars>>
  BY <1>1 DEF StopNext
<1>4. work' \in Work
  BY <1>2, <1>3 DEF Work, TypesOK, RegistryType
<1>5. TasksType'
  BY <1>3, WatchTypes DEF TypesOK, TasksType, StopBot
<1>6. cancelled' \subseteq 1 .. tokens /\ stops' \in [Bots -> 0 .. tokens]
  <2>1. CASE skip
    BY <1>3, <2>1 DEF TypesOK, TokensType, registryVars
  <2>2. CASE ~skip
    <3>1. Cut(b) \subseteq 1 .. tokens
      BY <1>2 DEF Cut, NoToken, TypesOK, TokensType
    <3>2. 0 \in 0 .. tokens
      BY DEF TypesOK, TokensType
    <3>3. stops' = stops \/ stops' = [stops EXCEPT ![b] = NoToken]
      BY <1>3, <2>2 DEF StopBot
    <3>4. cancelled' = cancelled \cup Cut(b)
      BY <1>3, <2>2 DEF StopBot
    <3>5. stops' \in [Bots -> 0 .. tokens]
      BY <3>2, <3>3 DEF TypesOK, TokensType, NoToken
    <3> QED BY <3>1, <3>4, <3>5 DEF TypesOK, TokensType
  <2> QED BY <2>1, <2>2
<1>7. TokensType'
  BY <1>3, <1>6 DEF TypesOK, TokensType
<1>8. NotStarted \in Source
  BY DEF NotStarted, Source, NoTask
<1>9. RegistryType'
  BY <1>2, <1>3, <1>4, <1>8 DEF TypesOK, RegistryType, StopBot, registryVars, serverVars
<1>10. ReloaderType'
  BY DEF TypesOK, ReloaderType, reloaderVars, queueVars, fileVars
<1> QED BY <1>5, <1>7, <1>9, <1>10 DEF TypesOK

\* Prepare has a token for each bot, none of them made before.
LEMMA FreshTokens ==
    ASSUME NEW S \in SUBSET Bots, NEW m \in Nat
    PROVE  /\ Cardinality(S) \in Nat
           /\ \E f \in [S -> m + 1 .. m + Cardinality(S)] : \A b, c \in S : b # c => f[b] # f[c]
<1>1. IsFiniteSet(S)
  BY BotsAssumption, FS_Subset
<1>2. Cardinality(S) \in Nat /\ ExistsBijection(1 .. Cardinality(S), S)
  BY <1>1, FS_CardinalityType
<1>3. ExistsBijection(S, 1 .. Cardinality(S))
  BY <1>2, Fun_ExistsBijSymmetric
<1>4. PICK f \in Bijection(S, 1 .. Cardinality(S)) : TRUE
  BY <1>3 DEF ExistsBijection
<1>5. f \in [S -> 1 .. Cardinality(S)] /\ \A b, c \in S : b # c => f[b] # f[c]
  BY <1>4 DEF Bijection, Injection, IsInjective
<1>6. PICK g : g = [b \in S |-> m + f[b]]
  OBVIOUS
<1>7. \A b \in S : f[b] \in Int /\ g[b] = m + f[b] /\ g[b] \in m + 1 .. m + Cardinality(S)
  BY <1>2, <1>5, <1>6
<1>8. g \in [S -> m + 1 .. m + Cardinality(S)]
  BY <1>6, <1>7
<1>9. \A b, c \in S : b # c => g[b] # g[c]
  BY <1>5, <1>7
<1> QED BY <1>2, <1>8, <1>9

LEMMA PrepareDoes ==
    ASSUME TypesOK, Prepare
    PROVE  /\ tokens' \in Nat /\ tokens' >= tokens
           /\ stops' \in [Bots -> 0 .. tokens']
           /\ \A b \in Bots \ work.bots : stops'[b] = stops[b]
           /\ \A b \in work.bots : stops'[b] > tokens
           /\ \A b, c \in work.bots : b # c => stops'[b] # stops'[c]
<1> DEFINE n == Cardinality(work.bots)
           Good(f) == \A b, c \in work.bots : b # c => f[b] # f[c]
<1>1. PICK new : new = CHOOSE f \in [work.bots -> tokens + 1 .. tokens + n] : Good(f)
  OBVIOUS
<1>2. /\ tokens' = tokens + n
      /\ stops' = [b \in Bots |-> IF b \in work.bots THEN new[b] ELSE stops[b]]
  BY <1>1 DEF Prepare
<1>3. work.bots \subseteq Bots /\ tokens \in Nat /\ stops \in [Bots -> 0 .. tokens]
  BY DEF TypesOK, RegistryType, TokensType, Work
<1>4. n \in Nat /\ new \in [work.bots -> tokens + 1 .. tokens + n] /\ Good(new)
  <2>1. n \in Nat /\ \E f \in [work.bots -> tokens + 1 .. tokens + n] : Good(f)
    <3>1. PICK S \in SUBSET Bots : S = work.bots
      BY <1>3
    <3>2. /\ Cardinality(S) \in Nat
          /\ \E f \in [S -> tokens + 1 .. tokens + Cardinality(S)] : \A b, c \in S : b # c => f[b] # f[c]
      BY <1>3, FreshTokens
    <3> QED BY <3>1, <3>2, Zenon
  <2> HIDE DEF n, Good
  <2> QED BY <1>1, <2>1
<1> HIDE DEF n, Good
<1>5. \A b \in work.bots : new[b] \in Int /\ new[b] > tokens /\ new[b] <= tokens + n
  BY <1>3, <1>4
<1>6. \A b \in Bots : stops'[b] = IF b \in work.bots THEN new[b] ELSE stops[b]
  BY <1>2
<1>7. \A b \in Bots : stops'[b] \in 0 .. tokens'
  BY <1>2, <1>3, <1>4, <1>5, <1>6
<1>8. stops' \in [Bots -> 0 .. tokens']
  BY <1>2, <1>7
<1>9. \A b, c \in work.bots : b # c => stops'[b] # stops'[c]
  BY <1>3, <1>4, <1>6 DEF Good
<1> QED BY <1>2, <1>3, <1>4, <1>5, <1>6, <1>8, <1>9

LEMMA SpawnOnTypes ==
    ASSUME TypesOK, NEW k \in {"source", "identity", "register"}, NEW S \in SUBSET work.bots,
           \A b \in S : Ingress(b) # "none"
    PROVE  /\ {k} \X S \in SUBSET Names
           /\ \A n \in {k} \X S : /\ On[n[2]].tok = stops[n[2]] /\ On[n[2]].up = config[n[2]].up
                                  /\ On[n[2]].tok \in Nat /\ On[n[2]].up \in Upstreams
<1>1. S \subseteq Bots
  BY DEF TypesOK, RegistryType, Work
<1>2. \A b \in S : config[b].up \in Upstreams /\ stops[b] \in Nat
  BY <1>1, Configured DEF TypesOK, RegistryType, TokensType
<1>3. \A n \in {k} \X S : n[2] \in S
  OBVIOUS
<1>4. \A b \in S : On[b].tok = stops[b] /\ On[b].up = config[b].up
  BY DEF On
<1> QED BY <1>1, <1>2, <1>3, <1>4 DEF Names

LEMMA SequenceTypes ==
    ASSUME TypesOK, SequenceOK, Sequence
    PROVE  TypesOK'
<1>0. UNCHANGED <<reloaderVars, app>>
  BY DEF Sequence
<1>1. ReloaderType'
  BY <1>0 DEF TypesOK, ReloaderType, reloaderVars, queueVars, fileVars
<1>b. work \in Work /\ work.bots \subseteq Bots
  BY DEF TypesOK, RegistryType, Work
<1>c. work.pc \in {"spawn", "ready", "poll"} /\ work.bots # {} => Current \in work.bots /\ Ingress(Current) = "poll"
  BY DEF Current, SequenceOK
<1>2. CASE StopNext
  BY <1>0, <1>2, StopNextTypes
<1>3. CASE Prepare
  <2>1. tokens' \in Nat /\ tokens' >= tokens /\ stops' \in [Bots -> 0 .. tokens']
    BY <1>3, PrepareDoes
  <2>2. UNCHANGED <<supervisorVars, config, started, parked, routes, cancelled, ingest, gateVars, hooks>>
    BY <1>3 DEF Prepare
  <2>3. TokensType'
    BY <2>1, <2>2 DEF TypesOK, TokensType
  <2>4. work' \in Work
    BY <1>3, <1>b DEF Prepare, Work
  <2>5. /\ starting' = starting \cup work.bots /\ notReady' = notReady \cup work.bots
        /\ rejected' = rejected \ work.bots
    BY <1>3 DEF Prepare
  <2>6. RegistryType'
    BY <2>2, <2>4, <2>5, <1>b DEF TypesOK, RegistryType, gateVars
  <2> QED BY <1>1, <2>2, <2>3, <2>6 DEF TypesOK, TasksType, supervisorVars
<1>4. CASE Route
  <2>1. work' \in Work
    BY <1>4, <1>b DEF Route, Work
  <2>2. routes' \in [Bots -> Int]
    BY <1>4 DEF Route, Closed, TypesOK, TokensType
  <2> QED BY <1>1, <1>4, <2>1, <2>2 DEF Route, TypesOK, TasksType, RegistryType, TokensType,
             supervisorVars, registryVars, gateVars, serverVars
<1>5. CASE Identify
  <2>1. work' \in Work
    BY <1>5, <1>b DEF Identify, Work
  <2>2. PICK failed \in SUBSET Starting({"hook", "served"}) : Spawn({"identity"} \X failed, On)
    BY <1>5 DEF Identify
  <2>3. failed \in SUBSET work.bots /\ \A b \in failed : Ingress(b) # "none"
    BY <2>2 DEF Starting
  <2>4. tasks' \subseteq Task /\ entries' \in [Names -> Nat]
    BY <2>2, <2>3, SpawnOnTypes, SpawnDoes DEF TypesOK
  <2>5. TasksType'
    BY <2>4, <1>5 DEF Identify, TypesOK, TasksType
  <2> QED BY <1>1, <1>5, <2>1, <2>5 DEF Identify, TypesOK, RegistryType, TokensType,
             registryVars, gateVars, serverVars
<1>6. CASE StartWebhooks
  <2>1. work' \in Work
    BY <1>6, <1>b DEF StartWebhooks, Work
  <2>2. [kind |-> "hook", src |-> NoTask] \in Source
    BY DEF Source, NoTask
  <2>3. started' \in [Bots -> Source] /\ starting' \subseteq Bots
    BY <1>6, <2>2 DEF StartWebhooks, TypesOK, RegistryType
  <2> QED BY <1>1, <1>6, <2>1, <2>3 DEF StartWebhooks, TypesOK, TasksType, RegistryType, TokensType,
             supervisorVars, gateVars, serverVars
<1>7. CASE Register
  <2>1. work' \in Work
    <3>1. Starting({"poll"}) \subseteq Bots
      BY <1>b DEF Starting
    <3>2. work' = [work EXCEPT !.pc = "poll", !.bots = Starting({"poll"})]
      BY <1>7 DEF Register
    <3> QED BY <3>1, <3>2, <1>b DEF Work
  <2>2. PICK answer \in [Starting({"hook"}) -> {"ok", "retry", "no"}] :
           /\ rejected' = rejected \cup {b \in DOMAIN answer : answer[b] = "no"}
           /\ Spawn({"register"} \X Retried(answer), On)
    BY <1>7 DEF Register
  <2>3. DOMAIN answer \subseteq work.bots /\ \A b \in DOMAIN answer : Ingress(b) = "hook"
    BY <2>2 DEF Starting
  <2>4. Retried(answer) \in SUBSET work.bots /\ \A b \in Retried(answer) : Ingress(b) # "none"
    BY <2>3 DEF Retried
  <2>5. tasks' \subseteq Task /\ entries' \in [Names -> Nat]
    BY <2>2, <2>4, SpawnOnTypes, SpawnDoes DEF TypesOK
  <2>6. TasksType'
    BY <2>5, <1>7 DEF Register, TypesOK, TasksType
  <2>7. rejected' \subseteq Bots
    BY <2>2, <2>3, <1>b DEF TypesOK, RegistryType
  <2>8. notReady' \subseteq Bots
    BY <1>7 DEF Register, TypesOK, RegistryType
  <2>9. UNCHANGED <<config, registryVars, routes, cancelled, ingest, tokens, gateVars>>
    BY <1>7 DEF Register
  <2> QED BY <1>1, <2>1, <2>6, <2>7, <2>8, <2>9 DEF TypesOK, RegistryType, TokensType, registryVars, gateVars
<1>8. CASE StartPoll
  <2>1. work' \in Work
    BY <1>8, <1>b DEF StartPoll, Work
  <2>2. [kind |-> "poll", src |-> NoTask] \in Source
    BY DEF Source, NoTask
  <2>3. started' \in [Bots -> Source]
    BY <1>8, <2>2 DEF StartPoll, TypesOK, RegistryType
  <2> QED BY <1>1, <1>8, <2>1, <2>3 DEF StartPoll, TypesOK, TasksType, RegistryType, TokensType,
             supervisorVars, gateVars, serverVars
<1>9. CASE SpawnPoll
  <2>1. work' \in Work
    BY <1>9, <1>b DEF SpawnPoll, Work
  <2>2. Current \in work.bots /\ Ingress(Current) = "poll"
    BY <1>9, <1>c DEF SpawnPoll, SequenceOK
  <2>3. /\ Spawn({<<"source", Current>>}, On)
        /\ started' = [started EXCEPT ![Current].src = stops[Current]]
    BY <1>9 DEF SpawnPoll, Current
  <2>4. PICK S \in SUBSET work.bots : S = {Current}
    BY <2>2
  <2>10. {<<"source", Current>>} = {"source"} \X S
    BY <2>4
  <2>11. Spawn({"source"} \X S, On)
    BY <2>3, <2>10
  <2>5. tasks' \subseteq Task /\ entries' \in [Names -> Nat]
    BY <2>2, <2>4, <2>11, SpawnOnTypes, SpawnDoes DEF TypesOK
  <2>6. TasksType'
    BY <2>5, <1>9 DEF SpawnPoll, TypesOK, TasksType
  <2>7. started[Current] \in Source /\ stops[Current] \in Nat
    BY <2>2, <1>b DEF TypesOK, RegistryType, TokensType
  <2>8. started' \in [Bots -> Source]
    BY <2>3, <2>7 DEF TypesOK, RegistryType, Source
  <2> QED BY <1>1, <1>9, <2>1, <2>6, <2>8 DEF SpawnPoll, TypesOK, RegistryType, TokensType,
             gateVars, serverVars
<1>10. CASE PollReady
  <2>1. /\ work' = [work EXCEPT !.pc = "poll", !.bots = @ \ {Current}]
        /\ starting' = starting \ {Current} /\ notReady' = notReady \ {Current}
    BY <1>10 DEF PollReady, Current
  <2>2. work' \in Work
    BY <2>1, <1>b DEF Work
  <2> QED BY <1>1, <1>10, <2>1, <2>2 DEF PollReady, TypesOK, TasksType, RegistryType, TokensType,
             supervisorVars, gateVars, serverVars
<1> QED BY <1>2, <1>3, <1>4, <1>5, <1>6, <1>7, <1>8, <1>9, <1>10 DEF Sequence, SequenceStep

\* Every step of the reload task leaves it a state of its own.
LEMMA ReloadingTypes ==
    ASSUME TypesOK, ControlOK, Reloading
    PROVE  TypesOK'
<1>0. rl \in Loader /\ UNCHANGED app
  BY DEF TypesOK, ReloaderType, Reloading
<1>1. CASE Settle \/ TakeStop \/ TakeReload \/ BeginReload \/ WatchEnds \/ Reject \/ NotDrained \/ Delivered
  <2>1. UNCHANGED <<supervisorVars, sourceVars, file, loaded, budget, moves>>
    BY <1>1 DEF Settle, TakeStop, TakeReload, BeginReload, WatchEnds, Reject, NotDrained, Delivered,
         queueVars, fileVars, moveUnchanged
  <2>2. rl' \in Loader
    BY <1>0, <1>1, AtFields, FreeFields DEF Settle, TakeStop, TakeReload, BeginReload, WatchEnds,
         Reject, NotDrained, Delivered
  <2> QED BY <2>1, <2>2 DEF TypesOK, TasksType, RegistryType, TokensType, ReloaderType,
         supervisorVars, sourceVars, registryVars, gateVars, serverVars
<1>2. CASE TakeMove
  <2>1. UNCHANGED <<supervisorVars, sourceVars, file, loaded, budget>>
    BY <1>2 DEF TakeMove, fileVars
  <2>2. Head(moves) \in Move /\ moves' \in Seq(Move)
    BY <1>2 DEF TakeMove, TypesOK, ReloaderType
  <2>3. rl' \in Loader
    BY <1>2, <2>2, FreeFields DEF TakeMove, Loader, Move
  <2> QED BY <2>1, <2>2, <2>3 DEF TypesOK, TasksType, RegistryType, TokensType, ReloaderType,
         supervisorVars, sourceVars, registryVars, gateVars, serverVars
<1>3. CASE Apply
  <2>1. file \in Files /\ file.bots \in [Bots -> Bot \cup {Absent}]
    BY <1>3, FilesAssumption DEF Apply, TypesOK, ReloaderType
  <2>2. /\ config' = file.bots /\ loaded' = file /\ rl' = At("apply")
        /\ gateParked' \subseteq gateParked
        /\ calls' \in [Bots -> {"none", "counted", "sending"}]
    BY <1>3 DEF Apply, TypesOK, RegistryType
  <2>3. work' \in Work
    BY <1>3 DEF Apply, Work, Idle, Present
  <2>4. UNCHANGED <<supervisorVars, registryVars, routes, cancelled, ingest, tokens, notReady,
                    serverVars, file, moves, budget>>
    BY <1>3 DEF Apply
  <2>5. rl' \in Loader
    BY <1>0, <2>2, AtFields
  <2>6. RegistryType'
    BY <2>1, <2>2, <2>3, <2>4 DEF TypesOK, RegistryType, registryVars, serverVars
  <2> QED BY <2>1, <2>2, <2>4, <2>5, <2>6 DEF TypesOK, TasksType, TokensType, ReloaderType,
         supervisorVars, registryVars
<1>4. CASE Applied
  <2>1. rl' \in Loader
    BY <1>0, <1>4, AtFields DEF Applied
  <2> QED BY <1>4, <2>1, IdleWork DEF Applied, TypesOK, TasksType, RegistryType, TokensType, ReloaderType,
         supervisorVars, sourcesButWork, queueVars, fileVars, registryVars, gateVars, serverVars
<1>5. CASE Drained
  <2>1. rl' \in Loader
    BY <1>0, <1>5, AtFields DEF Drained
  <2>2. rl.bot \in Bots
    BY <1>5 DEF Drained, ControlOK
  <2>3. /\ parked' = parked \cup {rl.bot}
        /\ started' = [started EXCEPT ![rl.bot] = NotStarted]
        /\ cancelled' = cancelled \cup Cut(rl.bot)
        /\ reapers' = reapers \/ reapers' = reapers \cup Watch(rl.bot)
        /\ UNCHANGED <<starting, stops, tasks, entries, force>>
        /\ UNCHANGED <<config, routes, ingest, tokens, notReady, gateVars, serverVars, work, moveUnchanged>>
    BY <1>5 DEF Drained, Park, Moving
  <2>4. NotStarted \in Source
    BY DEF NotStarted, Source, NoTask
  <2>5. Cut(rl.bot) \subseteq 1 .. tokens
    BY <2>2 DEF Cut, NoToken, TypesOK, TokensType
  <2>6. TasksType'
    BY <2>3, WatchTypes DEF TypesOK, TasksType
  <2>7. RegistryType'
    BY <2>2, <2>3, <2>4 DEF TypesOK, RegistryType, gateVars, serverVars
  <2>8. TokensType'
    BY <2>3, <2>5 DEF TypesOK, TokensType
  <2> QED BY <2>1, <2>3, <2>6, <2>7, <2>8 DEF TypesOK, ReloaderType, moveUnchanged, queueVars, fileVars
<1>6. CASE CloseGate \/ CallsSent
  <2>1. rl' \in Loader
    BY <1>0, <1>6, AtFields, FreeFields DEF CloseGate, CallsSent
  <2>2. UNCHANGED <<supervisorVars, config, registryVars, routes, cancelled, ingest, tokens,
                    notReady, calls, serverVars, work, moveUnchanged>>
    BY <1>6 DEF CloseGate, CallsSent
  <2>3. gateParked' \subseteq Bots
    BY <1>6 DEF CloseGate, CallsSent, Moving, ControlOK, ParkedPcs, TypesOK, RegistryType
  <2> QED BY <2>1, <2>2, <2>3 DEF TypesOK, TasksType, RegistryType, TokensType, ReloaderType,
         supervisorVars, registryVars, serverVars, moveUnchanged, queueVars, fileVars
<1>7. CASE CallServer
  <2>1. rl' \in Loader
    <3>1. rl' \in {Free, At("resume")} \/ \E d \in BOOLEAN : rl' = [rl EXCEPT !.pc = "resume", !.deleted = d]
      BY <1>7 DEF CallServer
    <3>2. Free \in Loader /\ At("resume") \in Loader
      BY <1>0, AtFields, FreeFields
    <3>3. \A d \in BOOLEAN : [rl EXCEPT !.pc = "resume", !.deleted = d] \in Loader
      BY <1>0 DEF Loader
    <3> QED BY <3>1, <3>2, <3>3
  <2>2. UNCHANGED <<supervisorVars, config, registryVars, routes, cancelled, ingest, tokens,
                    notReady, gateVars, rejected, work, moveUnchanged>>
    BY <1>7 DEF CallServer
  <2> QED BY <2>1, <2>2 DEF TypesOK, TasksType, RegistryType, TokensType, ReloaderType,
         supervisorVars, registryVars, gateVars, moveUnchanged, queueVars, fileVars
<1>8. CASE Resume
  <2>1. rl' \in Loader
    BY <1>0, <1>8, AtFields DEF Resume
  <2>2. rl.bot \in Bots
    BY <1>8 DEF Resume, ControlOK, ParkedPcs
  <2>3. work' \in Work
    BY <1>8, <2>2 DEF Resume, Moving, SourceOf, Work, Idle
  <2> QED BY <1>8, <2>1, <2>3 DEF Resume, TypesOK, TasksType, RegistryType, TokensType, ReloaderType,
         supervisorVars, registryVars, gateVars, serverVars, moveUnchanged, queueVars, fileVars
<1>9. CASE Resumed
  <2>2. rl.bot \in Bots
    BY <1>9 DEF Resumed, ControlOK, ParkedPcs
  <2>3. rejected' \subseteq Bots
    BY <1>9, <2>2 DEF Resumed, Moving, serverVars, TypesOK, RegistryType
  <2> QED BY <1>9, <2>3, FreeFields, IdleWork DEF Resumed, TypesOK, TasksType, RegistryType, TokensType,
         ReloaderType, supervisorVars, registryVars, gateVars, moveUnchanged, queueVars, fileVars
<1> QED BY <1>1, <1>2, <1>3, <1>4, <1>5, <1>6, <1>7, <1>8, <1>9 DEF Reloading, ReloaderStep

LEMMA ProcessTypes ==
    ASSUME TypesOK, BootDone \/ BootFails \/ Terminate \/ Shutdown \/ Outside
    PROVE  TypesOK'
<1>0. rl \in Loader
  BY DEF TypesOK, ReloaderType
<1>1. CASE BootDone
  <2>1. rl' \in Loader
    BY <1>0, <1>1, AtFields DEF BootDone
  <2> QED BY <1>1, <2>1, IdleWork DEF BootDone, TypesOK, TasksType, RegistryType, TokensType, ReloaderType,
         supervisorVars, sourcesButWork, queueVars, fileVars, registryVars, gateVars, serverVars
<1>2. ASSUME NEW left, StopNow(left) PROVE TypesOK'
  BY <1>2, IdleWork DEF StopNow, TypesOK, TasksType, RegistryType, TokensType, ReloaderType,
         sourcesButIngest, processUnchanged, queueVars, fileVars, registryVars, gateVars, serverVars
<1>3. ASSUME NEW left, BeginDrain(left) PROVE TypesOK'
  BY <1>3 DEF BeginDrain, TypesOK, TasksType, RegistryType, TokensType, ReloaderType, supervisorVars,
         sourceVars, processUnchanged, queueVars, fileVars, registryVars, gateVars, serverVars
<1>4. CASE LameDuckOver
  BY <1>4 DEF LameDuckOver, TypesOK, TasksType, RegistryType, TokensType, ReloaderType, supervisorVars,
         sourcesButIngest, reloaderVars, queueVars, fileVars, registryVars, gateVars, serverVars
<1>5. Aborted \subseteq Task
  <2> SUFFICES ASSUME NEW t \in tasks
               PROVE  (IF Ended(t) THEN t ELSE [t EXCEPT !.state = "stopped"]) \in Task
    BY DEF Aborted
  <2> QED BY Published DEF TypesOK, TasksType
<1>6. CASE Finish
  BY <1>5, <1>6 DEF Finish, TypesOK, TasksType, RegistryType, TokensType, ReloaderType,
         sourceVars, processUnchanged, queueVars, fileVars, registryVars, gateVars, serverVars
<1>7. CASE ForceExit
  BY <1>5, <1>7 DEF ForceExit, TypesOK, TasksType, RegistryType, TokensType, ReloaderType,
         sourcesButIngest, processUnchanged, queueVars, fileVars, registryVars, gateVars, serverVars
<1>8. CASE UNCHANGED <<supervisorVars, sourceVars, reloaderVars>>
  BY <1>8 DEF TypesOK, TasksType, RegistryType, TokensType, ReloaderType, supervisorVars, reloaderVars,
         sourceVars, queueVars, fileVars, registryVars, gateVars, serverVars
<1>9. CASE Outside
  <2>1. UNCHANGED <<supervisorVars, sourceVars, loaded, rl>>
    BY <1>9 DEF Outside, Hangup, AskMove, Edit, fileVars
  <2>2. file' \in Files \cup {Bad}
    BY <1>9 DEF Outside, Hangup, AskMove, Edit, fileVars, TypesOK, ReloaderType
  <2>3. budget' \in Budget /\ moves' \in Seq(Move)
    <3>1. CASE Hangup
      BY <3>1 DEF Hangup, TypesOK, ReloaderType
    <3>2. ASSUME NEW b \in Bots, NEW how \in {"logOut", "close"}, AskMove(b, how)
          PROVE  budget' \in Budget /\ moves' \in Seq(Move)
      <4>1. [bot |-> b, how |-> how] \in Move
        BY DEF Move
      <4>2. moves' \in Seq(Move)
        BY <3>2, <4>1 DEF AskMove, TypesOK, ReloaderType
      <4>3. budget' = [budget EXCEPT !.moves = budget.moves \ {how}]
        BY <3>2 DEF AskMove, TypesOK, ReloaderType, Budget
      <4> QED BY <4>2, <4>3 DEF TypesOK, ReloaderType, Budget
    <3>3. ASSUME NEW f, Edit(f)
          PROVE  budget' \in Budget /\ moves' \in Seq(Move)
      <4>1. budget' = [budget EXCEPT !.edits = budget.edits \ {f}]
        BY <3>3 DEF Edit, TypesOK, ReloaderType, Budget
      <4> QED BY <3>3, <4>1 DEF Edit, TypesOK, ReloaderType, Budget
    <3> QED BY <1>9, <3>1, <3>2, <3>3 DEF Outside
  <2> QED BY <2>1, <2>2, <2>3 DEF TypesOK, TasksType, RegistryType, TokensType, ReloaderType, supervisorVars,
         sourceVars, registryVars, gateVars, serverVars
<1> QED BY <1>1, <1>2, <1>3, <1>4, <1>6, <1>7, <1>8, <1>9
       DEF BootFails, Terminate, Shutdown, SourcesFailed

-----------------------------------------------------------------------------
(* Control.                                                                *)

\* The sequence runs only while the reload task waits for it.
LEMMA SequenceAlone ==
    ASSUME ControlOK, Sequence
    PROVE  /\ work.pc # "idle" /\ rl.pc \in {"none", "apply", "resuming"}
           /\ UNCHANGED <<rl, app, ingest, force, calls, config>>
<1>1. work.pc # "idle" /\ UNCHANGED <<rl, app>>
  BY DEF Sequence, SequenceStep, StopNext, Prepare, Route, Identify, StartWebhooks, Register,
       StartPoll, SpawnPoll, PollReady, reloaderVars
<1>2. UNCHANGED <<ingest, force, calls, config>>
  BY DEF Sequence, SequenceStep, StopNext, Prepare, Route, Identify, StartWebhooks, Register,
       StartPoll, SpawnPoll, PollReady, supervisorVars, gateVars
<1>3. rl.pc \in {"none", "apply", "resuming"}
  BY <1>1, IdleWork DEF ControlOK
<1> QED BY <1>1, <1>2, <1>3

\* Where a step of the reload task goes, what it does to the sequence and
\* what it has before it.
LEMMA ReloadingMoves ==
    ASSUME TypesOK, ControlOK, Reloading
    PROVE  /\ rl.pc # "none" /\ rl'.pc # "none"
           /\ rl'.pc \notin {"apply", "resuming"} => work' = Idle
           /\ rl'.pc \in ParkedPcs \cup {"resuming"} => rl'.bot = rl.bot /\ rl.pc \in ParkedPcs \cup {"drain"}
           /\ rl'.pc = "drain" => rl'.bot \in Bots /\ config[rl'.bot] # Absent
           /\ rl'.pc = "deliver" => Drained
           /\ rl'.pc \in ParkedPcs \ {"deliver"} => rl.pc \in ParkedPcs
           /\ rl'.pc = "sending" => CloseGate
           /\ rl'.pc = "call" => /\ rl.pc = "sending" /\ calls[rl.bot] = "none"
                                 /\ UNCHANGED <<gateParked, calls>>
           /\ UNCHANGED <<ingest, force, app>>
<1>0. rl \in Loader /\ UNCHANGED app
  BY DEF TypesOK, ReloaderType, Reloading
<1>1. CASE Settle \/ TakeStop \/ TakeReload \/ BeginReload \/ WatchEnds \/ Reject \/ NotDrained
  <2>1. work' = work /\ UNCHANGED <<ingest, force>> /\ rl.pc \notin {"none", "apply", "resuming"}
    BY <1>1 DEF Settle, TakeStop, TakeReload, BeginReload, WatchEnds, Reject, NotDrained, sourceVars, supervisorVars
  <2>2. rl'.pc \in {"select", "begin", "end", "read"}
    BY <1>0, <1>1, AtFields, FreeFields DEF Settle, TakeStop, TakeReload, BeginReload, WatchEnds, Reject, NotDrained
  <2> QED BY <1>0, <2>1, <2>2 DEF ControlOK, ParkedPcs
<1>2. CASE TakeMove
  <2>1. work' = work /\ UNCHANGED <<ingest, force>> /\ rl.pc = "select"
    BY <1>2 DEF TakeMove, sourceVars, supervisorVars
  <2>2. Head(moves) \in Move
    BY <1>2 DEF TakeMove, TypesOK, ReloaderType
  <2>3. \/ rl'.pc = "select"
        \/ rl'.pc = "drain" /\ rl'.bot = Head(moves).bot /\ config[Head(moves).bot] # Absent
    BY <1>2, FreeFields DEF TakeMove, Free
  <2> QED BY <1>0, <2>1, <2>2, <2>3 DEF ControlOK, ParkedPcs, Move
<1>3. CASE Apply
  <2>1. rl'.pc = "apply" /\ rl.pc = "read" /\ UNCHANGED <<ingest, force>>
    BY <1>0, <1>3, AtFields DEF Apply, supervisorVars
  <2> QED BY <1>0, <2>1 DEF ParkedPcs
<1>4. CASE Applied
  <2>1. rl'.pc = "settle" /\ rl.pc = "apply" /\ work' = Idle /\ UNCHANGED <<ingest, force>>
    BY <1>0, <1>4, AtFields DEF Applied, supervisorVars, sourcesButWork
  <2> QED BY <1>0, <2>1 DEF ParkedPcs
<1>5. CASE Drained
  <2>1. rl'.pc = "deliver" /\ rl'.bot = rl.bot /\ rl.pc = "drain" /\ work' = work /\ UNCHANGED <<ingest, force>>
    BY <1>0, <1>5, AtFields DEF Drained, Park
  <2> QED BY <1>0, <1>5, <2>1 DEF ParkedPcs, ControlOK
<1>6. CASE Delivered
  <2>1. rl.pc = "deliver" /\ work' = work /\ UNCHANGED <<ingest, force>>
    BY <1>6 DEF Delivered, sourceVars, supervisorVars
  <2>2. rl'.pc = "select" \/ (rl'.pc = "gate" /\ rl'.bot = rl.bot)
    BY <1>0, <1>6, AtFields, FreeFields DEF Delivered
  <2> QED BY <1>0, <2>1, <2>2 DEF ParkedPcs, ControlOK
<1>7. CASE CloseGate
  <2>1. rl'.pc = "sending" /\ rl'.bot = rl.bot /\ rl.pc = "gate" /\ work' = work /\ UNCHANGED <<ingest, force>>
    BY <1>0, <1>7, AtFields DEF CloseGate, supervisorVars
  <2> QED BY <1>0, <1>7, <2>1 DEF ParkedPcs, ControlOK
<1>8. CASE CallsSent
  <2>1. rl.pc = "sending" /\ work' = work /\ UNCHANGED <<ingest, force, calls>>
    BY <1>8 DEF CallsSent, supervisorVars
  <2>2. \/ rl'.pc = "select"
        \/ rl'.pc = "call" /\ rl'.bot = rl.bot /\ calls[rl.bot] = "none" /\ UNCHANGED gateParked
        \/ rl'.pc = "resume" /\ rl'.bot = rl.bot
    BY <1>0, <1>8, AtFields, FreeFields DEF CallsSent, Moving
  <2> QED BY <1>0, <2>1, <2>2 DEF ParkedPcs, ControlOK
<1>9. CASE CallServer
  <2>1. rl.pc = "call" /\ work' = work /\ UNCHANGED <<ingest, force>>
    BY <1>9 DEF CallServer, supervisorVars
  <2>2. rl'.pc = "select" \/ (rl'.pc = "resume" /\ rl'.bot = rl.bot)
    <3>1. rl' \in {Free, At("resume")} \/ \E d \in BOOLEAN : rl' = [rl EXCEPT !.pc = "resume", !.deleted = d]
      BY <1>9 DEF CallServer
    <3>2. Free.pc = "select" /\ At("resume").pc = "resume" /\ At("resume").bot = rl.bot
      BY <1>0, AtFields, FreeFields
    <3>3. \A d \in BOOLEAN : /\ [rl EXCEPT !.pc = "resume", !.deleted = d].pc = "resume"
                             /\ [rl EXCEPT !.pc = "resume", !.deleted = d].bot = rl.bot
      BY <1>0 DEF Loader
    <3> QED BY <3>1, <3>2, <3>3
  <2> QED BY <1>0, <2>1, <2>2 DEF ParkedPcs, ControlOK
<1>10. CASE Resume
  <2>1. rl'.pc = "resuming" /\ rl'.bot = rl.bot /\ rl.pc = "resume" /\ UNCHANGED <<ingest, force>>
    BY <1>0, <1>10, AtFields DEF Resume, supervisorVars
  <2> QED BY <1>0, <2>1 DEF ParkedPcs
<1>11. CASE Resumed
  <2>1. rl'.pc = "select" /\ rl.pc = "resuming" /\ work' = Idle /\ UNCHANGED <<ingest, force>>
    BY <1>11, FreeFields DEF Resumed, supervisorVars
  <2> QED BY <1>0, <2>1 DEF ParkedPcs
<1> QED BY <1>1, <1>2, <1>3, <1>4, <1>5, <1>6, <1>7, <1>8, <1>9, <1>10, <1>11 DEF Reloading, ReloaderStep

\* The steps of the tasks, the reapers and the gateway leave all of it alone.
LEMMA Bystanders ==
    ASSUME TaskStep \/ (\E r \in reapers : Reaps(r) \/ ReaperGivesUp(r))
             \/ (\E b \in Bots : Enter(b) \/ Pass(b) \/ Sent(b)) \/ Outside
    PROVE  UNCHANGED <<rl, app, ingest, force, work, config, started, starting, stops, parked,
                       routes, cancelled, tokens, notReady, gateParked>>
<1>1. CASE TaskStep
  BY <1>1 DEF TaskStep, TaskBegins, TaskDone, TaskFails, TaskRetries, TaskStops,
       Begin, Done, Fatal, Retry, StopOnCancel, Publish, sourceVars, registryVars, gateVars, reloaderVars
<1>2. CASE \E r \in reapers : Reaps(r) \/ ReaperGivesUp(r)
  BY <1>2 DEF Reaps, ReaperGivesUp, Reap, ReapGivesUp, sourceVars, registryVars, gateVars, reloaderVars
<1>3. CASE \E b \in Bots : Enter(b) \/ Pass(b) \/ Sent(b)
  BY <1>3 DEF Enter, Pass, Sent, gateUnchanged, supervisorVars, registryVars, reloaderVars
<1>4. CASE Outside
  BY <1>4 DEF Outside, Hangup, AskMove, Edit, sourceVars, supervisorVars, registryVars, gateVars
<1> QED BY <1>1, <1>2, <1>3, <1>4

LEMMA ProcessFields ==
    ASSUME app \in Process
    PROVE  /\ \A p \in {"boot", "run", "lame", "drain", "exit"} :
                 [app EXCEPT !.pc = p] \in Process /\ [app EXCEPT !.pc = p].pc = p
           /\ [app EXCEPT !.left = 1] \in Process /\ [app EXCEPT !.left = 1].pc = app.pc
           /\ \A p \in {"boot", "run", "lame", "drain", "exit"}, l \in {0, 1, 2} :
                 [pc |-> p, left |-> l] \in Process /\ [pc |-> p, left |-> l].pc = p
BY DEF Process

\* A step of App::run or of the shutdown starts the reload task, stops
\* ingest, or leaves the bots alone.
LEMMA ProcessMoves ==
    ASSUME TypesOK, ControlOK, BootDone \/ BootFails \/ Terminate \/ Shutdown
    PROVE  /\ ControlOK'
           /\ \/ rl'.pc = "settle" /\ work' = Idle /\ Started
              \/ rl' = rl /\ work' \in {work, Idle}
           /\ \/ ingest'
              \/ UNCHANGED <<tasks, ingest, rl, work>>
              \/ rl'.pc = "settle" /\ work' = Idle /\ Started /\ UNCHANGED <<tasks, ingest>>
           /\ UNCHANGED <<entries, config, started, starting, stops, parked,
                          routes, cancelled, tokens, notReady, gateParked, calls, hooks, rejected>>
<1>0. rl \in Loader /\ app \in Process
  BY DEF TypesOK, ReloaderType, ControlOK
<1>1. CASE BootDone
  <2>1. rl'.pc = "settle" /\ app' \in Process /\ app'.pc = "run" /\ app.pc = "boot"
    BY <1>0, <1>1, AtFields, ProcessFields DEF BootDone
  <2>2. UNCHANGED <<supervisorVars, sourcesButWork>> /\ work' = Idle /\ Started
    BY <1>1 DEF BootDone
  <2> QED BY <2>1, <2>2 DEF supervisorVars, sourcesButWork, registryVars, gateVars, serverVars, ControlOK, ParkedPcs
<1>2. ASSUME NEW left \in {0, 1, 2}, StopNow(left) PROVE
         /\ ingest' /\ rl' = rl /\ work' = Idle /\ ControlOK'
         /\ UNCHANGED <<entries, sourcesButIngest>>
  <2>1. app' \in Process /\ app'.pc = "drain" /\ app.pc = "boot"
    BY <1>0, <1>2, ProcessFields DEF StopNow
  <2>2. ingest' /\ rl' = rl /\ work' = Idle /\ UNCHANGED <<entries, sourcesButIngest>>
    BY <1>2 DEF StopNow
  <2> QED BY <2>1, <2>2 DEF ControlOK
<1>3. ASSUME NEW left \in {0, 1, 2}, BeginDrain(left) PROVE
         /\ UNCHANGED <<supervisorVars, sourceVars, rl>> /\ ControlOK'
  <2>1. app' \in Process /\ app'.pc = "lame" /\ app.pc = "run"
    BY <1>0, <1>3, ProcessFields DEF BeginDrain
  <2>2. UNCHANGED <<supervisorVars, sourceVars, rl>>
    BY <1>3 DEF BeginDrain
  <2> QED BY <2>1, <2>2 DEF ControlOK, supervisorVars, sourceVars
<1>4. CASE LameDuckOver
  <2>1. app' \in Process /\ app'.pc = "drain" /\ app.pc = "lame"
    BY <1>0, <1>4, ProcessFields DEF LameDuckOver
  <2>2. ingest' /\ UNCHANGED <<supervisorVars, sourcesButIngest, work, rl>>
    BY <1>4 DEF LameDuckOver, reloaderVars
  <2> QED BY <2>1, <2>2 DEF ControlOK, supervisorVars, sourcesButIngest, registryVars, gateVars, serverVars
<1>5. CASE Finish
  <2>1. app' \in Process /\ app'.pc = "exit" /\ app.pc = "drain"
    BY <1>0, <1>5, ProcessFields DEF Finish
  <2>2. ingest /\ UNCHANGED <<entries, sourceVars, rl>>
    BY <1>5, <2>1 DEF Finish, ControlOK
  <2> QED BY <2>1, <2>2 DEF ControlOK, sourceVars, registryVars, gateVars, serverVars
<1>6. CASE ForceExit
  <2>1. app' \in Process /\ app'.pc = "exit"
    BY <1>0, <1>6, ProcessFields DEF ForceExit
  <2>2. ingest' /\ UNCHANGED <<entries, sourcesButIngest, work, rl>>
    BY <1>6 DEF ForceExit
  <2> QED BY <2>1, <2>2 DEF ControlOK, sourcesButIngest, registryVars, gateVars, serverVars
<1>7. CASE app' = [app EXCEPT !.left = 1] /\ UNCHANGED <<supervisorVars, sourceVars, reloaderVars>>
  <2>1. app' \in Process /\ app'.pc = app.pc
    BY <1>0, <1>7, ProcessFields
  <2> QED BY <1>7, <2>1 DEF ControlOK, supervisorVars, sourceVars, reloaderVars, registryVars, gateVars, serverVars
<1>8. CASE BootFails
  BY <1>8, <1>2 DEF BootFails, sourcesButIngest, registryVars, gateVars, serverVars
<1>9. CASE Terminate
  <2>1. CASE StopNow(1)
    BY <2>1, <1>2 DEF sourcesButIngest, registryVars, gateVars, serverVars
  <2>2. CASE BeginDrain(1)
    BY <2>2, <1>3 DEF supervisorVars, sourceVars, registryVars, gateVars, serverVars
  <2> QED BY <1>9, <1>6, <1>7, <2>1, <2>2 DEF Terminate
<1>10. CASE Shutdown
  <2>1. CASE SourcesFailed
    BY <2>1, <1>3 DEF SourcesFailed, supervisorVars, sourceVars, registryVars, gateVars, serverVars
  <2> QED BY <1>4, <1>5, <1>10, <2>1 DEF Shutdown
<1> QED BY <1>1, <1>8, <1>9, <1>10

LEMMA ControlStep ==
    ASSUME TypesOK, ControlOK, Next
    PROVE  ControlOK'
<1>1. CASE TaskStep \/ (\E r \in reapers : Reaps(r) \/ ReaperGivesUp(r))
             \/ (\E b \in Bots : Enter(b) \/ Pass(b) \/ Sent(b)) \/ Outside
  BY <1>1, Bystanders DEF ControlOK
<1>2. CASE Sequence
  <2>1. rl.pc \in {"none", "apply", "resuming"} /\ UNCHANGED <<rl, app, ingest, force>>
    BY <1>2, SequenceAlone
  <2> QED BY <2>1 DEF ControlOK
<1>3. CASE Reloading
  <2>1. /\ rl.pc # "none" /\ rl'.pc # "none"
        /\ rl'.pc \notin {"apply", "resuming"} => work' = Idle
        /\ rl'.pc \in ParkedPcs \cup {"resuming"} => rl'.bot = rl.bot /\ rl.pc \in ParkedPcs \cup {"drain"}
        /\ rl'.pc = "drain" => rl'.bot \in Bots
        /\ UNCHANGED <<ingest, force, app>>
    BY <1>3, ReloadingMoves
  <2> QED BY <2>1 DEF ControlOK
<1>4. CASE BootDone \/ BootFails \/ Terminate \/ Shutdown
  BY <1>4, ProcessMoves
<1>5. CASE Exited
  BY <1>5 DEF Exited, vars, ControlOK, supervisorVars, sourceVars, reloaderVars
<1> QED BY <1>1, <1>2, <1>3, <1>4, <1>5 DEF Next

LEMMA MoveStep ==
    ASSUME TypesOK, ControlOK, MoveOK, Next
    PROVE  MoveOK'
<1>1. CASE TaskStep \/ (\E r \in reapers : Reaps(r) \/ ReaperGivesUp(r)) \/ Outside
  <2>1. UNCHANGED <<rl, gateParked>>
    BY <1>1, Bystanders
  <2>2. UNCHANGED calls
    BY <1>1 DEF TaskStep, TaskBegins, TaskDone, TaskFails, TaskRetries, TaskStops, Reaps, ReaperGivesUp,
         Reap, ReapGivesUp, Outside, Hangup, AskMove, Edit, sourceVars, gateVars
  <2> QED BY <2>1, <2>2 DEF MoveOK
<1>2. ASSUME NEW b \in Bots, Enter(b) \/ Pass(b) \/ Sent(b)
      PROVE  MoveOK'
  <2>1. UNCHANGED <<rl, gateParked>>
    BY <1>2, Bystanders
  <2>2. /\ calls \in [Bots -> {"none", "counted", "sending"}]
        /\ rl.pc = "call" => rl.bot \in Bots
    BY DEF TypesOK, RegistryType, ControlOK, ParkedPcs
  <2>3. rl.pc = "call" => calls'[rl.bot] # "sending"
    BY <1>2, <2>2 DEF MoveOK, Enter, Pass, Sent
  <2> QED BY <2>1, <2>3 DEF MoveOK
<1>3. CASE Sequence
  BY <1>3, SequenceAlone DEF MoveOK
<1>4. CASE Reloading
  <2>1. /\ rl'.pc \in ParkedPcs \cup {"resuming"} => rl'.bot = rl.bot
        /\ rl'.pc = "sending" => CloseGate
        /\ rl'.pc = "call" => /\ rl.pc = "sending" /\ calls[rl.bot] = "none"
                              /\ UNCHANGED <<gateParked, calls>>
    BY <1>4, ReloadingMoves
  <2>2. CloseGate => rl.bot \in gateParked'
    BY DEF CloseGate, Moving
  <2> QED BY <2>1, <2>2 DEF MoveOK, ParkedPcs
<1>5. CASE BootDone \/ BootFails \/ Terminate \/ Shutdown
  <2>1. (rl'.pc = "settle" \/ rl' = rl) /\ UNCHANGED <<gateParked, calls>>
    BY <1>5, ProcessMoves
  <2> QED BY <2>1 DEF MoveOK
<1>6. CASE Exited
  BY <1>6 DEF Exited, vars, MoveOK, sourceVars, reloaderVars, gateVars
<1> QED BY <1>1, <1>2, <1>3, <1>4, <1>5, <1>6 DEF Next

-----------------------------------------------------------------------------
(* The sequence.                                                           *)

LEMMA WorkAt ==
    ASSUME work \in Work,
           NEW p \in {"idle", "stop", "identify", "route", "hooks", "register", "poll", "spawn", "ready"}
    PROVE  /\ [work EXCEPT !.pc = p].pc = p /\ [work EXCEPT !.pc = p].who = work.who
           /\ [work EXCEPT !.pc = p].todo = work.todo /\ [work EXCEPT !.pc = p].bots = work.bots
           /\ [work EXCEPT !.pc = p].moved = work.moved
           /\ \A S : /\ [work EXCEPT !.pc = p, !.bots = S].pc = p
                     /\ [work EXCEPT !.pc = p, !.bots = S].who = work.who
                     /\ [work EXCEPT !.pc = p, !.bots = S].bots = S
                     /\ [work EXCEPT !.pc = p, !.bots = S].todo = work.todo
BY DEF Work

\* The bot that StopNext stops.
NextToStop == CHOOSE c \in work.todo : TRUE

Skipped(b) == WhyStop(b) = "Restart" /\ b \in parked /\ b \notin work.moved

LEMMA StopNextWork ==
    ASSUME TypesOK, StopNext
    PROVE  /\ NextToStop \in work.todo /\ NextToStop \in Bots
           /\ work.pc = "stop" /\ work'.pc = "stop" /\ work'.who = work.who
           /\ work'.todo = work.todo \ {NextToStop}
           /\ work'.bots = IF WhyStop(NextToStop) = "Restart" /\ ~Skipped(NextToStop)
                           THEN work.bots \cup {NextToStop} ELSE work.bots
           /\ IF Skipped(NextToStop)
              THEN UNCHANGED <<registryVars, gateParked, notReady, cancelled, reapers>>
              ELSE StopBot(NextToStop, WhyStop(NextToStop), NextToStop \in work.moved)
           /\ UNCHANGED <<tasks, entries, force, config, routes, ingest, tokens, calls, serverVars>>
<1>1. work \in Work
  BY DEF TypesOK, RegistryType
<1>2. /\ work.pc = "stop" /\ work.todo # {}
      /\ work' = [work EXCEPT !.todo = @ \ {NextToStop},
                              !.bots = IF WhyStop(NextToStop) = "Restart" /\ ~Skipped(NextToStop)
                                       THEN @ \cup {NextToStop} ELSE @]
      /\ IF Skipped(NextToStop)
              THEN UNCHANGED <<registryVars, gateParked, notReady, cancelled, reapers>>
              ELSE StopBot(NextToStop, WhyStop(NextToStop), NextToStop \in work.moved)
      /\ UNCHANGED <<tasks, entries, force, config, routes, ingest, tokens, calls, serverVars>>
  BY DEF StopNext, NextToStop, Skipped
<1>3. NextToStop \in work.todo /\ NextToStop \in Bots
  BY <1>1, <1>2 DEF NextToStop, Work
<1>4. /\ work'.pc = "stop" /\ work'.who = work.who
      /\ work'.todo = work.todo \ {NextToStop}
      /\ work'.bots = IF WhyStop(NextToStop) = "Restart" /\ ~Skipped(NextToStop)
                      THEN work.bots \cup {NextToStop} ELSE work.bots
  BY <1>1, <1>2 DEF Work
<1> QED BY <1>2, <1>3, <1>4

LEMMA SequenceWork ==
    ASSUME TypesOK, SequenceOK
    PROVE  /\ Prepare => /\ work.pc = "stop" /\ work.todo = {} /\ work'.who = work.who
                         /\ work'.pc = (IF work.who = "boot" THEN "identify" ELSE "route")
                         /\ work'.todo = {} /\ work'.bots = work.bots
           /\ Route => /\ work.pc = "route" /\ work'.who = work.who
                       /\ work'.pc = (IF work.who = "boot" THEN "hooks" ELSE "identify")
                       /\ work'.todo = {} /\ work'.bots = work.bots
           /\ Identify => /\ work.pc = "identify" /\ work'.who = work.who
                          /\ work'.pc = (IF work.who = "boot" THEN "route" ELSE "hooks")
                          /\ work'.todo = {} /\ work'.bots = work.bots
           /\ StartWebhooks => /\ work.pc = "hooks" /\ work'.pc = "register"
                               /\ work'.todo = {} /\ work'.bots = work.bots
           /\ Register => /\ work.pc = "register" /\ work'.pc = "poll"
                          /\ work'.todo = {} /\ work'.bots = Starting({"poll"})
           /\ StartPoll => /\ work.pc = "poll" /\ work.bots # {} /\ work'.pc = "spawn"
                           /\ work'.todo = {} /\ work'.bots = work.bots
                           /\ started' = [started EXCEPT ![Current] = [kind |-> "poll", src |-> NoTask]]
           /\ SpawnPoll => /\ work.pc = "spawn" /\ work'.pc = "ready"
                           /\ work'.todo = {} /\ work'.bots = work.bots
                           /\ Spawn({<<"source", Current>>}, On)
                           /\ started' = [started EXCEPT ![Current].src = stops[Current]]
           /\ PollReady => /\ work.pc = "ready" /\ work'.pc = "poll"
                           /\ work'.todo = {} /\ work'.bots = work.bots \ {Current}
                           /\ starting' = starting \ {Current} /\ notReady' = notReady \ {Current}
<1>0. work \in Work
  BY DEF TypesOK, RegistryType
<1>1. ASSUME Prepare
      PROVE  /\ work.pc = "stop" /\ work.todo = {} /\ work'.who = work.who
             /\ work'.pc = (IF work.who = "boot" THEN "identify" ELSE "route")
             /\ work'.todo = {} /\ work'.bots = work.bots
  BY <1>0, <1>1, WorkAt DEF Prepare
<1>2. ASSUME Route
      PROVE  /\ work.pc = "route" /\ work'.who = work.who
             /\ work'.pc = (IF work.who = "boot" THEN "hooks" ELSE "identify")
             /\ work'.todo = {} /\ work'.bots = work.bots
  BY <1>0, <1>2, WorkAt DEF Route, SequenceOK
<1>3. ASSUME Identify
      PROVE  /\ work.pc = "identify" /\ work'.who = work.who
             /\ work'.pc = (IF work.who = "boot" THEN "route" ELSE "hooks")
             /\ work'.todo = {} /\ work'.bots = work.bots
  BY <1>0, <1>3, WorkAt DEF Identify, SequenceOK
<1>4. ASSUME StartWebhooks
      PROVE  work.pc = "hooks" /\ work'.pc = "register" /\ work'.todo = {} /\ work'.bots = work.bots
  BY <1>0, <1>4, WorkAt DEF StartWebhooks, SequenceOK
<1>5. ASSUME Register
      PROVE  work.pc = "register" /\ work'.pc = "poll" /\ work'.todo = {} /\ work'.bots = Starting({"poll"})
  <2>1. work.pc = "register" /\ work' = [work EXCEPT !.pc = "poll", !.bots = Starting({"poll"})]
    BY <1>5 DEF Register
  <2> QED BY <1>0, <2>1, WorkAt DEF SequenceOK
<1>6. ASSUME StartPoll
      PROVE  work.pc = "poll" /\ work.bots # {} /\ work'.pc = "spawn" /\ work'.todo = {} /\ work'.bots = work.bots
  BY <1>0, <1>6, WorkAt DEF StartPoll, SequenceOK
<1>7. ASSUME SpawnPoll
      PROVE  work.pc = "spawn" /\ work'.pc = "ready" /\ work'.todo = {} /\ work'.bots = work.bots
  BY <1>0, <1>7, WorkAt DEF SpawnPoll, SequenceOK
<1>8. ASSUME PollReady
      PROVE  work.pc = "ready" /\ work'.pc = "poll" /\ work'.todo = {} /\ work'.bots = work.bots \ {Current}
  <2>1. work.pc = "ready" /\ work' = [work EXCEPT !.pc = "poll", !.bots = work.bots \ {Current}]
    BY <1>0, <1>8 DEF PollReady, Current, Work
  <2> QED BY <1>0, <2>1, WorkAt DEF SequenceOK
<1> QED BY <1>1, <1>2, <1>3, <1>4, <1>5, <1>6, <1>7, <1>8 DEF StartPoll, SpawnPoll, PollReady, Current

LEMMA SequenceStepOK ==
    ASSUME TypesOK, ControlOK, SequenceOK, Next
    PROVE  SequenceOK'
<1>1. CASE TaskStep \/ (\E r \in reapers : Reaps(r) \/ ReaperGivesUp(r))
             \/ (\E b \in Bots : Enter(b) \/ Pass(b) \/ Sent(b)) \/ Outside
  BY <1>1, Bystanders DEF SequenceOK, Ingress
<1>2. CASE Sequence
  <2>0. config' = config
    BY <1>2, SequenceAlone
  <2>1. CASE StopNext
    BY <2>1, StopNextWork DEF SequenceOK
  <2>2. CASE Prepare \/ Route \/ Identify \/ StartWebhooks
    BY <2>2, SequenceWork DEF SequenceOK
  <2>3. CASE Register
    BY <2>0, <2>3, SequenceWork DEF SequenceOK, Starting, Ingress
  <2>4. CASE StartPoll \/ SpawnPoll \/ PollReady
    BY <2>0, <2>4, SequenceWork DEF SequenceOK, Ingress
  <2> QED BY <1>2, <2>1, <2>2, <2>3, <2>4 DEF Sequence, SequenceStep
<1>3. CASE Reloading
  <2>1. CASE Apply \/ Resume
    <3>1. work'.pc = "stop"
      BY <2>1 DEF Apply, Resume, Idle
    <3> QED BY <3>1 DEF SequenceOK
  <2>2. CASE rl'.pc \notin {"apply", "resuming"}
    BY <1>3, <2>2, ReloadingMoves, IdleWork DEF SequenceOK
  <2>3. rl'.pc \in {"apply", "resuming"} => Apply \/ Resume
    <3>1. rl \in Loader
      BY DEF TypesOK, ReloaderType
    <3>2. CASE Settle \/ TakeStop \/ TakeMove \/ TakeReload \/ BeginReload \/ WatchEnds \/ Reject \/ NotDrained
                 \/ Applied \/ Drained \/ Delivered \/ CloseGate \/ CallsSent \/ Resumed
      BY <3>1, <3>2, AtFields, FreeFields DEF Settle, TakeStop, TakeMove, TakeReload, BeginReload, WatchEnds,
           Reject, NotDrained, Applied, Drained, Delivered, CloseGate, CallsSent, Resumed, Free
    <3>3. CASE CallServer
      <4>1. rl' \in {Free, At("resume")} \/ \E d \in BOOLEAN : rl' = [rl EXCEPT !.pc = "resume", !.deleted = d]
        BY <3>3 DEF CallServer
      <4> QED BY <3>1, <4>1, AtFields, FreeFields DEF Loader
    <3> QED BY <1>3, <3>2, <3>3 DEF Reloading, ReloaderStep
  <2> QED BY <2>1, <2>2, <2>3
<1>4. CASE BootDone \/ BootFails \/ Terminate \/ Shutdown
  <2>1. work' \in {work, Idle} /\ config' = config
    BY <1>4, ProcessMoves
  <2> QED BY <2>1, IdleWork DEF SequenceOK, Ingress
<1>5. CASE Exited
  BY <1>5 DEF Exited, vars, SequenceOK, sourceVars, Ingress
<1> QED BY <1>1, <1>2, <1>3, <1>4, <1>5 DEF Next

\* A step of the reload task that is none of the four leaves the registry,
\* the tasks and the tokens alone.
LEMMA ReloadingFrame ==
    ASSUME TypesOK, ControlOK, Reloading
    PROVE  /\ work'.pc \in {"idle", "stop"}
           /\ UNCHANGED <<starting, stops, routes, tokens, tasks, entries, notReady>>
           /\ ~Drained => UNCHANGED <<started, cancelled>>
           /\ ~Drained /\ ~Resume => UNCHANGED parked
           /\ ~Apply => UNCHANGED config
           /\ ~Apply /\ ~Resume => work' = Idle /\ (work = Idle \/ Started)
<1>0. rl \in Loader /\ UNCHANGED app
  BY DEF TypesOK, ReloaderType, Reloading
<1>1. UNCHANGED <<starting, stops, routes, tokens, tasks, entries, notReady>>
  BY DEF Reloading, ReloaderStep, Settle, TakeStop, TakeMove, TakeReload, BeginReload, WatchEnds,
       Reject, Apply, Applied, Drained, NotDrained, Delivered, CloseGate, CallsSent, CallServer, Resume, Resumed,
       Park, supervisorVars, sourceVars, sourcesButWork, registryVars
<1>2. (~Drained => UNCHANGED <<started, cancelled>>) /\ (~Drained /\ ~Resume => UNCHANGED parked)
  BY DEF Reloading, ReloaderStep, Settle, TakeStop, TakeMove, TakeReload, BeginReload, WatchEnds,
       Reject, Apply, Applied, NotDrained, Delivered, CloseGate, CallsSent, CallServer, Resume, Resumed,
       sourceVars, sourcesButWork, registryVars
<1>3. ~Apply => UNCHANGED config
  BY DEF Reloading, ReloaderStep, Settle, TakeStop, TakeMove, TakeReload, BeginReload, WatchEnds,
       Reject, Applied, Drained, NotDrained, Delivered, CloseGate, CallsSent, CallServer, Resume, Resumed,
       sourceVars, sourcesButWork
<1>4. ~Apply /\ ~Resume => \/ (work' = work /\ rl.pc \notin {"none", "apply", "resuming"})
                           \/ (work' = Idle /\ Started)
  BY DEF Reloading, ReloaderStep, Settle, TakeStop, TakeMove, TakeReload, BeginReload, WatchEnds,
       Reject, Applied, Drained, NotDrained, Delivered, CloseGate, CallsSent, CallServer, Resumed,
       sourceVars, sourcesButWork
<1>5. ~Apply /\ ~Resume => work' = Idle /\ (work = Idle \/ Started)
  BY <1>4 DEF ControlOK
<1>6. Apply \/ Resume => work'.pc = "stop"
  BY DEF Apply, Resume, Idle
<1> QED BY <1>1, <1>2, <1>3, <1>5, <1>6, IdleWork

\* A reaper forgets only ended tasks, and no entry of a bot's long poll.
LEMMA ReaperDoes ==
    ASSUME TypesOK, NEW r \in reapers, Reaps(r) \/ ReaperGivesUp(r)
    PROVE  /\ \A b \in Bots : started[b].kind = "poll" => entries'[<<"source", b>>] = entries[<<"source", b>>]
           /\ tasks' \subseteq tasks
           /\ \A t \in tasks : ~Ended(t) \/ entries'[t.name] = t.tok => t \in tasks'
<1>1. r.name \in Names /\ entries \in [Names -> Nat]
  BY DEF TypesOK, TasksType, Watcher
<1>2. \/ entries' = entries
      \/ /\ entries' = [entries EXCEPT ![r.name] = NoTask]
         /\ ~(r.name[1] = "source" /\ started[r.name[2]].kind = "poll")
  BY DEF Reaps, ReaperGivesUp, Reap, ReapGivesUp, Remove
<1>3. tasks' = Forget(tasks, entries', reapers')
  BY DEF Reaps, ReaperGivesUp, Reap, ReapGivesUp, Remove
<1>4. ASSUME NEW b \in Bots, started[b].kind = "poll"
      PROVE  entries'[<<"source", b>>] = entries[<<"source", b>>]
  <2>1. CASE entries' = entries
    BY <2>1
  <2>2. CASE /\ entries' = [entries EXCEPT ![r.name] = NoTask]
             /\ ~(r.name[1] = "source" /\ started[r.name[2]].kind = "poll")
    <3>1. r.name # <<"source", b>>
      BY <1>4, <2>2
    <3>2. <<"source", b>> \in Names
      BY NameParts
    <3> QED BY <1>1, <2>2, <3>1, <3>2
  <2> QED BY <1>2, <2>1, <2>2
<1> QED BY <1>3, <1>4, ForgetKeeps

LEMMA ListedStep ==
    ASSUME TypesOK, ControlOK, SequenceOK, ListedOK, Next
    PROVE  ListedOK'
<1>a. /\ started \in [Bots -> Source] /\ entries \in [Names -> Nat] /\ work \in Work
      /\ work.bots \subseteq Bots /\ config \in [Bots -> Bot \cup {Absent}] /\ stops \in [Bots -> 0 .. tokens]
  BY DEF TypesOK, RegistryType, TasksType, TokensType, Work
<1>b. work.pc \in {"spawn", "ready"} => Current \in work.bots /\ Current \in Bots /\ Ingress(Current) = "poll"
  BY <1>a DEF Current, SequenceOK
<1>1. CASE TaskStep \/ (\E b \in Bots : Enter(b) \/ Pass(b) \/ Sent(b)) \/ Outside
  <2>1. UNCHANGED <<work, config, started, starting>>
    BY <1>1, Bystanders
  <2>2. UNCHANGED entries
    BY <1>1 DEF TaskStep, TaskBegins, TaskDone, TaskFails, TaskRetries, TaskStops,
       Begin, Done, Fatal, Retry, StopOnCancel, Publish, Enter, Pass, Sent, gateUnchanged, supervisorVars,
       Outside, Hangup, AskMove, Edit
  <2> QED BY <2>1, <2>2 DEF ListedOK, Ingress, Current
<1>2. ASSUME NEW r \in reapers, Reaps(r) \/ ReaperGivesUp(r)
      PROVE  ListedOK'
  <2>1. UNCHANGED <<work, config, started, starting>>
    BY <1>2, Bystanders
  <2>3. \A b \in Bots : started[b].kind = "poll" => entries'[<<"source", b>>] = entries[<<"source", b>>]
    BY <1>2, ReaperDoes
  <2> QED BY <2>1, <2>3, <1>b DEF ListedOK, Ingress, Current
<1>3. CASE Sequence
  <2>0. config' = config
    BY <1>3, SequenceAlone
  <2>1. CASE StopNext
    <3>1. PICK b : b = NextToStop
      OBVIOUS
    <3>2. b \in Bots /\ work'.pc = "stop" /\ entries' = entries
      BY <2>1, <3>1, StopNextWork
    <3>3. \/ UNCHANGED <<started, starting>>
          \/ /\ started' = [started EXCEPT ![b] = NotStarted]
             /\ starting' = starting \cup {b} \/ starting' = starting
      BY <2>1, <3>1, StopNextWork DEF StopBot, registryVars
    <3>4. \A c \in Bots : started'[c].kind = "poll" /\ c \notin starting'
                            => started'[c] = started[c] /\ c \notin starting
      BY <1>a, <3>2, <3>3 DEF NotStarted
    <3> QED BY <3>2, <3>4 DEF ListedOK
  <2>2. CASE Prepare
    <3>1. UNCHANGED <<started, entries>> /\ starting' = starting \cup work.bots
      BY <2>2 DEF Prepare, supervisorVars
    <3>2. work'.bots = work.bots /\ work'.pc \in {"identify", "route"}
      BY <2>2, SequenceWork
    <3> QED BY <3>1, <3>2 DEF ListedOK
  <2>3. CASE Route
    <3>1. UNCHANGED <<started, entries, starting>>
      BY <2>3 DEF Route, supervisorVars, registryVars
    <3>2. work'.bots = work.bots /\ work'.pc \in {"identify", "hooks"} /\ work.pc = "route"
      BY <2>3, SequenceWork
    <3> QED BY <2>0, <3>1, <3>2 DEF ListedOK, Ingress
  <2>4. CASE Identify
    <3>1. UNCHANGED <<started, starting>>
      BY <2>4 DEF Identify, registryVars
    <3>2. work'.bots = work.bots /\ work'.pc \in {"route", "hooks"} /\ work.pc = "identify"
      BY <2>4, SequenceWork
    <3>3. \A b \in Bots : entries'[<<"source", b>>] = entries[<<"source", b>>]
      <4>1. PICK failed \in SUBSET Starting({"hook", "served"}) : Spawn({"identity"} \X failed, On)
        BY <2>4 DEF Identify
      <4>2. \A b \in Bots : <<"source", b>> \notin {"identity"} \X failed
        OBVIOUS
      <4> QED BY <4>1, <4>2, NameParts DEF Spawn
    <3> QED BY <2>0, <3>1, <3>2, <3>3 DEF ListedOK, Ingress
  <2>5. CASE StartWebhooks
    <3>1. UNCHANGED entries
      BY <2>5 DEF StartWebhooks, supervisorVars
    <3>2. /\ started' = [b \in Bots |-> IF b \in Starting({"hook", "served"}) THEN [kind |-> "hook", src |-> NoTask]
                                                                          ELSE started[b]]
          /\ starting' = starting \ Starting({"hook", "served"})
      BY <2>5 DEF StartWebhooks
    <3>3. work'.bots = work.bots /\ work'.pc = "register" /\ work.pc = "hooks"
      BY <2>5, SequenceWork
    <3>4. \A b \in Bots : started'[b].kind = "poll" /\ b \notin starting'
                            => started'[b] = started[b] /\ b \notin starting
      BY <3>2
    <3>5. \A b \in work.bots : Ingress(b) = "poll" /\ b \in starting => b \in starting'
      BY <3>2 DEF Starting
    <3> QED BY <1>a, <2>0, <3>1, <3>3, <3>4, <3>5 DEF ListedOK, Ingress
  <2>6. CASE Register
    <3>1. UNCHANGED <<started, starting>>
      BY <2>6 DEF Register, registryVars
    <3>2. work'.bots \subseteq work.bots /\ work'.pc = "poll" /\ work.pc = "register"
      BY <2>6, SequenceWork DEF Starting
    <3>3. \A b \in Bots : entries'[<<"source", b>>] = entries[<<"source", b>>]
      <4>1. PICK S : Spawn({"register"} \X S, On)
        BY <2>6 DEF Register
      <4>2. \A b \in Bots : <<"source", b>> \notin {"register"} \X S
        OBVIOUS
      <4> QED BY <4>1, <4>2, NameParts DEF Spawn
    <3> QED BY <2>0, <3>1, <3>2, <3>3 DEF ListedOK, Ingress
  <2>7. CASE StartPoll
    <3>1. UNCHANGED <<entries, starting>>
      BY <2>7 DEF StartPoll, supervisorVars
    <3>2. /\ work.pc = "poll" /\ work.bots # {} /\ work'.pc = "spawn" /\ work'.bots = work.bots
          /\ started' = [started EXCEPT ![Current] = [kind |-> "poll", src |-> NoTask]]
      BY <2>7, SequenceWork
    <3>3. Current \in work.bots /\ Current \in starting
      BY <3>2 DEF ListedOK, SequenceOK, Current
    <3>4. \A b \in Bots : b \notin starting' => started'[b] = started[b]
      BY <1>a, <3>1, <3>2, <3>3
    <3>5. Current' = Current /\ started'[Current].kind = "poll"
      <4>1. Current' = Current
        BY <3>2 DEF Current
      <4>2. started'[Current] = [kind |-> "poll", src |-> NoTask]
        BY <1>a, <3>2, <3>3
      <4> QED BY <4>1, <4>2
    <3>6. work'.bots = work.bots /\ work'.pc = "spawn" /\ work.pc = "poll"
      BY <3>2
    <3> QED BY <2>0, <3>1, <3>4, <3>5, <3>6 DEF ListedOK, Ingress
  <2>8. CASE SpawnPoll
    <3>1. UNCHANGED starting
      BY <2>8 DEF SpawnPoll
    <3>2. /\ work.pc = "spawn" /\ work'.pc = "ready" /\ work'.bots = work.bots
          /\ Spawn({<<"source", Current>>}, On)
          /\ started' = [started EXCEPT ![Current].src = stops[Current]]
      BY <2>8, SequenceWork
    <3>3. Current \in work.bots /\ Current \in Bots
      BY <3>2, <1>b
    <3>4. \A b \in Bots : b # Current => started'[b] = started[b]
      BY <1>a, <3>2
    <3>5. started'[Current].src = stops[Current] /\ started'[Current].kind = started[Current].kind
      BY <1>a, <3>2, <3>3 DEF Source
    <3>6. \A n \in Names : entries'[n] = IF n = <<"source", Current>> THEN On[n[2]].tok ELSE entries[n]
      BY <3>2 DEF Spawn
    <3>7. On[Current].tok = stops[Current]
      BY <3>3 DEF On
    <3>8. entries'[<<"source", Current>>] = stops[Current]
      BY <3>3, <3>6, <3>7, NameParts
    <3>9. \A b \in Bots : b # Current => entries'[<<"source", b>>] = entries[<<"source", b>>]
      BY <3>6, NameParts
    <3>10. \A b \in Bots : started'[b].kind = "poll" /\ b \notin starting' => entries'[<<"source", b>>] = started'[b].src
      BY <3>1, <3>4, <3>5, <3>8, <3>9 DEF ListedOK
    <3>11. Current' = Current
      BY <3>2 DEF Current
    <3>12. started[Current].kind = "poll"
      BY <3>2 DEF ListedOK
    <3> QED BY <2>0, <3>1, <3>2, <3>3, <3>5, <3>8, <3>10, <3>11, <3>12 DEF ListedOK, Ingress
  <2>9. CASE PollReady
    <3>1. UNCHANGED <<entries, started>>
      BY <2>9 DEF PollReady, supervisorVars
    <3>2. /\ work.pc = "ready" /\ work'.pc = "poll" /\ work'.bots = work.bots \ {Current}
          /\ starting' = starting \ {Current}
      BY <2>9, SequenceWork
    <3> QED BY <2>0, <3>1, <3>2 DEF ListedOK, Ingress
  <2> QED BY <1>3, <2>1, <2>2, <2>3, <2>4, <2>5, <2>6, <2>7, <2>8, <2>9 DEF Sequence, SequenceStep
<1>4. CASE Reloading
  <2>1. work'.pc \in {"idle", "stop"} /\ UNCHANGED <<entries, starting>>
    BY <1>4, ReloadingFrame
  <2>2. \A b \in Bots : started'[b].kind = "poll" => started'[b] = started[b]
    <3>1. CASE Drained
      <4>1. started' = [started EXCEPT ![rl.bot] = NotStarted]
        BY <3>1 DEF Drained, Park, Moving
      <4> QED BY <1>a, <4>1 DEF NotStarted
    <3>2. CASE ~Drained
      BY <1>4, <3>2, ReloadingFrame
    <3> QED BY <3>1, <3>2
  <2> QED BY <2>1, <2>2 DEF ListedOK
<1>5. CASE BootDone \/ BootFails \/ Terminate \/ Shutdown
  <2>1. work' \in {work, Idle} /\ UNCHANGED <<config, entries, started, starting>>
    BY <1>5, ProcessMoves
  <2> QED BY <2>1, IdleWork DEF ListedOK, Ingress, Current
<1>6. CASE Exited
  BY <1>6 DEF Exited, vars, ListedOK, supervisorVars, sourceVars, registryVars, Ingress, Current
<1> QED BY <1>1, <1>2, <1>3, <1>4, <1>5, <1>6 DEF Next

-----------------------------------------------------------------------------
(* The sources: the steps of the tasks and of the reapers.                 *)

Running == AppInv /\ ~ingest /\ ~ingest'

\* What every step starts from.
LEMMA RunningFacts ==
    ASSUME Running
    PROVE  /\ TypesOK /\ ControlOK /\ SequenceOK
           /\ PendingOK /\ TokensOK /\ RoutesOK /\ TasksOK /\ StartedOK /\ HooksOK
           /\ ~force
           /\ tasks \subseteq Task /\ entries \in [Names -> Nat]
           /\ started \in [Bots -> Source] /\ work \in Work
           /\ work.bots \subseteq Bots /\ work.todo \subseteq Bots
           /\ config \in [Bots -> Bot \cup {Absent}]
           /\ tokens \in Nat /\ stops \in [Bots -> 0 .. tokens] /\ cancelled \subseteq 1 .. tokens
<1>1. /\ TypesOK /\ ControlOK /\ SequenceOK
      /\ PendingOK /\ TokensOK /\ RoutesOK /\ TasksOK /\ StartedOK /\ HooksOK
  BY DEF Running, AppInv, SourcesOK
<1>2. ~force
  BY <1>1 DEF ControlOK, Running
<1>3. work \in Work /\ work.bots \subseteq Bots /\ work.todo \subseteq Bots
  BY <1>1 DEF TypesOK, RegistryType, Work
<1> QED BY <1>1, <1>2, <1>3 DEF TypesOK, TasksType, RegistryType, TokensType

\* Neither the tasks nor the reapers touch what these parts are about.
LEMMA SameBots ==
    ASSUME Running, UNCHANGED <<rl, work, config, started, starting, stops, parked, routes, cancelled,
                                notReady, gateParked>>
    PROVE  /\ PendingOK' /\ TokensOK' /\ RoutesOK'
           /\ Settled' = Settled /\ Current' = Current
           /\ \A b \in Bots : Ingress(b)' = Ingress(b)
<1>1. PendingOK'
  BY RunningFacts DEF PendingOK, Ingress
<1>2. TokensOK'
  BY RunningFacts DEF TokensOK, Ingress, Dead, Settled, Pending
<1>3. RoutesOK'
  BY RunningFacts DEF RoutesOK, Ingress, Hooked, Routed, Pending
<1> QED BY <1>1, <1>2, <1>3 DEF Settled, Pending, Current, Ingress

\* A live task of a settled bot is one that the config asks for.
LEMMA TaskNames ==
    ASSUME Running, NEW t \in tasks
    PROVE  /\ t \in Task /\ t.name \in Names /\ BotOf(t) \in Bots /\ t.tok \in Nat
           /\ t.name = <<t.name[1], BotOf(t)>>
           /\ t.name[1] \in {"source", "identity", "register"}
           /\ ~Stopped(t.tok) => t.tok = stops[BotOf(t)] /\ (BotOf(t) \in work.todo \/ Fits(t))
<1>1. t \in Task /\ t.name \in Names /\ t.tok \in Nat
  BY RunningFacts DEF Task
<1>2. BotOf(t) \in Bots /\ t.name = <<t.name[1], BotOf(t)>> /\ t.name[1] \in {"source", "identity", "register"}
  BY <1>1, NameParts DEF BotOf
<1>3. ~Stopped(t.tok) => t.tok = stops[BotOf(t)] /\ (BotOf(t) \in work.todo \/ Fits(t))
  BY RunningFacts DEF TasksOK, Stopped
<1> QED BY <1>1, <1>2, <1>3

LEMMA TaskStepSources ==
    ASSUME Running, TaskStep
    PROVE  SourcesOK'
<1>1. PICK t \in tasks : TaskBegins(t) \/ TaskDone(t) \/ TaskFails(t) \/ TaskRetries(t) \/ TaskStops(t)
  BY DEF TaskStep
<1>2. PICK s \in {"starting", "running", "backoff", "failed", "stopped"} :
         Publish(t, s) /\ (s = "running" \/ TaskDone(t) \/ TaskFails(t) \/ TaskRetries(t) \/ TaskStops(t))
  BY <1>1 DEF TaskBegins, TaskDone, TaskFails, TaskRetries, TaskStops, Begin, Done, Fatal, Retry, StopOnCancel
<1>3. PICK n : n = [t EXCEPT !.state = s]
  OBVIOUS
<1>4. t \in Task /\ n \in Task /\ n.state = s /\ n.name = t.name /\ n.tok = t.tok /\ n.cut = t.cut /\ n.up = t.up
  <2>1. t \in Task
    BY TaskNames
  <2> QED BY <1>3, <2>1, Published
<1>5. /\ tasks' \subseteq (tasks \ {t}) \cup {n}
      /\ \A u \in (tasks \ {t}) \cup {n} : ~Ended(u) \/ entries[u.name] = u.tok => u \in tasks'
      /\ entries' = entries
  BY <1>2, <1>3, ForgetKeeps DEF Publish
<1>6. UNCHANGED <<rl, work, config, started, starting, stops, parked, routes, cancelled,
                                notReady, gateParked>>
  BY Bystanders
<1>7. /\ PendingOK' /\ TokensOK' /\ RoutesOK'
      /\ Settled' = Settled /\ Current' = Current /\ \A b \in Bots : Ingress(b)' = Ingress(b)
  BY <1>6, SameBots
<1>8. TasksOK'
  <2>1. \A u \in tasks' : \E w \in tasks : w.name = u.name /\ w.tok = u.tok /\ w.up = u.up
    BY <1>4, <1>5
  <2>2. OneEach(tasks')
    <3>1. \A u \in tasks' : u \in tasks \ {t} \/ u = n
      BY <1>5
    <3>2. \A u \in tasks \ {t} : ~(u.name = n.name /\ u.tok = n.tok)
      BY <1>4, RunningFacts DEF TasksOK, OneEach
    <3> QED BY <3>1, <3>2, RunningFacts DEF TasksOK, OneEach
  <2>3. \A u \in tasks' : \/ u.tok \in cancelled'
                          \/ /\ u.tok = stops'[BotOf(u)] /\ u.tok # NoToken
                             /\ BotOf(u) \in work'.todo \/ Fits(u)'
    <3> SUFFICES ASSUME NEW u \in tasks', u.tok \notin cancelled
                 PROVE  /\ u.tok = stops[BotOf(u)] /\ u.tok # NoToken
                        /\ BotOf(u) \in work.todo \/ Fits(u)'
      BY <1>6
    <3>1. PICK w \in tasks : w.name = u.name /\ w.tok = u.tok /\ w.up = u.up
      BY <2>1
    <3>2. w.tok = stops[BotOf(w)] /\ w.tok # NoToken /\ (BotOf(w) \in work.todo \/ Fits(w))
      BY <3>1, RunningFacts DEF TasksOK
    <3>3. Fits(w) => Fits(u)'
      BY <1>6, <3>1 DEF Fits, BotOf, Ingress, Hooked
    <3> QED BY <3>1, <3>2, <3>3 DEF BotOf
  <2>4. \A u \in tasks' : u.tok = stops'[BotOf(u)] /\ BotOf(u) \in work'.bots
                          => u.name[1] \in Spawned(BotOf(u))' \/ u.tok \in cancelled'
    <3> SUFFICES ASSUME NEW u \in tasks', u.tok = stops[BotOf(u)], BotOf(u) \in work.bots, u.tok \notin cancelled
                 PROVE  u.name[1] \in Spawned(BotOf(u))'
      BY <1>6
    <3>1. PICK w \in tasks : w.name = u.name /\ w.tok = u.tok
      BY <2>1
    <3>2. w.name[1] \in Spawned(BotOf(w))
      BY <3>1, RunningFacts DEF TasksOK, BotOf
    <3>3. Spawned(BotOf(u))' = Spawned(BotOf(w))
      BY <1>6, <3>1 DEF Spawned, BotOf, Current
    <3> QED BY <3>1, <3>2, <3>3
  <2> QED BY <2>2, <2>3, <2>4 DEF TasksOK
<1>9. StartedOK'
  <2>1. ASSUME NEW b, Polling(b)
        PROVE  Polling(b)'
    <3>1. PICK w \in tasks : w.name = <<"source", b>> /\ w.tok = stops[b] /\ ~w.cut /\ w.up = config[b].up
      BY <2>1 DEF Polling
    <3>2. entries[w.name] = w.tok
      BY <2>1, <3>1 DEF Polling
    <3>3. \E u \in tasks' : u.name = w.name /\ u.tok = w.tok /\ u.cut = w.cut /\ u.up = w.up
      BY <1>4, <1>5, <3>2
    <3> QED BY <1>5, <1>6, <2>1, <3>1, <3>3 DEF Polling
  <2>2. Hooked' = Hooked
    BY <1>6 DEF Hooked, Ingress
  <2> QED BY <1>6, <1>7, <2>1, <2>2, RunningFacts DEF StartedOK, Settled
<1>10. HooksOK'
  <2> SUFFICES ASSUME NEW b \in Settled, Ingress(b) = "hook"
               PROVE  HookSet(b)'
    BY <1>7 DEF HooksOK, Settled
  <2>1. HookSet(b) /\ b \in Bots /\ b \notin work.todo /\ ~Dead(stops[b])
    BY RunningFacts DEF HooksOK, Settled, Pending, TokensOK
  <2>2. CASE <<config[b].up, b>> \in hooks
    <3>1. ASSUME t.name[1] = "source", ~Stopped(t.tok)
          PROVE  BotOf(t) # b
      BY <2>1, <3>1, TaskNames DEF Fits
    <3>2. <<config[b].up, b>> \in hooks'
      BY <1>1, <2>2, <3>1 DEF TaskBegins, TaskDone, TaskFails, TaskRetries, TaskStops, sourceVars, serverVars, BotOf
    <3> QED BY <3>2, <1>6 DEF HookSet
  <2>3. CASE b \in rejected
    <3>1. b \in rejected'
      BY <1>1, <2>3 DEF TaskBegins, TaskDone, TaskFails, TaskRetries, TaskStops, sourceVars, serverVars
    <3> QED BY <3>1, <1>6 DEF HookSet
  <2>4. CASE \E w \in tasks : /\ w.name = <<"register", b>> /\ w.tok = stops[b] /\ w.up = config[b].up
                              /\ ~Ended(w) /\ ~w.cut
    <3>1. PICK w \in tasks : /\ w.name = <<"register", b>> /\ w.tok = stops[b] /\ w.up = config[b].up
                              /\ ~Ended(w) /\ ~w.cut
      BY <2>4
    <3>2. CASE w # t
      <4>1. w \in tasks'
        BY <1>5, <3>1, <3>2
      <4> QED BY <1>6, <3>1, <4>1 DEF HookSet
    <3>3. CASE w = t
      <4>1. ~Stopped(t.tok) /\ ~Cancelled(t)
        <5>1. t.tok # Closed
          BY TaskNames DEF Closed
        <5> QED BY <2>1, <3>1, <3>3, <5>1, RunningFacts DEF Stopped, Dead, Cancelled, Running
      <4>2. t.name[1] = "register" /\ t.name[2] = b
        BY <3>1, <3>3
      <4>3. \/ s = "running"
            \/ <<t.up, b>> \in hooks'
            \/ b \in rejected'
        <5>2. CASE TaskDone(t)
          BY <4>1, <4>2, <5>2 DEF TaskDone
        <5>3. CASE TaskFails(t)
          BY <4>2, <5>3 DEF TaskFails
        <5>4. CASE TaskRetries(t)
          BY <4>2, <5>4 DEF TaskRetries
        <5>5. CASE TaskStops(t)
          BY <4>1, <5>5 DEF TaskStops, StopOnCancel
        <5> QED BY <1>2, <5>2, <5>3, <5>4, <5>5
      <4>4. CASE s = "running"
        <5>1. ~Ended(n)
          BY <1>4, <4>4 DEF Ended
        <5>2. n \in tasks'
          BY <1>5, <5>1
        <5> QED BY <1>4, <1>6, <3>1, <3>3, <5>1, <5>2 DEF HookSet
      <4> QED BY <1>6, <3>1, <3>3, <4>3, <4>4 DEF HookSet
    <3> QED BY <3>2, <3>3
  <2> QED BY <2>1, <2>2, <2>3, <2>4 DEF HookSet
<1> QED BY <1>7, <1>8, <1>9, <1>10 DEF SourcesOK

LEMMA ReaperSources ==
    ASSUME Running, NEW r \in reapers, Reaps(r) \/ ReaperGivesUp(r)
    PROVE  SourcesOK'
<1>1. UNCHANGED <<rl, work, config, started, starting, stops, parked, routes, cancelled,
                                notReady, gateParked>>
  BY Bystanders
<1>2. /\ PendingOK' /\ TokensOK' /\ RoutesOK'
      /\ Settled' = Settled /\ Current' = Current /\ \A b \in Bots : Ingress(b)' = Ingress(b)
  BY <1>1, SameBots
<1>3. /\ \A b \in Bots : started[b].kind = "poll" => entries'[<<"source", b>>] = entries[<<"source", b>>]
      /\ tasks' \subseteq tasks
      /\ \A t \in tasks : ~Ended(t) \/ entries'[t.name] = t.tok => t \in tasks'
  BY RunningFacts, ReaperDoes
<1>4. UNCHANGED <<hooks, rejected>>
  BY DEF Reaps, ReaperGivesUp, Reap, ReapGivesUp, sourceVars, serverVars
<1>5. TasksOK'
  <2>1. OneEach(tasks')
    BY <1>3, RunningFacts DEF TasksOK, OneEach
  <2> QED BY <1>1, <1>3, <2>1, RunningFacts
          DEF TasksOK, Fits, BotOf, Ingress, Hooked, Spawned, Current
<1>6. StartedOK'
  <2>1. ASSUME NEW b \in Bots, Polling(b)
        PROVE  Polling(b)'
    <3>1. PICK w \in tasks : w.name = <<"source", b>> /\ w.tok = stops[b] /\ ~w.cut /\ w.up = config[b].up
      BY <2>1 DEF Polling
    <3>2. started[b].kind = "poll"
      BY <2>1 DEF Polling
    <3>3. entries'[<<"source", b>>] = stops[b]
      BY <1>3, <2>1, <3>2 DEF Polling
    <3>4. w \in tasks'
      BY <1>3, <3>1, <3>3
    <3> QED BY <1>1, <2>1, <3>1, <3>3, <3>4 DEF Polling
  <2>2. Hooked' = Hooked
    BY <1>1 DEF Hooked, Ingress
  <2>3. work.pc = "ready" => Current \in Bots
    BY RunningFacts DEF Current, SequenceOK
  <2> QED BY <1>1, <1>2, <2>1, <2>2, <2>3, RunningFacts DEF StartedOK, Settled
<1>7. HooksOK'
  <2> SUFFICES ASSUME NEW b \in Settled, Ingress(b) = "hook"
               PROVE  HookSet(b)'
    BY <1>2 DEF HooksOK, Settled
  <2>1. HookSet(b)
    BY RunningFacts DEF HooksOK
  <2> QED BY <1>1, <1>3, <1>4, <2>1 DEF HookSet
<1> QED BY <1>2, <1>5, <1>6, <1>7 DEF SourcesOK

\* Steps of the clients, of the world and of App::run that touch no source.
LEMMA SameSources ==
    ASSUME Running, UNCHANGED <<rl, work, config, started, starting, stops, parked, routes, cancelled,
                                notReady, gateParked, tasks, entries, hooks, rejected>>
    PROVE  SourcesOK'
<1>2. /\ PendingOK' /\ TokensOK' /\ RoutesOK'
      /\ Settled' = Settled /\ Current' = Current /\ \A b \in Bots : Ingress(b)' = Ingress(b)
  BY SameBots
<1>3. TasksOK'
  BY RunningFacts DEF TasksOK, OneEach, Fits, BotOf, Ingress, Hooked, Spawned, Current
<1>4. Hooked' = Hooked
  BY DEF Hooked, Ingress
<1>5. StartedOK'
  BY <1>2, <1>4, RunningFacts DEF StartedOK, Settled, Polling
<1>6. HooksOK'
  BY <1>2, RunningFacts DEF HooksOK, HookSet, Settled
<1> QED BY <1>2, <1>3, <1>5, <1>6 DEF SourcesOK

-----------------------------------------------------------------------------
(* The sources: the steps of the reload task.                              *)

\* No bot is left to be stopped or started.
Rested == work = Idle \/ Started

LEMMA RestedFacts ==
    ASSUME Running, Rested
    PROVE  work.todo = {} /\ work.bots = {} /\ work.pc \in {"idle", "poll"}
BY RunningFacts, IdleWork DEF Rested, Started, SequenceOK

\* Between jobs, only the gate, the webhooks and the job of the reload task
\* change.
LEMMA RestedStep ==
    ASSUME Running, Rested, work' = Idle,
           UNCHANGED <<config, started, starting, stops, parked, routes, cancelled, notReady, tasks, entries>>,
           rl'.pc = "drain" => config[rl'.bot] # Absent,
           rl'.pc \in ParkedPcs => rl'.bot \in parked,
           gateParked' \subseteq parked,
           \A b \in Bots \ parked : /\ <<config[b].up, b>> \in hooks => <<config[b].up, b>> \in hooks'
                                    /\ b \in rejected => b \in rejected'
    PROVE  SourcesOK'
<1>1. work.todo = {} /\ work.bots = {} /\ work.pc \in {"idle", "poll"}
  BY RestedFacts
<1>2. work'.todo = {} /\ work'.bots = {} /\ work'.pc = "idle"
  BY IdleWork
<1>3. Settled = Bots \ parked /\ Settled' = Bots \ parked
  BY <1>1, <1>2 DEF Settled, Pending
<1>4. Hooked' = Hooked /\ \A b \in Bots : Ingress(b)' = Ingress(b)
  BY DEF Hooked, Ingress
<1>5. PendingOK'
  <2>1. starting \subseteq {} /\ notReady \subseteq {}
    BY <1>1, RunningFacts DEF PendingOK
  <2>2. \A b \in parked : config[b] # Absent
    BY <1>1, RunningFacts DEF TokensOK
  <2> QED BY <1>2, <2>1, <2>2 DEF PendingOK
<1>6. TokensOK'
  BY <1>1, <1>2, <1>3, <1>4, RunningFacts DEF TokensOK, Dead
<1>7. RoutesOK'
  <2>1. \A b \in Hooked \ parked : routes[b] = stops[b]
    BY <1>1, RunningFacts DEF RoutesOK, Pending
  <2> QED BY <1>1, <1>4, <2>1, RunningFacts DEF RoutesOK
<1>8. TasksOK'
  <2>1. OneEach(tasks')
    BY RunningFacts DEF TasksOK
  <2>2. \A t \in tasks : Fits(t)' = Fits(t)
    BY DEF Fits, BotOf, Ingress, Hooked
  <2>3. \A t \in tasks : t.tok \in cancelled \/ (t.tok = stops[BotOf(t)] /\ t.tok # NoToken /\ Fits(t))
    BY <1>1, RunningFacts DEF TasksOK
  <2> QED BY <1>2, <2>1, <2>2, <2>3 DEF TasksOK, BotOf
<1>9. StartedOK'
  <2>1. \A b \in Bots : Polling(b) => Polling(b)'
    BY DEF Polling
  <2> QED BY <1>2, <1>3, <1>4, <2>1, RunningFacts DEF StartedOK
<1>10. HooksOK'
  <2> SUFFICES ASSUME NEW b \in Bots \ parked, Ingress(b) = "hook"
               PROVE  HookSet(b)'
    BY <1>3, <1>4 DEF HooksOK
  <2>1. HookSet(b)
    BY <1>3, RunningFacts DEF HooksOK
  <2> QED BY <2>1 DEF HookSet
<1> QED BY <1>5, <1>6, <1>7, <1>8, <1>9, <1>10 DEF SourcesOK

\* Sources::park: the source stops at once, whatever its tasks do.
LEMMA DrainedSources ==
    ASSUME Running, Drained, rl'.pc = "deliver", rl'.bot = rl.bot, work' = Idle, work = Idle
    PROVE  SourcesOK'
<1>0. PICK m : m = rl.bot
  OBVIOUS
<1>1. m \in Bots
  BY <1>0, RunningFacts DEF ControlOK, Drained
<1>2. /\ parked' = parked \cup {m}
      /\ started' = [started EXCEPT ![m] = NotStarted]
      /\ cancelled' = cancelled \cup Cut(m)
      /\ UNCHANGED <<starting, stops, tasks, entries, config, routes, tokens, notReady, gateParked, hooks, rejected>>
  BY <1>0 DEF Drained, Park, Moving, gateVars, serverVars
<1>3. work.todo = {} /\ work.bots = {} /\ work.pc = "idle" /\ UNCHANGED work
  BY IdleWork
<1>4. Settled' = Settled \ {m} /\ Hooked' = Hooked /\ \A b \in Bots : Ingress(b)' = Ingress(b)
  BY <1>2, <1>3 DEF Settled, Pending, Hooked, Ingress
<1>5. \A b \in Bots : ~Dead(stops[b]) /\ b # m => ~(Dead(stops[b])')
  BY <1>1, <1>2, RunningFacts DEF Dead, Cut, TokensOK
<1>6. Dead(stops[m])' /\ config[m] # Absent /\ rl.pc = "drain"
  <2>1. Dead(stops[m])'
    BY <1>2 DEF Dead, Cut
  <2>2. rl.pc = "drain" /\ config[m] # Absent
    BY <1>0, RunningFacts DEF PendingOK, Drained
  <2> QED BY <2>1, <2>2
<1>7. PendingOK'
  <2>1. /\ starting = {} /\ notReady = {}
        /\ gateParked \subseteq parked /\ \A b \in gateParked : config[b] # Absent
    BY <1>3, RunningFacts DEF PendingOK
  <2>2. m \in parked'
    BY <1>2
  <2> QED BY <1>0, <1>2, <1>3, <2>1, <2>2 DEF PendingOK, ParkedPcs
<1>8. started'[m] = NotStarted /\ \A b \in Bots : b # m => started'[b] = started[b]
  BY <1>1, <1>2, RunningFacts
<1>9. \A b \in Bots : Dead(stops[b]) => Dead(stops[b])'
  BY <1>2 DEF Dead
<1>10. TokensOK'
  <2>1. \A b \in Bots : Ingress(b) = "none" => stops[b] = NoToken
    BY <1>3, RunningFacts DEF TokensOK
  <2>2. \A b \in parked : Dead(stops[b]) /\ started[b] = NotStarted /\ config[b] # Absent
    BY <1>3, RunningFacts DEF TokensOK
  <2>3. \A b \in parked' : /\ Dead(stops[b])'
                            /\ started'[b] = NotStarted /\ config[b] # Absent
    <3> SUFFICES ASSUME NEW b \in parked'
                 PROVE  /\ Dead(stops[b])'
                        /\ started'[b] = NotStarted /\ config[b] # Absent
      OBVIOUS
    <3>1. CASE b = m
      BY <3>1, <1>6, <1>8
    <3>2. CASE b # m
      <4>1. b \in parked /\ b \in Bots
        BY <1>2, <3>2, RunningFacts DEF TypesOK, RegistryType
      <4> QED BY <2>2, <3>2, <4>1, <1>8, <1>9
    <3> QED BY <3>1, <3>2
  <2>4. \A b \in Settled' : Ingress(b)' # "none" => ~(Dead(stops[b])')
    <3>1. \A b \in Settled : Ingress(b) # "none" => ~Dead(stops[b])
      BY RunningFacts DEF TokensOK
    <3> QED BY <1>4, <1>5, <3>1 DEF Settled
  <2>5. \A b, c \in Bots : b # c /\ stops[b] # NoToken => stops[b] # stops[c]
    BY RunningFacts DEF TokensOK
  <2>6. \A b \in Bots : Ingress(b)' = "none" => stops'[b] = NoToken
    BY <1>2, <1>4, <2>1
  <2>7. \A b, c \in Bots : b # c /\ stops'[b] # NoToken => stops'[b] # stops'[c]
    BY <1>2, <2>5
  <2>8. work'.bots = {} /\ config' = config
    BY <1>2, <1>3
  <2> QED BY <2>3, <2>4, <2>6, <2>7, <2>8 DEF TokensOK
<1>11. RoutesOK'
  <2>1. \A b \in Bots : \/ routes[b] = Closed
                        \/ routes[b] \in cancelled
                        \/ routes[b] = stops[b] /\ stops[b] # NoToken /\ b \in Hooked
    BY <1>3, RunningFacts DEF RoutesOK
  <2>2. \A b \in Hooked \ parked : routes[b] = stops[b]
    BY <1>3, RunningFacts DEF RoutesOK, Pending
  <2> QED BY <1>2, <1>4, <2>1, <2>2 DEF RoutesOK
<1>12. TasksOK'
  <2>1. OneEach(tasks')
    BY <1>2, RunningFacts DEF TasksOK
  <2>2. \A t \in tasks : Fits(t)' = Fits(t)
    BY <1>2 DEF Fits, BotOf, Ingress, Hooked
  <2>3. \A t \in tasks : t.tok \in cancelled \/ (t.tok = stops[BotOf(t)] /\ t.tok # NoToken /\ Fits(t))
    BY <1>3, RunningFacts DEF TasksOK
  <2> QED BY <1>2, <1>3, <2>1, <2>2, <2>3 DEF TasksOK, BotOf
<1>13. StartedOK'
  <2>1. \A b \in Settled' : b \in Settled /\ b \in Bots /\ started'[b] = started[b]
    BY <1>4, <1>8 DEF Settled
  <2>2. \A b \in Settled' : Polling(b) => Polling(b)'
    BY <1>2, <2>1 DEF Polling
  <2> QED BY <1>3, <1>4, <2>1, <2>2, RunningFacts DEF StartedOK
<1>14. HooksOK'
  <2> SUFFICES ASSUME NEW b \in Settled, Ingress(b) = "hook"
               PROVE  HookSet(b)'
    BY <1>4 DEF HooksOK, Settled
  <2>1. HookSet(b)
    BY RunningFacts DEF HooksOK
  <2> QED BY <1>2, <2>1 DEF HookSet
<1> QED BY <1>7, <1>10, <1>11, <1>12, <1>13, <1>14 DEF SourcesOK

\* Reloader::resume: the bot is no longer parked, and its source is to start.
LEMMA ResumeSources ==
    ASSUME Running, Resume, rl'.pc = "resuming", work = Idle
    PROVE  SourcesOK'
<1>0. PICK m : m = rl.bot
  OBVIOUS
<1>1. m \in parked /\ m \in Bots
  BY <1>0, RunningFacts DEF PendingOK, Resume, ParkedPcs, TypesOK, RegistryType
<1>2. /\ parked' = parked \ {m} /\ gateParked' = gateParked \ {m}
      /\ work'.pc = "stop" /\ work'.todo = {} /\ work'.bots = SourceOf(m)
      /\ UNCHANGED <<config, started, starting, stops, routes, cancelled, notReady, tasks, entries, hooks, rejected>>
  BY <1>0 DEF Resume, Moving, Idle, supervisorVars, serverVars
<1>3. work.todo = {} /\ work.bots = {} /\ work.pc = "idle"
  BY IdleWork
<1>4. Hooked' = Hooked /\ \A b \in Bots : Ingress(b)' = Ingress(b)
  BY <1>2 DEF Hooked, Ingress
<1>5. \A b \in work'.bots : b = m /\ Ingress(m) # "none"
  BY <1>2 DEF SourceOf
<1>6. \A b \in Settled' : b \in Settled \/ (b = m /\ Ingress(m) = "none")
  BY <1>2, <1>3 DEF Settled, Pending, SourceOf
<1>7. Dead(stops[m]) /\ started[m] = NotStarted
  BY <1>1, RunningFacts DEF TokensOK
<1>8. PendingOK'
  BY <1>1, <1>2, <1>3, <1>4, <1>5, RunningFacts DEF PendingOK, ParkedPcs
<1>9. TokensOK'
  <2>1. \A b \in Bots : Ingress(b)' = "none" => stops'[b] = NoToken
    BY <1>2, <1>3, <1>4, RunningFacts DEF TokensOK
  <2>2. \A b \in parked' : /\ Dead(stops[b])'
                           /\ started'[b] = NotStarted /\ config'[b] # Absent
    BY <1>2, <1>3, RunningFacts DEF TokensOK, Dead
  <2>3. \A b \in work'.bots : Dead(stops[b])'
    BY <1>2, <1>5, <1>7 DEF Dead
  <2>4. \A b \in Settled' : Ingress(b)' # "none" => ~(Dead(stops[b])')
    <3>1. \A b \in Settled : Ingress(b) # "none" => ~Dead(stops[b])
      BY RunningFacts DEF TokensOK
    <3>2. \A b \in Settled' : b \in Bots
      BY DEF Settled
    <3> QED BY <1>2, <1>4, <1>6, <3>1, <3>2 DEF Dead
  <2>5. \A b, c \in Bots : b # c /\ stops'[b] # NoToken => stops'[b] # stops'[c]
    BY <1>2, RunningFacts DEF TokensOK
  <2> QED BY <1>2, <2>1, <2>2, <2>3, <2>4, <2>5 DEF TokensOK
<1>10. RoutesOK'
  <2>1. \A b \in Bots : \/ routes[b] = Closed
                        \/ routes[b] \in cancelled
                        \/ routes[b] = stops[b] /\ stops[b] # NoToken /\ b \in Hooked
    BY <1>3, RunningFacts DEF RoutesOK
  <2>2. \A b \in Hooked \ parked : routes[b] = stops[b]
    BY <1>3, RunningFacts DEF RoutesOK, Pending
  <2>3. \A b \in Hooked \ parked' : b \in Hooked \ parked \/ b \in Pending'
    BY <1>2 DEF Hooked, Pending, SourceOf
  <2>4. ~Routed'
    BY <1>2 DEF Routed
  <2> QED BY <1>2, <1>4, <2>1, <2>2, <2>3, <2>4 DEF RoutesOK
<1>11. TasksOK'
  <2>1. OneEach(tasks')
    BY <1>2, RunningFacts DEF TasksOK
  <2>2. \A t \in tasks : Fits(t)' = Fits(t)
    BY <1>2 DEF Fits, BotOf, Ingress, Hooked
  <2>3. \A t \in tasks : t.tok \in cancelled \/ (t.tok = stops[BotOf(t)] /\ t.tok # NoToken /\ Fits(t))
    BY <1>3, RunningFacts DEF TasksOK
  <2>4. \A t \in tasks' : t.name[1] \in {"identity", "register", "source"}
    BY <1>2, TaskNames
  <2>5. \A b : Spawned(b)' = {"identity", "register", "source"}
    BY <1>2 DEF Spawned
  <2> QED BY <1>2, <2>1, <2>2, <2>3, <2>4, <2>5 DEF TasksOK, BotOf
<1>12. StartedOK'
  <2>1. \A b \in Bots : Polling(b) => Polling(b)'
    BY <1>2 DEF Polling
  <2>2. \A b \in Settled' : b \in Bots
    BY DEF Settled
  <2>3. Ingress(m) = "none" => m \notin Hooked /\ started[m].kind # "hook"
    BY <1>7 DEF Hooked, NotStarted
  <2>4. \A b \in Settled' : Ingress(b) = "poll" => Polling(b)
    BY <1>6, RunningFacts DEF StartedOK
  <2>5. \A b \in Settled' : started[b].kind = "hook" <=> b \in Hooked
    BY <1>6, <2>3, RunningFacts DEF StartedOK
  <2> QED BY <1>2, <1>4, <2>1, <2>2, <2>4, <2>5 DEF StartedOK
<1>13. HooksOK'
  <2> SUFFICES ASSUME NEW b \in Settled', Ingress(b) = "hook"
               PROVE  HookSet(b)'
    BY <1>4 DEF HooksOK, Settled
  <2>1. HookSet(b)
    BY <1>6, RunningFacts DEF HooksOK
  <2> QED BY <1>2, <2>1 DEF HookSet
<1> QED BY <1>8, <1>9, <1>10, <1>11, <1>12, <1>13 DEF SourcesOK

\* Engine::apply: what changed is to be stopped or started, and the rest is
\* configured as before.
LEMMA ApplySources ==
    ASSUME Running, Apply, rl'.pc = "apply", work = Idle
    PROVE  SourcesOK'
<1>1. /\ work'.pc = "stop"
      /\ work'.todo = (Present(config) \ Present(config')) \cup
                      {b \in Present(config) \cap Present(config') : config[b] # config'[b]}
      /\ work'.bots = {b \in Present(config') \ Present(config) : config'[b].ingress # "none"}
      /\ gateParked' = gateParked \cap (Present(config) \cap Present(config'))
      /\ UNCHANGED <<started, starting, stops, parked, routes, cancelled, notReady, tasks, entries, hooks, rejected>>
  <2>1. config' = file.bots
    BY DEF Apply
  <2>2. work'.bots = {b \in Present(config') \ (Present(config) \cap Present(config')) : config'[b].ingress # "none"}
    BY <2>1 DEF Apply, Idle
  <2>3. Present(config') \ (Present(config) \cap Present(config')) = Present(config') \ Present(config)
    OBVIOUS
  <2>4. /\ work'.pc = "stop"
        /\ work'.todo = (Present(config) \ Present(config')) \cup
                      {b \in Present(config) \cap Present(config') : config[b] # config'[b]}
    BY <2>1 DEF Apply, Idle
  <2>5. /\ gateParked' = gateParked \cap (Present(config) \cap Present(config'))
        /\ UNCHANGED <<started, starting, stops, parked, routes, cancelled, notReady, tasks, entries, hooks, rejected>>
    BY <2>1 DEF Apply, supervisorVars, registryVars, serverVars
  <2> QED BY <2>2, <2>3, <2>4, <2>5
<1>2. work.todo = {} /\ work.bots = {} /\ work.pc = "idle"
  BY IdleWork
<1>3. \A b \in Bots : config[b] = Absent => stops[b] = NoToken /\ b \notin parked /\ Ingress(b) = "none"
  BY <1>2, RunningFacts DEF TokensOK, Ingress
<1>4. ASSUME NEW b \in Bots, b \notin work'.todo, b \notin work'.bots
      PROVE  Ingress(b)' = Ingress(b) /\ (Ingress(b) # "none" => config'[b] = config[b])
  BY <1>1, <1>4 DEF Present, Ingress
<1>5. \A b \in work'.bots : b \in Bots /\ config[b] = Absent /\ Ingress(b)' # "none"
  BY <1>1 DEF Present, Ingress
<1>6. \A b \in Settled' : b \in Settled /\ b \in Bots /\ b \notin work'.todo /\ b \notin work'.bots
  BY <1>1, <1>2 DEF Settled, Pending
<1>7. PendingOK'
  <2>1. work'.bots \cap parked' = {}
    BY <1>1, <1>3, <1>5
  <2>2. gateParked' \subseteq parked' /\ \A b \in gateParked' : config'[b] # Absent
    BY <1>1, RunningFacts DEF PendingOK, Present
  <2>3. starting' \subseteq work'.bots /\ notReady' \subseteq work'.bots
    BY <1>1, <1>2, RunningFacts DEF PendingOK
  <2> QED BY <1>1, <1>5, <2>1, <2>2, <2>3 DEF PendingOK, ParkedPcs
<1>8. TokensOK'
  <2>1. \A b \in Bots : Ingress(b)' = "none" => b \in work'.todo \/ stops'[b] = NoToken
    <3> SUFFICES ASSUME NEW b \in Bots, Ingress(b)' = "none", b \notin work'.todo
                 PROVE  stops[b] = NoToken
      BY <1>1
    <3>1. b \notin work'.bots
      BY <1>5
    <3>2. Ingress(b) = "none"
      BY <1>4, <3>1
    <3> QED BY <1>2, <3>2, RunningFacts DEF TokensOK
  <2>2. \A b \in parked' : /\ Dead(stops[b])'
                           /\ started'[b] = NotStarted
                           /\ config'[b] # Absent \/ b \in work'.todo
    <3> SUFFICES ASSUME NEW b \in parked
                 PROVE  /\ Dead(stops[b])
                        /\ started[b] = NotStarted
                        /\ config'[b] # Absent \/ b \in work'.todo
      BY <1>1 DEF Dead
    <3>1. Dead(stops[b]) /\ started[b] = NotStarted /\ config[b] # Absent /\ b \in Bots
      BY <1>2, RunningFacts DEF TokensOK, TypesOK, RegistryType
    <3> QED BY <1>1, <3>1 DEF Present
  <2>3. \A b \in work'.bots : Dead(stops[b])'
    BY <1>1, <1>3, <1>5 DEF Dead
  <2>4. \A b \in Settled' : Ingress(b)' # "none" => ~(Dead(stops[b])')
    <3>1. \A b \in Settled : Ingress(b) # "none" => ~Dead(stops[b])
      BY RunningFacts DEF TokensOK
    <3> QED BY <1>1, <1>4, <1>6, <3>1 DEF Dead
  <2>5. \A b, c \in Bots : b # c /\ stops'[b] # NoToken => stops'[b] # stops'[c]
    BY <1>1, RunningFacts DEF TokensOK
  <2> QED BY <1>1, <2>1, <2>2, <2>3, <2>4, <2>5 DEF TokensOK
<1>9. RoutesOK'
  <2>1. ASSUME NEW b \in Bots
        PROVE  \/ routes'[b] = Closed
               \/ routes'[b] \in cancelled'
               \/ /\ routes'[b] = stops'[b] /\ stops'[b] # NoToken
                  /\ b \in work'.todo \/ b \in Hooked'
    <3>1. \/ routes[b] = Closed
          \/ routes[b] \in cancelled
          \/ routes[b] = stops[b] /\ stops[b] # NoToken /\ b \in Hooked
      BY <1>2, RunningFacts DEF RoutesOK
    <3>2. stops[b] # NoToken => b \notin work'.bots
      BY <1>3, <1>5
    <3>3. b \in Hooked /\ b \notin work'.bots => b \in work'.todo \/ b \in Hooked'
      BY <1>4 DEF Hooked
    <3> QED BY <1>1, <3>1, <3>2, <3>3
  <2>2. ASSUME NEW b \in Hooked' \ parked', b \notin Pending'
        PROVE  routes'[b] = stops'[b]
    <3>1. b \in Bots /\ b \notin work'.todo /\ b \notin work'.bots
      BY <2>2 DEF Hooked, Pending
    <3>2. b \in Hooked \ parked
      BY <1>1, <1>4, <2>2, <3>1 DEF Hooked
    <3>3. routes[b] = stops[b]
      BY <1>2, <3>2, RunningFacts DEF RoutesOK, Pending
    <3> QED BY <1>1, <3>3
  <2>3. ~Routed'
    BY <1>1 DEF Routed
  <2> QED BY <2>1, <2>2, <2>3 DEF RoutesOK
<1>10. TasksOK'
  <2>1. OneEach(tasks')
    BY <1>1, RunningFacts DEF TasksOK
  <2>2. ASSUME NEW t \in tasks, Fits(t)
        PROVE  BotOf(t) \in work'.todo \/ Fits(t)'
    <3>1. BotOf(t) \in Bots /\ Ingress(BotOf(t)) # "none"
      BY <2>2, TaskNames DEF Fits, Hooked
    <3>2. BotOf(t) \notin work'.bots
      BY <1>3, <1>5, <3>1
    <3>3. PICK b \in Bots : b = BotOf(t)
      BY <3>1
    <3>4. b \notin work'.todo => Ingress(b)' = Ingress(b) /\ config'[b] = config[b]
      BY <1>4, <3>1, <3>2, <3>3
    <3>5. b \in Hooked /\ b \notin work'.todo => b \in Hooked'
      BY <3>4 DEF Hooked
    <3> QED BY <2>2, <3>3, <3>4, <3>5 DEF Fits, BotOf
  <2>3. \A t \in tasks : t.tok \in cancelled \/ (t.tok = stops[BotOf(t)] /\ t.tok # NoToken /\ Fits(t))
    BY <1>2, RunningFacts DEF TasksOK
  <2>4. \A t \in tasks' : t.name[1] \in {"identity", "register", "source"}
    BY <1>1, TaskNames
  <2>5. \A b : Spawned(b)' = {"identity", "register", "source"}
    BY <1>1 DEF Spawned
  <2> QED BY <1>1, <2>1, <2>2, <2>3, <2>4, <2>5 DEF TasksOK, BotOf
<1>11. StartedOK'
  <2>1. ASSUME NEW b \in Settled'
        PROVE  /\ Ingress(b)' = "poll" => Polling(b)'
               /\ started'[b].kind = "hook" <=> b \in Hooked'
    <3>1. b \in Settled /\ b \in Bots
      BY <1>6
    <3>2. Ingress(b)' = Ingress(b) /\ (Ingress(b) # "none" => config'[b] = config[b])
      BY <1>4, <1>6
    <3>3. (Ingress(b) = "poll" => Polling(b)) /\ (started[b].kind = "hook" <=> b \in Hooked)
      BY <3>1, RunningFacts DEF StartedOK
    <3>4. b \in Hooked <=> b \in Hooked'
      BY <3>2 DEF Hooked
    <3>5. Polling(b) /\ config'[b] = config[b] => Polling(b)'
      BY <1>1 DEF Polling
    <3> QED BY <1>1, <3>2, <3>3, <3>4, <3>5
  <2> QED BY <1>1, <2>1 DEF StartedOK
<1>12. HooksOK'
  <2> SUFFICES ASSUME NEW b \in Settled', Ingress(b)' = "hook"
               PROVE  HookSet(b)'
    BY DEF HooksOK
  <2>1. b \in Settled /\ Ingress(b) = "hook" /\ config'[b] = config[b]
    BY <1>4, <1>6
  <2>2. HookSet(b)
    BY <2>1, RunningFacts DEF HooksOK
  <2> QED BY <1>1, <2>1, <2>2 DEF HookSet
<1> QED BY <1>7, <1>8, <1>9, <1>10, <1>11, <1>12 DEF SourcesOK

LEMMA ReloadingSources ==
    ASSUME Running, Reloading
    PROVE  SourcesOK'
<1>0. TypesOK /\ ControlOK /\ rl \in Loader
  BY RunningFacts DEF TypesOK, ReloaderType
<1>1. /\ rl'.pc \notin {"apply", "resuming"} => work' = Idle
      /\ rl'.pc \in ParkedPcs => rl'.bot = rl.bot
      /\ rl'.pc = "drain" => config[rl'.bot] # Absent
      /\ rl'.pc = "deliver" => Drained
      /\ rl'.pc \in ParkedPcs \ {"deliver"} => rl.pc \in ParkedPcs
  BY <1>0, ReloadingMoves
<1>2. CASE Drained
  <2>1. rl'.pc = "deliver" /\ rl.pc = "drain"
    BY <1>0, <1>2, AtFields DEF Drained
  <2>2. work = Idle /\ work' = Idle /\ rl'.bot = rl.bot
    BY <1>0, <1>1, <2>1 DEF ControlOK, ParkedPcs
  <2> QED BY <1>2, <2>1, <2>2, DrainedSources
<1>3. CASE Apply
  <2>1. rl'.pc = "apply" /\ work = Idle
    BY <1>0, <1>3, AtFields DEF Apply, ControlOK
  <2> QED BY <1>3, <2>1, ApplySources
<1>4. CASE Resume
  <2>1. rl'.pc = "resuming" /\ work = Idle
    BY <1>0, <1>4, AtFields DEF Resume, ControlOK
  <2> QED BY <1>4, <2>1, ResumeSources
<1>5. CASE ~Drained /\ ~Apply /\ ~Resume
  <2>1. /\ UNCHANGED <<config, started, starting, stops, parked, routes, cancelled, notReady, tasks, entries>>
        /\ work' = Idle /\ Rested
    BY <1>0, <1>5, ReloadingFrame DEF Rested
  <2>2. rl'.pc \in ParkedPcs => rl'.bot \in parked
    BY <1>1, <1>5, RunningFacts DEF PendingOK, ParkedPcs
  <2>3. gateParked' \subseteq parked
    <3>1. \/ gateParked' \subseteq gateParked
          \/ rl.pc = "gate" /\ gateParked' = gateParked \cup {rl.bot}
      BY <1>5 DEF Reloading, ReloaderStep, Settle, TakeStop, TakeMove, TakeReload, BeginReload, WatchEnds,
           Reject, Applied, NotDrained, Delivered, CloseGate, CallsSent, CallServer, Resumed,
           Moving, sourceVars, sourcesButWork, gateVars
    <3> QED BY <3>1, RunningFacts DEF PendingOK, ParkedPcs
  <2>4. \/ hooks \subseteq hooks' /\ rejected \subseteq rejected'
        \/ rl.pc = "call" /\ hooks' = hooks \ {<<config[rl.bot].up, rl.bot>>} /\ rejected' = rejected
    BY <1>5 DEF Reloading, ReloaderStep, Settle, TakeStop, TakeMove, TakeReload, BeginReload, WatchEnds,
         Reject, Applied, NotDrained, Delivered, CloseGate, CallsSent, CallServer, Resumed,
         Moving, sourceVars, sourcesButWork, serverVars
  <2>5. \A b \in Bots \ parked : /\ <<config[b].up, b>> \in hooks => <<config[b].up, b>> \in hooks'
                                 /\ b \in rejected => b \in rejected'
    <3>1. rl.pc = "call" => rl.bot \in parked
      BY RunningFacts DEF PendingOK, ParkedPcs
    <3> QED BY <2>4, <3>1
  <2> QED BY <1>1, <2>1, <2>2, <2>3, <2>5, RestedStep
<1> QED BY <1>2, <1>3, <1>4, <1>5

\* App::run, the clients of the gateway and the world.
LEMMA OtherSources ==
    ASSUME Running,
           BootDone \/ BootFails \/ Terminate \/ Shutdown \/ Outside
             \/ (\E b \in Bots : Enter(b) \/ Pass(b) \/ Sent(b)) \/ Exited
    PROVE  SourcesOK'
<1>1. CASE Outside \/ (\E b \in Bots : Enter(b) \/ Pass(b) \/ Sent(b)) \/ Exited
  <2>1. UNCHANGED <<rl, work, config, started, starting, stops, parked, routes, cancelled, notReady, gateParked>>
    <3>1. CASE Exited
      BY <3>1 DEF Exited, vars, sourceVars, reloaderVars, registryVars, gateVars
    <3> QED BY <1>1, <3>1, Bystanders
  <2>2. UNCHANGED <<tasks, entries, hooks, rejected>>
    BY <1>1 DEF Outside, Hangup, AskMove, Edit, Enter, Pass, Sent, Exited, vars, gateUnchanged,
         supervisorVars, sourceVars, serverVars
  <2> QED BY <2>1, <2>2, SameSources
<1>2. CASE BootDone \/ BootFails \/ Terminate \/ Shutdown
  <2>1. /\ \/ UNCHANGED <<tasks, rl, work>>
           \/ rl'.pc = "settle" /\ work' = Idle /\ Started /\ UNCHANGED tasks
        /\ UNCHANGED <<entries, config, started, starting, stops, parked,
                       routes, cancelled, notReady, gateParked, hooks, rejected>>
    BY <1>2, RunningFacts, ProcessMoves DEF Running
  <2>2. CASE UNCHANGED <<tasks, rl, work>>
    BY <2>1, <2>2, SameSources
  <2>3. CASE rl'.pc = "settle" /\ work' = Idle /\ Started /\ UNCHANGED tasks
    <3>1. gateParked' \subseteq parked
      BY <2>1, RunningFacts DEF PendingOK
    <3> QED BY <2>1, <2>3, <3>1, RestedStep DEF Rested, ParkedPcs
  <2> QED BY <2>1, <2>2, <2>3
<1> QED BY <1>1, <1>2

-----------------------------------------------------------------------------
(* The sources: the steps of the sequence.                                 *)

LEMMA StopNextSources ==
    ASSUME Running, Sequence, StopNext
    PROVE  SourcesOK'
<1>0. rl.pc \in {"none", "apply", "resuming"} /\ rl' = rl
  BY RunningFacts, SequenceAlone
<1>1. PICK b : b = NextToStop
  OBVIOUS
<1>2. /\ b \in work.todo /\ b \in Bots
      /\ work.pc = "stop" /\ work'.pc = "stop"
      /\ work'.todo = work.todo \ {b}
      /\ work'.bots = IF WhyStop(b) = "Restart" /\ ~Skipped(b) THEN work.bots \cup {b} ELSE work.bots
      /\ UNCHANGED <<tasks, entries, config, routes, hooks, rejected>>
  BY <1>1, RunningFacts, StopNextWork DEF serverVars
<1>3. /\ Skipped(b) => UNCHANGED <<started, starting, stops, parked, gateParked, notReady, cancelled>>
      /\ ~Skipped(b) => StopBot(b, WhyStop(b), b \in work.moved)
  BY <1>1, RunningFacts, StopNextWork DEF registryVars
<1>4. /\ WhyStop(b) = "Restart" <=> Ingress(b) # "none"
      /\ WhyStop(b) = "BotGone" <=> config[b] = Absent
      /\ WhyStop(b) \in {"Restart", "BotGone", "SourceGone"}
  BY DEF WhyStop, Ingress
<1>5. Skipped(b) => /\ b \in parked /\ Dead(stops[b]) /\ started[b] = NotStarted
                    /\ Ingress(b) # "none" /\ config[b] # Absent
  <2>1. config[b] = Absent => Ingress(b) = "none"
    BY DEF Ingress
  <2> QED BY <1>4, <2>1, RunningFacts DEF Skipped, TokensOK
<1>6. Hooked' = Hooked /\ \A c \in Bots : Ingress(c)' = Ingress(c)
  BY <1>2 DEF Hooked, Ingress
<1>7. /\ \A c \in Bots : c # b => /\ stops'[c] = stops[c] /\ started'[c] = started[c]
                                  /\ c \in parked' <=> c \in parked
                                  /\ c \in gateParked' <=> c \in gateParked
                                  /\ c \in starting' => c \in starting
      /\ stops'[b] = IF Skipped(b) \/ Ingress(b) # "none" THEN stops[b] ELSE NoToken
      /\ started'[b] = NotStarted
      /\ cancelled \subseteq cancelled' /\ cancelled' \subseteq cancelled \cup ({stops[b]} \ {NoToken})
      /\ stops[b] = NoToken \/ stops[b] \in cancelled'
      /\ parked' \subseteq parked /\ gateParked' \subseteq gateParked /\ notReady' \subseteq notReady
      /\ starting' \subseteq starting \cup {b}
  <2>1. CASE Skipped(b)
    BY <1>3, <1>5, <2>1 DEF Dead
  <2>2. CASE ~Skipped(b)
    <3>1. StopBot(b, WhyStop(b), b \in work.moved)
      BY <1>3, <2>2
    <3>2. stops' = IF WhyStop(b) = "Restart" THEN stops ELSE [stops EXCEPT ![b] = NoToken]
      BY <3>1 DEF StopBot
    <3>3. /\ \A c \in Bots : c # b => stops'[c] = stops[c]
          /\ stops'[b] = IF Ingress(b) # "none" THEN stops[b] ELSE NoToken
      BY <1>2, <1>4, <3>2, RunningFacts
    <3>4. started' = [started EXCEPT ![b] = NotStarted]
      BY <3>1 DEF StopBot
    <3>5. (\A c \in Bots : c # b => started'[c] = started[c]) /\ started'[b] = NotStarted
      BY <1>2, <3>4, RunningFacts
    <3>6. cancelled' = cancelled \cup ({stops[b]} \ {NoToken})
      BY <3>1 DEF StopBot, Cut
    <3> QED BY <2>2, <3>1, <3>3, <3>5, <3>6 DEF StopBot
  <2> QED BY <2>1, <2>2
<1>8. ASSUME NEW c \in Bots, c # b
      PROVE  Dead(stops[c]) <=> Dead(stops[c])'
  BY <1>2, <1>7, <1>8, RunningFacts DEF Dead, TokensOK
<1>9. b \in parked' => /\ Ingress(b) = "none" \/ Skipped(b)
                       /\ config[b] # Absent
  BY <1>3, <1>4, <1>5 DEF StopBot, Skipped
<1>10. Ingress(b) # "none" /\ ~Skipped(b) => b \in work'.bots
  BY <1>2, <1>4
<1>11. \A c \in work'.bots : c \in Bots /\ (c \in work.bots \/ (c = b /\ ~Skipped(b) /\ Ingress(b) # "none"))
  BY <1>2, <1>4, RunningFacts
<1>12. Ingress(b) # "none" => b \in work'.bots \/ (Skipped(b) /\ b \in parked')
  BY <1>3, <1>5, <1>10
<1>13. \A c \in Settled' : \/ c \in Settled /\ c # b /\ c \in Bots
                           \/ c = b /\ Ingress(b) = "none"
  <2> SUFFICES ASSUME NEW c \in Settled', c # b \/ Ingress(b) # "none"
               PROVE  c \in Settled /\ c # b /\ c \in Bots
    OBVIOUS
  <2>1. c \in Bots /\ c \notin work'.todo /\ c \notin work'.bots /\ c \notin parked'
    BY DEF Settled, Pending
  <2>2. c # b
    BY <1>12, <2>1
  <2> QED BY <1>2, <1>7, <2>1, <2>2 DEF Settled, Pending
<1>14. PendingOK'
  <2>1. work'.bots \cap parked' = {}
    BY <1>7, <1>9, <1>11, RunningFacts DEF PendingOK
  <2>2. \A c \in work'.bots : Ingress(c)' # "none"
    BY <1>6, <1>11, RunningFacts DEF PendingOK
  <2>3. starting' \subseteq work'.bots /\ notReady' \subseteq work'.bots
    <3>1. work.bots \subseteq work'.bots
      BY <1>2
    <3>2. ASSUME b \in starting', b \notin starting
          PROVE  b \in work'.bots
      BY <1>2, <1>3, <3>2 DEF StopBot
    <3> QED BY <1>7, <3>1, <3>2, RunningFacts DEF PendingOK
  <2>4. gateParked' \subseteq parked' /\ \A c \in gateParked' : config'[c] # Absent
    <3>1. ASSUME b \in gateParked'
          PROVE  b \in parked'
      BY <1>3, <1>4, <1>7, <3>1, RunningFacts DEF StopBot, PendingOK
    <3>2. gateParked' \subseteq Bots
      BY <1>7, RunningFacts DEF TypesOK, RegistryType
    <3> QED BY <1>2, <1>7, <3>1, <3>2, RunningFacts DEF PendingOK
  <2> QED BY <1>0, <1>2, <2>1, <2>2, <2>3, <2>4 DEF PendingOK, ParkedPcs
<1>15. TokensOK'
  <2>1. \A c \in Bots : Ingress(c)' = "none" => c \in work'.todo \/ stops'[c] = NoToken
    BY <1>2, <1>5, <1>6, <1>7, RunningFacts DEF TokensOK
  <2>2. ASSUME NEW c \in parked'
        PROVE  /\ Dead(stops[c])'
               /\ started'[c] = NotStarted
               /\ config'[c] # Absent \/ c \in work'.todo
    <3>0. c \in parked /\ c \in Bots
      BY <1>7, RunningFacts DEF TypesOK, RegistryType
    <3>1. CASE c # b
      BY <1>2, <1>7, <1>8, <3>0, <3>1, RunningFacts DEF TokensOK
    <3>2. CASE c = b
      <4>1. Dead(stops[b])'
        BY <1>2, <1>5, <1>7, <1>9, <3>2 DEF Dead
      <4> QED BY <1>2, <1>7, <1>9, <3>2, <4>1
    <3> QED BY <3>1, <3>2
  <2>3. ASSUME NEW c \in work'.bots
        PROVE  Dead(stops[c])'
    <3>1. CASE c # b
      BY <1>2, <1>8, <1>11, <3>1, RunningFacts DEF TokensOK
    <3>2. CASE c = b
      <4>1. Ingress(b) # "none"
        BY <1>11, <3>2, RunningFacts DEF PendingOK
      <4> QED BY <1>7, <3>2, <4>1 DEF Dead
    <3> QED BY <3>1, <3>2
  <2>4. \A c \in Settled' : Ingress(c)' # "none" => ~(Dead(stops[c])')
    <3>1. \A c \in Settled : Ingress(c) # "none" => ~Dead(stops[c])
      BY RunningFacts DEF TokensOK
    <3> QED BY <1>2, <1>6, <1>8, <1>13, <3>1
  <2>5. \A c, d \in Bots : c # d /\ stops'[c] # NoToken => stops'[c] # stops'[d]
    BY <1>7, RunningFacts DEF TokensOK
  <2> QED BY <1>2, <2>1, <2>2, <2>3, <2>4, <2>5 DEF TokensOK
<1>16. RoutesOK'
  <2>1. ASSUME NEW c \in Bots
        PROVE  \/ routes'[c] = Closed
               \/ routes'[c] \in cancelled'
               \/ /\ routes'[c] = stops'[c] /\ stops'[c] # NoToken
                  /\ c \in work'.todo \/ c \in Hooked'
    <3>1. \/ routes[c] = Closed
          \/ routes[c] \in cancelled
          \/ /\ routes[c] = stops[c] /\ stops[c] # NoToken
             /\ c \in work.todo \/ c \in Hooked
      BY RunningFacts DEF RoutesOK
    <3>2. CASE c # b
      BY <1>2, <1>6, <1>7, <3>1, <3>2
    <3>3. CASE c = b
      BY <1>2, <1>7, <3>1, <3>3
    <3> QED BY <3>2, <3>3
  <2>2. ASSUME NEW c \in Hooked' \ parked', c \notin Pending'
        PROVE  routes'[c] = stops'[c]
    <3>1. c \in Bots /\ Ingress(c) # "none" /\ c \in Hooked
      BY <1>6, <2>2 DEF Hooked
    <3>2. c \in Settled'
      BY <2>2, <3>1 DEF Settled
    <3>3. c \in Settled /\ c # b
      BY <1>13, <3>1, <3>2
    <3>4. routes[c] = stops[c]
      BY <3>1, <3>3, RunningFacts DEF RoutesOK, Settled
    <3> QED BY <1>2, <1>7, <3>1, <3>3, <3>4
  <2>3. ~Routed'
    BY <1>2 DEF Routed
  <2> QED BY <2>1, <2>2, <2>3 DEF RoutesOK
<1>17. TasksOK'
  <2>1. OneEach(tasks')
    BY <1>2, RunningFacts DEF TasksOK
  <2>2. \A t \in tasks : Fits(t)' = Fits(t)
    BY <1>2 DEF Fits, BotOf, Ingress, Hooked
  <2>3. ASSUME NEW t \in tasks
        PROVE  \/ t.tok \in cancelled'
               \/ /\ t.tok = stops'[BotOf(t)] /\ t.tok # NoToken
                  /\ BotOf(t) \in work'.todo \/ Fits(t)
    <3>1. \/ t.tok \in cancelled
          \/ /\ t.tok = stops[BotOf(t)] /\ t.tok # NoToken
             /\ BotOf(t) \in work.todo \/ Fits(t)
      BY RunningFacts DEF TasksOK
    <3>2. BotOf(t) \in Bots
      BY TaskNames
    <3>3. CASE BotOf(t) # b
      BY <1>2, <1>7, <3>1, <3>2, <3>3
    <3>4. CASE BotOf(t) = b
      BY <1>7, <3>1, <3>4
    <3> QED BY <3>3, <3>4
  <2>4. \A t \in tasks' : t.name[1] \in {"identity", "register", "source"}
    BY <1>2, TaskNames
  <2>5. \A c : Spawned(c)' = {"identity", "register", "source"}
    BY <1>2 DEF Spawned
  <2> QED BY <1>2, <2>1, <2>2, <2>3, <2>4, <2>5 DEF TasksOK, BotOf
<1>18. StartedOK'
  <2>1. ASSUME NEW c \in Settled'
        PROVE  /\ Ingress(c)' = "poll" => Polling(c)'
               /\ started'[c].kind = "hook" <=> c \in Hooked'
    <3>1. CASE c # b
      <4>1. c \in Settled /\ c \in Bots
        BY <1>13, <3>1
      <4>2. (Ingress(c) = "poll" => Polling(c)) /\ (started[c].kind = "hook" <=> c \in Hooked)
        BY <4>1, RunningFacts DEF StartedOK
      <4>3. Polling(c) => Polling(c)'
        BY <1>2, <1>7, <3>1, <4>1 DEF Polling
      <4> QED BY <1>6, <1>7, <3>1, <4>1, <4>2, <4>3
    <3>2. CASE c = b
      <4>1. Ingress(b) = "none" /\ b \notin Hooked
        BY <1>13, <3>2 DEF Hooked
      <4> QED BY <1>2, <1>6, <1>7, <3>2, <4>1 DEF NotStarted
    <3> QED BY <3>1, <3>2
  <2> QED BY <1>2, <2>1 DEF StartedOK
<1>19. HooksOK'
  <2> SUFFICES ASSUME NEW c \in Settled', Ingress(c)' = "hook"
               PROVE  HookSet(c)'
    BY DEF HooksOK
  <2>1. c \in Settled /\ c # b /\ c \in Bots /\ Ingress(c) = "hook"
    BY <1>2, <1>6, <1>13
  <2>2. HookSet(c)
    BY <2>1, RunningFacts DEF HooksOK
  <2> QED BY <1>2, <1>7, <2>1, <2>2 DEF HookSet
<1> QED BY <1>14, <1>15, <1>16, <1>17, <1>18, <1>19 DEF SourcesOK

LEMMA PrepareSources ==
    ASSUME Running, Sequence, Prepare
    PROVE  SourcesOK'
<1>0. rl.pc \in {"none", "apply", "resuming"} /\ rl' = rl
  BY RunningFacts, SequenceAlone
<1>1. /\ work.pc = "stop" /\ work.todo = {} /\ work'.todo = {} /\ work'.bots = work.bots
      /\ work'.who = work.who
      /\ work'.pc = (IF work.who = "boot" THEN "identify" ELSE "route")
  BY RunningFacts, SequenceWork
<1>2. /\ starting' = starting \cup work.bots /\ notReady' = notReady \cup work.bots
      /\ rejected' = rejected \ work.bots
      /\ UNCHANGED <<tasks, entries, config, started, parked, routes, cancelled, gateParked, hooks>>
  BY DEF Prepare, supervisorVars, gateVars
<1>3. /\ \A b \in Bots \ work.bots : stops'[b] = stops[b]
      /\ \A b \in work.bots : stops'[b] > tokens
      /\ \A b, c \in work.bots : b # c => stops'[b] # stops'[c]
      /\ \A b \in Bots : stops'[b] \in Int /\ stops[b] \in Int /\ stops[b] <= tokens
  <2>1. tokens' \in Nat /\ stops' \in [Bots -> 0 .. tokens']
    BY RunningFacts, PrepareDoes
  <2> QED BY <2>1, RunningFacts, PrepareDoes
<1>4. work.bots \subseteq Bots /\ tokens \in Nat /\ \A x \in cancelled : x \in Int /\ x <= tokens
  BY RunningFacts
<1>5. Settled' = Settled /\ Settled \subseteq Bots \ work.bots /\ Hooked' = Hooked
      /\ \A b \in Bots : Ingress(b)' = Ingress(b)
  BY <1>1, <1>2 DEF Settled, Pending, Hooked, Ingress
<1>6. \A b \in work.bots : Dead(stops[b]) /\ ~(Dead(stops[b])')
  <2>1. \A b \in work.bots : Dead(stops[b])
    BY <1>1, RunningFacts DEF TokensOK
  <2> QED BY <1>2, <1>3, <1>4, <2>1 DEF Dead, NoToken
<1>7. \A b \in Bots \ work.bots : Dead(stops[b])' <=> Dead(stops[b])
  BY <1>2, <1>3 DEF Dead
<1>8. PendingOK'
  <2>1. work'.pc # "register"
    BY <1>1
  <2> QED BY <1>0, <1>1, <1>2, <1>4, <1>5, <2>1, RunningFacts DEF PendingOK, ParkedPcs
<1>9. TokensOK'
  <2>1. \A b \in Bots : Ingress(b)' = "none" => stops'[b] = NoToken
    BY <1>1, <1>3, <1>5, RunningFacts DEF TokensOK, PendingOK
  <2>2. \A b \in parked' : Dead(stops[b])' /\ started'[b] = NotStarted /\ config'[b] # Absent
    <3>1. \A b \in parked : b \in Bots \ work.bots
      BY RunningFacts DEF PendingOK, TypesOK, RegistryType
    <3> QED BY <1>1, <1>2, <1>7, <3>1, RunningFacts DEF TokensOK
  <2>3. \A b \in Settled' : Ingress(b)' # "none" => ~(Dead(stops[b])')
    <3>1. \A b \in Settled : Ingress(b) # "none" => ~Dead(stops[b])
      BY RunningFacts DEF TokensOK
    <3> QED BY <1>5, <1>7, <3>1
  <2>4. \A b, c \in Bots : b # c /\ stops'[b] # NoToken => stops'[b] # stops'[c]
    BY <1>3, <1>4, RunningFacts DEF TokensOK
  <2>5. work'.pc # "stop"
    BY <1>1
  <2> QED BY <1>1, <1>6, <2>1, <2>2, <2>3, <2>4, <2>5 DEF TokensOK
<1>10. RoutesOK'
  <2>1. ASSUME NEW b \in Bots
        PROVE  \/ routes'[b] = Closed
               \/ routes'[b] \in cancelled'
               \/ routes'[b] = stops'[b] /\ stops'[b] # NoToken /\ b \in Hooked'
    <3>1. \/ routes[b] = Closed
          \/ routes[b] \in cancelled
          \/ routes[b] = stops[b] /\ stops[b] # NoToken /\ b \in Hooked
      BY <1>1, RunningFacts DEF RoutesOK
    <3>2. CASE b \in work.bots
      BY <1>2, <1>6, <3>1, <3>2 DEF Dead
    <3>3. CASE b \notin work.bots
      BY <1>2, <1>3, <1>5, <3>1, <3>3
    <3> QED BY <3>2, <3>3
  <2>2. \A b \in Hooked' \ parked' : b \notin Pending' => routes'[b] = stops'[b]
    BY <1>1, <1>2, <1>3, <1>5, RunningFacts DEF RoutesOK, Pending, Hooked
  <2>3. ~Routed'
    BY <1>1 DEF Routed
  <2> QED BY <2>1, <2>2, <2>3 DEF RoutesOK
<1>11. TasksOK'
  <2>1. OneEach(tasks')
    BY <1>2, RunningFacts DEF TasksOK
  <2>2. \A t \in tasks : Fits(t)' = Fits(t)
    BY <1>2 DEF Fits, BotOf, Ingress, Hooked
  <2>3. \A t \in tasks : t.tok \in cancelled \/ (t.tok = stops[BotOf(t)] /\ t.tok # NoToken /\ Fits(t))
    BY <1>1, RunningFacts DEF TasksOK
  <2>4. ASSUME NEW t \in tasks, t.tok \notin cancelled
        PROVE  BotOf(t) \in Bots \ work.bots
    BY <1>6, <2>3, <2>4, TaskNames DEF Dead
  <2> QED BY <1>1, <1>2, <1>3, <2>1, <2>2, <2>3, <2>4 DEF TasksOK, BotOf
<1>12. StartedOK'
  <2>1. \A b \in Settled : Polling(b) => Polling(b)'
    BY <1>2, <1>3, <1>5 DEF Polling
  <2>2. work'.pc \notin {"register", "spawn", "ready"}
    BY <1>1
  <2> QED BY <1>2, <1>5, <2>1, <2>2, RunningFacts DEF StartedOK
<1>13. HooksOK'
  <2> SUFFICES ASSUME NEW b \in Settled, Ingress(b) = "hook"
               PROVE  HookSet(b)'
    BY <1>5 DEF HooksOK
  <2>1. HookSet(b)
    BY RunningFacts DEF HooksOK
  <2> QED BY <1>2, <1>3, <1>5, <2>1 DEF HookSet
<1> QED BY <1>8, <1>9, <1>10, <1>11, <1>12, <1>13 DEF SourcesOK

LEMMA RouteSources ==
    ASSUME Running, Sequence, Route
    PROVE  SourcesOK'
<1>0. rl.pc \in {"none", "apply", "resuming"} /\ rl' = rl
  BY RunningFacts, SequenceAlone
<1>1. /\ work.pc = "route" /\ work.todo = {} /\ work'.todo = {} /\ work'.bots = work.bots
      /\ work'.who = work.who
      /\ work'.pc = (IF work.who = "boot" THEN "hooks" ELSE "identify")
  BY RunningFacts, SequenceWork DEF SequenceOK
<1>2. /\ routes' = [b \in Bots |-> IF b \notin Hooked \/ b \in parked THEN Closed ELSE stops[b]]
      /\ UNCHANGED <<tasks, entries, config, started, starting, stops, parked, cancelled, notReady, gateParked, hooks, rejected>>
  BY DEF Route, supervisorVars, gateVars, serverVars, registryVars
<1>3. /\ Settled' = Settled /\ Settled \subseteq Bots /\ Hooked' = Hooked
      /\ \A b \in Bots : Ingress(b)' = Ingress(b)
  BY <1>1, <1>2 DEF Settled, Pending, Hooked, Ingress
<1>4. PendingOK'
  <2>1. work'.pc # "register"
    BY <1>1
  <2> QED BY <1>0, <1>1, <1>2, <1>3, <2>1, RunningFacts DEF PendingOK, ParkedPcs
<1>5. TokensOK'
  <2>1. work'.pc # "stop"
    BY <1>1
  <2> QED BY <1>1, <1>2, <1>3, <2>1, RunningFacts DEF TokensOK, Dead
<1>6. RoutesOK'
  <2>1. ASSUME NEW b \in Hooked \ parked
        PROVE  stops[b] # NoToken /\ b \in Bots
    <3>1. Ingress(b) # "none" /\ b \in Bots
      BY DEF Hooked
    <3>2. b \in work.bots \/ b \in Settled
      BY <1>1, <3>1 DEF Settled, Pending
    <3> QED BY <1>1, <3>1, <3>2, RunningFacts DEF TokensOK, Dead
  <2> QED BY <1>1, <1>2, <1>3, <2>1 DEF RoutesOK
<1>7. TasksOK'
  <2>1. OneEach(tasks')
    BY <1>2, RunningFacts DEF TasksOK
  <2>2. \A t \in tasks : Fits(t)' = Fits(t)
    BY <1>2 DEF Fits, BotOf, Ingress, Hooked
  <2>3. \A b : Spawned(b)' = Spawned(b)
    BY <1>1 DEF Spawned
  <2> QED BY <1>1, <1>2, <2>1, <2>2, <2>3, RunningFacts DEF TasksOK, BotOf
<1>8. StartedOK'
  <2>1. \A b \in Settled : Polling(b) => Polling(b)'
    BY <1>2 DEF Polling
  <2>2. work'.pc \notin {"register", "spawn", "ready"}
    BY <1>1
  <2> QED BY <1>2, <1>3, <2>1, <2>2, RunningFacts DEF StartedOK
<1>9. HooksOK'
  <2> SUFFICES ASSUME NEW b \in Settled, Ingress(b) = "hook"
               PROVE  HookSet(b)'
    BY <1>3 DEF HooksOK
  <2>1. HookSet(b)
    BY RunningFacts DEF HooksOK
  <2> QED BY <1>2, <2>1 DEF HookSet
<1> QED BY <1>4, <1>5, <1>6, <1>7, <1>8, <1>9 DEF SourcesOK

\* What the config asks of a task of this kind.
Wanted(k, b) ==
    /\ k = "source" => Ingress(b) = "poll"
    /\ k = "register" => Ingress(b) = "hook"
    /\ k = "identity" => b \in Hooked

\* What the spawn of a kind of task for a set of bots makes.
TasksMade(k, S) ==
    /\ OneEach(tasks')
    /\ \A t \in tasks' : t.tok \in cancelled \/ (t.tok = stops[BotOf(t)] /\ t.tok # NoToken /\ Fits(t))
    /\ \A t \in tasks' : t.tok = stops[BotOf(t)] /\ BotOf(t) \in work.bots
          => \/ t.name[1] \in Spawned(BotOf(t)) \/ t.tok \in cancelled
             \/ t.name[1] = k /\ BotOf(t) \in S
    /\ \A t \in tasks : ~(t.name[1] = k /\ BotOf(t) \in S) /\ (~Ended(t) \/ entries[t.name] = t.tok)
          => t \in tasks'
    /\ \A j \in {"source", "identity", "register"}, b \in Bots :
          entries'[<<j, b>>] = IF j = k /\ b \in S THEN stops[b] ELSE entries[<<j, b>>]
    /\ \A b \in S : \E t \in tasks' : /\ t.name = <<k, b>> /\ t.tok = stops[b] /\ t.up = config[b].up
                                      /\ ~t.cut /\ ~Ended(t)

\* The sequence spawns a kind of task once for a bot, on a token that is the
\* bot's own and that nobody has cancelled.
LEMMA SpawnTasks ==
    ASSUME Running, work.pc \notin {"idle", "stop"},
           NEW k \in {"source", "identity", "register"}, NEW S \in SUBSET work.bots,
           \A b \in S : Wanted(k, b) /\ k \notin Spawned(b),
           Spawn({k} \X S, On)
    PROVE  TasksMade(k, S)
<1> DEFINE names == {k} \X S
<1>0. work.todo = {} /\ S \subseteq Bots /\ TasksType
  BY RunningFacts DEF SequenceOK, TypesOK
<1>1. \A b \in S : Ingress(b) # "none" /\ ~Dead(stops[b])
  BY RunningFacts DEF PendingOK, TokensOK
<1>2. /\ names \in SUBSET Names
      /\ \A n \in names : /\ On[n[2]].tok = stops[n[2]] /\ On[n[2]].up = config[n[2]].up
                          /\ On[n[2]].tok \in Nat /\ On[n[2]].up \in Upstreams
  BY <1>1, RunningFacts, SpawnOnTypes
<1>3. \A n \in names : n[1] = k /\ n[2] \in S /\ n = <<k, n[2]>>
  OBVIOUS
<1>4. \A b \in S : <<k, b>> \in names
  OBVIOUS
<1> HIDE DEF names
<1>5. /\ \A n \in Names : entries'[n] = IF n \in names THEN On[n[2]].tok ELSE entries[n]
      /\ \A t \in tasks' : \/ t \in tasks
                           \/ \E s \in tasks : s.name \in names /\ t = [s EXCEPT !.cut = TRUE]
                           \/ \E n \in names : t = NewTask(n, On)
      /\ OneEach(tasks) /\ (\A s \in tasks : s.name \in names => s.tok # On[s.name[2]].tok)
                => OneEach(tasks')
      /\ \A t \in tasks : (~Ended(t) \/ entries[t.name] = t.tok) /\ t.name \notin names => t \in tasks'
      /\ \A n \in names : NewTask(n, On) \in tasks'
  <2>1. Spawn(names, On)
    BY DEF names
  <2>2. \A n \in names : On[n[2]].tok \in Nat /\ On[n[2]].up \in Upstreams
    BY <1>2
  <2>3. names \in SUBSET Names
    BY <1>2
  <2>4. SpawnMade(names, On)
    BY <1>0, <2>1, <2>2, <2>3, SpawnDoes
  <2> QED BY <2>4, Zenon DEF SpawnMade
<1>6. \A n \in names : /\ NewTask(n, On).name = n /\ NewTask(n, On).tok = stops[n[2]]
                       /\ NewTask(n, On).up = config[n[2]].up
                       /\ ~NewTask(n, On).cut /\ ~Ended(NewTask(n, On))
  BY <1>2, NewTaskFields
<1>7. \A s \in tasks : s.name \in names => s.tok # On[s.name[2]].tok
  <2> SUFFICES ASSUME NEW s \in tasks, s.name \in names, s.tok = stops[BotOf(s)]
               PROVE  FALSE
    BY <1>2 DEF BotOf
  <2>1. s.name[1] = k /\ BotOf(s) \in S
    BY <1>3 DEF BotOf
  <2>2. k \in Spawned(BotOf(s)) \/ s.tok \in cancelled
    BY <2>1, RunningFacts DEF TasksOK
  <2> QED BY <1>1, <2>1, <2>2 DEF Dead
<1>8. ASSUME NEW t \in tasks'
      PROVE  \/ \E s \in tasks : s.name = t.name /\ s.tok = t.tok /\ s.up = t.up
             \/ /\ t.name = <<k, BotOf(t)>> /\ t.name[1] = k /\ BotOf(t) \in S
                /\ t.tok = stops[BotOf(t)] /\ t.up = config[BotOf(t)].up
  <2>1. CASE t \in tasks
    BY <2>1
  <2>2. ASSUME NEW s \in tasks, t = [s EXCEPT !.cut = TRUE]
        PROVE  s.name = t.name /\ s.tok = t.tok /\ s.up = t.up
    BY <2>2, RunningFacts, CutTask
  <2>3. ASSUME NEW n \in names, t = NewTask(n, On)
        PROVE  /\ t.name = <<k, BotOf(t)>> /\ t.name[1] = k /\ BotOf(t) \in S
               /\ t.tok = stops[BotOf(t)] /\ t.up = config[BotOf(t)].up
    BY <1>3, <1>6, <2>3 DEF BotOf
  <2> QED BY <1>5, <2>1, <2>2, <2>3
<1>9. OneEach(tasks')
  BY <1>5, <1>7, RunningFacts DEF TasksOK
<1>10. ASSUME NEW t \in tasks'
       PROVE  t.tok \in cancelled \/ (t.tok = stops[BotOf(t)] /\ t.tok # NoToken /\ Fits(t))
  <2>1. ASSUME NEW s \in tasks, s.name = t.name, s.tok = t.tok, s.up = t.up
        PROVE  t.tok \in cancelled \/ (t.tok = stops[BotOf(t)] /\ t.tok # NoToken /\ Fits(t))
    <3>1. s.tok \in cancelled \/ (s.tok = stops[BotOf(s)] /\ s.tok # NoToken /\ Fits(s))
      BY <1>0, RunningFacts DEF TasksOK
    <3> QED BY <2>1, <3>1 DEF Fits, BotOf
  <2>2. ASSUME t.name[1] = k, BotOf(t) \in S, t.tok = stops[BotOf(t)], t.up = config[BotOf(t)].up
        PROVE  t.tok # NoToken /\ Fits(t)
    BY <1>1, <2>2 DEF Fits, Wanted, Dead
  <2> QED BY <1>8, <2>1, <2>2
<1>11. ASSUME NEW t \in tasks', t.tok = stops[BotOf(t)], BotOf(t) \in work.bots
       PROVE  \/ t.name[1] \in Spawned(BotOf(t)) \/ t.tok \in cancelled
              \/ t.name[1] = k /\ BotOf(t) \in S
  <2>1. ASSUME NEW s \in tasks, s.name = t.name, s.tok = t.tok
        PROVE  t.name[1] \in Spawned(BotOf(t)) \/ t.tok \in cancelled
    BY <1>11, <2>1, RunningFacts DEF TasksOK, BotOf
  <2> QED BY <1>8, <2>1
<1>12. ASSUME NEW t \in tasks, ~(t.name[1] = k /\ BotOf(t) \in S), ~Ended(t) \/ entries[t.name] = t.tok
       PROVE  t \in tasks'
  BY <1>3, <1>5, <1>12 DEF BotOf
<1>13. ASSUME NEW j \in {"source", "identity", "register"}, NEW b \in Bots
       PROVE  entries'[<<j, b>>] = IF j = k /\ b \in S THEN stops[b] ELSE entries[<<j, b>>]
  <2>1. <<j, b>> \in Names /\ <<j, b>>[1] = j /\ <<j, b>>[2] = b
    BY NameParts
  <2>2. <<j, b>> \in names <=> j = k /\ b \in S
    BY <1>3, <1>4, <2>1
  <2> QED BY <1>2, <1>5, <2>1, <2>2
<1>14. ASSUME NEW b \in S
       PROVE  \E t \in tasks' : /\ t.name = <<k, b>> /\ t.tok = stops[b] /\ t.up = config[b].up
                                /\ ~t.cut /\ ~Ended(t)
  <2>1. <<k, b>> \in names /\ <<k, b>>[2] = b
    BY <1>4
  <2> QED BY <1>5, <1>6, <2>1
<1> QED BY <1>9, <1>10, <1>11, <1>12, <1>13, <1>14 DEF TasksMade

\* What a spawn leaves to the bots that it is not for.
LEMMA SpawnKeeps ==
    ASSUME NEW k \in {"source", "identity", "register"}, NEW S, TasksMade(k, S),
           UNCHANGED <<config, stops>>,
           hooks \subseteq hooks', rejected \subseteq rejected',
           NEW b \in Bots
    PROVE  /\ Polling(b) /\ started'[b] = started[b] /\ ~(k = "source" /\ b \in S) => Polling(b)'
           /\ HookSet(b) /\ ~(k = "register" /\ b \in S) => HookSet(b)'
<1>1. /\ \A t \in tasks : ~(t.name[1] = k /\ BotOf(t) \in S) /\ (~Ended(t) \/ entries[t.name] = t.tok)
                 => t \in tasks'
      /\ \A j \in {"source", "identity", "register"}, c \in Bots :
            entries'[<<j, c>>] = IF j = k /\ c \in S THEN stops[c] ELSE entries[<<j, c>>]
  BY Zenon DEF TasksMade
<1>2. ASSUME Polling(b), started'[b] = started[b], ~(k = "source" /\ b \in S)
      PROVE  Polling(b)'
  <2>1. PICK w \in tasks : w.name = <<"source", b>> /\ w.tok = stops[b] /\ ~w.cut /\ w.up = config[b].up
    BY <1>2 DEF Polling
  <2>2. w.name[1] = "source" /\ BotOf(w) = b /\ entries[w.name] = w.tok
    BY <1>2, <2>1 DEF Polling, BotOf
  <2>3. w \in tasks'
    BY <1>1, <1>2, <2>2
  <2>4. entries'[<<"source", b>>] = stops[b]
    BY <1>1, <1>2 DEF Polling
  <2> QED BY <1>2, <2>1, <2>3, <2>4 DEF Polling
<1>3. ASSUME HookSet(b), ~(k = "register" /\ b \in S)
      PROVE  HookSet(b)'
  <2>1. ASSUME NEW w \in tasks, w.name = <<"register", b>>, ~Ended(w)
        PROVE  w \in tasks'
    <3>1. w.name[1] = "register" /\ BotOf(w) = b
      BY <2>1 DEF BotOf
    <3> QED BY <1>1, <1>3, <2>1, <3>1
  <2> QED BY <1>3, <2>1 DEF HookSet
<1> QED BY <1>2, <1>3


\* The new tasks are as TasksOK wants them in the next step of the sequence.
LEMMA SpawnTasksOK ==
    ASSUME NEW k \in {"source", "identity", "register"}, NEW S, TasksMade(k, S),
           UNCHANGED <<config, stops, cancelled>>, work'.bots \subseteq work.bots,
           \A b \in work'.bots : Spawned(b) \subseteq Spawned(b)' /\ (b \in S => k \in Spawned(b)')
    PROVE  TasksOK'
<1>1. \A t \in tasks' : t.tok \in cancelled' \/ (t.tok = stops'[BotOf(t)] /\ t.tok # NoToken /\ Fits(t)')
  <2>1. \A t \in tasks' : Fits(t) => Fits(t)'
    BY DEF Fits, BotOf, Ingress, Hooked
  <2>2. \A t \in tasks' : t.tok \in cancelled \/ (t.tok = stops[BotOf(t)] /\ t.tok # NoToken /\ Fits(t))
    BY Zenon DEF TasksMade
  <2> QED BY <2>1, <2>2
<1>2. OneEach(tasks')
  BY Zenon DEF TasksMade
<1>3. ASSUME NEW t \in tasks', t.tok = stops'[BotOf(t)], BotOf(t) \in work'.bots
      PROVE  t.name[1] \in Spawned(BotOf(t))' \/ t.tok \in cancelled'
  <2>1. \/ t.name[1] \in Spawned(BotOf(t)) \/ t.tok \in cancelled
        \/ t.name[1] = k /\ BotOf(t) \in S
    BY <1>3 DEF TasksMade
  <2>2. PICK b : b = BotOf(t)
    OBVIOUS
  <2>3. Spawned(b) \subseteq Spawned(b)' /\ (b \in S => k \in Spawned(b)')
    BY <1>3, <2>2
  <2> QED BY <2>1, <2>2, <2>3
<1> QED BY <1>1, <1>2, <1>3 DEF TasksOK, BotOf

LEMMA IdentifySources ==
    ASSUME Running, Sequence, Identify
    PROVE  SourcesOK'
<1>0. rl.pc \in {"none", "apply", "resuming"} /\ rl' = rl
  BY RunningFacts, SequenceAlone
<1>1. /\ work.pc = "identify" /\ work.todo = {} /\ work'.todo = {} /\ work'.bots = work.bots
      /\ work'.who = work.who
      /\ work'.pc = (IF work.who = "boot" THEN "route" ELSE "hooks")
  BY RunningFacts, SequenceWork DEF SequenceOK
<1>2. UNCHANGED <<config, started, starting, stops, parked, routes, cancelled, notReady, gateParked, hooks, rejected>>
  BY DEF Identify, gateVars, serverVars, registryVars
<1>3. /\ Settled' = Settled /\ Settled \subseteq Bots \ work.bots /\ Hooked' = Hooked
      /\ \A b \in Bots : Ingress(b)' = Ingress(b)
  BY <1>1, <1>2 DEF Settled, Pending, Hooked, Ingress
<1>4. PICK failed \in SUBSET Starting({"hook", "served"}) : Spawn({"identity"} \X failed, On)
  BY DEF Identify
<1>5. failed \in SUBSET work.bots /\ \A b \in failed : Wanted("identity", b) /\ "identity" \notin Spawned(b)
  BY <1>1, <1>4, RunningFacts DEF Starting, Wanted, Spawned, Hooked
<1>6. TasksMade("identity", failed)
  BY <1>1, <1>4, <1>5, SpawnTasks
<1>7. PendingOK'
  <2>1. work'.pc # "register"
    BY <1>1
  <2> QED BY <1>0, <1>1, <1>2, <1>3, <2>1, RunningFacts DEF PendingOK, ParkedPcs
<1>8. TokensOK'
  <2>1. work'.pc # "stop"
    BY <1>1
  <2> QED BY <1>1, <1>2, <1>3, <2>1, RunningFacts DEF TokensOK, Dead
<1>9. RoutesOK'
  <2>1. Routed' => Routed
    BY <1>1 DEF Routed
  <2> QED BY <1>1, <1>2, <1>3, <2>1, RunningFacts DEF RoutesOK, Pending
<1>10. TasksOK'
  <2>1. \A b : Spawned(b) = {} /\ Spawned(b)' = {"identity"}
    BY <1>1 DEF Spawned
  <2> QED BY <1>1, <1>2, <1>6, <2>1, SpawnTasksOK
<1>11. \A b \in Settled : (Polling(b) => Polling(b)') /\ (HookSet(b) => HookSet(b)')
  BY <1>2, <1>3, <1>6, SpawnKeeps
<1>12. StartedOK'
  <2>1. work'.pc \notin {"register", "spawn", "ready"}
    BY <1>1
  <2> QED BY <1>2, <1>3, <1>11, <2>1, RunningFacts DEF StartedOK
<1>13. HooksOK'
  BY <1>3, <1>11, RunningFacts DEF HooksOK
<1> QED BY <1>7, <1>8, <1>9, <1>10, <1>12, <1>13 DEF SourcesOK

LEMMA StartWebhooksSources ==
    ASSUME Running, Sequence, StartWebhooks
    PROVE  SourcesOK'
<1>0. rl.pc \in {"none", "apply", "resuming"} /\ rl' = rl
  BY RunningFacts, SequenceAlone
<1>1. /\ work.pc = "hooks" /\ work.todo = {} /\ work'.todo = {} /\ work'.bots = work.bots
      /\ work'.pc = "register"
  BY RunningFacts, SequenceWork DEF SequenceOK
<1>2. UNCHANGED <<tasks, entries, config, stops, parked, routes, cancelled, notReady, gateParked, hooks, rejected>>
  BY DEF StartWebhooks, gateVars, serverVars, supervisorVars
<1>3. /\ Settled' = Settled /\ Settled \subseteq Bots \ work.bots /\ Hooked' = Hooked
      /\ \A b \in Bots : Ingress(b)' = Ingress(b)
  BY <1>1, <1>2 DEF Settled, Pending, Hooked, Ingress
<1>4. /\ \A b \in work.bots \cap Hooked : started'[b].kind = "hook" /\ b \notin starting'
      /\ \A b \in Bots : b \notin work.bots => started'[b] = started[b]
      /\ starting' \subseteq starting
  <2>1. PICK up : up = Starting({"hook", "served"})
    OBVIOUS
  <2>2. /\ started' = [b \in Bots |-> IF b \in up THEN [kind |-> "hook", src |-> NoTask] ELSE started[b]]
        /\ starting' = starting \ up
    BY <2>1 DEF StartWebhooks
  <2>3. up = work.bots \cap Hooked
    BY <2>1, RunningFacts DEF Starting, Hooked
  <2> QED BY <2>2, <2>3, RunningFacts
<1>5. PendingOK'
  <2>1. \A b \in starting' : b \in work.bots /\ Ingress(b) = "poll"
    <3>1. \A b \in starting' : b \in work.bots /\ b \in Bots /\ Ingress(b) # "none" /\ b \notin Hooked
      BY <1>4, RunningFacts DEF PendingOK
    <3> QED BY <3>1, RunningFacts, Configured DEF Hooked
  <2> QED BY <1>0, <1>1, <1>2, <1>3, <1>4, <2>1, RunningFacts DEF PendingOK, ParkedPcs
<1>6. TokensOK'
  <2>1. work'.pc # "stop" /\ \A b \in parked : b \in Bots /\ b \notin work.bots
    BY <1>1, RunningFacts DEF PendingOK, TypesOK, RegistryType
  <2> QED BY <1>1, <1>2, <1>3, <1>4, <2>1, RunningFacts DEF TokensOK, Dead
<1>7. RoutesOK'
  <2>1. Routed' /\ Routed
    BY <1>1 DEF Routed
  <2> QED BY <1>1, <1>2, <1>3, <2>1, RunningFacts DEF RoutesOK, Pending
<1>8. TasksOK'
  <2>1. \A t \in tasks : Fits(t)' = Fits(t)
    BY <1>2 DEF Fits, BotOf, Ingress, Hooked
  <2>2. \A b : Spawned(b)' = Spawned(b)
    BY <1>1 DEF Spawned
  <2> QED BY <1>1, <1>2, <2>1, <2>2, RunningFacts DEF TasksOK, BotOf
<1>9. StartedOK'
  <2>1. \A b \in Settled : Polling(b) => Polling(b)'
    BY <1>2, <1>3, <1>4 DEF Polling
  <2>2. work'.pc \notin {"spawn", "ready"}
    BY <1>1
  <2> QED BY <1>1, <1>3, <1>4, <2>1, <2>2, RunningFacts DEF StartedOK
<1>10. HooksOK'
  <2> SUFFICES ASSUME NEW b \in Settled, Ingress(b) = "hook"
               PROVE  HookSet(b)'
    BY <1>3 DEF HooksOK
  <2>1. HookSet(b)
    BY RunningFacts DEF HooksOK
  <2> QED BY <1>2, <2>1 DEF HookSet
<1> QED BY <1>5, <1>6, <1>7, <1>8, <1>9, <1>10 DEF SourcesOK


LEMMA RegisterSources ==
    ASSUME Running, Sequence, Register
    PROVE  SourcesOK'
<1>0. rl.pc \in {"none", "apply", "resuming"} /\ rl' = rl
  BY RunningFacts, SequenceAlone
<1>1. /\ work.pc = "register" /\ work.todo = {} /\ work'.todo = {} /\ work'.bots = Starting({"poll"})
      /\ work'.pc = "poll"
  BY RunningFacts, SequenceWork DEF SequenceOK
<1>2. /\ UNCHANGED <<config, started, starting, stops, parked, routes, cancelled, gateParked>>
      /\ notReady' = notReady \ Starting({"hook", "served"})
  BY DEF Register, gateVars, registryVars
<1>3. /\ work'.bots \subseteq work.bots /\ work.bots \subseteq Bots
      /\ \A b \in work.bots : b \in work'.bots <=> b \notin Hooked
      /\ \A b \in work'.bots : Ingress(b) = "poll"
      /\ work.bots \cap parked = {}
      /\ \A b \in notReady' : b \notin Hooked
  <2>1. \A b \in work.bots : b \in Bots /\ Ingress(b) \in {"poll", "hook", "served"}
    BY RunningFacts, Configured DEF PendingOK
  <2>2. \A b \in notReady : b \in work.bots
    BY RunningFacts DEF PendingOK
  <2> QED BY <1>1, <1>2, <2>1, <2>2, RunningFacts DEF Starting, Hooked, PendingOK
<1>4. /\ Settled' = Settled \cup (work.bots \cap Hooked) /\ Settled \subseteq Bots \ work.bots
      /\ Hooked' = Hooked /\ \A b \in Bots : Ingress(b)' = Ingress(b)
  BY <1>1, <1>2, <1>3 DEF Settled, Pending, Hooked, Ingress
<1>5. PICK answer \in [Starting({"hook"}) -> {"ok", "retry", "no"}] :
         /\ hooks' = hooks \cup {<<config[b].up, b>> : b \in {c \in DOMAIN answer : answer[c] = "ok"}}
         /\ rejected' = rejected \cup {b \in DOMAIN answer : answer[b] = "no"}
         /\ Spawn({"register"} \X Retried(answer), On)
  BY DEF Register
<1>6. PICK S \in SUBSET work.bots : S = Retried(answer)
  BY <1>5 DEF Retried, Starting
<1>7. \A b \in S : Wanted("register", b) /\ "register" \notin Spawned(b)
  BY <1>1, <1>5, <1>6 DEF Wanted, Spawned, Retried, Starting
<1>8. TasksMade("register", S)
  <2>1. Spawn({"register"} \X S, On)
    BY <1>5, <1>6
  <2> QED BY <1>1, <1>7, <2>1, SpawnTasks
<1>9. PendingOK'
  <2>1. \A b \in starting : b \in work'.bots
    BY <1>1, RunningFacts DEF PendingOK, Starting
  <2>2. \A b \in notReady' : b \in work'.bots
    BY <1>2, <1>3, RunningFacts DEF PendingOK
  <2>3. work'.pc # "register" /\ rl'.pc \notin ParkedPcs \cup {"drain"}
    BY <1>0, <1>1 DEF ParkedPcs
  <2>4. \A b \in work'.bots : b \in Bots /\ Ingress(b)' # "none"
    BY <1>3, <1>4
  <2>5. gateParked' \subseteq parked' /\ (\A b \in gateParked' : config'[b] # Absent) /\ work'.bots \cap parked' = {}
    BY <1>2, <1>3, RunningFacts DEF PendingOK
  <2> QED BY <1>2, <2>1, <2>2, <2>3, <2>4, <2>5 DEF PendingOK
<1>10. TokensOK'
  <2>1. work'.pc # "stop" /\ \A b \in work.bots : ~Dead(stops[b])
    BY <1>1, RunningFacts DEF TokensOK
  <2>2. \A b : Dead(stops[b])' <=> Dead(stops[b])
    BY <1>2 DEF Dead
  <2>3. \A b \in Settled' : Ingress(b)' # "none" => ~(Dead(stops[b])')
    BY <1>4, <2>1, <2>2, RunningFacts DEF TokensOK
  <2> QED BY <1>1, <1>2, <1>3, <1>4, <2>1, <2>2, <2>3, RunningFacts DEF TokensOK
<1>11. RoutesOK'
  <2>1. Routed' /\ Routed
    BY <1>1 DEF Routed
  <2> QED BY <1>1, <1>2, <1>4, <2>1, RunningFacts DEF RoutesOK
<1>12. TasksOK'
  <2>1. \A b : Spawned(b) = {"identity"} /\ Spawned(b)' = {"identity", "register"}
    BY <1>1 DEF Spawned
  <2> QED BY <1>1, <1>2, <1>3, <1>8, <2>1, SpawnTasksOK
<1>13. \A b \in Settled : (Polling(b) => Polling(b)') /\ (HookSet(b) => HookSet(b)')
  BY <1>2, <1>4, <1>5, <1>8, SpawnKeeps
<1>14. StartedOK'
  <2>1. work'.pc \notin {"register", "spawn", "ready"}
    BY <1>1
  <2>2. \A b \in Settled : (Ingress(b) = "poll" => Polling(b)) /\ (started[b].kind = "hook" <=> b \in Hooked)
    BY RunningFacts DEF StartedOK
  <2>3. \A b \in work.bots \cap Hooked : Ingress(b) # "poll" /\ started[b].kind = "hook"
    BY <1>1, RunningFacts DEF StartedOK, Hooked
  <2>4. \A b \in Settled' : /\ Ingress(b)' = "poll" => Polling(b)'
                            /\ started'[b].kind = "hook" <=> b \in Hooked'
    BY <1>2, <1>3, <1>4, <1>13, <2>2, <2>3
  <2> QED BY <2>1, <2>4 DEF StartedOK
<1>15. HooksOK'
  <2>1. ASSUME NEW b \in Settled, Ingress(b) = "hook"
        PROVE  HookSet(b)'
    BY <1>13, <2>1, RunningFacts DEF HooksOK
  <2>2. ASSUME NEW b \in work.bots, Ingress(b) = "hook"
        PROVE  HookSet(b)'
    <3>1. b \in DOMAIN answer /\ answer[b] \in {"ok", "retry", "no"}
      BY <1>5, <2>2 DEF Starting
    <3>2. CASE answer[b] = "ok"
      BY <1>2, <1>5, <3>1, <3>2 DEF HookSet
    <3>3. CASE answer[b] = "no"
      BY <1>5, <3>1, <3>3 DEF HookSet
    <3>4. CASE answer[b] = "retry"
      <4>1. b \in S
        BY <1>6, <3>1, <3>4 DEF Retried
      <4>2. \E t \in tasks' : /\ t.name = <<"register", b>> /\ t.tok = stops[b] /\ t.up = config[b].up
                              /\ ~t.cut /\ ~Ended(t)
        BY <1>8, <4>1 DEF TasksMade
      <4> QED BY <1>2, <4>2 DEF HookSet, Ended
    <3> QED BY <3>1, <3>2, <3>3, <3>4
  <2> QED BY <1>3, <1>4, <2>1, <2>2 DEF HooksOK
<1> QED BY <1>9, <1>10, <1>11, <1>12, <1>14, <1>15 DEF SourcesOK


\* The bot that is started now.
LEMMA CurrentBot ==
    ASSUME Running, work.pc \in {"poll", "spawn", "ready"}, work.bots # {}
    PROVE  /\ Current \in work.bots /\ Current \in Bots /\ Current \notin parked
           /\ Ingress(Current) = "poll" /\ Current \notin Hooked /\ Current \notin Settled
<1>1. Current \in work.bots
  BY DEF Current
<1>2. Current \in Bots /\ Ingress(Current) = "poll" /\ Current \notin parked
  BY <1>1, RunningFacts DEF SequenceOK, PendingOK
<1> QED BY <1>1, <1>2 DEF Hooked, Settled, Pending

LEMMA StartPollSources ==
    ASSUME Running, Sequence, StartPoll
    PROVE  SourcesOK'
<1>0. rl.pc \in {"none", "apply", "resuming"} /\ rl' = rl
  BY RunningFacts, SequenceAlone
<1>1. /\ work.pc = "poll" /\ work.todo = {} /\ work'.todo = {} /\ work'.bots = work.bots /\ work.bots # {}
      /\ work'.pc = "spawn" /\ Current' = Current
      /\ started' = [started EXCEPT ![Current] = [kind |-> "poll", src |-> NoTask]]
  BY RunningFacts, SequenceWork DEF SequenceOK, Current
<1>2. UNCHANGED <<tasks, entries, config, starting, stops, parked, routes, cancelled, notReady, gateParked, hooks, rejected>>
  BY DEF StartPoll, gateVars, serverVars, supervisorVars
<1>3. /\ Settled' = Settled /\ Settled \subseteq Bots /\ Hooked' = Hooked
      /\ \A b \in Bots : Ingress(b)' = Ingress(b)
  BY <1>1, <1>2 DEF Settled, Pending, Hooked, Ingress
<1>4. /\ started'[Current].kind = "poll"
      /\ \A b \in Bots : b # Current => started'[b] = started[b]
      /\ Current \notin parked /\ Current \notin Settled
  BY <1>1, RunningFacts, CurrentBot
<1>5. PendingOK'
  <2>1. work'.pc # "register"
    BY <1>1
  <2> QED BY <1>0, <1>1, <1>2, <1>3, <2>1, RunningFacts DEF PendingOK, ParkedPcs
<1>6. TokensOK'
  <2>1. work'.pc # "stop" /\ \A b \in parked : b \in Bots /\ b # Current
    BY <1>1, <1>4, RunningFacts DEF TypesOK, RegistryType
  <2> QED BY <1>1, <1>2, <1>3, <1>4, <2>1, RunningFacts DEF TokensOK, Dead
<1>7. RoutesOK'
  <2>1. Routed' /\ Routed
    BY <1>1 DEF Routed
  <2> QED BY <1>1, <1>2, <1>3, <2>1, RunningFacts DEF RoutesOK, Pending
<1>8. TasksOK'
  <2>1. \A t \in tasks : Fits(t)' = Fits(t)
    BY <1>2 DEF Fits, BotOf, Ingress, Hooked
  <2>2. \A b : Spawned(b)' = Spawned(b)
    BY <1>1 DEF Spawned
  <2> QED BY <1>1, <1>2, <2>1, <2>2, RunningFacts DEF TasksOK, BotOf
<1>9. StartedOK'
  <2>1. \A b \in Settled : Polling(b) => Polling(b)'
    BY <1>2, <1>3, <1>4 DEF Polling
  <2>2. work'.pc \notin {"register", "ready"} /\ started'[Current'].kind = "poll"
    BY <1>1, <1>4
  <2>3. \A b \in Settled : started'[b] = started[b]
    BY <1>3, <1>4
  <2> QED BY <1>3, <2>1, <2>2, <2>3, RunningFacts DEF StartedOK
<1>10. HooksOK'
  <2> SUFFICES ASSUME NEW b \in Settled, Ingress(b) = "hook"
               PROVE  HookSet(b)'
    BY <1>3 DEF HooksOK
  <2>1. HookSet(b)
    BY RunningFacts DEF HooksOK
  <2> QED BY <1>2, <2>1 DEF HookSet
<1> QED BY <1>5, <1>6, <1>7, <1>8, <1>9, <1>10 DEF SourcesOK

LEMMA SpawnPollSources ==
    ASSUME Running, Sequence, SpawnPoll
    PROVE  SourcesOK'
<1>0. rl.pc \in {"none", "apply", "resuming"} /\ rl' = rl
  BY RunningFacts, SequenceAlone
<1>1. /\ work.pc = "spawn" /\ work.todo = {} /\ work'.todo = {} /\ work'.bots = work.bots /\ work.bots # {}
      /\ work'.pc = "ready" /\ Current' = Current
      /\ started' = [started EXCEPT ![Current].src = stops[Current]]
      /\ Spawn({<<"source", Current>>}, On)
  BY RunningFacts, SequenceWork DEF SequenceOK, Current
<1>2. UNCHANGED <<config, starting, stops, parked, routes, cancelled, notReady, gateParked, hooks, rejected>>
  BY DEF SpawnPoll, gateVars, serverVars
<1>3. /\ Settled' = Settled /\ Settled \subseteq Bots \ work.bots /\ Hooked' = Hooked
      /\ \A b \in Bots : Ingress(b)' = Ingress(b)
  BY <1>1, <1>2 DEF Settled, Pending, Hooked, Ingress
<1>4. PICK c \in Bots : c = Current
  BY <1>1, CurrentBot
<1>5. c \in work.bots /\ c \notin parked /\ Ingress(c) = "poll"
  BY <1>1, <1>4, CurrentBot
<1>6. /\ started'[c] = [kind |-> "poll", src |-> stops[c]]
      /\ \A b \in Bots : b # c => started'[b] = started[b]
  <2>1. started[c] \in Source /\ started[c].kind = "poll"
    BY <1>1, <1>4, RunningFacts DEF StartedOK
  <2>2. started'[c] = [started[c] EXCEPT !.src = stops[c]]
    BY <1>1, <1>4, RunningFacts
  <2> QED BY <1>1, <1>4, <2>1, <2>2, RunningFacts DEF Source
<1>7. PICK S \in SUBSET work.bots : S = {c}
  BY <1>5
<1>8. \A b \in S : Wanted("source", b) /\ "source" \notin Spawned(b)
  BY <1>1, <1>5, <1>7 DEF Wanted, Spawned
<1>9. TasksMade("source", S)
  <2>1. {"source"} \X S = {<<"source", Current>>}
    BY <1>4, <1>7
  <2>2. Spawn({"source"} \X S, On)
    BY <1>1, <2>1
  <2> QED BY <1>1, <1>8, <2>2, SpawnTasks
<1>10. PendingOK'
  <2>1. work'.pc # "register"
    BY <1>1
  <2> QED BY <1>0, <1>1, <1>2, <1>3, <2>1, RunningFacts DEF PendingOK, ParkedPcs
<1>11. TokensOK'
  <2>1. work'.pc # "stop" /\ \A b \in parked : b \in Bots /\ b # c
    BY <1>1, <1>5, RunningFacts DEF TypesOK, RegistryType
  <2> QED BY <1>1, <1>2, <1>3, <1>6, <2>1, RunningFacts DEF TokensOK, Dead
<1>12. RoutesOK'
  <2>1. Routed' /\ Routed
    BY <1>1 DEF Routed
  <2> QED BY <1>1, <1>2, <1>3, <2>1, RunningFacts DEF RoutesOK, Pending
<1>13. TasksOK'
  <2>1. \A b : Spawned(b) = {"identity", "register"}
    BY <1>1 DEF Spawned
  <2>2. \A b : Spawned(b)' = {"identity", "register"} \cup (IF b = Current' THEN {"source"} ELSE {})
    BY <1>1 DEF Spawned
  <2>3. \A b : Spawned(b) \subseteq Spawned(b)' /\ (b \in S => "source" \in Spawned(b)')
    BY <1>1, <1>4, <1>7, <2>1, <2>2
  <2> QED BY <1>1, <1>2, <1>9, <2>3, SpawnTasksOK
<1>14. \A b \in Settled : (Polling(b) => Polling(b)') /\ (HookSet(b) => HookSet(b)')
  <2> SUFFICES ASSUME NEW b \in Settled
               PROVE  (Polling(b) => Polling(b)') /\ (HookSet(b) => HookSet(b)')
    OBVIOUS
  <2>1. b \in Bots /\ b # c /\ b \notin S /\ started'[b] = started[b]
    BY <1>3, <1>5, <1>6, <1>7
  <2> QED BY <1>2, <1>9, <2>1, SpawnKeeps
<1>15. Polling(c)'
  <2>1. \E t \in tasks' : t.name = <<"source", c>> /\ t.tok = stops[c] /\ t.up = config[c].up /\ ~t.cut
    BY <1>7, <1>9 DEF TasksMade
  <2>2. entries'[<<"source", c>>] = stops[c]
    BY <1>7, <1>9 DEF TasksMade
  <2> QED BY <1>2, <1>6, <2>1, <2>2 DEF Polling
<1>16. StartedOK'
  <2>1. work'.pc \notin {"register", "spawn"}
    BY <1>1
  <2>2. \A b \in Settled : started'[b] = started[b]
    BY <1>3, <1>5, <1>6
  <2>3. Polling(Current)'
    <3>1. c = Current'
      BY <1>1, <1>4
    <3> QED BY <1>15, <3>1 DEF Polling
  <2>4. \A b \in Settled' : /\ Ingress(b)' = "poll" => Polling(b)'
                            /\ started'[b].kind = "hook" <=> b \in Hooked'
    BY <1>3, <1>14, <2>2, RunningFacts DEF StartedOK
  <2> QED BY <2>1, <2>3, <2>4 DEF StartedOK
<1>17. HooksOK'
  BY <1>3, <1>14, RunningFacts DEF HooksOK
<1> QED BY <1>10, <1>11, <1>12, <1>13, <1>16, <1>17 DEF SourcesOK


LEMMA PollReadySources ==
    ASSUME Running, Sequence, PollReady
    PROVE  SourcesOK'
<1>0. rl.pc \in {"none", "apply", "resuming"} /\ rl' = rl
  BY RunningFacts, SequenceAlone
<1>1. /\ work.pc = "ready" /\ work.todo = {} /\ work'.todo = {} /\ work.bots # {}
      /\ work'.bots = work.bots \ {Current} /\ work'.pc = "poll"
      /\ starting' = starting \ {Current} /\ notReady' = notReady \ {Current}
  BY RunningFacts, SequenceWork DEF SequenceOK
<1>2. UNCHANGED <<tasks, entries, config, started, stops, parked, routes, cancelled, gateParked, hooks, rejected>>
  BY DEF PollReady, gateVars, serverVars, supervisorVars
<1>3. PICK c \in Bots : c = Current
  BY <1>1, CurrentBot
<1>4. c \in work.bots /\ c \notin parked /\ Ingress(c) = "poll" /\ c \notin Hooked
  BY <1>1, <1>3, CurrentBot
<1>5. /\ Settled' = Settled \cup {c} /\ Settled \subseteq Bots /\ Hooked' = Hooked
      /\ \A b \in Bots : Ingress(b)' = Ingress(b)
  BY <1>1, <1>2, <1>3, <1>4 DEF Settled, Pending, Hooked, Ingress
<1>6. PendingOK'
  <2>1. work'.pc # "register"
    BY <1>1
  <2> QED BY <1>0, <1>1, <1>2, <1>5, <2>1, RunningFacts DEF PendingOK, ParkedPcs
<1>7. TokensOK'
  <2>1. work'.pc # "stop" /\ \A b \in work.bots : ~Dead(stops[b])
    BY <1>1, RunningFacts DEF TokensOK
  <2>2. \A b : Dead(stops[b])' <=> Dead(stops[b])
    BY <1>2 DEF Dead
  <2>3. \A b \in Settled' : Ingress(b)' # "none" => ~(Dead(stops[b])')
    BY <1>4, <1>5, <2>1, <2>2, RunningFacts DEF TokensOK
  <2> QED BY <1>1, <1>2, <1>5, <2>1, <2>2, <2>3, RunningFacts DEF TokensOK
<1>8. RoutesOK'
  <2>1. Routed' /\ Routed
    BY <1>1 DEF Routed
  <2> QED BY <1>1, <1>2, <1>5, <2>1, RunningFacts DEF RoutesOK
<1>9. TasksOK'
  <2>1. \A t \in tasks : Fits(t)' = Fits(t)
    BY <1>2 DEF Fits, BotOf, Ingress, Hooked
  <2>2. \A b : b # Current => Spawned(b)' = Spawned(b)
    BY <1>1 DEF Spawned
  <2> QED BY <1>1, <1>2, <2>1, <2>2, RunningFacts DEF TasksOK, BotOf
<1>10. StartedOK'
  <2>1. \A b : Polling(b)' <=> Polling(b)
    BY <1>2 DEF Polling
  <2>2. work'.pc \notin {"register", "spawn", "ready"}
    BY <1>1
  <2>3. Polling(c) /\ started[c].kind # "hook"
    <3>1. Polling(c)
      BY <1>1, <1>3, RunningFacts DEF StartedOK
    <3> QED BY <3>1 DEF Polling
  <2> QED BY <1>2, <1>4, <1>5, <2>1, <2>2, <2>3, RunningFacts DEF StartedOK
<1>11. HooksOK'
  <2> SUFFICES ASSUME NEW b \in Settled, Ingress(b) = "hook"
               PROVE  HookSet(b)'
    BY <1>4, <1>5 DEF HooksOK
  <2>1. HookSet(b)
    BY RunningFacts DEF HooksOK
  <2> QED BY <1>2, <2>1 DEF HookSet
<1> QED BY <1>6, <1>7, <1>8, <1>9, <1>10, <1>11 DEF SourcesOK

LEMMA SequenceSources ==
    ASSUME Running, Sequence
    PROVE  SourcesOK'
BY StopNextSources, PrepareSources, RouteSources, IdentifySources, StartWebhooksSources,
   RegisterSources, StartPollSources, SpawnPollSources, PollReadySources DEF Sequence, SequenceStep


-----------------------------------------------------------------------------
(* The invariant.                                                          *)

LEMMA AppInit ==
    ASSUME Init
    PROVE  AppInv
<1>1. /\ work.pc = "stop" /\ work.who = "boot" /\ work.todo = {} /\ work.bots = Boots /\ work \in Work
  <2>1. Boots \in SUBSET Bots
    BY DEF Boots
  <2>2. work = [Idle EXCEPT !.pc = "stop", !.who = "boot", !.bots = Boots]
    BY DEF Init
  <2>3. PICK S \in SUBSET Bots : S = Boots
    BY <2>1
  <2>4. work = [Idle EXCEPT !.pc = "stop", !.who = "boot", !.bots = S]
    BY <2>2, <2>3
  <2> QED BY <2>3, <2>4 DEF Idle, Work
<1>2. rl \in Loader /\ rl.pc = "none"
  BY DEF Init, Free, Loader
<1>3. budget \in Budget /\ file \in Files /\ loaded \in Files /\ config \in [Bots -> Bot \cup {Absent}]
  <2>1. budget \in Budgets /\ file = budget.first /\ loaded = file /\ config = file.bots
    BY DEF Init
  <2>2. budget \in Budget /\ budget.first \in Files
    BY <2>1, FilesAssumption DEF Budget
  <2>3. file \in [bots : [Bots -> Bot \cup {Absent}], watch : BOOLEAN]
    BY <2>1, <2>2, FilesAssumption
  <2> QED BY <2>1, <2>2, <2>3
<1>4. Boots \subseteq Bots /\ \A b \in Bots : b \in Boots <=> Ingress(b) # "none"
  BY DEF Boots
<1>5. TypesOK
  <2>1. TasksType
    BY DEF Init, SupervisorInit, TasksType, NoTask
  <2>2. RegistryType
    <3>1. NotStarted \in Source
      BY DEF NotStarted, Source, NoTask
    <3> QED BY <1>1, <1>3, <1>4, <3>1 DEF Init, RegistryType
  <2>3. TokensType
    <3>1. 0 \in 0 .. 0 /\ -1 \in Int
      OBVIOUS
    <3>2. /\ tokens = 0 /\ stops = [b \in Bots |-> 0] /\ routes = [b \in Bots |-> -1]
          /\ cancelled = {} /\ ingest = FALSE
      BY DEF Init, NoToken, Closed
    <3> QED BY <3>1, <3>2 DEF TokensType
  <2>4. ReloaderType
    BY <1>2, <1>3 DEF Init, ReloaderType
  <2> QED BY <2>1, <2>2, <2>3, <2>4 DEF TypesOK
<1>6. ControlOK
  <2>1. 1 \in 0 .. 2
    OBVIOUS
  <2>2. app \in Process /\ app.pc = "boot"
    BY <2>1 DEF Init, Process
  <2> QED BY <1>2, <2>2 DEF Init, SupervisorInit, ControlOK, ParkedPcs
<1>7. MoveOK
  BY <1>2 DEF MoveOK
<1>8. SequenceOK
  BY <1>1 DEF SequenceOK
<1>9. /\ tasks = {} /\ started = [b \in Bots |-> NotStarted] /\ starting = {} /\ parked = {}
      /\ cancelled = {} /\ gateParked = {} /\ stops = [b \in Bots |-> NoToken]
      /\ routes = [b \in Bots |-> Closed] /\ notReady = Boots
  BY DEF Init, SupervisorInit
<1>10. \A b \in Bots : started[b].kind = "none"
  BY <1>9 DEF NotStarted
<1>11. ListedOK
  BY <1>1, <1>10 DEF ListedOK
<1>12. /\ Settled = Bots \ Boots /\ Hooked \subseteq Boots
  BY <1>1, <1>4, <1>9 DEF Settled, Pending, Hooked
<1>13. PendingOK
  BY <1>1, <1>2, <1>4, <1>9 DEF PendingOK, ParkedPcs
<1>14. TokensOK
  BY <1>1, <1>4, <1>9, <1>12 DEF TokensOK, Dead
<1>15. RoutesOK
  BY <1>1, <1>9, <1>12 DEF RoutesOK, Routed, Pending
<1>16. TasksOK
  BY <1>9 DEF TasksOK, OneEach
<1>17. StartedOK
  BY <1>1, <1>4, <1>10, <1>12 DEF StartedOK
<1>18. HooksOK
  BY <1>4, <1>12 DEF HooksOK
<1> QED BY <1>5, <1>6, <1>7, <1>8, <1>11, <1>13, <1>14, <1>15, <1>16, <1>17, <1>18 DEF AppInv, SourcesOK

\* A step that changes nothing.
LEMMA Stutter ==
    ASSUME AppInv, UNCHANGED vars
    PROVE  AppInv'
<1>1. UNCHANGED <<tasks, entries, force, reapers, config, started, starting, stops, parked, routes,
                  cancelled, ingest, tokens, notReady, gateParked, calls, hooks, rejected, work,
                  file, loaded, budget, moves, rl, app>>
  BY DEF vars, supervisorVars, sourceVars, reloaderVars, registryVars, gateVars, serverVars, queueVars, fileVars
<1>2. TypesOK' /\ MoveOK' /\ ControlOK'
  BY <1>1 DEF AppInv, TypesOK, TasksType, RegistryType, TokensType, ReloaderType, MoveOK, ControlOK
<1>3. SequenceOK' /\ ListedOK'
  BY <1>1 DEF AppInv, SequenceOK, ListedOK, Ingress, Current
<1>4. ~ingest' => SourcesOK'
  BY <1>1, SameSources DEF Running
<1> QED BY <1>2, <1>3, <1>4 DEF AppInv

LEMMA AppStep ==
    ASSUME AppInv, Next
    PROVE  AppInv'
<1>0. TypesOK /\ ControlOK /\ MoveOK /\ SequenceOK /\ ListedOK
  BY DEF AppInv
<1>1. CASE Exited
  BY <1>1, Stutter DEF Exited
<1> SUFFICES ASSUME TaskStep \/ (\E r \in reapers : Reaps(r) \/ ReaperGivesUp(r))
                      \/ (\E b \in Bots : Enter(b) \/ Pass(b) \/ Sent(b))
                      \/ Sequence \/ Reloading \/ BootDone \/ BootFails \/ Terminate \/ Shutdown \/ Outside
             PROVE  AppInv'
  BY <1>1 DEF Next
<1>2. TypesOK'
  BY <1>0, TaskStepTypes, ReaperTypes, CallTypes, SequenceTypes, ReloadingTypes, ProcessTypes
<1>3. ControlOK' /\ MoveOK' /\ SequenceOK' /\ ListedOK'
  BY <1>0, ControlStep, MoveStep, SequenceStepOK, ListedStep
<1>4. ingest => ingest'
  BY <1>0, Bystanders, SequenceAlone, ReloadingMoves, ProcessMoves
<1>5. ~ingest' => SourcesOK'
  BY <1>4, TaskStepSources, ReaperSources, SequenceSources, ReloadingSources, OtherSources DEF Running
<1> QED BY <1>2, <1>3, <1>5 DEF AppInv

\* At every step of reloads, moves, tasks, reapers and the shutdown, the bots
\* that the sequence under way has still to bring up are known, and every
\* other one is parked or as the config says (reload.rs restart_sources and
\* resume, sources.rs, supervisor.rs).
THEOREM AppInvariant == Spec => []AppInv
<1>1. Init => AppInv
  BY AppInit
<1>2. AppInv /\ [Next]_vars => AppInv'
  BY AppStep, Stutter
<1> QED BY <1>1, <1>2, PTL DEF Spec


-----------------------------------------------------------------------------
(* What the invariant gives.                                               *)

\* Whatever overlaps, no gateway call of a bot is being sent while the server
\* is called to log the bot out (gateway/mod.rs Gate::enter, reload.rs
\* set_parked and calls_sent).
THEOREM LogoutIsQuiet == Spec => []LogoutQuiet
<1>1. AppInv => LogoutQuiet
  BY DEF AppInv, MoveOK, LogoutQuiet
<1> QED BY <1>1, AppInvariant, PTL

\* all_failed never takes the failure of a long poll that a restart replaces
\* for one of the long poll that runs (sources.rs all_failed, start_long_poll).
THEOREM FailedSourcesAreCurrent == Spec => []FailedForGood
<1>1. AppInv => FailedForGood
  <2> SUFFICES ASSUME AppInv, AllFailed, NEW b \in Bots, started[b] # NotStarted
               PROVE  \E t \in tasks : t.name = <<"source", b>> /\ t.tok = started[b].src /\ t.state = "failed"
    BY DEF FailedForGood
  <2>1. started[b].kind = "poll" /\ starting = {}
    BY DEF AllFailed
  <2>2. PICK t \in Listed(<<"source", b>>) : t.state = "failed"
    BY DEF AllFailed
  <2>3. entries[<<"source", b>>] = started[b].src
    BY <2>1 DEF AppInv, ListedOK
  <2> QED BY <2>2, <2>3 DEF Listed
<1> QED BY <1>1, AppInvariant, PTL

\* A task that goes on watches its bot's current stop token.
LEMMA LiveTasks ==
    ASSUME AppInv, NEW t \in tasks, Live(t)
    PROVE  /\ ~ingest /\ SourcesOK
           /\ BotOf(t) \in Bots /\ t.tok = stops[BotOf(t)] /\ ~Dead(t.tok)
           /\ BotOf(t) \in work.todo \/ Fits(t)
<1>1. ~ingest /\ SourcesOK /\ t.tok \notin cancelled
  BY DEF AppInv, Live, Stopped
<1>2. t.name \in Names
  BY DEF AppInv, TypesOK, TasksType, Task
<1> QED BY <1>1, <1>2, NameParts DEF SourcesOK, TasksOK, BotOf, Dead

\* At most one long poll of a bot goes on, and a parked bot is silent, for
\* any interleaving of reloads, moves, reapers and dying tasks (sources.rs
\* start_long_poll, stop, park, ingest_of; supervisor.rs spawn).
THEOREM OnePollerPerBot == Spec => []OnePoller
<1>1. AppInv => OnePoller
  <2> SUFFICES ASSUME AppInv, NEW b \in Bots
               PROVE  /\ Cardinality(OfBot(b, "source")) <= 1
                      /\ b \in parked => /\ Stopped(routes[b])
                                         /\ \A n \in Names : n[2] = b => OfBot(b, n[1]) = {}
    BY DEF OnePoller
  <2>1. ASSUME NEW t \in OfBot(b, "source"), NEW u \in OfBot(b, "source")
        PROVE  t = u
    <3>1. /\ t \in tasks /\ u \in tasks /\ t.name = u.name /\ BotOf(t) = BotOf(u)
          /\ Live(t) /\ Live(u)
      BY DEF OfBot, BotOf
    <3>2. SourcesOK /\ t.tok = u.tok
      BY <3>1, LiveTasks
    <3> QED BY <3>1, <3>2 DEF SourcesOK, TasksOK, OneEach
  <2>2. Cardinality(OfBot(b, "source")) <= 1
    <3>1. CASE OfBot(b, "source") = {}
      <4>1. Cardinality({}) = 0
        BY FS_EmptySet
      <4> QED BY <3>1, <4>1
    <3>2. CASE OfBot(b, "source") # {}
      <4>1. PICK t \in OfBot(b, "source") : TRUE
        BY <3>2
      <4>2. OfBot(b, "source") = {t}
        BY <2>1, <4>1
      <4>3. Cardinality({t}) = 1
        BY FS_Singleton
      <4> QED BY <4>2, <4>3
    <3> QED BY <3>1, <3>2
  <2>3. ASSUME b \in parked, ~ingest
        PROVE  Dead(stops[b]) /\ Stopped(routes[b])
    <3>1. SourcesOK
      BY <2>3 DEF AppInv
    <3>2. Dead(stops[b])
      BY <2>3, <3>1 DEF SourcesOK, TokensOK
    <3> QED BY <3>1, <3>2 DEF SourcesOK, RoutesOK, Stopped, Dead
  <2>4. ASSUME b \in parked, NEW k, NEW t \in OfBot(b, k)
        PROVE  FALSE
    <3>1. t \in tasks /\ BotOf(t) = b /\ Live(t)
      BY <2>4 DEF OfBot, BotOf
    <3> QED BY <2>3, <2>4, <3>1, LiveTasks
  <2>5. b \in parked => Stopped(routes[b])
    BY <2>3 DEF Stopped
  <2> QED BY <2>2, <2>4, <2>5
<1> QED BY <1>1, AppInvariant, PTL

\* When the reload task is between jobs, the registry, the supervisor, the
\* routes and the webhooks at the servers are what the config in effect asks
\* for, whatever reloads, moves and failures came before (reload.rs
\* restart_sources, resume; sources.rs stop, start_webhooks, start_long_poll).
THEOREM SourcesRunAsConfigured == Spec => []RunsAsConfigured
<1>1. AppInv => RunsAsConfigured
  <2> SUFFICES ASSUME AppInv, rl.pc = "select", ~ingest
               PROVE  SourcesAsConfigured /\ HooksAsConfigured
    BY DEF RunsAsConfigured
  <2>1. PendingOK /\ TokensOK /\ RoutesOK /\ TasksOK /\ StartedOK /\ HooksOK /\ ~force
    BY DEF AppInv, SourcesOK, ControlOK
  <2>2. work.todo = {} /\ work.bots = {} /\ Settled = Bots \ parked
    <3>1. work = Idle
      BY DEF AppInv, ControlOK
    <3> QED BY <3>1, IdleWork DEF Settled, Pending
  <2>3. starting = {} /\ notReady = {} /\ gateParked \subseteq parked
    BY <2>1, <2>2 DEF PendingOK
  <2>4. ASSUME NEW b \in Bots \ parked, Ingress(b) # "none"
        PROVE  ~Stopped(stops[b])
    <3>1. ~Dead(stops[b])
      BY <2>1, <2>2, <2>4 DEF TokensOK
    <3>2. stops[b] \in 0 .. tokens /\ tokens \in Nat
      BY DEF AppInv, TypesOK, TokensType
    <3> QED BY <3>1, <3>2 DEF Stopped, Closed, Dead
  <2>5. ASSUME NEW b \in Bots \ parked
        PROVE  /\ Ingress(b) # "poll" => OfBot(b, "source") = {}
               /\ Ingress(b) # "hook" => OfBot(b, "register") = {}
    <3>1. ASSUME NEW k, NEW t \in OfBot(b, k)
          PROVE  t.name[1] = k /\ BotOf(t) = b /\ Fits(t)
      <4>1. t \in tasks /\ t.name = <<k, b>> /\ Live(t)
        BY <3>1 DEF OfBot
      <4>2. Fits(t)
        BY <2>2, <4>1, LiveTasks
      <4> QED BY <4>1, <4>2 DEF BotOf
    <3> QED BY <3>1 DEF Fits
  <2>6. ASSUME NEW b \in Bots \ parked, Ingress(b) = "poll"
        PROVE  /\ started[b] = [kind |-> "poll", src |-> stops[b]]
               /\ \E t \in Listed(<<"source", b>>) : t.tok = stops[b] /\ t.up = config[b].up /\ ~t.cut
    <3>1. Polling(b)
      BY <2>1, <2>2, <2>6 DEF StartedOK
    <3> QED BY <3>1 DEF Polling, Listed
  <2>7. ASSUME NEW b \in Bots \ parked
        PROVE  /\ b \in Hooked <=> ~Stopped(routes[b])
               /\ b \in Hooked <=> started[b].kind = "hook"
    <3>1. b \in Hooked <=> started[b].kind = "hook"
      BY <2>1, <2>2 DEF StartedOK
    <3>2. ASSUME b \in Hooked PROVE ~Stopped(routes[b])
      <4>1. routes[b] = stops[b] /\ Ingress(b) # "none"
        BY <2>1, <2>2, <3>2 DEF RoutesOK, Hooked, Pending
      <4> QED BY <2>4, <4>1
    <3>3. ASSUME b \notin Hooked PROVE Stopped(routes[b])
      BY <2>1, <2>2, <3>3 DEF RoutesOK, Stopped
    <3> QED BY <3>1, <3>2, <3>3
  <2>8. SourcesAsConfigured
    BY <2>3, <2>4, <2>5, <2>6, <2>7 DEF SourcesAsConfigured
  <2>9. ASSUME NEW b \in Bots \ parked, Ingress(b) = "hook"
        PROVE  \/ <<config[b].up, b>> \in hooks
               \/ b \in rejected
               \/ \E t \in OfBot(b, "register") : t.up = config[b].up
    <3>1. HookSet(b) /\ ~Stopped(stops[b])
      BY <2>1, <2>2, <2>4, <2>9 DEF HooksOK
    <3> QED BY <2>1, <3>1 DEF HookSet, OfBot, Live, Cancelled
  <2> QED BY <2>8, <2>9 DEF HooksAsConfigured
<1> QED BY <1>1, AppInvariant, PTL
=============================================================================
