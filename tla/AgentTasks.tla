------------------------------ MODULE AgentTasks ------------------------------
(***************************************************************************)
(* The tasks of RtpproxyAsynClient on their way to one RtpProxy.           *)
(*                                                                         *)
(* A task is submitted by a caller (dotask), waits in its Channel's queue  *)
(* or is being done, and ends when its callback is told an outcome.  It is *)
(* handled by its caller, by the Channel's manager thread, by threads that *)
(* report finished writes and responses, and by two timeout threads.  A    *)
(* step is one critical section; what follows on a task that only this     *)
(* thread holds is part of the step.                                       *)
(*                                                                         *)
(* The network, the RtpProxy and the clock are the environment: a write    *)
(* ends in any way, a request may be answered or not, a task expires at    *)
(* any time.  The shake-hand's own task is left out; its answer is a step. *)
(* A thread that writes a task already deleted reads freed memory: the     *)
(* write goes out or does not.                                             *)
(***************************************************************************)
EXTENDS Integers, Sequences, FiniteSets

CONSTANTS
  Task,       \* tasks; a task also names the thread that submits it
  Notifier,   \* threads that report finished writes
  Manager,    \* the Channel's manager thread
  Group,      \* the RtpProxy's addresses (ConGroups)
  KeyGroup,   \* the address the caller knows
  Cnn,        \* connection ids
  GroupOf,    \* connection -> its address
  MAX_CON_FAILED_TIME,    \* passes without a connection before a group goes
  None

ASSUME GroupAssumption == KeyGroup \in Group /\ GroupOf \in [Cnn -> Group]
ASSUME ActorAssumption ==
  Task \cap Notifier = {} /\ Manager \notin Task \cup Notifier
ASSUME FailedAssumption == MAX_CON_FAILED_TIME \in Nat \ {0}
ASSUME NullAssumption == None \notin Task \cup Cnn

VARIABLES
  stage,              \* ChannelManager: "run", or the part of stop() reached
  chan,               \* the Channel: "none", "live" (in m_channels), "taken"
  m_failed, m_shaked,
  m_con_groups,       \* groups of the Channel
  m_has_tried_to_connect, m_failed_time, m_connections,  \* per group
  m_id_channels,      \* connections the ChannelManager knows
  m_wait_tasks, m_doing_tasks,
  m_used_addrs, m_tried_all,  \* per task
  expired,            \* tasks older than their m_time_out
  pc, task, cnn,      \* per thread: step and locals
  todo,               \* check_connect: groups of its copy not yet checked
  writing,            \* writes handed to the completion port (external)
  asked,              \* requests the RtpProxy may still answer (external)
  notified,           \* task -> times its callback was told an outcome
  arrival,            \* history: tasks in the order they first had to wait
  reported            \* history: tasks for which m_error_rtpproxy_cb was called

channelVars == <<chan, m_failed, m_shaked, m_con_groups, m_has_tried_to_connect,
                 m_failed_time>>
cnnVars == <<m_connections, m_id_channels>>
taskVars == <<m_used_addrs, m_tried_all>>
queueVars == <<m_wait_tasks, m_doing_tasks>>
threadVars == <<pc, task, cnn, todo>>
netVars == <<writing, asked>>
vars == <<stage, channelVars, cnnVars, queueVars, taskVars, expired, threadVars,
          netVars, notified, arrival, reported>>

Actor == Task \cup Notifier \cup {Manager}
Label == {"init", "get", "doing", "write", "wait", "idle", "failed",
          "check", "map", "fetch", "put_back"}
Running == stage = "run"

TypeOK ==
  /\ stage \in {"run", "take", "delete", "clear", "stopped"}
  /\ chan \in {"none", "live", "taken"} /\ {m_failed, m_shaked} \subseteq BOOLEAN
  /\ m_con_groups \subseteq Group
  /\ m_has_tried_to_connect \in [Group -> BOOLEAN]
  /\ m_failed_time \in [Group -> 0 .. MAX_CON_FAILED_TIME - 1]
  /\ \A g \in Group : m_connections[g] \subseteq {c \in Cnn : GroupOf[c] = g}
  /\ m_id_channels \subseteq Cnn
  /\ m_wait_tasks \in Seq(Task) /\ m_doing_tasks \subseteq Task
  /\ m_used_addrs \in [Task -> SUBSET Group] /\ m_tried_all \in [Task -> BOOLEAN]
  /\ expired \subseteq Task
  /\ pc \in [Actor -> Label] /\ task \in [Actor -> Task \cup {None}]
  /\ cnn \in [Actor -> Cnn \cup {None}] /\ todo \subseteq Group
  /\ writing \subseteq Task \X Cnn /\ asked \subseteq Task
  /\ notified \in [Task -> Nat] /\ arrival \in Seq(Task)
  /\ reported \subseteq Task

\* The constructor of a SendTask does not set m_tried_all.
Init ==
  /\ stage = "run" /\ chan = "none" /\ m_failed = FALSE /\ m_shaked = FALSE
  /\ m_con_groups = {} /\ m_has_tried_to_connect = [g \in Group |-> FALSE]
  /\ m_failed_time = [g \in Group |-> 0] /\ m_connections = [g \in Group |-> {}]
  /\ m_id_channels = {} /\ m_wait_tasks = << >> /\ m_doing_tasks = {}
  /\ m_used_addrs = [t \in Task |-> {}] /\ m_tried_all \in [Task -> BOOLEAN]
  /\ expired = {}
  /\ pc = [a \in Actor |-> IF a \in Task THEN "init" ELSE "idle"]
  /\ task = [a \in Actor |-> IF a \in Task THEN a ELSE None]
  /\ cnn = [a \in Actor |-> None] /\ todo = {}
  /\ writing = {} /\ asked = {} /\ notified = [t \in Task |-> 0]
  /\ arrival = << >> /\ reported = {}

-----------------------------------------------------------------------------
Goto(a, label) == pc' = [pc EXCEPT ![a] = label]

\* Where a thread goes on when it has done with its task.
Rest(a) == IF a = Manager THEN "fetch" ELSE "idle"
Leave(a) ==
  /\ Goto(a, Rest(a))
  /\ task' = [task EXCEPT ![a] = None] /\ cnn' = [cnn EXCEPT ![a] = None]

\* notify_by_task for every task of a set: the callbacks, then the deletions.
Notify(tasks) ==
  notified' = [t \in Task |-> notified[t] + IF t \in tasks THEN 1 ELSE 0]

\* The channel is created, with the group of the address the caller knows.
NewChannel ==
  /\ chan' = "live" /\ m_failed' = FALSE /\ m_shaked' = FALSE
  /\ m_con_groups' = {KeyGroup}
  /\ m_has_tried_to_connect' = [g \in Group |-> FALSE]
  /\ m_failed_time' = [g \in Group |-> 0]

\* A thread's get_con_id fails: the caller's dotask and the writer's handler
\* both notify the task.
Refuse(a) ==
  /\ Notify({task[a]}) /\ Leave(a)
  /\ UNCHANGED <<stage, channelVars, cnnVars, queueVars, taskVars, expired, todo,
                 netVars, arrival, reported>>

\* get_con_id: m_runing and init_channel.
InitChannel(a) ==
  /\ pc[a] = "init"
  /\ \/ ~Running /\ Refuse(a)
     \/ /\ Running /\ Goto(a, "get")
        /\ IF chan = "none" THEN NewChannel ELSE UNCHANGED channelVars
        /\ UNCHANGED <<stage, cnnVars, queueVars, taskVars, expired, task, cnn,
                       todo, netVars, notified, arrival, reported>>

\* ConGroup::get_a_cnn: any connection of the group, or none.
ACnn(g) == IF m_connections[g] = {} THEN {None} ELSE m_connections[g]

\* Channel::get_cnn.  A choice is a connection and the addresses used.
\* The first group is any; it counts as used once it has tried to connect.
FirstChoices(t) ==
  IF m_used_addrs[t] # {} THEN {<<None, m_used_addrs[t]>>}
  ELSE UNION {IF m_has_tried_to_connect[g] THEN ACnn(g) \X {{g}}
                                           ELSE {<<None, {}>>} : g \in m_con_groups}
\* Without a connection, one group that is not used yet.
OtherChoices(choice) ==
  LET unused == {g \in m_con_groups \ choice[2] : m_has_tried_to_connect[g]} IN
  IF choice[1] # None \/ unused = {} THEN {choice}
  ELSE UNION {ACnn(g) \X {choice[2] \cup {g}} : g \in unused}
TriedAll(choice) ==
  choice[1] = None /\ Cardinality(m_con_groups) <= Cardinality(choice[2])
\* When all are used, the only group is tried once more.
LastChoices(choice) ==
  IF TriedAll(choice) /\ Cardinality(m_con_groups) = 1
  THEN UNION {ACnn(g) \X {choice[2] \cup {g}} : g \in m_con_groups}
  ELSE {choice}

GetCnn(t) ==
  IF m_con_groups = {} THEN {<<None, m_used_addrs[t], m_tried_all[t]>>}
  ELSE UNION {{<<last[1], last[2], m_tried_all[t] \/ TriedAll(other)>> :
                 last \in LastChoices(other)} :
              other \in UNION {OtherChoices(first) : first \in FirstChoices(t)}}

\* What get_cnn leaves in the task.
Remember(t, choice) ==
  /\ m_used_addrs' = [m_used_addrs EXCEPT ![t] = choice[2]]
  /\ m_tried_all' = [m_tried_all EXCEPT ![t] = choice[3]]

\* get_con_id: the channel may be gone again.
GetConId(a) ==
  /\ pc[a] = "get" /\ a # Manager
  /\ \/ chan # "live" /\ Refuse(a)
     \/ /\ chan = "live"
        /\ \E choice \in GetCnn(task[a]) :
             /\ Remember(task[a], choice)
             /\ IF choice[1] # None
                  THEN /\ Goto(a, "doing") /\ cnn' = [cnn EXCEPT ![a] = choice[1]]
                       /\ UNCHANGED <<task, notified>>
                ELSE IF a \in Task
                  THEN Goto(a, "wait") /\ UNCHANGED <<task, cnn, notified>>
                ELSE Leave(a) /\ Notify({task[a]})
        /\ UNCHANGED <<stage, channelVars, cnnVars, queueVars, expired, todo,
                       netVars, arrival, reported>>

\* ChannelManager::add_doing_task.
AddDoing(a) ==
  /\ pc[a] = "doing"
  /\ m_doing_tasks' = m_doing_tasks \cup {task[a]} /\ Goto(a, "write")
  /\ UNCHANGED <<stage, channelVars, cnnVars, m_wait_tasks, taskVars, expired, task,
                 cnn, todo, netVars, notified, arrival, reported>>

\* write_cnn.  A timeout may have deleted the task since it was added.
WriteCnn(a) ==
  LET t == task[a] IN
  /\ pc[a] = "write"
  /\ \/ writing' = writing \cup {<<t, cnn[a]>>} /\ asked' = asked \cup {t}
     \/ notified[t] > 0 /\ UNCHANGED netVars
  /\ Leave(a)
  /\ UNCHANGED <<stage, channelVars, cnnVars, queueVars, taskVars, expired, todo,
                 notified, arrival, reported>>

\* add_waitting_task for a caller: a task's first attempt goes to the tail.
AddWaiting(t) ==
  /\ pc[t] = "wait"
  /\ \/ (~Running \/ chan # "live") /\ Refuse(t)
     \/ /\ Running /\ chan = "live"
        /\ m_wait_tasks' = Append(m_wait_tasks, t) /\ arrival' = Append(arrival, t)
        /\ Leave(t)
        /\ UNCHANGED <<stage, channelVars, cnnVars, m_doing_tasks, taskVars, expired,
                       todo, netVars, notified, reported>>

-----------------------------------------------------------------------------
(* The Channel's manager thread.                                            *)

\* A pass of manager_proc starts with check_connect's copy of the groups.
StartPass ==
  /\ pc[Manager] = "idle" /\ chan # "none"
  /\ todo' = m_con_groups /\ Goto(Manager, "check")
  /\ UNCHANGED <<stage, channelVars, cnnVars, queueVars, taskVars, expired, task,
                 cnn, netVars, notified, arrival, reported>>

\* A connection id that nobody knows any more.
Fresh(c) ==
  /\ c \notin m_id_channels /\ c \notin m_connections[GroupOf[c]]
  /\ \A a \in Actor : cnn[a] # c /\ \A t \in Task : <<t, c>> \notin writing

\* The group connects: it has the connection before anyone can find it.
Connect(g) ==
  /\ pc[Manager] = "check" /\ g \in todo /\ m_connections[g] = {}
  /\ \E c \in Cnn : /\ GroupOf[c] = g /\ Fresh(c)
                    /\ m_connections' = [m_connections EXCEPT ![g] = {c}]
                    /\ cnn' = [cnn EXCEPT ![Manager] = c]
  /\ Goto(Manager, "map")
  /\ UNCHANGED <<stage, channelVars, m_id_channels, queueVars, taskVars, expired,
                 task, todo, netVars, notified, arrival, reported>>

\* add_id_channels; asynReadConnection follows.
AddIdChannels ==
  /\ pc[Manager] = "map"
  /\ m_id_channels' = m_id_channels \cup {cnn[Manager]}
  /\ cnn' = [cnn EXCEPT ![Manager] = None] /\ Goto(Manager, "check")
  /\ UNCHANGED <<stage, channelVars, m_connections, queueVars, taskVars, expired,
                 task, todo, netVars, notified, arrival, reported>>

\* Wrong variant: a group is never given up.
CheckGroupForever(g) ==
  /\ pc[Manager] = "check" /\ g \in todo
  /\ todo' = todo \ {g}
  /\ m_has_tried_to_connect' = [m_has_tried_to_connect EXCEPT ![g] = TRUE]
  /\ m_failed_time' = [m_failed_time EXCEPT ![g] =
                         IF m_connections[g] # {} THEN 0 ELSE @ + 1]
  /\ UNCHANGED <<stage, chan, m_failed, m_shaked, m_con_groups, cnnVars, queueVars,
                 taskVars, expired, pc, task, cnn, netVars, notified, arrival,
                 reported>>

\* Wrong variant: a connection does not reset the count of failed passes.
CheckGroupCounting(g) ==
  LET given_up == m_failed_time[g] = MAX_CON_FAILED_TIME - 1 IN
  /\ pc[Manager] = "check" /\ g \in todo
  /\ todo' = todo \ {g}
  /\ m_has_tried_to_connect' = [m_has_tried_to_connect EXCEPT ![g] = ~given_up]
  /\ m_failed_time' = [m_failed_time EXCEPT ![g] = IF given_up THEN 0 ELSE @ + 1]
  /\ m_con_groups' = IF given_up THEN m_con_groups \ {g} ELSE m_con_groups
  /\ UNCHANGED <<stage, chan, m_failed, m_shaked, cnnVars, queueVars, taskVars,
                 expired, pc, task, cnn, netVars, notified, arrival, reported>>

\* The rest of the group's turn, whether it was time to connect or not: the
\* group is given up after MAX_CON_FAILED_TIME passes without a connection.
CheckGroup(g) ==
  LET given_up == /\ m_connections[g] = {}
                  /\ m_failed_time[g] = MAX_CON_FAILED_TIME - 1 IN
  /\ pc[Manager] = "check" /\ g \in todo
  /\ todo' = todo \ {g}
  /\ m_has_tried_to_connect' = [m_has_tried_to_connect EXCEPT ![g] = ~given_up]
  /\ m_failed_time' = [m_failed_time EXCEPT ![g] =
                         IF m_connections[g] # {} \/ given_up THEN 0 ELSE @ + 1]
  /\ m_con_groups' = IF given_up THEN m_con_groups \ {g} ELSE m_con_groups
  /\ UNCHANGED <<stage, chan, m_failed, m_shaked, cnnVars, queueVars, taskVars,
                 expired, pc, task, cnn, netVars, notified, arrival, reported>>

\* A Channel without groups has failed, for good; otherwise the queue is
\* served.
CheckFailed ==
  /\ pc[Manager] = "check" /\ todo = {}
  /\ m_failed' = (m_failed \/ m_con_groups = {})
  /\ Goto(Manager, IF m_failed \/ m_con_groups = {} THEN "idle" ELSE "fetch")
  /\ UNCHANGED <<stage, chan, m_shaked, m_con_groups, m_has_tried_to_connect,
                 m_failed_time, cnnVars, queueVars, taskVars, expired, task, cnn,
                 todo, netVars, notified, arrival, reported>>

\* fetch_waitting_task: the pass ends with the queue; an expired task is
\* notified.
FetchWaiting ==
  /\ pc[Manager] = "fetch"
  /\ IF m_wait_tasks = << >>
       THEN Goto(Manager, "idle") /\ UNCHANGED <<m_wait_tasks, task, notified>>
       ELSE /\ m_wait_tasks' = Tail(m_wait_tasks)
            /\ IF Head(m_wait_tasks) \in expired
                 THEN Notify({Head(m_wait_tasks)}) /\ UNCHANGED <<pc, task>>
                 ELSE /\ task' = [task EXCEPT ![Manager] = Head(m_wait_tasks)]
                      /\ Goto(Manager, "get") /\ UNCHANGED notified
  /\ UNCHANGED <<stage, channelVars, cnnVars, m_doing_tasks, taskVars, expired, cnn,
                 todo, netVars, arrival, reported>>

ManagerGetCnn ==
  /\ pc[Manager] = "get"
  /\ \E choice \in GetCnn(task[Manager]) :
       /\ Remember(task[Manager], choice)
       /\ cnn' = [cnn EXCEPT ![Manager] = choice[1]]
       /\ Goto(Manager, IF choice[1] = None THEN "put_back" ELSE "doing")
  /\ UNCHANGED <<stage, channelVars, cnnVars, queueVars, expired, task, todo, netVars,
                 notified, arrival, reported>>

\* Wrong variants: the task goes to the tail; it is not put back.
PutBackLast ==
  /\ pc[Manager] = "put_back"
  /\ m_wait_tasks' = Append(m_wait_tasks, task[Manager])
  /\ Goto(Manager, "idle") /\ task' = [task EXCEPT ![Manager] = None]
  /\ UNCHANGED <<stage, channelVars, cnnVars, m_doing_tasks, taskVars, expired, cnn,
                 todo, netVars, notified, arrival, reported>>
PutBackNever ==
  /\ pc[Manager] = "put_back"
  /\ Goto(Manager, "idle") /\ task' = [task EXCEPT ![Manager] = None]
  /\ UNCHANGED <<stage, channelVars, cnnVars, queueVars, taskVars, expired, cnn,
                 todo, netVars, notified, arrival, reported>>

\* add_waitting_task for the manager, whose task has been in the queue: it
\* goes to the head, and the pass ends.
PutBack ==
  /\ pc[Manager] = "put_back"
  /\ m_wait_tasks' = <<task[Manager]>> \o m_wait_tasks
  /\ Goto(Manager, "idle") /\ task' = [task EXCEPT ![Manager] = None]
  /\ UNCHANGED <<stage, channelVars, cnnVars, m_doing_tasks, taskVars, expired, cnn,
                 todo, netVars, notified, arrival, reported>>

-----------------------------------------------------------------------------
(* The completion port reports writes, responses and broken connections.    *)

\* ChannelManager::remove_cnn and Channel::del_cnn.
RemoveCnn(c) ==
  IF Running /\ c \in m_id_channels
    THEN /\ m_id_channels' = m_id_channels \ {c}
         /\ m_connections' = [m_connections EXCEPT ![GroupOf[c]] = @ \ {c}]
    ELSE UNCHANGED cnnVars

\* A finished write, of a request or of a keep-alive, takes the first task of
\* the queue along.
ServeQueue(n, c) ==
  IF c \in m_id_channels /\ chan # "none" /\ m_wait_tasks # << >>
    THEN /\ m_wait_tasks' = Tail(m_wait_tasks)
         /\ task' = [task EXCEPT ![n] = Head(m_wait_tasks)]
         /\ cnn' = [cnn EXCEPT ![n] = c] /\ Goto(n, "doing")
    ELSE UNCHANGED <<m_wait_tasks, task, cnn, pc>>

WriteSucceeds(n, t, c) ==
  /\ pc[n] = "idle" /\ <<t, c>> \in writing
  /\ writing' = writing \ {<<t, c>>} /\ ServeQueue(n, c)
  /\ UNCHANGED <<stage, channelVars, cnnVars, m_doing_tasks, taskVars, expired, todo,
                 asked, notified, arrival, reported>>

KeepAliveSucceeds(n, c) ==
  /\ pc[n] = "idle" /\ c \in m_id_channels /\ m_wait_tasks # << >>
  /\ ServeQueue(n, c)
  /\ UNCHANGED <<stage, channelVars, cnnVars, m_doing_tasks, taskVars, expired, todo,
                 netVars, notified, arrival, reported>>

\* A write fails; a fatal failure or an invalid parameter closes the
\* connection.
WriteFails(n, t, c) ==
  /\ pc[n] = "idle" /\ <<t, c>> \in writing
  /\ writing' = writing \ {<<t, c>>}
  /\ RemoveCnn(c) \/ UNCHANGED cnnVars
  /\ task' = [task EXCEPT ![n] = t] /\ Goto(n, "failed")
  /\ UNCHANGED <<stage, channelVars, queueVars, taskVars, expired, cnn, todo, asked,
                 notified, arrival, reported>>

\* Wrong variant: the task of a failed write stays in the table.
FetchDoingKept(n) ==
  LET t == task[n] IN
  /\ pc[n] = "failed"
  /\ IF t \notin m_doing_tasks
       THEN Leave(n) /\ UNCHANGED <<notified, reported>>
     ELSE IF ~m_tried_all[t]
       THEN Goto(n, "init") /\ UNCHANGED <<task, cnn, notified, reported>>
     ELSE reported' = reported \cup {t} /\ Notify({t}) /\ Leave(n)
  /\ UNCHANGED <<stage, channelVars, cnnVars, queueVars, taskVars, expired,
                 todo, netVars, arrival>>

\* fetch_doing_task: the task is tried again (get_con_id), or, when it has
\* tried everything, its RtpProxy is reported to the SipProxy.
FetchDoing(n) ==
  LET t == task[n] IN
  /\ pc[n] = "failed"
  /\ m_doing_tasks' = m_doing_tasks \ {t}
  /\ IF t \notin m_doing_tasks
       THEN Leave(n) /\ UNCHANGED <<notified, reported>>
     ELSE IF ~m_tried_all[t]
       THEN Goto(n, "init") /\ UNCHANGED <<task, cnn, notified, reported>>
     ELSE reported' = reported \cup {t} /\ Notify({t}) /\ Leave(n)
  /\ UNCHANGED <<stage, channelVars, cnnVars, m_wait_tasks, taskVars, expired,
                 todo, netVars, arrival>>

\* A response, possibly late or a second one: the task is fetched and its
\* callback told.
Respond(t) ==
  /\ t \in asked /\ asked' = asked \ {t}
  /\ m_doing_tasks' = m_doing_tasks \ {t}
  /\ Notify({t} \cap m_doing_tasks)
  /\ UNCHANGED <<stage, channelVars, cnnVars, m_wait_tasks, taskVars, expired,
                 threadVars, writing, arrival, reported>>

\* A read or a keep-alive on a connection fails.
Disconnect(c) ==
  /\ c \in m_id_channels /\ RemoveCnn(c)
  /\ UNCHANGED <<stage, channelVars, queueVars, taskVars, expired, threadVars,
                 netVars, notified, arrival, reported>>

\* The answer to a shake hand brings the RtpProxy's other addresses.
ShakeHand ==
  /\ Running /\ chan = "live" /\ ~m_shaked /\ m_id_channels # {}
  /\ m_shaked' = TRUE /\ m_con_groups' = Group
  /\ UNCHANGED <<stage, chan, m_failed, m_has_tried_to_connect, m_failed_time,
                 cnnVars, queueVars, taskVars, expired, threadVars, netVars, notified,
                 arrival, reported>>

-----------------------------------------------------------------------------
(* Timeouts, failed channels, stop.                                         *)

Expire(t) ==
  /\ t \notin expired /\ pc[t] # "init"
  /\ expired' = expired \cup {t}
  /\ UNCHANGED <<stage, channelVars, cnnVars, queueVars, taskVars, threadVars,
                 netVars, notified, arrival, reported>>

Waiting == {m_wait_tasks[i] : i \in 1 .. Len(m_wait_tasks)}

\* Channel::check_timeout_proc: what has not expired stays, in its order.
CheckWaiting ==
  LET kept == {i \in 1 .. Len(m_wait_tasks) : m_wait_tasks[i] \notin expired} IN
  /\ chan # "none" /\ Waiting \cap expired # {}
  /\ \E place \in [1 .. Cardinality(kept) -> kept] :
       /\ {place[i] : i \in DOMAIN place} = kept
       /\ \A i, j \in DOMAIN place : i < j => place[i] < place[j]
       /\ m_wait_tasks' = [i \in DOMAIN place |-> m_wait_tasks[place[i]]]
  /\ Notify(Waiting \cap expired)
  /\ UNCHANGED <<stage, channelVars, cnnVars, m_doing_tasks, taskVars, expired,
                 threadVars, netVars, arrival, reported>>

\* Wrong variant: the expired tasks are taken out and forgotten.
CheckDoingSilent ==
  /\ stage \in {"run", "take", "delete"} /\ m_doing_tasks \cap expired # {}
  /\ m_doing_tasks' = m_doing_tasks \ expired
  /\ UNCHANGED <<stage, channelVars, cnnVars, m_wait_tasks, taskVars, expired,
                 threadVars, netVars, notified, arrival, reported>>

\* ChannelManager::manager_proc, expired tasks.
CheckDoing ==
  /\ stage \in {"run", "take", "delete"} /\ m_doing_tasks \cap expired # {}
  /\ m_doing_tasks' = m_doing_tasks \ expired
  /\ Notify(m_doing_tasks \cap expired)
  /\ UNCHANGED <<stage, channelVars, cnnVars, m_wait_tasks, taskVars, expired,
                 threadVars, netVars, arrival, reported>>

\* ~Channel, once its threads have ended: the connections are closed and the
\* queue goes.
DestroyChannel ==
  /\ pc[Manager] = "idle"
  /\ chan' = "none" /\ m_connections' = [g \in Group |-> {}]
  /\ m_wait_tasks' = << >>

\* ChannelManager::manager_proc, a failed channel: its waiting tasks are
\* notified.
DeleteFailed ==
  /\ stage \in {"run", "take", "delete"} /\ chan = "live" /\ m_failed
  /\ DestroyChannel
  /\ m_id_channels' = {} /\ Notify(Waiting)
  /\ UNCHANGED <<stage, m_failed, m_shaked, m_con_groups, m_has_tried_to_connect,
                 m_failed_time, m_doing_tasks, taskVars, expired, threadVars, netVars,
                 arrival, reported>>

\* ChannelManager::stop: the flag; the channels are taken out of the tables;
\* they are destroyed with the tasks still waiting; when the manager thread
\* has ended, the tasks being done are notified.
StopFlag ==
  /\ stage = "run" /\ stage' = "take"
  /\ UNCHANGED <<channelVars, cnnVars, queueVars, taskVars, expired, threadVars,
                 netVars, notified, arrival, reported>>
StopTake ==
  /\ stage = "take" /\ stage' = "delete"
  /\ m_id_channels' = {} /\ chan' = IF chan = "live" THEN "taken" ELSE chan
  /\ UNCHANGED <<m_failed, m_shaked, m_con_groups, m_has_tried_to_connect,
                 m_failed_time, m_connections, queueVars, taskVars, expired,
                 threadVars, netVars, notified, arrival, reported>>
StopDelete ==
  /\ stage = "delete" /\ stage' = "clear"
  /\ IF chan = "taken"
       THEN DestroyChannel
       ELSE UNCHANGED <<chan, m_connections, m_wait_tasks>>
  /\ UNCHANGED <<m_failed, m_shaked, m_con_groups, m_has_tried_to_connect,
                 m_failed_time, m_id_channels, m_doing_tasks, taskVars, expired,
                 threadVars, netVars, notified, arrival, reported>>
StopClear ==
  /\ stage = "clear" /\ stage' = "stopped"
  /\ Notify(m_doing_tasks) /\ m_doing_tasks' = {}
  /\ UNCHANGED <<channelVars, cnnVars, m_wait_tasks, taskVars, expired, threadVars,
                 netVars, arrival, reported>>

-----------------------------------------------------------------------------
Work(a) == InitChannel(a) \/ GetConId(a) \/ AddDoing(a) \/ WriteCnn(a)
Call(t) == Work(t) \/ AddWaiting(t)
ManagerStep ==
  \/ StartPass \/ CheckFailed \/ FetchWaiting \/ ManagerGetCnn \/ PutBack
  \/ AddIdChannels \/ AddDoing(Manager) \/ WriteCnn(Manager)
  \/ \E g \in Group : Connect(g) \/ CheckGroup(g)
NotifierStep(n) == Work(n) \/ FetchDoing(n)
Report(n) ==
  \/ \E t \in Task, c \in Cnn : WriteSucceeds(n, t, c) \/ WriteFails(n, t, c)
  \/ \E c \in Cnn : KeepAliveSucceeds(n, c)
Environment ==
  \/ \E t \in Task : Respond(t) \/ Expire(t)
  \/ \E c \in Cnn : Disconnect(c)
  \/ ShakeHand
Stop == StopFlag \/ StopTake \/ StopDelete \/ StopClear

Next ==
  \/ \E t \in Task : Call(t)
  \/ ManagerStep
  \/ \E n \in Notifier : NotifierStep(n) \/ Report(n)
  \/ Environment
  \/ CheckWaiting \/ CheckDoing \/ DeleteFailed \/ Stop

\* The threads run; the clock does not stop; nothing is expected of the
\* network, the RtpProxy or the caller.
Fairness ==
  /\ \A t \in Task : WF_vars(pc[t] # "init" /\ Call(t)) /\ WF_vars(Expire(t))
  /\ WF_vars(ManagerStep)
  /\ \A n \in Notifier : WF_vars(NotifierStep(n))
  /\ WF_vars(CheckWaiting) /\ WF_vars(CheckDoing)

Spec == Init /\ [][Next]_vars
FairSpec == Spec /\ Fairness

-----------------------------------------------------------------------------
Accepted(t) == pc[t] # "init"
Held(a) == IF pc[a] \in {"init", "get", "doing", "wait", "put_back"}
             THEN {task[a]} \ {None} ELSE {}

\* The callback of a task is told one outcome at most: the response, a write
\* failure, the timeouts, a failed channel and stop exclude each other.
NotifiedOnce == \A t \in Task : notified[t] <= 1

\* While the agent runs, an accepted task that has had no outcome is in one
\* place where it will get one: it waits, it is being done or a thread is
\* about to put it somewhere; a task that had its outcome is in none.
TaskInOnePlace ==
  Running =>
    \A t \in Task :
      Cardinality({i \in 1 .. Len(m_wait_tasks) : m_wait_tasks[i] = t})
        + Cardinality({t} \cap m_doing_tasks)
        + Cardinality({a \in Actor : t \in Held(a)})
        = 1 - notified[t]

\* channel.cpp:354: a task put back goes to the head, so the queue keeps the
\* order in which the tasks first had to wait.
WaitInOrder ==
  \A i, j \in 1 .. Len(m_wait_tasks) : i < j =>
    \E k, l \in 1 .. Len(arrival) :
      k < l /\ arrival[k] = m_wait_tasks[i] /\ arrival[l] = m_wait_tasks[j]

\* channel.cpp:734: the table of connections must not lead to a deleted
\* channel.  While the agent runs, a connection in it leads to the channel, to
\* a group that was not given up, and to its place there.
ConnectionsLead ==
  Running =>
    \A c \in m_id_channels :
      chan = "live" /\ GroupOf[c] \in m_con_groups /\ c \in m_connections[GroupOf[c]]

\* Every accepted task gets its outcome in the end, whatever the network
\* does, unless the agent is stopped.
AcceptedIsNotified ==
  \A t \in Task : Accepted(t) ~> (notified[t] > 0 \/ ~Running)
=============================================================================
