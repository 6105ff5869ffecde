------------------------------- MODULE Exchange -------------------------------
(***************************************************************************)
(* Requests and answers between SipProxies and one RtpProxy.               *)
(*                                                                         *)
(* A connection carries commands each way, as CnnMixer shows.  The server  *)
(* has one read posted on it and posts the next before it handles a        *)
(* command: workers may handle the commands of a connection in another     *)
(* order.  The buffer of a request is used for its answer and freed when   *)
(* that has been written.                                                  *)
(*                                                                         *)
(* A handler is one step, but for start_call, whose answer leaves before   *)
(* the keep-alive record is updated.  What get_ports, free_ports and the   *)
(* sweep of a SipProxy do inside is PortPool's, what a call does CallPaths'*)
(* and how the client queues and resends a task AgentTasks'.               *)
(***************************************************************************)
EXTENDS Commands, FiniteSets

CONSTANTS
  Sip,         \* SipProxies, each one process and one login
  Conn,        \* TCP connections; a closed one is not used again
  ConnOf,      \* connection -> the SipProxy that opens it
  Task,        \* calls of the client's API
  Script,      \* what the SipProxies do, one of these:
               \*   ask: task -> [sip, type, user, call, path], a call named by
               \*        the task that starts it
               \*   before: task -> tasks whose callbacks are waited for
               \*   late: tasks whose time may be over
               \*   conns: connections that are opened
               \*   alive: connections that carry keep-alives
               \*   broken: connections that may be closed
               \*   version: SipProxy -> the version it was built with
               \*   told: SipProxy -> pair it has from an earlier server
  Pair,        \* port pairs
  NBuf,        \* buffers of the server's XMemPool
  Worker,      \* threads of the server that notify of completed reads
  HeapWord,    \* what new StopCallReq may find in m_user_id
  None         \* null, no entry

ReqTypes == {"RA_GET_PORTS_REQ", "RA_START_CALL_REQ", "RA_FREE_PORTS_REQ",
             "RA_STOP_CALL_REQ", "RA_BUILD_PATH_REQ", "RA_SHAKE_HAND_REQ",
             "RA_SIPPROXY_OFFLINE_REQ"}

ASSUME ConnAssumption == ConnOf \in [Conn -> Sip] /\ IsFiniteSet(Conn)
ASSUME ServerAssumption == NBuf \in Nat /\ IsFiniteSet(Worker)
ASSUME ScriptAssumption ==
  /\ IsFiniteSet(Task)
  /\ \A s \in Script :
       /\ DOMAIN s.ask \subseteq Task /\ s.told \in [Sip -> Pair \cup {None}]
       /\ \A t \in DOMAIN s.ask :
            /\ s.ask[t].sip \in Sip /\ s.ask[t].type \in ReqTypes
            /\ s.ask[t].user \in Nat /\ s.ask[t].call \in DOMAIN s.ask
            /\ s.before[t] \subseteq Task
ASSUME NoneAssumption == /\ None \notin Conn /\ None \notin Pair /\ None \notin Worker
                         /\ None \notin Task /\ None \notin Sip \X Nat
                         /\ None # "RA_TIMEOUT"

VARIABLES
  script,      \* the script followed
  conn,        \* connection -> "new", "open" or "closed"
  up, down,    \* connection -> commands on their way to the server, to the client
  posted,      \* connections the server has a read posted on
  job,         \* worker -> the command it handles: [pc, conn, req]
  free,        \* buffers XMemPool can allocate, a number
  writing,     \* buffers of answers being written
  lost,        \* history: buffers nobody will give back
  holder,      \* pair -> <<SipProxy, user>> it is kept for
  call_at,     \* pair -> id of the call whose TransformInfos are there
  m_cid,       \* SipProxy -> connection of its KeepAliveInfo
  reported,    \* calls an error has been sent for
  g_cmdid,     \* SipProxy -> its last m_cmd_id
  cmd,         \* task -> its request
  stage,       \* task -> "new", "doing" or "done"
  outcome,     \* task -> code its callback was given
  told,        \* SipProxy -> the pair it has been told of
  answers,     \* history: task -> answers sent
  handled      \* history: tasks the server has handled

bufVars == <<free, writing, lost>>
portVars == <<holder, call_at>>
taskVars == <<g_cmdid, cmd, stage, outcome, told>>
vars == <<conn, up, down, posted, job, bufVars, portVars, m_cid, reported, script,
          taskVars, answers, handled>>

Ask == script.ask
Idle == [pc |-> "idle", conn |-> None, req |-> None]
NoCmd == [m_cmd_id |-> 0]
Outcomes == {"RA_SUC", "RA_FAIL", "RA_BAD_PARAMETER", "RA_VERSION_INCONFORMITY",
             "RA_TIMEOUT", None}

TypeOK ==
  /\ conn \in [Conn -> {"new", "open", "closed"}]
  /\ \A c \in Conn : conn[c] # "open" => up[c] = << >> /\ down[c] = << >>
  /\ posted \subseteq Conn
  /\ \A w \in Worker : /\ job[w].pc \in {"idle", "handle", "update"}
                       /\ job[w].pc # "idle" =>
                            job[w].conn \in Conn /\ job[w].req.m_cmd_type \in DOMAIN Class
  /\ {free, writing, lost} \subseteq 0 .. NBuf
  /\ holder \in [Pair -> (Sip \X Nat) \cup {None}] /\ call_at \in [Pair -> Task \cup {None}]
  /\ m_cid \in [Sip -> Conn \cup {None}] /\ reported \subseteq Task
  /\ script \in Script /\ g_cmdid \in [Sip -> 0 .. Cardinality(Task)]
  /\ stage \in [Task -> {"new", "doing", "done"}] /\ outcome \in [Task -> Outcomes]
  /\ told \in [Sip -> Pair \cup {None}] /\ handled \subseteq Task
  /\ answers \in [Task -> 0 .. 2]

Init ==
  /\ conn = [c \in Conn |-> "new"]
  /\ up = [c \in Conn |-> << >>] /\ down = [c \in Conn |-> << >>]
  /\ posted = {} /\ job = [w \in Worker |-> Idle]
  /\ free = NBuf /\ writing = 0 /\ lost = 0
  /\ holder = [p \in Pair |-> None] /\ call_at = [p \in Pair |-> None]
  /\ m_cid = [s \in Sip |-> None] /\ reported = {}
  /\ script \in Script
  /\ g_cmdid = [s \in Sip |-> 0] /\ cmd = [t \in Task |-> NoCmd]
  /\ stage = [t \in Task |-> "new"] /\ outcome = [t \in Task |-> None]
  /\ told = script.told
  /\ answers = [t \in Task |-> 0] /\ handled = {}

-----------------------------------------------------------------------------
(* The connections and the client.                                          *)

\* connnect, and on_accept_connection: without memory the server closes it.
Open(c) ==
  /\ conn[c] = "new" /\ c \in script.conns
  /\ IF free = 0
       THEN conn' = [conn EXCEPT ![c] = "closed"] /\ UNCHANGED <<posted, free>>
       ELSE /\ conn' = [conn EXCEPT ![c] = "open"]
            /\ posted' = posted \cup {c} /\ free' = free - 1
  /\ UNCHANGED <<up, down, job, writing, lost, portVars, m_cid, reported, script,
                 taskVars, answers, handled>>

\* Either end closes the connection, or a read or write on it fails.
Close(c) == /\ conn' = [conn EXCEPT ![c] = "closed"]
            /\ up' = [up EXCEPT ![c] = << >>] /\ down' = [down EXCEPT ![c] = << >>]

Disconnect(c) ==
  /\ conn[c] = "open" /\ c \in script.broken /\ Close(c)
  /\ UNCHANGED <<posted, job, bufVars, portVars, m_cid, reported, script, taskVars,
                 answers, handled>>

\* keep_connect; bounded: nothing else is on its way on the connection.
KeepAlive(c) ==
  LET s == ConnOf[c] IN
  /\ conn[c] = "open" /\ c \in script.alive
  /\ up[c] = << >>
  /\ up' = [up EXCEPT ![c] =
                <<NewCmd("RA_KEEP_ALIVE_REQ",
                         [m_sipproxy_id |-> s, m_sipproxy_fake_id |-> s,
                          m_version |-> script.version[s]])>>]
  /\ UNCHANGED <<conn, down, posted, job, bufVars, portVars, m_cid, reported, script,
                 taskVars, answers, handled>>

\* The fields the API fills in.  StopCallReq's constructor leaves m_user_id as
\* it finds it.
ReqFields(t, word) ==
  LET ask == Ask[t] IN
  [m_sipproxy_id |-> ask.sip, m_sipproxy_fake_id |-> ask.sip,
   m_user_id |-> IF ask.type = "RA_STOP_CALL_REQ" THEN word ELSE ask.user,
   m_portpair |-> told[ask.sip], m_ports |-> told[ask.sip],
   m_call_id |-> ask.call, m_path_info |-> ask.path,
   m_call_type |-> "CT_TRANSFORM", m_version |-> script.version[ask.sip]]

GivesBack == {"RA_FREE_PORTS_REQ", "RA_SIPPROXY_OFFLINE_REQ"}
NeedsPair == {"RA_FREE_PORTS_REQ", "RA_START_CALL_REQ", "RA_STOP_CALL_REQ"}

MayIssue(t) == /\ t \in DOMAIN Ask /\ stage[t] = "new"
               /\ \A u \in script.before[t] : stage[u] = "done"

\* asyn_get_ports, asyn_start_call, ...: RA_BAD_PARAMETER without a pair.
IssueRefused(t) ==
  /\ MayIssue(t) /\ Ask[t].type \in NeedsPair /\ told[Ask[t].sip] = None
  /\ stage' = [stage EXCEPT ![t] = "done"]
  /\ outcome' = [outcome EXCEPT ![t] = "RA_BAD_PARAMETER"]
  /\ UNCHANGED <<conn, up, down, posted, job, bufVars, portVars, m_cid, reported, script,
                 g_cmdid, cmd, told, answers, handled>>

\* dotask: the request leaves on a connection of the SipProxy.  A SipProxy that
\* gives a pair back does not use it again.
Issue(t, c) ==
  LET s == Ask[t].sip IN
  /\ MayIssue(t) /\ conn[c] = "open" /\ ConnOf[c] = s
  /\ Ask[t].type \in NeedsPair => told[s] # None
  /\ g_cmdid' = [g_cmdid EXCEPT ![s] = @ + 1]
  /\ \E word \in HeapWord :
       cmd' = [cmd EXCEPT ![t] = [NewCmd(Ask[t].type, ReqFields(t, word))
                                    EXCEPT !.m_cmd_id = g_cmdid'[s]]]
  /\ up' = [up EXCEPT ![c] = Append(@, cmd'[t])]
  /\ stage' = [stage EXCEPT ![t] = "doing"]
  /\ told' = IF Ask[t].type \in GivesBack
               THEN [told EXCEPT ![s] = None] ELSE told
  /\ UNCHANGED <<conn, down, posted, job, bufVars, portVars, m_cid, reported, script,
                 outcome, answers, handled>>

\* The task's time is over: its callback is given RA_TIMEOUT.
Timeout(t) ==
  /\ stage[t] = "doing" /\ t \in script.late
  /\ stage' = [stage EXCEPT ![t] = "done"]
  /\ outcome' = [outcome EXCEPT ![t] = "RA_TIMEOUT"]
  /\ UNCHANGED <<conn, up, down, posted, job, bufVars, portVars, m_cid, reported, script,
                 g_cmdid, cmd, told, answers, handled>>

\* fetch_doing_task by CmdKey.
Doing(s, resp) == {t \in Task : /\ stage[t] = "doing" /\ Ask[t].sip = s
                                /\ cmd[t].m_cmd_id = resp.m_cmd_id
                                /\ cmd[t].m_passwd = resp.m_passwd}

\* The client's on_read_connection: an error of a call, a late answer, or the
\* callback of the answer's type.
ClientRead(c) ==
  LET s == ConnOf[c]
      resp == Head(down[c])
  IN
  /\ down[c] # << >> /\ down' = [down EXCEPT ![c] = Tail(@)]
  /\ IF resp.m_cmd_type = "RA_ERROR_CALL_RESP"
       THEN UNCHANGED <<stage, outcome, told>>
       ELSE LET tasks == Doing(s, resp)
                ec == IF "m_ec" \in DOMAIN resp THEN resp.m_ec ELSE "RA_SUC"
            IN  /\ stage' = [t \in Task |-> IF t \in tasks THEN "done" ELSE stage[t]]
                /\ outcome' = [t \in Task |-> IF t \in tasks THEN ec ELSE outcome[t]]
                /\ told' = IF /\ resp.m_cmd_type = "RA_GET_PORTS_RESP"
                              /\ tasks # {} /\ ec = "RA_SUC"
                             THEN [told EXCEPT ![s] = resp.m_portpair] ELSE told
  /\ UNCHANGED <<conn, up, posted, job, bufVars, portVars, m_cid, reported, script,
                 g_cmdid, cmd, answers, handled>>

-----------------------------------------------------------------------------
(* The server's reads.                                                      *)

IdleWorker == IF \E w \in Worker : job[w].pc = "idle"
                THEN CHOOSE w \in Worker : job[w].pc = "idle" ELSE None

\* on_read_connection posts the next read and has the command handled; without
\* memory it closes the connection and drops the command.
ReadCommand(w, c) ==
  /\ w = IdleWorker /\ c \in posted /\ up[c] # << >>
  /\ IF free = 0
       THEN /\ Close(c) /\ free' = 1
            /\ posted' = posted \ {c} /\ UNCHANGED job
       ELSE /\ free' = free - 1
            /\ job' = [job EXCEPT ![w] = [pc |-> "handle", conn |-> c, req |-> Head(up[c])]]
            /\ up' = [up EXCEPT ![c] = Tail(@)]
            /\ UNCHANGED <<conn, down, posted>>
  /\ UNCHANGED <<writing, lost, portVars, m_cid, reported, script, taskVars, answers,
                 handled>>

\* A failed read frees its buffer.
ReadFails(c) ==
  /\ conn[c] = "closed" /\ c \in posted
  /\ free' = free + 1 /\ posted' = posted \ {c}
  /\ UNCHANGED <<conn, up, down, job, writing, lost, portVars, m_cid, reported, script,
                 taskVars, answers, handled>>

-----------------------------------------------------------------------------
(* The server's handlers.                                                   *)

Req(w) == job[w].req
Handles(w, type) == job[w].pc = "handle" /\ Req(w).m_cmd_type = type
Conflict(req) == req.m_version # RTPPROXY_VERSION

\* History: the task a request or an answer belongs to.
TaskOf(c, r) == {t \in Task : /\ cmd[t].m_cmd_id # 0 /\ Ask[t].sip = ConnOf[c]
                              /\ cmd[t].m_cmd_id = r.m_cmd_id}
Finished(w) == /\ job' = [job EXCEPT ![w] = Idle]
               /\ handled' = handled \cup TaskOf(job[w].conn, Req(w))

\* Wrong variant: the answer is sent on whatever the connection has become.
DoBackChoresAnyway(c, resp) ==
  /\ writing' = writing + 1
  /\ down' = [down EXCEPT ![c] = Append(@, resp)]
  /\ answers' = [t \in Task |-> answers[t] + (IF t \in TaskOf(c, resp) THEN 1 ELSE 0)]

\* do_back_chores: the answer is written; nothing leaves on a
\* connection that has been closed.
DoBackChores(c, resp) ==
  /\ writing' = writing + 1
  /\ down' = IF conn[c] = "open" THEN [down EXCEPT ![c] = Append(@, resp)] ELSE down
  /\ answers' = [t \in Task |-> answers[t] + (IF t \in TaskOf(c, resp) THEN 1 ELSE 0)]

Reply(w, type, fields) ==
  /\ DoBackChores(job[w].conn, RespTo(Req(w), type, fields))
  /\ Finished(w)
  /\ UNCHANGED <<conn, up, posted, free, lost, reported, script, taskVars>>

Refuse(w, type) ==
  /\ Reply(w, type, [m_ec |-> "RA_VERSION_INCONFORMITY"])
  /\ UNCHANGED <<portVars, m_cid>>

\* get_ports: the pair the user has, or a free one.
DealGetPorts(w) ==
  LET req == Req(w)
      user == <<req.m_sipproxy_id, req.m_user_id>>
      type == "RA_GET_PORTS_RESP"
      choice == LET own == {p \in Pair : holder[p] = user} IN
                IF own # {} THEN own ELSE {p \in Pair : holder[p] = None}
  IN
  /\ Handles(w, "RA_GET_PORTS_REQ")
  /\ \/ Conflict(req) /\ Refuse(w, type)
     \/ /\ ~Conflict(req) /\ choice = {} /\ UNCHANGED <<portVars, m_cid>>
        /\ Reply(w, type, [m_ec |-> "RA_FAIL", m_user_id |-> req.m_user_id])
     \/ /\ ~Conflict(req)
        /\ \E p \in choice :
             /\ holder' = [holder EXCEPT ![p] = user] /\ UNCHANGED <<call_at, m_cid>>
             /\ Reply(w, type, [m_ec |-> "RA_SUC", m_user_id |-> req.m_user_id,
                                m_portpair |-> p])

\* Wrong variant: the pair is freed for any user.
DealFreePortsAny(w) ==
  LET req == Req(w) IN
  /\ Handles(w, "RA_FREE_PORTS_REQ")
  /\ \/ Conflict(req) /\ Refuse(w, "RA_FREE_PORTS_RESP")
     \/ /\ ~Conflict(req)
        /\ holder' = [p \in Pair |-> None]
        /\ UNCHANGED <<call_at, m_cid>>
        /\ Reply(w, "RA_FREE_PORTS_RESP", [m_ec |-> "RA_SUC"])

\* free_ports: success is answered for a pair that is not there as well.
DealFreePorts(w) ==
  LET req == Req(w) IN
  /\ Handles(w, "RA_FREE_PORTS_REQ")
  /\ \/ Conflict(req) /\ Refuse(w, "RA_FREE_PORTS_RESP")
     \/ /\ ~Conflict(req)
        /\ holder' = [p \in Pair |-> IF p = req.m_portpair
                                        /\ holder[p] = <<req.m_sipproxy_id, req.m_user_id>>
                                       THEN None ELSE holder[p]]
        /\ UNCHANGED <<call_at, m_cid>>
        /\ Reply(w, "RA_FREE_PORTS_RESP", [m_ec |-> "RA_SUC"])

\* BuildPathTaskCB::on_build_path answers from a buffer of its own, if it gets
\* one; the buffer of the request is not freed.
CallbackAnswers(w, type, ec) ==
  /\ lost' = lost + 1
  /\ IF free = 0
       THEN UNCHANGED <<down, free, writing, answers>>
       ELSE /\ free' = free - 1
            /\ DoBackChores(job[w].conn,
                            RespTo(Req(w), type,
                                   [m_ec |-> ec, m_path_suc |-> ec = "RA_SUC"]))

\* asyn_start_call: the TransformInfos of an earlier call at the pair stay.  A
\* transit call without paths is never answered.
DealStartCall(w) ==
  LET req == Req(w)
      p == req.m_portpair
      type == "RA_START_CALL_RESP"
  IN
  /\ Handles(w, "RA_START_CALL_REQ")
  /\ \/ Conflict(req) /\ Refuse(w, type)
     \/ /\ ~Conflict(req)
        /\ call_at' = [call_at EXCEPT ![p] = IF @ = None THEN req.m_call_id ELSE @]
        /\ IF req.m_call_type = "CT_TRANSFORM" /\ req.m_path_info = << >>
             THEN /\ lost' = lost + 1
                  /\ UNCHANGED <<down, free, writing, answers>>
             ELSE CallbackAnswers(w, type, "RA_SUC")
        /\ job' = [job EXCEPT ![w].pc = "update"]
        /\ handled' = handled \cup TaskOf(job[w].conn, req)
        /\ UNCHANGED <<conn, up, posted, holder, m_cid, reported, script, taskVars>>

\* ProcessKeepAliveManager::update after asyn_start_call.
UpdateAfterStart(w) ==
  /\ job[w].pc = "update"
  /\ m_cid' = [m_cid EXCEPT ![Req(w).m_sipproxy_id] = job[w].conn]
  /\ job' = [job EXCEPT ![w] = Idle]
  /\ UNCHANGED <<conn, up, down, posted, bufVars, portVars, reported, script, taskVars,
                 answers, handled>>

\* Wrong variant: the handler goes on to the answer of a refused request.
DealBuildPathFallsThrough(w) ==
  LET req == Req(w)
      type == "RA_BUILD_PATH_RESP"
      resp == RespTo(req, type, [m_ec |-> "RA_SUC"])
  IN
  /\ Handles(w, "RA_BUILD_PATH_REQ") /\ free > 0
  /\ free' = free - 1 /\ writing' = writing + 2
  /\ down' = IF conn[job[w].conn] = "open"
               THEN [down EXCEPT ![job[w].conn] = @ \o <<resp, resp>>] ELSE down
  /\ answers' = [t \in Task |-> answers[t] +
                                  (IF t \in TaskOf(job[w].conn, resp) THEN 2 ELSE 0)]
  /\ Finished(w)
  /\ UNCHANGED <<conn, up, posted, lost, portVars, m_cid, reported, script, taskVars>>

\* asyn_build_path.
DealBuildPath(w) ==
  LET req == Req(w)
      type == "RA_BUILD_PATH_RESP"
  IN
  /\ Handles(w, "RA_BUILD_PATH_REQ")
  /\ \/ Conflict(req) /\ Refuse(w, type)
     \/ /\ ~Conflict(req)
        /\ CallbackAnswers(w, type,
                           IF req.m_path_info = << >> THEN "RA_BAD_PARAMETER" ELSE "RA_SUC")
        /\ Finished(w)
        /\ UNCHANGED <<conn, up, posted, portVars, m_cid, reported, script, taskVars>>

\* stop_call, whatever call is at the pair, and update before the answer.
DealStopCall(w) ==
  LET req == Req(w) IN
  /\ Handles(w, "RA_STOP_CALL_REQ")
  /\ \/ Conflict(req) /\ Refuse(w, "RA_STOP_CALL_RESP")
     \/ /\ ~Conflict(req)
        /\ call_at' = [call_at EXCEPT ![req.m_ports] = None] /\ UNCHANGED holder
        /\ m_cid' = [m_cid EXCEPT ![req.m_sipproxy_id] = job[w].conn]
        /\ Reply(w, "RA_STOP_CALL_RESP", [m_ec |-> "RA_SUC"])

\* Wrong variants of deal_keep_alive: the buffer stays; a record is not updated.
DealKeepAliveNotFreed(w) ==
  /\ Handles(w, "RA_KEEP_ALIVE_REQ") /\ Finished(w)
  /\ m_cid' = [m_cid EXCEPT ![Req(w).m_sipproxy_id] = job[w].conn]
  /\ UNCHANGED <<conn, up, down, posted, bufVars, portVars, reported, script,
                 taskVars, answers>>
DealKeepAliveFirst(w) ==
  LET s == Req(w).m_sipproxy_id IN
  /\ Handles(w, "RA_KEEP_ALIVE_REQ") /\ Finished(w)
  /\ m_cid' = [m_cid EXCEPT ![s] = IF @ = None THEN job[w].conn ELSE @]
  /\ free' = free + 1
  /\ UNCHANGED <<conn, up, down, posted, writing, lost, portVars, reported, script,
                 taskVars, answers>>

\* No answer: the buffer is freed.
DealKeepAlive(w) ==
  /\ Handles(w, "RA_KEEP_ALIVE_REQ") /\ Finished(w)
  /\ m_cid' = IF Conflict(Req(w)) THEN m_cid
              ELSE [m_cid EXCEPT ![Req(w).m_sipproxy_id] = job[w].conn]
  /\ free' = free + 1
  /\ UNCHANGED <<conn, up, down, posted, writing, lost, portVars, reported, script,
                 taskVars, answers>>

\* The answer has no code: a client of another version takes it as well.
DealShakeHand(w) ==
  /\ Handles(w, "RA_SHAKE_HAND_REQ")
  /\ Reply(w, "RA_SHAKE_HAND_RESP", [m_remoteAddrs |-> <<1>>])
  /\ UNCHANGED <<portVars, m_cid>>

\* deal_dead_sipproxy.
DealSipproxyOffline(w) ==
  LET req == Req(w)
      held == {p \in Pair : holder[p] # None /\ holder[p][1] = req.m_sipproxy_id}
  IN
  /\ Handles(w, "RA_SIPPROXY_OFFLINE_REQ")
  /\ \/ Conflict(req) /\ Refuse(w, "RA_SIPPROXY_OFFLINE_RESP")
     \/ /\ ~Conflict(req)
        /\ holder' = [p \in Pair |-> IF p \in held THEN None ELSE holder[p]]
        /\ call_at' = [p \in Pair |-> IF p \in held THEN None ELSE call_at[p]]
        /\ UNCHANGED m_cid
        /\ Reply(w, "RA_SIPPROXY_OFFLINE_RESP", [m_ec |-> "RA_SUC"])

\* on_write_connection: the answer's buffer is freed, whether it was written
\* or not.
WriteDone ==
  /\ writing > 0 /\ writing' = writing - 1 /\ free' = free + 1
  /\ UNCHANGED <<conn, up, down, posted, job, lost, portVars, m_cid, reported, script,
                 taskVars, answers, handled>>

\* deal_error_session, when the last path of a call has failed: to the
\* connection its SipProxy was last heard on.
ErrorSession(p) ==
  LET t == call_at[p] IN
  /\ t # None /\ t \notin reported /\ reported' = reported \cup {t}
  /\ IF m_cid[Ask[t].sip] = None \/ free = 0
       THEN UNCHANGED <<down, free, writing, answers>>
       ELSE /\ DoBackChores(m_cid[Ask[t].sip],
                            NewCmd("RA_ERROR_CALL_RESP", [m_call_id |-> t]))
            /\ free' = free - 1
  /\ UNCHANGED <<conn, up, posted, job, lost, portVars, m_cid, script, taskVars, handled>>

-----------------------------------------------------------------------------
Deal(w) ==
  \/ DealGetPorts(w) \/ DealFreePorts(w) \/ DealStartCall(w) \/ UpdateAfterStart(w)
  \/ DealBuildPath(w) \/ DealStopCall(w) \/ DealKeepAlive(w) \/ DealShakeHand(w)
  \/ DealSipproxyOffline(w)

Next ==
  \/ \E c \in Conn : Open(c) \/ Disconnect(c) \/ KeepAlive(c) \/ ClientRead(c)
                     \/ ReadFails(c)
  \/ \E t \in Task : IssueRefused(t) \/ Timeout(t)
  \/ \E t \in Task, c \in Conn : Issue(t, c)
  \/ \E w \in Worker, c \in Conn : ReadCommand(w, c)
  \/ \E w \in Worker : Deal(w)
  \/ WriteDone
  \/ \E p \in Pair : ErrorSession(p)

Spec == Init /\ [][Next]_vars

\* keep_connect runs in every pass of the channel's thread; reads are posted
\* and complete, a worker goes on with what it has begun.
FairSpec ==
  /\ Spec
  /\ \A c \in Conn : WF_vars(KeepAlive(c)) /\ SF_vars(\E w \in Worker : ReadCommand(w, c))
  /\ \A w \in Worker : WF_vars(Deal(w))

-----------------------------------------------------------------------------
Handling == {w \in Worker : job[w].pc = "handle"}

\* user_req_dealer.cpp:202 and 270: the memory of a request is freed when its
\* answer has been sent, or at once.  A buffer is free, posted, with a worker,
\* being written or left by start_call and build_path, and not two of these.
RequestBufferInOnePlace ==
  free + Cardinality(posted) + Cardinality(Handling) + writing + lost = NBuf

\* user_req_dealer.cpp:202: a request's memory is allocated with its read and
\* freed when the answer has been sent.  With no command handled and no answer
\* on its way, what is not free is posted for reading.
MemoryComesBack ==
  (\A w \in Worker : job[w].pc = "idle") /\ writing = 0
    => free + Cardinality(posted) = NBuf

\* A task is answered at most once, by its handler or by its callback.
AnsweredOnce == \A t \in Task : answers[t] <= 1

\* It does not wait for the callback of one before it makes the other.
AsksWhileGivingBack(s) ==
  \E t, u \in DOMAIN Ask :
    /\ Ask[t].sip = s /\ Ask[t].type = "RA_GET_PORTS_REQ" /\ t \notin script.before[u]
    /\ Ask[u].sip = s /\ Ask[u].type \in GivesBack /\ u \notin script.before[t]

\* A pair a SipProxy was told of by this server is kept for it until it gives
\* it back, if no request of the SipProxy has timed out: one that has may come
\* late.  Requests made at once may be handled in any order.
PairIsKept ==
  \A s \in Sip : told[s] # None =>
    \/ holder[told[s]] # None /\ holder[told[s]][1] = s
    \/ script.told[s] # None
    \/ \E t \in DOMAIN Ask : Ask[t].sip = s /\ outcome[t] = "RA_TIMEOUT"
    \/ AsksWhileGivingBack(s)

\* asyn_rtpproxy_client.cpp:276: it is agreed that stop_call follows a call
\* that timed out, so nothing has to be cleaned up.  A start_call and its
\* stop_call that have both been handled leave no call at the pair.
StoppedCallIsDown ==
  \A t, u \in handled :
    Ask[t].type = "RA_START_CALL_REQ" /\ Ask[u].type = "RA_STOP_CALL_REQ"
      /\ Ask[t].call = Ask[u].call => \A p \in Pair : call_at[p] # Ask[t].call

\* The record an error is sent by does not stay on a closed connection while
\* the SipProxy keeps another alive: a late request may put it there, the next
\* keep-alive puts it right.
RecordFollowsConnection ==
  \A s \in Sip : []<>(\/ m_cid[s] # None /\ conn[m_cid[s]] = "open"
                      \/ script.version[s] # RTPPROXY_VERSION
                      \/ \A c \in script.alive : ConnOf[c] = s => conn[c] # "open")
=============================================================================
