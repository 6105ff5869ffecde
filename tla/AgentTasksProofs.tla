-------------------------- MODULE AgentTasksProofs --------------------------
(***************************************************************************)
(* Theorems about AgentTasks for any number of tasks, notifiers, addresses *)
(* and connections.                                                        *)
(***************************************************************************)
EXTENDS AgentTasks, FiniteSetTheorems, SequenceTheorems, TLAPS

USE DEF channelVars, cnnVars, taskVars, queueVars, threadVars, netVars

-----------------------------------------------------------------------------
(* The inductive invariant. *)

HoldsTask == {"init", "get", "doing", "write", "wait", "failed", "put_back"}

\* What a thread's locals are at each label.
Locals ==
  /\ m_connections \in [Group -> SUBSET Cnn]
  /\ \A a \in Actor : pc[a] \in HoldsTask => task[a] \in Task
  /\ \A t \in Task : pc[t] # "idle" => task[t] = t
  /\ \A a \in Actor : pc[a] \in {"doing", "write", "map"} => cnn[a] \in Cnn

\* A channel that is gone has no thread; the groups a pass has still to check
\* are the channel's; a connection just made is known to its group only.
ChannelInv ==
  /\ chan = "none" => pc[Manager] = "idle"
  /\ Running => chan \in {"none", "live"}
  /\ Running /\ chan = "none" => m_id_channels = {}
  /\ todo \subseteq m_con_groups
  /\ pc[Manager] \notin {"check", "map"} => todo = {}
  /\ Running /\ pc[Manager] = "map" =>
       /\ cnn[Manager] \notin m_id_channels
       /\ cnn[Manager] \in m_connections[GroupOf[cnn[Manager]]]
       /\ GroupOf[cnn[Manager]] \in todo

\* A task has one spot: the queue, the table of tasks being done, one thread's
\* hands, or its callback has been told.  While the agent runs it has a spot.
Distinct ==
  \A i, j \in 1 .. Len(m_wait_tasks) : m_wait_tasks[i] = m_wait_tasks[j] => i = j
SpotOf(t) ==
  /\ notified[t] \in {0, 1}
  /\ t \in Waiting => t \notin m_doing_tasks /\ notified[t] = 0
  /\ t \in m_doing_tasks => notified[t] = 0
  /\ \A a \in Actor : t \in Held(a) =>
       /\ t \notin Waiting /\ t \notin m_doing_tasks /\ notified[t] = 0
       /\ \A b \in Actor : t \in Held(b) => a = b
  /\ Running => \/ t \in Waiting \/ t \in m_doing_tasks \/ notified[t] = 1
                \/ \E a \in Actor : t \in Held(a)
Spots == Distinct /\ \A t \in Task : SpotOf(t)

\* The queue, and the task the manager took out of its head, are in the order
\* of the first arrivals.
Before(s, t, u) == \E k, l \in 1 .. Len(s) : k < l /\ s[k] = t /\ s[l] = u
In(s, t) == \E k \in 1 .. Len(s) : s[k] = t
InFront == pc[Manager] \in {"get", "put_back"}
Order ==
  /\ WaitInOrder
  /\ \A i \in 1 .. Len(m_wait_tasks) : In(arrival, m_wait_tasks[i])
  /\ InFront => In(arrival, task[Manager])
  /\ InFront => \A i \in 1 .. Len(m_wait_tasks) : Before(arrival, task[Manager], m_wait_tasks[i])

IInv == TypeOK /\ Locals /\ ChannelInv /\ ConnectionsLead /\ Spots /\ Order

-----------------------------------------------------------------------------
(* What get_cnn may choose. *)

CnnOrNone == Cnn \cup {None}

LEMMA ACnnType ==
  ASSUME Locals, NEW g \in Group
  PROVE  ACnn(g) \subseteq CnnOrNone
BY DEF Locals, ACnn, CnnOrNone

LEMMA FirstType ==
  ASSUME TypeOK, Locals, NEW t \in Task, NEW first \in FirstChoices(t)
  PROVE  first \in CnnOrNone \X SUBSET Group
<1>1. CASE first = <<None, m_used_addrs[t]>>
  BY <1>1 DEF TypeOK, CnnOrNone
<1>2. CASE first = <<None, {}>>
  BY <1>2 DEF CnnOrNone
<1>3. CASE \E g \in m_con_groups : first \in ACnn(g) \X {{g}}
  <2>1. PICK g \in m_con_groups : first \in ACnn(g) \X {{g}}
    BY <1>3
  <2>2. g \in Group /\ ACnn(g) \subseteq CnnOrNone
    BY ACnnType DEF TypeOK
  <2> QED
    BY <2>1, <2>2
<1> QED
  BY <1>1, <1>2, <1>3 DEF FirstChoices

LEMMA OtherType ==
  ASSUME TypeOK, Locals, NEW first \in CnnOrNone \X SUBSET Group,
         NEW other \in OtherChoices(first)
  PROVE  other \in CnnOrNone \X SUBSET Group
<1>1. CASE other = first
  BY <1>1
<1>2. CASE \E g \in m_con_groups : other \in ACnn(g) \X {first[2] \cup {g}}
  <2>1. PICK g \in m_con_groups : other \in ACnn(g) \X {first[2] \cup {g}}
    BY <1>2
  <2>2. g \in Group /\ ACnn(g) \subseteq CnnOrNone
    BY ACnnType DEF TypeOK
  <2>3. first[2] \cup {g} \in SUBSET Group
    BY <2>2
  <2> QED
    BY <2>1, <2>2, <2>3
<1> QED
  BY <1>1, <1>2 DEF OtherChoices

LEMMA LastType ==
  ASSUME TypeOK, Locals, NEW other \in CnnOrNone \X SUBSET Group,
         NEW last \in LastChoices(other)
  PROVE  last \in CnnOrNone \X SUBSET Group
<1>1. CASE last = other
  BY <1>1
<1>2. CASE \E g \in m_con_groups : last \in ACnn(g) \X {other[2] \cup {g}}
  <2>1. PICK g \in m_con_groups : last \in ACnn(g) \X {other[2] \cup {g}}
    BY <1>2
  <2>2. g \in Group /\ ACnn(g) \subseteq CnnOrNone
    BY ACnnType DEF TypeOK
  <2>3. other[2] \cup {g} \in SUBSET Group
    BY <2>2
  <2> QED
    BY <2>1, <2>2, <2>3
<1> QED
  BY <1>1, <1>2 DEF LastChoices

\* A connection or none, addresses of the RtpProxy, a flag.
LEMMA ChoiceType ==
  ASSUME TypeOK, Locals, NEW t \in Task, NEW choice \in GetCnn(t)
  PROVE  /\ choice[1] \in CnnOrNone
         /\ choice[2] \in SUBSET Group
         /\ choice[3] \in BOOLEAN
<1>1. CASE choice = <<None, m_used_addrs[t], m_tried_all[t]>>
  BY <1>1 DEF TypeOK, CnnOrNone
<1>2. CASE \E first \in FirstChoices(t) : \E other \in OtherChoices(first) :
             \E last \in LastChoices(other) :
               choice = <<last[1], last[2], m_tried_all[t] \/ TriedAll(other)>>
  <2>a. PICK first \in FirstChoices(t) : \E other \in OtherChoices(first) :
             \E last \in LastChoices(other) :
               choice = <<last[1], last[2], m_tried_all[t] \/ TriedAll(other)>>
    BY <1>2
  <2>b. PICK other \in OtherChoices(first) : \E last \in LastChoices(other) :
               choice = <<last[1], last[2], m_tried_all[t] \/ TriedAll(other)>>
    BY <2>a
  <2>1. PICK last \in LastChoices(other) :
               choice = <<last[1], last[2], m_tried_all[t] \/ TriedAll(other)>>
    BY <2>b
  <2>2. first \in CnnOrNone \X SUBSET Group
    BY FirstType
  <2>3. other \in CnnOrNone \X SUBSET Group
    BY <2>2, OtherType
  <2>4. last \in CnnOrNone \X SUBSET Group
    BY <2>3, LastType
  <2>5. (m_tried_all[t] \/ TriedAll(other)) \in BOOLEAN
    OBVIOUS
  <2> QED
    BY <2>1, <2>4, <2>5
<1>3. \/ choice = <<None, m_used_addrs[t], m_tried_all[t]>>
      \/ choice \in UNION {{<<last[1], last[2], m_tried_all[t] \/ TriedAll(other)>> :
                 last \in LastChoices(other)} :
              other \in UNION {OtherChoices(first) : first \in FirstChoices(t)}}
  BY DEF GetCnn
<1> QED
  BY <1>1, <1>2, <1>3

-----------------------------------------------------------------------------
(* Types. *)

LEMMA InitInv == Init => IInv
<1> SUFFICES ASSUME Init PROVE IInv
  OBVIOUS
<1> USE GroupAssumption, ActorAssumption, FailedAssumption, NullAssumption DEF Init
<1>0. Manager \in Actor /\ Task \subseteq Actor
  BY DEF Actor
<1>1. TypeOK
  <2>1. pc \in [Actor -> Label] /\ task \in [Actor -> Task \cup {None}]
        /\ cnn \in [Actor -> Cnn \cup {None}]
    BY DEF Actor, Label
  <2>2. m_failed_time \in [Group -> 0 .. MAX_CON_FAILED_TIME - 1]
    OBVIOUS
  <2>3. m_wait_tasks \in Seq(Task) /\ arrival \in Seq(Task)
    OBVIOUS
  <2>4. m_used_addrs \in [Task -> SUBSET Group] /\ m_tried_all \in [Task -> BOOLEAN]
        /\ notified \in [Task -> Nat]
    OBVIOUS
  <2>5. m_has_tried_to_connect \in [Group -> BOOLEAN]
    OBVIOUS
  <2> QED
    BY <2>1, <2>2, <2>3, <2>4, <2>5 DEF TypeOK
<1>2. Locals
  BY <1>0 DEF Locals, HoldsTask, Actor
<1>3. ChannelInv /\ ConnectionsLead
  BY <1>0 DEF ChannelInv, ConnectionsLead, Running
<1>4. Len(m_wait_tasks) = 0
  OBVIOUS
<1>5. Spots
  <2>1. Distinct /\ Waiting = {}
    BY <1>4 DEF Distinct, Waiting
  <2>2. ASSUME NEW a \in Actor PROVE Held(a) = {a} \cap Task
    BY DEF Held, Actor
  <2> QED
    BY <2>1, <2>2, <1>0 DEF Spots, SpotOf
<1>6. Order
  BY <1>0, <1>4 DEF Order, WaitInOrder, InFront
<1> QED
  BY <1>1, <1>2, <1>3, <1>5, <1>6 DEF IInv

\* Every step keeps the types and the locals.
LEMMA TypeStep ==
  ASSUME TypeOK, Locals, Next
  PROVE  TypeOK' /\ Locals'
<1> USE GroupAssumption, ActorAssumption, FailedAssumption, NullAssumption
<1>0. Manager \in Actor /\ Task \subseteq Actor /\ Notifier \subseteq Actor
  BY DEF Actor
<1>N. ASSUME NEW S, Notify(S) PROVE notified' \in [Task -> Nat]
  BY <1>N DEF Notify, TypeOK
<1>L. ASSUME NEW a \in Actor, Leave(a)
      PROVE  /\ pc' \in [Actor -> Label] /\ task' \in [Actor -> Task \cup {None}]
             /\ cnn' \in [Actor -> Cnn \cup {None}]
             /\ pc'[a] \in {"fetch", "idle"} /\ (a # Manager => pc'[a] = "idle")
             /\ \A b \in Actor \ {a} : pc'[b] = pc[b] /\ task'[b] = task[b] /\ cnn'[b] = cnn[b]
  BY <1>L DEF Leave, Goto, Rest, TypeOK, Label
<1>M. ASSUME NEW a \in Actor, Leave(a), m_connections' = m_connections PROVE Locals'
  BY <1>L, <1>M, <1>0 DEF Locals, HoldsTask
<1>G. ASSUME NEW a \in Actor, NEW label \in Label, Goto(a, label)
      PROVE  /\ pc' \in [Actor -> Label] /\ pc'[a] = label
             /\ \A b \in Actor \ {a} : pc'[b] = pc[b]
  BY <1>G DEF Goto, TypeOK
<1>R. ASSUME NEW a \in Actor, Refuse(a) PROVE TypeOK' /\ Locals'
  BY <1>R, <1>L, <1>M, <1>N DEF Refuse, TypeOK
<1>1. ASSUME NEW a \in Actor, InitChannel(a) PROVE TypeOK' /\ Locals'
  <2>1. CASE Refuse(a)
    BY <2>1, <1>R
  <2>2. CASE ~Refuse(a)
    <3>1. Goto(a, "get") /\ pc[a] = "init"
      BY <1>1, <2>2 DEF InitChannel
    <3>2. pc' \in [Actor -> Label] /\ pc'[a] = "get" /\ \A b \in Actor \ {a} : pc'[b] = pc[b]
      BY <3>1, <1>G DEF Label
    <3>3. /\ chan' \in {"none", "live", "taken"} /\ {m_failed', m_shaked'} \subseteq BOOLEAN
          /\ m_con_groups' \subseteq Group
          /\ m_has_tried_to_connect' \in [Group -> BOOLEAN]
          /\ m_failed_time' \in [Group -> 0 .. MAX_CON_FAILED_TIME - 1]
      <4>1. CASE NewChannel
        <5>1. [g \in Group |-> 0] \in [Group -> 0 .. MAX_CON_FAILED_TIME - 1]
          OBVIOUS
        <5>2. [g \in Group |-> FALSE] \in [Group -> BOOLEAN]
          OBVIOUS
        <5> QED
          BY <4>1, <5>1, <5>2 DEF NewChannel
      <4>2. CASE UNCHANGED channelVars
        BY <4>2 DEF TypeOK
      <4> QED
        BY <1>1, <2>2, <4>1, <4>2 DEF InitChannel
    <3>4. UNCHANGED <<stage, cnnVars, queueVars, taskVars, expired, task, cnn,
                       todo, netVars, notified, arrival, reported>>
      BY <1>1, <2>2 DEF InitChannel
    <3>5. TypeOK'
      BY <3>2, <3>3, <3>4 DEF TypeOK
    <3>6. Locals'
      BY <3>1, <3>2, <3>4, <1>0 DEF Locals, HoldsTask
    <3> QED
      BY <3>5, <3>6
  <2> QED
    BY <2>1, <2>2
<1>C. ASSUME NEW t \in Task, NEW choice \in GetCnn(t), Remember(t, choice)
      PROVE  /\ m_used_addrs' \in [Task -> SUBSET Group]
             /\ m_tried_all' \in [Task -> BOOLEAN]
             /\ choice[1] \in Cnn \cup {None}
  BY <1>C, ChoiceType DEF Remember, TypeOK, CnnOrNone
<1>2. ASSUME NEW a \in Actor, GetConId(a) PROVE TypeOK' /\ Locals'
  <2>1. CASE Refuse(a)
    BY <2>1, <1>R
  <2>2. CASE ~Refuse(a)
    <3>0. task[a] \in Task /\ pc[a] = "get"
      BY <1>2 DEF GetConId, Locals, HoldsTask
    <3>1. PICK choice \in GetCnn(task[a]) :
             /\ Remember(task[a], choice)
             /\ IF choice[1] # None
                  THEN /\ Goto(a, "doing") /\ cnn' = [cnn EXCEPT ![a] = choice[1]]
                       /\ UNCHANGED <<task, notified>>
                ELSE IF a \in Task
                  THEN Goto(a, "wait") /\ UNCHANGED <<task, cnn, notified>>
                ELSE Leave(a) /\ Notify({task[a]})
      BY <1>2, <2>2 DEF GetConId
    <3>2. UNCHANGED <<stage, channelVars, cnnVars, queueVars, expired, todo,
                       netVars, arrival, reported>>
      BY <1>2, <2>2 DEF GetConId
    <3>3. /\ m_used_addrs' \in [Task -> SUBSET Group] /\ m_tried_all' \in [Task -> BOOLEAN]
          /\ choice[1] \in Cnn \cup {None}
      BY <3>0, <3>1, <1>C
    <3>4. CASE choice[1] # None
      <4>1. pc' \in [Actor -> Label] /\ pc'[a] = "doing"
            /\ \A b \in Actor \ {a} : pc'[b] = pc[b]
        BY <3>1, <3>4, <1>G DEF Label
      <4>2. cnn' = [cnn EXCEPT ![a] = choice[1]] /\ UNCHANGED <<task, notified>>
        BY <3>1, <3>4
      <4>3. cnn' \in [Actor -> Cnn \cup {None}] /\ cnn'[a] \in Cnn
            /\ \A b \in Actor \ {a} : cnn'[b] = cnn[b]
        BY <4>2, <3>3, <3>4 DEF TypeOK
      <4>4. TypeOK'
        BY <3>2, <3>3, <4>1, <4>2, <4>3 DEF TypeOK
      <4>5. Locals'
        BY <3>0, <3>2, <4>1, <4>2, <4>3, <1>0 DEF Locals, HoldsTask
      <4> QED
        BY <4>4, <4>5
    <3>5. CASE choice[1] = None /\ a \in Task
      <4>1. pc' \in [Actor -> Label] /\ pc'[a] = "wait"
            /\ \A b \in Actor \ {a} : pc'[b] = pc[b]
        BY <3>1, <3>5, <1>G DEF Label
      <4>2. UNCHANGED <<task, cnn, notified>>
        BY <3>1, <3>5
      <4>4. TypeOK'
        BY <3>2, <3>3, <4>1, <4>2 DEF TypeOK
      <4>5. Locals'
        BY <3>0, <3>2, <4>1, <4>2, <1>0 DEF Locals, HoldsTask
      <4> QED
        BY <4>4, <4>5
    <3>6. CASE choice[1] = None /\ a \notin Task
      BY <3>1, <3>2, <3>3, <3>6, <1>L, <1>M, <1>N DEF TypeOK
    <3> QED
      BY <3>4, <3>5, <3>6
  <2> QED
    BY <2>1, <2>2
<1>3. ASSUME NEW a \in Actor, AddDoing(a) PROVE TypeOK' /\ Locals'
  <2>0. pc[a] = "doing" /\ task[a] \in Task
    BY <1>3 DEF AddDoing, Locals, HoldsTask
  <2>1. pc' \in [Actor -> Label] /\ pc'[a] = "write" /\ \A b \in Actor \ {a} : pc'[b] = pc[b]
    BY <1>3, <1>G DEF AddDoing, Label
  <2>2. TypeOK'
    BY <1>3, <2>0, <2>1 DEF AddDoing, TypeOK
  <2>3. Locals'
    BY <1>3, <2>0, <2>1, <1>0 DEF AddDoing, Locals, HoldsTask
  <2> QED
    BY <2>2, <2>3
<1>4. ASSUME NEW a \in Actor, WriteCnn(a) PROVE TypeOK' /\ Locals'
  <2>0. task[a] \in Task /\ cnn[a] \in Cnn
    BY <1>4 DEF WriteCnn, Locals, HoldsTask
  <2>1. writing' \subseteq Task \X Cnn /\ asked' \subseteq Task
    BY <1>4, <2>0 DEF WriteCnn, TypeOK
  <2>2. Leave(a)
    BY <1>4 DEF WriteCnn
  <2> QED
    BY <1>4, <2>1, <2>2, <1>L, <1>M DEF WriteCnn, TypeOK
<1>5. ASSUME NEW t \in Task, AddWaiting(t) PROVE TypeOK' /\ Locals'
  <2>1. CASE Refuse(t)
    BY <2>1, <1>R, <1>0
  <2>2. CASE ~Refuse(t)
    <3>1. Leave(t) /\ t \in Actor
      BY <1>5, <2>2, <1>0 DEF AddWaiting
    <3>2. m_wait_tasks' \in Seq(Task) /\ arrival' \in Seq(Task)
      <4>1. m_wait_tasks' = Append(m_wait_tasks, t) /\ arrival' = Append(arrival, t)
        BY <1>5, <2>2 DEF AddWaiting
      <4>2. m_wait_tasks \in Seq(Task) /\ arrival \in Seq(Task)
        BY DEF TypeOK
      <4> QED
        BY <4>1, <4>2, AppendProperties
    <3> QED
      BY <1>5, <2>2, <3>1, <3>2, <1>L, <1>M DEF AddWaiting, TypeOK
  <2> QED
    BY <2>1, <2>2
<1>6. ASSUME StartPass PROVE TypeOK' /\ Locals'
  <2>1. pc' \in [Actor -> Label] /\ pc'[Manager] = "check"
        /\ \A b \in Actor \ {Manager} : pc'[b] = pc[b]
    BY <1>6, <1>0, <1>G DEF StartPass, Label
  <2>2. TypeOK'
    BY <1>6, <2>1 DEF StartPass, TypeOK
  <2>3. Locals'
    BY <1>6, <2>1, <1>0 DEF StartPass, Locals, HoldsTask
  <2> QED
    BY <2>2, <2>3
<1>7. ASSUME NEW g \in Group, Connect(g) PROVE TypeOK' /\ Locals'
  <2>1. pc' \in [Actor -> Label] /\ pc'[Manager] = "map"
        /\ \A b \in Actor \ {Manager} : pc'[b] = pc[b]
    BY <1>7, <1>0, <1>G DEF Connect, Label
  <2>2. PICK c \in Cnn : /\ GroupOf[c] = g /\ Fresh(c)
                         /\ m_connections' = [m_connections EXCEPT ![g] = {c}]
                         /\ cnn' = [cnn EXCEPT ![Manager] = c]
    BY <1>7 DEF Connect
  <2>3. cnn' \in [Actor -> Cnn \cup {None}] /\ cnn'[Manager] \in Cnn
        /\ \A b \in Actor \ {Manager} : cnn'[b] = cnn[b]
    BY <2>2, <1>0 DEF TypeOK
  <2>4. m_connections' \in [Group -> SUBSET Cnn]
    BY <2>2 DEF Locals
  <2>5. \A h \in Group : m_connections'[h] \subseteq {d \in Cnn : GroupOf[d] = h}
    BY <2>2 DEF TypeOK, Locals
  <2>6. TypeOK'
    BY <1>7, <2>1, <2>3, <2>5 DEF Connect, TypeOK
  <2>7. Locals'
    BY <1>7, <2>1, <2>3, <2>4, <1>0 DEF Connect, Locals, HoldsTask
  <2> QED
    BY <2>6, <2>7
<1>8. ASSUME AddIdChannels PROVE TypeOK' /\ Locals'
  <2>1. pc' \in [Actor -> Label] /\ pc'[Manager] = "check"
        /\ \A b \in Actor \ {Manager} : pc'[b] = pc[b]
    BY <1>8, <1>0, <1>G DEF AddIdChannels, Label
  <2>2. cnn[Manager] \in Cnn
    BY <1>8, <1>0 DEF AddIdChannels, Locals
  <2>3. cnn' \in [Actor -> Cnn \cup {None}] /\ \A b \in Actor \ {Manager} : cnn'[b] = cnn[b]
    BY <1>8, <1>0 DEF AddIdChannels, TypeOK
  <2>4. TypeOK'
    BY <1>8, <2>1, <2>2, <2>3 DEF AddIdChannels, TypeOK
  <2>5. Locals'
    BY <1>8, <2>1, <2>3, <1>0 DEF AddIdChannels, Locals, HoldsTask
  <2> QED
    BY <2>4, <2>5
<1>9. ASSUME NEW g \in Group, CheckGroup(g) PROVE TypeOK' /\ Locals'
  <2>1. m_failed_time' \in [Group -> 0 .. MAX_CON_FAILED_TIME - 1]
    <3>1. m_failed_time[g] \in 0 .. MAX_CON_FAILED_TIME - 1
      BY DEF TypeOK
    <3>2. PICK n : /\ m_failed_time' = [m_failed_time EXCEPT ![g] = n]
                   /\ \/ n = 0
                      \/ n = m_failed_time[g] + 1 /\ m_failed_time[g] # MAX_CON_FAILED_TIME - 1
      BY <1>9 DEF CheckGroup
    <3>3. n \in 0 .. MAX_CON_FAILED_TIME - 1
      BY <3>1, <3>2
    <3> QED
      BY <3>2, <3>3 DEF TypeOK
  <2>2. m_has_tried_to_connect' \in [Group -> BOOLEAN]
    BY <1>9 DEF CheckGroup, TypeOK
  <2>3. TypeOK'
    BY <1>9, <2>1, <2>2 DEF CheckGroup, TypeOK
  <2>4. Locals'
    BY <1>9 DEF CheckGroup, Locals
  <2> QED
    BY <2>3, <2>4
<1>10. ASSUME CheckFailed PROVE TypeOK' /\ Locals'
  <2>1. pc' \in [Actor -> Label] /\ pc'[Manager] \in {"idle", "fetch"}
        /\ \A b \in Actor \ {Manager} : pc'[b] = pc[b]
    BY <1>10, <1>0, <1>G DEF CheckFailed, Label
  <2>2. TypeOK'
    BY <1>10, <2>1 DEF CheckFailed, TypeOK
  <2>3. Locals'
    BY <1>10, <2>1, <1>0 DEF CheckFailed, Locals, HoldsTask
  <2> QED
    BY <2>2, <2>3
<1>H. ASSUME m_wait_tasks # << >>
      PROVE  Head(m_wait_tasks) \in Task /\ Tail(m_wait_tasks) \in Seq(Task)
  BY <1>H DEF TypeOK
<1>11. ASSUME FetchWaiting PROVE TypeOK' /\ Locals'
  <2>0. UNCHANGED <<stage, channelVars, cnnVars, m_doing_tasks, taskVars, expired, cnn,
                    todo, netVars, arrival, reported>>
    BY <1>11 DEF FetchWaiting
  <2>1. CASE m_wait_tasks = << >>
    <3>1. pc' \in [Actor -> Label] /\ pc'[Manager] = "idle"
          /\ \A b \in Actor \ {Manager} : pc'[b] = pc[b]
      BY <1>11, <2>1, <1>0, <1>G DEF FetchWaiting, Label
    <3>2. UNCHANGED <<m_wait_tasks, task, notified>>
      BY <1>11, <2>1 DEF FetchWaiting
    <3>3. TypeOK'
      BY <2>0, <3>1, <3>2 DEF TypeOK
    <3>4. Locals'
      BY <2>0, <3>1, <3>2, <1>0 DEF Locals, HoldsTask
    <3> QED
      BY <3>3, <3>4
  <2>2. CASE m_wait_tasks # << >> /\ Head(m_wait_tasks) \in expired
    <3>1. m_wait_tasks' \in Seq(Task) /\ notified' \in [Task -> Nat] /\ UNCHANGED <<pc, task>>
      BY <1>11, <2>2, <1>H, <1>N DEF FetchWaiting
    <3>3. TypeOK'
      BY <2>0, <3>1 DEF TypeOK
    <3>4. Locals'
      BY <2>0, <3>1 DEF Locals
    <3> QED
      BY <3>3, <3>4
  <2>3. CASE m_wait_tasks # << >> /\ Head(m_wait_tasks) \notin expired
    <3>1. pc' \in [Actor -> Label] /\ pc'[Manager] = "get"
          /\ \A b \in Actor \ {Manager} : pc'[b] = pc[b]
      BY <1>11, <2>3, <1>0, <1>G DEF FetchWaiting, Label
    <3>2. m_wait_tasks' \in Seq(Task) /\ UNCHANGED notified
          /\ task' = [task EXCEPT ![Manager] = Head(m_wait_tasks)]
          /\ Head(m_wait_tasks) \in Task
      BY <1>11, <2>3, <1>H DEF FetchWaiting
    <3>5. task' \in [Actor -> Task \cup {None}] /\ task'[Manager] \in Task
          /\ \A b \in Actor \ {Manager} : task'[b] = task[b]
      BY <3>2, <1>0 DEF TypeOK
    <3>3. TypeOK'
      BY <2>0, <3>1, <3>2, <3>5 DEF TypeOK
    <3>4. Locals'
      BY <2>0, <3>1, <3>5, <1>0 DEF Locals, HoldsTask
    <3> QED
      BY <3>3, <3>4
  <2> QED
    BY <2>1, <2>2, <2>3
<1>12. ASSUME ManagerGetCnn PROVE TypeOK' /\ Locals'
  <2>0. pc[Manager] = "get" /\ task[Manager] \in Task
    BY <1>12, <1>0 DEF ManagerGetCnn, Locals, HoldsTask
  <2>1. PICK choice \in GetCnn(task[Manager]) :
          /\ Remember(task[Manager], choice)
          /\ cnn' = [cnn EXCEPT ![Manager] = choice[1]]
          /\ Goto(Manager, IF choice[1] = None THEN "put_back" ELSE "doing")
    BY <1>12 DEF ManagerGetCnn
  <2>2. /\ m_used_addrs' \in [Task -> SUBSET Group] /\ m_tried_all' \in [Task -> BOOLEAN]
        /\ choice[1] \in Cnn \cup {None}
    BY <2>0, <2>1, <1>C
  <2>3. /\ pc' \in [Actor -> Label] /\ \A b \in Actor \ {Manager} : pc'[b] = pc[b]
        /\ \/ choice[1] = None /\ pc'[Manager] = "put_back"
           \/ choice[1] # None /\ pc'[Manager] = "doing"
    <3>1. CASE choice[1] = None
      <4>1. Goto(Manager, "put_back")
        BY <2>1, <3>1
      <4> QED
        BY <3>1, <4>1, <1>0, <1>G DEF Label
    <3>2. CASE choice[1] # None
      <4>1. Goto(Manager, "doing")
        BY <2>1, <3>2
      <4> QED
        BY <3>2, <4>1, <1>0, <1>G DEF Label
    <3> QED
      BY <3>1, <3>2
  <2>4. cnn' \in [Actor -> Cnn \cup {None}] /\ cnn'[Manager] = choice[1]
        /\ \A b \in Actor \ {Manager} : cnn'[b] = cnn[b]
    BY <2>1, <2>2, <1>0 DEF TypeOK
  <2>5. TypeOK'
    BY <1>12, <2>2, <2>3, <2>4 DEF ManagerGetCnn, TypeOK
  <2>6. Locals'
    BY <1>12, <2>0, <2>2, <2>3, <2>4, <1>0 DEF ManagerGetCnn, Locals, HoldsTask
  <2> QED
    BY <2>5, <2>6
<1>13. ASSUME PutBack PROVE TypeOK' /\ Locals'
  <2>0. task[Manager] \in Task
    BY <1>13, <1>0 DEF PutBack, Locals, HoldsTask
  <2>1. pc' \in [Actor -> Label] /\ pc'[Manager] = "idle"
        /\ \A b \in Actor \ {Manager} : pc'[b] = pc[b]
    BY <1>13, <1>0, <1>G DEF PutBack, Label
  <2>2. m_wait_tasks' \in Seq(Task)
    BY <1>13, <2>0 DEF PutBack, TypeOK
  <2>3. task' \in [Actor -> Task \cup {None}] /\ \A b \in Actor \ {Manager} : task'[b] = task[b]
    BY <1>13 DEF PutBack, TypeOK
  <2>4. TypeOK'
    BY <1>13, <2>1, <2>2, <2>3 DEF PutBack, TypeOK
  <2>5. Locals'
    BY <1>13, <2>1, <2>3, <1>0 DEF PutBack, Locals, HoldsTask
  <2> QED
    BY <2>4, <2>5
<1>S. ASSUME NEW n \in Notifier, NEW c \in Cnn, ServeQueue(n, c), pc[n] = "idle",
             m_connections' = m_connections
      PROVE  /\ pc' \in [Actor -> Label] /\ task' \in [Actor -> Task \cup {None}]
             /\ cnn' \in [Actor -> Cnn \cup {None}] /\ m_wait_tasks' \in Seq(Task)
             /\ Locals'
  <2>1. CASE UNCHANGED <<m_wait_tasks, task, cnn, pc>>
    BY <2>1, <1>S DEF TypeOK, Locals
  <2>2. CASE ~UNCHANGED <<m_wait_tasks, task, cnn, pc>>
    <3>1. m_wait_tasks' \in Seq(Task) /\ Head(m_wait_tasks) \in Task
      BY <1>S, <2>2, <1>H DEF ServeQueue
    <3>2. task' \in [Actor -> Task \cup {None}] /\ task'[n] \in Task
          /\ \A b \in Actor \ {n} : task'[b] = task[b]
      BY <1>S, <2>2, <3>1, <1>0 DEF ServeQueue, TypeOK
    <3>3. cnn' \in [Actor -> Cnn \cup {None}] /\ cnn'[n] \in Cnn
          /\ \A b \in Actor \ {n} : cnn'[b] = cnn[b]
      <4>1. cnn' = [cnn EXCEPT ![n] = c] /\ cnn \in [Actor -> Cnn \cup {None}] /\ n \in Actor
        BY <1>S, <2>2, <1>0 DEF ServeQueue, TypeOK
      <4> QED
        BY <4>1
    <3>4. pc' \in [Actor -> Label] /\ pc'[n] = "doing" /\ \A b \in Actor \ {n} : pc'[b] = pc[b]
      BY <1>S, <2>2, <1>0, <1>G DEF ServeQueue, Label
    <3>5. Locals'
      BY <1>S, <3>2, <3>3, <3>4, <1>0 DEF Locals, HoldsTask
    <3> QED
      BY <3>1, <3>2, <3>3, <3>4, <3>5
  <2> QED
    BY <2>1, <2>2
<1>14. ASSUME NEW n \in Notifier, NEW t \in Task, NEW c \in Cnn, WriteSucceeds(n, t, c)
       PROVE  TypeOK' /\ Locals'
  BY <1>14, <1>S DEF WriteSucceeds, TypeOK
<1>15. ASSUME NEW n \in Notifier, NEW c \in Cnn, KeepAliveSucceeds(n, c)
       PROVE  TypeOK' /\ Locals'
  BY <1>15, <1>S DEF KeepAliveSucceeds, TypeOK
<1>V. ASSUME NEW c \in Cnn, RemoveCnn(c) \/ UNCHANGED cnnVars
      PROVE  /\ m_id_channels' \subseteq Cnn /\ m_connections' \in [Group -> SUBSET Cnn]
             /\ \A h \in Group : m_connections'[h] \subseteq {d \in Cnn : GroupOf[d] = h}
  <2>1. CASE UNCHANGED cnnVars
    BY <2>1 DEF TypeOK, Locals
  <2>2. CASE ~UNCHANGED cnnVars
    <3>1. /\ m_id_channels' = m_id_channels \ {c}
          /\ m_connections' = [m_connections EXCEPT ![GroupOf[c]] = @ \ {c}]
      BY <1>V, <2>2 DEF RemoveCnn
    <3>2. m_connections \in [Group -> SUBSET Cnn] /\ GroupOf[c] \in Group
      BY DEF Locals
    <3>3. /\ m_connections' \in [Group -> SUBSET Cnn]
          /\ \A h \in Group : m_connections'[h] \subseteq m_connections[h]
      BY <3>1, <3>2
    <3> QED
      BY <3>1, <3>3 DEF TypeOK
  <2> QED
    BY <2>1, <2>2
<1>16. ASSUME NEW n \in Notifier, NEW t \in Task, NEW c \in Cnn, WriteFails(n, t, c)
       PROVE  TypeOK' /\ Locals'
  <2>1. pc' \in [Actor -> Label] /\ pc'[n] = "failed" /\ \A b \in Actor \ {n} : pc'[b] = pc[b]
    BY <1>16, <1>0, <1>G DEF WriteFails, Label
  <2>2. task' \in [Actor -> Task \cup {None}] /\ task'[n] \in Task
        /\ \A b \in Actor \ {n} : task'[b] = task[b]
    BY <1>16, <1>0 DEF WriteFails, TypeOK
  <2>3. /\ m_id_channels' \subseteq Cnn /\ m_connections' \in [Group -> SUBSET Cnn]
        /\ \A h \in Group : m_connections'[h] \subseteq {d \in Cnn : GroupOf[d] = h}
    BY <1>16, <1>V DEF WriteFails
  <2>4. TypeOK'
    BY <1>16, <2>1, <2>2, <2>3 DEF WriteFails, TypeOK
  <2>5. Locals'
    BY <1>16, <2>1, <2>2, <2>3, <1>0 DEF WriteFails, Locals, HoldsTask
  <2> QED
    BY <2>4, <2>5
<1>17. ASSUME NEW n \in Notifier, FetchDoing(n) PROVE TypeOK' /\ Locals'
  <2>0. task[n] \in Task /\ n \in Actor /\ n # Manager
    BY <1>17, <1>0 DEF FetchDoing, Locals, HoldsTask
  <2>1. CASE Goto(n, "init") /\ UNCHANGED <<task, cnn, notified, reported>>
    <3>1. pc' \in [Actor -> Label] /\ pc'[n] = "init" /\ \A b \in Actor \ {n} : pc'[b] = pc[b]
      BY <2>0, <2>1, <1>G DEF Label
    <3>2. TypeOK'
      BY <1>17, <2>1, <3>1 DEF FetchDoing, TypeOK
    <3>3. Locals'
      BY <1>17, <2>0, <2>1, <3>1, <1>0 DEF FetchDoing, Locals, HoldsTask
    <3> QED
      BY <3>2, <3>3
  <2>2. CASE Leave(n) /\ UNCHANGED <<notified, reported>>
    BY <1>17, <2>0, <2>2, <1>L, <1>M DEF FetchDoing, TypeOK
  <2>3. CASE reported' = reported \cup {task[n]} /\ Notify({task[n]}) /\ Leave(n)
    BY <1>17, <2>0, <2>3, <1>L, <1>M, <1>N DEF FetchDoing, TypeOK
  <2> QED
    BY <1>17, <2>1, <2>2, <2>3 DEF FetchDoing
<1>18. ASSUME NEW t \in Task, Respond(t) PROVE TypeOK' /\ Locals'
  BY <1>18, <1>N DEF Respond, TypeOK, Locals
<1>19. ASSUME NEW t \in Task, Expire(t) PROVE TypeOK' /\ Locals'
  BY <1>19 DEF Expire, TypeOK, Locals
<1>20. ASSUME NEW c \in Cnn, Disconnect(c) PROVE TypeOK' /\ Locals'
  <2>1. /\ m_id_channels' \subseteq Cnn /\ m_connections' \in [Group -> SUBSET Cnn]
        /\ \A h \in Group : m_connections'[h] \subseteq {d \in Cnn : GroupOf[d] = h}
    BY <1>20, <1>V DEF Disconnect
  <2> QED
    BY <1>20, <2>1 DEF Disconnect, TypeOK, Locals
<1>21. ASSUME ShakeHand PROVE TypeOK' /\ Locals'
  BY <1>21 DEF ShakeHand, TypeOK, Locals
<1>22. ASSUME CheckWaiting PROVE TypeOK' /\ Locals'
  <2>0. UNCHANGED <<stage, channelVars, cnnVars, m_doing_tasks, taskVars, expired,
                    threadVars, netVars, arrival, reported>>
    BY <1>22 DEF CheckWaiting
  <2>1. m_wait_tasks' \in Seq(Task)
    <3> DEFINE kept == {i \in 1 .. Len(m_wait_tasks) : m_wait_tasks[i] \notin expired}
    <3>1. PICK place \in [1 .. Cardinality(kept) -> kept] :
            m_wait_tasks' = [i \in DOMAIN place |-> m_wait_tasks[place[i]]]
      BY <1>22 DEF CheckWaiting
    <3>2. IsFiniteSet(kept)
      <4>1. Len(m_wait_tasks) \in Nat
        BY LenProperties DEF TypeOK
      <4>2. IsFiniteSet(1 .. Len(m_wait_tasks))
        BY <4>1, FS_Interval
      <4> QED
        BY <4>2, FS_Subset
    <3>3. Cardinality(kept) \in Nat
      BY <3>2, FS_CardinalityType
    <3>4. \A i \in 1 .. Cardinality(kept) : m_wait_tasks[place[i]] \in Task
      <4>1. \A i \in 1 .. Len(m_wait_tasks) : m_wait_tasks[i] \in Task
        BY ElementOfSeq DEF TypeOK
      <4>2. \A i \in 1 .. Cardinality(kept) : place[i] \in 1 .. Len(m_wait_tasks)
        OBVIOUS
      <4> QED
        BY <4>1, <4>2
    <3> HIDE DEF kept
    <3> QED
      BY <3>1, <3>3, <3>4, IsASeq
  <2>2. notified' \in [Task -> Nat]
    BY <1>22, <1>N DEF CheckWaiting
  <2> QED
    BY <2>0, <2>1, <2>2 DEF TypeOK, Locals
<1>23. ASSUME CheckDoing PROVE TypeOK' /\ Locals'
  BY <1>23, <1>N DEF CheckDoing, TypeOK, Locals
<1>D. ASSUME DestroyChannel
      PROVE  /\ m_wait_tasks' \in Seq(Task) /\ m_connections' \in [Group -> SUBSET Cnn]
             /\ \A h \in Group : m_connections'[h] \subseteq {d \in Cnn : GroupOf[d] = h}
             /\ chan' = "none"
  BY <1>D DEF DestroyChannel
<1>24. ASSUME DeleteFailed PROVE TypeOK' /\ Locals'
  BY <1>24, <1>D, <1>N DEF DeleteFailed, TypeOK, Locals
<1>25. ASSUME StopFlag PROVE TypeOK' /\ Locals'
  BY <1>25 DEF StopFlag, TypeOK, Locals
<1>26. ASSUME StopTake PROVE TypeOK' /\ Locals'
  BY <1>26 DEF StopTake, TypeOK, Locals
<1>27. ASSUME StopDelete PROVE TypeOK' /\ Locals'
  <2>1. CASE DestroyChannel
    BY <1>27, <2>1, <1>D DEF StopDelete, TypeOK, Locals
  <2>2. CASE UNCHANGED <<chan, m_connections, m_wait_tasks>>
    BY <1>27, <2>2 DEF StopDelete, TypeOK, Locals
  <2> QED
    BY <1>27, <2>1, <2>2 DEF StopDelete
<1>28. ASSUME StopClear PROVE TypeOK' /\ Locals'
  BY <1>28, <1>N DEF StopClear, TypeOK, Locals
<1> QED
  BY <1>0, <1>1, <1>2, <1>3, <1>4, <1>5, <1>6, <1>7, <1>8, <1>9, <1>10, <1>11, <1>12,
     <1>13, <1>14, <1>15, <1>16, <1>17, <1>18, <1>19, <1>20, <1>21, <1>22, <1>23, <1>24,
     <1>25, <1>26, <1>27, <1>28
  DEF Next, Call, Work, ManagerStep, NotifierStep, Report, Environment, Stop

-----------------------------------------------------------------------------
(* Steps of a thread. *)

LEMMA Threads == Manager \in Actor /\ Task \subseteq Actor /\ Notifier \subseteq Actor
                 /\ Manager \notin Task /\ Manager \notin Notifier /\ Task \cap Notifier = {}
BY ActorAssumption DEF Actor

LEMMA GotoStep ==
  ASSUME TypeOK, NEW a \in Actor, NEW label, Goto(a, label)
  PROVE  pc'[a] = label /\ \A b \in Actor : b # a => pc'[b] = pc[b]
BY DEF Goto, TypeOK

LEMMA LeaveStep ==
  ASSUME TypeOK, NEW a \in Actor, Leave(a)
  PROVE  /\ pc'[a] = Rest(a) /\ task'[a] = None /\ cnn'[a] = None
         /\ \A b \in Actor : b # a => pc'[b] = pc[b] /\ task'[b] = task[b] /\ cnn'[b] = cnn[b]
BY DEF Leave, Goto, TypeOK

LEMMA HeldOne ==
  ASSUME TypeOK, Locals, NEW a \in Actor,
         pc[a] \in {"init", "get", "doing", "wait", "put_back"}
  PROVE  Held(a) = {task[a]} /\ task[a] \in Task
<1>1. task[a] \in Task
  BY DEF Locals, HoldsTask
<1> QED
  BY <1>1, NullAssumption DEF Held

LEMMA HeldLeave ==
  ASSUME TypeOK, NEW a \in Actor, Leave(a)
  PROVE  Held(a)' = {} /\ \A b \in Actor : b # a => Held(b)' = Held(b)
BY LeaveStep DEF Held, Rest

-----------------------------------------------------------------------------
(* The channel and its connections. *)

\* A step that leaves the channel, the groups and the manager's place.
LEMMA ChannelQuiet ==
  ASSUME ChannelInv, ConnectionsLead,
         UNCHANGED <<stage, chan, m_con_groups, cnnVars, todo>>,
         pc'[Manager] = pc[Manager], cnn'[Manager] = cnn[Manager]
  PROVE  ChannelInv' /\ ConnectionsLead'
BY DEF ChannelInv, ConnectionsLead, Running

\* A step of the manager from a label with nothing to check to another.
LEMMA ChannelServe ==
  ASSUME ChannelInv, ConnectionsLead,
         UNCHANGED <<stage, chan, m_con_groups, cnnVars, todo>>,
         pc[Manager] # "idle", todo = {}, pc'[Manager] # "map"
  PROVE  ChannelInv' /\ ConnectionsLead'
BY DEF ChannelInv, ConnectionsLead, Running

\* A connection is removed, or the agent is stopping.
LEMMA ChannelRemove ==
  ASSUME TypeOK, Locals, ChannelInv, ConnectionsLead, NEW c \in Cnn,
         RemoveCnn(c) \/ UNCHANGED cnnVars,
         UNCHANGED <<stage, chan, m_con_groups, todo>>,
         pc'[Manager] = pc[Manager], cnn'[Manager] = cnn[Manager]
  PROVE  ChannelInv' /\ ConnectionsLead'
<1>1. CASE UNCHANGED cnnVars
  BY <1>1, ChannelQuiet
<1>2. CASE ~UNCHANGED cnnVars
  <2>1. /\ Running /\ c \in m_id_channels /\ m_id_channels' = m_id_channels \ {c}
        /\ m_connections' = [m_connections EXCEPT ![GroupOf[c]] = @ \ {c}]
    BY <1>2 DEF RemoveCnn
  <2>2. \A g \in Group : \A d \in Cnn : d # c /\ d \in m_connections[g] => d \in m_connections'[g]
    BY <2>1, GroupAssumption DEF Locals
  <2>3. \A d \in Cnn : GroupOf[d] \in Group
    BY GroupAssumption
  <2>4. pc[Manager] = "map" => cnn[Manager] \in Cnn
    BY Threads DEF Locals
  <2>5. ChannelInv'
    BY <2>1, <2>2, <2>3, <2>4 DEF ChannelInv, Running
  <2>6. ConnectionsLead'
    BY <2>1, <2>2, <2>3 DEF ConnectionsLead, Running, TypeOK
  <2> QED
    BY <2>5, <2>6
<1> QED
  BY <1>1, <1>2

LEMMA ChannelStep ==
  ASSUME TypeOK, Locals, ChannelInv, ConnectionsLead, Next
  PROVE  ChannelInv' /\ ConnectionsLead'
<1> USE Threads
<1>R. ASSUME NEW a \in Actor, a # Manager, Refuse(a) PROVE ChannelInv' /\ ConnectionsLead'
  BY <1>R, LeaveStep, ChannelQuiet DEF Refuse
<1>1. ASSUME NEW a \in Actor, a # Manager, InitChannel(a)
      PROVE  ChannelInv' /\ ConnectionsLead'
  <2>1. CASE Refuse(a)
    BY <2>1, <1>1, <1>R
  <2>2. CASE ~Refuse(a)
    <3>1. /\ Running /\ Goto(a, "get")
          /\ IF chan = "none" THEN NewChannel ELSE UNCHANGED channelVars
          /\ UNCHANGED <<stage, cnnVars, cnn, todo>>
      BY <1>1, <2>2 DEF InitChannel
    <3>2. pc'[Manager] = pc[Manager] /\ cnn'[Manager] = cnn[Manager]
      BY <3>1, <1>1, GotoStep
    <3>3. CASE chan = "none"
      BY <3>1, <3>2, <3>3 DEF NewChannel, ChannelInv, ConnectionsLead, Running
    <3>4. CASE chan # "none"
      BY <3>1, <3>2, <3>4, ChannelQuiet
    <3> QED
      BY <3>3, <3>4
  <2> QED
    BY <2>1, <2>2
<1>2. ASSUME NEW a \in Actor, GetConId(a) PROVE ChannelInv' /\ ConnectionsLead'
  <2>1. CASE Refuse(a)
    BY <2>1, <1>2, <1>R DEF GetConId
  <2>2. CASE ~Refuse(a)
    <3>1. UNCHANGED <<stage, chan, m_con_groups, cnnVars, todo>> /\ a # Manager
      BY <1>2, <2>2 DEF GetConId
    <3>2. PICK choice \in GetCnn(task[a]) :
             IF choice[1] # None
               THEN /\ Goto(a, "doing") /\ cnn' = [cnn EXCEPT ![a] = choice[1]]
                    /\ UNCHANGED <<task, notified>>
             ELSE IF a \in Task
               THEN Goto(a, "wait") /\ UNCHANGED <<task, cnn, notified>>
             ELSE Leave(a) /\ Notify({task[a]})
      BY <1>2, <2>2 DEF GetConId
    <3>3. pc'[Manager] = pc[Manager]
      BY <3>1, <3>2, GotoStep, LeaveStep
    <3>4. cnn'[Manager] = cnn[Manager]
      BY <3>1, <3>2, LeaveStep DEF TypeOK
    <3> QED
      BY <3>1, <3>3, <3>4, ChannelQuiet
  <2> QED
    BY <2>1, <2>2
<1>3. ASSUME NEW a \in Actor, AddDoing(a) PROVE ChannelInv' /\ ConnectionsLead'
  <2>1. CASE a = Manager
    <3>1. pc'[Manager] = "write" /\ pc[Manager] = "doing"
      BY <1>3, <2>1, GotoStep DEF AddDoing
    <3> QED
      BY <1>3, <3>1, ChannelServe DEF AddDoing, ChannelInv
  <2>2. CASE a # Manager
    BY <1>3, <2>2, GotoStep, ChannelQuiet DEF AddDoing
  <2> QED
    BY <2>1, <2>2
<1>4. ASSUME NEW a \in Actor, WriteCnn(a) PROVE ChannelInv' /\ ConnectionsLead'
  <2>0. Leave(a)
    BY <1>4 DEF WriteCnn
  <2>1. CASE a = Manager
    <3>1. pc'[Manager] = "fetch" /\ pc[Manager] = "write"
      BY <1>4, <2>0, <2>1, LeaveStep DEF WriteCnn, Rest
    <3> QED
      BY <1>4, <3>1, ChannelServe DEF WriteCnn, ChannelInv
  <2>2. CASE a # Manager
    BY <1>4, <2>0, <2>2, LeaveStep, ChannelQuiet DEF WriteCnn
  <2> QED
    BY <2>1, <2>2
<1>5. ASSUME NEW t \in Task, AddWaiting(t) PROVE ChannelInv' /\ ConnectionsLead'
  <2>1. CASE Refuse(t)
    BY <2>1, <1>R
  <2>2. CASE ~Refuse(t)
    BY <1>5, <2>2, LeaveStep, ChannelQuiet DEF AddWaiting
  <2> QED
    BY <2>1, <2>2
<1>6. ASSUME StartPass PROVE ChannelInv' /\ ConnectionsLead'
  <2>1. pc'[Manager] = "check"
    BY <1>6, GotoStep DEF StartPass
  <2> QED
    BY <1>6, <2>1 DEF StartPass, ChannelInv, ConnectionsLead, Running
<1>7. ASSUME NEW g \in Group, Connect(g) PROVE ChannelInv' /\ ConnectionsLead'
  <2>1. pc'[Manager] = "map" /\ pc[Manager] = "check"
    BY <1>7, GotoStep DEF Connect
  <2>2. PICK c \in Cnn : /\ GroupOf[c] = g /\ Fresh(c)
                         /\ m_connections' = [m_connections EXCEPT ![g] = {c}]
                         /\ cnn' = [cnn EXCEPT ![Manager] = c]
    BY <1>7 DEF Connect
  <2>3. cnn'[Manager] = c
    BY <2>2 DEF TypeOK
  <2>4. c \in m_connections'[g] /\ \A h \in Group : m_connections[h] \subseteq m_connections'[h]
    BY <1>7, <2>2 DEF Connect, Locals
  <2>5. c \notin m_id_channels
    BY <2>2 DEF Fresh
  <2>6. ChannelInv'
    BY <1>7, <2>1, <2>2, <2>3, <2>4, <2>5 DEF Connect, ChannelInv, Running
  <2>7. ConnectionsLead'
    BY <1>7, <2>4, GroupAssumption DEF Connect, ConnectionsLead, Running, TypeOK
  <2> QED
    BY <2>6, <2>7
<1>8. ASSUME AddIdChannels PROVE ChannelInv' /\ ConnectionsLead'
  <2>1. pc'[Manager] = "check" /\ pc[Manager] = "map" /\ cnn[Manager] \in Cnn
    BY <1>8, GotoStep DEF AddIdChannels, Locals
  <2> QED
    BY <1>8, <2>1 DEF AddIdChannels, ChannelInv, ConnectionsLead, Running
<1>9. ASSUME NEW g \in Group, CheckGroup(g) PROVE ChannelInv' /\ ConnectionsLead'
  <2>1. \/ m_con_groups' = m_con_groups
        \/ m_con_groups' = m_con_groups \ {g} /\ m_connections[g] = {}
    BY <1>9 DEF CheckGroup
  <2>2. pc[Manager] = "check" /\ todo' = todo \ {g} /\ UNCHANGED <<stage, chan, cnnVars, pc>>
    BY <1>9 DEF CheckGroup
  <2> QED
    BY <2>1, <2>2 DEF ChannelInv, ConnectionsLead, Running
<1>10. ASSUME CheckFailed PROVE ChannelInv' /\ ConnectionsLead'
  <2>1. pc'[Manager] \in {"idle", "fetch"} /\ pc[Manager] = "check"
    BY <1>10, GotoStep DEF CheckFailed
  <2> QED
    BY <1>10, <2>1, ChannelServe DEF CheckFailed
<1>11. ASSUME FetchWaiting PROVE ChannelInv' /\ ConnectionsLead'
  <2>1. pc'[Manager] \in {"idle", "fetch", "get"} /\ pc[Manager] = "fetch"
    BY <1>11, GotoStep DEF FetchWaiting
  <2> QED
    BY <1>11, <2>1, ChannelServe DEF FetchWaiting, ChannelInv
<1>12. ASSUME ManagerGetCnn PROVE ChannelInv' /\ ConnectionsLead'
  <2>1. PICK label \in {"put_back", "doing"} : Goto(Manager, label)
    BY <1>12 DEF ManagerGetCnn
  <2>2. pc'[Manager] \in {"put_back", "doing"} /\ pc[Manager] = "get"
    BY <1>12, <2>1, GotoStep DEF ManagerGetCnn
  <2> QED
    BY <1>12, <2>2, ChannelServe DEF ManagerGetCnn, ChannelInv
<1>13. ASSUME PutBack PROVE ChannelInv' /\ ConnectionsLead'
  <2>1. pc'[Manager] = "idle" /\ pc[Manager] = "put_back"
    BY <1>13, GotoStep DEF PutBack
  <2> QED
    BY <1>13, <2>1, ChannelServe DEF PutBack, ChannelInv
<1>S. ASSUME NEW n \in Notifier, NEW c \in Cnn, ServeQueue(n, c),
             UNCHANGED <<stage, chan, m_con_groups, cnnVars, todo>>
      PROVE  ChannelInv' /\ ConnectionsLead'
  <2>1. CASE UNCHANGED <<m_wait_tasks, task, cnn, pc>>
    BY <1>S, <2>1, ChannelQuiet
  <2>2. CASE ~UNCHANGED <<m_wait_tasks, task, cnn, pc>>
    <3>1. Goto(n, "doing") /\ cnn' = [cnn EXCEPT ![n] = c] /\ n # Manager
      BY <1>S, <2>2 DEF ServeQueue
    <3>2. cnn'[Manager] = cnn[Manager]
      BY <3>1 DEF TypeOK
    <3> QED
      BY <1>S, <3>1, <3>2, GotoStep, ChannelQuiet
  <2> QED
    BY <2>1, <2>2
<1>14. ASSUME NEW n \in Notifier, NEW t \in Task, NEW c \in Cnn, WriteSucceeds(n, t, c)
       PROVE  ChannelInv' /\ ConnectionsLead'
  BY <1>14, <1>S DEF WriteSucceeds
<1>15. ASSUME NEW n \in Notifier, NEW c \in Cnn, KeepAliveSucceeds(n, c)
       PROVE  ChannelInv' /\ ConnectionsLead'
  BY <1>15, <1>S DEF KeepAliveSucceeds
<1>16. ASSUME NEW n \in Notifier, NEW t \in Task, NEW c \in Cnn, WriteFails(n, t, c)
       PROVE  ChannelInv' /\ ConnectionsLead'
  <2>1. Goto(n, "failed") /\ n # Manager /\ UNCHANGED <<stage, chan, m_con_groups, todo, cnn>>
        /\ (RemoveCnn(c) \/ UNCHANGED cnnVars)
    BY <1>16 DEF WriteFails
  <2>2. pc'[Manager] = pc[Manager]
    BY <2>1, GotoStep
  <2> QED
    BY <2>1, <2>2, ChannelRemove
<1>17. ASSUME NEW n \in Notifier, FetchDoing(n) PROVE ChannelInv' /\ ConnectionsLead'
  <2>1. CASE Goto(n, "init") /\ UNCHANGED cnn
    BY <1>17, <2>1, GotoStep, ChannelQuiet DEF FetchDoing
  <2>2. CASE Leave(n)
    BY <1>17, <2>2, LeaveStep, ChannelQuiet DEF FetchDoing
  <2> QED
    BY <1>17, <2>1, <2>2 DEF FetchDoing
<1>18. ASSUME NEW t \in Task, Respond(t) PROVE ChannelInv' /\ ConnectionsLead'
  BY <1>18, ChannelQuiet DEF Respond
<1>19. ASSUME NEW t \in Task, Expire(t) PROVE ChannelInv' /\ ConnectionsLead'
  BY <1>19, ChannelQuiet DEF Expire
<1>20. ASSUME NEW c \in Cnn, Disconnect(c) PROVE ChannelInv' /\ ConnectionsLead'
  BY <1>20, ChannelRemove DEF Disconnect
<1>21. ASSUME ShakeHand PROVE ChannelInv' /\ ConnectionsLead'
  <2>1. m_con_groups \subseteq Group /\ m_con_groups' = Group
    BY <1>21 DEF ShakeHand, TypeOK
  <2>2. UNCHANGED <<stage, chan, cnnVars, todo, pc, cnn>>
    BY <1>21 DEF ShakeHand
  <2> QED
    BY <2>1, <2>2, GroupAssumption DEF ChannelInv, ConnectionsLead, Running, TypeOK
<1>22. ASSUME CheckWaiting PROVE ChannelInv' /\ ConnectionsLead'
  BY <1>22, ChannelQuiet DEF CheckWaiting
<1>23. ASSUME CheckDoing PROVE ChannelInv' /\ ConnectionsLead'
  BY <1>23, ChannelQuiet DEF CheckDoing
<1>24. ASSUME DeleteFailed PROVE ChannelInv' /\ ConnectionsLead'
  BY <1>24 DEF DeleteFailed, DestroyChannel, ChannelInv, ConnectionsLead, Running
<1>25. ASSUME StopFlag PROVE ChannelInv' /\ ConnectionsLead'
  BY <1>25 DEF StopFlag, ChannelInv, ConnectionsLead, Running
<1>26. ASSUME StopTake PROVE ChannelInv' /\ ConnectionsLead'
  BY <1>26 DEF StopTake, ChannelInv, ConnectionsLead, Running
<1>27. ASSUME StopDelete PROVE ChannelInv' /\ ConnectionsLead'
  BY <1>27 DEF StopDelete, DestroyChannel, ChannelInv, ConnectionsLead, Running
<1>28. ASSUME StopClear PROVE ChannelInv' /\ ConnectionsLead'
  BY <1>28 DEF StopClear, ChannelInv, ConnectionsLead, Running
<1> QED
  BY <1>1, <1>2, <1>3, <1>4, <1>5, <1>6, <1>7, <1>8, <1>9, <1>10, <1>11, <1>12,
     <1>13, <1>14, <1>15, <1>16, <1>17, <1>18, <1>19, <1>20, <1>21, <1>22, <1>23, <1>24,
     <1>25, <1>26, <1>27, <1>28
  DEF Next, Call, Work, ManagerStep, NotifierStep, Report, Environment, Stop

-----------------------------------------------------------------------------
(* The queue. *)

QLen == Len(m_wait_tasks)

LEMMA QueueType ==
  ASSUME TypeOK
  PROVE  /\ QLen \in Nat /\ \A i \in 1 .. QLen : m_wait_tasks[i] \in Task
         /\ Waiting = {m_wait_tasks[i] : i \in 1 .. QLen}
         /\ Waiting \subseteq Task
BY LenProperties, ElementOfSeq DEF TypeOK, QLen, Waiting

LEMMA QueueTail ==
  ASSUME TypeOK, Distinct, m_wait_tasks # << >>, m_wait_tasks' = Tail(m_wait_tasks)
  PROVE  /\ Head(m_wait_tasks) = m_wait_tasks[1] /\ QLen \in Nat \ {0}
         /\ QLen' = QLen - 1 /\ \A i \in 1 .. QLen' : m_wait_tasks'[i] = m_wait_tasks[i + 1]
         /\ Distinct' /\ Head(m_wait_tasks) \in Waiting
         /\ Waiting' = Waiting \ {Head(m_wait_tasks)}
<1>1. m_wait_tasks \in Seq(Task)
  BY DEF TypeOK
<1>2. /\ QLen \in Nat \ {0} /\ QLen' = QLen - 1
      /\ \A i \in 1 .. QLen' : m_wait_tasks'[i] = m_wait_tasks[i + 1]
  BY <1>1, HeadTailProperties, EmptySeq DEF QLen
<1>3. Head(m_wait_tasks) = m_wait_tasks[1]
  BY <1>1
<1>4. Distinct'
  BY <1>2 DEF Distinct, QLen
<1>5. Waiting' = {m_wait_tasks[i + 1] : i \in 1 .. QLen - 1}
  BY <1>2 DEF Waiting, QLen
<1>6. Waiting' = Waiting \ {m_wait_tasks[1]}
  <2>1. ASSUME NEW t \in Waiting' PROVE t \in Waiting \ {m_wait_tasks[1]}
    <3>1. PICK i \in 1 .. QLen - 1 : t = m_wait_tasks[i + 1]
      BY <1>5, <2>1
    <3>2. i + 1 \in 1 .. QLen /\ i + 1 # 1 /\ 1 \in 1 .. QLen
      BY <1>2
    <3> QED
      BY <3>1, <3>2 DEF Waiting, QLen, Distinct
  <2>2. ASSUME NEW t \in Waiting, t # m_wait_tasks[1] PROVE t \in Waiting'
    <3>1. PICK i \in 1 .. QLen : t = m_wait_tasks[i]
      BY DEF Waiting, QLen
    <3>2. i - 1 \in 1 .. QLen - 1 /\ m_wait_tasks[(i - 1) + 1] = t
      BY <1>2, <2>2, <3>1
    <3> QED
      BY <1>5, <3>2
  <2> QED
    BY <2>1, <2>2
<1>7. m_wait_tasks[1] \in Waiting
  BY <1>2 DEF Waiting, QLen
<1> QED
  BY <1>2, <1>3, <1>4, <1>6, <1>7

LEMMA QueueAppend ==
  ASSUME TypeOK, Distinct, NEW t \in Task, t \notin Waiting,
         m_wait_tasks' = Append(m_wait_tasks, t)
  PROVE  /\ QLen \in Nat /\ QLen' = QLen + 1
         /\ \A i \in 1 .. QLen : m_wait_tasks'[i] = m_wait_tasks[i]
         /\ m_wait_tasks'[QLen + 1] = t
         /\ Distinct' /\ Waiting' = Waiting \cup {t}
<1>1. m_wait_tasks \in Seq(Task)
  BY DEF TypeOK
<1>2. /\ QLen \in Nat /\ QLen' = QLen + 1
      /\ \A i \in 1 .. QLen : m_wait_tasks'[i] = m_wait_tasks[i]
      /\ m_wait_tasks'[QLen + 1] = t
  BY <1>1, AppendProperties, LenProperties DEF QLen
<1>3. \A i \in 1 .. QLen : m_wait_tasks[i] # t
  BY DEF Waiting, QLen
<1>4. Distinct'
  BY <1>2, <1>3 DEF Distinct, QLen
<1>5. \A i \in 1 .. QLen + 1 : i \in 1 .. QLen \/ i = QLen + 1
  BY <1>2
<1>6. 1 .. QLen \subseteq 1 .. QLen + 1 /\ QLen + 1 \in 1 .. QLen + 1
  BY <1>2
<1>7. Waiting = {m_wait_tasks[i] : i \in 1 .. QLen}
      /\ Waiting' = {m_wait_tasks'[i] : i \in 1 .. QLen + 1}
  BY <1>2 DEF Waiting, QLen
<1>8. Waiting' = Waiting \cup {t}
  BY <1>2, <1>5, <1>6, <1>7
<1> QED
  BY <1>2, <1>4, <1>8

LEMMA QueueFront ==
  ASSUME TypeOK, Distinct, NEW t \in Task, t \notin Waiting,
         m_wait_tasks' = <<t>> \o m_wait_tasks
  PROVE  /\ QLen \in Nat /\ QLen' = QLen + 1
         /\ m_wait_tasks'[1] = t
         /\ \A i \in 1 .. QLen : m_wait_tasks'[i + 1] = m_wait_tasks[i]
         /\ Distinct' /\ Waiting' = Waiting \cup {t}
<1>1. m_wait_tasks \in Seq(Task) /\ <<t>> \in Seq(Task) /\ Len(<<t>>) = 1
  BY DEF TypeOK
<1>2. /\ QLen \in Nat /\ QLen' = QLen + 1 /\ m_wait_tasks'[1] = t
      /\ \A i \in 1 .. QLen : m_wait_tasks'[i + 1] = m_wait_tasks[i]
  <2>1. QLen \in Nat
    BY <1>1, LenProperties DEF QLen
  <2> QED
    BY <1>1, <2>1 DEF QLen
<1>3. \A i \in 1 .. QLen : m_wait_tasks[i] # t
  BY DEF Waiting, QLen
<1>5. \A i \in 1 .. QLen + 1 : i = 1 \/ \E j \in 1 .. QLen : i = j + 1
  <2>1. ASSUME NEW i \in 1 .. QLen + 1, i # 1 PROVE i - 1 \in 1 .. QLen /\ i = (i - 1) + 1
    BY <1>2, <2>1
  <2> QED
    BY <2>1
<1>4. Distinct'
  <2> SUFFICES ASSUME NEW i \in 1 .. QLen + 1, NEW j \in 1 .. QLen + 1,
                      m_wait_tasks'[i] = m_wait_tasks'[j]
               PROVE  i = j
    BY <1>2 DEF Distinct, QLen
  <2>1. CASE i = 1
    BY <2>1, <1>2, <1>3, <1>5
  <2>2. CASE j = 1
    BY <2>2, <1>2, <1>3, <1>5
  <2>3. CASE i # 1 /\ j # 1
    <3>1. PICK k \in 1 .. QLen, l \in 1 .. QLen : i = k + 1 /\ j = l + 1
      BY <2>3, <1>5
    <3>2. m_wait_tasks[k] = m_wait_tasks[l]
      BY <3>1, <1>2
    <3> QED
      BY <3>1, <3>2 DEF Distinct, QLen
  <2> QED
    BY <2>1, <2>2, <2>3
<1>6. 1 \in 1 .. QLen + 1 /\ \A j \in 1 .. QLen : j + 1 \in 1 .. QLen + 1
  BY <1>2
<1>7. Waiting = {m_wait_tasks[i] : i \in 1 .. QLen}
      /\ Waiting' = {m_wait_tasks'[i] : i \in 1 .. QLen + 1}
  BY <1>2 DEF Waiting, QLen
<1>8. Waiting' = Waiting \cup {t}
  <2>1. ASSUME NEW u \in Waiting' PROVE u \in Waiting \cup {t}
    <3>1. PICK i \in 1 .. QLen + 1 : u = m_wait_tasks'[i]
      BY <1>7
    <3>2. CASE i = 1
      BY <3>1, <3>2, <1>2
    <3>3. ASSUME NEW j \in 1 .. QLen, i = j + 1 PROVE u \in Waiting
      BY <3>1, <3>3, <1>2, <1>7
    <3> QED
      BY <3>2, <3>3, <1>5
  <2>2. t \in Waiting'
    BY <1>2, <1>6, <1>7
  <2>3. ASSUME NEW u \in Waiting PROVE u \in Waiting'
    <3>1. PICK j \in 1 .. QLen : u = m_wait_tasks[j]
      BY <1>7
    <3> QED
      BY <3>1, <1>2, <1>6, <1>7
  <2> QED
    BY <2>1, <2>2, <2>3
<1> QED
  BY <1>2, <1>4, <1>8

\* What a timeout leaves of the queue, as a map of places.
Kept == {i \in 1 .. QLen : m_wait_tasks[i] \notin expired}
LEMMA QueueExpired ==
  ASSUME TypeOK, Distinct, CheckWaiting
  PROVE  /\ QLen \in Nat /\ QLen' \in Nat
         /\ \E place \in [1 .. QLen' -> 1 .. QLen] :
              /\ \A i, j \in 1 .. QLen' : i < j => place[i] < place[j]
              /\ \A i \in 1 .. QLen' : m_wait_tasks'[i] = m_wait_tasks[place[i]]
         /\ Distinct' /\ Waiting' = Waiting \ expired
<1>0. QLen \in Nat
  BY QueueType
<1>1. PICK place \in [1 .. Cardinality(Kept) -> Kept] :
        /\ {place[i] : i \in DOMAIN place} = Kept
        /\ \A i, j \in DOMAIN place : i < j => place[i] < place[j]
        /\ m_wait_tasks' = [i \in DOMAIN place |-> m_wait_tasks[place[i]]]
  BY DEF CheckWaiting, Kept, QLen
<1>2. Cardinality(Kept) \in Nat
  <2>1. IsFiniteSet(1 .. QLen) /\ Kept \subseteq 1 .. QLen
    BY <1>0, FS_Interval DEF Kept
  <2> QED
    BY <2>1, FS_Subset, FS_CardinalityType
<1>3. DOMAIN place = 1 .. Cardinality(Kept)
  OBVIOUS
<1>4. QLen' = Cardinality(Kept)
  <2>1. \A i \in 1 .. Cardinality(Kept) : m_wait_tasks[place[i]] \in Task
    BY QueueType DEF Kept
  <2>2. m_wait_tasks' \in Seq(Task) /\ DOMAIN m_wait_tasks' = 1 .. Cardinality(Kept)
    BY <1>1, <1>2, <1>3, <2>1, IsASeq
  <2> QED
    BY <1>2, <2>2, LenProperties DEF QLen
<1>5. place \in [1 .. QLen' -> 1 .. QLen]
  BY <1>4 DEF Kept
<1>6. \A i \in 1 .. QLen' : m_wait_tasks'[i] = m_wait_tasks[place[i]]
  BY <1>1, <1>3, <1>4
<1>7. \A i, j \in 1 .. QLen' : i < j => place[i] < place[j]
  BY <1>1, <1>3, <1>4
<1>8. Distinct'
  <2> SUFFICES ASSUME NEW i \in 1 .. QLen', NEW j \in 1 .. QLen',
                      m_wait_tasks'[i] = m_wait_tasks'[j]
               PROVE  i = j
    BY DEF Distinct, QLen
  <2>1. place[i] = place[j]
    <3>1. place[i] \in 1 .. QLen /\ place[j] \in 1 .. QLen
      BY <1>5
    <3>2. m_wait_tasks[place[i]] = m_wait_tasks[place[j]]
      BY <1>6
    <3> QED
      BY <3>1, <3>2 DEF Distinct, QLen
  <2>2. i \in Int /\ j \in Int /\ place[i] \in Int
    BY <1>0, <1>2, <1>4, <1>5
  <2> QED
    BY <1>7, <2>1, <2>2
<1>9. Waiting' = {m_wait_tasks'[i] : i \in 1 .. QLen'}
  BY DEF Waiting, QLen
<1>10. Waiting' = Waiting \ expired
  <2>1. ASSUME NEW t \in Waiting' PROVE t \in Waiting /\ t \notin expired
    <3>1. PICK i \in 1 .. QLen' : t = m_wait_tasks[place[i]]
      BY <1>6, <1>9
    <3>2. place[i] \in Kept
      BY <1>4
    <3> QED
      BY <3>1, <3>2 DEF Kept, Waiting, QLen
  <2>2. ASSUME NEW t \in Waiting, t \notin expired PROVE t \in Waiting'
    <3>1. PICK i \in 1 .. QLen : t = m_wait_tasks[i]
      BY DEF Waiting, QLen
    <3>2. i \in Kept
      BY <2>2, <3>1 DEF Kept
    <3>3. PICK j \in 1 .. QLen' : place[j] = i
      BY <1>1, <1>3, <1>4, <3>2
    <3> QED
      BY <1>6, <1>9, <3>1, <3>3
  <2> QED
    BY <2>1, <2>2
<1> QED
  BY <1>0, <1>2, <1>4, <1>5, <1>6, <1>7, <1>8, <1>10

LEMMA QueueEmpty ==
  ASSUME m_wait_tasks' = << >>
  PROVE  Distinct' /\ Waiting' = {} /\ QLen' = 0
<1>1. Len(m_wait_tasks') = 0
  OBVIOUS
<1> QED
  BY <1>1 DEF Distinct, Waiting, QLen

-----------------------------------------------------------------------------
(* Where a task may go. *)

Placed(t) == t \in Waiting \/ t \in m_doing_tasks \/ \E a \in Actor : t \in Held(a)
Steady == stage' = stage \/ ~Running'

\* Task t is where it was.
SameSpot(t) ==
  /\ t \in Waiting' <=> t \in Waiting
  /\ t \in m_doing_tasks' <=> t \in m_doing_tasks
  /\ \A a \in Actor : t \in Held(a)' <=> t \in Held(a)
  /\ notified'[t] = notified[t]

\* Task t is in no place.
NoSpot(t) ==
  /\ t \notin Waiting' /\ t \notin m_doing_tasks'
  /\ \A a \in Actor : t \notin Held(a)'

\* Task t was in a place and its callback is told.
ToldSpot(t) == Placed(t) /\ NoSpot(t) /\ notified'[t] = notified[t] + 1

\* Task t goes from a place to one other place.
NewSpot(t) ==
  /\ Placed(t) /\ notified'[t] = notified[t]
  /\ \/ t \in Waiting' /\ t \notin m_doing_tasks' /\ \A a \in Actor : t \notin Held(a)'
     \/ t \notin Waiting' /\ t \in m_doing_tasks' /\ \A a \in Actor : t \notin Held(a)'
     \/ t \notin Waiting' /\ t \notin m_doing_tasks'
        /\ \E a \in Actor : \A b \in Actor : t \in Held(b)' <=> a = b

\* Task t is forgotten, when the agent no longer runs.
LostSpot(t) == ~Running' /\ NoSpot(t) /\ notified'[t] = notified[t]

LEMMA SpotMoves ==
  ASSUME NEW t \in Task, SpotOf(t), Steady,
         SameSpot(t) \/ ToldSpot(t) \/ NewSpot(t) \/ LostSpot(t)
  PROVE  SpotOf(t)'
<1>0. Running' => Running
  BY DEF Steady, Running
<1>1. CASE SameSpot(t)
  BY <1>0, <1>1 DEF SpotOf, SameSpot
<1>2. CASE ToldSpot(t)
  <2>1. notified[t] = 0
    BY <1>2 DEF ToldSpot, Placed, SpotOf
  <2> QED
    BY <1>2, <2>1 DEF ToldSpot, NoSpot, SpotOf
<1>3. CASE NewSpot(t)
  <2>1. notified[t] = 0
    BY <1>3 DEF NewSpot, Placed, SpotOf
  <2> QED
    BY <1>3, <2>1 DEF NewSpot, SpotOf
<1>4. CASE LostSpot(t)
  BY <1>4 DEF LostSpot, NoSpot, SpotOf
<1> QED
  BY <1>1, <1>2, <1>3, <1>4

\* A step in which every task keeps its spot.
LEMMA SpotsQuiet ==
  ASSUME Spots, Steady, UNCHANGED <<m_wait_tasks, m_doing_tasks, notified>>,
         \A a \in Actor : Held(a)' = Held(a)
  PROVE  Spots'
<1>1. Distinct' /\ Waiting' = Waiting
  BY DEF Spots, Distinct, Waiting
<1>2. \A t \in Task : SameSpot(t)
  BY <1>1 DEF SameSpot
<1> QED
  BY <1>1, <1>2, SpotMoves DEF Spots

LEMMA NotifyStep ==
  ASSUME TypeOK, NEW S, Notify(S)
  PROVE  \A t \in Task : notified'[t] = IF t \in S THEN notified[t] + 1 ELSE notified[t]
<1>1. \A t \in Task : notified[t] \in Nat
  BY DEF TypeOK
<1>2. \A t \in Task : notified'[t] = notified[t] + IF t \in S THEN 1 ELSE 0
  BY DEF Notify
<1> QED
  BY <1>1, <1>2

\* A thread tells the callback of the task in its hands.
LEMMA SpotsRefuse ==
  ASSUME TypeOK, Locals, Spots, Steady, NEW a \in Actor, Leave(a), Notify({task[a]}),
         Held(a) = {task[a]}, task[a] \in Task, UNCHANGED <<m_wait_tasks, m_doing_tasks>>
  PROVE  Spots'
<1>1. Distinct' /\ Waiting' = Waiting
  BY DEF Spots, Distinct, Waiting
<1>2. Held(a)' = {} /\ \A b \in Actor : b # a => Held(b)' = Held(b)
  BY HeldLeave
<1>3. ASSUME NEW t \in Task PROVE SpotOf(t)'
  <2>0. SpotOf(t)
    BY DEF Spots
  <2>1. CASE t = task[a]
    <3>1. NoSpot(t)
      BY <1>1, <1>2, <2>0, <2>1 DEF NoSpot, SpotOf
    <3>2. ToldSpot(t)
      BY <3>1, <2>1, NotifyStep DEF ToldSpot, Placed
    <3> QED
      BY <2>0, <3>2, SpotMoves
  <2>2. CASE t # task[a]
    <3>1. notified'[t] = notified[t]
      BY <2>2, NotifyStep
    <3>2. \A b \in Actor : t \in Held(b)' <=> t \in Held(b)
      BY <1>2, <2>2
    <3>3. SameSpot(t)
      BY <1>1, <3>1, <3>2 DEF SameSpot
    <3> QED
      BY <2>0, <3>3, SpotMoves
  <2> QED
    BY <2>1, <2>2
<1> QED
  BY <1>1, <1>3 DEF Spots

\* Tasks of the queue or of the table are told; no thread's hands change.
LEMMA SpotsTold ==
  ASSUME TypeOK, Spots, Steady, NEW S, Notify(S), Distinct',
         Waiting' = Waiting \ S, m_doing_tasks' = m_doing_tasks \ S,
         S \subseteq Waiting \cup m_doing_tasks, \A a \in Actor : Held(a)' = Held(a)
  PROVE  Spots'
<1>3. ASSUME NEW t \in Task PROVE SpotOf(t)'
  <2>0. SpotOf(t)
    BY DEF Spots
  <2>1. CASE t \in S
    <3>1. NoSpot(t)
      BY <2>0, <2>1 DEF NoSpot, SpotOf
    <3>2. ToldSpot(t)
      BY <3>1, <2>1, NotifyStep DEF ToldSpot, Placed
    <3> QED
      BY <2>0, <3>2, SpotMoves
  <2>2. CASE t \notin S
    <3>1. notified'[t] = notified[t]
      BY <2>2, NotifyStep
    <3>2. SameSpot(t)
      BY <2>2, <3>1 DEF SameSpot
    <3> QED
      BY <2>0, <3>2, SpotMoves
  <2> QED
    BY <2>1, <2>2
<1> QED
  BY <1>3 DEF Spots

\* A thread takes the head of the queue into its hands.
LEMMA SpotsTake ==
  ASSUME TypeOK, Spots, Steady, NEW a \in Actor, m_wait_tasks # << >>,
         m_wait_tasks' = Tail(m_wait_tasks), UNCHANGED <<m_doing_tasks, notified>>,
         Held(a) = {}, Held(a)' = {Head(m_wait_tasks)},
         \A b \in Actor : b # a => Held(b)' = Held(b)
  PROVE  Spots'
<1>1. Distinct' /\ Head(m_wait_tasks) \in Waiting /\ Waiting' = Waiting \ {Head(m_wait_tasks)}
  BY QueueTail DEF Spots
<1>3. ASSUME NEW t \in Task PROVE SpotOf(t)'
  <2>0. SpotOf(t)
    BY DEF Spots
  <2>1. CASE t = Head(m_wait_tasks)
    <3>1. t \in Waiting /\ t \notin Waiting' /\ t \notin m_doing_tasks'
      BY <1>1, <2>0, <2>1 DEF SpotOf
    <3>2. \A b \in Actor : t \in Held(b)' <=> a = b
      BY <2>0, <2>1, <3>1 DEF SpotOf
    <3>3. NewSpot(t)
      BY <3>1, <3>2 DEF NewSpot, Placed
    <3> QED
      BY <2>0, <3>3, SpotMoves
  <2>2. CASE t # Head(m_wait_tasks)
    <3>1. \A b \in Actor : t \in Held(b)' <=> t \in Held(b)
      BY <2>2
    <3>2. SameSpot(t)
      BY <1>1, <2>2, <3>1 DEF SameSpot
    <3> QED
      BY <2>0, <3>2, SpotMoves
  <2> QED
    BY <2>1, <2>2
<1> QED
  BY <1>1, <1>3 DEF Spots

\* A thread puts the task in its hands into the queue or the table.
LEMMA SpotsPut ==
  ASSUME TypeOK, Spots, Steady, NEW a \in Actor, NEW t \in Task, Held(a) = {t},
         Held(a)' = {}, \A b \in Actor : b # a => Held(b)' = Held(b), Distinct',
         UNCHANGED notified,
         \/ Waiting' = Waiting \cup {t} /\ m_doing_tasks' = m_doing_tasks
         \/ Waiting' = Waiting /\ m_doing_tasks' = m_doing_tasks \cup {t}
  PROVE  Spots'
<1>3. ASSUME NEW u \in Task PROVE SpotOf(u)'
  <2>0. SpotOf(u)
    BY DEF Spots
  <2>1. CASE u = t
    <3>1. u \notin Waiting /\ u \notin m_doing_tasks /\ u \in Held(a)
          /\ \A b \in Actor : u \notin Held(b)'
      BY <2>0, <2>1 DEF SpotOf
    <3>2. NewSpot(u)
      BY <2>1, <3>1 DEF NewSpot, Placed
    <3> QED
      BY <2>0, <3>2, SpotMoves
  <2>2. CASE u # t
    <3>1. \A b \in Actor : u \in Held(b)' <=> u \in Held(b)
      BY <2>2
    <3>2. SameSpot(u)
      BY <2>2, <3>1 DEF SameSpot
    <3> QED
      BY <2>0, <3>2, SpotMoves
  <2> QED
    BY <2>1, <2>2
<1> QED
  BY <1>3 DEF Spots

\* A step in which no thread changes.
LEMMA HeldStill ==
  ASSUME UNCHANGED <<pc, task>>
  PROVE  \A a \in Actor : Held(a)' = Held(a)
BY DEF Held

\* A step from one label where a thread has a task in its hands to another.
LEMMA HeldGoto ==
  ASSUME TypeOK, Locals, NEW a \in Actor, NEW label, Goto(a, label), task'[a] = task[a],
         \A b \in Actor : b # a => task'[b] = task[b],
         pc[a] \in {"init", "get", "doing", "wait", "put_back"}
  PROVE  /\ \A b \in Actor : b # a => Held(b)' = Held(b)
         /\ label \in {"init", "get", "doing", "wait", "put_back"} => Held(a)' = Held(a)
         /\ label \notin {"init", "get", "doing", "wait", "put_back"} => Held(a)' = {}
BY GotoStep DEF Held

LEMMA SpotsStep ==
  ASSUME TypeOK, Locals, Spots, Next
  PROVE  Spots'
<1> USE Threads
<1>R. ASSUME NEW a \in Actor, Refuse(a), pc[a] \in {"init", "get", "wait"} PROVE Spots'
  <2>1. Held(a) = {task[a]} /\ task[a] \in Task
    BY <1>R, HeldOne
  <2> QED
    BY <1>R, <2>1, SpotsRefuse DEF Refuse, Steady
<1>1. ASSUME NEW a \in Actor, InitChannel(a) PROVE Spots'
  <2>1. CASE Refuse(a)
    BY <1>1, <2>1, <1>R DEF InitChannel
  <2>2. CASE ~Refuse(a)
    <3>1. pc[a] = "init" /\ Goto(a, "get") /\ UNCHANGED <<stage, queueVars, task, notified>>
      BY <1>1, <2>2 DEF InitChannel
    <3>2. \A b \in Actor : Held(b)' = Held(b)
      BY <3>1, HeldGoto
    <3> QED
      BY <3>1, <3>2, SpotsQuiet DEF Steady
  <2> QED
    BY <2>1, <2>2
<1>2. ASSUME NEW a \in Actor, GetConId(a) PROVE Spots'
  <2>1. CASE Refuse(a)
    BY <1>2, <2>1, <1>R DEF GetConId
  <2>2. CASE ~Refuse(a)
    <3>1. pc[a] = "get" /\ UNCHANGED <<stage, queueVars>>
      BY <1>2, <2>2 DEF GetConId
    <3>2. \/ Goto(a, "doing") /\ UNCHANGED <<task, notified>>
          \/ Goto(a, "wait") /\ UNCHANGED <<task, notified>>
          \/ Leave(a) /\ Notify({task[a]})
      BY <1>2, <2>2 DEF GetConId
    <3>3. CASE Leave(a) /\ Notify({task[a]})
      <4>1. Held(a) = {task[a]} /\ task[a] \in Task
        BY <3>1, HeldOne
      <4> QED
        BY <3>1, <3>3, <4>1, SpotsRefuse DEF Steady
    <3>4. CASE Goto(a, "doing") /\ UNCHANGED <<task, notified>>
      <4>1. \A b \in Actor : Held(b)' = Held(b)
        BY <3>1, <3>4, HeldGoto
      <4> QED
        BY <3>1, <3>4, <4>1, SpotsQuiet DEF Steady
    <3>5. CASE Goto(a, "wait") /\ UNCHANGED <<task, notified>>
      <4>1. \A b \in Actor : Held(b)' = Held(b)
        BY <3>1, <3>5, HeldGoto
      <4> QED
        BY <3>1, <3>5, <4>1, SpotsQuiet DEF Steady
    <3> QED
      BY <3>2, <3>3, <3>4, <3>5
  <2> QED
    BY <2>1, <2>2
<1>3. ASSUME NEW a \in Actor, AddDoing(a) PROVE Spots'
  <2>1. pc[a] = "doing" /\ Goto(a, "write") /\ m_doing_tasks' = m_doing_tasks \cup {task[a]}
        /\ UNCHANGED <<stage, m_wait_tasks, task, notified>>
    BY <1>3 DEF AddDoing
  <2>2. Held(a) = {task[a]} /\ task[a] \in Task
    BY <2>1, HeldOne
  <2>3. Held(a)' = {} /\ \A b \in Actor : b # a => Held(b)' = Held(b)
    BY <2>1, HeldGoto
  <2>4. Distinct' /\ Waiting' = Waiting
    BY <2>1 DEF Spots, Distinct, Waiting
  <2> QED
    BY <2>1, <2>2, <2>3, <2>4, SpotsPut DEF Steady
<1>4. ASSUME NEW a \in Actor, WriteCnn(a) PROVE Spots'
  <2>1. pc[a] = "write" /\ Leave(a) /\ UNCHANGED <<stage, queueVars, notified>>
    BY <1>4 DEF WriteCnn
  <2>2. \A b \in Actor : Held(b)' = Held(b)
    BY <2>1, HeldLeave DEF Held
  <2> QED
    BY <2>1, <2>2, SpotsQuiet DEF Steady
<1>5. ASSUME NEW t \in Task, AddWaiting(t) PROVE Spots'
  <2>0. pc[t] = "wait" /\ t \in Actor /\ task[t] = t
    BY <1>5 DEF AddWaiting, Locals
  <2>1. CASE Refuse(t)
    BY <2>0, <2>1, <1>R
  <2>2. CASE ~Refuse(t)
    <3>1. m_wait_tasks' = Append(m_wait_tasks, t) /\ Leave(t)
          /\ UNCHANGED <<stage, m_doing_tasks, notified>>
      BY <1>5, <2>2 DEF AddWaiting
    <3>2. Held(t) = {t}
      BY <2>0, HeldOne
    <3>3. Held(t)' = {} /\ \A b \in Actor : b # t => Held(b)' = Held(b)
      BY <2>0, <3>1, HeldLeave
    <3>4. t \notin Waiting
      BY <2>0, <3>2 DEF Spots, SpotOf
    <3>5. Distinct' /\ Waiting' = Waiting \cup {t}
      BY <3>1, <3>4, QueueAppend DEF Spots
    <3> QED
      BY <2>0, <3>1, <3>2, <3>3, <3>5, SpotsPut DEF Steady
  <2> QED
    BY <2>1, <2>2
<1>P. ASSUME NEW label, Goto(Manager, label), UNCHANGED <<stage, queueVars, task, notified>>,
             {pc[Manager], label} \subseteq {"idle", "check", "map", "fetch", "write"}
      PROVE  Spots'
  <2>1. \A b \in Actor : Held(b)' = Held(b)
    BY <1>P, GotoStep DEF Held
  <2> QED
    BY <1>P, <2>1, SpotsQuiet DEF Steady
<1>6. CASE StartPass
  BY <1>6, <1>P DEF StartPass
<1>7. ASSUME NEW g \in Group, Connect(g) PROVE Spots'
  BY <1>7, <1>P DEF Connect
<1>8. CASE AddIdChannels
  BY <1>8, <1>P DEF AddIdChannels
<1>9. ASSUME NEW g \in Group, CheckGroup(g) PROVE Spots'
  BY <1>9, HeldStill, SpotsQuiet DEF CheckGroup, Steady
<1>10. CASE CheckFailed
  BY <1>10, <1>P DEF CheckFailed
<1>11. ASSUME FetchWaiting PROVE Spots'
  <2>0. pc[Manager] = "fetch" /\ UNCHANGED <<stage, m_doing_tasks>>
    BY <1>11 DEF FetchWaiting
  <2>1. CASE m_wait_tasks = << >>
    BY <1>11, <2>1, <1>P DEF FetchWaiting
  <2>2. CASE m_wait_tasks # << >> /\ Head(m_wait_tasks) \in expired
    <3>1. Notify({Head(m_wait_tasks)}) /\ UNCHANGED <<pc, task>>
          /\ m_wait_tasks' = Tail(m_wait_tasks)
      BY <1>11, <2>2 DEF FetchWaiting
    <3>2. Distinct' /\ Head(m_wait_tasks) \in Waiting
          /\ Waiting' = Waiting \ {Head(m_wait_tasks)}
      BY <2>2, <3>1, QueueTail DEF Spots
    <3>3. Head(m_wait_tasks) \in Task
      BY <3>2, QueueType
    <3>4. Head(m_wait_tasks) \notin m_doing_tasks
      BY <3>2, <3>3 DEF Spots, SpotOf
    <3> QED
      BY <2>0, <3>1, <3>2, <3>4, HeldStill, SpotsTold DEF Steady
  <2>3. CASE m_wait_tasks # << >> /\ Head(m_wait_tasks) \notin expired
    <3>1. /\ m_wait_tasks' = Tail(m_wait_tasks) /\ Goto(Manager, "get")
          /\ task' = [task EXCEPT ![Manager] = Head(m_wait_tasks)] /\ UNCHANGED notified
      BY <1>11, <2>3 DEF FetchWaiting
    <3>2. Head(m_wait_tasks) \in Task
      BY <2>3, <3>1, QueueTail, QueueType DEF Spots
    <3>3. task'[Manager] = Head(m_wait_tasks)
          /\ \A b \in Actor : b # Manager => task'[b] = task[b]
      BY <3>1 DEF TypeOK
    <3>4. Held(Manager) = {} /\ Held(Manager)' = {Head(m_wait_tasks)}
          /\ \A b \in Actor : b # Manager => Held(b)' = Held(b)
      BY <2>0, <3>1, <3>2, <3>3, GotoStep, NullAssumption DEF Held
    <3> QED
      BY <2>0, <2>3, <3>1, <3>4, SpotsTake DEF Steady
  <2> QED
    BY <2>1, <2>2, <2>3
<1>12. ASSUME ManagerGetCnn PROVE Spots'
  <2>1. PICK label \in {"put_back", "doing"} : Goto(Manager, label)
    BY <1>12 DEF ManagerGetCnn
  <2>2. pc[Manager] = "get" /\ UNCHANGED <<stage, queueVars, task, notified>>
    BY <1>12 DEF ManagerGetCnn
  <2>3. \A b \in Actor : Held(b)' = Held(b)
    BY <2>1, <2>2, HeldGoto
  <2> QED
    BY <2>2, <2>3, SpotsQuiet DEF Steady
<1>13. ASSUME PutBack PROVE Spots'
  <2>1. pc[Manager] = "put_back" /\ Goto(Manager, "idle")
        /\ m_wait_tasks' = <<task[Manager]>> \o m_wait_tasks
        /\ task' = [task EXCEPT ![Manager] = None]
        /\ UNCHANGED <<stage, m_doing_tasks, notified>>
    BY <1>13 DEF PutBack
  <2>2. Held(Manager) = {task[Manager]} /\ task[Manager] \in Task
    BY <2>1, HeldOne
  <2>3. \A b \in Actor : b # Manager => task'[b] = task[b]
    BY <2>1 DEF TypeOK
  <2>4. Held(Manager)' = {} /\ \A b \in Actor : b # Manager => Held(b)' = Held(b)
    BY <2>1, <2>3, GotoStep DEF Held
  <2>5. task[Manager] \notin Waiting
    BY <2>2 DEF Spots, SpotOf
  <2>6. Distinct' /\ Waiting' = Waiting \cup {task[Manager]}
    BY <2>1, <2>2, <2>5, QueueFront DEF Spots
  <2> QED
    BY <2>1, <2>2, <2>4, <2>6, SpotsPut DEF Steady
<1>S. ASSUME NEW n \in Notifier, NEW c \in Cnn, ServeQueue(n, c), pc[n] = "idle",
             UNCHANGED <<stage, m_doing_tasks, notified>>
      PROVE  Spots'
  <2>1. CASE UNCHANGED <<m_wait_tasks, task, cnn, pc>>
    BY <1>S, <2>1, HeldStill, SpotsQuiet DEF Steady
  <2>2. CASE ~UNCHANGED <<m_wait_tasks, task, cnn, pc>>
    <3>1. /\ m_wait_tasks # << >> /\ m_wait_tasks' = Tail(m_wait_tasks)
          /\ task' = [task EXCEPT ![n] = Head(m_wait_tasks)] /\ Goto(n, "doing")
      BY <1>S, <2>2 DEF ServeQueue
    <3>2. Head(m_wait_tasks) \in Task
      BY <3>1, QueueTail, QueueType DEF Spots
    <3>3. task'[n] = Head(m_wait_tasks) /\ \A b \in Actor : b # n => task'[b] = task[b]
      BY <3>1 DEF TypeOK
    <3>4. Held(n) = {} /\ Held(n)' = {Head(m_wait_tasks)}
          /\ \A b \in Actor : b # n => Held(b)' = Held(b)
      BY <1>S, <3>1, <3>2, <3>3, GotoStep, NullAssumption DEF Held
    <3> QED
      BY <1>S, <3>1, <3>4, SpotsTake DEF Steady
  <2> QED
    BY <2>1, <2>2
<1>14. ASSUME NEW n \in Notifier, NEW t \in Task, NEW c \in Cnn, WriteSucceeds(n, t, c)
       PROVE  Spots'
  BY <1>14, <1>S DEF WriteSucceeds
<1>15. ASSUME NEW n \in Notifier, NEW c \in Cnn, KeepAliveSucceeds(n, c) PROVE Spots'
  BY <1>15, <1>S DEF KeepAliveSucceeds
<1>16. ASSUME NEW n \in Notifier, NEW t \in Task, NEW c \in Cnn, WriteFails(n, t, c)
       PROVE  Spots'
  <2>1. pc[n] = "idle" /\ task' = [task EXCEPT ![n] = t] /\ Goto(n, "failed")
        /\ UNCHANGED <<stage, queueVars, notified>>
    BY <1>16 DEF WriteFails
  <2>2. \A b \in Actor : b # n => task'[b] = task[b]
    BY <2>1 DEF TypeOK
  <2>3. pc'[n] = "failed" /\ \A b \in Actor : b # n => pc'[b] = pc[b]
    BY <2>1, GotoStep
  <2>4. Held(n)' = {} /\ Held(n) = {}
    BY <2>1, <2>3 DEF Held
  <2>5. \A b \in Actor : b # n => Held(b)' = Held(b)
    BY <2>2, <2>3 DEF Held
  <2> QED
    BY <2>1, <2>4, <2>5, SpotsQuiet DEF Steady
<1>17. ASSUME NEW n \in Notifier, FetchDoing(n) PROVE Spots'
  <2>0. task[n] \in Task /\ n \in Actor /\ pc[n] = "failed"
        /\ m_doing_tasks' = m_doing_tasks \ {task[n]} /\ UNCHANGED <<stage, m_wait_tasks>>
    BY <1>17 DEF FetchDoing, Locals, HoldsTask
  <2>1. Held(n) = {}
    BY <2>0 DEF Held
  <2>2. Distinct' /\ Waiting' = Waiting
    BY <2>0 DEF Spots, Distinct, Waiting
  <2>3. CASE task[n] \notin m_doing_tasks
    <3>1. Leave(n) /\ UNCHANGED notified /\ m_doing_tasks' = m_doing_tasks
      BY <1>17, <2>0, <2>3 DEF FetchDoing
    <3>2. \A b \in Actor : Held(b)' = Held(b)
      BY <2>0, <2>1, <3>1, HeldLeave
    <3> QED
      BY <2>0, <3>1, <3>2, SpotsQuiet DEF Steady
  <2>4. CASE task[n] \in m_doing_tasks /\ ~m_tried_all[task[n]]
    <3>1. Goto(n, "init") /\ UNCHANGED <<task, notified>>
      BY <1>17, <2>4 DEF FetchDoing
    <3>2. Held(n)' = {task[n]} /\ \A b \in Actor : b # n => Held(b)' = Held(b)
      BY <2>0, <3>1, GotoStep, NullAssumption DEF Held
    <3>3. ASSUME NEW t \in Task PROVE SpotOf(t)'
      <4>0. SpotOf(t)
        BY DEF Spots
      <4>1. CASE t = task[n]
        <5>1. t \notin Waiting' /\ t \notin m_doing_tasks'
          BY <2>0, <2>2, <2>4, <4>0, <4>1 DEF SpotOf
        <5>2. \A b \in Actor : t \in Held(b)' <=> n = b
          BY <2>4, <3>2, <4>0, <4>1 DEF SpotOf
        <5>3. NewSpot(t)
          BY <2>0, <2>4, <3>1, <4>1, <5>1, <5>2 DEF NewSpot, Placed
        <5> QED
          BY <2>0, <4>0, <5>3, SpotMoves DEF Steady
      <4>2. CASE t # task[n]
        <5>1. \A b \in Actor : t \in Held(b)' <=> t \in Held(b)
          BY <2>1, <3>2, <4>2
        <5>2. SameSpot(t)
          BY <2>0, <2>2, <3>1, <4>2, <5>1 DEF SameSpot
        <5> QED
          BY <2>0, <4>0, <5>2, SpotMoves DEF Steady
      <4> QED
        BY <4>1, <4>2
    <3> QED
      BY <2>2, <3>3 DEF Spots
  <2>5. CASE task[n] \in m_doing_tasks /\ m_tried_all[task[n]]
    <3>1. Leave(n) /\ Notify({task[n]})
      BY <1>17, <2>5 DEF FetchDoing
    <3>2. \A b \in Actor : Held(b)' = Held(b)
      BY <2>0, <2>1, <3>1, HeldLeave
    <3>3. Waiting' = Waiting \ {task[n]}
      BY <2>0, <2>2, <2>5 DEF Spots, SpotOf
    <3> QED
      BY <2>0, <2>2, <2>5, <3>1, <3>2, <3>3, SpotsTold DEF Steady
  <2> QED
    BY <2>3, <2>4, <2>5
<1>18. ASSUME NEW t \in Task, Respond(t) PROVE Spots'
  <2>1. m_doing_tasks' = m_doing_tasks \ ({t} \cap m_doing_tasks)
        /\ Notify({t} \cap m_doing_tasks) /\ UNCHANGED <<stage, m_wait_tasks, pc, task>>
    BY <1>18 DEF Respond
  <2>2. Distinct' /\ Waiting' = Waiting \ ({t} \cap m_doing_tasks)
    BY <2>1 DEF Spots, SpotOf, Distinct, Waiting
  <2> QED
    BY <2>1, <2>2, HeldStill, SpotsTold DEF Steady
<1>19. ASSUME NEW t \in Task, Expire(t) PROVE Spots'
  BY <1>19, HeldStill, SpotsQuiet DEF Expire, Steady
<1>20. ASSUME NEW c \in Cnn, Disconnect(c) PROVE Spots'
  BY <1>20, HeldStill, SpotsQuiet DEF Disconnect, Steady
<1>21. CASE ShakeHand
  BY <1>21, HeldStill, SpotsQuiet DEF ShakeHand, Steady
<1>22. ASSUME CheckWaiting PROVE Spots'
  <2>1. Distinct' /\ Waiting' = Waiting \ expired
    BY <1>22, QueueExpired DEF Spots
  <2>2. Notify(Waiting \cap expired) /\ UNCHANGED <<stage, m_doing_tasks, pc, task>>
    BY <1>22 DEF CheckWaiting
  <2>3. \A t \in Waiting : t \notin m_doing_tasks
    BY QueueType DEF Spots, SpotOf
  <2>4. m_doing_tasks' = m_doing_tasks \ (Waiting \cap expired)
        /\ Waiting' = Waiting \ (Waiting \cap expired)
    BY <2>1, <2>2, <2>3
  <2> QED
    BY <2>1, <2>2, <2>4, HeldStill, SpotsTold DEF Steady
<1>23. ASSUME CheckDoing PROVE Spots'
  <2>1. Notify(m_doing_tasks \cap expired) /\ UNCHANGED <<stage, m_wait_tasks, pc, task>>
        /\ m_doing_tasks' = m_doing_tasks \ (m_doing_tasks \cap expired)
    BY <1>23 DEF CheckDoing
  <2>2. Distinct' /\ Waiting' = Waiting
    BY <2>1 DEF Spots, Distinct, Waiting
  <2>3. \A t \in Waiting : t \notin m_doing_tasks
    BY QueueType DEF Spots, SpotOf
  <2>4. Waiting' = Waiting \ (m_doing_tasks \cap expired)
    BY <2>2, <2>3
  <2> QED
    BY <2>1, <2>2, <2>4, HeldStill, SpotsTold DEF Steady
<1>24. ASSUME DeleteFailed PROVE Spots'
  <2>1. Notify(Waiting) /\ UNCHANGED <<stage, m_doing_tasks, pc, task>> /\ m_wait_tasks' = << >>
    BY <1>24 DEF DeleteFailed, DestroyChannel
  <2>2. Distinct' /\ Waiting' = Waiting \ Waiting
    BY <2>1, QueueEmpty
  <2>3. m_doing_tasks' = m_doing_tasks \ Waiting
    BY <2>1, QueueType DEF Spots, SpotOf
  <2> QED
    BY <2>1, <2>2, <2>3, HeldStill, SpotsTold DEF Steady
<1>25. ASSUME StopFlag PROVE Spots'
  BY <1>25, HeldStill, SpotsQuiet DEF StopFlag, Steady, Running
<1>26. ASSUME StopTake PROVE Spots'
  BY <1>26, HeldStill, SpotsQuiet DEF StopTake, Steady, Running
<1>27. ASSUME StopDelete PROVE Spots'
  <2>0. Steady /\ ~Running' /\ UNCHANGED <<m_doing_tasks, notified, pc, task>>
    BY <1>27 DEF StopDelete, Steady, Running
  <2>1. CASE m_wait_tasks' = m_wait_tasks
    BY <2>0, <2>1, HeldStill, SpotsQuiet
  <2>2. CASE m_wait_tasks' = << >>
    <3>1. Distinct' /\ Waiting' = {}
      BY <2>2, QueueEmpty
    <3>2. \A a \in Actor : Held(a)' = Held(a)
      BY <2>0, HeldStill
    <3>3. ASSUME NEW t \in Task PROVE SpotOf(t)'
      <4>0. SpotOf(t)
        BY DEF Spots
      <4>1. CASE t \in Waiting
        <5>1. LostSpot(t)
          BY <2>0, <3>1, <3>2, <4>0, <4>1 DEF LostSpot, NoSpot, SpotOf
        <5> QED
          BY <2>0, <4>0, <5>1, SpotMoves
      <4>2. CASE t \notin Waiting
        <5>1. SameSpot(t)
          BY <2>0, <3>1, <3>2, <4>2 DEF SameSpot
        <5> QED
          BY <2>0, <4>0, <5>1, SpotMoves
      <4> QED
        BY <4>1, <4>2
    <3> QED
      BY <3>1, <3>3 DEF Spots
  <2> QED
    BY <1>27, <2>1, <2>2 DEF StopDelete, DestroyChannel
<1>28. ASSUME StopClear PROVE Spots'
  <2>1. Notify(m_doing_tasks) /\ m_doing_tasks' = m_doing_tasks \ m_doing_tasks
        /\ UNCHANGED <<m_wait_tasks, pc, task>> /\ Steady
    BY <1>28 DEF StopClear, Steady, Running
  <2>2. Distinct' /\ Waiting' = Waiting
    BY <2>1 DEF Spots, Distinct, Waiting
  <2>3. Waiting' = Waiting \ m_doing_tasks
    BY <2>2, QueueType DEF Spots, SpotOf
  <2> QED
    BY <2>1, <2>2, <2>3, HeldStill, SpotsTold
<1> QED
  BY <1>1, <1>2, <1>3, <1>4, <1>5, <1>6, <1>7, <1>8, <1>9, <1>10, <1>11, <1>12,
     <1>13, <1>14, <1>15, <1>16, <1>17, <1>18, <1>19, <1>20, <1>21, <1>22, <1>23, <1>24,
     <1>25, <1>26, <1>27, <1>28
  DEF Next, Call, Work, ManagerStep, NotifierStep, Report, Environment, Stop

-----------------------------------------------------------------------------
(* The order of the queue. *)

Line == \A i, j \in 1 .. QLen : i < j => Before(arrival, m_wait_tasks[i], m_wait_tasks[j])

LEMMA OrderParts ==
  Order <=> /\ Line
            /\ \A i \in 1 .. QLen : In(arrival, m_wait_tasks[i])
            /\ InFront => In(arrival, task[Manager])
            /\ InFront => \A i \in 1 .. QLen : Before(arrival, task[Manager], m_wait_tasks[i])
BY DEF Order, WaitInOrder, Line, Before, QLen

LEMMA OrderNext ==
  ASSUME \A i, j \in 1 .. QLen' : i < j => Before(arrival', m_wait_tasks'[i], m_wait_tasks'[j]),
         \A i \in 1 .. QLen' : In(arrival', m_wait_tasks'[i]),
         InFront' => In(arrival', task'[Manager]),
         InFront' => \A i \in 1 .. QLen' : Before(arrival', task'[Manager], m_wait_tasks'[i])
  PROVE  Order'
BY DEF Order, WaitInOrder, Before, In, QLen, InFront

\* The queue's places are some of its old places, in their order, and the
\* manager's task is before them.
LEMMA OrderFewer ==
  ASSUME Order, arrival' = arrival, QLen \in Nat, QLen' \in Nat,
         NEW place \in [1 .. QLen' -> 1 .. QLen],
         \A i, j \in 1 .. QLen' : i < j => place[i] < place[j],
         \A i \in 1 .. QLen' : m_wait_tasks'[i] = m_wait_tasks[place[i]],
         InFront' => InFront /\ task'[Manager] = task[Manager]
  PROVE  Order'
<1>1. \A i, j \in 1 .. QLen' : i < j => Before(arrival', m_wait_tasks'[i], m_wait_tasks'[j])
  BY OrderParts DEF Line
<1>2. \A i \in 1 .. QLen' : In(arrival', m_wait_tasks'[i])
  BY OrderParts
<1>3. InFront' => /\ In(arrival', task'[Manager])
                  /\ \A i \in 1 .. QLen' : Before(arrival', task'[Manager], m_wait_tasks'[i])
  BY OrderParts
<1> QED
  BY <1>1, <1>2, <1>3, OrderNext

LEMMA OrderQuiet ==
  ASSUME Order, UNCHANGED <<m_wait_tasks, arrival>>,
         InFront' => InFront /\ task'[Manager] = task[Manager]
  PROVE  Order'
BY DEF Order, WaitInOrder, In, Before

\* The head is taken, by the manager or by another thread.
LEMMA OrderTake ==
  ASSUME TypeOK, Distinct, Order, m_wait_tasks # << >>, m_wait_tasks' = Tail(m_wait_tasks),
         arrival' = arrival,
         \/ InFront' => InFront /\ task'[Manager] = task[Manager]
         \/ task'[Manager] = Head(m_wait_tasks)
  PROVE  Order'
<1>1. /\ Head(m_wait_tasks) = m_wait_tasks[1] /\ QLen \in Nat \ {0} /\ QLen' = QLen - 1
      /\ \A i \in 1 .. QLen' : m_wait_tasks'[i] = m_wait_tasks[i + 1]
  BY QueueTail
<1>2. QLen' \in Nat /\ 1 \in 1 .. QLen
      /\ \A i \in 1 .. QLen' : i + 1 \in 1 .. QLen /\ 1 < i + 1
  BY <1>1
<1>3. \A i, j \in 1 .. QLen' : i < j => i + 1 < j + 1
  BY <1>1
<1>4. \A i, j \in 1 .. QLen' : i < j => Before(arrival', m_wait_tasks'[i], m_wait_tasks'[j])
  BY <1>1, <1>2, <1>3, OrderParts DEF Line
<1>5. \A i \in 1 .. QLen' : In(arrival', m_wait_tasks'[i])
  BY <1>1, <1>2, OrderParts
<1>6. CASE InFront' => InFront /\ task'[Manager] = task[Manager]
  <2>1. InFront' => /\ In(arrival', task'[Manager])
                    /\ \A i \in 1 .. QLen' : Before(arrival', task'[Manager], m_wait_tasks'[i])
    BY <1>1, <1>2, <1>6, OrderParts
  <2> QED
    BY <1>4, <1>5, <2>1, OrderNext
<1>7. CASE task'[Manager] = Head(m_wait_tasks)
  <2>1. /\ In(arrival', task'[Manager])
        /\ \A i \in 1 .. QLen' : Before(arrival', task'[Manager], m_wait_tasks'[i])
    BY <1>1, <1>2, <1>7, OrderParts DEF Line
  <2> QED
    BY <1>4, <1>5, <2>1, OrderNext
<1> QED
  BY <1>6, <1>7

\* A task's first attempt: everything in the queue arrived before.
LEMMA OrderArrive ==
  ASSUME TypeOK, Distinct, Order, NEW t \in Task, t \notin Waiting,
         m_wait_tasks' = Append(m_wait_tasks, t), arrival' = Append(arrival, t),
         InFront' => InFront /\ task'[Manager] = task[Manager]
  PROVE  Order'
<1> DEFINE n == Len(arrival)
<1>1. /\ n \in Nat /\ Len(arrival') = n + 1
      /\ \A i \in 1 .. n : arrival'[i] = arrival[i]
      /\ arrival'[n + 1] = t
  BY AppendProperties, LenProperties DEF TypeOK
<1>2. /\ 1 .. n \subseteq 1 .. n + 1 /\ n + 1 \in 1 .. n + 1
      /\ \A i \in 1 .. n : i < n + 1
  BY <1>1
<1>3. ASSUME NEW x, NEW y, Before(arrival, x, y) PROVE Before(arrival', x, y)
  BY <1>1, <1>2, <1>3 DEF Before
<1>4. ASSUME NEW x, In(arrival, x) PROVE In(arrival', x) /\ Before(arrival', x, t)
  <2>1. PICK k \in 1 .. n : arrival[k] = x
    BY <1>4 DEF In
  <2>2. /\ k \in 1 .. n + 1 /\ n + 1 \in 1 .. n + 1 /\ k < n + 1
        /\ arrival'[k] = x /\ arrival'[n + 1] = t
    BY <1>1, <1>2, <2>1
  <2> HIDE DEF n
  <2> QED
    BY <1>1, <2>2 DEF Before, In, n
<1>5. In(arrival', t)
  BY <1>1, <1>2 DEF In
<1>6. /\ QLen \in Nat /\ QLen' = QLen + 1
      /\ \A i \in 1 .. QLen : m_wait_tasks'[i] = m_wait_tasks[i]
      /\ m_wait_tasks'[QLen + 1] = t
  BY QueueAppend
<1>7. \A i \in 1 .. QLen + 1 : i \in 1 .. QLen \/ i = QLen + 1
  BY <1>6
<1> HIDE DEF n
<1>8. \A i, j \in 1 .. QLen' : i < j => Before(arrival', m_wait_tasks'[i], m_wait_tasks'[j])
  <2> SUFFICES ASSUME NEW i \in 1 .. QLen + 1, NEW j \in 1 .. QLen + 1, i < j
               PROVE  Before(arrival', m_wait_tasks'[i], m_wait_tasks'[j])
    BY <1>6 DEF Line
  <2>1. i \in 1 .. QLen
    BY <1>6
  <2>2. CASE j \in 1 .. QLen
    <3>1. Before(arrival, m_wait_tasks[i], m_wait_tasks[j])
      BY <2>1, <2>2, OrderParts DEF Line
    <3> QED
      BY <1>3, <1>6, <2>1, <2>2, <3>1
  <2>3. CASE j = QLen + 1
    <3>1. In(arrival, m_wait_tasks[i])
      BY <2>1, OrderParts
    <3> QED
      BY <1>4, <1>6, <2>1, <2>3, <3>1
  <2> QED
    BY <1>7, <2>2, <2>3
<1>9. \A i \in 1 .. QLen' : In(arrival', m_wait_tasks'[i])
  BY <1>4, <1>5, <1>6, <1>7, OrderParts
<1>10. InFront' => /\ In(arrival', task'[Manager])
                   /\ \A i \in 1 .. QLen' : Before(arrival', task'[Manager], m_wait_tasks'[i])
  BY <1>3, <1>4, <1>6, <1>7, OrderParts
<1> QED
  BY <1>8, <1>9, <1>10, OrderNext

\* The manager puts its task back at the head.
LEMMA OrderPutBack ==
  ASSUME TypeOK, Distinct, Order, NEW t \in Task, t \notin Waiting, InFront,
         task[Manager] = t, m_wait_tasks' = <<t>> \o m_wait_tasks, arrival' = arrival,
         ~InFront'
  PROVE  Order'
<1>1. /\ QLen \in Nat /\ QLen' = QLen + 1 /\ m_wait_tasks'[1] = t
      /\ \A i \in 1 .. QLen : m_wait_tasks'[i + 1] = m_wait_tasks[i]
  BY QueueFront
<1>2. \A i \in 1 .. QLen' :
        i = 1 \/ (i - 1 \in 1 .. QLen /\ m_wait_tasks'[i] = m_wait_tasks[i - 1])
  <2> SUFFICES ASSUME NEW i \in 1 .. QLen', i # 1
               PROVE  i - 1 \in 1 .. QLen /\ m_wait_tasks'[i] = m_wait_tasks[i - 1]
    OBVIOUS
  <2>1. i - 1 \in 1 .. QLen /\ (i - 1) + 1 = i
    BY <1>1
  <2> QED
    BY <1>1, <2>1
<1>3. \A i, j \in 1 .. QLen' : i < j => Before(arrival', m_wait_tasks'[i], m_wait_tasks'[j])
  <2> SUFFICES ASSUME NEW i \in 1 .. QLen', NEW j \in 1 .. QLen', i < j
               PROVE  Before(arrival', m_wait_tasks'[i], m_wait_tasks'[j])
    BY DEF Line
  <2>0. i \in Int /\ j \in Int /\ j # 1
    BY <1>1
  <2>1. j - 1 \in 1 .. QLen /\ m_wait_tasks'[j] = m_wait_tasks[j - 1]
    BY <1>2, <2>0
  <2>2. CASE i = 1
    BY <1>1, <2>1, <2>2, OrderParts
  <2>3. CASE i # 1
    <3>1. i - 1 \in 1 .. QLen /\ m_wait_tasks'[i] = m_wait_tasks[i - 1]
      BY <1>2, <2>3
    <3>3. i - 1 < j - 1
      BY <2>0
    <3>2. Before(arrival, m_wait_tasks[i - 1], m_wait_tasks[j - 1])
      BY <2>1, <3>1, <3>3, OrderParts DEF Line
    <3> QED
      BY <2>1, <3>1, <3>2
  <2> QED
    BY <2>2, <2>3
<1>4. \A i \in 1 .. QLen' : In(arrival', m_wait_tasks'[i])
  BY <1>1, <1>2, OrderParts
<1> QED
  BY <1>3, <1>4, OrderNext

LEMMA OrderEmpty ==
  ASSUME Order, m_wait_tasks' = << >>, arrival' = arrival,
         InFront' => InFront /\ task'[Manager] = task[Manager]
  PROVE  Order'
<1>1. QLen' = 0
  BY QueueEmpty
<1>2. \A i \in 1 .. QLen' :
        /\ In(arrival', m_wait_tasks'[i])
        /\ \A j \in 1 .. QLen' : i < j => Before(arrival', m_wait_tasks'[i], m_wait_tasks'[j])
  BY <1>1
<1>3. InFront' => /\ In(arrival', task'[Manager])
                  /\ \A i \in 1 .. QLen' : Before(arrival', task'[Manager], m_wait_tasks'[i])
  BY <1>1, OrderParts
<1> QED
  BY <1>2, <1>3, OrderNext

LEMMA OrderStep ==
  ASSUME TypeOK, Locals, Spots, Order, Next
  PROVE  Order'
<1> USE Threads
<1>0. Distinct
  BY DEF Spots
<1>R. ASSUME NEW a \in Actor, a # Manager, Refuse(a) PROVE Order'
  BY <1>R, LeaveStep, OrderQuiet DEF Refuse, InFront
<1>G. ASSUME NEW a \in Actor, NEW label, Goto(a, label), UNCHANGED <<m_wait_tasks, arrival, task>>,
             a = Manager => label \notin {"get", "put_back"}
      PROVE  Order'
  <2>1. InFront' => InFront
    BY <1>G, GotoStep DEF InFront
  <2> QED
    BY <1>G, <2>1, OrderQuiet
<1>L. ASSUME NEW a \in Actor, Leave(a), UNCHANGED <<m_wait_tasks, arrival>> PROVE Order'
  <2>1. InFront' => InFront /\ task'[Manager] = task[Manager]
    BY <1>L, LeaveStep DEF InFront, Rest
  <2> QED
    BY <1>L, <2>1, OrderQuiet
<1>U. ASSUME UNCHANGED <<pc, task, m_wait_tasks, arrival>> PROVE Order'
  BY <1>U, OrderQuiet DEF InFront
<1>1. ASSUME NEW a \in Actor, a # Manager, InitChannel(a) PROVE Order'
  <2>1. CASE Refuse(a)
    BY <2>1, <1>L DEF Refuse
  <2>2. CASE ~Refuse(a)
    <3>1. pc[a] = "init" /\ Goto(a, "get") /\ UNCHANGED <<m_wait_tasks, task, arrival>>
      BY <1>1, <2>2 DEF InitChannel
    <3> QED
      BY <1>1, <3>1, <1>G
  <2> QED
    BY <2>1, <2>2
<1>2. ASSUME NEW a \in Actor, GetConId(a) PROVE Order'
  <2>1. CASE Refuse(a)
    BY <2>1, <1>L DEF Refuse
  <2>2. CASE ~Refuse(a)
    <3>1. UNCHANGED <<m_wait_tasks, arrival>>
      BY <1>2, <2>2 DEF GetConId
    <3>2. \/ Goto(a, "doing") /\ UNCHANGED task
          \/ Goto(a, "wait") /\ UNCHANGED task
          \/ Leave(a)
      BY <1>2, <2>2 DEF GetConId
    <3> QED
      BY <3>1, <3>2, <1>G, <1>L
  <2> QED
    BY <2>1, <2>2
<1>3. ASSUME NEW a \in Actor, AddDoing(a) PROVE Order'
  BY <1>3, <1>G DEF AddDoing
<1>4. ASSUME NEW a \in Actor, WriteCnn(a) PROVE Order'
  BY <1>4, <1>L DEF WriteCnn
<1>5. ASSUME NEW t \in Task, AddWaiting(t) PROVE Order'
  <2>1. CASE Refuse(t)
    BY <2>1, <1>L DEF Refuse
  <2>2. CASE ~Refuse(t)
    <3>1. m_wait_tasks' = Append(m_wait_tasks, t) /\ arrival' = Append(arrival, t)
          /\ Leave(t) /\ pc[t] = "wait"
      BY <1>5, <2>2 DEF AddWaiting
    <3>2. Held(t) = {t}
      BY <3>1, HeldOne DEF Locals
    <3>3. t \notin Waiting
      BY <3>2 DEF Spots, SpotOf
    <3>4. InFront' => InFront /\ task'[Manager] = task[Manager]
      BY <3>1, LeaveStep DEF InFront
    <3> QED
      BY <1>0, <3>1, <3>3, <3>4, OrderArrive
  <2> QED
    BY <2>1, <2>2
<1>6. CASE StartPass
  BY <1>6, <1>G DEF StartPass
<1>7. ASSUME NEW g \in Group, Connect(g) PROVE Order'
  BY <1>7, <1>G DEF Connect
<1>8. CASE AddIdChannels
  BY <1>8, <1>G DEF AddIdChannels
<1>9. ASSUME NEW g \in Group, CheckGroup(g) PROVE Order'
  BY <1>9, <1>U DEF CheckGroup
<1>10. CASE CheckFailed
  <2>1. PICK label \in {"idle", "fetch"} : Goto(Manager, label)
    BY <1>10 DEF CheckFailed
  <2> QED
    BY <1>10, <2>1, <1>G DEF CheckFailed
<1>11. ASSUME FetchWaiting PROVE Order'
  <2>0. pc[Manager] = "fetch" /\ UNCHANGED arrival
    BY <1>11 DEF FetchWaiting
  <2>1. CASE m_wait_tasks = << >>
    BY <1>11, <2>1, <1>G DEF FetchWaiting
  <2>2. CASE m_wait_tasks # << >> /\ Head(m_wait_tasks) \in expired
    <3>1. UNCHANGED <<pc, task>> /\ m_wait_tasks' = Tail(m_wait_tasks)
      BY <1>11, <2>2 DEF FetchWaiting
    <3>2. InFront' => InFront /\ task'[Manager] = task[Manager]
      BY <3>1 DEF InFront
    <3> QED
      BY <1>0, <2>0, <2>2, <3>1, <3>2, OrderTake
  <2>3. CASE m_wait_tasks # << >> /\ Head(m_wait_tasks) \notin expired
    <3>1. /\ m_wait_tasks' = Tail(m_wait_tasks)
          /\ task' = [task EXCEPT ![Manager] = Head(m_wait_tasks)]
      BY <1>11, <2>3 DEF FetchWaiting
    <3>2. task'[Manager] = Head(m_wait_tasks)
      BY <3>1 DEF TypeOK
    <3> QED
      BY <1>0, <2>0, <2>3, <3>1, <3>2, OrderTake
  <2> QED
    BY <2>1, <2>2, <2>3
<1>12. ASSUME ManagerGetCnn PROVE Order'
  BY <1>12, OrderQuiet DEF ManagerGetCnn, InFront
<1>13. ASSUME PutBack PROVE Order'
  <2>1. pc[Manager] = "put_back" /\ Goto(Manager, "idle") /\ UNCHANGED arrival
        /\ m_wait_tasks' = <<task[Manager]>> \o m_wait_tasks
    BY <1>13 DEF PutBack
  <2>2. Held(Manager) = {task[Manager]} /\ task[Manager] \in Task
    BY <2>1, HeldOne
  <2>3. task[Manager] \notin Waiting
    BY <2>2 DEF Spots, SpotOf
  <2>4. InFront /\ ~InFront'
    BY <2>1, GotoStep DEF InFront
  <2> QED
    BY <1>0, <2>1, <2>2, <2>3, <2>4, OrderPutBack
<1>S. ASSUME NEW n \in Notifier, NEW c \in Cnn, ServeQueue(n, c), UNCHANGED arrival
      PROVE  Order'
  <2>1. CASE UNCHANGED <<m_wait_tasks, task, cnn, pc>>
    BY <1>S, <2>1, <1>U
  <2>2. CASE ~UNCHANGED <<m_wait_tasks, task, cnn, pc>>
    <3>1. /\ m_wait_tasks # << >> /\ m_wait_tasks' = Tail(m_wait_tasks)
          /\ task' = [task EXCEPT ![n] = Head(m_wait_tasks)] /\ Goto(n, "doing")
      BY <1>S, <2>2 DEF ServeQueue
    <3>2. InFront' => InFront /\ task'[Manager] = task[Manager]
      BY <3>1, GotoStep DEF InFront, TypeOK
    <3> QED
      BY <1>0, <1>S, <3>1, <3>2, OrderTake
  <2> QED
    BY <2>1, <2>2
<1>14. ASSUME NEW n \in Notifier, NEW t \in Task, NEW c \in Cnn, WriteSucceeds(n, t, c)
       PROVE  Order'
  BY <1>14, <1>S DEF WriteSucceeds
<1>15. ASSUME NEW n \in Notifier, NEW c \in Cnn, KeepAliveSucceeds(n, c) PROVE Order'
  BY <1>15, <1>S DEF KeepAliveSucceeds
<1>16. ASSUME NEW n \in Notifier, NEW t \in Task, NEW c \in Cnn, WriteFails(n, t, c)
       PROVE  Order'
  <2>1. task' = [task EXCEPT ![n] = t] /\ Goto(n, "failed") /\ UNCHANGED <<m_wait_tasks, arrival>>
    BY <1>16 DEF WriteFails
  <2>2. InFront' => InFront /\ task'[Manager] = task[Manager]
    BY <2>1, GotoStep DEF InFront, TypeOK
  <2> QED
    BY <2>1, <2>2, OrderQuiet
<1>17. ASSUME NEW n \in Notifier, FetchDoing(n) PROVE Order'
  <2>1. UNCHANGED <<m_wait_tasks, arrival>> /\ (Leave(n) \/ (Goto(n, "init") /\ UNCHANGED task))
    BY <1>17 DEF FetchDoing
  <2> QED
    BY <2>1, <1>G, <1>L
<1>18. ASSUME NEW t \in Task, Respond(t) PROVE Order'
  BY <1>18, <1>U DEF Respond
<1>19. ASSUME NEW t \in Task, Expire(t) PROVE Order'
  BY <1>19, <1>U DEF Expire
<1>20. ASSUME NEW c \in Cnn, Disconnect(c) PROVE Order'
  BY <1>20, <1>U DEF Disconnect
<1>21. CASE ShakeHand
  BY <1>21, <1>U DEF ShakeHand
<1>22. ASSUME CheckWaiting PROVE Order'
  <2>1. UNCHANGED <<pc, task, arrival>>
    BY <1>22 DEF CheckWaiting
  <2>2. InFront' => InFront /\ task'[Manager] = task[Manager]
    BY <2>1 DEF InFront
  <2>3. QLen \in Nat /\ QLen' \in Nat
    BY <1>0, <1>22, QueueExpired
  <2>4. PICK place \in [1 .. QLen' -> 1 .. QLen] :
              /\ \A i, j \in 1 .. QLen' : i < j => place[i] < place[j]
              /\ \A i \in 1 .. QLen' : m_wait_tasks'[i] = m_wait_tasks[place[i]]
    BY <1>0, <1>22, QueueExpired
  <2> QED
    BY <2>1, <2>2, <2>3, <2>4, OrderFewer
<1>23. CASE CheckDoing
  BY <1>23, <1>U DEF CheckDoing
<1>E. ASSUME m_wait_tasks' = << >>, UNCHANGED <<pc, task, arrival>> PROVE Order'
  BY <1>E, OrderEmpty DEF InFront
<1>24. CASE DeleteFailed
  BY <1>24, <1>E DEF DeleteFailed, DestroyChannel
<1>25. CASE StopFlag
  BY <1>25, <1>U DEF StopFlag
<1>26. CASE StopTake
  BY <1>26, <1>U DEF StopTake
<1>27. CASE StopDelete
  BY <1>27, <1>U, <1>E DEF StopDelete, DestroyChannel
<1>28. CASE StopClear
  BY <1>28, <1>U DEF StopClear
<1> QED
  BY <1>1, <1>2, <1>3, <1>4, <1>5, <1>6, <1>7, <1>8, <1>9, <1>10, <1>11, <1>12,
     <1>13, <1>14, <1>15, <1>16, <1>17, <1>18, <1>19, <1>20, <1>21, <1>22, <1>23, <1>24,
     <1>25, <1>26, <1>27, <1>28
  DEF Next, Call, Work, ManagerStep, NotifierStep, Report, Environment, Stop

-----------------------------------------------------------------------------
(* The theorems. *)

LEMMA StutterStep == IInv /\ UNCHANGED vars => IInv'
BY DEF IInv, vars, TypeOK, Locals, ChannelInv, ConnectionsLead, Running, Spots, Distinct,
       SpotOf, Waiting, Held, Order, WaitInOrder, InFront, In, Before

LEMMA InvStep == IInv /\ [Next]_vars => IInv'
<1> SUFFICES ASSUME IInv, Next PROVE IInv'
  BY StutterStep
<1> QED
  BY TypeStep, ChannelStep, SpotsStep, OrderStep DEF IInv

THEOREM InvHolds == Spec => []IInv
BY InitInv, InvStep, PTL DEF Spec

\* Every variable keeps its type: a group's count of failed passes stays below
\* its bound, whatever connections come and go.
THEOREM TypeCorrect == Spec => []TypeOK
<1>1. IInv => TypeOK
  BY DEF IInv
<1> QED
  BY <1>1, InvHolds, PTL

\* NotifiedOnce: a task's callback is told one outcome at most, although a
\* response, a failure, two timeouts and stop compete for the task.
THEOREM OneOutcome == Spec => []NotifiedOnce
<1>1. IInv => NotifiedOnce
  BY DEF IInv, Spots, SpotOf, NotifiedOnce
<1> QED
  BY <1>1, InvHolds, PTL

\* WaitInOrder: a task the manager puts back goes before all that came later.
THEOREM QueueKeepsOrder == Spec => []WaitInOrder
<1>1. IInv => WaitInOrder
  BY DEF IInv, Order
<1> QED
  BY <1>1, InvHolds, PTL

\* ConnectionsLead: a connection the table knows leads to the living channel
\* and to a group that has it.
THEOREM TableLeads == Spec => []ConnectionsLead
<1>1. IInv => ConnectionsLead
  BY DEF IInv
<1> QED
  BY <1>1, InvHolds, PTL

\* How often a task occurs in the queue, in the table and in hands.
LEMMA CountOne ==
  ASSUME NEW S, NEW x \in S, \A y \in S : y = x
  PROVE  Cardinality(S) = 1
<1>1. S = {x}
  OBVIOUS
<1> QED
  BY <1>1, FS_Singleton
LEMMA CountNone ==
  ASSUME NEW S, \A y \in S : FALSE
  PROVE  Cardinality(S) = 0
<1>1. S = {}
  OBVIOUS
<1> QED
  BY <1>1, FS_EmptySet

LEMMA SpotsCounted == IInv => TaskInOnePlace
<1> SUFFICES ASSUME IInv, Running, NEW t \in Task
             PROVE  Cardinality({i \in 1 .. Len(m_wait_tasks) : m_wait_tasks[i] = t})
                      + Cardinality({t} \cap m_doing_tasks)
                      + Cardinality({a \in Actor : t \in Held(a)})
                      = 1 - notified[t]
  BY DEF TaskInOnePlace
<1> DEFINE q == {i \in 1 .. Len(m_wait_tasks) : m_wait_tasks[i] = t}
           d == {t} \cap m_doing_tasks
           h == {a \in Actor : t \in Held(a)}
<1>0. SpotOf(t) /\ Distinct
  BY DEF IInv, Spots
<1>1. t \in Waiting => Cardinality(q) = 1
  <2> SUFFICES ASSUME t \in Waiting PROVE Cardinality(q) = 1
    OBVIOUS
  <2>1. PICK i \in 1 .. Len(m_wait_tasks) : m_wait_tasks[i] = t
    BY DEF Waiting
  <2>2. i \in q /\ \A j \in q : j = i
    BY <1>0, <2>1 DEF Distinct
  <2> HIDE DEF q
  <2> QED
    BY <2>2, CountOne
<1>2. t \notin Waiting => Cardinality(q) = 0
  <2> SUFFICES ASSUME t \notin Waiting PROVE Cardinality(q) = 0
    OBVIOUS
  <2>1. \A j \in q : FALSE
    BY DEF Waiting
  <2> HIDE DEF q
  <2> QED
    BY <2>1, CountNone
<1>3. t \in m_doing_tasks => Cardinality(d) = 1
  <2>1. t \in m_doing_tasks => t \in d /\ \A y \in d : y = t
    OBVIOUS
  <2> HIDE DEF d
  <2> QED
    BY <2>1, CountOne
<1>4. t \notin m_doing_tasks => Cardinality(d) = 0
  <2>1. t \notin m_doing_tasks => \A y \in d : FALSE
    OBVIOUS
  <2> HIDE DEF d
  <2> QED
    BY <2>1, CountNone
<1>5. ASSUME NEW a \in Actor, t \in Held(a) PROVE Cardinality(h) = 1
  <2>1. a \in h /\ \A b \in h : b = a
    BY <1>0, <1>5 DEF SpotOf
  <2> HIDE DEF h
  <2> QED
    BY <2>1, CountOne
<1>6. (\A a \in Actor : t \notin Held(a)) => Cardinality(h) = 0
  <2>1. (\A a \in Actor : t \notin Held(a)) => \A b \in h : FALSE
    OBVIOUS
  <2> HIDE DEF h
  <2> QED
    BY <2>1, CountNone
<1> HIDE DEF q, d, h
<1>7. Cardinality(q) + Cardinality(d) + Cardinality(h) = 1 - notified[t]
  <2>1. CASE t \in Waiting
    <3>1. t \notin m_doing_tasks /\ notified[t] = 0 /\ \A a \in Actor : t \notin Held(a)
      BY <1>0, <2>1 DEF SpotOf
    <3> QED
      BY <1>1, <1>4, <1>6, <2>1, <3>1
  <2>2. CASE t \in m_doing_tasks
    <3>1. t \notin Waiting /\ notified[t] = 0 /\ \A a \in Actor : t \notin Held(a)
      BY <1>0, <2>2 DEF SpotOf
    <3> QED
      BY <1>2, <1>3, <1>6, <2>2, <3>1
  <2>3. CASE \E a \in Actor : t \in Held(a)
    <3>1. t \notin Waiting /\ t \notin m_doing_tasks /\ notified[t] = 0
      BY <1>0, <2>3 DEF SpotOf
    <3> QED
      BY <1>2, <1>4, <1>5, <2>3, <3>1
  <2>4. CASE notified[t] = 1
    <3>1. t \notin Waiting /\ t \notin m_doing_tasks /\ \A a \in Actor : t \notin Held(a)
      BY <1>0, <2>4 DEF SpotOf
    <3> QED
      BY <1>2, <1>4, <1>6, <2>4, <3>1
  <2> QED
    BY <1>0, <2>1, <2>2, <2>3, <2>4 DEF SpotOf
<1> QED
  BY <1>7 DEF q, d, h

\* TaskInOnePlace: while the agent runs no accepted task is lost, and none is
\* in two places.
THEOREM TasksAreKept == Spec => []TaskInOnePlace
BY SpotsCounted, InvHolds, PTL
=============================================================================
