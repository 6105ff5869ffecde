------------------------------ MODULE CnnMixer ------------------------------
(***************************************************************************)
(* One direction of a TCP connection between two CnnMixers: a command is   *)
(* written as a buffer, and read in two steps, its head and then as much   *)
(* as the head says.  CommandPipe is what the readers rely on.             *)
(***************************************************************************)
EXTENDS Commands

CONSTANTS
  Item,        \* what a field of a command, or of its lists, may hold
  Cmd,         \* commands that may be sent
  MaxSent      \* bound: commands sent

\* A command has the fields of its class.
FieldsOf(type) == ToSet(CmdHead.ser \o Class[type].ser)
ASSUME CmdAssumption ==
  \A cmd \in Cmd :
    /\ cmd.m_cmd_type \in ToSet(RA_CMD_TYPE)
    /\ cmd = [f \in FieldsOf(cmd.m_cmd_type) |-> cmd[f]]
    /\ \A f \in DOMAIN cmd \ {"m_cmd_type"} :
         cmd[f] \in IF f \in ListFields THEN Seq(Item) ELSE Item
ASSUME SentAssumption == MaxSent \in Nat

VARIABLES
  open,        \* the connection has not been closed
  broken,      \* the connection has failed on its way
  stream,      \* items written and not read
  read,        \* the read posted: [stage, items]
  sent,        \* history: commands written
  received     \* history: commands given to on_read_connection and unserialised

vars == <<open, broken, stream, read, sent, received>>

HeadPosted == [stage |-> "head", items |-> << >>]
NoRead == [stage |-> "none", items |-> << >>]

Init == /\ open = TRUE /\ broken = FALSE
        /\ stream = << >> /\ read = HeadPosted
        /\ sent = << >> /\ received = << >>

\* The commands with the length set_body_len gives them.
WithLength(cmd) == [cmd EXCEPT !.m_body_len = Len(SerFields(cmd)) - SA_CMD_HEAD_LEN]
Written == {WithLength(cmd) : cmd \in Cmd}

\* asynWriteConnection of a command.
Write ==
  /\ open /\ Len(sent) < MaxSent
  /\ \E cmd \in Written : /\ sent' = Append(sent, cmd)
                          /\ stream' = stream \o Ser(cmd)
  /\ UNCHANGED <<open, broken, read, received>>

\* The connection fails: the first n items arrive, the others are lost.
Break ==
  /\ open /\ open' = FALSE /\ broken' = TRUE
  /\ \E n \in 0 .. Len(stream) : stream' = SubSeq(stream, 1, n)
  /\ UNCHANGED <<read, sent, received>>

Known(items) == items[2] \in DOMAIN RA_CMD_TYPE
\* XSpace throws when it is read beyond its end.
Fits(items) ==
  LET order == CmdHead.unser \o Class[UnserHead(items).m_cmd_type].unser
  IN  Starts(items, order)[Len(order) + 1] <= Len(items) + 1

\* on_tcp_readv of a head reads the body into the same buffer, after the head.
HeadRead ==
  /\ read.stage = "head" /\ Len(stream) >= SA_CMD_HEAD_LEN
  /\ read' = [stage |-> "body", items |-> SubSeq(stream, 1, SA_CMD_HEAD_LEN)]
  /\ stream' = SubSeq(stream, SA_CMD_HEAD_LEN + 1, Len(stream))
  /\ UNCHANGED <<open, broken, sent, received>>

\* ... of a body: the next read is posted and the command handled.  The server
\* closes a connection that carries an unknown type and drops a command that is
\* too short.  Every class has a body.
BodyRead ==
  LET size == read.items[1]
      items == read.items \o SubSeq(stream, 1, size)
  IN
  /\ read.stage = "body" /\ Len(stream) >= size
  /\ stream' = SubSeq(stream, size + 1, Len(stream))
  /\ read' = HeadPosted /\ open' = (open /\ Known(items))
  /\ received' = IF Known(items) /\ Fits(items) THEN Append(received, Unser(items))
                 ELSE received
  /\ UNCHANGED <<broken, sent>>

\* A read that cannot be completed: on_read_connection closes, nothing is
\* posted.
ReadFails ==
  /\ ~open
  /\ \/ read.stage = "head" /\ Len(stream) < SA_CMD_HEAD_LEN
     \/ read.stage = "body" /\ Len(stream) < read.items[1]
  /\ read' = NoRead
  /\ UNCHANGED <<open, broken, stream, sent, received>>

Next == Write \/ Break \/ HeadRead \/ BodyRead \/ ReadFails

Spec == Init /\ [][Next]_vars

-----------------------------------------------------------------------------
\* rtpproxy_cmd.h: what a class's unser reads is what its ser wrote, whatever
\* command came before it on the connection and wherever it was cut.
Pipe == INSTANCE CommandPipe WITH Cmd <- Written
KeepsPipe == Pipe!PipeSpec

\* The length in a head is the one of the body: a read of a body waits for no
\* more than was written with the head, unless the connection has failed.
NoReadStarves ==
  read.stage = "body" /\ ~broken => Len(stream) >= read.items[1]
=============================================================================
