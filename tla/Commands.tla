------------------------------ MODULE Commands ------------------------------
(***************************************************************************)
(* The commands SipProxy and RtpProxy exchange over TCP, and how they are  *)
(* written to a buffer and read back (rtpproxy_cmd.h).                     *)
(*                                                                         *)
(* An item is one field as XSpace holds it; lengths count items instead of *)
(* bytes.  A command is a function from the names of its fields to their   *)
(* values.  A class is given by the order in which ser writes and unser    *)
(* reads its fields after those of CmdHead.                                *)
(***************************************************************************)
EXTENDS Integers, SequencesExt

RTPPROXY_VERSION == 170727

\* The types of commands; a type is written as its number.
RA_CMD_TYPE ==
  <<"RA_GET_PORTS_REQ", "RA_GET_PORTS_RESP", "RA_START_CALL_REQ", "RA_START_CALL_RESP",
    "RA_FREE_PORTS_REQ", "RA_FREE_PORTS_RESP", "RA_STOP_CALL_REQ", "RA_STOP_CALL_RESP",
    "RA_BUILD_PATH_REQ", "RA_BUILD_PATH_RESP", "RA_ERROR_CALL_RESP", "RA_SHAKE_HAND_REQ",
    "RA_SHAKE_HAND_RESP", "RA_SIPPROXY_OFFLINE_REQ", "RA_SIPPROXY_OFFLINE_RESP",
    "RA_KEEP_ALIVE_REQ">>

CmdHead ==
  [ser   |-> <<"m_body_len", "m_cmd_type", "m_version", "m_cmd_id", "m_passwd",
               "m_send_resp_time", "m_recv_req_time">>,
   unser |-> <<"m_body_len", "m_cmd_type", "m_version", "m_cmd_id", "m_passwd",
               "m_send_resp_time", "m_recv_req_time">>]
SA_CMD_HEAD_LEN == 7

\* The parts of a request: a call, and lists written as their length and items.
CallInfoInner ==
  [ser   |-> <<"m_is_caller", "m_call_type", "m_caller", "m_caller_appkey", "m_callee",
               "m_callee_appkey", "m_call_id", "m_session_h", "m_session_l",
               "m_report_addr", "m_dest_rtp_addr">>,
   unser |-> <<"m_is_caller", "m_call_type", "m_caller", "m_caller_appkey", "m_callee",
               "m_callee_appkey", "m_call_id", "m_session_h", "m_session_l",
               "m_report_addr", "m_dest_rtp_addr">>]
PathInfoInner == {"m_path_info"}
ShortLinkInfo == {"m_short_link_info"}
ListFields == PathInfoInner \cup ShortLinkInfo \cup {"m_remoteAddrs"}

-----------------------------------------------------------------------------
GetPortsReq ==
  [ser   |-> <<"m_user_id", "m_sipproxy_id", "m_sipproxy_fake_id">>,
   unser |-> <<"m_user_id", "m_sipproxy_id", "m_sipproxy_fake_id">>]
GetPortsResp ==
  [ser   |-> <<"m_ec", "m_user_id", "m_portpair">>,
   unser |-> <<"m_ec", "m_user_id", "m_portpair">>]
FreePortsReq ==
  [ser   |-> <<"m_user_id", "m_portpair", "m_sipproxy_id", "m_sipproxy_fake_id">>,
   unser |-> <<"m_user_id", "m_portpair", "m_sipproxy_id", "m_sipproxy_fake_id">>]
FreePortResp == [ser |-> <<"m_ec">>, unser |-> <<"m_ec">>]
SipproxyOfflineReq ==
  [ser   |-> <<"m_sipproxy_id", "m_sipproxy_fake_id">>,
   unser |-> <<"m_sipproxy_id", "m_sipproxy_fake_id">>]
SipproxyOfflineResp == [ser |-> <<"m_ec">>, unser |-> <<"m_ec">>]
KeepConnetionAlive ==
  [ser   |-> <<"m_sipproxy_id", "m_sipproxy_fake_id">>,
   unser |-> <<"m_sipproxy_id", "m_sipproxy_fake_id">>]
\* Wrong variant: the pair is written where the user is read.
StartCallReqSwapped ==
  [ser   |-> <<"m_sipproxy_id", "m_sipproxy_fake_id", "m_portpair", "m_user_id">>
             \o CallInfoInner.ser \o <<"m_path_info", "m_short_link_info">>,
   unser |-> <<"m_sipproxy_id", "m_sipproxy_fake_id", "m_user_id", "m_portpair">>
             \o CallInfoInner.unser \o <<"m_path_info", "m_short_link_info">>]
StartCallReq ==
  [ser   |-> <<"m_sipproxy_id", "m_sipproxy_fake_id", "m_user_id", "m_portpair">>
             \o CallInfoInner.ser \o <<"m_path_info", "m_short_link_info">>,
   unser |-> <<"m_sipproxy_id", "m_sipproxy_fake_id", "m_user_id", "m_portpair">>
             \o CallInfoInner.unser \o <<"m_path_info", "m_short_link_info">>]
StartCallResp == [ser |-> <<"m_ec", "m_path_suc">>, unser |-> <<"m_ec", "m_path_suc">>]
BuildPathReq ==
  [ser   |-> <<"m_sipproxy_id", "m_sipproxy_fake_id", "m_user_id", "m_ports">>
             \o CallInfoInner.ser \o <<"m_path_info">>,
   unser |-> <<"m_sipproxy_id", "m_sipproxy_fake_id", "m_user_id", "m_ports">>
             \o CallInfoInner.unser \o <<"m_path_info">>]
BuildPathResp == [ser |-> <<"m_ec", "m_path_suc">>, unser |-> <<"m_ec", "m_path_suc">>]
StopCallReq ==
  [ser   |-> <<"m_sipproxy_id", "m_sipproxy_fake_id", "m_user_id", "m_ports">>
             \o CallInfoInner.ser,
   unser |-> <<"m_sipproxy_id", "m_sipproxy_fake_id", "m_user_id", "m_ports">>
             \o CallInfoInner.unser]
StopCallResp == [ser |-> <<"m_ec">>, unser |-> <<"m_ec">>]
ErrorCallResp ==
  [ser   |-> <<"m_rtp_addr", "m_call_id">>, unser |-> <<"m_rtp_addr", "m_call_id">>]
ShakeHandReq ==
  [ser   |-> <<"m_key_addr", "m_rudp_addr">>, unser |-> <<"m_key_addr", "m_rudp_addr">>]
ShakeHandResp ==
  [ser   |-> <<"m_key_addr", "m_rudp_addr", "m_remoteAddrs">>,
   unser |-> <<"m_key_addr", "m_rudp_addr", "m_remoteAddrs">>]

\* The class each constructor gives its m_cmd_type to.
Class ==
  [RA_GET_PORTS_REQ |-> GetPortsReq, RA_GET_PORTS_RESP |-> GetPortsResp,
   RA_START_CALL_REQ |-> StartCallReq, RA_START_CALL_RESP |-> StartCallResp,
   RA_FREE_PORTS_REQ |-> FreePortsReq, RA_FREE_PORTS_RESP |-> FreePortResp,
   RA_STOP_CALL_REQ |-> StopCallReq, RA_STOP_CALL_RESP |-> StopCallResp,
   RA_BUILD_PATH_REQ |-> BuildPathReq, RA_BUILD_PATH_RESP |-> BuildPathResp,
   RA_ERROR_CALL_RESP |-> ErrorCallResp,
   RA_SHAKE_HAND_REQ |-> ShakeHandReq, RA_SHAKE_HAND_RESP |-> ShakeHandResp,
   RA_SIPPROXY_OFFLINE_REQ |-> SipproxyOfflineReq,
   RA_SIPPROXY_OFFLINE_RESP |-> SipproxyOfflineResp,
   RA_KEEP_ALIVE_REQ |-> KeepConnetionAlive]

-----------------------------------------------------------------------------
\* A new command: head of the constructor, the fields given, 0 for the others.
NewCmd(type, fields) ==
  [f \in ToSet(CmdHead.ser) \cup ToSet(Class[type].ser) |->
     IF f \in DOMAIN fields THEN fields[f]
     ELSE IF f = "m_cmd_type" THEN type
     ELSE IF f = "m_version" THEN RTPPROXY_VERSION
     ELSE IF f \in ListFields THEN << >> ELSE 0]

\* constuct_resp_from_req copies what the answer is matched by.
RespTo(req, type, fields) ==
  NewCmd(type, [f \in {"m_passwd", "m_version", "m_cmd_id"} \cup DOMAIN fields |->
                  IF f \in DOMAIN fields THEN fields[f] ELSE req[f]])

SerField(cmd, f) ==
  IF f \in ListFields THEN <<Len(cmd[f])>> \o cmd[f]
  ELSE IF f = "m_cmd_type"
    THEN <<CHOOSE i \in DOMAIN RA_CMD_TYPE : RA_CMD_TYPE[i] = cmd[f]>>
  ELSE <<cmd[f]>>
SerFields(cmd) ==
  LET order == CmdHead.ser \o Class[cmd.m_cmd_type].ser
  IN  FlattenSeq([i \in DOMAIN order |-> SerField(cmd, order[i])])

\* Wrong variant: the head is counted in.
SerHeadCounted(cmd) == [SerFields(cmd) EXCEPT ![1] = Len(SerFields(cmd))]
\* ser: head, body, and then set_body_len over the first item.
Ser(cmd) == [SerFields(cmd) EXCEPT ![1] = Len(SerFields(cmd)) - SA_CMD_HEAD_LEN]

\* unser, field by field: a field starts where the one before it ends.
Starts(items, order) ==
  LET start[i \in 1 .. Len(order) + 1] ==
        IF i = 1 THEN 1
        ELSE IF order[i - 1] \notin ListFields THEN start[i - 1] + 1
        ELSE start[i - 1] + 1 + items[start[i - 1]]
  IN  start
UnserFields(items, order) ==
  LET start == Starts(items, order)
      Value(i) == IF order[i] \in ListFields
                    THEN SubSeq(items, start[i] + 1, start[i + 1] - 1)
                  ELSE IF order[i] = "m_cmd_type" THEN RA_CMD_TYPE[items[start[i]]]
                  ELSE items[start[i]]
  IN  [f \in ToSet(order) |-> Value(CHOOSE i \in DOMAIN order : order[i] = f)]

UnserHead(items) == UnserFields(items, CmdHead.unser)
Unser(items) ==
  UnserFields(items, CmdHead.unser \o Class[UnserHead(items).m_cmd_type].unser)
=============================================================================
