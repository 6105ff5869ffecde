----------------------------- MODULE MCExchange -----------------------------
(* Instances of Exchange for TLC. *)
EXTENDS Exchange

CONSTANTS s1, s2, c1, c2, c3, p1

MCConnOf == [c \in {c1, c2, c3} |-> IF c = c3 THEN s2 ELSE s1]

\* A SipProxy asks for types in turn; paths are given where asked for.
Asks(types, sips, paths) ==
  [t \in DOMAIN types |->
     [sip |-> sips[t], type |-> types[t], user |-> 1, call |-> 2, path |-> paths[t]]]
InTurn(n) == [t \in 1 .. n |-> 1 .. t - 1]
NoPair == [s \in {s1, s2} |-> None]
Built(v) == [s \in {s1, s2} |-> IF s = s1 THEN v ELSE RTPPROXY_VERSION]

\* Every command once, of the server's version or of another.
Tour(v) ==
  [ask |-> Asks(<<"RA_GET_PORTS_REQ", "RA_START_CALL_REQ", "RA_BUILD_PATH_REQ",
                  "RA_STOP_CALL_REQ", "RA_FREE_PORTS_REQ", "RA_SIPPROXY_OFFLINE_REQ",
                  "RA_SHAKE_HAND_REQ">>,
                [t \in 1 .. 7 |-> s1],
                [t \in 1 .. 7 |-> IF t = 3 THEN <<1>> ELSE << >>]),
   before |-> InTurn(7), late |-> {2}, conns |-> {c1}, alive |-> {c1},
   broken |-> {}, version |-> Built(v),
   told |-> [NoPair EXCEPT ![s1] = IF v = RTPPROXY_VERSION THEN None ELSE p1]]

\* A call on two connections whose start_call may be given up; build_path with
\* no paths.
Call ==
  [ask |-> Asks(<<"RA_GET_PORTS_REQ", "RA_START_CALL_REQ", "RA_STOP_CALL_REQ",
                  "RA_BUILD_PATH_REQ">>,
                [t \in 1 .. 4 |-> s1], <<<< >>, <<1>>, << >>, << >>>>),
   before |-> InTurn(4), late |-> {2}, conns |-> {c1, c2},
   alive |-> {}, broken |-> {},
   version |-> Built(RTPPROXY_VERSION), told |-> NoPair]

\* Two SipProxies want the one pair; the first is slow to give it back.
Share ==
  [ask |-> Asks(<<"RA_GET_PORTS_REQ", "RA_FREE_PORTS_REQ", "RA_SIPPROXY_OFFLINE_REQ",
                  "RA_GET_PORTS_REQ">>,
                <<s1, s1, s1, s2>>, [t \in 1 .. 4 |-> << >>]),
   before |-> [InTurn(4) EXCEPT ![4] = {}], late |-> {2},
   conns |-> {c1, c2, c3}, alive |-> {}, broken |-> {c2},
   version |-> Built(RTPPROXY_VERSION), told |-> NoPair]

\* Keep-alives on two connections that may be closed, and a call.
Alive ==
  [ask |-> Asks(<<"RA_GET_PORTS_REQ", "RA_START_CALL_REQ">>, <<s1, s1>>, <<<< >>, <<1>>>>),
   before |-> InTurn(2), late |-> {}, conns |-> {c1, c2}, alive |-> {c1, c2},
   broken |-> {c1, c2}, version |-> Built(RTPPROXY_VERSION), told |-> NoPair]

MCScript == {Tour(RTPPROXY_VERSION), Tour(1), Call, Share, Alive}
=============================================================================
