----------------------------- MODULE MCCnnMixer -----------------------------
(* An instance of CnnMixer for TLC: a command of every type, its fields all   *)
(* different, the lists of none, one or two items.                            *)
EXTENDS CnnMixer

Numbered(type, lists) ==
  LET order == CmdHead.ser \o Class[type].ser
  IN  NewCmd(type, [f \in ToSet(order) \ {"m_cmd_type"} |->
                      IF f \in ListFields THEN lists[f]
                      ELSE 20 + CHOOSE i \in DOMAIN order : order[i] = f])
Lists == {<< >>, <<101, 102>>}
MCCmd == {Numbered(type, lists) :
            type \in ToSet(RA_CMD_TYPE), lists \in [ListFields -> Lists]}
=============================================================================
