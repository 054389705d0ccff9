--------------------------------- MODULE MCNmt --------------------------------
(* Instances of Nmt for TLC: a controlled node and a managing node.          *)
EXTENDS Nmt

(* A node under all kinds of resets ...                                      *)
ResetCommands ==
    [r \in {"CN", "MN"} |->
        {"SwReset", "SwitchOff", "ResetNode", "ResetCom", "ResetConfig",
         "StartNode"}]
(* ... and one that starts up again and again: a CN goes up and down between *)
(* PreOp1 and Operational, an MN between NotActive and its PreOp states.     *)
BootCommands ==
    [CN |-> {"SwReset", "StartNode", "StopNode", "EnterPreOperational2",
             "EnableReadyToOperate"},
     MN |-> {"SwReset", "ResetConfig"}]
OnlySoc       == {"DllCeSoc"}
===============================================================================
