------------------------------ MODULE MCNmtMnu ------------------------------
(***************************************************************************)
(* Instances of NmtMnu for TLC.                                            *)
(***************************************************************************)
EXTENDS NmtMnu

CONSTANTS a, b

One == [cn |-> {a}, mandatory |-> {}, asyncOnly |-> {}, ready |-> TRUE, slow |-> {}, kinds |-> {}]
Two == [One EXCEPT !.cn = {a, b}, !.mandatory = {a}]

\* One CN and everything that may go wrong ...
Disturbed1  == [One EXCEPT !.kinds = Kinds, !.slow = {a}]
Optional    == {Disturbed1, [Disturbed1 EXCEPT !.ready = FALSE]}
Mandatory   == {[c EXCEPT !.mandatory = {a}] : c \in Optional}
AsyncOnly   == {[Disturbed1 EXCEPT !.asyncOnly = {a}]}
\* ... and two of which one is mandatory, on a quiet network.
AnyNetwork  == Optional \union Mandatory \union AsyncOnly \union {Two}

\* What the boot must survive: the disturbances that leave the timing alone.
Survived    == Kinds \ {"late", "slow", "cycle"}
CalmNetwork == {[Disturbed1 EXCEPT !.kinds = {"conf"}],
                [Disturbed1 EXCEPT !.slow = {}, !.kinds = Survived \ {"conf"}], Two}
=============================================================================
