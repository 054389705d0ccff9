------------------------------ MODULE MCSdoSeq ------------------------------
EXTENDS SdoSeq, TLC
CONSTANTS client, server
SendBound == client :> 2 @@ server :> 4
=============================================================================
