------------------------------ MODULE MCSdoCom ------------------------------
EXTENDS SdoCom, TLC

Sizes == "big" :> 3 @@ "mid" :> 2 @@ "const" :> 1
T(c, o, n) == [cmd |-> c, o |-> o, n |-> n]

\* In one frame and in segments, with a buffer that is too small, more data
\* than the object holds, and an object that may not be written.
AllTransfers == {T("write", "big", 3), T("write", "mid", 2), T("write", "mid", 3),
                 T("write", "const", 1), T("read", "const", 1), T("read", "big", 3),
                 T("read", "big", 2)}
Second == {T("write", "mid", 2)}
=============================================================================
