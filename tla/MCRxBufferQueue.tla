--------------------------- MODULE MCRxBufferQueue ---------------------------
(* The RX buffer queue at its real length over two and a half laps: every    *)
(* third write is malformed, two slots keep a byte of a longer write, and    *)
(* a third is cleared before the odd packet comes.                           *)
EXTENDS RxBufferQueue

MCWellFormed == {m \in 1 .. MaxWrites : m % 3 # 0}

MCOdd == {7, 10, 11, 18, 20}

MCDirty == {2, 4}

MCClean == {12}
=============================================================================
