------------------------------- MODULE RxFifo -------------------------------
(***************************************************************************)
(* What the RX buffer queue promises to the application layer while the     *)
(* phone does not outrun it: the writes of the phone are a FIFO.  The main  *)
(* loop serves the oldest one; a write that carries a well-formed packet is *)
(* delivered, whole, exactly once, in the order of arrival, any other is    *)
(* rejected, and so may be a fragile one; only then is it removed.  At most *)
(* Capacity writes may wait while the main loop is idle, one more while it  *)
(* serves one.  A write that finds no room voids the promise, and the state *)
(* says so in overrun.                                                      *)
(***************************************************************************)
EXTENDS Naturals, Sequences

CONSTANTS Write,       \* what the phone may write
          Capacity,    \* writes that may wait while none is being served
          WellFormed,  \* the writes that carry a valid packet
          Fragile      \* the valid ones that an earlier write may spoil

VARIABLES pending,     \* the stored writes, oldest first
          phase,       \* of the main loop: "idle", "serving" or "served"
          delivered,   \* the last write whose packet was executed
          overrun      \* TRUE once a write found no room

fifoVars == <<pending, phase, delivered, overrun>>

Init ==
  /\ pending = <<>>
  /\ phase = "idle"
  /\ delivered = 0
  /\ overrun = FALSE

Room == Len(pending) < IF phase = "idle" THEN Capacity ELSE Capacity + 1

Store ==
  /\ Room
  /\ \E m \in Write : pending' = Append(pending, m)
  /\ UNCHANGED <<phase, delivered, overrun>>

Serve ==
  /\ phase = "idle" /\ pending # <<>>
  /\ phase' = "serving"
  /\ UNCHANGED <<pending, delivered, overrun>>

Deliver ==
  /\ phase = "serving" /\ Head(pending) \in WellFormed
  /\ phase' = "served"
  /\ delivered' = Head(pending)
  /\ UNCHANGED <<pending, overrun>>

Reject ==
  /\ phase = "serving" /\ Head(pending) \notin WellFormed \ Fragile
  /\ phase' = "served"
  /\ UNCHANGED <<pending, delivered, overrun>>

Remove ==
  /\ phase = "served"
  /\ phase' = "idle"
  /\ pending' = Tail(pending)
  /\ UNCHANGED <<delivered, overrun>>

(* The phone outruns the main loop: from here on nothing is promised. *)
Outrun ==
  /\ overrun \/ ~Room
  /\ overrun' = TRUE

Next == Store \/ Serve \/ Deliver \/ Reject \/ Remove \/ Outrun

Spec == Init /\ [][Next]_fifoVars
=============================================================================
