----------------------------- MODULE RemoteCall ------------------------------
(***************************************************************************)
(* What a constructor or connectSignal promises to its caller, whatever    *)
(* thread that is: the work is done once, the call returns after it, and   *)
(* it throws exactly if the work has failed.                               *)
(***************************************************************************)
CONSTANTS
    Calls,
    CanFail  \* the calls whose work can fail

VARIABLE status

Init == status = [c \in Calls |-> "idle"]

Move(c, from, to) == status[c] = from /\ status' = [status EXCEPT ![c] = to]

Start(c) == Move(c, "idle", "pending")

Work(c) == Move(c, "pending", "made") \/ (c \in CanFail /\ Move(c, "pending", "failed"))

Return(c) == Move(c, "made", "returned")

Throw(c) == Move(c, "failed", "threw")

Next == \E c \in Calls : Start(c) \/ Work(c) \/ Return(c) \/ Throw(c)

Spec == Init /\ [][Next]_status
==============================================================================
