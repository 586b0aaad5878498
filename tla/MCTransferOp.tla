---------------------------- MODULE MCTransferOp ----------------------------
(***************************************************************************)
(* Bounds for model-checking TransferOp: how often each button is pressed. *)
(***************************************************************************)
EXTENDS TransferOp

Once(bs) == [b \in Button |-> IF b \in bs THEN 1 ELSE 0]

StopOnce == Once({"accept", "sendStop", "receiveStop"})

Answers == Once(Button \ {"restart", "sendRemove"})

\* The offer is accepted, stopped by the sender, restarted and accepted again, and
\* either end may remove its op at any time it is shown the button.
RestartRemoved ==
    [Once({"restart", "sendStop", "sendRemove", "receiveRemove"}) EXCEPT !["accept"] = 2]

AllFaults == Fault
=============================================================================
