-------------------------------- MODULE Reply --------------------------------
(***************************************************************************)
(* What the router may count on for each request of a connection: chunks,  *)
(* if any, then one frame that ends the answer, and nothing after that but *)
(* an error frame that takes a final one back.  As long as the socket      *)
(* holds, the ending does come.                                            *)
(***************************************************************************)
CONSTANT Requests

VARIABLES
    alive,    \* is the socket open?
    reply     \* per request: none (not sent yet), owed, begun, complete (a
              \* final frame), ended (any other ending, or taken back)

Init == alive = TRUE /\ reply = [r \in Requests |-> "none"]

Becomes(r, from, to) ==
    /\ alive
    /\ reply[r] \in from
    /\ reply' = [reply EXCEPT ![r] = to]
    /\ UNCHANGED alive

Ask(r) == Becomes(r, {"none"}, "owed")
Begin(r) == Becomes(r, {"owed"}, "begun")
Complete(r) == Becomes(r, {"owed", "begun"}, "complete")
End(r) == Becomes(r, {"owed"}, "ended")
TakeBack(r) == Becomes(r, {"complete"}, "ended")
Drop == alive /\ alive' = FALSE /\ UNCHANGED reply

Next ==
    \/ \E r \in Requests :
          Ask(r) \/ Begin(r) \/ Complete(r) \/ End(r) \/ TakeBack(r)
    \/ Drop

\* Stated as what it leads to: what is owed comes, or the socket drops.
Answers ==
    \A r \in Requests :
        reply[r] \in {"owed", "begun"} ~> (~alive \/ reply[r] \in {"complete", "ended"})

SafeSpec == Init /\ [][Next]_<<alive, reply>>

Spec == SafeSpec /\ Answers
=============================================================================
