-------------------------- MODULE MCErrorHandler ---------------------------
(* The front ends of the runs.  The counter has two bits: four transfers   *)
(* in flight wrap it.                                                      *)
EXTENDS ErrorHandler

Anywhere == {"read", "write"}

(* Three transfers of one or two bursts, or four of one, and one error,    *)
(* continued; it may be reported while the front end is not ready for it.  *)
Mixed ==
    [answers |-> {"CONTINUE"}, bursts |-> {1, 2}, places |-> Anywhere, transfers |-> 3, faults |-> 1,
     misses |-> 1]
Wrapping == [Mixed EXCEPT !.bursts = {1}, !.transfers = 4]

(* One transfer of one or three bursts and two errors, the second while it *)
(* drains.                                                                 *)
Aborting ==
    [answers |-> {"ABORT", "CONTINUE"}, bursts |-> {1, 3}, places |-> Anywhere, transfers |-> 1,
     faults |-> 2, misses |-> 1]

(* One transfer, an error on either side. *)
TwoErrors ==
    {[answers |-> {"CONTINUE"}, bursts |-> {2}, places |-> Anywhere, transfers |-> 1, faults |-> 2,
      misses |-> 0]}

AllProfiles == {Mixed, Wrapping, Aborting} \cup TwoErrors

(* One transfer whose error may meet a front end that is not ready. *)
OneStall ==
    {[answers |-> {"CONTINUE"}, bursts |-> {2}, places |-> {"read"}, transfers |-> 1, faults |-> 1,
      misses |-> 1]}

(* As many transfers at once as the counter has values, and one error. *)
FourShort ==
    {[answers |-> {"ABORT"}, bursts |-> {1}, places |-> {"read"}, transfers |-> 4, faults |-> 1,
      misses |-> 0]}

(* One transfer whose reads alone fail and are aborted. *)
AbortedRead ==
    {[answers |-> {"ABORT"}, bursts |-> {2}, places |-> {"read"}, transfers |-> 1, faults |-> 1,
      misses |-> 0]}
============================================================================
