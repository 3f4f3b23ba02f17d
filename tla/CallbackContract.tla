--------------------------- MODULE CallbackContract ---------------------------
(***************************************************************************)
(* What the callback queue promises to the functions that call it: a call  *)
(* is either given up before R has seen it, or lent to R, and then the     *)
(* caller waits until the answer to its own input is there.  R runs a call *)
(* at most once, and runs nothing for a query that is stopping.            *)
(***************************************************************************)
EXTENDS CallLease

CONSTANT NoThread

VARIABLES
  value,       (* whose input the answer was computed from                 *)
  answer       (* what the last call of each thread returned               *)

vars == <<leaseVars, value, answer>>

Init ==
  /\ LeaseInit
  /\ value = [t \in Threads |-> NoThread]
  /\ answer = [t \in Threads |-> "none"]

Called(t, o) ==
  /\ Ask(t, o)
  /\ answer' = [answer EXCEPT ![t] = "none"]
  /\ UNCHANGED value

GivenUp(t, why) ==
  /\ GiveUp(t)
  /\ answer' = [answer EXCEPT ![t] = why]
  /\ UNCHANGED value

Replied(t, good) ==
  /\ Reply(t, good)
  /\ value' = [value EXCEPT ![t] = IF good THEN t ELSE NoThread]
  /\ UNCHANGED answer

(* a good answer may still fail to reach DuckDB *)
Returned(t, written) ==
  /\ Return(t)
  /\ answer' = [answer EXCEPT ![t] = IF value[t] = t /\ written THEN "ok" ELSE "error"]
  /\ value' = [value EXCEPT ![t] = NoThread]

Next ==
  \/ \E t \in Threads, o \in Owners \cup {NoOwner} : Called(t, o)
  \/ \E t \in Threads, why \in {"error", "cancelled", "timeout"} : GivenUp(t, why)
  \/ \E t \in Threads : Lend(t) /\ UNCHANGED <<value, answer>>
  \/ \E S \in SUBSET Threads, o \in Owners \cup {NoOwner}, good \in BOOLEAN :
       Run(S, o, good) /\ UNCHANGED <<value, answer>>
  \/ \E t \in Threads, good \in BOOLEAN : Replied(t, good)
  \/ \E t \in Threads, written \in BOOLEAN : Returned(t, written)
  \/ \E o \in Owners : Stop(o) /\ UNCHANGED <<value, answer>>

Spec == Init /\ [][Next]_vars
=============================================================================
