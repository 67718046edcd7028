------------------------------ MODULE UserCall ------------------------------
(***************************************************************************)
(* What the caller of a service is promised: one request is answered once, *)
(* and a user who asked to wait for the result, and whose request was      *)
(* answered with success, may receive one notification after that.  While  *)
(* the service is up every request is answered in the end.                 *)
(***************************************************************************)
EXTENDS Sequences

CONSTANTS
  Requests,
  Codes     (* what an answer may say, success being "OK"                  *)

VARIABLES
  up,     (* the service runs                                              *)
  asked,  (* requests that were made                                       *)
  waits,  (* those whose user waits for the result                         *)
  out     (* what the user received for each request                       *)

vars == <<out, asked, up, waits>>

Unanswered == {r \in asked : out[r] = <<>>}

(* A request is taken, or turned down at once.                             *)
Ask(r) ==
  /\ up /\ r \notin asked
  /\ asked' = asked \cup {r}
  /\ waits' \in {waits, waits \cup {r}}
  /\ \/ UNCHANGED out
     \/ \E c \in Codes \ {"OK"} : out' = [out EXCEPT ![r] = <<c>>]
  /\ UNCHANGED up

(* One event may end several requests: a lost connection fails all that    *)
(* use it.                                                                 *)
AnswerAll(R) ==
  /\ up /\ R \subseteq Unanswered
  /\ \E c \in Codes :
       out' = [r \in Requests |-> IF r \in R THEN <<c>> ELSE out[r]]
  /\ UNCHANGED <<up, asked, waits>>

Answer(r) == \E R \in SUBSET Unanswered : r \in R /\ AnswerAll(R)

Notify(r) ==
  /\ up /\ r \in waits
  /\ out[r] = <<"OK">>
  /\ out' = [out EXCEPT ![r] = Append(@, "NOTIFY")]
  /\ UNCHANGED <<up, asked, waits>>

Stop == up /\ up' = FALSE /\ UNCHANGED <<asked, waits, out>>

Init == up = TRUE /\ asked = {} /\ waits = {} /\ out = [r \in Requests |-> <<>>]

Next == \/ \E r \in Requests : Ask(r) \/ Answer(r) \/ Notify(r)
        \/ Stop

Spec == Init /\ [][Next]_vars
LiveSpec == Spec /\ \A r \in Requests : WF_vars(Answer(r))
=============================================================================
