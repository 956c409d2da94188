------------------------------ MODULE Register ------------------------------
(***************************************************************************)
(* What the strongly consistent database promises its clients: one         *)
(* register whose committed values form a single history.  A write is      *)
(* reported when it is appended, with its place as timestamp; a strong     *)
(* write succeeds only at the place it demands; a read reports a value     *)
(* at least as new as the register was when the read was requested.        *)
(***************************************************************************)
EXTENDS Naturals, Sequences

CONSTANTS Txn, Kind, ExpectedTs

VARIABLES
  history,     \* the values committed, oldest first
  issued,      \* transactions requested
  floor,       \* length of the history when each transaction was requested
  replies      \* what clients have been told

registerVars == <<history, issued, floor, replies>>

Answered(t) == \E r \in replies : r.id = t
ReplyType(t) == IF Kind[t] = "ClientReadRequest" THEN "ClientReadResponse"
                                                 ELSE "ClientWriteResponse"
Tell(t, ts, val, ok) ==
  replies' = replies \cup {[type |-> ReplyType(t), id |-> t, ts |-> ts, val |-> val, ok |-> ok]}

\* The value at a place of the history; place 0 is the empty register.
ValueAt(k) == IF k = 0 THEN 0 ELSE history[k]

Ask(t) ==
  /\ t \notin issued
  /\ issued' = issued \cup {t}
  /\ floor' = [floor EXCEPT ![t] = Len(history)]
  /\ UNCHANGED <<history, replies>>

Write(t) ==
  /\ t \in issued /\ ~Answered(t) /\ Kind[t] # "ClientReadRequest"
  /\ Kind[t] = "ClientStrongWriteRequest" => ExpectedTs[t] = Len(history) + 1
  /\ history' = Append(history, t)
  /\ Tell(t, Len(history) + 1, t, TRUE)
  /\ UNCHANGED <<issued, floor>>

Read(t) ==
  /\ t \in issued /\ ~Answered(t) /\ Kind[t] = "ClientReadRequest"
  /\ \E k \in floor[t]..Len(history) : Tell(t, k, ValueAt(k), TRUE)
  /\ UNCHANGED <<history, issued, floor>>

\* processLocalRead answers as soon as it is asked.
ReadAtOnce(t) ==
  /\ t \notin issued /\ Kind[t] = "ClientReadRequest"
  /\ issued' = issued \cup {t}
  /\ floor' = [floor EXCEPT ![t] = Len(history)]
  /\ Tell(t, Len(history), ValueAt(Len(history)), TRUE)
  /\ UNCHANGED history

\* Any transaction may fail, and then has no effect.
Refuse(t) ==
  /\ t \in issued /\ ~Answered(t)
  /\ \E ts \in {0, ExpectedTs[t], Len(history) + 1} : Tell(t, ts, t, FALSE)
  /\ UNCHANGED <<history, issued, floor>>

Init ==
  /\ history = <<>> /\ issued = {} /\ replies = {}
  /\ floor = [t \in Txn |-> 0]

Next == \E t \in Txn :
  Ask(t) \/ Write(t) \/ Read(t) \/ ReadAtOnce(t) \/ Refuse(t)

Spec == Init /\ [][Next]_registerVars

=============================================================================
