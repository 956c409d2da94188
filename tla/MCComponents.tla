--------------------------- MODULE MCComponents ---------------------------
(***************************************************************************)
(* Components that share no state with the database node's transactions    *)
(* nor with each other, put side by side for TLC: every behaviour is one   *)
(* of a single component, the one in focus, and the others stay where they *)
(* are.                                                                    *)
(***************************************************************************)
EXTENDS ClientLocker, LoopTimer, Repeater, Client

\* A coordinator asks a member for its lock and gives up; the late answer of the
\* member makes it unlock the member again (dbnode.go:484-491, 955-1011).
AbortedWrite == <<[type |-> "NodeLockRequestNoTimeout", unlimited |-> FALSE],
                  [type |-> "NodeUnlockRequest", unlimited |-> TRUE],
                  [type |-> "NodeUnlockRequest", unlimited |-> TRUE]>>

VARIABLE focus

vars == <<focus, lockerVars, loopVars, repeaterVars, clientVars>>

Init ==
  /\ focus \in {"locker", "loop", "repeater", "client"}
  /\ LockerInit /\ LoopInit /\ RepeaterInit /\ ClientInit

Locker      == focus = "locker"
MainLoop    == focus = "loop"
Repeating   == focus = "repeater"
Calling     == focus = "client"

LockerAlone   == UNCHANGED <<focus, loopVars, repeaterVars, clientVars>>
MainLoopAlone == UNCHANGED <<focus, lockerVars, repeaterVars, clientVars>>
RepeaterAlone == UNCHANGED <<focus, lockerVars, loopVars, clientVars>>
ClientAlone   == UNCHANGED <<focus, lockerVars, loopVars, repeaterVars>>

Next ==
  \/ Locker /\ LockerNext /\ LockerAlone
  \/ MainLoop /\ LoopNext /\ MainLoopAlone
  \/ Repeating /\ RepeaterNext /\ RepeaterAlone
  \/ Calling /\ ClientNext /\ ClientAlone

\* The fairness of each component, for the behaviours in which it is in focus.
Fairness ==
  /\ \A c \in Clients :
       /\ WF_vars(Locker /\ DaemonStep(c) /\ LockerAlone)
       /\ WF_vars(Locker /\ Execute(c) /\ LockerAlone)
  /\ WF_vars(MainLoop /\ Arm /\ MainLoopAlone)
  /\ WF_vars(MainLoop /\ Post /\ MainLoopAlone)
  /\ WF_vars(MainLoop /\ LoopStep /\ MainLoopAlone)
  /\ WF_vars(Repeating /\ (\E i \in Request : Round(i)) /\ RepeaterAlone)
  /\ WF_vars(Repeating /\ (\E i \in Request : Deliver(i)) /\ RepeaterAlone)
  /\ WF_vars(Repeating /\ (\E type \in AnswerTypes : Ack(type)) /\ RepeaterAlone)
  /\ WF_vars(Repeating /\ RepeaterRecover /\ RepeaterAlone)

Spec == Init /\ [][Next]_vars /\ Fairness
=============================================================================
