----------------------------- MODULE SessionLog -----------------------------
(***************************************************************************)
(* What one persisted session is to its clients: nothing, or a log of the  *)
(* user messages of its turns with the number of turns.  A turn is added   *)
(* in one step to the log as it stands: no turn is lost, none is counted   *)
(* twice, and only a DELETE takes anything away.                           *)
(***************************************************************************)
EXTENDS Naturals

CONSTANTS Requests,     \* the client requests; a turn is named by its request
          NoSession     \* the session does not exist

VARIABLE log            \* NoSession, or [turns, msgs]

Empty == [turns |-> 0, msgs |-> {}]
Current == IF log = NoSession THEN Empty ELSE log

Init == log = NoSession

\* A session that holds no turn yet appears.
Open == log = NoSession /\ log' = Empty

\* One turn ends; its user message is r's, or none (an internal iteration).
AddTurn(said) == log' = [turns |-> Current.turns + 1, msgs |-> Current.msgs \cup said]

Erase == log' = NoSession

Next == \/ Open
        \/ Erase
        \/ AddTurn({})
        \/ \E r \in Requests : AddTurn({r})

Spec == Init /\ [][Next]_log
=============================================================================
