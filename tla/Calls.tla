------------------------------- MODULE Calls -------------------------------
(***************************************************************************)
(* What a user of QRSimTCPClient relies on: one call at a time; the server *)
(* executes a call at most once, never before it is issued and in the      *)
(* order of issue, however many connections, clients and server processes  *)
(* there are; and a call answered "true" has been executed, nothing issued *)
(* after it has.                                                           *)
(***************************************************************************)
EXTENDS Naturals

CONSTANT MaxCalls   \* bound: how many calls are issued

VARIABLES issued,   \* the number of the latest call
          pending,  \* is it still waiting for its answer?
          executed, \* the number of the latest call executed
          told      \* was the latest call to return answered "true"?

callVars == <<issued, pending, executed, told>>

CallsInit == issued = 0 /\ pending = FALSE /\ executed = 0 /\ told = FALSE

Issue == /\ ~pending
         /\ issued < MaxCalls
         /\ issued' = issued + 1
         /\ pending' = TRUE
         /\ UNCHANGED <<executed, told>>

Execute(i) == /\ i \in executed + 1 .. issued
              /\ executed' = i
              /\ UNCHANGED <<issued, pending, told>>

Return(ok) == /\ pending
              /\ ok => executed = issued
              /\ pending' = FALSE
              /\ told' = ok
              /\ UNCHANGED <<issued, executed>>

\* The calling program ends, or a call is refused without being issued.
GiveUp == pending' = FALSE /\ told' = FALSE /\ UNCHANGED <<issued, executed>>

CallsNext == \/ Issue
             \/ \E i \in 1 .. MaxCalls : Execute(i)
             \/ \E ok \in BOOLEAN : Return(ok)
             \/ GiveUp

CallsSpec == CallsInit /\ [][CallsNext]_callVars
=============================================================================
