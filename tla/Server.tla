------------------------------- MODULE Server -------------------------------
(***************************************************************************)
(* The commands that take hold of an instance, and what the one that       *)
(* serves admits: device logins and the requests of administrators.  Both  *)
(* need the process at work, and end with it: the login tables live in its *)
(* memory, the users in the database (main.rs).                            *)
(***************************************************************************)
EXTENDS ServerStart, LoginAdmission, Accounts

serverVars == <<startVars, loginVars, accountVars>>

Serving == \E p \in Process : Kind[p] = "serve" /\ pc[p] = "work"

\* A process starts, stops or is killed; what it admitted goes with it.
ProcessStep ==
    /\ StartNext
    /\ IF Serving /\ ~Serving'
       THEN LoginReset /\ AccountsStop
       ELSE UNCHANGED <<loginVars, accountVars>>

LoginStep ==
    /\ Serving
    /\ LoginNext
    /\ UNCHANGED <<startVars, accountVars>>

AccountStep ==
    /\ Serving
    /\ AccountsNext
    /\ UNCHANGED <<startVars, loginVars>>

ServerInit == StartInit /\ LoginInit /\ AccountsInit

ServerNext == ProcessStep \/ LoginStep \/ AccountStep

ServerSpec == ServerInit /\ [][ServerNext]_serverVars

=============================================================================
