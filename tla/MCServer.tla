------------------------------ MODULE MCServer ------------------------------
EXTENDS Server

\* A server, the doctor, and a reconciliation with another DATA_DIR.
MCKind == [p \in Process |-> CASE p = "s" -> "serve" [] p = "d" -> "doctor" [] OTHER -> "reconcile"]
MCLocksOf == [p \in Process |-> IF p = "r" THEN {2, 3} ELSE {1, 2}]
MCHasPassword == [p \in Process |-> p # "r"]

MCKey == [source |-> {"s1", "s2", "s3"}, account |-> {"a1", "a2"}]
MCBurst == [source |-> 2, account |-> 1]
MCRefill == [source |-> 1, account |-> 2]
MCCapacity == [source |-> 2, account |-> 1]

MCDirectory == {<<"blobs", "a">>, <<"blobs">>, <<"uploads">>}

\* Faults are few, and logins and administrators are looked at one at a time,
\* with one server and no fault but its kill.
Apart ==
    LET logins == table # Fresh.table \/ waiting + running + detached > 0
        users == requests > 0
    IN  /\ writes + kills <= 2
        /\ ~(logins /\ users)
        /\ logins \/ users => writes = 0 /\ \A p \in Process \ {"s"} : pc[p] = "off"
=============================================================================
