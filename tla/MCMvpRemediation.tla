-------------------------- MODULE MCMvpRemediation --------------------------
(* Two findings in one file and another tenant's, under the first one's id and *)
(* CWE, hence with its branch name, of a category without a rewriting.  The    *)
(* literal of the first is in the string that the second one replaces.         *)
EXTENDS MvpRemediation, TLC

CONSTANTS t1, t2, north, south, idA, idB, app, web, cwe89, cwe798

Finding(id, tenant, category, file, branch) ==
    [id |-> id, tenant |-> tenant, category |-> category, file |-> file, branch |-> branch]

MCFindings ==
    {Finding(idA, north, "SQL_INJECTION", app, cwe89), Finding(idB, north, "SECRETS_EXPOSURE", app, cwe798),
     Finding(idA, south, "SAST", web, cwe89)}

Text(code, first) == [code |-> code, first |-> first, quoted |-> TRUE, nested |-> 0, whole |-> TRUE]

ThreadSymmetry == Permutations(Threads)

MCSource ==
    [file \in {app, web} |-> IF file = app THEN Text({}, {"SQL_INJECTION"}) ELSE Text({}, {})]
=============================================================================
