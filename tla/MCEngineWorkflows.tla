-------------------------- MODULE MCEngineWorkflows --------------------------
(* Two processes, one with two threads; two tenants; findings on both sides    *)
(* of the gate, two of them under one id.                                      *)
EXTENDS EngineWorkflows, TLC

CONSTANTS r1, r2, t1, t2, t3, north, south, ana, idA, idB, idC

MCHome == (t1 :> r1) @@ (t2 :> r1) @@ (t3 :> r2)

MCPrincipals == {[subject |-> ana, tenant |-> north], [subject |-> ana, tenant |-> south]}

Finding(id, tenant, severity, cve, category) ==
    [id |-> id, tenant |-> tenant, severity |-> severity, cve |-> cve,
     cvss |-> NoCvss, category |-> category]

fA == Finding(idA, north, "CRITICAL", TRUE, "DEPENDENCY")
fB == Finding(idB, north, "CRITICAL", FALSE, "SAST")
fC == Finding(idC, south, "HIGH", FALSE, "XSS")
fD == Finding(idB, north, "LOW", TRUE, "SAST")

MCFindings == {fA, fB, fC, fD}
MCInitialRows == <<fC, fA>>
MCArrivals == {fB, fD}
MCSelections == {{}, {idA}, {idA, idB}}
=============================================================================
