------------------------ MODULE MCFindingLifecycle ------------------------
(* Small instances of FindingLifecycle: two tenants, an analyst and a reviewer. *)
EXTENDS FindingLifecycle, TLC

CONSTANTS t1, t2, north, south, ana, rev, idA, idB, idC

MCRoles == (ana :> {"SECURITY_ANALYST"}) @@ (rev :> {"SECURITY_REVIEWER"})

MCPrincipals == {[subject |-> ana, tenant |-> north], [subject |-> rev, tenant |-> north],
                 [subject |-> rev, tenant |-> south]}

Finding(id, tenant, mnemonic, severity, cve) ==
    [id |-> id, tenant |-> tenant, mnemonic |-> mnemonic, application |-> "app",
     repository |-> "repo", severity |-> severity, cve |-> cve, status |-> "OPEN"]

fA == Finding(idA, north, "PME", "CRITICAL", "CVE-1")
fB == Finding(idB, north, "PRE", "HIGH", None)
fC == Finding(idC, south, "PME", "HIGH", None)
\* the other tenant's finding, under an id that is taken
fX == Finding(idA, south, "PRE", "HIGH", None)

\* fA, submitted once more and in review
fR == [fA EXCEPT !.status = "IN_REVIEW"]

MCFindings == {fA, fB, fC, fR, fX}
\* a new finding; one already there, followed by another tenant's finding; and that
\* finding by itself
MCPayloads == {<<fB>>, <<fR, fX>>, <<fX>>}
\* an empty submission is all that SQL mode can complete
MCSqlPayloads == {<<fB>>, <<fC, fA>>, <<>>}
MCInitialRows == <<fA>>
MCServedRows == <<fA, fB, fC>>

Select(scope, target, cve, severity) ==
    [scope |-> scope, target |-> target, cve |-> cve, severity |-> severity]

MCSelectors == {Select("ENTERPRISE", None, None, None), Select("MNEMONIC", "PRE", None, None)}
MCAllSelectors == MCSelectors \cup
    {Select("APPLICATION", "app", "CVE-1", None), Select("REPOSITORY", "repo", None, "HIGH"),
     Select("APPLICATION", "other", None, None), Select("REPOSITORY", "other", None, None)}
=============================================================================
