-------------------------- MODULE MCPipelineBatch --------------------------
(* Every kind of finding the pipeline tells apart, two ids, batches of two. *)
EXTENDS PipelineBatch

CONSTANTS idA, idB

MCFindings ==
    [id : {idA, idB}, severity : Severities, cve : BOOLEAN, cvss : {NoCvss, 350, 950},
     category : {"DEPENDENCY", "SQL_INJECTION", "XSS", "SECRETS_EXPOSURE", "SAST"}]
=============================================================================
