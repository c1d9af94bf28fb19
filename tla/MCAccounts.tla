----------------------------- MODULE MCAccounts -----------------------------
(* Two worker threads; the built-in accounts, two new e-mails and one of them *)
(* in capitals.                                                               *)
EXTENDS Accounts, TLC

CONSTANTS t1, t2, analyst, reviewer, admin, ada, ADA, bob, pw, pw2

MCEmails == {analyst, reviewer, admin, ada, ADA, bob}
MCLower == [e \in MCEmails |-> IF e = ADA THEN ada ELSE e]
MCAskedRoles == {"SECURITY_REVIEWER", "PLATFORM_ADMIN"}

BuiltIn(id, role) == [password |-> pw, id |-> id, role |-> role]

MCSeeded == (analyst :> BuiltIn(1, "SECURITY_ANALYST"))
         @@ (reviewer :> BuiltIn(2, "SECURITY_REVIEWER"))
         @@ (admin :> BuiltIn(3, "PLATFORM_ADMIN"))
=============================================================================
