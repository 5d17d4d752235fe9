--------------------------- MODULE MCAdminAccess ----------------------------
(* AdminAccess with model values for passwords and secrets.                *)
EXTENDS AdminAccess, TLC

CONSTANTS p1, p2, p3, s1, s2

MCPasswords == {p1, p2, p3}
MCSecrets == {s1, s2}
=============================================================================
