------------------------------ MODULE MCLogins -------------------------------
(* Small instances of Logins for TLC. *)
EXTENDS Logins, TLC

CONSTANTS c1, c2, m1, m2

\* One client, which may leave and come back.
Alone == c1 :> m1

\* Two clients of one machine.
Together == (c1 :> m1) @@ (c2 :> m1)
=============================================================================
