------------------------------ MODULE MCLogin ------------------------------
(***************************************************************************)
(* Instances of LoginProtocol for TLC: every client logs in to the same    *)
(* account.                                                                *)
(***************************************************************************)
EXTENDS LoginProtocol, TLC

CONSTANT player

MCAccount == [c \in Clients |-> player]

\* Every loginapp has its clients: with one of them, all; with two, some each.
MCHome == CHOOSE f \in [Clients -> LoginApps] :
             \A la \in LoginApps : \E c \in Clients : f[c] = la

=============================================================================
