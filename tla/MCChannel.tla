------------------------------ MODULE MCChannel ------------------------------
(* Instances of Channel for TLC. *)
EXTENDS Channel

\* Main and sub commands that differ and are the same; the handler <<1, 1>> is the one
\* a message <<1, 2>> would go to if its sub command were lost, and <<2, 0>> the one that
\* a length of 2 would be taken for.
MCHandlers == {<<1, 1>>, <<1, 2>>, <<2, 0>>, <<2, 1>>}

\* A body that reads like an empty blob, one too short for a length, and none.
MCMessages == {[id |-> <<1, 2>>, body |-> <<0, 0>>], [id |-> <<2, 1>>, body |-> <<9>>],
               [id |-> <<1, 1>>, body |-> <<>>]}

MCStale == {0, 1}

=============================================================================
