------------------------------ MODULE Crossing ------------------------------
(***************************************************************************)
(* What the bridge promises, without webhooks, claims or registries: what  *)
(* people write on one side is copied to the other once, what the bridge   *)
(* wrote itself is never copied, and a message is receipted (HTTP 200)     *)
(* only after its copy exists.                                             *)
(***************************************************************************)
EXTENDS Integers

CONSTANT Messages  \* whatever can appear on either side

VARIABLES said,      \* messages people wrote
          copies,    \* Messages -> number of copies on the other side
          receipted  \* said messages a webhook of which was acknowledged

Init ==
    /\ said = {}
    /\ copies = [m \in Messages |-> 0]
    /\ receipted = {}

Say(m) ==
    /\ m \notin said
    /\ said' = said \cup {m}
    /\ UNCHANGED <<copies, receipted>>

Copy(m) ==
    /\ m \in said /\ copies[m] = 0
    /\ copies' = [copies EXCEPT ![m] = 1]
    /\ UNCHANGED <<said, receipted>>

Receipt(m) ==
    /\ m \in said /\ copies[m] = 1
    /\ receipted' = receipted \cup {m}
    /\ UNCHANGED <<said, copies>>

Next == \E m \in Messages : Say(m) \/ Copy(m) \/ Receipt(m)

Spec == Init /\ [][Next]_<<said, copies, receipted>>

=============================================================================
