------------------------------ MODULE Broadcast ------------------------------
(***************************************************************************)
(* What a message queue promises to one writer and many readers: every     *)
(* reader gets every message, in the order of the writes, and the writer   *)
(* waits for a reader that is too far behind.                              *)
(***************************************************************************)
EXTENDS Naturals, Sequences

CONSTANTS Readers, Window

VARIABLES sent, got

Init == sent = 0 /\ got = [r \in Readers |-> <<>>]

Send == /\ \A r \in Readers : sent - Len(got[r]) < Window
        /\ sent' = sent + 1
        /\ UNCHANGED got

Receive(r) == /\ Len(got[r]) < sent
              /\ got' = [got EXCEPT ![r] = Append(@, Len(@) + 1)]
              /\ UNCHANGED sent

Next == Send \/ \E r \in Readers : Receive(r)

Spec == Init /\ [][Next]_<<sent, got>>
=============================================================================
