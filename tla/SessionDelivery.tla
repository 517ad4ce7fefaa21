---------------------------- MODULE SessionDelivery ----------------------------
(***************************************************************************)
(* What stream management promises for the stanzas a server sends: each of *)
(* its sessions is handled by the client in order, exactly once, whatever  *)
(* happens to the streams that carry it.                                   *)
(***************************************************************************)
EXTENDS Naturals, Sequences

VARIABLES
    sent,    \* sent[s]: stanzas the server sent in its s-th session
    got      \* got[s]: the stanzas of session s in the order they were handled

vars == <<sent, got>>

Init == sent = <<>> /\ got = <<>>

Open == /\ sent' = Append(sent, 0)
        /\ got' = Append(got, <<>>)

\* Only the newest session sends; an older one may still be handled.
Post == /\ sent # <<>>
        /\ sent' = [sent EXCEPT ![Len(sent)] = @ + 1]
        /\ UNCHANGED got

Handle(s) == /\ Len(got[s]) < sent[s]
             /\ got' = [got EXCEPT ![s] = Append(@, Len(@) + 1)]
             /\ UNCHANGED sent

Next == Open \/ Post \/ \E s \in DOMAIN got : Handle(s)

Spec == Init /\ [][Next]_vars
================================================================================
