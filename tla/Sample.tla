------------------------------- MODULE Sample -------------------------------
(***************************************************************************)
(* Functions without state are checked over samples of their arguments.  A *)
(* behavior holds one sample for ever: there is nothing to schedule.       *)
(***************************************************************************)
CONSTANT Samples   \* the items to try, by kind

VARIABLE sample

Init ==
  \E kind \in DOMAIN Samples :
    \E it \in Samples[kind] : sample = [kind |-> kind, item |-> it]

Next == UNCHANGED sample

Spec == Init /\ [][Next]_sample

Is(kind) == sample.kind = kind

item == sample.item
=============================================================================
