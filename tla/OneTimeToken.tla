---------------------------- MODULE OneTimeToken ----------------------------
(***************************************************************************)
(* What pairing promises of the tokens it makes: each is made at most      *)
(* once, passes from the relay through one answer to the reader, can be    *)
(* lost at any point of the way, and once it is gone nobody has it again.  *)
(* A reader keeps one token at a time.                                     *)
(***************************************************************************)
CONSTANT Token

VARIABLE place  \* of each token: where its plaintext is

Init == place = [t \in Token |-> "unmade"]

Move(t, from, to) == place[t] = from /\ place' = [place EXCEPT ![t] = to]

Make(t)     == Move(t, "unmade", "relay")
HandOver(t) == Move(t, "relay", "answer")
Keep(t)     == Move(t, "answer", "reader") /\ \A u \in Token : place[u] # "reader"

\* A crash or a lost answer; a restart of the relay loses several at once.
Lose(lost) ==
  /\ \A t \in lost : place[t] \in {"relay", "answer", "reader"}
  /\ place' = [t \in Token |-> IF t \in lost THEN "gone" ELSE place[t]]

Next ==
  \/ \E t \in Token : Make(t) \/ HandOver(t) \/ Keep(t)
  \/ \E lost \in SUBSET Token : Lose(lost)

Spec == Init /\ [][Next]_place
=============================================================================
