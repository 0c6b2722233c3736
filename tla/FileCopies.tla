----------------------------- MODULE FileCopies ------------------------------
(***************************************************************************)
(* What file transfer promises: an end saves only whole copies, of one     *)
(* version of a file the other end has or had.                             *)
(***************************************************************************)
EXTENDS Naturals, Sequences

CONSTANTS Peers, Files, Total, MaxVersion

VARIABLES
    source,     \* source[p][f]: the version p has now
    copies      \* copies[p][f]: the contents p has saved, as sequences of blocks

vars == <<source, copies>>

Whole(version) == [i \in 1 .. Total |-> version]

Init ==
    /\ source = [p \in Peers |-> [f \in Files |-> 1]]
    /\ copies = [p \in Peers |-> [f \in Files |-> {}]]

Edit(p, f) ==
    /\ source[p][f] < MaxVersion
    /\ source' = [source EXCEPT ![p][f] = @ + 1]
    /\ UNCHANGED copies

Save(p, f) ==
    /\ \E q \in Peers \ {p}, version \in 1 .. MaxVersion :
          /\ version <= source[q][f]
          /\ copies' = [copies EXCEPT ![p][f] = @ \cup {Whole(version)}]
    /\ UNCHANGED source

Next == \E p \in Peers, f \in Files : Edit(p, f) \/ Save(p, f)

Spec == Init /\ [][Next]_vars
=============================================================================
