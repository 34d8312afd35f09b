------------------------------ MODULE MCImages ------------------------------
(***************************************************************************)
(* Instances of Images for TLC: two applications with one image x, which   *)
(* has a slash in its name, so that the verifier finds it as y after a     *)
(* reboot.                                                                 *)
(***************************************************************************)
EXTENDS Images

CONSTANTS x, y

MCImageOf == [a \in App |-> x]
MCShaOf == [i \in Image |-> "sha"]
MCBootName == [i \in Image |-> y]

Symmetry == Permutations(App)

\* Behaviours are followed until every safename has met a race.
Followed == raced # Image
=============================================================================
