----------------------------- MODULE MCUploads -----------------------------
(* Instances of Uploads for TLC.                                           *)
EXTENDS Uploads, TLC

\* Every Complete of an upload is sent with any of the keys.
AnyKey == [u \in Uploads |-> Keys]

\* Init names any profile.
AnyProfile == [u \in Uploads |-> Profiles]

\* Every upload has one of S to itself.
EachIts(S) ==
  CHOOSE own \in [Uploads -> {{x} : x \in S}] : \A u, v \in Uploads : own[u] = own[v] => u = v

OwnKey == EachIts(Keys)
OwnProfile == EachIts(Profiles)

Symmetry == Permutations(Calls)

============================================================================
