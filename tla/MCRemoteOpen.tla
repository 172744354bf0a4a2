--------------------------- MODULE MCRemoteOpen ---------------------------
(***************************************************************************)
(* Instances of RemoteOpen.  Content c2 describes other units than c1, c3  *)
(* and c4 do.  A behaviour is of one part, which the variable part names   *)
(* and which never changes:                                                *)
(*   given         the constants of RemoteOpen as the configuration gives  *)
(*                 them;                                                   *)
(*   republishing  one dataset whose artifacts are replaced, up to three   *)
(*                 opens, and no cached file is lost.                      *)
(***************************************************************************)
EXTENDS RemoteOpen, TLC

CONSTANTS Parts, s1, s2, s3, c1, c2, c3, c4, kA, kB, kC

VARIABLE part

MCUnitsOf == (c1 :> 1) @@ (c2 :> 2) @@ (c3 :> 1) @@ (c4 :> 1)

\* Three fabrics: c1 is of the first, c2 and c3 of the second, c4 of the third.
ThreeFabrics == (c1 :> kA) @@ (c2 :> kB) @@ (c3 :> kB) @@ (c4 :> kC)

\* A sound dataset, one whose graph disagrees with the rest, and a sound one
\* (its store gives no ETags).
SoundAndBroken ==
  (s1 :> [a \in Artifact |-> c1]) @@
  (s2 :> [a \in Artifact |-> IF a = "graph" THEN c2 ELSE c3]) @@
  (s3 :> [a \in Artifact |-> c4])

OneFabric == [c \in Content |-> kA]

\* Every source starts with its own sound dataset of the one fabric.
AllSound ==
  [s \in Source |-> [a \in Artifact |-> IF s = s1 THEN c1 ELSE c3]]

OneSource == [s \in {s1} |-> [a \in Artifact |-> c1]]

Republishing == INSTANCE RemoteOpen WITH
  Source <- {s1}, Content <- {c1, c2, c3}, Key <- {kA}, KeyOf <- [c \in {c1, c2, c3} |-> kA],
  Published <- OneSource, Tagged <- {s1}, Loss <- FALSE, MaxOpens <- 3, MaxRepublish <- 2

MCInit ==
  /\ part \in Parts
  /\ IF part = "given" THEN Init ELSE Republishing!Init

MCNext ==
  \/ part = "given" /\ Next /\ UNCHANGED part
  \/ part = "republishing" /\ Republishing!Next /\ UNCHANGED part

MCSpec == MCInit /\ [][MCNext]_<<part, vars>>

\* The openers are interchangeable.
OpenerSymmetry == Permutations(Opener)

=============================================================================
