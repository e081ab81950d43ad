--------------------------- MODULE MCNodeGateway ---------------------------
(* Instances of NodeGateway. *)
EXTENDS NodeGateway, TLC

CONSTANTS r1, r2, t1, t2, i1

\* Two requests with a token each, which chose the same id
OwnToken == r1 :> t1 @@ r2 :> t2
SameId   == r1 :> i1 @@ r2 :> i1

\* One request
OneToken == r1 :> t1
OneId    == r1 :> i1
=============================================================================
