--------------------------- MODULE MCProjectRoadmap ---------------------------
(***************************************************************************)
(* ProjectRoadmap for TLC: three positions, a roadmap of them, and one that*)
(* drops the first and reorders the others.                                *)
(***************************************************************************)
EXTENDS ProjectRoadmap

CONSTANTS a, b, c

MCRoadmaps == {<<a, b, c>>, <<c, b>>}

=============================================================================
