----------------------------- MODULE MCPipeline -----------------------------
(* Two interchangeable sections and three interchangeable texts. *)
EXTENDS SectionPipeline, TLC

PipelineSymmetry == Permutations(Sections) \cup Permutations(Texts)
=============================================================================
