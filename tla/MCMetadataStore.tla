-------------------------- MODULE MCMetadataStore --------------------------
(* Small instances of the metadata of one daemon.                          *)
EXTENDS MetadataStore, TLC

MCIoSizes  == {0, 1}
MCSymmetry == Permutations(Rpcs) \cup Permutations(MergeIds)
=============================================================================
