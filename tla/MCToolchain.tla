---------------------------- MODULE MCToolchain ----------------------------
(* The model-checking instance of the shared cache and of the installation  *)
(* of a tool; a behaviour is about one of them.                             *)
EXTENDS ArtifactCache, ToolInstall, MCArchives, TLC

VARIABLE part

QuietCache   == CacheInit /\ kind = "channel" /\ artifact = Absent /\ sidecar = Absent
QuietInstall == InstallInit /\ tool = "rust"

MCInit ==
  \/ part = "cache"   /\ CacheInit  /\ QuietInstall
  \/ part = "install" /\ QuietCache /\ InstallInit

MCNext ==
  /\ UNCHANGED part
  /\ \/ part = "cache"   /\ CacheNext   /\ UNCHANGED installVars
     \/ part = "install" /\ InstallNext /\ UNCHANGED cacheVars

MCSpec == MCInit /\ [][MCNext]_<<part, cacheVars, installVars>>

Symmetry == Permutations(Fetchers) \cup Permutations(Versions)

(* Every variable has its type.                                              *)
ToolchainTypeOK == CacheTypeOK /\ InstallTypeOK

ASSUME BackupOrder ==
  /\ SelectBackup({}) = NoSlot
  /\ \A b \in Slots : SelectBackup({b}) = b
  /\ \A valid \in SUBSET Slots : valid \ Legacy # {} => \A c \in valid : c <= SelectBackup(valid)
=============================================================================
