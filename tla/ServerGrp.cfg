CONSTANT N = 3
SPECIFICATION Spec
INVARIANTS ConnectedCanTalk PartitionHolds DisconnectedIsSilent
