-------------------------- MODULE MCArtifactStore --------------------------
EXTENDS ArtifactStore

CONSTANTS r1, r2, c1, u1
=============================================================================
