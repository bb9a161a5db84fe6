-------------------------- MODULE MCArtifactStore --------------------------
(* ArtifactStore for TLC: the tag names an image of two files, one of which *)
(* a later image no longer has, or one that is not signed.                  *)
EXTENDS ArtifactStore, TLC

CONSTANTS old, new, forged, kernel, initramfs

MCPartsOf == old :> {kernel, initramfs} @@ new :> {kernel} @@ forged :> {kernel}
=============================================================================
