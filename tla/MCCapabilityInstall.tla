------------------------ MODULE MCCapabilityInstall ------------------------
(***************************************************************************)
(* Two features over one shared base, as transcription and lyrics are over *)
(* separation in capability_manifest.ts: the gate asks for one of them     *)
(* while Settings installs the other.                                      *)
(***************************************************************************)
EXTENDS CapabilityInstall

CONSTANTS separation, transcription, lyrics

MCSelections == {{lyrics}}

MCRequires == [c \in Capabilities |-> IF c = separation THEN {} ELSE {separation}]
=============================================================================
