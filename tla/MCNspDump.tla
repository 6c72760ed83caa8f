----------------------------- MODULE MCNspDump -----------------------------
\* An application of three contents and its meta NCA: a program whose FS headers lie in two blocks
\* (NCA0), a control NCA with two icons whose patch spans two blocks, and legal information.
EXTENDS NspDump

MCType == <<"program", "control", "legal", "meta">>
MCBlocks == <<2, 3, 1, 2>>
MCHeaderBlocks == <<{1, 2}, {1}, {1}, {1}>>
MCPatchBlocks == <<{1}, {2, 3}, {1}, {1, 2}>>
MCIcons == <<0, 2, 0, 0>>
=============================================================================
