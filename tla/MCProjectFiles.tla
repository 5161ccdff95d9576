--------------------------- MODULE MCProjectFiles ---------------------------
(* An instance of ProjectFiles, from those of its three sides.             *)
EXTENDS ProjectFiles, MCBakeFiles

C == INSTANCE MCComposeFiles

MCIsPath(name) == C!MCIsPath(name)
MCIsFile(name) == C!MCIsFile(name)
MCSchema       == C!MCSchema
MCCompose      == C!MCCompose
MCWritten      == C!MCWritten
MCLines        == C!MCLines
MCFirst        == C!MCFirst

D == INSTANCE MCDockerfileEditing

MCResponse(image) == D!MCResponse(image)
MCDockerfile      == D!MCDockerfile
MCElements        == D!MCElements
MCSettings        == D!MCSettings

=============================================================================
