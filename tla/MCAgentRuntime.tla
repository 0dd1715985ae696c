--------------------------- MODULE MCAgentRuntime ---------------------------
EXTENDS AgentRuntime

CONSTANTS direct, mail

\* An event that cannot be seen, one that only the wider selection wants, and one that
\* every selection wants.
KindsInOrder == <<Hidden, mail, direct>>
DirectOrAll == {{direct}, {direct, mail}}
=============================================================================
