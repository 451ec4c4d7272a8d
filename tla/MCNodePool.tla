---------------------------- MODULE MCNodePool ----------------------------
EXTENDS NodePool

CONSTANTS good, junk

\* good is a sound offer of the last probe tier; junk answers the probe but
\* never renders (a trojan without a server_name), and is probed first.
MCUris == {good, junk}
MCRenderable == {good}
MCProbeTier == [u \in MCUris |-> IF u = junk THEN 1 ELSE 3]
===========================================================================
