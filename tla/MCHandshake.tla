---------------------------- MODULE MCHandshake ----------------------------
(* Handshake on a small instance. *)
EXTENDS Handshake

CONSTANT Eve    \* one of the pages

\* The page stays with the agent's newest peer connection (Viewer.tsx:374-395).
ViewerCatchesUp == CatchesUp(Eve)

\* With a webrtc-rs agent it gets and keeps a connection (agent-win/session.rs:77-84).
ViewerStaysConnected == StaysConnected(Eve)

============================================================================
