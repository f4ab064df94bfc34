------------------------------ MODULE MCRelay ------------------------------
(* Relay on a small instance. *)
EXTENDS Relay, TLC

CONSTANTS
    Alice, Bob,                 \* two of the connections
    Ours, Theirs,               \* two machines
    OursPlain, OursUpper,       \* the id of each as clients write it
    TheirsPlain, TheirsUpper

WhoseId ==
    [s \in Spelling |-> IF s \in {OursPlain, OursUpper} THEN Ours ELSE Theirs]

\* One machine and its spellings for the other and its own.
Exchange ==
    (Ours :> Theirs) @@ (Theirs :> Ours)
        @@ (OursPlain :> TheirsPlain) @@ (TheirsPlain :> OursPlain)
        @@ (OursUpper :> TheirsUpper) @@ (TheirsUpper :> OursUpper)

\* Connections are interchangeable, and so are the spellings of one id, and the
\* machines together with their spellings: no definition tells them apart but by IdOf.
Symmetry ==
    Permutations(Conn) \cup Permutations({OursPlain, OursUpper})
        \cup Permutations({TheirsPlain, TheirsUpper}) \cup {Exchange}

\* By that symmetry one pair of connections stands for all of them.  The promise
\* of main.rs:161-165, as HandshakeStarts states it: an agent and a browser that
\* has spoken share a room, so the agent hears a ready or the browser.
HandshakeOfPairStarts == HandshakeStarts(Alice, Bob)

============================================================================
