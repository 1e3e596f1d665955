--------------------------- MODULE MCSessionServer ---------------------------
(* Small instances of SessionServer for TLC. *)
EXTENDS SessionServer

\* One wallet advertising the server's window, one an outdated window.
MCClientWindows == {<<NewVersion(2, 4), NewVersion(2, 8)>>,
                    <<NewVersion(1, 0), NewVersion(1, 3)>>}

MCRequestFeatures == [legacyCompatible |-> TRUE, revocation |-> FALSE,
                      nextSession |-> FALSE]

MCMinSecure == NewVersion(2, 8)
=============================================================================
