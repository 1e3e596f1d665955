-------------------------- MODULE MCRedisSessionKeys --------------------------
(* Small instances of RedisSessionKeys for TLC. *)
EXTENDS RedisSessionKeys

\* One wallet advertising the server's window, one an outdated window; a
\* version is the pair <<major, minor>> (NewVersion of ProtocolVersion).
MCClientWindows == {<<<<2, 4>>, <<2, 8>>>>, <<<<1, 0>>, <<1, 3>>>>}

MCRequestFeatures == [legacyCompatible |-> TRUE, revocation |-> FALSE,
                      nextSession |-> FALSE]

MCMinSecure == <<2, 8>>
=============================================================================
