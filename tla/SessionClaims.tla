---------------------------- MODULE SessionClaims ----------------------------
(***************************************************************************)
(* What the documents and tests of the repository say of a session and the *)
(* code does not do.  Each claim has a run that shows how it fails.        *)
(***************************************************************************)
EXTENDS SessionProperties

(* docs/test_matrix.md:99 "Events may arrive in any order - final state    *)
(* must be correct".  An object that arrives before the version is known   *)
(* keeps what the 2023-06 profile made of it, recipients dropped.          *)
DecodedUnderFinalVersion ==
    \A i \in DOMAIN event_log :
        event_log[i].shape = "single" =>
            Decoded(i, 1) = DecodeObject(resolved_version, event_log[i].type,
                                         event_log[i].docs[1])

=============================================================================
