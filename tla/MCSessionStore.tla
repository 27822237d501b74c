--------------------------- MODULE MCSessionStore ---------------------------
(* Small instances of the session store. *)
EXTENDS SessionStore

CONSTANTS s1, s2

MCSessionIds == {s1, s2}
MCOneSession == {s1}
=============================================================================
