-------------------------- MODULE MCGuestPunishment --------------------------
(* An instance of GuestPunishment for TLC. *)
EXTENDS GuestPunishment, Sequences

CONSTANTS r1, r2, r3, alice, bob

\* Updates 1 to 4: a reply for alice, its edit, another for alice, one for bob.
Replies == <<r1, r1, r2, r3>>
Callers == [r \in Reply |-> IF r = r3 THEN bob ELSE alice]
Edits == {2}
==============================================================================
