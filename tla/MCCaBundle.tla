----------------------------- MODULE MCCaBundle -----------------------------
(***************************************************************************)
(* A finite instance of CaBundle.                                          *)
(***************************************************************************)
EXTENDS CaBundle

CONSTANTS a, b, s1, s2

A1 == Entry(1, "ssh-ed25519", a, "x")
B2 == Entry(2, "ssh-ed25519", b, "x")
A2 == Entry(2, "ssh-ed25519", a, "y")         \* B2's id; A1's key under another comment
A3 == Entry(3, "ssh-ed25519", a, "x")         \* A1's public-key line
NoKey == Entry(3, "ssh-ed25519", Absent, "x")
NoId == Entry(0, "ssh-ed25519", b, "x")
Rsa == Entry(3, "ssh-rsa", b, "x")            \* a key sshd would take

MCKeyPool == {A1, B2, A2, A3, NoKey, NoId, Rsa}
\* None, one, two in either order, and with MaxKeys = 2 one too many; every
\* other list of these lengths is at most two edits away.
MCKeyLists == {<<>>, <<A1>>, <<A1, B2>>, <<B2, A1>>, <<A1, B2, A3>>}
MCSigningKeys == {s1, s2}
MCPinChoices == {Absent, s1}
=============================================================================
