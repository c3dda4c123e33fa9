----------------------------- MODULE MCAccounts -----------------------------
(* Small instances of Accounts: one scene per group of operations.           *)
EXTENDS Accounts, TLC

CONSTANTS ann, bob, cat, u, v, net, p1, p2

MCEmails == {ann, bob, cat}
MCWorkspaces == {u, v}
MCAddresses == {net}
MCProcs == {p1, p2}
MCFree == [email |-> 1, pair |-> 0, ip |-> 0, reset |-> 1, verify |-> 1, pwchange |-> 0, signup |-> 1]

Role(x, y) == (u :> x) @@ (v :> y)

MCScenes ==
  { [name |-> "sign-in", mail |-> {ann}, calls |-> 5,
     users |-> ann :> Role("owner", "none"),
     ops |-> {"login", "token", "code", "google", "reset", "crash"}],
    [name |-> "devices", mail |-> {ann}, calls |-> 5,
     users |-> ann :> Role("owner", "none"),
     ops |-> {"login", "token", "drop", "signout", "change", "reset"}],
    [name |-> "guessing", mail |-> {ann, bob}, calls |-> 5,
     users |-> (ann :> Role("owner", "none")) @@ (bob :> Role("none", "owner")),
     ops |-> {"login"}],
    [name |-> "newcomers", mail |-> {ann, bob}, calls |-> 5,
     users |-> ann :> Role("owner", "none"),
     ops |-> {"signup", "add", "invite", "revoke-invite", "join"}],
    [name |-> "team", mail |-> {ann, bob, cat}, calls |-> 3,
     users |-> (ann :> Role("owner", "none")) @@ (bob :> Role("owner", "member")) @@ (cat :> Role("none", "owner")),
     ops |-> {"remove", "role", "leave", "owner-reset", "switch", "delete"}],
    [name |-> "closing", mail |-> {ann, bob, cat}, calls |-> 4,
     users |-> (ann :> Role("owner", "none")) @@ (bob :> Role("none", "owner")),
     ops |-> {"invite", "remove", "role", "delete", "join"}] }

Symmetry == Permutations(MCProcs)
=============================================================================
