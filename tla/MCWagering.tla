----------------------------- MODULE MCWagering -----------------------------
(* Instances of the financial core for TLC. *)
EXTENDS WageringProperties, TLC

RequestSymmetry == Permutations(Requests)

NamesUsed == {"none", "p1", "alice", "bob", "BRL", "EUR", "r1", "r2",
              "e1", "e2", "e3", "e4", "e5", "e6", "e7", "e8",
              "k1", "k2", "k3", "k4", "k5", "k6", "k7", "k8"}

Op(ext, key, w, kind, amount, ref) ==
    [provider |-> "p1", ext |-> ext, key |-> key, wallet |-> w,
     player |-> "alice", currency |-> "BRL", round |-> "r1", kind |-> kind,
     amount |-> amount, ref |-> ref]

OneWallet == {[wallet |-> "w1", player |-> "alice", currency |-> "BRL", amount |-> 2]}

TwoWallets == {[wallet |-> "w1", player |-> "alice", currency |-> "BRL", amount |-> 2],
               [wallet |-> "w2", player |-> "alice", currency |-> "EUR", amount |-> 0]}

\* One bet resent as it was, with another amount, under another key; its key reused
\* for another bet; a win that overflows; operations the domain refuses; and, on a
\* second wallet, operations that meet these in the unique indexes.
ResendCommands ==
    {Op("e1", "k1", "w1", "BET", 2, None),
     Op("e1", "k1", "w1", "BET", 1, None),
     Op("e1", "k2", "w1", "BET", 2, None),
     Op("e2", "k1", "w1", "BET", 1, None),
     Op("e3", "k3", "w1", "WIN", 3, None),
     Op("e4", "k4", "w1", "LOSS", 0, None),
     Op("e5", "k5", "w1", "BET", 0, None),
     [Op("e6", "k6", "w1", "BET", 1, None) EXCEPT !.player = "bob"],
     [Op("e7", "k7", "w1", "LOSS", 0, None) EXCEPT !.currency = "EUR"],
     [Op("e8", "k8", "w1", "WIN", 1, None) EXCEPT !.currency = "EUR"],
     [Op("e1", "k1", "w2", "WIN", 1, None) EXCEPT !.currency = "EUR"],
     [Op("e2", "k1", "w2", "WIN", 1, None) EXCEPT !.currency = "EUR"],
     [Op("e3", "k3", "w2", "ROLLBACK", 2, "e1") EXCEPT !.currency = "EUR"]}

\* A bet, its refund, its rollback, and the rollback of its refund.
ReversalCommands ==
    {Op("e1", "k1", "w1", "BET", 1, None),
     Op("e2", "k2", "w1", "REFUND", 1, "e1"),
     Op("e3", "k3", "w1", "ROLLBACK", 1, "e1"),
     Op("e4", "k4", "w1", "ROLLBACK", 1, "e2")}

\* A win and reversals of it that do not fit: for another amount, in another round,
\* of a kind that cannot; a bet that spends what the rollback has to take back and a
\* rollback of that bet, which may have been rejected.
MisfitCommands ==
    {Op("e1", "k1", "w1", "WIN", 1, None),
     Op("e2", "k2", "w1", "ROLLBACK", 1, "e1"),
     Op("e3", "k3", "w1", "ROLLBACK", 2, "e1"),
     [Op("e4", "k4", "w1", "ROLLBACK", 1, "e1") EXCEPT !.round = "r2"],
     Op("e5", "k5", "w1", "REFUND", 1, "e1"),
     Op("e6", "k6", "w1", "BET", 3, None),
     Op("e7", "k7", "w1", "ROLLBACK", 3, "e6")}

\* Enough to wait, to be found and to be given up on; a key used twice.
WaitCommands ==
    {Op("e1", "k1", "w1", "BET", 1, None),
     Op("e2", "k2", "w1", "REFUND", 1, "e1"),
     Op("e3", "k3", "w1", "ROLLBACK", 1, "e2"),
     Op("e4", "k1", "w1", "LOSS", 0, None)}
=============================================================================
