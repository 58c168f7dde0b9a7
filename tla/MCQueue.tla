------------------------------ MODULE MCQueue ------------------------------
(* Instances of the queue consumers for TLC. *)
EXTENDS QueueConsumer, TLC

ConsumerSymmetry == Permutations(Consumers)

Operation(ext, key, wallet, content) ==
    [ext |-> ext, key |-> key, wallet |-> wallet, content |-> content]

Message(id, op, form) == [id |-> id, op |-> op, form |-> form]

Bet == Operation("e1", "k1", "w1", "bet")
Win == Operation("e2", "k2", "w1", "win")

\* One bet in two messages and over HTTP, its message id reused for a win, its key for
\* a bet on another wallet.
Duplicates ==
    <<Message("a", Bet, "usable"), Message("b", Bet, "usable"), Message("a", Win, "usable"),
      Message("c", Operation("e3", "k1", "w2", "bet"), "usable")>>

\* A bet and a win, what cannot be read, what the domain refuses, what no redelivery
\* helps.
Misfits ==
    <<Message("a", Bet, "usable"), Message("b", Win, "usable"),
      Message("c", Operation("e4", "k4", "w1", "?"), "malformed"),
      Message("d", Operation("e5", "k5", "w1", "bet"), "unusable"),
      Message("e", Operation("e6", "k6", "w2", "bet"), "refused")>>

BetThenWin == <<Message("a", Bet, "usable"), Message("b", Win, "usable")>>

BetByHttp == {Bet}
=============================================================================
