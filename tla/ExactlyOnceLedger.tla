------------------------- MODULE ExactlyOnceLedger -------------------------
(***************************************************************************)
(* What the financial core promises a provider, with no statements, locks, *)
(* retries or workers in it.  An operation has a business identity and one *)
(* fate; when it is applied it moves its wallet once, within bounds, in    *)
(* the same step as its fate is sealed; a reversal moves exactly the       *)
(* opposite of the one applied operation it names, and no operation is     *)
(* undone twice.                                                           *)
(***************************************************************************)
EXTENDS Integers

CONSTANTS
    Ids,        \* operations
    Accounts,   \* wallets
    Top         \* the largest balance

VARIABLES
    balance,    \* per account; Closed until it is opened
    fate,       \* per operation: "none", "waiting", "applied", "refused"
    identity,   \* per operation with a fate: its business identity
    moved,      \* per applied operation: the signed amount it moved
    undoes      \* per applied reversal: what it undid; itself for anything else

avars == <<balance, fate, identity, moved, undoes>>

Closed == -1

Fresh(id, b) == fate[id] = "none" /\ \A j \in Ids : fate[j] # "none" => identity[j] # b

\* An operation is identified the first time it gets a fate, and stays who it is.
Identified(id, b) ==
    /\ Fresh(id, b) \/ (fate[id] = "waiting" /\ identity[id] = b)
    /\ identity' = [identity EXCEPT ![id] = b]

Open(a, m) ==
    /\ balance[a] = Closed
    /\ m \in 0 .. Top
    /\ balance' = [balance EXCEPT ![a] = m]

\* Opening an account with money is an operation too, with an identity of its own.
OpenWith(id, b, a, m) ==
    /\ Open(a, m)
    /\ Fresh(id, b)
    /\ identity' = [identity EXCEPT ![id] = b]
    /\ fate' = [fate EXCEPT ![id] = "applied"]
    /\ moved' = [moved EXCEPT ![id] = m]
    /\ UNCHANGED undoes

OpenEmpty(a) == Open(a, 0) /\ UNCHANGED <<fate, identity, moved, undoes>>

Move(id, a, m) ==
    /\ balance[a] # Closed
    /\ balance[a] + m \in 0 .. Top
    /\ balance' = [balance EXCEPT ![a] = @ + m]
    /\ fate' = [fate EXCEPT ![id] = "applied"]
    /\ moved' = [moved EXCEPT ![id] = m]

Apply(id, b, a, m) ==
    /\ fate[id] = "none"
    /\ Identified(id, b)
    /\ Move(id, a, m)
    /\ UNCHANGED undoes

\* A reversal: of an applied operation, which nobody has undone, by its opposite.
Undo(id, b, a, j) ==
    /\ fate[j] = "applied"
    /\ \A k \in Ids : k # j => undoes[k] # j
    /\ Identified(id, b)
    /\ Move(id, a, -moved[j])
    /\ undoes' = [undoes EXCEPT ![id] = j]

Refuse(id, b) ==
    /\ Identified(id, b)
    /\ fate' = [fate EXCEPT ![id] = "refused"]
    /\ UNCHANGED <<balance, moved, undoes>>

Wait(id, b) ==
    /\ Fresh(id, b)
    /\ Identified(id, b)
    /\ fate' = [fate EXCEPT ![id] = "waiting"]
    /\ UNCHANGED <<balance, moved, undoes>>

Init ==
    /\ balance = [a \in Accounts |-> Closed]
    /\ fate = [id \in Ids |-> "none"]
    /\ moved = [id \in Ids |-> 0]
    /\ undoes = [id \in Ids |-> id]
    /\ identity = [id \in Ids |-> <<id>>]

\* Every step but the opening of an empty account gives some operation a new fate.
Next ==
    \/ \E a \in Accounts : OpenEmpty(a)
    \/ \E id \in Ids :
          /\ fate'[id] # fate[id]
          /\ LET b == identity'[id]
             IN  \/ Refuse(id, b)
                 \/ Wait(id, b)
                 \/ \E a \in Accounts, m \in 0 .. Top : OpenWith(id, b, a, m)
                 \/ \E a \in Accounts, m \in -Top .. Top : Apply(id, b, a, m)
                 \/ \E a \in Accounts, j \in Ids : Undo(id, b, a, j)

Spec == Init /\ [][Next]_avars
=============================================================================
