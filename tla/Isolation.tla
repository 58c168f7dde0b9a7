------------------------------ MODULE Isolation ------------------------------
(***************************************************************************)
(* Who may do and see what: Identity and the use cases that ask for it.    *)
(* An answer is an operator of the credential, the stored operations and   *)
(* the question, so that isolation can be stated as what answers do not    *)
(* depend on.  The balance a submission is answered with is the wallet's   *)
(* and not part of it: wallets belong to no provider.                      *)
(***************************************************************************)
EXTENDS Integers, FiniteSets

CONSTANTS
    Providers,
    NoProvider,     \* the zero ProviderID: internal credentials, openings
    Externals,      \* external transaction ids
    IdemKeys,       \* idempotency keys
    Contents,       \* what the payload hash tells apart
    MaxOps          \* bound: operations stored

ASSUME IsolationAssumption == NoProvider \notin Providers /\ MaxOps \in Nat

VARIABLE ops    \* rows of wager_transactions

-----------------------------------------------------------------------------
(* Identity.                                                                *)

KnownScopes == {"wagering:submit", "wagering:read", "wallets:manage"}

\* A verified credential; an issuer grants scopes of other services too.
Credentials ==
    [provider : Providers \cup {NoProvider}, scopes : SUBSET (KnownScopes \cup {"profile"})]

\* NewIdentity: unknown scopes are dropped.
NewIdentity(c) == [provider |-> c.provider, scopes |-> c.scopes \cap KnownScopes]

\* Consumer.identity: the envelope's provider, submitting only.
QueueIdentity(p) == NewIdentity([provider |-> p, scopes |-> {"wagering:submit"}])

Identities == {NewIdentity(c) : c \in Credentials}

Has(i, scope) == scope \in i.scopes

MayActAs(i, p) == i.provider # NoProvider /\ i.provider = p

\* The internal credential sees everything, a provider its own, nobody an opening.
Owns(i, p) ==
    IF i.provider = NoProvider THEN Has(i, "wallets:manage")
    ELSE p # NoProvider /\ p = i.provider

-----------------------------------------------------------------------------
(* What a use case answers, over a table of operations.                     *)

Says(code) == [code |-> code, rows |-> {}]
Shows(rows) == IF rows = {} THEN Says("not_found") ELSE [code |-> "ok", rows |-> rows]

Row(table, p, e) == {o \in table : o.provider = p /\ o.external = e}

\* TransactionQueries.Get.
GetAnswer(i, table, id) ==
    IF ~Has(i, "wagering:read") THEN Says("forbidden")
    ELSE Shows({o \in table : o.id = id /\ Owns(i, o.provider)})

\* TransactionQueries.GetByBusinessID.
FindAnswer(i, table, p, e) ==
    IF ~Has(i, "wagering:read") THEN Says("forbidden")
    ELSE IF ~Owns(i, p) THEN Says("not_found")
    ELSE Shows(Row(table, p, e))

Commands == [provider : Providers, external : Externals, key : IdemKeys, content : Contents]

\* Fault: idempotency keys are unique across providers.
KeyUsedByAnyone(table, q) == \E o \in table : o.key = q.key /\ o.provider # NoProvider

\* wager_transactions_idempotency_key: unique within the provider.
KeyUsed(table, q) == \E o \in table : o.key = q.key /\ o.provider = q.provider

\* SubmitTransaction.ExecuteIn and replay, and the index a reused key meets.
SubmitAnswer(i, table, q) ==
    LET stored == Row(table, q.provider, q.external)
    IN  IF ~Has(i, "wagering:submit") \/ ~MayActAs(i, q.provider) THEN Says("forbidden")
        ELSE IF \E o \in stored : o.content # q.content \/ o.key # q.key THEN Says("conflict")
        ELSE IF stored # {} THEN Shows(stored)
        ELSE IF KeyUsed(table, q) THEN Says("conflict") ELSE Says("recorded")

-----------------------------------------------------------------------------
NextId == Cardinality(ops) + 1

\* A submission over HTTP or, with the identity its envelope names, from the queue.
Submit(i, q) ==
    /\ NextId <= MaxOps
    /\ SubmitAnswer(i, ops, q) = Says("recorded")
    /\ ops' = ops \cup {[id |-> NextId, provider |-> q.provider, external |-> q.external,
                         key |-> q.key, content |-> q.content]}

\* OpenWallet: an operation of no provider, with neither external id nor key.
RecordOpening(i) ==
    /\ NextId <= MaxOps
    /\ Has(i, "wallets:manage")
    /\ ops' = ops \cup {[id |-> NextId, provider |-> NoProvider, external |-> "none",
                         key |-> "none", content |-> "none"]}

\* Get and GetByBusinessID leave everything as it is.
Ask == UNCHANGED ops

IsolationInit == ops = {}

IsolationNext ==
    \/ \E i \in Identities, q \in Commands : Submit(i, q)
    \/ \E q \in Commands : Submit(QueueIdentity(q.provider), q)
    \/ \E i \in Identities : RecordOpening(i)
    \/ Ask

IsolationSpec == IsolationInit /\ [][IsolationNext]_ops

-----------------------------------------------------------------------------
OwnOps(i) == {o \in ops : o.provider = i.provider}

\* What a provider is answered depends on its own operations alone: a read of
\* another provider's operation, or of an opening, is the answer for one that does
\* not exist, and a submission neither replays nor collides with another provider's.
ProvidersAreIsolated ==
    \A i \in {j \in Identities : j.provider # NoProvider /\ OwnOps(j) # ops} :
        /\ \A id \in 1 .. MaxOps : GetAnswer(i, ops, id) = GetAnswer(i, OwnOps(i), id)
        /\ \A p \in Providers, e \in Externals :
              FindAnswer(i, ops, p, e) = FindAnswer(i, OwnOps(i), p, e)
        /\ \A q \in Commands : SubmitAnswer(i, ops, q) = SubmitAnswer(i, OwnOps(i), q)
=============================================================================
