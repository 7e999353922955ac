--------------------------- MODULE SignerApiProofs ---------------------------
(***************************************************************************)
(* The tables behind the signer's API, between any two statements of any   *)
(* number of concurrent requests, whatever statement fails and wherever    *)
(* the process stops and is started again.                                 *)
(***************************************************************************)
EXTENDS SignerApi, SequenceTheorems, FiniteSetTheorems, TLAPS

-----------------------------------------------------------------------------
(* The tables and the statements on them.                                  *)

\* Deleting a row that is there once keeps the others in their order.
LEMMA DeleteRow ==
    ASSUME NEW S, NEW s \in Seq(S), IsInjective(s), NEW t
    PROVE  /\ Delete(s, t) \in Seq(S)
           /\ IsInjective(Delete(s, t))
           /\ ToSet(Delete(s, t)) = ToSet(s) \ {t}
<1>1. CASE Rows(s, t) = {}
  BY <1>1 DEF Delete, Rows, ToSet
<1>2. CASE Rows(s, t) # {}
  <2> DEFINE k == CHOOSE i \in Rows(s, t) : TRUE
             q == RemoveAt(s, k)
             n == Len(s)
  <2>1. k \in 1..n /\ s[k] = t /\ n \in Nat /\ DOMAIN s = 1..n
    BY <1>2 DEF Rows
  <2>2. Delete(s, t) = q
    BY <1>2 DEF Delete
  <2> HIDE DEF k, n
  <2>3. /\ SubSeq(s, 1, k - 1) \in Seq(S) /\ Len(SubSeq(s, 1, k - 1)) = k - 1
        /\ \A i \in 1..(k - 1) : SubSeq(s, 1, k - 1)[i] = s[i]
        /\ SubSeq(s, k + 1, n) \in Seq(S) /\ Len(SubSeq(s, k + 1, n)) = n - k
        /\ \A i \in 1..(n - k) : SubSeq(s, k + 1, n)[i] = s[k + i]
    <3>1. /\ 1 \in 1..(n + 1) /\ k - 1 \in (1 - 1)..n
          /\ k + 1 \in 1..(n + 1) /\ n \in ((k + 1) - 1)..n
      BY <2>1
    <3>2. /\ SubSeq(s, 1, k - 1) \in Seq(S) /\ Len(SubSeq(s, 1, k - 1)) = (k - 1) - 1 + 1
          /\ \A i \in 1..((k - 1) - 1 + 1) : SubSeq(s, 1, k - 1)[i] = s[1 + i - 1]
      BY <3>1, SubSeqProperties DEF n
    <3>3. /\ SubSeq(s, k + 1, n) \in Seq(S) /\ Len(SubSeq(s, k + 1, n)) = n - (k + 1) + 1
          /\ \A i \in 1..(n - (k + 1) + 1) : SubSeq(s, k + 1, n)[i] = s[(k + 1) + i - 1]
      BY <3>1, SubSeqProperties DEF n
    <3>4. /\ (k - 1) - 1 + 1 = k - 1 /\ n - (k + 1) + 1 = n - k
          /\ \A i \in 1..n : 1 + i - 1 = i /\ (k + 1) + i - 1 = k + i
      BY <2>1
    <3>5. \A i \in 1..(k - 1) : i \in 1..n
      BY <2>1
    <3>6. \A i \in 1..(n - k) : i \in 1..n
      BY <2>1
    <3> QED
      BY <3>2, <3>3, <3>4, <3>5, <3>6
  <2>4. /\ q \in Seq(S) /\ Len(q) = n - 1 /\ DOMAIN q = 1..(n - 1)
        /\ \A i \in 1..(n - 1) : q[i] = IF i < k THEN s[i] ELSE s[i + 1]
    <3> DEFINE a == SubSeq(s, 1, k - 1)
               b == SubSeq(s, k + 1, n)
    <3>1. q = a \o b
      BY DEF RemoveAt, n
    <3> HIDE DEF a, b, q
    <3>2. /\ a \o b \in Seq(S) /\ Len(a \o b) = n - 1
          /\ \A i \in 1..(n - 1) : (a \o b)[i] = IF i <= k - 1 THEN a[i] ELSE b[i - (k - 1)]
      BY <2>1, <2>3, ConcatProperties DEF a, b
    <3>3. ASSUME NEW i \in 1..(n - 1)
          PROVE  q[i] = IF i < k THEN s[i] ELSE s[i + 1]
      <4>1. CASE i < k
        <5>1. i \in 1..(k - 1) /\ i <= k - 1
          BY <2>1, <4>1
        <5> QED
          BY <2>3, <3>1, <3>2, <4>1, <5>1 DEF a
      <4>2. CASE ~(i < k)
        <5>1. i - (k - 1) \in 1..(n - k) /\ ~(i <= k - 1) /\ k + (i - (k - 1)) = i + 1
          BY <2>1, <4>2
        <5> QED
          BY <2>3, <3>1, <3>2, <4>2, <5>1 DEF b
      <4> QED
        BY <4>1, <4>2
    <3>4. q \in Seq(S) /\ Len(q) = n - 1
      BY <3>1, <3>2
    <3> QED
      BY <3>3, <3>4
  <2> HIDE DEF q
  <2> DEFINE at(i) == IF i < k THEN i ELSE i + 1
  <2>7. \A i \in 1..(n - 1) : at(i) \in 1..n /\ at(i) # k /\ q[i] = s[at(i)]
    BY <2>1, <2>4
  <2>8. \A i, j \in 1..(n - 1) : at(i) = at(j) => i = j
    BY <2>1
  <2>9. \A i, j \in 1..n : s[i] = s[j] => i = j
    BY <2>1 DEF IsInjective
  <2> HIDE DEF at
  <2>5. IsInjective(q)
    BY <2>4, <2>7, <2>8, <2>9 DEF IsInjective
  <2>6. ToSet(q) = ToSet(s) \ {t}
    <3>1. ASSUME NEW i \in 1..(n - 1)
          PROVE  q[i] \in ToSet(s) \ {t}
      BY <2>1, <2>7, <2>9 DEF ToSet
    <3>2. ASSUME NEW i \in 1..n, s[i] # t
          PROVE  s[i] \in ToSet(q)
      <4>1. CASE i < k
        <5>1. i \in 1..(n - 1) /\ q[i] = s[i]
          BY <2>1, <2>4, <4>1
        <5> QED
          BY <2>4, <5>1 DEF ToSet
      <4>2. CASE i > k
        <5>1. i - 1 \in 1..(n - 1) /\ q[i - 1] = s[i]
          BY <2>1, <2>4, <4>2
        <5> QED
          BY <2>4, <5>1 DEF ToSet
      <4> QED
        BY <2>1, <3>2, <4>1, <4>2
    <3> QED
      BY <2>1, <2>4, <3>1, <3>2 DEF ToSet
  <2> QED
    BY <2>2, <2>4, <2>5, <2>6
<1> QED
  BY <1>1, <1>2

\* The tables.
DbFields == {"config", "delegators", "denied", "transactions", "votes"}

\* The tables e after a transaction was added to d.
AddedTo(d, t, S, e) ==
    /\ DOMAIN e = DbFields
    /\ e.transactions \in Seq(S) /\ IsInjective(e.transactions)
    /\ ToSet(e.transactions) = ToSet(d.transactions) \cup {t}
    /\ DOMAIN e.votes = DOMAIN d.votes \cup {t}
    /\ \A u \in DOMAIN e.votes : e.votes[u] = IF u = t THEN add_empty_vote ELSE d.votes[u]
    /\ e.config = d.config /\ e.delegators = d.delegators /\ e.denied = d.denied

\* A transaction is added, anew or again.
LEMMA AddTransaction ==
    ASSUME NEW d, NEW t, NEW S, DOMAIN d = DbFields, d.transactions \in Seq(S),
           IsInjective(d.transactions), t \in S, NEW e, e = add_transaction(d, t)
    PROVE  AddedTo(d, t, S, e)
<1> DEFINE q == Delete(d.transactions, t)
<1>1. q \in Seq(S) /\ IsInjective(q) /\ ToSet(q) = ToSet(d.transactions) \ {t}
  BY DeleteRow
<1>2. /\ DOMAIN e = DbFields /\ e.transactions = Append(q, t)
      /\ e.votes = [u \in DOMAIN d.votes \cup {t} |-> IF u = t THEN add_empty_vote ELSE d.votes[u]]
      /\ e.config = d.config /\ e.delegators = d.delegators /\ e.denied = d.denied
  BY DEF add_transaction, DbFields
<1> HIDE DEF q
<1>3. /\ Append(q, t) \in Seq(S) /\ DOMAIN Append(q, t) = 1..(Len(q) + 1)
      /\ Len(q) \in Nat /\ DOMAIN q = 1..Len(q)
      /\ \A i \in 1..Len(q) : Append(q, t)[i] = q[i]
      /\ Append(q, t)[Len(q) + 1] = t
  BY <1>1
<1>4. \A i \in 1..Len(q) : q[i] # t
  BY <1>1, <1>3 DEF ToSet
<1>5. IsInjective(Append(q, t))
  <2> SUFFICES ASSUME NEW i \in 1..(Len(q) + 1), NEW j \in 1..(Len(q) + 1),
                      Append(q, t)[i] = Append(q, t)[j]
               PROVE  i = j
    BY <1>3 DEF IsInjective
  <2> QED
    BY <1>1, <1>3, <1>4 DEF IsInjective
<1>6. ToSet(Append(q, t)) = ToSet(q) \cup {t}
  <2>1. \A i \in 1..(Len(q) + 1) : Append(q, t)[i] \in ToSet(q) \cup {t}
    BY <1>3 DEF ToSet
  <2>2. \A i \in 1..Len(q) : q[i] \in ToSet(Append(q, t))
    <3> SUFFICES ASSUME NEW i \in 1..Len(q) PROVE q[i] \in ToSet(Append(q, t))
      OBVIOUS
    <3>1. i \in 1..(Len(q) + 1) /\ Append(q, t)[i] = q[i]
      BY <1>3
    <3> QED
      BY <1>3, <3>1 DEF ToSet
  <2>3. t \in ToSet(Append(q, t))
    <3>1. Len(q) + 1 \in 1..(Len(q) + 1)
      BY <1>3
    <3> QED
      BY <1>3, <3>1 DEF ToSet
  <2> QED
    BY <1>3, <2>1, <2>2, <2>3 DEF ToSet
<1> QED
  BY <1>1, <1>2, <1>3, <1>5, <1>6 DEF AddedTo

-----------------------------------------------------------------------------
(* The invariant.                                                          *)

\* The votes are those of the transactions; a row on which requests have
\* voted holds the last choice and counts one vote.
TablesInv ==
    /\ DOMAIN db = DbFields
    /\ db.transactions \in Seq(Txid) /\ IsInjective(db.transactions)
    /\ DOMAIN db.votes = ToSet(db.transactions)
    /\ cast \in [Txid -> Seq(Choice)] /\ base \in [Txid -> 0..99]
    /\ \A t \in Txid : cast[t] # <<>> =>
          t \in DOMAIN db.votes /\ db.votes[t] = Vote(Last(cast[t]), "pending", base[t] + 1)
    /\ \A t \in DOMAIN db.votes : cast[t] = <<>> =>
          \E choice \in Choice \cup {None}, status \in Status :
              db.votes[t] = Vote(choice, status, base[t])

\* The lists of a configuration are in the tables or in statements to come.
ToCome(table, list, statements) ==
    {x \in ToSet(list) : \E j \in DOMAIN statements : statements[j] = Statement(table, x)}
Saving(config, statements) ==
    /\ ToSet(config.delegators) \subseteq
          db.delegators \cup ToCome("delegator_public_keys", config.delegators, statements)
    /\ ToSet(config.denied) \subseteq
          db.denied \cup ToCome("auto_deny_addresses", config.denied, statements)

\* s is a statement of update_config.
OfConfig(s) == Table(s) \in {"config", "delegator_public_keys", "auto_deny_addresses"}

\* A vote of the start is written on a transaction nobody has voted on, since
\* the start adds it before.
OfStart(statements, j) ==
    LET s == statements[j]
    IN  \/ OfConfig(s)
        \/ Table(s) = "transactions" /\ Row(s) \in Txid
        \/ /\ Table(s) = "votes" /\ Row(s)[1] \in Txid /\ Row(s)[2] \in Draws
           /\ \/ \E k \in 1..(j - 1) : statements[k] = Statement("transactions", Row(s)[1])
              \/ Row(s)[1] \in DOMAIN db.votes /\ cast[Row(s)[1]] = <<>>

\* What is left of the start does what the start promises.
ServerInv ==
    /\ server \in {"down", "starting", "up"}
    /\ server # "starting" => todo = <<>>
    /\ server # "up" => \A c \in Client : req[c] = Idle
    /\ IsList(todo) /\ \A j \in DOMAIN todo : OfStart(todo, j)
    /\ server = "starting" /\ command.config # None => Saving(command.config, todo)

\* What a request knows at each point still holds when it goes on.
Serving(r) ==
    /\ r.at = "vote" =>
          /\ r.txid \in DOMAIN db.votes /\ r.votes = 0
          /\ \E choice \in Choice : r.vote = Vote(choice, "pending", base[r.txid] + 1)
    /\ r.at = "update" =>
          /\ DOMAIN r = {"at", "todo", "config"}
          /\ IsList(r.todo) /\ r.todo # <<>> /\ \A j \in DOMAIN r.todo : OfConfig(r.todo[j])
          /\ Saving(r.config, r.todo)
    /\ r.at = "list" =>
          DOMAIN r = {"at", "rest", "found", "query"} /\ r.rest \in Seq(DOMAIN db.votes)
    /\ r.at = "byid" => r.txid \in DOMAIN db.votes
    /\ r.at = "reply" =>
          /\ r.code = "INTERNAL_SERVER_ERROR" => faults > 0
          /\ r.code = "OK" => r.votes = 0

\* All requests.
RequestsInv ==
    /\ DOMAIN req = Client /\ faults \in Nat
    /\ \A c \in Client : Serving(req[c])

\* The row of a configuration is in the table or in a statement to come.
RowSaving(config, statements) ==
    /\ config.row # None
    /\ db.config = config.row \/ \E j \in DOMAIN statements : Table(statements[j]) = "config"
    /\ \A j \in DOMAIN statements :
          Table(statements[j]) = "config" => Row(statements[j]) = config.row

\* The inductive invariant.
ApiInv == TablesInv /\ ServerInv /\ RequestsInv

-----------------------------------------------------------------------------

\* A list with nothing in it.
LEMMA EmptyList == IsList(<<>>) /\ DOMAIN <<>> = {} /\ ToSet(<<>>) = {}
BY DEF IsList, ToSet

\* What the provers need to know of a list.
LEMMA ListFacts ==
    ASSUME NEW q, IsList(q)
    PROVE  /\ Len(q) \in Nat /\ DOMAIN q = 1..Len(q) /\ q \in Seq(ToSet(q))
           /\ q = <<>> <=> Len(q) = 0
BY DEF IsList

\* A sequence over any set is a list.
LEMMA ListOver ==
    ASSUME NEW S, NEW q \in Seq(S)
    PROVE  IsList(q)
<1>1. Len(q) \in Nat /\ q \in [1..Len(q) -> {q[i] : i \in DOMAIN q}]
  OBVIOUS
<1> QED
  BY <1>1 DEF IsList, ToSet

\* A list given by its length.
LEMMA ListOfLength ==
    ASSUME NEW S, NEW n \in Nat, NEW q \in [1..n -> S]
    PROVE  IsList(q) /\ Len(q) = n
<1>1. q \in Seq(S) /\ Len(q) = n
  OBVIOUS
<1> QED
  BY <1>1, ListOver

\* The rest of a list of statements.
LEMMA TailOfList ==
    ASSUME NEW q, IsList(q), q # <<>>
    PROVE  /\ IsList(Tail(q)) /\ 1 \in DOMAIN q /\ Head(q) = q[1]
           /\ Len(Tail(q)) = Len(q) - 1 /\ DOMAIN Tail(q) = 1..(Len(q) - 1)
           /\ \A i \in 1..(Len(q) - 1) : Tail(q)[i] = q[i + 1]
           /\ \A i \in DOMAIN q : i = 1 \/ (i - 1 \in DOMAIN Tail(q) /\ q[i] = Tail(q)[i - 1])
<1>1. Len(q) \in Nat /\ DOMAIN q = 1..Len(q) /\ q \in Seq(ToSet(q)) /\ Len(q) > 0
  BY ListFacts
<1>2. /\ Tail(q) \in Seq(ToSet(q)) /\ 1 \in DOMAIN q /\ Head(q) = q[1]
      /\ Len(Tail(q)) = Len(q) - 1 /\ DOMAIN Tail(q) = 1..(Len(q) - 1)
      /\ \A i \in 1..(Len(q) - 1) : Tail(q)[i] = q[i + 1]
  BY <1>1
<1>3. IsList(Tail(q))
  BY <1>2, ListOver, Zenon
<1>4. \A i \in DOMAIN q : i = 1 \/ (i - 1 \in DOMAIN Tail(q) /\ q[i] = Tail(q)[i - 1])
  BY <1>1, <1>2
<1> QED
  BY <1>2, <1>3, <1>4

\* The invariant holds at first.
LEMMA InitApiInv == Init => ApiInv
<1> SUFFICES ASSUME Init PROVE ApiInv
  OBVIOUS
<1>1. TablesInv
  <2>1. /\ db.transactions = <<>> /\ db.votes = <<>> /\ DOMAIN db = DbFields
    BY DEF Init, EmptyDb, DbFields
  <2>2. DOMAIN db.votes = {} /\ ToSet(db.transactions) = {}
    BY <2>1 DEF ToSet
  <2>3. cast = [t \in Txid |-> <<>>] /\ base = [t \in Txid |-> 0]
    BY DEF Init
  <2>4. cast \in [Txid -> Seq(Choice)] /\ base \in [Txid -> 0..99]
    BY <2>3
  <2>5. \A t \in Txid : cast[t] = <<>>
    BY <2>3
  <2>6. IsInjective(db.transactions) /\ db.transactions \in Seq(Txid)
    BY <2>1 DEF IsInjective
  <2> QED
    BY <2>1, <2>2, <2>4, <2>5, <2>6 DEF TablesInv
<1>2. ServerInv
  BY EmptyList DEF Init, ServerInv
<1>3. RequestsInv
  BY DEF Init, RequestsInv, Serving, Idle
<1> QED
  BY <1>1, <1>2, <1>3 DEF ApiInv

\* A statement on the tables of the configuration.
LEMMA ConfigStatement ==
    ASSUME NEW d, DOMAIN d = DbFields, NEW s, OfConfig(s)
    PROVE  LET e == Apply(d, s)
           IN  /\ DOMAIN e = DbFields /\ e.transactions = d.transactions /\ e.votes = d.votes
               /\ d.delegators \subseteq e.delegators /\ d.denied \subseteq e.denied
               /\ e.config = IF Table(s) = "config" THEN Row(s) ELSE d.config
               /\ Table(s) = "delegator_public_keys" => Row(s) \in e.delegators
               /\ Table(s) = "auto_deny_addresses" => Row(s) \in e.denied
               /\ Table(s) \notin {"transactions", "votes"}
<1> DEFINE e == Apply(d, s)
<1>1. CASE Table(s) = "config"
  <2>1. e = [d EXCEPT !.config = Row(s)]
    BY <1>1 DEF Apply
  <2> HIDE DEF e
  <2>2. /\ DOMAIN e = DbFields /\ e.transactions = d.transactions /\ e.votes = d.votes
        /\ e.delegators = d.delegators /\ e.denied = d.denied /\ e.config = Row(s)
    BY <2>1 DEF DbFields
  <2> QED
    BY <1>1, <2>2 DEF e
<1>2. CASE Table(s) = "delegator_public_keys"
  <2>1. e = [d EXCEPT !.delegators = @ \cup {Row(s)}]
    BY <1>2 DEF Apply
  <2> HIDE DEF e
  <2>2. /\ DOMAIN e = DbFields /\ e.transactions = d.transactions /\ e.votes = d.votes
        /\ e.delegators = d.delegators \cup {Row(s)} /\ e.denied = d.denied /\ e.config = d.config
    BY <2>1 DEF DbFields
  <2> QED
    BY <1>2, <2>2 DEF e
<1>3. CASE Table(s) = "auto_deny_addresses"
  <2>1. e = [d EXCEPT !.denied = @ \cup {Row(s)}]
    BY <1>3 DEF Apply
  <2> HIDE DEF e
  <2>2. /\ DOMAIN e = DbFields /\ e.transactions = d.transactions /\ e.votes = d.votes
        /\ e.denied = d.denied \cup {Row(s)} /\ e.delegators = d.delegators /\ e.config = d.config
    BY <2>1 DEF DbFields
  <2> QED
    BY <1>3, <2>2 DEF e
<1> QED
  BY <1>1, <1>2, <1>3 DEF OfConfig

\* A statement on votes, for a transaction that is there.
LEMMA VoteStatement ==
    ASSUME NEW d, DOMAIN d = DbFields, NEW t \in DOMAIN d.votes, NEW v
    PROVE  LET e == add_vote(d, t, v)
           IN  /\ DOMAIN e = DbFields /\ e.transactions = d.transactions
               /\ DOMAIN e.votes = DOMAIN d.votes
               /\ \A u \in DOMAIN d.votes : e.votes[u] = IF u = t THEN v ELSE d.votes[u]
               /\ e.config = d.config /\ e.delegators = d.delegators /\ e.denied = d.denied
BY DEF add_vote, DbFields

\* Statements that were to come still are, but for the one that is written.
LEMMA SavingTail ==
    ASSUME NEW config, NEW q, IsList(q), q # <<>>, Saving(config, q),
           db.delegators \subseteq db.delegators', db.denied \subseteq db.denied',
           Table(Head(q)) = "delegator_public_keys" => Row(Head(q)) \in db.delegators',
           Table(Head(q)) = "auto_deny_addresses" => Row(Head(q)) \in db.denied'
    PROVE  Saving(config, Tail(q))'
<1>1. ASSUME NEW table, NEW list, NEW x \in ToCome(table, list, q)
      PROVE  x \in ToCome(table, list, Tail(q)) \/ Head(q) = Statement(table, x)
  <2>1. PICK j \in DOMAIN q : q[j] = Statement(table, x) /\ x \in ToSet(list)
    BY DEF ToCome
  <2>2. CASE j = 1
    BY <2>1, <2>2, TailOfList
  <2>3. CASE j # 1
    <3>1. j - 1 \in DOMAIN Tail(q) /\ Tail(q)[j - 1] = Statement(table, x)
      BY <2>1, <2>3, TailOfList
    <3> QED
      BY <2>1, <3>1 DEF ToCome
  <2> QED
    BY <2>2, <2>3
<1>2. \A table, x : Table(Statement(table, x)) = table /\ Row(Statement(table, x)) = x
  BY DEF Table, Row, Statement
<1>3. ToSet(config.delegators) \subseteq
          db.delegators' \cup ToCome("delegator_public_keys", config.delegators, Tail(q))
  BY <1>1, <1>2 DEF Saving
<1>4. ToSet(config.denied) \subseteq
          db.denied' \cup ToCome("auto_deny_addresses", config.denied, Tail(q))
  BY <1>1, <1>2 DEF Saving
<1> QED
  BY <1>3, <1>4 DEF Saving, ToCome

\* What other requests know survives a statement that neither adds a
\* transaction nor removes a row.
LEMMA ServingKept ==
    ASSUME NEW r, Serving(r), DOMAIN db'.votes = DOMAIN db.votes, UNCHANGED base,
           db.delegators \subseteq db'.delegators, db.denied \subseteq db'.denied,
           faults \in Nat, faults' \in Nat, faults <= faults'
    PROVE  Serving(r)'
<1>1. \A config, q : Saving(config, q) => Saving(config, q)'
  BY DEF Saving, ToCome
<1>3. r.at = "update" => /\ DOMAIN r = {"at", "todo", "config"}
                         /\ IsList(r.todo) /\ r.todo # <<>>
                         /\ \A j \in DOMAIN r.todo : OfConfig(r.todo[j])
                         /\ Saving(r.config, r.todo)'
  BY <1>1 DEF Serving
<1>6. r.at = "reply" =>
          /\ r.code = "INTERNAL_SERVER_ERROR" => faults' > 0
          /\ r.code = "OK" => r.votes = 0
  BY DEF Serving
<1>7. r.at = "vote" =>
          /\ r.txid \in DOMAIN db'.votes /\ r.votes = 0
          /\ \E choice \in Choice : r.vote = Vote(choice, "pending", base'[r.txid] + 1)
  BY DEF Serving
<1>8. /\ r.at = "list" =>
            DOMAIN r = {"at", "rest", "found", "query"} /\ r.rest \in Seq(DOMAIN db'.votes)
      /\ r.at = "byid" => r.txid \in DOMAIN db'.votes
  BY DEF Serving
<1> QED
  BY <1>3, <1>6, <1>7, <1>8 DEF Serving, Saving, ToCome

\* A request goes on, or is answered, knowing what it should.
LEMMA RequestGoesOn ==
    ASSUME ApiInv, NEW c \in Client, NEW r, req' = [req EXCEPT ![c] = r], Serving(r)',
           DOMAIN db'.votes = DOMAIN db.votes, UNCHANGED base,
           db.delegators \subseteq db'.delegators, db.denied \subseteq db'.denied,
           faults' \in Nat, faults <= faults'
    PROVE  RequestsInv'
<1>1. DOMAIN req' = Client /\ req'[c] = r /\ \A d \in Client \ {c} : req'[d] = req[d]
  BY DEF ApiInv, RequestsInv
<1>2. \A d \in Client : Serving(req[d]) /\ faults \in Nat
  BY DEF ApiInv, RequestsInv
<1>3. ASSUME NEW d \in Client, NEW p, p = req'[d]
      PROVE  Serving(p)'
  <2>1. CASE d = c
    <3>1. p = r
      BY <1>1, <1>3, <2>1
    <3> QED
      BY <3>1
  <2>2. CASE d # c
    <3>1. Serving(p)
      BY <1>1, <1>2, <1>3, <2>2
    <3> QED
      BY <1>2, <3>1, ServingKept
  <2> QED
    BY <2>1, <2>2
<1>4. \A d \in Client : Serving(req[d])'
  BY <1>3
<1> QED
  BY <1>1, <1>4 DEF RequestsInv

\* While requests are served nothing is left of the start.
LEMMA ServerServes ==
    ASSUME ApiInv, server = "up", UNCHANGED <<server, command, todo>>
    PROVE  ServerInv'
BY EmptyList DEF ApiInv, ServerInv

\* A step of a request that writes nothing.
LEMMA RequestReads ==
    ASSUME ApiInv, server = "up", NEW c \in Client, NEW r, req' = [req EXCEPT ![c] = r],
           Serving(r)', UNCHANGED <<db, server, command, todo, cast, base>>,
           faults' \in Nat, faults <= faults'
    PROVE  ApiInv'
<1>1. TablesInv'
  BY DEF ApiInv, TablesInv
<1>2. ServerInv'
  BY ServerServes
<1>3. RequestsInv'
  BY RequestGoesOn
<1> QED
  BY <1>1, <1>2, <1>3 DEF ApiInv

\* An answer that promises nothing.
LEMMA ServingReply ==
    ASSUME NEW code, NEW body, NEW r, r = Reply(code, body),
           code = "INTERNAL_SERVER_ERROR" => faults' > 0
    PROVE  Serving(r)'
BY DEF Serving, Reply

\* A request that is past its arrival is being served.
LEMMA ServedWhileUp ==
    ASSUME ApiInv, NEW c \in Client, req[c].at # "idle"
    PROVE  server = "up"
BY DEF ApiInv, ServerInv, Idle

\* Votes are on transactions of the simulator.
LEMMA VotesOnTxids == TablesInv => DOMAIN db.votes \subseteq Txid
BY DEF TablesInv, ToSet

\* The ballot a vote request reads: nobody has voted, so the row counts what
\* it was added with.
LEMMA BallotRead ==
    ASSUME ApiInv, NEW txid, NEW choice \in Choice, NEW r, r = ReadBallot(txid, choice),
           UNCHANGED <<db, base, faults>>
    PROVE  Serving(r)'
<1>1. CASE txid \notin DOMAIN db.votes
  <2>1. r = Reply("NOT_FOUND", <<>>)
    BY <1>1 DEF ReadBallot
  <2> QED
    BY <2>1, ServingReply
<1>2. CASE txid \in DOMAIN db.votes /\ db.votes[txid].vote_choice # None
  <2>1. r = Reply("CONFLICT", <<>>)
    BY <1>2 DEF ReadBallot
  <2> QED
    BY <2>1, ServingReply
<1>3. CASE txid \in DOMAIN db.votes /\ db.votes[txid].vote_choice = None
           /\ db.votes[txid].vote_status # "pending"
  <2>1. r = Reply("FORBIDDEN", <<>>)
    BY <1>3 DEF ReadBallot
  <2> QED
    BY <2>1, ServingReply
<1>4. CASE txid \in DOMAIN db.votes /\ db.votes[txid].vote_choice = None
           /\ db.votes[txid].vote_status = "pending"
  <2> DEFINE v == db.votes[txid]
  <2>1. r = [at |-> "vote", txid |-> txid, votes |-> Len(cast[txid]),
             vote |-> [v EXCEPT !.vote_choice = choice, !.current_consensus = @ + 1]]
    BY <1>4 DEF ReadBallot
  <2>2. txid \in Txid
    BY <1>4, VotesOnTxids DEF ApiInv
  <2>3. cast[txid] = <<>>
    <3> SUFFICES ASSUME cast[txid] # <<>> PROVE FALSE
      OBVIOUS
    <3>0. v = Vote(Last(cast[txid]), "pending", base[txid] + 1)
      BY <2>2 DEF ApiInv, TablesInv
    <3>1. v.vote_choice = Last(cast[txid])
      BY <3>0 DEF Vote
    <3>2. cast[txid] \in Seq(Choice)
      BY <2>2 DEF ApiInv, TablesInv
    <3>3. Last(cast[txid]) \in Choice
      BY <3>2 DEF Last
    <3> QED
      BY <1>4, <3>1, <3>3, ApiAssumption
  <2>4. PICK ch, status : v = Vote(ch, status, base[txid])
    BY <1>4, <2>3 DEF ApiInv, TablesInv
  <2>5. [v EXCEPT !.vote_choice = choice, !.current_consensus = @ + 1]
            = Vote(choice, "pending", base[txid] + 1)
    <3>1. v.vote_status = status
      BY <2>4 DEF Vote
    <3>2. v = Vote(ch, "pending", base[txid])
      BY <1>4, <2>4, <3>1
    <3> HIDE DEF v
    <3>3. /\ DOMAIN v = {"vote_choice", "vote_status", "current_consensus"}
          /\ v.vote_status = "pending" /\ v.current_consensus = base[txid]
      BY <3>2 DEF Vote
    <3> DEFINE w == [v EXCEPT !.vote_choice = choice, !.current_consensus = @ + 1]
    <3>4. /\ DOMAIN w = {"vote_choice", "vote_status", "current_consensus"}
          /\ w.vote_choice = choice /\ w.vote_status = "pending"
          /\ w.current_consensus = base[txid] + 1
      BY <3>3
    <3>5. w = [x \in {"vote_choice", "vote_status", "current_consensus"} |-> w[x]]
      BY <3>3
    <3> HIDE DEF w
    <3>6. w = Vote(choice, "pending", base[txid] + 1)
      BY <3>4, <3>5 DEF Vote
    <3> QED
      BY <3>6 DEF w
  <2>6. r.at = "vote" /\ r.txid = txid /\ r.votes = 0
        /\ r.vote = Vote(choice, "pending", base[txid] + 1)
    BY <2>1, <2>3, <2>5
  <2> QED
    BY <1>4, <2>6 DEF Serving
<1> QED
  BY <1>1, <1>2, <1>3, <1>4

\* A vote is written over whatever vote another request wrote since.
LEMMA VoteWritten ==
    ASSUME ApiInv, NEW c \in Client, WriteVote(c)
    PROVE  ApiInv'
<1> DEFINE t == req[c].txid
           v == req[c].vote
<1>1. server = "up" /\ req[c].at = "vote"
  BY ServedWhileUp DEF WriteVote
<1>2. t \in DOMAIN db.votes /\ req[c].votes = 0 /\ t \in Txid
  <2>1. t \in DOMAIN db.votes /\ req[c].votes = 0
    BY <1>1 DEF ApiInv, RequestsInv, Serving
  <2> QED
    BY <2>1, VotesOnTxids DEF ApiInv
<1>3. PICK choice \in Choice : v = Vote(choice, "pending", base[t] + 1)
  BY <1>1 DEF ApiInv, RequestsInv, Serving
<1>4. HasTransaction(db, t)
  BY <1>2 DEF ApiInv, TablesInv, HasTransaction, ToSet
<1>5. /\ db' = add_vote(db, t, v) /\ cast' = [cast EXCEPT ![t] = Append(@, v.vote_choice)]
      /\ req' = [req EXCEPT ![c] = [Reply("OK", <<v>>) EXCEPT !.votes = req[c].votes]]
      /\ UNCHANGED <<server, command, todo, base, faults>>
  BY <1>4 DEF WriteVote, Goes
<1> HIDE DEF t, v
<1>6. /\ DOMAIN db' = DbFields /\ db'.transactions = db.transactions
      /\ DOMAIN db'.votes = DOMAIN db.votes
      /\ \A u \in DOMAIN db.votes : db'.votes[u] = IF u = t THEN v ELSE db.votes[u]
      /\ db'.config = db.config /\ db'.delegators = db.delegators /\ db'.denied = db.denied
  BY <1>2, <1>5, VoteStatement DEF ApiInv, TablesInv
<1>7. /\ cast' \in [Txid -> Seq(Choice)] /\ cast'[t] = Append(cast[t], choice)
      /\ \A u \in Txid \ {t} : cast'[u] = cast[u]
  <2>1. v.vote_choice = choice
    BY <1>3 DEF Vote
  <2> QED
    BY <1>2, <1>5, <2>1 DEF ApiInv, TablesInv
<1>8. cast'[t] # <<>> /\ Last(cast'[t]) = choice
  <2>1. cast[t] \in Seq(Choice)
    BY <1>2 DEF ApiInv, TablesInv
  <2> QED
    BY <1>7, <2>1 DEF Last
<1>9. TablesInv'
  <2>1. \A u \in Txid : cast'[u] # <<>> =>
          u \in DOMAIN db'.votes /\ db'.votes[u] = Vote(Last(cast'[u]), "pending", base'[u] + 1)
    BY <1>2, <1>3, <1>5, <1>6, <1>7, <1>8 DEF ApiInv, TablesInv
  <2>2. \A u \in DOMAIN db'.votes : cast'[u] = <<>> =>
          \E ch \in Choice \cup {None}, status \in Status :
              db'.votes[u] = Vote(ch, status, base'[u])
    <3> SUFFICES ASSUME NEW u \in DOMAIN db'.votes, cast'[u] = <<>>
                 PROVE  \E ch \in Choice \cup {None}, status \in Status :
                            db'.votes[u] = Vote(ch, status, base'[u])
      OBVIOUS
    <3>1. u \in Txid /\ u # t /\ u \in DOMAIN db.votes
      BY <1>6, <1>8, VotesOnTxids DEF ApiInv
    <3>2. db'.votes[u] = db.votes[u] /\ cast[u] = <<>>
      BY <1>6, <1>7, <3>1
    <3> QED
      BY <1>5, <3>1, <3>2 DEF ApiInv, TablesInv
  <2> QED
    BY <1>5, <1>6, <1>7, <2>1, <2>2 DEF ApiInv, TablesInv
<1>10. ServerInv'
  BY <1>1, <1>5, <1>6, ServerServes
<1>11. RequestsInv'
  <2>1. PICK r : r = [Reply("OK", <<v>>) EXCEPT !.votes = req[c].votes]
    OBVIOUS
  <2>2. r.at = "reply" /\ r.code = "OK" /\ r.votes = 0
    BY <1>2, <2>1 DEF Reply
  <2>3. Serving(r)'
    BY <2>2 DEF Serving
  <2>4. faults' \in Nat /\ faults <= faults'
    BY <1>5 DEF ApiInv, RequestsInv
  <2> QED
    BY <1>5, <1>6, <2>1, <2>3, <2>4, RequestGoesOn
<1> QED
  BY <1>9, <1>10, <1>11 DEF ApiInv

-----------------------------------------------------------------------------
(* Lists of statements.                                                    *)

\* One list after another.
LEMMA ListConcat ==
    ASSUME NEW a, NEW b, IsList(a), IsList(b)
    PROVE  /\ IsList(a \o b) /\ Len(a \o b) = Len(a) + Len(b)
           /\ DOMAIN (a \o b) = 1..(Len(a) + Len(b))
           /\ \A i \in DOMAIN a : i \in DOMAIN (a \o b) /\ (a \o b)[i] = a[i]
           /\ \A i \in DOMAIN b : Len(a) + i \in DOMAIN (a \o b) /\ (a \o b)[Len(a) + i] = b[i]
           /\ \A i \in DOMAIN (a \o b) :
                 \/ i \in DOMAIN a /\ (a \o b)[i] = a[i]
                 \/ i - Len(a) \in DOMAIN b /\ (a \o b)[i] = b[i - Len(a)]
<1> DEFINE S == ToSet(a) \cup ToSet(b)
<1>1. /\ a \in Seq(ToSet(a)) /\ b \in Seq(ToSet(b)) /\ Len(a) \in Nat /\ Len(b) \in Nat
      /\ DOMAIN a = 1..Len(a) /\ DOMAIN b = 1..Len(b)
  BY ListFacts
<1>2. a \in Seq(S) /\ b \in Seq(S)
  BY <1>1
<1> HIDE DEF S
<1>3. /\ a \o b \in Seq(S) /\ Len(a \o b) = Len(a) + Len(b)
      /\ \A i \in 1..(Len(a) + Len(b)) :
            (a \o b)[i] = IF i <= Len(a) THEN a[i] ELSE b[i - Len(a)]
  BY <1>2, ConcatProperties
<1>4. IsList(a \o b)
  BY <1>3, ListOver, Zenon
<1>5. DOMAIN (a \o b) = 1..(Len(a) + Len(b))
  BY <1>3, <1>4, ListFacts
<1>6. \A i \in DOMAIN a : i \in DOMAIN (a \o b) /\ (a \o b)[i] = a[i]
  BY <1>1, <1>3, <1>5
<1>7. \A i \in DOMAIN b : Len(a) + i \in DOMAIN (a \o b) /\ (a \o b)[Len(a) + i] = b[i]
  <2> SUFFICES ASSUME NEW i \in DOMAIN b
               PROVE  Len(a) + i \in DOMAIN (a \o b) /\ (a \o b)[Len(a) + i] = b[i]
    OBVIOUS
  <2>1. /\ Len(a) + i \in 1..(Len(a) + Len(b)) /\ ~(Len(a) + i <= Len(a))
        /\ (Len(a) + i) - Len(a) = i
    BY <1>1
  <2> QED
    BY <1>3, <1>5, <2>1
<1>8. \A i \in DOMAIN (a \o b) :
         \/ i \in DOMAIN a /\ (a \o b)[i] = a[i]
         \/ i - Len(a) \in DOMAIN b /\ (a \o b)[i] = b[i - Len(a)]
  BY <1>1, <1>3, <1>5
<1> QED
  BY <1>3, <1>4, <1>5, <1>6, <1>7, <1>8

\* What is in a list of statements followed by another.
Joined(a, b, q) ==
    /\ IsList(q) /\ Len(q) = Len(a) + Len(b)
    /\ \A i \in DOMAIN a : i \in DOMAIN q /\ q[i] = a[i]
    /\ \A i \in DOMAIN b : \E j \in DOMAIN q : q[j] = b[i] /\ j = Len(a) + i
    /\ \A j \in DOMAIN q : \/ j \in DOMAIN a /\ q[j] = a[j]
                         \/ \E i \in DOMAIN b : q[j] = b[i] /\ j = Len(a) + i

\* The same, by what is in it.
LEMMA ConcatMembers ==
    ASSUME NEW a, NEW b, IsList(a), IsList(b), NEW q, q = a \o b
    PROVE  Joined(a, b, q)
<1>1. /\ IsList(q) /\ Len(q) = Len(a) + Len(b) /\ DOMAIN q = 1..(Len(a) + Len(b))
      /\ \A i \in DOMAIN a : i \in DOMAIN q /\ q[i] = a[i]
  BY ListConcat
<1>2. \A i \in DOMAIN b : Len(a) + i \in DOMAIN q /\ q[Len(a) + i] = b[i]
  BY ListConcat
<1>3. \A j \in DOMAIN q : \/ j \in DOMAIN a /\ q[j] = a[j]
                          \/ j - Len(a) \in DOMAIN b /\ q[j] = b[j - Len(a)]
  BY ListConcat
<1>4. Len(a) \in Nat /\ Len(b) \in Nat
  BY ListFacts
<1>5. \A j \in DOMAIN q : j = Len(a) + (j - Len(a))
  BY <1>1, <1>4
<1>6. \A i \in DOMAIN b : \E j \in DOMAIN q : q[j] = b[i] /\ j = Len(a) + i
  BY <1>2
<1>7. \A j \in DOMAIN q : \/ j \in DOMAIN a /\ q[j] = a[j]
                          \/ \E i \in DOMAIN b : q[j] = b[i] /\ j = Len(a) + i
  BY <1>3, <1>5
<1> QED
  BY <1>1, <1>6, <1>7 DEF Joined

\* The statements that write a list.
LEMMA ListStatements ==
    ASSUME NEW table, NEW s, IsList(s)
    PROVE  LET q == [i \in DOMAIN s |-> Statement(table, s[i])]
           IN  IsList(q) /\ Len(q) = Len(s) /\ DOMAIN q = DOMAIN s
<1> DEFINE q == [i \in DOMAIN s |-> Statement(table, s[i])]
           S == {Statement(table, s[i]) : i \in DOMAIN s}
<1>1. Len(s) \in Nat /\ DOMAIN s = 1..Len(s)
  BY ListFacts
<1>2. q \in [1..Len(s) -> S]
  BY <1>1
<1> HIDE DEF q, S
<1>3. q \in Seq(S)
  BY <1>1, <1>2
<1>4. IsList(q)
  BY <1>3, ListOver, Zenon
<1>5. Len(q) = Len(s) /\ DOMAIN q = DOMAIN s
  BY <1>1, <1>2
<1> QED
  BY <1>4, <1>5 DEF q

\* A configuration with a row and two lists.
IsConfig(config) ==
    config.row # None /\ IsList(config.delegators) /\ IsList(config.denied)

\* update_config writes the row and every element of the lists.
LEMMA UpdateProgram ==
    ASSUME NEW config, IsConfig(config), NEW q, q = update_config(config)
    PROVE  /\ IsList(q) /\ q # <<>> /\ \A j \in DOMAIN q : OfConfig(q[j])
           /\ RowSaving(config, q)' /\ Saving(config, q)'
<1> DEFINE a == <<Statement("config", config.row)>>
           b == [i \in DOMAIN config.delegators |->
                    Statement("delegator_public_keys", config.delegators[i])]
           d == [i \in DOMAIN config.denied |->
                    Statement("auto_deny_addresses", config.denied[i])]
<1>0. PICK ab : ab = a \o b
  OBVIOUS
<1>1. q = ab \o d
  BY <1>0 DEF update_config
<1>2. IsList(b) /\ DOMAIN b = DOMAIN config.delegators
      /\ \A i \in DOMAIN b : b[i] = Statement("delegator_public_keys", config.delegators[i])
  <2>1. IsList(b) /\ DOMAIN b = DOMAIN config.delegators
    BY ListStatements DEF IsConfig
  <2> QED
    BY <2>1
<1>3. IsList(d) /\ DOMAIN d = DOMAIN config.denied
      /\ \A i \in DOMAIN d : d[i] = Statement("auto_deny_addresses", config.denied[i])
  <2>1. IsList(d) /\ DOMAIN d = DOMAIN config.denied
    BY ListStatements DEF IsConfig
  <2> QED
    BY <2>1
<1>4. IsList(a) /\ DOMAIN a = {1} /\ a[1] = Statement("config", config.row)
  <2>1. a \in Seq({Statement("config", config.row)})
    OBVIOUS
  <2>2. IsList(a)
    BY <2>1, ListOver, Zenon
  <2> QED
    BY <2>2
<1> HIDE DEF a, b, d
<1>5. IsList(ab) /\ Joined(a, b, ab)
  <2>1. Joined(a, b, ab)
    BY <1>0, <1>2, <1>4, ConcatMembers
  <2> QED
    BY <2>1 DEF Joined
<1>6. IsList(q) /\ Joined(ab, d, q)
  <2>1. Joined(ab, d, q)
    BY <1>1, <1>3, <1>5, ConcatMembers
  <2> QED
    BY <2>1 DEF Joined
<1>7. \A table, row : Table(Statement(table, row)) = table /\ Row(Statement(table, row)) = row
  BY DEF Table, Row, Statement
<1>8. 1 \in DOMAIN q /\ q[1] = Statement("config", config.row)
  BY <1>4, <1>5, <1>6 DEF Joined
<1>9. \A j \in DOMAIN q : OfConfig(q[j])
  <2> SUFFICES ASSUME NEW j \in DOMAIN q PROVE OfConfig(q[j])
    OBVIOUS
  <2>1. \/ \E i \in DOMAIN a : q[j] = a[i]
        \/ \E i \in DOMAIN b : q[j] = b[i]
        \/ \E i \in DOMAIN d : q[j] = d[i]
    BY <1>5, <1>6 DEF Joined
  <2> QED
    BY <1>2, <1>3, <1>4, <1>7, <2>1 DEF OfConfig
<1>10. q # <<>>
  BY <1>8
<1>11. \A x \in ToSet(config.delegators) :
          x \in ToCome("delegator_public_keys", config.delegators, q)
  <2> SUFFICES ASSUME NEW i \in DOMAIN config.delegators
               PROVE  \E j \in DOMAIN q :
                         q[j] = Statement("delegator_public_keys", config.delegators[i])
    BY DEF ToCome, ToSet
  <2> QED
    BY <1>2, <1>5, <1>6 DEF Joined
<1>12. \A x \in ToSet(config.denied) : x \in ToCome("auto_deny_addresses", config.denied, q)
  <2> SUFFICES ASSUME NEW i \in DOMAIN config.denied
               PROVE  \E j \in DOMAIN q :
                         q[j] = Statement("auto_deny_addresses", config.denied[i])
    BY DEF ToCome, ToSet
  <2> QED
    BY <1>3, <1>6 DEF Joined
<1>13. Saving(config, q)'
  BY <1>11, <1>12 DEF Saving, ToCome
<1>14. RowSaving(config, q)'
  <2>1. \A j \in DOMAIN q : Table(q[j]) = "config" => Row(q[j]) = config.row
    <3> SUFFICES ASSUME NEW j \in DOMAIN q, Table(q[j]) = "config" PROVE Row(q[j]) = config.row
      OBVIOUS
    <3>1. \/ \E i \in DOMAIN a : q[j] = a[i]
          \/ \E i \in DOMAIN b : q[j] = b[i]
          \/ \E i \in DOMAIN d : q[j] = d[i]
      BY <1>5, <1>6 DEF Joined
    <3> QED
      BY <1>2, <1>3, <1>4, <1>7, <3>1
  <2> QED
    BY <1>7, <1>8, <2>1 DEF RowSaving, IsConfig
<1> QED
  BY <1>6, <1>9, <1>10, <1>13, <1>14

-----------------------------------------------------------------------------
(* The steps of requests.                                                  *)

\* A statement on the tables of the configuration leaves the votes alone.
LEMMA TablesKept ==
    ASSUME TablesInv, DOMAIN db' = DbFields, db'.transactions = db.transactions,
           db'.votes = db.votes, UNCHANGED <<cast, base>>
    PROVE  TablesInv'
BY DEF TablesInv

\* A statement of POST /v1/config is written, the last one with the answer.
LEMMA ConfigUpdated ==
    ASSUME ApiInv, NEW c \in Client, UpdateConfig(c)
    PROVE  ApiInv'
<1>1. server = "up" /\ req[c].at = "update"
  BY ServedWhileUp DEF UpdateConfig
<1>2. PICK r : r = req[c]
  OBVIOUS
<1>3. /\ DOMAIN r = {"at", "todo", "config"} /\ IsList(r.todo) /\ r.todo # <<>>
      /\ \A j \in DOMAIN r.todo : OfConfig(r.todo[j])
      /\ Saving(r.config, r.todo)
  BY <1>1, <1>2 DEF ApiInv, RequestsInv, Serving
<1>4. PICK s : s = Head(r.todo)
  OBVIOUS
<1>5. OfConfig(s)
  BY <1>3, <1>4, TailOfList
<1>6. PICK rest : rest = Tail(r.todo)
  OBVIOUS
<1>7. PICK next : next = IF rest = <<>> THEN Reply("OK", <<>>) ELSE [r EXCEPT !.todo = rest]
  OBVIOUS
<1>8. /\ db' = Apply(db, s)
      /\ req' = [req EXCEPT ![c] = next]
      /\ UNCHANGED <<server, command, todo, base, cast, faults>>
  BY <1>2, <1>4, <1>6, <1>7 DEF UpdateConfig, Goes
<1>9. /\ DOMAIN db' = DbFields /\ db'.transactions = db.transactions /\ db'.votes = db.votes
      /\ db.delegators \subseteq db'.delegators /\ db.denied \subseteq db'.denied
      /\ Table(s) = "delegator_public_keys" => Row(s) \in db'.delegators
      /\ Table(s) = "auto_deny_addresses" => Row(s) \in db'.denied
  BY <1>5, <1>8, ConfigStatement DEF ApiInv, TablesInv
<1>10. TablesInv'
  BY <1>8, <1>9, TablesKept DEF ApiInv
<1>11. ServerInv'
  BY <1>1, <1>8, ServerServes
<1>12. Saving(r.config, rest)'
  <2>1. Saving(r.config, Tail(r.todo))'
    BY <1>3, <1>4, <1>9, SavingTail
  <2> QED
    BY <1>6, <2>1
<1>14. Serving(next)'
  <2>1. CASE rest = <<>>
    BY <1>7, <2>1, ServingReply
  <2>2. CASE rest # <<>>
    <3>1. IsList(rest) /\ \A j \in DOMAIN rest : OfConfig(rest[j])
      <4>1. /\ IsList(rest) /\ DOMAIN rest = 1..(Len(r.todo) - 1)
            /\ \A j \in 1..(Len(r.todo) - 1) : rest[j] = r.todo[j + 1]
        BY <1>3, <1>6, TailOfList
      <4>2. \A j \in 1..(Len(r.todo) - 1) : j + 1 \in DOMAIN r.todo
        BY <1>3, ListFacts
      <4> QED
        BY <1>3, <4>1, <4>2
    <3>2. next.at = "update" /\ DOMAIN next = {"at", "todo", "config"}
          /\ next.todo = rest /\ next.config = r.config
      BY <1>1, <1>2, <1>3, <1>7, <2>2
    <3> QED
      BY <1>12, <2>2, <3>1, <3>2 DEF Serving
  <2> QED
    BY <2>1, <2>2
<1>15. RequestsInv'
  <2>1. faults' \in Nat /\ faults <= faults'
    BY <1>8 DEF ApiInv, RequestsInv
  <2> QED
    BY <1>8, <1>9, <1>14, <2>1, RequestGoesOn
<1> QED
  BY <1>10, <1>11, <1>15 DEF ApiInv

\* What a request holds when it has arrived.
LEMMA Arrived ==
    ASSUME ApiInv, NEW c \in Client, NEW r, Arrive(c, r), Serving(r)'
    PROVE  ApiInv'
<1>1. /\ server = "up" /\ req' = [req EXCEPT ![c] = r]
      /\ UNCHANGED <<db, server, command, todo, cast, base>>
  BY DEF Arrive
<1>2. faults' \in Nat /\ faults <= faults'
  BY DEF ApiInv, RequestsInv, Arrive
<1> QED
  BY <1>1, <1>2, RequestReads

\* What a request holds when it goes on without writing.
LEMMA WentOn ==
    ASSUME ApiInv, NEW c \in Client, req[c].at # "idle", NEW r, Goes(c, r),
           UNCHANGED <<db, cast>>, Serving(r)'
    PROVE  ApiInv'
<1>1. /\ server = "up" /\ req' = [req EXCEPT ![c] = r]
      /\ UNCHANGED <<db, server, command, todo, cast, base>>
  BY ServedWhileUp DEF Goes
<1>2. faults' \in Nat /\ faults <= faults'
  BY DEF ApiInv, RequestsInv, Goes
<1> QED
  BY <1>1, <1>2, RequestReads

\* A request arrives, with its first statement.
LEMMA RequestArrives ==
    ASSUME ApiInv, NEW c \in Client,
           \/ PostVote(c) \/ PostConfig(c) \/ GetConfig(c) \/ GetTransactions(c)
           \/ GetTransactionById(c)
    PROVE  ApiInv'
<1>1. CASE PostVote(c)
  <2>1. PICK txid \in 1..(NumTxs + 1), choice \in Choice : Arrive(c, ReadBallot(txid, choice))
    BY <1>1 DEF PostVote
  <2>2. PICK r : r = ReadBallot(txid, choice)
    OBVIOUS
  <2>3. Arrive(c, r) /\ UNCHANGED <<db, base, faults>>
    BY <2>1, <2>2 DEF Arrive
  <2>4. Serving(r)'
    BY <2>2, <2>3, BallotRead
  <2> QED
    BY <2>3, <2>4, Arrived
<1>2. CASE PostConfig(c)
  <2>1. PICK config \in Bodies :
            Arrive(c, [at |-> "update", todo |-> update_config(config), config |-> config])
    BY <1>2 DEF PostConfig
  <2>2. PICK q : q = update_config(config)
    OBVIOUS
  <2>3. PICK r : r = [at |-> "update", todo |-> q, config |-> config]
    OBVIOUS
  <2>4. Arrive(c, r)
    BY <2>1, <2>2, <2>3
  <2>5. IsConfig(config)
    BY ApiAssumption DEF IsConfig
  <2>6. IsList(q) /\ q # <<>> /\ (\A j \in DOMAIN q : OfConfig(q[j])) /\ Saving(config, q)'
    BY <2>2, <2>5, UpdateProgram
  <2>7. Serving(r)'
    BY <2>3, <2>6 DEF Serving
  <2> QED
    BY <2>4, <2>7, Arrived
<1>3. CASE GetConfig(c)
  <2>1. PICK r : r = IF db.config = None THEN Reply("NOT_FOUND", <<>>)
                     ELSE [at |-> "delegators", row |-> db.config]
    OBVIOUS
  <2>2. Arrive(c, r) /\ UNCHANGED db
    BY <1>3, <2>1 DEF GetConfig, Arrive
  <2>3. CASE db.config = None
    <3>1. r = Reply("NOT_FOUND", <<>>)
      BY <2>1, <2>3
    <3>2. Serving(r)'
      BY <3>1, ServingReply
    <3> QED
      BY <2>2, <3>2, Arrived
  <2>4. CASE db.config # None
    <3>1. r.at = "delegators"
      BY <2>1, <2>4
    <3>2. Serving(r)'
      BY <3>1 DEF Serving
    <3> QED
      BY <2>2, <3>2, Arrived
  <2> QED
    BY <2>3, <2>4
<1>4. CASE GetTransactions(c)
  <2>1. PICK query \in Queries :
            Arrive(c, IF query.page = 0 THEN Reply("BAD_REQUEST", <<>>)
                      ELSE [at |-> "list", rest |-> db.transactions, found |-> <<>>,
                            query |-> query])
    BY <1>4 DEF GetTransactions
  <2>2. PICK r : r = IF query.page = 0 THEN Reply("BAD_REQUEST", <<>>)
                     ELSE [at |-> "list", rest |-> db.transactions, found |-> <<>>,
                           query |-> query]
    OBVIOUS
  <2>3. Arrive(c, r) /\ UNCHANGED db
    BY <2>1, <2>2 DEF Arrive
  <2>4. CASE query.page = 0
    <3>1. r = Reply("BAD_REQUEST", <<>>)
      BY <2>2, <2>4
    <3>2. Serving(r)'
      BY <3>1, ServingReply
    <3> QED
      BY <2>3, <3>2, Arrived
  <2>5. CASE query.page # 0
    <3>1. r.at = "list" /\ DOMAIN r = {"at", "rest", "found", "query"}
          /\ r.rest = db.transactions
      BY <2>2, <2>5
    <3>2. db.transactions \in Seq(DOMAIN db.votes)
      <4>1. IsList(db.transactions)
        BY ListOver DEF ApiInv, TablesInv
      <4> QED
        BY <4>1 DEF ApiInv, TablesInv, IsList
    <3>3. Serving(r)'
      BY <2>3, <3>1, <3>2 DEF Serving
    <3> QED
      BY <2>3, <3>3, Arrived
  <2> QED
    BY <2>4, <2>5
<1>5. CASE GetTransactionById(c)
  <2>1. PICK txid \in 1..(NumTxs + 1) :
            Arrive(c, IF ~HasTransaction(db, txid) THEN Reply("NOT_FOUND", <<>>)
                      ELSE [at |-> "byid", txid |-> txid])
    BY <1>5 DEF GetTransactionById
  <2>2. PICK r : r = IF ~HasTransaction(db, txid) THEN Reply("NOT_FOUND", <<>>)
                     ELSE [at |-> "byid", txid |-> txid]
    OBVIOUS
  <2>3. Arrive(c, r) /\ UNCHANGED db
    BY <2>1, <2>2 DEF Arrive
  <2>4. CASE ~HasTransaction(db, txid)
    <3>1. r = Reply("NOT_FOUND", <<>>)
      BY <2>2, <2>4
    <3>2. Serving(r)'
      BY <3>1, ServingReply
    <3> QED
      BY <2>3, <3>2, Arrived
  <2>5. CASE HasTransaction(db, txid)
    <3>1. r.at = "byid" /\ r.txid = txid
      BY <2>2, <2>5
    <3>2. txid \in DOMAIN db.votes
      BY <2>5 DEF ApiInv, TablesInv, ToSet, HasTransaction
    <3>3. Serving(r)'
      BY <2>3, <3>1, <3>2 DEF Serving
    <3> QED
      BY <2>3, <3>3, Arrived
  <2> QED
    BY <2>4, <2>5
<1> QED
  BY <1>1, <1>2, <1>3, <1>4, <1>5

\* A request reads on, or is answered.
LEMMA RequestReadsOn ==
    ASSUME ApiInv, NEW c \in Client,
           \/ ReadDelegators(c) \/ ReadDenied(c) \/ ReadListedVote(c) \/ ReadVoteById(c)
           \/ Answer(c)
    PROVE  ApiInv'
<1>1. PICK p : p = req[c]
  OBVIOUS
<1>2. Serving(p)
  BY <1>1 DEF ApiInv, RequestsInv
<1>3. CASE ReadDelegators(c)
  <2>1. PICK r : r = [at |-> "denied", row |-> p.row, delegators |-> db.delegators]
    OBVIOUS
  <2>2. p.at = "delegators" /\ Goes(c, r) /\ UNCHANGED <<db, cast>>
    BY <1>1, <1>3, <2>1 DEF ReadDelegators
  <2>3. Serving(r)'
    BY <2>1 DEF Serving
  <2> QED
    BY <1>1, <2>2, <2>3, WentOn
<1>4. CASE ReadDenied(c)
  <2>1. PICK b : b = [row |-> p.row, delegators |-> p.delegators, denied |-> db.denied]
    OBVIOUS
  <2>2. PICK r : r = Reply("OK", <<b>>)
    OBVIOUS
  <2>3. p.at = "denied" /\ Goes(c, r) /\ UNCHANGED <<db, cast>>
    BY <1>1, <1>4, <2>1, <2>2 DEF ReadDenied
  <2>4. Serving(r)'
    BY <2>2, ServingReply
  <2> QED
    BY <1>1, <2>3, <2>4, WentOn
<1>5. CASE ReadListedVote(c)
  <2>1. p.at = "list" /\ UNCHANGED <<db, cast>>
    BY <1>1, <1>5 DEF ReadListedVote
  <2>2. DOMAIN p = {"at", "rest", "found", "query"} /\ p.rest \in Seq(DOMAIN db.votes)
    BY <1>2, <2>1 DEF Serving
  <2>3. CASE p.rest = <<>>
    <3>1. PICK r : r = Reply("OK", paginate_items(p.found, p.query.page, p.query.limit))
      OBVIOUS
    <3>2. Goes(c, r)
      BY <1>1, <1>5, <2>3, <3>1 DEF ReadListedVote
    <3>3. Serving(r)'
      BY <3>1, ServingReply
    <3> QED
      BY <1>1, <2>1, <3>2, <3>3, WentOn
  <2>4. CASE p.rest # <<>>
    <3>1. Head(p.rest) \in DOMAIN db.votes /\ Tail(p.rest) \in Seq(DOMAIN db.votes)
      BY <2>2, <2>4
    <3>2. PICK vote : vote = db.votes[Head(p.rest)]
      OBVIOUS
    <3>3. PICK f : f = IF Matches(p.query, vote)
                       THEN Append(p.found, [txid |-> Head(p.rest), vote |-> vote])
                       ELSE p.found
      OBVIOUS
    <3>4. PICK r : r = [p EXCEPT !.rest = Tail(p.rest), !.found = f]
      OBVIOUS
    <3>5. Goes(c, r)
      <4>1. [p EXCEPT !.rest = Tail(@),
                      !.found = IF Matches(p.query, vote)
                                THEN Append(@, [txid |-> Head(p.rest), vote |-> vote])
                                ELSE @] = r
        BY <2>2, <3>3, <3>4
      <4> QED
        BY <1>1, <1>5, <2>4, <3>1, <3>2, <4>1 DEF ReadListedVote
    <3>6. r.at = "list" /\ DOMAIN r = {"at", "rest", "found", "query"} /\ r.rest = Tail(p.rest)
      BY <2>1, <2>2, <3>4
    <3>7. Serving(r)'
      BY <2>1, <3>1, <3>6 DEF Serving
    <3> QED
      BY <1>1, <2>1, <3>5, <3>7, WentOn
  <2> QED
    BY <2>3, <2>4
<1>6. CASE ReadVoteById(c)
  <2>1. PICK r : r = Reply("OK", <<db.votes[p.txid]>>)
    OBVIOUS
  <2>2. p.at = "byid" /\ UNCHANGED <<db, cast>>
    BY <1>1, <1>6 DEF ReadVoteById
  <2>3. Goes(c, r)
    BY <1>1, <1>2, <1>6, <2>1, <2>2 DEF ReadVoteById, Serving
  <2>4. Serving(r)'
    BY <2>1, ServingReply
  <2> QED
    BY <1>1, <2>2, <2>3, <2>4, WentOn
<1>7. CASE Answer(c)
  <2>1. PICK r : r = Idle
    OBVIOUS
  <2>2. p.at = "reply" /\ Goes(c, r) /\ UNCHANGED <<db, cast>>
    BY <1>1, <1>7, <2>1 DEF Answer
  <2>3. Serving(r)'
    BY <2>1 DEF Serving, Idle
  <2> QED
    BY <1>1, <2>2, <2>3, WentOn
<1> QED
  BY <1>3, <1>4, <1>5, <1>6, <1>7

\* A statement of a request fails.
LEMMA RequestFails ==
    ASSUME ApiInv, NEW c \in Client, ArrivalFails(c) \/ StatementFails(c)
    PROVE  ApiInv'
<1>1. PICK code : Failed(c, code)
  BY DEF ArrivalFails, StatementFails
<1>2. server = "up"
  BY ServedWhileUp DEF ArrivalFails, StatementFails
<1>3. PICK r : r = Reply(code, <<>>)
  OBVIOUS
<1>4. /\ req' = [req EXCEPT ![c] = r]
      /\ UNCHANGED <<db, server, command, todo, cast, base>>
  BY <1>1, <1>3 DEF Failed
<1>5. faults' \in Nat /\ faults <= faults' /\ faults' > 0
  BY <1>1 DEF Failed, Fault, ApiInv, RequestsInv
<1>6. Serving(r)'
  BY <1>3, <1>5, ServingReply
<1> QED
  BY <1>2, <1>4, <1>5, <1>6, RequestReads

-----------------------------------------------------------------------------
(* The start, the stop and the statements of the start.                    *)

\* A start whose statements add transactions before they vote on them.
LEMMA Begun ==
    ASSUME ApiInv, NEW cmd, NEW program, NEW config, Begin(cmd, program, config),
           IsList(program), \A j \in DOMAIN program : OfStart(program, j)',
           config # None => Saving(config, program)'
    PROVE  ApiInv'
<1>1. /\ server = "down" /\ server' = "starting"
      /\ command' = [name |-> cmd, config |-> config] /\ todo' = program
      /\ UNCHANGED <<db, req, cast, base, faults>>
  BY DEF Begin
<1>2. command'.name = cmd /\ command'.config = config
  BY <1>1
<1>3. TablesInv'
  BY <1>1 DEF ApiInv, TablesInv
<1>4. ServerInv'
  BY <1>1, <1>2 DEF ApiInv, ServerInv
<1>5. RequestsInv'
  BY <1>1 DEF ApiInv, ServerInv, RequestsInv, Serving, Idle
<1> QED
  BY <1>3, <1>4, <1>5 DEF ApiInv

\* The statements of a start with a configuration file.
LEMMA ConfigProgram ==
    ASSUME NEW config, IsConfig(config), NEW q, q = update_config(config)
    PROVE  /\ IsList(q) /\ \A j \in DOMAIN q : OfConfig(q[j]) /\ OfStart(q, j)'
           /\ RowSaving(config, q)' /\ Saving(config, q)'
<1>1. /\ IsList(q) /\ \A j \in DOMAIN q : OfConfig(q[j])
      /\ RowSaving(config, q)' /\ Saving(config, q)'
  BY UpdateProgram
<1>2. \A j \in DOMAIN q : OfStart(q, j)'
  BY <1>1 DEF OfStart
<1> QED
  BY <1>1, <1>2

\* The simulator's list adds every transaction before the first vote.
LEMMA SimulatorProgram ==
    ASSUME NEW drawn \in [Txid -> Draws], NEW q,
           q = update_config(from_secret_key) \o generate_txs_votes(drawn)
    PROVE  /\ IsList(q) /\ \A j \in DOMAIN q : OfStart(q, j)'
           /\ RowSaving(from_secret_key, q)' /\ Saving(from_secret_key, q)'
<1>1. PICK u : u = update_config(from_secret_key)
  OBVIOUS
<1>2. PICK a : a = [i \in Txid |-> Statement("transactions", i)]
  OBVIOUS
<1>3. PICK b : b = [i \in Txid |-> Statement("votes", <<i, drawn[i]>>)]
  OBVIOUS
<1>4. PICK g : g = a \o b
  OBVIOUS
<1>5. /\ from_secret_key.row = "test" /\ from_secret_key.delegators = <<>>
      /\ from_secret_key.denied = <<>>
  BY DEF from_secret_key
<1>6. IsConfig(from_secret_key)
  BY <1>5, EmptyList, ApiAssumption DEF IsConfig
<1>7. /\ IsList(u) /\ \A j \in DOMAIN u : OfConfig(u[j])
      /\ RowSaving(from_secret_key, u)'
  BY <1>1, <1>6, UpdateProgram
<1>8. IsList(a) /\ DOMAIN a = Txid /\ Len(a) = NumTxs
      /\ \A i \in Txid : a[i] = Statement("transactions", i)
  <2>1. NumTxs \in Nat /\ Txid = 1..NumTxs
    BY ApiAssumption DEF Txid
  <2>2. a \in [1..NumTxs -> {Statement("transactions", i) : i \in Txid}]
    BY <1>2, <2>1
  <2>3. IsList(a) /\ Len(a) = NumTxs
    BY <2>1, <2>2, ListOfLength, Zenon
  <2> QED
    BY <1>2, <2>3
<1>9. IsList(b) /\ DOMAIN b = Txid
      /\ \A i \in Txid : b[i] = Statement("votes", <<i, drawn[i]>>)
  <2>1. NumTxs \in Nat /\ Txid = 1..NumTxs
    BY ApiAssumption DEF Txid
  <2>2. b \in [1..NumTxs -> {Statement("votes", <<i, drawn[i]>>) : i \in Txid}]
    BY <1>3, <2>1
  <2>3. IsList(b) /\ Len(b) = NumTxs
    BY <2>1, <2>2, ListOfLength, Zenon
  <2> QED
    BY <1>3, <2>3
<1>10. IsList(g) /\ Joined(a, b, g)
  <2>1. Joined(a, b, g)
    BY <1>4, <1>8, <1>9, ConcatMembers
  <2> QED
    BY <2>1 DEF Joined
<1>11. IsList(q) /\ Joined(u, g, q)
  <2>1. q = u \o g
    BY <1>1, <1>2, <1>3, <1>4 DEF generate_txs_votes
  <2>2. Joined(u, g, q)
    BY <1>7, <1>10, <2>1, ConcatMembers
  <2> QED
    BY <2>2 DEF Joined
<1>12. ASSUME NEW j \in DOMAIN q
       PROVE  OfStart(q, j)'
  <2>1. \/ j \in DOMAIN u /\ q[j] = u[j]
        \/ \E i \in DOMAIN g : q[j] = g[i] /\ j = Len(u) + i
    BY <1>11 DEF Joined
  <2>2. CASE j \in DOMAIN u /\ q[j] = u[j]
    BY <1>7, <2>2 DEF OfStart
  <2>3. CASE \E i \in DOMAIN g : q[j] = g[i] /\ j = Len(u) + i
    <3>1. PICK i \in DOMAIN g : q[j] = g[i] /\ j = Len(u) + i
      BY <2>3
    <3>2. \/ i \in DOMAIN a /\ g[i] = a[i]
          \/ \E m \in DOMAIN b : g[i] = b[m] /\ i = Len(a) + m
      BY <1>10 DEF Joined
    <3>3. CASE i \in DOMAIN a /\ g[i] = a[i]
      <4>1. q[j] = Statement("transactions", i) /\ i \in Txid
        BY <1>8, <3>1, <3>3
      <4>2. Table(q[j]) = "transactions" /\ Row(q[j]) \in Txid
        BY <4>1 DEF Table, Row, Statement
      <4> QED
        BY <4>2 DEF OfStart
    <3>4. CASE \E m \in DOMAIN b : g[i] = b[m] /\ i = Len(a) + m
      <4>1. PICK m \in DOMAIN b : g[i] = b[m] /\ i = Len(a) + m
        BY <3>4
      <4>2. m \in Txid /\ q[j] = Statement("votes", <<m, drawn[m]>>) /\ drawn[m] \in Draws
        BY <1>9, <3>1, <4>1
      <4>3. Table(q[j]) = "votes" /\ Row(q[j])[1] = m /\ Row(q[j])[2] = drawn[m]
        BY <4>2 DEF Table, Row, Statement
      <4>4. m \in DOMAIN g /\ g[m] = Statement("transactions", m)
        BY <1>8, <1>10, <4>2 DEF Joined
      <4>5. PICK k \in DOMAIN q : q[k] = g[m] /\ k = Len(u) + m
        BY <1>11, <4>4 DEF Joined
      <4>6. k \in 1..(j - 1)
        <5>1. Len(u) \in Nat /\ Len(a) \in Nat /\ NumTxs \in Nat /\ m \in 1..NumTxs
          BY <1>7, <1>8, <4>2, ListFacts, ApiAssumption DEF Txid
        <5> QED
          BY <1>8, <3>1, <4>1, <4>5, <5>1
      <4> QED
        BY <4>2, <4>3, <4>4, <4>5, <4>6 DEF OfStart
    <3> QED
      BY <3>2, <3>3, <3>4
  <2> QED
    BY <2>1, <2>2, <2>3
<1>13. RowSaving(from_secret_key, q)'
  <2>1. \A j \in DOMAIN g : Table(g[j]) # "config"
    <3> SUFFICES ASSUME NEW j \in DOMAIN g PROVE Table(g[j]) # "config"
      OBVIOUS
    <3>1. (\E i \in DOMAIN a : g[j] = a[i]) \/ (\E i \in DOMAIN b : g[j] = b[i])
      BY <1>10 DEF Joined
    <3> QED
      BY <1>8, <1>9, <3>1 DEF Table, Statement
  <2>2. \A j \in DOMAIN q : (j \in DOMAIN u /\ q[j] = u[j]) \/ Table(q[j]) # "config"
    BY <1>11, <2>1 DEF Joined
  <2>3. \A j \in DOMAIN u : j \in DOMAIN q /\ q[j] = u[j]
    BY <1>11 DEF Joined
  <2> QED
    BY <1>7, <2>2, <2>3 DEF RowSaving
<1>14. Saving(from_secret_key, q)'
  BY <1>5, EmptyList DEF Saving
<1> QED
  BY <1>11, <1>12, <1>13, <1>14

\* The process is started, in any of its ways.
LEMMA Started ==
    ASSUME ApiInv, (\E raw \in Files : RunWithFile(raw)) \/ Run \/ RunSimulator \/ RunSwagger
    PROVE  ApiInv'
<1>1. ASSUME NEW raw \in Files, RunWithFile(raw)
      PROVE  ApiInv'
  <2>1. PICK config : config = FromRaw(raw)
    OBVIOUS
  <2>2. PICK q : q = update_config(config)
    OBVIOUS
  <2>3. Begin("run", q, config)
    BY <1>1, <2>1, <2>2 DEF RunWithFile
  <2>4. IsConfig(config)
    <3>1. config.row = raw.row /\ config.delegators = OrEmpty(raw.delegators)
          /\ config.denied = OrEmpty(raw.denied)
      BY <2>1 DEF FromRaw
    <3> QED
      BY <3>1, EmptyList, ApiAssumption DEF OrEmpty, IsConfig
  <2>5. /\ IsList(q) /\ \A j \in DOMAIN q : OfStart(q, j)'
        /\ Saving(config, q)'
    BY <2>2, <2>4, ConfigProgram
  <2> QED
    BY <2>3, <2>5, Begun
<1>2. ASSUME Run
      PROVE  ApiInv'
  <2>1. Begin("run", <<>>, None)
    BY <1>2 DEF Run
  <2> QED
    BY <2>1, EmptyList, Begun
<1>3. ASSUME RunSimulator
      PROVE  ApiInv'
  <2>1. PICK drawn \in [Txid -> Draws] :
            Begin("simulator", update_config(from_secret_key) \o generate_txs_votes(drawn),
                  from_secret_key)
    BY <1>3 DEF RunSimulator
  <2>2. PICK q : q = update_config(from_secret_key) \o generate_txs_votes(drawn)
    OBVIOUS
  <2>3. /\ IsList(q) /\ \A j \in DOMAIN q : OfStart(q, j)'
        /\ Saving(from_secret_key, q)'
    BY <2>2, SimulatorProgram
  <2>4. PICK config : config = from_secret_key
    OBVIOUS
  <2>5. Begin("simulator", q, config) /\ Saving(config, q)'
    BY <2>1, <2>2, <2>3, <2>4
  <2> QED
    BY <2>3, <2>5, Begun
<1>4. ASSUME RunSwagger
      PROVE  ApiInv'
  BY <1>4, EmptyList, Begun DEF RunSwagger
<1> QED
  BY <1>1, <1>2, <1>3, <1>4

\* A statement of the start, by what it does to the tables.
LEMMA StartGoesOn ==
    ASSUME ApiInv, StartStatement, TablesInv', NEW s, s = Head(todo),
           DOMAIN db.votes \subseteq DOMAIN db'.votes,
           \A t \in Txid : cast[t] = <<>> => cast'[t] = <<>>,
           Table(s) = "transactions" => Row(s) \in DOMAIN db'.votes /\ cast'[Row(s)] = <<>>,
           db.delegators \subseteq db'.delegators, db.denied \subseteq db'.denied,
           Table(s) = "delegator_public_keys" => Row(s) \in db'.delegators,
           Table(s) = "auto_deny_addresses" => Row(s) \in db'.denied
    PROVE  ApiInv'
<1>1. /\ server = "starting" /\ todo # <<>> /\ todo' = Tail(todo)
      /\ UNCHANGED <<server, command, req, faults>>
  BY DEF StartStatement
<1>2. PICK q : q = todo
  OBVIOUS
<1>3. PICK rest : rest = Tail(q)
  OBVIOUS
<1>4. /\ IsList(q) /\ q # <<>> /\ \A j \in DOMAIN q : OfStart(q, j)
      /\ command.config # None => Saving(command.config, q)
  BY <1>1, <1>2 DEF ApiInv, ServerInv
<1>5. /\ IsList(rest) /\ DOMAIN rest = 1..(Len(q) - 1) /\ q[1] = s
      /\ \A i \in 1..(Len(q) - 1) : rest[i] = q[i + 1]
      /\ \A i \in DOMAIN q : i = 1 \/ (i - 1 \in DOMAIN rest /\ q[i] = rest[i - 1])
      /\ Len(q) \in Nat /\ DOMAIN q = 1..Len(q)
  BY <1>2, <1>3, <1>4, TailOfList, ListFacts
<1>6. ASSUME NEW j \in DOMAIN rest
      PROVE  OfStart(rest, j)'
  <2>1. j + 1 \in DOMAIN q /\ rest[j] = q[j + 1]
    BY <1>5
  <2>2. PICK x : x = rest[j]
    OBVIOUS
  <2>3. \/ OfConfig(x)
        \/ Table(x) = "transactions" /\ Row(x) \in Txid
        \/ /\ Table(x) = "votes" /\ Row(x)[1] \in Txid /\ Row(x)[2] \in Draws
           /\ \/ \E k \in 1..j : q[k] = Statement("transactions", Row(x)[1])
              \/ Row(x)[1] \in DOMAIN db.votes /\ cast[Row(x)[1]] = <<>>
    <3>1. OfStart(q, j + 1) /\ (j + 1) - 1 = j
      BY <1>4, <1>5, <2>1
    <3> QED
      BY <2>1, <2>2, <3>1 DEF OfStart
  <2>4. CASE OfConfig(x) \/ (Table(x) = "transactions" /\ Row(x) \in Txid)
    BY <2>2, <2>4 DEF OfStart
  <2>5. CASE /\ Table(x) = "votes" /\ Row(x)[1] \in Txid /\ Row(x)[2] \in Draws
             /\ Row(x)[1] \in DOMAIN db.votes /\ cast[Row(x)[1]] = <<>>
    BY <2>2, <2>5 DEF OfStart
  <2>6. CASE /\ Table(x) = "votes" /\ Row(x)[1] \in Txid /\ Row(x)[2] \in Draws
             /\ \E k \in 1..j : q[k] = Statement("transactions", Row(x)[1])
    <3>1. PICK k \in 1..j : q[k] = Statement("transactions", Row(x)[1])
      BY <2>6
    <3>2. CASE k = 1
      <4>1. Table(s) = "transactions" /\ Row(s) = Row(x)[1]
        BY <1>5, <3>1, <3>2 DEF Table, Row, Statement
      <4> QED
        BY <2>2, <2>6, <4>1 DEF OfStart
    <3>3. CASE k # 1
      <4>1. k - 1 \in 1..(j - 1) /\ k \in DOMAIN q
        BY <1>5, <3>1, <3>3
      <4>2. rest[k - 1] = Statement("transactions", Row(x)[1])
        BY <1>5, <3>1, <3>3, <4>1
      <4> QED
        BY <2>2, <2>6, <4>1, <4>2 DEF OfStart
    <3> QED
      BY <3>2, <3>3
  <2> QED
    BY <2>3, <2>4, <2>5, <2>6
<1>7. ASSUME command.config # None, NEW config, config = command.config
      PROVE  Saving(config, rest)'
  <2>1. Saving(config, Tail(q))'
    BY <1>2, <1>4, <1>7, SavingTail
  <2> QED
    BY <1>3, <2>1
<1>9. todo' = rest
  BY <1>1, <1>2, <1>3
<1>10. ServerInv'
  <2>1. \A c \in Client : req[c] = Idle
    BY <1>1 DEF ApiInv, ServerInv
  <2> QED
    BY <1>1, <1>5, <1>6, <1>7, <1>9, <2>1 DEF ServerInv
<1>11. RequestsInv'
  <2>1. \A c \in Client : req[c] = Idle
    BY <1>1 DEF ApiInv, ServerInv
  <2> QED
    BY <1>1, <2>1 DEF ApiInv, RequestsInv, Serving, Idle
<1> QED
  BY <1>10, <1>11 DEF ApiInv

\* A statement of the start is written.
LEMMA StartWrites ==
    ASSUME ApiInv, StartStatement
    PROVE  ApiInv'
<1>1. server = "starting" /\ todo # <<>>
  BY DEF StartStatement
<1>2. PICK s : s = Head(todo)
  OBVIOUS
<1>3. /\ db' = Apply(db, s)
      /\ cast' = IF Table(s) = "transactions" THEN [cast EXCEPT ![Row(s)] = <<>>] ELSE cast
      /\ base' = CASE Table(s) = "transactions" -> [base EXCEPT ![Row(s)] = 0]
                   [] Table(s) = "votes" ->
                         [base EXCEPT ![Row(s)[1]] = Row(s)[2].current_consensus]
                   [] OTHER -> base
  BY <1>2 DEF StartStatement
<1>4. \/ OfConfig(s)
      \/ Table(s) = "transactions" /\ Row(s) \in Txid
      \/ /\ Table(s) = "votes" /\ Row(s)[1] \in Txid /\ Row(s)[2] \in Draws
         /\ Row(s)[1] \in DOMAIN db.votes /\ cast[Row(s)[1]] = <<>>
  <2>1. IsList(todo) /\ \A j \in DOMAIN todo : OfStart(todo, j)
    BY DEF ApiInv, ServerInv
  <2>2. OfStart(todo, 1) /\ todo[1] = s /\ 1..(1 - 1) = {}
    BY <1>1, <1>2, <2>1, TailOfList
  <2> QED
    BY <2>2 DEF OfStart
<1>5. TablesInv
  BY DEF ApiInv
<1>6. CASE OfConfig(s)
  <2>1. /\ DOMAIN db' = DbFields /\ db'.transactions = db.transactions /\ db'.votes = db.votes
        /\ db.delegators \subseteq db'.delegators /\ db.denied \subseteq db'.denied
        /\ Table(s) = "delegator_public_keys" => Row(s) \in db'.delegators
        /\ Table(s) = "auto_deny_addresses" => Row(s) \in db'.denied
        /\ Table(s) \notin {"transactions", "votes"}
    BY <1>3, <1>5, <1>6, ConfigStatement DEF TablesInv
  <2>2. UNCHANGED <<cast, base>>
    BY <1>3, <2>1
  <2>3. TablesInv'
    BY <1>5, <2>1, <2>2, TablesKept
  <2> QED
    BY <1>2, <2>1, <2>2, <2>3, StartGoesOn
<1>7. CASE Table(s) = "transactions" /\ Row(s) \in Txid
  <2>1. PICK t : t = Row(s)
    OBVIOUS
  <2>2. db' = add_transaction(db, t)
    BY <1>3, <1>7, <2>1 DEF Apply
  <2>3. /\ DOMAIN db' = DbFields
        /\ db'.transactions \in Seq(Txid) /\ IsInjective(db'.transactions)
        /\ ToSet(db'.transactions) = ToSet(db.transactions) \cup {t}
        /\ DOMAIN db'.votes = DOMAIN db.votes \cup {t}
        /\ \A u \in DOMAIN db'.votes :
              db'.votes[u] = IF u = t THEN add_empty_vote ELSE db.votes[u]
        /\ db'.config = db.config /\ db'.delegators = db.delegators /\ db'.denied = db.denied
    <3>1. /\ DOMAIN db = DbFields /\ db.transactions \in Seq(Txid)
          /\ IsInjective(db.transactions) /\ t \in Txid
      BY <1>5, <1>7, <2>1 DEF TablesInv
    <3>2. PICK e : e = db'
      OBVIOUS
    <3>3. AddedTo(db, t, Txid, e)
      BY <2>2, <3>1, <3>2, AddTransaction
    <3> QED
      BY <3>2, <3>3 DEF AddedTo
  <2>4. /\ cast' = [cast EXCEPT ![t] = <<>>] /\ base' = [base EXCEPT ![t] = 0]
    BY <1>3, <1>7, <2>1
  <2>5. /\ cast' \in [Txid -> Seq(Choice)] /\ base' \in [Txid -> 0..99]
        /\ cast'[t] = <<>> /\ base'[t] = 0
        /\ \A u \in Txid \ {t} : cast'[u] = cast[u] /\ base'[u] = base[u]
    BY <1>5, <1>7, <2>1, <2>4 DEF TablesInv
  <2>6. TablesInv'
    <3>1. \A u \in Txid : cast'[u] # <<>> =>
            u \in DOMAIN db'.votes /\ db'.votes[u] = Vote(Last(cast'[u]), "pending", base'[u] + 1)
      BY <1>5, <2>3, <2>5 DEF TablesInv
    <3>2. \A u \in DOMAIN db'.votes : cast'[u] = <<>> =>
            \E ch \in Choice \cup {None}, status \in Status :
                db'.votes[u] = Vote(ch, status, base'[u])
      <4> SUFFICES ASSUME NEW u \in DOMAIN db'.votes, cast'[u] = <<>>
                   PROVE  \E ch \in Choice \cup {None}, status \in Status :
                              db'.votes[u] = Vote(ch, status, base'[u])
        OBVIOUS
      <4>1. CASE u = t
        BY <2>3, <2>5, <4>1 DEF add_empty_vote, Status
      <4>2. CASE u # t
        <5>1. u \in DOMAIN db.votes /\ u \in Txid /\ db'.votes[u] = db.votes[u]
          BY <1>5, <2>3, <4>2, VotesOnTxids
        <5> QED
          BY <1>5, <2>5, <4>2, <5>1 DEF TablesInv
      <4> QED
        BY <4>1, <4>2
    <3> QED
      BY <1>5, <2>3, <2>5, <3>1, <3>2 DEF TablesInv
  <2>7. \A u \in Txid : cast[u] = <<>> => cast'[u] = <<>>
    BY <2>5
  <2> QED
    BY <1>2, <1>7, <2>1, <2>3, <2>5, <2>6, <2>7, StartGoesOn
<1>8. CASE /\ Table(s) = "votes" /\ Row(s)[1] \in Txid /\ Row(s)[2] \in Draws
           /\ Row(s)[1] \in DOMAIN db.votes /\ cast[Row(s)[1]] = <<>>
  <2>1. PICK t : t = Row(s)[1]
    OBVIOUS
  <2>2. PICK v : v = Row(s)[2]
    OBVIOUS
  <2>3. db' = add_vote(db, t, v)
    BY <1>3, <1>8, <2>1, <2>2 DEF Apply
  <2>4. /\ DOMAIN db' = DbFields /\ db'.transactions = db.transactions
        /\ DOMAIN db'.votes = DOMAIN db.votes
        /\ \A u \in DOMAIN db.votes : db'.votes[u] = IF u = t THEN v ELSE db.votes[u]
        /\ db'.config = db.config /\ db'.delegators = db.delegators /\ db'.denied = db.denied
    BY <1>5, <1>8, <2>1, <2>3, VoteStatement DEF TablesInv
  <2>5. UNCHANGED cast /\ base' = [base EXCEPT ![t] = v.current_consensus]
    BY <1>3, <1>8, <2>1, <2>2
  <2>6. PICK ch \in Choice \cup {None}, st \in Status, n \in 1..99 : v = Vote(ch, st, n)
    <3>1. v \in generate_vote
      BY <1>8, <2>2, ApiAssumption
    <3>2. 1..54 \subseteq 1..99 /\ 70..99 \subseteq 1..99 /\ 1..68 \subseteq 1..99
      OBVIOUS
    <3> QED
      BY <3>1, <3>2 DEF generate_vote, Status
  <2>7. v.current_consensus = n
    BY <2>6 DEF Vote
  <2>8. /\ base' \in [Txid -> 0..99] /\ base'[t] = n
        /\ \A u \in Txid \ {t} : base'[u] = base[u]
    BY <1>5, <1>8, <2>1, <2>5, <2>7 DEF TablesInv
  <2>9. TablesInv'
    <3>1. \A u \in Txid : cast'[u] # <<>> =>
            u \in DOMAIN db'.votes /\ db'.votes[u] = Vote(Last(cast'[u]), "pending", base'[u] + 1)
      BY <1>5, <1>8, <2>1, <2>4, <2>5, <2>8 DEF TablesInv
    <3>2. \A u \in DOMAIN db'.votes : cast'[u] = <<>> =>
            \E c \in Choice \cup {None}, status \in Status :
                db'.votes[u] = Vote(c, status, base'[u])
      <4> SUFFICES ASSUME NEW u \in DOMAIN db'.votes, cast'[u] = <<>>
                   PROVE  \E c \in Choice \cup {None}, status \in Status :
                              db'.votes[u] = Vote(c, status, base'[u])
        OBVIOUS
      <4>1. CASE u = t
        BY <2>4, <2>6, <2>8, <4>1
      <4>2. CASE u # t
        <5>1. u \in DOMAIN db.votes /\ u \in Txid /\ db'.votes[u] = db.votes[u]
          BY <1>5, <2>4, <4>2, VotesOnTxids
        <5> QED
          BY <1>5, <2>5, <2>8, <4>2, <5>1 DEF TablesInv
      <4> QED
        BY <4>1, <4>2
    <3> QED
      BY <1>5, <2>4, <2>5, <2>8, <3>1, <3>2 DEF TablesInv
  <2> QED
    BY <1>2, <1>8, <2>4, <2>5, <2>9, StartGoesOn
<1> QED
  BY <1>4, <1>6, <1>7, <1>8

\* The start has ended.
LEMMA ServingStarts ==
    ASSUME ApiInv, Serve
    PROVE  ApiInv'
<1>1. /\ server = "starting" /\ todo = <<>> /\ server' = "up"
      /\ UNCHANGED <<db, command, todo, req, cast, base, faults>>
  BY DEF Serve
<1>3. TablesInv'
  BY <1>1 DEF ApiInv, TablesInv
<1>4. ServerInv'
  BY <1>1, EmptyList DEF ApiInv, ServerInv
<1>5. RequestsInv'
  <2>1. \A c \in Client : req[c] = Idle
    BY <1>1 DEF ApiInv, ServerInv
  <2> QED
    BY <1>1, <2>1 DEF ApiInv, RequestsInv, Serving, Idle
<1> QED
  BY <1>3, <1>4, <1>5 DEF ApiInv

\* A file keeps its tables; a database in memory is as it was at first.
LEMMA Crashed ==
    ASSUME ApiInv, Crash
    PROVE  ApiInv'
<1>1. /\ server' = "down" /\ todo' = <<>> /\ req' = [c \in Client |-> Idle] /\ UNCHANGED faults
  BY DEF Crash
<1>2. ServerInv'
  BY <1>1, EmptyList DEF ServerInv
<1>3. RequestsInv'
  BY <1>1 DEF ApiInv, RequestsInv, Serving, Idle
<1>4. CASE UNCHANGED <<db, cast, base>>
  <2>1. TablesInv'
    BY <1>4 DEF ApiInv, TablesInv
  <2> QED
    BY <1>2, <1>3, <2>1 DEF ApiInv
<1>5. CASE /\ db' = EmptyDb /\ cast' = [t \in Txid |-> <<>>]
           /\ base' = [t \in Txid |-> 0]
  <2>1. TablesInv'
    <3>1. db'.transactions = <<>> /\ db'.votes = <<>> /\ DOMAIN db' = DbFields
      BY <1>5 DEF EmptyDb, DbFields
    <3>2. DOMAIN db'.votes = {} /\ ToSet(db'.transactions) = {}
      BY <3>1 DEF ToSet
    <3>3. cast' \in [Txid -> Seq(Choice)] /\ base' \in [Txid -> 0..99]
      BY <1>5
    <3>4. \A t \in Txid : cast'[t] = <<>>
      BY <1>5
    <3>5. IsInjective(db'.transactions) /\ db'.transactions \in Seq(Txid)
      BY <3>1 DEF IsInjective
    <3> QED
      BY <3>1, <3>2, <3>3, <3>4, <3>5 DEF TablesInv
  <2> QED
    BY <1>2, <1>3, <2>1 DEF ApiInv
<1> QED
  BY <1>4, <1>5 DEF Crash

\* Every step keeps the invariant.
LEMMA NextApiInv == ApiInv /\ [Next]_vars => ApiInv'
<1> SUFFICES ASSUME ApiInv, [Next]_vars PROVE ApiInv'
  OBVIOUS
<1>1. CASE (\E raw \in Files : RunWithFile(raw)) \/ Run \/ RunSimulator \/ RunSwagger
  BY <1>1, Started
<1>2. CASE StartStatement
  BY <1>2, StartWrites
<1>3. CASE Serve
  BY <1>3, ServingStarts
<1>4. CASE Crash
  BY <1>4, Crashed
<1>5. ASSUME NEW c \in Client,
             \/ PostVote(c) \/ PostConfig(c) \/ GetConfig(c) \/ GetTransactions(c)
             \/ GetTransactionById(c)
      PROVE  ApiInv'
  BY <1>5, RequestArrives
<1>6. ASSUME NEW c \in Client, WriteVote(c)
      PROVE  ApiInv'
  BY <1>6, VoteWritten
<1>7. ASSUME NEW c \in Client, UpdateConfig(c)
      PROVE  ApiInv'
  BY <1>7, ConfigUpdated
<1>8. ASSUME NEW c \in Client,
             \/ ReadDelegators(c) \/ ReadDenied(c) \/ ReadListedVote(c) \/ ReadVoteById(c)
             \/ Answer(c)
      PROVE  ApiInv'
  BY <1>8, RequestReadsOn
<1>9. ASSUME NEW c \in Client, ArrivalFails(c) \/ StatementFails(c)
      PROVE  ApiInv'
  BY <1>9, RequestFails
<1>10. CASE UNCHANGED vars
  <2>1. UNCHANGED <<db, server, command, todo, req, cast, base, faults>>
    BY <1>10 DEF vars
  <2>2. TablesInv'
    BY <2>1 DEF ApiInv, TablesInv
  <2>3. ServerInv'
    <3>1. \A q, j : OfStart(q, j) => OfStart(q, j)'
      BY <2>1 DEF OfStart
    <3>2. \A config, q : Saving(config, q) => Saving(config, q)'
      BY <2>1 DEF Saving, ToCome
    <3> QED
      BY <2>1, <3>1, <3>2 DEF ApiInv, ServerInv
  <2>4. RequestsInv'
    <3>1. \A r : Serving(r) => Serving(r)'
      BY <2>1, ServingKept DEF ApiInv, RequestsInv
    <3> QED
      BY <2>1, <3>1 DEF ApiInv, RequestsInv
  <2> QED
    BY <2>2, <2>3, <2>4 DEF ApiInv
<1> QED
  BY <1>1, <1>2, <1>3, <1>4, <1>5, <1>6, <1>7, <1>8, <1>9, <1>10 DEF Next

-----------------------------------------------------------------------------
(* The configuration in force.                                             *)

\* It is in the tables.
Saved(config) ==
    /\ config.row # None /\ db.config = config.row
    /\ ToSet(config.delegators) \subseteq db.delegators
    /\ ToSet(config.denied) \subseteq db.denied

\* What a request for it has read of it so far.
Knows(r, config) ==
    /\ r.at \in {"delegators", "denied", "reply"}
    /\ r.at \in {"delegators", "denied"} => r.row = config.row
    /\ r.at = "denied" => ToSet(config.delegators) \subseteq r.delegators
    /\ r.at = "reply" =>
          IF r.code = "OK"
          THEN /\ r.body[1].row = config.row
               /\ ToSet(config.delegators) \subseteq r.body[1].delegators
               /\ ToSet(config.denied) \subseteq r.body[1].denied
          ELSE faults > 0

Updating(c) == req[c].at = "update"

\* Nobody writes while a configuration is in force; an update that has
\* overlapped no other still has to write its row or finds it written.
ConfigInv ==
    /\ acked # {} => /\ \A c \in Client : ~Updating(c)
                     /\ server = "starting" => command.config = None
    /\ alone => \A c, d \in Client : Updating(c) /\ Updating(d) => c = d
    /\ alone => \A c \in Client : Updating(c) => RowSaving(req[c].config, req[c].todo)
    /\ server = "starting" =>
          IF command.config = None THEN todo = <<>> ELSE RowSaving(command.config, todo)
    /\ \A config \in acked : Saved(config)
    /\ steady \subseteq Client /\ (acked = {} => steady = {})
    /\ \A c \in steady, config \in acked : Knows(req[c], config)

\* A step of a request that is not an update's.
LEMMA ConfigKept ==
    ASSUME ApiInv, ConfigInv, NEW c \in Client, server = "up", NEW r,
           req' = [req EXCEPT ![c] = r], r.at # "update",
           UNCHANGED <<server, acked, alone>>, faults' \in Nat, faults <= faults',
           db'.config = db.config, db'.delegators = db.delegators, db'.denied = db.denied,
           steady' \subseteq steady \cup {c}, acked = {} => steady' = {},
           c \in steady' => \A config \in acked : Knows(r, config)'
    PROVE  ConfigInv'
<1>1. DOMAIN req' = Client /\ req'[c] = r /\ \A d \in Client \ {c} : req'[d] = req[d]
  BY DEF ApiInv, RequestsInv
<1>2. \A d \in Client : Updating(d)' => d # c /\ Updating(d) /\ req'[d] = req[d]
  BY <1>1 DEF Updating
<1>3. acked' # {} => \A d \in Client : ~Updating(d)'
  BY <1>2 DEF ConfigInv
<1>4. alone' => \A d, e \in Client : Updating(d)' /\ Updating(e)' => d = e
  BY <1>2 DEF ConfigInv
<1>5. alone' => \A d \in Client : Updating(d)' => RowSaving(req[d].config, req[d].todo)'
  BY <1>2 DEF ConfigInv, RowSaving
<1>6. \A config \in acked' : Saved(config)'
  BY DEF ConfigInv, Saved
<1>7. ASSUME NEW d \in steady', NEW config \in acked'
      PROVE  Knows(req[d], config)'
  <2>1. CASE d = c
    BY <1>1, <1>7, <2>1
  <2>2. CASE d # c
    <3>1. req'[d] = req[d] /\ Knows(req[d], config) /\ faults \in Nat
      BY <1>1, <1>7, <2>2 DEF ConfigInv, ApiInv, RequestsInv
    <3> QED
      BY <3>1 DEF Knows
  <2> QED
    BY <2>1, <2>2
<1>8. steady' \subseteq Client /\ (acked' = {} => steady' = {})
  BY DEF ConfigInv
<1>9. server' # "starting"
  OBVIOUS
<1> QED
  BY <1>3, <1>4, <1>5, <1>6, <1>7, <1>8, <1>9 DEF ConfigInv

\* A request that is idle, or about votes, is not one for the configuration.
LEMMA NotSteady ==
    ASSUME ConfigInv, NEW c \in Client, req[c].at \notin {"delegators", "denied", "reply"}
    PROVE  c \notin steady
<1>1. c \in steady => \E config : config \in acked
  BY DEF ConfigInv
<1> QED
  BY <1>1 DEF ConfigInv, Knows

\* A request that is not for the configuration, or fails.
LEMMA ConfigUntouched ==
    ASSUME ApiInv, ConfigInv, NEW c \in Client,
           \/ PostVote(c) \/ WriteVote(c) \/ GetTransactions(c) \/ GetTransactionById(c)
           \/ ReadListedVote(c) \/ ReadVoteById(c)
    PROVE  ConfigInv'
<1>1. UNCHANGED ackVars
  BY DEF PostVote, WriteVote, GetTransactions, GetTransactionById, ReadListedVote, ReadVoteById
<1>2. c \notin steady
  <2>1. req[c].at \in {"idle", "vote", "list", "byid"}
    BY DEF PostVote, WriteVote, GetTransactions, GetTransactionById, ReadListedVote,
           ReadVoteById, Arrive, Idle
  <2> QED
    BY <2>1, NotSteady
<1>3. server = "up" /\ UNCHANGED <<server, faults>> /\ faults \in Nat
  <2>1. server = "up"
    BY ServedWhileUp
    DEF PostVote, WriteVote, GetTransactions, GetTransactionById, ReadListedVote, ReadVoteById,
        Arrive
  <2>2. UNCHANGED <<server, faults>>
    BY DEF PostVote, WriteVote, GetTransactions, GetTransactionById, ReadListedVote,
           ReadVoteById, Arrive, Goes
  <2> QED
    BY <2>1, <2>2 DEF ApiInv, RequestsInv
<1>4. db'.config = db.config /\ db'.delegators = db.delegators /\ db'.denied = db.denied
  <2>1. CASE WriteVote(c)
    <3>1. UNCHANGED db \/ db' = add_vote(db, req[c].txid, req[c].vote)
      BY <2>1 DEF WriteVote
    <3>2. CASE db' = add_vote(db, req[c].txid, req[c].vote)
      BY <3>2 DEF add_vote, ApiInv, TablesInv, DbFields
    <3> QED
      BY <3>1, <3>2
  <2>2. CASE ~WriteVote(c)
    BY <2>2 DEF PostVote, GetTransactions, GetTransactionById, ReadListedVote, ReadVoteById,
                Arrive
  <2> QED
    BY <2>1, <2>2
<1>5. PICK r : req' = [req EXCEPT ![c] = r] /\ r.at # "update"
  <2>0. \A code, body : Reply(code, body).at = "reply"
    BY DEF Reply
  <2>1. CASE PostVote(c)
    <3>1. PICK txid, choice : req' = [req EXCEPT ![c] = ReadBallot(txid, choice)]
      BY <2>1 DEF PostVote, Arrive
    <3>2. PICK r : r = ReadBallot(txid, choice)
      OBVIOUS
    <3>3. (\E code, body : r = Reply(code, body)) \/ r.at = "vote"
      BY <3>2 DEF ReadBallot
    <3> QED
      BY <2>0, <3>1, <3>2, <3>3
  <2>2. CASE WriteVote(c)
    <3>1. PICK r : /\ req' = [req EXCEPT ![c] = r]
                   /\ \/ r = [Reply("OK", <<req[c].vote>>) EXCEPT !.votes = req[c].votes]
                      \/ r = Reply("INTERNAL_SERVER_ERROR", <<>>)
      BY <2>2 DEF WriteVote, Goes
    <3>2. r.at = "reply"
      BY <3>1 DEF Reply
    <3> QED
      BY <3>1, <3>2
  <2>3. CASE GetTransactions(c)
    <3>1. PICK query \in Queries :
              Arrive(c, IF query.page = 0 THEN Reply("BAD_REQUEST", <<>>)
                        ELSE [at |-> "list", rest |-> db.transactions, found |-> <<>>,
                              query |-> query])
      BY <2>3 DEF GetTransactions
    <3>2. PICK r : r = IF query.page = 0 THEN Reply("BAD_REQUEST", <<>>)
                       ELSE [at |-> "list", rest |-> db.transactions, found |-> <<>>,
                             query |-> query]
      OBVIOUS
    <3>3. req' = [req EXCEPT ![c] = r]
      BY <3>1, <3>2 DEF Arrive
    <3>4. r.at \in {"list", "reply"}
      BY <2>0, <3>2
    <3> QED
      BY <3>3, <3>4
  <2>4. CASE GetTransactionById(c)
    <3>1. PICK txid :
              Arrive(c, IF ~HasTransaction(db, txid) THEN Reply("NOT_FOUND", <<>>)
                        ELSE [at |-> "byid", txid |-> txid])
      BY <2>4 DEF GetTransactionById
    <3>2. PICK r : r = IF ~HasTransaction(db, txid) THEN Reply("NOT_FOUND", <<>>)
                       ELSE [at |-> "byid", txid |-> txid]
      OBVIOUS
    <3>3. req' = [req EXCEPT ![c] = r]
      BY <3>1, <3>2 DEF Arrive
    <3>4. r.at \in {"byid", "reply"}
      BY <2>0, <3>2
    <3> QED
      BY <3>3, <3>4
  <2>5. CASE ReadListedVote(c)
    <3>1. req[c].at = "list" /\ DOMAIN req[c] = {"at", "rest", "found", "query"}
      BY <2>5 DEF ReadListedVote, ApiInv, RequestsInv, Serving
    <3>3. PICK r : /\ req' = [req EXCEPT ![c] = r]
                   /\ \/ \E x, y : r = [req[c] EXCEPT !.rest = x, !.found = y]
                      \/ \E code, body : r = Reply(code, body)
      BY <2>5, <3>1 DEF ReadListedVote, Goes
    <3>4. CASE \E x, y : r = [req[c] EXCEPT !.rest = x, !.found = y]
      <4>1. PICK x, y : r = [req[c] EXCEPT !.rest = x, !.found = y]
        BY <3>4
      <4>2. r.at = "list"
        BY <3>1, <4>1
      <4> QED
        BY <3>3, <4>2
    <3>5. CASE \E code, body : r = Reply(code, body)
      BY <2>0, <3>3, <3>5
    <3> QED
      BY <3>3, <3>4, <3>5
  <2>6. CASE ReadVoteById(c)
    BY <2>6 DEF ReadVoteById, Goes, Reply
  <2> QED
    BY <2>1, <2>2, <2>3, <2>4, <2>5, <2>6
<1>6. acked' = acked /\ alone' = alone /\ steady' = steady
  BY <1>1 DEF ackVars
<1>7. faults' \in Nat /\ faults <= faults'
  BY <1>3
<1>8. acked = {} => steady = {}
  BY DEF ConfigInv
<1> QED
  BY <1>2, <1>3, <1>4, <1>5, <1>6, <1>7, <1>8, ConfigKept

\* A request for the configuration reads its parts, or is answered; or a
\* statement of any request fails.
LEMMA ConfigRead ==
    ASSUME ApiInv, ConfigInv, NEW c \in Client,
           \/ GetConfig(c) \/ ReadDelegators(c) \/ ReadDenied(c) \/ Answer(c)
           \/ ArrivalFails(c) \/ StatementFails(c)
    PROVE  ConfigInv'
<1>1. server = "up" /\ faults \in Nat
  BY ServedWhileUp
  DEF ApiInv, RequestsInv, GetConfig, ReadDelegators, ReadDenied, Answer, ArrivalFails,
      StatementFails, Arrive
<1>2. (acked = {} => steady = {}) /\ \A config \in acked : Saved(config)
  BY DEF ConfigInv
<1>3. CASE GetConfig(c)
  <2>1. PICK r : r = IF db.config = None THEN Reply("NOT_FOUND", <<>>)
                     ELSE [at |-> "delegators", row |-> db.config]
    OBVIOUS
  <2>2. /\ req' = [req EXCEPT ![c] = r]
        /\ steady' = (IF acked = {} THEN steady ELSE steady \cup {c})
        /\ UNCHANGED <<db, server, faults, acked, alone>>
    BY <1>3, <2>1 DEF GetConfig, Arrive
  <2>3. r.at # "update"
    BY <2>1 DEF Reply
  <2>4. \A config \in acked : Knows(r, config)'
    BY <1>2, <2>1 DEF Saved, Knows
  <2>5. faults' \in Nat /\ faults <= faults' /\ steady' \subseteq steady \cup {c}
    BY <1>1, <2>2
  <2>6. acked = {} => steady' = {}
    BY <1>2, <2>2
  <2> QED
    BY <1>1, <2>2, <2>3, <2>4, <2>5, <2>6, ConfigKept
<1>4. CASE ReadDelegators(c)
  <2>1. PICK r : r = [at |-> "denied", row |-> req[c].row, delegators |-> db.delegators]
    OBVIOUS
  <2>2. /\ req[c].at = "delegators" /\ req' = [req EXCEPT ![c] = r]
        /\ UNCHANGED <<db, server, faults, acked, alone, steady>>
    BY <1>4, <2>1 DEF ReadDelegators, Goes, ackVars
  <2>3. r.at = "denied" /\ r.row = req[c].row /\ r.delegators = db.delegators
    BY <2>1
  <2>4. c \in steady => \A config \in acked : Knows(r, config)'
    <3> SUFFICES ASSUME c \in steady, NEW config \in acked PROVE Knows(r, config)'
      OBVIOUS
    <3>1. Knows(req[c], config) /\ Saved(config)
      BY <1>2 DEF ConfigInv
    <3> QED
      BY <2>2, <2>3, <3>1 DEF Knows, Saved
  <2>5. faults' \in Nat /\ faults <= faults'
    BY <1>1, <2>2
  <2> QED
    BY <1>1, <1>2, <2>2, <2>3, <2>4, <2>5, ConfigKept
<1>5. CASE ReadDenied(c)
  <2>1. PICK b : b = [row |-> req[c].row, delegators |-> req[c].delegators, denied |-> db.denied]
    OBVIOUS
  <2>2. PICK r : r = Reply("OK", <<b>>)
    OBVIOUS
  <2>3. /\ req[c].at = "denied" /\ req' = [req EXCEPT ![c] = r]
        /\ UNCHANGED <<db, server, faults, acked, alone, steady>>
    BY <1>5, <2>1, <2>2 DEF ReadDenied, Goes, ackVars
  <2>4. r.at = "reply" /\ r.code = "OK" /\ r.body[1] = b
    BY <2>2 DEF Reply
  <2>5. b.row = req[c].row /\ b.delegators = req[c].delegators /\ b.denied = db.denied
    BY <2>1
  <2>6. c \in steady => \A config \in acked : Knows(r, config)'
    <3> SUFFICES ASSUME c \in steady, NEW config \in acked PROVE Knows(r, config)'
      OBVIOUS
    <3>1. Knows(req[c], config) /\ Saved(config)
      BY <1>2 DEF ConfigInv
    <3> QED
      BY <2>3, <2>4, <2>5, <3>1 DEF Knows, Saved
  <2>7. faults' \in Nat /\ faults <= faults'
    BY <1>1, <2>3
  <2> QED
    BY <1>1, <1>2, <2>3, <2>4, <2>6, <2>7, ConfigKept
<1>6. CASE Answer(c)
  <2>1. PICK r : r = Idle
    OBVIOUS
  <2>2. /\ req' = [req EXCEPT ![c] = r] /\ steady' = steady \ {c}
        /\ UNCHANGED <<db, server, faults, acked, alone>>
    BY <1>6, <2>1 DEF Answer, Goes
  <2>3. r.at # "update"
    BY <2>1 DEF Idle
  <2>4. faults' \in Nat /\ faults <= faults' /\ c \notin steady' /\ steady' \subseteq steady
    BY <1>1, <2>2
  <2>5. acked = {} => steady' = {}
    BY <1>2, <2>2
  <2> QED
    BY <1>1, <2>2, <2>3, <2>4, <2>5, ConfigKept
<1>7. CASE ArrivalFails(c) \/ StatementFails(c)
  <2>1. PICK code : Failed(c, code) /\ code # "OK"
    BY <1>7 DEF ArrivalFails, StatementFails
  <2>2. PICK r : r = Reply(code, <<>>)
    OBVIOUS
  <2>3. /\ req' = [req EXCEPT ![c] = r]
        /\ UNCHANGED <<db, server, acked, alone, steady>>
        /\ faults' = faults + 1
    BY <2>1, <2>2 DEF Failed, Fault, ackVars
  <2>4. r.at = "reply" /\ r.code # "OK"
    BY <2>1, <2>2 DEF Reply
  <2>5. faults' \in Nat /\ faults <= faults' /\ faults' > 0
    BY <1>1, <2>3
  <2>6. \A config \in acked : Knows(r, config)'
    BY <2>4, <2>5 DEF Knows
  <2> QED
    BY <1>1, <1>2, <2>3, <2>4, <2>5, <2>6, ConfigKept
<1> QED
  BY <1>3, <1>4, <1>5, <1>6, <1>7

\* An update begins: what was in force no longer is.
LEMMA ConfigPosted ==
    ASSUME ApiInv, ConfigInv, NEW c \in Client, PostConfig(c)
    PROVE  ConfigInv'
<1>1. PICK config \in Bodies :
          Arrive(c, [at |-> "update", todo |-> update_config(config), config |-> config])
  BY DEF PostConfig
<1>2. PICK q : q = update_config(config)
  OBVIOUS
<1>3. PICK r : r = [at |-> "update", todo |-> q, config |-> config]
  OBVIOUS
<1>4. /\ server = "up" /\ server' = "up" /\ req' = [req EXCEPT ![c] = r]
      /\ acked' = {} /\ steady' = {} /\ alone' = (\A d \in Client : ~Updating(d))
  BY <1>1, <1>2, <1>3 DEF PostConfig, Arrive, Updating
<1>5. RowSaving(config, q)'
  BY <1>2, ApiAssumption, UpdateProgram DEF IsConfig
<1>6. r.config = config /\ r.todo = q
  BY <1>3
<1>7. req'[c] = r /\ \A d \in Client \ {c} : req'[d] = req[d]
  BY <1>4 DEF ApiInv, RequestsInv
<1>8. alone' => \A d \in Client : Updating(d)' => d = c
  BY <1>4, <1>7 DEF Updating
<1>9. alone' => \A d \in Client : Updating(d)' => RowSaving(req[d].config, req[d].todo)'
  BY <1>5, <1>6, <1>7, <1>8
<1> QED
  BY <1>4, <1>8, <1>9 DEF ConfigInv

\* A statement of the only update: the row still is to come or is written.
LEMMA RowTail ==
    ASSUME NEW config, NEW q, IsList(q), q # <<>>, RowSaving(config, q),
           db'.config = IF Table(Head(q)) = "config" THEN Row(Head(q)) ELSE db.config
    PROVE  RowSaving(config, Tail(q))'
<1>1. /\ 1 \in DOMAIN q /\ Head(q) = q[1] /\ Len(q) \in Nat /\ DOMAIN q = 1..Len(q)
      /\ DOMAIN Tail(q) = 1..(Len(q) - 1)
      /\ \A i \in 1..(Len(q) - 1) : Tail(q)[i] = q[i + 1]
      /\ \A i \in DOMAIN q : i = 1 \/ (i - 1 \in DOMAIN Tail(q) /\ q[i] = Tail(q)[i - 1])
  BY TailOfList, ListFacts
<1>2. \A j \in DOMAIN Tail(q) : Table(Tail(q)[j]) = "config" => Row(Tail(q)[j]) = config.row
  <2>1. \A j \in DOMAIN Tail(q) : j + 1 \in DOMAIN q /\ Tail(q)[j] = q[j + 1]
    BY <1>1
  <2> QED
    BY <2>1 DEF RowSaving
<1>3. CASE Table(Head(q)) = "config"
  BY <1>1, <1>2, <1>3 DEF RowSaving
<1>4. CASE Table(Head(q)) # "config"
  <2>1. CASE db.config = config.row
    BY <1>2, <1>4, <2>1 DEF RowSaving
  <2>2. CASE \E j \in DOMAIN q : Table(q[j]) = "config"
    <3>1. PICK j \in DOMAIN q : Table(q[j]) = "config"
      BY <2>2
    <3>2. j - 1 \in DOMAIN Tail(q) /\ Table(Tail(q)[j - 1]) = "config"
      BY <1>1, <1>4, <3>1
    <3> QED
      BY <1>2, <3>2 DEF RowSaving
  <2> QED
    BY <2>1, <2>2 DEF RowSaving
<1> QED
  BY <1>3, <1>4

\* Nothing is to come.
LEMMA NothingToCome ==
    ASSUME NEW config, Saving(config, <<>>), RowSaving(config, <<>>)
    PROVE  Saved(config)
<1>1. \A table, list : ToCome(table, list, <<>>) = {}
  BY DEF ToCome
<1> QED
  BY <1>1 DEF Saving, RowSaving, Saved

\* A statement of an update; with its last one the configuration is in force,
\* if the update was alone.
LEMMA ConfigWritten ==
    ASSUME ApiInv, ConfigInv, NEW c \in Client, UpdateConfig(c)
    PROVE  ConfigInv'
<1>1. server = "up" /\ req[c].at = "update"
  BY ServedWhileUp DEF UpdateConfig
<1>2. PICK r : r = req[c]
  OBVIOUS
<1>3. /\ DOMAIN r = {"at", "todo", "config"} /\ IsList(r.todo) /\ r.todo # <<>>
      /\ \A j \in DOMAIN r.todo : OfConfig(r.todo[j])
      /\ Saving(r.config, r.todo)
  BY <1>1, <1>2 DEF ApiInv, RequestsInv, Serving
<1>4. PICK s : s = Head(r.todo)
  OBVIOUS
<1>5. OfConfig(s)
  BY <1>3, <1>4, TailOfList
<1>6. PICK rest : rest = Tail(r.todo)
  OBVIOUS
<1>7. PICK next : next = IF rest = <<>> THEN Reply("OK", <<>>) ELSE [r EXCEPT !.todo = rest]
  OBVIOUS
<1>8. /\ db' = Apply(db, s)
      /\ acked' = (IF rest = <<>> /\ alone THEN {r.config} ELSE acked)
      /\ req' = [req EXCEPT ![c] = next] /\ server' = "up"
      /\ UNCHANGED <<alone, steady>>
  BY <1>1, <1>2, <1>4, <1>6, <1>7 DEF UpdateConfig, Goes
<1>9. /\ db.delegators \subseteq db'.delegators /\ db.denied \subseteq db'.denied
      /\ db'.config = (IF Table(s) = "config" THEN Row(s) ELSE db.config)
      /\ Table(s) = "delegator_public_keys" => Row(s) \in db'.delegators
      /\ Table(s) = "auto_deny_addresses" => Row(s) \in db'.denied
  BY <1>5, <1>8, ConfigStatement DEF ApiInv, TablesInv
<1>10. acked = {} /\ steady = {}
  BY <1>1 DEF ConfigInv, Updating
<1>11. req'[c] = next /\ \A d \in Client \ {c} : req'[d] = req[d]
  BY <1>8 DEF ApiInv, RequestsInv
<1>12. alone => \A d \in Client : Updating(d)' => d = c
  BY <1>1, <1>11 DEF ConfigInv, Updating
<1>13. alone => RowSaving(r.config, rest)' /\ Saving(r.config, rest)'
  <2> SUFFICES ASSUME alone PROVE RowSaving(r.config, rest)' /\ Saving(r.config, rest)'
    OBVIOUS
  <2>1. RowSaving(r.config, r.todo)
    BY <1>1, <1>2 DEF ConfigInv, Updating
  <2>2. PICK config : config = r.config
    OBVIOUS
  <2>3. PICK q : q = r.todo
    OBVIOUS
  <2>4. Saving(config, Tail(q))'
    BY <1>3, <1>4, <1>9, <2>2, <2>3, SavingTail
  <2>5. RowSaving(config, Tail(q))'
    BY <1>3, <1>4, <1>9, <2>1, <2>2, <2>3, RowTail
  <2> QED
    BY <1>6, <2>2, <2>3, <2>4, <2>5
<1>14. CASE rest = <<>>
  <2>1. next.at = "reply"
    BY <1>7, <1>14 DEF Reply
  <2>2. alone => \A d \in Client : ~Updating(d)'
    BY <1>11, <1>12, <2>1 DEF Updating
  <2>3. alone => Saved(r.config)'
    BY <1>13, <1>14 DEF Saved, Saving, RowSaving, ToCome
  <2> QED
    BY <1>8, <1>10, <1>14, <2>2, <2>3 DEF ConfigInv
<1>15. CASE rest # <<>>
  <2>1. next.config = r.config /\ next.todo = rest
    BY <1>3, <1>7, <1>15
  <2>2. alone => \A d \in Client : Updating(d)' => RowSaving(req[d].config, req[d].todo)'
    BY <1>11, <1>12, <1>13, <2>1
  <2> QED
    BY <1>8, <1>10, <1>12, <1>15, <2>2 DEF ConfigInv
<1> QED
  BY <1>14, <1>15

\* What a statement of a start does to the configuration.
LEMMA ConfigOfStart ==
    ASSUME ApiInv, StartStatement, NEW s, s = Head(todo)
    PROVE  /\ db'.config = IF Table(s) = "config" THEN Row(s) ELSE db.config
           /\ db.delegators \subseteq db'.delegators /\ db.denied \subseteq db'.denied
<1>1. /\ server = "starting" /\ todo # <<>> /\ db' = Apply(db, s) /\ DOMAIN db = DbFields
  BY DEF StartStatement, ApiInv, TablesInv
<1>2. \/ OfConfig(s)
      \/ Table(s) = "transactions"
      \/ Table(s) = "votes"
  <2>1. IsList(todo) /\ \A j \in DOMAIN todo : OfStart(todo, j)
    BY DEF ApiInv, ServerInv
  <2>2. OfStart(todo, 1) /\ todo[1] = s
    BY <1>1, <2>1, TailOfList
  <2> QED
    BY <2>2 DEF OfStart
<1>3. CASE OfConfig(s)
  BY <1>1, <1>3, ConfigStatement
<1>4. CASE Table(s) = "transactions"
  BY <1>1, <1>4 DEF Apply, add_transaction, DbFields
<1>5. CASE Table(s) = "votes"
  BY <1>1, <1>5 DEF Apply, add_vote, DbFields
<1> QED
  BY <1>2, <1>3, <1>4, <1>5

\* Starting, up to serving, and stopping: there are no requests.
LEMMA ConfigStarts ==
    ASSUME ApiInv, ConfigInv,
           \/ \E raw \in Files : RunWithFile(raw)
           \/ Run \/ RunSimulator \/ RunSwagger \/ StartStatement \/ Serve \/ Crash
    PROVE  ConfigInv'
<1>1. ASSUME UNCHANGED req, server # "up"
      PROVE  (\A c \in Client : ~Updating(c)') /\ steady = {}
  <2>1. \A c \in Client : req[c] = Idle
    BY <1>1 DEF ApiInv, ServerInv
  <2>2. \A c \in Client : req[c].at = "idle"
    BY <2>1 DEF Idle
  <2>3. \A c \in Client : c \notin steady
    BY <2>2, NotSteady
  <2> QED
    BY <1>1, <2>2, <2>3 DEF Updating, ConfigInv
<1>2. ASSUME NEW cmd, NEW q, NEW config, Begin(cmd, q, config),
             IF config = None THEN q = <<>> ELSE RowSaving(config, q)'
      PROVE  ConfigInv'
  <2>1. /\ server = "down" /\ command' = [name |-> cmd, config |-> config] /\ todo' = q
        /\ UNCHANGED <<db, req, alone, steady>>
        /\ acked' = (IF config = None THEN acked ELSE {})
    BY <1>2 DEF Begin
  <2>2. command'.config = config
    BY <2>1
  <2>3. (\A c \in Client : ~Updating(c)') /\ steady' = {}
    BY <1>1, <2>1
  <2>4. \A p \in acked' : Saved(p)'
    BY <2>1 DEF ConfigInv, Saved
  <2>5. config # None => acked' = {}
    BY <2>1
  <2> QED
    BY <1>2, <2>1, <2>2, <2>3, <2>4, <2>5 DEF ConfigInv
<1>3. ASSUME NEW raw \in Files, RunWithFile(raw)
      PROVE  ConfigInv'
  <2>1. PICK config : config = FromRaw(raw)
    OBVIOUS
  <2>2. PICK q : q = update_config(config)
    OBVIOUS
  <2>3. Begin("run", q, config)
    BY <1>3, <2>1, <2>2 DEF RunWithFile
  <2>4. IsConfig(config)
    <3>1. config.row = raw.row /\ config.delegators = OrEmpty(raw.delegators)
          /\ config.denied = OrEmpty(raw.denied)
      BY <2>1 DEF FromRaw
    <3> QED
      BY <3>1, EmptyList, ApiAssumption DEF OrEmpty, IsConfig
  <2>5. RowSaving(config, q)' /\ config # None
    BY <2>1, <2>2, <2>4, ConfigProgram, ConfigAssumption
  <2> QED
    BY <1>2, <2>3, <2>5
<1>4. CASE Run \/ RunSwagger
  BY <1>2, <1>4 DEF Run, RunSwagger
<1>5. CASE RunSimulator
  <2>1. PICK drawn \in [Txid -> Draws] :
            Begin("simulator", update_config(from_secret_key) \o generate_txs_votes(drawn),
                  from_secret_key)
    BY <1>5 DEF RunSimulator
  <2>2. PICK q : q = update_config(from_secret_key) \o generate_txs_votes(drawn)
    OBVIOUS
  <2>3. PICK config : config = from_secret_key
    OBVIOUS
  <2>4. RowSaving(config, q)' /\ config # None
    BY <2>2, <2>3, SimulatorProgram, ConfigAssumption
  <2> QED
    BY <1>2, <2>1, <2>2, <2>3, <2>4
<1>6. CASE StartStatement
  <2>1. /\ server = "starting" /\ todo # <<>> /\ todo' = Tail(todo)
        /\ UNCHANGED <<server, command, req, acked, alone, steady>>
    BY <1>6 DEF StartStatement, ackVars
  <2>2. PICK s : s = Head(todo)
    OBVIOUS
  <2>3. /\ db'.config = (IF Table(s) = "config" THEN Row(s) ELSE db.config)
        /\ db.delegators \subseteq db'.delegators /\ db.denied \subseteq db'.denied
    BY <1>6, <2>2, ConfigOfStart
  <2>4. (\A c \in Client : ~Updating(c)') /\ steady' = {}
    BY <1>1, <2>1
  <2>5. CASE command.config # None
    <3>1. acked = {} /\ RowSaving(command.config, todo) /\ IsList(todo)
      BY <2>1, <2>5 DEF ConfigInv, ApiInv, ServerInv
    <3>2. PICK config : config = command.config
      OBVIOUS
    <3>3. PICK q : q = todo
      OBVIOUS
    <3>4. RowSaving(config, Tail(q))'
      BY <2>1, <2>2, <2>3, <3>1, <3>2, <3>3, RowTail
    <3>5. RowSaving(command.config, todo)'
      BY <2>1, <3>2, <3>3, <3>4
    <3> QED
      BY <2>1, <2>4, <3>1, <3>5 DEF ConfigInv
  <2>6. CASE command.config = None
    BY <2>1, <2>6 DEF ConfigInv
  <2> QED
    BY <2>5, <2>6
<1>7. CASE Serve
  <2>1. /\ server = "starting" /\ todo = <<>> /\ server' = "up"
        /\ acked' = (IF command.config = None THEN acked ELSE {command.config})
        /\ UNCHANGED <<db, req, alone, steady>>
    BY <1>7 DEF Serve
  <2>2. (\A c \in Client : ~Updating(c)') /\ steady' = {}
    BY <1>1, <2>1
  <2>3. command.config # None => Saved(command.config)
    BY <2>1, NothingToCome DEF ConfigInv, ApiInv, ServerInv
  <2>4. \A config \in acked' : Saved(config)'
    BY <2>1, <2>3 DEF ConfigInv, Saved
  <2> QED
    BY <2>1, <2>2, <2>4 DEF ConfigInv
<1>8. CASE Crash
  <2>1. /\ server' = "down" /\ req' = [c \in Client |-> Idle] /\ steady' = {}
        /\ (UNCHANGED <<db, acked>> \/ acked' = {})
    BY <1>8 DEF Crash
  <2>2. \A c \in Client : ~Updating(c)'
    BY <2>1 DEF Updating, Idle
  <2>3. \A config \in acked' : Saved(config)'
    BY <2>1 DEF ConfigInv, Saved
  <2> QED
    BY <2>1, <2>2, <2>3 DEF ConfigInv
<1> QED
  BY <1>3, <1>4, <1>5, <1>6, <1>7, <1>8

\* Every step keeps it.
LEMMA NextConfigInv == ApiInv /\ ConfigInv /\ [Next]_vars => ConfigInv'
<1> SUFFICES ASSUME ApiInv, ConfigInv, [Next]_vars PROVE ConfigInv'
  OBVIOUS
<1>1. CASE UNCHANGED vars
  <2>1. UNCHANGED <<db, server, command, todo, req, acked, alone, steady, faults>>
    BY <1>1 DEF vars, ackVars
  <2> QED
    BY <2>1 DEF ConfigInv, Updating, RowSaving, Saved, Knows
<1>2. ASSUME NEW c \in Client, PostConfig(c)
      PROVE  ConfigInv'
  BY <1>2, ConfigPosted
<1>3. ASSUME NEW c \in Client, UpdateConfig(c)
      PROVE  ConfigInv'
  BY <1>3, ConfigWritten
<1> QED
  BY <1>1, <1>2, <1>3, ConfigStarts, ConfigUntouched, ConfigRead DEF Next

-----------------------------------------------------------------------------
(* The theorems.                                                           *)

\* It always holds.
LEMMA ApiInvariant == Spec => []ApiInv
BY InitApiInv, NextApiInv, PTL DEF Spec

\* The tables keep their types, no request survives the process, and the
\* consensus of a row stays a percentage, whatever requests are served
\* together and wherever the process stops.
THEOREM ApiTypes == Spec => []TypeOK
<1>1. ApiInv => TypeOK
  <2> SUFFICES ASSUME ApiInv PROVE TypeOK
    OBVIOUS
  <2>1. ToSet(db.transactions) \subseteq Txid /\ IsInjective(db.transactions)
    BY DEF ApiInv, TablesInv, ToSet
  <2>2. ASSUME NEW t \in DOMAIN db.votes
        PROVE  /\ db.votes[t].vote_choice \in Choice \cup {None}
               /\ db.votes[t].vote_status \in Status
               /\ db.votes[t].current_consensus \in 0..100
    <3>1. t \in Txid /\ base[t] \in 0..99 /\ cast[t] \in Seq(Choice)
      BY VotesOnTxids DEF ApiInv, TablesInv
    <3>2. PICK ch \in Choice \cup {None}, st \in Status, n \in 0..100 :
              db.votes[t] = Vote(ch, st, n)
      <4>1. CASE cast[t] = <<>>
        <5>1. base[t] \in 0..100
          BY <3>1
        <5> QED
          BY <4>1, <5>1 DEF ApiInv, TablesInv
      <4>2. CASE cast[t] # <<>>
        <5>1. \A b \in 0..99 : b + 1 \in 0..100
          OBVIOUS
        <5>2. Last(cast[t]) \in Choice
          BY <3>1, <4>2 DEF Last
        <5>3. "pending" \in Status
          BY DEF Status
        <5> QED
          BY <3>1, <4>2, <5>1, <5>2, <5>3 DEF ApiInv, TablesInv
      <4> QED
        BY <4>1, <4>2
    <3> QED
      BY <3>2 DEF Vote
  <2> QED
    BY <2>1, <2>2 DEF TypeOK, ApiInv, TablesInv, ServerInv
<1> QED
  BY <1>1, ApiInvariant, PTL

\* Every transaction has its vote between any two statements, so a request
\* for one never finds the database corrupted.
THEOREM VotesMatchTransactions == Spec => []VoteForEachTransaction
<1>1. ApiInv => VoteForEachTransaction
  BY DEF ApiInv, TablesInv, RequestsInv, Serving, VoteForEachTransaction
<1> QED
  BY <1>1, ApiInvariant, PTL

\* A vote that arrives after one was written is refused, in every order of
\* the statements of any number of requests.
THEOREM LateVotesRefused == Spec => []LateVoteRefused
<1>1. ApiInv => LateVoteRefused
  BY DEF ApiInv, RequestsInv, Serving, LateVoteRefused
<1> QED
  BY <1>1, ApiInvariant, PTL

\* Racing votes, a stop and a restart leave a row that counts one vote.
THEOREM VotesRecorded == Spec => []RecordedVote
<1>1. ApiInv => RecordedVote
  BY DEF ApiInv, TablesInv, RecordedVote
<1> QED
  BY <1>1, ApiInvariant, PTL

\* A configuration that was written alone and to its end is in force until
\* the next update begins, and a request that puts it together from three
\* reads has all of it, whatever other requests are served and wherever the
\* process stops (update_config, get_config).
THEOREM LatestConfigIsServed == Spec => []LatestConfigServed
<1>1. Init => ConfigInv
  BY DEF Init, ConfigInv, Updating, Idle
<1>2. ConfigInv => LatestConfigServed
  BY DEF ConfigInv, Saved, Knows, LatestConfigServed
<1> QED
  BY <1>1, <1>2, InitApiInv, NextApiInv, NextConfigInv, PTL DEF Spec

\* There are no more rows than ids.
LEMMA TableIsShort ==
    ASSUME TablesInv
    PROVE  Len(db.transactions) \in Nat /\ Len(db.transactions) <= NumTxs
<1> DEFINE n == Len(db.transactions)
<1>1. n \in Nat /\ db.transactions \in [1..n -> Txid] /\ NumTxs \in Nat
  BY ApiAssumption DEF TablesInv
<1>2. IsFiniteSet(Txid) /\ Cardinality(Txid) = NumTxs
  BY <1>1, FS_Interval DEF Txid
<1> HIDE DEF n
<1>3. IsFiniteSet(1..n) /\ Cardinality(1..n) = n
  <2>1. IsFiniteSet(1..n) /\ Cardinality(1..n) = IF 1 > n THEN 0 ELSE n - 1 + 1
    BY <1>1, FS_Interval
  <2> QED
    BY <1>1, <2>1
<1>4. db.transactions \in Injection(1..n, Txid)
  BY <1>1 DEF TablesInv, IsInjective, Injection
<1>5. Cardinality(1..n) <= Cardinality(Txid)
  BY <1>2, <1>4, FS_Injection
<1> QED
  BY <1>1, <1>2, <1>3, <1>5 DEF n

\* Arithmetic of usize that does not overflow.
LEMMA Fits ==
    ASSUME NEW x \in Nat, x < USIZE
    PROVE  x % USIZE = x
BY ApiAssumption

\* The pages of a list that is short against a usize.
LEMMA PageOf ==
    ASSUME NEW S, NEW items \in Seq(S), Len(items) <= NumTxs,
           NEW page \in 1..(USIZE - 1), NEW limit \in 0..(USIZE - 1),
           (page - 1) * limit < USIZE
    PROVE  paginate_items(items, page, limit) =
              SubSeq(items, (page - 1) * limit + 1, Lesser(Len(items), page * limit))
<1> DEFINE len == Len(items)
           off == (page - 1) * limit
           start == Lesser(len, off % USIZE)
           last == Lesser(len, (start + limit) % USIZE)
<1>1. USIZE \in Nat /\ NumTxs \in Nat /\ 2 * NumTxs < USIZE
      /\ page # None /\ limit # None
  BY ApiAssumption
<1>2. paginate_items(items, page, limit) = SubSeq(items, Lesser(start, last) + 1, last)
  BY <1>1 DEF paginate_items
<1>3. len \in Nat /\ off \in Nat /\ page * limit = off + limit
  BY <1>1
<1>4. page >= 2 => limit <= off
  BY <1>1
<1>5. page = 1 => off = 0
  BY <1>1
<1> HIDE DEF len, off
<1>6. off < USIZE
  BY DEF off
<1>7. off % USIZE = off
  BY <1>3, <1>6, Fits
<1>8. start = Lesser(len, off)
  BY <1>7
<1>9. CASE off >= len
  <2>1. start = len
    BY <1>3, <1>8, <1>9 DEF Lesser
  <2>2. (start + limit) % USIZE \in Nat
    BY <1>1, <1>3, <2>1
  <2> HIDE DEF start
  <2>3. last \in Nat /\ last <= len /\ Lesser(start, last) = last
    BY <1>3, <2>1, <2>2 DEF Lesser
  <2> HIDE DEF last
  <2>4. SubSeq(items, last + 1, last) = <<>>
    BY <2>3, SubSeqEmpty
  <2>5. Lesser(len, page * limit) = len
    BY <1>1, <1>3, <1>9 DEF Lesser
  <2>6. SubSeq(items, off + 1, len) = <<>>
    BY <1>3, <1>9, SubSeqEmpty
  <2> QED
    BY <1>2, <2>3, <2>4, <2>5, <2>6 DEF off, len
<1>10. CASE off < len
  <2>1. start = off
    BY <1>3, <1>8, <1>10 DEF Lesser
  <2>2. off + limit \in Nat /\ off + limit < USIZE
    BY <1>1, <1>3, <1>4, <1>5, <1>10 DEF len
  <2>3. last = Lesser(len, off + limit)
    BY <2>1, <2>2, Fits
  <2> HIDE DEF start, last
  <2>4. Lesser(start, last) = off
    BY <1>3, <1>10, <2>1, <2>3 DEF Lesser
  <2> QED
    BY <1>2, <1>3, <2>3, <2>4 DEF off, len
<1> QED
  BY <1>3, <1>9, <1>10

\* No page of the list loses an item to the arithmetic, for every number of
\* transactions below half of a usize.
THEOREM PagesAreRuns == Spec => []PagesPartition
<1>1. ApiInv => PagesPartition
  <2> SUFFICES ASSUME ApiInv, NEW page \in 1..(USIZE - 1), NEW limit \in 0..(USIZE - 1),
                      (page - 1) * limit < USIZE
               PROVE  paginate_items(db.transactions, page, limit) =
                         SubSeq(db.transactions, (page - 1) * limit + 1,
                                Lesser(Len(db.transactions), page * limit))
    BY DEF PagesPartition
  <2>1. db.transactions \in Seq(Txid) /\ Len(db.transactions) <= NumTxs
    BY TableIsShort DEF ApiInv, TablesInv
  <2> QED
    BY <2>1, PageOf
<1> QED
  BY <1>1, ApiInvariant, PTL
=============================================================================
